--------------------------- MODULE MCServerRequests ---------------------------
(* The instances the parts of ServerRequests are checked on.                *)
EXTENDS ServerRequests

CONSTANTS e1, e2, k, fresh, p1, p2

-----------------------------------------------------------------------------
(* Two artifacts of tenant a, two concurrent executions.                    *)
Meta(hold, tombstone) == [hold |-> hold, tombstone |-> tombstone, safePath |-> TRUE, sha |-> TRUE]
Plain    == Meta(FALSE, FALSE)
Whole    == [named |-> TRUE, arts |-> {1, 2}, meta |-> <<Plain, Plain>>, items |-> {}]
Partial  == [Whole EXCEPT !.meta = <<Meta(FALSE, TRUE), Plain>>]
BadPath  == [Whole EXCEPT !.meta = <<Plain, [Plain EXCEPT !.safePath = FALSE]>>]
BusyJob  == [Whole EXCEPT !.items = {[class |-> "job", tenant |-> "a", hold |-> FALSE, state |-> "running"]}]

MCArtifact == {1, 2}
MCTenant   == {"a", "b"}
MCOwnerOf  == [x \in MCArtifact |-> "a"]
MCExecutor == {e1, e2}
MCScope    == {Whole, Partial, BadPath, BusyJob}
-----------------------------------------------------------------------------
(* Three files of tenant a, of which two share a run, and one of tenant b   *)
(* in that run; a preflight lists two rows.                                 *)
MCArtifactFile == 1 .. 4
MCTenantOfFile == [f \in MCArtifactFile |-> IF f = 2 THEN "b" ELSE "a"]
MCRunOfFile    == [f \in MCArtifactFile |-> IF f = 4 THEN "r2" ELSE "r1"]
MCReader       == {"a", "b"}

-----------------------------------------------------------------------------
(* Two secrets of tenant a and one of tenant b; one key that may be resent. *)
MCRef         == {"a1", "a2", "b1"}
MCTenantOfRef == [r \in MCRef |-> IF r = "b1" THEN "b" ELSE "a"]

Paper(R) == [given |-> TRUE, sound |-> TRUE, refs |-> R]
NoBody   == [said |-> FALSE, refs |-> {}, paper |-> NoPaper, planSound |-> TRUE,
             plan |-> {"secure-copy"}, brokerFit |-> TRUE]
About(R) == [NoBody EXCEPT !.said = TRUE, !.refs = R, !.paper = Paper(R)]

BodyOfA == {NoBody, About({"a1"}), About({"a1", "a2"}), About({"b1"}),
            [About({}) EXCEPT !.paper = Paper({"a2"})],
            [About({"a1", "a2"}) EXCEPT !.paper = Paper({"a1"}), !.plan = {"pending"}],
            [About({"a1"}) EXCEPT !.paper.sound = FALSE, !.planSound = FALSE, !.brokerFit = FALSE]}
MCBodyOf == [t \in {"a", "b"} |-> IF t = "a" THEN BodyOfA ELSE {}]

-----------------------------------------------------------------------------
(* Two steps, two input values, two posts at once and one verify run.       *)
MCStep  == {"s1", "s2"}
MCField == {"f1", "f2"}
MCPost  == {p1, p2}

-----------------------------------------------------------------------------
(* Three documents on two pages.  The text of "d1" shows in the row of      *)
(* "d12" as well.  Rendering is given two empty reads and four reads.       *)
MCDocument == {"d1", "d12", "d3"}
MCTextOf   == [d \in MCDocument |-> IF d = "d1" THEN {"d1", "d12"} ELSE {d}]

-----------------------------------------------------------------------------
(* An owner and a viewer with tokens, an operator and an owner with         *)
(* sessions, one of which has a fixed end.  Two page cookies.               *)
MCRoleOf == [x \in {"tokOwner", "tokViewer", "sesOwner", "sesOper"} |->
               CASE x \in {"tokOwner", "sesOwner"} -> "owner"
                 [] x = "sesOper" -> "operator" [] OTHER -> "viewer"]
MCTenantOf  == [x \in DOMAIN MCRoleOf |-> IF x = "tokViewer" THEN "t2" ELSE "t1"]
MCExpiresAt == [s \in {"sesOwner", "sesOper"} |-> IF s = "sesOwner" THEN 2 ELSE 0]

PlainRequest == [route |-> "home", bearer |-> "", cookie |-> "", page |-> "", origin |-> "",
          referer |-> "", csrf |-> FALSE, tenant |-> "", bodyTenant |-> "", live |-> FALSE]
BySession(s, route) == [PlainRequest EXCEPT !.route = route, !.cookie = s, !.origin = "own",
                                     !.csrf = TRUE, !.page = "p1"]
MCRequests ==
  {BySession("sesOwner", r) : r \in {"home", "stream", "logout", "confirm"}}
  \cup {[BySession(s, "approve") EXCEPT !.live = l] : s \in {"sesOwner", "sesOper"}, l \in BOOLEAN}
  \cup {[BySession("sesOwner", "confirm") EXCEPT !.origin = "listed", !.referer = x] : x \in {"", "own"}}
  \cup {[BySession("sesOper", "run") EXCEPT !.bodyTenant = "t1"],
        [BySession("sesOper", "stream") EXCEPT !.tenant = "t1"],
        [BySession("sesOper", "logout") EXCEPT !.bearer = "tokViewer"],
        [PlainRequest EXCEPT !.bearer = "tokOwner", !.route = "confirm", !.page = "p2", !.referer = "own"],
        [PlainRequest EXCEPT !.bearer = "tokOwner", !.route = "deletion", !.bodyTenant = "t2"],
        [PlainRequest EXCEPT !.bearer = "tokViewer", !.route = "metadata"],
        [PlainRequest EXCEPT !.route = "record"]}

-----------------------------------------------------------------------------
(* A public name, a second one the registry lacks, an intranet name that    *)
(* resolves to a private address, an address, and the service itself, on a  *)
(* loopback port.  Evidence is of tick 1, good for two ticks more; a record *)
(* brings newer evidence of its own.                                        *)
MCTarget   == {"shop", "docs", "intra", "10.0.0.5", "127.0.0.1:4310", "127.0.0.1:8000", "about:blank", "file:"}
MCAddress  == {"9.9.9.9", "10.0.0.5"}
MCSchemeOf == [t \in MCTarget |-> CASE t = "about:blank" -> "about" [] t = "file:" -> "file" [] OTHER -> "http"]
MCKindOf   == [x \in MCTarget \cup MCAddress |->
                 CASE x = "10.0.0.5" -> "private"
                   [] x \in {"127.0.0.1:4310", "127.0.0.1:8000"} -> "loopback"
                   [] OTHER -> "public"]
MCEntry    == {"*.shop", "docs", "all-local"}
MCCoversOf == [e \in MCEntry |-> CASE e = "*.shop" -> {"shop"} [] e = "docs" -> {"docs"}
                                   [] OTHER -> {"intra", "10.0.0.5", "127.0.0.1:4310", "127.0.0.1:8000"}]

None == [t \in {} |-> NoEvidence]
Ev(addresses, time) == [NoEvidence EXCEPT !.addresses = addresses, !.at = time, !.peers = addresses]
Alone == [mode |-> "local", external |-> FALSE, profile |-> "", anyInterface |-> FALSE,
          list |-> {}, registered |-> FALSE, registryValid |-> TRUE, registry |-> {},
          evidence |-> None, resolved |-> {}, peers |-> {}, asks |-> {}]
Outside == [Alone EXCEPT !.mode = "staging", !.list = {"*.shop"}, !.registered = TRUE,
                         !.registry = {"*.shop"},
                         !.evidence = [t \in {"shop"} |-> Ev({"9.9.9.9"}, 1)]]
OnPrem == [Alone EXCEPT !.profile = "on-prem", !.anyInterface = TRUE,
                        !.list = {"all-local", "*.shop"}, !.asks = {"resolved"},
                        !.resolved = {<<"intra", "10.0.0.5">>}, !.peers = {<<"10.0.0.5", "10.0.0.5">>}]
MCOperators == {Alone, Outside, OnPrem}

Bare == [target |-> "", profile |-> "", environment |-> "local", list |-> {}, registry |-> {},
         evidence |-> None, resolved |-> {}, peers |-> {}, asks |-> {}, waives |-> {}]
Shop == [Bare EXCEPT !.target = "shop", !.list = {"*.shop"}]
MCRecords ==
  {Shop,
   [Shop EXCEPT !.evidence = [t \in {"shop"} |-> [Ev({"9.9.9.9"}, 2) EXCEPT !.until = 3]]],
   [Shop EXCEPT !.list = {"*.shop", "docs"}, !.evidence = [t \in {"shop"} |-> Ev({"10.0.0.5"}, 2)]],
   [Bare EXCEPT !.target = "intra", !.waives = {"resolved"}, !.asks = {"fresh"}],
   [Bare EXCEPT !.target = "127.0.0.1:8000", !.registry = {"all-local"}]}

-----------------------------------------------------------------------------
(* Flows of three steps in every environment and class, with each gate.     *)
S(kind, text) == [kind |-> kind, text |-> text, review |-> FALSE]
Journeys == {<<S("wait", "plain"), S("act", "plain"), S("act", "destructive")>>,
             <<S("act", "plain"), S("open_record", "plain"), S("hover", "plain")>>,
             <<S("wait", "plain"), [S("act", "plain") EXCEPT !.review = TRUE]>>,
             <<S("act", "otp")>>}

MCFlow == [environment: {"local", "staging", "live-readonly", "live-action"},
           riskClass: {"read", "effectful", "destructive"}, reversible: BOOLEAN,
           irreversibleAt: {0, 2, 3, 4}, app: BOOLEAN, valuesSaved: {TRUE},
           startAllowed: {TRUE}, steps: Journeys]

Permit(m, b) == [runMode |-> m, scheduled |-> FALSE, allowlisted |-> b, dryRunPassed |-> b,
                 approved |-> b]
MCRunEnv == {Permit("local", FALSE), Permit("live-action", TRUE), Permit("live-action", FALSE),
             [Permit("live-action", TRUE) EXCEPT !.scheduled = TRUE], Permit("staging", FALSE)}
=============================================================================
