-------------------------------- MODULE Egress --------------------------------
(***************************************************************************)
(* Which targets a browser run may reach: the policy of lib/egress-*.js,   *)
(* the gates the server asks it at (webui/systems.js) and the check of     *)
(* every request a run's pages make (bin/pw-rpa.mjs newPage).              *)
(*                                                                         *)
(* A target is an http origin, or a URL of another scheme; an entry of an  *)
(* allowlist stands for the targets it covers.  The server passes no       *)
(* resolver, so what is known of a name's addresses comes from the         *)
(* operator's environment and from the record alone.  Times are in ticks,  *)
(* and 0 is a time that was not given.                                     *)
(***************************************************************************)
EXTENDS Naturals, FiniteSets, FiniteSetsExt

CONSTANTS
  Target, SchemeOf,      (* SchemeOf[t]: "http", "about", "file" or "other"    *)
  Address,               (* the IP addresses                                   *)
  KindOf,                (* of a target's host, and of an address              *)
  Literal,               (* the targets that are addresses themselves          *)
  OwnOrigin, OwnPort,    (* the service's origins; targets on one of its ports *)
  Entry, CoversOf,       (* allowlist entries, and the targets each covers     *)
  Operators, Records,    (* the settings, and the system records, that occur   *)
  MaxAge, Skew,          (* how old evidence may be, and the clocks' skew      *)
  MaxTick                (* bound: the clock                                   *)

Kind == {"public", "loopback", "private", "private-name", "link-local",
         "metadata", "multicast", "unspecified"}
Need == {"resolved", "fresh", "connection"}

\* The evidence about a name: its addresses, the names it is an alias of, when it was
\* resolved and until when it holds.
Evidence == [addresses: SUBSET Address, alias: SUBSET Target, broken: BOOLEAN,
             at: Nat, until: Nat, ttl: Nat, peers: SUBSET Address]

Pairs == SUBSET (Target \X Address)

SystemRecord(evidence) ==
  [target: Target \cup {""}, profile: STRING, environment: STRING,
   list: SUBSET Entry, registry: SUBSET Entry, evidence: {evidence},
   resolved: Pairs, peers: Pairs, asks: SUBSET Need, waives: SUBSET Need]

\* The names there is evidence about, and that of each.
SoundEvidence(x) == DOMAIN x \subseteq Target /\ \A t \in DOMAIN x : x[t] \in Evidence

ASSUME EgressAssumption ==
  /\ Literal \subseteq Target \cap Address
  /\ KindOf \in [Target \cup Address -> Kind]
  /\ CoversOf \in [Entry -> SUBSET Target]
  /\ {MaxAge, Skew} \subseteq Nat /\ MaxTick \in Nat \ {0}
  /\ \A r \in Records : r \in SystemRecord(r.evidence) /\ SoundEvidence(r.evidence)
  /\ \A o \in Operators : SoundEvidence(o.evidence) /\ o.asks \subseteq Need

VARIABLES
  tick,
  operator,     (* the environment the server and its children run with *)
  record,       (* the system's row; Unregistered before it is registered   *)
  queued,       (* a job of the system waits in the queue               *)
  child,        (* the settings, the record and the start of the run    *)
  last          (* the last request the run let through, and when       *)

egressVars == <<tick, operator, record, queued, child, last>>

Unregistered == [registered |-> FALSE]
NoChild     == [running |-> FALSE]
Nothing  == [admitted |-> FALSE]

-----------------------------------------------------------------------------
\* The record's profile, else the operator's, else the mode's.
Profile(o, r) ==
  IF r.profile # "" THEN r.profile
  ELSE IF o.profile # "" THEN o.profile
  ELSE IF o.external \/ o.mode # "local" THEN "public" ELSE "local"

\* specialAllowed, and public hosts.
Permitted(kind, profile) ==
  \/ kind = "public"
  \/ kind = "loopback" /\ profile # "public"
  \/ kind \in {"private", "private-name", "link-local"} /\ profile = "on-prem"

\* isControlPlaneTarget: an address of the machine, on a port of the service.
ControlPlane(o, t) ==
  \/ t \in OwnOrigin
  \/ /\ t \in OwnPort
     /\ \/ KindOf[t] \in {"loopback", "unspecified"}
        \/ KindOf[t] \in {"private", "link-local"} /\ o.anyInterface

InList(t, list) == \E e \in list : t \in CoversOf[e]

\* The lists of the operator and of the record, and the tenant's registry, to which a
\* record may add as well.  No list may name an entry the registry has not.
Registry(o, r) == o.registry \cup r.registry
Configured(o, r) == o.registered \/ r.registry # {}
RegistryAgrees(o, r, t) ==
  Configured(o, r) =>
    /\ o.registryValid
    /\ Registry(o, r) # {}
    /\ o.list \cup r.list \subseteq Registry(o, r)
    /\ InList(t, Registry(o, r))

OnLists(o, r, t) ==
  /\ RegistryAgrees(o, r, t)
  /\ \/ Profile(o, r) = "local" /\ KindOf[t] = "loopback"
     \/ InList(t, o.list \cup r.list
                    \cup (IF Configured(o, r) THEN Registry(o, r) ELSE {}))

-----------------------------------------------------------------------------
\* Several sources merge into one, which takes the newest of their times.  A bare list of
\* addresses counts where no source has more.
NoEvidence == [addresses |-> {}, alias |-> {}, broken |-> FALSE,
               at |-> 0, until |-> 0, ttl |-> 0, peers |-> {}]

Sources(o, r, t) == {s[t] : s \in {x \in {o.evidence, r.evidence} : t \in DOMAIN x}}

Merge(S) ==
  [addresses |-> UNION {e.addresses : e \in S},
   alias     |-> UNION {e.alias : e \in S},
   broken    |-> \E e \in S : e.broken,
   at        |-> Max({e.at : e \in S}),
   until     |-> Max({e.until : e \in S}),
   ttl       |-> Max({e.ttl : e \in S}),
   peers     |-> UNION {e.peers : e \in S}]

Known(o, r, t) ==
  IF Sources(o, r, t) # {} THEN Merge(Sources(o, r, t))
  ELSE [NoEvidence EXCEPT !.addresses = {a \in Address : <<t, a>> \in o.resolved \cup r.resolved}]

\* validateResolverEvidenceFreshness.
IsFresh(e, time, needs) ==
  /\ "fresh" \in needs => e.at # 0 \/ e.until # 0
  /\ e.at <= time + Skew
  /\ e.until # 0 => time <= e.until + Skew
  /\ e.at # 0 => time <= e.at + MaxAge + Skew
  /\ e.at # 0 /\ e.ttl # 0 => time <= e.at + e.ttl + Skew

\* validateConnectionIpEvidence: whom the connection reached is one of those addresses.
Peers(o, r, t) == {a \in Address : <<t, a>> \in o.peers \cup r.peers}
ReachedOne(peers, addresses, profile, needs) ==
  /\ "connection" \in needs => peers # {}
  /\ \A a \in peers : Permitted(KindOf[a], profile)
  /\ addresses # {} => peers \subseteq addresses

Vouched(o, r, t, time, needs) ==
  LET e == Known(o, r, t)
      p == Profile(o, r)
  IN IF t \in Literal
     THEN ReachedOne(Peers(o, r, t), {t}, p, needs)
     ELSE /\ ~e.broken
          /\ \A n \in e.alias : Permitted(KindOf[n], p)
          /\ IsFresh(e, time, needs)
          /\ "resolved" \in needs => e.addresses # {}
          /\ \A a \in e.addresses : Permitted(KindOf[a], p)
          /\ ReachedOne(e.peers \cup Peers(o, r, t), e.addresses, p, needs)

\* validateUrlEgress.
Admits(o, r, t, time, needs) ==
  \/ SchemeOf[t] = "about"
  \/ SchemeOf[t] = "file" /\ Profile(o, r) = "local"
  \/ /\ SchemeOf[t] = "http"
     /\ ~ControlPlane(o, t)
     /\ Permitted(KindOf[t], Profile(o, r))
     /\ OnLists(o, r, t)
     /\ Vouched(o, r, t, time, needs)

\* What the settings and the record ask of evidence; a run away from the local
\* environment, or of the public profile, asks all of it.
Asked(o, r) == (o.asks \ r.waives) \cup r.asks
AskedAtRun(o, r) ==
  IF o.mode # "local" \/ r.environment # "local" \/ Profile(o, r) = "public"
  THEN Need ELSE Asked(o, r)

\* validateSystemEgressPolicy, at registration and when a job is queued.
Gate(o, r, time) == r.target # "" => Admits(o, r, r.target, time, Asked(o, r))

-----------------------------------------------------------------------------
\* saveSystem, of a whole record; removeSystem.
SaveRecord(r) ==
  /\ Gate(operator, r, tick)
  /\ record' = r
  /\ UNCHANGED <<tick, operator, queued, child, last>>

RemoveRecord ==
  /\ record # Unregistered
  /\ record' = Unregistered
  /\ UNCHANGED <<tick, operator, queued, child, last>>

\* A sync, enrich or analyze request: systemEgressGate, then the queue.
EnqueueRun ==
  /\ record # Unregistered /\ ~queued
  /\ Gate(operator, record, tick)
  /\ queued' = TRUE
  /\ UNCHANGED <<tick, operator, record, child, last>>

\* The child reads the row again, and keeps that and its environment to its end.
StartChild ==
  /\ queued /\ child = NoChild
  /\ queued' = FALSE
  /\ child' = IF record = Unregistered THEN NoChild
              ELSE [operator |-> operator, record |-> record, began |-> tick]
  /\ UNCHANGED <<tick, operator, record, last>>

\* Wrong variant: the clock is read when the checker is made.
ReadClockAtStart(c) == c.began

\* createRuntimeEgressChecker: the clock is read for every request.
ReadClock(c) == tick

\* A request of one of the run's pages that passes.  A denied one is aborted, which
\* changes nothing here; the run goes on to the next assertNoEgressBlocked.
PageRequest(t) ==
  /\ child # NoChild
  /\ Admits(child.operator, child.record, t, ReadClock(child),
            AskedAtRun(child.operator, child.record))
  /\ last' = [target |-> t, at |-> tick, run |-> child]
  /\ UNCHANGED <<tick, operator, record, queued, child>>

\* The run is done, fails, or finds that a request of its pages was denied.
EndRun ==
  /\ child # NoChild
  /\ child' = NoChild
  /\ UNCHANGED <<tick, operator, record, queued, last>>

\* The server stops, killing its child, and starts with other settings.
RestartWith(o) ==
  /\ operator' = o
  /\ queued' = FALSE /\ child' = NoChild
  /\ UNCHANGED <<tick, record, last>>

Advance ==
  /\ tick < MaxTick
  /\ tick' = tick + 1
  /\ UNCHANGED <<operator, record, queued, child, last>>

EgressInit ==
  /\ tick = 1
  /\ operator \in Operators
  /\ record = Unregistered
  /\ queued = FALSE /\ child = NoChild /\ last = Nothing

EgressNext ==
  \/ \E r \in Records : SaveRecord(r)
  \/ RemoveRecord \/ EnqueueRun \/ StartChild
  \/ \E t \in Target : PageRequest(t)
  \/ EndRun
  \/ \E o \in Operators : RestartWith(o)
  \/ Advance

EgressSpec == EgressInit /\ [][EgressNext]_egressVars

-----------------------------------------------------------------------------
Run == [operator : Operators, record : Records, began : 1..MaxTick]

EgressTypeOK ==
  /\ tick \in 1..MaxTick
  /\ operator \in Operators
  /\ record \in Records \cup {Unregistered}
  /\ queued \in BOOLEAN
  /\ child \in Run \cup {NoChild}
  /\ last \in [target : Target, at : 1..MaxTick, run : Run] \cup {Nothing}

\* Where a run asks for evidence, a request for a name passes only while one of the
\* sources still holds at that very moment, however long before that the run began; and
\* whom it reached is an address some source gave for the name, of a kind the profile
\* permits, whatever the sources were merged into.
AdmittedIsCurrent ==
  last # Nothing =>
    LET o == last.run.operator
        r == last.run.record
        t == last.target
        S == Sources(o, r, t)
    IN SchemeOf[t] = "http" /\ t \notin Literal /\ AskedAtRun(o, r) = Need =>
         /\ \E e \in S : \/ e.at # 0 /\ last.at <= e.at + MaxAge + Skew
                         \/ e.until # 0 /\ last.at <= e.until + Skew
         /\ \E a \in Address :
              /\ \E e \in S : a \in e.addresses
              /\ <<t, a>> \in o.peers \cup r.peers \/ \E e \in S : a \in e.peers
              /\ Permitted(KindOf[a], Profile(o, r))

\* The check of a request is never laxer than the gate: a request passes in a run only if
\* a system with that target would be queued under the run's settings at that moment.
RunIsNarrower ==
  last # Nothing =>
    Gate(last.run.operator, [last.run.record EXCEPT !.target = last.target], last.at)

\* A request that passes is vouched for at its own time, and is one that the gate passes.
EgressHolds == AdmittedIsCurrent /\ RunIsNarrower

=============================================================================
