------------------------------ MODULE WebAccess ------------------------------
(***************************************************************************)
(* Who may do what over http: the identity of a request, its session and   *)
(* its tenant (webui/security.js), the roles (lib/rbac.js), what a route    *)
(* asks for (webui/access.js), the cookie of a page this server served     *)
(* (webui/session.js), and the order in which the server asks              *)
(* (webui/server.js).                                                      *)
(*                                                                         *)
(* The identity of a request is settled when its head arrives, what it may *)
(* do once its body has been read: other requests come between.  Sessions  *)
(* are configured; that one has logged out is remembered in memory only.   *)
(***************************************************************************)
EXTENDS Naturals, FiniteSets

CONSTANTS
  User, Session,      (* the bearer tokens and the session ids configured    *)
  RoleOf, TenantOf,   (* of each of them                                     *)
  ExpiresAt,          (* of a session; 0 when only a time to live is given   *)
  HasCsrf,            (* the sessions with a CSRF token                      *)
  LocalRole,          (* the actor's role in local mode                      *)
  Page,               (* the cookies of pages served since the last start    *)
  Requests,           (* the requests that occur                             *)
  MaxPending, MaxTime (* bounds: requests being read, the clock              *)

ASSUME WebAccessAssumption ==
  /\ User \cap Session = {} /\ "" \notin User \cup Session \cup Page
  /\ HasCsrf \subseteq Session
  /\ ExpiresAt \in [Session -> Nat]
  /\ {MaxPending, MaxTime} \subseteq Nat

VARIABLES
  mode,        (* "local", or "external"                               *)
  now,
  loggedOut,   (* LOGGED_OUT_SESSION_IDS                                *)
  pages,       (* the set of session.js                                *)
  pending,     (* requests let in, their bodies being read             *)
  streams,     (* the requests whose job log is still being sent       *)
  done         (* the last request that reached its handler            *)

accessVars == <<mode, now, loggedOut, pages, pending, streams, done>>

NoneDone == [route |-> "none"]

-----------------------------------------------------------------------------
\* lib/rbac.js; a route's permissions, webui/access.js.
Everyday == {"read", "sync", "enrich", "auth", "record", "verify", "compile", "run"}
Permissions(role) ==
  CASE role = "viewer" -> {"read"}
    [] role = "operator" -> Everyday
    [] role \in {"owner", "admin"} -> Everyday \cup {"live-action", "approve"}
    [] OTHER -> {}
KnownRole(role) == role \in {"viewer", "operator", "owner", "admin"}

Reads == {"home", "report", "stream", "metadata"}
Posts == {"logout", "run", "record", "deletion", "approve", "confirm"}
RequiredForRead(r) == IF r.route = "metadata" THEN {"run"} ELSE {"read"}
RequiredForPost(r) ==
  CASE r.route = "logout" -> {"read"}
    [] r.route = "run" -> {"run"}
    [] r.route = "record" -> {"record"}
    [] r.route = "deletion" -> {"live-action"}
    [] r.route = "approve" /\ ~r.live -> {"run"}
    [] OTHER -> {"live-action", "approve"}

\* A run is authorized before its body is read, and its body names no tenant to check.
CheckedAtHead(r) == r.route = "run"

\* authorizeWebuiRequest: nobody is held to a tenant in local mode.
Authorized(r, who, required) ==
  /\ KnownRole(who.role)
  /\ required \subseteq Permissions(who.role)
  /\ mode = "external" /\ r.route \in Posts /\ ~ CheckedAtHead(r) =>
       r.bodyTenant \in {"", who.tenant}

-----------------------------------------------------------------------------
\* A session's fixed end, when one is configured: one that has only a time to live begins
\* again at every request, for the configuration is read again then.
Expired(s) == ExpiresAt[s] # 0 /\ now >= ExpiresAt[s]

\* Wrong variant: a logout is not looked at.
ValidUnexpired(s) == s \in Session /\ ~Expired(s)

Valid(s) == s \in Session /\ s \notin loggedOut /\ ~Expired(s)

\* requestCredential: a bearer token is taken before a cookie.
ByBearer(r) == r.bearer # ""
ByCookie(r) == r.bearer = "" /\ r.cookie # ""
HasIdentity(r) ==
  \/ mode = "local"
  \/ ByBearer(r) /\ r.bearer \in User
  \/ ByCookie(r) /\ Valid(r.cookie)

Identity(r) ==
  IF mode = "local" THEN [role |-> LocalRole, tenant |-> "local", session |-> ""]
  ELSE IF ByBearer(r)
  THEN [role |-> RoleOf[r.bearer], tenant |-> TenantOf[r.bearer], session |-> ""]
  ELSE [role |-> RoleOf[r.cookie], tenant |-> TenantOf[r.cookie], session |-> r.cookie]

\* Where a change comes from: the Origin and Referer, "" when the header is absent.
FromBrowser(r) == ByCookie(r) \/ r.origin # "" \/ r.referer # ""
SourceAllowed(r) ==
  FromBrowser(r) =>
    /\ r.origin # "" \/ r.referer # ""
    /\ {r.origin, r.referer} \subseteq {"", "own", "listed"}

\* authorizeHttpRequest, and the check of Origin that local mode has instead.
LetIn(r) ==
  /\ HasIdentity(r)
  /\ mode = "external" => r.tenant \in {"", Identity(r).tenant}
  /\ mode = "external" /\ r.route \in Posts =>
       SourceAllowed(r) /\ (ByCookie(r) => r.cookie \in HasCsrf /\ r.csrf)
  /\ mode = "local" /\ r.route \in Posts => r.origin \in {"", "own"}

\* Wrong variant: confirming a plan is not gated.
GatedApproveOnly(r) == r.route = "approve"

\* approveGate: a page of this server, and a request that came from it.
Gated(r) == r.route \in {"approve", "confirm"}
FromOwnPage(r) == "own" \in {r.origin, r.referer} /\ r.page \in pages

-----------------------------------------------------------------------------
\* A GET is answered at once.  The page hands out a cookie to who has none that counts; a
\* job's log stays open until the job ends.
Get(r) ==
  /\ r.route \in Reads
  /\ LetIn(r) /\ Authorized(r, Identity(r), RequiredForRead(r))
  /\ \/ /\ r.route = "home" /\ r.page \notin pages
        /\ \E c \in Page \ pages : pages' = pages \cup {c}
        /\ UNCHANGED streams
     \/ /\ r.route = "stream"
        /\ streams' = streams \cup {Identity(r)}
        /\ UNCHANGED pages
     \/ /\ r.route = "home" => r.page \in pages
        /\ r.route # "stream"
        /\ UNCHANGED <<pages, streams>>
  /\ UNCHANGED <<mode, now, loggedOut, pending, done>>

\* The head of a POST: it is refused here, or its body is awaited.
PostArrives(r) ==
  /\ r.route \in Posts
  /\ Cardinality(pending) < MaxPending
  /\ LetIn(r)
  /\ CheckedAtHead(r) => Authorized(r, Identity(r), RequiredForPost(r))
  /\ pending' = pending \cup {[request |-> r, who |-> Identity(r)]}
  /\ UNCHANGED <<mode, now, loggedOut, pages, streams, done>>

\* The body is there: the role and the tenant (of a run they were checked before, and a
\* role does not change), then the page, then the handler.  A
\* logout ends the session of the request's cookie, whoever the request is by.
Handle(p) ==
  LET r == p.request
      may == /\ Authorized(r, p.who, RequiredForPost(r))
             /\ Gated(r) => FromOwnPage(r)
  IN /\ p \in pending
     /\ pending' = pending \ {p}
     /\ loggedOut' = IF may /\ r.route = "logout" /\ r.cookie # ""
                     THEN loggedOut \cup {r.cookie} ELSE loggedOut
     /\ done' = IF may THEN [route |-> r.route, live |-> r.live, page |-> r.page,
                             from |-> {r.origin, r.referer}, role |-> p.who.role]
                ELSE done
     /\ UNCHANGED <<mode, now, pages, streams>>

\* The client goes away, or the job ends; until then the stream gets every line.
CloseStream(w) ==
  /\ w \in streams
  /\ streams' = streams \ {w}
  /\ UNCHANGED <<mode, now, loggedOut, pages, pending, done>>

RestartServer ==
  /\ loggedOut' = {} /\ pages' = {} /\ pending' = {} /\ streams' = {}
  /\ done' = NoneDone
  /\ UNCHANGED <<mode, now>>

PassTime ==
  /\ now < MaxTime
  /\ now' = now + 1
  /\ UNCHANGED <<mode, loggedOut, pages, pending, streams, done>>

AccessInit ==
  /\ mode \in {"local", "external"}
  /\ now = 0
  /\ loggedOut = {} /\ pages = {} /\ pending = {} /\ streams = {}
  /\ done = NoneDone

AccessNext ==
  \/ \E r \in Requests : Get(r) \/ PostArrives(r)
  \/ \E p \in pending : Handle(p)
  \/ \E w \in streams : CloseStream(w)
  \/ RestartServer \/ PassTime

AccessSpec == AccessInit /\ [][AccessNext]_accessVars

-----------------------------------------------------------------------------
Identities == {[role |-> LocalRole, tenant |-> "local", session |-> ""]}
  \cup {[role |-> RoleOf[u], tenant |-> TenantOf[u], session |-> ""] : u \in User}
  \cup {[role |-> RoleOf[s], tenant |-> TenantOf[s], session |-> s] : s \in Session}

AccessTypeOK ==
  /\ now \in 0..MaxTime
  /\ loggedOut \subseteq {r.cookie : r \in Requests}
  /\ pages \subseteq Page
  /\ pending \subseteq [request : Requests, who : Identities]
  /\ streams \subseteq Identities
  /\ done # NoneDone => done.route \in Posts

Over(s) == s \in loggedOut \/ Expired(s)

\* A live approval, and the confirmation of a plan, were asked for from a page this server
\* has served since it started, by a role that may approve, whatever other credentials,
\* origins or modes the request had and whatever happened while its body was read.
LiveActIsGated ==
  done # NoneDone /\ (done.route = "confirm" \/ (done.route = "approve" /\ done.live)) =>
    /\ done.page \in pages
    /\ "own" \in done.from
    /\ {"live-action", "approve"} \subseteq Permissions(done.role)

\* Once a session has ended and nothing of it is under way, nothing of it is let in again
\* while the server runs: a logout is not undone by another request's bearer token, by
\* the clock, or by the configuration being read again.
EndedStaysEnded ==
  [][\A s \in Session :
       /\ mode = "external" /\ Over(s)
       /\ \A p \in pending : p.who.session # s
       => \A p \in pending' : p.who.session # s]_accessVars

=============================================================================
