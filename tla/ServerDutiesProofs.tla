-------------------------- MODULE ServerDutiesProofs -------------------------
(***************************************************************************)
(* What the server has begun it sees through, proved for every set of      *)
(* events, drains, jobs and cleanup runs and every bound: the audit        *)
(* outbox, the browser sessions with their cleanup, and, with the proofs   *)
(* of CommandPlanProofs, the three side by side.                           *)
(***************************************************************************)
EXTENDS ServerDuties, CommandPlanProofs, FiniteSetTheorems, WellFoundedInduction

\* The smallest of some numbers is one of them.
LEMMA MinOfNats ==
  ASSUME NEW S \in SUBSET Nat, S # {}
  PROVE  Min(S) \in S
<1> DEFINE Below == {p \in Nat \X Nat : p[1] < p[2]}
<1>1. OpToRel(<, Nat) = Below
  BY Zenon DEF OpToRel
<1>2. IsWellFoundedOn(Below, Nat)
  BY <1>1, NatLessThanWellFounded, Zenon
<1>3. PICK x \in S : \A y \in S : ~ (<<y, x>> \in Below)
  <2> HIDE DEF Below
  <2> QED BY <1>2, WFMin
<1>4. \A y \in S : x <= y
  <2> TAKE y \in S
  <2>1. <<y, x>> \in Nat \X Nat /\ <<y, x>>[1] = y /\ <<y, x>>[2] = x OBVIOUS
  <2>2. ~ (<<y, x>>[1] < <<y, x>>[2]) BY <1>3, <2>1
  <2>3. x \in Nat /\ y \in Nat OBVIOUS
  <2>4. QED BY <2>1, <2>2, <2>3
<1>5. QED BY <1>4 DEF Min

\* The larger of two numbers is at least each.
LEMMA MaxOfTwo ==
  ASSUME NEW m \in Nat, NEW n \in Nat
  PROVE  Max({m, n}) \in Nat /\ m <= Max({m, n}) /\ n <= Max({m, n})
<1>1. \E x \in {m, n} : \A y \in {m, n} : x >= y
  <2>1. CASE m >= n BY <2>1
  <2>2. CASE n >= m BY <2>2
  <2>3. QED BY <2>1, <2>2
<1>2. QED BY <1>1 DEF Max

-----------------------------------------------------------------------------
(* The audit outbox.                                                        *)

DrainRecord == [active: BOOLEAN, todo: SUBSET Event, seen: [Event -> Nat],
                at: Event \cup {NoEvent}, got: BOOLEAN]

OutboxTypes ==
  /\ box \in [Event -> OutboxRow]
  /\ drains \in [Drain -> DrainRecord]
  /\ inFlight \in Drain \cup {NoDrain} /\ started \in BOOLEAN /\ timer \in BOOLEAN
  /\ stops \in 0 .. MaxStops
  /\ received \in [Event -> Nat] /\ faults \in [Event -> Nat]

\* A row that a drain is still to deliver is as it was when the drain listed it.
AsListed(d, e) ==
  box[e].status \in OpenStatus /\ box[e].due /\ drains[d].seen[e] = box[e].attempts

\* Only the scheduler's drain is under way, and its rows are not touched by others.
DrainOK(d) ==
  /\ drains[d].active => inFlight = d
  /\ ~ drains[d].active => drains[d].at = NoEvent
  /\ drains[d].at = NoEvent => ~ drains[d].got
  /\ drains[d].active => /\ drains[d].at \notin drains[d].todo
                         /\ \A e \in drains[d].todo : AsListed(d, e)
                         /\ drains[d].at # NoEvent => AsListed(d, drains[d].at)

\* The event is with the sink and the drain has yet to hear of it.
Underway(e) == \E d \in Drain : drains[d].at = e /\ drains[d].got

\* Every receipt is one the worker knows of, will hear of, or never learns of.
Accounted(e) ==
  received[e] = faults[e] + (IF box[e].status = "delivered" THEN 1 ELSE 0)
                          + (IF Underway(e) THEN 1 ELSE 0)

\* An open row has a try left, but for the one of its append.
TriesOK(e) ==
  /\ box[e].attempts <= MaxTries \/ box[e].attempts <= 2
  /\ box[e].status \in OpenStatus => box[e].attempts < MaxTries \/ box[e].attempts <= 1

OutboxInv ==
  /\ OutboxTypes
  /\ \A d \in Drain : DrainOK(d)
  /\ \A e \in Event : Accounted(e) /\ TriesOK(e)
  /\ StaysArmed

\* An idle drain has nothing in hand.
LEMMA IdleIsIdle ==
  /\ IdleDrain \in DrainRecord
  /\ ~ IdleDrain.active /\ IdleDrain.at = NoEvent /\ ~ IdleDrain.got
BY DEF IdleDrain, DrainRecord

\* Initially no drain is under way and nothing was delivered.
LEMMA OutboxInitOK == OutboxInit => OutboxInv
<1> SUFFICES ASSUME OutboxInit PROVE OutboxInv OBVIOUS
<1> USE OutboxAssumption DEF OutboxInit
<1>1. OutboxTypes
  <2>1. NoOutboxRow \in OutboxRow BY DEF OutboxRow, NoOutboxRow
  <2>2. 0 \in 0 .. MaxStops OBVIOUS
  <2>3. QED BY <2>1, <2>2, IdleIsIdle DEF OutboxTypes
<1>2. \A d \in Drain : DrainOK(d)
  BY IdleIsIdle DEF DrainOK
<1>3. \A e \in Event : Accounted(e) /\ TriesOK(e)
  BY IdleIsIdle DEF Accounted, TriesOK, NoOutboxRow, Underway, OpenStatus
<1>4. StaysArmed BY DEF StaysArmed
<1>5. QED BY <1>1, <1>2, <1>3, <1>4 DEF OutboxInv

\* A drain begins with the rows that are due, and nothing else changes.
LEMMA DrainBegins ==
  ASSUME OutboxInv, NEW d \in Drain, ~ drains[d].active, inFlight = NoDrain, BeginDrain(d),
         UNCHANGED <<box, received, faults>>
  PROVE  /\ drains' \in [Drain -> DrainRecord]
         /\ inFlight' = d
         /\ \A c \in Drain : DrainOK(c)'
         /\ \A e \in Event : Accounted(e)' /\ TriesOK(e)'
<1> USE OutboxAssumption
<1> DEFINE rec == [IdleDrain EXCEPT !.active = TRUE, !.todo = DueEvents,
                                    !.seen = [e \in Event |-> box[e].attempts]]
<1>1. /\ box \in [Event -> OutboxRow] /\ drains \in [Drain -> DrainRecord]
      /\ \A c \in Drain : DrainOK(c)
      /\ \A e \in Event : Accounted(e) /\ TriesOK(e)
  BY DEF OutboxInv, OutboxTypes
<1>2. /\ rec \in DrainRecord /\ rec.active /\ rec.at = NoEvent /\ ~ rec.got
      /\ rec.todo = DueEvents /\ rec.seen = [e \in Event |-> box[e].attempts]
  BY <1>1 DEF DueEvents, IdleDrain, DrainRecord, OutboxRow
<1>3. drains' = [drains EXCEPT ![d] = rec] /\ inFlight' = d
  BY DEF BeginDrain
<1> HIDE DEF rec
<1>4. drains' \in [Drain -> DrainRecord] /\ drains'[d] = rec
  BY <1>1, <1>2, <1>3
<1>5. \A c \in Drain : c # d => drains'[c] = drains[c] /\ ~ drains[c].active
  BY <1>1, <1>3 DEF DrainOK
<1>6. \A c \in Drain : DrainOK(c)'
  <2> TAKE c \in Drain
  <2>1. CASE c = d
    BY <1>2, <1>3, <1>4, <2>1 DEF DrainOK, AsListed, DueEvents
  <2>2. CASE c # d
    BY <1>1, <1>5, <2>2 DEF DrainOK
  <2>3. QED BY <2>1, <2>2
<1>7. \A e \in Event : Underway(e)' <=> Underway(e)
  <2>1. \A c \in Drain : drains[c].at = NoEvent BY <1>1, <1>5 DEF DrainOK
  <2>2. \A c \in Drain : drains'[c].at = NoEvent BY <1>2, <1>4, <1>5, <2>1
  <2>3. QED BY <2>1, <2>2 DEF Underway
<1>8. QED BY <1>1, <1>3, <1>4, <1>6, <1>7 DEF Accounted, TriesOK

\* A step of the scheduler that leaves the drain, the rows and the counts alone.
LEMMA SchedulerOnly ==
  ASSUME OutboxInv, UNCHANGED <<box, drains, inFlight, received, faults>>
  PROVE  /\ \A d \in Drain : DrainOK(d)'
         /\ \A e \in Event : Accounted(e)' /\ TriesOK(e)'
<1>1. \A d \in Drain : DrainOK(d)' BY DEF OutboxInv, DrainOK, AsListed
<1>2. \A e \in Event : Underway(e)' <=> Underway(e) BY DEF Underway
<1>3. \A e \in Event : Accounted(e)' /\ TriesOK(e)' BY <1>2 DEF OutboxInv, Accounted, TriesOK
<1>4. QED BY <1>1, <1>3

\* A tick begins a drain, or there is one.
LEMMA TickKeeps ==
  ASSUME OutboxInv, Tick, UNCHANGED <<box, stops, received, faults>>,
         started' \in BOOLEAN, timer' = RearmAfterSkip
  PROVE  OutboxInv'
<1>1. timer' \in BOOLEAN BY DEF RearmAfterSkip
<1>2. CASE inFlight = NoDrain
  <2>1. PICK d \in FreeDrains : BeginDrain(d) BY <1>2 DEF Tick
  <2>2. d \in Drain /\ ~ drains[d].active /\ d # NoDrain
    BY OutboxAssumption DEF FreeDrains
  <2>3. QED
    BY <1>1, <1>2, <2>1, <2>2, DrainBegins DEF OutboxInv, OutboxTypes, StaysArmed
<1>3. CASE inFlight # NoDrain
  BY <1>1, <1>3, SchedulerOnly DEF Tick, RearmAfterSkip, OutboxInv, OutboxTypes, StaysArmed
<1>4. QED BY <1>2, <1>3

\* A row that no drain has in hand may be written without disturbing any.
LEMMA RowWritten ==
  ASSUME OutboxInv, NEW e \in Event, NEW r \in OutboxRow,
         box' = [box EXCEPT ![e] = r], UNCHANGED <<drains, schedVars, received, faults>>,
         ~ (box[e].status \in OpenStatus /\ box[e].due),
         r.status # "delivered" /\ box[e].status # "delivered",
         r.attempts <= 1 \/ (r.attempts = box[e].attempts /\ box[e].status \in OpenStatus)
  PROVE  OutboxInv'
<1>1. box' \in [Event -> OutboxRow] BY DEF OutboxInv, OutboxTypes
<1>2. \A d \in Drain : DrainOK(d)'
  BY DEF OutboxInv, OutboxTypes, DrainOK, AsListed, schedVars
<1>3. \A f \in Event : Accounted(f)' /\ TriesOK(f)'
  <2> TAKE f \in Event
  <2>1. Underway(f)' <=> Underway(f) BY DEF Underway
  <2>2. Accounted(f) /\ TriesOK(f) BY DEF OutboxInv
  <2>3. box'[f] = IF f = e THEN r ELSE box[f] BY DEF OutboxInv, OutboxTypes
  <2>4. TriesOK(f)'
    <3>1. r.attempts \in Nat BY DEF OutboxRow
    <3>2. QED BY <2>2, <2>3, <3>1, OutboxAssumption DEF TriesOK
  <2>5. Accounted(f)' BY <2>1, <2>2, <2>3 DEF Accounted
  <2>6. QED BY <2>4, <2>5
<1>4. QED BY <1>1, <1>2, <1>3 DEF OutboxInv, OutboxTypes, StaysArmed, schedVars

\* Every step keeps the invariant.
LEMMA OutboxInvPreserved == OutboxInv /\ [OutboxNext]_outboxVars => OutboxInv'
<1> SUFFICES ASSUME OutboxInv, [OutboxNext]_outboxVars PROVE OutboxInv' OBVIOUS
<1> USE OutboxAssumption
<1>0. /\ OutboxTypes /\ StaysArmed
      /\ \A d \in Drain : DrainOK(d)
      /\ \A e \in Event : Accounted(e) /\ TriesOK(e)
  BY DEF OutboxInv
<1>1. CASE AppendEvent
  <2>1. PICK e \in Event, tried \in {0, 1} :
          /\ box[e] = NoOutboxRow
          /\ box' = [box EXCEPT ![e] = [status |-> "pending", attempts |-> tried, due |-> TRUE]]
          /\ UNCHANGED <<drains, schedVars, received, faults>>
    BY <1>1 DEF AppendEvent
  <2>2. [status |-> "pending", attempts |-> tried, due |-> TRUE] \in OutboxRow
    BY DEF OutboxRow, OpenStatus
  <2>3. box[e].status = "absent" /\ tried <= 1 BY <2>1 DEF NoOutboxRow
  <2> DEFINE r == [status |-> "pending", attempts |-> tried, due |-> TRUE]
  <2>4. r \in OutboxRow /\ r.status = "pending" /\ r.attempts = tried BY <2>2
  <2>5. box' = [box EXCEPT ![e] = r] BY <2>1
  <2> HIDE DEF r
  <2>6. QED BY <2>1, <2>3, <2>4, <2>5, RowWritten DEF OpenStatus
<1>2. CASE BackoffPasses
  <2>1. PICK e \in Event : /\ box[e].status = "failed" /\ ~ box[e].due
                           /\ box' = [box EXCEPT ![e].due = TRUE]
                           /\ UNCHANGED <<drains, schedVars, received, faults>>
    BY <1>2 DEF BackoffPasses
  <2> DEFINE r == [box[e] EXCEPT !.due = TRUE]
  <2>2. /\ r \in OutboxRow /\ r.status = box[e].status /\ r.attempts = box[e].attempts
        /\ box' = [box EXCEPT ![e] = r]
    BY <1>0, <2>1 DEF OutboxTypes, OutboxRow
  <2> HIDE DEF r
  <2>3. QED BY <2>1, <2>2, RowWritten DEF OpenStatus
<1>3. CASE TimerFires
  BY <1>0, <1>3, TickKeeps DEF TimerFires, OutboxTypes
<1>4. CASE Start
  <2>1. CASE Tick /\ timer' = RearmAfterSkip
    BY <1>4, <2>1, TickKeeps DEF Start
  <2>2. CASE timer' = TRUE /\ UNCHANGED <<drains, inFlight>>
    BY <1>0, <1>4, <2>2, SchedulerOnly DEF Start, OutboxInv, OutboxTypes, StaysArmed
  <2>3. QED BY <1>4, <2>1, <2>2 DEF Start
<1>5. CASE Stop
  <2>1. stops' \in 0 .. MaxStops BY <1>0, <1>5 DEF Stop, OutboxTypes
  <2>2. QED BY <1>0, <1>5, <2>1, SchedulerOnly DEF Stop, OutboxInv, OutboxTypes, StaysArmed
<1>6. CASE Crash
  <2>1. \A d \in Drain : drains'[d] = IdleDrain BY <1>6 DEF Crash
  <2>2. \A d \in Drain : DrainOK(d)' BY <2>1, IdleIsIdle DEF DrainOK
  <2>3. \A e \in Event : ~ Underway(e)' BY <2>1, IdleIsIdle DEF Underway
  <2>4. \A e \in Event : Cardinality({d \in Drain : drains[d].at = e /\ drains[d].got})
                           = IF Underway(e) THEN 1 ELSE 0
    <3> TAKE e \in Event
    <3> DEFINE H == {d \in Drain : drains[d].at = e /\ drains[d].got}
    <3>1. CASE Underway(e)
      <4>1. H = {inFlight} BY <1>0, <3>1 DEF Underway, DrainOK
      <4>2. QED BY <3>1, <4>1, FS_Singleton
    <3>2. CASE ~ Underway(e)
      <4>1. H = {} BY <3>2 DEF Underway
      <4>2. QED BY <3>2, <4>1, FS_EmptySet
    <3>3. QED BY <3>1, <3>2
  <2>5. \A e \in Event : faults'[e] = faults[e] + (IF Underway(e) THEN 1 ELSE 0)
    BY <1>6, <2>4 DEF Crash
  <2>6. faults' \in [Event -> Nat]
    <3>1. \A e \in Event : faults'[e] \in Nat BY <1>0, <2>5 DEF OutboxTypes
    <3>2. QED BY <1>6, <3>1 DEF Crash
  <2>7. \A e \in Event : Accounted(e)' /\ TriesOK(e)'
    BY <1>0, <1>6, <2>3, <2>5 DEF Crash, Accounted, TriesOK, OutboxTypes
  <2>8. OutboxTypes'
    <3>1. stops' \in 0 .. MaxStops BY <1>0, <1>6 DEF Crash, OutboxTypes
    <3>2. QED BY <1>0, <1>6, <2>6, <3>1, IdleIsIdle DEF Crash, OutboxTypes
  <2>9. StaysArmed' BY <1>6 DEF Crash, StaysArmed
  <2>10. QED BY <2>2, <2>7, <2>8, <2>9 DEF OutboxInv
<1>7. ASSUME NEW d \in Drain, CallConnector(d) PROVE OutboxInv'
  <2> DEFINE e == Min(drains[d].todo)
  <2>1. /\ e \in drains[d].todo /\ e \in Event
    BY <1>0, <1>7, MinOfNats DEF CallConnector, OutboxTypes, DrainRecord
  <2>2. PICK got \in BOOLEAN :
          /\ drains' = [drains EXCEPT ![d].at = e, ![d].todo = @ \ {e}, ![d].got = got]
          /\ received' = [received EXCEPT ![e] = IF got THEN @ + 1 ELSE @]
          /\ UNCHANGED <<box, schedVars, faults>>
    BY <1>7 DEF CallConnector
  <2> HIDE DEF e
  <2> DEFINE rec == [drains[d] EXCEPT !.at = e, !.todo = @ \ {e}, !.got = got]
  <2>3. /\ rec \in DrainRecord /\ rec.at = e /\ rec.todo = drains[d].todo \ {e} /\ rec.got = got
        /\ rec.active = drains[d].active /\ rec.seen = drains[d].seen
        /\ drains' = [drains EXCEPT ![d] = rec]
    BY <1>0, <2>1, <2>2 DEF OutboxTypes, DrainRecord
  <2> HIDE DEF rec
  <2>4. /\ drains' \in [Drain -> DrainRecord] /\ drains'[d] = rec
        /\ \A c \in Drain : c # d => drains'[c] = drains[c]
    BY <1>0, <2>3 DEF OutboxTypes
  <2>5. drains[d].active /\ drains[d].at = NoEvent BY <1>7 DEF CallConnector
  <2>6. \A c \in Drain : c # d => ~ drains[c].active /\ drains[c].at = NoEvent
    BY <1>0, <2>5 DEF DrainOK
  <2>7. AsListed(d, e) BY <1>0, <2>1, <2>5 DEF DrainOK
  <2>8. \A c \in Drain : DrainOK(c)'
    <3> TAKE c \in Drain
    <3>1. CASE c = d
      BY <1>0, <2>1, <2>2, <2>3, <2>4, <2>5, <2>7, <3>1 DEF DrainOK, AsListed, schedVars
    <3>2. CASE c # d
      BY <1>0, <2>4, <2>6, <3>2 DEF DrainOK
    <3>3. QED BY <3>1, <3>2
  <2>9. \A f \in Event : ~ Underway(f) /\ (Underway(f)' <=> f = e /\ got)
    BY <2>1, <2>3, <2>4, <2>5, <2>6 DEF Underway
  <2>10. received' \in [Event -> Nat] /\ \A f \in Event :
           received'[f] = IF f = e /\ got THEN received[f] + 1 ELSE received[f]
    BY <1>0, <2>1, <2>2 DEF OutboxTypes
  <2>11. \A f \in Event : Accounted(f)' /\ TriesOK(f)'
    BY <1>0, <2>2, <2>9, <2>10 DEF Accounted, TriesOK, OutboxTypes
  <2>12. OutboxTypes' /\ StaysArmed'
    BY <1>0, <2>2, <2>4, <2>10 DEF OutboxTypes, StaysArmed, schedVars
  <2>13. QED BY <2>8, <2>11, <2>12 DEF OutboxInv
<1>8. ASSUME NEW d \in Drain, ConnectorAnswers(d) PROVE OutboxInv'
  <2> DEFINE e == drains[d].at
  <2>1. /\ drains[d].active /\ e # NoEvent /\ e \in Event /\ AsListed(d, e)
        /\ inFlight = d /\ drains[d] \in DrainRecord
    BY <1>0, <1>8 DEF ConnectorAnswers, DrainOK, OutboxTypes, DrainRecord
  <2>2. PICK answer \in Answers(drains[d].got) :
          /\ box' = [box EXCEPT ![e] = Marked(@, drains[d].seen[e] + 1, answer)]
          /\ faults' = [faults EXCEPT ![e] =
               IF drains[d].got /\ ~ Delivers(answer) THEN @ + 1 ELSE @]
          /\ drains' = [drains EXCEPT ![d].at = NoEvent, ![d].got = FALSE]
          /\ UNCHANGED <<schedVars, received>>
    BY <1>8 DEF ConnectorAnswers
  <2> HIDE DEF e
  <2> DEFINE rec == [drains[d] EXCEPT !.at = NoEvent, !.got = FALSE]
             m == Marked(box[e], drains[d].seen[e] + 1, answer)
  <2>3. /\ rec \in DrainRecord /\ rec.at = NoEvent /\ ~ rec.got
        /\ rec.todo = drains[d].todo /\ rec.active /\ rec.seen = drains[d].seen
        /\ drains' = [drains EXCEPT ![d] = rec]
    BY <1>0, <2>1, <2>2 DEF OutboxTypes, DrainRecord
  <2>4. /\ m \in OutboxRow /\ m.attempts = box[e].attempts + 1
        /\ m.status = "delivered" <=> Delivers(answer)
        /\ m.status \in OpenStatus => ~ IsLastTry(drains[d].seen[e] + 1)
    BY <1>0, <2>1 DEF Marked, OutboxRow, OpenStatus, SettledStatus, OutboxTypes
  <2>5. box' = [box EXCEPT ![e] = m] BY <2>2
  <2>6. Delivers(answer) => drains[d].got BY <2>2 DEF Delivers, Answers
  <2> HIDE DEF rec, m
  <2>7. /\ drains' \in [Drain -> DrainRecord] /\ drains'[d] = rec
        /\ \A c \in Drain : c # d => drains'[c] = drains[c]
        /\ box' \in [Event -> OutboxRow] /\ box'[e] = m
        /\ \A f \in Event : f # e => box'[f] = box[f]
    BY <1>0, <2>1, <2>3, <2>4, <2>5 DEF OutboxTypes
  <2>8. \A c \in Drain : c # d => ~ drains[c].active /\ drains[c].at = NoEvent
    BY <1>0, <2>1 DEF DrainOK
  <2>9. \A c \in Drain : DrainOK(c)'
    <3> TAKE c \in Drain
    <3>1. CASE c = d
      <4>1. e \notin drains[d].todo BY <1>0, <2>1 DEF DrainOK, e
      <4>2. \A f \in rec.todo : f \in Event /\ f # e /\ AsListed(d, f)
        BY <1>0, <2>1, <2>3, <4>1 DEF DrainOK, DrainRecord
      <4>3. \A f \in rec.todo : AsListed(d, f)'
        BY <2>3, <2>7, <4>2 DEF AsListed
      <4>4. NoEvent \notin rec.todo BY <4>2
      <4>5. inFlight' = d BY <2>1, <2>2 DEF schedVars
      <4>6. QED BY <2>3, <2>7, <3>1, <4>3, <4>4, <4>5 DEF DrainOK
    <3>2. CASE c # d
      BY <1>0, <2>7, <2>8, <3>2 DEF DrainOK
    <3>3. QED BY <3>1, <3>2
  <2>10. \A f \in Event : (Underway(f) <=> f = e /\ drains[d].got) /\ ~ Underway(f)'
    BY <2>1, <2>3, <2>7, <2>8 DEF Underway, e
  <2>11. faults' \in [Event -> Nat] /\ \A f \in Event :
           faults'[f] = IF f = e /\ drains[d].got /\ ~ Delivers(answer)
                        THEN faults[f] + 1 ELSE faults[f]
    BY <1>0, <2>1, <2>2 DEF OutboxTypes
  <2>12. \A f \in Event : Accounted(f)'
    <3> TAKE f \in Event
    <3>1. Accounted(f) /\ received'[f] = received[f] /\ faults[f] \in Nat BY <1>0, <2>2 DEF OutboxTypes
    <3>2. CASE f = e
      <4>1. box[e].status # "delivered" BY <2>1 DEF AsListed, OpenStatus
      <4>2. QED BY <2>4, <2>6, <2>7, <2>10, <2>11, <3>1, <3>2, <4>1 DEF Accounted
    <3>3. CASE f # e
      BY <2>7, <2>10, <2>11, <3>1, <3>3 DEF Accounted
    <3>4. QED BY <3>2, <3>3
  <2>13. \A f \in Event : TriesOK(f)'
    <3> TAKE f \in Event
    <3>1. CASE f = e
      <4>1. TriesOK(e) /\ box[e].status \in OpenStatus /\ drains[d].seen[e] = box[e].attempts
            /\ box[e].attempts \in Nat
        BY <1>0, <2>1 DEF AsListed, OutboxTypes, OutboxRow
      <4>2. QED BY <2>4, <2>7, <3>1, <4>1 DEF TriesOK, IsLastTry
    <3>2. CASE f # e
      BY <1>0, <2>7, <3>2 DEF TriesOK
    <3>3. QED BY <3>1, <3>2
  <2>14. OutboxTypes' /\ StaysArmed'
    BY <1>0, <2>2, <2>7, <2>11 DEF OutboxTypes, StaysArmed, schedVars
  <2>15. QED BY <2>9, <2>12, <2>13, <2>14 DEF OutboxInv
<1>9. ASSUME NEW d \in Drain, DrainEnds(d) PROVE OutboxInv'
  <2>1. /\ drains' \in [Drain -> DrainRecord] /\ drains'[d] = IdleDrain
        /\ \A c \in Drain : c # d => drains'[c] = drains[c]
        /\ drains[d].active /\ drains[d].at = NoEvent
    BY <1>0, <1>9, IdleIsIdle DEF DrainEnds, OutboxTypes
  <2>2. \A c \in Drain : c # d => ~ drains[c].active /\ drains[c].at = NoEvent
    BY <1>0, <2>1 DEF DrainOK
  <2>3. \A c \in Drain : DrainOK(c)'
    BY <1>0, <2>1, <2>2, IdleIsIdle DEF DrainOK
  <2>4. \A e \in Event : ~ Underway(e) /\ ~ Underway(e)'
    BY <2>1, <2>2, IdleIsIdle DEF Underway
  <2>5. \A e \in Event : Accounted(e)' /\ TriesOK(e)'
    BY <1>0, <1>9, <2>4 DEF DrainEnds, Accounted, TriesOK
  <2>6. OutboxTypes' /\ StaysArmed'
    BY <1>0, <1>9, <2>1 DEF DrainEnds, OutboxTypes, StaysArmed, RearmAfterDrain
  <2>7. QED BY <2>3, <2>5, <2>6 DEF OutboxInv
<1>10. CASE UNCHANGED outboxVars
  BY <1>0, <1>10, SchedulerOnly DEF outboxVars, OutboxInv, OutboxTypes, StaysArmed
<1>11. QED
  BY <1>1, <1>2, <1>3, <1>4, <1>5, <1>6, <1>7, <1>8, <1>9, <1>10 DEF OutboxNext

\* What the invariant says of the outbox.
LEMMA OutboxInvSuffices == OutboxInv => OutboxTypeOK /\ OutboxIsSound
<1> SUFFICES ASSUME OutboxInv PROVE OutboxTypeOK /\ OutboxIsSound OBVIOUS
<1>1. OutboxTypeOK BY DEF OutboxInv, OutboxTypes, OutboxTypeOK, DrainRecord
<1>2. \A e \in Event : Underway(e) => box[e].status # "delivered"
  BY OutboxAssumption DEF OutboxInv, Underway, DrainOK, AsListed, OpenStatus
<1>3. \A e \in Event : received[e] \in Nat /\ faults[e] \in Nat /\ box[e].attempts \in Nat
  BY DEF OutboxInv, OutboxTypes, OutboxRow
<1>4. DeliveredWasReceived /\ DuplicatesNeedFaults
  BY <1>2, <1>3 DEF OutboxInv, Accounted, DeliveredWasReceived, DuplicatesNeedFaults
<1>5. TriesAreBounded
  <2>1. /\ MaxTries \in Nat /\ Max({MaxTries, 2}) \in Nat
        /\ MaxTries <= Max({MaxTries, 2}) /\ 2 <= Max({MaxTries, 2})
    BY MaxOfTwo, OutboxAssumption
  <2>2. \A e \in Event : box[e].attempts <= MaxTries \/ box[e].attempts <= 2
    BY DEF OutboxInv, TriesOK
  <2> DEFINE m == Max({MaxTries, 2})
  <2> HIDE DEF m
  <2>3. \A e \in Event : box[e].attempts <= m BY <1>3, <2>1, <2>2 DEF m
  <2>4. QED BY <2>3 DEF m, TriesAreBounded
<1>6. QED BY <1>1, <1>4, <1>5 DEF OutboxInv, OutboxIsSound

\* The invariant holds in every state of the outbox.
THEOREM OutboxInvariant == OutboxSpec => []OutboxInv
BY OutboxInitOK, OutboxInvPreserved, PTL DEF OutboxSpec

\* Whatever ticks, stops, crashes and lost answers do: what is marked delivered was received,
\* an event is received twice only after a fault, tries are bounded, and a started scheduler
\* never falls asleep.
THEOREM OutboxSound == OutboxSpec => []OutboxIsSound
BY OutboxInvariant, OutboxInvSuffices, PTL

-----------------------------------------------------------------------------
(* Browser sessions and their cleanup.                                      *)

BrowserJobState == {"none", "queued", "running", "canceling", "refused", "over"}
SessionRecord ==
  [state: {"open", "canceled", "expired", "finished"}, idle: Nat, idleAt: Nat, hardAt: Nat]
CleanupRecord ==
  [status: {"pending", "failed", "complete"}, attempts: 0 .. MaxAttempts,
   done: SUBSET (1 .. Targets)]
CleaningRecord ==
  [job: BrowserJob, at: 1 .. Targets + 1, failed: BOOLEAN]

BrowserTypes ==
  /\ clock \in 0 .. Horizon /\ boots \in {0, 1}
  /\ job \in [BrowserJob -> BrowserJobState]
  /\ session \in [BrowserJob -> {NoSession} \cup SessionRecord]
  /\ cleanup \in [BrowserJob -> {NoCleanup} \cup CleanupRecord]
  /\ cleaning \in [Cleaner -> {NoRun} \cup CleaningRecord]
  /\ removed \in [BrowserJob -> SUBSET (1 .. Targets)]
  /\ made \in [BrowserJob -> Nat]

OverIsClosed(j) == job[j] \in {"canceling", "over"} => session[j].state # "open"

\* What a cleanup calls done was removed since its plan was made, and a complete one has
\* done everything.
DoneWasRemoved(j) ==
  cleanup[j] # NoCleanup => /\ cleanup[j].done = removed[j]
                            /\ cleanup[j].status = "complete" => removed[j] = 1 .. Targets

\* The plan of a run is not over; with nothing failed so far the run has done the targets
\* it has been to; and no other run is at that plan.
RunOK(c) ==
  cleaning[c] # NoRun =>
    /\ Runnable(cleaning[c].job)
    /\ ~ cleaning[c].failed =>
         1 .. (cleaning[c].at - 1) \subseteq cleanup[cleaning[c].job].done
    /\ \A b \in Cleaner : cleaning[b].job = cleaning[c].job => b = c

BrowserInv ==
  /\ BrowserTypes
  /\ \A j \in BrowserJob : OverIsClosed(j) /\ DoneWasRemoved(j)
  /\ \A c \in Cleaner : RunOK(c)

\* The records tell themselves from the absent ones.
LEMMA AbsentIsAbsent ==
  /\ \A s \in SessionRecord : s # NoSession
  /\ \A p \in CleanupRecord : p # NoCleanup
  /\ \A r \in CleaningRecord : r # NoRun
<1>1. \A s \in SessionRecord : s.state # NoSession.state BY DEF SessionRecord, NoSession
<1>2. \A p \in CleanupRecord : p.status # NoCleanup.status BY DEF CleanupRecord, NoCleanup
<1>3. \A r \in CleaningRecord : r.job # NoRun.job
  BY BrowserAssumption DEF CleaningRecord, NoRun
<1>4. QED BY <1>1, <1>2, <1>3

\* A session that is opened, used or ended is a record of its type.
LEMMA SessionsAreRecords ==
  ASSUME clock \in 0 .. Horizon
  PROVE  /\ Opened(0) \in SessionRecord /\ Opened(IdleTtl) \in SessionRecord
         /\ \A x \in {"canceled", "expired", "finished"} : Ended(x) \in SessionRecord
         /\ \A s \in SessionRecord :
              Touched(s, clock) \in SessionRecord /\ Touched(s, clock).state = s.state
<1>1. clock \in Nat /\ HardTtl \in Nat /\ IdleTtl \in Nat BY BrowserAssumption
<1>2. Opened(0) \in SessionRecord /\ Opened(IdleTtl) \in SessionRecord
  BY <1>1 DEF Opened, SessionRecord
<1>3. \A x \in {"canceled", "expired", "finished"} : Ended(x) \in SessionRecord
  BY DEF Ended, SessionRecord
<1>4. \A s \in SessionRecord :
        Touched(s, clock) \in SessionRecord /\ Touched(s, clock).state = s.state
  BY <1>1 DEF Touched, SessionRecord
<1>5. QED BY <1>2, <1>3, <1>4

\* What a start or a restart of the server leaves.
LEMMA FreshStartOK ==
  ASSUME clock' \in 0 .. Horizon, boots' \in {0, 1},
         job' = [j \in BrowserJob |-> "none"],
         session' \in [BrowserJob -> {NoSession} \cup SessionRecord],
         cleanup' = [j \in BrowserJob |-> NoCleanup],
         cleaning' = [c \in Cleaner |-> NoRun],
         removed' = [j \in BrowserJob |-> {}],
         made' = [j \in BrowserJob |-> 0]
  PROVE  BrowserInv'
BY DEF BrowserInv, BrowserTypes, BrowserJobState, OverIsClosed, DoneWasRemoved, RunOK

\* Initially there is neither a session nor a cleanup plan.
LEMMA BrowserInitOK == BrowserInit => BrowserInv
<1> SUFFICES ASSUME BrowserInit PROVE BrowserInv OBVIOUS
<1>1. clock = 0 /\ 0 \in 0 .. Horizon BY BrowserAssumption DEF BrowserInit
<1>2. session \in [BrowserJob -> {NoSession} \cup SessionRecord]
  BY <1>1, SessionsAreRecords DEF BrowserInit
<1>3. QED
  BY <1>1, <1>2 DEF BrowserInit, BrowserInv, BrowserTypes, BrowserJobState, OverIsClosed,
                    DoneWasRemoved, RunOK

\* A step that touches jobs and sessions only.
LEMMA SessionsOnly ==
  ASSUME BrowserInv, UNCHANGED <<cleanup, cleaning, removed, made, boots>>,
         clock' \in 0 .. Horizon,
         job' \in [BrowserJob -> BrowserJobState],
         session' \in [BrowserJob -> {NoSession} \cup SessionRecord],
         \A j \in BrowserJob : OverIsClosed(j)'
  PROVE  BrowserInv'
<1>1. \A j \in BrowserJob : DoneWasRemoved(j)' BY DEF BrowserInv, DoneWasRemoved
<1>2. \A c \in Cleaner : RunOK(c)' BY DEF BrowserInv, RunOK, Runnable
<1>3. QED BY <1>1, <1>2 DEF BrowserInv, BrowserTypes

\* An ending: no session of the job is open afterwards.
LEMMA EndCloses ==
  ASSUME BrowserInv, NEW j \in BrowserJob, NEW x \in {"canceled", "expired", "finished"},
         End(j, x)
  PROVE  /\ session' \in [BrowserJob -> {NoSession} \cup SessionRecord]
         /\ session'[j].state # "open"
         /\ \A k \in BrowserJob : k # j => session'[k] = session[k]
         /\ session[j] = NoSession \/ session'[j] = Ended(x)
         /\ session[j] = NoSession => session'[j] = NoSession
<1>1. /\ session \in [BrowserJob -> {NoSession} \cup SessionRecord]
      /\ Ended(x) \in SessionRecord
  BY SessionsAreRecords DEF BrowserInv, BrowserTypes
<1>2. Ended(x).state # "open" /\ NoSession.state # "open" BY DEF Ended, NoSession
<1>3. QED BY <1>1, <1>2 DEF End

\* A cancel ends the job, or leaves it as it was.
LEMMA CancelsJob ==
  ASSUME NEW j \in BrowserJob, BrowserTypes, CancelBrowserJob(j)
  PROVE  /\ job' \in [BrowserJob -> BrowserJobState]
         /\ \A k \in BrowserJob : k # j => job'[k] = job[k]
<1>1. CASE job[j] = "queued"
  <2>1. job' = [job EXCEPT ![j] = "over"] BY <1>1, Zenon DEF CancelBrowserJob
  <2>2. QED BY <2>1 DEF BrowserTypes, BrowserJobState
<1>2. CASE job[j] = "running"
  <2>1. job' = [job EXCEPT ![j] = "canceling"] BY <1>2, Zenon DEF CancelBrowserJob
  <2>2. QED BY <2>1 DEF BrowserTypes, BrowserJobState
<1>3. CASE job[j] # "queued" /\ job[j] # "running"
  <2>1. job' = [job EXCEPT ![j] = job[j]] BY <1>3, Zenon DEF CancelBrowserJob
  <2>2. QED BY <2>1 DEF BrowserTypes
<1>4. QED BY <1>1, <1>2, <1>3

\* Every step keeps the invariant.
LEMMA BrowserInvPreserved == BrowserInv /\ [BrowserNext]_browserVars => BrowserInv'
<1> SUFFICES ASSUME BrowserInv, [BrowserNext]_browserVars PROVE BrowserInv' OBVIOUS
<1>0. /\ BrowserTypes
      /\ \A j \in BrowserJob : OverIsClosed(j) /\ DoneWasRemoved(j)
      /\ \A c \in Cleaner : RunOK(c)
  BY DEF BrowserInv
<1>a. MaxAttempts \in Nat /\ Targets \in Nat /\ Horizon \in Nat BY BrowserAssumption
<1>1. CASE ClockTicks
  <2>1. clock' \in 0 .. Horizon BY <1>0, <1>1, <1>a DEF ClockTicks, BrowserTypes
  <2>2. QED BY <1>0, <1>1, <2>1, SessionsOnly DEF ClockTicks, BrowserTypes, OverIsClosed
<1>2. CASE RestartSessions
  <2>1. clock' \in 0 .. Horizon /\ boots' \in {0, 1} BY <1>0, <1>2 DEF RestartSessions, BrowserTypes
  <2>2. session' \in [BrowserJob -> {NoSession} \cup SessionRecord]
    BY <1>0, <1>2, SessionsAreRecords DEF RestartSessions, BrowserTypes
  <2>3. QED BY <1>2, <2>1, <2>2, FreshStartOK DEF RestartSessions
<1>3. ASSUME NEW j \in BrowserJob, QueueJob(j) PROVE BrowserInv'
  <2>1. /\ session' \in [BrowserJob -> {NoSession} \cup SessionRecord]
        /\ job' \in [BrowserJob -> BrowserJobState]
    BY <1>0, <1>3, SessionsAreRecords DEF QueueJob, BrowserTypes, BrowserJobState
  <2>2. \A k \in BrowserJob : OverIsClosed(k)'
    BY <1>0, <1>3 DEF QueueJob, OverIsClosed, BrowserTypes
  <2>3. QED BY <1>0, <1>3, <2>1, <2>2, SessionsOnly DEF QueueJob, BrowserTypes
<1>4. ASSUME NEW j \in BrowserJob, SpawnJob(j) \/ RefuseJob(j) PROVE BrowserInv'
  <2>1. job' \in [BrowserJob -> BrowserJobState]
    BY <1>0, <1>4 DEF SpawnJob, RefuseJob, BrowserTypes, BrowserJobState
  <2>2. \A k \in BrowserJob : OverIsClosed(k)'
    BY <1>0, <1>4 DEF SpawnJob, RefuseJob, OverIsClosed, BrowserTypes
  <2>3. QED BY <1>0, <1>4, <2>1, <2>2, SessionsOnly DEF SpawnJob, RefuseJob, BrowserTypes
<1>5. ASSUME NEW j \in BrowserJob, FinishBrowserJob(j) PROVE BrowserInv'
  <2>1. PICK x \in {"canceled", "expired", "finished"} : End(j, x)
    BY <1>5 DEF FinishBrowserJob
  <2>2. job' \in [BrowserJob -> BrowserJobState]
    BY <1>0, <1>5 DEF FinishBrowserJob, BrowserTypes, BrowserJobState
  <2>3. \A k \in BrowserJob : OverIsClosed(k)'
    BY <1>0, <1>5, <2>1, EndCloses DEF FinishBrowserJob, OverIsClosed, BrowserTypes
  <2>4. QED BY <1>0, <1>5, <2>1, <2>2, <2>3, EndCloses, SessionsOnly
            DEF FinishBrowserJob, BrowserTypes
<1>6. ASSUME NEW j \in BrowserJob, CancelBrowserJob(j) PROVE BrowserInv'
  <2>1. End(j, "canceled") BY <1>6 DEF CancelBrowserJob
  <2>2. \A k \in BrowserJob : OverIsClosed(k)'
    BY <1>0, <1>6, <2>1, CancelsJob, EndCloses DEF OverIsClosed
  <2>3. QED BY <1>0, <1>6, <2>1, <2>2, CancelsJob, EndCloses, SessionsOnly
            DEF CancelBrowserJob, BrowserTypes
<1>7. ASSUME NEW j \in BrowserJob, AccessSession(j) PROVE BrowserInv'
  <2>1. session[j] \in SessionRecord BY <1>0, <1>7 DEF AccessSession, BrowserTypes
  <2>2. /\ session' = [session EXCEPT ![j] = Touched(session[j], clock)]
        /\ Touched(session[j], clock) \in SessionRecord
        /\ Touched(session[j], clock).state = session[j].state
    BY <1>0, <1>7, <2>1, SessionsAreRecords DEF AccessSession, BrowserTypes
  <2>3. \A k \in BrowserJob : OverIsClosed(k)'
    BY <1>0, <1>7, <2>2 DEF AccessSession, OverIsClosed, BrowserTypes
  <2>4. QED BY <1>0, <1>7, <2>2, <2>3, SessionsOnly DEF AccessSession, BrowserTypes
<1>8. ASSUME NEW j \in BrowserJob, PlanCleanup(j) PROVE BrowserInv'
  <2> DEFINE p == [status |-> "pending", attempts |-> 0, done |-> {}]
  <2>1. p \in CleanupRecord BY <1>a DEF CleanupRecord
  <2>2. p # NoCleanup /\ p.status = "pending" /\ p.done = {} BY <2>1, AbsentIsAbsent
  <2>3. /\ cleanup' = [cleanup EXCEPT ![j] = p] /\ removed' = [removed EXCEPT ![j] = {}]
        /\ made' = [made EXCEPT ![j] = @ + 1]
        /\ UNCHANGED <<clock, job, session, cleaning, boots>>
    BY <1>8 DEF PlanCleanup
  <2> HIDE DEF p
  <2>4. BrowserTypes' BY <1>0, <2>1, <2>3 DEF BrowserTypes
  <2>5. \A k \in BrowserJob : OverIsClosed(k)' BY <1>0, <2>3 DEF OverIsClosed
  <2>6. \A k \in BrowserJob : DoneWasRemoved(k)'
    BY <1>0, <2>2, <2>3 DEF DoneWasRemoved, BrowserTypes
  <2>7. \A c \in Cleaner : RunOK(c)'
    <3> TAKE c \in Cleaner
    <3> SUFFICES ASSUME cleaning[c] # NoRun PROVE RunOK(c)' BY <2>3 DEF RunOK
    <3>1. cleaning[c].job \in BrowserJob BY <1>0 DEF BrowserTypes, CleaningRecord
    <3>2. cleaning[c].job # j BY <1>0, <1>8 DEF RunOK, Runnable, PlanCleanup
    <3>3. cleanup'[cleaning[c].job] = cleanup[cleaning[c].job]
      BY <1>0, <2>3, <3>1, <3>2 DEF BrowserTypes
    <3>4. QED BY <1>0, <2>3, <3>3 DEF RunOK, Runnable
  <2>8. QED BY <2>4, <2>5, <2>6, <2>7 DEF BrowserInv
<1>9. ASSUME NEW c \in Cleaner, NEW j \in BrowserJob, StartCleaning(c, j)
      PROVE  BrowserInv'
  <2>0. cleanup[j] \in CleanupRecord /\ cleanup[j].status # "complete"
    BY <1>0, <1>9 DEF StartCleaning, Runnable, BrowserTypes, NoCleanup
  <2> DEFINE p == [cleanup[j] EXCEPT !.attempts = IF @ < MaxAttempts THEN @ + 1 ELSE @]
             r == [job |-> j, at |-> 1, failed |-> FALSE]
  <2>1. /\ p \in CleanupRecord /\ p.status = cleanup[j].status /\ p.done = cleanup[j].done
        /\ r \in CleaningRecord /\ r.job = j /\ r.at = 1
    BY <1>0, <1>a, <2>0 DEF CleanupRecord, CleaningRecord, BrowserTypes
  <2>2. /\ cleanup' = [cleanup EXCEPT ![j] = p] /\ cleaning' = [cleaning EXCEPT ![c] = r]
        /\ UNCHANGED <<clock, job, session, removed, made, boots>>
    BY <1>0, <1>9 DEF StartCleaning, BrowserTypes
  <2> HIDE DEF p, r
  <2>3. p # NoCleanup /\ r # NoRun BY <2>1, AbsentIsAbsent
  <2>4. BrowserTypes' BY <1>0, <2>1, <2>2 DEF BrowserTypes
  <2>5. \A k \in BrowserJob : OverIsClosed(k)' BY <1>0, <2>2 DEF OverIsClosed
  <2>6. \A k \in BrowserJob : DoneWasRemoved(k)'
    <3> TAKE k \in BrowserJob
    <3>1. CASE k = j
      <4>1. cleanup'[k] = p BY <1>0, <2>2, <3>1 DEF BrowserTypes
      <4>2. p.done = removed[j] /\ p.status # "complete"
        BY <1>0, <2>0, <2>1, AbsentIsAbsent DEF DoneWasRemoved
      <4>3. QED BY <2>2, <3>1, <4>1, <4>2 DEF DoneWasRemoved
    <3>2. CASE k # j
      BY <1>0, <2>2, <3>2 DEF DoneWasRemoved, BrowserTypes
    <3>3. QED BY <3>1, <3>2
  <2>7. ASSUME NEW b \in Cleaner, b # c
        PROVE  cleaning'[b] = cleaning[b] /\ cleaning[b].job # j
    BY <1>0, <1>9, <2>2, <2>7 DEF StartCleaning, HashFits, BrowserTypes
  <2>8. \A b \in Cleaner : RunOK(b)'
    <3> TAKE b \in Cleaner
    <3>1. CASE b = c
      <4>1. cleaning'[b] = r /\ cleanup'[j] = p BY <1>0, <2>2, <3>1 DEF BrowserTypes
      <4>2. 1 .. (r.at - 1) = {} BY <2>1
      <4>3. p.status \in {"pending", "failed"} BY <2>0, <2>1 DEF CleanupRecord
      <4>4. QED BY <2>1, <2>7, <3>1, <4>1, <4>2, <4>3 DEF RunOK, Runnable
    <3>2. CASE b # c
      <4> SUFFICES ASSUME cleaning[b] # NoRun PROVE RunOK(b)' BY <2>7, <3>2 DEF RunOK
      <4>1. cleaning[b].job \in BrowserJob BY <1>0 DEF BrowserTypes, CleaningRecord
      <4>2. cleanup'[cleaning[b].job] = cleanup[cleaning[b].job]
        BY <1>0, <2>2, <2>7, <3>2, <4>1 DEF BrowserTypes
      <4>3. cleaning'[c].job = j BY <1>0, <2>1, <2>2 DEF BrowserTypes
      <4>4. \A a \in Cleaner : cleaning'[a].job = cleaning'[b].job => a = b
        BY <1>0, <2>7, <3>2, <4>3 DEF RunOK
      <4>5. QED BY <1>0, <2>7, <3>2, <4>2, <4>4 DEF RunOK, Runnable
    <3>3. QED BY <3>1, <3>2
  <2>9. QED BY <2>4, <2>5, <2>6, <2>8 DEF BrowserInv
<1>10. ASSUME NEW c \in Cleaner, CleanTargetOf(c) PROVE BrowserInv'
  <2> DEFINE j == cleaning[c].job
             t == cleaning[c].at
  <2>1. /\ cleaning[c] \in CleaningRecord /\ cleaning[c] # NoRun
        /\ j \in BrowserJob /\ t \in 1 .. Targets
    BY <1>0, <1>10, <1>a DEF CleanTargetOf, Targeted, BrowserTypes, CleaningRecord
  <2>2. cleanup[j] \in CleanupRecord
    BY <1>0, <2>1 DEF RunOK, Runnable, NoCleanup, BrowserTypes
  <2>3. cleanup[j].done = removed[j] /\ cleanup[j].done \subseteq 1 .. Targets
    BY <1>0, <2>1, <2>2, AbsentIsAbsent DEF DoneWasRemoved, CleanupRecord
  <2>4. PICK failed \in BOOLEAN, D \in SUBSET (1 .. Targets) :
          /\ cleaning' = [cleaning EXCEPT ![c].at = @ + 1, ![c].failed = @ \/ failed]
          /\ cleanup' = [cleanup EXCEPT ![j].done = D]
          /\ removed' = [removed EXCEPT ![j] = D]
          /\ cleanup[j].done \subseteq D
          /\ ~ failed => t \in D
    <3>1. CASE t \in cleanup[j].done /\ Visited(c, FALSE) /\ UNCHANGED <<cleanup, removed>>
      <4>1. /\ cleanup' = [cleanup EXCEPT ![j].done = removed[j]]
            /\ removed' = [removed EXCEPT ![j] = removed[j]]
        BY <1>0, <2>1, <2>2, <2>3, <3>1 DEF CleanupRecord, BrowserTypes
      <4>2. QED BY <2>3, <3>1, <4>1 DEF Visited
    <3>2. CASE /\ t \notin cleanup[j].done
               /\ cleanup' = [cleanup EXCEPT ![j].done = @ \cup {t}]
               /\ removed' = [removed EXCEPT ![j] = @ \cup {t}]
               /\ Visited(c, FALSE)
      <4> DEFINE D == removed[j] \cup {t}
      <4>1. D \in SUBSET (1 .. Targets) /\ cleanup[j].done \subseteq D /\ t \in D
        BY <2>1, <2>3
      <4>2. cleanup' = [cleanup EXCEPT ![j].done = D] /\ removed' = [removed EXCEPT ![j] = D]
        BY <2>3, <3>2
      <4> HIDE DEF D
      <4>3. QED BY <3>2, <4>1, <4>2 DEF Visited
    <3>3. CASE /\ t \notin cleanup[j].done
               /\ cleanup' = [cleanup EXCEPT ![j].done = DoneAfter(@, t)]
               /\ Visited(c, TRUE)
               /\ UNCHANGED removed
      <4>1. /\ cleanup' = [cleanup EXCEPT ![j].done = removed[j]]
            /\ removed' = [removed EXCEPT ![j] = removed[j]]
        BY <1>0, <2>1, <2>3, <3>3 DEF DoneAfter, BrowserTypes
      <4>2. QED BY <2>3, <3>3, <4>1 DEF Visited
    <3>4. QED BY <1>10, <3>1, <3>2, <3>3 DEF CleanTargetOf
  <2>5. UNCHANGED <<clock, job, session, made, boots>> BY <1>10 DEF CleanTargetOf
  <2> HIDE DEF j, t
  <2> DEFINE p == [cleanup[j] EXCEPT !.done = D]
             f == cleaning[c].failed \/ failed
             r == [cleaning[c] EXCEPT !.at = t + 1, !.failed = f]
  <2>6. /\ p \in CleanupRecord /\ p.done = D /\ p.status = cleanup[j].status
        /\ cleanup' = [cleanup EXCEPT ![j] = p]
    BY <1>0, <2>1, <2>2, <2>4 DEF CleanupRecord, BrowserTypes
  <2>7. /\ r \in CleaningRecord /\ r.job = j /\ r.at = t + 1
        /\ r.failed = f
        /\ cleaning' = [cleaning EXCEPT ![c] = r]
    <3>1. cleaning' = [cleaning EXCEPT ![c] = r] BY <1>0, <2>4 DEF t, BrowserTypes
    <3>2. f \in BOOLEAN /\ t + 1 \in 1 .. Targets + 1 BY <1>a, <2>1
    <3> HIDE DEF f
    <3>3. QED BY <2>1, <3>1, <3>2 DEF CleaningRecord, j
  <2> HIDE DEF p, r
  <2>8. p # NoCleanup /\ r # NoRun BY <2>6, <2>7, AbsentIsAbsent
  <2>9. BrowserTypes'
    <3>1. removed' \in [BrowserJob -> SUBSET (1 .. Targets)]
      BY <1>0, <2>4 DEF BrowserTypes
    <3>2. QED BY <1>0, <2>5, <2>6, <2>7, <3>1 DEF BrowserTypes
  <2>10. \A k \in BrowserJob : OverIsClosed(k)' BY <1>0, <2>5 DEF OverIsClosed
  <2>11. \A k \in BrowserJob : DoneWasRemoved(k)'
    <3> TAKE k \in BrowserJob
    <3>1. CASE k = j
      <4>1. cleanup'[k] = p BY <1>0, <2>6, <3>1 DEF BrowserTypes
      <4>2. removed'[k] = D
        BY <1>0, <2>1, <2>4, <3>1 DEF BrowserTypes
      <4>3. p.status # "complete" BY <1>0, <2>1, <2>6 DEF RunOK, Runnable, j
      <4>4. QED BY <2>6, <4>1, <4>2, <4>3 DEF DoneWasRemoved
    <3>2. CASE k # j
      BY <1>0, <2>4, <2>6, <3>2 DEF DoneWasRemoved, BrowserTypes
    <3>3. QED BY <3>1, <3>2
  <2>12. \A b \in Cleaner : RunOK(b)'
    <3> TAKE b \in Cleaner
    <3>1. CASE b = c
      <4>1. cleaning'[b] = r /\ cleanup'[j] = p
        BY <1>0, <2>1, <2>6, <2>7, <3>1 DEF BrowserTypes
      <4>2. ~ r.failed => 1 .. (r.at - 1) \subseteq p.done
        <5> SUFFICES ASSUME ~ r.failed PROVE 1 .. (r.at - 1) \subseteq p.done OBVIOUS
        <5>1. ~ cleaning[c].failed /\ ~ failed BY <2>7 DEF f
        <5>2. 1 .. (t - 1) \subseteq cleanup[j].done /\ t \in D
          BY <1>0, <2>1, <2>4, <5>1 DEF RunOK, j, t
        <5>3. QED BY <2>1, <2>4, <2>6, <2>7, <5>2
      <4>3. p.status \in {"pending", "failed"} BY <1>0, <2>1, <2>6 DEF RunOK, Runnable, j
      <4>4. \A a \in Cleaner : cleaning'[a].job = j => a = c
        BY <1>0, <2>1, <2>7 DEF RunOK, BrowserTypes, j
      <4>5. QED BY <2>7, <3>1, <4>1, <4>2, <4>3, <4>4 DEF RunOK, Runnable
    <3>2. CASE b # c
      <4>1. cleaning'[b] = cleaning[b] BY <1>0, <2>7, <3>2 DEF BrowserTypes
      <4> SUFFICES ASSUME cleaning[b] # NoRun PROVE RunOK(b)' BY <4>1 DEF RunOK
      <4>2. cleaning[b].job \in BrowserJob /\ cleaning[b].job # j
        BY <1>0, <2>1, <3>2 DEF RunOK, BrowserTypes, CleaningRecord, j
      <4>3. cleanup'[cleaning[b].job] = cleanup[cleaning[b].job]
        BY <1>0, <2>6, <4>2 DEF BrowserTypes
      <4>4. cleaning'[c].job = j BY <1>0, <2>7 DEF BrowserTypes
      <4>5. \A a \in Cleaner : a # c => cleaning'[a] = cleaning[a]
        BY <1>0, <2>7 DEF BrowserTypes
      <4>6. \A a \in Cleaner : cleaning'[a].job = cleaning'[b].job => a = b
        BY <1>0, <4>1, <4>2, <4>4, <4>5 DEF RunOK
      <4>7. QED BY <1>0, <4>1, <4>3, <4>6 DEF RunOK, Runnable
    <3>3. QED BY <3>1, <3>2
  <2>13. QED BY <2>9, <2>10, <2>11, <2>12 DEF BrowserInv
<1>11. ASSUME NEW c \in Cleaner, EndCleaning(c) PROVE BrowserInv'
  <2> DEFINE j == cleaning[c].job
             p == [cleanup[j] EXCEPT !.status = IF cleaning[c].failed THEN "failed" ELSE "complete"]
  <2>1. /\ cleaning[c] \in CleaningRecord /\ cleaning[c] # NoRun
        /\ j \in BrowserJob /\ cleaning[c].at = Targets + 1
    BY <1>0, <1>11, <1>a DEF EndCleaning, Targeted, BrowserTypes, CleaningRecord
  <2>2. cleanup[j] \in CleanupRecord
    BY <1>0, <2>1 DEF RunOK, Runnable, NoCleanup, BrowserTypes
  <2>3. cleanup[j].done = removed[j] /\ cleanup[j].done \subseteq 1 .. Targets
    BY <1>0, <2>1, <2>2, AbsentIsAbsent DEF DoneWasRemoved, CleanupRecord
  <2>4. /\ p \in CleanupRecord /\ p.done = cleanup[j].done
        /\ p.status = "complete" => ~ cleaning[c].failed
    BY <2>2 DEF CleanupRecord
  <2>5. /\ cleanup' = [cleanup EXCEPT ![j] = p]
        /\ cleaning' = [cleaning EXCEPT ![c] = NoRun]
        /\ UNCHANGED <<clock, job, session, removed, made, boots>>
    BY <1>0, <1>11 DEF EndCleaning, BrowserTypes
  <2> HIDE DEF p
  <2>7. BrowserTypes' BY <1>0, <2>1, <2>4, <2>5 DEF BrowserTypes
  <2>8. \A k \in BrowserJob : OverIsClosed(k)' BY <1>0, <2>5 DEF OverIsClosed
  <2>9. ASSUME p.status = "complete" PROVE removed[j] = 1 .. Targets
    <3>1. 1 .. (cleaning[c].at - 1) \subseteq cleanup[j].done BY <1>0, <2>1, <2>4, <2>9 DEF RunOK
    <3>2. cleaning[c].at - 1 = Targets BY <1>a, <2>1
    <3>3. QED BY <2>3, <3>1, <3>2
  <2>10. \A k \in BrowserJob : DoneWasRemoved(k)'
    <3> HIDE DEF j
    <3> TAKE k \in BrowserJob
    <3>1. CASE k = j
      <4>1. cleanup'[k] = p BY <1>0, <2>5, <3>1 DEF BrowserTypes
      <4>2. QED BY <2>3, <2>4, <2>5, <2>9, <3>1, <4>1 DEF DoneWasRemoved
    <3>2. CASE k # j
      <4>1. cleanup'[k] = cleanup[k] BY <1>0, <2>5, <3>2 DEF BrowserTypes
      <4>2. QED BY <1>0, <2>5, <4>1 DEF DoneWasRemoved
    <3>3. QED BY <3>1, <3>2
  <2>11. \A b \in Cleaner : RunOK(b)'
    <3> TAKE b \in Cleaner
    <3>1. CASE b = c
      BY <1>0, <2>5, <3>1 DEF RunOK, BrowserTypes
    <3>2. CASE b # c
      <4>1. cleaning'[b] = cleaning[b] BY <1>0, <2>5, <3>2 DEF BrowserTypes
      <4> SUFFICES ASSUME cleaning[b] # NoRun PROVE RunOK(b)' BY <4>1 DEF RunOK
      <4>2. cleaning[b].job \in BrowserJob /\ cleaning[b].job # j
        BY <1>0, <2>1, <3>2 DEF RunOK, BrowserTypes, CleaningRecord
      <4> HIDE DEF j
      <4>3. cleanup'[cleaning[b].job] = cleanup[cleaning[b].job]
        BY <1>0, <2>5, <4>2 DEF BrowserTypes
      <4>4. \A a \in Cleaner : cleaning'[a] = IF a = c THEN NoRun ELSE cleaning[a]
        BY <1>0, <2>5 DEF BrowserTypes
      <4>5. NoRun.job \notin BrowserJob BY BrowserAssumption DEF NoRun
      <4>6. \A a \in Cleaner : cleaning'[a].job = cleaning'[b].job => a = b
        BY <1>0, <4>1, <4>2, <4>4, <4>5 DEF RunOK
      <4>7. QED BY <1>0, <4>1, <4>3, <4>6 DEF RunOK, Runnable
    <3>3. QED BY <3>1, <3>2
  <2>12. QED BY <2>7, <2>8, <2>10, <2>11 DEF BrowserInv
<1>12. CASE UNCHANGED browserVars
  <2>1. /\ UNCHANGED <<cleanup, cleaning, removed, made, boots>>
        /\ UNCHANGED <<clock, job, session>>
    BY <1>12 DEF browserVars
  <2>2. QED BY <1>0, <2>1, SessionsOnly DEF BrowserTypes, OverIsClosed
<1>13. QED
  BY <1>1, <1>2, <1>3, <1>4, <1>5, <1>6, <1>7, <1>8, <1>9, <1>10, <1>11, <1>12
  DEF BrowserNext, CleanNext, CleanNamed, CleanStep

\* What the invariant says of the sessions.
LEMMA BrowserInvSuffices == BrowserInv => BrowserTypeOK /\ OverLeavesNothing
<1> SUFFICES ASSUME BrowserInv PROVE BrowserTypeOK /\ OverLeavesNothing OBVIOUS
<1>1. BrowserTypeOK
  <2>1. \A j \in BrowserJob :
          session[j].state \in {"none", "open", "canceled", "expired", "finished"}
    BY DEF BrowserInv, BrowserTypes, SessionRecord, NoSession
  <2>2. \A j \in BrowserJob : cleanup[j] # NoCleanup => cleanup[j].attempts \in 0 .. MaxAttempts
    BY DEF BrowserInv, BrowserTypes, CleanupRecord
  <2>3. \A c \in Cleaner : cleaning[c] = NoRun \/ cleaning[c].at \in 1 .. Targets + 1
    BY DEF BrowserInv, BrowserTypes, CleaningRecord
  <2>4. QED BY <2>1, <2>2, <2>3 DEF BrowserInv, BrowserTypes, BrowserJobState, BrowserTypeOK
<1>2. OverLeavesNothing
  BY DEF BrowserInv, OverIsClosed, DoneWasRemoved, OverLeavesNothing, NoCleanup
<1>3. QED BY <1>1, <1>2

\* No step revives a session that a request was refused for.
LEMMA GoneStaysGone ==
  ASSUME BrowserInv, BrowserNext, boots' = boots, NEW j \in BrowserJob,
         session[j] # NoSession, ~ SessionAdmits(session[j], clock)
  PROVE  ~ SessionAdmits(session'[j], clock')
<1>0. /\ BrowserTypes /\ session[j] \in SessionRecord /\ clock \in Nat
  BY BrowserAssumption DEF BrowserInv, BrowserTypes
<1>1. CASE ClockTicks
  <2>1. clock' = clock + 1 /\ session'[j] = session[j] BY <1>1 DEF ClockTicks
  <2>2. QED BY <1>0, <2>1 DEF SessionAdmits, TimedOut, SessionRecord
<1>2. CASE RestartSessions BY <1>2 DEF RestartSessions
<1>3. ASSUME NEW k \in BrowserJob, QueueJob(k) PROVE ~ SessionAdmits(session'[j], clock')
  BY <1>0, <1>3 DEF QueueJob, BrowserTypes
<1>4. ASSUME NEW k \in BrowserJob, SpawnJob(k) \/ RefuseJob(k) \/ PlanCleanup(k)
      PROVE  ~ SessionAdmits(session'[j], clock')
  BY <1>4 DEF SpawnJob, RefuseJob, PlanCleanup
<1>5. ASSUME NEW k \in BrowserJob, NEW x \in {"canceled", "expired", "finished"}, End(k, x),
             clock' = clock
      PROVE  ~ SessionAdmits(session'[j], clock')
  BY <1>5, EndCloses DEF SessionAdmits
<1>6. ASSUME NEW k \in BrowserJob, FinishBrowserJob(k) \/ CancelBrowserJob(k)
      PROVE  ~ SessionAdmits(session'[j], clock')
  BY <1>5, <1>6 DEF FinishBrowserJob, CancelBrowserJob
<1>7. ASSUME NEW k \in BrowserJob, AccessSession(k) PROVE ~ SessionAdmits(session'[j], clock')
  BY <1>0, <1>7 DEF AccessSession, BrowserTypes
<1>8. ASSUME NEW c \in Cleaner, CleanNext(c) \/ CleanNamed(c) \/ CleanStep(c)
      PROVE  ~ SessionAdmits(session'[j], clock')
  BY <1>8 DEF CleanNext, CleanNamed, StartCleaning, CleanStep, CleanTargetOf, EndCleaning
<1>9. QED
  BY <1>1, <1>2, <1>3, <1>4, <1>6, <1>7, <1>8 DEF BrowserNext

\* The invariant holds in every state of the registry and the cleanup queue.
THEOREM BrowserInvariant == BrowserSpec => []BrowserInv
BY BrowserInitOK, BrowserInvPreserved, PTL DEF BrowserSpec

\* A job that is over leaves no open session, and a cleanup that calls itself complete has
\* removed every target since its plan was made, however often it is run.
THEOREM BrowserLeavesNothing == BrowserSpec => []OverLeavesNothing
BY BrowserInvariant, BrowserInvSuffices, PTL

\* A session that is refused once is refused until the server restarts.
THEOREM BrowserGoneForGood == BrowserSpec => GoneForGood
<1>1. BrowserInv /\ [BrowserNext]_browserVars =>
        [boots' = boots =>
           \A j \in BrowserJob :
             session[j] # NoSession /\ ~ SessionAdmits(session[j], clock)
               => ~ SessionAdmits(session'[j], clock')]_browserVars
  BY GoneStaysGone
<1>2. QED BY <1>1, BrowserInvariant, PTL DEF BrowserSpec, GoneForGood

\* Another step than a run's own does not touch the plan of that run.
LEMMA PlanOfRunIsLeft ==
  ASSUME BrowserInv, BrowserNext, boots' = boots, NEW c \in Cleaner,
         cleaning[c] # NoRun, cleaning'[c] = cleaning[c]
  PROVE  cleanup'[cleaning[c].job] = cleanup[cleaning[c].job]
<1>0. /\ BrowserTypes /\ RunOK(c) /\ cleaning[c].job \in BrowserJob
  BY DEF BrowserInv, BrowserTypes, CleaningRecord
<1>1. CASE cleanup' = cleanup BY <1>1
<1>2. CASE RestartSessions BY <1>0, <1>2 DEF RestartSessions
<1>3. ASSUME NEW j \in BrowserJob, PlanCleanup(j)
      PROVE  cleanup'[cleaning[c].job] = cleanup[cleaning[c].job]
  <2>1. cleaning[c].job # j BY <1>0, <1>3 DEF RunOK, Runnable, PlanCleanup
  <2>2. QED BY <1>0, <1>3, <2>1 DEF PlanCleanup, BrowserTypes
<1>4. ASSUME NEW d \in Cleaner, NEW j \in BrowserJob, StartCleaning(d, j)
      PROVE  cleanup'[cleaning[c].job] = cleanup[cleaning[c].job]
  <2>1. cleaning[c].job # j BY <1>4 DEF StartCleaning, HashFits
  <2>2. QED BY <1>0, <1>4, <2>1 DEF StartCleaning, BrowserTypes
<1>5. ASSUME NEW d \in Cleaner, CleanStep(d)
      PROVE  cleanup'[cleaning[c].job] = cleanup[cleaning[c].job]
  <2>1. d # c
    <3>1. CASE d = c /\ EndCleaning(d) BY <1>0, <3>1 DEF EndCleaning, BrowserTypes
    <3>2. CASE d = c /\ CleanTargetOf(d)
      <4>1. PICK failed \in BOOLEAN : Visited(c, failed) BY <3>2 DEF CleanTargetOf
      <4>2. cleaning[c] \in CleaningRecord BY <1>0 DEF BrowserTypes
      <4>3. cleaning'[c].at = cleaning[c].at + 1
        BY <1>0, <4>1, <4>2 DEF Visited, BrowserTypes, CleaningRecord
      <4>4. QED BY <4>2, <4>3 DEF CleaningRecord
    <3>3. QED BY <1>5, <3>1, <3>2 DEF CleanStep
  <2>2. cleaning[d].job # cleaning[c].job BY <1>0, <2>1 DEF RunOK
  <2>3. QED
    BY <1>0, <1>5, <2>2 DEF CleanStep, CleanTargetOf, EndCleaning, DoneAfter, BrowserTypes
<1>6. QED
  BY <1>1, <1>2, <1>3, <1>4, <1>5
  DEF BrowserNext, ClockTicks, QueueJob, SpawnJob, RefuseJob, FinishBrowserJob,
      CancelBrowserJob, AccessSession, CleanNext, CleanNamed

\* While a run of the cleanup queue waits for a removal nobody changes its plan, whoever
\* else runs the queue or plans a cleanup.
THEOREM BrowserRunHasItsPlan == BrowserSpec => RunHasItsPlan
<1>1. BrowserInv /\ [BrowserNext]_browserVars =>
        [boots' = boots =>
           \A c \in Cleaner : cleaning[c] # NoRun /\ cleaning'[c] = cleaning[c] =>
             cleanup'[cleaning[c].job] = cleanup[cleaning[c].job]]_browserVars
  BY PlanOfRunIsLeft
<1>2. QED BY <1>1, BrowserInvariant, PTL DEF BrowserSpec, RunHasItsPlan

-----------------------------------------------------------------------------
(* The parts side by side.                                                  *)

\* A step of the whole is a step of one part and of no other.
LEMMA DutiesStepParts ==
  [DutiesNext]_dutyVars =>
    [PlanNext]_planVars /\ [BrowserNext]_browserVars /\ [OutboxNext]_outboxVars
BY DEF DutiesNext, PlanMoves, BrowserMoves, OutboxMoves, dutyVars

\* Side by side the parts keep to their specifications: the plans with their fairness, the
\* outbox in all its steps.
THEOREM DutiesImplementParts ==
  DutiesSpec => PlanSpec /\ BrowserSpec /\ OutboxInit /\ [][OutboxNext]_outboxVars
<1>1. DutiesInit => PlanInit /\ BrowserInit /\ OutboxInit BY DEF DutiesInit
<1>2. DutiesFairness => WF_planVars(JobFinishes) BY PTL DEF DutiesFairness
<1>3. QED
  BY <1>1, <1>2, DutiesStepParts, PTL DEF DutiesSpec, PlanSpec, BrowserSpec

\* All that the server has begun: the parts keep their types, what goes live was rehearsed
\* and goes live once, a job that is over leaves nothing, and the outbox is sound.
THEOREM DutiesSound ==
  DutiesSpec => [](DutiesTypeOK /\ LiveWasRehearsed /\ LiveOnce
                   /\ OverLeavesNothing /\ OutboxIsSound)
<1>1. DutiesSpec => []OutboxInv
  BY DutiesImplementParts, OutboxInitOK, OutboxInvPreserved, PTL
<1>2. DutiesSpec => []BrowserInv
  BY DutiesImplementParts, BrowserInvariant, PTL
<1>3. DutiesSpec => []PlanTypeOK /\ []LiveWasRehearsed /\ []LiveOnce
  BY DutiesImplementParts, PlanTypeCorrect, PlanRehearsed, PlanLiveOnce, PTL
<1>4. PlanTypeOK /\ BrowserTypeOK /\ OutboxTypeOK => DutiesTypeOK BY DEF DutiesTypeOK
<1>5. QED BY <1>1, <1>2, <1>3, <1>4, OutboxInvSuffices, BrowserInvSuffices, PTL

\* Beside the other parts, too, an outcome is not rewritten, a session that is refused is not
\* revived, and a cleanup run has its plan to itself.
THEOREM DutiesFinal == DutiesSpec => OutcomeIsFinal /\ GoneForGood /\ RunHasItsPlan
BY DutiesImplementParts, PlanOutcomeFinal, BrowserGoneForGood, BrowserRunHasItsPlan
=============================================================================
