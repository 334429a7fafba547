----------------------------- MODULE AuditOutbox -----------------------------
(***************************************************************************)
(* Delivery of audit events to an external sink: the outbox table of       *)
(* lib/db.js, the drain of lib/audit-outbox-worker.js and the scheduler of *)
(* lib/audit-outbox-scheduler.js that starts a drain from a timer.         *)
(*                                                                         *)
(* A drain lists the due rows once and then, row by row, awaits the        *)
(* connector and marks the row.  Between the call and the mark anything    *)
(* else may happen: new events, stop and start, a crash of the server.     *)
(* Times are abstracted: a failed row is not due until its backoff is      *)
(* over, and the scheduler's delays only say that its timer fires later.   *)
(***************************************************************************)
EXTENDS Naturals, FiniteSets, FiniteSetsExt

CONSTANTS
  Event,      (* audit ids, appended in order                               *)
  NoEvent,
  Drain,      (* names for drains that may be under way                     *)
  NoDrain,
  MaxTries,   (* maxAttempts of a delivery                                  *)
  MaxStops    (* bound on stops and crashes of the scheduler                *)

ASSUME OutboxAssumption ==
  /\ Event \subseteq Nat /\ NoEvent \notin Event /\ NoDrain \notin Drain
  /\ MaxTries \in Nat \ {0} /\ MaxStops \in Nat

VARIABLES
  box,        (* the outbox table                                           *)
  drains,     (* the local variables of each drain                          *)
  inFlight,   (* the scheduler's drain, between tick and its finally        *)
  started, timer,
  stops,      (* stops and crashes so far                                   *)
  received,   (* history: how often the sink got each event                 *)
  faults      (* history: receipts whose success the worker never learned   *)

outboxVars == <<box, drains, inFlight, started, timer, stops, received, faults>>
schedVars == <<inFlight, started, timer, stops>>

-----------------------------------------------------------------------------
OpenStatus    == {"pending", "failed"}
SettledStatus == {"delivered", "dead-letter"}

OutboxRow == [status: OpenStatus \cup SettledStatus \cup {"absent"},
              attempts: Nat, due: BOOLEAN]
NoOutboxRow == [status |-> "absent", attempts |-> 0, due |-> FALSE]

IdleDrain == [active |-> FALSE, todo |-> {}, seen |-> [e \in Event |-> 0],
              at |-> NoEvent, got |-> FALSE]

\* Wrong variant: events that are to be tried again are not listed.
DueEventsPending == {e \in Event : box[e].status = "pending" /\ box[e].due}

\* listDueWebuiAuditOutbox
DueEvents == {e \in Event : box[e].status \in OpenStatus /\ box[e].due}

IsLastTry(tries) == tries >= MaxTries

-----------------------------------------------------------------------------
\* appendWebuiJobAudit in webhook mode: the row is inserted and the synchronous
\* write, which has no connector, fails and counts as an attempt; the server may
\* die between the two statements.
AppendEvent ==
  /\ \E e \in Event, tried \in {0, 1} :
       /\ box[e] = NoOutboxRow /\ \A k \in Event : k < e => box[k] # NoOutboxRow
       /\ box' = [box EXCEPT ![e] = [status |-> "pending", attempts |-> tried, due |-> TRUE]]
  /\ UNCHANGED <<drains, schedVars, received, faults>>

\* The backoff of a failed row is over.
BackoffPasses ==
  /\ \E e \in Event : box[e].status = "failed" /\ ~ box[e].due
                      /\ box' = [box EXCEPT ![e].due = TRUE]
  /\ UNCHANGED <<drains, schedVars, received, faults>>

FreeDrains == {d \in Drain : ~ drains[d].active}

BeginDrain(d) ==
  /\ drains' = [drains EXCEPT ![d] =
       [IdleDrain EXCEPT !.active = TRUE, !.todo = DueEvents,
                         !.seen = [e \in Event |-> box[e].attempts]]]
  /\ inFlight' = d

\* Wrong variant: a tick does not look whether one is in flight.
TickOverlapping ==
  IF FreeDrains # {} THEN \E d \in FreeDrains : BeginDrain(d)
                     ELSE UNCHANGED <<drains, inFlight>>

\* tick: skipped while a drain is in flight.
Tick ==
  IF inFlight = NoDrain THEN \E d \in FreeDrains : BeginDrain(d)
                        ELSE UNCHANGED <<drains, inFlight>>

\* The finally of a skipped tick arms the timer at once.
RearmAfterSkip == inFlight # NoDrain

TimerFires ==
  /\ timer /\ started
  /\ Tick
  /\ timer' = RearmAfterSkip
  /\ UNCHANGED <<box, started, stops, received, faults>>

Start ==
  /\ ~ started /\ started' = TRUE
  /\ \E immediate \in BOOLEAN :
       IF immediate THEN Tick /\ timer' = RearmAfterSkip
                    ELSE timer' = TRUE /\ UNCHANGED <<drains, inFlight>>
  /\ UNCHANGED <<box, stops, received, faults>>

\* stop does not interrupt the drain that is under way.
Stop ==
  /\ started /\ stops < MaxStops
  /\ started' = FALSE /\ timer' = FALSE /\ stops' = stops + 1
  /\ UNCHANGED <<box, drains, inFlight, received, faults>>

\* The server dies; a drain under way leaves its row as it was.
Crash ==
  /\ stops < MaxStops /\ stops' = stops + 1
  /\ started' = FALSE /\ timer' = FALSE /\ inFlight' = NoDrain
  /\ drains' = [d \in Drain |-> IdleDrain]
  /\ faults' = [e \in Event |->
       faults[e] + Cardinality({d \in Drain : drains[d].at = e /\ drains[d].got})]
  /\ UNCHANGED <<box, received>>

\* _deliverOne calls the connector for the next row of the list, oldest first;
\* the sink may get the event or not.
CallConnector(d) ==
  /\ drains[d].active /\ drains[d].at = NoEvent /\ drains[d].todo # {}
  /\ \E got \in BOOLEAN : LET e == Min(drains[d].todo) IN
       /\ drains' = [drains EXCEPT ![d].at = e, ![d].todo = @ \ {e}, ![d].got = got]
       /\ received' = [received EXCEPT ![e] = IF got THEN @ + 1 ELSE @]
  /\ UNCHANGED <<box, schedVars, faults>>

\* What the connector may answer: only a receipt is answered "ok", but a receipt
\* may also be answered with an error, when its response is lost.
Answers(got) == {"retryable", "fatal"} \cup (IF got THEN {"ok"} ELSE {"refused"})

\* deliveryErrorFromResult: a result that says ok: false is an error too.
Delivers(answer) == answer = "ok"

\* markWebuiAuditOutboxDelivery adds one to the stored attempts; whether the try
\* was the last one is decided on the attempts the list had.
Marked(r, tries, answer) ==
  [status   |-> IF Delivers(answer) THEN "delivered"
                ELSE IF answer = "fatal" \/ IsLastTry(tries) THEN "dead-letter"
                ELSE "failed",
   attempts |-> r.attempts + 1,
   due      |-> FALSE]

ConnectorAnswers(d) ==
  /\ drains[d].active /\ drains[d].at # NoEvent
  /\ LET e == drains[d].at IN
     \E answer \in Answers(drains[d].got) :
       /\ box' = [box EXCEPT ![e] = Marked(@, drains[d].seen[e] + 1, answer)]
       /\ faults' = [faults EXCEPT ![e] =
            IF drains[d].got /\ ~ Delivers(answer) THEN @ + 1 ELSE @]
  /\ drains' = [drains EXCEPT ![d].at = NoEvent, ![d].got = FALSE]
  /\ UNCHANGED <<schedVars, received>>

RearmAfterDrain == started

\* The end of a drain, and of the tick that awaits it.
DrainEnds(d) ==
  /\ drains[d].active /\ drains[d].at = NoEvent /\ drains[d].todo = {}
  /\ drains' = [drains EXCEPT ![d] = IdleDrain]
  /\ inFlight' = NoDrain
  /\ timer' = RearmAfterDrain
  /\ UNCHANGED <<box, started, stops, received, faults>>

-----------------------------------------------------------------------------
OutboxInit ==
  /\ box = [e \in Event |-> NoOutboxRow]
  /\ drains = [d \in Drain |-> IdleDrain]
  /\ inFlight = NoDrain /\ started = FALSE /\ timer = FALSE /\ stops = 0
  /\ received = [e \in Event |-> 0] /\ faults = [e \in Event |-> 0]

OutboxNext ==
  \/ AppendEvent \/ BackoffPasses \/ TimerFires \/ Start \/ Stop \/ Crash
  \/ \E d \in Drain : CallConnector(d) \/ ConnectorAnswers(d) \/ DrainEnds(d)

\* Timers fire, a stopped server is started again, and the connector answers,
\* if only with an error: the worker itself sets no limit on its call.
OutboxFairness ==
  /\ WF_outboxVars(BackoffPasses) /\ WF_outboxVars(TimerFires) /\ WF_outboxVars(Start)
  /\ \A d \in Drain : /\ WF_outboxVars(CallConnector(d)) /\ WF_outboxVars(ConnectorAnswers(d))
                      /\ WF_outboxVars(DrainEnds(d))

OutboxSpec == OutboxInit /\ [][OutboxNext]_outboxVars /\ OutboxFairness

-----------------------------------------------------------------------------
\* Type invariant of the outbox and its scheduler.
OutboxTypeOK ==
  /\ box \in [Event -> OutboxRow]
  /\ inFlight \in Drain \cup {NoDrain} /\ started \in BOOLEAN /\ timer \in BOOLEAN
  /\ \A d \in Drain : /\ drains[d].todo \subseteq Event
                      /\ drains[d].at \in Event \cup {NoEvent}
  /\ stops \in 0 .. MaxStops
  /\ received \in [Event -> Nat] /\ faults \in [Event -> Nat]

\* A row is only marked delivered when the sink received its event.
DeliveredWasReceived ==
  \A e \in Event : box[e].status = "delivered" => received[e] > 0

\* The sink gets an event twice only after a receipt the worker could not learn
\* of (a lost answer, a crash): overlapping ticks never send an event again.
DuplicatesNeedFaults == \A e \in Event : received[e] <= faults[e] + 1

\* No event is tried more than maxAttempts times, the append's own try included
\* (and that try leaves room for one more even when maxAttempts is 1).
TriesAreBounded == \A e \in Event : box[e].attempts <= Max({MaxTries, 2})

\* A started scheduler always has a timer armed or a drain whose end arms it, in
\* whatever order timers, starts, stops and drains interleave.
StaysArmed == started => timer \/ inFlight # NoDrain

\* Delivery is sound: the four above.
OutboxIsSound ==
  DeliveredWasReceived /\ DuplicatesNeedFaults /\ TriesAreBounded /\ StaysArmed

\* Every appended event is delivered or dead-lettered in the end.
EveryEventSettles ==
  \A e \in Event : box[e].status = "pending" ~> box[e].status \in SettledStatus
=============================================================================
