------------------------------- MODULE Outbox --------------------------------
(***************************************************************************)
(* The transactional outbox (infrastructure/outbox): events are recorded   *)
(* by the transaction that changes the state, and a relay in every replica *)
(* publishes them afterwards.  The relay's SELECT ... FOR UPDATE SKIP      *)
(* LOCKED is a statement of its own, so its locks are gone when it returns *)
(* and a row is worked on from the copy that was read.  nextAttemptAt is   *)
(* abstracted to "due some time later".                                    *)
(***************************************************************************)
EXTENDS Naturals, Sequences

CONSTANTS
  Events,        \* outbox_events rows, recorded or not yet
  Replicas,      \* API processes with workers enabled
  MaxAttempts,   \* outbox_events.maxAttempts
  BatchSize,     \* drain's batchSize
  MaxCrashes,    \* bound on the crashes explored
  MaxReplays     \* bound on the replays of dead letters explored

ASSUME OutboxAssumption ==
  /\ MaxAttempts \in Nat \ {0} /\ BatchSize \in Nat \ {0}
  /\ MaxCrashes \in Nat /\ MaxReplays \in Nat

VARIABLES
  row,         \* outbox_events: status and attempts
  log,         \* the recorded events in the order of occurredAt
  emitted,     \* how often the handlers were given an event and took it
  failures,    \* how often the handlers, or the database, refused one
  draining,    \* OutboxService.draining of each replica
  batch,       \* the rows of the current drain not yet dealt with, as read
  handled,     \* the head of the batch has been emitted, and is to be marked
  crashes, replays

vars == <<row, log, emitted, failures, draining, batch, handled, crashes, replays>>

Absent == [status |-> "ABSENT", attempts |-> 0]
Read == [event : Events, attempts : Nat]

TypeOK ==
  /\ row \in [Events -> [status : {"ABSENT", "PENDING", "PUBLISHED", "DEAD_LETTER"},
                         attempts : Nat]]
  /\ log \in Seq(Events)
  /\ emitted \in [Events -> Nat] /\ failures \in [Events -> Nat]
  /\ draining \in [Replicas -> BOOLEAN]
  /\ batch \in [Replicas -> Seq(Read)]
  /\ handled \in [Replicas -> BOOLEAN]
  /\ crashes \in 0..MaxCrashes /\ replays \in 0..MaxReplays

Init ==
  /\ row = [e \in Events |-> Absent]
  /\ log = << >>
  /\ emitted = [e \in Events |-> 0] /\ failures = [e \in Events |-> 0]
  /\ draining = [r \in Replicas |-> FALSE]
  /\ batch = [r \in Replicas |-> << >>]
  /\ handled = [r \in Replicas |-> FALSE]
  /\ crashes = 0 /\ replays = 0

(* The two histories count no further than a property asks.                *)
UpTo(most, n) == IF n < most THEN n ELSE most

(* record, inside the caller's transaction.                                *)
Record(e) ==
  /\ row[e] = Absent
  /\ row' = [row EXCEPT ![e].status = "PENDING"]
  /\ log' = Append(log, e)
  /\ UNCHANGED <<emitted, failures, draining, batch, handled, crashes, replays>>

(* A batch of rows that are due, the oldest first.  Which of the failed    *)
(* ones are due again is open, so a batch may skip any pending row.        *)
Due(e) == row[e].status = "PENDING"

Before(d, e) == \E i, j \in DOMAIN log : i < j /\ log[i] = d /\ log[j] = e

OldestFirst(b) == \A i, j \in DOMAIN b : i < j => Before(b[i], b[j])

Copy(e) == [event |-> e, attempts |-> row[e].attempts]

Drain(r) ==
  /\ ~draining[r]
  /\ \E n \in 1..BatchSize : \E b \in [1..n -> {e \in Events : Due(e)}] :
       /\ OldestFirst(b)
       /\ batch' = [batch EXCEPT ![r] = [i \in 1..n |-> Copy(b[i])]]
  /\ draining' = [draining EXCEPT ![r] = TRUE]
  /\ UNCHANGED <<row, log, emitted, failures, handled, crashes, replays>>

(* publishRow: the handlers take the event, ...                            *)
Emit(r) ==
  /\ batch[r] # << >> /\ ~handled[r]
  /\ emitted' = [emitted EXCEPT ![Head(batch[r]).event] = UpTo(2, @ + 1)]
  /\ handled' = [handled EXCEPT ![r] = TRUE]
  /\ UNCHANGED <<row, log, failures, draining, batch, crashes, replays>>

(* ... and the row is marked.                                              *)
Mark(r) ==
  /\ handled[r]
  /\ LET e == Head(batch[r]).event IN
       row' = [row EXCEPT ![e] = [status |-> "PUBLISHED", attempts |-> @.attempts + 1]]
  /\ handled' = [handled EXCEPT ![r] = FALSE]
  /\ batch' = [batch EXCEPT ![r] = Tail(@)]
  /\ UNCHANGED <<log, emitted, failures, draining, crashes, replays>>

Exhausted_Early(n) == n + 1 >= MaxAttempts      \* mutant: counted twice

Exhausted(n) == n >= MaxAttempts

(* A handler throws, or the row cannot be marked: the outcome is written   *)
(* from the attempts that were read.                                       *)
Fail(r) ==
  /\ batch[r] # << >>
  /\ LET q == Head(batch[r])
         n == q.attempts + 1
     IN /\ row' = [row EXCEPT ![q.event] =
             [status |-> IF Exhausted(n) THEN "DEAD_LETTER" ELSE "PENDING", attempts |-> n]]
        /\ failures' = [failures EXCEPT ![q.event] = UpTo(MaxAttempts, @ + 1)]
  /\ handled' = [handled EXCEPT ![r] = FALSE]
  /\ batch' = [batch EXCEPT ![r] = Tail(@)]
  /\ UNCHANGED <<log, emitted, draining, crashes, replays>>

(* The drain ends, and its finally clause lets the next one start.         *)
MayDrainAgain_Stuck(r) == batch[r] = << >> /\ failures = [e \in Events |-> 0]   \* mutant

MayDrainAgain(r) == batch[r] = << >>

EndDrain(r) ==
  /\ draining[r] /\ MayDrainAgain(r)
  /\ draining' = [draining EXCEPT ![r] = FALSE]
  /\ UNCHANGED <<row, log, emitted, failures, batch, handled, crashes, replays>>

(* replayDeadLetters                                                       *)
Replay ==
  /\ replays < MaxReplays
  /\ \E e \in Events : row[e].status = "DEAD_LETTER"
  /\ row' = [e \in Events |->
       IF row[e].status = "DEAD_LETTER" THEN [status |-> "PENDING", attempts |-> 0] ELSE row[e]]
  /\ replays' = replays + 1
  /\ UNCHANGED <<log, emitted, failures, draining, batch, handled, crashes>>

Crash(r) ==
  /\ crashes < MaxCrashes
  /\ crashes' = crashes + 1
  /\ draining' = [draining EXCEPT ![r] = FALSE]
  /\ batch' = [batch EXCEPT ![r] = << >>]
  /\ handled' = [handled EXCEPT ![r] = FALSE]
  /\ UNCHANGED <<row, log, emitted, failures, replays>>

Relay(r) == Emit(r) \/ Mark(r) \/ Fail(r) \/ EndDrain(r)

Next ==
  \/ \E e \in Events : Record(e)
  \/ \E r \in Replicas : Drain(r) \/ Relay(r) \/ Crash(r)
  \/ Replay

Spec == Init /\ [][Next]_vars

(* The interval timer of every replica fires for ever, and a row that      *)
(* keeps coming due is taken by some drain.                                *)
FairSpec ==
  /\ Spec
  /\ \A r \in Replicas : WF_vars(Drain(r)) /\ WF_vars(Relay(r))

------------------------------------------------------------------------------
(* Every recorded event is published or given up in the end, whichever     *)
(* replica crashes half way and however often a handler throws (drain,     *)
(* publishRow).                                                            *)
EventSettles ==
  \A e \in Events :
    row[e].status = "PENDING" ~> row[e].status \in {"PUBLISHED", "DEAD_LETTER"}

(* An event is dead only after maxAttempts real failures, though several   *)
(* relays count the attempts from copies they read earlier (publishRow).   *)
DeadAfterTrying ==
  \A e \in Events : row[e].status = "DEAD_LETTER" => failures[e] >= MaxAttempts

(* "FOR UPDATE SKIP LOCKED lets several replicas relay concurrently        *)
(* without any of them publishing the same event twice" (drain), while     *)
(* nothing crashes or fails and nobody replays.                            *)
PublishedOnce ==
  crashes = 0 /\ replays = 0 /\ (\A e \in Events : failures[e] = 0) =>
    \A e \in Events : emitted[e] <= 1
===============================================================================
