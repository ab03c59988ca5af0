---------------------------- MODULE Outbox_proofs -----------------------------
(***************************************************************************)
(* Theorems about Outbox, for every set of events and replicas, every      *)
(* batch size and every number of attempts, crashes and replays.           *)
(***************************************************************************)
EXTENDS Outbox, TLAPS

(* What is marked or failed is the head of a batch that is still there. *)
HandledHead == \A r \in Replicas : handled[r] => batch[r] # << >>

Typed == TypeOK /\ HandledHead

------------------------------------------------------------------------------
(* Sequences of copies                                                     *)

LEMMA HeadTail ==
  ASSUME NEW S, NEW q \in Seq(S), q # << >>
  PROVE  /\ Head(q) \in S /\ Head(q) = q[1] /\ 1 \in DOMAIN q
         /\ Tail(q) \in Seq(S)
         /\ \A i \in DOMAIN Tail(q) : i + 1 \in DOMAIN q /\ Tail(q)[i] = q[i + 1]
  OBVIOUS

(* The copies a drain takes are a sequence of copies. *)
LEMMA CopiesTyped ==
  ASSUME TypeOK, NEW n \in 1..BatchSize, NEW b \in [1..n -> {e \in Events : Due(e)}]
  PROVE  /\ [i \in 1..n |-> Copy(b[i])] \in Seq(Read)
         /\ [i \in 1..n |-> Copy(b[i])] # << >>
<1>1. n \in Nat
  BY OutboxAssumption
<1>2. \A i \in 1..n : Copy(b[i]) \in Read
  BY DEF Copy, Read, TypeOK
<1>3. Len([i \in 1..n |-> Copy(b[i])]) = n
  BY <1>1, <1>2
<1>4. n # 0 /\ Len(<< >>) = 0
  OBVIOUS
<1> QED BY <1>1, <1>2, <1>3, <1>4

LEMMA UpToType == ASSUME NEW m \in Nat, NEW n \in Nat PROVE UpTo(m, n) \in Nat
  BY DEF UpTo

------------------------------------------------------------------------------
(* Type correctness                                                        *)

LEMMA RelayTyped == ASSUME Typed, NEW r \in Replicas, Relay(r) PROVE Typed'
<1> USE OutboxAssumption DEF Typed, TypeOK, HandledHead
<1>1. CASE batch[r] # << >>
  <2> DEFINE q == Head(batch[r])
  <2>1. q \in Read /\ Tail(batch[r]) \in Seq(Read)
    BY <1>1, HeadTail
  <2>2. q.event \in Events /\ q.attempts \in Nat /\ q.attempts + 1 \in Nat
    BY <2>1 DEF Read
  <2>3. UpTo(2, emitted[q.event] + 1) \in Nat
    BY <2>2 DEF UpTo
  <2>4. UpTo(MaxAttempts, failures[q.event] + 1) \in Nat
    BY <2>2 DEF UpTo
  <2>5. CASE Emit(r)
    BY <1>1, <2>2, <2>3, <2>5 DEF Emit
  <2>6. CASE Mark(r)
    <3>1. row' \in [Events -> [status : {"ABSENT", "PENDING", "PUBLISHED", "DEAD_LETTER"},
                               attempts : Nat]]
      BY <2>2, <2>6 DEF Mark
    <3>2. batch' \in [Replicas -> Seq(Read)] /\ handled' \in [Replicas -> BOOLEAN]
      BY <2>1, <2>6 DEF Mark
    <3>3. HandledHead'
      BY <2>6 DEF Mark
    <3> QED BY <2>6, <3>1, <3>2, <3>3 DEF Mark
  <2>7. CASE Fail(r)
    <3>1. row' \in [Events -> [status : {"ABSENT", "PENDING", "PUBLISHED", "DEAD_LETTER"},
                               attempts : Nat]]
      BY <2>2, <2>7 DEF Fail
    <3>2. batch' \in [Replicas -> Seq(Read)] /\ handled' \in [Replicas -> BOOLEAN]
      BY <2>1, <2>7 DEF Fail
    <3>3. HandledHead'
      BY <2>7 DEF Fail
    <3> QED BY <2>2, <2>4, <2>7, <3>1, <3>2, <3>3 DEF Fail
  <2>8. CASE EndDrain(r)
    BY <2>8 DEF EndDrain
  <2> QED BY <2>5, <2>6, <2>7, <2>8 DEF Relay
<1>2. CASE batch[r] = << >>
  <2>1. EndDrain(r)
    BY <1>2 DEF Relay, Emit, Mark, Fail
  <2> QED BY <2>1 DEF EndDrain
<1> QED BY <1>1, <1>2

(* Rows, copies and histories stay in their tables, and a replica that has *)
(* emitted an event still holds the copy it is about to mark.              *)
THEOREM TypeCorrect == Spec => []Typed
<1> USE OutboxAssumption
<1>1. Init => Typed
  BY DEF Init, Typed, TypeOK, HandledHead, Absent
<1>2. Typed /\ [Next]_vars => Typed'
  <2> SUFFICES ASSUME Typed, [Next]_vars PROVE Typed'
    OBVIOUS
  <2> USE DEF Typed, TypeOK, HandledHead
  <2>1. CASE UNCHANGED vars
    BY <2>1 DEF vars
  <2>2. ASSUME NEW e \in Events, Record(e) PROVE Typed'
    <3>1. row' = [row EXCEPT ![e].status = "PENDING"] /\ log' = Append(log, e)
      BY <2>2 DEF Record
    <3>2. row' \in [Events -> [status : {"ABSENT", "PENDING", "PUBLISHED", "DEAD_LETTER"},
                               attempts : Nat]]
      BY <3>1
    <3>3. log' \in Seq(Events)
      BY <3>1
    <3> QED BY <2>2, <3>2, <3>3 DEF Record
  <2>3. ASSUME NEW r \in Replicas, Drain(r) PROVE Typed'
    <3>1. PICK n \in 1..BatchSize : \E b \in [1..n -> {e \in Events : Due(e)}] :
            batch' = [batch EXCEPT ![r] = [i \in 1..n |-> Copy(b[i])]]
      BY <2>3 DEF Drain
    <3>2. PICK copies \in Seq(Read) : /\ copies # << >>
                                      /\ batch' = [batch EXCEPT ![r] = copies]
      <4>1. PICK b \in [1..n -> {e \in Events : Due(e)}] :
              batch' = [batch EXCEPT ![r] = [i \in 1..n |-> Copy(b[i])]]
        BY <3>1
      <4> QED BY <4>1, CopiesTyped
    <3> QED BY <2>3, <3>2 DEF Drain
  <2>4. ASSUME NEW r \in Replicas, Crash(r) PROVE Typed'
    BY <2>4 DEF Crash
  <2>5. CASE Replay
    BY <2>5 DEF Replay
  <2> QED BY <2>1, <2>2, <2>3, <2>4, <2>5, RelayTyped DEF Next
<1> QED BY <1>1, <1>2, PTL DEF Spec

------------------------------------------------------------------------------
(* Dead letters                                                            *)

(* n attempts at event e are backed by as many refusals, as far as they    *)
(* are counted.                                                            *)
Backed(e, n) == failures[e] >= UpTo(MaxAttempts, n)

(* What the retry bookkeeping rests on: the attempts in a pending row, and *)
(* in every copy a replica still holds of one, are real failures.  Only a  *)
(* published row counts an attempt that did not fail, and no drain copies  *)
(* that one.                                                               *)
AttemptsBacked ==
  /\ \A e \in Events : failures[e] <= MaxAttempts
  /\ \A e \in Events : row[e].status = "PENDING" => Backed(e, row[e].attempts)
  /\ \A r \in Replicas : \A i \in DOMAIN batch[r] :
       Backed(batch[r][i].event, batch[r][i].attempts)
  /\ DeadAfterTrying

(* Counting one more failure keeps what was backed, and backs one more     *)
(* attempt.                                                                *)
LEMMA OneMore ==
  ASSUME NEW f \in Nat, NEW n \in Nat, f <= MaxAttempts
  PROVE  /\ UpTo(MaxAttempts, f + 1) <= MaxAttempts
         /\ UpTo(MaxAttempts, f + 1) >= f
         /\ f >= UpTo(MaxAttempts, n) =>
              UpTo(MaxAttempts, f + 1) >= UpTo(MaxAttempts, n + 1)
  BY OutboxAssumption DEF UpTo

LEMMA FailBacked ==
  ASSUME Typed, AttemptsBacked, NEW r \in Replicas, Fail(r) PROVE AttemptsBacked'
<1> DEFINE q == Head(batch[r])
           n == q.attempts + 1
<1>1. batch[r] # << >> /\ batch[r] \in Seq(Read)
  BY DEF Fail, Typed, TypeOK
<1>2. q \in Read /\ q = batch[r][1] /\ 1 \in DOMAIN batch[r]
  BY <1>1, HeadTail
<1>3. q.event \in Events /\ q.attempts \in Nat
  BY <1>2 DEF Read
<1>4. /\ row' = [row EXCEPT ![q.event] =
             [status |-> IF Exhausted(n) THEN "DEAD_LETTER" ELSE "PENDING", attempts |-> n]]
      /\ failures' = [failures EXCEPT ![q.event] = UpTo(MaxAttempts, @ + 1)]
      /\ batch' = [batch EXCEPT ![r] = Tail(@)]
  BY DEF Fail
<1>5. Backed(q.event, q.attempts)
  BY <1>2 DEF AttemptsBacked
<1>6. \A e \in Events : /\ failures[e] \in Nat /\ failures[e] <= MaxAttempts
                        /\ failures'[e] \in Nat /\ failures'[e] <= MaxAttempts
                        /\ failures'[e] >= failures[e]
  BY <1>4, OneMore, OutboxAssumption DEF AttemptsBacked, Typed, TypeOK, UpTo
<1>7. failures'[q.event] >= UpTo(MaxAttempts, n)
  <2>1. failures'[q.event] = UpTo(MaxAttempts, failures[q.event] + 1)
    BY <1>3, <1>4 DEF Typed, TypeOK
  <2> QED BY <1>3, <1>5, <1>6, <2>1, OneMore DEF Backed
<1> HIDE DEF q
<1>8. \A e \in Events : row'[e].status = "PENDING" =>
        failures'[e] >= UpTo(MaxAttempts, row'[e].attempts)
  <2> SUFFICES ASSUME NEW e \in Events, row'[e].status = "PENDING"
               PROVE  failures'[e] >= UpTo(MaxAttempts, row'[e].attempts)
    OBVIOUS
  <2>1. CASE e = q.event
    BY <1>4, <1>7, <2>1 DEF Typed, TypeOK
  <2>2. CASE e # q.event
    <3>1. row'[e] = row[e] /\ row[e].attempts \in Nat
      BY <1>4, <2>2 DEF Typed, TypeOK
    <3>2. UpTo(MaxAttempts, row[e].attempts) \in Nat
      BY <3>1, UpToType, OutboxAssumption
    <3>3. failures[e] >= UpTo(MaxAttempts, row[e].attempts)
      BY <3>1 DEF AttemptsBacked, Backed
    <3> QED BY <1>6, <3>1, <3>2, <3>3
  <2> QED BY <2>1, <2>2
<1>9. \A p \in Replicas : \A i \in DOMAIN batch'[p] :
        failures'[batch'[p][i].event] >= UpTo(MaxAttempts, batch'[p][i].attempts)
  <2> SUFFICES ASSUME NEW p \in Replicas, NEW i \in DOMAIN batch'[p]
               PROVE  failures'[batch'[p][i].event] >=
                        UpTo(MaxAttempts, batch'[p][i].attempts)
    OBVIOUS
  <2>1. PICK j \in DOMAIN batch[p] : batch'[p][i] = batch[p][j]
    BY <1>1, <1>4, HeadTail DEF Typed, TypeOK
  <2>2. batch[p][j] \in Read
    BY <2>1 DEF Typed, TypeOK
  <2>3. Backed(batch[p][j].event, batch[p][j].attempts)
    BY <2>1 DEF AttemptsBacked
  <2>4. batch[p][j].event \in Events /\ UpTo(MaxAttempts, batch[p][j].attempts) \in Nat
    BY <2>2, UpToType, OutboxAssumption DEF Read
  <2> QED BY <1>6, <2>1, <2>3, <2>4 DEF Backed
<1>10. DeadAfterTrying'
  <2> SUFFICES ASSUME NEW e \in Events, row'[e].status = "DEAD_LETTER"
               PROVE  failures'[e] >= MaxAttempts
    BY DEF DeadAfterTrying
  <2>1. CASE e = q.event
    <3>1. Exhausted(n)
      BY <1>4, <2>1 DEF Typed, TypeOK
    <3>2. UpTo(MaxAttempts, n) = MaxAttempts
      BY <1>3, <3>1, OutboxAssumption DEF Exhausted, UpTo
    <3> QED BY <1>7, <2>1, <3>2
  <2>2. CASE e # q.event
    <3>1. row'[e] = row[e]
      BY <1>4, <2>2 DEF Typed, TypeOK
    <3> QED BY <1>6, <3>1, OutboxAssumption DEF AttemptsBacked, DeadAfterTrying
  <2> QED BY <2>1, <2>2
<1> QED BY <1>6, <1>8, <1>9, <1>10 DEF AttemptsBacked, Backed

LEMMA DrainBacked ==
  ASSUME Typed, AttemptsBacked, NEW r \in Replicas, Drain(r) PROVE AttemptsBacked'
<1>0. PICK n \in 1..BatchSize : \E b \in [1..n -> {e \in Events : Due(e)}] :
        batch' = [batch EXCEPT ![r] = [i \in 1..n |-> Copy(b[i])]]
  BY DEF Drain
<1>1. PICK b \in [1..n -> {e \in Events : Due(e)}] :
        batch' = [batch EXCEPT ![r] = [i \in 1..n |-> Copy(b[i])]]
  BY <1>0
<1>2. UNCHANGED <<row, failures>>
  BY DEF Drain
<1>3. \A i \in 1..n : Backed(Copy(b[i]).event, Copy(b[i]).attempts)
  BY DEF Copy, Due, AttemptsBacked
<1>4. \A p \in Replicas : \A i \in DOMAIN batch'[p] :
        Backed(batch'[p][i].event, batch'[p][i].attempts)
  BY <1>1, <1>3 DEF AttemptsBacked, Typed, TypeOK
<1> QED BY <1>2, <1>4 DEF AttemptsBacked, Backed, DeadAfterTrying

LEMMA AlwaysBacked == Spec => []AttemptsBacked
<1>1. Init => AttemptsBacked
  BY OutboxAssumption DEF Init, AttemptsBacked, DeadAfterTrying, Absent
<1>2. Typed /\ AttemptsBacked /\ [Next]_vars => AttemptsBacked'
  <2> SUFFICES ASSUME Typed, AttemptsBacked, [Next]_vars PROVE AttemptsBacked'
    OBVIOUS
  <2>1. ASSUME UNCHANGED <<row, batch, failures>> PROVE AttemptsBacked'
    BY <2>1 DEF AttemptsBacked, Backed, DeadAfterTrying
  <2>2. ASSUME NEW e \in Events, Record(e) PROVE AttemptsBacked'
    <3>1. /\ row' = [row EXCEPT ![e].status = "PENDING"] /\ row[e].attempts = 0
          /\ UNCHANGED <<batch, failures>>
      BY <2>2 DEF Record, Absent
    <3>2. row'[e].attempts = 0 /\ Backed(e, 0) /\ \A d \in Events \ {e} : row'[d] = row[d]
      BY <3>1, OutboxAssumption DEF Typed, TypeOK, Backed, UpTo
    <3>3. row'[e].status = "PENDING"
      BY <3>1 DEF Typed, TypeOK
    <3> QED BY <3>1, <3>2, <3>3 DEF AttemptsBacked, Backed, DeadAfterTrying
  <2>3. ASSUME NEW r \in Replicas, Mark(r) PROVE AttemptsBacked'
    <3>1. batch[r] # << >> /\ batch[r] \in Seq(Read)
      BY <2>3 DEF Mark, Typed, TypeOK, HandledHead
    <3>2. \A e \in Events : row'[e] = row[e] \/ row'[e].status = "PUBLISHED"
      BY <2>3 DEF Mark, Typed, TypeOK
    <3>3. \A p \in Replicas : \A i \in DOMAIN batch'[p] :
            \E j \in DOMAIN batch[p] : batch'[p][i] = batch[p][j]
      BY <2>3, <3>1, HeadTail DEF Mark, Typed, TypeOK
    <3>4. UNCHANGED failures
      BY <2>3 DEF Mark
    <3> QED BY <3>2, <3>3, <3>4 DEF AttemptsBacked, Backed, DeadAfterTrying
  <2>4. ASSUME NEW r \in Replicas, Crash(r) PROVE AttemptsBacked'
    <3>1. \A p \in Replicas : batch'[p] = batch[p] \/ batch'[p] = << >>
      BY <2>4 DEF Crash, Typed, TypeOK
    <3> QED BY <2>4, <3>1 DEF Crash, AttemptsBacked, Backed, DeadAfterTrying
  <2>5. CASE Replay
    <3>1. \A e \in Events : row'[e] = row[e] \/ row'[e] = [status |-> "PENDING", attempts |-> 0]
      BY <2>5 DEF Replay
    <3>2. \A e \in Events : Backed(e, 0)
      BY OutboxAssumption DEF Typed, TypeOK, Backed, UpTo
    <3>3. UNCHANGED <<batch, failures>>
      BY <2>5 DEF Replay
    <3> QED BY <3>1, <3>2, <3>3 DEF AttemptsBacked, Backed, DeadAfterTrying
  <2>6. ASSUME NEW r \in Replicas, Emit(r) \/ EndDrain(r) PROVE AttemptsBacked'
    BY <2>1, <2>6 DEF Emit, EndDrain
  <2> QED BY <2>1, <2>2, <2>3, <2>4, <2>5, <2>6, FailBacked, DrainBacked
          DEF Next, Relay, vars
<1> QED BY <1>1, <1>2, TypeCorrect, PTL DEF Spec

(* No event is given up before maxAttempts deliveries of it really failed, *)
(* however many relays count the attempts from copies they read earlier,   *)
(* whichever of them crash and however often dead letters are replayed.    *)
THEOREM NoneGivenUpEarly == Spec => []DeadAfterTrying
<1>1. AttemptsBacked => DeadAfterTrying
  BY DEF AttemptsBacked
<1> QED BY <1>1, AlwaysBacked, PTL
===============================================================================
