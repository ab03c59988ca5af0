--------------------------- MODULE Registry_proofs ----------------------------
(***************************************************************************)
(* Theorems about Registry, for every set of vehicles, lookups, workers    *)
(* and financiers and every bound.                                         *)
(***************************************************************************)
EXTENDS Registry, TLAPS

USE DEF Absent

------------------------------------------------------------------------------
(* Types, and what the rows and the workers refer to                       *)

(* What a worker carries exists: the vehicle its job is about, the lookup  *)
(* it will execute, and the one it created is for its vehicle.             *)
Holds(q) ==
  /\ q.at \in {"job", "asked", "created"} => vehicle[q.vehicle].status # Absent
  /\ q.at \in {"created", "due", "read", "calling", "applying"} => lookup[q.lookup].status # Absent
  /\ q.at = "created" => lookup[q.lookup].vehicle = q.vehicle

Rooted ==
  /\ \A v \in Vehicles, id \in JobId : <<v, id>> \in jobs => vehicle[v].status # Absent
  /\ \A l \in Lookups : lookup[l].status # Absent =>
       lookup[l].vehicle \in Vehicles /\ vehicle[lookup[l].vehicle].status # Absent
  /\ \A w \in Workers : Holds(worker[w])

Sound == TypeOK /\ Rooted

(* The fields of what a worker carries. *)
LEMMA Carried ==
  ASSUME Sound, NEW w \in Workers
  PROVE  /\ worker[w].at \in {"job", "asked", "created"} =>
              worker[w].vehicle \in Vehicles /\ worker[w].id \in JobId
         /\ worker[w].at \in {"created", "due", "read", "calling", "applying"} =>
              /\ worker[w].lookup \in Lookups
              /\ lookup[worker[w].lookup].status # Absent
              /\ lookup[worker[w].lookup].vehicle \in Vehicles
              /\ vehicle[lookup[worker[w].lookup].vehicle].status \in VehicleStatus
         /\ worker[w].at \in {"read", "calling", "applying"} => worker[w].attempt \in Nat
         /\ worker[w].at = "applying" =>
              worker[w].seen \in VehicleStatus /\ worker[w].match \in Match
<1>1. worker[w] \in WorkerState /\ Holds(worker[w])
  BY DEF Sound, TypeOK, Rooted
<1>2. /\ worker[w].at \in {"job", "asked", "created"} =>
           worker[w].vehicle \in Vehicles /\ worker[w].id \in JobId
      /\ worker[w].at \in {"created", "due", "read", "calling", "applying"} =>
           worker[w].lookup \in Lookups
      /\ worker[w].at \in {"read", "calling", "applying"} => worker[w].attempt \in Nat
      /\ worker[w].at = "applying" =>
           worker[w].seen \in VehicleStatus /\ worker[w].match \in Match
  BY <1>1 DEF WorkerState, Idle
<1>3. \A l \in Lookups : lookup[l].status # Absent =>
        lookup[l].vehicle \in Vehicles /\ vehicle[lookup[l].vehicle].status \in VehicleStatus
  BY DEF Sound, TypeOK, Rooted, VehicleRow
<1> QED BY <1>1, <1>2, <1>3 DEF Holds

(* Rows are created and never deleted, and a lookup keeps its vehicle. *)
Grows ==
  /\ \A v \in Vehicles : vehicle[v].status # Absent => vehicle'[v].status # Absent
  /\ \A l \in Lookups : lookup[l].status # Absent =>
       lookup'[l].status # Absent /\ lookup'[l].vehicle = lookup[l].vehicle

(* With growing rows, what was held is still held. *)
LEMMA StillHolds ==
  ASSUME Sound, Grows, NEW w \in Workers, worker'[w] = worker[w]
  PROVE  Holds(worker[w])'
BY Carried DEF Sound, Rooted, Holds, Grows

(* Writing the check of a vehicle changes nothing else of it. *)
LEMMA CheckSet ==
  ASSUME Sound, NEW v \in Vehicles, NEW check \in Check,
         vehicle' = [vehicle EXCEPT ![v].check = check]
  PROVE  /\ vehicle' \in [Vehicles -> VehicleRow]
         /\ \A u \in Vehicles : vehicle'[u].status = vehicle[u].status
BY DEF Sound, TypeOK, VehicleRow

(* The step of one worker, or of none, on growing rows. *)
LEMMA SoundStep ==
  ASSUME Sound, Grows,
         vehicle' \in [Vehicles -> VehicleRow],
         recent' \subseteq Vehicles,
         owner' \in [Vehicles -> {None, "REGISTRY", "MANUAL"}],
         history' \in [Vehicles -> Match],
         lookup' \in [Lookups -> LookupRow],
         jobs' \subseteq Vehicles \X JobId,
         kept' \in [Vehicles -> {"no", "completed", "failed"}],
         breaker' \in [fails: 0..Threshold, open: BOOLEAN],
         \A v \in Vehicles, id \in JobId : <<v, id>> \in jobs' \ jobs => vehicle'[v].status # Absent,
         \A l \in Lookups : lookup[l].status = Absent /\ lookup'[l].status # Absent =>
           lookup'[l].vehicle \in Vehicles /\ vehicle'[lookup'[l].vehicle].status # Absent,
         worker' \in [Workers -> WorkerState],
         \A w \in Workers : worker'[w] = worker[w] \/ Holds(worker[w])'
  PROVE  Sound'
<1>1. TypeOK'
  BY DEF TypeOK
<1>2. \A v \in Vehicles, id \in JobId : <<v, id>> \in jobs' => vehicle'[v].status # Absent
  BY DEF Sound, Rooted, Grows
<1>3. \A l \in Lookups : lookup'[l].status # Absent =>
        lookup'[l].vehicle \in Vehicles /\ vehicle'[lookup'[l].vehicle].status # Absent
  BY DEF Sound, Rooted, Grows
<1>4. \A w \in Workers : Holds(worker[w])'
  BY StillHolds
<1> QED BY <1>1, <1>2, <1>3, <1>4 DEF Sound, Rooted

(* What `Sound` gives of the types, for citation. *)
LEMMA Types ==
  ASSUME Sound
  PROVE  /\ vehicle \in [Vehicles -> VehicleRow]
         /\ recent \subseteq Vehicles
         /\ owner \in [Vehicles -> {None, "REGISTRY", "MANUAL"}]
         /\ history \in [Vehicles -> Match]
         /\ lookup \in [Lookups -> LookupRow]
         /\ jobs \subseteq Vehicles \X JobId
         /\ kept \in [Vehicles -> {"no", "completed", "failed"}]
         /\ worker \in [Workers -> WorkerState]
         /\ breaker \in [fails: 0..Threshold, open: BOOLEAN]
BY DEF Sound, TypeOK

LEMMA BreakerTypes ==
  ASSUME Sound
  PROVE  /\ Closed \in [fails: 0..Threshold, open: BOOLEAN]
         /\ AfterFailure \in [fails: 0..Threshold, open: BOOLEAN]
BY RegistryAssumption DEF Closed, AfterFailure, Sound, TypeOK

------------------------------------------------------------------------------
(* Type correctness, action by action                                      *)

LEMMA YardSound == ASSUME Sound, Yard PROVE Sound'
<1>1. ASSUME NEW v \in Vehicles, Sight(v) \/ Admit(v) PROVE Sound'
  <2>1. vehicle' \in [Vehicles -> VehicleRow]
    BY <1>1, Types DEF Sight, Admit, VehicleRow, VehicleStatus
  <2>2. \A u \in Vehicles : vehicle[u].status # Absent => vehicle'[u].status # Absent
    BY <1>1, Types DEF Sight, Admit, VehicleRow
  <2>3. vehicle'[v].status # Absent
    BY <1>1, Types DEF Sight, Admit, VehicleRow
  <2>4. /\ jobs' \in {jobs, jobs \cup {<<v, "admission">>}}
        /\ recent' = recent \cup {v}
    BY <1>1 DEF Sight, Admit, queue
  <2>5. jobs' \subseteq Vehicles \X JobId
    BY <2>4, Types DEF JobId
  <2>6. UNCHANGED <<owner, history, lookup, kept, worker, breaker>>
    BY <1>1 DEF Sight, Admit, queue
  <2> QED BY <2>1, <2>2, <2>3, <2>4, <2>5, <2>6, Types, SoundStep DEF Grows
<1> QED BY <1>1 DEF Yard

LEMMA PeopleSound == ASSUME Sound, People PROVE Sound'
<1>1. ASSUME NEW v \in Vehicles, NEW l \in Lookups, RequestByHand(v, l) PROVE Sound'
  <2>1. vehicle' \in [Vehicles -> VehicleRow]
    BY <1>1, Types DEF RequestByHand, VehicleRow, Marked, Check
  <2>2. \A u \in Vehicles : vehicle'[u].status = vehicle[u].status
    BY <1>1, Types DEF RequestByHand, VehicleRow
  <2>3. lookup' \in [Lookups -> LookupRow]
    BY <1>1, Types DEF RequestByHand, LookupRow, LookupStatus
  <2>4. /\ \A k \in Lookups \ {l} : lookup'[k] = lookup[k]
        /\ lookup[l].status = Absent /\ lookup'[l].vehicle = v
    BY <1>1, Types DEF RequestByHand
  <2>5. Grows
    BY <2>2, <2>4 DEF Grows
  <2> QED BY <1>1, <2>1, <2>2, <2>3, <2>4, <2>5, Types, SoundStep DEF RequestByHand, queue
<1>2. ASSUME NEW v \in Vehicles, NEW f \in Match, VerifyByHand(v, f) PROVE Sound'
  <2>1. vehicle' \in [Vehicles -> VehicleRow]
    <3> DEFINE row == [vehicle[v] EXCEPT !.check = "MANUALLY_VERIFIED",
                                         !.financier = IF f = None THEN @ ELSE f]
    <3>1. row \in VehicleRow
      <4>1. vehicle[v] \in VehicleRow /\ "MANUALLY_VERIFIED" \in Check
        BY Types DEF Check
      <4>2. (IF f = None THEN vehicle[v].financier ELSE f) \in Match
        BY <4>1 DEF VehicleRow
      <4> QED BY <4>1, <4>2 DEF VehicleRow
    <3>2. vehicle' = [vehicle EXCEPT ![v] = row]
      BY <1>2, Types DEF VerifyByHand
    <3> QED BY <3>1, <3>2, Types
  <2>2. \A u \in Vehicles : vehicle'[u].status = vehicle[u].status
    BY <1>2, Types DEF VerifyByHand, VehicleRow
  <2>3. owner' \in [Vehicles -> {None, "REGISTRY", "MANUAL"}]
    BY <1>2, Types DEF VerifyByHand
  <2>4. history' \in [Vehicles -> Match]
    BY <1>2, Types DEF VerifyByHand, Opened
  <2>5. UNCHANGED <<recent, lookup, jobs, kept, worker, breaker>>
    BY <1>2 DEF VerifyByHand, queue
  <2> QED BY <2>1, <2>2, <2>3, <2>4, <2>5, Types, SoundStep DEF Grows
<1> QED BY <1>1, <1>2 DEF People

LEMMA ScheduleSound == ASSUME Sound, Schedule PROVE Sound'
<1>1. ASSUME NEW taken \in SUBSET Candidates, Backfill(taken) PROVE Sound'
  <2>1. PICK accepted \in SUBSET {v \in taken : kept[v] = "no"} :
          jobs' = jobs \cup (accepted \X {"backfill"})
    BY <1>1 DEF Backfill
  <2>2. \A v \in accepted : v \in Vehicles /\ vehicle[v].status # Absent
    BY <1>1, Types DEF Candidates, NeverAsked
  <2>3. jobs' \subseteq Vehicles \X JobId
    BY <2>1, <2>2, Types DEF JobId
  <2>4. \A v \in Vehicles, id \in JobId : <<v, id>> \in jobs' \ jobs => vehicle[v].status # Absent
    BY <2>1, <2>2
  <2>5. UNCHANGED <<vehicle, recent, owner, history, lookup, kept, worker, breaker>>
    BY <1>1 DEF Backfill, rows
  <2> QED BY <2>3, <2>4, <2>5, Types, SoundStep DEF Grows
<1>4. ASSUME NEW v \in Vehicles, Age(v) \/ Forget(v) PROVE Sound'
  <2>1. recent' \subseteq Vehicles /\ kept' \in [Vehicles -> {"no", "completed", "failed"}]
    BY <1>4, Types DEF Age, Forget, rows, queue
  <2>2. UNCHANGED <<vehicle, owner, history, lookup, jobs, worker, breaker>>
    BY <1>4 DEF Age, Forget, rows, queue
  <2> QED BY <2>1, <2>2, Types, SoundStep DEF Grows
<1>2. ASSUME NEW w \in Sweepers, NEW l \in Lookups, Sweep(w, l) PROVE Sound'
  <2> DEFINE q == [at |-> "due", lookup |-> l]
  <2>1. q \in WorkerState
    BY DEF WorkerState
  <2>2. /\ w \in Workers /\ worker' = [worker EXCEPT ![w] = q]
        /\ UNCHANGED <<vehicle, recent, owner, history, lookup, jobs, kept, breaker>>
    BY <1>2 DEF Sweep, rows, queue, Workers
  <2>3. lookup[l].status # Absent
    BY <1>2 DEF Sweep, Due
  <2>4. worker'[w] = q /\ \A x \in Workers \ {w} : worker'[x] = worker[x]
    BY <2>2, Types
  <2>5. Holds(worker[w])'
    BY <2>2, <2>3, <2>4 DEF Holds
  <2>6. worker' \in [Workers -> WorkerState]
    BY <2>1, <2>2, Types
  <2> QED BY <2>2, <2>4, <2>5, <2>6, Types, SoundStep DEF Grows
<1>3. ASSUME NEW w \in Consumers, NEW v \in Vehicles, NEW id \in JobId, TakeJob(w, v, id)
      PROVE  Sound'
  <2> DEFINE q == [at |-> "job", vehicle |-> v, id |-> id]
  <2>1. q \in WorkerState
    BY DEF WorkerState
  <2>2. /\ w \in Workers /\ worker' = [worker EXCEPT ![w] = q]
        /\ UNCHANGED <<vehicle, recent, owner, history, lookup, jobs, kept, breaker>>
    BY <1>3 DEF TakeJob, rows, queue, Workers
  <2>3. vehicle[v].status # Absent
    BY <1>3 DEF TakeJob, Sound, Rooted
  <2>4. worker'[w] = q /\ \A x \in Workers \ {w} : worker'[x] = worker[x]
    BY <2>2, Types
  <2>5. Holds(worker[w])'
    BY <2>2, <2>3, <2>4 DEF Holds
  <2>6. worker' \in [Workers -> WorkerState]
    BY <2>1, <2>2, Types
  <2> QED BY <2>2, <2>4, <2>5, <2>6, Types, SoundStep DEF Grows
<1> QED BY <1>1, <1>2, <1>3, <1>4 DEF Schedule

(* The end of a job takes it off the queue, and may keep it. *)
LEMMA JobEnds ==
  ASSUME Sound, NEW w \in Workers, NEW how \in {"completed", "failed"}, EndJob(w, how)
  PROVE  jobs' \subseteq jobs /\ kept' \in [Vehicles -> {"no", "completed", "failed"}]
BY Types DEF EndJob

(* A worker that gives up, and at most takes a job off the queue. *)
LEMMA GoesIdle ==
  ASSUME Sound, NEW w \in Workers, worker' = [worker EXCEPT ![w] = Idle],
         jobs' \subseteq jobs, kept' \in [Vehicles -> {"no", "completed", "failed"}],
         UNCHANGED <<vehicle, recent, owner, history, lookup, breaker>>
  PROVE  Sound'
<1>1. worker' \in [Workers -> WorkerState]
  BY Types DEF WorkerState
<1>2. \A x \in Workers : worker'[x] = worker[x] \/ worker'[x] = Idle
  BY Types
<1>3. \A x \in Workers : worker'[x] = worker[x] \/ Holds(worker[x])'
  BY <1>2 DEF Holds, Idle
<1> QED BY <1>1, <1>3, Types, SoundStep DEF Grows

LEMMA AskingSound ==
  ASSUME Sound, NEW w \in Workers,
         Ask(w) \/ NoRowLeft(w) \/ Mark(w) \/ JobFails(w) \/ \E l \in Lookups : Create(w, l)
  PROVE  Sound'
<1>1. CASE Ask(w)
  <2>1. CASE worker' = [worker EXCEPT ![w] = Idle]
    <3>1. EndJob(w, "completed") \/ UNCHANGED queue
      BY <1>1 DEF Ask
    <3> QED BY <1>1, <2>1, <3>1, JobEnds, GoesIdle, Types DEF Ask, rows, queue
  <2>2. CASE worker' = [worker EXCEPT ![w].at = "asked"] /\ UNCHANGED queue
    <3> DEFINE q == [worker[w] EXCEPT !.at = "asked"]
    <3>1. worker[w].at = "job" /\ UNCHANGED <<vehicle, recent, owner, history, lookup, breaker>>
      BY <1>1 DEF Ask, rows
    <3>2. worker[w] \in [at: {"job", "asked"}, vehicle: Vehicles, id: JobId]
      BY <3>1, Types DEF WorkerState, Idle
    <3>3. q \in [at: {"job", "asked"}, vehicle: Vehicles, id: JobId]
      BY <3>2
    <3>4. q \in WorkerState /\ q.at = "asked" /\ q.vehicle = worker[w].vehicle
      BY <3>2, <3>3 DEF WorkerState
    <3>5. worker' \in [Workers -> WorkerState]
      BY <2>2, <3>4, Types
    <3>6. worker'[w] = q /\ \A x \in Workers \ {w} : worker'[x] = worker[x]
      BY <2>2, Types
    <3>7. Holds(worker[w])'
      BY <3>1, <3>4, <3>6 DEF Holds, Sound, Rooted
    <3> QED BY <2>2, <3>1, <3>5, <3>6, <3>7, Types, SoundStep DEF Grows, queue
  <2> QED BY <1>1, <2>1, <2>2 DEF Ask
<1>2. CASE NoRowLeft(w)
  BY <1>2, JobEnds, GoesIdle DEF NoRowLeft, rows
<1>5. CASE JobFails(w)
  <2>1. EndJob(w, "failed") \/ UNCHANGED queue
    BY <1>5 DEF JobFails
  <2> QED BY <1>5, <2>1, JobEnds, GoesIdle, Types DEF JobFails, rows, queue
<1>3. CASE Mark(w)
  <2> DEFINE v == worker[w].vehicle
             q == [at |-> "due", lookup |-> worker[w].lookup]
  <2>1. /\ vehicle' = [vehicle EXCEPT ![v].check = Marked(v)]
        /\ jobs' \subseteq jobs /\ kept' \in [Vehicles -> {"no", "completed", "failed"}]
        /\ worker' = [worker EXCEPT ![w] = q]
        /\ UNCHANGED <<recent, owner, history, lookup, breaker>>
    BY <1>3, JobEnds DEF Mark
  <2>2. v \in Vehicles /\ q \in WorkerState /\ lookup[worker[w].lookup].status # Absent
    BY <1>3, Carried DEF Mark, WorkerState
  <2>10. Marked(v) \in Check
    BY <2>2, Types DEF Marked, VehicleRow, Check
  <2>3. /\ vehicle' \in [Vehicles -> VehicleRow]
        /\ \A u \in Vehicles : vehicle'[u].status = vehicle[u].status
    <3> HIDE DEF v
    <3> QED BY <2>1, <2>2, <2>10, CheckSet
  <2>5. worker' \in [Workers -> WorkerState]
    BY <2>1, <2>2, Types
  <2>6. worker'[w] = q /\ \A x \in Workers \ {w} : worker'[x] = worker[x]
    BY <2>1, Types
  <2>7. Holds(worker[w])'
    BY <2>1, <2>2, <2>6 DEF Holds
  <2> QED BY <2>1, <2>3, <2>5, <2>6, <2>7, Types, SoundStep DEF Grows
<1>4. ASSUME NEW l \in Lookups, Create(w, l) PROVE Sound'
  <2> DEFINE v == worker[w].vehicle
             q == [at |-> "created", vehicle |-> v, id |-> worker[w].id, lookup |-> l]
  <2>1. /\ lookup[l].status = Absent
        /\ lookup' = [lookup EXCEPT ![l] = [vehicle |-> v, status |-> "QUEUED", attempt |-> 1]]
        /\ worker' = [worker EXCEPT ![w] = q]
        /\ UNCHANGED <<vehicle, recent, owner, history, jobs, kept, breaker>>
    BY <1>4 DEF Create, queue
  <2>2. v \in Vehicles /\ q \in WorkerState /\ vehicle[v].status # Absent
    BY <1>4, Carried DEF Create, WorkerState, Sound, Rooted, Holds
  <2>3. lookup' \in [Lookups -> LookupRow]
    BY <2>1, <2>2, Types DEF LookupRow, LookupStatus
  <2>4. /\ \A k \in Lookups \ {l} : lookup'[k] = lookup[k]
        /\ lookup'[l].vehicle = v /\ lookup'[l].status = "QUEUED"
    BY <2>1, Types
  <2>5. worker' \in [Workers -> WorkerState]
    BY <2>1, <2>2, Types
  <2>6. worker'[w] = q /\ \A x \in Workers \ {w} : worker'[x] = worker[x]
    BY <2>1, Types
  <2>7. Holds(worker[w])'
    BY <2>1, <2>2, <2>4, <2>6 DEF Holds
  <2>8. Grows
    BY <2>1, <2>4 DEF Grows
  <2> QED BY <2>1, <2>2, <2>3, <2>4, <2>5, <2>6, <2>7, <2>8, Types, SoundStep
<1> QED BY <1>1, <1>2, <1>3, <1>4, <1>5

LEMMA ExecutionSound ==
  ASSUME Sound, NEW w \in Workers,
         \/ PutOff(w) \/ Read(w) \/ Start(w) \/ AnswerNotFound(w) \/ Apply(w)
         \/ \E m \in Match : AnswerFound(w, m)
         \/ \E retryable \in BOOLEAN : Fail(w, retryable)
  PROVE  Sound'
<1> DEFINE l == worker[w].lookup
           v == lookup[l].vehicle
<1>1. CASE PutOff(w)
  BY <1>1, GoesIdle, Types DEF PutOff, rows, queue
<1>8. CASE Read(w)
  <2> DEFINE q == [at |-> "read", lookup |-> l, attempt |-> lookup[l].attempt]
  <2>1. /\ worker' = [worker EXCEPT ![w] = q]
        /\ UNCHANGED <<vehicle, recent, owner, history, lookup, jobs, kept, breaker>>
    BY <1>8 DEF Read, rows, queue
  <2>2. l \in Lookups /\ lookup[l].status # Absent
    BY <1>8, Carried DEF Read
  <2>3. q \in WorkerState
    BY <2>2, Types DEF WorkerState, LookupRow
  <2>4. worker' \in [Workers -> WorkerState]
    BY <2>1, <2>3, Types
  <2>5. worker'[w] = q /\ \A x \in Workers \ {w} : worker'[x] = worker[x]
    BY <2>1, Types
  <2>6. Holds(worker[w])'
    BY <2>1, <2>2, <2>5 DEF Holds
  <2> QED BY <2>1, <2>4, <2>5, <2>6, Types, SoundStep DEF Grows
<1>2. CASE Start(w)
  <2> DEFINE q == [worker[w] EXCEPT !.at = "calling"]
  <2>1. /\ lookup' = [lookup EXCEPT ![l].status = "IN_PROGRESS"]
        /\ worker' = [worker EXCEPT ![w] = q]
        /\ UNCHANGED <<vehicle, recent, owner, history, jobs, kept, breaker>>
    BY <1>2 DEF Start, queue
  <2>2. l \in Lookups /\ lookup[l].status # Absent /\ worker[w].at = "read"
    BY <1>2, Carried DEF Start
  <2>3. worker[w] \in [at: {"read", "calling"}, lookup: Lookups, attempt: Nat]
    BY <2>2, Types DEF WorkerState, Idle
  <2>10. /\ q \in [at: {"read", "calling"}, lookup: Lookups, attempt: Nat]
         /\ q.at = "calling" /\ q.lookup = l
    BY <2>3
  <2>11. q \in WorkerState
    BY <2>10 DEF WorkerState
  <2> HIDE DEF q
  <2>4. lookup' \in [Lookups -> LookupRow]
    <3> HIDE DEF l
    <3>1. lookup[l] \in LookupRow /\ "IN_PROGRESS" \in LookupStatus
      BY <2>2, Types DEF LookupStatus
    <3>2. [lookup[l] EXCEPT !.status = "IN_PROGRESS"] \in LookupRow
      BY <3>1 DEF LookupRow
    <3> QED BY <2>1, <3>2, Types
  <2>5. /\ \A k \in Lookups \ {l} : lookup'[k] = lookup[k]
        /\ lookup'[l].vehicle = v /\ lookup'[l].status = "IN_PROGRESS"
    BY <2>1, <2>2, Types DEF LookupRow
  <2>6. worker' \in [Workers -> WorkerState]
    BY <2>1, <2>11, Types
  <2>7. worker'[w] = q /\ \A x \in Workers \ {w} : worker'[x] = worker[x]
    BY <2>1, Types
  <2>8. Holds(worker[w])'
    BY <2>5, <2>7, <2>10 DEF Holds
  <2>9. Grows
    BY <2>1, <2>5 DEF Grows
  <2> QED BY <2>1, <2>2, <2>4, <2>5, <2>6, <2>7, <2>8, <2>9, Types, SoundStep
<1>3. ASSUME worker' = [worker EXCEPT ![w] = Idle], UNCHANGED <<recent, jobs, kept>>,
             l \in Lookups, lookup[l].status # Absent,
             vehicle' \in [Vehicles -> VehicleRow],
             \A u \in Vehicles : vehicle[u].status # Absent => vehicle'[u].status # Absent,
             owner' \in [Vehicles -> {None, "REGISTRY", "MANUAL"}],
             history' \in [Vehicles -> Match],
             lookup' \in [Lookups -> LookupRow],
             \A k \in Lookups \ {l} : lookup'[k] = lookup[k],
             lookup'[l].vehicle = v, lookup'[l].status # Absent,
             breaker' \in [fails: 0..Threshold, open: BOOLEAN]
      PROVE  Sound'
  <2>1. worker' \in [Workers -> WorkerState]
    BY <1>3, Types DEF WorkerState
  <2>2. \A x \in Workers : worker'[x] = worker[x] \/ worker'[x] = Idle
    BY <1>3, Types
  <2>3. \A x \in Workers : worker'[x] = worker[x] \/ Holds(worker[x])'
    BY <2>2 DEF Holds, Idle
  <2>4. Grows
    BY <1>3 DEF Grows
  <2>5. \A k \in Lookups : lookup[k].status = Absent => lookup'[k].status = Absent
    BY <1>3
  <2> HIDE DEF l, v
  <2> QED BY <1>3, <2>1, <2>3, <2>4, <2>5, Types, SoundStep
<1>4. CASE AnswerNotFound(w)
  <2>1. /\ lookup' = [lookup EXCEPT ![l].status = "SUCCEEDED"]
        /\ vehicle' = [vehicle EXCEPT ![v].check = "UNAVAILABLE"]
        /\ breaker' = Closed
        /\ worker' = [worker EXCEPT ![w] = Idle]
        /\ UNCHANGED <<recent, owner, history, jobs, kept>>
    BY <1>4 DEF AnswerNotFound, queue
  <2>2. l \in Lookups /\ lookup[l].status # Absent
    BY <1>4, Carried DEF AnswerNotFound
  <2>3. /\ lookup' \in [Lookups -> LookupRow]
        /\ \A k \in Lookups \ {l} : lookup'[k] = lookup[k]
        /\ lookup'[l].vehicle = v /\ lookup'[l].status = "SUCCEEDED"
    BY <2>1, <2>2, Types DEF LookupRow, LookupStatus
  <2>4. /\ vehicle' \in [Vehicles -> VehicleRow]
        /\ \A u \in Vehicles : vehicle'[u].status = vehicle[u].status
    <3>1. v \in Vehicles
      BY <1>4, Carried DEF AnswerNotFound
    <3> HIDE DEF v
    <3> QED BY <2>1, <3>1, CheckSet DEF Check
  <2> QED BY <1>3, <2>1, <2>2, <2>3, <2>4, Types, BreakerTypes
<1>5. ASSUME NEW m \in Match, AnswerFound(w, m) PROVE Sound'
  <2> DEFINE q == [at |-> "applying", lookup |-> l, attempt |-> worker[w].attempt,
                   seen |-> vehicle[v].status, match |-> m]
  <2>1. /\ breaker' = Closed
        /\ worker' = [worker EXCEPT ![w] = q]
        /\ UNCHANGED <<vehicle, recent, owner, history, lookup, jobs, kept>>
    BY <1>5 DEF AnswerFound, rows, queue
  <2>2. /\ l \in Lookups /\ lookup[l].status # Absent
        /\ worker[w].attempt \in Nat /\ vehicle[v].status \in VehicleStatus
    BY <1>5, Carried DEF AnswerFound
  <2>3. q \in WorkerState
    BY <2>2 DEF WorkerState
  <2>4. worker' \in [Workers -> WorkerState]
    BY <2>1, <2>3, Types
  <2>5. worker'[w] = q /\ \A x \in Workers \ {w} : worker'[x] = worker[x]
    BY <2>1, Types
  <2>6. Holds(worker[w])'
    BY <2>1, <2>2, <2>5 DEF Holds
  <2> QED BY <2>1, <2>4, <2>5, <2>6, Types, BreakerTypes, SoundStep DEF Grows
<1>6. CASE Apply(w)
  <2> DEFINE q == worker[w]
             row == [status |-> AfterEnrichment(q.seen, vehicle[v].status, q.match),
                     check |-> IF Authoritative THEN "VERIFIED" ELSE "UNAVAILABLE",
                     financier |-> IF q.match = None THEN vehicle[v].financier ELSE q.match]
  <2>1. /\ vehicle' = [vehicle EXCEPT ![v] = row]
        /\ owner' = [owner EXCEPT ![v] = "REGISTRY"]
        /\ history' = [history EXCEPT ![v] = Opened(v, q.match)]
        /\ lookup' = [lookup EXCEPT ![l].status = "SUCCEEDED"]
        /\ worker' = [worker EXCEPT ![w] = Idle]
        /\ UNCHANGED <<recent, jobs, kept, breaker>>
    BY <1>6 DEF Apply, queue
  <2>2. /\ l \in Lookups /\ lookup[l].status # Absent /\ v \in Vehicles
        /\ q.match \in Match /\ vehicle[v].status \in VehicleStatus
    BY <1>6, Carried DEF Apply
  <2>3. /\ lookup' \in [Lookups -> LookupRow]
        /\ \A k \in Lookups \ {l} : lookup'[k] = lookup[k]
        /\ lookup'[l].vehicle = v /\ lookup'[l].status = "SUCCEEDED"
    BY <2>1, <2>2, Types DEF LookupRow, LookupStatus
  <2>4. row.status \in VehicleStatus
    BY <2>2 DEF AfterEnrichment, VehicleStatus
  <2>5. row \in VehicleRow
    BY <2>2, <2>4, Types DEF VehicleRow, Check
  <2>6. /\ vehicle' \in [Vehicles -> VehicleRow]
        /\ \A u \in Vehicles \ {v} : vehicle'[u] = vehicle[u]
        /\ vehicle'[v].status \in VehicleStatus
    BY <2>1, <2>2, <2>4, <2>5, Types
  <2>7. \A u \in Vehicles : vehicle[u].status # Absent => vehicle'[u].status # Absent
    BY <2>6 DEF VehicleStatus
  <2>8. owner' \in [Vehicles -> {None, "REGISTRY", "MANUAL"}]
    BY <2>1, Types
  <2>9. history' \in [Vehicles -> Match]
    BY <2>1, <2>2, Types DEF Opened
  <2> QED BY <1>3, <2>1, <2>2, <2>3, <2>6, <2>7, <2>8, <2>9, Types
<1>7. ASSUME NEW retryable \in BOOLEAN, Fail(w, retryable) PROVE Sound'
  <2>1. /\ lookup' = [lookup EXCEPT
             ![l].status = IF Exhausted(worker[w].attempt, retryable) THEN "EXHAUSTED"
                                                                      ELSE "FAILED",
             ![l].attempt = worker[w].attempt + 1]
        /\ vehicle' = vehicle \/ vehicle' = [vehicle EXCEPT ![v].check = "FAILED"]
        /\ breaker' = AfterFailure
        /\ worker' = [worker EXCEPT ![w] = Idle]
        /\ UNCHANGED <<recent, owner, history, jobs, kept>>
    BY <1>7 DEF Fail, queue
  <2>2. l \in Lookups /\ lookup[l].status # Absent /\ worker[w].attempt \in Nat
    BY <1>7, Carried DEF Fail
  <2> DEFINE status == IF Exhausted(worker[w].attempt, retryable) THEN "EXHAUSTED"
                                                               ELSE "FAILED"
             row == [lookup[l] EXCEPT !.status = status, !.attempt = worker[w].attempt + 1]
  <2>3. row \in LookupRow /\ row.vehicle = v /\ row.status # Absent
    <3>1. lookup[l] \in LookupRow /\ status \in LookupStatus /\ status # Absent
      BY <2>2, Types DEF LookupStatus
    <3>2. worker[w].attempt + 1 \in Nat
      BY <2>2
    <3> HIDE DEF status
    <3> QED BY <3>1, <3>2 DEF LookupRow
  <2>4. lookup' = [lookup EXCEPT ![l] = row]
    BY <2>1, <2>2, Types
  <2>5. /\ lookup' \in [Lookups -> LookupRow]
        /\ \A k \in Lookups \ {l} : lookup'[k] = lookup[k]
        /\ lookup'[l].vehicle = v /\ lookup'[l].status # Absent
    BY <2>2, <2>3, <2>4, Types
  <2>6. /\ vehicle' \in [Vehicles -> VehicleRow]
        /\ \A u \in Vehicles : vehicle'[u].status = vehicle[u].status
    <3>1. v \in Vehicles
      BY <1>7, Carried DEF Fail
    <3> HIDE DEF v
    <3> QED BY <2>1, <3>1, CheckSet, Types DEF Check
  <2> QED BY <1>3, <2>1, <2>2, <2>5, <2>6, Types, BreakerTypes
<1> QED BY <1>1, <1>2, <1>4, <1>5, <1>6, <1>7, <1>8

(* Every row and every worker's state is well formed, and a worker never   *)
(* holds a lookup, or a job, of something that does not exist.             *)
THEOREM TypeCorrect == Spec => []Sound
<1>1. Init => Sound
  <2> SUFFICES ASSUME Init PROVE Sound
    OBVIOUS
  <2>1. vehicle \in [Vehicles -> VehicleRow]
    BY DEF Init, VehicleRow, Check, Match
  <2>2. owner \in [Vehicles -> {None, "REGISTRY", "MANUAL"}] /\ history \in [Vehicles -> Match]
    BY DEF Init, Match
  <2>3. lookup \in [Lookups -> LookupRow]
    BY DEF Init, LookupRow
  <2>4. worker \in [Workers -> WorkerState]
    BY DEF Init, WorkerState
  <2>5. /\ breaker \in [fails: 0..Threshold, open: BOOLEAN] /\ jobs = {} /\ recent = {}
        /\ kept \in [Vehicles -> {"no", "completed", "failed"}]
    BY RegistryAssumption DEF Init
  <2>6. Rooted
    BY DEF Init, Rooted, Holds, Idle
  <2> QED BY <2>1, <2>2, <2>3, <2>4, <2>5, <2>6 DEF Sound, TypeOK
<1>2. Sound /\ [Next]_vars => Sound'
  <2> SUFFICES ASSUME Sound, [Next]_vars PROVE Sound'
    OBVIOUS
  <2>1. CASE UNCHANGED vars
    BY <2>1 DEF vars, Sound, TypeOK, Rooted, Holds
  <2>2. CASE CoolDown
    BY <2>2, Types, BreakerTypes, SoundStep DEF CoolDown, Grows, rows, queue
  <2>3. CASE Crash
    <3>1. worker' \in [Workers -> WorkerState] /\ \A w \in Workers : worker'[w] = Idle
      BY <2>3 DEF Crash, WorkerState
    <3>2. \A w \in Workers : Holds(worker[w])'
      BY <3>1 DEF Holds, Idle
    <3> QED BY <2>3, <3>1, <3>2, Types, BreakerTypes, SoundStep DEF Crash, Grows, rows, queue
  <2>4. ASSUME NEW w \in Workers, Work(w) PROVE Sound'
    BY <2>4, AskingSound, ExecutionSound DEF Work
  <2> QED BY <2>1, <2>2, <2>3, <2>4, YardSound, PeopleSound, ScheduleSound DEF Next
<1> QED BY <1>1, <1>2, PTL DEF Spec

------------------------------------------------------------------------------
(* Pending vehicles                                                        *)

Open == {"NOT_REQUESTED", "PENDING"}

(* A settled lookup left its vehicle with an answer, so a worker that only *)
(* now marks the vehicle pending finds that it may not.                    *)
PendingInv ==
  /\ \A l \in Lookups : lookup[l].status \in Settled =>
       vehicle[lookup[l].vehicle].check # "NOT_REQUESTED"
  /\ PendingHasLookup

(* A step that answers some vehicles, settles lookups only of answered     *)
(* ones, and may create lookups.                                           *)
Answers ==
  /\ \A v \in Vehicles : vehicle'[v].check = vehicle[v].check \/ vehicle'[v].check \notin Open
  /\ \A l \in Lookups : lookup[l].status # Absent =>
       /\ lookup'[l].status # Absent
       /\ lookup'[l].vehicle = lookup[l].vehicle
       /\ lookup'[l].status \in Settled =>
            lookup[l].status \in Settled \/ vehicle'[lookup[l].vehicle].check \notin Open
  /\ \A l \in Lookups : lookup[l].status = Absent => lookup'[l].status \notin Settled

LEMMA AnswersPending ==
  ASSUME Sound, PendingInv, Answers PROVE PendingInv'
<1>1. ASSUME NEW l \in Lookups, lookup'[l].status \in Settled
      PROVE  vehicle'[lookup'[l].vehicle].check # "NOT_REQUESTED"
  <2>1. lookup[l].status # Absent
    BY <1>1 DEF Answers
  <2>2. lookup[l].vehicle \in Vehicles /\ lookup'[l].vehicle = lookup[l].vehicle
    BY <2>1 DEF Answers, Sound, Rooted
  <2> QED BY <1>1, <2>1, <2>2 DEF Answers, PendingInv, Open
<1>2. ASSUME NEW v \in Vehicles, vehicle'[v].check = "PENDING"
      PROVE  \E l \in Lookups : lookup'[l].vehicle = v /\ lookup'[l].status \notin Settled \cup {Absent}
  <2>1. vehicle[v].check = "PENDING"
    BY <1>2 DEF Answers, Open
  <2>2. PICK l \in Lookups : lookup[l].vehicle = v /\ lookup[l].status \notin Settled \cup {Absent}
    BY <2>1 DEF PendingInv, PendingHasLookup
  <2> QED BY <1>2, <2>2 DEF Answers, Open
<1> QED BY <1>1, <1>2 DEF PendingInv, PendingHasLookup

LEMMA ExecutionAnswers ==
  ASSUME Sound, NEW w \in Workers,
         \/ Start(w) \/ AnswerNotFound(w) \/ Apply(w)
         \/ \E retryable \in BOOLEAN : Fail(w, retryable)
  PROVE  Answers
<1> DEFINE l == worker[w].lookup
           v == lookup[l].vehicle
<1>0. l \in Lookups /\ lookup[l].status # Absent /\ v \in Vehicles
  BY Carried DEF Start, AnswerNotFound, Apply, Fail
<1>1. ASSUME \A k \in Lookups \ {l} : lookup'[k] = lookup[k],
             lookup'[l].vehicle = v, lookup'[l].status # Absent,
             lookup'[l].status \in Settled => vehicle'[v].check \notin Open,
             \A u \in Vehicles \ {v} : vehicle'[u] = vehicle[u],
             vehicle'[v].check = vehicle[v].check \/ vehicle'[v].check \notin Open
      PROVE  Answers
  <2> HIDE DEF l, v
  <2>1. \A k \in Lookups : lookup[k].status = Absent => lookup'[k].status \notin Settled
    BY <1>0, <1>1 DEF Settled
  <2>2. v = lookup[l].vehicle
    BY DEF v
  <2>3. \A k \in Lookups : lookup[k].status # Absent =>
          /\ lookup'[k].status # Absent
          /\ lookup'[k].vehicle = lookup[k].vehicle
          /\ lookup'[k].status \in Settled =>
               lookup[k].status \in Settled \/ vehicle'[lookup[k].vehicle].check \notin Open
    BY <1>0, <1>1, <2>2
  <2> QED BY <1>1, <2>1, <2>3 DEF Answers
<1>2. CASE Start(w)
  <2>1. lookup' = [lookup EXCEPT ![l].status = "IN_PROGRESS"] /\ UNCHANGED vehicle
    BY <1>2 DEF Start
  <2> QED BY <1>0, <1>1, <2>1, Types DEF LookupRow, Settled
<1>3. CASE AnswerNotFound(w)
  <2>1. /\ lookup' = [lookup EXCEPT ![l].status = "SUCCEEDED"]
        /\ vehicle' = [vehicle EXCEPT ![v].check = "UNAVAILABLE"]
    BY <1>3 DEF AnswerNotFound
  <2> QED BY <1>0, <1>1, <2>1, Types DEF LookupRow, VehicleRow, Open
<1>4. CASE Apply(w)
  <2> DEFINE check == IF Authoritative THEN "VERIFIED" ELSE "UNAVAILABLE"
  <2>1. lookup' = [lookup EXCEPT ![l].status = "SUCCEEDED"]
    BY <1>4 DEF Apply
  <2>2. vehicle'[v].check = check /\ \A u \in Vehicles \ {v} : vehicle'[u] = vehicle[u]
    BY <1>0, <1>4, Types DEF Apply
  <2>3. check \notin Open
    BY DEF Open
  <2> QED BY <1>0, <1>1, <2>1, <2>2, <2>3, Types DEF LookupRow
<1>5. ASSUME NEW retryable \in BOOLEAN, Fail(w, retryable) PROVE Answers
  <2> DEFINE done == Exhausted(worker[w].attempt, retryable)
  <2>1. /\ lookup' = [lookup EXCEPT ![l].status = IF done THEN "EXHAUSTED" ELSE "FAILED",
                                    ![l].attempt = worker[w].attempt + 1]
        /\ vehicle' = IF done THEN [vehicle EXCEPT ![v].check = "FAILED"] ELSE vehicle
    BY <1>5 DEF Fail
  <2> HIDE DEF done
  <2>2. /\ \A k \in Lookups \ {l} : lookup'[k] = lookup[k]
        /\ lookup'[l].vehicle = v
        /\ lookup'[l].status = IF done THEN "EXHAUSTED" ELSE "FAILED"
    BY <1>0, <2>1, Types DEF LookupRow
  <2>3. CASE done
    <3>1. lookup'[l].status = "EXHAUSTED" /\ vehicle' = [vehicle EXCEPT ![v].check = "FAILED"]
      BY <2>1, <2>2, <2>3
    <3>2. vehicle'[v].check = "FAILED" /\ \A u \in Vehicles \ {v} : vehicle'[u] = vehicle[u]
      BY <1>0, <3>1, Types DEF VehicleRow
    <3>3. vehicle'[v].check \notin Open
      BY <3>2 DEF Open
    <3> HIDE DEF l, v
    <3> QED BY <1>1, <2>2, <3>1, <3>2, <3>3
  <2>4. CASE ~done
    <3>1. UNCHANGED vehicle /\ lookup'[l].status = "FAILED"
      BY <2>1, <2>2, <2>4
    <3> HIDE DEF l, v
    <3> QED BY <1>1, <2>2, <3>1 DEF Settled
  <2> QED BY <2>3, <2>4
<1> QED BY <1>2, <1>3, <1>4, <1>5

(* Asking: the only steps that make a vehicle pending. *)
LEMMA MarkPending ==
  ASSUME Sound, PendingInv, NEW w \in Workers, Mark(w) PROVE PendingInv'
<1> DEFINE v == worker[w].vehicle
           l == worker[w].lookup
<1>1. /\ worker[w].at = "created" /\ UNCHANGED lookup
      /\ vehicle' = [vehicle EXCEPT ![v].check = Marked(v)]
  BY DEF Mark
<1>2. v \in Vehicles /\ l \in Lookups /\ lookup[l].status # Absent /\ lookup[l].vehicle = v
  BY <1>1, Carried DEF Sound, Rooted, Holds
<1> HIDE DEF v, l
<1>3. /\ vehicle'[v].check = Marked(v) /\ \A u \in Vehicles \ {v} : vehicle'[u] = vehicle[u]
  BY <1>1, <1>2, Types DEF VehicleRow
<1>4. CASE vehicle[v].check = "NOT_REQUESTED"
  <2>1. lookup[l].status \notin Settled \cup {Absent}
    BY <1>2, <1>4 DEF PendingInv
  <2>2. vehicle'[v].check = "PENDING"
    BY <1>3, <1>4 DEF Marked
  <2>3. \A k \in Lookups : lookup[k].status \in Settled => lookup[k].vehicle \in Vehicles
    BY DEF Settled, Sound, Rooted
  <2> QED BY <1>1, <1>2, <1>3, <2>1, <2>2, <2>3 DEF PendingInv, PendingHasLookup
<1>5. CASE vehicle[v].check # "NOT_REQUESTED"
  <2>1. Answers
    BY <1>1, <1>3, <1>5 DEF Marked, Answers, Settled
  <2> QED BY <2>1, AnswersPending
<1> QED BY <1>4, <1>5

LEMMA RequestPending ==
  ASSUME Sound, PendingInv, NEW v \in Vehicles, NEW l \in Lookups, RequestByHand(v, l)
  PROVE  PendingInv'
<1>1. /\ lookup[l].status = Absent
      /\ \A k \in Lookups \ {l} : lookup'[k] = lookup[k]
      /\ lookup'[l].vehicle = v /\ lookup'[l].status = "QUEUED"
  BY Types DEF RequestByHand
<1>2. /\ vehicle'[v].check = Marked(v) /\ \A u \in Vehicles \ {v} : vehicle'[u] = vehicle[u]
  BY Types DEF RequestByHand, VehicleRow
<1>3. \A k \in Lookups : lookup'[k].status \in Settled =>
        vehicle'[lookup'[k].vehicle].check # "NOT_REQUESTED"
  <2> SUFFICES ASSUME NEW k \in Lookups, lookup'[k].status \in Settled
               PROVE  vehicle'[lookup'[k].vehicle].check # "NOT_REQUESTED"
    OBVIOUS
  <2>1. k # l /\ lookup'[k] = lookup[k]
    BY <1>1 DEF Settled
  <2>2. lookup[k].vehicle \in Vehicles
    BY <2>1 DEF Settled, Sound, Rooted
  <2> QED BY <1>2, <2>1, <2>2 DEF PendingInv, Marked
<1>4. \A u \in Vehicles : vehicle'[u].check = "PENDING" =>
        \E k \in Lookups : lookup'[k].vehicle = u /\ lookup'[k].status \notin Settled \cup {Absent}
  <2>1. lookup'[l].status \notin Settled \cup {Absent}
    BY <1>1 DEF Settled
  <2>2. \A u \in Vehicles \ {v} : vehicle'[u].check = "PENDING" =>
          \E k \in Lookups \ {l} :
            lookup[k].vehicle = u /\ lookup[k].status \notin Settled \cup {Absent}
    BY <1>1, <1>2 DEF PendingInv, PendingHasLookup
  <2> QED BY <1>1, <2>1, <2>2
<1> QED BY <1>3, <1>4 DEF PendingInv, PendingHasLookup

LEMMA AlwaysPendingInv == Spec => []PendingInv
<1>1. Init => PendingInv
  BY DEF Init, PendingInv, PendingHasLookup, Settled
<1>2. Sound /\ PendingInv /\ [Next]_vars => PendingInv'
  <2> SUFFICES ASSUME Sound, PendingInv, [Next]_vars PROVE PendingInv'
    OBVIOUS
  <2>1. ASSUME UNCHANGED <<vehicle, lookup>> PROVE PendingInv'
    BY <2>1 DEF PendingInv, PendingHasLookup
  <2>2. ASSUME NEW v \in Vehicles, Sight(v) \/ Admit(v) PROVE PendingInv'
    <3>2. \A u \in Vehicles : vehicle'[u].check = vehicle[u].check
      BY <2>2, Types DEF Sight, Admit, VehicleRow
    <3>3. UNCHANGED lookup
      BY <2>2 DEF Sight, Admit
    <3>4. Answers
      BY <3>2, <3>3 DEF Answers, Settled
    <3> QED BY <3>4, AnswersPending
  <2>3. ASSUME NEW v \in Vehicles, NEW f \in Match, VerifyByHand(v, f) PROVE PendingInv'
    <3>1. vehicle' = [vehicle EXCEPT ![v].check = "MANUALLY_VERIFIED",
                                     ![v].financier = IF f = None THEN @ ELSE f]
      BY <2>3 DEF VerifyByHand
    <3>2. /\ vehicle'[v].check = "MANUALLY_VERIFIED"
          /\ \A u \in Vehicles \ {v} : vehicle'[u] = vehicle[u]
      BY <3>1, Types DEF VehicleRow
    <3>3. UNCHANGED lookup
      BY <2>3 DEF VerifyByHand
    <3>4. Answers
      BY <3>2, <3>3 DEF Answers, Settled, Open
    <3> QED BY <3>4, AnswersPending
  <2>4. ASSUME NEW w \in Workers, NEW l \in Lookups, Create(w, l) PROVE PendingInv'
    <3>1. /\ lookup[l].status = Absent /\ lookup'[l].status = "QUEUED"
          /\ UNCHANGED vehicle /\ \A k \in Lookups \ {l} : lookup'[k] = lookup[k]
      BY <2>4, Types DEF Create
    <3>2. Answers
      BY <3>1 DEF Answers, Settled
    <3> QED BY <3>2, AnswersPending
  <2>5. CASE Schedule
    BY <2>1, <2>5 DEF Schedule, Backfill, Age, Forget, Sweep, TakeJob, rows
  <2>6. ASSUME NEW w \in Workers, Work(w) PROVE PendingInv'
    BY <2>1, <2>4, <2>6, MarkPending, ExecutionAnswers, AnswersPending
       DEF Work, Ask, NoRowLeft, JobFails, PutOff, Read, AnswerFound, rows
  <2>7. CASE CoolDown \/ Crash \/ UNCHANGED vars
    BY <2>1, <2>7 DEF CoolDown, Crash, vars, rows
  <2> QED BY <2>2, <2>3, <2>5, <2>6, <2>7, RequestPending DEF Next, Yard, People
<1> QED BY <1>1, <1>2, TypeCorrect, PTL DEF Spec

(* A vehicle that shows as pending has a lookup still to be carried out,   *)
(* whoever settled the one its own worker created before it was marked.    *)
THEOREM PendingIsPending == Spec => []PendingHasLookup
<1>1. PendingInv => PendingHasLookup
  BY DEF PendingInv
<1> QED BY <1>1, AlwaysPendingInv, PTL

------------------------------------------------------------------------------
(* The financier and its history                                           *)

(* The vehicle's financier and its open history row move together, whether *)
(* a worker's answer or a person's comes last.                             *)
THEOREM HistoryFollows == Spec => []HistoryAgrees
<1>1. Init => HistoryAgrees
  BY DEF Init, HistoryAgrees
<1>2. Sound /\ HistoryAgrees /\ [Next]_vars => HistoryAgrees'
  <2> SUFFICES ASSUME Sound, HistoryAgrees, [Next]_vars PROVE HistoryAgrees'
    OBVIOUS
  <2>1. ASSUME UNCHANGED history,
               \A v \in Vehicles : vehicle'[v].financier = vehicle[v].financier
        PROVE  HistoryAgrees'
    BY <2>1 DEF HistoryAgrees
  <2>2. ASSUME NEW v \in Vehicles, Sight(v) \/ Admit(v) PROVE HistoryAgrees'
    <3>2. \A u \in Vehicles : vehicle'[u].financier = vehicle[u].financier
      BY <2>2, Types DEF Sight, Admit, VehicleRow
    <3> QED BY <2>1, <2>2, <3>2 DEF Sight, Admit
  <2>3. ASSUME NEW v \in Vehicles, NEW l \in Lookups, RequestByHand(v, l) PROVE HistoryAgrees'
    BY <2>1, <2>3, Types DEF RequestByHand, VehicleRow
  <2>4. ASSUME NEW v, NEW f,
               history' = [history EXCEPT ![v] = Opened(v, f)],
               \A u \in Vehicles \ {v} : vehicle'[u].financier = vehicle[u].financier,
               v \in Vehicles =>
                 vehicle'[v].financier = IF f = None THEN vehicle[v].financier ELSE f
        PROVE  HistoryAgrees'
    BY <2>4, Types DEF HistoryAgrees, Opened
  <2>5. ASSUME NEW v \in Vehicles, NEW f \in Match, VerifyByHand(v, f) PROVE HistoryAgrees'
    <3>1. /\ vehicle' = [vehicle EXCEPT ![v].check = "MANUALLY_VERIFIED",
                                        ![v].financier = IF f = None THEN @ ELSE f]
          /\ history' = [history EXCEPT ![v] = Opened(v, f)]
      BY <2>5 DEF VerifyByHand
    <3>2. /\ vehicle'[v].financier = IF f = None THEN vehicle[v].financier ELSE f
          /\ \A u \in Vehicles \ {v} : vehicle'[u] = vehicle[u]
      BY <3>1, Types DEF VehicleRow
    <3> QED BY <2>4, <3>1, <3>2
  <2>6. ASSUME NEW w \in Workers, Apply(w) PROVE HistoryAgrees'
    <3> DEFINE v == lookup[worker[w].lookup].vehicle
               f == worker[w].match
    <3>1. history' = [history EXCEPT ![v] = Opened(v, f)]
      BY <2>6 DEF Apply
    <3>2. /\ \A u \in Vehicles \ {v} : vehicle'[u] = vehicle[u]
          /\ v \in Vehicles =>
               vehicle'[v].financier = IF f = None THEN vehicle[v].financier ELSE f
      BY <2>6, Types DEF Apply
    <3> HIDE DEF v, f
    <3> QED BY <2>4, <3>1, <3>2
  <2>7. ASSUME NEW w \in Workers,
               Mark(w) \/ AnswerNotFound(w) \/ \E retryable \in BOOLEAN : Fail(w, retryable)
        PROVE  HistoryAgrees'
    <3>1. PICK v, check : vehicle' = vehicle \/ vehicle' = [vehicle EXCEPT ![v].check = check]
      BY <2>7 DEF Mark, AnswerNotFound, Fail
    <3>2. \A u \in Vehicles : vehicle'[u].financier = vehicle[u].financier
      BY <3>1, Types DEF VehicleRow
    <3> QED BY <2>1, <2>7, <3>2 DEF Mark, AnswerNotFound, Fail
  <2>8. ASSUME UNCHANGED <<vehicle, history>> PROVE HistoryAgrees'
    BY <2>1, <2>8
  <2>9. ASSUME NEW w \in Workers, Work(w) PROVE HistoryAgrees'
    BY <2>6, <2>7, <2>8, <2>9
       DEF Work, Ask, NoRowLeft, JobFails, PutOff, Read, Start, AnswerFound, Create, rows
  <2>10. CASE Schedule \/ CoolDown \/ Crash \/ UNCHANGED vars
    BY <2>8, <2>10 DEF Schedule, Backfill, Age, Forget, Sweep, TakeJob, CoolDown, Crash,
                          vars, rows
  <2> QED BY <2>2, <2>3, <2>5, <2>9, <2>10 DEF Next, Yard, People
<1> QED BY <1>1, <1>2, TypeCorrect, PTL DEF Spec
===============================================================================
