------------------------------- MODULE Registry -------------------------------
(***************************************************************************)
(* Enrichment of vehicles from the national registry                       *)
(* (modules/registry), the queue and the sweeps that drive it              *)
(* (infrastructure/queue, modules/jobs), and the gate, which moves the     *)
(* same vehicle rows meanwhile.                                            *)
(*                                                                         *)
(* The database rows are shared; the queue is best effort; one API process *)
(* runs several workers and holds the circuit breaker in its memory.  A    *)
(* lookup is executed in steps: the row is read, marked in progress, the   *)
(* provider is called, and a transaction applies the answer, which reads   *)
(* the vehicle first and writes it last.  Nothing claims the row, so two   *)
(* workers may execute one lookup.  The driver of the queue keeps jobs     *)
(* that have ended for a while, and takes no other job of their id.        *)
(***************************************************************************)
EXTENDS Lifecycles, Naturals, FiniteSets

CONSTANTS
  Vehicles,       \* canonical vehicle rows
  Lookups,        \* vehicle_registry_lookups rows, in use or not yet created
  Consumers,      \* the workers of the queue, ...
  Sweepers,       \* ... and the runs of the retry sweep, which may overlap
  Financiers,
  Authoritative,  \* whether the provider's records may verify a vehicle
  Configured,     \* whether a provider is configured at all
  BackfillLimit,  \* how many vehicles one backfill takes
  MaxAttempts,    \* registry.maxAttempts
  Threshold,      \* registry.breakerThreshold
  MaxTroubles,    \* bound on the crashes and failed job attempts explored
  MaxAnswers,     \* bound on the answers a person asks for by hand
  None            \* stands for a NULL foreign key

ASSUME RegistryAssumption ==
  /\ Authoritative \in BOOLEAN /\ Configured \in BOOLEAN
  /\ BackfillLimit \in Nat
  /\ MaxAttempts \in Nat \ {0} /\ Threshold \in Nat \ {0}
  /\ MaxTroubles \in Nat /\ MaxAnswers \in Nat
  /\ None \notin Vehicles \cup Financiers

VARIABLES
  vehicle,    \* vehicles: status, vahanVerificationStatus, financier
  recent,     \* the vehicles whose lastSeenAt is within the last seven days
  owner,      \* the source of the current vehicle_ownership_records row
  history,    \* the open vehicle_financier_history row
  lookup,     \* vehicle_registry_lookups
  jobs,       \* REGISTRY_ENRICHMENT jobs waiting or active, by job id
  kept,       \* how the backfill job the driver still keeps of a vehicle ended
  worker,     \* what each worker has read and does next
  breaker,    \* the circuit breaker of the process
  crashes,    \* how often the process has crashed
  failures,   \* how many attempts at a job have thrown
  byHand      \* how many manual requests and verifications there were

Workers == Consumers \cup Sweepers

vars == <<vehicle, recent, owner, history, lookup, jobs, kept, worker, breaker,
          crashes, failures, byHand>>
rows == <<vehicle, recent, owner, history, lookup>>
queue == <<jobs, kept>>
counters == <<crashes, failures, byHand>>

Absent == "ABSENT"
Check == {"NOT_REQUESTED", "PENDING", "VERIFIED", "UNAVAILABLE", "FAILED",
          "MANUALLY_VERIFIED"}
LookupStatus == {"QUEUED", "IN_PROGRESS", "SUCCEEDED", "FAILED", "EXHAUSTED"}
Settled == {"SUCCEEDED", "EXHAUSTED"}
InFlight == {"QUEUED", "IN_PROGRESS"}
JobId == {"admission", "backfill"}
Idle == [at |-> "idle"]
Match == Financiers \cup {None}

VehicleRow == [status: VehicleStatus \cup {Absent}, check: Check, financier: Match]
LookupRow == [vehicle: Vehicles \cup {None}, status: LookupStatus \cup {Absent}, attempt: Nat]
WorkerState ==
  {Idle}
    \cup [at: {"job", "asked"}, vehicle: Vehicles, id: JobId]
    \cup [at: {"created"}, vehicle: Vehicles, id: JobId, lookup: Lookups]
    \cup [at: {"due"}, lookup: Lookups]
    \cup [at: {"read", "calling"}, lookup: Lookups, attempt: Nat]
    \cup [at: {"applying"}, lookup: Lookups, attempt: Nat, seen: VehicleStatus, match: Match]

TypeOK ==
  /\ vehicle \in [Vehicles -> VehicleRow]
  /\ recent \subseteq Vehicles
  /\ owner \in [Vehicles -> {None, "REGISTRY", "MANUAL"}]
  /\ history \in [Vehicles -> Match]
  /\ lookup \in [Lookups -> LookupRow]
  /\ jobs \subseteq Vehicles \X JobId
  /\ kept \in [Vehicles -> {"no", "completed", "failed"}]
  /\ worker \in [Workers -> WorkerState]
  /\ breaker \in [fails: 0..Threshold, open: BOOLEAN]

Init ==
  /\ vehicle = [v \in Vehicles |-> [status |-> Absent, check |-> "NOT_REQUESTED",
                                    financier |-> None]]
  /\ recent = {}
  /\ owner = [v \in Vehicles |-> None]
  /\ history = [v \in Vehicles |-> None]
  /\ lookup = [l \in Lookups |-> [vehicle |-> None, status |-> Absent, attempt |-> 1]]
  /\ jobs = {} /\ kept = [v \in Vehicles |-> "no"]
  /\ worker = [w \in Workers |-> Idle]
  /\ breaker = [fails |-> 0, open |-> FALSE]
  /\ crashes = 0 /\ failures = 0 /\ byHand = 0

------------------------------------------------------------------------------
(* The gate, which never waits for the registry                            *)

(* resolveOrCreate, on a capture that admits nothing: an unknown plate at  *)
(* the exit becomes a row that was never inside, a known one was seen.     *)
Sight(v) ==
  /\ vehicle' = IF vehicle[v].status = Absent
                THEN [vehicle EXCEPT ![v].status = "CAPTURED"] ELSE vehicle
  /\ recent' = recent \cup {v}
  /\ UNCHANGED <<owner, history, lookup, queue, worker, breaker, counters>>

(* processCapture: the admission commits, then enrichment is enqueued; the *)
(* enqueue may be lost (QueueService.enqueue swallows the error).          *)
(* What becomes of the vehicle after that is in Gate and YardCustody.      *)
Admit(v) ==
  /\ vehicle[v].status \in {Absent, "CAPTURED", "VAHAN_VERIFIED", "FINANCIER_MATCHED"}
  /\ vehicle' = [vehicle EXCEPT ![v].status = "PARKED"]
  /\ recent' = recent \cup {v}
  /\ jobs' \in {jobs, jobs \cup {<<v, "admission">>}}
  /\ UNCHANGED <<owner, history, lookup, kept, worker, breaker, counters>>

------------------------------------------------------------------------------
(* Sweeps and jobs                                                         *)

NeverAsked_Parked(v) ==       \* mutant: only what has reached the yard
  vehicle[v].status = "PARKED" /\ vehicle[v].check = "NOT_REQUESTED"

NeverAsked(v) == vehicle[v].status # Absent /\ vehicle[v].check = "NOT_REQUESTED"

(* Seven days pass without the vehicle being seen.  Bound: only while the  *)
(* backfill, which alone reads lastSeenAt, would still take it, and not    *)
(* while a job of the vehicle waits or runs.                               *)
Age(v) ==
  /\ NeverAsked(v) /\ v \in recent
  /\ \A id \in JobId : <<v, id>> \notin jobs
  /\ recent' = recent \ {v}
  /\ UNCHANGED <<vehicle, owner, history, lookup, queue, worker, breaker, counters>>

(* JobsService.registryBackfill takes vehicles seen lately, a limited      *)
(* number of them and in no order.  The job id is fixed, so the driver     *)
(* takes no second job of a vehicle while the first waits, runs or is      *)
(* kept; each enqueue may be lost.                                         *)
Candidates == {v \in recent : NeverAsked(v)}
Crowded == Cardinality(Candidates) > BackfillLimit

Backfill(taken) ==
  /\ taken \subseteq Candidates /\ taken # {}
  /\ IF Crowded THEN Cardinality(taken) = BackfillLimit ELSE taken = Candidates
  /\ \E accepted \in SUBSET {v \in taken : kept[v] = "no"} :
       jobs' = jobs \cup (accepted \X {"backfill"})
  /\ UNCHANGED <<rows, kept, worker, breaker, counters>>

(* The driver drops a job that ended: a completed one is kept an hour, a   *)
(* failed one seven days, and it is dropped when a later job ends.         *)
Forget(v) ==
  /\ kept[v] # "no" /\ NeverAsked(v)
  /\ kept' = [kept EXCEPT ![v] = "no"]
  /\ UNCHANGED <<rows, jobs, worker, breaker, counters>>

(* The driver hands one job to one worker at a time. *)
TakeJob(w, v, id) ==
  /\ worker[w] = Idle
  /\ <<v, id>> \in jobs
  /\ \A x \in Workers : worker[x].at \in {"job", "asked", "created"} =>
                          ~(worker[x].vehicle = v /\ worker[x].id = id)
  /\ worker' = [worker EXCEPT ![w] = [at |-> "job", vehicle |-> v, id |-> id]]
  /\ UNCHANGED <<rows, queue, breaker, counters>>

(* The worker's job ends, and the driver keeps it.  The id of an admission *)
(* carries the minute, so only a kept backfill job stands in the way of a  *)
(* later one, and only while its vehicle was never asked about.            *)
EndJob(w, how) ==
  LET v == worker[w].vehicle IN
    /\ jobs' = jobs \ {<<v, worker[w].id>>}
    /\ kept' = IF worker[w].id = "backfill" /\ NeverAsked(v)
               THEN [kept EXCEPT ![v] = how] ELSE kept

(* A statement of requestEnrichment throws.  The driver tries the job      *)
(* again, or has tried it as often as it does and keeps it as failed.      *)
JobFails(w) ==
  /\ crashes + failures < MaxTroubles
  /\ worker[w].at \in {"job", "asked", "created"}
  /\ EndJob(w, "failed") \/ UNCHANGED queue
  /\ worker' = [worker EXCEPT ![w] = Idle]
  /\ failures' = failures + 1
  /\ UNCHANGED <<rows, breaker, crashes, byHand>>

(* registryRetrySweep: the due lookups are listed, then executed one by    *)
(* one; nextRetryAt is abstracted to "some time later".                    *)
Due_FailedOnly(l) ==          \* mutant: the sweep forgets what the queue lost
  lookup[l].status = "FAILED" /\ lookup[l].attempt <= MaxAttempts

Due(l) == lookup[l].status \in {"QUEUED", "FAILED"} /\ lookup[l].attempt <= MaxAttempts

Sweep(w, l) ==
  /\ worker[w] = Idle
  /\ Due(l)
  /\ worker' = [worker EXCEPT ![w] = [at |-> "due", lookup |-> l]]
  /\ UNCHANGED <<rows, queue, breaker, counters>>

------------------------------------------------------------------------------
(* requestEnrichment                                                       *)

Live(v) == {l \in Lookups : lookup[l].vehicle = v /\ lookup[l].status \in InFlight}

(* Without a provider, with a record that is still fresh or with a lookup  *)
(* in flight there is nothing to ask, and the job is done.  A record may   *)
(* be fresh or stale.                                                      *)
Ask(w) ==
  /\ worker[w].at = "job"
  /\ LET v == worker[w].vehicle IN
       \/ /\ ~Configured \/ owner[v] # None \/ Live(v) # {}
          /\ worker' = [worker EXCEPT ![w] = Idle]
          /\ EndJob(w, "completed")
       \/ /\ Configured /\ Live(v) = {}
          /\ worker' = [worker EXCEPT ![w].at = "asked"]
          /\ UNCHANGED queue
  /\ UNCHANGED <<rows, breaker, counters>>

Create(w, l) ==
  /\ worker[w].at = "asked"
  /\ lookup[l].status = Absent
  /\ lookup' = [lookup EXCEPT ![l] = [vehicle |-> worker[w].vehicle, status |-> "QUEUED",
                                      attempt |-> 1]]
  /\ worker' = [worker EXCEPT ![w] = [at |-> "created", vehicle |-> worker[w].vehicle,
                                      id |-> worker[w].id, lookup |-> l]]
  /\ UNCHANGED <<vehicle, recent, owner, history, queue, breaker, counters>>

(* Bound: no lookup row is left to create, and the job ends.               *)
NoRowLeft(w) ==
  /\ worker[w].at = "asked"
  /\ \A l \in Lookups : lookup[l].status # Absent
  /\ EndJob(w, "completed")
  /\ worker' = [worker EXCEPT ![w] = Idle]
  /\ UNCHANGED <<rows, breaker, counters>>

(* The vehicle is marked pending if nobody asked before, and the handler   *)
(* goes on to execute the lookup.  The job counts as done from here: one   *)
(* delivered again finds the lookup in flight, and ends.                   *)
Marked_Unguarded(v) == "PENDING"      \* mutant: no condition on the update

Marked(v) == IF vehicle[v].check = "NOT_REQUESTED" THEN "PENDING" ELSE vehicle[v].check

Mark(w) ==
  /\ worker[w].at = "created"
  /\ vehicle' = [vehicle EXCEPT ![worker[w].vehicle].check = Marked(worker[w].vehicle)]
  /\ EndJob(w, "completed")
  /\ worker' = [worker EXCEPT ![w] = [at |-> "due", lookup |-> worker[w].lookup]]
  /\ UNCHANGED <<recent, owner, history, lookup, breaker, counters>>

(* POST registry-lookup: requestEnrichment with force, executed by a sweep *)
(* later.  Its three statements are taken together.                        *)
RequestByHand(v, l) ==
  /\ byHand < MaxAnswers
  /\ Configured /\ vehicle[v].status # Absent /\ Live(v) = {}
  /\ lookup[l].status = Absent
  /\ lookup' = [lookup EXCEPT ![l] = [vehicle |-> v, status |-> "QUEUED", attempt |-> 1]]
  /\ vehicle' = [vehicle EXCEPT ![v].check = Marked(v)]
  /\ byHand' = byHand + 1
  /\ UNCHANGED <<recent, owner, history, queue, worker, breaker, crashes, failures>>

------------------------------------------------------------------------------
(* executeLookup                                                           *)

(* A lookup that succeeded is left alone, and an open circuit puts it off. *)
(* The rate budget is never spent here.                                    *)
PutOff(w) ==
  /\ worker[w].at = "due"
  /\ \/ lookup[worker[w].lookup].status = "SUCCEEDED"
     \/ breaker.open
  /\ worker' = [worker EXCEPT ![w] = Idle]
  /\ UNCHANGED <<rows, queue, breaker, counters>>

(* The row is read, ...                                                    *)
Read(w) ==
  /\ worker[w].at = "due"
  /\ lookup[worker[w].lookup].status # "SUCCEEDED"
  /\ ~breaker.open
  /\ worker' = [worker EXCEPT ![w] = [at |-> "read", lookup |-> worker[w].lookup,
                                      attempt |-> lookup[worker[w].lookup].attempt]]
  /\ UNCHANGED <<rows, queue, breaker, counters>>

(* ... and marked in progress later, whatever has become of it meanwhile.  *)
Start(w) ==
  /\ worker[w].at = "read"
  /\ lookup' = [lookup EXCEPT ![worker[w].lookup].status = "IN_PROGRESS"]
  /\ worker' = [worker EXCEPT ![w].at = "calling"]
  /\ UNCHANGED <<vehicle, recent, owner, history, queue, breaker, counters>>

(* recordSuccess and recordFailure *)
Closed == [fails |-> 0, open |-> FALSE]
AfterFailure ==
  LET n == IF breaker.fails < Threshold THEN breaker.fails + 1 ELSE Threshold
  IN [fails |-> n, open |-> breaker.open \/ n = Threshold]

(* NOT_FOUND: completeNotFound.                                            *)
AnswerNotFound(w) ==
  /\ worker[w].at = "calling"
  /\ LET l == worker[w].lookup IN
       /\ lookup' = [lookup EXCEPT ![l].status = "SUCCEEDED"]
       /\ vehicle' = [vehicle EXCEPT ![lookup[l].vehicle].check = "UNAVAILABLE"]
  /\ breaker' = Closed
  /\ worker' = [worker EXCEPT ![w] = Idle]
  /\ UNCHANGED <<recent, owner, history, queue, counters>>

(* FOUND: applyRecord's transaction reads the vehicle and matches the      *)
(* holder's name, ...                                                      *)
AnswerFound(w, m) ==
  /\ worker[w].at = "calling"
  /\ breaker' = Closed
  /\ worker' = [worker EXCEPT ![w] =
       [at |-> "applying", lookup |-> worker[w].lookup, attempt |-> worker[w].attempt,
        seen |-> vehicle[lookup[worker[w].lookup].vehicle].status, match |-> m]]
  /\ UNCHANGED <<rows, queue, counters>>

(* pickVehicleStatusAfterEnrichment                                        *)
AfterEnrichment(seen, now, m) ==
  IF seen \in {"CAPTURED", "IDENTIFIED", "VAHAN_PENDING", "VAHAN_FAILED"}
  THEN IF m # None THEN "FINANCIER_MATCHED" ELSE "VAHAN_VERIFIED"
  ELSE now

(* openFinancierHistory: an open row of another financier is closed.  It   *)
(* runs after the vehicle's row was updated, hence locked.                 *)
Opened_Once(v, f) ==          \* mutant: any open row counts as unchanged
  IF history[v] = None THEN f ELSE history[v]

Opened(v, f) == IF f = None THEN history[v] ELSE f

(* ... replaces the current ownership record, and writes the vehicle with  *)
(* the status chosen from what was read.                                   *)
Apply(w) ==
  /\ worker[w].at = "applying"
  /\ LET q == worker[w]
         v == lookup[q.lookup].vehicle
     IN /\ vehicle' = [vehicle EXCEPT ![v] =
             [status |-> AfterEnrichment(q.seen, @.status, q.match),
              check |-> IF Authoritative THEN "VERIFIED" ELSE "UNAVAILABLE",
              financier |-> IF q.match = None THEN @.financier ELSE q.match]]
        /\ owner' = [owner EXCEPT ![v] = "REGISTRY"]
        /\ history' = [history EXCEPT ![v] = Opened(v, q.match)]
        /\ lookup' = [lookup EXCEPT ![q.lookup].status = "SUCCEEDED"]
  /\ worker' = [worker EXCEPT ![w] = Idle]
  /\ UNCHANGED <<recent, queue, breaker, counters>>

(* handleLookupFailure: the provider failed, or the transaction did, for   *)
(* instance on the unique index over current ownership records.  The       *)
(* outcome is written from the attempt read at the start.                  *)
Exhausted(attempt, retryable) == ~retryable \/ attempt + 1 > MaxAttempts

Fail(w, retryable) ==
  /\ worker[w].at = "calling" \/ (worker[w].at = "applying" /\ retryable)
  /\ LET l == worker[w].lookup
         done == Exhausted(worker[w].attempt, retryable)
     IN /\ lookup' = [lookup EXCEPT ![l].status = IF done THEN "EXHAUSTED" ELSE "FAILED",
                                    ![l].attempt = worker[w].attempt + 1]
        /\ vehicle' = IF done THEN [vehicle EXCEPT ![lookup[l].vehicle].check = "FAILED"]
                      ELSE vehicle
  /\ breaker' = AfterFailure
  /\ worker' = [worker EXCEPT ![w] = Idle]
  /\ UNCHANGED <<recent, owner, history, queue, counters>>

(* isCircuitOpen after the cooldown: half open, which resets the count.    *)
CoolDown ==
  /\ breaker.open
  /\ breaker' = Closed
  /\ UNCHANGED <<rows, queue, worker, counters>>

(* recordManualVerification, one transaction.                              *)
VerifyByHand(v, f) ==
  /\ byHand < MaxAnswers
  /\ vehicle[v].status # Absent
  /\ vehicle' = [vehicle EXCEPT ![v].check = "MANUALLY_VERIFIED",
                                ![v].financier = IF f = None THEN @ ELSE f]
  /\ owner' = [owner EXCEPT ![v] = "MANUAL"]
  /\ history' = [history EXCEPT ![v] = Opened(v, f)]
  /\ byHand' = byHand + 1
  /\ UNCHANGED <<recent, lookup, queue, worker, breaker, crashes, failures>>

(* The process dies: its workers and its breaker are gone, the rows and    *)
(* the queue stay, and an active job is delivered again.                   *)
Crash ==
  /\ crashes + failures < MaxTroubles
  /\ crashes' = crashes + 1
  /\ worker' = [w \in Workers |-> Idle]
  /\ breaker' = Closed
  /\ UNCHANGED <<rows, queue, failures, byHand>>

------------------------------------------------------------------------------
Yard == \E v \in Vehicles : Sight(v) \/ Admit(v)

People ==
  \/ \E v \in Vehicles, l \in Lookups : RequestByHand(v, l)
  \/ \E v \in Vehicles, f \in Match : VerifyByHand(v, f)

Schedule ==
  \/ \E taken \in SUBSET Candidates : Backfill(taken)
  \/ \E v \in Vehicles : Age(v) \/ Forget(v)
  \/ \E w \in Sweepers, l \in Lookups : Sweep(w, l)
  \/ \E w \in Consumers, v \in Vehicles, id \in JobId : TakeJob(w, v, id)

Work(w) ==
  \/ Ask(w) \/ NoRowLeft(w) \/ Mark(w) \/ JobFails(w)
  \/ PutOff(w) \/ Read(w) \/ Start(w) \/ AnswerNotFound(w) \/ Apply(w)
  \/ \E l \in Lookups : Create(w, l)
  \/ \E m \in Match : AnswerFound(w, m)
  \/ \E retryable \in BOOLEAN : Fail(w, retryable)

Next == Yard \/ People \/ Schedule \/ (\E w \in Workers : Work(w)) \/ CoolDown \/ Crash

Spec == Init /\ [][Next]_vars

(* The schedulers run, a worker goes on with what it has started, and the  *)
(* cooldown ends.  Of the sweeps that find a vehicle without crowding, one *)
(* reaches the queue.  Gates and people owe nothing, nor does the driver   *)
(* owe it to drop a job.                                                   *)
Queues(v) ==
  /\ ~Crowded /\ Backfill(Candidates)
  /\ <<v, "backfill">> \in jobs' \ jobs

FairSpec ==
  /\ Spec
  /\ WF_vars(CoolDown)
  /\ \A v \in Vehicles : SF_vars(Queues(v))
  /\ \A v \in Vehicles, id \in JobId : WF_vars(\E w \in Consumers : TakeJob(w, v, id))
  /\ \A l \in Lookups : SF_vars(\E w \in Sweepers : Sweep(w, l))
  /\ \A w \in Workers : WF_vars(Work(w))

------------------------------------------------------------------------------
(* A vehicle that shows as pending has a lookup that is still to be        *)
(* carried out, whichever of the worker that asked and the sweep that      *)
(* executed it was first (requestEnrichment's conditional update).         *)
PendingHasLookup ==
  \A v \in Vehicles : vehicle[v].check = "PENDING" =>
    \E l \in Lookups : lookup[l].vehicle = v /\ lookup[l].status \notin Settled \cup {Absent}

(* The financier on the vehicle and the open row of its history are one,   *)
(* though a worker and a person may set them at the same time              *)
(* (openFinancierHistory).                                                 *)
HistoryAgrees == \A v \in Vehicles : vehicle[v].financier = history[v]

(* The database, not the queue, says what needs doing: with a provider, a  *)
(* vehicle that was seen is asked about in the end, enqueue lost, job      *)
(* thrown or process crashed, unless a person answers first - as long as   *)
(* it counts as seen lately, the backfill is not crowded and its own job   *)
(* has not been given up (registryBackfill).                               *)
AskedInTheEnd ==
  \A v \in Vehicles :
    (Configured /\ vehicle[v].status # Absent) ~>
      \/ vehicle[v].check # "NOT_REQUESTED" \/ \E l \in Lookups : lookup[l].vehicle = v
      \/ v \notin recent \/ Crowded \/ kept[v] = "failed"

(* Unless the process crashed, a lookup is answered or given up, through   *)
(* failures, an open circuit and a second worker (registryRetrySweep).     *)
LookupSettles ==
  \A l \in Lookups :
    lookup[l].status # Absent ~> (lookup[l].status \in Settled \/ crashes > 0)

(* "A vehicle already PARKED must not be dragged back to FINANCIER_MATCHED *)
(* just because a late registry response arrived"                          *)
(* (pickVehicleStatusAfterEnrichment).                                     *)
NeverDraggedBack ==
  [][\A v \in Vehicles : vehicle[v].status = "PARKED" =>
       vehicle'[v].status \in {"PARKED", "EXITED"}]_vars
===============================================================================
