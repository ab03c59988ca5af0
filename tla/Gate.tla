--------------------------------- MODULE Gate ---------------------------------
(***************************************************************************)
(* From a camera's capture to a vehicle in a bay: the capture webhook and  *)
(* the review queue (modules/anpr), the gate that admits and lets out      *)
(* (modules/parking/gate.service.ts), and the closing of a stay, which     *)
(* frees its bay.                                                          *)
(*                                                                         *)
(* A request is not one transaction.  A capture is looked up, stored, and  *)
(* then handed to the gate, whose transaction commits or rolls back by     *)
(* itself; a review is read, annotated and then handed to the gate.  Each  *)
(* of those steps is an action and a request may die between any two.      *)
(* Inside the gate's transaction the vehicle's row stays locked from       *)
(* resolveOrCreate on and the chosen bay from its SELECT on, while the     *)
(* zones are counted without any lock: that is three actions.              *)
(***************************************************************************)
EXTENDS Lifecycles, Naturals, FiniteSets, FiniteSetsExt

CONSTANTS
  Frames,     \* captures the cameras may send, each possibly more than once
  Plates,     \* registration numbers, and so canonical vehicle rows
  Sites,
  Zones,
  Spaces,     \* parking_spaces rows
  Stays,      \* parking_sessions rows, in use or not yet created
  Clients,    \* HTTP requests being served
  ModeOf,     \* site -> parking mode
  ZoneSite,   \* zone -> its site
  Capacity,   \* zone -> parking_zones.capacity
  Takes,      \* zone -> plates of a class its allowedClasses accept
  SpaceZone,  \* space -> its zone
  None        \* stands for a NULL foreign key

Direction == {"ENTRY", "EXIT"}
Mode == {"REPOSSESSION_YARD", "PUBLIC_PARKING"}

(* A frame: what normalize() makes of the payload, with the window its     *)
(* timestamp falls in; `clear` says that its confidence reaches the        *)
(* threshold and its plate is long enough.                                 *)
FrameType == [id: Nat, plate: Plates, site: Sites, way: Direction, bucket: Nat,
              clear: BOOLEAN]

ASSUME GateAssumption ==
  /\ \A f \in Frames : f.plate \in Plates /\ f.site \in Sites /\ f.way \in Direction
  /\ ModeOf \in [Sites -> Mode] /\ ZoneSite \in [Zones -> Sites]
  /\ \A z \in Zones : Capacity[z] \in Nat \ {0}
  /\ Takes \in [Zones -> SUBSET Plates] /\ SpaceZone \in [Spaces -> Zones]
  /\ None \notin Plates \cup Sites \cup Zones \cup Spaces \cup Stays \cup Frames

ASSUME ClientsAssumption == IsFiniteSet(Clients)   \* a server serves so many at once

VARIABLES
  event,      \* anpr_events: the status of each stored frame
  vehicle,    \* vehicles: status, currentSiteId, currentSessionId
  stay,       \* parking_sessions
  space,      \* parking_spaces.status
  approved,   \* stays with an APPROVED release request
  req         \* what each request in flight has read and is about to do

vars == <<event, vehicle, stay, space, approved, req>>

Absent == "ABSENT"
EventStatus == {Absent, "RECEIVED", "PENDING_REVIEW", "PROCESSED", "REJECTED"}
VehicleRow == [status: VehicleStatus \cup {Absent}, site: Sites \cup {None},
               stay: Stays \cup {None}]
StayRow == [vehicle: Plates \cup {None}, status: SessionStatus \cup {Absent},
            site: Sites \cup {None}, zone: Zones \cup {None}, space: Spaces \cup {None},
            event: Frames \cup {None}, by: {"ANPR_AUTO", "ANPR_REVIEWED"}]
NewVehicle == [status |-> Absent, site |-> None, stay |-> None]
NoStay == [vehicle |-> None, status |-> Absent, site |-> None, zone |-> None,
           space |-> None, event |-> None, by |-> "ANPR_AUTO"]

Idle == [at |-> "idle"]
Request ==
  {Idle}
    \cup [at: {"checked", "reviewing"}, frame: Frames]
    \cup [at: {"gate"}, frame: Frames, plate: Plates, by: {"ANPR_AUTO", "ANPR_REVIEWED"}]
    \cup [at: {"counted", "placed"}, frame: Frames, plate: Plates,
          by: {"ANPR_AUTO", "ANPR_REVIEWED"}, zone: Zones \cup {None},
          space: Spaces \cup {None}]

TypeOK ==
  /\ event \in [Frames -> EventStatus]
  /\ vehicle \in [Plates -> VehicleRow]
  /\ stay \in [Stays -> StayRow]
  /\ space \in [Spaces -> {"AVAILABLE", "OCCUPIED"}]
  /\ approved \subseteq Stays
  /\ req \in [Clients -> Request]

Init ==
  /\ event = [f \in Frames |-> Absent]
  /\ vehicle = [v \in Plates |-> NewVehicle]
  /\ stay = [s \in Stays |-> NoStay]
  /\ space = [p \in Spaces |-> "AVAILABLE"]
  /\ approved = {}
  /\ req = [c \in Clients |-> Idle]

------------------------------------------------------------------------------
(* The capture webhook                                                     *)

(* buildDedupeKey: one key for every frame of one arrival at one device.   *)
DedupeKey(f) == <<f.site, f.plate, f.way, f.bucket>>

Stored(f) == event[f] # Absent
SameArrival(f) == {g \in Frames : Stored(g) /\ DedupeKey(g) = DedupeKey(f)}

(* ingest, up to the insert.  A redelivery of a stored frame is answered   *)
(* with its status.  A frame whose window Redis still holds is answered    *)
(* too, if a stored event explains it; but the key may have expired, been  *)
(* lost or never been set, Redis being down, and then the capture goes on. *)
Receive(c, f) ==
  /\ req[c] = Idle
  /\ ~Stored(f)
  /\ req' = [req EXCEPT ![c] = [at |-> "checked", frame |-> f]]
  /\ UNCHANGED <<event, vehicle, stay, space, approved>>

(* anprEvent.create under its two unique indexes: the loser answers        *)
(* DUPLICATE.  A poor reading waits for a human, a good one goes to the    *)
(* gate.                                                                   *)
Unstored_IdOnly(f) == ~Stored(f)          \* mutant: no unique window key

Unstored(f) == SameArrival(f) = {} /\ ~Stored(f)

Store(c) ==
  /\ req[c].at = "checked"
  /\ LET f == req[c].frame IN
       IF ~Unstored(f)
       THEN req' = [req EXCEPT ![c] = Idle] /\ UNCHANGED event
       ELSE /\ event' = [event EXCEPT ![f] = IF f.clear THEN "RECEIVED" ELSE "PENDING_REVIEW"]
            /\ req' = [req EXCEPT ![c] =
                 IF f.clear
                 THEN [at |-> "gate", frame |-> f, plate |-> f.plate, by |-> "ANPR_AUTO"]
                 ELSE Idle]
  /\ UNCHANGED <<vehicle, stay, space, approved>>

------------------------------------------------------------------------------
(* The review queue                                                        *)

(* resolveReview reads the event outside any transaction ...               *)
BeginReview(c, f) ==
  /\ req[c] = Idle
  /\ event[f] = "PENDING_REVIEW"
  /\ req' = [req EXCEPT ![c] = [at |-> "reviewing", frame |-> f]]
  /\ UNCHANGED <<event, vehicle, stay, space, approved>>

(* ... and writes the rejection without looking again, ...                 *)
Reject(c) ==
  /\ req[c].at = "reviewing"
  /\ event' = [event EXCEPT ![req[c].frame] = "REJECTED"]
  /\ req' = [req EXCEPT ![c] = Idle]
  /\ UNCHANGED <<vehicle, stay, space, approved>>

(* ... or notes the plate the operator read, which leaves the event's      *)
(* status alone, and calls the gate with it.                               *)
ConfirmPlate(c, v) ==
  /\ req[c].at = "reviewing"
  /\ req' = [req EXCEPT ![c] = [at |-> "gate", frame |-> req[c].frame, plate |-> v,
                                by |-> "ANPR_REVIEWED"]]
  /\ UNCHANGED <<event, vehicle, stay, space, approved>>

------------------------------------------------------------------------------
(* The gate                                                                *)

ActiveStays(v) == {s \in Stays : stay[s].vehicle = v /\ stay[s].status \in ActiveSession}
InZone(z) == {s \in Stays : stay[s].zone = z /\ stay[s].status \in ActiveSession}

(* The row locks of the other transactions. *)
InGate(c) == req[c].at \in {"counted", "placed"}
VehicleFree(c, v) == \A d \in Clients \ {c} : InGate(d) => req[d].plate # v
SpaceFree(c, p) == \A d \in Clients \ {c} : req[d].at = "placed" => req[d].space # p

(* VehicleService.resolveOrCreate: the row as it is after the call.  The   *)
(* class of a vehicle is folded into Takes.                                *)
Resolved(v, at) ==
  [vehicle[v] EXCEPT !.status = IF @ = Absent THEN "CAPTURED" ELSE @,
                     !.site = IF at = None THEN @ ELSE at]

(* entryPathTo: from these statuses the vehicle is walked to PARKED.       *)
Admissible ==
  {Absent, "CAPTURED", "IDENTIFIED", "VAHAN_PENDING", "VAHAN_VERIFIED", "VAHAN_FAILED",
   "FINANCIER_MATCHED", "YARD_ADMITTED", "EXITED", "PARKED"}

(* handleEntry, a vehicle that is already inside: nothing but the sighting *)
(* is written, not even the event.                                         *)
AlreadyOnSite(c) ==
  /\ req[c].at = "gate" /\ req[c].frame.way = "ENTRY"
  /\ VehicleFree(c, req[c].plate)
  /\ ActiveStays(req[c].plate) # {}
  /\ vehicle' = [vehicle EXCEPT ![req[c].plate] = Resolved(req[c].plate, req[c].frame.site)]
  /\ req' = [req EXCEPT ![c] = Idle]
  /\ UNCHANGED <<event, stay, space, approved>>

(* allocateSpace: the zones that take the vehicle and are not full as      *)
(* counted now, and of those the emptiest by share of their capacity.      *)
HasRoom_OffByOne(z) == Cardinality(InZone(z)) <= Capacity[z]   \* mutant

HasRoom(z) == Cardinality(InZone(z)) < Capacity[z]

Eligible(site, v) == {z \in Zones : ZoneSite[z] = site /\ v \in Takes[z] /\ HasRoom(z)}

Emptier(y, z) == Cardinality(InZone(y)) * Capacity[z] < Cardinality(InZone(z)) * Capacity[y]
Emptiest(zs) == {z \in zs : \A y \in zs : ~Emptier(y, z)}

ChooseZone(c) ==
  /\ req[c].at = "gate" /\ req[c].frame.way = "ENTRY"
  /\ VehicleFree(c, req[c].plate)
  /\ ActiveStays(req[c].plate) = {}
  /\ vehicle[req[c].plate].status \in Admissible
  /\ LET zs == Eligible(req[c].frame.site, req[c].plate) IN
       \E z \in IF zs = {} THEN {None} ELSE Emptiest(zs) :
         req' = [req EXCEPT ![c] = [at |-> "counted", frame |-> req[c].frame,
                                    plate |-> req[c].plate, by |-> req[c].by,
                                    zone |-> z, space |-> None]]
  /\ UNCHANGED <<event, vehicle, stay, space, approved>>

(* The bay: one that is free and that no other admission has locked, if    *)
(* there is one; the order of the bays' codes is abstracted.               *)
FreeSpaces(c, z) ==
  {p \in Spaces : SpaceZone[p] = z /\ space[p] = "AVAILABLE" /\ SpaceFree(c, p)}

ChooseSpace(c) ==
  /\ req[c].at = "counted"
  /\ LET ps == IF req[c].zone = None THEN {} ELSE FreeSpaces(c, req[c].zone) IN
       \E p \in IF ps = {} THEN {None} ELSE ps :
         req' = [req EXCEPT ![c].at = "placed", ![c].space = p]
  /\ UNCHANGED <<event, vehicle, stay, space, approved>>

(* The writes of handleEntry and its commit.  The partial unique indexes   *)
(* allow one active stay for a vehicle and one for a bay; a transaction    *)
(* that breaks one rolls back.                                             *)
IndexesAllow(v, p) ==
  /\ ActiveStays(v) = {}
  /\ p = None \/ \A s \in Stays : stay[s].space = p => stay[s].status \notin ActiveSession

Admit(c, s) ==
  /\ req[c].at = "placed"
  /\ stay[s].status = Absent
  /\ IndexesAllow(req[c].plate, req[c].space)
  /\ LET q == req[c] IN
       /\ stay' = [stay EXCEPT ![s] =
            [vehicle |-> q.plate, status |-> "OPEN", site |-> q.frame.site,
             zone |-> q.zone, space |-> q.space, event |-> q.frame, by |-> q.by]]
       /\ space' = IF q.space = None THEN space ELSE [space EXCEPT ![q.space] = "OCCUPIED"]
       /\ vehicle' = [vehicle EXCEPT ![q.plate] =
            [status |-> "PARKED", site |-> q.frame.site, stay |-> s]]
       /\ event' = [event EXCEPT ![q.frame] = "PROCESSED"]
  /\ req' = [req EXCEPT ![c] = Idle]
  /\ UNCHANGED approved

(* handleExit: one short transaction.  A plate never seen before is given  *)
(* a row.  In a repossession yard the stay is left alone, approved or not; *)
(* in public parking it now waits for its charge to be settled.            *)
Exit(c) ==
  /\ req[c].at = "gate" /\ req[c].frame.way = "EXIT"
  /\ VehicleFree(c, req[c].plate)
  /\ LET here == {s \in ActiveStays(req[c].plate) : stay[s].site = req[c].frame.site}
     IN stay' = [s \in Stays |->
                   IF s \in here /\ ModeOf[stay[s].site] = "PUBLIC_PARKING"
                   THEN [stay[s] EXCEPT !.status = "PENDING_EXIT"] ELSE stay[s]]
  /\ vehicle' = [vehicle EXCEPT ![req[c].plate] = Resolved(req[c].plate, None)]
  /\ event' = [event EXCEPT ![req[c].frame] = "PROCESSED"]
  /\ req' = [req EXCEPT ![c] = Idle]
  /\ UNCHANGED <<space, approved>>

(* The request dies or its transaction rolls back: whatever it had         *)
(* committed before stays.  So does the second of two inserts of one new   *)
(* plate, whose transaction PostgreSQL has aborted.                        *)
Die(c) ==
  /\ req[c] # Idle
  /\ req' = [req EXCEPT ![c] = Idle]
  /\ UNCHANGED <<event, vehicle, stay, space, approved>>

------------------------------------------------------------------------------
(* The end of a stay                                                       *)

(* ReleaseService.decide, as far as the exit camera looks.                 *)
ApproveRelease(s) ==
  /\ stay[s].status \in ActiveSession
  /\ approved' = approved \cup {s}
  /\ UNCHANGED <<event, vehicle, stay, space, req>>

CloseSession_KeepsBay(s) ==       \* mutant: the bay is not given back
  /\ s \in approved
  /\ SessionMay(stay[s].status, "CLOSED")
  /\ stay' = [stay EXCEPT ![s].status = "CLOSED"]
  /\ vehicle' = [vehicle EXCEPT ![stay[s].vehicle] =
                   [status |-> "EXITED", site |-> None, stay |-> None]]
  /\ UNCHANGED <<event, space, approved, req>>

CloseSession_KeepsPointer(s) ==   \* mutant: the vehicle still names the stay
  /\ s \in approved
  /\ SessionMay(stay[s].status, "CLOSED")
  /\ stay' = [stay EXCEPT ![s].status = "CLOSED"]
  /\ space' = IF stay[s].space = None THEN space
              ELSE [space EXCEPT ![stay[s].space] = "AVAILABLE"]
  /\ vehicle' = [vehicle EXCEPT ![stay[s].vehicle].status = "EXITED"]
  /\ UNCHANGED <<event, approved, req>>

(* ParkingSessionService.closeSession, called by completeRelease, which    *)
(* then moves the vehicle to EXITED.                                       *)
CloseSession(s) ==
  /\ s \in approved
  /\ SessionMay(stay[s].status, "CLOSED")
  /\ stay' = [stay EXCEPT ![s].status = "CLOSED"]
  /\ space' = IF stay[s].space = None THEN space
              ELSE [space EXCEPT ![stay[s].space] = "AVAILABLE"]
  /\ vehicle' = [vehicle EXCEPT ![stay[s].vehicle] =
                   [status |-> "EXITED", site |-> None, stay |-> None]]
  /\ UNCHANGED <<event, approved, req>>

------------------------------------------------------------------------------
Ingestion ==
  \/ \E c \in Clients, f \in Frames : Receive(c, f)
  \/ \E c \in Clients : Store(c)

Review ==
  \/ \E c \in Clients, f \in Frames : BeginReview(c, f)
  \/ \E c \in Clients : Reject(c)
  \/ \E c \in Clients, v \in Plates : ConfirmPlate(c, v)

Barrier ==
  \/ \E c \in Clients : AlreadyOnSite(c) \/ ChooseZone(c) \/ ChooseSpace(c) \/ Exit(c)
  \/ \E c \in Clients, s \in Stays : Admit(c, s)
  \/ \E c \in Clients : Die(c)

Departure == \E s \in Stays : ApproveRelease(s) \/ CloseSession(s)

Next == Ingestion \/ Review \/ Barrier \/ Departure

Spec == Init /\ [][Next]_vars

------------------------------------------------------------------------------
(* A bay is marked occupied exactly while one active stay is in it: no two *)
(* gates take one bay, and no bay is lost when a stay ends                 *)
(* (allocateSpace's FOR UPDATE SKIP LOCKED, closeSession).                 *)
BayHeldByItsStay ==
  \A p \in Spaces :
    LET holders == {s \in Stays : stay[s].space = p /\ stay[s].status \in ActiveSession}
    IN Cardinality(holders) = IF space[p] = "OCCUPIED" THEN 1 ELSE 0

(* A vehicle's row names the one stay it is on, and none when it is away,  *)
(* whatever the cameras send and in whatever order (handleEntry,           *)
(* closeSession).                                                          *)
VehicleKnowsItsStay ==
  \A v \in Plates :
    ActiveStays(v) = IF vehicle[v].stay = None THEN {} ELSE {vehicle[v].stay}

(* The zones are counted without a lock, so admissions at several gates    *)
(* may overfill one, but never by more than the other requests in flight   *)
(* (allocateSpace).                                                        *)
OverfullByRaceOnly ==
  \A z \in Zones : Cardinality(InZone(z)) < Capacity[z] + Cardinality(Clients)

(* However many frames of one arrival are sent, resent or raced past       *)
(* Redis, the gate opens at most one stay for them by itself (ingest).     *)
OneStayPerArrival ==
  \A s, t \in Stays :
    /\ {s, t} \cap {u \in Stays : stay[u].event = None \/ stay[u].by # "ANPR_AUTO"} = {}
    /\ DedupeKey(stay[s].event) = DedupeKey(stay[t].event)
    => s = t

===============================================================================
