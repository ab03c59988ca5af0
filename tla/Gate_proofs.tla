------------------------------ MODULE Gate_proofs -----------------------------
(***************************************************************************)
(* Theorems about Gate, for every set of frames, plates, sites, zones,     *)
(* bays and stays, and however many requests are served at once.           *)
(***************************************************************************)
EXTENDS Gate, FiniteSetTheorems, TLAPS

By == {"ANPR_AUTO", "ANPR_REVIEWED"}

(* A request that works on a stored frame; one that the camera alone sent  *)
(* to the gate; a stay that it opened.                                     *)
Bound(q) == q.at \in {"reviewing", "gate", "counted", "placed"}
Self(q) == q.at \in {"gate", "counted", "placed"} /\ q.by = "ANPR_AUTO"
SelfOpened(s) == stay[s].event # None /\ stay[s].by = "ANPR_AUTO"

(* A stay is of a vehicle and of the frame that opened it, and whoever is  *)
(* past the webhook's insert works on a stored frame.                      *)
Refs ==
  /\ \A s \in Stays : stay[s].status # Absent => stay[s].vehicle \in Plates /\ stay[s].event \in Frames
  /\ \A c \in Clients : Bound(req[c]) => Stored(req[c].frame)

Sound == TypeOK /\ Refs

RowsTyped ==
  /\ event \in [Frames -> EventStatus] /\ vehicle \in [Plates -> VehicleRow]
  /\ stay \in [Stays -> StayRow] /\ space \in [Spaces -> {"AVAILABLE", "OCCUPIED"}]
  /\ approved \subseteq Stays

LEMMA Types ==
  ASSUME TypeOK
  PROVE  /\ RowsTyped /\ req \in [Clients -> Request]
         /\ \A f \in Frames : event[f] \in EventStatus
         /\ \A v \in Plates : vehicle[v] \in VehicleRow
         /\ \A s \in Stays : stay[s] \in StayRow
         /\ \A c \in Clients : req[c] \in Request
         /\ \A f \in Frames : f.plate \in Plates /\ f.site \in Sites
         /\ None \notin Plates \cup Sites \cup Zones \cup Spaces \cup Stays \cup Frames
  BY GateAssumption DEF TypeOK, RowsTyped

(* What a request holds, by where it is. *)
LEMMA Requests ==
  ASSUME NEW q \in Request
  PROVE  /\ q.at \in {"idle", "checked", "reviewing", "gate", "counted", "placed"}
         /\ q.at = "idle" <=> q = Idle
         /\ q.at # "idle" => q.frame \in Frames
         /\ q.at \in {"gate", "counted", "placed"} => q.plate \in Plates /\ q.by \in By
         /\ q.at \in {"counted", "placed"} => q.zone \in Zones \cup {None} /\ q.space \in Spaces \cup {None}
  BY DEF Request, Idle, By

LEMMA MadeRequests ==
  /\ Idle \in Request /\ Idle.at = "idle"
  /\ \A f \in Frames : LET q == [at |-> "checked", frame |-> f]
                           r == [at |-> "reviewing", frame |-> f] IN q \in Request /\ r \in Request
  /\ \A f \in Frames, v \in Plates, b \in By :
       LET q == [at |-> "gate", frame |-> f, plate |-> v, by |-> b] IN q \in Request
  /\ \A f \in Frames, v \in Plates, b \in By, z \in Zones \cup {None}, p \in Spaces \cup {None} :
       LET q == [at |-> "counted", frame |-> f, plate |-> v, by |-> b, zone |-> z, space |-> p]
           r == [at |-> "placed", frame |-> f, plate |-> v, by |-> b, zone |-> z, space |-> p]
       IN  q \in Request /\ r \in Request
  BY DEF Request, Idle, By

(* The bay is chosen: nothing else of the request changes. *)
LEMMA PlacedRequest ==
  ASSUME NEW q \in Request, q.at = "counted", NEW p \in Spaces \cup {None}
  PROVE  /\ [q EXCEPT !.at = "placed", !.space = p] \in Request
         /\ [q EXCEPT !.at = "placed", !.space = p].at = "placed"
         /\ [q EXCEPT !.at = "placed", !.space = p].space = p
         /\ [q EXCEPT !.at = "placed", !.space = p].frame = q.frame
         /\ [q EXCEPT !.at = "placed", !.space = p].plate = q.plate
         /\ [q EXCEPT !.at = "placed", !.space = p].by = q.by
         /\ [q EXCEPT !.at = "placed", !.space = p].zone = q.zone
<1>1. q \in [at: {"counted", "placed"}, frame: Frames, plate: Plates, by: By,
             zone: Zones \cup {None}, space: Spaces \cup {None}]
  BY DEF Request, Idle, By
<1>2. [q EXCEPT !.at = "placed", !.space = p] \in
        [at: {"counted", "placed"}, frame: Frames, plate: Plates, by: By,
         zone: Zones \cup {None}, space: Spaces \cup {None}]
  BY <1>1
<1> QED BY <1>1, <1>2 DEF Request, By

(* resolveOrCreate touches neither the stay nor the other vehicles. *)
LEMMA ResolvedRow ==
  ASSUME TypeOK, NEW v \in Plates, NEW at \in Sites \cup {None}
  PROVE  Resolved(v, at) \in VehicleRow /\ Resolved(v, at).stay = vehicle[v].stay
<1>1. PICK r \in VehicleRow : r = vehicle[v]
  BY Types
<1>2. r \in [status: VehicleStatus \cup {Absent}, site: Sites \cup {None}, stay: Stays \cup {None}]
  BY DEF VehicleRow
<1>3. "CAPTURED" \in VehicleStatus
  BY DEF VehicleStatus
<1> DEFINE row == [r EXCEPT !.status = IF @ = Absent THEN "CAPTURED" ELSE @,
                            !.site = IF at = None THEN @ ELSE at]
<1>4. row \in VehicleRow /\ row.stay = r.stay
  BY <1>2, <1>3 DEF VehicleRow
<1> QED BY <1>1, <1>4 DEF Resolved

------------------------------------------------------------------------------
(* What the writing steps do to the rows                                   *)

LEMMA AdmitRows ==
  ASSUME TypeOK, NEW c \in Clients, NEW s \in Stays, Admit(c, s)
  PROVE  \E f \in Frames, v \in Plates, z \in Zones \cup {None}, p \in Spaces \cup {None}, b \in By :
           /\ req[c].at = "placed" /\ f = req[c].frame /\ v = req[c].plate /\ z = req[c].zone
           /\ p = req[c].space /\ b = req[c].by
           /\ stay[s].status = Absent /\ IndexesAllow(v, p)
           /\ stay' \in [Stays -> StayRow]
           /\ stay'[s].vehicle = v /\ stay'[s].status = "OPEN" /\ stay'[s].zone = z
           /\ stay'[s].space = p /\ stay'[s].event = f /\ stay'[s].by = b
           /\ \A t \in Stays : t # s => stay'[t] = stay[t]
           /\ space' \in [Spaces -> {"AVAILABLE", "OCCUPIED"}]
           /\ \A x \in Spaces : space'[x] = IF x = p THEN "OCCUPIED" ELSE space[x]
           /\ vehicle' \in [Plates -> VehicleRow] /\ vehicle'[v].stay = s
           /\ \A w \in Plates : w # v => vehicle'[w] = vehicle[w]
           /\ event' \in [Frames -> EventStatus] /\ event'[f] = "PROCESSED"
           /\ \A g \in Frames : g # f => event'[g] = event[g]
           /\ req' = [req EXCEPT ![c] = Idle] /\ approved' = approved
<1>1. PICK q \in Request : q = req[c]
  BY Types
<1>2. PICK f \in Frames, v \in Plates, z \in Zones \cup {None}, p \in Spaces \cup {None}, b \in By :
        q.at = "placed" /\ f = q.frame /\ v = q.plate /\ z = q.zone /\ p = q.space /\ b = q.by
  BY <1>1, Requests DEF Admit
<1>3. PICK at \in Sites : at = f.site
  BY Types
<1> DEFINE row == [vehicle |-> v, status |-> "OPEN", site |-> at, zone |-> z, space |-> p,
                   event |-> f, by |-> b]
           car == [status |-> "PARKED", site |-> at, stay |-> s]
<1>4. row \in StayRow /\ car \in VehicleRow /\ car.stay = s
      /\ row.vehicle = v /\ row.status = "OPEN" /\ row.zone = z /\ row.space = p /\ row.event = f /\ row.by = b
  BY Types DEF StayRow, VehicleRow, SessionStatus, VehicleStatus, By
<1>5. /\ stay[s].status = Absent /\ IndexesAllow(v, p)
      /\ stay' = [stay EXCEPT ![s] = row]
      /\ space' = IF p = None THEN space ELSE [space EXCEPT ![p] = "OCCUPIED"]
      /\ vehicle' = [vehicle EXCEPT ![v] = car]
      /\ event' = [event EXCEPT ![f] = "PROCESSED"]
      /\ req' = [req EXCEPT ![c] = Idle] /\ approved' = approved
  BY <1>1, <1>2, <1>3 DEF Admit
<1> HIDE DEF row, car
<1>6. stay' \in [Stays -> StayRow] /\ stay'[s] = row /\ \A t \in Stays : t # s => stay'[t] = stay[t]
  BY <1>4, <1>5, Types DEF RowsTyped
<1>7. vehicle' \in [Plates -> VehicleRow] /\ vehicle'[v] = car
      /\ \A w \in Plates : w # v => vehicle'[w] = vehicle[w]
  BY <1>4, <1>5, Types DEF RowsTyped
<1>8. /\ space' \in [Spaces -> {"AVAILABLE", "OCCUPIED"}]
      /\ \A x \in Spaces : space'[x] = IF x = p THEN "OCCUPIED" ELSE space[x]
  BY <1>5, Types DEF RowsTyped
<1>9. event' \in [Frames -> EventStatus] /\ event'[f] = "PROCESSED"
      /\ \A g \in Frames : g # f => event'[g] = event[g]
  BY <1>5, Types DEF RowsTyped, EventStatus
<1> QED BY <1>1, <1>2, <1>4, <1>5, <1>6, <1>7, <1>8, <1>9

LEMMA ExitRows ==
  ASSUME TypeOK, NEW c \in Clients, Exit(c)
  PROVE  \E f \in Frames, v \in Plates :
           /\ req[c].at = "gate" /\ f = req[c].frame /\ v = req[c].plate
           /\ stay' \in [Stays -> StayRow]
           /\ \A s \in Stays : /\ stay'[s].vehicle = stay[s].vehicle /\ stay'[s].zone = stay[s].zone
                               /\ stay'[s].space = stay[s].space /\ stay'[s].event = stay[s].event
                               /\ stay'[s].by = stay[s].by
                               /\ stay'[s].status = Absent <=> stay[s].status = Absent
                               /\ stay'[s].status \in ActiveSession <=> stay[s].status \in ActiveSession
           /\ vehicle' \in [Plates -> VehicleRow]
           /\ \A w \in Plates : vehicle'[w].stay = vehicle[w].stay
           /\ event' \in [Frames -> EventStatus] /\ event'[f] = "PROCESSED"
           /\ \A g \in Frames : g # f => event'[g] = event[g]
           /\ req' = [req EXCEPT ![c] = Idle] /\ UNCHANGED <<space, approved>>
<1>1. PICK q \in Request : q = req[c]
  BY Types
<1>2. PICK f \in Frames, v \in Plates : q.at = "gate" /\ f = q.frame /\ v = q.plate
  BY <1>1, Requests DEF Exit
<1> DEFINE here == {s \in ActiveStays(v) : stay[s].site = f.site}
<1>3. /\ stay' = [s \in Stays |-> IF s \in here /\ ModeOf[stay[s].site] = "PUBLIC_PARKING"
                                  THEN [stay[s] EXCEPT !.status = "PENDING_EXIT"] ELSE stay[s]]
      /\ vehicle' = [vehicle EXCEPT ![v] = Resolved(v, None)]
      /\ event' = [event EXCEPT ![f] = "PROCESSED"]
      /\ req' = [req EXCEPT ![c] = Idle] /\ UNCHANGED <<space, approved>>
  BY <1>1, <1>2 DEF Exit
<1>4. ASSUME NEW s \in Stays
      PROVE  /\ stay'[s] \in StayRow
             /\ stay'[s].vehicle = stay[s].vehicle /\ stay'[s].zone = stay[s].zone
             /\ stay'[s].space = stay[s].space /\ stay'[s].event = stay[s].event
             /\ stay'[s].by = stay[s].by
             /\ stay'[s].status = Absent <=> stay[s].status = Absent
             /\ stay'[s].status \in ActiveSession <=> stay[s].status \in ActiveSession
  <2>1. PICK r \in StayRow : r = stay[s]
    BY Types
  <2>2. [r EXCEPT !.status = "PENDING_EXIT"] \in StayRow
    BY DEF StayRow, SessionStatus
  <2>3. s \in here => r.status \in ActiveSession
    BY <2>1 DEF ActiveStays
  <2>4. CASE s \in here /\ ModeOf[stay[s].site] = "PUBLIC_PARKING"
    <3>1. stay'[s] = [r EXCEPT !.status = "PENDING_EXIT"]
      BY <1>3, <2>1, <2>4
    <3>2. r.status \in ActiveSession
      BY <2>3, <2>4
    <3> HIDE DEF here
    <3> QED BY <2>1, <2>2, <3>1, <3>2 DEF StayRow, ActiveSession, Absent
  <2>5. CASE ~(s \in here /\ ModeOf[stay[s].site] = "PUBLIC_PARKING")
    <3>1. stay'[s] = r
      BY <1>3, <2>1, <2>5
    <3> QED BY <2>1, <3>1
  <2> QED BY <2>4, <2>5
<1>5. stay' \in [Stays -> StayRow]
  <2> HIDE DEF here
  <2> QED BY <1>3, <1>4
<1>6. vehicle' \in [Plates -> VehicleRow] /\ \A w \in Plates : vehicle'[w].stay = vehicle[w].stay
  BY <1>3, ResolvedRow, Types DEF RowsTyped
<1>7. event' \in [Frames -> EventStatus] /\ event'[f] = "PROCESSED"
      /\ \A g \in Frames : g # f => event'[g] = event[g]
  BY <1>3, Types DEF RowsTyped, EventStatus
<1> HIDE DEF here
<1> QED BY <1>1, <1>2, <1>3, <1>4, <1>5, <1>6, <1>7

LEMMA CloseRows ==
  ASSUME TypeOK, Refs, NEW s \in Stays, CloseSession(s)
  PROVE  \E v \in Plates, p \in Spaces \cup {None} :
           /\ v = stay[s].vehicle /\ p = stay[s].space /\ stay[s].status \in ActiveSession
           /\ stay' \in [Stays -> StayRow]
           /\ stay'[s].status = "CLOSED"
           /\ stay'[s].vehicle = v /\ stay'[s].zone = stay[s].zone
           /\ stay'[s].space = p /\ stay'[s].event = stay[s].event /\ stay'[s].by = stay[s].by
           /\ \A t \in Stays : t # s => stay'[t] = stay[t]
           /\ space' \in [Spaces -> {"AVAILABLE", "OCCUPIED"}]
           /\ \A x \in Spaces : space'[x] = IF x = p THEN "AVAILABLE" ELSE space[x]
           /\ vehicle' \in [Plates -> VehicleRow] /\ vehicle'[v].stay = None
           /\ \A w \in Plates : w # v => vehicle'[w] = vehicle[w]
           /\ UNCHANGED <<event, approved, req>>
<1>1. stay[s].status \in ActiveSession
  BY DEF CloseSession, SessionMay, ActiveSession
<1>2. PICK r \in StayRow : r = stay[s]
  BY Types
<1>3. PICK v \in Plates, p \in Spaces \cup {None} : v = r.vehicle /\ p = r.space
  BY <1>1, <1>2 DEF Refs, ActiveSession, Absent, StayRow
<1> DEFINE row == [r EXCEPT !.status = "CLOSED"]
           car == [status |-> "EXITED", site |-> None, stay |-> None]
<1>4. /\ row \in StayRow /\ row.status = "CLOSED" /\ row.vehicle = v /\ row.zone = r.zone
      /\ row.space = p /\ row.event = r.event /\ row.by = r.by
      /\ car \in VehicleRow /\ car.stay = None
  BY <1>3 DEF StayRow, VehicleRow, SessionStatus, VehicleStatus
<1>5. /\ stay' = [stay EXCEPT ![s] = row]
      /\ space' = IF p = None THEN space ELSE [space EXCEPT ![p] = "AVAILABLE"]
      /\ vehicle' = [vehicle EXCEPT ![v] = car]
      /\ UNCHANGED <<event, approved, req>>
  BY <1>2, <1>3, Types DEF CloseSession, RowsTyped
<1> HIDE DEF row, car
<1>6. stay' \in [Stays -> StayRow] /\ stay'[s] = row /\ \A t \in Stays : t # s => stay'[t] = stay[t]
  BY <1>4, <1>5, Types DEF RowsTyped
<1>7. vehicle' \in [Plates -> VehicleRow] /\ vehicle'[v] = car
      /\ \A w \in Plates : w # v => vehicle'[w] = vehicle[w]
  BY <1>4, <1>5, Types DEF RowsTyped
<1>8. /\ space' \in [Spaces -> {"AVAILABLE", "OCCUPIED"}]
      /\ \A x \in Spaces : space'[x] = IF x = p THEN "AVAILABLE" ELSE space[x]
  BY <1>5, Types DEF RowsTyped
<1> QED BY <1>1, <1>2, <1>3, <1>4, <1>5, <1>6, <1>7, <1>8

------------------------------------------------------------------------------
(* One step of a request                                                   *)

StaysKept ==
  \A s \in Stays : stay'[s].status # Absent => stay'[s].vehicle \in Plates /\ stay'[s].event \in Frames

(* The request goes on with q.  Only frames that no other explains are     *)
(* stored, and the camera's errand to the gate is as it was, or that of a  *)
(* frame just stored.                                                      *)
Goes(c, q) ==
  /\ RowsTyped' /\ StaysKept /\ req' = [req EXCEPT ![c] = q]
  /\ \A f \in Frames : /\ Stored(f) => event'[f] # Absent
                       /\ event'[f] # Absent /\ ~Stored(f) => Unstored(f) /\ f = req[c].frame
  /\ Bound(q) => event'[q.frame] # Absent
  /\ Self(q) => /\ stay' = stay
                /\ ~Stored(q.frame) \/ (Self(req[c]) /\ q.frame = req[c].frame)

(* A step that writes no row. *)
LEMMA QuietStep ==
  ASSUME Sound, NEW c \in Clients, NEW q \in Request, req' = [req EXCEPT ![c] = q],
         UNCHANGED <<event, vehicle, stay, space, approved>>,
         Bound(q) => Stored(q.frame),
         Self(q) => Self(req[c]) /\ q.frame = req[c].frame
  PROVE  \E d \in Clients, r \in Request : Goes(d, r)
<1>1. RowsTyped
  BY Types DEF Sound
<1>2. RowsTyped' /\ StaysKept
  BY <1>1 DEF RowsTyped, StaysKept, Sound, Refs
<1>3. Goes(c, q)
  BY <1>2 DEF Goes, Stored
<1> QED BY <1>3

(* A step that ends the request and writes a frame that is stored. *)
LEMMA LastStep ==
  ASSUME Sound, NEW c \in Clients, NEW f \in Frames, Stored(f), RowsTyped', StaysKept,
         req' = [req EXCEPT ![c] = Idle], event'[f] # Absent,
         \A g \in Frames : g # f => event'[g] = event[g]
  PROVE  \E d \in Clients, q \in Request : Goes(d, q)
<1>1. \A g \in Frames : event'[g] # Absent <=> Stored(g) \/ g = f
  BY DEF Stored
<1>2. ~Bound(Idle) /\ ~Self(Idle)
  BY DEF Bound, Self, Idle
<1>3. Goes(c, Idle)
  BY <1>1, <1>2 DEF Goes
<1> QED BY <1>3, MadeRequests

LEMMA EveryStep ==
  ASSUME Sound, Ingestion \/ Review \/ Barrier
  PROVE  \E d \in Clients, r \in Request : Goes(d, r)
<1>0. TypeOK /\ RowsTyped
  BY Types DEF Sound
<1>1. ASSUME NEW c \in Clients, NEW f \in Frames, Receive(c, f)
      PROVE  \E d \in Clients, r \in Request : Goes(d, r)
  <2>1. PICK q \in Request : q = [at |-> "checked", frame |-> f]
    BY MadeRequests
  <2>2. ~Bound(q) /\ ~Self(q)
    BY <2>1 DEF Bound, Self
  <2> QED BY <1>1, <2>1, <2>2, QuietStep DEF Receive
<1>2. ASSUME NEW c \in Clients, Store(c)
      PROVE  \E d \in Clients, r \in Request : Goes(d, r)
  <2>1. PICK f \in Frames : f = req[c].frame
    BY <1>0, <1>2, Requests, Types DEF Store
  <2>2. CASE ~Unstored(f)
    <3>1. req' = [req EXCEPT ![c] = Idle] /\ UNCHANGED <<event, vehicle, stay, space, approved>>
      BY <1>2, <2>1, <2>2 DEF Store
    <3>2. ~Bound(Idle) /\ ~Self(Idle) /\ Idle \in Request
      BY MadeRequests DEF Bound, Self
    <3> QED BY <3>1, <3>2, QuietStep
  <2>3. CASE Unstored(f)
    <3>1. PICK e \in EventStatus : /\ e = (IF f.clear THEN "RECEIVED" ELSE "PENDING_REVIEW")
                                   /\ e # Absent
      BY DEF EventStatus, Absent
    <3>2. PICK v \in Plates : v = f.plate
      BY <1>0, Types
    <3>3. PICK q \in Request :
            q = IF f.clear THEN [at |-> "gate", frame |-> f, plate |-> v, by |-> "ANPR_AUTO"]
                ELSE Idle
      BY MadeRequests DEF By
    <3>4. event' = [event EXCEPT ![f] = e] /\ req' = [req EXCEPT ![c] = q]
          /\ UNCHANGED <<vehicle, stay, space, approved>>
      BY <1>2, <2>1, <2>3, <3>1, <3>2, <3>3 DEF Store
    <3>5. Bound(q) \/ Self(q) => q.frame = f
      BY <3>3 DEF Bound, Self, Idle
    <3>6. \A g \in Frames : event'[g] = IF g = f THEN e ELSE event[g]
      BY <1>0, <3>4 DEF RowsTyped
    <3>7. ~Stored(f)
      BY <2>3 DEF Unstored
    <3>8. RowsTyped' /\ StaysKept
      BY <1>0, <3>4 DEF RowsTyped, StaysKept, Sound, Refs
    <3>9. Goes(c, q)
      BY <2>1, <2>3, <3>1, <3>4, <3>5, <3>6, <3>7, <3>8 DEF Goes, Stored
    <3> QED BY <3>9
  <2> QED BY <2>2, <2>3
<1>3. ASSUME NEW c \in Clients, NEW f \in Frames, BeginReview(c, f)
      PROVE  \E d \in Clients, r \in Request : Goes(d, r)
  <2>1. PICK q \in Request : q = [at |-> "reviewing", frame |-> f]
    BY MadeRequests
  <2>2. Stored(f) /\ ~Self(q) /\ q.frame = f
    BY <1>3, <2>1 DEF BeginReview, Stored, Absent, Self
  <2> QED BY <1>3, <2>1, <2>2, QuietStep DEF BeginReview
<1>4. ASSUME NEW c \in Clients, Reject(c)
      PROVE  \E d \in Clients, r \in Request : Goes(d, r)
  <2>1. PICK f \in Frames : f = req[c].frame
    BY <1>0, <1>4, Requests, Types DEF Reject
  <2>2. Stored(f)
    BY <1>4, <2>1 DEF Reject, Sound, Refs, Bound
  <2>3. event' = [event EXCEPT ![f] = "REJECTED"] /\ req' = [req EXCEPT ![c] = Idle]
        /\ UNCHANGED <<vehicle, stay, space, approved>>
    BY <1>4, <2>1 DEF Reject
  <2>4. event' \in [Frames -> EventStatus] /\ event'[f] # Absent
        /\ \A g \in Frames : g # f => event'[g] = event[g]
    BY <1>0, <2>3 DEF RowsTyped, EventStatus, Absent
  <2>5. RowsTyped' /\ StaysKept
    BY <1>0, <2>3, <2>4 DEF RowsTyped, StaysKept, Sound, Refs
  <2> QED BY <2>2, <2>3, <2>4, <2>5, LastStep
<1>5. ASSUME NEW c \in Clients, NEW v \in Plates, ConfirmPlate(c, v)
      PROVE  \E d \in Clients, r \in Request : Goes(d, r)
  <2>1. PICK f \in Frames : f = req[c].frame
    BY <1>0, <1>5, Requests, Types DEF ConfirmPlate
  <2>2. PICK q \in Request : q = [at |-> "gate", frame |-> f, plate |-> v, by |-> "ANPR_REVIEWED"]
    BY MadeRequests DEF By
  <2>3. Stored(f) /\ ~Self(q) /\ q.frame = f
    BY <1>5, <2>1, <2>2 DEF ConfirmPlate, Sound, Refs, Bound, Self
  <2> QED BY <1>5, <2>1, <2>2, <2>3, QuietStep DEF ConfirmPlate
<1>6. ASSUME NEW c \in Clients, AlreadyOnSite(c)
      PROVE  \E d \in Clients, r \in Request : Goes(d, r)
  <2>1. PICK f \in Frames, v \in Plates : f = req[c].frame /\ v = req[c].plate
    BY <1>0, <1>6, Requests, Types DEF AlreadyOnSite
  <2>2. PICK at \in Sites : at = f.site
    BY <1>0, Types
  <2>3. vehicle' = [vehicle EXCEPT ![v] = Resolved(v, at)] /\ req' = [req EXCEPT ![c] = Idle]
        /\ UNCHANGED <<event, stay, space, approved>> /\ Stored(f)
    BY <1>6, <2>1, <2>2 DEF AlreadyOnSite, Sound, Refs, Bound
  <2>4. vehicle' \in [Plates -> VehicleRow]
    BY <1>0, <2>3, ResolvedRow DEF RowsTyped
  <2>5. RowsTyped' /\ StaysKept
    BY <1>0, <2>3, <2>4 DEF RowsTyped, StaysKept, Sound, Refs
  <2> QED BY <2>3, <2>5, LastStep DEF Stored
<1>7. ASSUME NEW c \in Clients, ChooseZone(c)
      PROVE  \E d \in Clients, r \in Request : Goes(d, r)
  <2>1. PICK f \in Frames, v \in Plates, b \in By :
          req[c].at = "gate" /\ f = req[c].frame /\ v = req[c].plate /\ b = req[c].by
    BY <1>0, <1>7, Requests, Types DEF ChooseZone
  <2>2. PICK z \in Zones \cup {None} :
          req' = [req EXCEPT ![c] = [at |-> "counted", frame |-> f, plate |-> v, by |-> b,
                                     zone |-> z, space |-> None]]
    BY <1>7, <2>1 DEF ChooseZone, Eligible, Emptiest
  <2>3. PICK q \in Request : q = [at |-> "counted", frame |-> f, plate |-> v, by |-> b,
                                  zone |-> z, space |-> None]
    BY MadeRequests
  <2>4. q.frame = f /\ (Self(q) => Self(req[c])) /\ Stored(f)
    BY <2>1, <2>3 DEF Sound, Refs, Bound, Self
  <2> QED BY <1>7, <2>1, <2>2, <2>3, <2>4, QuietStep DEF ChooseZone
<1>8. ASSUME NEW c \in Clients, ChooseSpace(c)
      PROVE  \E d \in Clients, r \in Request : Goes(d, r)
  <2>1. PICK q \in Request : q = req[c] /\ q.at = "counted"
    BY <1>0, <1>8, Types DEF ChooseSpace
  <2>2. PICK p \in Spaces \cup {None} : req' = [req EXCEPT ![c].at = "placed", ![c].space = p]
    BY <1>8 DEF ChooseSpace, FreeSpaces
  <2>3. PICK r : r = [q EXCEPT !.at = "placed", !.space = p]
    OBVIOUS
  <2>4. r \in Request /\ r.at = "placed" /\ r.frame = q.frame /\ r.by = q.by
    BY <2>1, <2>3, PlacedRequest
  <2>5. req' = [req EXCEPT ![c] = r]
    BY <1>0, <2>1, <2>2, <2>3, Types
  <2>6. (Self(r) => Self(req[c])) /\ r.frame = req[c].frame /\ Stored(r.frame)
    BY <2>1, <2>4 DEF Sound, Refs, Bound, Self
  <2> QED BY <1>8, <2>4, <2>5, <2>6, QuietStep DEF ChooseSpace
<1>9. ASSUME NEW c \in Clients, Exit(c)
      PROVE  \E d \in Clients, r \in Request : Goes(d, r)
  <2>1. PICK f \in Frames :
          /\ req[c].at = "gate" /\ f = req[c].frame
          /\ stay' \in [Stays -> StayRow]
          /\ \A s \in Stays : /\ stay'[s].vehicle = stay[s].vehicle /\ stay'[s].event = stay[s].event
                              /\ stay'[s].status = Absent <=> stay[s].status = Absent
          /\ vehicle' \in [Plates -> VehicleRow]
          /\ event' \in [Frames -> EventStatus] /\ event'[f] = "PROCESSED"
          /\ \A g \in Frames : g # f => event'[g] = event[g]
          /\ req' = [req EXCEPT ![c] = Idle] /\ UNCHANGED <<space, approved>>
    BY <1>0, <1>9, ExitRows
  <2>2. RowsTyped'
    BY <1>0, <2>1 DEF RowsTyped
  <2>3. StaysKept
    BY <2>1 DEF StaysKept, Sound, Refs
  <2>4. Stored(f) /\ event'[f] # Absent
    BY <2>1 DEF Sound, Refs, Bound, Absent
  <2> QED BY <2>1, <2>2, <2>3, <2>4, LastStep
<1>10. ASSUME NEW c \in Clients, NEW s \in Stays, Admit(c, s)
       PROVE  \E d \in Clients, r \in Request : Goes(d, r)
  <2>1. PICK f \in Frames, v \in Plates :
          /\ req[c].at = "placed" /\ f = req[c].frame
          /\ stay' \in [Stays -> StayRow] /\ stay'[s].vehicle = v /\ stay'[s].event = f
          /\ \A t \in Stays : t # s => stay'[t] = stay[t]
          /\ space' \in [Spaces -> {"AVAILABLE", "OCCUPIED"}]
          /\ vehicle' \in [Plates -> VehicleRow]
          /\ event' \in [Frames -> EventStatus] /\ event'[f] = "PROCESSED"
          /\ \A g \in Frames : g # f => event'[g] = event[g]
          /\ req' = [req EXCEPT ![c] = Idle] /\ approved' = approved
    BY <1>0, <1>10, AdmitRows
  <2>2. RowsTyped'
    BY <1>0, <2>1 DEF RowsTyped
  <2>3. StaysKept
    BY <2>1 DEF StaysKept, Sound, Refs
  <2>4. Stored(f) /\ event'[f] # Absent
    BY <2>1 DEF Sound, Refs, Bound, Absent
  <2> QED BY <2>1, <2>2, <2>3, <2>4, LastStep
<1>11. ASSUME NEW c \in Clients, Die(c)
       PROVE  \E d \in Clients, r \in Request : Goes(d, r)
  <2>1. ~Bound(Idle) /\ ~Self(Idle) /\ Idle \in Request
    BY MadeRequests DEF Bound, Self
  <2> QED BY <1>11, <2>1, QuietStep DEF Die
<1> QED BY Zenon, <1>1, <1>2, <1>3, <1>4, <1>5, <1>6, <1>7, <1>8, <1>9, <1>10, <1>11
        DEF Ingestion, Review, Barrier

(* The end of a stay is no request's. *)
LEMMA DepartureStep ==
  ASSUME Sound, Departure
  PROVE  RowsTyped' /\ StaysKept /\ UNCHANGED <<event, req>>
<1>0. TypeOK /\ RowsTyped
  BY Types DEF Sound
<1>1. ASSUME NEW s \in Stays, ApproveRelease(s)
      PROVE  RowsTyped' /\ StaysKept /\ UNCHANGED <<event, req>>
  BY <1>0, <1>1 DEF ApproveRelease, RowsTyped, StaysKept, Sound, Refs
<1>2. ASSUME NEW s \in Stays, CloseSession(s)
      PROVE  RowsTyped' /\ StaysKept /\ UNCHANGED <<event, req>>
  <2>1. PICK v \in Plates :
          /\ v = stay[s].vehicle /\ stay[s].status \in ActiveSession
          /\ stay' \in [Stays -> StayRow]
          /\ stay'[s].vehicle = v /\ stay'[s].event = stay[s].event
          /\ \A t \in Stays : t # s => stay'[t] = stay[t]
          /\ space' \in [Spaces -> {"AVAILABLE", "OCCUPIED"}]
          /\ vehicle' \in [Plates -> VehicleRow]
          /\ UNCHANGED <<event, approved, req>>
    BY <1>0, <1>2, CloseRows DEF Sound
  <2>2. RowsTyped'
    BY <1>0, <2>1 DEF RowsTyped
  <2>3. StaysKept
    BY <2>1 DEF StaysKept, Sound, Refs, ActiveSession, Absent
  <2> QED BY <2>1, <2>2, <2>3
<1> QED BY <1>1, <1>2 DEF Departure

(* Every row and every request is well formed. *)
THEOREM TypeCorrect == Spec => []Sound
<1>1. Init => Sound
  <2> SUFFICES ASSUME Init PROVE Sound
    OBVIOUS
  <2>1. NewVehicle \in VehicleRow /\ NoStay \in StayRow /\ Idle \in Request
    BY DEF NewVehicle, VehicleRow, NoStay, StayRow, Request
  <2>2. TypeOK
    BY <2>1 DEF Init, TypeOK, EventStatus
  <2>3. Refs
    BY DEF Init, Refs, NoStay, Bound, Idle
  <2> QED BY <2>2, <2>3 DEF Sound
<1>2. ASSUME Sound, NEW c \in Clients, NEW q \in Request, Goes(c, q)
      PROVE  Sound'
  <2>1. req' = [req EXCEPT ![c] = q] /\ req \in [Clients -> Request]
    BY <1>2, Types DEF Goes, Sound
  <2>2. req' \in [Clients -> Request] /\ \A d \in Clients : req'[d] = IF d = c THEN q ELSE req[d]
    BY <2>1
  <2>3. TypeOK'
    BY <1>2, <2>2 DEF Goes, RowsTyped, TypeOK
  <2>4. \A d \in Clients : Bound(req'[d]) => event'[req'[d].frame] # Absent
    <3> SUFFICES ASSUME NEW d \in Clients, Bound(req'[d]) PROVE event'[req'[d].frame] # Absent
      OBVIOUS
    <3>1. CASE d = c
      BY <1>2, <2>2, <3>1 DEF Goes
    <3>2. CASE d # c
      <4>1. req'[d] = req[d] /\ req[d] \in Request /\ Bound(req[d])
        BY <1>2, <2>2, <3>2, Types DEF Sound
      <4>2. PICK f \in Frames : f = req[d].frame /\ Stored(f)
        BY <1>2, <4>1, Requests DEF Sound, Refs, Bound
      <4> QED BY <1>2, <4>1, <4>2 DEF Goes
    <3> QED BY <3>1, <3>2
  <2>5. Refs'
    BY <1>2, <2>4 DEF Refs, Goes, StaysKept, Bound, Stored
  <2> QED BY <2>3, <2>5 DEF Sound
<1>3. ASSUME Sound, Departure PROVE Sound'
  <2>1. RowsTyped' /\ StaysKept /\ UNCHANGED <<event, req>>
    BY <1>3, DepartureStep
  <2> QED BY <1>3, <2>1 DEF Sound, TypeOK, RowsTyped, Refs, StaysKept, Bound, Stored
<1>4. Sound /\ Next => Sound'
  BY <1>2, <1>3, EveryStep DEF Next
<1>5. Sound /\ UNCHANGED vars => Sound'
  BY DEF vars, Sound, TypeOK, Refs, Bound, Stored
<1> QED BY <1>1, <1>4, <1>5, PTL DEF Spec

------------------------------------------------------------------------------
(* Stays, bays and vehicles                                                *)

Active(s) == stay[s].status \in ActiveSession

(* A step that neither opens nor closes a stay. *)
StaysStand ==
  /\ \A s \in Stays :
       /\ stay'[s].vehicle = stay[s].vehicle /\ stay'[s].zone = stay[s].zone
       /\ stay'[s].space = stay[s].space /\ stay'[s].event = stay[s].event /\ stay'[s].by = stay[s].by
       /\ Active(s)' <=> Active(s)
  /\ \A v \in Plates : vehicle'[v].stay = vehicle[v].stay
  /\ space' = space

LEMMA StaysMove ==
  ASSUME Sound, [Next]_vars
  PROVE  \/ StaysStand
         \/ \E c \in Clients : \E s \in Stays : Admit(c, s)
         \/ \E s \in Stays : CloseSession(s)
<1>0. TypeOK
  BY DEF Sound
<1>1. ASSUME UNCHANGED <<vehicle, stay, space>> PROVE StaysStand
  BY <1>1 DEF StaysStand, Active
<1>2. ASSUME NEW c \in Clients, Exit(c) PROVE StaysStand
  <2>1. /\ \A s \in Stays :
             /\ stay'[s].vehicle = stay[s].vehicle /\ stay'[s].zone = stay[s].zone
             /\ stay'[s].space = stay[s].space /\ stay'[s].event = stay[s].event
             /\ stay'[s].by = stay[s].by
             /\ stay'[s].status \in ActiveSession <=> stay[s].status \in ActiveSession
        /\ \A w \in Plates : vehicle'[w].stay = vehicle[w].stay
        /\ space' = space
    BY <1>0, <1>2, ExitRows
  <2> QED BY <2>1 DEF StaysStand, Active
<1>3. ASSUME NEW c \in Clients, AlreadyOnSite(c) PROVE StaysStand
  <2>1. PICK f \in Frames, v \in Plates : f = req[c].frame /\ v = req[c].plate
    BY <1>0, <1>3, Requests, Types DEF AlreadyOnSite
  <2>2. PICK at \in Sites : at = f.site
    BY <1>0, Types
  <2>3. vehicle' = [vehicle EXCEPT ![v] = Resolved(v, at)] /\ UNCHANGED <<stay, space>>
    BY <1>3, <2>1, <2>2 DEF AlreadyOnSite
  <2>4. \A w \in Plates : vehicle'[w].stay = vehicle[w].stay
    BY <1>0, <2>3, ResolvedRow, Types DEF RowsTyped
  <2> QED BY <2>3, <2>4 DEF StaysStand, Active
<1>4. ASSUME NEW c \in Clients, Store(c) \/ Reject(c) \/ ChooseZone(c) \/ ChooseSpace(c) \/ Die(c)
      PROVE  StaysStand
  BY <1>1, <1>4 DEF Store, Reject, ChooseZone, ChooseSpace, Die
<1>5. ASSUME NEW c \in Clients, NEW f \in Frames, Receive(c, f) \/ BeginReview(c, f)
      PROVE  StaysStand
  BY <1>1, <1>5 DEF Receive, BeginReview
<1>6. ASSUME NEW c \in Clients, NEW v \in Plates, ConfirmPlate(c, v)
      PROVE  StaysStand
  BY <1>1, <1>6 DEF ConfirmPlate
<1>7. ASSUME NEW s \in Stays, ApproveRelease(s)
      PROVE  StaysStand
  BY <1>1, <1>7 DEF ApproveRelease
<1>8. UNCHANGED vars => StaysStand
  BY <1>1 DEF vars
<1> QED BY Zenon, <1>2, <1>3, <1>4, <1>5, <1>6, <1>7, <1>8
        DEF Next, Ingestion, Review, Barrier, Departure

(* A bay is occupied exactly while a stay is in it, and then by one stay.  *)
Occupied ==
  \A p \in Spaces :
    /\ space[p] = "OCCUPIED" <=> \E s \in Stays : stay[s].space = p /\ Active(s)
    /\ \A s, t \in Stays : stay[s].space = p /\ Active(s) /\ stay[t].space = p /\ Active(t) => s = t

(* An active stay is that of its vehicle's row, and the other way round.   *)
Pointed ==
  \A v \in Plates :
    /\ \A s \in Stays : stay[s].vehicle = v /\ Active(s) => vehicle[v].stay = s
    /\ vehicle[v].stay # None => /\ vehicle[v].stay \in Stays
                                 /\ stay[vehicle[v].stay].vehicle = v /\ Active(vehicle[v].stay)

StayInv == Occupied /\ Pointed

LEMMA AdmitKeepsStays ==
  ASSUME Sound, StayInv, NEW c \in Clients, NEW s \in Stays, Admit(c, s)
  PROVE  StayInv'
<1>0. TypeOK
  BY DEF Sound
<1>1. PICK v \in Plates, p \in Spaces \cup {None} :
        /\ stay[s].status = Absent /\ IndexesAllow(v, p)
        /\ stay'[s].vehicle = v /\ stay'[s].status = "OPEN" /\ stay'[s].space = p
        /\ \A t \in Stays : t # s => stay'[t] = stay[t]
        /\ \A x \in Spaces : space'[x] = IF x = p THEN "OCCUPIED" ELSE space[x]
        /\ vehicle'[v].stay = s
        /\ \A w \in Plates : w # v => vehicle'[w] = vehicle[w]
  BY <1>0, AdmitRows
<1>2. /\ ~Active(s) /\ Active(s)'
      /\ \A t \in Stays : t # s => (Active(t)' <=> Active(t))
      /\ \A t \in Stays : ~(stay[t].vehicle = v /\ Active(t))
      /\ p # None => \A t \in Stays : ~(stay[t].space = p /\ Active(t))
  BY <1>1 DEF Active, ActiveSession, Absent, IndexesAllow, ActiveStays
<1>3. None \notin Stays /\ None \notin Spaces
  BY <1>0, Types
<1>4. Occupied'
  <2> SUFFICES ASSUME NEW x \in Spaces
               PROVE  /\ space'[x] = "OCCUPIED" <=> \E t \in Stays : stay'[t].space = x /\ Active(t)'
                      /\ \A t, u \in Stays : stay'[t].space = x /\ Active(t)'
                                            /\ stay'[u].space = x /\ Active(u)' => t = u
    BY DEF Occupied
  <2>1. CASE x = p
    BY <1>1, <1>2, <1>3, <2>1
  <2>2. CASE x # p
    BY <1>1, <1>2, <2>2 DEF StayInv, Occupied
  <2> QED BY <2>1, <2>2
<1>5. Pointed'
  <2> SUFFICES ASSUME NEW w \in Plates
               PROVE  /\ \A t \in Stays : stay'[t].vehicle = w /\ Active(t)' => vehicle'[w].stay = t
                      /\ vehicle'[w].stay # None => /\ vehicle'[w].stay \in Stays
                                                    /\ stay'[vehicle'[w].stay].vehicle = w
                                                    /\ Active(vehicle[w].stay)'
    BY DEF Pointed
  <2>1. PICK k : k = vehicle'[w].stay
    OBVIOUS
  <2>2. CASE w = v
    BY <1>1, <1>2, <1>3, <2>2 DEF Active
  <2>3. CASE w # v
    <3>1. vehicle'[w] = vehicle[w] /\ k = vehicle[w].stay
      BY <1>1, <2>1, <2>3
    <3>2. \A t \in Stays : stay'[t].vehicle = w /\ Active(t)' => vehicle'[w].stay = t
      BY <1>1, <1>2, <2>3, <3>1 DEF StayInv, Pointed
    <3>3. k # None => k \in Stays /\ k # s /\ stay[k].vehicle = w /\ Active(k)
      BY <1>2, <3>1 DEF StayInv, Pointed
    <3>4. k # None => k \in Stays /\ stay'[k].vehicle = w /\ Active(k)'
      BY <1>1, <1>2, <3>3
    <3> QED BY <2>1, <3>2, <3>4 DEF Active
  <2> QED BY <2>2, <2>3
<1> QED BY <1>4, <1>5 DEF StayInv

LEMMA CloseKeepsStays ==
  ASSUME Sound, StayInv, NEW s \in Stays, CloseSession(s)
  PROVE  StayInv'
<1>0. TypeOK /\ Refs
  BY DEF Sound
<1>1. PICK v \in Plates, p \in Spaces \cup {None} :
        /\ v = stay[s].vehicle /\ p = stay[s].space /\ Active(s)
        /\ stay'[s].status = "CLOSED" /\ stay'[s].vehicle = v /\ stay'[s].space = p
        /\ \A t \in Stays : t # s => stay'[t] = stay[t]
        /\ \A x \in Spaces : space'[x] = IF x = p THEN "AVAILABLE" ELSE space[x]
        /\ vehicle'[v].stay = None
        /\ \A w \in Plates : w # v => vehicle'[w] = vehicle[w]
  BY <1>0, CloseRows DEF Active
<1>2. /\ ~Active(s)'
      /\ \A t \in Stays : t # s => (Active(t)' <=> Active(t))
  BY <1>1 DEF Active, ActiveSession
<1>3. vehicle[v].stay = s
  BY <1>1 DEF StayInv, Pointed
<1>4. Occupied'
  <2> SUFFICES ASSUME NEW x \in Spaces
               PROVE  /\ space'[x] = "OCCUPIED" <=> \E t \in Stays : stay'[t].space = x /\ Active(t)'
                      /\ \A t, u \in Stays : stay'[t].space = x /\ Active(t)'
                                            /\ stay'[u].space = x /\ Active(u)' => t = u
    BY DEF Occupied
  <2>1. CASE x = p
    BY <1>1, <1>2, <2>1 DEF StayInv, Occupied
  <2>2. CASE x # p
    BY <1>1, <1>2, <2>2 DEF StayInv, Occupied
  <2> QED BY <2>1, <2>2
<1>5. Pointed'
  <2> SUFFICES ASSUME NEW w \in Plates
               PROVE  /\ \A t \in Stays : stay'[t].vehicle = w /\ Active(t)' => vehicle'[w].stay = t
                      /\ vehicle'[w].stay # None => /\ vehicle'[w].stay \in Stays
                                                    /\ stay'[vehicle'[w].stay].vehicle = w
                                                    /\ Active(vehicle[w].stay)'
    BY DEF Pointed
  <2>1. PICK k : k = vehicle'[w].stay
    OBVIOUS
  <2>2. CASE w = v
    <3>1. \A t \in Stays : ~(stay'[t].vehicle = v /\ Active(t)')
      BY <1>1, <1>2, <1>3 DEF StayInv, Pointed
    <3> QED BY <1>1, <2>2, <3>1
  <2>3. CASE w # v
    <3>1. vehicle'[w] = vehicle[w] /\ k = vehicle[w].stay
      BY <1>1, <2>1, <2>3
    <3>2. \A t \in Stays : stay'[t].vehicle = w /\ Active(t)' => vehicle'[w].stay = t
      BY <1>1, <1>2, <2>3, <3>1 DEF StayInv, Pointed
    <3>3. k # None => k \in Stays /\ k # s /\ stay[k].vehicle = w /\ Active(k)
      BY <1>1, <2>3, <3>1 DEF StayInv, Pointed
    <3>4. k # None => k \in Stays /\ stay'[k].vehicle = w /\ Active(k)'
      BY <1>1, <1>2, <3>3
    <3> QED BY <2>1, <3>2, <3>4 DEF Active
  <2> QED BY <2>2, <2>3
<1> QED BY <1>4, <1>5 DEF StayInv

LEMMA AlwaysStays == Spec => []StayInv
<1>1. Init => StayInv
  BY DEF Init, StayInv, Occupied, Pointed, Active, NoStay, NewVehicle, Absent, ActiveSession
<1>2. ASSUME StayInv, StaysStand PROVE StayInv'
  <2>1. Occupied'
    BY <1>2 DEF StayInv, Occupied, StaysStand
  <2>2. Pointed'
    <3> SUFFICES ASSUME NEW w \in Plates
                 PROVE  /\ \A t \in Stays : stay'[t].vehicle = w /\ Active(t)' => vehicle'[w].stay = t
                        /\ vehicle'[w].stay # None => /\ vehicle'[w].stay \in Stays
                                                      /\ stay'[vehicle'[w].stay].vehicle = w
                                                      /\ Active(vehicle[w].stay)'
      BY DEF Pointed
    <3>1. PICK k : k = vehicle'[w].stay /\ k = vehicle[w].stay
      BY <1>2 DEF StaysStand
    <3>2. k # None => k \in Stays /\ stay'[k].vehicle = w /\ Active(k)'
      BY <1>2, <3>1 DEF StayInv, Pointed, StaysStand
    <3>3. \A t \in Stays : stay'[t].vehicle = w /\ Active(t)' => k = t
      BY <1>2, <3>1 DEF StayInv, Pointed, StaysStand
    <3> QED BY <3>1, <3>2, <3>3 DEF Active
  <2> QED BY <2>1, <2>2 DEF StayInv
<1>3. Sound /\ StayInv /\ [Next]_vars => StayInv'
  BY <1>2, StaysMove, AdmitKeepsStays, CloseKeepsStays
<1> QED BY <1>1, <1>3, TypeCorrect, PTL DEF Spec

(* A bay is marked occupied exactly while one active stay is in it         *)
(* (allocateSpace, handleEntry, closeSession).                             *)
THEOREM BayHeld == Spec => []BayHeldByItsStay
<1>1. ASSUME TypeOK, Occupied PROVE BayHeldByItsStay
  <2> SUFFICES ASSUME NEW p \in Spaces
               PROVE  Cardinality({s \in Stays : stay[s].space = p /\ stay[s].status \in ActiveSession})
                        = IF space[p] = "OCCUPIED" THEN 1 ELSE 0
    BY DEF BayHeldByItsStay
  <2> DEFINE holders == {s \in Stays : stay[s].space = p /\ stay[s].status \in ActiveSession}
  <2>1. CASE space[p] = "OCCUPIED"
    <3>1. PICK s \in Stays : stay[s].space = p /\ Active(s)
      BY <1>1, <2>1 DEF Occupied
    <3>2. holders = {s}
      BY <1>1, <3>1 DEF Occupied, Active
    <3> QED BY <2>1, <3>2, FS_Singleton
  <2>2. CASE space[p] # "OCCUPIED"
    <3>1. holders = {}
      BY <1>1, <2>2 DEF Occupied, Active
    <3> QED BY <2>2, <3>1, FS_EmptySet
  <2> QED BY <2>1, <2>2
<1>2. Sound /\ StayInv => BayHeldByItsStay
  BY <1>1 DEF Sound, StayInv
<1> QED BY <1>2, TypeCorrect, AlwaysStays, PTL

(* A vehicle's row names the one stay it is on (handleEntry, closeSession). *)
THEOREM StayKnown == Spec => []VehicleKnowsItsStay
<1>1. ASSUME Pointed PROVE VehicleKnowsItsStay
  <2> SUFFICES ASSUME NEW v \in Plates
               PROVE  ActiveStays(v) = IF vehicle[v].stay = None THEN {} ELSE {vehicle[v].stay}
    BY DEF VehicleKnowsItsStay
  <2>1. \A s \in Stays : s \in ActiveStays(v) <=> stay[s].vehicle = v /\ Active(s)
    BY DEF ActiveStays, Active
  <2>2. ActiveStays(v) \subseteq Stays
    BY DEF ActiveStays
  <2>3. None \notin Stays
    BY GateAssumption
  <2> QED BY <1>1, <2>1, <2>2, <2>3 DEF Pointed
<1>2. StayInv => VehicleKnowsItsStay
  BY <1>1 DEF StayInv
<1> QED BY <1>2, AlwaysStays, PTL

------------------------------------------------------------------------------
(* Arrivals                                                                *)

(* One stored frame for an arrival, ...                                    *)
OneStored ==
  \A f, g \in Frames : Stored(f) /\ Stored(g) /\ DedupeKey(f) = DedupeKey(g) => f = g

(* ... one errand to the gate for a frame, and none once it opened a stay, *)
OneErrand ==
  \A c \in Clients : Self(req[c]) =>
    /\ \A d \in Clients : Self(req[d]) /\ req[d].frame = req[c].frame => d = c
    /\ \A s \in Stays : SelfOpened(s) => stay[s].event # req[c].frame

(* ... and one stay for a frame.                                           *)
OneOpened ==
  \A s \in Stays : SelfOpened(s) =>
    /\ stay[s].event \in Frames /\ Stored(stay[s].event)
    /\ \A t \in Stays : SelfOpened(t) /\ stay[t].event = stay[s].event => s = t

ArrivalInv == OneStored /\ OneErrand /\ OneOpened

LEMMA GoesKeepsStored ==
  ASSUME OneStored, NEW c \in Clients, NEW q \in Request, Goes(c, q)
  PROVE  OneStored'
<1>1. \A f \in Frames : event'[f] # Absent /\ ~Stored(f) =>
        /\ f = req[c].frame
        /\ \A g \in Frames : Stored(g) => DedupeKey(g) # DedupeKey(f)
  BY DEF Goes, Unstored, SameArrival
<1>2. \A f, g \in Frames : event'[f] # Absent /\ event'[g] # Absent /\ DedupeKey(f) = DedupeKey(g) => f = g
  BY <1>1 DEF OneStored
<1> QED BY <1>2 DEF OneStored, Stored, DedupeKey

LEMMA GoesKeepsArrivals ==
  ASSUME Sound, ArrivalInv, NEW c \in Clients, NEW q \in Request, Goes(c, q), StaysStand
  PROVE  ArrivalInv'
<1>1. \A s \in Stays : (SelfOpened(s)' <=> SelfOpened(s)) /\ stay'[s].event = stay[s].event
  BY DEF StaysStand, SelfOpened
<1>2. \A d \in Clients : req'[d] = IF d = c THEN q ELSE req[d]
  BY Types DEF Goes, Sound
<1>3. \A d \in Clients : Self(req[d]) => Stored(req[d].frame)
  BY DEF Sound, Refs, Self, Bound
<1>4. OneErrand'
  <2>1. ASSUME NEW d \in Clients, NEW e \in Clients, d # e, Self(req'[d]), Self(req'[e])
        PROVE  req'[d].frame # req'[e].frame
    <3>1. CASE d # c /\ e # c
      BY <1>2, <2>1, <3>1 DEF ArrivalInv, OneErrand
    <3>2. CASE d = c
      <4>1. Self(q) /\ Self(req[e]) /\ req'[d] = q /\ req'[e] = req[e]
        BY <1>2, <2>1, <3>2
      <4>2. ~Stored(q.frame) \/ (Self(req[c]) /\ q.frame = req[c].frame)
        BY <4>1 DEF Goes
      <4> QED BY <1>3, <2>1, <3>2, <4>1, <4>2 DEF ArrivalInv, OneErrand
    <3>3. CASE e = c
      <4>1. Self(q) /\ Self(req[d]) /\ req'[e] = q /\ req'[d] = req[d]
        BY <1>2, <2>1, <3>3
      <4>2. ~Stored(q.frame) \/ (Self(req[c]) /\ q.frame = req[c].frame)
        BY <4>1 DEF Goes
      <4> QED BY <1>3, <2>1, <3>3, <4>1, <4>2 DEF ArrivalInv, OneErrand
    <3> QED BY <3>1, <3>2, <3>3
  <2>2. ASSUME NEW d \in Clients, NEW s \in Stays, Self(req'[d]), SelfOpened(s)
        PROVE  stay[s].event # req'[d].frame
    <3>1. CASE d # c
      BY <1>2, <2>2, <3>1 DEF ArrivalInv, OneErrand
    <3>2. CASE d = c
      <4>1. Self(q) /\ req'[d] = q
        BY <1>2, <2>2, <3>2
      <4>2. ~Stored(q.frame) \/ (Self(req[c]) /\ q.frame = req[c].frame)
        BY <4>1 DEF Goes
      <4> QED BY <2>2, <4>1, <4>2 DEF ArrivalInv, OneErrand, OneOpened
    <3> QED BY <3>1, <3>2
  <2> QED BY <1>1, <2>1, <2>2 DEF OneErrand, Self
<1>5. OneOpened'
  <2> SUFFICES ASSUME NEW s \in Stays, SelfOpened(s)'
               PROVE  /\ stay'[s].event \in Frames /\ Stored(stay[s].event)'
                      /\ \A t \in Stays : SelfOpened(t)' /\ stay'[t].event = stay'[s].event => s = t
    BY DEF OneOpened
  <2>1. PICK f \in Frames : f = stay[s].event /\ f = stay'[s].event /\ Stored(f)
    BY <1>1 DEF ArrivalInv, OneOpened
  <2>2. event'[f] # Absent
    BY <2>1 DEF Goes
  <2> QED BY <1>1, <2>1, <2>2 DEF ArrivalInv, OneOpened, Stored
<1> QED BY <1>4, <1>5, GoesKeepsStored DEF ArrivalInv

LEMMA AdmitKeepsArrivals ==
  ASSUME Sound, ArrivalInv, NEW c \in Clients, NEW s \in Stays, Admit(c, s)
  PROVE  ArrivalInv'
<1>0. TypeOK
  BY DEF Sound
<1>1. PICK f \in Frames, b \in By :
        /\ req[c].at = "placed" /\ f = req[c].frame /\ b = req[c].by
        /\ stay'[s].event = f /\ stay'[s].by = b
        /\ \A t \in Stays : t # s => stay'[t] = stay[t]
        /\ event'[f] = "PROCESSED"
        /\ \A g \in Frames : g # f => event'[g] = event[g]
        /\ req' = [req EXCEPT ![c] = Idle]
  BY <1>0, AdmitRows
<1>2. Stored(f)
  BY <1>1 DEF Sound, Refs, Bound
<1>3. \A g \in Frames : Stored(g)' <=> Stored(g)
  BY <1>1, <1>2 DEF Stored, Absent
<1>4. OneStored'
  BY <1>3 DEF ArrivalInv, OneStored, DedupeKey
<1>5. \A d \in Clients : req'[d] = IF d = c THEN Idle ELSE req[d]
  BY <1>0, <1>1, Types
<1>6. \A d \in Clients : Self(req'[d]) => d # c /\ Self(req[d]) /\ req'[d] = req[d]
  BY <1>5 DEF Self, Idle
<1>7. \A t \in Stays : t # s => (SelfOpened(t)' <=> SelfOpened(t))
  BY <1>1 DEF SelfOpened
<1>8. SelfOpened(s)' => Self(req[c])
  BY <1>1 DEF SelfOpened, Self
<1>9. Self(req[c]) => /\ \A d \in Clients : d # c /\ Self(req[d]) => req[d].frame # f
                      /\ \A t \in Stays : SelfOpened(t) => stay[t].event # f
  BY <1>1 DEF ArrivalInv, OneErrand
<1>10. OneErrand'
  <2>1. ASSUME NEW d \in Clients, Self(req'[d])
        PROVE  /\ \A e \in Clients : Self(req'[e]) /\ req'[e].frame = req'[d].frame => e = d
               /\ \A t \in Stays : SelfOpened(t)' => stay'[t].event # req'[d].frame
    <3>1. d # c /\ Self(req[d]) /\ req'[d] = req[d]
      BY <1>6, <2>1
    <3>2. \A e \in Clients : Self(req'[e]) /\ req'[e].frame = req'[d].frame => e = d
      BY <1>6, <3>1 DEF ArrivalInv, OneErrand
    <3>3. \A t \in Stays : SelfOpened(t)' => stay'[t].event # req'[d].frame
      <4> SUFFICES ASSUME NEW t \in Stays, SelfOpened(t)'
                   PROVE  stay'[t].event # req[d].frame
        BY <3>1
      <4>1. CASE t = s
        BY <1>1, <1>8, <1>9, <3>1, <4>1
      <4>2. CASE t # s
        BY <1>1, <1>7, <3>1, <4>2 DEF ArrivalInv, OneErrand
      <4> QED BY <4>1, <4>2
    <3> QED BY <3>2, <3>3
  <2> QED BY <2>1 DEF OneErrand, Self
<1>11. OneOpened'
  <2> SUFFICES ASSUME NEW t \in Stays, SelfOpened(t)'
               PROVE  /\ stay'[t].event \in Frames /\ Stored(stay[t].event)'
                      /\ \A u \in Stays : SelfOpened(u)' /\ stay'[u].event = stay'[t].event => t = u
    BY DEF OneOpened
  <2>1. CASE t = s
    <3>1. \A u \in Stays : SelfOpened(u)' /\ u # s => stay'[u].event # f
      BY <1>1, <1>7, <1>8, <1>9, <2>1
    <3>2. stay'[t].event = f /\ event'[f] # Absent
      BY <1>1, <2>1 DEF Absent
    <3> QED BY <2>1, <3>1, <3>2 DEF Stored
  <2>2. CASE t # s
    <3>1. SelfOpened(t) /\ stay'[t] = stay[t]
      BY <1>1, <1>7, <2>2
    <3>2. PICK g \in Frames : g = stay[t].event /\ Stored(g)
      BY <3>1 DEF ArrivalInv, OneOpened
    <3>3. event'[g] # Absent
      BY <1>3, <3>2 DEF Stored
    <3>4. \A u \in Stays : u # s /\ SelfOpened(u)' /\ stay'[u].event = stay'[t].event => t = u
      BY <1>1, <1>7, <3>1 DEF ArrivalInv, OneOpened
    <3>5. SelfOpened(s)' => stay'[s].event # stay'[t].event
      BY <1>1, <1>8, <1>9, <3>1
    <3> QED BY <3>1, <3>2, <3>3, <3>4, <3>5 DEF Stored
  <2> QED BY <2>1, <2>2
<1> QED BY <1>4, <1>10, <1>11 DEF ArrivalInv

LEMMA QuietKeepsArrivals ==
  ASSUME ArrivalInv, UNCHANGED <<event, req>>,
         \A s \in Stays : stay'[s].event = stay[s].event /\ stay'[s].by = stay[s].by
  PROVE  ArrivalInv'
<1>1. \A s \in Stays : SelfOpened(s)' <=> SelfOpened(s)
  BY DEF SelfOpened
<1>2. OneStored'
  BY DEF ArrivalInv, OneStored, Stored, DedupeKey
<1>3. OneErrand'
  BY <1>1 DEF ArrivalInv, OneErrand, Self
<1>4. OneOpened'
  <2> SUFFICES ASSUME NEW s \in Stays, SelfOpened(s)'
               PROVE  /\ stay'[s].event \in Frames /\ Stored(stay[s].event)'
                      /\ \A t \in Stays : SelfOpened(t)' /\ stay'[t].event = stay'[s].event => s = t
    BY DEF OneOpened
  <2> QED BY <1>1 DEF ArrivalInv, OneOpened, Stored
<1> QED BY <1>2, <1>3, <1>4 DEF ArrivalInv

LEMMA AlwaysArrivals == Spec => []ArrivalInv
<1>1. Init => ArrivalInv
  BY DEF Init, ArrivalInv, OneStored, OneErrand, OneOpened, Stored, SelfOpened, Self, Idle, NoStay
<1>2. ASSUME Sound, ArrivalInv, NEW s \in Stays, CloseSession(s) PROVE ArrivalInv'
  <2>1. /\ stay'[s].event = stay[s].event /\ stay'[s].by = stay[s].by
        /\ \A t \in Stays : t # s => stay'[t] = stay[t]
        /\ UNCHANGED <<event, req>>
    BY <1>2, CloseRows DEF Sound
  <2>2. \A t \in Stays : stay'[t].event = stay[t].event /\ stay'[t].by = stay[t].by
    BY <2>1
  <2> QED BY <1>2, <2>1, <2>2, QuietKeepsArrivals
<1>3. ASSUME Sound, ArrivalInv, StaysStand, [Next]_vars PROVE ArrivalInv'
  <2>1. \A s \in Stays : stay'[s].event = stay[s].event /\ stay'[s].by = stay[s].by
    BY <1>3 DEF StaysStand
  <2>2. CASE Ingestion \/ Review \/ Barrier
    BY <1>3, <2>2, EveryStep, GoesKeepsArrivals
  <2>3. CASE Departure
    BY <1>3, <2>1, <2>3, DepartureStep, QuietKeepsArrivals
  <2>4. CASE UNCHANGED vars
    BY <1>3, <2>1, <2>4, QuietKeepsArrivals DEF vars
  <2> QED BY <1>3, <2>2, <2>3, <2>4 DEF Next
<1>4. Sound /\ ArrivalInv /\ [Next]_vars => ArrivalInv'
  BY <1>2, <1>3, StaysMove, AdmitKeepsArrivals
<1> QED BY <1>1, <1>4, TypeCorrect, PTL DEF Spec

(* However often the frames of one arrival are sent, resent or raced, the  *)
(* gate opens at most one stay for them by itself (ingest, handleEntry).   *)
THEOREM OpenedOnce == Spec => []OneStayPerArrival
<1>1. ASSUME Sound, ArrivalInv PROVE OneStayPerArrival
  <2> SUFFICES ASSUME NEW s \in Stays, NEW t \in Stays,
                      {s, t} \cap {u \in Stays : stay[u].event = None \/ stay[u].by # "ANPR_AUTO"} = {},
                      DedupeKey(stay[s].event) = DedupeKey(stay[t].event)
               PROVE  s = t
    BY DEF OneStayPerArrival
  <2>1. SelfOpened(s) /\ SelfOpened(t)
    BY DEF SelfOpened
  <2>2. stay[s].event = stay[t].event
    BY <1>1, <2>1 DEF ArrivalInv, OneOpened, OneStored
  <2> QED BY <1>1, <2>1, <2>2 DEF ArrivalInv, OneOpened
<1> QED BY <1>1, TypeCorrect, AlwaysArrivals, PTL

------------------------------------------------------------------------------
(* Zones                                                                   *)

(* Requests that counted the zone and have not committed.                  *)
Booked(z) == {c \in Clients : req[c].at \in {"counted", "placed"} /\ req[c].zone = z}

(* Each of them may still add a stay.                                      *)
Room ==
  \A z \in Zones :
    /\ IsFiniteSet(InZone(z))
    /\ Cardinality(InZone(z)) + Cardinality(Booked(z)) < Capacity[z] + Cardinality(Clients)

LEMMA BookedFinite ==
  ASSUME NEW z
  PROVE  /\ IsFiniteSet(Booked(z)) /\ Cardinality(Booked(z)) \in Nat
         /\ Cardinality(Clients) \in Nat /\ Cardinality(Booked(z)) <= Cardinality(Clients)
<1>1. Booked(z) \subseteq Clients
  BY DEF Booked
<1> QED BY <1>1, ClientsAssumption, FS_Subset, FS_CardinalityType

LEMMA BookedFiniteAll ==
  \A z \in Zones : /\ IsFiniteSet(Booked(z)) /\ Cardinality(Booked(z)) \in Nat
                   /\ Cardinality(Clients) \in Nat /\ Cardinality(Booked(z)) <= Cardinality(Clients)
BY BookedFinite

LEMMA BookedFiniteNext ==
  (\A z \in Zones : /\ IsFiniteSet(Booked(z)) /\ Cardinality(Booked(z)) \in Nat
                    /\ Cardinality(Clients) \in Nat /\ Cardinality(Booked(z)) <= Cardinality(Clients))'
BY BookedFiniteAll, PTL

LEMMA PlacedZone ==
  ASSUME NEW q \in Request, q.at = "counted", NEW p, NEW r,
         r = [q EXCEPT !.at = "placed", !.space = p]
  PROVE  r.zone = q.zone
<1>1. q \in [at: {"counted", "placed"}, frame: Frames, plate: Plates, by: By,
             zone: Zones \cup {None}, space: Spaces \cup {None}]
  BY DEF Request, Idle, By
<1> QED BY <1>1

(* A step counts a zone that has room, or counts none. *)
LEMMA BookedMove ==
  ASSUME Sound, [Next]_vars, NEW z \in Zones
  PROVE  Booked(z)' \subseteq Booked(z) \/ (HasRoom(z) /\ stay' = stay)
<1>0. TypeOK
  BY DEF Sound
<1>1. ASSUME NEW c \in Clients, NEW q,
             q.at \in {"counted", "placed"} => req[c].at \in {"counted", "placed"} /\ q.zone = req[c].zone,
             req' = [req EXCEPT ![c] = q]
      PROVE  Booked(z)' \subseteq Booked(z)
  <2>1. \A d \in Clients : req'[d] = IF d = c THEN q ELSE req[d]
    BY <1>0, <1>1, Types
  <2> QED BY <1>1, <2>1 DEF Booked
<1>2. ASSUME UNCHANGED req PROVE Booked(z)' \subseteq Booked(z)
  BY <1>2 DEF Booked
<1>3. ASSUME NEW c \in Clients, req' = [req EXCEPT ![c] = Idle]
      PROVE  Booked(z)' \subseteq Booked(z)
  BY <1>1, <1>3 DEF Idle
<1>4. ASSUME NEW c \in Clients, NEW s \in Stays, Admit(c, s)
      PROVE  Booked(z)' \subseteq Booked(z)
  BY <1>3, <1>4 DEF Admit
<1>5. ASSUME NEW c \in Clients, Reject(c) \/ AlreadyOnSite(c) \/ Exit(c) \/ Die(c)
      PROVE  Booked(z)' \subseteq Booked(z)
  BY <1>3, <1>5 DEF Reject, AlreadyOnSite, Exit, Die
<1>6. ASSUME NEW c \in Clients, NEW f \in Frames, Receive(c, f) \/ BeginReview(c, f)
      PROVE  Booked(z)' \subseteq Booked(z)
  <2>1. PICK q : /\ q = [at |-> "checked", frame |-> f] \/ q = [at |-> "reviewing", frame |-> f]
                 /\ req' = [req EXCEPT ![c] = q]
    BY <1>6 DEF Receive, BeginReview
  <2>2. q.at \notin {"counted", "placed"}
    BY <2>1
  <2> QED BY <1>1, <2>1, <2>2
<1>7. ASSUME NEW c \in Clients, Store(c)
      PROVE  Booked(z)' \subseteq Booked(z)
  <2>1. PICK q :
          /\ q \in {Idle, [at |-> "gate", frame |-> req[c].frame, plate |-> req[c].frame.plate,
                           by |-> "ANPR_AUTO"]}
          /\ req' = [req EXCEPT ![c] = q]
    BY <1>7 DEF Store
  <2>2. q.at \notin {"counted", "placed"}
    BY <2>1 DEF Idle
  <2> QED BY <1>1, <2>1, <2>2
<1>8. ASSUME NEW c \in Clients, NEW v \in Plates, ConfirmPlate(c, v)
      PROVE  Booked(z)' \subseteq Booked(z)
  <2>1. PICK q : /\ q = [at |-> "gate", frame |-> req[c].frame, plate |-> v, by |-> "ANPR_REVIEWED"]
                 /\ req' = [req EXCEPT ![c] = q]
    BY <1>8 DEF ConfirmPlate
  <2>2. q.at \notin {"counted", "placed"}
    BY <2>1
  <2> QED BY <1>1, <2>1, <2>2
<1>9. ASSUME NEW c \in Clients, ChooseSpace(c)
      PROVE  Booked(z)' \subseteq Booked(z)
  <2>1. PICK q \in Request : q = req[c] /\ q.at = "counted"
    BY <1>0, <1>9, Types DEF ChooseSpace
  <2>2. PICK p \in Spaces \cup {None} : req' = [req EXCEPT ![c].at = "placed", ![c].space = p]
    BY <1>9 DEF ChooseSpace, FreeSpaces
  <2>3. PICK r : r = [q EXCEPT !.at = "placed", !.space = p]
    OBVIOUS
  <2>4. r.zone = q.zone
    BY <2>1, <2>3, PlacedZone
  <2>5. req' = [req EXCEPT ![c] = r]
    BY <1>0, <2>1, <2>2, <2>3, Types
  <2> QED BY <1>1, <2>1, <2>4, <2>5
<1>10. ASSUME NEW c \in Clients, ChooseZone(c)
       PROVE  Booked(z)' \subseteq Booked(z) \/ (HasRoom(z) /\ stay' = stay)
  <2>1. PICK y \in Zones \cup {None} :
          /\ y # None => HasRoom(y)
          /\ req' = [req EXCEPT ![c] = [at |-> "counted", frame |-> req[c].frame,
                                        plate |-> req[c].plate, by |-> req[c].by,
                                        zone |-> y, space |-> None]]
    BY <1>10 DEF ChooseZone, Eligible, Emptiest
  <2>2. PICK q : /\ q = [at |-> "counted", frame |-> req[c].frame, plate |-> req[c].plate,
                         by |-> req[c].by, zone |-> y, space |-> None]
                /\ q.zone = y /\ req' = [req EXCEPT ![c] = q]
    BY <2>1
  <2>3. stay' = stay /\ None \notin Zones
    BY <1>0, <1>10, Types DEF ChooseZone
  <2>4. CASE y = z
    BY <2>1, <2>3, <2>4
  <2>5. CASE y # z
    <3>1. \A d \in Clients : req'[d] = IF d = c THEN q ELSE req[d]
      BY <1>0, <2>2, Types
    <3> QED BY <2>2, <2>5, <3>1 DEF Booked
  <2> QED BY <2>4, <2>5
<1>11. Departure => Booked(z)' \subseteq Booked(z)
  BY <1>2 DEF Departure, ApproveRelease, CloseSession
<1>12. UNCHANGED vars => Booked(z)' \subseteq Booked(z)
  BY <1>2 DEF vars
<1> QED BY Zenon, <1>4, <1>5, <1>6, <1>7, <1>8, <1>9, <1>10, <1>11, <1>12
        DEF Next, Ingestion, Review, Barrier

LEMMA StepKeepsRoom ==
  ASSUME Sound, Room, [Next]_vars
  PROVE  Room'
<1>0. TypeOK
  BY DEF Sound
<1> SUFFICES ASSUME NEW z \in Zones
             PROVE  /\ IsFiniteSet(InZone(z)')
                    /\ Cardinality(InZone(z)') + Cardinality(Booked(z)')
                         < Capacity[z] + Cardinality(Clients)
  BY DEF Room
<1>1. /\ IsFiniteSet(InZone(z)) /\ Cardinality(InZone(z)) \in Nat /\ Capacity[z] \in Nat
      /\ Cardinality(InZone(z)) + Cardinality(Booked(z)) < Capacity[z] + Cardinality(Clients)
  BY FS_CardinalityType, GateAssumption DEF Room
<1>2. /\ IsFiniteSet(Booked(z)) /\ Cardinality(Booked(z)) \in Nat /\ Cardinality(Clients) \in Nat
  BY BookedFinite
<1>3. /\ IsFiniteSet(Booked(z)') /\ Cardinality(Booked(z)') \in Nat
      /\ Cardinality(Booked(z)') <= Cardinality(Clients)
  BY BookedFiniteNext
<1>4. ASSUME InZone(z)' \subseteq InZone(z)
      PROVE  /\ IsFiniteSet(InZone(z)')
             /\ Cardinality(InZone(z)') + Cardinality(Booked(z)')
                  < Capacity[z] + Cardinality(Clients)
  <2>1. /\ IsFiniteSet(InZone(z)') /\ Cardinality(InZone(z)') \in Nat
        /\ Cardinality(InZone(z)') <= Cardinality(InZone(z))
    BY <1>1, <1>4, FS_Subset, FS_CardinalityType
  <2>2. CASE Booked(z)' \subseteq Booked(z)
    <3>1. Cardinality(Booked(z)') <= Cardinality(Booked(z))
      BY <1>2, <2>2, FS_Subset
    <3> QED BY <1>1, <1>2, <1>3, <2>1, <3>1
  <2>3. CASE HasRoom(z)
    <3>1. Cardinality(InZone(z)) < Capacity[z]
      BY <2>3 DEF HasRoom
    <3> QED BY <1>1, <1>2, <1>3, <2>1, <3>1
  <2> QED BY <2>2, <2>3, BookedMove
<1>5. CASE StaysStand
  <2>1. InZone(z)' \subseteq InZone(z)
    BY <1>5 DEF StaysStand, InZone, Active
  <2> QED BY <1>4, <2>1
<1>6. ASSUME NEW s \in Stays, CloseSession(s)
      PROVE  /\ IsFiniteSet(InZone(z)')
             /\ Cardinality(InZone(z)') + Cardinality(Booked(z)')
                  < Capacity[z] + Cardinality(Clients)
  <2>1. stay'[s].status = "CLOSED" /\ \A t \in Stays : t # s => stay'[t] = stay[t]
    BY <1>6, CloseRows DEF Sound
  <2>2. InZone(z)' \subseteq InZone(z)
    BY <2>1 DEF InZone, ActiveSession
  <2> QED BY <1>4, <2>2
<1>7. ASSUME NEW c \in Clients, NEW s \in Stays, Admit(c, s)
      PROVE  /\ IsFiniteSet(InZone(z)')
             /\ Cardinality(InZone(z)') + Cardinality(Booked(z)')
                  < Capacity[z] + Cardinality(Clients)
  <2>1. PICK y \in Zones \cup {None} :
          /\ req[c].at = "placed" /\ y = req[c].zone /\ stay[s].status = Absent
          /\ stay'[s].zone = y /\ stay'[s].status = "OPEN"
          /\ \A t \in Stays : t # s => stay'[t] = stay[t]
          /\ req' = [req EXCEPT ![c] = Idle]
    BY <1>0, <1>7, AdmitRows
  <2>2. CASE y # z
    <3>1. InZone(z)' \subseteq InZone(z)
      BY <2>1, <2>2 DEF InZone
    <3> QED BY <1>4, <3>1
  <2>3. CASE y = z
    <3>1. InZone(z)' = InZone(z) \cup {s} /\ s \notin InZone(z)
      BY <2>1, <2>3 DEF InZone, ActiveSession, Absent
    <3>2. \A d \in Clients : req'[d] = IF d = c THEN Idle ELSE req[d]
      BY <1>0, <2>1, Types
    <3>3. Booked(z)' = Booked(z) \ {c} /\ c \in Booked(z)
      <4>1. c \in Booked(z)
        BY <2>1, <2>3 DEF Booked
      <4>2. Idle.at \notin {"counted", "placed"}
        BY DEF Idle
      <4>3. \A d \in Clients : d \in Booked(z)' <=> d \in Booked(z) /\ d # c
        BY <3>2, <4>2 DEF Booked
      <4>4. Booked(z) \subseteq Clients /\ Booked(z)' \subseteq Clients
        BY DEF Booked
      <4> QED BY <4>1, <4>3, <4>4
    <3>4. IsFiniteSet(InZone(z)') /\ Cardinality(InZone(z)') = Cardinality(InZone(z)) + 1
      BY <1>1, <3>1, FS_AddElement
    <3>5. Cardinality(Booked(z)') = Cardinality(Booked(z)) - 1
      BY <1>2, <3>3, FS_RemoveElement
    <3> QED BY <1>1, <1>2, <3>4, <3>5
  <2> QED BY <2>2, <2>3
<1> QED BY <1>5, <1>6, <1>7, StaysMove

LEMMA AlwaysRoom == Spec => []Room
<1>1. Init => Room
  <2> SUFFICES ASSUME Init, NEW z \in Zones
               PROVE  /\ IsFiniteSet(InZone(z))
                      /\ Cardinality(InZone(z)) + Cardinality(Booked(z)) < Capacity[z] + Cardinality(Clients)
    BY DEF Room
  <2>1. InZone(z) = {} /\ Booked(z) = {}
    BY DEF Init, InZone, Booked, NoStay, Idle, Absent, ActiveSession
  <2>2. Cardinality(Clients) \in Nat /\ Capacity[z] \in Nat \ {0}
    BY ClientsAssumption, FS_CardinalityType, GateAssumption
  <2> QED BY <2>1, <2>2, FS_EmptySet
<1>2. Sound /\ Room /\ [Next]_vars => Room'
  BY StepKeepsRoom
<1> QED BY <1>1, <1>2, TypeCorrect, PTL DEF Spec

(* A zone is never overfilled by more than the requests that counted it at *)
(* the same time (allocateSpace counts without a lock).                    *)
THEOREM OverfullByRace == Spec => []OverfullByRaceOnly
<1>1. ASSUME Room PROVE OverfullByRaceOnly
  <2> SUFFICES ASSUME NEW z \in Zones
               PROVE  Cardinality(InZone(z)) < Capacity[z] + Cardinality(Clients)
    BY DEF OverfullByRaceOnly
  <2>1. /\ Cardinality(InZone(z)) \in Nat /\ Capacity[z] \in Nat /\ Cardinality(Booked(z)) \in Nat
        /\ Cardinality(Clients) \in Nat
        /\ Cardinality(InZone(z)) + Cardinality(Booked(z)) < Capacity[z] + Cardinality(Clients)
    BY <1>1, FS_CardinalityType, GateAssumption, BookedFinite DEF Room
  <2> QED BY <2>1
<1> QED BY <1>1, AlwaysRoom, PTL
===============================================================================
