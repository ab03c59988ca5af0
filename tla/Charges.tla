------------------------------- MODULE Charges -------------------------------
(***************************************************************************)
(* The charge calculations of one stay (billing/charge.service) while the  *)
(* nightly accrual, a release request, the finance desk and the exit work  *)
(* on it in transactions of their own, READ COMMITTED: what a transaction  *)
(* reads may be out of date when it writes.  Attaching a rate updates the  *)
(* session row without its version; closing the stay is guarded by it.     *)
(***************************************************************************)
EXTENDS Pricing, FiniteSets

CONSTANTS
  Books,       \* the rate plans the stay may meet: never changed by the code
  Entries,     \* entry instants
  Rules,       \* billing_rules
  Moments,     \* bound on time: the minutes after the entry at which things happen
  MaxRows,     \* bound on the calculations stored
  MaxAttach,   \* bound on the rates attached
  Writers      \* transactions under way at a time

ASSUME ChargesAssumption ==
  /\ MaxRows \in Nat /\ MaxAttach \in Nat /\ Moments \subseteq Nat /\ Entries \subseteq Nat
  /\ \A b \in Books : IsFiniteSet(b) /\ \A plan \in b : RatePlan(plan)

VARIABLES
  book, now,
  stay,       \* parking_sessions: status, entry, exit, plan (its snapshot), financier, version
  holder,     \* vehicles.currentFinancierId
  charges,    \* charge_calculations, oldest first
  bill,       \* the invoice of the release: party, rule and calculation
  tx          \* the transactions under way

chargesVars == <<book, now, stay, holder, charges, bill, tx>>

Fin == "fin"
NoWork == [kind |-> "idle"]
NoInvoice == [row |-> 0]

Request(financier, at) ==
  [mode |-> "REPOSSESSION_YARD", financier |-> financier, site |-> "site",
   class |-> "CAR", at |-> at]

ChargesTyped ==
  /\ stay.status \in {"OPEN", "CLOSED"} /\ stay.version \in Nat
  /\ holder \in {None, Fin}
  /\ \A i \in DOMAIN charges : charges[i].current => \A j \in DOMAIN charges : charges[j].current => i = j
  /\ bill.row \in 0..Len(charges)

(* The gate admits with the plan in force, or with none (gate.service).    *)
ChargesInit ==
  /\ book \in Books /\ now \in Entries /\ holder \in {None, Fin}
  /\ stay = [status |-> "OPEN", entry |-> now, exit |-> None, version |-> 0, financier |-> holder,
             plan |-> Resolve(book, Request(holder, now))]
  /\ charges = << >> /\ bill = NoInvoice /\ tx = [w \in Writers |-> NoWork]

Tick ==
  /\ \E m \in Moments : stay.entry + m > now /\ now' = stay.entry + m
  /\ UNCHANGED <<book, stay, holder, charges, bill, tx>>

(* The registry finds the vehicle's financier after all.                   *)
MatchHolder ==
  /\ holder = None /\ holder' = Fin
  /\ UNCHANGED <<book, now, stay, charges, bill, tx>>

-----------------------------------------------------------------------------
(* The transactions begin: the session is read, and who reads it decides   *)
(* as of which instant to charge.                                          *)
BeginWork(w, rec) ==
  /\ tx[w] = NoWork /\ Len(charges) < MaxRows /\ stay.status = "OPEN"
  /\ tx' = [tx EXCEPT ![w] = rec]
  /\ UNCHANGED <<book, now, stay, holder, charges, bill>>

(* runAccrual lists the open stays, for all of which it charges as of the  *)
(* instant it began at; a release request charges as of now.               *)
ListForAccrual(w) ==
  BeginWork(w, [kind |-> "ACCRUAL", asOf |-> now, plan |-> None, at |-> None])

RequestRelease(w) ==
  /\ stay.plan # None /\ Calculate(stay.plan, stay.entry, now) # Unpriced
  /\ BeginWork(w, [kind |-> "ESTIMATE", plan |-> stay.plan, at |-> now])

(* attachRatePlan: the plan in force at the entry, for the financier of    *)
(* the stay or else of the vehicle.                                        *)
PlanToAttach ==
  Resolve(book, Request(IF stay.financier # None THEN stay.financier ELSE holder, stay.entry))

AttachRate(w) ==
  /\ PlanToAttach # None /\ stay.version < MaxAttach
  /\ BeginWork(w, [kind |-> "ATTACH", plan |-> PlanToAttach,
               financier |-> IF stay.financier # None THEN stay.financier ELSE holder])

(* closeSession, from completeRelease with the instant of the exit.        *)
BeginClose(w) ==
  \E at \in {stay.entry + m : m \in Moments} \cap (0..now) :
    BeginWork(w, [kind |-> "FINAL", asOf |-> at, version |-> stay.version,
                  plan |-> None, at |-> None])

(* calculateAndStore reads the session in its transaction: the snapshot,   *)
(* and the exit, beyond which nothing is charged.  Without a plan, or with *)
(* one that cannot price the stay, nothing is stored.                      *)
AsOf(asked) == IF stay.exit # None /\ stay.exit < asked THEN stay.exit ELSE asked

Price(w) ==
  /\ tx[w].kind \in {"ACCRUAL", "FINAL"} /\ tx[w].plan = None
  /\ LET at == AsOf(tx[w].asOf)
         priced == stay.plan # None /\ Calculate(stay.plan, stay.entry, at) # Unpriced
     IN tx' = [tx EXCEPT ![w] = IF priced THEN [tx[w] EXCEPT !.plan = stay.plan, !.at = at]
                                  ELSE NoWork]
  /\ UNCHANGED <<book, now, stay, holder, charges, bill>>

(* The row that becomes the current one.  The inputs hash is the plan and  *)
(* the two instants.                                                       *)
Row(type, plan, at) ==
  [type |-> type, plan |-> plan, asOf |-> at, current |-> TRUE,
   sum |-> Calculate(plan, stay.entry, at)]

SameInputs(r, plan, at) == r.plan = plan /\ r.asOf = at

Superseding(row) == Append([i \in DOMAIN charges |-> [charges[i] EXCEPT !.current = FALSE]], row)

WithCalculation(type, plan, at) ==
  IF type = "ACCRUAL" /\ \E i \in DOMAIN charges : charges[i].current /\ SameInputs(charges[i], plan, at)
  THEN charges ELSE Superseding(Row(type, plan, at))

Store(w) ==
  /\ tx[w].kind \in {"ACCRUAL", "ESTIMATE"} /\ tx[w].plan # None
  /\ charges' = WithCalculation(tx[w].kind, tx[w].plan, tx[w].at)
  /\ tx' = [tx EXCEPT ![w] = NoWork]
  /\ UNCHANGED <<book, now, stay, holder, bill>>

(* The update holds the session row to the end of the transaction, whose   *)
(* calculation therefore sees it.                                          *)
Attach(w) ==
  /\ tx[w].kind = "ATTACH" /\ stay.version <= MaxAttach
  /\ stay' = [stay EXCEPT !.plan = tx[w].plan, !.financier = tx[w].financier,
                          !.version = stay.version + 1]
  /\ Calculate(tx[w].plan, stay.entry, AsOf(now)) # Unpriced
  /\ charges' = WithCalculation("ACCRUAL", tx[w].plan, AsOf(now))
  /\ tx' = [tx EXCEPT ![w] = NoWork]
  /\ UNCHANGED <<book, now, holder, bill>>

(* buildFacts, and the party the rules choose for the stay.                *)
Facts(row, exit) ==
  [financierId |-> stay.financier, stayDays |-> AgeingDays(stay.entry, exit),
   chargeSubtotal |-> row.sum.subtotal, soldAtAuction |-> FALSE]

Decision(row, exit) ==
  Evaluate(Rules, [SITE |-> "site", FINANCIER |-> stay.financier,
                   CONTRACT_VERSION |-> IF stay.plan = None THEN None ELSE stay.plan.contract],
           Facts(row, exit))

MayClose_Unguarded(t) == TRUE      \* mutant: no version in the update

MayClose(t) == stay.version = t.version

(* closeSession writes the row under its version, and generateForSession   *)
(* bills the calculation made for it in the same transaction.              *)
Close(w) ==
  LET t == tx[w]
      row == Row("FINAL", t.plan, t.at)
      d == Decision(row, t.at)
  IN /\ t.kind = "FINAL" /\ t.plan # None
     /\ MayClose(t)
     /\ d # None /\ \E customer \in BOOLEAN : Identified(d.party, stay.financier, customer)
     /\ charges' = Superseding(row)
     /\ stay' = [stay EXCEPT !.status = "CLOSED", !.exit = t.asOf, !.version = stay.version + 1]
     /\ bill' = [row |-> Len(charges) + 1, party |-> d.party, rule |-> d.code]
     /\ tx' = [tx EXCEPT ![w] = NoWork]
     /\ UNCHANGED <<book, now, holder>>

(* Any of them may be rolled back: a conflict on the version or on the     *)
(* index of the current row, a plan or a party that cannot be used, a      *)
(* timeout.  The accrual counts it and goes on.                            *)
RollBack(w) ==
  /\ tx[w] # NoWork /\ tx' = [tx EXCEPT ![w] = NoWork]
  /\ UNCHANGED <<book, now, stay, holder, charges, bill>>

ChargesNext ==
  \/ Tick \/ MatchHolder
  \/ \E w \in Writers :
       \/ ListForAccrual(w) \/ RequestRelease(w) \/ AttachRate(w) \/ BeginClose(w)
       \/ Price(w) \/ Store(w) \/ Attach(w) \/ Close(w) \/ RollBack(w)

ChargesSpec == ChargesInit /\ [][ChargesNext]_chargesVars

-----------------------------------------------------------------------------
(* The positions of the ladder a stay of so many units is charged for, and *)
(* what each position costs by itself: the reading of the contract that    *)
(* the engine's walk over the slabs must agree with.                       *)
ChargedPositions(plan, units) ==
  IF plan.policy = "CONSUME_LADDER" THEN (plan.free + 1)..units ELSE 1..(units - plan.free)

On(slab, p) == slab.from <= p /\ (slab.to = None \/ p <= slab.to)

OwedByPosition(plan, positions) ==
  LET PerUnit(p) == SumSet({plan.slabs[i].amount :
                             i \in {i \in DOMAIN plan.slabs : /\ plan.slabs[i].kind = "PER_UNIT"
                                                              /\ On(plan.slabs[i], p)}})
      Flat(i) == IF /\ plan.slabs[i].kind = "FLAT" /\ \E p \in positions : On(plan.slabs[i], p)
                 THEN plan.slabs[i].amount ELSE 0
  IN MapThenSumSet(PerUnit, positions) + MapThenSumSet(Flat, DOMAIN plan.slabs)

(* Every stored calculation charges what the contract says when it is read *)
(* position by position: nothing within the grace period or the free       *)
(* allowance, else the price of each position, a flat slab once, at most   *)
(* the cap of the days begun and at least the minimum.                     *)
ChargedByPosition ==
  \A i \in DOMAIN charges :
    LET p == charges[i].plan
        raw == charges[i].asOf - stay.entry
        positions == ChargedPositions(p, charges[i].sum.units)
        days == Cardinality({(m - 1) \div DayMinutes : m \in 1..raw} \cup {0})
        owed == OwedByPosition(p, positions)
        capped == IF p.cap # None /\ owed > days * p.cap THEN days * p.cap ELSE owed
    IN charges[i].sum.subtotal =
         IF (p.grace > 0 /\ raw <= p.grace) \/ positions = {} THEN 0
         ELSE IF p.minimum # None /\ capped < p.minimum THEN p.minimum ELSE capped

(* A step that bills a stay bills one FINAL calculation, the only one the  *)
(* stay has, made at its exit and by the plan the stay carries at that     *)
(* moment although both were read earlier; a financier is billed only for  *)
(* a stay of its own, and never less than what had accrued by an earlier   *)
(* instant under the same plan.                                            *)
ExitBillsTheStay ==
  [][bill' # bill =>
       LET r == charges'[bill'.row]
       IN /\ r.type = "FINAL" /\ r.current /\ r.asOf = stay'.exit /\ r.plan = stay'.plan
          /\ \A i \in DOMAIN charges :
               /\ charges[i].type # "FINAL"
               /\ charges[i].plan = r.plan /\ charges[i].asOf <= r.asOf =>
                    charges[i].sum.total <= r.sum.total
          /\ bill'.party = "FINANCIER" => stay'.financier # None]_chargesVars
=============================================================================
