------------------------------- MODULE Pricing -------------------------------
(***************************************************************************)
(* The pure parts of billing: which rate plan prices a stay                *)
(* (contract/rate-resolution), how long a stay is in billable units        *)
(* (billing/domain/duration), what the engine charges for it               *)
(* (billing/domain/charge-engine) and who is billed                        *)
(* (billing/domain/billing-rule-evaluator).  Time is counted in minutes    *)
(* and money in the smallest amount; MONTH, whose length is the calendar's,*)
(* and fractions of a unit are left out.                                   *)
(***************************************************************************)
EXTENDS Naturals, Integers, SequencesExt

CONSTANTS
  HourMinutes, DayMinutes, WeekMinutes,   \* MINUTES_PER_*, scaled down
  ZoneOffset,                             \* the site's offset from the epoch's midnight
  MaxLadderUnits,                         \* where an open-ended slab ends
  ContractVersions,                       \* the active versions of active contracts
  None                                    \* a column that is null

ASSUME PricingAssumption ==
  /\ {HourMinutes, DayMinutes, WeekMinutes, MaxLadderUnits} \subseteq Nat \ {0}
  /\ ZoneOffset \in Nat
  /\ None \notin Nat
  /\ IsFiniteSet(ContractVersions)
  /\ \A v \in ContractVersions : v.from \in Int /\ v.code # None

-----------------------------------------------------------------------------
(* rate_plans, rate_slabs and tax_components with the CHECKs of the        *)
(* database, of the columns the arithmetic reads.                          *)
RatePlan(plan) ==
  /\ plan.unit \in {"MINUTE", "HOUR", "DAY", "WEEK", "CALENDAR_DAY"}
  /\ plan.rounding \in {"CEIL", "FLOOR", "NEAREST"}
  /\ plan.policy \in {"CONSUME_LADDER", "SKIP_LADDER"}
  /\ plan.free \in Nat /\ plan.grace \in Nat
  /\ plan.minimum \in Nat \cup {None} /\ plan.cap \in Nat \cup {None}
  /\ plan.priority \in Int /\ plan.from \in Int
  /\ plan.slabs \in Seq([from : Nat, to : Nat \cup {None}, kind : {"PER_UNIT", "FLAT"},
                         amount : Nat])
  /\ plan.taxes \in Seq([kind : {"PERCENTAGE", "FIXED"}, rate : Nat,
                         base : {"SUBTOTAL", "RUNNING_TOTAL"}])

-----------------------------------------------------------------------------
(* rate-resolution                                                         *)

InForce(row, at) == row.from <= at /\ (row.to = None \/ at <= row.to)

(* The one version of its contracts that a financier's stay is priced by:  *)
(* the newest of those in force, whatever plans it has.                    *)
VersionsFor(req) ==
  {v \in ContractVersions : v.financier = req.financier /\ InForce(v, req.at)}

ContractVersion(req) ==
  CHOOSE v \in VersionsFor(req) : \A w \in VersionsFor(req) : w.from <= v.from

(* Which plans of the book a stay may be priced by: those in force at the  *)
(* given instant for its site and class, of that version or, in public     *)
(* parking, of the site's tariff.                                          *)
Candidates(book, req) ==
  {p \in book : /\ InForce(p, req.at)
                /\ p.class \in {None, req.class}
                /\ IF req.mode = "PUBLIC_PARKING"
                   THEN p.contract = None /\ p.site = req.site
                   ELSE /\ req.financier # None /\ VersionsFor(req) # {}
                        /\ p.contract = ContractVersion(req).code
                        /\ p.site \in {None, req.site}}

Rank(p, req) == <<IF p.class = req.class THEN 1 ELSE 0,
                  IF p.site = req.site THEN 1 ELSE 0, p.priority, p.from>>

Outranks(r, s) ==
  \E i \in 1..4 : r[i] > s[i] /\ \A j \in 1..(i - 1) : r[j] = s[j]

(* RateResolutionService.resolve: None when nothing applies, and the gate  *)
(* admits the vehicle all the same.                                        *)
Resolve(book, req) ==
  LET can == Candidates(book, req)
  IN IF can = {} THEN None
     ELSE CHOOSE p \in can : \A q \in can : ~Outranks(Rank(q, req), Rank(p, req))

-----------------------------------------------------------------------------
(* duration                                                                *)

UnitMinutes == [MINUTE |-> 1, HOUR |-> HourMinutes, DAY |-> DayMinutes, WEEK |-> WeekMinutes]

DateOf(t) == (t + ZoneOffset) \div DayMinutes

(* computeDuration: a calendar day is a date touched, whatever the         *)
(* rounding; any other unit is so many minutes, rounded as the plan says.  *)
BillableUnits(plan, entry, asOf) ==
  LET raw == asOf - entry
      u == UnitMinutes[plan.unit]
  IN IF plan.unit = "CALENDAR_DAY" THEN Max({1, DateOf(asOf) - DateOf(entry) + 1})
     ELSE CASE plan.rounding = "CEIL" -> (raw + u - 1) \div u
            [] plan.rounding = "FLOOR" -> raw \div u
            [] OTHER -> (2 * raw + u) \div (2 * u)

AgeingDays(entry, asOf) == Max({0, (asOf - entry) \div DayMinutes})

-----------------------------------------------------------------------------
(* charge-engine                                                           *)

(* validateRatePlan, of slabs in the order of their sequence numbers.      *)
ValidRatePlan(plan) ==
  LET n == Len(plan.slabs)
      s == plan.slabs
  IN /\ n > 0 /\ s[1].from = 1
     /\ \A i \in 1..n : s[i].amount >= 0 /\ (s[i].to = None \/ s[i].to >= s[i].from)
     /\ \A i \in 1..(n - 1) : s[i].to # None /\ s[i + 1].from = s[i].to + 1

SlabEnd(slab) == IF slab.to = None THEN MaxLadderUnits ELSE slab.to

(* The units of lo..hi that lie on the slab; positions are inclusive.      *)
Overlap_Exclusive(slab, lo, hi) ==      \* mutant: the last position is not counted
  Max({0, Min({hi, SlabEnd(slab)}) - Max({lo, slab.from})})

Overlap(slab, lo, hi) ==
  Max({0, Min({hi, SlabEnd(slab)}) - Max({lo, slab.from}) + 1})

SlabAmount(slab, lo, hi) ==
  IF Overlap(slab, lo, hi) = 0 THEN 0
  ELSE IF slab.kind = "FLAT" THEN slab.amount
  ELSE slab.amount * Overlap(slab, lo, hi)

LadderWalk(plan, lo, hi) ==
  FoldLeft(LAMBDA sum, slab : sum + SlabAmount(slab, lo, hi), 0, plan.slabs)

(* Cap and minimum: a plan without one has None.  A started day counts as  *)
(* a day of the cap; the minimum has the last word.                        *)
Capped(plan, raw, amount) ==
  IF plan.cap = None THEN amount
  ELSE Min({amount, plan.cap * Max({1, (raw + DayMinutes - 1) \div DayMinutes})})

ToppedUp(plan, amount) ==
  IF plan.minimum = None THEN amount ELSE Max({amount, plan.minimum})

(* applyTaxes: a component is taken of the subtotal, or of the subtotal    *)
(* and the components before it; only the sum is rounded, half up.  Rates  *)
(* are per cent, the sum is kept in hundredths of hundredths.              *)
TaxTotal(plan, subtotal) ==
  LET Raw(tax, run) ==
        IF tax.kind = "FIXED" THEN tax.rate * 10000
        ELSE ((IF tax.base = "RUNNING_TOTAL" THEN run ELSE subtotal * 10000) * tax.rate) \div 100
      run == FoldLeft(LAMBDA r, tax : r + Raw(tax, r), subtotal * 10000, plan.taxes)
  IN (run - subtotal * 10000 + 5000) \div 10000

Unpriced == [units |-> 0, free |-> 0, subtotal |-> 0, tax |-> 0, total |-> -1]

Priced(units, free, subtotal, tax) ==
  [units |-> units, free |-> free, subtotal |-> subtotal, tax |-> tax, total |-> subtotal + tax]

(* ChargeEngine.calculate; Unpriced is one of its exceptions.              *)
Calculate(plan, entry, asOf) ==
  LET raw == asOf - entry
      units == BillableUnits(plan, entry, asOf)
      free == Min({plan.free, units})
      consumes == plan.policy = "CONSUME_LADDER"
      lo == IF consumes THEN free + 1 ELSE 1
      hi == IF consumes THEN units ELSE units - free
      subtotal == ToppedUp(plan, Capped(plan, raw, LadderWalk(plan, lo, hi)))
  IN IF ~ValidRatePlan(plan) \/ asOf < entry THEN Unpriced
     ELSE IF plan.grace > 0 /\ raw <= plan.grace THEN Priced(0, 0, 0, 0)
     ELSE IF free = units THEN Priced(units, free, 0, 0)
     ELSE IF \A i \in DOMAIN plan.slabs : Overlap(plan.slabs[i], lo, hi) = 0 THEN Unpriced
     ELSE Priced(units, free, subtotal, TaxTotal(plan, subtotal))

-----------------------------------------------------------------------------
(* billing-rule-evaluator and billing-party                                *)

(* evaluateCondition, of facts and values of one type.                     *)
Holds(c, facts) ==
  LET a == facts[c.fact]
  IN CASE c.op = "exists" -> a # None
       [] c.op = "notExists" -> a = None
       [] c.op = "eq" -> a = c.value
       [] c.op = "ne" -> a # c.value
       [] c.op = "in" -> a \in c.value
       [] c.op = "nin" -> a \notin c.value
       [] c.op = "gt" -> a > c.value
       [] c.op = "gte" -> a >= c.value
       [] c.op = "lt" -> a < c.value
       [] c.op = "lte" -> a <= c.value

Matches(rule, facts) ==
  /\ \A c \in rule.all : Holds(c, facts)
  /\ rule.any = {} \/ \E c \in rule.any : Holds(c, facts)
  /\ ~\E c \in rule.not : Holds(c, facts)

ScopeRank == [CONTRACT_VERSION |-> 3, FINANCIER |-> 2, SITE |-> 1, GLOBAL |-> 0]

(* loadRules: the global rules, and those of the stay's site, financier or *)
(* contract; of them the ones that match.                                  *)
Applicable(rules, stayScope, facts) ==
  {r \in rules : /\ r.scope = "GLOBAL" \/ (r.of # None /\ r.of = stayScope[r.scope])
                 /\ Matches(r, facts)}

(* Narrowest scope and then highest priority first; codes are unique and   *)
(* order the rest.                                                         *)
RuleKey(r) == <<ScopeRank[r.scope], r.priority, -r.code, 0>>

(* BillingRuleEvaluator.evaluate: the first rule that matches.             *)
Evaluate(rules, stayScope, facts) ==
  LET can == Applicable(rules, stayScope, facts)
  IN IF can = {} THEN None
     ELSE CHOOSE r \in can : \A q \in can : ~Outranks(RuleKey(q), RuleKey(r))

(* snapshotParty: the party the rule names must be somebody.               *)
Identified(party, financier, customer) ==
  \/ party = "FINANCIER" /\ financier # None
  \/ party \in {"CUSTOMER", "OTHER"} /\ customer
=============================================================================
