------------------------------ MODULE MCCharges ------------------------------
(* Small instances of Charges: an hour is two minutes and a day four.      *)
EXTENDS Charges

Slab(from, to, kind, amount) == [from |-> from, to |-> to, kind |-> kind, amount |-> amount]

(* The financier's contracts: the second is in force from 5 on, beside the *)
(* first.                                                                  *)
MCVersions == {[code |-> "cv1", financier |-> Fin, from |-> 0, to |-> None],
               [code |-> "cv2", financier |-> Fin, from |-> 5, to |-> None]}

(* A plan of the financier's first contract, for every site and class, without   *)
(* allowances; the variants below change a few of its terms.               *)
Plain ==
  [contract |-> "cv1", site |-> None, class |-> None, priority |-> 0,
   from |-> 0, to |-> None, unit |-> "HOUR", rounding |-> "CEIL", free |-> 0,
   policy |-> "CONSUME_LADDER", grace |-> 0, minimum |-> None, cap |-> None,
   slabs |-> <<Slab(1, None, "PER_UNIT", 10)>>, taxes |-> << >>]

Ladder == <<Slab(1, 1, "PER_UNIT", 10), Slab(2, 2, "FLAT", 25), Slab(3, None, "PER_UNIT", 5)>>

Consuming == [Plain EXCEPT !.free = 1, !.slabs = Ladder, !.minimum = 7,
              !.taxes = <<[kind |-> "PERCENTAGE", base |-> "SUBTOTAL", rate |-> 9],
                          [kind |-> "PERCENTAGE", base |-> "RUNNING_TOTAL", rate |-> 9]>>]
Skipping == [Consuming EXCEPT !.policy = "SKIP_LADDER", !.grace = 1, !.class = "CAR"]
CappedPlan == [Plain EXCEPT !.unit = "MINUTE", !.cap = 20, !.rounding = "NEAREST", !.priority = 1]
Renewed == [Plain EXCEPT !.from = 6, !.unit = "CALENDAR_DAY", !.rounding = "FLOOR", !.priority = 2]
Short == [Plain EXCEPT !.rounding = "FLOOR", !.slabs = <<Slab(1, 2, "PER_UNIT", 10)>>]
Broken == [Plain EXCEPT !.slabs = <<Slab(1, 2, "PER_UNIT", 10), Slab(4, None, "FLAT", 10)>>]

Second(plan) == [plan EXCEPT !.contract = "cv2"]
OfBoth(plans) == plans \cup {Second(p) : p \in plans}

(* In one of the books the second contract has no plan at all, in one the  *)
(* first has the better plan, and one cannot price a stay.                 *)
MCBooks == {OfBoth({Consuming, Renewed}), OfBoth({Skipping, Plain}),
            {CappedPlan, Plain, Second(Plain)}, {Short}, OfBoth({Broken}), {}}

Rule(code, scope, of, priority, all, party) ==
  [code |-> code, scope |-> scope, of |-> of, priority |-> priority, all |-> all,
   any |-> {}, not |-> {}, party |-> party]

MCRules ==
  {Rule(1, "GLOBAL", None, 0, {}, "CUSTOMER"),
   Rule(2, "GLOBAL", None, 1, {[fact |-> "financierId", op |-> "exists"]}, "FINANCIER"),
   Rule(3, "CONTRACT_VERSION", "cv1", 0,
        {[fact |-> "stayDays", op |-> "gte", value |-> 1]}, "CUSTOMER")}
=============================================================================
