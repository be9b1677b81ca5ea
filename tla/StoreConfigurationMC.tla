------------------------- MODULE StoreConfigurationMC -------------------------
(***************************************************************************)
(* Small instances of StoreConfiguration for TLC: administrators who add,  *)
(* rename and drop categories and counters and change the reset policy.    *)
(***************************************************************************)
EXTENDS StoreConfiguration, TLC

CONSTANTS p1, p2, A, B, a, b, k1, k2, midnight, noon, local, utc

Procs1 == {p1}
Procs2 == {p1, p2}

Cron(cron, zone, resetTo) ==
    [mode |-> "AUTOMATIC_CRON", cron |-> cron, zone |-> zone, resetTo |-> resetTo]

AtMidnight == Cron(midnight, local, 1)
AtMidnightUtc == Cron(midnight, utc, 1)
AtMidnightFrom5 == Cron(midnight, local, 5)
AtNoon == Cron(noon, local, 1)
ByHand == [mode |-> "MANUAL", cron |-> Null, zone |-> local, resetTo |-> 1]

Policies == {AtMidnight, AtMidnightUtc, AtMidnightFrom5, AtNoon, ByHand}

Category(id, code) == [id |-> id, code |-> code]
Rule(counter, codes) == [counter |-> counter, codes |-> codes]

(* The wizard's first form, and edits that know its category's id.         *)
OnlyA(policy) ==
    [categories |-> {Category(a, A)}, rules |-> {Rule(k1, {A})}, policy |-> policy]
AlsoB(policy) ==
    [categories |-> {Category(a, A), Category(b, B)},
     rules |-> {Rule(k1, {A}), Rule(k2, {A, B})}, policy |-> policy]
NewB(policy) ==
    [categories |-> {Category(Null, B)}, rules |-> {Rule(k2, {B})}, policy |-> policy]

Edits == {OnlyA(AtMidnight), AlsoB(AtMidnightUtc), NewB(ByHand)}
PolicyEdits == {OnlyA(policy) : policy \in Policies}

ProcSymmetry == Permutations(Procs2)
===============================================================================
