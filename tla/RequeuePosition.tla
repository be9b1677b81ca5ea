--------------------------- MODULE RequeuePosition ---------------------------
(***************************************************************************)
(* The BACK_N re-queue algorithm: which waiting_order puts a ticket at a   *)
(* given rank among the waiting tickets of its category, and which orders  *)
(* its neighbours need when there is no integer between them.              *)
(***************************************************************************)
EXTENDS Integers, Sequences

CONSTANT RenumberStep       \* RENUMBER_STEP, 1000 (milliseconds) in the code

ASSUME RenumberStepAssumption == RenumberStep \in Nat \ {0}

(* The rank asked for, clamped to the category's waiting tickets.          *)
TargetIndex(n, waiting) == IF n < Len(waiting) THEN n ELSE Len(waiting)

SinglePlan(order) == [order |-> order, siblings |-> {}]

(* Re-packs the category from its smallest order on, one step apart,       *)
(* leaving rank `index` to the re-queued ticket.                           *)
RenumberPlan(waiting, index) ==
    LET lowest == waiting[1].waitingOrder
    IN  [ order    |-> lowest + index * RenumberStep,
          siblings |-> { [ id    |-> waiting[i].id,
                           order |-> lowest + (IF i <= index THEN i - 1 ELSE i)
                                                 * RenumberStep ] :
                         i \in 1..Len(waiting) } ]

(* computeRepositionPlan for BACK_N: `waiting` are the category's waiting  *)
(* tickets without the re-queued one, in queue order.                      *)
RepositionPlan(n, waiting, now) ==
    LET index == TargetIndex(n, waiting)
        lower == waiting[index].waitingOrder
        upper == waiting[index + 1].waitingOrder
    IN  CASE index = Len(waiting) -> SinglePlan(now)
          [] index = 0 /\ waiting # <<>> ->
                SinglePlan(waiting[1].waitingOrder - RenumberStep)
          [] OTHER ->
                IF upper - lower > 1
                THEN SinglePlan(lower + (upper - lower) \div 2)
                ELSE RenumberPlan(waiting, index)
=============================================================================
