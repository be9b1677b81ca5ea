----------------------------- MODULE CallerPanelMC -----------------------------
(***************************************************************************)
(* A small instance of CallerPanel for TLC: the panel is opened while one  *)
(* ticket is called to its counter and another waits or has not been       *)
(* issued.                                                                 *)
(***************************************************************************)
EXTENDS CallerPanel

CONSTANTS a, b, c, t1, t2

(* The default flow and a way back to the queue.                           *)
FlowMC ==
    {<<"WAITING", "CALLING">>, <<"CALLING", "SERVING">>, <<"CALLING", "SKIPPED">>,
     <<"SKIPPED", "CALLING">>, <<"SERVING", "COMPLETED">>, <<"CALLING", "WAITING">>}

ServesMC == Mine :> {a, b} @@ Other :> {b, c}

AtMine == [status |-> "CALLING", category |-> a, counter |-> Mine]
Elsewhere ==
    {[status |-> "NONE", category |-> Null, counter |-> Null],
     [status |-> "WAITING", category |-> a, counter |-> Null]}

MidDayInit ==
    /\ row \in {t1 :> AtMine @@ t2 :> r : r \in Elsewhere}
    /\ queue = IF row[t2].status = "WAITING" THEN <<t2>> ELSE <<>>
    /\ touched = <<t1>>
    /\ PanelInit

MidDaySpec == MidDayInit /\ [][CallerNext]_callerVars
===============================================================================
