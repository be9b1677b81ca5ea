------------------------------ MODULE ServicesMC ------------------------------
(***************************************************************************)
(* The services of the core API beside the queue, each by itself: the      *)
(* initial state says which of them runs.                                  *)
(***************************************************************************)
EXTENDS Identity, Licensing, TLC

VARIABLE service

servicesVars == <<service, identityVars, licensingVars>>

-----------------------------------------------------------------------------
(* A trial of one day without grace, a perpetual licence bound to a host,  *)
(* and a token for another installation.                                   *)
Trial == [expiresAt |-> 0, expiryGrace |-> 0, mismatchGrace |-> 0, bind |-> FALSE,
          claims |-> <<>>, weights |-> <<>>, ours |-> TRUE, genuine |-> TRUE]
Perpetual == [Shipped EXCEPT !.bind = TRUE] @@
             [expiresAt |-> Never, expiryGrace |-> 0, mismatchGrace |-> 0,
              ours |-> TRUE, genuine |-> TRUE]
Foreign == [Trial EXCEPT !.ours = FALSE]

LicencesMC == {Trial, Perpetual, Foreign}

ThisHost == [boardUuid |-> "board", machineId |-> "machine"]
HostsMC == {ThisHost, [ThisHost EXCEPT !.boardUuid = "another"]}

DaysMC == 0 .. 5
GracesMC == 0 .. 2

-----------------------------------------------------------------------------
(* The service that does not run stays in one of its initial states.       *)
AtRest ==
    /\ service # "identity" => users = [id \in UserIds |-> Nobody]
    /\ service # "licensing" =>
           /\ wallDay = 0 /\ host = ThisHost
           /\ jobs[CHOOSE p \in Places : TRUE] # NoJob

ServicesInit ==
    /\ service \in {"identity", "licensing"}
    /\ IdentityInit /\ LicensingInit
    /\ AtRest

ServicesNext ==
    /\ UNCHANGED service
    /\ \/ service = "identity" /\ IdentityNext /\ UNCHANGED licensingVars
       \/ service = "licensing" /\ LicensingNext /\ UNCHANGED identityVars

ServicesSpec ==
    /\ ServicesInit /\ [][ServicesNext]_servicesVars
    /\ \A p \in Places : WF_servicesVars(service = "licensing" /\ Work(p) /\ UNCHANGED <<service, identityVars>>)
    /\ WF_servicesVars(/\ service = "licensing" /\ \E p \in Places : StartRefresh(p)
                       /\ UNCHANGED <<service, identityVars>>)

(* VerdictCatchesUp of Licensing, where it runs, with the host's           *)
(* fingerprint judged as the shipped weights say (HostFingerprint.match).  *)
LicensingCatchesUp == service = "licensing" => FingerprintTable /\ VerdictCatchesUp
===============================================================================
