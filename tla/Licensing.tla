------------------------------ MODULE Licensing ------------------------------
(***************************************************************************)
(* The licence of a store: evaluations of GetLicenseStatusUseCase that the *)
(* boot, the timer and the activations of LicenseController start, the     *)
(* tables `installation' and `licenses', and the verdict LicenseState-     *)
(* Service caches for the guards.  The evaluations interleave at every     *)
(* await; a statement outside a transaction commits at once.               *)
(***************************************************************************)
EXTENDS LicenceVerdict

CONSTANTS
    Places,             \* places for evaluations and activations under way
    Licences,           \* licences an activation server may answer with
    Hosts,              \* readings of the host's claims
    NoVerdict, NoJob,
    MaxDay,             \* bound: latest day on the wall clock
    MaxChanges,         \* bound: changes of the clock and of the host
    MaxActivations,     \* bound
    MaxFaults           \* bound: failed queries and restarts

ASSUME LicensingAssumption ==
    /\ {MaxDay, MaxChanges, MaxActivations, MaxFaults} \subseteq Nat
    /\ NoLicence \notin Licences /\ Places # {}
    /\ \A licence \in Licences :
           /\ licence.expiresAt \in Int \cup {Never}
           /\ {licence.expiryGrace, licence.mismatchGrace} \subseteq Nat
           /\ {licence.genuine, licence.ours} \subseteq BOOLEAN

VARIABLES
    active,             \* table licenses: the rows with is_active
    lastSeen, mismatchSince,    \* table installation; lastSeen is Never before its row exists
    cached,             \* LicenseStateService.status
    ready,              \* the boot's refresh is over: timer and HTTP
    wallDay, host,      \* the clock and the claims of this host
    jobs,               \* evaluations and activations, by place
    lapsed,             \* history: licences found expired past their grace
    answered,           \* history: an activation has been answered with success
    changes, activations, faults

licensingVars == <<active, lastSeen, mismatchSince, cached, ready, wallDay, host, jobs, lapsed,
                   answered, changes, activations, faults>>

outside == <<wallDay, host, changes>>

Latest(a, b) == IF b = Never \/ a > b THEN a ELSE b

(* boot, refresh: publish the verdict; before, after, show: the three      *)
(* evaluations of an activation, of which the last publishes.              *)
Job == [for : {"boot", "refresh", "before", "after", "show"},
        at : {"read", "touch", "licence", "host", "window", "redeem", "deactivate", "insert"},
        now : 0 .. MaxDay,                      \* the clock, then the effective time
        since : 0 .. MaxDay \cup {Never},       \* hostMismatchSince as read
        licence : Licences \cup {NoLicence},    \* the licence read, or redeemed
        mismatch : BOOLEAN, verdict : Verdict \cup {NoVerdict},
        replaced : SUBSET Licences,             \* the rows the transaction deactivates
        lapsed : SUBSET Licences]               \* lapsed when it began

ASSUME MarkersAssumption == NoJob \notin Job /\ NoVerdict \notin Verdict

NewJob(purpose) ==
    [for |-> purpose, at |-> "read", now |-> wallDay, since |-> Never, licence |-> NoLicence,
     mismatch |-> FALSE, verdict |-> NoVerdict, replaced |-> {}, lapsed |-> lapsed]

JobAt(p, stage) == jobs[p] # NoJob /\ jobs[p].at = stage

-----------------------------------------------------------------------------
(* Who starts an evaluation: the 60 s timer (and GET /api/license while    *)
(* nothing is cached), and POST /api/license/activate.                     *)
StartRefresh(p) ==
    /\ ready /\ jobs[p] = NoJob
    /\ jobs' = [jobs EXCEPT ![p] = NewJob("refresh")]
    /\ UNCHANGED <<active, lastSeen, mismatchSince, cached, ready, lapsed, answered, activations,
                   faults, outside>>

StartActivation(p) ==
    /\ ready /\ jobs[p] = NoJob /\ activations < MaxActivations
    /\ jobs' = [jobs EXCEPT ![p] = NewJob("before")]
    /\ activations' = activations + 1
    /\ UNCHANGED <<active, lastSeen, mismatchSince, cached, ready, lapsed, answered, faults,
                   outside>>

(* getOrCreate, and the later of the clock and the high-water mark.        *)
(* (Mutants: the clock alone; the mark alone.)                             *)
ClockOnly(now) == now

MarkOnly(now) == lastSeen

EffectiveNow(now) == Latest(now, lastSeen)

ReadInstallation(p) ==
    /\ JobAt(p, "read")
    /\ lastSeen' = IF lastSeen = Never THEN jobs[p].now ELSE lastSeen
    /\ jobs' = [jobs EXCEPT ![p].at = "touch", ![p].now = EffectiveNow(@),
                            ![p].since = mismatchSince]
    /\ UNCHANGED <<active, mismatchSince, cached, ready, lapsed, answered, activations, faults,
                   outside>>

(* touch: GREATEST in SQL.                                                 *)
Touch(p) ==
    /\ JobAt(p, "touch")
    /\ lastSeen' = Latest(jobs[p].now, lastSeen)
    /\ jobs' = [jobs EXCEPT ![p].at = "licence"]
    /\ UNCHANGED <<active, mismatchSince, cached, ready, lapsed, answered, activations, faults,
                   outside>>

ReadLicence(p) ==
    /\ JobAt(p, "licence")
    /\ \E licence \in IF active = {} THEN {NoLicence} ELSE active :
           jobs' = [jobs EXCEPT ![p].at = "host", ![p].licence = licence]
    /\ UNCHANGED <<active, lastSeen, mismatchSince, cached, ready, lapsed, answered, activations,
                   faults, outside>>

ReadHost(p) ==
    /\ JobAt(p, "host")
    /\ LET job == jobs[p]
           verdict == Evaluate(job.licence, host, job.since, job.now)
       IN  /\ jobs' = [jobs EXCEPT ![p].at = "window", ![p].verdict = verdict,
                           ![p].mismatch = /\ job.licence # NoLicence
                                           /\ job.licence.genuine /\ job.licence.ours
                                           /\ IsMismatch(job.licence, host)]
           /\ lapsed' = IF verdict = Finding("RESTRICTED", "EXPIRED")
                        THEN lapsed \cup {job.licence} ELSE lapsed
    /\ UNCHANGED <<active, lastSeen, mismatchSince, cached, ready, answered, activations,
                   faults, outside>>

(* recordMismatchWindow, as the installation was when it was read.         *)
(* (Mutant: the window is opened and never closed.)                        *)
OpenOnly(job) == IF job.mismatch /\ job.since = Never THEN job.now ELSE mismatchSince

MismatchWindow(job) ==
    IF job.mismatch /\ job.since = Never THEN job.now
    ELSE IF ~job.mismatch /\ job.since # Never THEN Never
    ELSE mismatchSince

-----------------------------------------------------------------------------
(* The end of an evaluation.  refresh() publishes; an activation goes on.  *)
Publishes(job) == job.for \in {"boot", "refresh", "show"}

FinishEvaluation(p) ==
    /\ JobAt(p, "window")
    /\ LET job == jobs[p] IN
           /\ mismatchSince' = MismatchWindow(job)
           /\ cached' = IF Publishes(job) THEN job.verdict ELSE cached
           /\ ready' = (ready \/ job.for = "boot")
           /\ answered' = (answered \/ job.for = "show")
           /\ jobs' = [jobs EXCEPT ![p] =
                  CASE job.for = "before" -> [job EXCEPT !.at = "redeem"]
                    [] job.for = "after" -> NewJob("show")
                    [] OTHER -> NoJob]
    /\ UNCHANGED <<active, lastSeen, lapsed, activations, faults, outside>>

(* HttpLicenseActivationClient.redeem does not retry: the server rejects,  *)
(* cannot be reached, does not answer in time, or answers with a token,    *)
(* which is checked as any other.                                          *)
Accepted(licence) == licence.genuine /\ licence.ours

Redeem(p) ==
    /\ JobAt(p, "redeem")
    /\ \/ jobs' = [jobs EXCEPT ![p] = NoJob]
       \/ \E licence \in Licences :
             jobs' = [jobs EXCEPT ![p] = IF Accepted(licence)
                          THEN [@ EXCEPT !.at = "deactivate", !.licence = licence]
                          ELSE NoJob]
    /\ UNCHANGED <<active, lastSeen, mismatchSince, cached, ready, lapsed, answered, activations,
                   faults, outside>>

(* The transaction: UPDATE takes the active row, INSERT fails on the       *)
(* unique index when another row has become active since.                  *)
(* (Mutant: the UPDATE commits on its own.)                                *)
RowsAfterUpdateAlone(p) == {}

RowsAfterUpdate(p) == active

Deactivate(p) ==
    /\ JobAt(p, "deactivate")
    /\ active' = RowsAfterUpdate(p)
    /\ jobs' = [jobs EXCEPT ![p].at = "insert", ![p].replaced = active]
    /\ UNCHANGED <<lastSeen, mismatchSince, cached, ready, lapsed, answered, activations,
                   faults, outside>>

(* (Mutant: no partial unique index.)                                      *)
NoSingleActiveIndex(job) == TRUE

SingleActiveIndex(job) == active \subseteq job.replaced

InsertAndCommit(p) ==
    /\ JobAt(p, "insert")
    /\ LET job == jobs[p] IN
           IF SingleActiveIndex(job)
           THEN /\ active' = (active \ job.replaced) \cup {job.licence}
                /\ jobs' = [jobs EXCEPT ![p] = NewJob("after")]
           ELSE /\ jobs' = [jobs EXCEPT ![p] = NoJob]
                /\ UNCHANGED active
    /\ UNCHANGED <<lastSeen, mismatchSince, cached, ready, lapsed, answered, activations,
                   faults, outside>>

(* A query fails: the boot goes on without a verdict, refresh() keeps the  *)
(* last one (and hands it to the controller), an activation is an error.   *)
Fail(p) ==
    /\ jobs[p] # NoJob /\ jobs[p].at # "redeem" /\ faults < MaxFaults
    /\ faults' = faults + 1
    /\ ready' = (ready \/ jobs[p].for = "boot")
    /\ answered' = (answered \/ (jobs[p].for = "show" /\ cached # NoVerdict))
    /\ jobs' = [jobs EXCEPT ![p] = NoJob]
    /\ UNCHANGED <<active, lastSeen, mismatchSince, cached, lapsed, activations, outside>>

-----------------------------------------------------------------------------
(* The process is killed and boots: the tables stay, an open transaction   *)
(* is rolled back.                                                         *)
Restart ==
    /\ faults < MaxFaults
    /\ faults' = faults + 1
    /\ cached' = NoVerdict /\ ready' = FALSE /\ answered' = FALSE
    /\ \E boot \in Places :
           jobs' = [p \in Places |-> IF p = boot THEN NewJob("boot") ELSE NoJob]
    /\ UNCHANGED <<active, lastSeen, mismatchSince, lapsed, activations, outside>>

(* The shop's clock is its owner's to set, forward and back; claims become *)
(* unreadable and come back, hardware is replaced.                         *)
ChangeOutside ==
    /\ changes < MaxChanges
    /\ changes' = changes + 1
    /\ \/ wallDay' \in 0 .. MaxDay /\ UNCHANGED host
       \/ host' \in Hosts /\ UNCHANGED wallDay
    /\ UNCHANGED <<active, lastSeen, mismatchSince, cached, ready, jobs, lapsed, answered,
                   activations, faults>>

LicensingInit ==
    /\ active = {} /\ lastSeen = Never /\ mismatchSince = Never
    /\ cached = NoVerdict /\ ready = FALSE /\ answered = FALSE
    /\ wallDay \in 0 .. MaxDay /\ host \in Hosts /\ lapsed = {}
    /\ changes = 0 /\ activations = 0 /\ faults = 0
    /\ \E boot \in Places :
           jobs = [p \in Places |-> IF p = boot THEN NewJob("boot") ELSE NoJob]

Work(p) ==
    \/ ReadInstallation(p) \/ Touch(p) \/ ReadLicence(p) \/ ReadHost(p) \/ FinishEvaluation(p)
    \/ Redeem(p) \/ Deactivate(p) \/ InsertAndCommit(p)

LicensingNext ==
    \/ \E p \in Places : StartRefresh(p) \/ StartActivation(p) \/ Work(p) \/ Fail(p)
    \/ Restart
    \/ ChangeOutside

(* A query or a request under way ends, the timer goes on firing.          *)
LicensingFairness ==
    /\ \A p \in Places : WF_licensingVars(Work(p))
    /\ WF_licensingVars(\E p \in Places : StartRefresh(p))

LicensingSpec == LicensingInit /\ [][LicensingNext]_licensingVars

LicensingFairSpec == LicensingSpec /\ LicensingFairness

-----------------------------------------------------------------------------
LicensingTypeOK ==
    /\ active \subseteq Licences /\ lapsed \subseteq Licences
    /\ {lastSeen, mismatchSince} \subseteq 0 .. MaxDay \cup {Never}
    /\ cached \in Verdict \cup {NoVerdict}
    /\ {ready, answered} \subseteq BOOLEAN
    /\ wallDay \in 0 .. MaxDay /\ host \in Hosts
    /\ jobs \in [Places -> Job \cup {NoJob}]
    /\ changes \in 0 .. MaxChanges /\ activations \in 0 .. MaxActivations
    /\ faults \in 0 .. MaxFaults

(* Two activations that overlap never leave two active licences, and no    *)
(* failure or restart inside the transaction leaves a store that had one   *)
(* without (PostgresLicenseRepository.activate).                           *)
OneActiveLicence == Cardinality(active) <= 1

NeverWithoutLicence == [][active # {} => active' # {}]_licensingVars

OneLicenceStays == [](LicensingTypeOK /\ OneActiveLicence) /\ NeverWithoutLicence

(* A licence once found expired past its grace stays so for every          *)
(* evaluation that begins later, however the clock is wound back and       *)
(* whatever runs beside it (GetLicenseStatusUseCase.execute).              *)
LapsedStaysLapsed ==
    \A p \in Places :
        JobAt(p, "window") /\ jobs[p].licence \in jobs[p].lapsed => Restricts(jobs[p].verdict)

(* A lapsed licence is not revived by a clock wound back, nor a verdict    *)
(* improved by time alone (GetLicenseStatusUseCase, evaluateLicense).      *)
VerdictsAreSound == LapsedStaysLapsed /\ VerdictNeverImproves

(* When nothing changes any more, the cached verdict becomes the one the   *)
(* tables, the host and the clock call for, and the mismatch window is     *)
(* open exactly while there is a mismatch, also after refreshes that       *)
(* finished in another order than they began (LicenseStateService).        *)
Installed == IF active = {} THEN NoLicence ELSE CHOOSE licence \in active : TRUE

VerdictCatchesUp ==
    <>[](/\ lastSeen # Never
         /\ cached = Evaluate(Installed, host, mismatchSince, Latest(wallDay, lastSeen))
         /\ mismatchSince # Never <=> Installed # NoLicence /\ IsMismatch(Installed, host))

(* "The screen never shows `not licensed' straight after a successful      *)
(* activation" (LicenseController.activate).                               *)
ActivationShowsAtOnce ==
    answered => cached # Finding("RESTRICTED", "ABSENT")
===============================================================================
