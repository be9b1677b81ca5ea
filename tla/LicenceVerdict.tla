---------------------------- MODULE LicenceVerdict ----------------------------
(***************************************************************************)
(* What the core API concludes from a licence, the claims it reads on its  *)
(* host and the time: HostFingerprint.match and evaluateLicense.  Time is  *)
(* in days.                                                                *)
(***************************************************************************)
EXTENDS Integers, FiniteSetsExt

CONSTANTS
    NoLicence,
    Never,              \* no expiry, no mismatch seen
    Unreadable,         \* a claim that cannot be read on this host
    ExpiringSoonDays,
    Days, Graces        \* the times and graces the properties below speak of

ASSUME VerdictAssumption ==
    Never \notin Int /\ ExpiringSoonDays \in Nat /\ Days \subseteq Int /\ Graces \subseteq Nat

(* A licence: [expiresAt, expiryGrace, mismatchGrace, bind, claims,        *)
(* weights, ours, genuine]; genuine: its token verifies and parses;        *)
(* ours: issued for this installation.                                     *)
Terms == [expiresAt : Days \cup {Never}, expiryGrace : Graces, mismatchGrace : Graces]

-----------------------------------------------------------------------------
(* HostFingerprint.match: each recorded claim has a weight, and half of    *)
(* the recorded weight, rounded up, has to match.                          *)
Weight(licence, names) == MapThenSumSet(LAMBDA name : licence.weights[name], names)

(* (Mutant: rounded down.)                                                 *)
RequiredWeightDown(licence) == Weight(licence, DOMAIN licence.claims) \div 2

RequiredWeight(licence) == (Weight(licence, DOMAIN licence.claims) + 1) \div 2

Matched(licence, host) == {name \in DOMAIN licence.claims : host[name] = licence.claims[name]}
Unread(licence, host) == {name \in DOMAIN licence.claims : host[name] = Unreadable}

FingerprintOutcome(licence, host) ==
    IF ~licence.bind \/ Unread(licence, host) = DOMAIN licence.claims
    THEN "UNAVAILABLE"
    ELSE IF Weight(licence, Matched(licence, host)) >= RequiredWeight(licence)
         THEN "MATCH"
         ELSE "MISMATCH"

IsMismatch(licence, host) == FingerprintOutcome(licence, host) = "MISMATCH"

-----------------------------------------------------------------------------
Verdict == [state : {"VALID", "EXPIRING_SOON", "GRACE", "MISMATCH_GRACE", "RESTRICTED"},
            issue : {"NONE", "ABSENT", "INVALID", "WRONG_INSTALLATION", "EXPIRED",
                     "HOST_MISMATCH"}]

Finding(state, issue) == [state |-> state, issue |-> issue]

IsExpired(licence, now) == licence.expiresAt # Never /\ now > licence.expiresAt

ExpiredPastGrace(licence, now) ==
    licence.expiresAt # Never /\ now > licence.expiresAt + licence.expiryGrace

MismatchPastGrace(licence, mismatch, since, now) ==
    mismatch /\ since # Never /\ now > since + licence.mismatchGrace

ExpiringSoon(licence, now) ==
    licence.expiresAt # Never /\ licence.expiresAt - now <= ExpiringSoonDays

(* (Mutant: the grace of an expiry is granted before the mismatch rule.)   *)
LadderGraceFirst(licence, mismatch, since, now) ==
    IF ExpiredPastGrace(licence, now) THEN Finding("RESTRICTED", "EXPIRED")
    ELSE IF IsExpired(licence, now) THEN Finding("GRACE", "EXPIRED")
    ELSE IF MismatchPastGrace(licence, mismatch, since, now)
         THEN Finding("RESTRICTED", "HOST_MISMATCH")
    ELSE IF mismatch THEN Finding("MISMATCH_GRACE", "HOST_MISMATCH")
    ELSE IF ExpiringSoon(licence, now) THEN Finding("EXPIRING_SOON", "NONE")
    ELSE Finding("VALID", "NONE")

(* evaluateLicense past the fingerprint: the first rule that applies.      *)
Ladder(licence, mismatch, since, now) ==
    IF ExpiredPastGrace(licence, now) THEN Finding("RESTRICTED", "EXPIRED")
    ELSE IF MismatchPastGrace(licence, mismatch, since, now)
         THEN Finding("RESTRICTED", "HOST_MISMATCH")
    ELSE IF IsExpired(licence, now) THEN Finding("GRACE", "EXPIRED")
    ELSE IF mismatch THEN Finding("MISMATCH_GRACE", "HOST_MISMATCH")
    ELSE IF ExpiringSoon(licence, now) THEN Finding("EXPIRING_SOON", "NONE")
    ELSE Finding("VALID", "NONE")

(* Of no licence, one that does not verify, or another installation's.     *)
Refusal(licence) ==
    IF ~licence.genuine THEN Finding("RESTRICTED", "INVALID")
    ELSE Finding("RESTRICTED", "WRONG_INSTALLATION")

Evaluate(licence, host, since, now) ==
    IF licence = NoLicence THEN Finding("RESTRICTED", "ABSENT")
    ELSE IF licence.genuine /\ licence.ours
         THEN Ladder(licence, IsMismatch(licence, host), since, now)
         ELSE Refusal(licence)

Restricts(verdict) == verdict.state = "RESTRICTED"

(* How far the banners and the refusals have gone.                         *)
Severity(verdict) ==
    CASE verdict.state = "VALID" -> 0
      [] verdict.state = "EXPIRING_SOON" -> 1
      [] verdict.state = "MISMATCH_GRACE" -> 2
      [] verdict.state = "GRACE" -> 3
      [] verdict.state = "RESTRICTED" -> 4

-----------------------------------------------------------------------------
(* With the same licence, the same outcome of the fingerprint and the same *)
(* window the verdict only gets worse as time goes by: no end of one grace *)
(* hides behind another that still runs (evaluateLicense).                 *)
VerdictNeverImproves ==
    \A licence \in Terms, mismatch \in BOOLEAN, since \in Days \cup {Never},
       now \in Days, later \in Days :
        now <= later => Severity(Ladder(licence, mismatch, since, now))
                            <= Severity(Ladder(licence, mismatch, since, later))

(* The table of HostFingerprint: with the shipped claims the board decides,*)
(* unless nothing can be read at all.                                      *)
Shipped == [bind |-> TRUE, claims |-> [boardUuid |-> "board", machineId |-> "machine"],
            weights |-> [boardUuid |-> 2, machineId |-> 1]]

FingerprintTable ==
    \A board \in {"board", "another", Unreadable}, machine \in {"machine", "another", Unreadable} :
        FingerprintOutcome(Shipped, [boardUuid |-> board, machineId |-> machine]) =
            IF board = Unreadable /\ machine = Unreadable THEN "UNAVAILABLE"
            ELSE IF board = "board" THEN "MATCH"
            ELSE "MISMATCH"
===============================================================================
