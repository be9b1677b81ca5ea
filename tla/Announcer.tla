------------------------------ MODULE Announcer ------------------------------
(***************************************************************************)
(* What an AudioProvider promises the board: announcements are heard one   *)
(* at a time in the order they were asked for, one that cannot be played   *)
(* is skipped, and silencing the board drops everything asked for before.  *)
(***************************************************************************)
EXTENDS Sequences

CONSTANTS Announcement, None

VARIABLES
    pending,        \* asked for and not yet heard
    voice           \* the announcement being heard, or None

Announce(a) ==
    /\ pending' = Append(pending, a)
    /\ UNCHANGED voice

Speak ==
    /\ voice = None /\ pending # <<>>
    /\ voice' = Head(pending) /\ pending' = Tail(pending)

Skip ==
    /\ voice = None /\ pending # <<>>
    /\ pending' = Tail(pending)
    /\ UNCHANGED voice

FallSilent ==
    /\ voice # None
    /\ voice' = None
    /\ UNCHANGED pending

Silence == pending' = <<>> /\ voice' = None

Init == pending = <<>> /\ voice = None

Next ==
    \/ \E a \in Announcement : Announce(a)
    \/ Speak \/ Skip \/ FallSilent \/ Silence

Spec == Init /\ [][Next]_<<pending, voice>>
=============================================================================
