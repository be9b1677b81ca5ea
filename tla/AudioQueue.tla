------------------------------ MODULE AudioQueue ------------------------------
(***************************************************************************)
(* The announcements of the TV: QueuedAudioProvider, which plays one clip  *)
(* at a time, over RemoteAnnouncementAudioProvider, whose clips begin, end,*)
(* fail, are refused by the browser or stopped.  A step is one task of the *)
(* event loop with the microtasks it queues: the drain loop goes on in the *)
(* task that settles the clip it awaits.                                   *)
(***************************************************************************)
EXTENDS Integers, Sequences

CONSTANTS
    None,
    MaxCalls,       \* bound: announcements asked for
    MaxProbes       \* bound: probe clips played

ASSUME AudioQueueAssumption == MaxCalls \in Nat /\ MaxProbes \in Nat /\ None \notin Nat

VARIABLES
    queue, running,     \* QueuedAudioProvider: numbers of announcements; drain() runs
    live,               \* RemoteAnnouncementAudioProvider: clips with an unsettled promise
    starting,           \* clips whose play() has not resolved or rejected
    sounding,           \* clips that are playing
    blocked,            \* the browser has refused a clip since one began
    allowed,            \* the browser has seen a gesture (or needs none)
    called, probes,     \* announcements asked for, probes played
    dropped             \* history: those asked for before the last stop()

audioVars == <<queue, running, live, starting, sounding, blocked, allowed, called, probes, dropped>>

(* Announcements are numbered in the order they are asked for.  A clip the *)
(* browser may not play when play() is called will be refused.             *)
Clip == [kind : {"announcement", "probe"}, no : Nat, refused : BOOLEAN]

Speech(clips) == {c \in clips : c.kind = "announcement"}

-----------------------------------------------------------------------------
(* drain(): takes the first announcement of q and awaits its clip; `clips' *)
(* are those still live and `begun' those still starting.                  *)
NextClip(q) == [kind |-> "announcement", no |-> Head(q), refused |-> ~allowed]

Play(q, clips, begun) ==
    /\ queue' = Tail(q) /\ running' = TRUE
    /\ live' = clips \cup {NextClip(q)} /\ starting' = begun \cup {NextClip(q)}

(* (Mutant: running is never reset.)                                       *)
DrainOnce(q, clips, begun) ==
    IF q = <<>>
    THEN queue' = q /\ live' = clips /\ starting' = begun /\ UNCHANGED running
    ELSE Play(q, clips, begun)

Drain(q, clips, begun) ==
    IF q = <<>>
    THEN queue' = q /\ running' = FALSE /\ live' = clips /\ starting' = begun
    ELSE Play(q, clips, begun)

(* Mutant: the latest announcement first. *)
EnqueueFirst(q, n) == <<n>> \o q

Enqueue(q, n) == Append(q, n)

PlayAnnouncement ==
    /\ called < MaxCalls
    /\ called' = called + 1
    /\ IF running
       THEN queue' = Enqueue(queue, called + 1) /\ UNCHANGED <<running, live, starting>>
       ELSE Drain(Enqueue(queue, called + 1), live, starting)
    /\ UNCHANGED <<sounding, blocked, allowed, probes, dropped>>

(* done(): settles the clip's promise, once.                               *)
Settle(clip, begun) ==
    IF clip \in Speech(live)
    THEN Drain(queue, live \ {clip}, begun)
    ELSE live' = live \ {clip} /\ starting' = begun /\ UNCHANGED <<queue, running>>

LeavePending(clip, begun) == starting' = begun /\ UNCHANGED <<queue, running, live>>

(* play() resolves when playback begins.  (Mutant: that settles the clip.) *)
SettleAtOnce(clip) == Settle(clip, starting \ {clip})

OnBegin(clip) == LeavePending(clip, starting \ {clip})

Begin(clip) ==
    /\ clip \in starting /\ ~clip.refused
    /\ sounding' = sounding \cup {clip}
    /\ blocked' = FALSE
    /\ OnBegin(clip)
    /\ UNCHANGED <<allowed, called, probes, dropped>>

(* play() rejects with NotAllowedError; neither `ended' nor `error' comes. *)
(* (Mutant: nothing settles the clip then.)                                *)
WaitForEnd(clip) == LeavePending(clip, starting \ {clip})

OnRefusal(clip) == Settle(clip, starting \ {clip})

Refuse(clip) ==
    /\ clip \in starting /\ clip.refused
    /\ blocked' = TRUE
    /\ OnRefusal(clip)
    /\ UNCHANGED <<sounding, allowed, called, probes, dropped>>

(* `error', or play() throws or rejects with anything else.                *)
Fail(clip) ==
    /\ clip \in live /\ ~clip.refused
    /\ sounding' = sounding \ {clip}
    /\ Settle(clip, starting \ {clip})
    /\ UNCHANGED <<blocked, allowed, called, probes, dropped>>

(* `ended'.                                                                *)
End(clip) ==
    /\ clip \in sounding
    /\ sounding' = sounding \ {clip}
    /\ Settle(clip, starting)
    /\ UNCHANGED <<blocked, allowed, called, probes, dropped>>

(* The clips stop() pauses and settles.  (Mutant: the newest only.)        *)
Newest(clips) == IF \E c \in clips : c.kind = "probe" THEN clips \ Speech(clips) ELSE clips

Stopped(clips) == clips

(* stop(): a play() it interrupts rejects, with no effect; one that was    *)
(* refused still says so.                                                  *)
Stop ==
    LET clips == Stopped(live)
    IN  /\ queue' = <<>>
        /\ live' = live \ clips
        /\ sounding' = sounding \ clips
        /\ starting' = {c \in starting : c \in clips => c.refused}
        /\ running' = (running /\ Speech(clips) = {})
        /\ dropped' = called
        /\ UNCHANGED <<blocked, allowed, called, probes>>

(* unlock(): a silent probe, past the queue.  A tap is a gesture.          *)
Unlock(tap) ==
    LET clip == [kind |-> "probe", no |-> probes + 1, refused |-> ~allowed']
    IN  /\ probes < MaxProbes
        /\ IF tap THEN blocked ELSE probes = 0 /\ called = 0
        /\ allowed' = (allowed \/ tap)
        /\ probes' = probes + 1
        /\ live' = live \cup {clip} /\ starting' = starting \cup {clip}
        /\ UNCHANGED <<queue, running, sounding, blocked, called, dropped>>

-----------------------------------------------------------------------------
AudioInit ==
    /\ queue = <<>> /\ running = FALSE
    /\ live = {} /\ starting = {} /\ sounding = {}
    /\ blocked = FALSE /\ allowed \in BOOLEAN
    /\ called = 0 /\ probes = 0 /\ dropped = 0

Progress ==
    \/ \E clip \in starting : Begin(clip) \/ Refuse(clip)
    \/ \E clip \in live : Fail(clip)
    \/ \E clip \in sounding : End(clip)

AudioNext ==
    \/ PlayAnnouncement \/ Stop \/ \E tap \in BOOLEAN : Unlock(tap)
    \/ Progress

AudioSpec == AudioInit /\ [][AudioNext]_audioVars

(* The browser gets on with the clips it was given: each begins, ends,     *)
(* fails or is refused.                                                    *)
AudioFairSpec == AudioSpec /\ WF_audioVars(Progress)

-----------------------------------------------------------------------------
(* Properties *)

(* The provider's state keeps its shape, and drain() runs exactly while an *)
(* announcement's promise is awaited.                                      *)
AudioTypeOK ==
    /\ queue \in Seq(Nat)
    /\ running \in BOOLEAN
    /\ live \subseteq Clip /\ starting \subseteq Clip /\ sounding \subseteq Clip
    /\ blocked \in BOOLEAN /\ allowed \in BOOLEAN
    /\ called \in Nat /\ probes \in Nat /\ dropped \in Nat
    /\ running = (Speech(live) # {})

(* Two announcements are never heard at once, whatever calls, probes,      *)
(* refusals and stops come in between (drain's single flight, and `ended', *)
(* not play(), as the end of a clip).                                      *)
OneVoice == \A c, d \in Speech(sounding) : c = d

(* After a stop() (SYSTEM_RESET, unmount) nothing asked for before it is   *)
(* heard or will be, also when a probe has overlapped the announcement.    *)
NothingOldIsSpoken ==
    /\ \A c \in Speech(live \cup sounding) : c.no > dropped
    /\ \A i \in DOMAIN queue : queue[i] > dropped

Unsettled(n) == (\E i \in DOMAIN queue : queue[i] = n) \/ \E c \in Speech(live) : c.no = n

(* No announcement is pending for ever: one that is refused, fails or is   *)
(* stopped does not silence the later ones.                                *)
Ends(n) == Unsettled(n) ~> ~Unsettled(n)

EveryAnnouncementEnds == \A n \in 1..MaxCalls : Ends(n)

(* The announcer the board relies on: what is queued or starting is        *)
(* pending, what sounds is the voice.                                      *)
Heard == Speech(sounding)

ToBeHeard == Speech(live) \ sounding

Pending == IF ToBeHeard = {} THEN queue ELSE <<(CHOOSE c \in ToBeHeard : TRUE).no>> \o queue

Voice == IF Heard = {} THEN None ELSE (CHOOSE c \in Heard : TRUE).no

A == INSTANCE Announcer WITH Announcement <- 1..MaxCalls, pending <- Pending, voice <- Voice

(* The queue and the clips implement the announcer: in order, one at a     *)
(* time, nothing after a stop.                                             *)
ImplementsAnnouncer == A!Spec
=============================================================================
