------------------------------ MODULE Boards_proofs ------------------------------
(***************************************************************************)
(* What holds of the announcements for any number of calls and probes (one *)
(* voice, nothing old after a stop(), the announcer's specification), and  *)
(* of the board for any number of tickets, counters, requests and losses.  *)
(***************************************************************************)
EXTENDS BoardsMC, Filter_proofs

-----------------------------------------------------------------------------
(* The inductive invariant *)

OneLive == \A c, d \in Speech(live) : c = d

(* An announcement that sounds is live and has begun; one that has not     *)
(* begun is live, unless the browser refused it and stop() overtook that.  *)
ClipsAreLive ==
    /\ sounding \subseteq live
    /\ \A c \in starting : ~c.refused => c \in live
    /\ \A c \in Speech(starting) : c \in live \/ c.no <= dropped
    /\ starting \cap sounding = {} /\ \A c \in sounding : ~c.refused

NumbersAreCurrent ==
    /\ \A c \in Speech(live) : c.no > dropped /\ c.no <= called
    /\ \A i \in DOMAIN queue : queue[i] > dropped /\ queue[i] <= called
    /\ called >= dropped
    /\ \A c \in live : c.kind = "probe" => c.no <= probes

IInv == AudioTypeOK /\ OneLive /\ ClipsAreLive /\ NumbersAreCurrent

LEMMA InitIInv == AudioInit => IInv
<1>. SUFFICES ASSUME AudioInit PROVE IInv
  OBVIOUS
<1>1. AudioTypeOK
  <2>1. <<>> \in Seq(Nat) /\ Speech({}) = {}
    BY DEF Speech
  <2>. QED BY <2>1 DEF AudioInit, AudioTypeOK
<1>2. OneLive /\ ClipsAreLive /\ NumbersAreCurrent
  BY DEF AudioInit, OneLive, ClipsAreLive, NumbersAreCurrent, Speech
<1>. QED BY <1>1, <1>2 DEF IInv

LEMMA NextClipType ==
    ASSUME AudioTypeOK, NEW q \in Seq(Nat), q # <<>>
    PROVE  /\ NextClip(q) \in Clip
           /\ NextClip(q).kind = "announcement" /\ NextClip(q).no = q[1]
           /\ NextClip(q).no = Head(q) /\ NextClip(q).refused = ~allowed
           /\ Tail(q) \in Seq(Nat) /\ 1 \in DOMAIN q
           /\ \A i \in DOMAIN Tail(q) : i + 1 \in DOMAIN q /\ Tail(q)[i] = q[i + 1]
<1>1. Head(q) \in Nat /\ Head(q) = q[1] /\ Tail(q) \in Seq(Nat) /\ 1 \in DOMAIN q
  OBVIOUS
<1>2. \A i \in DOMAIN Tail(q) : i + 1 \in DOMAIN q /\ Tail(q)[i] = q[i + 1]
  OBVIOUS
<1>3. NextClip(q) \in Clip
  BY <1>1 DEF NextClip, Clip, AudioTypeOK
<1>. QED BY <1>1, <1>2, <1>3 DEF NextClip

(* One turn of the drain loop, once no announcement is live.               *)
LEMMA DrainIInv ==
    ASSUME IInv, NEW q \in Seq(Nat), NEW clips \in SUBSET live, NEW begun \in SUBSET starting,
           \A i \in DOMAIN q : q[i] > dropped /\ q[i] <= called',
           Speech(clips) = {},
           \A c \in begun : ~c.refused => c \in clips,
           \A c \in Speech(begun) : c.no <= dropped,
           sounding' \subseteq clips \cap sounding,
           Drain(q, clips, begun),
           blocked' \in BOOLEAN, allowed' \in BOOLEAN, called' \in Nat, called' >= called,
           UNCHANGED <<probes, dropped>>
    PROVE  IInv'
<1>0. AudioTypeOK /\ ClipsAreLive /\ NumbersAreCurrent
  BY DEF IInv
<1>1. CASE q = <<>>
  <2>1. queue' = q /\ running' = FALSE /\ live' = clips /\ starting' = begun
    BY <1>1 DEF Drain
  <2>2. AudioTypeOK'
    BY <1>0, <2>1 DEF AudioTypeOK, Speech
  <2>3. OneLive' /\ ClipsAreLive' /\ NumbersAreCurrent'
    BY <1>0, <2>1 DEF AudioTypeOK, OneLive, ClipsAreLive, NumbersAreCurrent, Speech
  <2>. QED BY <2>2, <2>3 DEF IInv
<1>2. CASE q # <<>>
  <2>. DEFINE n == NextClip(q)
  <2>1. /\ queue' = Tail(q) /\ running' = TRUE
        /\ live' = clips \cup {n} /\ starting' = begun \cup {n}
    BY <1>2 DEF Drain, Play
  <2>2. /\ n \in Clip /\ n.kind = "announcement" /\ n.no = q[1]
        /\ Tail(q) \in Seq(Nat) /\ 1 \in DOMAIN q
        /\ \A i \in DOMAIN Tail(q) : i + 1 \in DOMAIN q /\ Tail(q)[i] = q[i + 1]
    BY <1>0, <1>2, NextClipType
  <2>. HIDE DEF n
  <2>3. Speech(live') = {n} /\ Speech(starting') = Speech(begun) \cup {n}
    BY <2>1, <2>2 DEF Speech
  <2>4. AudioTypeOK'
    BY <1>0, <2>1, <2>2, <2>3 DEF AudioTypeOK, Speech
  <2>5. OneLive'
    BY <2>3 DEF OneLive, Speech
  <2>6. n \notin clips
    BY <2>2 DEF Speech
  <2>7. ClipsAreLive'
    BY <1>0, <2>1, <2>2, <2>3, <2>6 DEF ClipsAreLive, Speech
  <2>8. NumbersAreCurrent'
    <3>1. dropped' = dropped /\ dropped \in Nat /\ called \in Nat /\ called >= dropped
      BY <1>0 DEF AudioTypeOK, NumbersAreCurrent
    <3>2. \A c \in Speech(live') : c.no > dropped' /\ c.no <= called'
      BY <2>2, <2>3, <3>1
    <3>3. \A i \in DOMAIN queue' : queue'[i] > dropped' /\ queue'[i] <= called'
      BY <2>1, <2>2, <3>1
    <3>4. \A c \in live' : c.kind = "probe" => c.no <= probes'
      BY <1>0, <2>1, <2>2 DEF NumbersAreCurrent
    <3>5. called' >= dropped'
      BY <3>1
    <3>. QED BY <3>2, <3>3, <3>4, <3>5 DEF NumbersAreCurrent
  <2>. QED BY <2>4, <2>5, <2>7, <2>8 DEF IInv
<1>. QED BY <1>1, <1>2

(* Settling a clip keeps the invariant, whoever settles it.                *)
LEMMA SettleIInv ==
    ASSUME IInv, NEW clip \in Clip, NEW begun \in SUBSET starting,
           Settle(clip, begun),
           clip \notin begun, sounding' = sounding \ {clip}, 
           blocked' \in BOOLEAN, UNCHANGED <<allowed, called, probes, dropped>>
    PROVE  IInv'
<1>0. AudioTypeOK /\ OneLive /\ ClipsAreLive /\ NumbersAreCurrent
  BY DEF IInv
<1>1. CASE clip \in Speech(live)
  <2>1. Drain(queue, live \ {clip}, begun)
    BY <1>1 DEF Settle
  <2>2. Speech(live \ {clip}) = {}
    BY <1>0, <1>1 DEF OneLive, Speech
  <2>3. \A c \in Speech(begun) : c.no <= dropped
    BY <1>0, <1>1 DEF OneLive, ClipsAreLive, Speech
  <2>4. sounding' \subseteq (live \ {clip}) \cap sounding
    BY <1>0 DEF ClipsAreLive
  <2>5. \A c \in begun : ~c.refused => c \in live \ {clip}
    BY <1>0 DEF ClipsAreLive
  <2>6. /\ queue \in Seq(Nat) /\ called' \in Nat /\ called' >= called /\ allowed' \in BOOLEAN
        /\ \A i \in DOMAIN queue : queue[i] > dropped /\ queue[i] <= called'
    BY <1>0 DEF AudioTypeOK, NumbersAreCurrent
  <2>. QED BY <2>1, <2>2, <2>3, <2>4, <2>5, <2>6, DrainIInv
<1>2. CASE clip \notin Speech(live)
  <2>1. live' = live \ {clip} /\ starting' = begun /\ UNCHANGED <<queue, running>>
    BY <1>2 DEF Settle
  <2>2. Speech(live') = Speech(live)
    BY <1>2, <2>1 DEF Speech
  <2>3. AudioTypeOK'
    BY <1>0, <2>1, <2>2 DEF AudioTypeOK, Speech
  <2>4. OneLive' /\ NumbersAreCurrent'
    BY <1>0, <2>1, <2>2 DEF OneLive, NumbersAreCurrent, Speech
  <2>5. ClipsAreLive'
    BY <1>0, <2>1 DEF ClipsAreLive, Speech
  <2>. QED BY <2>3, <2>4, <2>5 DEF IInv
<1>. QED BY <1>1, <1>2

-----------------------------------------------------------------------------
(* Every step keeps the invariant *)

LEMMA PlayAnnouncementIInv == ASSUME IInv, PlayAnnouncement PROVE IInv'
<1>0. AudioTypeOK /\ OneLive /\ ClipsAreLive /\ NumbersAreCurrent
  BY DEF IInv
<1>. DEFINE q == Enqueue(queue, called + 1)
<1>1. /\ q \in Seq(Nat) /\ \A i \in DOMAIN q : q[i] > dropped /\ q[i] <= called'
      /\ called' = called + 1 /\ called' \in Nat /\ called \in Nat
  BY <1>0 DEF PlayAnnouncement, Enqueue, AudioTypeOK, NumbersAreCurrent
<1>. HIDE DEF q
<1>2. UNCHANGED <<sounding, blocked, allowed, probes, dropped>>
  BY DEF PlayAnnouncement
<1>3. CASE running
  <2>1. queue' = q /\ UNCHANGED <<running, live, starting>>
    BY <1>3 DEF PlayAnnouncement, q
  <2>2. AudioTypeOK'
    BY <1>0, <1>1, <1>2, <2>1 DEF AudioTypeOK, Speech
  <2>3. NumbersAreCurrent'
    <3>1. \A c \in Speech(live') : c.no > dropped' /\ c.no <= called'
      BY <1>0, <1>1, <1>2, <2>1 DEF NumbersAreCurrent, AudioTypeOK, Speech, Clip
    <3>2. \A i \in DOMAIN queue' : queue'[i] > dropped' /\ queue'[i] <= called'
      BY <1>1, <1>2, <2>1
    <3>3. /\ called' >= dropped'
          /\ \A c \in live' : c.kind = "probe" => c.no <= probes'
      BY <1>0, <1>1, <1>2, <2>1 DEF NumbersAreCurrent, AudioTypeOK
    <3>. QED BY <3>1, <3>2, <3>3 DEF NumbersAreCurrent
  <2>4. OneLive' /\ ClipsAreLive'
    BY <1>0, <1>2, <2>1 DEF OneLive, ClipsAreLive, Speech
  <2>. QED BY <2>2, <2>3, <2>4 DEF IInv
<1>4. CASE ~running
  <2>1. Drain(q, live, starting)
    BY <1>4 DEF PlayAnnouncement, q
  <2>2. Speech(live) = {}
    BY <1>0, <1>4 DEF AudioTypeOK
  <2>3. /\ \A c \in starting : ~c.refused => c \in live
        /\ \A c \in Speech(starting) : c.no <= dropped
        /\ sounding' \subseteq live \cap sounding
    BY <1>0, <1>2, <2>2 DEF ClipsAreLive, Speech
  <2>4. blocked' \in BOOLEAN /\ allowed' \in BOOLEAN /\ called' >= called
    BY <1>0, <1>1, <1>2 DEF AudioTypeOK
  <2>. QED BY <1>1, <1>2, <2>1, <2>2, <2>3, <2>4, DrainIInv
<1>. QED BY <1>3, <1>4

LEMMA BeginIInv == ASSUME IInv, NEW clip \in starting, Begin(clip) PROVE IInv'
<1>0. AudioTypeOK /\ OneLive /\ ClipsAreLive /\ NumbersAreCurrent
  BY DEF IInv
<1>1. /\ clip \in live /\ sounding' = sounding \cup {clip} /\ starting' = starting \ {clip}
      /\ blocked' = FALSE /\ UNCHANGED <<queue, running, live, allowed, called, probes, dropped>>
  BY <1>0 DEF Begin, OnBegin, LeavePending, ClipsAreLive
<1>2. AudioTypeOK'
  BY <1>0, <1>1 DEF AudioTypeOK, Speech
<1>3. OneLive' /\ NumbersAreCurrent'
  BY <1>0, <1>1 DEF OneLive, NumbersAreCurrent, Speech
<1>4. ClipsAreLive'
  <2>1. ~clip.refused /\ \A c \in Speech(starting') : c \in Speech(starting)
    BY <1>1 DEF Begin, Speech
  <2>. QED BY <1>0, <1>1, <2>1 DEF ClipsAreLive
<1>. QED BY <1>2, <1>3, <1>4 DEF IInv

LEMMA RefuseIInv == ASSUME IInv, NEW clip \in starting, Refuse(clip) PROVE IInv'
<1>1. Settle(clip, starting \ {clip}) /\ blocked' \in BOOLEAN /\ clip \in Clip
  BY DEF Refuse, OnRefusal, IInv, AudioTypeOK
<1>2. sounding' = sounding \ {clip} /\ UNCHANGED <<allowed, called, probes, dropped>>
  BY DEF Refuse, IInv, ClipsAreLive
<1>. QED BY <1>1, <1>2, SettleIInv

LEMMA FailIInv == ASSUME IInv, NEW clip \in live, Fail(clip) PROVE IInv'
<1>1. /\ Settle(clip, starting \ {clip}) /\ blocked' \in BOOLEAN /\ clip \in Clip
      /\ sounding' = sounding \ {clip} /\ UNCHANGED <<allowed, called, probes, dropped>>
  BY DEF Fail, AudioTypeOK, IInv
<1>. QED BY <1>1, SettleIInv

LEMMA EndIInv == ASSUME IInv, NEW clip \in sounding, End(clip) PROVE IInv'
<1>1. /\ Settle(clip, starting) /\ clip \notin starting /\ blocked' \in BOOLEAN /\ clip \in Clip
      /\ sounding' = sounding \ {clip} /\ UNCHANGED <<allowed, called, probes, dropped>>
  BY DEF End, AudioTypeOK, ClipsAreLive, IInv
<1>. QED BY <1>1, SettleIInv

LEMMA StopIInv == ASSUME IInv, Stop PROVE IInv'
<1>0. AudioTypeOK /\ OneLive /\ ClipsAreLive /\ NumbersAreCurrent
  BY DEF IInv
<1>1. /\ queue' = <<>> /\ live' = {} /\ sounding' = {} /\ dropped' = called
      /\ starting' = {c \in starting : c \in live => c.refused}
      /\ running' = (running /\ Speech(live) = {})
      /\ UNCHANGED <<blocked, allowed, called, probes>>
  BY <1>0 DEF Stop, Stopped, ClipsAreLive
<1>2. AudioTypeOK'
  <2>1. <<>> \in Seq(Nat) /\ Speech({}) = {}
    BY DEF Speech
  <2>2. running' = FALSE
    BY <1>0, <1>1 DEF AudioTypeOK
  <2>. QED BY <1>0, <1>1, <2>1, <2>2 DEF AudioTypeOK
<1>3. OneLive' /\ NumbersAreCurrent'
  BY <1>0, <1>1 DEF OneLive, NumbersAreCurrent, AudioTypeOK, Speech
<1>4. ClipsAreLive'
  <2>1. \A c \in starting' : ~c.refused => c \in live'
    BY <1>0, <1>1 DEF ClipsAreLive
  <2>2. \A c \in Speech(starting') : c.no <= dropped'
    BY <1>0, <1>1 DEF ClipsAreLive, NumbersAreCurrent, AudioTypeOK, Clip, Speech
  <2>. QED BY <1>1, <2>1, <2>2 DEF ClipsAreLive, Speech
<1>. QED BY <1>2, <1>3, <1>4 DEF IInv

LEMMA UnlockIInv == ASSUME IInv, NEW tap \in BOOLEAN, Unlock(tap) PROVE IInv'
<1>0. AudioTypeOK /\ OneLive /\ ClipsAreLive /\ NumbersAreCurrent
  BY DEF IInv
<1>. DEFINE clip == [kind |-> "probe", no |-> probes + 1, refused |-> ~allowed']
<1>1. /\ clip \in Clip /\ clip.kind = "probe" /\ clip.no = probes + 1
      /\ live' = live \cup {clip} /\ starting' = starting \cup {clip}
  <2>1. probes + 1 \in Nat
    BY <1>0 DEF AudioTypeOK
  <2>2. (~allowed') \in BOOLEAN
    OBVIOUS
  <2>. QED BY <2>1, <2>2 DEF Unlock, Clip
<1>. HIDE DEF clip
<1>2. /\ allowed' \in BOOLEAN /\ probes' = probes + 1 /\ probes \in Nat
      /\ UNCHANGED <<queue, running, sounding, blocked, called, dropped>>
  BY <1>0 DEF Unlock, AudioTypeOK
<1>3. Speech(live') = Speech(live) /\ Speech(starting') = Speech(starting)
  BY <1>1 DEF Speech
<1>4. AudioTypeOK'
  BY <1>0, <1>1, <1>2, <1>3 DEF AudioTypeOK
<1>5. OneLive'
  BY <1>0, <1>3 DEF OneLive
<1>6. NumbersAreCurrent'
  BY <1>0, <1>1, <1>2, <1>3 DEF NumbersAreCurrent, AudioTypeOK, Clip
<1>7. clip \notin live
  BY <1>0, <1>1, <1>2 DEF NumbersAreCurrent
<1>8. ClipsAreLive'
  BY <1>0, <1>1, <1>2, <1>3, <1>7 DEF ClipsAreLive
<1>. QED BY <1>4, <1>5, <1>6, <1>8 DEF IInv

LEMMA NextIInv == IInv /\ [AudioNext]_audioVars => IInv'
<1>. SUFFICES ASSUME IInv, [AudioNext]_audioVars PROVE IInv'
  OBVIOUS
<1>1. CASE UNCHANGED audioVars
  BY <1>1 DEF audioVars, IInv, AudioTypeOK, OneLive, ClipsAreLive, NumbersAreCurrent, Speech
<1>2. CASE AudioNext
  BY <1>2, PlayAnnouncementIInv, StopIInv, UnlockIInv, BeginIInv,
     RefuseIInv, FailIInv, EndIInv DEF AudioNext, Progress
<1>. QED BY <1>1, <1>2

LEMMA Invariance == AudioSpec => []IInv
BY InitIInv, NextIInv, PTL DEF AudioSpec

(* The provider's state keeps its shape: drain() runs exactly while an     *)
(* announcement is awaited.                                                *)
THEOREM TypeCorrect == AudioSpec => []AudioTypeOK
<1>1. IInv => AudioTypeOK
  BY DEF IInv
<1>. QED BY <1>1, Invariance, PTL

(* Two announcements are never heard at once.                              *)
THEOREM OneVoiceAlways == AudioSpec => []OneVoice
<1>1. IInv => OneVoice
  BY DEF IInv, OneLive, ClipsAreLive, OneVoice, Speech
<1>. QED BY <1>1, Invariance, PTL

(* Nothing asked for before a stop() is heard after it.                    *)
THEOREM NothingOldIsSpokenEver == AudioSpec => []NothingOldIsSpoken
<1>1. IInv => NothingOldIsSpoken
  BY DEF IInv, NumbersAreCurrent, ClipsAreLive, NothingOldIsSpoken, Speech
<1>. QED BY <1>1, Invariance, PTL

-----------------------------------------------------------------------------
(* Refinement *)

(* What the announcer's state is when no announcement is live, when the    *)
(* live one sounds, and when it has not begun.                             *)
View ==
    /\ sounding \subseteq live /\ Speech(live) = {} => Pending = queue /\ Voice = None
    /\ \A c : sounding \subseteq live /\ Speech(live) = {c} =>
          IF c \in sounding
          THEN Pending = queue /\ Voice = c.no
          ELSE Pending = <<c.no>> \o queue /\ Voice = None

LEMMA ViewHolds == View
<1>1. ASSUME sounding \subseteq live, Speech(live) = {}
      PROVE  Pending = queue /\ Voice = None
  <2>1. ToBeHeard = {} /\ Heard = {}
    BY <1>1 DEF ToBeHeard, Heard, Speech
  <2>. QED BY <2>1 DEF Pending, Voice
<1>2. ASSUME NEW c, sounding \subseteq live, Speech(live) = {c}, c \in sounding
      PROVE  Pending = queue /\ Voice = c.no
  <2>1. ToBeHeard = {} /\ Heard = {c}
    BY <1>2 DEF ToBeHeard, Heard, Speech
  <2>2. (CHOOSE x \in {c} : TRUE) = c
    OBVIOUS
  <2>. QED BY <2>1, <2>2 DEF Pending, Voice
<1>3. ASSUME NEW c, sounding \subseteq live, Speech(live) = {c}, c \notin sounding
      PROVE  Pending = <<c.no>> \o queue /\ Voice = None
  <2>1. ToBeHeard = {c} /\ Heard = {}
    BY <1>3 DEF ToBeHeard, Heard, Speech
  <2>2. (CHOOSE x \in {c} : TRUE) = c
    OBVIOUS
  <2>. QED BY <2>1, <2>2 DEF Pending, Voice
<1>. QED BY <1>1, <1>2, <1>3 DEF View

LEMMA ViewNext == View'
BY ViewHolds, PTL

(* The announcer as a case of the invariant: at most one announcement.     *)
LEMMA LiveCases ==
    ASSUME IInv
    PROVE  \/ Speech(live) = {} /\ Pending = queue /\ Voice = None
           \/ \E c \in Speech(live) :
                 /\ Speech(live) = {c} /\ c \in Clip
                 /\ IF c \in sounding
                    THEN Pending = queue /\ Voice = c.no
                    ELSE Pending = <<c.no>> \o queue /\ Voice = None
<1>1. CASE Speech(live) = {}
  BY <1>1, ViewHolds DEF View, IInv, ClipsAreLive
<1>2. CASE Speech(live) # {}
  <2>1. PICK c \in Speech(live) : Speech(live) = {c}
    BY <1>2 DEF IInv, OneLive
  <2>2. c \in Clip
    BY DEF IInv, AudioTypeOK, Speech
  <2>. QED BY <2>1, <2>2, ViewHolds DEF View, IInv, ClipsAreLive
<1>. QED BY <1>1, <1>2

(* Taking the first of q leaves the announcer with q pending.              *)
LEMMA DrainView ==
    ASSUME AudioTypeOK, NEW q \in Seq(Nat), NEW clips, NEW begun, Drain(q, clips, begun),
           Speech(clips) = {}, sounding' \subseteq clips
    PROVE  Pending' = q /\ Voice' = None
<1>1. CASE q = <<>>
  BY <1>1, ViewNext DEF Drain, View
<1>2. CASE q # <<>>
  <2>. DEFINE n == NextClip(q)
  <2>1. queue' = Tail(q) /\ live' = clips \cup {n}
    BY <1>2 DEF Drain, Play
  <2>2. n.kind = "announcement" /\ n.no = Head(q)
    BY <1>2, NextClipType
  <2>. HIDE DEF n
  <2>3. Speech(live') = {n} /\ n \notin sounding' /\ sounding' \subseteq live'
    BY <2>1, <2>2 DEF Speech
  <2>4. Pending' = <<n.no>> \o queue' /\ Voice' = None
    BY <2>3, ViewNext DEF View
  <2>5. <<Head(q)>> \o Tail(q) = q
    BY <1>2
  <2>. QED BY <2>1, <2>2, <2>4, <2>5
<1>. QED BY <1>1, <1>2

AStep == [A!Next]_<<Pending, Voice>>

(* A settled announcement was the voice, or the next to be heard.          *)
LEMMA SettleView ==
    ASSUME IInv, NEW clip, NEW begun, Settle(clip, begun), sounding' = sounding \ {clip}
    PROVE  AStep
<1>0. AudioTypeOK /\ OneLive /\ ClipsAreLive
  BY DEF IInv
<1>1. CASE clip \in Speech(live)
  <2>1. Speech(live) = {clip} /\ Speech(live \ {clip}) = {} /\ clip \in Clip
    BY <1>0, <1>1 DEF OneLive, AudioTypeOK, Speech
  <2>2. Drain(queue, live \ {clip}, begun) /\ sounding' \subseteq live \ {clip}
    BY <1>0, <1>1 DEF Settle, ClipsAreLive
  <2>3. Pending' = queue /\ Voice' = None
    BY <1>0, <2>1, <2>2, DrainView DEF AudioTypeOK
  <2>4. clip.no \in Nat /\ queue \in Seq(Nat)
    BY <1>0, <2>1 DEF Clip, AudioTypeOK
  <2>5. CASE clip \in sounding
    <3>1. Pending = queue /\ Voice = clip.no
      BY <1>0, <2>1, <2>5, ViewHolds DEF View, ClipsAreLive
    <3>. QED BY <2>3, <2>4, <3>1, AudioQueueAssumption DEF AStep, A!Next, A!FallSilent
  <2>6. CASE clip \notin sounding
    <3>1. Pending = <<clip.no>> \o queue /\ Voice = None
      BY <1>0, <2>1, <2>6, ViewHolds DEF View, ClipsAreLive
    <3>2. Pending # <<>> /\ Tail(Pending) = queue
      BY <2>4, <3>1
    <3>. QED BY <2>3, <3>1, <3>2 DEF AStep, A!Next, A!Skip
  <2>. QED BY <2>5, <2>6
<1>2. CASE clip \notin Speech(live)
  <2>1. live' = live \ {clip} /\ queue' = queue
    BY <1>2 DEF Settle
  <2>2. Speech(live') = Speech(live) /\ sounding' \subseteq live'
        /\ \A c \in Speech(live) : c \in sounding' <=> c \in sounding
    BY <1>0, <1>2, <2>1 DEF ClipsAreLive, Speech
  <2>3. Pending' = Pending /\ Voice' = Voice
    BY <2>1, <2>2, LiveCases, ViewNext DEF View
  <2>. QED BY <2>3 DEF AStep
<1>. QED BY <1>1, <1>2

(* A step that leaves the announcements alone is not seen.                 *)
LEMMA UnseenView ==
    ASSUME IInv, queue' = queue, Speech(live') = Speech(live), sounding' \subseteq live',
           \A c \in Speech(live) : c \in sounding' <=> c \in sounding
    PROVE  AStep
<1>1. Pending' = Pending /\ Voice' = Voice
  BY LiveCases, ViewNext DEF View
<1>. QED BY <1>1 DEF AStep

LEMMA AnnounceView == ASSUME IInv, PlayAnnouncement PROVE AStep
<1>0. AudioTypeOK /\ ClipsAreLive
  BY DEF IInv
<1>. DEFINE n == called + 1
<1>1. n \in 1..MaxCalls /\ n \in Nat /\ queue \in Seq(Nat) /\ sounding' = sounding
  BY <1>0, AudioQueueAssumption DEF PlayAnnouncement, AudioTypeOK
<1>2. SUFFICES Pending' = Append(Pending, n) /\ Voice' = Voice
  BY <1>1 DEF AStep, A!Next, A!Announce
<1>3. CASE running
  <2>1. queue' = Append(queue, n) /\ live' = live
    BY <1>3 DEF PlayAnnouncement, Enqueue
  <2>2. PICK c \in Speech(live) :
          /\ Speech(live) = {c} /\ c \in Clip
          /\ IF c \in sounding
             THEN Pending = queue /\ Voice = c.no
             ELSE Pending = <<c.no>> \o queue /\ Voice = None
    BY <1>0, <1>3, LiveCases DEF AudioTypeOK
  <2>3. IF c \in sounding
        THEN Pending' = queue' /\ Voice' = c.no
        ELSE Pending' = <<c.no>> \o queue' /\ Voice' = None
    BY <1>0, <1>1, <2>1, <2>2, ViewNext DEF View, ClipsAreLive
  <2>4. <<c.no>> \o Append(queue, n) = Append(<<c.no>> \o queue, n)
    <3>1. <<c.no>> \in Seq(Nat) /\ queue \in Seq(Nat) /\ n \in Nat
      BY <1>0, <1>1, <2>2 DEF AudioTypeOK, Clip
    <3>. QED BY <3>1
  <2>. QED BY <2>1, <2>2, <2>3, <2>4
<1>4. CASE ~running
  <2>1. Drain(Append(queue, n), live, starting)
    BY <1>4 DEF PlayAnnouncement, Enqueue
  <2>2. Speech(live) = {} /\ sounding' \subseteq live
    BY <1>0, <1>1, <1>4 DEF AudioTypeOK, ClipsAreLive
  <2>3. Append(queue, n) \in Seq(Nat)
    BY <1>1
  <2>4. Pending' = Append(queue, n) /\ Voice' = None
    BY <1>0, <2>1, <2>2, <2>3, DrainView
  <2>. QED BY <2>2, <2>4, LiveCases
<1>. QED BY <1>3, <1>4

LEMMA BeginView == ASSUME IInv, NEW clip \in starting, Begin(clip) PROVE AStep
<1>0. AudioTypeOK /\ OneLive /\ ClipsAreLive
  BY DEF IInv
<1>1. /\ clip \in live /\ clip \notin sounding /\ sounding' = sounding \cup {clip}
      /\ live' = live /\ queue' = queue /\ queue \in Seq(Nat)
  BY <1>0 DEF Begin, OnBegin, LeavePending, ClipsAreLive, AudioTypeOK
<1>2. CASE clip \in Speech(live)
  <2>1. Speech(live) = {clip} /\ clip.no \in Nat
    BY <1>0, <1>2 DEF OneLive, AudioTypeOK, Clip, Speech
  <2>2. Pending = <<clip.no>> \o queue /\ Voice = None
    BY <1>0, <1>1, <2>1, ViewHolds DEF View, ClipsAreLive
  <2>3. Pending' = queue /\ Voice' = clip.no
    BY <1>0, <1>1, <2>1, ViewNext DEF View, ClipsAreLive
  <2>4. Pending # <<>> /\ Head(Pending) = clip.no /\ Tail(Pending) = queue
    BY <1>1, <2>1, <2>2
  <2>. QED BY <2>2, <2>3, <2>4 DEF AStep, A!Next, A!Speak
<1>3. CASE clip \notin Speech(live)
  BY <1>0, <1>1, <1>3, UnseenView DEF ClipsAreLive
<1>. QED BY <1>2, <1>3

LEMMA SettlersView ==
    ASSUME IInv,
           \/ \E clip \in starting : Refuse(clip)
           \/ \E clip \in live : Fail(clip)
           \/ \E clip \in sounding : End(clip)
    PROVE  AStep
<1>1. ASSUME NEW clip \in starting, Refuse(clip) PROVE AStep
  <2>1. Settle(clip, starting \ {clip}) /\ sounding' = sounding \ {clip}
    BY <1>1 DEF Refuse, OnRefusal, IInv, ClipsAreLive
  <2>. QED BY <2>1, SettleView
<1>2. ASSUME NEW clip \in live, Fail(clip) PROVE AStep
  BY <1>2, SettleView DEF Fail
<1>3. ASSUME NEW clip \in sounding, End(clip) PROVE AStep
  BY <1>3, SettleView DEF End
<1>. QED BY <1>1, <1>2, <1>3

LEMMA StopView == ASSUME IInv, Stop PROVE AStep
<1>1. queue' = <<>> /\ live' = {} /\ sounding' = {}
  BY DEF Stop, Stopped, IInv, ClipsAreLive
<1>2. Speech(live') = {} /\ sounding' \subseteq live'
  BY <1>1 DEF Speech
<1>3. Pending' = <<>> /\ Voice' = None
  BY <1>1, <1>2, ViewNext DEF View
<1>. QED BY <1>3 DEF AStep, A!Next, A!Silence

LEMMA UnlockView == ASSUME IInv, NEW tap \in BOOLEAN, Unlock(tap) PROVE AStep
<1>. DEFINE clip == [kind |-> "probe", no |-> probes + 1, refused |-> ~allowed']
<1>1. clip.kind = "probe" /\ live' = live \cup {clip}
  BY DEF Unlock
<1>. HIDE DEF clip
<1>2. Speech(live') = Speech(live) /\ sounding' \subseteq live' /\ sounding' = sounding
      /\ queue' = queue
  BY <1>1 DEF Unlock, IInv, ClipsAreLive, Speech
<1>. QED BY <1>2, UnseenView

(* The queue over the browser's clips implements the announcer the board   *)
(* relies on: every step is one of the announcer's, or one it does not see.*)
THEOREM AnnouncerImplemented == AudioSpec => ImplementsAnnouncer
<1>1. AudioInit => A!Init
  <2>1. ASSUME AudioInit PROVE sounding \subseteq live /\ Speech(live) = {} /\ queue = <<>>
    BY <2>1 DEF AudioInit, Speech
  <2>. QED BY <2>1, ViewHolds DEF View, A!Init
<1>2. IInv /\ [AudioNext]_audioVars => AStep
  <2>. SUFFICES ASSUME IInv, [AudioNext]_audioVars PROVE AStep
    OBVIOUS
  <2>1. CASE UNCHANGED audioVars
    BY <2>1, UnseenView DEF audioVars, IInv, ClipsAreLive
  <2>2. CASE AudioNext
    BY <2>2, AnnounceView, StopView, UnlockView, BeginView, SettlersView DEF AudioNext, Progress
  <2>. QED BY <2>1, <2>2
<1>3. IInv /\ [AudioNext]_audioVars => [A!Next]_<<Pending, Voice>>
  BY <1>2 DEF AStep
<1>. QED BY <1>1, <1>3, Invariance, PTL DEF AudioSpec, ImplementsAnnouncer, A!Spec

(* The same of the announcements of a screen beside its board.             *)
THEOREM BoardsAnnounce == BoardsSpec => ImplementsAnnouncer
<1>1. BoardsInit => AudioInit
  BY DEF BoardsInit
<1>2. [BoardsNext]_boardsVars => [AudioNext]_audioVars
  BY DEF BoardsNext, OnBoard, OnAudio, boardsVars
<1>3. BoardsSpec => AudioSpec
  BY <1>1, <1>2, PTL DEF BoardsSpec, AudioSpec
<1>. QED BY <1>3, AnnouncerImplemented

-----------------------------------------------------------------------------
(* The board *)

LEMMA DeliverPanel == ASSUME PanelIsCurrent, Deliver PROVE PanelIsCurrent'
<1>1. booted' = booted
  BY DEF Deliver
<1>2. PICK e : \/ ProjectCalled(e) \/ ProjectUpdated(e) \/ ProjectTransferred(e)
               \/ ProjectReset(e) \/ ProjectOther(e)
  BY DEF Deliver
<1>3. CASE ProjectReset(e)
  BY <1>1, <1>3 DEF ProjectReset, PanelIsCurrent
<1>4. CASE ~ProjectReset(e)
  <2>1. lastActive' = lastActive /\ countersServing' = countersServing
    BY <1>2, <1>4 DEF ProjectCalled, ProjectUpdated, ProjectTransferred, ProjectOther
  <2>. QED BY <1>1, <2>1 DEF PanelIsCurrent
<1>. QED BY <1>3, <1>4

(* The counters' panel always shows the last rows read, with the counters  *)
(* and names known so far: neither order of the two answers the board      *)
(* boots with, nor a reset, leaves it with the rows or names of before.    *)
THEOREM PanelStaysCurrent == Spec => []PanelIsCurrent
<1>1. Init => PanelIsCurrent
  BY DEF Init, BoardInit, PanelIsCurrent
<1>2. PanelIsCurrent /\ [Next]_vars => PanelIsCurrent'
  <2>. SUFFICES ASSUME PanelIsCurrent, [Next]_vars PROVE PanelIsCurrent'
    OBVIOUS
  <2>1. CASE Deliver
    BY <2>1, DeliverPanel
  <2>2. CASE BoardLoaded
    BY <2>2 DEF BoardLoaded, PanelIsCurrent
  <2>3. CASE BootLoaded
    BY <2>3 DEF BootLoaded, NamePanel, PanelIsCurrent
  <2>4. CASE UNCHANGED panel
    BY <2>4 DEF panel, PanelIsCurrent
  <2>5. CASE Requests
    <3>1. UNCHANGED panel
      BY <2>5 DEF Requests, CreateTicket, StartServing, Transfer, Call, Leave, ResetDaily,
                  Commit, display
    <3>. QED BY <2>4, <3>1
  <2>6. CASE Dispatching \/ Connect \/ DebounceFires \/ IntervalFires \/ ReadActive
             \/ ReadWaiting \/ FetchFails \/ Disconnect \/ ServerRestarts \/ UNCHANGED vars
    <3>1. UNCHANGED panel
      BY <2>6 DEF Dispatching, Dispatch, Connect, DebounceFires, IntervalFires, ReadActive,
                  ReadWaiting, FetchFails, Disconnect, ServerRestarts, vars, display
    <3>. QED BY <2>4, <3>1
  <2>. QED BY <2>1, <2>2, <2>3, <2>5, <2>6 DEF Next
<1>. QED BY <1>1, <1>2, PTL DEF Spec

-----------------------------------------------------------------------------
(* What the board, its reads and the events on their way are made of.      *)
Told ==
    {e \in Event : e.type = "TICKET_CALLED" => e.id \in Ticket /\ e.counter \in Counter}

Fetched ==
    [active : {Null} \cup Seq(Row), waiting : {Null} \cup SUBSET WaitingRow]

ServerOK ==
    /\ status \in [Ticket -> Status] /\ number \in [Ticket -> Nat] /\ active \in Seq(Row)
    /\ commits \in 0 .. MaxCommits

WireOK ==
    /\ outbox \subseteq (1 .. MaxCommits) \X Seq(Told)
    /\ channel \in Seq(Told) /\ connected \in BOOLEAN

(* The history is as long as it may be at most.                            *)
DisplayOK ==
    /\ nowServing \in Rows /\ recent \in Seq(Row) /\ Len(recent) <= HistoryLimit
    /\ waiting \subseteq WaitingRow /\ lastActive \in Seq(Row) /\ booted \in BOOLEAN

ReadingOK == refetchDue \in BOOLEAN /\ (fetch # Null => fetch \in Fetched)

BoardIInv == ServerOK /\ WireOK /\ DisplayOK /\ ReadingOK /\ PanelIsCurrent

-----------------------------------------------------------------------------
LEMMA KeptRows ==
    ASSUME NEW rows \in Seq(Row), NEW S
    PROVE  Kept(rows, S) \in Seq(Row) /\ Len(Kept(rows, S)) <= Len(rows)
<1>1. Kept(rows, S) \in Seq(Row \cap S) /\ IsPart(Kept(rows, S), rows)
  BY KeptIsPart
<1>2. Kept(rows, S) \in Seq(Row)
  BY <1>1
<1>. QED BY <1>1, <1>2, PartIsShorter

LEMMA WithoutRows ==
    ASSUME NEW rows \in Seq(Row), NEW t
    PROVE  Without(rows, t) \in Seq(Row) /\ Len(Without(rows, t)) <= Len(rows)
BY KeptRows DEF Without

LEMMA AtCounterRow ==
    ASSUME NEW rows \in Seq(Row), NEW k
    PROVE  AtCounter(rows, k) \in Rows
<1>. DEFINE own == Kept(rows, {row \in Row : row.counter = k})
<1>1. own \in Seq(Row)
  BY KeptRows
<1>. HIDE DEF own
<1>2. own # <<>> => own[Len(own)] \in Row
  BY <1>1
<1>. QED BY <1>2 DEF AtCounter, Rows, own

LEMMA LatestRow ==
    ASSUME NEW rows \in Seq(Row)
    PROVE  Latest(rows) \in Rows
<1>1. rows # <<>> => rows[Len(rows)] \in Row
  OBVIOUS
<1>. QED BY <1>1 DEF Latest, Rows

LEMMA PanelRows ==
    ASSUME NEW rows \in Seq(Row), NEW named,
           NEW k \in DOMAIN CountersServing(rows, named)
    PROVE  k \in Counter /\ CountersServing(rows, named)[k].row \in Rows
<1>1. ASSUME NEW i \in DOMAIN rows PROVE rows[i].counter \in Counter
  <2>1. rows[i] \in Row
    OBVIOUS
  <2>. QED BY <2>1 DEF Row
<1>2. k \in Counter
  BY <1>1 DEF CountersServing
<1>3. CountersServing(rows, named)[k] = [named |-> named, row |-> AtCounter(rows, k)]
  BY DEF CountersServing
<1>. QED BY <1>2, <1>3, AtCounterRow

(* A row pushed on the history pushes the last one off it.                 *)
LEMMA PushRows ==
    ASSUME NEW row \in Rows, NEW rows \in Seq(Row), Len(rows) <= HistoryLimit
    PROVE  Push(row, rows) \in Seq(Row) /\ Len(Push(row, rows)) <= HistoryLimit
<1>1. CASE row = Null
  BY <1>1 DEF Push
<1>2. CASE row # Null
  <2>. DEFINE longer == <<row>> \o rows
              n == IF Len(longer) > HistoryLimit THEN HistoryLimit ELSE Len(longer)
  <2>1. row \in Row
    BY <1>2 DEF Rows
  <2>2. longer \in Seq(Row) /\ Len(longer) \in Nat
    BY <2>1
  <2>. HIDE DEF longer
  <2>3. n \in Nat /\ n <= HistoryLimit /\ n <= Len(longer)
    BY <2>2, TvBoardAssumption
  <2>. HIDE DEF n
  <2>4. SubSeq(longer, 1, n) \in Seq(Row) /\ Len(SubSeq(longer, 1, n)) = n
    BY <2>2, <2>3
  <2>5. Push(row, rows) = SubSeq(longer, 1, n)
    BY <1>2 DEF Push, longer, n
  <2>. QED BY <2>3, <2>4, <2>5
<1>. QED BY <1>1, <1>2

LEMMA RenumberedRow ==
    ASSUME NEW row \in Rows, NEW e \in Event
    PROVE  Renumbered(row, e) \in Rows /\ (row \in Row => Renumbered(row, e) \in Row)
<1>1. e.number \in Nat
  BY DEF Event
<1>2. ASSUME row \in Row PROVE [row EXCEPT !.number = e.number] \in Row
  BY <1>1, <1>2 DEF Row
<1>. QED BY <1>2 DEF Renumbered, Rows

LEMMA EventsAreTold ==
    ASSUME ServerOK, NEW t \in Ticket
    PROVE  /\ \A s \in Status : Updated(t, s) \in Told
           /\ Created(t) \in Told /\ Transferred(t) \in Told /\ Reset \in Told
           /\ \A k \in Counter : Called(t, k) \in Told
<1>1. number[t] \in Nat /\ number[t] + 1 \in Nat
  BY DEF ServerOK
<1>2. \A s \in Status : Updated(t, s) \in Told
  BY DEF Updated, Told, Event
<1>3. /\ Updated(t, "WAITING") \in Event /\ Updated(t, "CALLING") \in Event
      /\ Updated(t, "CALLING").id = t /\ Updated(Null, "NONE") \in Event
  BY DEF Updated, Event, Status
<1>4. Created(t) \in Event /\ Created(t).type = "TICKET_CREATED"
  BY <1>3 DEF Created, Event
<1>5. Transferred(t) \in Event /\ Transferred(t).type = "TICKET_TRANSFERRED"
  <2>1. ASSUME NEW n \in Nat
        PROVE  /\ [Updated(t, "WAITING") EXCEPT !.type = "TICKET_TRANSFERRED", !.number = n] \in Event
               /\ [Updated(t, "WAITING") EXCEPT !.type = "TICKET_TRANSFERRED",
                                                !.number = n].type = "TICKET_TRANSFERRED"
    BY <1>3 DEF Event
  <2>. QED BY <1>1, <2>1 DEF Transferred
<1>6. Reset \in Event /\ Reset.type = "SYSTEM_RESET"
  BY <1>3 DEF Reset, Event
<1>7. ASSUME NEW k \in Counter PROVE Called(t, k) \in Told
  <2>1. Called(t, k) \in Event /\ Called(t, k).id = t /\ Called(t, k).counter = k
    BY <1>1, <1>3 DEF Called, Event
  <2>. QED BY <2>1 DEF Told
<1>8. Created(t) \in Told /\ Transferred(t) \in Told /\ Reset \in Told
  BY <1>4, <1>5, <1>6 DEF Told
<1>. QED BY <1>2, <1>7, <1>8

LEMMA CommitKeeps ==
    ASSUME BoardIInv, NEW events \in Seq(Told), Commit(events),
           status' \in [Ticket -> Status], number' \in [Ticket -> Nat], active' \in Seq(Row)
    PROVE  BoardIInv'
<1>1. /\ commits' \in 1 .. MaxCommits /\ outbox' = outbox \cup {<<commits', events>>}
      /\ UNCHANGED <<channel, connected, display, reading>>
  BY TvBoardAssumption DEF Commit, BoardIInv, ServerOK
<1>2. <<commits', events>> \in (1 .. MaxCommits) \X Seq(Told)
  BY <1>1
<1>3. ServerOK' /\ WireOK'
  BY <1>1, <1>2 DEF BoardIInv, ServerOK, WireOK
<1>4. DisplayOK' /\ ReadingOK' /\ PanelIsCurrent'
  BY <1>1 DEF BoardIInv, DisplayOK, ReadingOK, PanelIsCurrent, display, panel, reading
<1>. QED BY <1>3, <1>4 DEF BoardIInv

LEMMA RequestsKeep == ASSUME BoardIInv, Requests PROVE BoardIInv'
<1>0. ServerOK /\ \A t : Without(active, t) \in Seq(Row)
  BY WithoutRows DEF BoardIInv, ServerOK
<1>1. ASSUME NEW t \in Ticket, CreateTicket(t) PROVE BoardIInv'
  <2>1. <<Created(t)>> \in Seq(Told)
    BY <1>0, EventsAreTold
  <2>2. status' \in [Ticket -> Status] /\ number' \in [Ticket -> Nat] /\ active' \in Seq(Row)
    BY <1>0, <1>1 DEF CreateTicket, ServerOK, Status
  <2>. QED BY <1>1, <2>1, <2>2, CommitKeeps DEF CreateTicket
<1>2. ASSUME NEW t \in Ticket, StartServing(t) PROVE BoardIInv'
  <2>1. <<Updated(t, "SERVING")>> \in Seq(Told)
    BY <1>0, EventsAreTold DEF Status
  <2>2. Kept(active, {row \in Row : row.id = t}) \in Seq(Row)
    BY <1>0, KeptRows DEF ServerOK
  <2>3. status' \in [Ticket -> Status] /\ number' \in [Ticket -> Nat] /\ active' \in Seq(Row)
    BY <1>0, <1>2, <2>2 DEF StartServing, ServerOK, Status
  <2>. QED BY <1>2, <2>1, <2>3, CommitKeeps DEF StartServing
<1>3. ASSUME NEW t \in Ticket, Transfer(t) PROVE BoardIInv'
  <2>1. <<Updated(t, "WAITING"), Transferred(t)>> \in Seq(Told)
    BY <1>0, EventsAreTold DEF Status
  <2>2. status' \in [Ticket -> Status] /\ active' \in Seq(Row)
    BY <1>0, <1>3 DEF Transfer, ServerOK, Status
  <2>3. number' \in [Ticket -> Nat]
    <3>1. number[t] + 1 \in Nat /\ number' = [number EXCEPT ![t] = number[t] + 1]
      BY <1>0, <1>3 DEF Transfer, ServerOK
    <3>. QED BY <1>0, <3>1 DEF ServerOK
  <2>. QED BY <1>3, <2>1, <2>2, <2>3, CommitKeeps DEF Transfer
<1>4. ASSUME NEW t \in Ticket, NEW k \in Counter, Call(t, k) PROVE BoardIInv'
  <2>. DEFINE events == IF status[t] = "CALLING" THEN <<Called(t, k)>>
                        ELSE <<Updated(t, "CALLING"), Called(t, k)>>
  <2>1. events \in Seq(Told)
    <3>1. Called(t, k) \in Told /\ Updated(t, "CALLING") \in Told
      BY <1>0, EventsAreTold DEF Status
    <3>. QED BY <3>1
  <2>2. [id |-> t, number |-> number[t], counter |-> k] \in Row
    BY <1>0 DEF Row, ServerOK
  <2>3. status' \in [Ticket -> Status] /\ number' \in [Ticket -> Nat] /\ active' \in Seq(Row)
    BY <1>0, <1>4, <2>2 DEF Call, ServerOK, Status
  <2>4. Commit(events)
    BY <1>4 DEF Call
  <2>. HIDE DEF events
  <2>. QED BY <2>1, <2>3, <2>4, CommitKeeps
<1>5. ASSUME NEW t \in Ticket, NEW s \in {"COMPLETED", "SKIPPED", "WAITING"}, Leave(t, s)
      PROVE  BoardIInv'
  <2>1. s \in Status
    BY DEF Status
  <2>2. <<Updated(t, s)>> \in Seq(Told)
    BY <1>0, <2>1, EventsAreTold
  <2>3. status' \in [Ticket -> Status] /\ number' \in [Ticket -> Nat] /\ active' \in Seq(Row)
    BY <1>0, <1>5, <2>1 DEF Leave, ServerOK
  <2>. QED BY <1>5, <2>2, <2>3, CommitKeeps DEF Leave
<1>6. ASSUME NEW old \in SUBSET Ticket, ResetDaily(old) PROVE BoardIInv'
  <2>1. <<Reset>> \in Seq(Told)
    <3>1. Updated(Null, "NONE") \in Event
      BY DEF Updated, Event, Status
    <3>2. Reset \in Event /\ Reset.type = "SYSTEM_RESET"
      BY <3>1 DEF Reset, Event
    <3>3. Reset \in Told
      BY <3>2 DEF Told
    <3>. QED BY <3>3
  <2>2. status' \in [Ticket -> Status] /\ number' \in [Ticket -> Nat]
    BY <1>0, <1>6 DEF ResetDaily, ServerOK, Status
  <2>3. active' \in Seq(Row)
    BY <1>0, <1>6, KeptRows DEF ResetDaily, ServerOK
  <2>. QED BY <1>6, <2>1, <2>2, <2>3, CommitKeeps DEF ResetDaily
<1>. QED BY <1>1, <1>2, <1>3, <1>4, <1>5, <1>6 DEF Requests

LEMMA DeliverKeeps == ASSUME BoardIInv, Deliver PROVE BoardIInv'
<1>. DEFINE e == Head(channel)
<1>0. WireOK /\ DisplayOK /\ PanelIsCurrent
  BY DEF BoardIInv
<1>1. /\ e \in Told /\ channel' = Tail(channel) /\ Tail(channel) \in Seq(Told)
      /\ \/ ProjectCalled(e) \/ ProjectUpdated(e) \/ ProjectTransferred(e)
         \/ ProjectReset(e) \/ ProjectOther(e)
      /\ refetchDue' = TRUE
      /\ UNCHANGED <<server, outbox, connected, booted, fetch, commits>>
  BY <1>0 DEF Deliver, WireOK
<1>. HIDE DEF e
<1>2. e \in Event /\ (e.type = "TICKET_CALLED" => e.id \in Ticket /\ e.counter \in Counter)
  BY <1>1 DEF Told
<1>3. Push(nowServing, recent) \in Seq(Row) /\ Len(Push(nowServing, recent)) <= HistoryLimit
  BY <1>0, PushRows DEF DisplayOK
<1>4. /\ nowServing' \in Rows /\ recent' \in Seq(Row) /\ Len(recent') <= HistoryLimit
      /\ waiting' \subseteq WaitingRow /\ lastActive' \in Seq(Row)
  <2>1. CASE ProjectCalled(e)
    <3>1. [id |-> e.id, number |-> e.number, counter |-> e.counter] \in Row
      BY <1>2, <2>1 DEF ProjectCalled, Row, Event
    <3>. QED BY <1>0, <1>3, <2>1, <3>1 DEF ProjectCalled, DisplayOK, Rows
  <2>2. CASE ProjectUpdated(e)
    BY <1>0, <1>3, <2>2 DEF ProjectUpdated, DisplayOK, Rows
  <2>3. CASE ProjectTransferred(e)
    <3>1. \A i \in DOMAIN recent : Renumbered(recent[i], e) \in Row
      <4>1. \A i \in DOMAIN recent : recent[i] \in Row /\ recent[i] \in Rows
        BY <1>0 DEF DisplayOK, Rows
      <4>. QED BY <1>2, <4>1, RenumberedRow
    <3>2. recent' = [i \in DOMAIN recent |-> Renumbered(recent[i], e)]
      BY <2>3 DEF ProjectTransferred
    <3>3. recent' \in Seq(Row) /\ Len(recent') = Len(recent)
      <4>1. recent \in Seq(Row) /\ DOMAIN recent = 1 .. Len(recent) /\ Len(recent) \in Nat
        BY <1>0 DEF DisplayOK
      <4>. QED BY <3>1, <3>2, <4>1
    <3>4. Renumbered(nowServing, e) \in Rows
      BY <1>0, <1>2, RenumberedRow DEF DisplayOK
    <3>. QED BY <1>0, <2>3, <3>3, <3>4 DEF ProjectTransferred, DisplayOK
  <2>4. CASE ProjectReset(e)
    <3>1. /\ nowServing' = Null /\ recent' = <<>> /\ waiting' = {} /\ lastActive' = <<>>
      BY <2>4 DEF ProjectReset
    <3>2. Len(<<>>) <= HistoryLimit /\ <<>> \in Seq(Row)
      BY TvBoardAssumption
    <3>. QED BY <3>1, <3>2 DEF Rows
  <2>5. CASE ProjectOther(e)
    BY <1>0, <2>5 DEF ProjectOther, DisplayOK
  <2>. QED BY <1>1, <2>1, <2>2, <2>3, <2>4, <2>5
<1>5. DisplayOK'
  BY <1>0, <1>1, <1>4 DEF DisplayOK
<1>6. WireOK'
  BY <1>0, <1>1 DEF WireOK
<1>7. ServerOK' /\ ReadingOK'
  BY <1>1 DEF BoardIInv, ServerOK, ReadingOK, server
<1>8. PanelIsCurrent'
  BY <1>0, DeliverPanel
<1>. QED BY <1>5, <1>6, <1>7, <1>8 DEF BoardIInv

LEMMA BoardLoadedKeeps == ASSUME BoardIInv, BoardLoaded PROVE BoardIInv'
<1>1. fetch \in Fetched /\ fetch.active \in Seq(Row) /\ fetch.waiting \subseteq WaitingRow
  BY DEF BoardLoaded, BoardIInv, ReadingOK, Fetched
<1>2. nowServing' = Latest(fetch.active) /\ Latest(fetch.active) \in Rows
  BY <1>1, LatestRow DEF BoardLoaded, Shown
<1>3. recent' \in Seq(Row) /\ Len(recent') <= HistoryLimit
  <2>1. /\ recent \in Seq(Row) /\ Len(recent) <= HistoryLimit
        /\ recent' = IF nowServing' = Null THEN recent ELSE Without(recent, nowServing'.id)
    BY DEF BoardLoaded, BoardIInv, DisplayOK
  <2>2. /\ Without(recent, nowServing'.id) \in Seq(Row)
        /\ Len(Without(recent, nowServing'.id)) <= Len(recent)
    BY <2>1, WithoutRows
  <2>3. Len(recent) \in Nat /\ Len(Without(recent, nowServing'.id)) \in Nat
    BY <2>1, <2>2
  <2>. QED BY <2>1, <2>2, <2>3, TvBoardAssumption
<1>4. DisplayOK'
  BY <1>1, <1>2, <1>3 DEF BoardLoaded, BoardIInv, DisplayOK
<1>5. ServerOK' /\ WireOK' /\ ReadingOK'
  BY DEF BoardLoaded, BoardIInv, ServerOK, WireOK, ReadingOK, server, wire
<1>6. PanelIsCurrent'
  BY DEF BoardLoaded, PanelIsCurrent
<1>. QED BY <1>4, <1>5, <1>6 DEF BoardIInv

(* A read begins with neither of its answers, and gets them from the rows. *)
LEMMA RefetchReads ==
    ASSUME ReadingOK, Refetch, refetchDue' \in BOOLEAN
    PROVE  ReadingOK'
<1>1. NoRead \in Fetched
  BY DEF NoRead, Fetched
<1>. QED BY <1>1 DEF Refetch, ReadingOK

LEMMA ReadsKeep == ASSUME BoardIInv, ReadActive \/ ReadWaiting PROVE BoardIInv'
<1>1. fetch \in Fetched /\ active \in Seq(Row) /\ Waiting \in SUBSET WaitingRow
  <2>1. Waiting \subseteq WaitingRow
    BY DEF BoardIInv, ServerOK, Waiting, WaitingRow
  <2>. QED BY <2>1 DEF ReadActive, ReadWaiting, BoardIInv, ReadingOK, ServerOK
<1>2. fetch' \in Fetched
  BY <1>1 DEF ReadActive, ReadWaiting, Fetched
<1>3. UNCHANGED <<server, wire, display, refetchDue, commits>>
  BY DEF ReadActive, ReadWaiting
<1>. QED BY <1>2, <1>3 DEF BoardIInv, ServerOK, WireOK, DisplayOK, ReadingOK, PanelIsCurrent,
                           server, wire, display, panel

LEMMA DispatchKeeps == ASSUME BoardIInv, NEW batch \in outbox, Dispatch(batch) PROVE BoardIInv'
<1>1. batch[2] \in Seq(Told)
  BY DEF BoardIInv, WireOK
<1>2. channel \o batch[2] \in Seq(Told)
  BY <1>1 DEF BoardIInv, WireOK
<1>3. WireOK'
  BY <1>2 DEF Dispatch, BoardIInv, WireOK
<1>4. UNCHANGED <<server, display, reading, commits>>
  BY DEF Dispatch
<1>. QED BY <1>3, <1>4 DEF BoardIInv, ServerOK, DisplayOK, ReadingOK, PanelIsCurrent,
                           server, display, panel, reading

LEMMA BootLoadedKeeps == ASSUME BoardIInv, BootLoaded PROVE BoardIInv'
<1>1. PanelIsCurrent'
  BY DEF BootLoaded, NamePanel, PanelIsCurrent
<1>2. UNCHANGED <<server, wire, nowServing, recent, waiting, lastActive, reading, commits>>
      /\ booted' \in BOOLEAN
  BY DEF BootLoaded
<1>. QED BY <1>1, <1>2 DEF BoardIInv, ServerOK, WireOK, DisplayOK, ReadingOK, server, wire, reading

LEMMA LossesKeep ==
    ASSUME BoardIInv, FetchFails \/ Disconnect \/ ServerRestarts
    PROVE  BoardIInv'
<1>1. UNCHANGED <<server, display, refetchDue, commits>>
  BY DEF FetchFails, Disconnect, ServerRestarts, reading
<1>2. WireOK'
  <2>1. <<>> \in Seq(Told)
    OBVIOUS
  <2>. QED BY <2>1 DEF FetchFails, Disconnect, ServerRestarts, BoardIInv, WireOK, wire
<1>3. fetch' = fetch \/ fetch' = Null
  BY DEF FetchFails, Disconnect, ServerRestarts, reading
<1>. QED BY <1>1, <1>2, <1>3 DEF BoardIInv, ServerOK, DisplayOK, ReadingOK, PanelIsCurrent,
                                 server, display, panel

LEMMA TimersKeep ==
    ASSUME BoardIInv, DebounceFires \/ IntervalFires \/ Connect
    PROVE  BoardIInv'
<1>1. UNCHANGED <<server, outbox, channel, display, commits>> /\ connected' \in BOOLEAN
  BY DEF DebounceFires, IntervalFires, Connect, BoardIInv, WireOK, wire
<1>2. ReadingOK'
  <2>1. Refetch /\ refetchDue' \in BOOLEAN /\ ReadingOK
    BY DEF DebounceFires, IntervalFires, Connect, BoardIInv, ReadingOK
  <2>. QED BY <2>1, RefetchReads
<1>. QED BY <1>1, <1>2 DEF BoardIInv, ServerOK, WireOK, DisplayOK, PanelIsCurrent,
                           server, display, panel

LEMMA BoardStepKeeps == BoardIInv /\ [Next]_vars => BoardIInv'
<1>. SUFFICES ASSUME BoardIInv, [Next]_vars PROVE BoardIInv'
  OBVIOUS
<1>1. CASE UNCHANGED vars
  BY <1>1 DEF BoardIInv, ServerOK, WireOK, DisplayOK, ReadingOK, PanelIsCurrent,
              vars, server, wire, display, panel, reading
<1>2. CASE Requests
  BY <1>2, RequestsKeep
<1>3. CASE Dispatching
  BY <1>3, DispatchKeeps DEF Dispatching
<1>4. CASE Deliver
  BY <1>4, DeliverKeeps
<1>5. CASE DebounceFires \/ IntervalFires \/ Connect
  BY <1>5, TimersKeep
<1>6. CASE ReadActive \/ ReadWaiting
  BY <1>6, ReadsKeep
<1>7. CASE BoardLoaded
  BY <1>7, BoardLoadedKeeps
<1>8. CASE BootLoaded
  BY <1>8, BootLoadedKeeps
<1>9. CASE FetchFails \/ Disconnect \/ ServerRestarts
  BY <1>9, LossesKeep
<1>. QED BY <1>1, <1>2, <1>3, <1>4, <1>5, <1>6, <1>7, <1>8, <1>9 DEF Next

-----------------------------------------------------------------------------
LEMMA BoardBegins ==
    ASSUME BoardInit, status \in [Ticket -> Status], number \in [Ticket -> Nat],
           active \in Seq(Row)
    PROVE  BoardIInv
<1>1. recent \in Seq(Row) /\ lastActive \in Seq(Row) /\ Len(recent) <= HistoryLimit
  <2>1. <<>> \in Seq(Row) /\ Len(<<>>) = 0
    OBVIOUS
  <2>. QED BY <2>1, TvBoardAssumption DEF BoardInit
<1>2. channel \in Seq(Told)
  <2>1. <<>> \in Seq(Told)
    OBVIOUS
  <2>. QED BY <2>1 DEF BoardInit
<1>3. commits \in 0 .. MaxCommits
  BY TvBoardAssumption DEF BoardInit
<1>4. NoRead \in Fetched
  BY DEF NoRead, Fetched
<1>5. outbox = {} /\ connected = FALSE /\ waiting = {} /\ booted = FALSE /\ nowServing = Null
      /\ fetch = NoRead /\ refetchDue = FALSE
  BY DEF BoardInit
<1>6. ServerOK /\ WireOK /\ DisplayOK /\ ReadingOK
  BY <1>1, <1>2, <1>3, <1>4, <1>5 DEF ServerOK, WireOK, DisplayOK, ReadingOK, Rows
<1>7. PanelIsCurrent
  BY DEF BoardInit, PanelIsCurrent
<1>. QED BY <1>6, <1>7 DEF BoardIInv

LEMMA EmptyBoardBegins == Init => BoardIInv
<1>. SUFFICES ASSUME Init PROVE BoardIInv
  OBVIOUS
<1>1. BoardInit /\ status \in [Ticket -> Status] /\ number \in [Ticket -> Nat]
  BY DEF Init, Status
<1>2. active \in Seq(Row)
  <2>1. <<>> \in Seq(Row)
    OBVIOUS
  <2>. QED BY <2>1 DEF Init
<1>. QED BY <1>1, <1>2, BoardBegins

LEMMA MidDayBegins == MidDayInit => BoardIInv
<1>. SUFFICES ASSUME MidDayInit PROVE BoardIInv
  OBVIOUS
<1>1. BoardInit /\ status \in [Ticket -> Status] /\ number \in [Ticket -> Nat]
  <2>1. status \in [Ticket -> {"NONE", "WAITING", "CALLING", "SERVING"}]
    BY DEF MidDayInit
  <2>. QED BY <2>1 DEF MidDayInit, Status
<1>2. active \in Seq(Row)
  <2>1. PICK order \in SetToSeqs(Serving), k \in Counter :
           active = [i \in 1..Cardinality(Serving) |->
                        [id |-> order[i], number |-> 0, counter |-> k]]
    BY DEF MidDayInit
  <2>2. order \in [1..Cardinality(Serving) -> Serving]
    BY <2>1 DEF SetToSeqs
  <2>3. Cardinality(Serving) \in Nat
    BY ServingAssumption, FS_CardinalityType
  <2>. DEFINE n == Cardinality(Serving)
  <2>4. order \in [1..n -> Serving] /\ n \in Nat
        /\ active = [i \in 1..n |-> [id |-> order[i], number |-> 0, counter |-> k]]
    BY <2>1, <2>2, <2>3
  <2>. HIDE DEF n
  <2>5. \A i \in 1..n : order[i] \in Ticket
    BY <2>4, ServingAssumption
  <2>6. \A i \in 1..n : [id |-> order[i], number |-> 0, counter |-> k] \in Row
    BY <2>1, <2>5 DEF Row
  <2>. QED BY <2>4, <2>6
<1>. QED BY <1>1, <1>2, BoardBegins

LEMMA BoardIsTyped == BoardIInv => TypeOK
<1>. SUFFICES ASSUME BoardIInv PROVE TypeOK
  OBVIOUS
<1>1. \A S : S \in Seq(Told) => S \in Seq(Event)
  BY DEF Told
<1>2. \A k \in DOMAIN countersServing : k \in Counter /\ countersServing[k].row \in Rows
  BY PanelRows DEF BoardIInv, DisplayOK, PanelIsCurrent
<1>3. \A batch \in outbox : batch \in (1..MaxCommits) \X Seq(Event)
  <2>. SUFFICES ASSUME NEW batch \in outbox PROVE batch \in (1..MaxCommits) \X Seq(Event)
    OBVIOUS
  <2>1. batch \in (1..MaxCommits) \X Seq(Told)
    BY DEF BoardIInv, WireOK
  <2>2. batch[2] \in Seq(Event)
    BY <1>1, <2>1
  <2>. QED BY <2>1, <2>2
<1>4. channel \in Seq(Event)
  BY <1>1 DEF BoardIInv, WireOK
<1>5. fetch # Null => /\ fetch.active = Null \/ fetch.active \in Seq(Row)
                      /\ fetch.waiting = Null \/ fetch.waiting \subseteq WaitingRow
  BY DEF BoardIInv, ReadingOK, Fetched
<1>. QED BY <1>2, <1>3, <1>4, <1>5 DEF BoardIInv, ServerOK, WireOK, DisplayOK, ReadingOK, TypeOK

(* Whatever is requested, lost or overtaken, the board shows rows of       *)
(* tickets, no more history than it may and in its counters' panel the     *)
(* rows it read last; and the audio has one voice and nothing old to say,  *)
(* on a screen of its own.                                                 *)
THEOREM BoardsStayConsistent == BoardsSpec => []BoardsAreConsistent
<1>1. BoardsInit => BoardIInv /\ IInv
  BY MidDayBegins, EmptyBoardBegins, InitIInv DEF BoardsInit
<1>2. ASSUME BoardIInv, IInv, [BoardsNext]_boardsVars PROVE BoardIInv' /\ IInv'
  <2>1. [Next]_vars /\ [AudioNext]_audioVars
    BY <1>2 DEF BoardsNext, OnBoard, OnAudio, boardsVars
  <2>. QED BY <1>2, <2>1, BoardStepKeeps, NextIInv
<1>3. BoardIInv /\ IInv => BoardsAreConsistent
  <2>1. IInv => AudioTypeOK /\ OneVoice /\ NothingOldIsSpoken
    BY DEF IInv, OneLive, ClipsAreLive, NumbersAreCurrent, OneVoice, NothingOldIsSpoken, Speech
  <2>. QED BY <2>1, BoardIsTyped DEF BoardIInv, BoardsAreConsistent
<1>. QED BY <1>1, <1>2, <1>3, PTL DEF BoardsSpec
==============================================================================
