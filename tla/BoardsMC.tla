------------------------------- MODULE BoardsMC -------------------------------
(***************************************************************************)
(* The TV board and its announcements, each by itself: the initial state   *)
(* says which of them runs.  The board is opened while the tickets of      *)
(* Serving are being called or served and the others wait or have not been *)
(* issued, so that the requests of a behaviour are the calls and what      *)
(* follows them.                                                           *)
(***************************************************************************)
EXTENDS TvBoard, AudioQueue, SequencesExt

CONSTANT Serving

ASSUME ServingAssumption == Serving \subseteq Ticket /\ IsFiniteSet(Serving)

VARIABLES part, tracked     \* tracked: some announcement

boardsVars == <<part, tracked, vars, audioVars>>

MidDayInit ==
    /\ status \in [Ticket -> {"NONE", "WAITING", "CALLING", "SERVING"}]
    /\ \A t \in Ticket : status[t] \in {"CALLING", "SERVING"} <=> t \in Serving
    /\ number = [t \in Ticket |-> 0]
    /\ active \in {[i \in 1..Cardinality(Serving) |->
                       [id |-> order[i], number |-> 0, counter |-> k]] :
                     order \in SetToSeqs(Serving), k \in Counter}
    /\ BoardInit

(* The part that does not run stays in one of its initial states.          *)
BoardsInit ==
    \/ part = "board" /\ MidDayInit /\ AudioInit /\ ~allowed /\ tracked = 1
    \/ part = "audio" /\ Init /\ AudioInit /\ tracked \in 1..MaxCalls

OnBoard(A1) == part = "board" /\ A1 /\ UNCHANGED <<part, tracked, audioVars>>
OnAudio(A1) == part = "audio" /\ A1 /\ UNCHANGED <<part, tracked, vars>>

BoardsNext == OnBoard(Next) \/ OnAudio(AudioNext)

(* The fairness of each part.                                              *)
BoardsFairness ==
    /\ WF_boardsVars(OnBoard(Dispatching)) /\ WF_boardsVars(OnBoard(Deliver))
    /\ WF_boardsVars(OnBoard(Connect))
    /\ WF_boardsVars(OnBoard(DebounceFires)) /\ WF_boardsVars(OnBoard(IntervalFires))
    /\ WF_boardsVars(OnBoard(ReadActive)) /\ WF_boardsVars(OnBoard(ReadWaiting))
    /\ WF_boardsVars(OnBoard(BoardLoaded))
    /\ WF_boardsVars(OnAudio(Progress))

BoardsSpec == BoardsInit /\ [][BoardsNext]_boardsVars /\ BoardsFairness

(* Converges of TvBoard, where the board runs.                             *)
BoardConverges == part = "board" => Converges

(* EveryAnnouncementEnds of AudioQueue, for the tracked one.               *)
TrackedAnnouncementEnds == Unsettled(tracked) ~> ~Unsettled(tracked)

(* The counters' panel shows the rows read last under the names known; one *)
(* voice at a time, and nothing asked for before a stop.                   *)
BoardsAreConsistent ==
    TypeOK /\ PanelIsCurrent /\ AudioTypeOK /\ OneVoice /\ NothingOldIsSpoken
===============================================================================
