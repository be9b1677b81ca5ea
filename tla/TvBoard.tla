-------------------------------- MODULE TvBoard --------------------------------
(***************************************************************************)
(* The TV board (tv-store.tsx) over core-api: requests commit and their    *)
(* events are broadcast afterwards; the board projects the events it gets, *)
(* and reads the board state again after them, on reconnecting and every   *)
(* thirty seconds.  The two SELECTs of that read, its answer and the       *)
(* events come in any order; connections and answers may be lost.          *)
(***************************************************************************)
EXTENDS Integers, Sequences, Filter

CONSTANTS
    Ticket, Counter, Null,
    HistoryLimit,       \* HISTORY_LIMIT
    MaxCommits,         \* bound: requests committed
    MaxLosses           \* bound: connections, answers and processes lost

ASSUME TvBoardAssumption ==
    /\ Null \notin Ticket \cup Counter
    /\ HistoryLimit \in Nat /\ MaxCommits \in Nat /\ MaxLosses \in Nat

VARIABLES
    \* the server
    status, number,     \* ticket -> its status, and its number (how often re-issued)
    active,             \* the CALLING and SERVING rows by updated_at
    outbox,             \* events of committed requests, not yet broadcast
    channel,            \* frames on their way to the board
    \* the board
    connected,
    nowServing, recent, waiting, lastActive, countersServing,
    booted,             \* counterNameById holds the configured counters
    fetch,              \* the read in flight (inFlightRef), or Null
    refetchDue,         \* the debounce timer runs
    commits, losses     \* history: requests committed, and losses

server  == <<status, number, active>>
wire    == <<outbox, channel, connected>>
panel   == <<lastActive, countersServing, booted>>
display == <<nowServing, recent, waiting, panel>>
reading == <<fetch, refetchDue>>
vars    == <<server, wire, display, reading, commits, losses>>

Status == {"NONE", "WAITING", "CALLING", "SERVING", "SKIPPED", "COMPLETED", "ARCHIVED"}

Row == [id : Ticket, number : Nat, counter : Counter]

WaitingRow == [id : Ticket, number : Nat]

Event ==
    [ type : {"TICKET_CREATED", "TICKET_CALLED", "STATUS_UPDATED", "TICKET_TRANSFERRED",
              "SYSTEM_RESET"},
      id : Ticket \cup {Null}, number : Nat, counter : Counter \cup {Null},
      to : Status ]

-----------------------------------------------------------------------------
(* The server *)

Waiting == {[id |-> t, number |-> number[t]] : t \in {u \in Ticket : status[u] = "WAITING"}}

Without(rows, t) == Kept(rows, {row \in Row : row.id # t})

(* The event that t's status became s; other events are made from it.      *)
Updated(t, s) ==
    [type |-> "STATUS_UPDATED", id |-> t, number |-> 0, counter |-> Null, to |-> s]

Created(t) == [Updated(t, "WAITING") EXCEPT !.type = "TICKET_CREATED"]

Called(t, k) ==
    [Updated(t, "CALLING") EXCEPT !.type = "TICKET_CALLED", !.number = number[t], !.counter = k]

Transferred(t) ==
    [Updated(t, "WAITING") EXCEPT !.type = "TICKET_TRANSFERRED", !.number = number[t] + 1]

Reset == [Updated(Null, "NONE") EXCEPT !.type = "SYSTEM_RESET"]

(* A request commits; then it still has its events to dispatch.            *)
Commit(events) ==
    /\ commits < MaxCommits
    /\ commits' = commits + 1
    /\ outbox' = outbox \cup {<<commits', events>>}
    /\ UNCHANGED <<channel, connected, display, reading, losses>>

CreateTicket(t) ==
    /\ status[t] = "NONE"
    /\ status' = [status EXCEPT ![t] = "WAITING"]
    /\ Commit(<<Created(t)>>)
    /\ UNCHANGED <<number, active>>

(* Into CALLING, from the queue, a skip, or (a re-announcement, which does *)
(* not change the status) from CALLING.                                    *)
Call(t, k) ==
    /\ status[t] \in {"WAITING", "SKIPPED", "CALLING"}
    /\ status' = [status EXCEPT ![t] = "CALLING"]
    /\ active' = Append(Without(active, t), [id |-> t, number |-> number[t], counter |-> k])
    /\ Commit(IF status[t] = "CALLING" THEN <<Called(t, k)>>
              ELSE <<Updated(t, "CALLING"), Called(t, k)>>)
    /\ UNCHANGED number

StartServing(t) ==
    /\ status[t] = "CALLING"
    /\ status' = [status EXCEPT ![t] = "SERVING"]
    /\ active' = Without(active, t) \o Kept(active, {row \in Row : row.id = t})
    /\ Commit(<<Updated(t, "SERVING")>>)
    /\ UNCHANGED number

(* Off the active rows: completed, skipped or back in the queue.           *)
Leave(t, s) ==
    /\ <<status[t], s>> \in {<<"SERVING", "COMPLETED">>, <<"CALLING", "SKIPPED">>,
                             <<"CALLING", "WAITING">>}
    /\ status' = [status EXCEPT ![t] = s]
    /\ active' = Without(active, t)
    /\ Commit(<<Updated(t, s)>>)
    /\ UNCHANGED number

Transfer(t) ==
    /\ status[t] \in {"WAITING", "CALLING", "SERVING", "SKIPPED"}
    /\ status' = [status EXCEPT ![t] = "WAITING"]
    /\ number' = [number EXCEPT ![t] = @ + 1]
    /\ active' = Without(active, t)
    /\ Commit(<<Updated(t, "WAITING"), Transferred(t)>>)

(* The tickets of earlier days go to the archive.                          *)
ResetDaily(old) ==
    /\ \A t \in old : status[t] # "NONE"
    /\ status' = [t \in Ticket |-> IF t \in old THEN "ARCHIVED" ELSE status[t]]
    /\ active' = Kept(active, {row \in Row : row.id \notin old})
    /\ Commit(<<Reset>>)
    /\ UNCHANGED number

Requests ==
    \/ \E t \in Ticket :
          \/ CreateTicket(t) \/ StartServing(t) \/ Transfer(t)
          \/ \E k \in Counter : Call(t, k)
          \/ \E s \in {"COMPLETED", "SKIPPED", "WAITING"} : Leave(t, s)
    \/ \E old \in SUBSET Ticket : ResetDaily(old)

(* publish(): one request's events in one go, to the clients that are open.*)
Dispatch(batch) ==
    /\ outbox' = outbox \ {batch}
    /\ channel' = IF connected THEN channel \o batch[2] ELSE channel
    /\ UNCHANGED <<server, connected, display, reading, commits, losses>>

-----------------------------------------------------------------------------
(* Reading the board state *)

NoRead == [active |-> Null, waiting |-> Null]

(* refetchBoard: one fetch at a time.                                      *)
Refetch == fetch' = IF fetch = Null THEN NoRead ELSE fetch

(* GetBoardStateUseCase: two SELECTs, each on a connection of its own.     *)
ReadActive ==
    /\ fetch # Null /\ fetch.active = Null
    /\ fetch' = [fetch EXCEPT !.active = active]
    /\ UNCHANGED <<server, wire, display, refetchDue, commits, losses>>

ReadWaiting ==
    /\ fetch # Null /\ fetch.waiting = Null
    /\ fetch' = [fetch EXCEPT !.waiting = Waiting]
    /\ UNCHANGED <<server, wire, display, refetchDue, commits, losses>>

(* toCountersServing: every configured counter and any with an active row, *)
(* with the one touched last.                                              *)
AtCounter(rows, k) ==
    LET own == Kept(rows, {row \in Row : row.counter = k})
    IN  IF own = <<>> THEN Null ELSE own[Len(own)]

CountersServing(rows, named) ==
    [ k \in (IF named THEN Counter ELSE {}) \cup {rows[i].counter : i \in DOMAIN rows} |->
        [named |-> named, row |-> AtCounter(rows, k)] ]

Latest(rows) == IF rows = <<>> THEN Null ELSE rows[Len(rows)]

(* What a read of these rows puts in the middle of the board.  (Mutant: a  *)
(* read without rows leaves there what was there.)                         *)
ShownOrKept(rows) == IF rows = <<>> THEN nowServing ELSE Latest(rows)

Shown(rows) == Latest(rows)

(* BOARD_LOADED.                                                           *)
BoardLoaded ==
    /\ fetch # Null /\ fetch.active # Null /\ fetch.waiting # Null
    /\ fetch' = Null
    /\ nowServing' = Shown(fetch.active)
    /\ recent' = IF nowServing' = Null THEN recent ELSE Without(recent, nowServing'.id)
    /\ waiting' = fetch.waiting
    /\ lastActive' = fetch.active
    /\ countersServing' = CountersServing(fetch.active, booted)
    /\ UNCHANGED <<server, wire, booted, refetchDue, commits, losses>>

(* A failed read keeps what is shown.                                      *)
FetchFails ==
    /\ fetch # Null /\ losses < MaxLosses
    /\ fetch' = Null
    /\ losses' = losses + 1
    /\ UNCHANGED <<server, wire, display, refetchDue, commits>>

(* The debounce timer, and the interval.                                   *)
DebounceFires ==
    /\ refetchDue
    /\ refetchDue' = FALSE
    /\ Refetch
    /\ UNCHANGED <<server, wire, display, commits, losses>>

IntervalFires ==
    /\ Refetch
    /\ UNCHANGED <<server, wire, display, refetchDue, commits, losses>>

(* The configuration: BOOT_LOADED re-derives the counters' panel with the  *)
(* names (mutant: it does not).  BOOT_ERROR leaves the board as it is, as  *)
(* a configuration that is not answered yet.                               *)
KeepPanel == UNCHANGED countersServing

NamePanel == countersServing' = CountersServing(lastActive, TRUE)

BootLoaded ==
    /\ ~booted /\ booted' = TRUE
    /\ NamePanel
    /\ UNCHANGED <<server, wire, nowServing, recent, waiting, lastActive, reading, commits, losses>>

-----------------------------------------------------------------------------
(* Projecting events *)

(* Mutant: the history is not cut to its limit. *)
PushAll(row, rows) == IF row = Null THEN rows ELSE <<row>> \o rows

Push(row, rows) ==
    LET longer == <<row>> \o rows
    IN  IF row = Null THEN rows
        ELSE SubSeq(longer, 1, IF Len(longer) > HistoryLimit THEN HistoryLimit ELSE Len(longer))

IsShown(t) == nowServing # Null /\ nowServing.id = t

Renumbered(row, e) == IF row # Null /\ row.id = e.id THEN [row EXCEPT !.number = e.number] ELSE row

ProjectCalled(e) ==
    /\ e.type = "TICKET_CALLED"
    /\ recent' = Push(nowServing, recent)
    /\ nowServing' = [id |-> e.id, number |-> e.number, counter |-> e.counter]
    /\ UNCHANGED <<waiting, lastActive, countersServing>>

ProjectUpdated(e) ==
    /\ e.type = "STATUS_UPDATED"
    /\ recent' = IF IsShown(e.id) /\ e.to = "COMPLETED" THEN Push(nowServing, recent) ELSE recent
    /\ nowServing' = IF IsShown(e.id) /\ e.to \in {"COMPLETED", "SKIPPED", "WAITING"}
                     THEN Null ELSE nowServing
    /\ UNCHANGED <<waiting, lastActive, countersServing>>

ProjectTransferred(e) ==
    /\ e.type = "TICKET_TRANSFERRED"
    /\ nowServing' = Renumbered(nowServing, e)
    /\ recent' = [i \in DOMAIN recent |-> Renumbered(recent[i], e)]
    /\ UNCHANGED <<waiting, lastActive, countersServing>>

ProjectReset(e) ==
    /\ e.type = "SYSTEM_RESET"
    /\ nowServing' = Null /\ recent' = <<>> /\ waiting' = {} /\ lastActive' = <<>>
    /\ countersServing' = CountersServing(<<>>, booted)

ProjectOther(e) ==
    /\ e.type = "TICKET_CREATED"
    /\ UNCHANGED <<nowServing, recent, waiting, lastActive, countersServing>>

(* onEvent: projects the event and (re)arms the debounce timer.            *)
Deliver ==
    /\ channel # <<>>
    /\ channel' = Tail(channel)
    /\ LET e == Head(channel)
       IN  \/ ProjectCalled(e) \/ ProjectUpdated(e) \/ ProjectTransferred(e)
           \/ ProjectReset(e) \/ ProjectOther(e)
    /\ refetchDue' = TRUE
    /\ UNCHANGED <<server, outbox, connected, booted, fetch, commits, losses>>

(* onStatus `open': reads at once.                                         *)
Connect ==
    /\ ~connected /\ connected' = TRUE
    /\ Refetch
    /\ UNCHANGED <<server, outbox, channel, display, refetchDue, commits, losses>>

Disconnect ==
    /\ connected /\ connected' = FALSE /\ channel' = <<>>
    /\ losses < MaxLosses /\ losses' = losses + 1
    /\ UNCHANGED <<server, outbox, display, reading, commits>>

(* core-api restarts: what it had not broadcast is never sent.             *)
ServerRestarts ==
    /\ losses < MaxLosses /\ losses' = losses + 1
    /\ outbox' = {} /\ channel' = <<>> /\ connected' = FALSE
    /\ fetch' = Null
    /\ UNCHANGED <<server, display, refetchDue, commits>>

-----------------------------------------------------------------------------
BoardInit ==
    /\ outbox = {} /\ channel = <<>> /\ connected = FALSE
    /\ nowServing = Null /\ recent = <<>> /\ waiting = {} /\ lastActive = <<>>
    /\ booted = FALSE
    /\ countersServing = CountersServing(<<>>, FALSE)
    /\ fetch = NoRead /\ refetchDue = FALSE
    /\ commits = 0 /\ losses = 0

Init ==
    /\ status = [t \in Ticket |-> "NONE"] /\ number = [t \in Ticket |-> 0] /\ active = <<>>
    /\ BoardInit

Dispatching == \E batch \in outbox : Dispatch(batch)

Next ==
    \/ Requests \/ Dispatching
    \/ Deliver \/ Connect \/ DebounceFires \/ IntervalFires
    \/ ReadActive \/ ReadWaiting \/ BoardLoaded
    \/ BootLoaded
    \/ FetchFails \/ Disconnect \/ ServerRestarts

Spec == Init /\ [][Next]_vars

(* Timers fire, statements return, frames arrive and the socket reconnects.*)
Fairness ==
    /\ WF_vars(Dispatching) /\ WF_vars(Deliver) /\ WF_vars(Connect)
    /\ WF_vars(DebounceFires) /\ WF_vars(IntervalFires)
    /\ WF_vars(ReadActive) /\ WF_vars(ReadWaiting) /\ WF_vars(BoardLoaded)

FairSpec == Spec /\ Fairness

-----------------------------------------------------------------------------
(* Properties *)

Rows == {Null} \cup Row

(* The board shows rows of tickets, and no more history than it may.       *)
TypeOK ==
    /\ status \in [Ticket -> Status] /\ number \in [Ticket -> Nat] /\ active \in Seq(Row)
    /\ \A batch \in outbox : batch \in (1..MaxCommits) \X Seq(Event)
    /\ channel \in Seq(Event) /\ connected \in BOOLEAN
    /\ nowServing \in Rows /\ recent \in Seq(Row) /\ Len(recent) <= HistoryLimit
    /\ waiting \subseteq WaitingRow /\ lastActive \in Seq(Row)
    /\ booted \in BOOLEAN /\ refetchDue \in BOOLEAN
    /\ \A k \in DOMAIN countersServing : k \in Counter /\ countersServing[k].row \in Rows
    /\ fetch # Null => /\ fetch.active = Null \/ fetch.active \in Seq(Row)
                       /\ fetch.waiting = Null \/ fetch.waiting \subseteq WaitingRow

(* In whatever order the configuration, the board state and the events     *)
(* come, the counters' panel shows the last rows read, every configured    *)
(* counter once they are known, and their names.                           *)
PanelIsCurrent == countersServing = CountersServing(lastActive, booted)

(* What the board shows is what the server holds, and the ticket being     *)
(* served is not among those called before.                                *)
Synced ==
    /\ nowServing = Latest(active) /\ waiting = Waiting /\ lastActive = active
    /\ nowServing # Null => \A i \in DOMAIN recent : recent[i].id # nowServing.id

(* Once requests and losses end, the board comes to show the server's      *)
(* state for good, whatever was lost, stale or out of order before.        *)
Converges == <>[]Synced

(* What tv-store.tsx says of a tick that finds a read in flight ("a fetch   *)
(* is pending - it covers this tick"): when all events have been projected *)
(* and no read is in flight or due, with nothing lost, the board is right. *)
AtRest ==
    /\ connected /\ losses = 0
    /\ outbox = {} /\ channel = <<>> /\ fetch = Null /\ ~refetchDue

PendingFetchCovers == AtRest => Synced
=============================================================================
