------------------------------ MODULE CallerPanel ------------------------------
(***************************************************************************)
(* The workspace of one counter (queue-store.tsx and its commands) over    *)
(* core-api: requests, those of its staff among them, commit and broadcast *)
(* afterwards; the panel projects the events onto its three lists and      *)
(* reads them again when an event cannot be projected.  State set by an    *)
(* event is seen by effects and buttons only once React has rendered it.   *)
(***************************************************************************)
EXTENDS Integers, FiniteSets, SequencesExt, Filter

CONSTANTS
    Ticket, Category, Null,
    Mine, Other,        \* the counter of the panel, another one
    Serves,             \* counter -> the categories it serves
    Flow,               \* the edges of the state machine
    Custom,             \* its states beside the canonical ones
    MaxReads,           \* bound: reads in flight at once
    MaxCommits,         \* bound: requests committed, and in calm
    MaxCalmCommits,
    MaxTaps,            \* bound: taps of the staff
    MaxLosses,          \* bound: connections, answers and processes lost
    MaxMoves            \* bound: all these together, when not calm

ASSUME CallerPanelAssumption ==
    /\ Null \notin Ticket \cup Category \cup {Mine, Other}
    /\ Serves \in [{Mine, Other} -> SUBSET Category]
    /\ Custom \cap {"NONE", "WAITING", "SKIPPED", "COMPLETED", "ARCHIVED"} = {}
    /\ {MaxReads, MaxCommits, MaxCalmCommits, MaxTaps, MaxLosses, MaxMoves} \subseteq Nat

VARIABLES
    row,                \* the ticket table
    queue,              \* the WAITING tickets by waiting_order
    touched,            \* the other tickets by updated_at
    outbox, frames,     \* events not yet broadcast, and those on their way
    connected,
    panel,              \* the state of the store
    screen,             \* the state last rendered
    reads,              \* snapshots on their way
    running, busy,      \* runner -> its command, and the one rendered as pending
    requested,          \* commands on their way to the server
    calm,               \* each request waits for the events of the one before
    commits, taps, losses, \* history: requests, taps and losses
    batched,            \* history: stale fell and rose between two renders
    unseen              \* history: re-queued elsewhere since the last snapshot

server == <<row, queue, touched>>
wire   == <<outbox, frames, connected>>
client == <<panel, screen, reads>>
staff  == <<running, busy, requested, taps>>
past   == <<calm, losses, batched>>
callerVars == <<server, wire, client, staff, past, commits, unseen>>

Counters == {Mine, Other}
MyCategories == Serves[Mine]
InProgress == {"CALLING", "SERVING"} \cup Custom
TicketStatus == {"NONE", "WAITING", "SKIPPED", "COMPLETED", "ARCHIVED"} \cup InProgress

(* What a rule of a flow may name: NONE and ARCHIVED are no states of its   *)
(* schema, but the row not being there yet, or no longer.                  *)
FlowStates == {"WAITING", "SKIPPED", "COMPLETED"} \cup InProgress

ASSUME FlowAssumption == Flow \subseteq FlowStates \X FlowStates

Row == [status : TicketStatus, category : Category \cup {Null}, counter : Counters \cup {Null}]

WireEvent ==
    [ type : {"TICKET_CREATED", "TICKET_CALLED", "STATUS_UPDATED", "TICKET_TRANSFERRED",
              "SYSTEM_RESET"},
      id : Ticket \cup {Null}, to : TicketStatus, category : Category \cup {Null},
      counter : Counters \cup {Null} ]

(* A line of one of the three lists; the category of a called ticket may   *)
(* not be known.                                                           *)
TicketState == [id : Ticket, category : Category \cup {Null}, status : TicketStatus]

(* The edges offered per ticket; a self edge only where it announces.      *)
TicketEdges ==
    {edge \in Flow \ {<<"WAITING", "CALLING">>} : edge[1] # edge[2] \/ edge[1] = "CALLING"}

Surface == {"controls", "waiting", "skipped"}

Command ==
    [op : {"call-next"}, id : {Null}, to : {Null}]
        \cup [op : {"transition"}, id : Ticket, to : TicketStatus]
        \cup [op : {"reannounce"}, id : Ticket, to : {Null}]
        \cup [op : {"transfer"}, id : Ticket, to : Category]

ASSUME CommandAssumption == Null \notin Command

Request == [nr : Nat, surface : Surface, command : Command, answered : BOOLEAN]

-----------------------------------------------------------------------------
(* Without the ticket.                                                     *)
Less(tickets, t) == Kept(tickets, Ticket \ {t})

-----------------------------------------------------------------------------
(* The server *)

Updated(t, s) ==
    [type |-> "STATUS_UPDATED", id |-> t, to |-> s, category |-> Null, counter |-> Null]

Created(t, c) == [Updated(t, "WAITING") EXCEPT !.type = "TICKET_CREATED", !.category = c]
Called(t, k) == [Updated(t, "CALLING") EXCEPT !.type = "TICKET_CALLED", !.counter = k]
Transferred(t, c) == [Updated(t, "WAITING") EXCEPT !.type = "TICKET_TRANSFERRED", !.category = c]
Reset == [Updated(Null, "NONE") EXCEPT !.type = "SYSTEM_RESET"]

Settled == outbox = {} /\ frames = <<>> /\ reads = <<>> /\ screen = panel

May(count, bound) == ~calm /\ count < bound /\ commits + taps + losses < MaxMoves

MayCommit ==
    /\ May(commits, MaxCommits) \/ (calm /\ commits < MaxCalmCommits)
    /\ calm => connected /\ Settled

Commit(events) ==
    /\ commits' = commits + 1
    /\ outbox' = outbox \cup {<<commits', events>>}

CreateTicket(t, c) ==
    /\ row[t].status = "NONE"
    /\ row' = [row EXCEPT ![t] = [status |-> "WAITING", category |-> c, counter |-> Null]]
    /\ queue' = Append(queue, t)
    /\ Commit(<<Created(t, c)>>)
    /\ UNCHANGED <<touched, unseen>>

(* Into CALLING, by call-next, a transition or, the status staying as it   *)
(* is, a re-announcement.                                                  *)
CallTo(t, k) ==
    /\ row' = [row EXCEPT ![t].status = "CALLING", ![t].counter = k]
    /\ queue' = Less(queue, t)
    /\ touched' = Append(Less(touched, t), t)
    /\ Commit((IF row[t].status = "CALLING" THEN <<>> ELSE <<Updated(t, "CALLING")>>)
                  \o <<Called(t, k)>>)
    /\ UNCHANGED unseen

(* Whichever of the counter's categories is first in turn, its first ticket.*)
CallNext(k) ==
    /\ <<"WAITING", "CALLING">> \in Flow
    /\ \E c \in Serves[k] :
          LET turn == Kept(queue, {t \in Ticket : row[t].category = c})
          IN  turn # <<>> /\ CallTo(turn[1], k)

Reannounce(t, k) == row[t].status = "CALLING" /\ row[t].counter = k /\ CallTo(t, k)

(* Back in the queue, wherever the policy of the edge puts it.             *)
Requeue(t, k) ==
    /\ \E i \in 1 .. Len(queue) + 1 : queue' = InsertAt(queue, i, t)
    /\ touched' = Less(touched, t)
    /\ row' = [row EXCEPT ![t].status = "WAITING", ![t].counter = Null]
    /\ unseen' = IF k = Mine THEN unseen ELSE unseen \cup {t}

Transition(t, s, k) ==
    /\ <<row[t].status, s>> \in TicketEdges
    /\ \/ s = "CALLING" /\ CallTo(t, k)
       \/ s = "WAITING" /\ Requeue(t, k) /\ Commit(<<Updated(t, s)>>)
       \/ /\ s \notin {"CALLING", "WAITING"}
          /\ row' = [row EXCEPT ![t].status = s]
          /\ queue' = Less(queue, t)
          /\ touched' = Append(Less(touched, t), t)
          /\ Commit(<<Updated(t, s)>>)
          /\ UNCHANGED unseen

(* A ticket still waiting keeps its place, another gets back the one it had.*)
Transfer(t, c) ==
    /\ row[t].status \notin {"NONE", "COMPLETED", "ARCHIVED"} /\ row[t].category # c
    /\ row' = [row EXCEPT ![t] = [status |-> "WAITING", category |-> c, counter |-> Null]]
    /\ IF row[t].status = "WAITING" THEN UNCHANGED queue
       ELSE \E i \in 1 .. Len(queue) + 1 : queue' = InsertAt(queue, i, t)
    /\ touched' = Less(touched, t)
    /\ Commit(<<Updated(t, "WAITING"), Transferred(t, c)>>)
    /\ UNCHANGED unseen

ResetDaily(old) ==
    /\ \A t \in old : row[t].status # "NONE"
    /\ row' = [t \in Ticket |->
           IF t \in old THEN [row[t] EXCEPT !.status = "ARCHIVED", !.counter = Null] ELSE row[t]]
    /\ queue' = Kept(queue, Ticket \ old)
    /\ touched' = Kept(touched, Ticket \ old)
    /\ Commit(<<Reset>>)
    /\ UNCHANGED unseen

(* Everyone else: kiosks, the other counter, the same counter on another   *)
(* device, the cron.  A panel acts on the tickets of its own lists.        *)
OthersRequest ==
    /\ MayCommit
    /\ \E t \in Ticket :
          \/ \E c \in Category : CreateTicket(t, c)
          \/ \E k \in Counters :
                \/ CallNext(k)
                \/ Reannounce(t, k)
                \/ /\ row[t].counter \in {k, Null}
                   /\ \/ \E s \in TicketStatus : Transition(t, s, k)
                      \/ \E c \in Serves[k] : Transfer(t, c)
       \/ \E old \in SUBSET Ticket : ResetDaily(old)
    /\ UNCHANGED <<frames, connected, client, staff, past>>

(* A command of the panel's staff commits, unless the server refuses it.   *)
Perform(cmd) ==
    /\ MayCommit
    /\ \/ cmd.op = "call-next" /\ CallNext(Mine)
       \/ cmd.op = "transition" /\ Transition(cmd.id, cmd.to, Mine)
       \/ cmd.op = "reannounce" /\ Reannounce(cmd.id, Mine)
       \/ cmd.op = "transfer" /\ Transfer(cmd.id, cmd.to)

Answer(request) ==
    /\ request \in requested /\ ~request.answered
    /\ requested' = (requested \ {request}) \cup {[request EXCEPT !.answered = TRUE]}

CommandCommits ==
    \E request \in requested :
        /\ Answer(request)
        /\ Perform(request.command)
        /\ UNCHANGED <<frames, connected, client, running, busy, taps, past>>

CommandRefused ==
    \E request \in requested :
        /\ Answer(request)
        /\ UNCHANGED <<server, wire, client, running, busy, taps, past, commits, unseen>>

(* broadcast(): one request's events in one go, to the clients connected.  *)
Dispatch ==
    \E batch \in outbox :
        /\ outbox' = outbox \ {batch}
        /\ frames' = IF connected THEN frames \o batch[2] ELSE frames
        /\ UNCHANGED <<server, connected, client, staff, past, commits, unseen>>

-----------------------------------------------------------------------------
(* The store *)

State(t) == [id |-> t, category |-> row[t].category, status |-> row[t].status]
States(tickets) == [i \in DOMAIN tickets |-> State(tickets[i])]

FindActiveByCounter ==
    States(Kept(touched, {t \in Ticket : row[t].counter = Mine
                                           /\ row[t].status \in {"CALLING", "SERVING"}}))
FindWaiting == States(Kept(queue, {t \in Ticket : row[t].category \in MyCategories}))
FindSkippedByCounter ==
    States(Kept(touched, {t \in Ticket : row[t].counter = Mine /\ row[t].status = "SKIPPED"}))

Ids(list) == [i \in DOMAIN list |-> list[i].id]
Holds(list, t) == \E i \in DOMAIN list : list[i].id = t
Off(list, t) == Kept(list, {entry \in TicketState : entry.id # t})
Entry(list, t) == list[CHOOSE i \in DOMAIN list : list[i].id = t]

(* dedupePrepend.  (Mutant: it does not look for the ticket.)              *)
Prepend(entry, list) == <<entry>> \o list

DedupePrepend(entry, list) == <<entry>> \o Off(list, entry.id)

DedupeAppend(entry, list) ==
    IF Holds(list, entry.id)
    THEN [i \in DOMAIN list |-> IF list[i].id = entry.id THEN entry ELSE list[i]]
    ELSE Append(list, entry)

(* findKnown, for the category that TICKET_CALLED does not carry.          *)
KnownCategory(t) ==
    LET known == panel.waiting \o panel.skipped \o panel.active
    IN  IF Holds(known, t) THEN Entry(known, t).category ELSE Null

(* The panel without the ticket.                                           *)
Without(t) ==
    [panel EXCEPT !.active = Off(@, t), !.waiting = Off(@, t), !.skipped = Off(@, t)]

OnCreated(e) ==
    IF e.category \in MyCategories /\ ~Holds(panel.waiting, e.id)
    THEN [panel EXCEPT !.waiting =
              Append(@, [id |-> e.id, category |-> e.category, status |-> "WAITING"])]
    ELSE panel

(* Called here or elsewhere.  (Mutant: the line is moved as it was.)        *)
OnCalledAsKnown(e) ==
    LET known == SelectSeq(panel.waiting \o panel.skipped \o panel.active,
                           LAMBDA entry : entry.id = e.id)
    IN  [panel EXCEPT !.waiting = Off(@, e.id), !.skipped = Off(@, e.id),
                      !.active = IF e.counter = Mine
                                 THEN SelectSeq(known, LAMBDA x : x = Head(known)) \o Off(@, e.id)
                                 ELSE @]

OnCalled(e) ==
    LET entry == [id |-> e.id, category |-> KnownCategory(e.id), status |-> "CALLING"]
    IN  [panel EXCEPT !.waiting = Off(@, e.id), !.skipped = Off(@, e.id),
                      !.active = IF e.counter = Mine THEN DedupePrepend(entry, @) ELSE @]

(* Back in the queue: at its end until the snapshot says where.            *)
(* (Mutant: no snapshot is asked for.)                                     *)
AppendedOnly(entry) ==
    IF entry.category \in MyCategories
    THEN [Without(entry.id) EXCEPT !.waiting = Append(@, entry)]
    ELSE Without(entry.id)

Requeued(entry) ==
    IF entry.category \in MyCategories
    THEN [Without(entry.id) EXCEPT !.waiting = Append(@, entry), !.stale = TRUE]
    ELSE Without(entry.id)

(* A ticket that is neither active nor skipped here is not looked for.     *)
OnUpdated(e) ==
    LET known == panel.active \o panel.skipped
        entry == [Entry(known, e.id) EXCEPT !.status = e.to]
    IN  IF ~Holds(known, e.id) THEN panel
        ELSE CASE e.to = "COMPLETED" ->
                [panel EXCEPT !.active = Off(@, e.id), !.skipped = Off(@, e.id)]
          [] e.to = "SKIPPED" ->
                [panel EXCEPT !.active = Off(@, e.id), !.skipped = DedupeAppend(entry, @)]
          [] e.to = "WAITING" -> Requeued(entry)
          [] e.to \in InProgress /\ ~Holds(panel.active, e.id) ->
                [panel EXCEPT !.active = DedupePrepend(entry, @), !.skipped = Off(@, e.id)]
          [] OTHER -> [panel EXCEPT !.active =
                [i \in DOMAIN @ |-> IF @[i].id = e.id THEN entry ELSE @[i]]]

OnTransferred(e) == Requeued([id |-> e.id, category |-> e.category, status |-> "WAITING"])

OnReset == [panel EXCEPT !.stale = TRUE]

Deliver ==
    /\ frames # <<>>
    /\ frames' = Tail(frames)
    /\ LET e == Head(frames)
       IN  \/ e.type = "TICKET_CREATED" /\ panel' = OnCreated(e)
           \/ e.type = "TICKET_CALLED" /\ panel' = OnCalled(e)
           \/ e.type = "STATUS_UPDATED" /\ panel' = OnUpdated(e)
           \/ e.type = "TICKET_TRANSFERRED" /\ panel' = OnTransferred(e)
           \/ e.type = "SYSTEM_RESET" /\ panel' = OnReset
    /\ batched' = (batched \/ (panel'.stale /\ ~panel.stale /\ screen.stale))
    /\ UNCHANGED <<server, outbox, connected, screen, reads, staff, calm, losses, commits, unseen>>

(* React renders: the effect reads the snapshot when stale rose since the  *)
(* rendering before.                                                       *)
NoRead == [active |-> Null, waiting |-> Null, skipped |-> Null]

Render ==
    /\ screen # panel \/ busy # running
    /\ screen' = panel /\ busy' = running
    /\ IF panel.stale /\ ~screen.stale
       THEN Len(reads) < MaxReads /\ reads' = Append(reads, NoRead)
       ELSE UNCHANGED reads
    /\ UNCHANGED <<server, wire, panel, running, requested, taps, past, commits, unseen>>

(* GetQueueSnapshotUseCase: three SELECTs, each on a connection of its own.*)
ReadList ==
    \E i \in DOMAIN reads :
        /\ \/ reads[i].active = Null
              /\ reads' = [reads EXCEPT ![i].active = FindActiveByCounter]
           \/ reads[i].waiting = Null
              /\ reads' = [reads EXCEPT ![i].waiting = FindWaiting]
           \/ reads[i].skipped = Null
              /\ reads' = [reads EXCEPT ![i].skipped = FindSkippedByCounter]
        /\ UNCHANGED <<server, wire, panel, screen, staff, past, commits, unseen>>

SnapshotLoaded ==
    \E i \in DOMAIN reads :
        /\ Null \notin {reads[i].active, reads[i].waiting, reads[i].skipped}
        /\ panel' = [active |-> reads[i].active, waiting |-> reads[i].waiting,
                     skipped |-> reads[i].skipped, load |-> "loaded", stale |-> FALSE]
        /\ reads' = RemoveAt(reads, i)
        /\ unseen' = {}
        /\ UNCHANGED <<server, wire, screen, staff, past, commits>>

(* SNAPSHOT_ERROR is not retried.  (Mutant: the signal stays up.)          *)
StillStale == [panel EXCEPT !.load = "error"]

LoadError == [panel EXCEPT !.load = "error", !.stale = FALSE]

SnapshotError ==
    \E i \in DOMAIN reads :
        /\ May(losses, MaxLosses) /\ losses' = losses + 1
        /\ panel' = LoadError
        /\ reads' = RemoveAt(reads, i)
        /\ UNCHANGED <<server, wire, screen, staff, calm, batched, commits, unseen>>

-----------------------------------------------------------------------------
(* The socket *)

(* The store reads nothing when the connection is back.                    *)
Connect ==
    /\ ~connected /\ connected' = TRUE
    /\ UNCHANGED <<server, outbox, frames, client, staff, past, commits, unseen>>

Disconnect ==
    /\ connected /\ connected' = FALSE /\ frames' = <<>>
    /\ May(losses, MaxLosses) /\ losses' = losses + 1
    /\ UNCHANGED <<server, outbox, client, staff, calm, batched, commits, unseen>>

(* core-api restarts: what it had not broadcast is never sent, what it had *)
(* not answered fails.                                                     *)
ServerRestarts ==
    /\ May(losses, MaxLosses) /\ losses' = losses + 1
    /\ outbox' = {} /\ frames' = <<>> /\ connected' = FALSE
    /\ reads' = <<>> /\ panel' = IF reads = <<>> THEN panel ELSE LoadError
    /\ requested' = {[request EXCEPT !.answered = TRUE] : request \in requested}
    /\ UNCHANGED <<server, screen, running, busy, taps, calm, batched, commits, unseen>>

-----------------------------------------------------------------------------
(* The buttons *)

Transitions(t, status) ==
    [op : {"transition"}, id : {t}, to : {s \in TicketStatus : <<status, s>> \in TicketEdges}]

(* The controls act on the first active ticket.  The built-in re-announce  *)
(* stands down when the flow has that edge.                                *)
Controls ==
    IF screen.active = <<>>
    THEN IF <<"WAITING", "CALLING">> \in Flow
         THEN [op : {"call-next"}, id : {Null}, to : {Null}] ELSE {}
    ELSE LET shown == screen.active[1] IN
         Transitions(shown.id, shown.status)
            \cup [op : {"transfer"}, id : {shown.id}, to : MyCategories \ {shown.category}]
            \cup (IF shown.status = "CALLING" /\ <<"CALLING", "CALLING">> \notin Flow
                  THEN [op : {"reannounce"}, id : {shown.id}, to : {Null}] ELSE {})

RowActions(list, status) == UNION {Transitions(list[i].id, status) : i \in DOMAIN list}

Buttons(s) ==
    IF screen.load # "loaded" THEN {}
    ELSE CASE s = "controls" -> Controls
           [] s = "waiting" -> RowActions(screen.waiting, "WAITING")
           [] s = "skipped" -> RowActions(screen.skipped, "SKIPPED")

(* useCommandRunner: the guard is set before the first await, the buttons  *)
(* are disabled by the next rendering.  (Mutant: only the latter.)         *)
IsPendingOnScreen(s) == busy[s] # Null

IsInFlight(s) == running[s] # Null

Tap(s, cmd) ==
    /\ cmd \in Buttons(s) /\ busy[s] = Null
    /\ May(taps, MaxTaps) /\ taps' = taps + 1
    /\ ~IsInFlight(s)
    /\ running' = [running EXCEPT ![s] = cmd]
    /\ requested' = requested \cup
           {[nr |-> taps, surface |-> s, command |-> cmd, answered |-> FALSE]}
    /\ UNCHANGED <<server, wire, client, busy, past, commits, unseen>>

(* The answer, which may overtake the events of its request.               *)
Settle ==
    \E request \in requested :
        /\ request.answered
        /\ requested' = requested \ {request}
        /\ running' = [running EXCEPT ![request.surface] = Null]
        /\ UNCHANGED <<server, wire, client, busy, taps, past, commits, unseen>>

-----------------------------------------------------------------------------
PanelInit ==
    /\ outbox = {} /\ frames = <<>> /\ connected = FALSE
    /\ panel = [active |-> <<>>, waiting |-> <<>>, skipped |-> <<>>,
                load |-> "loading", stale |-> FALSE]
    /\ screen = panel
    /\ reads = <<NoRead>>
    /\ running = [s \in Surface |-> Null] /\ busy = running /\ requested = {}
    /\ calm \in BOOLEAN
    /\ commits = 0 /\ taps = 0 /\ losses = 0 /\ batched = FALSE /\ unseen = {}

CallerInit ==
    /\ row = [t \in Ticket |-> [status |-> "NONE", category |-> Null, counter |-> Null]]
    /\ queue = <<>> /\ touched = <<>>
    /\ PanelInit

CallerNext ==
    \/ OthersRequest \/ CommandCommits \/ CommandRefused
    \/ Dispatch \/ Deliver \/ Connect \/ Disconnect \/ ServerRestarts
    \/ Render \/ ReadList \/ SnapshotLoaded \/ SnapshotError
    \/ \E s \in Surface : \E cmd \in Buttons(s) : Tap(s, cmd)
    \/ Settle

CallerSpec == CallerInit /\ [][CallerNext]_callerVars

-----------------------------------------------------------------------------
(* Properties *)

Lists == {panel.active, panel.waiting, panel.skipped}

CallerTypeOK ==
    /\ row \in [Ticket -> Row] /\ queue \in Seq(Ticket) /\ touched \in Seq(Ticket)
    /\ \A batch \in outbox : batch \in Nat \X Seq(WireEvent)
    /\ frames \in Seq(WireEvent) /\ connected \in BOOLEAN
    /\ \A list \in Lists : list \in Seq(TicketState)
    /\ \A entry \in ToSet(panel.active) : entry.status \in InProgress
    /\ \A entry \in ToSet(panel.waiting) : entry.status = "WAITING"
    /\ \A entry \in ToSet(panel.skipped) : entry.status = "SKIPPED"
    /\ panel.load \in {"loading", "loaded", "error"} /\ panel.stale \in BOOLEAN
    /\ requested \subseteq Request
    /\ \A s \in Surface : {running[s], busy[s]} \subseteq Command \cup {Null}

(* No list shows a ticket twice, whatever order snapshots and events that  *)
(* tell the same come in.                                                  *)
NoTicketTwice == \A list \in Lists : IsInjective(Ids(list))

(* Two taps before the buttons are disabled send one command.              *)
OneCommandPerSurface ==
    \A s \in Surface : Cardinality({request \in requested : request.surface = s}) <= 1

(* The lists hold what belongs in them, once, and a row of buttons is      *)
(* waiting for one answer at most.                                         *)
PanelIsWellFormed == CallerTypeOK /\ NoTicketTwice /\ OneCommandPerSurface

(* When each request's events have arrived before the next request, the    *)
(* panel shows what a reload would: the tickets at the counter, those      *)
(* skipped in the order of the skips, and those waiting in the order of    *)
(* the queue, with their status and category, save the ones re-queued at   *)
(* another counter, which it does not learn of.                            *)
CalmPanelIsExact ==
    calm /\ ~batched /\ Settled /\ panel.load = "loaded" =>
        /\ ToSet(Ids(panel.active)) = ToSet(Ids(FindActiveByCounter))
        /\ Ids(panel.skipped) = Ids(FindSkippedByCounter)
        /\ Kept(Ids(panel.waiting), Ticket \ unseen) = Kept(Ids(FindWaiting), Ticket \ unseen)
        /\ \A list \in Lists : \A i \in DOMAIN list :
               list[i].id \notin unseen => list[i] = State(list[i].id)

(* A panel that is stale is reading the snapshot: what queue-store.tsx     *)
(* says of every signal, and what it does as long as no snapshot and       *)
(* signal are handled between two renderings.                              *)
StaleIsFetched == panel.stale /\ screen = panel => reads # <<>>

StaleIsFetchedUnlessBatched == batched \/ StaleIsFetched
===============================================================================
