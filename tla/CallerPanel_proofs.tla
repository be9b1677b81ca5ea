--------------------------- MODULE CallerPanel_proofs ---------------------------
(***************************************************************************)
(* The panel, for any number of tickets, categories, requests, taps and    *)
(* losses: its lists hold what belongs in them and no ticket twice, a row  *)
(* of buttons waits for one answer, a panel that is stale is reading, and  *)
(* one that each request's events reach before the next request shows what *)
(* a reload would.  What a list or an order of tickets is, is kept by      *)
(* every operation the code has on it; the first invariant then says where *)
(* such lists are: in the tables, in the store, on the screen and in every *)
(* snapshot on its way, whatever was read when.  The second one follows a  *)
(* request from its commit to its last event: every other ticket is shown  *)
(* as the tables have it, and of its own the panel has what was before.    *)
(***************************************************************************)
EXTENDS CallerPanel, Filter_proofs

-----------------------------------------------------------------------------
(* The operations of the reducer on a list, whose lines are of the kind L. *)
Listed(list, L) == list \in Seq(L) /\ IsInjective(Ids(list))

LEMMA IdsOfList ==
    ASSUME NEW L \in SUBSET TicketState, NEW list \in Seq(L)
    PROVE  /\ DOMAIN Ids(list) = 1 .. Len(list)
           /\ \A i \in 1 .. Len(list) : list[i] \in L /\ Ids(list)[i] = list[i].id
           /\ Ids(list) \in Seq(Ticket)
<1>1. \A i \in 1 .. Len(list) : list[i] \in L /\ list[i].id \in Ticket
    BY DEF TicketState
<1> QED BY <1>1 DEF Ids

LEMMA OnceEach ==
    ASSUME NEW L \in SUBSET TicketState, NEW list \in Seq(L)
    PROVE  IsInjective(Ids(list)) <=>
               \A i, j \in 1 .. Len(list) : list[i].id = list[j].id => i = j
<1> HIDE DEF Ids
<1> QED BY IdsOfList DEF IsInjective

LEMMA EmptyListed == ASSUME NEW L PROVE Listed(<<>>, L)
<1>1. Ids(<<>>) = <<>>
    BY DEF Ids
<1> QED BY <1>1 DEF Listed, IsInjective

LEMMA KeptListed ==
    ASSUME NEW L \in SUBSET TicketState, NEW S, NEW list, Listed(list, L)
    PROVE  /\ Listed(Kept(list, S), L)
           /\ \A i \in DOMAIN Kept(list, S) : Kept(list, S)[i] \in S
<1> DEFINE kept == Kept(list, S)
<1>1. list \in Seq(L) /\ \A i, j \in 1 .. Len(list) : list[i].id = list[j].id => i = j
    BY OnceEach DEF Listed
<1>2. kept \in Seq(L \cap S) /\ IsPart(kept, list)
    BY <1>1, KeptIsPart
<1> HIDE DEF kept
<1>3. PICK walk \in [DOMAIN kept -> DOMAIN list] :
          IsInjective(walk) /\ \A i \in DOMAIN kept : kept[i] = list[walk[i]]
    BY <1>2 DEF IsPart
<1>4. kept \in Seq(L) /\ DOMAIN kept = 1 .. Len(kept) /\ \A i \in 1 .. Len(kept) : kept[i] \in S
    BY <1>2
<1>5. DOMAIN list = 1 .. Len(list)
    BY <1>1
<1>6. ASSUME NEW i \in 1 .. Len(kept), NEW j \in 1 .. Len(kept), kept[i].id = kept[j].id
      PROVE  i = j
  <2>1. walk[i] \in 1 .. Len(list) /\ walk[j] \in 1 .. Len(list)
      BY <1>4, <1>5
  <2>2. list[walk[i]].id = list[walk[j]].id
      BY <1>3, <1>4, <1>6
  <2>3. walk[i] = walk[j]
      BY <1>1, <2>1, <2>2
  <2> QED BY <1>3, <1>4, <2>3 DEF IsInjective
<1>7. IsInjective(Ids(kept))
    BY <1>4, <1>6, OnceEach
<1> QED BY <1>4, <1>7 DEF Listed, kept

LEMMA OffListed ==
    ASSUME NEW L \in SUBSET TicketState, NEW list, Listed(list, L), NEW t
    PROVE  Listed(Off(list, t), L) /\ ~Holds(Off(list, t), t)
<1>1. /\ Listed(Off(list, t), L)
      /\ \A i \in DOMAIN Off(list, t) : Off(list, t)[i] \in {entry \in TicketState : entry.id # t}
    BY KeptListed DEF Off
<1> QED BY <1>1 DEF Holds

LEMMA AppendListed ==
    ASSUME NEW L \in SUBSET TicketState, NEW list, Listed(list, L),
           NEW entry \in L, ~Holds(list, entry.id)
    PROVE  Listed(Append(list, entry), L)
<1>1. /\ list \in Seq(L) /\ Len(list) \in Nat /\ DOMAIN list = 1 .. Len(list)
      /\ \A i, j \in 1 .. Len(list) : list[i].id = list[j].id => i = j
    BY OnceEach DEF Listed
<1> DEFINE longer == Append(list, entry)
<1>2. /\ longer \in Seq(L) /\ Len(longer) = Len(list) + 1 /\ longer[Len(list) + 1] = entry
      /\ \A i \in 1 .. Len(list) : longer[i] = list[i]
    BY <1>1
<1>3. \A i \in 1 .. Len(list) : list[i].id # entry.id
    BY <1>1 DEF Holds
<1> HIDE DEF longer
<1>4. \A i, j \in 1 .. Len(longer) : longer[i].id = longer[j].id => i = j
    BY <1>1, <1>2, <1>3
<1> QED BY <1>2, <1>4, OnceEach DEF Listed, longer

LEMMA PrependListed ==
    ASSUME NEW L \in SUBSET TicketState, NEW list, Listed(list, L),
           NEW entry \in L, ~Holds(list, entry.id)
    PROVE  Listed(<<entry>> \o list, L)
<1>1. /\ list \in Seq(L) /\ Len(list) \in Nat /\ DOMAIN list = 1 .. Len(list)
      /\ \A i, j \in 1 .. Len(list) : list[i].id = list[j].id => i = j
    BY OnceEach DEF Listed
<1> DEFINE longer == <<entry>> \o list
<1>2. /\ longer \in Seq(L) /\ Len(longer) = Len(list) + 1 /\ longer[1] = entry
      /\ \A i \in 2 .. Len(list) + 1 : longer[i] = list[i - 1]
    BY <1>1
<1>3. \A i \in 1 .. Len(list) : list[i].id # entry.id
    BY <1>1 DEF Holds
<1> HIDE DEF longer
<1>4. ASSUME NEW i \in 1 .. Len(longer), NEW j \in 1 .. Len(longer), longer[i].id = longer[j].id
      PROVE  i = j
  <2>1. CASE i = 1 /\ j = 1
      BY <2>1
  <2>2. CASE i = 1 /\ j # 1
    <3>1. j - 1 \in 1 .. Len(list) /\ longer[j] = list[j - 1]
        BY <1>1, <1>2, <2>2
    <3> QED BY <1>2, <1>3, <1>4, <2>2, <3>1
  <2>3. CASE i # 1 /\ j = 1
    <3>1. i - 1 \in 1 .. Len(list) /\ longer[i] = list[i - 1]
        BY <1>1, <1>2, <2>3
    <3> QED BY <1>2, <1>3, <1>4, <2>3, <3>1
  <2>4. CASE i # 1 /\ j # 1
    <3>1. /\ i - 1 \in 1 .. Len(list) /\ longer[i] = list[i - 1]
          /\ j - 1 \in 1 .. Len(list) /\ longer[j] = list[j - 1]
        BY <1>1, <1>2, <2>4
    <3>2. i - 1 = j - 1
        BY <1>1, <1>4, <3>1
    <3> QED BY <1>1, <1>2, <3>2
  <2> QED BY <2>1, <2>2, <2>3, <2>4
<1> QED BY <1>2, <1>4, OnceEach DEF Listed, longer

(* A line put in the place of the one with its id.                         *)
Replaced(list, entry) == [i \in DOMAIN list |-> IF list[i].id = entry.id THEN entry ELSE list[i]]

LEMMA ReplacedListed ==
    ASSUME NEW L \in SUBSET TicketState, NEW list, Listed(list, L), NEW entry \in L
    PROVE  Listed(Replaced(list, entry), L)
<1>1. /\ list \in Seq(L) /\ Len(list) \in Nat /\ DOMAIN list = 1 .. Len(list)
      /\ \A i, j \in 1 .. Len(list) : list[i].id = list[j].id => i = j
    BY OnceEach DEF Listed
<1> DEFINE new == Replaced(list, entry)
<1>2. \A i \in 1 .. Len(list) : list[i] \in L
    BY <1>1
<1>3. /\ new \in Seq(L) /\ Len(new) = Len(list)
      /\ \A i \in 1 .. Len(list) : new[i] = IF list[i].id = entry.id THEN entry ELSE list[i]
    BY <1>1, <1>2 DEF Replaced
<1> HIDE DEF new
<1>4. \A i \in 1 .. Len(list) : new[i].id = list[i].id
    BY <1>3
<1>5. \A i, j \in 1 .. Len(new) : new[i].id = new[j].id => i = j
    BY <1>1, <1>3, <1>4
<1> QED BY <1>3, <1>5, OnceEach DEF Listed, new

-----------------------------------------------------------------------------
(* The orders the server keeps: tickets, each once.                        *)
Once(seq) == seq \in Seq(Ticket) /\ IsInjective(seq)
Has(seq, t) == \E i \in DOMAIN seq : seq[i] = t

LEMMA KeptOnce ==
    ASSUME NEW seq, Once(seq), NEW S
    PROVE  /\ Once(Kept(seq, S))
           /\ \A t : Has(Kept(seq, S), t) => Has(seq, t) /\ t \in S
<1> DEFINE kept == Kept(seq, S)
<1>1. kept \in Seq(Ticket \cap S) /\ IsPart(kept, seq)
    BY KeptIsPart DEF Once
<1> HIDE DEF kept
<1>2. PICK walk \in [DOMAIN kept -> DOMAIN seq] :
          IsInjective(walk) /\ \A i \in DOMAIN kept : kept[i] = seq[walk[i]]
    BY <1>1 DEF IsPart
<1>3. \A i \in DOMAIN kept : walk[i] \in DOMAIN seq /\ kept[i] \in S
    BY <1>1
<1>4. \A i, j \in DOMAIN seq : seq[i] = seq[j] => i = j
    BY DEF Once, IsInjective
<1>5. \A i, j \in DOMAIN kept : walk[i] = walk[j] => i = j
    BY <1>2 DEF IsInjective
<1>6. IsInjective(kept)
    BY <1>2, <1>3, <1>4, <1>5 DEF IsInjective
<1>7. kept \in Seq(Ticket)
    BY <1>1
<1>8. \A t : Has(kept, t) => Has(seq, t) /\ t \in S
    BY <1>2, <1>3 DEF Has
<1> QED BY <1>6, <1>7, <1>8 DEF Once, kept

LEMMA LessOnce ==
    ASSUME NEW seq, Once(seq), NEW t
    PROVE  /\ Once(Less(seq, t)) /\ ~Has(Less(seq, t), t)
           /\ \A u : Has(Less(seq, t), u) => Has(seq, u)
BY KeptOnce DEF Less

LEMMA AppendOnce ==
    ASSUME NEW seq, Once(seq), NEW t \in Ticket, ~Has(seq, t)
    PROVE  /\ Once(Append(seq, t))
           /\ \A u : Has(Append(seq, t), u) => Has(seq, u) \/ u = t
<1> DEFINE longer == Append(seq, t)
<1>1. /\ seq \in Seq(Ticket) /\ Len(seq) \in Nat /\ DOMAIN seq = 1 .. Len(seq)
      /\ \A i, j \in 1 .. Len(seq) : seq[i] = seq[j] => i = j
    BY DEF Once, IsInjective
<1>2. /\ longer \in Seq(Ticket) /\ DOMAIN longer = 1 .. Len(seq) + 1
      /\ longer[Len(seq) + 1] = t /\ \A i \in 1 .. Len(seq) : longer[i] = seq[i]
    BY <1>1
<1>3. \A i \in 1 .. Len(seq) : seq[i] # t
    BY <1>1 DEF Has
<1> HIDE DEF longer
<1>4. \A i \in 1 .. Len(seq) + 1 : i \in 1 .. Len(seq) \/ i = Len(seq) + 1
    BY <1>1
<1>5. \A i, j \in DOMAIN longer : longer[i] = longer[j] => i = j
    BY <1>1, <1>2, <1>3, <1>4
<1>6. \A u : Has(longer, u) => Has(seq, u) \/ u = t
    BY <1>1, <1>2, <1>4 DEF Has
<1> QED BY <1>2, <1>5, <1>6 DEF Once, IsInjective, longer

LEMMA InsertedAt ==
    ASSUME NEW seq \in Seq(Ticket), NEW t \in Ticket, NEW at \in 1 .. Len(seq) + 1
    PROVE  /\ InsertAt(seq, at, t) \in Seq(Ticket)
           /\ DOMAIN InsertAt(seq, at, t) = 1 .. Len(seq) + 1
           /\ InsertAt(seq, at, t)[at] = t
           /\ \A i \in 1 .. Len(seq) + 1 : i < at => InsertAt(seq, at, t)[i] = seq[i]
           /\ \A i \in 1 .. Len(seq) + 1 : at < i => InsertAt(seq, at, t)[i] = seq[i - 1]
<1> DEFINE longer == InsertAt(seq, at, t)
<1>1. Len(seq) \in Nat /\ DOMAIN seq = 1 .. Len(seq)
    OBVIOUS
<1>2. /\ longer \in Seq(Ticket) /\ DOMAIN longer = 1 .. Len(seq) + 1
      /\ longer[at] = t
      /\ \A i \in 1 .. Len(seq) + 1 : i < at => longer[i] = seq[i]
      /\ \A i \in 1 .. Len(seq) + 1 : at < i => longer[i] = seq[i - 1]
  <2> DEFINE before == SubSeq(seq, 1, at - 1)
             after == SubSeq(seq, at, Len(seq))
  <2>1. /\ before \in Seq(Ticket) /\ Len(before) = at - 1
        /\ \A i \in 1 .. at - 1 : before[i] = seq[i]
      BY <1>1
  <2>2. /\ after \in Seq(Ticket) /\ Len(after) = Len(seq) - at + 1
        /\ \A i \in 1 .. Len(seq) - at + 1 : after[i] = seq[at + i - 1]
      BY <1>1
  <2>3. longer = (before \o <<t>>) \o after
      BY DEF InsertAt
  <2> HIDE DEF before, after, longer
  <2> DEFINE front == before \o <<t>>
  <2>4. /\ front \in Seq(Ticket) /\ Len(front) = at /\ front[at] = t
        /\ \A i \in 1 .. at - 1 : front[i] = seq[i]
      BY <2>1
  <2>5. longer = front \o after
      BY <2>3
  <2> HIDE DEF front
  <2>6. /\ longer \in Seq(Ticket) /\ Len(longer) = Len(seq) + 1
        /\ \A i \in 1 .. at : longer[i] = front[i]
        /\ \A i \in 1 .. Len(seq) - at + 1 : longer[at + i] = after[i]
      BY <1>1, <2>2, <2>4, <2>5
  <2>7. ASSUME NEW i \in 1 .. Len(seq) + 1, at < i PROVE longer[i] = seq[i - 1]
    <3> PICK j : j = i - at
        OBVIOUS
    <3>1. j \in 1 .. Len(seq) - at + 1 /\ at + j = i /\ at + j - 1 = i - 1
        BY <1>1, <2>7
    <3>2. longer[at + j] = after[j] /\ after[j] = seq[at + j - 1]
        BY <2>2, <2>6, <3>1
    <3> QED BY <3>1, <3>2
  <2>8. ASSUME NEW i \in 1 .. Len(seq) + 1, i < at PROVE longer[i] = seq[i]
    <3>1. i \in 1 .. at - 1 /\ i \in 1 .. at
        BY <1>1, <2>8
    <3> QED BY <2>4, <2>6, <3>1
  <2>9. DOMAIN longer = 1 .. Len(seq) + 1 /\ longer[at] = t
      BY <1>1, <2>4, <2>6
  <2> QED BY <2>6, <2>7, <2>8, <2>9
<1> QED BY <1>2

LEMMA InsertOnce ==
    ASSUME NEW seq, Once(seq), NEW t \in Ticket, ~Has(seq, t),
           NEW at \in 1 .. Len(seq) + 1
    PROVE  /\ Once(InsertAt(seq, at, t))
           /\ \A u : Has(InsertAt(seq, at, t), u) => Has(seq, u) \/ u = t
<1> DEFINE longer == InsertAt(seq, at, t)
<1>1. /\ seq \in Seq(Ticket) /\ Len(seq) \in Nat /\ DOMAIN seq = 1 .. Len(seq)
      /\ \A i, j \in 1 .. Len(seq) : seq[i] = seq[j] => i = j
    BY DEF Once, IsInjective
<1>2. /\ longer \in Seq(Ticket) /\ DOMAIN longer = 1 .. Len(seq) + 1
      /\ longer[at] = t
      /\ \A i \in 1 .. Len(seq) + 1 : i < at => longer[i] = seq[i]
      /\ \A i \in 1 .. Len(seq) + 1 : at < i => longer[i] = seq[i - 1]
  <2>1. seq \in Seq(Ticket)
      BY <1>1
  <2> QED BY <2>1, InsertedAt
<1>3. \A i \in 1 .. Len(seq) : seq[i] # t
    BY <1>1 DEF Has
<1> HIDE DEF longer
<1> DEFINE from(i) == IF i < at THEN i ELSE i - 1
<1>4. ASSUME NEW i \in 1 .. Len(seq) + 1, i # at
      PROVE  from(i) \in 1 .. Len(seq) /\ longer[i] = seq[from(i)]
    BY <1>1, <1>2, <1>4
<1>5. ASSUME NEW i \in 1 .. Len(seq) + 1, NEW j \in 1 .. Len(seq) + 1, longer[i] = longer[j]
      PROVE  i = j
  <2>1. CASE i = at \/ j = at
      BY <1>2, <1>3, <1>4, <1>5, <2>1
  <2>2. CASE i # at /\ j # at
    <3>1. from(i) = from(j)
        BY <1>1, <1>4, <1>5, <2>2
    <3> QED BY <1>1, <2>2, <3>1
  <2> QED BY <2>1, <2>2
<1>6. \A u : Has(longer, u) => Has(seq, u) \/ u = t
  <2>1. ASSUME NEW i \in 1 .. Len(seq) + 1 PROVE Has(seq, longer[i]) \/ longer[i] = t
      BY <1>1, <1>2, <1>4 DEF Has
  <2> QED BY <1>2, <2>1 DEF Has
<1> QED BY <1>2, <1>5, <1>6 DEF Once, IsInjective, longer

-----------------------------------------------------------------------------
(* The server and its events.                                              *)
ServerOK ==
    /\ row \in [Ticket -> Row]
    /\ Once(queue) /\ Once(touched)
    /\ \A t \in Ticket : Has(queue, t) => row[t].status = "WAITING"

(* An event names its ticket, and an update a state of the flow.           *)
Told ==
    {e \in WireEvent :
        /\ e.type # "SYSTEM_RESET" => e.id \in Ticket
        /\ e.type = "STATUS_UPDATED" => e.to \in FlowStates}

WireOK ==
    /\ outbox \subseteq Nat \X Seq(Told) /\ frames \in Seq(Told) /\ connected \in BOOLEAN
    /\ commits \in Nat

LEMMA EventsAreTold ==
    ASSUME NEW t \in Ticket
    PROVE  /\ \A s \in FlowStates : Updated(t, s) \in Told
           /\ \A c \in Category : Created(t, c) \in Told /\ Transferred(t, c) \in Told
           /\ \A k \in Counters : Called(t, k) \in Told
           /\ Reset \in Told
<1>1. FlowStates \subseteq TicketStatus /\ "CALLING" \in FlowStates /\ "NONE" \in TicketStatus
      /\ "WAITING" \in FlowStates
    BY DEF FlowStates, TicketStatus, InProgress
<1>2. \A s \in FlowStates : Updated(t, s) \in Told
    BY <1>1 DEF Updated, Told, WireEvent
<1>0. Updated(t, "WAITING") \in WireEvent /\ Updated(t, "CALLING") \in WireEvent
      /\ Updated(t, "WAITING").id = t /\ Updated(t, "CALLING").id = t
    BY <1>1 DEF Updated, WireEvent
<1>3. ASSUME NEW c \in Category PROVE Created(t, c) \in Told
  <2>1. Created(t, c) \in WireEvent /\ Created(t, c).type = "TICKET_CREATED" /\ Created(t, c).id = t
      BY <1>0 DEF Created, WireEvent
  <2> QED BY <2>1 DEF Told
<1>4. ASSUME NEW c \in Category PROVE Transferred(t, c) \in Told
  <2>1. /\ Transferred(t, c) \in WireEvent /\ Transferred(t, c).type = "TICKET_TRANSFERRED"
        /\ Transferred(t, c).id = t
      BY <1>0 DEF Transferred, WireEvent
  <2> QED BY <2>1 DEF Told
<1>5. ASSUME NEW k \in Counters PROVE Called(t, k) \in Told
  <2>1. Called(t, k) \in WireEvent /\ Called(t, k).type = "TICKET_CALLED" /\ Called(t, k).id = t
      BY <1>0 DEF Called, WireEvent
  <2> QED BY <2>1 DEF Told
<1>6. Reset \in Told
  <2>1. Updated(Null, "NONE") \in WireEvent
      BY <1>1 DEF Updated, WireEvent
  <2>2. Reset \in WireEvent /\ Reset.type = "SYSTEM_RESET"
      BY <2>1 DEF Reset, WireEvent
  <2> QED BY <2>2 DEF Told
<1> QED BY <1>2, <1>3, <1>4, <1>5, <1>6

(* A request that commits leaves its events to be broadcast.               *)
LEMMA CommitKeeps ==
    ASSUME WireOK, NEW events \in Seq(Told), Commit(events)
    PROVE  outbox' \subseteq Nat \X Seq(Told) /\ commits' \in Nat
<1>1. commits' \in Nat /\ outbox' = outbox \cup {<<commits', events>>}
    BY DEF Commit, WireOK
<1>2. <<commits', events>> \in Nat \X Seq(Told)
    BY <1>1
<1> QED BY <1>1, <1>2 DEF WireOK

Committed == ServerOK' /\ outbox' \subseteq Nat \X Seq(Told) /\ commits' \in Nat

LEMMA CreateKeeps ==
    ASSUME ServerOK, WireOK, NEW t \in Ticket, NEW c \in Category, CreateTicket(t, c)
    PROVE  Committed
<1>1. ~Has(queue, t)
    BY DEF ServerOK, CreateTicket
<1>2. <<Created(t, c)>> \in Seq(Told)
    BY EventsAreTold
<1>3. outbox' \subseteq Nat \X Seq(Told) /\ commits' \in Nat
    BY <1>2, CommitKeeps DEF CreateTicket
<1>4. Once(queue') /\ \A u : Has(queue', u) => Has(queue, u) \/ u = t
    BY <1>1, AppendOnce DEF ServerOK, CreateTicket
<1>5. /\ row' = [row EXCEPT ![t] = [status |-> "WAITING", category |-> c, counter |-> Null]]
      /\ [status |-> "WAITING", category |-> c, counter |-> Null] \in Row
    BY DEF CreateTicket, Row, TicketStatus
<1>6. /\ row' \in [Ticket -> Row] /\ row'[t].status = "WAITING"
      /\ \A u \in Ticket : u # t => row'[u] = row[u]
    BY <1>5 DEF ServerOK
<1>7. Once(touched)'
    BY DEF ServerOK, CreateTicket, Once
<1> QED BY <1>3, <1>4, <1>6, <1>7 DEF Committed, ServerOK, Once, Has

(* A ticket leaves the queue for the other tickets.                        *)
LEMMA LeavesKeeps ==
    ASSUME ServerOK, NEW t \in Ticket, NEW r \in Row, row' = [row EXCEPT ![t] = r],
           queue' = Less(queue, t), touched' = Append(Less(touched, t), t)
    PROVE  ServerOK'
<1>1. /\ Once(queue') /\ ~Has(queue', t)
      /\ \A u : Has(queue', u) => Has(queue, u)
    BY LessOnce DEF ServerOK
<1>2. Once(Less(touched, t)) /\ ~Has(Less(touched, t), t)
    BY LessOnce DEF ServerOK
<1>3. Once(touched')
    BY <1>2, AppendOnce
<1>4. row' \in [Ticket -> Row] /\ \A u \in Ticket : u # t => row'[u] = row[u]
    BY DEF ServerOK
<1> QED BY <1>1, <1>3, <1>4 DEF ServerOK, Once, Has

(* A ticket not waiting joins the queue somewhere.                         *)
LEMMA JoinsKeeps ==
    ASSUME ServerOK, NEW t \in Ticket, NEW r \in Row, r.status = "WAITING",
           row' = [row EXCEPT ![t] = r], touched' = Less(touched, t),
           \/ row[t].status = "WAITING" /\ queue' = queue
           \/ /\ row[t].status # "WAITING"
              /\ \E i \in 1 .. Len(queue) + 1 : queue' = InsertAt(queue, i, t)
    PROVE  ServerOK'
<1>1. Once(touched')
    BY LessOnce DEF ServerOK
<1>2. Once(queue') /\ \A u : Has(queue', u) => Has(queue, u) \/ u = t
  <2>1. CASE row[t].status = "WAITING" /\ queue' = queue
      BY <2>1 DEF ServerOK
  <2>2. CASE /\ row[t].status # "WAITING"
             /\ \E i \in 1 .. Len(queue) + 1 : queue' = InsertAt(queue, i, t)
    <3>1. PICK i \in 1 .. Len(queue) + 1 : queue' = InsertAt(queue, i, t)
        BY <2>2
    <3>2. ~Has(queue, t)
        BY <2>2 DEF ServerOK
    <3> QED BY <3>1, <3>2, InsertOnce DEF ServerOK
  <2> QED BY <2>1, <2>2
<1>3. /\ row' \in [Ticket -> Row] /\ row'[t].status = "WAITING"
      /\ \A u \in Ticket : u # t => row'[u] = row[u]
    BY DEF ServerOK
<1> QED BY <1>1, <1>2, <1>3 DEF ServerOK, Once, Has

LEMMA CallKeeps ==
    ASSUME ServerOK, WireOK, NEW t \in Ticket, NEW k \in Counters, CallTo(t, k)
    PROVE  Committed
<1> DEFINE r == [row[t] EXCEPT !.status = "CALLING", !.counter = k]
           first == IF row[t].status = "CALLING" THEN <<>> ELSE <<Updated(t, "CALLING")>>
<1>1. row[t] \in Row
    BY DEF ServerOK
<1>2. r \in Row
    BY <1>1 DEF Row, TicketStatus, InProgress
<1>3. row' = [row EXCEPT ![t] = r]
    BY <1>1 DEF CallTo, ServerOK
<1>4. first \o <<Called(t, k)>> \in Seq(Told)
  <2>1. Called(t, k) \in Told /\ Updated(t, "CALLING") \in Told
      BY EventsAreTold DEF FlowStates, InProgress
  <2>2. first \in Seq(Told) /\ <<Called(t, k)>> \in Seq(Told)
      BY <2>1
  <2> QED BY <2>2
<1>5. Commit(first \o <<Called(t, k)>>) /\ queue' = Less(queue, t)
      /\ touched' = Append(Less(touched, t), t)
    BY DEF CallTo
<1> HIDE DEF r, first
<1>6. ServerOK'
    BY <1>2, <1>3, <1>5, LeavesKeeps
<1>7. outbox' \subseteq Nat \X Seq(Told) /\ commits' \in Nat
    BY <1>4, <1>5, CommitKeeps
<1> QED BY <1>6, <1>7 DEF Committed

LEMMA CallNextKeeps ==
    ASSUME ServerOK, WireOK, NEW k \in Counters, CallNext(k)
    PROVE  Committed
<1>1. PICK c \in Serves[k] :
          LET turn == Kept(queue, {t \in Ticket : row[t].category = c})
          IN  turn # <<>> /\ CallTo(turn[1], k)
    BY DEF CallNext
<1> DEFINE turn == Kept(queue, {t \in Ticket : row[t].category = c})
<1>2. Once(turn)
    BY KeptOnce DEF ServerOK
<1>3. turn # <<>> /\ CallTo(turn[1], k)
    BY <1>1
<1> HIDE DEF turn
<1>4. turn[1] \in Ticket
    BY <1>2, <1>3 DEF Once
<1> QED BY <1>3, <1>4, CallKeeps

LEMMA ReannounceKeeps ==
    ASSUME ServerOK, WireOK, NEW t \in Ticket, NEW k \in Counters, Reannounce(t, k)
    PROVE  Committed
BY CallKeeps DEF Reannounce

LEMMA TransitionKeeps ==
    ASSUME ServerOK, WireOK, NEW t \in Ticket, NEW s, NEW k \in Counters, Transition(t, s, k)
    PROVE  Committed
<1>1. row[t] \in Row /\ <<row[t].status, s>> \in TicketEdges
    BY DEF ServerOK, Transition
<1>2. s \in FlowStates /\ s \in TicketStatus /\ (s = "WAITING" => row[t].status # "WAITING")
  <2>1. <<row[t].status, s>> \in FlowStates \X FlowStates
      BY <1>1, FlowAssumption DEF TicketEdges
  <2>2. s \in FlowStates /\ FlowStates \subseteq TicketStatus
      BY <2>1 DEF FlowStates, TicketStatus
  <2>3. <<row[t].status, s>>[1] # <<row[t].status, s>>[2] \/ <<row[t].status, s>>[1] = "CALLING"
      BY <1>1 DEF TicketEdges
  <2> QED BY <2>2, <2>3
<1>3. CASE s = "CALLING" /\ CallTo(t, k)
    BY <1>3, CallKeeps
<1>4. CASE s = "WAITING" /\ Requeue(t, k) /\ Commit(<<Updated(t, s)>>)
  <2> DEFINE r == [row[t] EXCEPT !.status = "WAITING", !.counter = Null]
  <2>1. r \in Row /\ r.status = "WAITING"
      BY <1>1 DEF Row, TicketStatus
  <2>2. /\ row' = [row EXCEPT ![t] = r] /\ touched' = Less(touched, t)
        /\ \E i \in 1 .. Len(queue) + 1 : queue' = InsertAt(queue, i, t)
      BY <1>4 DEF Requeue, ServerOK
  <2> HIDE DEF r
  <2>3. ServerOK'
      BY <1>2, <1>4, <2>1, <2>2, JoinsKeeps
  <2>4. <<Updated(t, s)>> \in Seq(Told)
      BY <1>2, EventsAreTold
  <2>5. outbox' \subseteq Nat \X Seq(Told) /\ commits' \in Nat
      BY <1>4, <2>4, CommitKeeps
  <2> QED BY <2>3, <2>5 DEF Committed
<1>5. CASE /\ s \notin {"CALLING", "WAITING"}
           /\ row' = [row EXCEPT ![t].status = s]
           /\ queue' = Less(queue, t)
           /\ touched' = Append(Less(touched, t), t)
           /\ Commit(<<Updated(t, s)>>)
  <2> DEFINE r == [row[t] EXCEPT !.status = s]
  <2>1. r \in Row
      BY <1>1, <1>2 DEF Row
  <2>2. row' = [row EXCEPT ![t] = r]
      BY <1>5 DEF ServerOK
  <2> HIDE DEF r
  <2>3. ServerOK'
      BY <1>5, <2>1, <2>2, LeavesKeeps
  <2>4. <<Updated(t, s)>> \in Seq(Told)
      BY <1>2, EventsAreTold
  <2>5. outbox' \subseteq Nat \X Seq(Told) /\ commits' \in Nat
      BY <1>5, <2>4, CommitKeeps
  <2> QED BY <2>3, <2>5 DEF Committed
<1> QED BY <1>3, <1>4, <1>5 DEF Transition

LEMMA TransferKeeps ==
    ASSUME ServerOK, WireOK, NEW t \in Ticket, NEW c \in Category, Transfer(t, c)
    PROVE  Committed
<1> DEFINE r == [status |-> "WAITING", category |-> c, counter |-> Null]
<1>1. r \in Row /\ r.status = "WAITING"
    BY DEF Row, TicketStatus
<1>2. row' = [row EXCEPT ![t] = r] /\ touched' = Less(touched, t)
    BY DEF Transfer
<1>3. \/ row[t].status = "WAITING" /\ queue' = queue
      \/ /\ row[t].status # "WAITING"
         /\ \E i \in 1 .. Len(queue) + 1 : queue' = InsertAt(queue, i, t)
    BY DEF Transfer
<1> HIDE DEF r
<1>4. ServerOK'
    BY <1>1, <1>2, <1>3, JoinsKeeps
<1>5. <<Updated(t, "WAITING"), Transferred(t, c)>> \in Seq(Told)
    BY EventsAreTold DEF FlowStates
<1>6. outbox' \subseteq Nat \X Seq(Told) /\ commits' \in Nat
    BY <1>5, CommitKeeps DEF Transfer
<1> QED BY <1>4, <1>6 DEF Committed

LEMMA ResetKeeps ==
    ASSUME ServerOK, WireOK, NEW old \in SUBSET Ticket, ResetDaily(old)
    PROVE  Committed
<1>1. ASSUME NEW t \in Ticket
      PROVE  /\ row'[t] \in Row
             /\ t \notin old => row'[t] = row[t]
  <2>1. row[t] \in Row
      BY DEF ServerOK
  <2>2. [row[t] EXCEPT !.status = "ARCHIVED", !.counter = Null] \in Row
      BY <2>1 DEF Row, TicketStatus
  <2> QED BY <2>1, <2>2 DEF ResetDaily
<1>2. row' \in [Ticket -> Row]
    BY <1>1 DEF ResetDaily
<1>3. /\ Once(queue') /\ Once(touched')
      /\ \A t : Has(queue', t) => Has(queue, t) /\ t \notin old
  <2>1. queue' = Kept(queue, Ticket \ old) /\ touched' = Kept(touched, Ticket \ old)
      BY DEF ResetDaily
  <2>2. Once(queue) /\ Once(touched)
      BY DEF ServerOK
  <2>3. /\ Once(Kept(queue, Ticket \ old)) /\ Once(Kept(touched, Ticket \ old))
        /\ \A t : Has(Kept(queue, Ticket \ old), t) => Has(queue, t) /\ t \in Ticket \ old
      BY <2>2, KeptOnce
  <2> QED BY <2>1, <2>3
<1>4. ServerOK'
    BY <1>1, <1>2, <1>3 DEF ServerOK, Once, Has
<1>5. <<Reset>> \in Seq(Told)
  <2>1. Updated(Null, "NONE") \in WireEvent
      BY DEF Updated, WireEvent, TicketStatus
  <2>2. Reset \in WireEvent /\ Reset.type = "SYSTEM_RESET"
      BY <2>1 DEF Reset, WireEvent
  <2>3. Reset \in Told
      BY <2>2 DEF Told
  <2> QED BY <2>3
<1>6. outbox' \subseteq Nat \X Seq(Told) /\ commits' \in Nat
    BY <1>5, CommitKeeps DEF ResetDaily
<1> QED BY <1>4, <1>6 DEF Committed

LEMMA OthersKeep == ASSUME ServerOK, WireOK, OthersRequest PROVE Committed
<1>1. ASSUME NEW t \in Ticket, NEW c \in Category, CreateTicket(t, c) PROVE Committed
    BY <1>1, CreateKeeps
<1>2. ASSUME NEW k \in Counters, CallNext(k) PROVE Committed
    BY <1>2, CallNextKeeps
<1>3. ASSUME NEW t \in Ticket, NEW k \in Counters, Reannounce(t, k) PROVE Committed
    BY <1>3, ReannounceKeeps
<1>4. ASSUME NEW t \in Ticket, NEW k \in Counters, NEW s \in TicketStatus, Transition(t, s, k)
      PROVE  Committed
    BY <1>4, TransitionKeeps
<1>5. ASSUME NEW t \in Ticket, NEW k \in Counters, NEW c \in Serves[k], Transfer(t, c)
      PROVE  Committed
  <2>1. c \in Category
      BY CallerPanelAssumption DEF Counters
  <2> QED BY <1>5, <2>1, TransferKeeps
<1>6. ASSUME NEW old \in SUBSET Ticket, ResetDaily(old) PROVE Committed
    BY <1>6, ResetKeeps
<1> QED BY <1>1, <1>2, <1>3, <1>4, <1>5, <1>6 DEF OthersRequest

LEMMA PerformKeeps ==
    ASSUME ServerOK, WireOK, NEW cmd \in Command, Perform(cmd)
    PROVE  Committed
<1>1. Mine \in Counters
    BY DEF Counters
<1>2. CASE cmd.op = "call-next" /\ CallNext(Mine)
    BY <1>1, <1>2, CallNextKeeps
<1>3. CASE cmd.op = "transition" /\ Transition(cmd.id, cmd.to, Mine)
  <2>1. cmd.id \in Ticket
      BY <1>3 DEF Command
  <2> QED BY <1>1, <1>3, <2>1, TransitionKeeps
<1>4. CASE cmd.op = "reannounce" /\ Reannounce(cmd.id, Mine)
  <2>1. cmd.id \in Ticket
      BY <1>4 DEF Command
  <2> QED BY <1>1, <1>4, <2>1, ReannounceKeeps
<1>5. CASE cmd.op = "transfer" /\ Transfer(cmd.id, cmd.to)
  <2>1. cmd.id \in Ticket /\ cmd.to \in Category
      BY <1>5 DEF Command
  <2> QED BY <1>5, <2>1, TransferKeeps
<1> QED BY <1>2, <1>3, <1>4, <1>5 DEF Perform

-----------------------------------------------------------------------------
(* The store: what belongs in a list.                                      *)
ActiveLine == {entry \in TicketState : entry.status \in InProgress}
WaitingLine == {entry \in TicketState : entry.status = "WAITING"}
SkippedLine == {entry \in TicketState : entry.status = "SKIPPED"}

Panel ==
    [active : Seq(ActiveLine), waiting : Seq(WaitingLine), skipped : Seq(SkippedLine),
     load : {"loading", "loaded", "error"}, stale : BOOLEAN]

PanelOK(p) ==
    /\ p \in Panel
    /\ Listed(p.active, ActiveLine) /\ Listed(p.waiting, WaitingLine)
    /\ Listed(p.skipped, SkippedLine)

LEMMA LinesAreStates ==
    /\ ActiveLine \in SUBSET TicketState /\ WaitingLine \in SUBSET TicketState
    /\ SkippedLine \in SUBSET TicketState
BY DEF ActiveLine, WaitingLine, SkippedLine

LEMMA EntryIsLine ==
    ASSUME NEW list \in Seq(TicketState), NEW t, Holds(list, t)
    PROVE  Entry(list, t) \in TicketState /\ Entry(list, t).id = t
BY DEF Holds, Entry

LEMMA WithoutOK ==
    ASSUME PanelOK(panel), NEW t
    PROVE  /\ PanelOK(Without(t))
           /\ Without(t).active = Off(panel.active, t)
           /\ Without(t).waiting = Off(panel.waiting, t)
           /\ Without(t).skipped = Off(panel.skipped, t)
           /\ Without(t).stale = panel.stale
           /\ ~Holds(Off(panel.waiting, t), t)
<1>1. /\ Listed(Off(panel.active, t), ActiveLine) /\ Listed(Off(panel.waiting, t), WaitingLine)
      /\ Listed(Off(panel.skipped, t), SkippedLine) /\ ~Holds(Off(panel.waiting, t), t)
    BY LinesAreStates, OffListed DEF PanelOK
<1>2. /\ Without(t) \in Panel
      /\ Without(t).active = Off(panel.active, t)
      /\ Without(t).waiting = Off(panel.waiting, t)
      /\ Without(t).skipped = Off(panel.skipped, t)
      /\ Without(t).stale = panel.stale
    BY <1>1 DEF Without, PanelOK, Panel, Listed
<1> QED BY <1>1, <1>2 DEF PanelOK

LEMMA CreatedKeeps ==
    ASSUME PanelOK(panel), NEW e \in Told, e.type = "TICKET_CREATED"
    PROVE  PanelOK(OnCreated(e))
<1>1. CASE e.category \in MyCategories /\ ~Holds(panel.waiting, e.id)
  <2> DEFINE entry == [id |-> e.id, category |-> e.category, status |-> "WAITING"]
             list == Append(panel.waiting, entry)
  <2>1. e.id \in Ticket /\ e.category \in Category
      BY <1>1, CallerPanelAssumption DEF Told, MyCategories
  <2>2. entry \in WaitingLine /\ ~Holds(panel.waiting, entry.id)
      BY <1>1, <2>1 DEF WaitingLine, TicketState, TicketStatus
  <2> HIDE DEF entry
  <2>3. Listed(list, WaitingLine)
      BY <2>2, LinesAreStates, AppendListed DEF PanelOK
  <2>4. OnCreated(e) = [panel EXCEPT !.waiting = list]
      BY <1>1 DEF OnCreated, entry
  <2> HIDE DEF list
  <2>5. /\ OnCreated(e) \in Panel /\ OnCreated(e).waiting = list
        /\ OnCreated(e).active = panel.active /\ OnCreated(e).skipped = panel.skipped
      BY <2>3, <2>4 DEF PanelOK, Panel, Listed
  <2> QED BY <2>3, <2>5 DEF PanelOK
<1>2. CASE ~(e.category \in MyCategories /\ ~Holds(panel.waiting, e.id))
    BY <1>2 DEF OnCreated
<1> QED BY <1>1, <1>2

LEMMA DedupePrependListed ==
    ASSUME NEW L \in SUBSET TicketState, NEW list, Listed(list, L), NEW entry \in L
    PROVE  Listed(DedupePrepend(entry, list), L)
BY OffListed, PrependListed DEF DedupePrepend

LEMMA DedupeAppendListed ==
    ASSUME NEW L \in SUBSET TicketState, NEW list, Listed(list, L), NEW entry \in L
    PROVE  Listed(DedupeAppend(entry, list), L)
<1>1. CASE Holds(list, entry.id)
    BY <1>1, ReplacedListed DEF DedupeAppend, Replaced
<1>2. CASE ~Holds(list, entry.id)
    BY <1>2, AppendListed DEF DedupeAppend
<1> QED BY <1>1, <1>2

LEMMA KnownCategoryOK ==
    ASSUME PanelOK(panel), NEW t
    PROVE  KnownCategory(t) \in Category \cup {Null}
<1> DEFINE known == panel.waiting \o panel.skipped \o panel.active
<1>1. known \in Seq(TicketState)
  <2>1. /\ panel.waiting \in Seq(TicketState) /\ panel.skipped \in Seq(TicketState)
        /\ panel.active \in Seq(TicketState)
      BY LinesAreStates DEF PanelOK, Listed
  <2> QED BY <2>1
<1> HIDE DEF known
<1>2. CASE Holds(known, t)
  <2>1. Entry(known, t) \in TicketState
      BY <1>1, <1>2, EntryIsLine
  <2>2. Entry(known, t).category \in Category \cup {Null}
      BY <2>1 DEF TicketState
  <2> QED BY <1>2, <2>2 DEF KnownCategory, known
<1>3. CASE ~Holds(known, t)
    BY <1>3 DEF KnownCategory, known
<1> QED BY <1>2, <1>3

LEMMA CalledKeeps ==
    ASSUME PanelOK(panel), NEW e \in Told, e.type = "TICKET_CALLED"
    PROVE  PanelOK(OnCalled(e))
<1> DEFINE entry == [id |-> e.id, category |-> KnownCategory(e.id), status |-> "CALLING"]
           active == IF e.counter = Mine THEN DedupePrepend(entry, panel.active) ELSE panel.active
<1>1. entry \in ActiveLine
  <2>1. e.id \in Ticket
      BY DEF Told
  <2> QED BY <2>1, KnownCategoryOK DEF ActiveLine, TicketState, TicketStatus, InProgress
<1>2. Listed(active, ActiveLine)
  <2> HIDE DEF entry
  <2>1. Listed(DedupePrepend(entry, panel.active), ActiveLine) /\ Listed(panel.active, ActiveLine)
      BY <1>1, LinesAreStates, DedupePrependListed DEF PanelOK
  <2> QED BY <2>1
<1>3. /\ Listed(Off(panel.waiting, e.id), WaitingLine)
      /\ Listed(Off(panel.skipped, e.id), SkippedLine)
    BY LinesAreStates, OffListed DEF PanelOK
<1>4. OnCalled(e) = [panel EXCEPT !.waiting = Off(@, e.id), !.skipped = Off(@, e.id),
                                  !.active = active]
    BY DEF OnCalled, PanelOK, Panel
<1> HIDE DEF entry, active
<1>5. /\ OnCalled(e) \in Panel /\ OnCalled(e).active = active
      /\ OnCalled(e).waiting = Off(panel.waiting, e.id)
      /\ OnCalled(e).skipped = Off(panel.skipped, e.id)
    BY <1>2, <1>3, <1>4 DEF PanelOK, Panel, Listed
<1> QED BY <1>2, <1>3, <1>5 DEF PanelOK

LEMMA RequeuedKeeps ==
    ASSUME PanelOK(panel), NEW entry \in WaitingLine
    PROVE  PanelOK(Requeued(entry))
<1> DEFINE less == Without(entry.id)
           list == Append(less.waiting, entry)
<1>1. PanelOK(less) /\ ~Holds(less.waiting, entry.id)
    BY WithoutOK
<1> HIDE DEF less
<1>2. Listed(list, WaitingLine)
    BY <1>1, LinesAreStates, AppendListed DEF PanelOK
<1>3. CASE entry.category \in MyCategories
  <2>1. Requeued(entry) = [less EXCEPT !.waiting = list, !.stale = TRUE]
      BY <1>1, <1>3 DEF Requeued, less, PanelOK, Panel
  <2> HIDE DEF list
  <2>2. /\ Requeued(entry) \in Panel /\ Requeued(entry).waiting = list
        /\ Requeued(entry).active = less.active /\ Requeued(entry).skipped = less.skipped
      BY <1>1, <1>2, <2>1 DEF PanelOK, Panel, Listed
  <2> QED BY <1>1, <1>2, <2>2 DEF PanelOK
<1>4. CASE entry.category \notin MyCategories
    BY <1>1, <1>4 DEF Requeued, less
<1> QED BY <1>3, <1>4

LEMMA BothListsKeep ==
    ASSUME PanelOK(panel), NEW active, Listed(active, ActiveLine),
           NEW skipped, Listed(skipped, SkippedLine)
    PROVE  PanelOK([panel EXCEPT !.active = active, !.skipped = skipped])
<1> DEFINE p == [panel EXCEPT !.active = active, !.skipped = skipped]
<1>1. p \in Panel /\ p.active = active /\ p.skipped = skipped /\ p.waiting = panel.waiting
    BY DEF PanelOK, Panel, Listed
<1> QED BY <1>1 DEF PanelOK

LEMMA UpdatedKeeps ==
    ASSUME PanelOK(panel), NEW e \in Told, e.type = "STATUS_UPDATED"
    PROVE  PanelOK(OnUpdated(e))
<1> DEFINE known == panel.active \o panel.skipped
           entry == [Entry(known, e.id) EXCEPT !.status = e.to]
<1>0. e.id \in Ticket /\ e.to \in FlowStates
    BY DEF Told
<1>1. known \in Seq(TicketState)
  <2>1. panel.skipped \in Seq(TicketState) /\ panel.active \in Seq(TicketState)
      BY LinesAreStates DEF PanelOK, Listed
  <2> QED BY <2>1
<1>2. CASE ~Holds(known, e.id)
  <2>1. OnUpdated(e) = panel
      BY <1>2 DEF OnUpdated
  <2> QED BY <2>1
<1>3. CASE Holds(known, e.id)
  <2> HIDE DEF known
  <2>1. Entry(known, e.id) \in TicketState /\ Entry(known, e.id).id = e.id
      BY <1>1, <1>3, EntryIsLine
  <2>2. e.to \in TicketStatus
      BY <1>0 DEF FlowStates, TicketStatus
  <2>3. entry \in TicketState /\ entry.id = e.id /\ entry.status = e.to
      BY <2>1, <2>2 DEF TicketState
  <2> HIDE DEF entry
  <2>4. /\ Listed(Off(panel.active, e.id), ActiveLine) /\ Listed(Off(panel.skipped, e.id), SkippedLine)
        /\ Listed(panel.active, ActiveLine) /\ Listed(panel.skipped, SkippedLine)
      BY LinesAreStates, OffListed DEF PanelOK
  <2> DEFINE completed == [panel EXCEPT !.active = Off(@, e.id), !.skipped = Off(@, e.id)]
             skipped == [panel EXCEPT !.active = Off(@, e.id), !.skipped = DedupeAppend(entry, @)]
             resumed == [panel EXCEPT !.active = DedupePrepend(entry, @), !.skipped = Off(@, e.id)]
             other == [panel EXCEPT !.active =
                          [i \in DOMAIN @ |-> IF @[i].id = e.id THEN entry ELSE @[i]]]
  <2>5. PanelOK(completed)
      BY <2>4, BothListsKeep DEF PanelOK, Panel
  <2>6. ASSUME e.to = "SKIPPED" PROVE PanelOK(skipped)
    <3>1. entry \in SkippedLine
        BY <2>3, <2>6 DEF SkippedLine
    <3>2. Listed(DedupeAppend(entry, panel.skipped), SkippedLine)
        BY <2>4, <3>1, LinesAreStates, DedupeAppendListed
    <3> QED BY <2>4, <3>2, BothListsKeep DEF PanelOK, Panel
  <2>7. ASSUME e.to = "WAITING" PROVE PanelOK(Requeued(entry))
    <3>1. entry \in WaitingLine
        BY <2>3, <2>7 DEF WaitingLine
    <3> QED BY <3>1, RequeuedKeeps
  <2>8. ASSUME e.to \in InProgress PROVE PanelOK(resumed)
    <3>1. entry \in ActiveLine
        BY <2>3, <2>8 DEF ActiveLine
    <3>2. Listed(DedupePrepend(entry, panel.active), ActiveLine)
        BY <2>4, <3>1, LinesAreStates, DedupePrependListed
    <3> QED BY <2>4, <3>2, BothListsKeep DEF PanelOK, Panel
  <2>9. ASSUME e.to \in InProgress PROVE PanelOK(other)
    <3>1. entry \in ActiveLine
        BY <2>3, <2>9 DEF ActiveLine
    <3>2. Listed(Replaced(panel.active, entry), ActiveLine)
        BY <2>4, <3>1, LinesAreStates, ReplacedListed
    <3>3. other = [panel EXCEPT !.active = Replaced(panel.active, entry)]
        BY <2>3 DEF Replaced, PanelOK, Panel
    <3>4. /\ other \in Panel /\ other.active = Replaced(panel.active, entry)
          /\ other.waiting = panel.waiting /\ other.skipped = panel.skipped
        BY <3>2, <3>3 DEF PanelOK, Panel, Listed
    <3> QED BY <2>4, <3>2, <3>4 DEF PanelOK
  <2>10. \/ e.to = "COMPLETED" /\ OnUpdated(e) = completed
         \/ e.to = "SKIPPED" /\ OnUpdated(e) = skipped
         \/ e.to = "WAITING" /\ OnUpdated(e) = Requeued(entry)
         \/ e.to \in InProgress /\ OnUpdated(e) = resumed
         \/ e.to \in InProgress /\ OnUpdated(e) = other
    <3> HIDE DEF completed, skipped, resumed, other
    <3>1. e.to \in {"WAITING", "SKIPPED", "COMPLETED"} \/ e.to \in InProgress
        BY <1>0 DEF FlowStates
    <3> QED BY <1>3, <3>1 DEF OnUpdated, known, entry, completed, skipped, resumed, other
  <2> HIDE DEF completed, skipped, resumed, other
  <2> QED BY <2>5, <2>6, <2>7, <2>8, <2>9, <2>10
<1> QED BY <1>2, <1>3

LEMMA TransferredKeeps ==
    ASSUME PanelOK(panel), NEW e \in Told, e.type = "TICKET_TRANSFERRED"
    PROVE  PanelOK(OnTransferred(e))
<1>1. e.id \in Ticket /\ e.category \in Category \cup {Null}
    BY DEF Told, WireEvent
<1>2. [id |-> e.id, category |-> e.category, status |-> "WAITING"] \in WaitingLine
    BY <1>1 DEF WaitingLine, TicketState, TicketStatus
<1> QED BY <1>2, RequeuedKeeps DEF OnTransferred

LEMMA StaleKeeps ==
    ASSUME PanelOK(panel)
    PROVE  PanelOK(OnReset) /\ PanelOK(LoadError)
<1>1. /\ OnReset \in Panel /\ OnReset.active = panel.active
      /\ OnReset.waiting = panel.waiting /\ OnReset.skipped = panel.skipped
    BY DEF OnReset, PanelOK, Panel
<1> DEFINE failed == [panel EXCEPT !.load = "error"]
<1>3. /\ failed \in Panel /\ failed.active = panel.active
      /\ failed.waiting = panel.waiting /\ failed.skipped = panel.skipped
    BY DEF PanelOK, Panel
<1>4. LoadError = [failed EXCEPT !.stale = FALSE]
    BY DEF LoadError
<1> HIDE DEF failed
<1>2. /\ LoadError \in Panel /\ LoadError.active = panel.active
      /\ LoadError.waiting = panel.waiting /\ LoadError.skipped = panel.skipped
    BY <1>3, <1>4 DEF Panel
<1> QED BY <1>1, <1>2 DEF PanelOK

LEMMA DeliverKeeps ==
    ASSUME PanelOK(panel), WireOK, Deliver
    PROVE  PanelOK(panel') /\ WireOK'
<1> DEFINE e == Head(frames)
<1>1. e \in Told /\ Tail(frames) \in Seq(Told)
    BY DEF Deliver, WireOK
<1> HIDE DEF e
<1>2. /\ PanelOK(OnReset)
      /\ e.type = "TICKET_CREATED" => PanelOK(OnCreated(e))
      /\ e.type = "TICKET_CALLED" => PanelOK(OnCalled(e))
      /\ e.type = "STATUS_UPDATED" => PanelOK(OnUpdated(e))
      /\ e.type = "TICKET_TRANSFERRED" => PanelOK(OnTransferred(e))
  <2>1. PanelOK(OnReset)
      BY StaleKeeps
  <2>2. e.type = "TICKET_CREATED" => PanelOK(OnCreated(e))
      BY <1>1, CreatedKeeps
  <2>3. e.type = "TICKET_CALLED" => PanelOK(OnCalled(e))
      BY <1>1, CalledKeeps
  <2>4. e.type = "STATUS_UPDATED" => PanelOK(OnUpdated(e))
      BY <1>1, UpdatedKeeps
  <2>5. e.type = "TICKET_TRANSFERRED" => PanelOK(OnTransferred(e))
      BY <1>1, TransferredKeeps
  <2> QED BY <2>1, <2>2, <2>3, <2>4, <2>5
<1>3. \/ e.type = "TICKET_CREATED" /\ panel' = OnCreated(e)
      \/ e.type = "TICKET_CALLED" /\ panel' = OnCalled(e)
      \/ e.type = "STATUS_UPDATED" /\ panel' = OnUpdated(e)
      \/ e.type = "TICKET_TRANSFERRED" /\ panel' = OnTransferred(e)
      \/ e.type = "SYSTEM_RESET" /\ panel' = OnReset
    BY DEF Deliver, e
<1>4. PanelOK(panel')
    BY <1>2, <1>3
<1>5. WireOK'
    BY <1>1 DEF Deliver, WireOK, e
<1> QED BY <1>4, <1>5

-----------------------------------------------------------------------------
(* The snapshots on their way: what each SELECT has found.                 *)
Found(L) == {list \in Seq(L) : IsInjective(Ids(list))} \cup {Null}

Snapshot == [active : Found(ActiveLine), waiting : Found(WaitingLine), skipped : Found(SkippedLine)]

LEMMA FoundIsListed == ASSUME NEW L, NEW list PROVE Listed(list, L) => list \in Found(L)
BY DEF Listed, Found

LEMMA StatesListed ==
    ASSUME NEW L \in SUBSET TicketState, NEW tickets, Once(tickets), row \in [Ticket -> Row],
           \A t \in Ticket : Has(tickets, t) => State(t) \in L
    PROVE  Listed(States(tickets), L)
<1> DEFINE list == States(tickets)
<1>1. /\ tickets \in Seq(Ticket) /\ Len(tickets) \in Nat /\ DOMAIN tickets = 1 .. Len(tickets)
      /\ \A i \in 1 .. Len(tickets) : tickets[i] \in Ticket
      /\ \A i, j \in 1 .. Len(tickets) : tickets[i] = tickets[j] => i = j
    BY DEF Once, IsInjective
<1>2. \A i \in 1 .. Len(tickets) : State(tickets[i]) \in L
    BY <1>1 DEF Has
<1>3. /\ list \in Seq(L) /\ Len(list) = Len(tickets)
      /\ \A i \in 1 .. Len(tickets) : list[i] = State(tickets[i])
    BY <1>1, <1>2 DEF States
<1> HIDE DEF list
<1>4. \A i \in 1 .. Len(tickets) : list[i].id = tickets[i]
  <2>1. \A t : State(t).id = t
      BY DEF State
  <2> QED BY <1>3, <2>1
<1>5. \A i, j \in 1 .. Len(list) : list[i].id = list[j].id => i = j
    BY <1>1, <1>3, <1>4
<1> QED BY <1>3, <1>5, OnceEach DEF Listed, list

LEMMA FindsListed ==
    ASSUME ServerOK
    PROVE  /\ Listed(FindActiveByCounter, ActiveLine)
           /\ Listed(FindWaiting, WaitingLine)
           /\ Listed(FindSkippedByCounter, SkippedLine)
<1>0. \A t \in Ticket : State(t) \in TicketState /\ State(t).status = row[t].status
    BY DEF ServerOK, State, TicketState, Row
<1>1. Listed(FindActiveByCounter, ActiveLine)
  <2> DEFINE S == {t \in Ticket : row[t].counter = Mine /\ row[t].status \in {"CALLING", "SERVING"}}
  <2>1. Once(Kept(touched, S)) /\ \A t : Has(Kept(touched, S), t) => t \in S
      BY KeptOnce DEF ServerOK
  <2>2. \A t \in S : State(t) \in ActiveLine
      BY <1>0 DEF ActiveLine, InProgress
  <2> HIDE DEF S
  <2>3. Listed(States(Kept(touched, S)), ActiveLine)
      BY <2>1, <2>2, LinesAreStates, StatesListed DEF ServerOK
  <2> QED BY <2>3 DEF FindActiveByCounter, S
<1>2. Listed(FindWaiting, WaitingLine)
  <2> DEFINE S == {t \in Ticket : row[t].category \in MyCategories}
  <2>1. Once(Kept(queue, S)) /\ \A t : Has(Kept(queue, S), t) => Has(queue, t)
      BY KeptOnce DEF ServerOK
  <2>2. \A t \in Ticket : Has(queue, t) => State(t) \in WaitingLine
      BY <1>0 DEF WaitingLine, ServerOK
  <2> HIDE DEF S
  <2>3. Listed(States(Kept(queue, S)), WaitingLine)
      BY <2>1, <2>2, LinesAreStates, StatesListed DEF ServerOK
  <2> QED BY <2>3 DEF FindWaiting, S
<1>3. Listed(FindSkippedByCounter, SkippedLine)
  <2> DEFINE S == {t \in Ticket : row[t].counter = Mine /\ row[t].status = "SKIPPED"}
  <2>1. Once(Kept(touched, S)) /\ \A t : Has(Kept(touched, S), t) => t \in S
      BY KeptOnce DEF ServerOK
  <2>2. \A t \in S : State(t) \in SkippedLine
      BY <1>0 DEF SkippedLine
  <2> HIDE DEF S
  <2>3. Listed(States(Kept(touched, S)), SkippedLine)
      BY <2>1, <2>2, LinesAreStates, StatesListed DEF ServerOK
  <2> QED BY <2>3 DEF FindSkippedByCounter, S
<1> QED BY <1>1, <1>2, <1>3

LEMMA NoReadIsSnapshot == NoRead \in Snapshot
BY DEF NoRead, Snapshot, Found

LEMMA ReadKeeps ==
    ASSUME ServerOK, reads \in Seq(Snapshot), ReadList
    PROVE  reads' \in Seq(Snapshot)
<1>1. PICK i \in DOMAIN reads :
          \/ reads' = [reads EXCEPT ![i].active = FindActiveByCounter]
          \/ reads' = [reads EXCEPT ![i].waiting = FindWaiting]
          \/ reads' = [reads EXCEPT ![i].skipped = FindSkippedByCounter]
    BY DEF ReadList
<1>2. reads[i] \in Snapshot
    BY <1>1
<1>0. /\ FindActiveByCounter \in Found(ActiveLine) /\ FindWaiting \in Found(WaitingLine)
      /\ FindSkippedByCounter \in Found(SkippedLine)
    BY FindsListed, FoundIsListed
<1>3. /\ [reads[i] EXCEPT !.active = FindActiveByCounter] \in Snapshot
      /\ [reads[i] EXCEPT !.waiting = FindWaiting] \in Snapshot
      /\ [reads[i] EXCEPT !.skipped = FindSkippedByCounter] \in Snapshot
    BY <1>0, <1>2 DEF Snapshot
<1>4. PICK r \in Snapshot : reads' = [reads EXCEPT ![i] = r]
    BY <1>1, <1>3
<1> QED BY <1>4

LEMMA RemovedKeeps ==
    ASSUME NEW T, NEW seq \in Seq(T), NEW i \in DOMAIN seq
    PROVE  RemoveAt(seq, i) \in Seq(T)
<1>1. SubSeq(seq, 1, i - 1) \in Seq(T) /\ SubSeq(seq, i + 1, Len(seq)) \in Seq(T)
    OBVIOUS
<1> QED BY <1>1 DEF RemoveAt

LEMMA LoadedOK ==
    ASSUME NEW r \in Snapshot, Null \notin {r.active, r.waiting, r.skipped}
    PROVE  PanelOK([active |-> r.active, waiting |-> r.waiting, skipped |-> r.skipped,
                    load |-> "loaded", stale |-> FALSE])
<1>1. /\ Listed(r.active, ActiveLine) /\ Listed(r.waiting, WaitingLine)
      /\ Listed(r.skipped, SkippedLine)
    BY DEF Snapshot, Found, Listed
<1> QED BY <1>1 DEF PanelOK, Panel, Listed

-----------------------------------------------------------------------------
(* The commands of the staff: one per surface, the one its runner is busy  *)
(* with.                                                                   *)
StaffOK ==
    /\ requested \subseteq Request /\ taps \in Nat
    /\ running \in [Surface -> Command \cup {Null}] /\ busy \in [Surface -> Command \cup {Null}]
    /\ \A r, q \in requested : r.surface = q.surface => r = q
    /\ \A r \in requested : running[r.surface] # Null

LEMMA AnsweredIsRequest ==
    ASSUME NEW r \in Request
    PROVE  /\ [r EXCEPT !.answered = TRUE] \in Request
           /\ [r EXCEPT !.answered = TRUE].surface = r.surface
BY DEF Request

LEMMA AnswerKeeps ==
    ASSUME StaffOK, NEW request, Answer(request), UNCHANGED <<running, busy, taps>>
    PROVE  StaffOK'
<1> DEFINE answer == [request EXCEPT !.answered = TRUE]
<1>1. request \in requested /\ requested' = (requested \ {request}) \cup {answer}
    BY DEF Answer
<1>2. answer \in Request /\ answer.surface = request.surface
    BY <1>1, AnsweredIsRequest DEF StaffOK
<1> HIDE DEF answer
<1>3. requested' \subseteq Request /\ \A r \in requested' : running[r.surface] # Null
    BY <1>1, <1>2 DEF StaffOK
<1>4. \A r, q \in requested' : r.surface = q.surface => r = q
    BY <1>1, <1>2 DEF StaffOK
<1> QED BY <1>3, <1>4 DEF StaffOK

LEMMA RestartKeeps ==
    ASSUME StaffOK, UNCHANGED <<running, busy, taps>>,
           requested' = {[request EXCEPT !.answered = TRUE] : request \in requested}
    PROVE  StaffOK'
<1>1. \A r \in requested' : \E request \in requested : r = [request EXCEPT !.answered = TRUE]
    OBVIOUS
<1>2. \A request \in requested :
          /\ [request EXCEPT !.answered = TRUE] \in Request
          /\ [request EXCEPT !.answered = TRUE].surface = request.surface
    BY AnsweredIsRequest DEF StaffOK
<1>3. ASSUME NEW r \in requested' PROVE r \in Request /\ running[r.surface] # Null
  <2>1. PICK request \in requested : r = [request EXCEPT !.answered = TRUE]
      BY <1>1
  <2>2. r \in Request /\ r.surface = request.surface
      BY <1>2, <2>1
  <2> QED BY <2>2 DEF StaffOK
<1>4. ASSUME NEW r \in requested', NEW q \in requested', r.surface = q.surface PROVE r = q
  <2>1. PICK of \in requested : r = [of EXCEPT !.answered = TRUE]
      BY <1>1
  <2>2. PICK by \in requested : q = [by EXCEPT !.answered = TRUE]
      BY <1>1
  <2>3. of.surface = by.surface
      BY <1>2, <1>4, <2>1, <2>2
  <2>4. of = by
      BY <2>3 DEF StaffOK
  <2> QED BY <2>1, <2>2, <2>4
<1> QED BY <1>3, <1>4 DEF StaffOK

LEMMA TransitionsAreCommands ==
    ASSUME NEW t \in Ticket, NEW status
    PROVE  Transitions(t, status) \subseteq Command
BY DEF Transitions, Command

LEMMA RowsAreCommands ==
    ASSUME NEW list \in Seq(TicketState), NEW status
    PROVE  RowActions(list, status) \subseteq Command
<1>1. ASSUME NEW i \in DOMAIN list PROVE Transitions(list[i].id, status) \subseteq Command
  <2>1. list[i] \in TicketState /\ list[i].id \in Ticket
    <3>1. list[i] \in TicketState
        OBVIOUS
    <3> QED BY <3>1 DEF TicketState
  <2> QED BY <2>1, TransitionsAreCommands
<1> QED BY <1>1 DEF RowActions

LEMMA ButtonsAreCommands ==
    ASSUME PanelOK(screen), NEW s \in Surface
    PROVE  Buttons(s) \subseteq Command
<1>1. /\ screen.active \in Seq(TicketState) /\ screen.waiting \in Seq(TicketState)
      /\ screen.skipped \in Seq(TicketState)
    BY LinesAreStates DEF PanelOK, Listed
<1>2. Controls \subseteq Command
  <2>1. CASE screen.active = <<>>
      BY <2>1 DEF Controls, Command
  <2>2. CASE screen.active # <<>>
    <3> DEFINE shown == screen.active[1]
    <3>1. shown.id \in Ticket
      <4>1. shown \in TicketState
          BY <1>1, <2>2
      <4> QED BY <4>1 DEF TicketState
    <3> HIDE DEF shown
    <3>2. Transitions(shown.id, shown.status) \subseteq Command
        BY <3>1, TransitionsAreCommands
    <3>3. [op : {"transfer"}, id : {shown.id}, to : MyCategories \ {shown.category}]
              \subseteq Command
      <4>1. MyCategories \subseteq Category
          BY CallerPanelAssumption DEF MyCategories
      <4> QED BY <3>1, <4>1 DEF Command
    <3>4. [op : {"reannounce"}, id : {shown.id}, to : {Null}] \subseteq Command
        BY <3>1 DEF Command
    <3> QED BY <2>2, <3>2, <3>3, <3>4 DEF Controls, shown
  <2> QED BY <2>1, <2>2
<1>3. /\ RowActions(screen.waiting, "WAITING") \subseteq Command
      /\ RowActions(screen.skipped, "SKIPPED") \subseteq Command
    BY <1>1, RowsAreCommands
<1>4. s \in {"controls", "waiting", "skipped"}
    BY DEF Surface
<1> QED BY <1>2, <1>3, <1>4 DEF Buttons

LEMMA TapKeeps ==
    ASSUME StaffOK, PanelOK(screen), NEW s \in Surface, NEW cmd, Tap(s, cmd)
    PROVE  StaffOK'
<1> DEFINE new == [nr |-> taps, surface |-> s, command |-> cmd, answered |-> FALSE]
<1>1. cmd \in Command /\ cmd # Null
  <2>1. cmd \in Command
      BY ButtonsAreCommands DEF Tap
  <2> QED BY <2>1, CommandAssumption
<1>2. new \in Request /\ new.surface = s
    BY <1>1 DEF Request, StaffOK
<1>3. requested' = requested \cup {new} /\ taps' = taps + 1 /\ busy' = busy
      /\ running' = [running EXCEPT ![s] = cmd] /\ running[s] = Null
    BY DEF Tap, IsInFlight
<1> HIDE DEF new
<1>4. running' \in [Surface -> Command \cup {Null}] /\ running'[s] # Null
      /\ \A u \in Surface : running[u] # Null => running'[u] # Null
    BY <1>1, <1>3 DEF StaffOK
<1>5. \A r \in requested : r.surface \in Surface /\ r.surface # s
    BY <1>3 DEF StaffOK, Request
<1>6. \A r, q \in requested' : r.surface = q.surface => r = q
    BY <1>2, <1>3, <1>5 DEF StaffOK
<1>7. \A r \in requested' : running'[r.surface] # Null
    BY <1>2, <1>3, <1>4, <1>5 DEF StaffOK
<1> QED BY <1>2, <1>3, <1>4, <1>6, <1>7 DEF StaffOK

LEMMA SettleKeeps ==
    ASSUME StaffOK, Settle
    PROVE  StaffOK'
<1>1. PICK request \in requested :
          /\ requested' = requested \ {request}
          /\ running' = [running EXCEPT ![request.surface] = Null]
          /\ UNCHANGED <<busy, taps>>
    BY DEF Settle
<1>2. running' \in [Surface -> Command \cup {Null}]
    BY <1>1 DEF StaffOK
<1>3. \A r \in requested' : r.surface \in Surface /\ r.surface # request.surface
    BY <1>1 DEF StaffOK, Request
<1>4. \A r \in requested' : running'[r.surface] # Null
    BY <1>1, <1>3 DEF StaffOK
<1> QED BY <1>1, <1>2, <1>4 DEF StaffOK

-----------------------------------------------------------------------------
(* A panel whose signal is on the screen already is being read again,      *)
(* unless the signal on the screen is an earlier one.                      *)
SignalOK ==
    /\ batched \in BOOLEAN
    /\ ~batched /\ panel.stale /\ screen.stale => reads # <<>>

IInv ==
    /\ ServerOK /\ WireOK /\ StaffOK
    /\ PanelOK(panel) /\ PanelOK(screen) /\ reads \in Seq(Snapshot)
    /\ SignalOK

LEMMA NothingIsTold == <<>> \in Seq(Told)
OBVIOUS

(* A panel opened on whatever the tables have, on an empty day or later.   *)
LEMMA OpenedHolds == ServerOK /\ PanelInit => IInv
<1> SUFFICES ASSUME ServerOK, PanelInit PROVE IInv
    OBVIOUS
<1>1. WireOK
    BY NothingIsTold DEF PanelInit, WireOK
<1>2. StaffOK
    BY DEF PanelInit, StaffOK
<1>3. PanelOK(panel)
  <2>1. Listed(<<>>, ActiveLine) /\ Listed(<<>>, WaitingLine) /\ Listed(<<>>, SkippedLine)
      BY EmptyListed
  <2>2. panel = [active |-> <<>>, waiting |-> <<>>, skipped |-> <<>>, load |-> "loading",
                 stale |-> FALSE]
      BY DEF PanelInit
  <2> QED BY <2>1, <2>2 DEF PanelOK, Panel
<1>4. PanelOK(screen)
    BY <1>3 DEF PanelInit
<1>5. reads \in Seq(Snapshot)
    BY NoReadIsSnapshot DEF PanelInit
<1>6. SignalOK
    BY DEF PanelInit, SignalOK
<1> QED BY <1>1, <1>2, <1>3, <1>4, <1>5, <1>6 DEF IInv

LEMMA EmptyDayIsOK == CallerInit => ServerOK
<1> SUFFICES ASSUME CallerInit PROVE ServerOK
    OBVIOUS
<1>1. Once(<<>>) /\ \A t : ~Has(<<>>, t)
    BY DEF Once, Has, IsInjective
<1>2. [status |-> "NONE", category |-> Null, counter |-> Null] \in Row
    BY DEF Row, TicketStatus
<1> QED BY <1>1, <1>2 DEF CallerInit, ServerOK

LEMMA InitHolds == CallerInit => IInv
BY OpenedHolds, EmptyDayIsOK DEF CallerInit

LEMMA NextKeeps == IInv /\ [CallerNext]_callerVars => IInv'
<1> SUFFICES ASSUME IInv, [CallerNext]_callerVars PROVE IInv'
    OBVIOUS
<1>0. /\ ServerOK /\ WireOK /\ StaffOK
      /\ PanelOK(panel) /\ PanelOK(screen) /\ reads \in Seq(Snapshot)
      /\ SignalOK
    BY DEF IInv
<1>a. ASSUME UNCHANGED server PROVE ServerOK'
    BY <1>0, <1>a DEF server, ServerOK, Once, Has
<1>b. ASSUME UNCHANGED wire, UNCHANGED commits PROVE WireOK'
    BY <1>0, <1>b DEF wire, WireOK
<1>c. ASSUME UNCHANGED staff PROVE StaffOK'
    BY <1>0, <1>c DEF staff, StaffOK
<1>d. ASSUME UNCHANGED client, UNCHANGED batched
      PROVE  PanelOK(panel') /\ PanelOK(screen') /\ reads' \in Seq(Snapshot) /\ SignalOK'
    BY <1>0, <1>d DEF client, SignalOK
<1>1. CASE OthersRequest
  <2>1. Committed
      BY <1>0, <1>1, OthersKeep
  <2>2. UNCHANGED <<frames, connected, client, staff, past>>
      BY <1>1 DEF OthersRequest
  <2> QED BY <1>0, <1>c, <1>d, <2>1, <2>2 DEF Committed, IInv, WireOK, past
<1>2. CASE CommandCommits
  <2>1. PICK request \in requested :
            Answer(request) /\ Perform(request.command)
      BY <1>2 DEF CommandCommits
  <2>2. UNCHANGED <<frames, connected, client, running, busy, taps, past>>
      BY <1>2 DEF CommandCommits
  <2>3. request.command \in Command
      BY <1>0 DEF StaffOK, Request
  <2>4. Committed
      BY <1>0, <2>1, <2>3, PerformKeeps
  <2>5. StaffOK'
      BY <1>0, <2>1, <2>2, AnswerKeeps
  <2> QED BY <1>0, <1>d, <2>2, <2>4, <2>5 DEF Committed, IInv, WireOK, past
<1>3. CASE CommandRefused
  <2>1. PICK request \in requested : Answer(request)
      BY <1>3 DEF CommandRefused
  <2>2. UNCHANGED <<server, wire, client, running, busy, taps, past, commits>>
      BY <1>3 DEF CommandRefused
  <2>3. StaffOK'
      BY <1>0, <2>1, <2>2, AnswerKeeps
  <2> QED BY <1>a, <1>b, <1>d, <2>2, <2>3 DEF IInv, past
<1>4. CASE Dispatch
  <2>1. PICK batch \in outbox :
            /\ outbox' = outbox \ {batch}
            /\ frames' = IF connected THEN frames \o batch[2] ELSE frames
      BY <1>4 DEF Dispatch
  <2>2. UNCHANGED <<server, connected, client, staff, past, commits>>
      BY <1>4 DEF Dispatch
  <2>3. batch[2] \in Seq(Told) /\ frames \in Seq(Told)
      BY <1>0 DEF WireOK
  <2>4. frames' \in Seq(Told)
      BY <2>1, <2>3
  <2>5. WireOK'
      BY <1>0, <2>1, <2>2, <2>4 DEF WireOK
  <2> QED BY <1>a, <1>c, <1>d, <2>2, <2>5 DEF IInv, past
<1>5. CASE Deliver
  <2>1. PanelOK(panel') /\ WireOK'
      BY <1>0, <1>5, DeliverKeeps
  <2>2. UNCHANGED <<server, screen, reads, staff>>
      BY <1>5 DEF Deliver
  <2>3. SignalOK'
    <3>1. batched' = (batched \/ (panel'.stale /\ ~panel.stale /\ screen.stale))
        BY <1>5 DEF Deliver
    <3>2. panel.stale \in BOOLEAN /\ panel'.stale \in BOOLEAN /\ screen.stale \in BOOLEAN
        BY <1>0, <2>1 DEF PanelOK, Panel
    <3> QED BY <1>0, <2>2, <3>1, <3>2 DEF SignalOK
  <2> QED BY <1>0, <1>a, <1>c, <2>1, <2>2, <2>3 DEF IInv
<1>6. CASE Connect
  <2>1. UNCHANGED <<server, outbox, frames, client, staff, past, commits>> /\ connected' = TRUE
      BY <1>6 DEF Connect
  <2>2. WireOK'
      BY <1>0, <2>1 DEF WireOK
  <2> QED BY <1>a, <1>c, <1>d, <2>1, <2>2 DEF IInv, past
<1>7. CASE Disconnect
  <2>1. /\ UNCHANGED <<server, outbox, client, staff, batched, commits>>
        /\ connected' = FALSE /\ frames' = <<>>
      BY <1>7 DEF Disconnect
  <2>2. WireOK'
      BY <1>0, <2>1, NothingIsTold DEF WireOK
  <2> QED BY <1>a, <1>c, <1>d, <2>1, <2>2 DEF IInv
<1>8. CASE ServerRestarts
  <2>1. /\ outbox' = {} /\ frames' = <<>> /\ connected' = FALSE
        /\ reads' = <<>> /\ panel' = IF reads = <<>> THEN panel ELSE LoadError
        /\ requested' = {[request EXCEPT !.answered = TRUE] : request \in requested}
        /\ UNCHANGED <<server, screen, running, busy, taps, batched, commits>>
      BY <1>8 DEF ServerRestarts
  <2>2. WireOK'
      BY <1>0, <2>1, NothingIsTold DEF WireOK
  <2>3. StaffOK'
      BY <1>0, <2>1, RestartKeeps
  <2>4. PanelOK(panel') /\ PanelOK(screen')
      BY <1>0, <2>1, StaleKeeps
  <2>5. SignalOK'
    <3>1. CASE reads = <<>>
        BY <1>0, <2>1, <3>1 DEF SignalOK
    <3>2. CASE reads # <<>>
      <4>1. LoadError.stale = FALSE
          BY <1>0 DEF LoadError, PanelOK, Panel
      <4> QED BY <1>0, <2>1, <3>2, <4>1 DEF SignalOK
    <3> QED BY <3>1, <3>2
  <2> QED BY <1>a, <2>1, <2>2, <2>3, <2>4, <2>5 DEF IInv
<1>9. CASE Render
  <2>1. /\ screen' = panel /\ busy' = running
        /\ UNCHANGED <<server, wire, panel, running, requested, taps, past, commits>>
      BY <1>9 DEF Render
  <2>2. \/ panel.stale /\ ~screen.stale /\ reads' = Append(reads, NoRead)
        \/ ~(panel.stale /\ ~screen.stale) /\ reads' = reads
      BY <1>9 DEF Render
  <2>3. reads' \in Seq(Snapshot) /\ (panel.stale /\ ~screen.stale => reads' # <<>>)
      BY <1>0, <2>2, NoReadIsSnapshot
  <2>4. StaffOK'
      BY <1>0, <2>1 DEF StaffOK
  <2>5. SignalOK'
      BY <1>0, <2>1, <2>2, <2>3 DEF SignalOK, past
  <2> QED BY <1>0, <1>a, <1>b, <2>1, <2>3, <2>4, <2>5 DEF IInv
<1>10. CASE ReadList
  <2>1. UNCHANGED <<server, wire, panel, screen, staff, past, commits>>
      BY <1>10 DEF ReadList
  <2>2. reads' \in Seq(Snapshot)
      BY <1>0, <1>10, ReadKeeps
  <2>3. Len(reads') = Len(reads)
      BY <1>0, <1>10 DEF ReadList
  <2>4. SignalOK'
      BY <1>0, <2>1, <2>2, <2>3 DEF SignalOK, past
  <2> QED BY <1>0, <1>a, <1>b, <1>c, <2>1, <2>2, <2>4 DEF IInv
<1>11. CASE SnapshotLoaded
  <2>1. PICK i \in DOMAIN reads :
            /\ Null \notin {reads[i].active, reads[i].waiting, reads[i].skipped}
            /\ panel' = [active |-> reads[i].active, waiting |-> reads[i].waiting,
                         skipped |-> reads[i].skipped, load |-> "loaded", stale |-> FALSE]
            /\ reads' = RemoveAt(reads, i)
      BY <1>11 DEF SnapshotLoaded
  <2>2. UNCHANGED <<server, wire, screen, staff, past, commits>>
      BY <1>11 DEF SnapshotLoaded
  <2>3. reads[i] \in Snapshot
      BY <1>0, <2>1
  <2>4. PanelOK(panel')
      BY <2>1, <2>3, LoadedOK
  <2>5. reads' \in Seq(Snapshot)
      BY <1>0, <2>1, RemovedKeeps
  <2>6. SignalOK'
      BY <1>0, <2>1, <2>2 DEF SignalOK, past
  <2> QED BY <1>0, <1>a, <1>b, <1>c, <2>2, <2>4, <2>5, <2>6 DEF IInv
<1>12. CASE SnapshotError
  <2>1. PICK i \in DOMAIN reads : panel' = LoadError /\ reads' = RemoveAt(reads, i)
      BY <1>12 DEF SnapshotError
  <2>2. UNCHANGED <<server, wire, screen, staff, batched, commits>>
      BY <1>12 DEF SnapshotError
  <2>3. PanelOK(panel') /\ reads' \in Seq(Snapshot)
      BY <1>0, <2>1, StaleKeeps, RemovedKeeps
  <2>4. LoadError.stale = FALSE
      BY <1>0 DEF LoadError, PanelOK, Panel
  <2>5. SignalOK'
      BY <1>0, <2>1, <2>2, <2>4 DEF SignalOK
  <2> QED BY <1>0, <1>a, <1>b, <1>c, <2>2, <2>3, <2>5 DEF IInv
<1>13. ASSUME NEW s \in Surface, NEW cmd \in Buttons(s), Tap(s, cmd) PROVE IInv'
  <2>1. UNCHANGED <<server, wire, client, past, commits>>
      BY <1>13 DEF Tap
  <2>2. StaffOK'
      BY <1>0, <1>13, TapKeeps
  <2> QED BY <1>a, <1>b, <1>d, <2>1, <2>2 DEF IInv, past
<1>14. CASE Settle
  <2>1. UNCHANGED <<server, wire, client, past, commits>>
      BY <1>14 DEF Settle
  <2>2. StaffOK'
      BY <1>0, <1>14, SettleKeeps
  <2> QED BY <1>a, <1>b, <1>d, <2>1, <2>2 DEF IInv, past
<1>15. CASE UNCHANGED callerVars
    BY <1>a, <1>b, <1>c, <1>d, <1>15 DEF callerVars, past, IInv
<1> QED BY <1>1, <1>2, <1>3, <1>4, <1>5, <1>6, <1>7, <1>8, <1>9, <1>10, <1>11, <1>12, <1>13,
           <1>14, <1>15 DEF CallerNext

LEMMA IInvHolds == CallerSpec => []IInv
BY InitHolds, NextKeeps, PTL DEF CallerSpec

(* The lists of a panel hold what belongs in them and no ticket twice,     *)
(* whatever events, snapshots and losses come in whatever order, and every *)
(* row of buttons waits for one answer at most.                            *)
THEOREM PanelStaysWellFormed == CallerSpec => []PanelIsWellFormed
<1>1. IInv => CallerTypeOK
  <2> SUFFICES ASSUME IInv PROVE CallerTypeOK
      OBVIOUS
  <2>1. row \in [Ticket -> Row] /\ queue \in Seq(Ticket) /\ touched \in Seq(Ticket)
      BY DEF IInv, ServerOK, Once
  <2>2. /\ \A batch \in outbox : batch \in Nat \X Seq(WireEvent)
        /\ frames \in Seq(WireEvent) /\ connected \in BOOLEAN
    <3>1. Told \subseteq WireEvent
        BY DEF Told
    <3>2. Seq(Told) \subseteq Seq(WireEvent)
        BY <3>1
    <3> QED BY <3>2 DEF IInv, WireOK
  <2>3. /\ panel.active \in Seq(ActiveLine) /\ panel.waiting \in Seq(WaitingLine)
        /\ panel.skipped \in Seq(SkippedLine)
        /\ panel.load \in {"loading", "loaded", "error"} /\ panel.stale \in BOOLEAN
      BY DEF IInv, PanelOK, Panel
  <2>4. \A list \in Lists : list \in Seq(TicketState)
      BY <2>3, LinesAreStates DEF Lists
  <2>5. /\ \A entry \in ToSet(panel.active) : entry.status \in InProgress
        /\ \A entry \in ToSet(panel.waiting) : entry.status = "WAITING"
        /\ \A entry \in ToSet(panel.skipped) : entry.status = "SKIPPED"
    <3>1. /\ \A i \in DOMAIN panel.active : panel.active[i] \in ActiveLine
          /\ \A i \in DOMAIN panel.waiting : panel.waiting[i] \in WaitingLine
          /\ \A i \in DOMAIN panel.skipped : panel.skipped[i] \in SkippedLine
        BY <2>3
    <3> QED BY <3>1 DEF ToSet, ActiveLine, WaitingLine, SkippedLine
  <2>6. /\ requested \subseteq Request
        /\ \A s \in Surface : {running[s], busy[s]} \subseteq Command \cup {Null}
      BY DEF IInv, StaffOK
  <2> QED BY <2>1, <2>2, <2>3, <2>4, <2>5, <2>6 DEF CallerTypeOK
<1>2. IInv => NoTicketTwice
    BY DEF IInv, PanelOK, Listed, NoTicketTwice, Lists
<1>3. IInv => OneCommandPerSurface
  <2> SUFFICES ASSUME IInv, NEW s \in Surface
               PROVE  Cardinality({request \in requested : request.surface = s}) <= 1
      BY DEF OneCommandPerSurface
  <2> DEFINE its == {request \in requested : request.surface = s}
  <2>1. \A r, q \in its : r = q
      BY DEF IInv, StaffOK
  <2>2. its = {} \/ \E r : its = {r}
      BY <2>1
  <2> HIDE DEF its
  <2>3. Cardinality(its) = 0 \/ Cardinality(its) = 1
      BY <2>2, FS_EmptySet, FS_Singleton, Zenon
  <2>4. Cardinality(its) <= 1
      BY <2>3
  <2> QED BY <2>4 DEF its
<1>4. IInv => PanelIsWellFormed
    BY <1>1, <1>2, <1>3 DEF PanelIsWellFormed
<1> QED BY <1>4, IInvHolds, PTL

(* A panel that is stale on the screen is reading the snapshot, unless a   *)
(* snapshot and a later signal were handled between two renderings.        *)
THEOREM StaleIsAlwaysFetched == CallerSpec => []StaleIsFetchedUnlessBatched
<1>1. IInv => StaleIsFetchedUnlessBatched
    BY DEF IInv, SignalOK, StaleIsFetchedUnlessBatched, StaleIsFetched
<1> QED BY <1>1, IInvHolds, PTL

-----------------------------------------------------------------------------
(* The order of a table, and what an operation on it leaves as it was: all *)
(* but the ticket t.                                                       *)
Before(seq, u, v) == \E i, j \in DOMAIN seq : i < j /\ seq[i] = u /\ seq[j] = v
IsLast(seq, t) == \A u \in Ticket : Has(seq, u) /\ u # t => Before(seq, u, t)

SameTable(new, old, t) ==
    /\ \A u : u # t => (Has(new, u) <=> Has(old, u))
    /\ \A u, v : u # t /\ v # t => (Before(new, u, v) <=> Before(old, u, v))

LEMMA KeptExactly ==
    ASSUME NEW seq \in Seq(Ticket), NEW S
    PROVE  /\ \A t : Has(Kept(seq, S), t) <=> Has(seq, t) /\ t \in S
           /\ \A t, u : Before(Kept(seq, S), t, u) <=> Before(seq, t, u) /\ t \in S /\ u \in S
<1> DEFINE kept == Kept(seq, S)
<1>1. kept \in Seq(Ticket \cap S)
    BY KeptIsPart
<1>2. PICK walk \in [DOMAIN kept -> DOMAIN seq] :
          /\ \A i \in DOMAIN kept : kept[i] = seq[walk[i]]
          /\ \A i, j \in DOMAIN kept : i < j => walk[i] < walk[j]
          /\ \A x \in DOMAIN seq : seq[x] \in S => \E i \in DOMAIN kept : walk[i] = x
    BY KeptIsWalk
<1> HIDE DEF kept
<1>3. /\ DOMAIN kept \subseteq Nat /\ DOMAIN seq \subseteq Nat
      /\ \A i \in DOMAIN kept : kept[i] \in S /\ walk[i] \in DOMAIN seq
    BY <1>1
<1>4. \A i, j \in DOMAIN kept : walk[i] < walk[j] => i < j
  <2> SUFFICES ASSUME NEW i \in DOMAIN kept, NEW j \in DOMAIN kept, walk[i] < walk[j], ~(i < j)
               PROVE  FALSE
      OBVIOUS
  <2>1. i = j \/ j < i
      BY <1>3
  <2>2. walk[i] \in Nat /\ walk[j] \in Nat
      BY <1>3
  <2> QED BY <1>2, <2>1, <2>2
<1>5. \A t : Has(kept, t) <=> Has(seq, t) /\ t \in S
    BY <1>2, <1>3 DEF Has
<1>6. ASSUME NEW t, NEW u
      PROVE  Before(kept, t, u) <=> Before(seq, t, u) /\ t \in S /\ u \in S
  <2>1. ASSUME Before(kept, t, u) PROVE Before(seq, t, u) /\ t \in S /\ u \in S
    <3>1. PICK i \in DOMAIN kept, j \in DOMAIN kept : i < j /\ kept[i] = t /\ kept[j] = u
        BY <2>1 DEF Before
    <3>2. walk[i] < walk[j] /\ seq[walk[i]] = t /\ seq[walk[j]] = u
        BY <1>2, <3>1
    <3> QED BY <1>3, <3>1, <3>2 DEF Before
  <2>2. ASSUME Before(seq, t, u), t \in S, u \in S PROVE Before(kept, t, u)
    <3>1. PICK x \in DOMAIN seq, y \in DOMAIN seq : x < y /\ seq[x] = t /\ seq[y] = u
        BY <2>2 DEF Before
    <3>2. PICK i \in DOMAIN kept : walk[i] = x
        BY <1>2, <2>2, <3>1
    <3>3. PICK j \in DOMAIN kept : walk[j] = y
        BY <1>2, <2>2, <3>1
    <3>4. i < j /\ kept[i] = t /\ kept[j] = u
        BY <1>2, <1>4, <3>1, <3>2, <3>3
    <3> QED BY <3>4 DEF Before
  <2> QED BY <2>1, <2>2
<1> QED BY <1>5, <1>6 DEF kept

LEMMA LessIsSame ==
    ASSUME NEW seq, Once(seq), NEW t
    PROVE  SameTable(Less(seq, t), seq, t)
<1>1. seq \in Seq(Ticket)
    BY DEF Once
<1>2. /\ \A u : Has(seq, u) => u \in Ticket
      /\ \A u, v : Before(seq, u, v) => u \in Ticket /\ v \in Ticket
    BY <1>1 DEF Has, Before
<1> QED BY <1>1, <1>2, KeptExactly DEF SameTable, Less

LEMMA AppendIsSame ==
    ASSUME NEW seq, Once(seq), NEW t \in Ticket
    PROVE  /\ SameTable(Append(seq, t), seq, t)
           /\ Has(Append(seq, t), t) /\ IsLast(Append(seq, t), t)
<1> DEFINE longer == Append(seq, t)
<1>1. Len(seq) \in Nat /\ DOMAIN seq = 1 .. Len(seq) /\ DOMAIN longer = 1 .. Len(seq) + 1
      /\ longer[Len(seq) + 1] = t /\ \A i \in 1 .. Len(seq) : longer[i] = seq[i]
    BY DEF Once
<1> HIDE DEF longer
<1>2. /\ Len(seq) + 1 \in DOMAIN longer
      /\ \A i \in DOMAIN seq : i \in DOMAIN longer /\ i < Len(seq) + 1 /\ longer[i] = seq[i]
      /\ \A i \in DOMAIN longer : i \in DOMAIN seq \/ i = Len(seq) + 1
    BY <1>1
<1>3. \A u : u # t => (Has(longer, u) <=> Has(seq, u))
    BY <1>1, <1>2 DEF Has
<1>4. \A u, v : u # t /\ v # t => (Before(longer, u, v) <=> Before(seq, u, v))
    BY <1>1, <1>2 DEF Before
<1>5. Has(longer, t)
    BY <1>1, <1>2 DEF Has
<1>6. IsLast(longer, t)
  <2> SUFFICES ASSUME NEW u, Has(longer, u), u # t PROVE Before(longer, u, t)
      BY DEF IsLast
  <2>1. PICK i \in DOMAIN longer : longer[i] = u
      BY DEF Has
  <2>2. i \in DOMAIN seq
      BY <1>1, <1>2, <2>1
  <2>3. i < Len(seq) + 1
      BY <1>2, <2>2
  <2> QED BY <1>1, <1>2, <2>1, <2>3 DEF Before
<1> QED BY <1>3, <1>4, <1>5, <1>6 DEF SameTable, longer

LEMMA InsertIsSame ==
    ASSUME NEW seq, Once(seq), NEW t \in Ticket, NEW at \in 1 .. Len(seq) + 1
    PROVE  SameTable(InsertAt(seq, at, t), seq, t) /\ Has(InsertAt(seq, at, t), t)
<1> DEFINE longer == InsertAt(seq, at, t)
           from(i) == IF i < at THEN i ELSE i - 1
           to(i) == IF i < at THEN i ELSE i + 1
<1>1. seq \in Seq(Ticket) /\ Len(seq) \in Nat /\ DOMAIN seq = 1 .. Len(seq)
    BY DEF Once
<1>2. /\ DOMAIN longer = 1 .. Len(seq) + 1 /\ longer[at] = t
      /\ \A i \in 1 .. Len(seq) + 1 : i < at => longer[i] = seq[i]
      /\ \A i \in 1 .. Len(seq) + 1 : at < i => longer[i] = seq[i - 1]
    BY <1>1, InsertedAt
<1> HIDE DEF longer
<1>3. \A i \in DOMAIN longer : i # at => from(i) \in DOMAIN seq /\ longer[i] = seq[from(i)]
    BY <1>1, <1>2
<1>4. \A i \in DOMAIN seq : to(i) \in DOMAIN longer /\ longer[to(i)] = seq[i]
  <2> SUFFICES ASSUME NEW i \in 1 .. Len(seq)
               PROVE  to(i) \in 1 .. Len(seq) + 1 /\ longer[to(i)] = seq[i]
      BY <1>1, <1>2
  <2>1. CASE i < at
      BY <1>1, <1>2, <2>1
  <2>2. CASE ~(i < at)
    <3>1. i + 1 \in 1 .. Len(seq) + 1 /\ at < i + 1 /\ (i + 1) - 1 = i
        BY <1>1, <2>2
    <3> QED BY <1>2, <2>2, <3>1
  <2> QED BY <2>1, <2>2
<1>5. /\ \A i, j \in DOMAIN longer : i # at /\ j # at /\ i < j => from(i) < from(j)
      /\ \A i, j \in DOMAIN seq : i < j => to(i) < to(j)
    BY <1>1, <1>2
<1> HIDE DEF from, to
<1>6. at \in DOMAIN longer
    BY <1>2
<1>7. \A u : u # t => (Has(longer, u) <=> Has(seq, u))
    BY <1>2, <1>3, <1>4 DEF Has
<1>8. ASSUME NEW u, NEW v, u # t, v # t PROVE Before(longer, u, v) <=> Before(seq, u, v)
  <2>1. ASSUME Before(longer, u, v) PROVE Before(seq, u, v)
    <3>1. PICK i \in DOMAIN longer, j \in DOMAIN longer : i < j /\ longer[i] = u /\ longer[j] = v
        BY <2>1 DEF Before
    <3>2. i # at /\ j # at
        BY <1>2, <1>8, <3>1
    <3>3. from(i) < from(j) /\ seq[from(i)] = u /\ seq[from(j)] = v
          /\ from(i) \in DOMAIN seq /\ from(j) \in DOMAIN seq
        BY <1>3, <1>5, <3>1, <3>2
    <3> QED BY <3>3 DEF Before
  <2>2. ASSUME Before(seq, u, v) PROVE Before(longer, u, v)
    <3>1. PICK i \in DOMAIN seq, j \in DOMAIN seq : i < j /\ seq[i] = u /\ seq[j] = v
        BY <2>2 DEF Before
    <3>2. to(i) < to(j) /\ longer[to(i)] = u /\ longer[to(j)] = v
          /\ to(i) \in DOMAIN longer /\ to(j) \in DOMAIN longer
        BY <1>4, <1>5, <3>1
    <3> QED BY <3>2 DEF Before
  <2> QED BY <2>1, <2>2
<1>9. Has(longer, t)
    BY <1>2, <1>6 DEF Has
<1> QED BY <1>7, <1>8, <1>9 DEF SameTable, longer

(* Two lists of the same tickets, in the order of one table, are the same. *)
LEMMA SameOrder ==
    ASSUME NEW one, NEW two, NEW order, Once(one), Once(two), Once(order),
           \A t : Has(one, t) => Has(two, t),
           \A t, u : Before(one, t, u) => Before(order, t, u),
           \A t, u : Before(two, t, u) => Before(order, t, u)
    PROVE  \A t, u : Before(one, t, u) => Before(two, t, u)
<1> SUFFICES ASSUME NEW t, NEW u, Before(one, t, u), ~Before(two, t, u) PROVE FALSE
    OBVIOUS
<1>1. /\ DOMAIN one \subseteq Nat /\ DOMAIN two \subseteq Nat /\ DOMAIN order \subseteq Nat
      /\ \A i, j \in DOMAIN one : one[i] = one[j] => i = j
      /\ \A i, j \in DOMAIN order : order[i] = order[j] => i = j
    BY DEF Once, IsInjective
<1>2. t # u /\ Has(one, t) /\ Has(one, u)
    BY <1>1 DEF Before, Has
<1>3. PICK i \in DOMAIN two, j \in DOMAIN two : two[i] = t /\ two[j] = u
    BY <1>2 DEF Has
<1>4. j < i
    BY <1>1, <1>2, <1>3 DEF Before
<1>5. Before(order, t, u) /\ Before(order, u, t)
    BY <1>3, <1>4 DEF Before
<1>6. PICK x \in DOMAIN order, y \in DOMAIN order : x < y /\ order[x] = t /\ order[y] = u
    BY <1>5 DEF Before
<1>7. PICK v \in DOMAIN order, w \in DOMAIN order : v < w /\ order[v] = u /\ order[w] = t
    BY <1>5 DEF Before
<1>8. x = w /\ y = v
    BY <1>1, <1>6, <1>7
<1> QED BY <1>1, <1>6, <1>7, <1>8

Differs(one, two, i) == ~(i \in DOMAIN one /\ i \in DOMAIN two /\ one[i] = two[i])

LEMMA NoFirstDifference ==
    ASSUME NEW one, NEW two, Once(one), Once(two),
           \A t : Has(one, t) => Has(two, t), \A t, u : Before(two, t, u) => Before(one, t, u),
           NEW m \in DOMAIN one, Differs(one, two, m),
           \A i \in 1 .. m - 1 : ~Differs(one, two, i)
    PROVE  FALSE
<1>1. /\ DOMAIN one = 1 .. Len(one) /\ Len(one) \in Nat
      /\ DOMAIN two = 1 .. Len(two) /\ Len(two) \in Nat
      /\ \A i, j \in DOMAIN one : one[i] = one[j] => i = j
      /\ \A i, j \in DOMAIN two : two[i] = two[j] => i = j
    BY DEF Once, IsInjective
<1>2. PICK k \in DOMAIN two : two[k] = one[m]
    BY DEF Has
<1>3. ASSUME k < m PROVE FALSE
  <2>1. k \in 1 .. m - 1
      BY <1>1, <1>3
  <2>2. k \in DOMAIN one /\ one[k] = two[k]
      BY <2>1 DEF Differs
  <2>3. k = m
      BY <1>1, <1>2, <2>2
  <2> QED BY <1>1, <1>3, <2>3
<1>4. m < k /\ m \in DOMAIN two
  <2>1. k # m
      BY <1>2 DEF Differs
  <2> QED BY <1>1, <1>3, <2>1
<1>5. Before(two, two[m], two[k])
    BY <1>4 DEF Before
<1>6. PICK i \in DOMAIN one, j \in DOMAIN one : i < j /\ one[i] = two[m] /\ one[j] = two[k]
    BY <1>5 DEF Before
<1>7. j = m
    BY <1>1, <1>2, <1>6
<1>8. i \in 1 .. m - 1
    BY <1>1, <1>6, <1>7
<1>9. i \in DOMAIN two /\ one[i] = two[i]
    BY <1>8 DEF Differs
<1>10. i = m
    BY <1>1, <1>4, <1>6, <1>9
<1> QED BY <1>1, <1>6, <1>7, <1>10

LEMMA OrderTellsAll ==
    ASSUME NEW one, NEW two, NEW order, Once(one), Once(two), Once(order),
           \A t \in Ticket : Has(one, t) <=> Has(two, t),
           \A t, u \in Ticket : Before(one, t, u) => Before(order, t, u),
           \A t, u \in Ticket : Before(two, t, u) => Before(order, t, u)
    PROVE  one = two
<1>1. /\ DOMAIN one = 1 .. Len(one) /\ Len(one) \in Nat /\ one \in Seq(Ticket)
      /\ DOMAIN two = 1 .. Len(two) /\ Len(two) \in Nat /\ two \in Seq(Ticket)
    BY DEF Once
<1>2. /\ \A t : Has(one, t) \/ Has(two, t) => t \in Ticket
      /\ \A t, u : Before(one, t, u) \/ Before(two, t, u) => t \in Ticket /\ u \in Ticket
    BY <1>1 DEF Has, Before
<1>3. /\ \A t : Has(one, t) <=> Has(two, t)
      /\ \A t, u : Before(one, t, u) => Before(order, t, u)
      /\ \A t, u : Before(two, t, u) => Before(order, t, u)
    BY <1>2
<1>4. \A t, u : Before(one, t, u) <=> Before(two, t, u)
    BY <1>3, SameOrder
<1> DEFINE T == {i \in DOMAIN one \cup DOMAIN two : Differs(one, two, i)}
<1>5. T = {}
  <2> SUFFICES ASSUME T # {} PROVE FALSE
      OBVIOUS
  <2>1. T \in SUBSET Nat /\ \A i \in T : i \in DOMAIN one \cup DOMAIN two
      BY <1>1
  <2>2. PICK m \in T : \A k \in T : m <= k
    <3> HIDE DEF T
    <3> QED BY <2>1, LeastMember
  <2>3. m \in DOMAIN one \cup DOMAIN two /\ Differs(one, two, m)
      BY <2>2
  <2>4. ASSUME NEW i \in 1 .. m - 1 PROVE ~Differs(one, two, i)
    <3>1. i \in DOMAIN one \cup DOMAIN two /\ ~(m <= i)
        BY <1>1, <2>3
    <3> QED BY <2>2, <3>1
  <2>5. \A i : Differs(one, two, i) <=> Differs(two, one, i)
      BY DEF Differs
  <2> HIDE DEF T
  <2>6. m \notin DOMAIN one
      BY <1>3, <1>4, <2>3, <2>4, NoFirstDifference
  <2>7. m \notin DOMAIN two
      BY <1>3, <1>4, <2>3, <2>4, <2>5, NoFirstDifference
  <2> QED BY <2>3, <2>6, <2>7
<1>6. DOMAIN one = DOMAIN two /\ \A i \in DOMAIN one : one[i] = two[i]
    BY <1>5 DEF Differs
<1> QED BY <1>1, <1>6

-----------------------------------------------------------------------------
(* The same of the lines of a list.                                        *)
Precedes(list, u, v) == \E i, j \in DOMAIN list : i < j /\ list[i].id = u /\ list[j].id = v
LinesAre(list, t, line) == \A i \in DOMAIN list : list[i].id = t => list[i] = line
ShownLast(list, t) == \A u : ~Precedes(list, t, u)

SameList(new, old, t) ==
    /\ \A u : u # t => (Holds(new, u) <=> Holds(old, u))
    /\ \A u, line : u # t /\ LinesAre(old, u, line) => LinesAre(new, u, line)
    /\ \A u, v : u # t /\ v # t /\ Precedes(new, u, v) => Precedes(old, u, v)

LEMMA SameListTwice ==
    ASSUME NEW one, NEW two, NEW three, NEW t, SameList(two, one, t), SameList(three, two, t)
    PROVE  SameList(three, one, t)
BY DEF SameList

LEMMA UnheldLines ==
    ASSUME NEW list, NEW t, ~Holds(list, t)
    PROVE  \A line : LinesAre(list, t, line)
BY DEF Holds, LinesAre

LEMMA OffIsSame ==
    ASSUME NEW L \in SUBSET TicketState, NEW list, Listed(list, L), NEW t
    PROVE  SameList(Off(list, t), list, t)
<1> DEFINE others == {entry \in TicketState : entry.id # t}
           off == Kept(list, others)
<1>1. list \in Seq(L) /\ \A i \in DOMAIN list : list[i] \in TicketState
    BY DEF Listed
<1> HIDE DEF others
<1>2. PICK walk \in [DOMAIN off -> DOMAIN list] :
          /\ \A i \in DOMAIN off : off[i] = list[walk[i]]
          /\ \A i, j \in DOMAIN off : i < j => walk[i] < walk[j]
          /\ \A x \in DOMAIN list : list[x] \in others => \E i \in DOMAIN off : walk[i] = x
    BY <1>1, KeptIsWalk
<1>3. \A x \in DOMAIN list : list[x].id # t => \E i \in DOMAIN off : walk[i] = x
    BY <1>1, <1>2 DEF others
<1> HIDE DEF off
<1>4. \A i \in DOMAIN off : walk[i] \in DOMAIN list /\ off[i] = list[walk[i]]
    BY <1>2
<1>5. \A u : u # t => (Holds(off, u) <=> Holds(list, u))
    BY <1>3, <1>4 DEF Holds
<1>6. \A u, line : LinesAre(list, u, line) => LinesAre(off, u, line)
    BY <1>4 DEF LinesAre
<1>7. \A u, v : Precedes(off, u, v) => Precedes(list, u, v)
    BY <1>2, <1>4 DEF Precedes
<1> QED BY <1>5, <1>6, <1>7 DEF SameList, Off, off, others

LEMMA AppendedIsSame ==
    ASSUME NEW L \in SUBSET TicketState, NEW list, Listed(list, L), NEW entry, NEW t, entry.id = t
    PROVE  /\ SameList(Append(list, entry), list, t) /\ Holds(Append(list, entry), t)
           /\ ~Holds(list, t) => /\ LinesAre(Append(list, entry), t, entry)
                                 /\ ShownLast(Append(list, entry), t)
<1> DEFINE longer == Append(list, entry)
<1>1. Len(list) \in Nat /\ DOMAIN list = 1 .. Len(list) /\ DOMAIN longer = 1 .. Len(list) + 1
      /\ longer[Len(list) + 1] = entry /\ \A i \in 1 .. Len(list) : longer[i] = list[i]
    BY DEF Listed
<1> HIDE DEF longer
<1>2. /\ Len(list) + 1 \in DOMAIN longer
      /\ \A i \in DOMAIN list : i \in DOMAIN longer /\ i < Len(list) + 1 /\ longer[i] = list[i]
      /\ \A i \in DOMAIN longer : i \in DOMAIN list \/ i = Len(list) + 1
    BY <1>1
<1>3. \A u : u # t => (Holds(longer, u) <=> Holds(list, u))
    BY <1>1, <1>2 DEF Holds
<1>4. \A u, line : u # t /\ LinesAre(list, u, line) => LinesAre(longer, u, line)
    BY <1>1, <1>2 DEF LinesAre
<1>5. \A u, v : u # t /\ v # t /\ Precedes(longer, u, v) => Precedes(list, u, v)
    BY <1>1, <1>2 DEF Precedes
<1>6. Holds(longer, t)
    BY <1>1, <1>2 DEF Holds
<1>7. ASSUME ~Holds(list, t) PROVE LinesAre(longer, t, entry) /\ ShownLast(longer, t)
  <2>1. \A i \in DOMAIN longer : longer[i].id = t => i = Len(list) + 1
      BY <1>2, <1>7 DEF Holds
  <2>2. LinesAre(longer, t, entry)
      BY <1>1, <2>1 DEF LinesAre
  <2>3. \A i \in DOMAIN longer : ~(Len(list) + 1 < i)
      BY <1>1
  <2>4. ShownLast(longer, t)
      BY <2>1, <2>3 DEF ShownLast, Precedes
  <2> QED BY <2>2, <2>4
<1> QED BY <1>3, <1>4, <1>5, <1>6, <1>7 DEF SameList, longer

LEMMA PrependedIsSame ==
    ASSUME NEW L \in SUBSET TicketState, NEW list, Listed(list, L), NEW entry \in L, NEW t,
           entry.id = t
    PROVE  /\ SameList(<<entry>> \o list, list, t) /\ Holds(<<entry>> \o list, t)
           /\ ~Holds(list, t) => LinesAre(<<entry>> \o list, t, entry)
<1> DEFINE longer == <<entry>> \o list
<1>1. list \in Seq(L) /\ Len(list) \in Nat /\ DOMAIN list = 1 .. Len(list)
    BY DEF Listed
<1>2. /\ DOMAIN longer = 1 .. Len(list) + 1 /\ longer[1] = entry
      /\ \A i \in 2 .. Len(list) + 1 : longer[i] = list[i - 1]
    BY <1>1
<1> HIDE DEF longer
<1>3. 1 \in DOMAIN longer
    BY <1>1, <1>2
<1>4. ASSUME NEW i \in DOMAIN longer, i # 1
      PROVE  i - 1 \in DOMAIN list /\ longer[i] = list[i - 1] /\ i \in Int
    BY <1>1, <1>2, <1>4
<1>5. ASSUME NEW i \in DOMAIN list
      PROVE  i + 1 \in DOMAIN longer /\ longer[i + 1] = list[i]
  <2>1. i + 1 \in 2 .. Len(list) + 1 /\ i + 1 \in 1 .. Len(list) + 1 /\ (i + 1) - 1 = i
      BY <1>1
  <2> QED BY <1>2, <2>1
<1>6. \A u : u # t => (Holds(longer, u) <=> Holds(list, u))
    BY <1>2, <1>4, <1>5 DEF Holds
<1>7. \A u, line : u # t /\ LinesAre(list, u, line) => LinesAre(longer, u, line)
    BY <1>2, <1>4 DEF LinesAre
<1>8. ASSUME NEW u, NEW v, u # t, v # t, Precedes(longer, u, v) PROVE Precedes(list, u, v)
  <2>1. PICK i \in DOMAIN longer, j \in DOMAIN longer :
            i < j /\ longer[i].id = u /\ longer[j].id = v
      BY <1>8 DEF Precedes
  <2>2. i # 1 /\ j # 1
      BY <1>2, <1>8, <2>1
  <2>3. i - 1 < j - 1 /\ list[i - 1].id = u /\ list[j - 1].id = v
        /\ i - 1 \in DOMAIN list /\ j - 1 \in DOMAIN list
      BY <1>4, <2>1, <2>2
  <2> QED BY <2>3 DEF Precedes
<1>9. Holds(longer, t)
    BY <1>2, <1>3 DEF Holds
<1>10. ASSUME ~Holds(list, t) PROVE LinesAre(longer, t, entry)
    BY <1>2, <1>4, <1>10 DEF LinesAre, Holds
<1> QED BY <1>6, <1>7, <1>8, <1>9, <1>10 DEF SameList, longer

LEMMA ReplacedIsSame ==
    ASSUME NEW list, NEW entry, NEW t, entry.id = t
    PROVE  /\ SameList(Replaced(list, entry), list, t)
           /\ Holds(Replaced(list, entry), t) <=> Holds(list, t)
           /\ LinesAre(Replaced(list, entry), t, entry)
<1> DEFINE new == Replaced(list, entry)
<1>1. DOMAIN new = DOMAIN list
      /\ \A i \in DOMAIN list : new[i] = IF list[i].id = t THEN entry ELSE list[i]
    BY DEF Replaced
<1> HIDE DEF new
<1>2. \A i \in DOMAIN list : new[i].id = list[i].id
    BY <1>1
<1> QED BY <1>1, <1>2 DEF SameList, Holds, LinesAre, Precedes, new

-----------------------------------------------------------------------------
(* What the panel shows and what the tables have.                          *)
AtCounter == {"CALLING", "SERVING", "SKIPPED"}

(* The flows whose events are enough for a panel: of an edge from WAITING, *)
(* other than the call, or from COMPLETED there is only an update, which   *)
(* it projects for a ticket it has called or skipped.                      *)
PlainFlow ==
    /\ Custom = {}
    /\ \A edge \in Flow : edge[1] \in AtCounter \/ edge = <<"WAITING", "CALLING">>

(* Where a row is found: the queue is that of the waiting tickets, and a   *)
(* ticket at a counter or skipped there is among the others.               *)
RowsOK ==
    \A t \in Ticket :
        /\ row[t].status = "WAITING" <=> Has(queue, t)
        /\ row[t].status \in AtCounter => Has(touched, t) /\ row[t].counter \in Counters

(* The list a ticket with the row r belongs in, and its line there.        *)
IsActive(r) == r.counter = Mine /\ r.status \in {"CALLING", "SERVING"}
IsSkipped(r) == r.counter = Mine /\ r.status = "SKIPPED"
IsWaiting(r) == r.status = "WAITING" /\ r.category \in MyCategories
Line(t, r) == [id |-> t, category |-> r.category, status |-> r.status]

(* The panel p shows t as the row r has it, but for the place in the queue *)
(* and the line of a ticket that is unheard of.                            *)
Shows(p, t, r, unheard) ==
    /\ Holds(p.active, t) <=> IsActive(r)
    /\ Holds(p.skipped, t) <=> IsSkipped(r)
    /\ t \notin unheard =>
          /\ Holds(p.waiting, t) <=> IsWaiting(r)
          /\ LinesAre(p.active, t, Line(t, r)) /\ LinesAre(p.waiting, t, Line(t, r))
          /\ LinesAre(p.skipped, t, Line(t, r))

InOrder(p, some, unheard) ==
    /\ \A t, u \in some : Precedes(p.skipped, t, u) => Before(touched, t, u)
    /\ \A t, u \in some \ unheard : Precedes(p.waiting, t, u) => Before(queue, t, u)

(* The panel shows some of the tickets as the tables have them.            *)
Agrees(p, some, unheard) ==
    (\A t \in some : Shows(p, t, row[t], unheard)) /\ InOrder(p, some, unheard)

SamePanel(new, old, t) ==
    /\ SameList(new.active, old.active, t) /\ SameList(new.waiting, old.waiting, t)
    /\ SameList(new.skipped, old.skipped, t)

LEMMA OthersStayShown ==
    ASSUME NEW old, NEW new, NEW t \in Ticket, SamePanel(new, old, t), NEW unheard,
           Agrees(old, Ticket \ {t}, unheard)
    PROVE  Agrees(new, Ticket \ {t}, unheard)
<1>1. ASSUME NEW u \in Ticket \ {t} PROVE Shows(new, u, row[u], unheard)
  <2>1. Shows(old, u, row[u], unheard)
      BY DEF Agrees
  <2> QED BY <2>1 DEF Shows, SamePanel, SameList
<1>2. InOrder(new, Ticket \ {t}, unheard)
    BY DEF Agrees, InOrder, SamePanel, SameList
<1> QED BY <1>1, <1>2 DEF Agrees

LEMMA NotBeforeItself ==
    ASSUME NEW L \in SUBSET TicketState, NEW list, Listed(list, L), NEW t
    PROVE  ~Precedes(list, t, t)
<1>1. /\ DOMAIN list = 1 .. Len(list) /\ Len(list) \in Nat
      /\ \A i, j \in 1 .. Len(list) : list[i].id = list[j].id => i = j
    BY OnceEach DEF Listed
<1> QED BY <1>1 DEF Precedes

(* A ticket more is shown as it is, at the end of a list if it is new there.*)
LEMMA OneMoreShown ==
    ASSUME RowsOK, NEW p, PanelOK(p), NEW t \in Ticket, NEW unheard,
           Agrees(p, Ticket \ {t}, unheard), Shows(p, t, row[t], unheard),
           Holds(p.skipped, t) => ShownLast(p.skipped, t) /\ IsLast(touched, t),
           t \notin unheard /\ Holds(p.waiting, t) => ShownLast(p.waiting, t) /\ IsLast(queue, t)
    PROVE  Agrees(p, Ticket, unheard)
<1>1. ASSUME NEW u, NEW v, NEW list, Precedes(list, u, v) PROVE Holds(list, u) /\ Holds(list, v)
    BY <1>1 DEF Precedes, Holds
<1>2. ASSUME NEW u \in Ticket, NEW v \in Ticket, Precedes(p.skipped, u, v)
      PROVE  Before(touched, u, v)
  <2>1. Holds(p.skipped, u) /\ Holds(p.skipped, v)
      BY <1>1, <1>2
  <2>2. u # t
      BY <1>2, <2>1 DEF ShownLast
  <2>3. CASE v = t
    <3>1. IsSkipped(row[u])
        BY <2>1, <2>2 DEF Agrees, Shows
    <3>2. Has(touched, u)
        BY <3>1 DEF RowsOK, IsSkipped, AtCounter
    <3> QED BY <2>1, <2>2, <2>3, <3>2 DEF IsLast
  <2>4. CASE v # t
      BY <1>2, <2>2, <2>4 DEF Agrees, InOrder
  <2> QED BY <2>3, <2>4
<1>3. ASSUME NEW u \in Ticket \ unheard, NEW v \in Ticket \ unheard, Precedes(p.waiting, u, v)
      PROVE  Before(queue, u, v)
  <2>1. Holds(p.waiting, u) /\ Holds(p.waiting, v)
      BY <1>1, <1>3
  <2>2. u # t
      BY <1>3, <2>1 DEF ShownLast
  <2>3. CASE v = t
    <3>1. IsWaiting(row[u])
        BY <2>1, <2>2 DEF Agrees, Shows
    <3>2. Has(queue, u)
        BY <3>1 DEF RowsOK, IsWaiting
    <3> QED BY <2>1, <2>2, <2>3, <3>2 DEF IsLast
  <2>4. CASE v # t
      BY <1>3, <2>2, <2>4 DEF Agrees, InOrder
  <2> QED BY <2>3, <2>4
<1>4. \A u \in Ticket : Shows(p, u, row[u], unheard)
    BY DEF Agrees
<1> QED BY <1>2, <1>3, <1>4 DEF Agrees, InOrder

LEMMA StatesTell ==
    ASSUME NEW seq \in Seq(Ticket)
    PROVE  /\ \A t : Holds(States(seq), t) <=> Has(seq, t)
           /\ \A t : LinesAre(States(seq), t, Line(t, row[t]))
           /\ \A t, u : Precedes(States(seq), t, u) <=> Before(seq, t, u)
<1>1. /\ DOMAIN States(seq) = DOMAIN seq
      /\ \A i \in DOMAIN seq : /\ States(seq)[i] = Line(seq[i], row[seq[i]])
                               /\ States(seq)[i].id = seq[i]
    BY DEF States, State, Line
<1> HIDE DEF States
<1> QED BY <1>1 DEF Holds, Has, LinesAre, Precedes, Before

(* A panel that has the lists a reload gives agrees with the tables.       *)
LEMMA SnapshotAgrees ==
    ASSUME ServerOK, RowsOK, NEW p, NEW unheard,
           p.active = FindActiveByCounter, p.waiting = FindWaiting,
           p.skipped = FindSkippedByCounter
    PROVE  Agrees(p, Ticket, unheard)
<1> DEFINE A == {t \in Ticket : row[t].counter = Mine /\ row[t].status \in {"CALLING", "SERVING"}}
           W == {t \in Ticket : row[t].category \in MyCategories}
           S == {t \in Ticket : row[t].counter = Mine /\ row[t].status = "SKIPPED"}
<1>1. touched \in Seq(Ticket) /\ queue \in Seq(Ticket)
    BY DEF ServerOK, Once
<1>2. /\ p.active = States(Kept(touched, A)) /\ p.waiting = States(Kept(queue, W))
      /\ p.skipped = States(Kept(touched, S))
    BY DEF FindActiveByCounter, FindWaiting, FindSkippedByCounter
<1>3. /\ \A t \in A : IsActive(row[t]) /\ t \in Ticket
      /\ \A t \in Ticket : IsActive(row[t]) => t \in A /\ Has(touched, t)
      /\ \A t \in S : IsSkipped(row[t]) /\ t \in Ticket
      /\ \A t \in Ticket : IsSkipped(row[t]) => t \in S /\ Has(touched, t)
      /\ \A t \in Ticket : IsWaiting(row[t]) <=> t \in W /\ Has(queue, t)
    BY DEF IsActive, IsSkipped, IsWaiting, RowsOK, AtCounter
<1> HIDE DEF A, W, S
<1>4. /\ Kept(touched, A) \in Seq(Ticket) /\ Kept(queue, W) \in Seq(Ticket)
      /\ Kept(touched, S) \in Seq(Ticket)
    BY <1>1, KeptOnce DEF ServerOK, Once
<1>5. /\ \A t : Holds(p.active, t) <=> Has(touched, t) /\ t \in A
      /\ \A t : Holds(p.waiting, t) <=> Has(queue, t) /\ t \in W
      /\ \A t : Holds(p.skipped, t) <=> Has(touched, t) /\ t \in S
    BY <1>1, <1>2, <1>4, StatesTell, KeptExactly
<1>6. \A t : /\ LinesAre(p.active, t, Line(t, row[t])) /\ LinesAre(p.waiting, t, Line(t, row[t]))
             /\ LinesAre(p.skipped, t, Line(t, row[t]))
    BY <1>2, <1>4, StatesTell
<1>7. \A t, u : /\ Precedes(p.skipped, t, u) => Before(touched, t, u)
                /\ Precedes(p.waiting, t, u) => Before(queue, t, u)
    BY <1>1, <1>2, <1>4, StatesTell, KeptExactly
<1>8. ASSUME NEW t \in Ticket PROVE Shows(p, t, row[t], unheard)
    BY <1>3, <1>5, <1>6 DEF Shows
<1> QED BY <1>7, <1>8 DEF Agrees, InOrder

LEMMA IdsTell ==
    ASSUME NEW L \in SUBSET TicketState, NEW list, Listed(list, L)
    PROVE  /\ Once(Ids(list))
           /\ \A t : Has(Ids(list), t) <=> Holds(list, t)
           /\ \A t, u : Before(Ids(list), t, u) <=> Precedes(list, t, u)
<1>1. Once(Ids(list))
    BY IdsOfList DEF Listed, Once
<1>2. DOMAIN Ids(list) = DOMAIN list /\ \A i \in DOMAIN list : Ids(list)[i] = list[i].id
    BY DEF Ids
<1> HIDE DEF Ids
<1> QED BY <1>1, <1>2 DEF Has, Holds, Before, Precedes

(* Agreement is what the property asks for.                                *)
LEMMA AgreementIsExact ==
    ASSUME ServerOK, RowsOK, PanelOK(panel), Agrees(panel, Ticket, unseen)
    PROVE  CalmPanelIsExact
<1> DEFINE found == [active |-> FindActiveByCounter, waiting |-> FindWaiting,
                     skipped |-> FindSkippedByCounter]
<1>1. Agrees(found, Ticket, unseen)
    BY SnapshotAgrees
<1>2. /\ Listed(panel.active, ActiveLine) /\ Listed(panel.waiting, WaitingLine)
      /\ Listed(panel.skipped, SkippedLine)
      /\ Listed(found.active, ActiveLine) /\ Listed(found.waiting, WaitingLine)
      /\ Listed(found.skipped, SkippedLine)
    BY FindsListed DEF PanelOK
<1>3. found.active = FindActiveByCounter /\ found.waiting = FindWaiting
      /\ found.skipped = FindSkippedByCounter
    OBVIOUS
<1> HIDE DEF found
<1>4. ASSUME NEW t \in Ticket
      PROVE  /\ Holds(panel.active, t) <=> Holds(found.active, t)
             /\ Holds(panel.skipped, t) <=> Holds(found.skipped, t)
             /\ t \notin unseen => (Holds(panel.waiting, t) <=> Holds(found.waiting, t))
    BY <1>1 DEF Agrees, Shows
<1>5. ToSet(Ids(panel.active)) = ToSet(Ids(found.active))
  <2>1. \A seq, t : t \in ToSet(seq) <=> Has(seq, t)
      BY DEF ToSet, Has
  <2>2. \A t : /\ Has(Ids(panel.active), t) <=> Holds(panel.active, t)
               /\ Has(Ids(found.active), t) <=> Holds(found.active, t)
      BY <1>2, LinesAreStates, IdsTell
  <2>3. \A t : Holds(panel.active, t) \/ Holds(found.active, t) => t \in Ticket
      BY <1>2, LinesAreStates DEF Holds, Listed, TicketState
  <2> HIDE DEF ToSet
  <2> QED BY <1>4, <2>1, <2>2, <2>3
<1>6. Ids(panel.skipped) = Ids(found.skipped)
  <2>1. /\ Once(Ids(panel.skipped)) /\ Once(Ids(found.skipped))
        /\ \A t : /\ Has(Ids(panel.skipped), t) <=> Holds(panel.skipped, t)
                  /\ Has(Ids(found.skipped), t) <=> Holds(found.skipped, t)
        /\ \A t, u : /\ Before(Ids(panel.skipped), t, u) <=> Precedes(panel.skipped, t, u)
                     /\ Before(Ids(found.skipped), t, u) <=> Precedes(found.skipped, t, u)
      BY <1>2, LinesAreStates, IdsTell
  <2>2. \A t, u \in Ticket : /\ Precedes(panel.skipped, t, u) => Before(touched, t, u)
                             /\ Precedes(found.skipped, t, u) => Before(touched, t, u)
      BY <1>1 DEF Agrees, InOrder
  <2> QED BY <1>4, <2>1, <2>2, OrderTellsAll DEF ServerOK
<1>7. Kept(Ids(panel.waiting), Ticket \ unseen) = Kept(Ids(found.waiting), Ticket \ unseen)
  <2> DEFINE heard == Ticket \ unseen
             one == Kept(Ids(panel.waiting), heard)
             two == Kept(Ids(found.waiting), heard)
  <2>1. /\ Once(Ids(panel.waiting)) /\ Once(Ids(found.waiting))
        /\ \A t : /\ Has(Ids(panel.waiting), t) <=> Holds(panel.waiting, t)
                  /\ Has(Ids(found.waiting), t) <=> Holds(found.waiting, t)
        /\ \A t, u : /\ Before(Ids(panel.waiting), t, u) <=> Precedes(panel.waiting, t, u)
                     /\ Before(Ids(found.waiting), t, u) <=> Precedes(found.waiting, t, u)
      BY <1>2, LinesAreStates, IdsTell
  <2>2. Once(one) /\ Once(two)
      BY <2>1, KeptOnce
  <2>3. /\ \A t : /\ Has(one, t) <=> Holds(panel.waiting, t) /\ t \in heard
                  /\ Has(two, t) <=> Holds(found.waiting, t) /\ t \in heard
        /\ \A t, u : /\ Before(one, t, u) <=>
                            Precedes(panel.waiting, t, u) /\ t \in heard /\ u \in heard
                     /\ Before(two, t, u) <=>
                            Precedes(found.waiting, t, u) /\ t \in heard /\ u \in heard
    <3>1. Ids(panel.waiting) \in Seq(Ticket) /\ Ids(found.waiting) \in Seq(Ticket)
        BY <2>1 DEF Once
    <3> HIDE DEF heard
    <3> QED BY <2>1, <3>1, KeptExactly
  <2>4. \A t, u \in heard : /\ Precedes(panel.waiting, t, u) => Before(queue, t, u)
                            /\ Precedes(found.waiting, t, u) => Before(queue, t, u)
      BY <1>1 DEF Agrees, InOrder
  <2>5. \A t \in Ticket : Has(one, t) <=> Has(two, t)
      BY <1>4, <2>3
  <2>6. \A t, u \in Ticket : (Before(one, t, u) => Before(queue, t, u))
                             /\ (Before(two, t, u) => Before(queue, t, u))
      BY <2>3, <2>4
  <2> HIDE DEF heard, one, two
  <2>7. one = two
      BY <2>2, <2>5, <2>6, OrderTellsAll DEF ServerOK
  <2> QED BY <2>7 DEF one, two, heard
<1>8. ASSUME NEW list \in Lists, NEW i \in DOMAIN list, list[i].id \notin unseen
      PROVE  list[i] = State(list[i].id)
  <2>1. list[i].id \in Ticket
      BY <1>2, LinesAreStates DEF Lists, Listed, TicketState
  <2>2. Shows(panel, list[i].id, row[list[i].id], unseen)
      BY <2>1 DEF Agrees
  <2>3. LinesAre(list, list[i].id, Line(list[i].id, row[list[i].id]))
      BY <1>8, <2>2 DEF Shows, Lists
  <2> QED BY <2>3 DEF LinesAre, Line, State
<1> QED BY <1>3, <1>5, <1>6, <1>7, <1>8 DEF CalmPanelIsExact

-----------------------------------------------------------------------------
(* What the events of one request tell of its ticket t, whose row was      *)
(* another one.                                                            *)
TellCreated(t, was, events) ==
    /\ events = <<Created(t, row[t].category)>>
    /\ was.status = "NONE" /\ row[t].status = "WAITING" /\ IsLast(queue, t)

TellCalled(t, was, events) ==
    \E k \in Counters :
        /\ events \in {<<Called(t, k)>>, <<Updated(t, "CALLING"), Called(t, k)>>}
        /\ row[t] = [was EXCEPT !.status = "CALLING", !.counter = k]
        /\ IF k = Mine THEN IsActive(was) \/ IsSkipped(was) \/ IsWaiting(was)
           ELSE ~IsActive(was) /\ ~IsSkipped(was)

TellRequeued(t, was, events) ==
    /\ events = <<Updated(t, "WAITING")>>
    /\ was.status \in AtCounter /\ row[t] = [was EXCEPT !.status = "WAITING", !.counter = Null]
    /\ IsActive(was) \/ IsSkipped(was) \/ t \in unseen

TellMoved(t, was, events) ==
    /\ events = <<Updated(t, row[t].status)>>
    /\ was.status \in AtCounter /\ row[t] = [was EXCEPT !.status = row[t].status]
    /\ row[t].status \in {"SERVING", "SKIPPED", "COMPLETED"} \ {was.status} /\ IsLast(touched, t)

TellTransferred(t, was, events) ==
    /\ events = <<Updated(t, "WAITING"), Transferred(t, row[t].category)>>
    /\ row[t].status = "WAITING"

Tell(t, was, events) ==
    \/ TellCreated(t, was, events) \/ TellCalled(t, was, events) \/ TellRequeued(t, was, events)
    \/ TellMoved(t, was, events) \/ TellTransferred(t, was, events)

(* The panel shows the ticket of the request as it was before.             *)
IsTold(t, events) ==
    /\ reads = <<>> /\ ~panel.stale
    /\ Agrees(panel, Ticket \ {t}, unseen)
    /\ \E was \in Row : Shows(panel, t, was, unseen) /\ Tell(t, was, events)

(* A transfer has been told of as an update, which says too little.        *)
IsHalfTold(t, events) ==
    /\ events = <<Transferred(t, row[t].category)>> /\ row[t].status = "WAITING"
    /\ panel.stale \/ Agrees(panel, Ticket \ {t}, unseen)

InStep(events) ==
    \/ events = <<>> /\ (panel.stale \/ Agrees(panel, Ticket, unseen))
    \/ events = <<Reset>>
    \/ \E t \in Ticket : IsTold(t, events) \/ IsHalfTold(t, events)

(* A request tells a panel that shows everything as it is.                 *)
Quiet == reads = <<>> /\ ~panel.stale /\ Agrees(panel, Ticket, unseen)

Tells ==
    RowsOK' /\ \E events : Commit(events) /\ (Quiet /\ UNCHANGED client => InStep(events)')

LEMMA SameTableTwice ==
    ASSUME NEW one, NEW two, NEW three, NEW t, SameTable(two, one, t), SameTable(three, two, t)
    PROVE  SameTable(three, one, t)
BY DEF SameTable

(* A ticket gets another row, and its place.                               *)
LEMMA MoveKeepsRows ==
    ASSUME ServerOK, RowsOK, NEW t \in Ticket, NEW r, row' = [row EXCEPT ![t] = r],
           SameTable(queue', queue, t), SameTable(touched', touched, t),
           r.status = "WAITING" <=> Has(queue', t),
           r.status \in AtCounter => Has(touched', t) /\ r.counter \in Counters
    PROVE  RowsOK' /\ row'[t] = r
<1>1. row'[t] = r /\ \A u \in Ticket : u # t => row'[u] = row[u]
    BY DEF ServerOK
<1>2. ASSUME NEW u \in Ticket
      PROVE  /\ row'[u].status = "WAITING" <=> Has(queue', u)
             /\ row'[u].status \in AtCounter => Has(touched', u) /\ row'[u].counter \in Counters
  <2>1. CASE u = t
      BY <1>1, <2>1
  <2>2. CASE u # t
      BY <1>1, <2>2 DEF RowsOK, SameTable
  <2> QED BY <2>1, <2>2
<1>3. RowsOK'
    BY <1>2 DEF RowsOK, Has
<1> QED BY <1>1, <1>3

LEMMA MoveTells ==
    ASSUME ServerOK, RowsOK, NEW t \in Ticket, NEW r, row' = [row EXCEPT ![t] = r],
           SameTable(queue', queue, t), SameTable(touched', touched, t),
           r.status = "WAITING" <=> Has(queue', t),
           r.status \in AtCounter => Has(touched', t) /\ r.counter \in Counters,
           unseen \subseteq unseen',
           NEW was, was = row[t], NEW events, Commit(events), Tell(t, was, events)'
    PROVE  Tells
<1>1. RowsOK'
    BY MoveKeepsRows
<1>2. ASSUME Quiet, UNCHANGED client PROVE IsTold(t, events)'
  <2>1. UNCHANGED <<panel, reads>>
      BY <1>2 DEF client
  <2>2. Agrees(panel, Ticket, unseen)
      BY <1>2 DEF Quiet
  <2>3. \A u \in Ticket : u # t => row'[u] = row[u]
      BY DEF ServerOK
  <2>4. \A u \in Ticket : \A q : Shows(panel, u, q, unseen) => Shows(panel, u, q, unseen')
      BY DEF Shows
  <2>5. \A u \in Ticket \ {t} : Shows(panel, u, row'[u], unseen')
      BY <2>2, <2>3, <2>4 DEF Agrees
  <2>6. /\ \A u, v \in Ticket \ {t} : Precedes(panel.skipped, u, v) => Before(touched', u, v)
        /\ \A u, v \in (Ticket \ {t}) \ unseen' :
               Precedes(panel.waiting, u, v) => Before(queue', u, v)
      BY <2>2 DEF Agrees, InOrder, SameTable
  <2>7. Agrees(panel, Ticket \ {t}, unseen)'
      BY <2>1, <2>5, <2>6 DEF Agrees, InOrder, Shows, Precedes, Before, Holds, LinesAre
  <2>8. was \in Row /\ Shows(panel, t, was, unseen)'
      BY <2>1, <2>2, <2>4 DEF ServerOK, Agrees, Shows, Holds, LinesAre
  <2> QED BY <1>2, <2>1, <2>7, <2>8 DEF IsTold, Quiet
<1>3. Quiet /\ UNCHANGED client => InStep(events)'
    BY <1>2 DEF InStep
<1> QED BY <1>1, <1>3 DEF Tells

-----------------------------------------------------------------------------
(* What each request tells.                                                *)
LEMMA CreateTells ==
    ASSUME ServerOK, RowsOK, NEW t \in Ticket, NEW c \in Category, CreateTicket(t, c)
    PROVE  Tells
<1> DEFINE r == [status |-> "WAITING", category |-> c, counter |-> Null]
<1>1. /\ row[t].status = "NONE" /\ row' = [row EXCEPT ![t] = r] /\ queue' = Append(queue, t)
      /\ Commit(<<Created(t, c)>>) /\ touched' = touched /\ unseen' = unseen
    BY DEF CreateTicket
<1>2. r.status = "WAITING" /\ r.category = c /\ r.status \notin AtCounter
    BY DEF AtCounter
<1>3. SameTable(queue', queue, t) /\ Has(queue', t) /\ IsLast(queue', t)
    BY <1>1, AppendIsSame DEF ServerOK
<1>4. SameTable(touched', touched, t)
    BY <1>1 DEF SameTable
<1>5. row'[t] = r
    BY <1>1 DEF ServerOK
<1> HIDE DEF r
<1>6. PICK was : was = row[t]
    OBVIOUS
<1>7. PICK events : events = <<Created(t, c)>>
    OBVIOUS
<1>8. IsLast(queue, t)'
    BY <1>3 DEF IsLast, Has, Before
<1>9. TellCreated(t, was, events)'
    BY <1>1, <1>2, <1>5, <1>6, <1>7, <1>8 DEF TellCreated
<1>10. Tell(t, was, events)'
    BY <1>9 DEF Tell
<1> QED BY <1>1, <1>2, <1>3, <1>4, <1>6, <1>7, <1>10, MoveTells

LEMMA LastOfTheOthers ==
    ASSUME ServerOK, NEW t \in Ticket, queue' = Less(queue, t),
           touched' = Append(Less(touched, t), t)
    PROVE  /\ SameTable(queue', queue, t) /\ SameTable(touched', touched, t)
           /\ ~Has(queue', t) /\ Has(touched', t) /\ IsLast(touched, t)'
<1>1. Once(queue) /\ Once(touched)
    BY DEF ServerOK
<1>2. SameTable(queue', queue, t) /\ ~Has(queue', t)
    BY <1>1, LessIsSame, LessOnce
<1>3. Once(Less(touched, t)) /\ SameTable(Less(touched, t), touched, t)
    BY <1>1, LessIsSame, LessOnce
<1>4. SameTable(touched', Less(touched, t), t) /\ Has(touched', t) /\ IsLast(touched', t)
    BY <1>3, AppendIsSame
<1>5. SameTable(touched', touched, t)
    BY <1>3, <1>4, SameTableTwice
<1>6. IsLast(touched, t)'
    BY <1>4 DEF IsLast, Has, Before
<1> QED BY <1>2, <1>4, <1>5, <1>6

LEMMA OneAfterAnother ==
    ASSUME NEW a, NEW b
    PROVE  <<a>> \o <<b>> = <<a, b>> /\ <<>> \o <<b>> = <<b>>
<1> DEFINE both == <<a>> \o <<b>>
<1>1. <<a>> \in Seq({a, b}) /\ <<b>> \in Seq({a, b}) /\ <<>> \in Seq({a, b})
    OBVIOUS
<1>2. both \in Seq({a, b}) /\ Len(both) = 2 /\ both[1] = a /\ both[2] = b
    BY <1>1
<1>3. both = <<a, b>>
  <2> HIDE DEF both
  <2> QED BY <1>2
<1>4. <<>> \o <<b>> = <<b>>
    BY <1>1
<1> QED BY <1>3, <1>4

LEMMA CallTells ==
    ASSUME ServerOK, RowsOK, NEW t \in Ticket, NEW k \in Counters, CallTo(t, k)
    PROVE  /\ RowsOK'
           /\ (IF k = Mine THEN IsActive(row[t]) \/ IsSkipped(row[t]) \/ IsWaiting(row[t])
               ELSE ~IsActive(row[t]) /\ ~IsSkipped(row[t])) => Tells
<1> DEFINE r == [row[t] EXCEPT !.status = "CALLING", !.counter = k]
<1>1. row[t] \in Row
    BY DEF ServerOK
<1>2. /\ row' = [row EXCEPT ![t] = r] /\ row'[t] = r
      /\ queue' = Less(queue, t) /\ touched' = Append(Less(touched, t), t) /\ unseen' = unseen
      /\ Commit((IF row[t].status = "CALLING" THEN <<>> ELSE <<Updated(t, "CALLING")>>)
                    \o <<Called(t, k)>>)
    BY DEF CallTo, ServerOK
<1>3. r.status = "CALLING" /\ r.counter = k
    BY <1>1 DEF Row
<1>4. PICK was : was = row[t]
    OBVIOUS
<1>5. row'[t] = [was EXCEPT !.status = "CALLING", !.counter = k]
    BY <1>2, <1>4
<1> HIDE DEF r
<1>6. /\ SameTable(queue', queue, t) /\ SameTable(touched', touched, t)
      /\ ~Has(queue', t) /\ Has(touched', t)
    BY <1>2, LastOfTheOthers
<1>7. r.status = "WAITING" <=> Has(queue', t)
    BY <1>3, <1>6
<1>8. r.status \in AtCounter => Has(touched', t) /\ r.counter \in Counters
    BY <1>3, <1>6
<1>9. RowsOK'
    BY <1>2, <1>6, <1>7, <1>8, MoveKeepsRows
<1>10. PICK events : /\ events \in {<<Called(t, k)>>, <<Updated(t, "CALLING"), Called(t, k)>>}
                     /\ Commit(events)
    BY <1>2, OneAfterAnother
<1>11. ASSUME IF k = Mine THEN IsActive(was) \/ IsSkipped(was) \/ IsWaiting(was)
              ELSE ~IsActive(was) /\ ~IsSkipped(was)
       PROVE  Tells
  <2>1. TellCalled(t, was, events)'
      BY <1>5, <1>10, <1>11 DEF TellCalled
  <2>2. Tell(t, was, events)'
      BY <2>1 DEF Tell
  <2> QED BY <1>2, <1>4, <1>6, <1>7, <1>8, <1>10, <2>2, MoveTells
<1> QED BY <1>4, <1>9, <1>11

LEMMA CallNextTells ==
    ASSUME ServerOK, RowsOK, NEW k \in Counters, CallNext(k)
    PROVE  Tells
<1>1. PICK c \in Serves[k] :
          LET turn == Kept(queue, {t \in Ticket : row[t].category = c})
          IN  turn # <<>> /\ CallTo(turn[1], k)
    BY DEF CallNext
<1> DEFINE its == {t \in Ticket : row[t].category = c}
           turn == Kept(queue, its)
<1>2. turn # <<>> /\ CallTo(turn[1], k)
    BY <1>1
<1>3. Once(turn) /\ \A t : Has(turn, t) => Has(queue, t) /\ t \in its
    BY KeptOnce DEF ServerOK
<1> HIDE DEF turn
<1>4. Has(turn, turn[1])
    BY <1>2, <1>3 DEF Once, Has
<1>5. PICK t : t = turn[1]
    OBVIOUS
<1>6. t \in Ticket /\ row[t].status = "WAITING" /\ row[t].category = c
    BY <1>3, <1>4, <1>5 DEF RowsOK
<1>7. IF k = Mine THEN IsActive(row[t]) \/ IsSkipped(row[t]) \/ IsWaiting(row[t])
      ELSE ~IsActive(row[t]) /\ ~IsSkipped(row[t])
    BY <1>1, <1>6 DEF IsActive, IsSkipped, IsWaiting, MyCategories
<1> QED BY <1>2, <1>5, <1>6, <1>7, CallTells

LEMMA ReannounceTells ==
    ASSUME ServerOK, RowsOK, NEW t \in Ticket, NEW k \in Counters, Reannounce(t, k)
    PROVE  Tells
<1>1. IF k = Mine THEN IsActive(row[t]) \/ IsSkipped(row[t]) \/ IsWaiting(row[t])
      ELSE ~IsActive(row[t]) /\ ~IsSkipped(row[t])
    BY DEF Reannounce, IsActive, IsSkipped
<1> QED BY <1>1, CallTells DEF Reannounce

LEMMA JoinsTheQueue ==
    ASSUME ServerOK, RowsOK, NEW t \in Ticket, touched' = Less(touched, t),
           \/ row[t].status = "WAITING" /\ queue' = queue
           \/ \E i \in 1 .. Len(queue) + 1 : queue' = InsertAt(queue, i, t)
    PROVE  /\ SameTable(queue', queue, t) /\ SameTable(touched', touched, t)
           /\ Has(queue', t)
<1>1. Once(queue) /\ Once(touched)
    BY DEF ServerOK
<1>2. SameTable(touched', touched, t)
    BY <1>1, LessIsSame
<1>3. CASE row[t].status = "WAITING" /\ queue' = queue
    BY <1>2, <1>3 DEF RowsOK, SameTable
<1>4. CASE \E i \in 1 .. Len(queue) + 1 : queue' = InsertAt(queue, i, t)
    BY <1>1, <1>2, <1>4, InsertIsSame
<1> QED BY <1>3, <1>4

LEMMA TransitionTells ==
    ASSUME PlainFlow, ServerOK, RowsOK, NEW t \in Ticket, NEW s, NEW k \in Counters,
           Transition(t, s, k)
    PROVE  RowsOK' /\ (row[t].counter \in {k, Null} => Tells)
<1>1. row[t] \in Row /\ <<row[t].status, s>> \in TicketEdges
    BY DEF ServerOK, Transition
<1>2. /\ row[t].status \in AtCounter /\ s \in FlowStates
      /\ s # row[t].status \/ s = "CALLING"
  <2> PICK edge : edge = <<row[t].status, s>>
      OBVIOUS
  <2>1. edge \in Flow /\ edge # <<"WAITING", "CALLING">> /\ (edge[1] # edge[2] \/ edge[1] = "CALLING")
      BY <1>1 DEF TicketEdges
  <2>2. edge \in FlowStates \X FlowStates
      BY <2>1, FlowAssumption
  <2>3. edge[1] \in AtCounter
      BY <2>1 DEF PlainFlow
  <2>4. edge[1] = row[t].status /\ edge[2] = s
      OBVIOUS
  <2> QED BY <2>1, <2>2, <2>3, <2>4
<1>3. s \in {"WAITING", "SKIPPED", "COMPLETED", "CALLING", "SERVING"}
    BY <1>2 DEF FlowStates, InProgress, PlainFlow
<1>4. row[t].counter \in Counters /\ Null \notin Counters
    BY <1>2, CallerPanelAssumption DEF RowsOK, Counters
<1>5. PICK was : was = row[t]
    OBVIOUS
<1>6. CASE s = "CALLING" /\ CallTo(t, k)
  <2>1. row[t].counter \in {k, Null} =>
            IF k = Mine THEN IsActive(row[t]) \/ IsSkipped(row[t]) \/ IsWaiting(row[t])
            ELSE ~IsActive(row[t]) /\ ~IsSkipped(row[t])
      BY <1>2, <1>4 DEF AtCounter, IsActive, IsSkipped
  <2> QED BY <1>6, <2>1, CallTells
<1>7. CASE s = "WAITING" /\ Requeue(t, k) /\ Commit(<<Updated(t, s)>>)
  <2> DEFINE r == [row[t] EXCEPT !.status = "WAITING", !.counter = Null]
  <2>1. r.status = "WAITING" /\ r.status \notin AtCounter
      BY <1>1 DEF Row, AtCounter
  <2>2. /\ row' = [row EXCEPT ![t] = r] /\ row'[t] = r /\ touched' = Less(touched, t)
        /\ \E i \in 1 .. Len(queue) + 1 : queue' = InsertAt(queue, i, t)
        /\ unseen' = IF k = Mine THEN unseen ELSE unseen \cup {t}
      BY <1>7 DEF Requeue, ServerOK
  <2>3. row'[t] = [was EXCEPT !.status = "WAITING", !.counter = Null]
      BY <1>5, <2>2
  <2> HIDE DEF r
  <2>4. SameTable(queue', queue, t) /\ SameTable(touched', touched, t) /\ Has(queue', t)
      BY <2>2, JoinsTheQueue
  <2>5. RowsOK'
      BY <2>1, <2>2, <2>4, MoveKeepsRows
  <2>6. PICK events : events = <<Updated(t, "WAITING")>> /\ Commit(events)
      BY <1>7
  <2>7. ASSUME row[t].counter \in {k, Null} PROVE Tells
    <3>1. IsActive(was) \/ IsSkipped(was) \/ t \in unseen'
        BY <1>2, <1>4, <1>5, <2>2, <2>7 DEF AtCounter, IsActive, IsSkipped
    <3>2. TellRequeued(t, was, events)'
        BY <1>2, <1>5, <2>3, <2>6, <3>1 DEF TellRequeued
    <3>3. Tell(t, was, events)'
        BY <3>2 DEF Tell
    <3>4. unseen \subseteq unseen'
        BY <2>2
    <3> QED BY <1>5, <2>1, <2>2, <2>4, <2>6, <3>3, <3>4, MoveTells
  <2> QED BY <2>5, <2>7
<1>8. CASE /\ s \notin {"CALLING", "WAITING"}
           /\ row' = [row EXCEPT ![t].status = s]
           /\ queue' = Less(queue, t)
           /\ touched' = Append(Less(touched, t), t)
           /\ Commit(<<Updated(t, s)>>)
           /\ UNCHANGED unseen
  <2> DEFINE r == [row[t] EXCEPT !.status = s]
  <2>1. r.status = s /\ r.counter = row[t].counter
      BY <1>1 DEF Row
  <2>2. row' = [row EXCEPT ![t] = r] /\ row'[t] = r
      BY <1>8 DEF ServerOK
  <2>3. row'[t] = [was EXCEPT !.status = row'[t].status] /\ row'[t].status = s
      BY <1>5, <2>1, <2>2
  <2> HIDE DEF r
  <2>4. /\ SameTable(queue', queue, t) /\ SameTable(touched', touched, t)
        /\ ~Has(queue', t) /\ Has(touched', t) /\ IsLast(touched, t)'
      BY <1>8, LastOfTheOthers
  <2>5. r.status = "WAITING" <=> Has(queue', t)
      BY <1>8, <2>1, <2>4
  <2>6. r.status \in AtCounter => Has(touched', t) /\ r.counter \in Counters
      BY <1>4, <2>1, <2>4
  <2>7. RowsOK'
      BY <2>2, <2>4, <2>5, <2>6, MoveKeepsRows
  <2>8. PICK events : events = <<Updated(t, s)>> /\ Commit(events)
      BY <1>8
  <2>9. TellMoved(t, was, events)'
    <3>1. s \in {"SERVING", "SKIPPED", "COMPLETED"} \ {was.status}
        BY <1>2, <1>3, <1>5, <1>8
    <3> QED BY <1>2, <1>5, <2>3, <2>4, <2>8, <3>1 DEF TellMoved
  <2>10. Tell(t, was, events)'
      BY <2>9 DEF Tell
  <2>11. Tells
      BY <1>5, <1>8, <2>2, <2>4, <2>5, <2>6, <2>8, <2>10, MoveTells
  <2> QED BY <2>7, <2>11
<1> QED BY <1>6, <1>7, <1>8 DEF Transition

LEMMA TransferTells ==
    ASSUME ServerOK, RowsOK, NEW t \in Ticket, NEW c, Transfer(t, c)
    PROVE  Tells
<1> DEFINE r == [status |-> "WAITING", category |-> c, counter |-> Null]
<1>1. r.status = "WAITING" /\ r.category = c /\ r.status \notin AtCounter
    BY DEF AtCounter
<1>2. /\ row' = [row EXCEPT ![t] = r] /\ row'[t] = r /\ touched' = Less(touched, t)
      /\ Commit(<<Updated(t, "WAITING"), Transferred(t, c)>>) /\ unseen' = unseen
    BY DEF Transfer, ServerOK
<1>3. \/ row[t].status = "WAITING" /\ queue' = queue
      \/ \E i \in 1 .. Len(queue) + 1 : queue' = InsertAt(queue, i, t)
    BY DEF Transfer
<1> HIDE DEF r
<1>4. SameTable(queue', queue, t) /\ SameTable(touched', touched, t) /\ Has(queue', t)
    BY <1>2, <1>3, JoinsTheQueue
<1>5. PICK was : was = row[t]
    OBVIOUS
<1>6. PICK events : events = <<Updated(t, "WAITING"), Transferred(t, c)>>
    OBVIOUS
<1>7. TellTransferred(t, was, events)'
    BY <1>1, <1>2, <1>6 DEF TellTransferred
<1>8. Tell(t, was, events)'
    BY <1>7 DEF Tell
<1> QED BY <1>1, <1>2, <1>4, <1>5, <1>6, <1>8, MoveTells

LEMMA ResetTells ==
    ASSUME ServerOK, RowsOK, NEW old \in SUBSET Ticket, ResetDaily(old)
    PROVE  Tells
<1>1. queue' = Kept(queue, Ticket \ old) /\ touched' = Kept(touched, Ticket \ old)
      /\ Commit(<<Reset>>)
    BY DEF ResetDaily
<1>2. /\ \A t : Has(queue', t) <=> Has(queue, t) /\ t \in Ticket \ old
      /\ \A t : Has(touched', t) <=> Has(touched, t) /\ t \in Ticket \ old
    BY <1>1, KeptExactly DEF ServerOK, Once
<1>3. ASSUME NEW t \in Ticket
      PROVE  /\ row'[t].status = "WAITING" <=> Has(queue', t)
             /\ row'[t].status \in AtCounter => Has(touched', t) /\ row'[t].counter \in Counters
  <2>1. row[t] \in Row
      BY DEF ServerOK
  <2>2. CASE t \in old
    <3>1. row'[t].status = "ARCHIVED"
        BY <2>1, <2>2 DEF ResetDaily, Row
    <3> QED BY <1>2, <2>2, <3>1 DEF AtCounter
  <2>3. CASE t \notin old
    <3>1. row'[t] = row[t]
        BY <2>3 DEF ResetDaily
    <3> QED BY <1>2, <2>3, <3>1 DEF RowsOK
  <2> QED BY <2>2, <2>3
<1>4. RowsOK'
    BY <1>3 DEF RowsOK, Has
<1>5. PICK events : events = <<Reset>>
    OBVIOUS
<1>6. InStep(events)'
    BY <1>5 DEF InStep
<1> QED BY <1>1, <1>4, <1>5, <1>6 DEF Tells

LEMMA OthersTell ==
    ASSUME PlainFlow, ServerOK, RowsOK, OthersRequest
    PROVE  Tells
<1>1. ASSUME NEW t \in Ticket, NEW c \in Category, CreateTicket(t, c) PROVE Tells
    BY <1>1, CreateTells
<1>2. ASSUME NEW k \in Counters, CallNext(k) PROVE Tells
    BY <1>2, CallNextTells
<1>3. ASSUME NEW t \in Ticket, NEW k \in Counters, Reannounce(t, k) PROVE Tells
    BY <1>3, ReannounceTells
<1>4. ASSUME NEW t \in Ticket, NEW k \in Counters, row[t].counter \in {k, Null},
             NEW s \in TicketStatus, Transition(t, s, k)
      PROVE  Tells
    BY <1>4, TransitionTells
<1>5. ASSUME NEW t \in Ticket, NEW k \in Counters, NEW c \in Serves[k], Transfer(t, c)
      PROVE  Tells
    BY <1>5, TransferTells
<1>6. ASSUME NEW old \in SUBSET Ticket, ResetDaily(old) PROVE Tells
    BY <1>6, ResetTells
<1> QED BY <1>1, <1>2, <1>3, <1>4, <1>5, <1>6 DEF OthersRequest

LEMMA PerformKeepsRows ==
    ASSUME PlainFlow, ServerOK, RowsOK, NEW cmd \in Command, Perform(cmd)
    PROVE  RowsOK'
<1>1. Mine \in Counters
    BY DEF Counters
<1>2. CASE cmd.op = "call-next" /\ CallNext(Mine)
    BY <1>1, <1>2, CallNextTells DEF Tells
<1>3. CASE cmd.op = "transition" /\ Transition(cmd.id, cmd.to, Mine)
  <2>1. cmd.id \in Ticket
      BY <1>3 DEF Command
  <2> QED BY <1>1, <1>3, <2>1, TransitionTells
<1>4. CASE cmd.op = "reannounce" /\ Reannounce(cmd.id, Mine)
  <2>1. cmd.id \in Ticket
      BY <1>4 DEF Command
  <2> QED BY <1>1, <1>4, <2>1, ReannounceTells DEF Tells
<1>5. CASE cmd.op = "transfer" /\ Transfer(cmd.id, cmd.to)
  <2>1. cmd.id \in Ticket
      BY <1>5 DEF Command
  <2> QED BY <1>5, <2>1, TransferTells DEF Tells
<1> QED BY <1>2, <1>3, <1>4, <1>5 DEF Perform

-----------------------------------------------------------------------------
(* What a panel that shows a ticket makes of an event about it.            *)
LEMMA EventsSay ==
    ASSUME NEW t, NEW c, NEW k, NEW s
    PROVE  /\ Created(t, c).type = "TICKET_CREATED" /\ Created(t, c).id = t
           /\ Created(t, c).category = c
           /\ Called(t, k).type = "TICKET_CALLED" /\ Called(t, k).id = t
           /\ Called(t, k).counter = k
           /\ Updated(t, s).type = "STATUS_UPDATED" /\ Updated(t, s).id = t
           /\ Updated(t, s).to = s
           /\ Transferred(t, c).type = "TICKET_TRANSFERRED" /\ Transferred(t, c).id = t
           /\ Transferred(t, c).category = c
           /\ Reset.type = "SYSTEM_RESET"
BY DEF Created, Called, Updated, Transferred, Reset

LEMMA PanelLists ==
    ASSUME PanelOK(panel)
    PROVE  /\ panel \in Panel
           /\ Listed(panel.active, ActiveLine) /\ Listed(panel.waiting, WaitingLine)
           /\ Listed(panel.skipped, SkippedLine)
           /\ panel.active \in Seq(TicketState) /\ panel.waiting \in Seq(TicketState)
           /\ panel.skipped \in Seq(TicketState)
BY LinesAreStates DEF PanelOK, Listed

LEMMA ConcatTells ==
    ASSUME NEW one \in Seq(TicketState), NEW two \in Seq(TicketState), NEW t
    PROVE  /\ one \o two \in Seq(TicketState)
           /\ Holds(one \o two, t) <=> Holds(one, t) \/ Holds(two, t)
           /\ \A line : LinesAre(one, t, line) /\ LinesAre(two, t, line) =>
                            LinesAre(one \o two, t, line)
<1> DEFINE both == one \o two
<1>1. /\ both \in Seq(TicketState) /\ DOMAIN both = 1 .. Len(one) + Len(two)
      /\ Len(one) \in Nat /\ Len(two) \in Nat
      /\ DOMAIN one = 1 .. Len(one) /\ DOMAIN two = 1 .. Len(two)
      /\ \A i \in 1 .. Len(one) : both[i] = one[i]
      /\ \A i \in 1 .. Len(two) : both[Len(one) + i] = two[i]
    OBVIOUS
<1> HIDE DEF both
<1>2. ASSUME NEW i \in DOMAIN both
      PROVE  \/ i \in DOMAIN one /\ both[i] = one[i]
             \/ \E j \in DOMAIN two : both[i] = two[j]
  <2>1. CASE i <= Len(one)
      BY <1>1, <2>1
  <2>2. CASE ~(i <= Len(one))
    <3>1. i - Len(one) \in 1 .. Len(two) /\ Len(one) + (i - Len(one)) = i
        BY <1>1, <2>2
    <3> QED BY <1>1, <3>1
  <2> QED BY <2>1, <2>2
<1>3. /\ \A i \in DOMAIN one : i \in DOMAIN both /\ both[i] = one[i]
      /\ \A i \in DOMAIN two : Len(one) + i \in DOMAIN both /\ both[Len(one) + i] = two[i]
    BY <1>1
<1>4. Holds(both, t) <=> Holds(one, t) \/ Holds(two, t)
    BY <1>2, <1>3 DEF Holds
<1>5. \A line : LinesAre(one, t, line) /\ LinesAre(two, t, line) => LinesAre(both, t, line)
    BY <1>2 DEF LinesAre
<1> QED BY <1>1, <1>4, <1>5 DEF both

LEMMA EntryIsTheLine ==
    ASSUME NEW list, NEW t, NEW line, Holds(list, t), LinesAre(list, t, line)
    PROVE  Entry(list, t) = line
BY DEF Holds, Entry, LinesAre

LEMMA KnownIsShown ==
    ASSUME PanelOK(panel), NEW t, NEW was, NEW unheard, Shows(panel, t, was, unheard),
           t \notin unheard, IsActive(was) \/ IsSkipped(was) \/ IsWaiting(was)
    PROVE  KnownCategory(t) = was.category
<1> DEFINE first == panel.waiting \o panel.skipped
           known == first \o panel.active
<1>1. /\ panel.active \in Seq(TicketState) /\ panel.waiting \in Seq(TicketState)
      /\ panel.skipped \in Seq(TicketState)
    BY PanelLists
<1>2. /\ first \in Seq(TicketState)
      /\ Holds(first, t) <=> Holds(panel.waiting, t) \/ Holds(panel.skipped, t)
      /\ LinesAre(first, t, Line(t, was))
    BY <1>1, ConcatTells DEF Shows
<1>3. KnownCategory(t) = IF Holds(known, t) THEN Entry(known, t).category ELSE Null
    BY DEF KnownCategory
<1> HIDE DEF first
<1>4. Holds(known, t) /\ LinesAre(known, t, Line(t, was))
    BY <1>1, <1>2, ConcatTells DEF Shows
<1>5. Entry(known, t) = Line(t, was)
    BY <1>4, EntryIsTheLine
<1> QED BY <1>3, <1>4, <1>5 DEF Line

LEMMA UnchangedIsSame == ASSUME NEW list, NEW t PROVE SameList(list, list, t)
BY DEF SameList

LEMMA DedupePrependIsSame ==
    ASSUME NEW L \in SUBSET TicketState, NEW list, Listed(list, L), NEW entry \in L, NEW t,
           entry.id = t
    PROVE  /\ SameList(DedupePrepend(entry, list), list, t)
           /\ Holds(DedupePrepend(entry, list), t)
           /\ LinesAre(DedupePrepend(entry, list), t, entry)
<1>1. Listed(Off(list, t), L) /\ ~Holds(Off(list, t), t) /\ SameList(Off(list, t), list, t)
    BY OffListed, OffIsSame
<1>2. DedupePrepend(entry, list) = <<entry>> \o Off(list, t)
    BY DEF DedupePrepend
<1>3. /\ SameList(DedupePrepend(entry, list), Off(list, t), t)
      /\ Holds(DedupePrepend(entry, list), t)
      /\ LinesAre(DedupePrepend(entry, list), t, entry)
    BY <1>1, <1>2, PrependedIsSame
<1> QED BY <1>1, <1>3, SameListTwice

(* A called ticket's new line.                                             *)
CalledLine(t) == [id |-> t, category |-> KnownCategory(t), status |-> "CALLING"]

LEMMA CalledIs ==
    ASSUME PanelOK(panel), NEW t, NEW k
    PROVE  /\ OnCalled(Called(t, k)).active =
                  IF k = Mine THEN DedupePrepend(CalledLine(t), panel.active) ELSE panel.active
           /\ OnCalled(Called(t, k)).waiting = Off(panel.waiting, t)
           /\ OnCalled(Called(t, k)).skipped = Off(panel.skipped, t)
           /\ OnCalled(Called(t, k)).stale = panel.stale
<1>1. panel \in Panel
    BY PanelLists
<1>2. ASSUME NEW a, NEW w, NEW s
      PROVE  /\ [panel EXCEPT !.waiting = w, !.skipped = s, !.active = a].active = a
             /\ [panel EXCEPT !.waiting = w, !.skipped = s, !.active = a].waiting = w
             /\ [panel EXCEPT !.waiting = w, !.skipped = s, !.active = a].skipped = s
             /\ [panel EXCEPT !.waiting = w, !.skipped = s, !.active = a].stale = panel.stale
    BY <1>1 DEF Panel
<1> DEFINE active ==
        IF k = Mine THEN DedupePrepend(CalledLine(t), panel.active) ELSE panel.active
<1>3. PICK e : e = Called(t, k)
    OBVIOUS
<1>4. e.id = t /\ e.counter = k
    BY <1>3, EventsSay
<1>5. OnCalled(e) =
          [panel EXCEPT !.waiting = Off(panel.waiting, e.id),
                        !.skipped = Off(panel.skipped, e.id),
                        !.active =
              IF e.counter = Mine
              THEN DedupePrepend([id |-> e.id, category |-> KnownCategory(e.id),
                                  status |-> "CALLING"], panel.active)
              ELSE panel.active]
    BY <1>1 DEF OnCalled, Panel
<1>6. OnCalled(e) =
          [panel EXCEPT !.waiting = Off(panel.waiting, t), !.skipped = Off(panel.skipped, t),
                        !.active = active]
    BY <1>4, <1>5 DEF CalledLine
<1> HIDE DEF active
<1> QED BY <1>2, <1>3, <1>6 DEF active

LEMMA CalledShows ==
    ASSUME PanelOK(panel), NEW t \in Ticket, NEW k, NEW was \in Row, NEW unheard,
           Shows(panel, t, was, unheard),
           row[t] = [was EXCEPT !.status = "CALLING", !.counter = k],
           IF k = Mine THEN IsActive(was) \/ IsSkipped(was) \/ IsWaiting(was)
           ELSE ~IsActive(was) /\ ~IsSkipped(was)
    PROVE  /\ SamePanel(OnCalled(Called(t, k)), panel, t)
           /\ Shows(OnCalled(Called(t, k)), t, row[t], unheard)
           /\ ~Holds(OnCalled(Called(t, k)).waiting, t)
           /\ ~Holds(OnCalled(Called(t, k)).skipped, t)
<1> DEFINE new == OnCalled(Called(t, k))
<1>1. /\ new.active = IF k = Mine THEN DedupePrepend(CalledLine(t), panel.active) ELSE panel.active
      /\ new.waiting = Off(panel.waiting, t) /\ new.skipped = Off(panel.skipped, t)
    BY CalledIs
<1> HIDE DEF new
<1>2. row[t].status = "CALLING" /\ row[t].counter = k /\ row[t].category = was.category
    BY DEF Row
<1>3. /\ SameList(new.waiting, panel.waiting, t) /\ ~Holds(new.waiting, t)
      /\ SameList(new.skipped, panel.skipped, t) /\ ~Holds(new.skipped, t)
  <2>1. /\ Listed(panel.waiting, WaitingLine) /\ WaitingLine \in SUBSET TicketState
        /\ Listed(panel.skipped, SkippedLine) /\ SkippedLine \in SUBSET TicketState
      BY PanelLists, LinesAreStates
  <2>2. SameList(Off(panel.waiting, t), panel.waiting, t) /\ ~Holds(Off(panel.waiting, t), t)
      BY <2>1, OffIsSame, OffListed
  <2>3. SameList(Off(panel.skipped, t), panel.skipped, t) /\ ~Holds(Off(panel.skipped, t), t)
      BY <2>1, OffIsSame, OffListed
  <2> QED BY <1>1, <2>2, <2>3
<1>4. \A line : LinesAre(new.waiting, t, line) /\ LinesAre(new.skipped, t, line)
    BY <1>3, UnheldLines
<1>5. ~IsSkipped(row[t]) /\ ~IsWaiting(row[t]) /\ (IsActive(row[t]) <=> k = Mine)
    BY <1>2 DEF IsSkipped, IsWaiting, IsActive
<1>6. CASE k = Mine
  <2>1. CalledLine(t) \in ActiveLine /\ CalledLine(t).id = t
      BY KnownCategoryOK DEF CalledLine, ActiveLine, TicketState, TicketStatus, InProgress
  <2>2. /\ SameList(new.active, panel.active, t) /\ Holds(new.active, t)
        /\ LinesAre(new.active, t, CalledLine(t))
      BY <1>1, <1>6, <2>1, PanelLists, LinesAreStates, DedupePrependIsSame
  <2>3. t \notin unheard => CalledLine(t) = Line(t, row[t])
      BY <1>2, <1>6, KnownIsShown DEF CalledLine, Line
  <2>4. Shows(new, t, row[t], unheard)
      BY <1>3, <1>4, <1>5, <1>6, <2>2, <2>3 DEF Shows
  <2> QED BY <1>3, <2>2, <2>4 DEF SamePanel, new
<1>7. CASE k # Mine
  <2>1. new.active = panel.active /\ SameList(new.active, panel.active, t)
      BY <1>1, <1>7, UnchangedIsSame
  <2>2. ~Holds(new.active, t)
      BY <1>7, <2>1 DEF Shows
  <2>3. \A line : LinesAre(new.active, t, line)
      BY <2>2, UnheldLines
  <2>4. Shows(new, t, row[t], unheard)
      BY <1>3, <1>4, <1>5, <1>7, <2>2, <2>3 DEF Shows
  <2> QED BY <1>3, <2>1, <2>4 DEF SamePanel, new
<1> QED BY <1>6, <1>7

(* Back in the queue: read again, or off the panel.                        *)
LEMMA RequeuedShows ==
    ASSUME PanelOK(panel), NEW t, NEW entry, entry.id = t
    PROVE  \/ entry.category \in MyCategories /\ Requeued(entry).stale
           \/ /\ entry.category \notin MyCategories
              /\ SamePanel(Requeued(entry), panel, t) /\ Requeued(entry).stale = panel.stale
              /\ ~Holds(Requeued(entry).active, t) /\ ~Holds(Requeued(entry).waiting, t)
              /\ ~Holds(Requeued(entry).skipped, t)
<1> DEFINE less == Without(t)
<1>1. /\ PanelOK(less) /\ less.stale = panel.stale /\ less.active = Off(panel.active, t)
      /\ less.waiting = Off(panel.waiting, t) /\ less.skipped = Off(panel.skipped, t)
    BY WithoutOK
<1> HIDE DEF less
<1>2. CASE entry.category \in MyCategories
  <2>1. Requeued(entry) = [less EXCEPT !.waiting = Append(less.waiting, entry), !.stale = TRUE]
      BY <1>1, <1>2 DEF Requeued, less, PanelOK, Panel
  <2>2. Requeued(entry).stale = TRUE
      BY <1>1, <2>1 DEF PanelOK, Panel
  <2> QED BY <1>2, <2>2
<1>3. CASE entry.category \notin MyCategories
  <2>1. Requeued(entry) = less
      BY <1>3 DEF Requeued, less
  <2>2. /\ SameList(Off(panel.active, t), panel.active, t) /\ ~Holds(Off(panel.active, t), t)
        /\ SameList(Off(panel.waiting, t), panel.waiting, t) /\ ~Holds(Off(panel.waiting, t), t)
        /\ SameList(Off(panel.skipped, t), panel.skipped, t) /\ ~Holds(Off(panel.skipped, t), t)
    <3>1. /\ Listed(panel.active, ActiveLine) /\ ActiveLine \in SUBSET TicketState
          /\ Listed(panel.waiting, WaitingLine) /\ WaitingLine \in SUBSET TicketState
          /\ Listed(panel.skipped, SkippedLine) /\ SkippedLine \in SUBSET TicketState
        BY PanelLists, LinesAreStates
    <3>2. SameList(Off(panel.active, t), panel.active, t) /\ ~Holds(Off(panel.active, t), t)
        BY <3>1, OffIsSame, OffListed
    <3>3. SameList(Off(panel.waiting, t), panel.waiting, t) /\ ~Holds(Off(panel.waiting, t), t)
        BY <3>1, OffIsSame, OffListed
    <3>4. SameList(Off(panel.skipped, t), panel.skipped, t) /\ ~Holds(Off(panel.skipped, t), t)
        BY <3>1, OffIsSame, OffListed
    <3> QED BY <3>2, <3>3, <3>4
  <2> QED BY <1>1, <1>3, <2>1, <2>2 DEF SamePanel
<1> QED BY <1>2, <1>3

LEMMA HeldLine ==
    ASSUME PanelOK(panel), NEW t, NEW was, NEW unheard, Shows(panel, t, was, unheard)
    PROVE  /\ panel.active \o panel.skipped \in Seq(TicketState)
           /\ Holds(panel.active \o panel.skipped, t) <=> IsActive(was) \/ IsSkipped(was)
           /\ (IsActive(was) \/ IsSkipped(was)) /\ t \notin unheard =>
                  Entry(panel.active \o panel.skipped, t) = Line(t, was)
<1> DEFINE known == panel.active \o panel.skipped
<1>1. panel.active \in Seq(TicketState) /\ panel.skipped \in Seq(TicketState)
    BY PanelLists
<1>2. known \in Seq(TicketState) /\ (Holds(known, t) <=> IsActive(was) \/ IsSkipped(was))
    BY <1>1, ConcatTells DEF Shows
<1>3. t \notin unheard => LinesAre(known, t, Line(t, was))
    BY <1>1, ConcatTells DEF Shows
<1> HIDE DEF known
<1>4. (IsActive(was) \/ IsSkipped(was)) /\ t \notin unheard => Entry(known, t) = Line(t, was)
    BY <1>2, <1>3, EntryIsTheLine
<1> QED BY <1>2, <1>4 DEF known

LEMMA UnheldUpdateIs ==
    ASSUME PanelOK(panel), NEW t, NEW s, NEW was, NEW unheard, Shows(panel, t, was, unheard),
           ~IsActive(was), ~IsSkipped(was)
    PROVE  OnUpdated(Updated(t, s)) = panel
<1>1. ~Holds(panel.active \o panel.skipped, t)
    BY HeldLine
<1>2. Updated(t, s).id = t
    BY EventsSay
<1> HIDE DEF Updated
<1> QED BY <1>1, <1>2 DEF OnUpdated

(* The line an update gives a ticket of the counter.                       *)
UpdatedLine(t, s) == [Entry(panel.active \o panel.skipped, t) EXCEPT !.status = s]

LEMMA UpdatedLineIs ==
    ASSUME PanelOK(panel), NEW t, NEW s, s \in FlowStates, NEW was, was \in Row, NEW unheard,
           Shows(panel, t, was, unheard), IsActive(was) \/ IsSkipped(was)
    PROVE  /\ UpdatedLine(t, s) \in TicketState
           /\ UpdatedLine(t, s).id = t /\ UpdatedLine(t, s).status = s
           /\ t \notin unheard => UpdatedLine(t, s) = [Line(t, was) EXCEPT !.status = s]
<1> DEFINE known == panel.active \o panel.skipped
<1>1. known \in Seq(TicketState) /\ Holds(known, t)
      /\ (t \notin unheard => Entry(known, t) = Line(t, was))
    BY HeldLine
<1>2. UpdatedLine(t, s) = [Entry(known, t) EXCEPT !.status = s]
    BY DEF UpdatedLine
<1> HIDE DEF known
<1>3. Entry(known, t) \in TicketState /\ Entry(known, t).id = t
    BY <1>1, EntryIsLine
<1>4. s \in TicketStatus
    BY DEF FlowStates, TicketStatus
<1>5. /\ UpdatedLine(t, s) \in TicketState
      /\ UpdatedLine(t, s).id = t /\ UpdatedLine(t, s).status = s
    BY <1>2, <1>3, <1>4 DEF TicketState
<1> QED BY <1>1, <1>2, <1>5

LEMMA HeldUpdateIs ==
    ASSUME PanelOK(panel), NEW t, NEW s, s \in FlowStates, NEW was, was \in Row, NEW unheard,
           Shows(panel, t, was, unheard), IsActive(was) \/ IsSkipped(was)
    PROVE  /\ s = "COMPLETED" =>
                  OnUpdated(Updated(t, s)) =
                      [panel EXCEPT !.active = Off(panel.active, t),
                                    !.skipped = Off(panel.skipped, t)]
           /\ s = "SKIPPED" =>
                  OnUpdated(Updated(t, s)) =
                      [panel EXCEPT !.active = Off(panel.active, t),
                                    !.skipped = DedupeAppend(UpdatedLine(t, s), panel.skipped)]
           /\ s = "WAITING" => OnUpdated(Updated(t, s)) = Requeued(UpdatedLine(t, s))
           /\ s \in InProgress /\ ~IsActive(was) =>
                  OnUpdated(Updated(t, s)) =
                      [panel EXCEPT !.active = DedupePrepend(UpdatedLine(t, s), panel.active),
                                    !.skipped = Off(panel.skipped, t)]
           /\ s \in InProgress /\ IsActive(was) =>
                  OnUpdated(Updated(t, s)) =
                      [panel EXCEPT !.active = Replaced(panel.active, UpdatedLine(t, s))]
<1> DEFINE known == panel.active \o panel.skipped
           entry == UpdatedLine(t, s)
           completed == [panel EXCEPT !.active = Off(panel.active, t),
                                      !.skipped = Off(panel.skipped, t)]
           skipped == [panel EXCEPT !.active = Off(panel.active, t),
                                    !.skipped = DedupeAppend(entry, panel.skipped)]
           resumed == [panel EXCEPT !.active = DedupePrepend(entry, panel.active),
                                    !.skipped = Off(panel.skipped, t)]
           other == [panel EXCEPT !.active = Replaced(panel.active, entry)]
<1>1. panel \in Panel
    BY PanelLists
<1>2. entry.id = t
    BY UpdatedLineIs
<1>3. Holds(known, t) /\ (Holds(panel.active, t) <=> IsActive(was))
    BY HeldLine DEF Shows
<1>4. entry = [Entry(known, t) EXCEPT !.status = s]
    BY DEF UpdatedLine
<1>5. PICK e : e = Updated(t, s)
    OBVIOUS
<1>6. e.id = t /\ e.to = s
    BY <1>5, EventsSay
<1>7. {"COMPLETED", "SKIPPED", "WAITING"} \cap InProgress = {}
    BY CallerPanelAssumption DEF InProgress
<1> DEFINE completedAs == [panel EXCEPT !.active = Off(@, e.id), !.skipped = Off(@, e.id)]
           skippedAs == [panel EXCEPT !.active = Off(@, e.id), !.skipped = DedupeAppend(entry, @)]
           resumedAs == [panel EXCEPT !.active = DedupePrepend(entry, @), !.skipped = Off(@, e.id)]
           otherAs == [panel EXCEPT !.active =
                          [i \in DOMAIN @ |-> IF @[i].id = e.id THEN entry ELSE @[i]]]
<1> HIDE DEF entry
<1>8. completedAs = completed /\ skippedAs = skipped /\ resumedAs = resumed
    BY <1>1, <1>6 DEF Panel
<1>9. otherAs = other
    BY <1>1, <1>2, <1>6 DEF Panel, Replaced
<1>10. OnUpdated(e) =
          CASE e.to = "COMPLETED" -> completedAs
            [] e.to = "SKIPPED" -> skippedAs
            [] e.to = "WAITING" -> Requeued(entry)
            [] e.to \in InProgress /\ ~Holds(panel.active, e.id) -> resumedAs
            [] OTHER -> otherAs
  <2> HIDE DEF Off, DedupeAppend, DedupePrepend, Requeued, Entry, Holds
  <2> QED BY <1>3, <1>4, <1>6 DEF OnUpdated
<1> HIDE DEF completedAs, skippedAs, resumedAs, otherAs, completed, skipped, resumed, other, known
<1>11. /\ s = "COMPLETED" => OnUpdated(e) = completed
       /\ s = "SKIPPED" => OnUpdated(e) = skipped
       /\ s = "WAITING" => OnUpdated(e) = Requeued(entry)
       /\ s \in InProgress /\ ~IsActive(was) => OnUpdated(e) = resumed
       /\ s \in InProgress /\ IsActive(was) => OnUpdated(e) = other
    BY <1>3, <1>6, <1>7, <1>8, <1>9, <1>10
<1> QED BY <1>5, <1>11 DEF completed, skipped, resumed, other, entry

LEMMA BothAre ==
    ASSUME PanelOK(panel), NEW a, NEW s
    PROVE  /\ [panel EXCEPT !.active = a, !.skipped = s].active = a
           /\ [panel EXCEPT !.active = a, !.skipped = s].skipped = s
           /\ [panel EXCEPT !.active = a, !.skipped = s].waiting = panel.waiting
           /\ [panel EXCEPT !.active = a, !.skipped = s].stale = panel.stale
           /\ [panel EXCEPT !.active = a].active = a
           /\ [panel EXCEPT !.active = a].skipped = panel.skipped
           /\ [panel EXCEPT !.active = a].waiting = panel.waiting
           /\ [panel EXCEPT !.active = a].stale = panel.stale
BY PanelLists DEF Panel

(* An update between the states of a ticket at a counter.                  *)
LEMMA MovedShows ==
    ASSUME PanelOK(panel), NEW t \in Ticket, NEW was, was \in Row, was.status \in AtCounter,
           NEW unheard, Shows(panel, t, was, unheard),
           NEW s, s \in {"CALLING", "SERVING", "SKIPPED", "COMPLETED"},
           s = "SKIPPED" => was.status # "SKIPPED",
           NEW r, r = [was EXCEPT !.status = s]
    PROVE  /\ SamePanel(OnUpdated(Updated(t, s)), panel, t)
           /\ Shows(OnUpdated(Updated(t, s)), t, r, unheard)
           /\ OnUpdated(Updated(t, s)).stale = panel.stale
           /\ Holds(OnUpdated(Updated(t, s)).skipped, t) =>
                  ShownLast(OnUpdated(Updated(t, s)).skipped, t)
           /\ t \notin unheard => ~Holds(OnUpdated(Updated(t, s)).waiting, t)
<1> DEFINE new == OnUpdated(Updated(t, s))
           entry == UpdatedLine(t, s)
<1>1. r.status = s /\ r.counter = was.counter /\ r.category = was.category
    BY DEF Row
<1>2. /\ ~IsWaiting(was) /\ ~IsWaiting(r)
      /\ IsActive(r) <=> was.counter = Mine /\ s \in {"CALLING", "SERVING"}
      /\ IsSkipped(r) <=> was.counter = Mine /\ s = "SKIPPED"
      /\ IsActive(was) \/ IsSkipped(was) <=> was.counter = Mine
    BY <1>1 DEF IsWaiting, IsActive, IsSkipped, AtCounter
<1>3. t \notin unheard => ~Holds(panel.waiting, t) /\ \A line : LinesAre(panel.waiting, t, line)
    BY <1>2, UnheldLines DEF Shows
<1>4. CASE was.counter # Mine
  <2>1. new = panel
      BY <1>2, <1>4, UnheldUpdateIs
  <2>2. ~Holds(panel.active, t) /\ ~Holds(panel.skipped, t)
      BY <1>2, <1>4 DEF Shows
  <2>3. \A line : LinesAre(panel.active, t, line) /\ LinesAre(panel.skipped, t, line)
      BY <2>2, UnheldLines
  <2>4. Shows(panel, t, r, unheard)
      BY <1>2, <1>3, <1>4, <2>2, <2>3 DEF Shows
  <2>5. SamePanel(panel, panel, t)
      BY UnchangedIsSame DEF SamePanel
  <2> QED BY <1>3, <2>1, <2>2, <2>4, <2>5
<1>5. CASE was.counter = Mine
  <2> HIDE DEF new, entry
  <2>1. s \in FlowStates /\ (s \in {"CALLING", "SERVING"} => s \in InProgress)
      BY DEF FlowStates, InProgress
  <2>2. /\ entry \in TicketState /\ entry.id = t /\ entry.status = s
        /\ t \notin unheard => entry = [Line(t, was) EXCEPT !.status = s]
      BY <1>2, <1>5, <2>1, UpdatedLineIs DEF entry
  <2>3. t \notin unheard => entry = Line(t, r)
      BY <1>1, <2>2 DEF Line
  <2>4. /\ Listed(panel.active, ActiveLine) /\ Listed(panel.skipped, SkippedLine)
        /\ ActiveLine \in SUBSET TicketState /\ SkippedLine \in SUBSET TicketState
      BY PanelLists, LinesAreStates
  <2>5. /\ SameList(Off(panel.active, t), panel.active, t) /\ ~Holds(Off(panel.active, t), t)
        /\ SameList(Off(panel.skipped, t), panel.skipped, t) /\ ~Holds(Off(panel.skipped, t), t)
      BY <2>4, OffIsSame, OffListed
  <2>6. /\ Holds(panel.active, t) <=> IsActive(was)
        /\ Holds(panel.skipped, t) <=> IsSkipped(was)
      BY DEF Shows
  <2>7. \A list : ~Holds(list, t) => LinesAre(list, t, entry)
      BY UnheldLines
  <2>8. /\ new.waiting = panel.waiting /\ new.stale = panel.stale
        /\ SameList(new.active, panel.active, t) /\ SameList(new.skipped, panel.skipped, t)
        /\ Holds(new.active, t) <=> s \in {"CALLING", "SERVING"}
        /\ Holds(new.skipped, t) <=> s = "SKIPPED"
        /\ LinesAre(new.active, t, entry) /\ LinesAre(new.skipped, t, entry)
        /\ Holds(new.skipped, t) => ShownLast(new.skipped, t)
    <3>1. CASE s = "COMPLETED"
      <4>1. new = [panel EXCEPT !.active = Off(panel.active, t), !.skipped = Off(panel.skipped, t)]
          BY <1>2, <1>5, <2>1, <3>1, HeldUpdateIs DEF new
      <4>2. /\ new.active = Off(panel.active, t) /\ new.skipped = Off(panel.skipped, t)
            /\ new.waiting = panel.waiting /\ new.stale = panel.stale
          BY <4>1, BothAre
      <4> QED BY <2>5, <2>7, <3>1, <4>2
    <3>2. CASE s = "SKIPPED"
      <4>1. IsActive(was) /\ ~IsSkipped(was)
          BY <1>5, <3>2 DEF IsActive, IsSkipped, AtCounter
      <4>2. DedupeAppend(entry, panel.skipped) = Append(panel.skipped, entry)
          BY <2>2, <2>6, <4>1 DEF DedupeAppend
      <4>3. new = [panel EXCEPT !.active = Off(panel.active, t),
                                !.skipped = DedupeAppend(entry, panel.skipped)]
          BY <2>1, <3>2, <4>1, HeldUpdateIs DEF new, entry
      <4>4. /\ new.active = Off(panel.active, t) /\ new.skipped = Append(panel.skipped, entry)
            /\ new.waiting = panel.waiting /\ new.stale = panel.stale
          BY <4>2, <4>3, BothAre
      <4>5. /\ SameList(new.skipped, panel.skipped, t) /\ Holds(new.skipped, t)
            /\ LinesAre(new.skipped, t, entry) /\ ShownLast(new.skipped, t)
          BY <2>2, <2>4, <2>6, <4>1, <4>4, AppendedIsSame
      <4> QED BY <2>5, <2>7, <3>2, <4>4, <4>5
    <3>3. CASE s \in {"CALLING", "SERVING"} /\ ~IsActive(was)
      <4>1. new = [panel EXCEPT !.active = DedupePrepend(entry, panel.active),
                                !.skipped = Off(panel.skipped, t)]
          BY <1>2, <1>5, <2>1, <3>3, HeldUpdateIs DEF new, entry
      <4>2. /\ new.active = DedupePrepend(entry, panel.active)
            /\ new.skipped = Off(panel.skipped, t)
            /\ new.waiting = panel.waiting /\ new.stale = panel.stale
          BY <4>1, BothAre
      <4>3. entry \in ActiveLine
          BY <2>1, <2>2, <3>3 DEF ActiveLine
      <4>4. /\ SameList(new.active, panel.active, t) /\ Holds(new.active, t)
            /\ LinesAre(new.active, t, entry)
          BY <2>2, <2>4, <4>2, <4>3, DedupePrependIsSame
      <4> QED BY <2>5, <2>7, <3>3, <4>2, <4>4
    <3>4. CASE s \in {"CALLING", "SERVING"} /\ IsActive(was)
      <4>1. new = [panel EXCEPT !.active = Replaced(panel.active, entry)]
          BY <2>1, <3>4, HeldUpdateIs DEF new, entry
      <4>2. /\ new.active = Replaced(panel.active, entry) /\ new.skipped = panel.skipped
            /\ new.waiting = panel.waiting /\ new.stale = panel.stale
          BY <4>1, BothAre
      <4>3. /\ SameList(new.active, panel.active, t)
            /\ Holds(new.active, t) <=> Holds(panel.active, t)
            /\ LinesAre(new.active, t, entry)
          BY <2>2, <4>2, ReplacedIsSame
      <4>4. ~Holds(new.skipped, t)
          BY <2>6, <3>4, <4>2 DEF IsActive, IsSkipped
      <4>5. SameList(new.skipped, panel.skipped, t)
          BY <4>2, UnchangedIsSame
      <4> QED BY <2>6, <2>7, <3>4, <4>2, <4>3, <4>4, <4>5
    <3> QED BY <3>1, <3>2, <3>3, <3>4
  <2>9. Shows(new, t, r, unheard)
      BY <1>2, <1>3, <1>5, <2>3, <2>8 DEF Shows
  <2>10. SamePanel(new, panel, t)
      BY <2>8, UnchangedIsSame DEF SamePanel
  <2> QED BY <1>3, <2>8, <2>9, <2>10 DEF new
<1> QED BY <1>4, <1>5

LEMMA CreatedShows ==
    ASSUME PanelOK(panel), NEW t \in Ticket, NEW c, NEW was, was.status = "NONE", NEW unheard,
           Shows(panel, t, was, unheard), row[t].status = "WAITING", row[t].category = c
    PROVE  /\ SamePanel(OnCreated(Created(t, c)), panel, t)
           /\ Shows(OnCreated(Created(t, c)), t, row[t], unheard)
           /\ ~Holds(OnCreated(Created(t, c)).skipped, t)
           /\ t \notin unheard /\ Holds(OnCreated(Created(t, c)).waiting, t) =>
                  ShownLast(OnCreated(Created(t, c)).waiting, t)
<1> DEFINE new == OnCreated(Created(t, c))
           entry == [id |-> t, category |-> c, status |-> "WAITING"]
<1>1. /\ ~IsActive(was) /\ ~IsSkipped(was) /\ ~IsWaiting(was)
      /\ ~IsActive(row[t]) /\ ~IsSkipped(row[t]) /\ (IsWaiting(row[t]) <=> c \in MyCategories)
    BY DEF IsActive, IsSkipped, IsWaiting
<1>2. /\ ~Holds(panel.active, t) /\ ~Holds(panel.skipped, t)
      /\ t \notin unheard => ~Holds(panel.waiting, t)
    BY <1>1 DEF Shows
<1>3. \A list, line : ~Holds(list, t) => LinesAre(list, t, line)
    BY UnheldLines
<1>4. entry = Line(t, row[t])
    BY DEF Line
<1>5. CASE c \in MyCategories /\ ~Holds(panel.waiting, t)
  <2>1. new = [panel EXCEPT !.waiting = Append(panel.waiting, entry)]
    <3>1. PICK e : e = Created(t, c)
        OBVIOUS
    <3>2. e.id = t /\ e.category = c
        BY <3>1, EventsSay
    <3>3. OnCreated(e) = [panel EXCEPT !.waiting =
              Append(@, [id |-> e.id, category |-> e.category, status |-> "WAITING"])]
        BY <1>5, <3>2 DEF OnCreated
    <3>4. OnCreated(e) = [panel EXCEPT !.waiting =
              Append(panel.waiting, [id |-> e.id, category |-> e.category, status |-> "WAITING"])]
        BY <3>3, PanelLists DEF Panel
    <3> QED BY <3>1, <3>2, <3>4
  <2>2. /\ new.active = panel.active /\ new.skipped = panel.skipped
        /\ new.waiting = Append(panel.waiting, entry)
      BY <2>1, PanelLists DEF Panel
  <2>3. entry.id = t
      OBVIOUS
  <2> HIDE DEF entry, new
  <2>4. /\ SameList(new.waiting, panel.waiting, t) /\ Holds(new.waiting, t)
        /\ LinesAre(new.waiting, t, entry) /\ ShownLast(new.waiting, t)
      BY <1>5, <2>2, <2>3, PanelLists, LinesAreStates, AppendedIsSame
  <2>5. Shows(new, t, row[t], unheard)
      BY <1>1, <1>2, <1>3, <1>4, <1>5, <2>2, <2>4 DEF Shows
  <2>6. SamePanel(new, panel, t)
      BY <2>2, <2>4, UnchangedIsSame DEF SamePanel
  <2> QED BY <1>2, <2>2, <2>4, <2>5, <2>6 DEF new
<1>6. CASE ~(c \in MyCategories /\ ~Holds(panel.waiting, t))
  <2>1. new = panel
      BY <1>6, EventsSay DEF OnCreated
  <2>2. Shows(panel, t, row[t], unheard)
      BY <1>1, <1>2, <1>3, <1>6 DEF Shows
  <2>3. SamePanel(panel, panel, t)
      BY UnchangedIsSame DEF SamePanel
  <2> QED BY <1>2, <2>1, <2>2, <2>3
<1> QED BY <1>5, <1>6

LEMMA ShownAgain ==
    ASSUME RowsOK, NEW t \in Ticket, NEW p, PanelOK(p), SamePanel(p, panel, t),
           Agrees(panel, Ticket \ {t}, unseen), Shows(p, t, row[t], unseen),
           Holds(p.skipped, t) => ShownLast(p.skipped, t) /\ IsLast(touched, t),
           t \notin unseen /\ Holds(p.waiting, t) => ShownLast(p.waiting, t) /\ IsLast(queue, t)
    PROVE  Agrees(p, Ticket, unseen)
BY OthersStayShown, OneMoreShown

LEMMA DeliverTells ==
    ASSUME PlainFlow, ServerOK, RowsOK, PanelOK(panel), PanelOK(panel'), Deliver, InStep(frames)
    PROVE  InStep(frames)'
<1>1. UNCHANGED <<row, queue, touched, reads, unseen>> /\ frames' = Tail(frames) /\ frames # <<>>
    BY DEF Deliver, server
<1>2. PICK e : e = Head(frames)
    OBVIOUS
<1>3. /\ e.type = "TICKET_CREATED" => panel' = OnCreated(e)
      /\ e.type = "TICKET_CALLED" => panel' = OnCalled(e)
      /\ e.type = "STATUS_UPDATED" => panel' = OnUpdated(e)
      /\ e.type = "TICKET_TRANSFERRED" => panel' = OnTransferred(e)
      /\ e.type = "SYSTEM_RESET" => panel' = OnReset
    BY <1>2 DEF Deliver
<1>4. /\ \A a : Head(<<a>>) = a /\ Tail(<<a>>) = <<>>
      /\ \A a, b : Head(<<a, b>>) = a /\ Tail(<<a, b>>) = <<b>>
    OBVIOUS
<1>5. /\ \A S : Agrees(panel', S, unseen) => Agrees(panel, S, unseen)'
      /\ \A t, r : Shows(panel', t, r, unseen) => Shows(panel, t, r, unseen)'
    BY <1>1 DEF Agrees, InOrder, Before, Shows, Holds, LinesAre, Precedes
<1>6. ASSUME frames' = <<>>, panel'.stale \/ Agrees(panel', Ticket, unseen)
      PROVE  InStep(frames)'
    BY <1>5, <1>6 DEF InStep
<1>7. ASSUME NEW t \in Ticket, NEW entry, panel' = Requeued(entry), entry.id = t,
             Agrees(panel, Ticket \ {t}, unseen) \/ panel.stale,
             row[t].status = "WAITING",
             t \notin unseen => entry.category = row[t].category
      PROVE  panel'.stale \/ Agrees(panel', Ticket, unseen)
  <2> SUFFICES ASSUME ~panel'.stale PROVE Agrees(panel', Ticket, unseen)
      OBVIOUS
  <2>1. /\ entry.category \notin MyCategories /\ SamePanel(panel', panel, t) /\ ~panel.stale
        /\ ~Holds(panel'.active, t) /\ ~Holds(panel'.waiting, t) /\ ~Holds(panel'.skipped, t)
      BY <1>7, RequeuedShows
  <2>2. \A line : /\ LinesAre(panel'.active, t, line) /\ LinesAre(panel'.waiting, t, line)
                  /\ LinesAre(panel'.skipped, t, line)
      BY <2>1, UnheldLines
  <2>3. Shows(panel', t, row[t], unseen)
      BY <1>7, <2>1, <2>2 DEF Shows, IsActive, IsSkipped, IsWaiting
  <2> QED BY <1>7, <2>1, <2>3, ShownAgain
<1>8. CASE frames = <<Reset>>
  <2>1. e.type = "SYSTEM_RESET" /\ frames' = <<>>
      BY <1>1, <1>2, <1>4, <1>8, EventsSay
  <2>2. panel'.stale = TRUE
      BY <1>3, <2>1, PanelLists DEF OnReset, Panel
  <2> QED BY <1>6, <2>1, <2>2
<1>9. ASSUME NEW t \in Ticket, IsHalfTold(t, frames) PROVE InStep(frames)'
  <2>1. /\ frames = <<Transferred(t, row[t].category)>> /\ row[t].status = "WAITING"
        /\ panel.stale \/ Agrees(panel, Ticket \ {t}, unseen)
      BY <1>9 DEF IsHalfTold
  <2>2. e = Transferred(t, row[t].category) /\ frames' = <<>>
      BY <1>1, <1>2, <1>4, <2>1
  <2>3. PICK entry : entry = [id |-> t, category |-> row[t].category, status |-> "WAITING"]
      OBVIOUS
  <2>4. panel' = Requeued(entry)
      BY <1>3, <2>2, <2>3, EventsSay DEF OnTransferred
  <2>5. entry.id = t /\ entry.category = row[t].category
      BY <2>3
  <2> QED BY <1>6, <1>7, <2>1, <2>2, <2>4, <2>5
<1>10. ASSUME NEW t \in Ticket, IsTold(t, frames) PROVE InStep(frames)'
  <2>1. reads = <<>> /\ ~panel.stale /\ Agrees(panel, Ticket \ {t}, unseen)
      BY <1>10 DEF IsTold
  <2>2. PICK was \in Row : Shows(panel, t, was, unseen) /\ Tell(t, was, frames)
      BY <1>10 DEF IsTold
  <2>3. CASE TellCreated(t, was, frames)
    <3>1. /\ frames = <<Created(t, row[t].category)>> /\ was.status = "NONE"
          /\ row[t].status = "WAITING" /\ IsLast(queue, t)
        BY <2>3 DEF TellCreated
    <3>2. e = Created(t, row[t].category) /\ frames' = <<>>
        BY <1>1, <1>2, <1>4, <3>1
    <3>3. panel' = OnCreated(Created(t, row[t].category))
        BY <1>3, <3>2, EventsSay
    <3>4. /\ SamePanel(panel', panel, t) /\ Shows(panel', t, row[t], unseen)
          /\ ~Holds(panel'.skipped, t)
          /\ t \notin unseen /\ Holds(panel'.waiting, t) => ShownLast(panel'.waiting, t)
        BY <2>2, <3>1, <3>3, CreatedShows
    <3>5. Agrees(panel', Ticket, unseen)
        BY <2>1, <3>1, <3>4, ShownAgain
    <3> QED BY <1>6, <3>2, <3>5
  <2>4. CASE TellCalled(t, was, frames)
    <3>1. PICK k \in Counters :
              /\ frames \in {<<Called(t, k)>>, <<Updated(t, "CALLING"), Called(t, k)>>}
              /\ row[t] = [was EXCEPT !.status = "CALLING", !.counter = k]
              /\ IF k = Mine THEN IsActive(was) \/ IsSkipped(was) \/ IsWaiting(was)
                 ELSE ~IsActive(was) /\ ~IsSkipped(was)
        BY <2>4 DEF TellCalled
    <3>2. CASE frames = <<Called(t, k)>>
      <4>1. e = Called(t, k) /\ frames' = <<>>
          BY <1>1, <1>2, <1>4, <3>2
      <4>2. panel' = OnCalled(Called(t, k))
          BY <1>3, <4>1, EventsSay
      <4>3. /\ SamePanel(panel', panel, t) /\ Shows(panel', t, row[t], unseen)
            /\ ~Holds(panel'.waiting, t) /\ ~Holds(panel'.skipped, t)
          BY <2>2, <3>1, <4>2, CalledShows
      <4>4. Agrees(panel', Ticket, unseen)
          BY <2>1, <4>3, ShownAgain
      <4> QED BY <1>6, <4>1, <4>4
    <3>3. CASE frames = <<Updated(t, "CALLING"), Called(t, k)>>
      <4>1. e = Updated(t, "CALLING") /\ frames' = <<Called(t, k)>>
          BY <1>1, <1>2, <1>4, <3>3
      <4>2. panel' = OnUpdated(Updated(t, "CALLING"))
          BY <1>3, <4>1, EventsSay
      <4>3. PICK now \in Row :
                /\ SamePanel(panel', panel, t) /\ Shows(panel', t, now, unseen)
                /\ panel'.stale = panel.stale
                /\ row[t] = [now EXCEPT !.status = "CALLING", !.counter = k]
                /\ IF k = Mine THEN IsActive(now) \/ IsSkipped(now) \/ IsWaiting(now)
                   ELSE ~IsActive(now) /\ ~IsSkipped(now)
        <5>1. CASE IsActive(was) \/ IsSkipped(was)
          <6> PICK now : now = [was EXCEPT !.status = "CALLING"]
              OBVIOUS
          <6>1. was.status \in AtCounter /\ was.counter = Mine
              BY <5>1 DEF IsActive, IsSkipped, AtCounter
          <6>2. /\ SamePanel(panel', panel, t) /\ Shows(panel', t, now, unseen)
                /\ panel'.stale = panel.stale
              BY <2>2, <4>2, <6>1, MovedShows
          <6>3. now \in Row /\ now.status = "CALLING" /\ now.counter = Mine
              BY <6>1 DEF Row, TicketStatus, InProgress
          <6>4. row[t] = [now EXCEPT !.status = "CALLING", !.counter = k]
              BY <3>1 DEF Row
          <6>5. k = Mine /\ IsActive(now)
              BY <3>1, <5>1, <6>3 DEF IsActive
          <6> QED BY <6>2, <6>3, <6>4, <6>5
        <5>2. CASE ~IsActive(was) /\ ~IsSkipped(was)
          <6>1. panel' = panel
              BY <2>2, <4>2, <5>2, UnheldUpdateIs
          <6>2. SamePanel(panel', panel, t)
              BY <6>1, UnchangedIsSame DEF SamePanel
          <6> QED BY <2>2, <3>1, <6>1, <6>2
        <5> QED BY <5>1, <5>2
      <4>4. Agrees(panel', Ticket \ {t}, unseen)
          BY <2>1, <4>3, OthersStayShown
      <4>5. TellCalled(t, now, frames)'
          BY <1>1, <4>1, <4>3 DEF TellCalled
      <4>6. Tell(t, now, frames)'
          BY <4>5 DEF Tell
      <4>7. Shows(panel, t, now, unseen)' /\ Agrees(panel, Ticket \ {t}, unseen)'
          BY <1>5, <4>3, <4>4
      <4>8. IsTold(t, frames)'
          BY <1>1, <2>1, <4>3, <4>6, <4>7 DEF IsTold
      <4> QED BY <4>8 DEF InStep
    <3> QED BY <3>1, <3>2, <3>3
  <2>5. CASE TellRequeued(t, was, frames)
    <3>1. /\ frames = <<Updated(t, "WAITING")>> /\ was.status \in AtCounter
          /\ row[t] = [was EXCEPT !.status = "WAITING", !.counter = Null]
          /\ IsActive(was) \/ IsSkipped(was) \/ t \in unseen
        BY <2>5 DEF TellRequeued
    <3>2. e = Updated(t, "WAITING") /\ frames' = <<>>
        BY <1>1, <1>2, <1>4, <3>1
    <3>3. panel' = OnUpdated(Updated(t, "WAITING"))
        BY <1>3, <3>2, EventsSay
    <3>4. row[t].status = "WAITING" /\ row[t].category = was.category
        BY <3>1 DEF Row
    <3>5. CASE IsActive(was) \/ IsSkipped(was)
      <4>1. PICK entry : entry = UpdatedLine(t, "WAITING")
          OBVIOUS
      <4>2. panel' = Requeued(entry)
          BY <2>2, <3>3, <3>5, <4>1, HeldUpdateIs DEF FlowStates
      <4>3. entry.id = t /\ (t \notin unseen => entry = [Line(t, was) EXCEPT !.status = "WAITING"])
          BY <2>2, <3>5, <4>1, UpdatedLineIs DEF FlowStates
      <4>4. t \notin unseen => entry.category = row[t].category
          BY <3>4, <4>3 DEF Line
      <4> QED BY <1>6, <1>7, <2>1, <3>2, <3>4, <4>2, <4>3, <4>4
    <3>6. CASE ~IsActive(was) /\ ~IsSkipped(was)
      <4>1. panel' = panel /\ t \in unseen
          BY <2>2, <3>1, <3>3, <3>6, UnheldUpdateIs
      <4>2. ~Holds(panel.active, t) /\ ~Holds(panel.skipped, t)
          BY <2>2, <3>6 DEF Shows
      <4>3. Shows(panel', t, row[t], unseen)
          BY <3>4, <4>1, <4>2 DEF Shows, IsActive, IsSkipped
      <4>4. SamePanel(panel', panel, t)
          BY <4>1, UnchangedIsSame DEF SamePanel
      <4>5. Agrees(panel', Ticket, unseen)
          BY <2>1, <4>1, <4>2, <4>3, <4>4, ShownAgain
      <4> QED BY <1>6, <3>2, <4>5
    <3> QED BY <3>5, <3>6
  <2>6. CASE TellMoved(t, was, frames)
    <3>1. /\ frames = <<Updated(t, row[t].status)>> /\ was.status \in AtCounter
          /\ row[t] = [was EXCEPT !.status = row[t].status]
          /\ row[t].status \in {"SERVING", "SKIPPED", "COMPLETED"} \ {was.status}
          /\ IsLast(touched, t)
        BY <2>6 DEF TellMoved
    <3>2. PICK s : s = row[t].status
        OBVIOUS
    <3>3. e = Updated(t, s) /\ frames' = <<>>
        BY <1>1, <1>2, <1>4, <3>1, <3>2
    <3>4. panel' = OnUpdated(Updated(t, s))
        BY <1>3, <3>3, EventsSay
    <3>5. /\ SamePanel(panel', panel, t) /\ Shows(panel', t, row[t], unseen)
          /\ Holds(panel'.skipped, t) => ShownLast(panel'.skipped, t)
          /\ t \notin unseen => ~Holds(panel'.waiting, t)
      <4>1. s \in {"CALLING", "SERVING", "SKIPPED", "COMPLETED"}
            /\ (s = "SKIPPED" => was.status # "SKIPPED")
          BY <3>1, <3>2
      <4>2. row[t] = [was EXCEPT !.status = s]
          BY <3>1, <3>2
      <4> QED BY <2>2, <3>1, <3>4, <4>1, <4>2, MovedShows
    <3>6. Agrees(panel', Ticket, unseen)
        BY <2>1, <3>1, <3>5, ShownAgain
    <3> QED BY <1>6, <3>3, <3>6
  <2>7. CASE TellTransferred(t, was, frames)
    <3>1. /\ frames = <<Updated(t, "WAITING"), Transferred(t, row[t].category)>>
          /\ row[t].status = "WAITING"
        BY <2>7 DEF TellTransferred
    <3>2. e = Updated(t, "WAITING") /\ frames' = <<Transferred(t, row[t].category)>>
        BY <1>1, <1>2, <1>4, <3>1
    <3>3. panel' = OnUpdated(Updated(t, "WAITING"))
        BY <1>3, <3>2, EventsSay
    <3>4. panel'.stale \/ SamePanel(panel', panel, t)
      <4>1. CASE IsActive(was) \/ IsSkipped(was)
        <5>1. PICK entry : entry = UpdatedLine(t, "WAITING")
            OBVIOUS
        <5>2. panel' = Requeued(entry) /\ entry.id = t
            BY <2>2, <3>3, <4>1, <5>1, HeldUpdateIs, UpdatedLineIs DEF FlowStates
        <5> QED BY <5>2, RequeuedShows
      <4>2. CASE ~IsActive(was) /\ ~IsSkipped(was)
        <5>1. panel' = panel
            BY <2>2, <3>3, <4>2, UnheldUpdateIs
        <5> QED BY <5>1, UnchangedIsSame DEF SamePanel
      <4> QED BY <4>1, <4>2
    <3>5. panel'.stale \/ Agrees(panel', Ticket \ {t}, unseen)
        BY <2>1, <3>4, OthersStayShown
    <3>6. panel'.stale \/ Agrees(panel, Ticket \ {t}, unseen)'
        BY <1>5, <3>5
    <3>7. IsHalfTold(t, frames)'
        BY <1>1, <3>1, <3>2, <3>6 DEF IsHalfTold
    <3> QED BY <3>7 DEF InStep
  <2> QED BY <2>2, <2>3, <2>4, <2>5, <2>6, <2>7 DEF Tell
<1> QED BY <1>1, <1>8, <1>9, <1>10 DEF InStep

-----------------------------------------------------------------------------
(* The one request whose events are on their way, if there is one.         *)
Coming(events) ==
    \/ outbox = {} /\ frames = events
    \/ frames = <<>> /\ connected /\ \E batch \in outbox : outbox = {batch} /\ batch[2] = events

(* A snapshot has read what the tables have.                               *)
IsCurrent(read) ==
    /\ read.active \in {Null, FindActiveByCounter} /\ read.waiting \in {Null, FindWaiting}
    /\ read.skipped \in {Null, FindSkippedByCounter}

(* While requests wait for each other's events, the panel is a request     *)
(* behind at most.                                                         *)
CalmInv ==
    calm =>
        /\ requested = {} /\ panel.load # "error"
        /\ \A i \in DOMAIN reads : IsCurrent(reads[i])
        /\ panel.load = "loading" => reads # <<>> /\ outbox = {} /\ frames = <<>>
        /\ panel.load = "loaded" => \E events : Coming(events) /\ (batched \/ InStep(events))

LEMMA NothingToTell ==
    ASSUME InStep(<<>>), ~panel.stale
    PROVE  Agrees(panel, Ticket, unseen)
<1>1. /\ \A a : <<>> # <<a>>
      /\ \A a, b : <<>> # <<a, b>>
    OBVIOUS
<1>2. \A t, was : ~Tell(t, was, <<>>)
    BY <1>1 DEF Tell, TellCreated, TellCalled, TellRequeued, TellMoved, TellTransferred
<1>3. \A t : ~IsTold(t, <<>>) /\ ~IsHalfTold(t, <<>>)
    BY <1>1, <1>2 DEF IsTold, IsHalfTold
<1> QED BY <1>1, <1>3 DEF InStep

LEMMA StaysInStep ==
    ASSUME UNCHANGED <<row, queue, touched, panel, unseen>>,
           reads' = reads \/ reads # <<>> \/ panel.stale, NEW events, InStep(events)
    PROVE  InStep(events)'
<1>1. \A S : Agrees(panel, S, unseen) => Agrees(panel, S, unseen)'
    BY DEF Agrees, InOrder, Before, Shows, Holds, LinesAre, Precedes
<1>2. \A t, was : Shows(panel, t, was, unseen) => Shows(panel, t, was, unseen)'
    BY DEF Shows, Holds, LinesAre
<1>3. \A t, was : Tell(t, was, events) => Tell(t, was, events)'
  <2>1. /\ \A t : IsLast(queue, t) => IsLast(queue, t)'
        /\ \A t : IsLast(touched, t) => IsLast(touched, t)'
      BY DEF IsLast, Has, Before
  <2> SUFFICES ASSUME NEW t, NEW was, Tell(t, was, events) PROVE Tell(t, was, events)'
      OBVIOUS
  <2>2. TellCreated(t, was, events) => TellCreated(t, was, events)'
      BY <2>1 DEF TellCreated
  <2>3. TellCalled(t, was, events) => TellCalled(t, was, events)'
      BY DEF TellCalled
  <2>4. TellRequeued(t, was, events) => TellRequeued(t, was, events)'
      BY DEF TellRequeued
  <2>5. TellMoved(t, was, events) => TellMoved(t, was, events)'
      BY <2>1 DEF TellMoved
  <2>6. TellTransferred(t, was, events) => TellTransferred(t, was, events)'
      BY DEF TellTransferred
  <2> QED BY <2>2, <2>3, <2>4, <2>5, <2>6 DEF Tell
<1>4. \A t : IsTold(t, events) => IsTold(t, events)'
  <2> SUFFICES ASSUME NEW t, IsTold(t, events) PROVE IsTold(t, events)'
      OBVIOUS
  <2>1. /\ reads = <<>> /\ ~panel.stale /\ Agrees(panel, Ticket \ {t}, unseen)
        /\ \E was \in Row : Shows(panel, t, was, unseen) /\ Tell(t, was, events)
      BY DEF IsTold
  <2>2. reads' = <<>> /\ ~panel'.stale
      BY <2>1
  <2>3. Agrees(panel, Ticket \ {t}, unseen)'
      BY <1>1, <2>1
  <2>4. \E was \in Row : Shows(panel, t, was, unseen)' /\ Tell(t, was, events)'
      BY <1>2, <1>3, <2>1
  <2> QED BY <2>2, <2>3, <2>4 DEF IsTold
<1>5. \A t : IsHalfTold(t, events) => IsHalfTold(t, events)'
    BY <1>1 DEF IsHalfTold
<1> QED BY <1>1, <1>4, <1>5 DEF InStep

(* A read that is current stays so while the tables stay as they are.      *)
LEMMA CurrentStays ==
    ASSUME UNCHANGED <<row, queue, touched>>
    PROVE  \A r : IsCurrent(r) => IsCurrent(r)'
<1>1. FindActiveByCounter' = FindActiveByCounter
    BY DEF FindActiveByCounter, States, State
<1>2. FindWaiting' = FindWaiting
    BY DEF FindWaiting, States, State
<1>3. FindSkippedByCounter' = FindSkippedByCounter
    BY DEF FindSkippedByCounter, States, State
<1> QED BY <1>1, <1>2, <1>3 DEF IsCurrent

LEMMA StaysCalm ==
    ASSUME CalmInv,
           UNCHANGED <<row, queue, touched, panel, unseen, outbox, frames, batched, calm, requested>>,
           connected => connected',
           reads' = reads \/ (reads' # <<>> /\ (reads # <<>> \/ panel.stale)),
           calm => \A i \in DOMAIN reads' : IsCurrent(reads'[i])
    PROVE  CalmInv'
<1> SUFFICES ASSUME calm PROVE CalmInv'
    BY DEF CalmInv
<1>1. \A r : IsCurrent(r) => IsCurrent(r)'
    BY CurrentStays
<1>2. \A i \in DOMAIN reads' : IsCurrent(reads[i])'
    BY <1>1
<1>3. \A events : Coming(events) => Coming(events)'
    BY DEF Coming
<1>4. \A events : InStep(events) => InStep(events)'
    BY StaysInStep
<1>5. panel.load = "loaded" => \E events : Coming(events)' /\ (batched' \/ InStep(events)')
    BY <1>3, <1>4 DEF CalmInv
<1>6. requested' = {} /\ panel'.load # "error"
      /\ (panel'.load = "loading" => reads' # <<>> /\ outbox' = {} /\ frames' = <<>>)
    BY DEF CalmInv
<1> QED BY <1>2, <1>5, <1>6 DEF CalmInv

LEMMA LoadIsKept ==
    ASSUME PanelOK(panel), Deliver
    PROVE  panel'.load = panel.load
<1> DEFINE e == Head(frames)
<1>1. panel \in Panel
    BY DEF PanelOK
<1>2. \/ panel' = OnCreated(e) \/ panel' = OnCalled(e) \/ panel' = OnUpdated(e)
      \/ panel' = OnTransferred(e) \/ panel' = OnReset
    BY DEF Deliver
<1> HIDE DEF e
<1>3. \A a, w, s : /\ [panel EXCEPT !.active = a].load = panel.load
                   /\ [panel EXCEPT !.waiting = w].load = panel.load
                   /\ [panel EXCEPT !.active = a, !.skipped = s].load = panel.load
                   /\ [panel EXCEPT !.waiting = w, !.skipped = s, !.active = a].load = panel.load
                   /\ [panel EXCEPT !.active = a, !.waiting = w, !.skipped = s].load = panel.load
    BY <1>1 DEF Panel
<1>4. OnCreated(e).load = panel.load
    BY <1>3 DEF OnCreated
<1>5. OnCalled(e).load = panel.load
    BY <1>3 DEF OnCalled
<1>6. \A entry : Requeued(entry).load = panel.load
  <2> SUFFICES ASSUME NEW entry PROVE Requeued(entry).load = panel.load
      OBVIOUS
  <2> DEFINE less == Without(entry.id)
  <2>1. less.load = panel.load
      BY <1>3 DEF Without
  <2>2. DOMAIN less = DOMAIN panel /\ DOMAIN panel = {"active", "waiting", "skipped", "load", "stale"}
      BY <1>1 DEF Without, Panel
  <2> HIDE DEF less
  <2>3. [less EXCEPT !.waiting = Append(@, entry), !.stale = TRUE].load = less.load
      BY <2>2
  <2> QED BY <2>1, <2>3 DEF Requeued, less
<1>7. OnTransferred(e).load = panel.load
    BY <1>6 DEF OnTransferred
<1>8. OnReset.load = panel.load
    BY <1>1 DEF OnReset, Panel
<1>9. OnUpdated(e).load = panel.load
  <2> DEFINE known == panel.active \o panel.skipped
             entry == [Entry(known, e.id) EXCEPT !.status = e.to]
  <2>1. Requeued(entry).load = panel.load
      BY <1>6
  <2> QED BY <1>3, <2>1 DEF OnUpdated
<1> QED BY <1>2, <1>4, <1>5, <1>7, <1>8, <1>9

-----------------------------------------------------------------------------
CalmIInv == IInv /\ RowsOK /\ CalmInv

LEMMA OpenedIsCalm == ServerOK /\ RowsOK /\ PanelInit => CalmIInv
<1> SUFFICES ASSUME ServerOK, RowsOK, PanelInit PROVE CalmIInv
    OBVIOUS
<1>1. IInv
    BY OpenedHolds
<1>2. /\ requested = {} /\ panel.load = "loading" /\ reads = <<NoRead>> /\ outbox = {}
      /\ frames = <<>>
    BY DEF PanelInit
<1>3. \A i \in DOMAIN reads : IsCurrent(reads[i])
    BY <1>2 DEF IsCurrent, NoRead
<1>4. CalmInv
    BY <1>2, <1>3 DEF CalmInv
<1> QED BY <1>1, <1>4 DEF CalmIInv

LEMMA CalmInitHolds == CallerInit => CalmIInv
<1>1. CallerInit => RowsOK
    BY DEF CallerInit, RowsOK, Has, AtCounter
<1> QED BY <1>1, EmptyDayIsOK, OpenedIsCalm DEF CallerInit

LEMMA OthersKeepCalm ==
    ASSUME PlainFlow, CalmIInv, OthersRequest
    PROVE  RowsOK' /\ CalmInv'
<1>0. ServerOK /\ WireOK /\ PanelOK(panel) /\ SignalOK /\ RowsOK /\ CalmInv
    BY DEF CalmIInv, IInv
<1>1. Tells
    BY <1>0, OthersTell
<1>2. UNCHANGED <<frames, connected, client, staff, past>> /\ MayCommit
    BY DEF OthersRequest
<1>3. UNCHANGED <<frames, connected, panel, screen, reads, requested, calm, batched>>
    BY <1>2 DEF client, staff, past
<1>4. ASSUME calm PROVE CalmInv'
  <2>1. connected /\ outbox = {} /\ frames = <<>> /\ reads = <<>> /\ screen = panel
      BY <1>2, <1>4 DEF MayCommit, Settled
  <2>2. /\ requested = {} /\ panel.load = "loaded"
        /\ \E events : Coming(events) /\ (batched \/ InStep(events))
      BY <1>0, <1>4, <2>1 DEF CalmInv, PanelOK, Panel
  <2>3. PICK events : Commit(events) /\ (Quiet /\ UNCHANGED client => InStep(events)')
      BY <1>1 DEF Tells
  <2>4. Coming(events)'
    <3>1. outbox' = {<<commits', events>>}
        BY <2>1, <2>3 DEF Commit
    <3>2. <<commits', events>>[2] = events
        OBVIOUS
    <3> QED BY <1>3, <2>1, <3>1, <3>2 DEF Coming
  <2>5. batched \/ Quiet
    <3> SUFFICES ASSUME ~batched PROVE Quiet
        OBVIOUS
    <3>1. PICK told : Coming(told) /\ InStep(told)
        BY <2>2
    <3>2. told = <<>>
        BY <2>1, <3>1 DEF Coming
    <3>3. ~panel.stale
        BY <1>0, <2>1 DEF SignalOK
    <3>4. Agrees(panel, Ticket, unseen)
        BY <3>1, <3>2, <3>3, NothingToTell
    <3> QED BY <2>1, <3>3, <3>4 DEF Quiet
  <2>6. batched' \/ InStep(events)'
      BY <1>2, <1>3, <2>3, <2>5
  <2> QED BY <1>3, <2>1, <2>2, <2>4, <2>6 DEF CalmInv
<1>5. CalmInv'
    BY <1>3, <1>4 DEF CalmInv
<1> QED BY <1>1, <1>5 DEF Tells

LEMMA LoadedKeepsCalm ==
    ASSUME CalmIInv, SnapshotLoaded
    PROVE  CalmInv'
<1>0. /\ ServerOK /\ PanelOK(panel) /\ RowsOK /\ CalmInv /\ reads \in Seq(Snapshot)
    BY DEF CalmIInv, IInv
<1> SUFFICES ASSUME calm PROVE CalmInv'
    BY DEF SnapshotLoaded, past, CalmInv
<1>1. PICK i \in DOMAIN reads :
          /\ Null \notin {reads[i].active, reads[i].waiting, reads[i].skipped}
          /\ panel' = [active |-> reads[i].active, waiting |-> reads[i].waiting,
                       skipped |-> reads[i].skipped, load |-> "loaded", stale |-> FALSE]
          /\ reads' = RemoveAt(reads, i)
          /\ unseen' = {}
    BY DEF SnapshotLoaded
<1>2. UNCHANGED <<row, queue, touched, outbox, frames, connected, requested, calm, batched>>
    BY DEF SnapshotLoaded, server, wire, staff, past
<1>3. /\ panel'.active = FindActiveByCounter /\ panel'.waiting = FindWaiting
      /\ panel'.skipped = FindSkippedByCounter /\ panel'.load = "loaded" /\ panel'.stale = FALSE
  <2>1. IsCurrent(reads[i])
      BY <1>0, <1>1 DEF CalmInv
  <2> HIDE DEF FindActiveByCounter, FindWaiting, FindSkippedByCounter
  <2> QED BY <1>1, <2>1 DEF IsCurrent
<1>4. \A S \in SUBSET Ticket : Agrees(panel, S, unseen)'
  <2>1. Agrees(panel', Ticket, {})
      BY <1>0, <1>3, SnapshotAgrees
  <2>2. \A S \in SUBSET Ticket : Agrees(panel', S, {})
      BY <2>1 DEF Agrees, InOrder
  <2>3. \A S : Agrees(panel', S, unseen') => Agrees(panel, S, unseen)'
      BY <1>2 DEF Agrees, InOrder, Before, Shows, Holds, LinesAre, Precedes
  <2> QED BY <1>1, <2>2, <2>3
<1>5. \A j \in DOMAIN reads' : IsCurrent(reads[j])'
  <2> DEFINE current == {read \in Snapshot : IsCurrent(read)}
  <2>1. \A j \in DOMAIN reads : reads[j] \in current
      BY <1>0 DEF CalmInv
  <2> HIDE DEF current
  <2>2. reads \in Seq(current)
      BY <1>0, <2>1
  <2>3. reads' \in Seq(current)
      BY <1>1, <2>2, RemovedKeeps
  <2>4. \A j \in DOMAIN reads' : IsCurrent(reads'[j])
      BY <2>3 DEF current
  <2>5. \A r : IsCurrent(r) => IsCurrent(r)'
      BY <1>2, CurrentStays
  <2> QED BY <2>4, <2>5
<1>6. \A events : Coming(events) => Coming(events)'
    BY <1>2 DEF Coming
<1>7. ASSUME NEW events, InStep(events) PROVE InStep(events)'
  <2>1. CASE events = <<>>
      BY <1>4, <2>1 DEF InStep
  <2>2. CASE events = <<Reset>>
      BY <2>2 DEF InStep
  <2>3. ASSUME NEW t \in Ticket, IsTold(t, events) PROVE FALSE
      BY <1>0, <1>1, <2>3 DEF IsTold
  <2>4. ASSUME NEW t \in Ticket, IsHalfTold(t, events) PROVE InStep(events)'
    <3>1. IsHalfTold(t, events)'
        BY <1>2, <1>4, <2>4 DEF IsHalfTold
    <3> QED BY <3>1 DEF InStep
  <2> QED BY <1>7, <2>1, <2>2, <2>3, <2>4 DEF InStep
<1>8. \E events : Coming(events)' /\ (batched' \/ InStep(events)')
  <2>1. CASE panel.load = "loading"
    <3>1. Coming(<<>>)'
        BY <1>0, <1>2, <2>1 DEF CalmInv, Coming
    <3>2. InStep(<<>>)'
        BY <1>4 DEF InStep
    <3> QED BY <3>1, <3>2
  <2>2. CASE panel.load = "loaded"
      BY <1>0, <1>2, <1>6, <1>7, <2>2 DEF CalmInv
  <2>3. panel.load \in {"loading", "loaded"}
      BY <1>0 DEF CalmInv, PanelOK, Panel
  <2> QED BY <2>1, <2>2, <2>3
<1>9. requested' = {}
    BY <1>0, <1>2 DEF CalmInv
<1> QED BY <1>3, <1>5, <1>8, <1>9 DEF CalmInv

LEMMA NextKeepsCalm == PlainFlow /\ CalmIInv /\ [CallerNext]_callerVars => CalmIInv'
<1> SUFFICES ASSUME PlainFlow, CalmIInv, [CallerNext]_callerVars PROVE CalmIInv'
    OBVIOUS
<1>0. /\ ServerOK /\ WireOK /\ StaffOK /\ PanelOK(panel) /\ RowsOK /\ CalmInv
      /\ reads \in Seq(Snapshot)
    BY DEF CalmIInv, IInv
<1>i. IInv'
    BY NextKeeps DEF CalmIInv
<1>a. ASSUME UNCHANGED server PROVE RowsOK'
    BY <1>0, <1>a DEF server, RowsOK, Has
<1>b. ASSUME UNCHANGED <<server, client, outbox, frames, batched, calm, requested, unseen>>,
             connected => connected'
      PROVE  CalmInv'
  <2>1. UNCHANGED <<row, queue, touched, panel, reads>>
      BY <1>b DEF server, client
  <2>2. calm => \A i \in DOMAIN reads' : IsCurrent(reads'[i])
      BY <1>0, <2>1 DEF CalmInv
  <2>3. UNCHANGED <<row, queue, touched, panel, unseen, outbox, frames, batched, calm, requested>>
      BY <1>b, <2>1
  <2>4. reads' = reads \/ (reads' # <<>> /\ (reads # <<>> \/ panel.stale))
      BY <2>1
  <2> QED BY <1>0, <1>b, <2>2, <2>3, <2>4, StaysCalm, Zenon
<1>c. ASSUME ~calm, calm' = calm PROVE CalmInv'
    BY <1>c DEF CalmInv
<1>d. ASSUME NEW request \in requested PROVE ~calm
    BY <1>0 DEF CalmInv
<1>1. CASE OthersRequest
    BY <1>i, <1>1, OthersKeepCalm DEF CalmIInv
<1>2. CASE CommandCommits
  <2>1. PICK request \in requested : Answer(request) /\ Perform(request.command)
      BY <1>2 DEF CommandCommits
  <2>2. request.command \in Command /\ calm' = calm
      BY <1>0, <1>2 DEF StaffOK, Request, CommandCommits, past
  <2>3. RowsOK'
      BY <1>0, <2>1, <2>2, PerformKeepsRows
  <2> QED BY <1>c, <1>d, <1>i, <2>2, <2>3 DEF CalmIInv
<1>3. CASE CommandRefused
  <2>1. PICK request \in requested : Answer(request)
      BY <1>3 DEF CommandRefused
  <2>2. UNCHANGED server /\ calm' = calm
      BY <1>3 DEF CommandRefused, past
  <2> QED BY <1>a, <1>c, <1>d, <1>i, <2>2 DEF CalmIInv
<1>4. CASE Dispatch
  <2>1. PICK batch \in outbox :
            /\ outbox' = outbox \ {batch}
            /\ frames' = IF connected THEN frames \o batch[2] ELSE frames
      BY <1>4 DEF Dispatch
  <2>2. UNCHANGED <<server, connected, client, staff, past, unseen>>
      BY <1>4 DEF Dispatch
  <2>3. UNCHANGED <<row, queue, touched, panel, reads, requested, calm, batched>>
      BY <2>2 DEF server, client, staff, past
  <2>4. ASSUME calm PROVE CalmInv'
    <3>1. panel.load = "loaded" /\ requested = {} /\ \A i \in DOMAIN reads : IsCurrent(reads[i])
        BY <1>0, <2>1, <2>4 DEF CalmInv, PanelOK, Panel
    <3>2. PICK events : Coming(events) /\ (batched \/ InStep(events))
        BY <1>0, <2>4, <3>1 DEF CalmInv
    <3>3. frames = <<>> /\ connected /\ outbox = {batch} /\ batch[2] = events
        BY <2>1, <3>2 DEF Coming
    <3>4. outbox' = {} /\ frames' = events
      <4>1. batch[2] \in Seq(Told)
          BY <1>0, <2>1 DEF WireOK
      <4> QED BY <2>1, <3>3, <4>1
    <3>5. Coming(events)'
        BY <3>4 DEF Coming
    <3>6. batched' \/ InStep(events)'
        BY <2>2, <2>3, <3>2, StaysInStep
    <3>7. \A i \in DOMAIN reads' : IsCurrent(reads[i])'
      <4>1. \A r : IsCurrent(r) => IsCurrent(r)'
          BY <2>3, CurrentStays
      <4> QED BY <2>3, <3>1, <4>1
    <3>8. panel'.load = "loaded" /\ requested' = {}
        BY <2>3, <3>1
    <3> QED BY <3>5, <3>6, <3>7, <3>8 DEF CalmInv
  <2> QED BY <1>a, <1>c, <1>i, <2>2, <2>3, <2>4 DEF CalmIInv
<1>5. CASE Deliver
  <2>1. UNCHANGED <<server, outbox, reads, staff, calm, unseen>> /\ frames # <<>>
      BY <1>5 DEF Deliver
  <2>2. UNCHANGED <<row, queue, touched, requested>>
      BY <2>1 DEF server, staff
  <2>3. batched => batched'
      BY <1>5 DEF Deliver
  <2>4. panel'.load = panel.load /\ PanelOK(panel')
      BY <1>0, <1>5, LoadIsKept, DeliverKeeps
  <2>5. ASSUME calm PROVE CalmInv'
    <3>1. panel.load = "loaded" /\ requested = {} /\ \A i \in DOMAIN reads : IsCurrent(reads[i])
        BY <1>0, <2>1, <2>5 DEF CalmInv, PanelOK, Panel
    <3>2. outbox = {} /\ (batched \/ InStep(frames))
        BY <1>0, <2>1, <2>5, <3>1 DEF CalmInv, Coming
    <3>3. batched' \/ InStep(frames)'
        BY <1>0, <1>5, <2>3, <2>4, <3>2, DeliverTells
    <3>4. Coming(frames)'
        BY <2>1, <3>2 DEF Coming
    <3>5. \A i \in DOMAIN reads' : IsCurrent(reads[i])'
      <4>1. \A r : IsCurrent(r) => IsCurrent(r)'
          BY <2>2, CurrentStays
      <4> QED BY <2>1, <3>1, <4>1
    <3>6. panel'.load = "loaded" /\ requested' = {}
        BY <2>2, <2>4, <3>1
    <3> QED BY <3>3, <3>4, <3>5, <3>6 DEF CalmInv
  <2> QED BY <1>a, <1>c, <1>i, <2>1, <2>5 DEF CalmIInv
<1>6. CASE Connect
  <2>1. UNCHANGED <<server, client, outbox, frames, batched, calm, requested, unseen>> /\ connected'
      BY <1>6 DEF Connect, past, staff
  <2> QED BY <1>a, <1>b, <1>i, <2>1 DEF CalmIInv
<1>7. CASE Disconnect
    BY <1>a, <1>c, <1>i, <1>7 DEF Disconnect, May, CalmIInv
<1>8. CASE ServerRestarts
    BY <1>a, <1>c, <1>i, <1>8 DEF ServerRestarts, May, CalmIInv
<1>9. CASE Render
  <2>1. UNCHANGED <<server, wire, panel, requested, past, unseen>>
      BY <1>9 DEF Render
  <2>2. UNCHANGED <<row, queue, touched, outbox, frames, connected, calm, batched>>
      BY <2>1 DEF server, wire, past
  <2>3. reads' = reads \/ (panel.stale /\ reads' = Append(reads, NoRead))
      BY <1>9 DEF Render
  <2>4. reads' = reads \/ (reads' # <<>> /\ (reads # <<>> \/ panel.stale))
      BY <1>0, <2>3, NoReadIsSnapshot
  <2>5. ASSUME calm PROVE \A i \in DOMAIN reads' : IsCurrent(reads'[i])
    <3> DEFINE current == {read \in Snapshot : IsCurrent(read)}
    <3>1. NoRead \in current
        BY NoReadIsSnapshot DEF IsCurrent, NoRead
    <3>2. \A i \in DOMAIN reads : reads[i] \in current
        BY <1>0, <2>5 DEF CalmInv
    <3> HIDE DEF current
    <3>3. reads \in Seq(current)
        BY <1>0, <3>2
    <3>4. reads' \in Seq(current)
        BY <2>3, <3>1, <3>3
    <3> QED BY <3>4 DEF current
  <2>6. UNCHANGED <<row, queue, touched, panel, unseen, outbox, frames, batched, calm, requested>>
      BY <2>1, <2>2
  <2>7. CalmInv'
      BY <1>0, <2>2, <2>4, <2>5, <2>6, StaysCalm
  <2> QED BY <1>a, <1>i, <2>1, <2>7 DEF CalmIInv
<1>10. CASE ReadList
  <2>1. UNCHANGED <<server, wire, panel, staff, past, unseen>>
      BY <1>10 DEF ReadList
  <2>2. UNCHANGED <<row, queue, touched, outbox, frames, connected, requested, calm, batched>>
      BY <2>1 DEF server, wire, staff, past
  <2>3. PICK i \in DOMAIN reads :
            \/ reads' = [reads EXCEPT ![i].active = FindActiveByCounter]
            \/ reads' = [reads EXCEPT ![i].waiting = FindWaiting]
            \/ reads' = [reads EXCEPT ![i].skipped = FindSkippedByCounter]
      BY <1>10 DEF ReadList
  <2>4. DOMAIN reads' = DOMAIN reads /\ reads # <<>> /\ reads' # <<>>
      BY <1>0, <1>i, <2>3 DEF IInv
  <2>5. ASSUME calm, NEW j \in DOMAIN reads' PROVE IsCurrent(reads'[j])
    <3>1. IsCurrent(reads[j]) /\ reads[j] \in Snapshot
        BY <1>0, <2>4, <2>5 DEF CalmInv
    <3>2. CASE j # i
        BY <2>3, <2>4, <2>5, <3>1, <3>2
    <3>3. CASE j = i
      <4>1. \/ reads'[j] = [reads[j] EXCEPT !.active = FindActiveByCounter]
            \/ reads'[j] = [reads[j] EXCEPT !.waiting = FindWaiting]
            \/ reads'[j] = [reads[j] EXCEPT !.skipped = FindSkippedByCounter]
          BY <2>3, <2>4, <2>5, <3>3
      <4> QED BY <3>1, <4>1 DEF IsCurrent, Snapshot
    <3> QED BY <3>2, <3>3
  <2>6. UNCHANGED <<row, queue, touched, panel, unseen, outbox, frames, batched, calm, requested>>
      BY <2>1, <2>2
  <2>7. CalmInv'
      BY <1>0, <2>2, <2>4, <2>5, <2>6, StaysCalm
  <2> QED BY <1>a, <1>i, <2>1, <2>7 DEF CalmIInv
<1>11. CASE SnapshotLoaded
  <2>1. UNCHANGED server
      BY <1>11 DEF SnapshotLoaded
  <2> QED BY <1>a, <1>i, <1>11, <2>1, LoadedKeepsCalm DEF CalmIInv
<1>12. CASE SnapshotError
    BY <1>a, <1>c, <1>i, <1>12 DEF SnapshotError, May, CalmIInv
<1>13. ASSUME NEW s \in Surface, NEW cmd \in Buttons(s), Tap(s, cmd) PROVE CalmIInv'
  <2>1. ~calm /\ UNCHANGED server /\ calm' = calm
      BY <1>13 DEF Tap, May, past
  <2> QED BY <1>a, <1>c, <1>i, <2>1 DEF CalmIInv
<1>14. CASE Settle
  <2>1. PICK request \in requested : UNCHANGED <<server, past>>
      BY <1>14 DEF Settle
  <2> QED BY <1>a, <1>c, <1>d, <1>i, <2>1 DEF CalmIInv, past
<1>15. CASE UNCHANGED callerVars
  <2>1. UNCHANGED <<server, client, outbox, frames, connected, batched, calm, requested, unseen>>
      BY <1>15 DEF callerVars, wire, staff, past
  <2> QED BY <1>a, <1>b, <1>i, <2>1 DEF CalmIInv
<1> QED BY <1>1, <1>2, <1>3, <1>4, <1>5, <1>6, <1>7, <1>8, <1>9, <1>10, <1>11, <1>12, <1>13,
           <1>14, <1>15 DEF CallerNext

(* A panel opened when the day has tickets already.                        *)
OpenedSpec == ServerOK /\ RowsOK /\ PanelInit /\ [][CallerNext]_callerVars

(* When each request's events have arrived before the next request, the    *)
(* panel shows what a reload would, whether it was opened before the first *)
(* ticket of the day or later: for any number of tickets, categories and   *)
(* requests, in every flow over the canonical states that a ticket leaves  *)
(* the queue in by a call only and never comes back in once completed.     *)
THEOREM CalmPanelStaysExact ==
    PlainFlow => (CallerSpec \/ OpenedSpec => []CalmPanelIsExact)
<1> SUFFICES ASSUME PlainFlow PROVE CallerSpec \/ OpenedSpec => []CalmPanelIsExact
    OBVIOUS
<1>1. CalmIInv => CalmPanelIsExact
  <2> SUFFICES ASSUME CalmIInv, calm, ~batched, Settled, panel.load = "loaded"
               PROVE  CalmPanelIsExact
      BY DEF CalmPanelIsExact
  <2>0. ServerOK /\ PanelOK(panel) /\ RowsOK /\ CalmInv /\ SignalOK
      BY DEF CalmIInv, IInv
  <2>1. outbox = {} /\ frames = <<>> /\ reads = <<>> /\ screen = panel
      BY DEF Settled
  <2>2. ~panel.stale
      BY <2>0, <2>1 DEF SignalOK
  <2>3. InStep(<<>>)
      BY <2>0, <2>1 DEF CalmInv, Coming
  <2> QED BY <2>0, <2>2, <2>3, NothingToTell, AgreementIsExact
<1>2. (CallerInit => CalmIInv) /\ (ServerOK /\ RowsOK /\ PanelInit => CalmIInv)
    BY CalmInitHolds, OpenedIsCalm
<1>3. CalmIInv /\ [CallerNext]_callerVars => CalmIInv'
    BY NextKeepsCalm
<1> QED BY <1>1, <1>2, <1>3, PTL DEF CallerSpec, OpenedSpec
===================================================================================
