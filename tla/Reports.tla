------------------------------- MODULE Reports --------------------------------
(***************************************************************************)
(* The reports on a range of days, and the page that asks for them.  A     *)
(* report is computed by several statements over the tickets and their     *)
(* archive, without a transaction around them, while the queue goes on and *)
(* resets move the tickets of earlier days to the archive.                 *)
(***************************************************************************)
EXTENDS Integers, Sequences, FiniteSetsExt, TLC

CONSTANTS
    Tickets, Categories, Counters,
    Days,            \* 0 .. the last day
    DayStart,        \* when each day begins, and the day after the last
    DayLength,       \* MS_PER_DAY: what the code takes every day to last
    Presets,         \* the lengths of the ranges with a button of their own
    MaxRangeDays,
    None,
    MaxNow, MaxLoads    \* bounds of an instance

ASSUME CalendarAssumption ==
    /\ Days \subseteq Nat /\ Presets \subseteq Nat \ {0} /\ 0 \in Days
    /\ DayStart \in [Days \cup {Max(Days) + 1} -> Nat]
    /\ DayLength \in Nat \ {0}
    /\ MaxNow \in Nat
    /\ \A time \in 0 .. MaxNow :
          \E day \in Days : DayStart[day] <= time /\ time < DayStart[day + 1]

VARIABLES
    active, archived,   \* the rows of the two tables
    kept,               \* the categories that still exist
    now,
    range,              \* the days the page is about
    loads,              \* the report requests on their way
    asked,              \* the number of the last one
    reportView          \* what the page shows

reportsVars == <<active, archived, kept, now, range, loads, asked, reportView>>
queueVars == <<active, archived, kept, now>>
pageVars == <<range, loads, asked, reportView>>

ReportLoading == [status |-> "loading"]
ReportFailed == [status |-> "error"]
Row == [category : Categories, counter : Counters \cup {None}, created : Nat,
        called : Nat \cup {None}, served : Nat \cup {None}, completed : Nat \cup {None}]

-----------------------------------------------------------------------------
(* Dates.                                                                  *)

toDateKey(time) == CHOOSE day \in Days : DayStart[day] <= time /\ time < DayStart[day + 1]

daySpan(from, to) == (2 * (DayStart[to] - DayStart[from]) + DayLength) \div (2 * DayLength) + 1

-----------------------------------------------------------------------------
(* Metrics of a set of tickets.                                            *)

(* Mutant: the archive is forgotten.                                       *)
StillActive(t) == active[t]

Stored(t) == IF active[t] # None THEN active[t] ELSE archived[t]

(* What a statement sees: the rows of both tables, and the categories.     *)
Tables == [tickets |-> [t \in Tickets |-> Stored(t)], categories |-> kept]

CreatedIn(db, start, end) ==
    {t \in Tickets : db.tickets[t] # None /\ db.tickets[t].created \in start .. end - 1}

(* The mean, rounded; nothing to average gives 0.                          *)
Average(length) ==
    LET n == Cardinality(DOMAIN length)
    IN IF n = 0 THEN 0 ELSE (2 * MapThenSumSet(LAMBDA i : length[i], DOMAIN length) + n) \div (2 * n)

Called(db, set) == {t \in set : db.tickets[t].called # None}
Served(db, set) == {t \in set : db.tickets[t].served # None /\ db.tickets[t].completed # None}
AvgWait(db, set) ==
    Average([t \in Called(db, set) |-> db.tickets[t].called - db.tickets[t].created])
AvgService(db, set) ==
    Average([t \in Served(db, set) |-> db.tickets[t].completed - db.tickets[t].served])

Metrics(db, set) ==
    [total |-> Cardinality(set), wait |-> AvgWait(db, set), service |-> AvgService(db, set)]
Performance(db, set) ==
    [served |-> Cardinality(Served(db, set)), service |-> AvgService(db, set)]

-----------------------------------------------------------------------------
(* The statements of a report.                                             *)

Window(db, from, to) == CreatedIn(db, DayStart[from], DayStart[to] + DayLength)

Totals(db, from, to) == Metrics(db, Window(db, from, to))

(* One point for every DayLength of the range, named by the day it begins in. *)
PerDay(db, from, to) ==
    LET points == (DayStart[to] - DayStart[from] + 2 * DayLength - 1) \div DayLength
        start(i) == DayStart[from] + (i - 1) * DayLength
        OfDay(i) == Window(db, from, to) \cap CreatedIn(db, start(i), start(i) + DayLength)
    IN [i \in 1 .. points |->
           Metrics(db, OfDay(i)) @@ Performance(db, OfDay(i)) @@ [date |-> toDateKey(start(i))]]

(* Only the tickets of categories that still exist are in the breakdown.   *)
PerCategory(db, from, to) ==
    [c \in {db.tickets[t].category : t \in Window(db, from, to)} \cap db.categories |->
        Metrics(db, {t \in Window(db, from, to) : db.tickets[t].category = c})]

OfCounter(db, k, from, to) ==
    Performance(db, {t \in Window(db, from, to) : db.tickets[t].counter = k})
PerCounter(db, from, to) ==
    [k \in {db.tickets[t].counter : t \in Window(db, from, to)} \ {None} |->
        OfCounter(db, k, from, to)]

Statement(n, db, from, to) ==
    CASE n = 1 -> Totals(db, from, to)
      [] n = 2 -> PerDay(db, from, to)
      [] n = 3 -> PerCategory(db, from, to)
      [] n = 4 -> PerCounter(db, from, to)

(* All of them at once, as the in-memory store computes them.              *)
RangeReport(from, to) == [n \in 1 .. 4 |-> Statement(n, Tables, from, to)]

NoMetrics == [total |-> 0, wait |-> 0, service |-> 0]
EmptyRange(from, to) ==
    <<NoMetrics,
      [i \in 1 .. (to - from + 1) |-> NoMetrics @@ [served |-> 0, date |-> from + i - 1]],
      <<>>, <<>>>>

(* The reports of one day, whole and of one counter.                       *)
DailyReport(day) == <<Totals(Tables, day, day), PerCategory(Tables, day, day)>>
CounterPerformance(k, day) == OfCounter(Tables, k, day, day)

RangeIsRefused(load) == load.from > load.to \/ daySpan(load.from, load.to) > MaxRangeDays

-----------------------------------------------------------------------------
(* The queue, as far as reports see it.                                    *)

(* Whatever a statement has read, the next one may find it changed: what   *)
(* the statements of such a report read is not followed any further.       *)
Mixed(load) ==
    IF RangeIsRefused(load) THEN load ELSE [load EXCEPT !.at = 5, !.got = None]
Disturbed == {IF load.at = 1 THEN load ELSE Mixed(load) : load \in loads}
Changes == loads' = Disturbed /\ UNCHANGED <<range, asked, reportView>>

Issue(t, category) ==
    /\ active[t] = None /\ archived[t] = None
    /\ active' = [active EXCEPT ![t] =
                    [category |-> category, counter |-> None, created |-> now,
                     called |-> None, served |-> None, completed |-> None]]
    /\ Changes /\ UNCHANGED <<archived, kept, now>>

Call(t, k) ==
    /\ active[t] # None /\ active[t].called = None
    /\ active' = [active EXCEPT ![t].called = now, ![t].counter = k]
    /\ Changes /\ UNCHANGED <<archived, kept, now>>

(* A ticket is completed with or without having been served.               *)
Complete(t, serving) ==
    /\ active[t] # None /\ active[t].called # None /\ active[t].completed = None
    /\ active' = [active EXCEPT ![t].completed = now,
                                ![t].served = IF serving THEN active[t].called ELSE None]
    /\ Changes /\ UNCHANGED <<archived, kept, now>>

(* A reset moves the tickets of earlier days; the reports should not notice. *)
Archive ==
    LET old == {t \in Tickets : active[t] # None /\ active[t].created < DayStart[toDateKey(now)]}
    IN /\ old # {}
       /\ archived' = [t \in Tickets |-> IF t \in old THEN active[t] ELSE archived[t]]
       /\ active' = [t \in Tickets |-> IF t \in old THEN None ELSE active[t]]
       /\ UNCHANGED <<kept, now, pageVars>>

Purge(t) ==
    /\ archived[t] # None
    /\ archived' = [archived EXCEPT ![t] = None]
    /\ Changes /\ UNCHANGED <<active, kept, now>>

RemoveCategory(category) ==
    /\ category \in kept /\ Cardinality(kept) > 1
    /\ kept' = kept \ {category}
    /\ Changes /\ UNCHANGED <<active, archived, now>>

Tick ==
    /\ now < MaxNow
    /\ now' = now + 1
    /\ UNCHANGED <<active, archived, kept, pageVars>>

-----------------------------------------------------------------------------
(* The page.                                                               *)

RangeLoad(from, to, number) ==
    [from |-> from, to |-> to, number |-> number, at |-> 1, got |-> <<>>]

ReportsInit ==
    /\ active = [t \in Tickets |-> None] /\ archived = active
    /\ kept = Categories /\ now = 0
    /\ range = [from |-> 0, to |-> 0]
    /\ loads = {RangeLoad(0, 0, 1)} /\ asked = 1
    /\ reportView = ReportLoading

(* Another range starts another request, and the earlier ones are not      *)
(* heard any more.                                                         *)
ShowRange(from, to) ==
    /\ range # [from |-> from, to |-> to] /\ asked < MaxLoads
    /\ range' = [from |-> from, to |-> to]
    /\ asked' = asked + 1
    /\ loads' = {Mixed(load) : load \in loads} \cup {RangeLoad(from, to, asked + 1)}
    /\ reportView' = ReportLoading

selectRelative(days) ==
    /\ toDateKey(now) - days + 1 \in Days
    /\ ShowRange(toDateKey(now) - days + 1, toDateKey(now))
    /\ UNCHANGED queueVars

(* Two days clicked in the calendar, in either order.                      *)
onSelect(first, second) ==
    /\ ShowRange(Min({first, second}), Max({first, second}))
    /\ UNCHANGED queueVars

-----------------------------------------------------------------------------
(* The server.                                                             *)

AfterStatement(load, changes) == loads' = (loads \ {load}) \cup {changes}

(* The next statement; a range without tickets ends with the first.        *)
Query(load) ==
    /\ load \in loads /\ load.at \in 1 .. 4
    /\ ~RangeIsRefused(load)
    /\ LET result == Statement(load.at, Tables, load.from, load.to)
       IN IF load.at = 1 /\ result.total = 0
          THEN AfterStatement(load, [load EXCEPT !.at = 5, !.got = EmptyRange(load.from, load.to)])
          ELSE AfterStatement(load, [load EXCEPT !.at = @ + 1, !.got = Append(@, result)])
    /\ UNCHANGED <<queueVars, range, asked, reportView>>

ReportReady(load) == [status |-> "ready", from |-> load.from, to |-> load.to]

Current(load) == load.number = asked

Answered(load, shown) ==
    /\ loads' = loads \ {load}
    /\ reportView' = IF Current(load) THEN shown ELSE reportView
    /\ UNCHANGED <<queueVars, range, asked>>

Arrive(load) ==
    /\ load \in loads
    /\ \/ load.at = 5 /\ Answered(load, ReportReady(load))
       \/ RangeIsRefused(load) /\ Answered(load, ReportFailed)

Lose(load) ==
    /\ load \in loads
    /\ Answered(load, ReportFailed)

ReportsNext ==
    \/ \E t \in Tickets :
          \/ \E category \in kept : Issue(t, category)
          \/ \E k \in Counters : Call(t, k)
          \/ \E serving \in BOOLEAN : Complete(t, serving)
          \/ Purge(t)
    \/ Archive \/ Tick
    \/ \E category \in Categories : RemoveCategory(category)
    \/ \E days \in Presets : selectRelative(days)
    \/ \E first, second \in Days : onSelect(first, second)
    \/ \E load \in loads : Query(load) \/ Arrive(load) \/ Lose(load)

ReportsSpec == ReportsInit /\ [][ReportsNext]_reportsVars

-----------------------------------------------------------------------------
(* Properties.                                                             *)

Total(field, seqOrMap) == MapThenSumSet(LAMBDA i : seqOrMap[i][field], DOMAIN seqOrMap)

ReportsTypeOK ==
    /\ \A t \in Tickets : {active[t], archived[t]} \subseteq Row \cup {None}
    /\ \A t \in Tickets : active[t] = None \/ archived[t] = None
    /\ range.from \in Days /\ range.to \in Days /\ range.from <= range.to

(* A report between whose statements no ticket changed is the report of    *)
(* one instant, although resets moved tickets to the archive meanwhile.    *)
ResetsAreNotNoticed ==
    \A load \in loads : load.at = 5 /\ load.got # None /\ load.got[1].total > 0 =>
        LET now1 == RangeReport(load.from, load.to)
        IN \A n \in 1 .. 4 : load.got[n] = now1[n]

(* Every day of the range has its point, and the points and the counters   *)
(* account for the tickets of the totals.                                  *)
PartsAddUp ==
    \A load \in loads : load.at = 5 /\ load.got # None =>
        /\ [i \in DOMAIN load.got[2] |-> load.got[2][i].date]
              = [i \in 1 .. daySpan(load.from, load.to) |-> load.from + i - 1]
        /\ Total("total", load.got[2]) = load.got[1].total
        /\ Total("served", load.got[2]) = Total("served", load.got[4])
        /\ kept = Categories => Total("total", load.got[3]) = load.got[1].total

(* The page shows the range that is picked, whatever answers come late.    *)
ViewIsOfTheRange ==
    reportView.status = "ready" => [from |-> reportView.from, to |-> reportView.to] = range

(* The report of a range of one day agrees with the report of that day, and *)
(* its counters with the reports on each of them.                          *)
OneDayAgrees ==
    \A load \in loads : load.at = 5 /\ load.got # None /\ load.from = load.to /\ load.got[1].total > 0 =>
        /\ DailyReport(load.from) = <<load.got[1], load.got[3]>>
        /\ \A k \in DOMAIN load.got[4] : CounterPerformance(k, load.from) = load.got[4][k]

ReportsAddUp == ReportsTypeOK /\ ResetsAreNotNoticed /\ PartsAddUp /\ OneDayAgrees /\ ViewIsOfTheRange
===============================================================================
