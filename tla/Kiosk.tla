--------------------------------- MODULE Kiosk ---------------------------------
(***************************************************************************)
(* One kiosk: the page where a visitor picks a category, the ticket shown  *)
(* for a while, and the prints in the background, over Chrome's dialog,    *)
(* core-api's driver of a network printer, or a serial port.               *)
(***************************************************************************)
EXTENDS Integers, FiniteSetsExt

CONSTANTS
    NoTicket, NoPort,
    AutoReturn,         \* AUTO_RETURN_MS, in ticks
    MaxTickets, MaxKioskFaults, MaxReloads, MaxModeChanges      \* bounds

ASSUME KioskAssumption ==
    /\ AutoReturn \in Nat \ {0} /\ {MaxTickets, MaxKioskFaults, MaxReloads, MaxModeChanges} \subseteq Nat
    /\ NoTicket \notin Nat /\ NoPort \notin Nat

VARIABLES
    mode, restricted,   \* core-api: the printer's mode; no ticket may be issued
    issued,             \* core-api: the number of tickets issued
    paired,             \* the browser was granted the serial port
    screen,             \* "select", "result", "setup", "notice"
    shown,              \* the ticket in the router's state
    timers,             \* timeouts of result pages: [ticket, left]
    age,                \* history: how long the ticket has been shown
    provider,           \* App's print provider
    profileRead,        \* App's fetch of the store profile has settled
    categories,         \* "loading", "loaded", "error"
    inFlight,           \* the ref of CategorySelectPage
    issuing, rendered,  \* its issue state is "issuing"; as on screen
    creates,            \* POST /api/tickets under way
    creation,           \* how many were sent
    jobs,               \* ticket -> its print
    port,               \* the ticket whose print has the serial port open
    printed,            \* the tickets that came out of a printer
    kioskFaults, reloads, modeChanges

document == <<screen, shown, timers, age, provider, profileRead, categories, inFlight, issuing,
              rendered>>
printing == <<jobs, port, printed>>
server == <<mode, restricted, issued>>
limits == <<kioskFaults, reloads, modeChanges>>
kioskVars == <<server, paired, document, creates, creation, printing, limits>>

PrinterModes == {"chrome", "network-escpos", "usb-serial"}
Tickets == 1 .. MaxTickets

(* A create request; it is answered with a ticket or refused.              *)
CreateRequest == [id : Nat, by : PrinterModes, answered : BOOLEAN,
                  ticket : Tickets \cup {NoTicket}]

(* A print: its stage, the answer of core-api, and whether something was   *)
(* in its way.                                                             *)
Job == [by : PrinterModes, at : {"dialog", "post", "connect", "flush", "close", "ports", "open",
                                 "write", "release", "ended"},
        answer : {"none", "204", "409", "502"}, excused : BOOLEAN]

JobAt(n, stage) == n \in DOMAIN jobs /\ jobs[n].at = stage
UsesPort(n) == jobs[n].by = "usb-serial" /\ jobs[n].at # "ended"

Fault == kioskFaults < MaxKioskFaults /\ kioskFaults' = kioskFaults + 1

-----------------------------------------------------------------------------
(* Loading the page: App and CategorySelectPage each read the profile.     *)
ReadProfile ==
    /\ ~profileRead /\ screen # "notice"
    /\ profileRead' = TRUE
    /\ \/ /\ provider' = mode
          /\ screen' = IF restricted THEN "notice" ELSE screen
          /\ timers' = IF restricted THEN {} ELSE timers
          /\ UNCHANGED kioskFaults
       \/ Fault /\ UNCHANGED <<provider, screen, timers>>
    /\ UNCHANGED <<server, paired, shown, age, categories, inFlight, issuing, rendered, creates,
                   creation, printing, reloads, modeChanges>>

LoadCategories ==
    /\ screen = "select" /\ categories = "loading"
    /\ \/ categories' = "loaded" /\ UNCHANGED kioskFaults
       \/ categories' = "error" /\ Fault
    /\ UNCHANGED <<server, paired, screen, shown, timers, age, provider, profileRead, inFlight,
                   issuing, rendered, creates, creation, printing, reloads, modeChanges>>

(* choose(): taps on a button that is not rendered as disabled.            *)
(* (Mutant: the guard is the state.)                                       *)
GuardByState == issuing /\ rendered

IsBusy == inFlight

Choose ==
    /\ screen = "select" /\ categories = "loaded" /\ ~rendered
    /\ ~IsBusy /\ creation < MaxTickets
    /\ inFlight' = TRUE /\ issuing' = TRUE
    /\ creation' = creation + 1
    /\ creates' = creates \cup
           {[id |-> creation', by |-> provider, answered |-> FALSE, ticket |-> NoTicket]}
    /\ UNCHANGED <<server, paired, screen, shown, timers, age, provider, profileRead, categories,
                   rendered, printing, limits>>

RenderIssue ==
    /\ rendered # issuing /\ rendered' = issuing
    /\ UNCHANGED <<server, paired, screen, shown, timers, age, provider, profileRead, categories,
                   inFlight, issuing, creates, creation, printing, limits>>

(* core-api issues the ticket, or refuses; the answer may get lost.        *)
CommitCreate(request) ==
    /\ request \in creates /\ ~request.answered
    /\ \E lost \in BOOLEAN :
           /\ issued' = IF restricted THEN issued ELSE issued + 1
           /\ IF lost THEN Fault ELSE UNCHANGED kioskFaults
           /\ creates' = (creates \ {request}) \cup
                  {[request EXCEPT !.answered = TRUE,
                                    !.ticket = IF lost \/ restricted THEN NoTicket ELSE issued + 1]}
    /\ UNCHANGED <<mode, restricted, paired, document, creation, printing, reloads, modeChanges>>

(* The rest of choose(): the print is started and not awaited, the result  *)
(* page is shown with its timer; or the page says what went wrong.         *)
NewPrint(by) ==
    [by |-> by, answer |-> "none",
     at |-> IF by = "chrome" THEN "dialog" ELSE IF by = "usb-serial" THEN "ports" ELSE "post",
     excused |-> by = "usb-serial" /\ \E n \in DOMAIN jobs : UsesPort(n)]

Overlapped(by) ==
    [n \in DOMAIN jobs |->
        IF by = "usb-serial" /\ UsesPort(n) THEN [jobs[n] EXCEPT !.excused = TRUE] ELSE jobs[n]]

(* postJson throws unless the answer is there and is of the 2xx.           *)
(* (Mutant: an answer that got lost is taken for one.)                     *)
RefusedByLicence(request) == restricted

Failed(request) == request.ticket = NoTicket

Return(request) ==
    /\ request \in creates /\ request.answered
    /\ creates' = creates \ {request}
    /\ inFlight' = FALSE
    /\ IF Failed(request)
       THEN /\ issuing' = FALSE
            /\ UNCHANGED <<jobs, screen, shown, timers, age, rendered, categories>>
       ELSE /\ jobs' = [n \in DOMAIN jobs \cup {request.ticket} |->
                           IF n = request.ticket THEN NewPrint(request.by)
                           ELSE Overlapped(request.by)[n]]
            /\ IF screen = "notice"
               THEN UNCHANGED <<screen, shown, timers, age, issuing, rendered, categories>>
               ELSE /\ screen' = "result" /\ shown' = request.ticket /\ age' = 0
                    /\ timers' = timers \cup {[ticket |-> request.ticket, left |-> AutoReturn]}
                    /\ issuing' = FALSE /\ rendered' = FALSE /\ categories' = "loading"
    /\ UNCHANGED <<server, paired, provider, profileRead, creation, port, printed, limits>>

(* Unmounting the result page.  (Mutant: the timeout is not cleared.)      *)
LeftArmed == {timer \in timers : timer.left > 0}

AfterCleanup == {}

Select ==
    /\ screen' = "select" /\ shown' = NoTicket /\ timers' = AfterCleanup /\ age' = 0
    /\ UNCHANGED <<server, paired, provider, profileRead, categories, inFlight, issuing, rendered,
                   creates, creation, printing, limits>>

TapDone == screen = "result" /\ Select

Fires == \E timer \in timers : timer.left = 0

ReturnByTimer == screen # "notice" /\ Fires /\ Select

Tick ==
    /\ timers # {} /\ ~Fires
    /\ timers' = {[timer EXCEPT !.left = @ - 1] : timer \in timers}
    /\ age' = IF screen = "result" THEN age + 1 ELSE age
    /\ UNCHANGED <<server, paired, screen, shown, provider, profileRead, categories, inFlight,
                   issuing, rendered, creates, creation, printing, limits>>

(* The operator opens another page, or the browser restarts: all of the    *)
(* document is lost, the serial port is released.                          *)
Reload ==
    /\ reloads < MaxReloads /\ reloads' = reloads + 1
    /\ screen' \in {"select", "setup"}
    /\ shown' = NoTicket /\ timers' = {} /\ age' = 0
    /\ provider' = "chrome" /\ profileRead' = FALSE /\ categories' = "loading"
    /\ inFlight' = FALSE /\ issuing' = FALSE /\ rendered' = FALSE
    /\ creates' = {}
    /\ \/ UNCHANGED issued
       \/ ~restricted /\ (\E request \in creates : ~request.answered) /\ issued' = issued + 1
    /\ jobs' = [n \in DOMAIN jobs |-> IF jobs[n].at = "ended" THEN jobs[n]
                                      ELSE [jobs[n] EXCEPT !.at = "ended", !.excused = TRUE]]
    /\ port' = NoPort
    /\ UNCHANGED <<mode, restricted, paired, creation, printed, kioskFaults, modeChanges>>

(* PrinterSetupPage: the operator grants the port, and goes back.          *)
Pair ==
    /\ screen = "setup" /\ ~paired /\ paired' = TRUE
    /\ UNCHANGED <<server, document, creates, creation, printing, limits>>

LeaveSetup == screen = "setup" /\ Select

ChangeMode ==
    /\ modeChanges < MaxModeChanges /\ modeChanges' = modeChanges + 1
    /\ mode' \in PrinterModes \ {mode}
    /\ UNCHANGED <<restricted, issued, paired, document, creates, creation, printing, kioskFaults,
                   reloads>>

-----------------------------------------------------------------------------
(* The prints.  None rejects: what went wrong is swallowed.                *)
PrintStep == UNCHANGED <<server, paired, document, creates, creation, reloads, modeChanges>>

Ends(n) == [jobs EXCEPT ![n].at = "ended"]
Excused(n, stage) == [jobs EXCEPT ![n].at = stage, ![n].excused = TRUE]

(* Chrome's dialog, which may be blocked.                                  *)
PrintByChrome(n) ==
    /\ JobAt(n, "dialog")
    /\ \/ printed' = printed \cup {n} /\ jobs' = Ends(n) /\ UNCHANGED kioskFaults
       \/ Fault /\ jobs' = Excused(n, "ended") /\ UNCHANGED printed
    /\ UNCHANGED port /\ PrintStep

(* PrintTicketUseCase: only while the stored mode is that of the network.  *)
Post(n) ==
    /\ JobAt(n, "post")
    /\ jobs' = IF mode = "network-escpos" THEN [jobs EXCEPT ![n].at = "connect"]
               ELSE [Excused(n, "ended") EXCEPT ![n].answer = "409"]
    /\ UNCHANGED <<port, printed, kioskFaults>> /\ PrintStep

(* EscPosPrinterDriver.send: connect, write, half-close; the printer's     *)
(* close or the callback of the half-close resolves.                       *)
Connect(n) ==
    /\ JobAt(n, "connect")
    /\ jobs' = [jobs EXCEPT ![n].at = "flush"]
    /\ UNCHANGED <<port, printed, kioskFaults>> /\ PrintStep

Flush(n) ==
    /\ JobAt(n, "flush")
    /\ jobs' = [jobs EXCEPT ![n].at = "close"]
    /\ printed' = printed \cup {n}
    /\ UNCHANGED <<port, kioskFaults>> /\ PrintStep

CloseSocket(n) ==
    /\ JobAt(n, "close")
    /\ jobs' = [Ends(n) EXCEPT ![n].answer = "204"]
    /\ UNCHANGED <<port, printed, kioskFaults>> /\ PrintStep

(* An error of the socket, or the timer, which covers the whole send.      *)
(* (Mutant: the timer resolves.)                                           *)
TimerResolves == "204"

TimedOut == "502"

SocketFails(n) ==
    /\ n \in DOMAIN jobs /\ jobs[n].at \in {"connect", "flush", "close"} /\ Fault
    /\ jobs' = [Excused(n, "ended") EXCEPT ![n].answer = TimedOut]
    /\ UNCHANGED <<port, printed>> /\ PrintStep

(* UsbSerialPrintProvider: open() rejects while the port is open.          *)
GetPorts(n) ==
    /\ JobAt(n, "ports")
    /\ jobs' = IF paired THEN [jobs EXCEPT ![n].at = "open"] ELSE Excused(n, "ended")
    /\ UNCHANGED <<port, printed, kioskFaults>> /\ PrintStep

OpenPort(n) ==
    /\ JobAt(n, "open")
    /\ \/ /\ port = NoPort /\ port' = n
          /\ jobs' = [jobs EXCEPT ![n].at = "write"] /\ UNCHANGED kioskFaults
       \/ port # NoPort /\ jobs' = Ends(n) /\ UNCHANGED <<port, kioskFaults>>
       \/ Fault /\ jobs' = Excused(n, "ended") /\ UNCHANGED port
    /\ UNCHANGED printed /\ PrintStep

(* The writer is released and the port closed in finally blocks.           *)
(* (Mutant: after a write that failed the port is left open.)              *)
LeftOpen(n) == "ended"

AfterFailedWrite(n) == "release"

WriteToPort(n) ==
    /\ JobAt(n, "write")
    /\ \/ /\ printed' = printed \cup {n}
          /\ jobs' = [jobs EXCEPT ![n].at = "release"] /\ UNCHANGED kioskFaults
       \/ Fault /\ jobs' = Excused(n, AfterFailedWrite(n)) /\ UNCHANGED printed
    /\ UNCHANGED port /\ PrintStep

ClosePort(n) ==
    /\ JobAt(n, "release")
    /\ port' = NoPort /\ jobs' = Ends(n)
    /\ UNCHANGED <<printed, kioskFaults>> /\ PrintStep

-----------------------------------------------------------------------------
KioskInit ==
    /\ mode \in PrinterModes /\ restricted \in BOOLEAN /\ issued = 0 /\ paired \in BOOLEAN
    /\ screen = "select" /\ shown = NoTicket /\ timers = {} /\ age = 0
    /\ provider = "chrome" /\ profileRead = FALSE /\ categories = "loading"
    /\ inFlight = FALSE /\ issuing = FALSE /\ rendered = FALSE
    /\ creates = {} /\ creation = 0 /\ jobs = <<>> /\ port = NoPort /\ printed = {}
    /\ kioskFaults = 0 /\ reloads = 0 /\ modeChanges = 0

PrintNext(n) ==
    \/ PrintByChrome(n) \/ Post(n) \/ Connect(n) \/ Flush(n) \/ CloseSocket(n) \/ SocketFails(n)
    \/ GetPorts(n) \/ OpenPort(n) \/ WriteToPort(n) \/ ClosePort(n)

KioskNext ==
    \/ ReadProfile \/ LoadCategories \/ Choose \/ RenderIssue
    \/ \E request \in creates : CommitCreate(request) \/ Return(request)
    \/ TapDone \/ ReturnByTimer \/ Tick \/ Reload \/ Pair \/ LeaveSetup \/ ChangeMode
    \/ \E n \in DOMAIN jobs : PrintNext(n)

KioskSpec == KioskInit /\ [][KioskNext]_kioskVars

-----------------------------------------------------------------------------
(* However fast a visitor taps, one ticket is asked for at a time          *)
(* ("Hard double-tap guard", CategorySelectPage).                          *)
OneCreateInFlight == Cardinality(creates) <= 1

(* The timer of one ticket never takes another off the screen: when it     *)
(* fires, the ticket shown has been there for all of AUTO_RETURN_MS        *)
(* ("a manual return never races the timer", TicketResultPage).            *)
TicketShownLongEnough == [][ReturnByTimer => shown # NoTicket /\ age = AutoReturn]_kioskVars

(* A print that nothing was in the way of has printed: no failed print     *)
(* leaves the port open for those that follow ("self-healing per print",   *)
(* UsbSerialPrintProvider).                                                *)
EveryTicketPrinted ==
    \A n \in DOMAIN jobs : jobs[n].at = "ended" /\ ~jobs[n].excused => n \in printed

(* core-api answers 204 only for a receipt that was written                *)
(* (EscPosPrinterDriver.send).                                             *)
SuccessMeansPrinted == \A n \in DOMAIN jobs : jobs[n].answer = "204" => n \in printed

KioskTypeOK ==
    /\ mode \in PrinterModes /\ provider \in PrinterModes
    /\ {restricted, paired, profileRead, inFlight, issuing, rendered} \subseteq BOOLEAN
    /\ screen \in {"select", "result", "setup", "notice"} /\ shown \in Tickets \cup {NoTicket}
    /\ screen = "result" => shown # NoTicket
    /\ issued <= creation /\ creation \in 0 .. MaxTickets
    /\ timers \subseteq [ticket : Tickets, left : 0 .. AutoReturn] /\ age \in 0 .. AutoReturn
    /\ categories \in {"loading", "loaded", "error"}
    /\ creates \subseteq CreateRequest
    /\ \A n \in DOMAIN jobs : n \in Tickets /\ jobs[n] \in Job
    /\ port \in DOMAIN jobs \cup {NoPort} /\ printed \subseteq DOMAIN jobs

(* One ticket per visitor, and one receipt per ticket unless a fault of    *)
(* that very print was in the way.                                         *)
KioskIsConsistent == KioskTypeOK /\ OneCreateInFlight /\ EveryTicketPrinted /\ SuccessMeansPrinted
===============================================================================
