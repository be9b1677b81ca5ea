------------------------------ MODULE SurfacesMC ------------------------------
(***************************************************************************)
(* What visitors hear, take and see: the announcements, the kiosk with its *)
(* printer and the layout of the TV board, each by itself: the initial     *)
(* state says which of them runs.                                          *)
(***************************************************************************)
EXTENDS Synthesis, Announcement, Kiosk, Receipt, TvLayout, TLC

VARIABLE surface

surfacesVars == <<surface, synthesisVars, kioskVars, layoutVars>>

SymmetryMC == Permutations(Threads)

-----------------------------------------------------------------------------
SpokenNumbersMC ==
    (0 .. 2200)
    \cup UNION {{k - 1, k, k + 1, k + 12, 11 * k, 101 * k} :
                   k \in {10000, 100000, 1000000, 10000000}}
    \cup {1000000000, 1000000001, 1999999999, 2000000011, 2147483647}
SpokenTicketsMC ==
    [code : {<<"A">>, <<"B", "C">>, <<"?">>, <<"A", "?">>}, number : {-1, 0, 1, 11, 111, 2001}]

RawPrintersMC ==
    [mode : {Absent, Malformed} \cup Modes, paperWidth : {Absent, Malformed, 58, 72, 80},
     cutMode : {Absent, Malformed} \cup CutModes, host : {Absent, Malformed} \cup Hosts,
     port : {Absent, Malformed, 0, 1, 9100, 65535, 65536},
     baudRate : {Absent, Malformed, 0, 1, 9600, 19200}]
StoreNamesMC ==
    UNION {[words : [1 .. n -> 1 .. 7], gaps : [1 .. n - 1 -> 1 .. 2]] : n \in 1 .. 3}
        \cup [words : [1 .. 4 -> 1 .. 3], gaps : [1 .. 3 -> {1}]]

WidgetSizeMC == [wide |-> [w |-> 2, h |-> 1], small |-> [w |-> 1, h |-> 1]]
DefaultLayoutMC ==
    [a |-> [id |-> "a", component |-> "wide", x |-> 0, y |-> 0, w |-> 2, h |-> 1],
     b |-> [id |-> "b", component |-> "small", x |-> 0, y |-> 1, w |-> 1, h |-> 1]]
RawWidgets ==
    [id : {"a", "b"}, component : {"small", "poster"}, x : -1 .. 3, y : 0 .. 2, w : 0 .. 4, h : 0 .. 3]
RawLayoutsMC ==
    {<<>>} \cup [1 .. 1 -> RawWidgets]
    \cup {<<[id |-> "a", component |-> "small", x |-> 0, y |-> 1, w |-> 2, h |-> 1], widget>> :
             widget \in RawWidgets}

-----------------------------------------------------------------------------
(* The surfaces that do not run stay in one of their initial states.       *)
AtRest ==
    /\ surface # "synthesis" => stored = Fallback
    /\ surface # "kiosk" => mode = "chrome" /\ ~restricted /\ ~paired

SurfacesInit ==
    /\ surface \in {"synthesis", "kiosk", "layout"}
    /\ SynthesisInit /\ KioskInit /\ LayoutInit
    /\ AtRest

SurfacesNext ==
    /\ UNCHANGED surface
    /\ \/ surface = "synthesis" /\ SynthesisNext /\ UNCHANGED <<kioskVars, layoutVars>>
       \/ surface = "kiosk" /\ KioskNext /\ UNCHANGED <<synthesisVars, layoutVars>>
       \/ surface = "layout" /\ LayoutNext /\ UNCHANGED <<synthesisVars, kioskVars>>

SurfacesSpec == SurfacesInit /\ [][SurfacesNext]_surfacesVars

(* The pure parts, against what they should be.                            *)
ReferencesAgree ==
    surface = "synthesis" =>
        /\ NumbersAreSpelled /\ ClipSaysTheTicket
        /\ PrinterIsUnderstood /\ HeaderFits
        /\ GrammarsAgree
===============================================================================
