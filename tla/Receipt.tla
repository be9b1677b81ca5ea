-------------------------------- MODULE Receipt --------------------------------
(***************************************************************************)
(* The printer a store configures (PrinterConfiguration.of and what the    *)
(* kiosk makes of it), and the header of the receipt (wrapStoreName).      *)
(***************************************************************************)
EXTENDS Integers, SequencesExt, FiniteSetsExt

CONSTANTS
    Absent, Malformed,          \* a field left out; a value of another type
    RawPrinters,                \* the configurations the properties speak of
    StoreNames, HeaderWidths    \* and the names and widths

-----------------------------------------------------------------------------
(* PrinterConfiguration.of: a field left out has its default, any other    *)
(* value must be one the field can have.                                   *)
Modes == {"chrome", "network-escpos", "usb-serial"}
PaperWidths == {58, 80}
CutModes == {"full", "partial", "none"}
Hosts == {"", " ", "printer.lan"}       \* empty, blank, some host
Ports == 1 .. 65535

OrDefault(value, default) == IF value = Absent THEN default ELSE value

WithDefaults(raw) ==
    [mode |-> OrDefault(raw.mode, "chrome"), paperWidth |-> OrDefault(raw.paperWidth, 80),
     cutMode |-> OrDefault(raw.cutMode, "partial"), host |-> OrDefault(raw.host, ""),
     port |-> OrDefault(raw.port, 9100), baudRate |-> OrDefault(raw.baudRate, 9600)]

IsPositive(value) == value # Malformed /\ value > 0

IsAccepted(raw) ==
    LET given == WithDefaults(raw) IN
        /\ given.mode \in Modes /\ given.paperWidth \in PaperWidths /\ given.cutMode \in CutModes
        /\ given.host \in Hosts /\ given.port # Malformed /\ given.port \in Ports
        /\ IsPositive(given.baudRate)
        /\ given.mode = "network-escpos" => given.host \notin {"", " "}

(* A host belongs to a network printer only.                               *)
PrinterConfiguration(raw) ==
    LET given == WithDefaults(raw) IN
        [given EXCEPT !.host = IF given.mode = "network-escpos" THEN @ ELSE ""]

(* KioskApi.getStoreProfile: what the kiosk does not know is its default.  *)
(* (Mutant: a mode the kiosk was not taught.)                              *)
KnownModesBeforeUsb == {"network-escpos"}

KnownModes == {"network-escpos", "usb-serial"}

KioskPrinter(dto) ==
    [mode |-> IF dto.mode \in KnownModes THEN dto.mode ELSE "chrome",
     paperWidth |-> IF dto.paperWidth = 58 THEN 58 ELSE 80,
     cutMode |-> IF dto.cutMode \in {"full", "none"} THEN dto.cutMode ELSE "partial",
     baudRate |-> IF IsPositive(dto.baudRate) THEN dto.baudRate ELSE 9600]

-----------------------------------------------------------------------------
(* A name that was trimmed: the lengths of its words, and of the runs of   *)
(* blanks between them.  A header: the lengths of its lines, and whether   *)
(* all of its words are on it.                                             *)
SumOf(lengths) == FoldLeft(LAMBDA sum, length : sum + length, 0, lengths)

NameLength(name) == SumOf(name.words) + SumOf(name.gaps)

Joined(words) == SumOf(words) + Len(words) - 1

BreakAfter(name, i) ==
    << Joined(SubSeq(name.words, 1, i)), Joined(SubSeq(name.words, i + 1, Len(name.words))) >>

FittingBreaks(name, cols) ==
    {i \in 1 .. Len(name.words) - 1 : \A length \in ToSet(BreakAfter(name, i)) : length <= cols}

Longer(lines) == IF lines[1] >= lines[2] THEN lines[1] ELSE lines[2]

(* The first break with the shortest longer line.  (Mutant: the break that *)
(* fills the first line.)                                                  *)
FillFirst(name, cols) == Max(FittingBreaks(name, cols))

BestBreak(name, cols) ==
    CHOOSE i \in FittingBreaks(name, cols) :
        \A j \in FittingBreaks(name, cols) :
            \/ Longer(BreakAfter(name, i)) < Longer(BreakAfter(name, j))
            \/ Longer(BreakAfter(name, i)) = Longer(BreakAfter(name, j)) /\ i <= j

(* Lines of the header; a hard break drops what is past the second line.   *)
WrapStoreName(name, cols) ==
    IF NameLength(name) <= cols THEN [lines |-> <<NameLength(name)>>, whole |-> TRUE]
    ELSE IF FittingBreaks(name, cols) # {}
    THEN [lines |-> BreakAfter(name, BestBreak(name, cols)), whole |-> TRUE]
    ELSE [lines |-> <<cols, Min({cols, NameLength(name) - cols})>>, whole |-> FALSE]

ColumnCount(paperWidth) == IF paperWidth = 58 THEN 32 ELSE 48

(* Header lines are of double width.                                       *)
HeaderColumns(paperWidth) == ColumnCount(paperWidth) \div 2

-----------------------------------------------------------------------------
(* Whatever configuration the core API accepts, storing what it made of it *)
(* and reading it again changes nothing, and the kiosk prints with just    *)
(* this printer.                                                           *)
PrinterIsUnderstood ==
    \A raw \in RawPrinters :
        IsAccepted(raw) =>
            LET dto == PrinterConfiguration(raw) IN
                /\ IsAccepted(dto) /\ PrinterConfiguration(dto) = dto
                /\ \A field \in {"mode", "paperWidth", "cutMode", "baudRate"} :
                       KioskPrinter(dto)[field] = dto[field]

(* The header never runs off the paper nor past two lines; a name is cut   *)
(* only when no break between its words fits, and is broken where the      *)
(* longer line is shortest ("keeping the centered header clear of the      *)
(* paper edges").                                                          *)
HeaderFits ==
    \A name \in StoreNames, cols \in HeaderWidths :
        LET header == WrapStoreName(name, cols) IN
            /\ Len(header.lines) <= 2 /\ \A i \in DOMAIN header.lines : header.lines[i] <= cols
            /\ ~header.whole => /\ NameLength(name) > cols
                                /\ \A i \in 1 .. Len(name.words) - 1 : Longer(BreakAfter(name, i)) > cols
            /\ Len(header.lines) = 2 /\ header.whole =>
                   \A i \in 1 .. Len(name.words) - 1 :
                       Longer(header.lines) <= Longer(BreakAfter(name, i))
===============================================================================
