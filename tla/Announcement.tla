----------------------------- MODULE Announcement -----------------------------
(***************************************************************************)
(* What the tts-service says for a called ticket: numbers and letters in   *)
(* Indonesian, the sentence cut into segments, and the clip made of them.  *)
(* A phrase is a sequence of words.                                        *)
(***************************************************************************)
EXTENDS Integers, SequencesExt

CONSTANTS
    SpokenNumbers,      \* the numbers, tickets and gaps the properties
    SpokenTickets,      \* below speak of
    SpokenGaps

-----------------------------------------------------------------------------
(* indonesian_number.py *)

Units == <<"nol", "satu", "dua", "tiga", "empat", "lima", "enam", "tujuh", "delapan", "sembilan">>
Unit(digit) == Units[digit + 1]

Scales == << [value |-> 1000000000, one |-> "semiliar", many |-> "miliar"],
             [value |-> 1000000, one |-> "sejuta", many |-> "juta"],
             [value |-> 1000, one |-> "seribu", many |-> "ribu"],
             [value |-> 100, one |-> "seratus", many |-> "ratus"] >>

(* The first scale the number reaches.  (Mutant: the one it exceeds.)      *)
ScaleExceeded(number) ==
    IF number <= 100 THEN Scales[4] ELSE SelectSeq(Scales, LAMBDA scale : number > scale.value)[1]

ScaleOf(number) == SelectSeq(Scales, LAMBDA scale : number >= scale.value)[1]

Below20(number) ==
    IF number < 10 THEN <<Unit(number)>>
    ELSE IF number = 10 THEN <<"sepuluh">>
    ELSE IF number = 11 THEN <<"sebelas">>
    ELSE <<Unit(number - 10), "belas">>

NumberToWords[number \in Nat] ==
    LET scale == ScaleOf(number)
        AndThen(rest) == IF rest = 0 THEN <<>> ELSE NumberToWords[rest]
    IN  IF number < 20 THEN Below20(number)
        ELSE IF number < 100
        THEN <<Unit(number \div 10), "puluh">> \o AndThen(number % 10)
        ELSE (IF number \div scale.value = 1
              THEN <<scale.one>>
              ELSE NumberToWords[number \div scale.value] \o <<scale.many>>)
             \o AndThen(number % scale.value)

(* The names of the letters that have one.                                 *)
LetterNames ==
    [A |-> "a", B |-> "be", C |-> "ce", D |-> "de", E |-> "e", F |-> "ef", G |-> "ge", H |-> "ha",
     I |-> "i", J |-> "je", K |-> "ka", L |-> "el", M |-> "em", N |-> "en", O |-> "o", P |-> "pe",
     Q |-> "ki", R |-> "er", S |-> "es", T |-> "te", U |-> "u", V |-> "fe", W |-> "we", X |-> "eks",
     Y |-> "ye", Z |-> "zet"]

LettersToWords(code) ==
    LET named == SelectSeq(code, LAMBDA letter : letter \in DOMAIN LetterNames)
    IN  [i \in DOMAIN named |-> LetterNames[named[i]]]

-----------------------------------------------------------------------------
(* announcement.py: a ticket is its letters and its number, -1 when what   *)
(* follows the dash is none.                                               *)
TicketWords(ticket) ==
    LettersToWords(ticket.code)
        \o (IF ticket.number >= 0 THEN NumberToWords[ticket.number] ELSE <<>>)

IsSayable(ticket) == LettersToWords(ticket.code) # <<>>

Segments(ticket, counter) ==
    << <<"nomor", "antrian">>, TicketWords(ticket),
       <<"silakan", "ke", "loket">>, NumberToWords[counter] >>

(* (Mutant: the number is cut off its letters.)                            *)
SegmentsPerNumber(ticket, counter) ==
    << <<"nomor", "antrian">> \o LettersToWords(ticket.code),
       IF ticket.number >= 0 THEN NumberToWords[ticket.number] ELSE <<>>,
       <<"silakan", "ke", "loket">>, NumberToWords[counter] >>

BuildScript(ticket, counter) == Segments(ticket, counter)

(* _render: the segments apart when a gap is wanted, else the sentence.    *)
Utterances(segments, gap) == IF gap > 0 THEN segments ELSE <<FlattenSeq(segments)>>

(* _join_speech: a silence after each part but the last, then the bell     *)
(* before it all.  (Mutant: after each part.)                              *)
Silence(gap) == [silence |-> gap]
Said(phrase) == [i \in DOMAIN phrase |-> [word |-> phrase[i]]]

JoinAll(parts, gap) ==
    FlattenSeq([i \in DOMAIN parts |-> Said(parts[i]) \o <<Silence(gap)>>])

Join(parts, gap) ==
    FlattenSeq([i \in DOMAIN parts |->
        IF i = Len(parts) THEN Said(parts[i]) ELSE Said(parts[i]) \o <<Silence(gap)>>])

BuildClip(ticket, counter, gap) ==
    <<[word |-> "bell"]>> \o Join(Utterances(BuildScript(ticket, counter), gap), gap)

-----------------------------------------------------------------------------
(* Every number is spelled as its groups of three digits are: hundreds,    *)
(* tens, units, and the name of the group, with se- for a single one.      *)
HundredsAndTens(group) ==
    LET hundreds == group \div 100
        rest == group % 100
    IN  (IF hundreds = 0 THEN <<>>
         ELSE IF hundreds = 1 THEN <<"seratus">> ELSE <<Unit(hundreds), "ratus">>)
        \o (IF rest = 0 THEN <<>>
            ELSE IF rest < 20 THEN Below20(rest)
            ELSE <<Unit(rest \div 10), "puluh">>
                 \o (IF rest % 10 = 0 THEN <<>> ELSE <<Unit(rest % 10)>>))

GroupName(group, one, many) ==
    IF group = 0 THEN <<>> ELSE IF group = 1 THEN <<one>> ELSE HundredsAndTens(group) \o <<many>>

NumbersAreSpelled ==
    \A number \in SpokenNumbers :
        NumberToWords[number] =
            IF number = 0 THEN <<"nol">>
            ELSE GroupName(number \div 1000000000, "semiliar", "miliar")
                 \o GroupName((number \div 1000000) % 1000, "sejuta", "juta")
                 \o GroupName((number \div 1000) % 1000, "seribu", "ribu")
                 \o HundredsAndTens(number % 1000)

(* However the sentence is cut, the clip says the same words, and holds    *)
(* its pauses right before the ticket, the destination and the counter,    *)
(* never inside a number and never at the end.                             *)
IsWord(sound) == "word" \in DOMAIN sound

ClipSaysTheTicket ==
    \A ticket \in SpokenTickets, gap \in SpokenGaps, counter \in {1, 12} :
        IsSayable(ticket) =>
            LET clip == BuildClip(ticket, counter, gap)
                words == SelectSeq(clip, IsWord)
                said == <<"bell", "nomor", "antrian">> \o TicketWords(ticket)
                            \o <<"silakan", "ke", "loket">> \o NumberToWords[counter]
                pauses == {i \in DOMAIN clip : ~IsWord(clip[i])}
                before(n) == 3 + n + Len(TicketWords(ticket))
            IN  /\ [i \in DOMAIN words |-> words[i].word] = said
                /\ pauses = IF gap > 0 THEN {4, before(2), before(6)} ELSE {}
===============================================================================
