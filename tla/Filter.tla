--------------------------------- MODULE Filter ---------------------------------
(***************************************************************************)
(* Array.prototype.filter, the test given as the set of the elements that  *)
(* pass: the places of those elements, walked upwards.  Said so that what  *)
(* it yields can be proved, which SelectSeq's recursion rules out.         *)
(***************************************************************************)
EXTENDS Integers, Sequences, FiniteSets

Places(seq, S) == {i \in DOMAIN seq : seq[i] \in S}

Ascending(places) ==
    {walk \in [1 .. Cardinality(places) -> places] :
        \A i, j \in 1 .. Cardinality(places) : i < j => walk[i] < walk[j]}

Kept(seq, S) ==
    LET walk == CHOOSE walk \in Ascending(Places(seq, S)) : TRUE
    IN  [i \in 1 .. Cardinality(Places(seq, S)) |-> seq[walk[i]]]
===============================================================================
