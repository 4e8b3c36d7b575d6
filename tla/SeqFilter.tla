------------------------------ MODULE SeqFilter ------------------------------
(***************************************************************************)
(* The loop over an array that keeps some of its elements, in their order: *)
(* how image.c and scheduler.c drop entries.  A recursive function takes   *)
(* the place of SelectSeq, of which the provers know nothing.              *)
(***************************************************************************)
EXTENDS Naturals, Sequences

(* The elements of s at the places in S. *)
Filter(s, S) ==
    LET kept[k \in 0 .. Len(s)] ==
            IF k = 0 THEN <<>>
            ELSE IF k \in S THEN Append(kept[k - 1], s[k]) ELSE kept[k - 1]
    IN  kept[Len(s)]

=============================================================================
