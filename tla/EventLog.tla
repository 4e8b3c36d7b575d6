------------------------------ MODULE EventLog ------------------------------
(***************************************************************************)
(* What eventbus.h promises of the bus, without buffer, lock or threads:   *)
(* events are numbered from 0 in the order in which they happen, and the   *)
(* last Keep of them can be looked at.                                     *)
(***************************************************************************)
EXTENDS Naturals, Sequences

CONSTANTS Keep, Emitters

VARIABLES count, recent

Tail_(s) == SubSeq(s, IF Len(s) > Keep THEN Len(s) - Keep + 1 ELSE 1, Len(s))

Init == count = 0 /\ recent = <<>>

Happens(t) ==
    /\ count' = count + 1
    /\ recent' = Tail_(Append(recent, [seq |-> count, by |-> t]))

(* A new session starts from nothing. *)
NewSession == count' = 0 /\ recent' = <<>>

Next == NewSession \/ \E t \in Emitters : Happens(t)

Spec == Init /\ [][Next]_<<count, recent>>
=============================================================================
