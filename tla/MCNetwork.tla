----------------------------- MODULE MCNetwork ------------------------------
(* Network on small instances. *)
EXTENDS Network, TLC

(* No ports, and two after one that is out of range. *)
SmallTexts == {<<>>, <<0, 1, 2>>}
=============================================================================
