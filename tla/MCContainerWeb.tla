--------------------------- MODULE MCContainerWeb ---------------------------
(* ContainerWeb on small instances. *)
EXTENDS ContainerWeb, TLC

(* Pids are only compared with each other. *)
PidSymmetry == Permutations(Pids)
=============================================================================
