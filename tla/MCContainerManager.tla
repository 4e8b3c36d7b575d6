------------------------ MODULE MCContainerManager ------------------------
(* ContainerManager on small instances. *)
EXTENDS ContainerManager, TLC

(* Pids are only compared with each other. *)
PidSymmetry == Permutations(Pids)
=============================================================================
