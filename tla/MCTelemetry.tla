---------------------------- MODULE MCTelemetry -----------------------------
(* Telemetry on small instances. *)
EXTENDS Telemetry, TLC

(* Containers and threads are only compared with each other. *)
Symmetry == Permutations(Ids) \cup Permutations(Web)
=============================================================================
