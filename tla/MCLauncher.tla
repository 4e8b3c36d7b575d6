----------------------------- MODULE MCLauncher -----------------------------
(* Launcher on small instances. *)
EXTENDS Launcher, TLC
=============================================================================
