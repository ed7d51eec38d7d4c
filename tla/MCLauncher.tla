----------------------------- MODULE MCLauncher -----------------------------
(* A small instance of Launcher for TLC. *)
EXTENDS Launcher
=============================================================================
