---------------------------- MODULE MCTickDetour ----------------------------
(* A small instance of TickDetour for TLC. *)
EXTENDS TickDetour
=============================================================================
