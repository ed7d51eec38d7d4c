--------------------------- MODULE MCClientStart ---------------------------
(* A small instance of ClientStart for TLC: the patch that needs its         *)
(* trampoline, one that puts other bytes in place, and two threads of the   *)
(* game.                                                                    *)
EXTENDS ClientStart
SomePatches == <<"ProcessEvent", "FeslConnUpdate">>
=============================================================================
