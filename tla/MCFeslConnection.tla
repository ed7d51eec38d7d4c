-------------------------- MODULE MCFeslConnection --------------------------
(* A small instance of FeslConnection for TLC. *)
EXTENDS FeslConnection

Good(kind, n) == [kind |-> kind, len |-> n, claims |-> n]
Bad == [kind |-> "request", len |-> 3, claims |-> 1]

\* Every sequence of up to three packets of these lengths and kinds.
Some == {Good("request", 2), Good("request", 3), Good("memcheck", 3), Bad}
AllStreams == UNION {[1 .. n -> Some] : n \in 1 .. 3}
=============================================================================
