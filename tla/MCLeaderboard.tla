--------------------------- MODULE MCLeaderboard ---------------------------
(* Small instances of Leaderboard for TLC. *)
EXTENDS Leaderboard

\* Values, with one that is no time.
Numbers == {-1, 1, 2}

\* What an UpdateStats writes: the time alone, or the time and then its tag.
TimeAlone  == {<< <<"time", "all">> >>}
TimeAndTag == {<< <<"time", "week">>, <<"tag", "week">> >>}

\* Requests for one owner, and for a persona and a player together.
OwnersSingle == {<<o>> : o \in Personas \cup Players}
OwnersMixed  == {<<p>> : p \in Personas} \cup (Personas \X Players)

\* Connections, personas and players are interchangeable.
Symmetry == Permutations(Writers) \cup Permutations(Readers)
              \cup Permutations(Personas) \cup Permutations(Players)
=============================================================================
