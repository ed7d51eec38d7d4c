------------------------------ MODULE Identity ------------------------------
(***************************************************************************)
(* What the account service promises, without tables, rowids, tokens,      *)
(* hashes or statements: an account name is created once and keeps its     *)
(* password, a persona name is claimed once and for all by the account     *)
(* that is logged in, and a connection plays only as a persona that its    *)
(* present account owns.  Each of these happens in one step.  Accounts     *)
(* implements this specification.                                          *)
(***************************************************************************)
CONSTANTS Sessions, Nuids, Passwords, Names, None

VARIABLES credential, \* pairs <<nuid, password>>
          owner,      \* pairs <<name, nuid>>
          who,        \* the account each connection is logged in as, or None
          playing     \* the persona each connection has logged in, or None

ivars == <<credential, owner, who, playing>>

Init ==
  /\ credential \in {{}} \cup {{<<n, p>>} : n \in Nuids, p \in Passwords}
  /\ owner = {}
  /\ who = [s \in Sessions |-> None]
  /\ playing = [s \in Sessions |-> None]

CreateAccount(n, p) ==
  /\ \A q \in Passwords : <<n, q>> \notin credential
  /\ credential' = credential \cup {<<n, p>>}
  /\ UNCHANGED <<owner, who, playing>>

LogIn(s, n) ==
  /\ \E p \in Passwords : <<n, p>> \in credential
  /\ who' = [who EXCEPT ![s] = n]
  /\ UNCHANGED <<credential, owner, playing>>

ClaimName(s, m) ==
  /\ who[s] # None
  /\ \A n \in Nuids : <<m, n>> \notin owner
  /\ owner' = owner \cup {<<m, who[s]>>}
  /\ UNCHANGED <<credential, who, playing>>

Play(s, m) ==
  /\ <<m, who[s]>> \in owner
  /\ playing' = [playing EXCEPT ![s] = m]
  /\ UNCHANGED <<credential, owner, who>>

\* The connections in S end: one is closed, or the server restarts.
End(S) ==
  /\ who' = [s \in Sessions |-> IF s \in S THEN None ELSE who[s]]
  /\ playing' = [s \in Sessions |-> IF s \in S THEN None ELSE playing[s]]
  /\ UNCHANGED <<credential, owner>>

Next ==
  \/ \E n \in Nuids, p \in Passwords : CreateAccount(n, p)
  \/ \E s \in Sessions :
       \/ \E n \in Nuids : LogIn(s, n)
       \/ \E m \in Names : ClaimName(s, m) \/ Play(s, m)
       \/ End({s})
  \/ End(Sessions)

Spec == Init /\ [][Next]_ivars
=============================================================================
