---------------------------- MODULE Associations ----------------------------
(***************************************************************************)
(* Friend lists of the FESL server: AddAssociations and DeleteAssociations *)
(* of server/fesl/associations.go over the table friends.                  *)
(*                                                                         *)
(* A request carries a batch.  Each entry is validated (two SELECTs) and   *)
(* applied (one INSERT OR IGNORE or DELETE) before the next one is looked  *)
(* at; the answer is then put together from further SELECTs.  There is no  *)
(* transaction: statements of several connections interleave, and when one *)
(* fails the answer is errorCode 1 although a prefix of the batch, or all  *)
(* of it, has been applied.                                                *)
(*                                                                         *)
(* Persona ids and account ids are both small rowids, so an owner.id that  *)
(* equals the connection's account id stands for its persona, even when it *)
(* is also the id of somebody else's persona.  One association type is     *)
(* modelled: the type is constant in a request and a key of every row.     *)
(***************************************************************************)
EXTENDS Naturals, Sequences, FiniteSets

CONSTANTS Sessions,      \* connections
          MaxPersona,    \* bound: personas that are ever created, 1 .. MaxPersona
          AccountIds,    \* ids of accounts; they overlap the ids of personas
          HistoricalIds, \* ids from HistoricalOwnerOffset on
          WireOwners,    \* owner.id of the entries clients send
          WireMembers,   \* member.id of the entries clients send
          MaxBatch       \* bound: entries of one request

ASSUME IdsAssumption ==
  /\ MaxPersona \in Nat /\ MaxBatch \in Nat \ {0}
  /\ AccountIds \subseteq Nat \ {0} /\ HistoricalIds \subseteq Nat
  /\ WireOwners \subseteq Nat /\ WireMembers \subseteq Nat
  /\ \A h \in HistoricalIds : h > MaxPersona

VARIABLES personas,  \* ids with a row in table personas
          friends,   \* table friends: <<persona_id, friend_persona_id>>
          accountID, \* Session.accountID
          personaID, \* Session.personaID
          pc,        \* next statement of the connection's handler
          txn,       \* the transaction of the request
          entries,   \* the entries of the request still to be handled
          standing   \* rows <<owner, member>> with outcome "0" in this request
                     \* that no other request has reversed since

vars == <<personas, friends, accountID, personaID, pc, txn, entries, standing>>

PersonaIds == 1 .. MaxPersona
Entry      == [owner : WireOwners, member : WireMembers]
Batches(n) == [1 .. n -> Entry]
Txns       == {"AddAssociations", "DeleteAssociations"}

Statements == {"ownerExists", "memberExists", "apply", "respond"}

-----------------------------------------------------------------------------
(* What the handler computes from an entry *)

\* normalizeAssociationOwnerID
NormalizeOwner(s, id) ==
  IF id = 0 \/ (personaID[s] # 0 /\ accountID[s] # 0 /\ id = accountID[s])
    THEN personaID[s] ELSE id

Current(s) == Head(entries[s])
OwnerID(s) == NormalizeOwner(s, Current(s).owner)
Pair(s)    == <<OwnerID(s), Current(s).member>>

\* Deviation: a persona may act for any list.
Admissible_AnyOwner(s) ==
  /\ OwnerID(s) # 0 /\ Current(s).member # 0
  /\ ~(txn[s] = "AddAssociations" /\ OwnerID(s) = Current(s).member)
  /\ OwnerID(s) \notin HistoricalIds /\ Current(s).member \notin HistoricalIds

\* The checks of validateAssociationRequest that need no database.
Admissible(s) ==
  /\ OwnerID(s) # 0 /\ Current(s).member # 0
  /\ ~(txn[s] = "AddAssociations" /\ OwnerID(s) = Current(s).member)
  /\ OwnerID(s) \notin HistoricalIds /\ Current(s).member \notin HistoricalIds
  /\ personaID[s] # 0 => OwnerID(s) = personaID[s]

-----------------------------------------------------------------------------
Goto(s, statement) == pc' = [pc EXCEPT ![s] = statement]

Answer(s) ==
  /\ Goto(s, "idle")
  /\ txn' = [txn EXCEPT ![s] = "None"]
  /\ entries' = [entries EXCEPT ![s] = <<>>]
  /\ standing' = [standing EXCEPT ![s] = {}]

\* The loop goes on with the entries that remain, or to the answer.
Loop(s, rest) ==
  /\ entries' = [entries EXCEPT ![s] = rest]
  /\ Goto(s, IF rest = <<>> THEN "respond" ELSE "ownerExists")

MutateAssociations(s) ==
  /\ pc[s] = "idle"
  /\ \E t \in Txns : txn' = [txn EXCEPT ![s] = t]
  /\ \E n \in 0 .. MaxBatch : \E b \in Batches(n) : Loop(s, b)
  /\ UNCHANGED <<personas, friends, accountID, personaID, standing>>

\* Outcome "1": the entry changes nothing and the loop goes on.
Refuse(s) ==
  /\ Loop(s, Tail(entries[s]))
  /\ UNCHANGED standing

\* Deviation: the existence of the owner is taken for granted.
OwnerExists_Skipped(s) ==
  /\ pc[s] = "ownerExists"
  /\ \/ Admissible(s) /\ Goto(s, "memberExists") /\ UNCHANGED <<entries, standing>>
     \/ ~Admissible(s) /\ Refuse(s)
  /\ UNCHANGED <<personas, friends, accountID, personaID, txn>>

\* PersonaExists(ownerID), after the checks that need no database.
OwnerExists(s) ==
  /\ pc[s] = "ownerExists"
  /\ \/ /\ Admissible(s) /\ OwnerID(s) \in personas
        /\ Goto(s, "memberExists")
        /\ UNCHANGED <<entries, standing>>
     \/ /\ ~Admissible(s) \/ OwnerID(s) \notin personas
        /\ Refuse(s)
  /\ UNCHANGED <<personas, friends, accountID, personaID, txn>>

MemberExists(s) ==
  /\ pc[s] = "memberExists"
  /\ \/ /\ Current(s).member \in personas
        /\ Goto(s, "apply")
        /\ UNCHANGED <<entries, standing>>
     \/ /\ Current(s).member \notin personas
        /\ Refuse(s)
  /\ UNCHANGED <<personas, friends, accountID, personaID, txn>>

\* The row is what this request asked for, and no longer what requests of the
\* other kind did.
Stands(s, row) ==
  standing' = [r \in Sessions |-> IF r = s THEN standing[r] \cup {row}
                                  ELSE IF txn[r] # txn[s] THEN standing[r] \ {row}
                                  ELSE standing[r]]

\* Deviation: the row is written for the owner.id of the wire.
Apply_WireOwner(s) ==
  /\ pc[s] = "apply"
  /\ LET row == <<Current(s).owner, Current(s).member>>
     IN  friends' = IF txn[s] = "AddAssociations" THEN friends \cup {row}
                                                  ELSE friends \ {row}
  /\ Stands(s, Pair(s))
  /\ Loop(s, Tail(entries[s]))
  /\ UNCHANGED <<personas, accountID, personaID, txn>>

\* AddAssociation or DeleteAssociation; outcome "0".
Apply(s) ==
  /\ pc[s] = "apply"
  /\ friends' = IF txn[s] = "AddAssociations" THEN friends \cup {Pair(s)}
                                              ELSE friends \ {Pair(s)}
  /\ Stands(s, Pair(s))
  /\ Loop(s, Tail(entries[s]))
  /\ UNCHANGED <<personas, accountID, personaID, txn>>

\* The SELECTs of associationMutationResponse and emitAssociationResult (list
\* sizes, names, the member list), and the answer.
Respond(s) ==
  /\ pc[s] = "respond"
  /\ Answer(s)
  /\ UNCHANGED <<personas, friends, accountID, personaID>>

StatementFails(s) ==
  /\ pc[s] \in Statements
  /\ Answer(s)
  /\ UNCHANGED <<personas, friends, accountID, personaID>>

-----------------------------------------------------------------------------
(* The rest of the server, as far as friend lists depend on it *)

\* NuLogin and NuLoginPersona of the module Accounts: the persona exists.
LogIn(s) ==
  /\ pc[s] = "idle"
  /\ \E a \in AccountIds, p \in personas :
       /\ accountID' = [accountID EXCEPT ![s] = a]
       /\ personaID' = [personaID EXCEPT ![s] = p]
  /\ UNCHANGED <<personas, friends, pc, txn, entries, standing>>

\* A new connection takes the place of an idle one.
Reconnect(s) ==
  /\ pc[s] = "idle"
  /\ accountID' = [accountID EXCEPT ![s] = 0]
  /\ personaID' = [personaID EXCEPT ![s] = 0]
  /\ UNCHANGED <<personas, friends, pc, txn, entries, standing>>

\* Personas get consecutive rowids and are never deleted.
CreatePersona ==
  /\ Cardinality(personas) < MaxPersona
  /\ personas' = personas \cup {Cardinality(personas) + 1}
  /\ UNCHANGED <<friends, accountID, personaID, pc, txn, entries, standing>>

-----------------------------------------------------------------------------
Init ==
  /\ personas = {}
  /\ friends = {}
  /\ accountID = [s \in Sessions |-> 0]
  /\ personaID = [s \in Sessions |-> 0]
  /\ pc = [s \in Sessions |-> "idle"]
  /\ txn = [s \in Sessions |-> "None"]
  /\ entries = [s \in Sessions |-> <<>>]
  /\ standing = [s \in Sessions |-> {}]

HandlerStep(s) ==
  \/ OwnerExists(s) \/ MemberExists(s) \/ Apply(s)
  \/ Respond(s) \/ StatementFails(s)

Next ==
  \/ CreatePersona
  \/ \E s \in Sessions : LogIn(s) \/ Reconnect(s) \/ MutateAssociations(s) \/ HandlerStep(s)

Spec == Init /\ [][Next]_vars
-----------------------------------------------------------------------------
(* Properties *)

\* The foreign keys of the table friends hold although SQLite is not made to
\* enforce them on every pooled connection, nobody is his own friend and no
\* imported player is in a list: what was checked two statements before a row
\* is written still holds when it is written.
FriendsValid ==
  \A f \in friends : /\ f[1] \in personas /\ f[2] \in personas
                     /\ f[1] # f[2]

\* A connection that plays as a persona changes the list of that persona only,
\* whatever owner ids (its account's id among them) its entries carry.  One that
\* plays as none passes that check and may change any list.
OnlyOwnList ==
  [][\A s \in Sessions :
       pc[s] = "apply" /\ pc'[s] # "apply" /\ personaID[s] # 0 =>
         \A f \in (friends \cup friends') \ (friends \cap friends') : f[1] = personaID[s]]_vars

\* Whenever a handler goes on to its next entry or to its answer, every entry
\* it has reported with outcome "0" is in effect, unless another connection has
\* reversed it since: the answer never promises what the table does not hold.
AcceptedEntriesHold ==
  \A s \in Sessions : \A f \in standing[s] : f \in friends <=> txn[s] = "AddAssociations"
=============================================================================
