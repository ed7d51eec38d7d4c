----------------------------- MODULE FeslProofs -----------------------------
(***************************************************************************)
(* Theorems about the FESL server's friend lists, Associations, for any    *)
(* number of connections, personas, ids and entries, and about its framing *)
(* of a connection, FeslConnection, for any packets cut anywhere.          *)
(*                                                                         *)
(* What makes the invariants of Associations inductive: what a handler has *)
(* checked of its entry stays true until the row is written, because       *)
(* personas are never deleted and a connection logs in to nothing while it *)
(* is being served.                                                        *)
(***************************************************************************)
EXTENDS Associations, FeslConnection, WellFoundedInduction, TLAPS

-----------------------------------------------------------------------------
(* Associations *)

\* The variables of the handlers are functions of the connection; an idle
\* connection has promised nothing.
Shape ==
  /\ DOMAIN pc = Sessions /\ DOMAIN txn = Sessions
  /\ DOMAIN entries = Sessions /\ DOMAIN standing = Sessions
  /\ DOMAIN accountID = Sessions /\ DOMAIN personaID = Sessions
  /\ \A s \in Sessions : pc[s] = "idle" => standing[s] = {}

\* What is known of the entry of a connection at each statement.
CheckedFor(s) ==
  /\ pc[s] \in {"memberExists", "apply"} => Admissible(s) /\ OwnerID(s) \in personas
  /\ pc[s] = "apply" => Current(s).member \in personas

Checked == \A s \in Sessions : CheckedFor(s)

ListInv == Shape /\ Checked /\ FriendsValid /\ AcceptedEntriesHold

\* What a handler has checked stays true when its connection takes no step.
LEMMA OthersStayChecked ==
  ASSUME NEW r \in Sessions, CheckedFor(r),
         pc'[r] = pc[r], txn'[r] = txn[r], entries'[r] = entries[r],
         accountID'[r] = accountID[r], personaID'[r] = personaID[r],
         personas \subseteq personas'
  PROVE  CheckedFor(r)'
BY DEF CheckedFor, Admissible, OwnerID, NormalizeOwner, Current

\* The end of a request forgets what the request has promised.
LEMMA AnswerKeeps ==
  ASSUME ListInv, NEW s \in Sessions, Answer(s),
         UNCHANGED <<personas, friends, accountID, personaID>>
  PROVE  ListInv'
<1>1. Shape'
  BY DEF ListInv, Shape, Answer, Goto
<1>2. Checked'
  <2> SUFFICES ASSUME NEW r \in Sessions PROVE CheckedFor(r)'
    BY DEF Checked
  <2>1. CASE r = s
    BY <2>1 DEF ListInv, Shape, Answer, Goto, CheckedFor
  <2>2. CASE r # s
    BY <2>2, OthersStayChecked DEF ListInv, Shape, Checked, Answer, Goto
  <2>3. QED
    BY <2>1, <2>2
<1>3. FriendsValid' /\ AcceptedEntriesHold'
  BY DEF ListInv, Shape, FriendsValid, AcceptedEntriesHold, Answer
<1>4. QED
  BY <1>1, <1>2, <1>3 DEF ListInv

\* A step of one handler that writes no row: a check, passed or not.
LEMMA CheckKeeps ==
  ASSUME ListInv, NEW s \in Sessions, pc[s] # "idle",
         OwnerExists(s) \/ MemberExists(s)
  PROVE  ListInv'
<1> USE DEF OwnerExists, MemberExists, Refuse, Loop, Goto
<1>1. Shape'
  BY DEF ListInv, Shape
<1>2. Checked'
  <2> SUFFICES ASSUME NEW r \in Sessions PROVE CheckedFor(r)'
    BY DEF Checked
  <2>1. CASE r = s
    <3>1. CASE entries' = entries
      <4>1. Admissible(s)' = Admissible(s) /\ OwnerID(s)' = OwnerID(s) /\ Current(s)' = Current(s)
        BY <3>1 DEF Admissible, OwnerID, NormalizeOwner, Current
      <4>2. CheckedFor(s)
        BY DEF ListInv, Checked
      <4>3. QED
        BY <2>1, <4>1, <4>2 DEF ListInv, Shape, CheckedFor
    <3>2. CASE pc'[s] \in {"respond", "ownerExists"}
      BY <2>1, <3>2 DEF CheckedFor
    <3>3. QED
      BY <3>1, <3>2 DEF ListInv, Shape
  <2>2. CASE r # s
    BY <2>2, OthersStayChecked DEF ListInv, Shape, Checked
  <2>3. QED
    BY <2>1, <2>2
<1>3. FriendsValid' /\ AcceptedEntriesHold'
  BY DEF ListInv, FriendsValid, AcceptedEntriesHold
<1>4. QED
  BY <1>1, <1>2, <1>3 DEF ListInv

\* The row that is written is of personas that exist, and whoever has promised
\* the opposite of it promises it no more.
LEMMA ApplyKeeps ==
  ASSUME ListInv, NEW s \in Sessions, Apply(s)
  PROVE  ListInv'
<1> DEFINE row == Pair(s)
<1>1. /\ pc[s] = "apply" /\ Admissible(s)
      /\ OwnerID(s) \in personas /\ Current(s).member \in personas
  BY DEF ListInv, Checked, CheckedFor, Apply
<1>2. Shape'
  BY DEF ListInv, Shape, Apply, Stands, Loop, Goto
<1>3. Checked'
  <2> SUFFICES ASSUME NEW r \in Sessions PROVE CheckedFor(r)'
    BY DEF Checked
  <2>1. CASE r = s
    BY <2>1 DEF ListInv, Shape, Apply, Loop, Goto, CheckedFor
  <2>2. CASE r # s
    BY <2>2, OthersStayChecked DEF ListInv, Shape, Checked, Apply, Loop, Goto
  <2>3. QED
    BY <2>1, <2>2
<1>4. FriendsValid'
  <2>1. CASE txn[s] = "AddAssociations"
    <3>1. row[1] = OwnerID(s) /\ row[2] = Current(s).member
      BY DEF Pair
    <3>2. row[1] \in personas /\ row[2] \in personas /\ row[1] # row[2]
      BY <1>1, <2>1, <3>1 DEF Admissible
    <3>3. friends' = friends \cup {row} /\ personas' = personas
      BY <2>1 DEF Apply
    <3>4. QED
      BY <3>2, <3>3 DEF ListInv, FriendsValid
  <2>2. CASE txn[s] # "AddAssociations"
    BY <2>2 DEF Apply, ListInv, FriendsValid
  <2>3. QED
    BY <2>1, <2>2
<1>5. AcceptedEntriesHold'
  <2> SUFFICES ASSUME NEW r \in Sessions, NEW f \in standing'[r]
               PROVE  f \in friends' <=> txn'[r] = "AddAssociations"
    BY DEF AcceptedEntriesHold
  <2>1. txn' = txn /\ (f # row => (f \in friends' <=> f \in friends))
    BY DEF Apply
  <2>2. row \in friends' <=> txn[s] = "AddAssociations"
    BY DEF Apply
  <2>3. CASE f = row
    <3>1. r = s \/ txn[r] = txn[s]
      BY <2>3 DEF Apply, Stands
    <3>2. QED
      BY <2>1, <2>2, <2>3, <3>1
  <2>4. CASE f # row
    <3>1. f \in standing[r]
      BY <2>4 DEF Apply, Stands
    <3>2. QED
      BY <2>1, <2>4, <3>1 DEF ListInv, AcceptedEntriesHold
  <2>5. QED
    BY <2>3, <2>4
<1>6. QED
  BY <1>2, <1>3, <1>4, <1>5 DEF ListInv

\* The steps of connections that are not being served.
LEMMA IdleKeeps ==
  ASSUME ListInv, NEW s \in Sessions, LogIn(s) \/ Reconnect(s) \/ MutateAssociations(s)
  PROVE  ListInv'
<1> USE DEF LogIn, Reconnect, MutateAssociations, Loop, Goto
<1>1. pc[s] = "idle" /\ standing[s] = {} /\ pc'[s] \notin {"memberExists", "apply"}
  BY DEF ListInv, Shape
<1>2. Shape'
  BY <1>1 DEF ListInv, Shape
<1>3. Checked'
  <2> SUFFICES ASSUME NEW r \in Sessions PROVE CheckedFor(r)'
    BY DEF Checked
  <2>1. CASE r = s
    BY <1>1, <2>1 DEF CheckedFor
  <2>2. CASE r # s
    <3>1. accountID'[r] = accountID[r] /\ personaID'[r] = personaID[r]
      BY <2>2 DEF ListInv, Shape
    <3>2. QED
      BY <2>2, <3>1, OthersStayChecked DEF ListInv, Shape, Checked
  <2>3. QED
    BY <2>1, <2>2
<1>4. FriendsValid' /\ AcceptedEntriesHold'
  BY <1>1 DEF ListInv, Shape, FriendsValid, AcceptedEntriesHold
<1>5. QED
  BY <1>2, <1>3, <1>4 DEF ListInv

LEMMA ListInit == Init => ListInv
BY DEF Init, ListInv, Shape, Checked, CheckedFor, FriendsValid, AcceptedEntriesHold

LEMMA ListNext == ASSUME ListInv, [Next]_vars PROVE ListInv'
<1>1. ASSUME NEW s \in Sessions, HandlerStep(s) PROVE ListInv'
  <2>1. CASE OwnerExists(s) \/ MemberExists(s)
    BY <2>1, CheckKeeps DEF OwnerExists, MemberExists
  <2>2. CASE Apply(s)
    BY <2>2, ApplyKeeps
  <2>3. CASE Respond(s) \/ StatementFails(s)
    BY <2>3, AnswerKeeps DEF Respond, StatementFails
  <2>4. QED
    BY <1>1, <2>1, <2>2, <2>3 DEF HandlerStep
<1>2. CASE CreatePersona
  <2>1. Checked'
    BY <1>2, OthersStayChecked DEF CreatePersona, ListInv, Checked
  <2>2. QED
    BY <1>2, <2>1 DEF CreatePersona, ListInv, Shape, FriendsValid, AcceptedEntriesHold
<1>3. CASE UNCHANGED vars
  <2>1. Checked'
    BY <1>3, OthersStayChecked DEF vars, ListInv, Checked
  <2>2. QED
    BY <1>3, <2>1 DEF vars, ListInv, Shape, FriendsValid, AcceptedEntriesHold
<1>4. QED
  BY <1>1, <1>2, <1>3, IdleKeeps DEF Next

LEMMA ListAlways == Spec => []ListInv
BY ListInit, ListNext, PTL DEF Spec

-----------------------------------------------------------------------------
\* However the entries of several connections interleave and fail, a row of the
\* table friends is of two different personas that exist.
THEOREM FriendsAreValid == Spec => []FriendsValid
<1>1. ListInv => FriendsValid
  BY DEF ListInv
<1>2. QED
  BY ListAlways, <1>1, PTL

\* An answer promises only what the table holds, unless another connection has
\* reversed it.
THEOREM AcceptedStands == Spec => []AcceptedEntriesHold
<1>1. ListInv => AcceptedEntriesHold
  BY DEF ListInv
<1>2. QED
  BY ListAlways, <1>1, PTL

\* A connection that plays as a persona changes the list of that persona only.
THEOREM ListsBelongToPersonas == Spec => OnlyOwnList
<1> DEFINE Own == \A s \in Sessions :
                    pc[s] = "apply" /\ pc'[s] # "apply" /\ personaID[s] # 0 =>
                      \A f \in (friends \cup friends') \ (friends \cap friends') : f[1] = personaID[s]
<1>1. ASSUME ListInv, Next PROVE Own
  <2> SUFFICES ASSUME NEW s \in Sessions, pc[s] = "apply", pc'[s] # "apply", personaID[s] # 0,
                      NEW f \in (friends \cup friends') \ (friends \cap friends')
               PROVE  f[1] = personaID[s]
    OBVIOUS
  <2>1. PICK r \in Sessions : Apply(r)
    BY <1>1 DEF Next, CreatePersona, LogIn, Reconnect, MutateAssociations, HandlerStep,
                OwnerExists, MemberExists, Respond, StatementFails
  <2>2. r = s
    BY <1>1, <2>1 DEF ListInv, Shape, Apply, Loop, Goto
  <2>3. f = Pair(s)
    BY <2>1, <2>2 DEF Apply
  <2>4. OwnerID(s) = personaID[s]
    BY <1>1 DEF ListInv, Checked, CheckedFor, Admissible
  <2>5. QED
    BY <2>3, <2>4 DEF Pair
<1>2. QED
  BY <1>1, ListAlways, PTL DEF Spec, OnlyOwnList

-----------------------------------------------------------------------------
(* FeslConnection: positions in the stream *)

\* A set with 0 and the successor of each of its naturals has them all.
LEMMA EveryNatural ==
  ASSUME NEW S, 0 \in S, \A n \in Nat : n \in S => n + 1 \in S
  PROVE  Nat \subseteq S
<1> DEFINE R == OpToRel(<, Nat)
<1>1. IsWellFoundedOn(R, Nat)
  BY NatLessThanWellFounded
<1>2. \A m, n \in Nat : n < m => <<n, m>> \in R
  BY DEF OpToRel
<1> HIDE DEF R
<1> SUFFICES ASSUME Nat \ S # {} PROVE FALSE
  OBVIOUS
<1>3. PICK m \in Nat \ S : \A n \in Nat \ S : <<n, m>> \notin R
  BY <1>1, WFMin
<1>4. m # 0 /\ m \in Nat
  BY <1>3
<1>5. m - 1 \in Nat /\ (m - 1) + 1 = m /\ m - 1 < m
  BY <1>4
<1>6. m - 1 \in S
  BY <1>2, <1>3, <1>5
<1> QED BY <1>3, <1>5, <1>6

\* The recursive function of Offset for the first n packets of s.
OffsetsOf(f, s, n) ==
  f = [m \in 1 .. n + 1 |-> IF m = 1 THEN 0 ELSE f[m - 1] + s[m - 1].len]

LEMMA OffsetsOneMore ==
  ASSUME NEW s, NEW n \in Nat, NEW f, OffsetsOf(f, s, n)
  PROVE  \E g : OffsetsOf(g, s, n + 1)
<1> DEFINE last == (n + 1) + 1
           g == [m \in 1 .. last |-> IF m \in 1 .. n + 1 THEN f[m] ELSE f[n + 1] + s[n + 1].len]
<1>1. ASSUME NEW m \in 1 .. last
      PROVE  g[m] = IF m = 1 THEN 0 ELSE g[m - 1] + s[m - 1].len
  <2>1. CASE m \in 1 .. n + 1
    <3>1. f[m] = IF m = 1 THEN 0 ELSE f[m - 1] + s[m - 1].len
      BY <2>1 DEF OffsetsOf
    <3>2. m # 1 => m - 1 \in 1 .. n + 1 /\ m - 1 \in 1 .. last
      BY <2>1
    <3> QED BY <2>1, <3>1, <3>2
  <2>2. CASE m \notin 1 .. n + 1
    <3>1. m = last /\ m # 1 /\ m - 1 = n + 1 /\ n + 1 \in 1 .. n + 1 /\ n + 1 \in 1 .. last
      BY <2>2
    <3> QED BY <2>2, <3>1
  <2> QED BY <2>1, <2>2
<1>2. g = [m \in 1 .. last |-> g[m]]
  OBVIOUS
<1> HIDE DEF g
<1>3. g = [m \in 1 .. last |-> IF m = 1 THEN 0 ELSE g[m - 1] + s[m - 1].len]
  BY <1>1, <1>2
<1> QED BY <1>3 DEF OffsetsOf

LEMMA OffsetsExist == ASSUME NEW s, NEW n \in Nat PROVE \E f : OffsetsOf(f, s, n)
<1> DEFINE S == {m \in Nat : \E f : OffsetsOf(f, s, m)}
<1>1. 0 \in S
  <2>1. 1 .. 0 + 1 = {1}
    OBVIOUS
  <2>2. OffsetsOf([m \in {1} |-> 0], s, 0)
    BY <2>1 DEF OffsetsOf
  <2> QED BY <2>2
<1>2. ASSUME NEW m \in Nat, m \in S PROVE m + 1 \in S
  BY <1>2, OffsetsOneMore
<1> HIDE DEF S
<1>3. n \in S
  BY <1>1, <1>2, EveryNatural
<1> QED BY <1>3 DEF S

LEMMA PacketsAre ==
  ASSUME packets \in Streams
  PROVE  /\ Len(packets) \in Nat /\ DOMAIN packets = 1 .. Len(packets)
         /\ \A i \in 1 .. Len(packets) :
              /\ packets[i].len \in Nat \ {0} /\ packets[i].claims \in Nat
              /\ packets[i].claims # packets[i].len => packets[i].claims < HeaderLen
<1>1. packets \in Seq(Packet)
  BY ConnectionAssumption
<1>2. \A i \in DOMAIN packets : packets[i] \in Packet
  BY <1>1
<1>3. \A i \in DOMAIN packets : packets[i].len \in Nat \ {0} /\ packets[i].claims \in Nat
  BY <1>2 DEF Packet
<1> QED BY <1>1, <1>3, ConnectionAssumption

\* Each packet begins where the one before it ends.
LEMMA OffsetIs ==
  ASSUME packets \in Streams
  PROVE  /\ Offset(1) = 0
         /\ \A i \in 1 .. Len(packets) : Offset(i + 1) = Offset(i) + packets[i].len
<1> DEFINE offset == CHOOSE f : OffsetsOf(f, packets, Len(packets))
<1>1. Len(packets) \in Nat
  BY PacketsAre
<1>2. OffsetsOf(offset, packets, Len(packets))
  BY <1>1, OffsetsExist
<1>3. \A i : Offset(i) = offset[i]
  BY DEF Offset, OffsetsOf
<1> HIDE DEF offset
<1>4. \A i \in 1 .. Len(packets) + 1 :
        offset[i] = IF i = 1 THEN 0 ELSE offset[i - 1] + packets[i - 1].len
  BY <1>2 DEF OffsetsOf
<1>5. offset[1] = 0
  <2>1. 1 \in 1 .. Len(packets) + 1
    BY <1>1
  <2> QED BY <1>4, <2>1
<1>6. ASSUME NEW i \in 1 .. Len(packets) PROVE offset[i + 1] = offset[i] + packets[i].len
  <2>1. i + 1 \in 1 .. Len(packets) + 1 /\ i + 1 # 1 /\ (i + 1) - 1 = i
    BY <1>1
  <2> QED BY <1>4, <2>1
<1> QED BY <1>3, <1>5, <1>6

\* Later packets begin later.
LEMMA OffsetGrows ==
  ASSUME packets \in Streams
  PROVE  /\ \A i \in 1 .. Len(packets) + 1 : Offset(i) \in Nat
         /\ \A i, j \in 1 .. Len(packets) + 1 : i < j => Offset(i) < Offset(j)
<1>1. Len(packets) \in Nat
  BY PacketsAre
<1> DEFINE S == {n \in Nat : n <= Len(packets) =>
                   /\ Offset(n + 1) \in Nat
                   /\ \A i \in 1 .. n : Offset(i) \in Nat /\ Offset(i) < Offset(n + 1)}
<1>2. 0 \in S
  BY OffsetIs
<1>3. ASSUME NEW n \in Nat, n \in S PROVE n + 1 \in S
  <2> SUFFICES ASSUME n + 1 <= Len(packets)
               PROVE  /\ Offset((n + 1) + 1) \in Nat
                      /\ \A i \in 1 .. n + 1 : Offset(i) \in Nat /\ Offset(i) < Offset((n + 1) + 1)
    OBVIOUS
  <2>1. n <= Len(packets) /\ n + 1 \in 1 .. Len(packets)
    BY <1>1
  <2>2. PICK a, b, l : a = Offset(n + 1) /\ b = Offset((n + 1) + 1) /\ l = packets[n + 1].len
    OBVIOUS
  <2>3. a \in Nat /\ \A i \in 1 .. n : Offset(i) \in Nat /\ Offset(i) < a
    BY <1>3, <2>1, <2>2
  <2>4. b = a + l /\ l \in Nat /\ l > 0
    BY <2>1, <2>2, OffsetIs, PacketsAre
  <2>5. ASSUME NEW i \in 1 .. n + 1 PROVE Offset(i) \in Nat /\ Offset(i) < b
    <3>1. CASE i = n + 1
      BY <2>2, <2>3, <2>4, <3>1
    <3>2. CASE i \in 1 .. n
      <4>1. PICK c : c = Offset(i)
        OBVIOUS
      <4> QED BY <2>3, <2>4, <3>2, <4>1
    <3> QED BY <3>1, <3>2
  <2> QED BY <2>2, <2>3, <2>4, <2>5
<1> HIDE DEF S
<1>4. \A n \in Nat : n \in S
  BY <1>2, <1>3, EveryNatural
<1>5. ASSUME NEW j \in 1 .. Len(packets) + 1
      PROVE  Offset(j) \in Nat /\ \A i \in 1 .. Len(packets) + 1 : i < j => Offset(i) < Offset(j)
  <2>1. PICK n \in Nat : j = n + 1 /\ n <= Len(packets)
    BY <1>1
  <2>2. /\ Offset(n + 1) \in Nat
        /\ \A i \in 1 .. n : Offset(i) < Offset(n + 1)
    BY <1>4, <2>1 DEF S
  <2>3. \A i \in 1 .. Len(packets) + 1 : i < j => i \in 1 .. n
    BY <1>1, <2>1
  <2> QED BY <2>1, <2>2, <2>3
<1> QED BY <1>5

LEMMA OffsetStays == ASSUME UNCHANGED packets PROVE \A i : Offset(i)' = Offset(i)
BY DEF Offset
-----------------------------------------------------------------------------
(* FeslConnection: the packets that have been framed *)

\* What has been said to the client, or is being said.
Said == answered \o Responses(pending)

\* The loop has taken the first k packets from the stream, which are good, and
\* has answered the requests among them.
TakenOK(k) ==
  /\ start = Offset(k + 1)
  /\ \A j \in 1 .. k : packets[j].claims = packets[j].len
  /\ \A j \in DOMAIN Said : Said[j] \in 1 .. k /\ packets[Said[j]].kind = "request"
  /\ \A i \in 1 .. k : packets[i].kind = "request" => \E j \in DOMAIN Said : Said[j] = i
  /\ \A i, j \in DOMAIN Said : i < j => Said[i] < Said[j]

TypesOK ==
  /\ packets \in Streams
  /\ answered \in Seq(Nat) /\ pending \in Seq(Nat) /\ Responses(pending) \in Seq(Nat)
  /\ at \notin {"challenge", "respond"} => pending = NoMessage

ConnectionInv == TypesOK /\ \E k \in 0 .. Len(packets) : TakenOK(k)

\* A whole packet at the front of buf is the next one, and a good one.
LEMMA NextAtFront ==
  ASSUME packets \in Streams, NEW k \in 0 .. Len(packets), start = Offset(k + 1), Complete
  PROVE  /\ k + 1 \in 1 .. Len(packets) /\ AtFront = {k + 1}
         /\ packets[k + 1].claims = packets[k + 1].len /\ Claimed = packets[k + 1].len
         /\ start + Claimed = Offset((k + 1) + 1)
<1> DEFINE n == k + 1
<1>1. Len(packets) \in Nat /\ n \in 1 .. Len(packets) + 1
  BY PacketsAre
<1>2. \A i \in 1 .. Len(packets) : Offset(i) = Offset(n) => i = n
  <2> SUFFICES ASSUME NEW i \in 1 .. Len(packets), Offset(i) = Offset(n), i # n PROVE FALSE
    OBVIOUS
  <2>1. i \in 1 .. Len(packets) + 1 /\ (i < n \/ n < i)
    BY <1>1
  <2>2. Offset(i) < Offset(n) \/ Offset(n) < Offset(i)
    BY <1>1, <2>1, OffsetGrows
  <2>3. Offset(n) \in Nat
    BY <1>1, OffsetGrows
  <2> QED BY <2>2, <2>3
<1> HIDE DEF n
<1>3. DOMAIN packets = 1 .. Len(packets)
  BY PacketsAre
<1>4. AtFront \subseteq {n}
  BY <1>2, <1>3 DEF AtFront, n
<1>5. Claimed >= HeaderLen
  BY DEF Complete
<1>6. AtFront # {}
  <2> SUFFICES ASSUME AtFront = {} PROVE FALSE
    OBVIOUS
  <2>1. Claimed = 0
    BY DEF Claimed
  <2> QED BY <1>5, <2>1, ConnectionAssumption
<1>7. AtFront = {n} /\ n \in 1 .. Len(packets)
  BY <1>3, <1>4, <1>6 DEF AtFront
<1>8. Claimed = packets[n].claims
  BY <1>7 DEF Claimed
<1>9. packets[n].claims = packets[n].len
  <2>1. PICK c, l : c = packets[n].claims /\ l = packets[n].len
    OBVIOUS
  <2>2. c \in Nat /\ (c # l => c < HeaderLen)
    BY <1>7, <2>1, PacketsAre
  <2>3. c >= HeaderLen /\ HeaderLen \in Nat
    BY <1>5, <1>8, <2>1, ConnectionAssumption
  <2> QED BY <2>1, <2>2, <2>3
<1>10. start + Claimed = Offset(n + 1)
  BY <1>7, <1>8, <1>9, OffsetIs DEF n
<1> QED BY <1>7, <1>8, <1>9, <1>10 DEF n

\* A step that takes nothing from the stream and says nothing more.
LEMMA NothingTaken ==
  ASSUME ConnectionInv, UNCHANGED <<packets, start>>, Said' = Said
  PROVE  (\E k \in 0 .. Len(packets) : TakenOK(k))'
<1>1. PICK k \in 0 .. Len(packets) : TakenOK(k)
  BY DEF ConnectionInv
<1>2. \A i : Offset(i)' = Offset(i)
  BY OffsetStays
<1>3. k \in 0 .. Len(packets')
  OBVIOUS
<1>4. TakenOK(k)'
  BY <1>1, <1>2 DEF TakenOK
<1> QED BY <1>3, <1>4

LEMMA Silence ==
  /\ \A s \in Seq(Nat) : s \o <<>> = s
  /\ Responses(NoMessage) = <<>> /\ Responses(<<Challenge>>) = <<>>
  /\ \A m \in Nat : m # 0 => Responses(<<m>>) = <<m>>
<1>1. \A s \in Seq(Nat) : s \o <<>> = s
  OBVIOUS
<1>2. <<>> # <<0>>
  OBVIOUS
<1>3. ASSUME NEW m \in Nat, m # 0 PROVE <<m>> # <<0>>
  <2>1. <<m>>[1] = m /\ <<0>>[1] = 0
    OBVIOUS
  <2> QED BY <1>3, <2>1
<1> QED BY <1>1, <1>2, <1>3 DEF Responses, NoMessage, Challenge

LEMMA ConnectionInit == CInit => ConnectionInv
<1> SUFFICES ASSUME CInit PROVE ConnectionInv
  OBVIOUS
<1>1. /\ packets \in Streams /\ at = "challenge" /\ pending = <<Challenge>>
      /\ answered = <<>> /\ start = 0
  BY DEF CInit
<1>2. Responses(pending) = <<>> /\ <<>> \in Seq(Nat) /\ <<Challenge>> \in Seq(Nat)
  BY <1>1, Silence DEF Challenge
<1>3. Said = <<>>
  BY <1>1, <1>2 DEF Said
<1>4. TypesOK
  BY <1>1, <1>2 DEF TypesOK
<1>5. 0 \in 0 .. Len(packets) /\ Offset(0 + 1) = 0 /\ 1 .. 0 = {} /\ DOMAIN Said = {}
  BY <1>1, <1>3, PacketsAre, OffsetIs
<1>6. TakenOK(0)
  BY <1>1, <1>5 DEF TakenOK
<1> QED BY <1>4, <1>5, <1>6 DEF ConnectionInv

\* A request is taken, and answered.
LEMMA RequestTaken ==
  ASSUME ConnectionInv, DecodeRequest
  PROVE  ConnectionInv'
<1>1. PICK k \in 0 .. Len(packets) : TakenOK(k)
  BY DEF ConnectionInv
<1>2. /\ packets \in Streams /\ at = "decode" /\ Complete /\ pending = NoMessage /\ answered \in Seq(Nat)
      /\ at' = "respond" /\ UNCHANGED <<packets, answered>>
  BY DEF ConnectionInv, TypesOK, DecodeRequest, Say, client
<1> DEFINE n == k + 1
<1>3. /\ n \in 1 .. Len(packets) /\ AtFront = {n}
      /\ packets[n].claims = packets[n].len
      /\ start + Claimed = Offset(n + 1)
  BY <1>1, <1>2, NextAtFront DEF TakenOK
<1>4. Len(packets) \in Nat /\ n \in Nat /\ n # 0
  BY <1>2, <1>3, PacketsAre
<1>5. start' = Offset(n + 1) /\ pending' = <<n>> /\ packets[n].kind # "memcheck"
  BY <1>3 DEF DecodeRequest, Consume, Say, IsMemcheck
<1>6. packets[n].kind = "request"
  <2>1. packets \in Seq(Packet)
    BY <1>2, ConnectionAssumption
  <2>2. packets[n] \in Packet
    BY <1>3, <2>1
  <2> QED BY <1>5, <2>2 DEF Packet
<1> HIDE DEF n
<1>7. Responses(pending)' = <<n>>
  BY <1>4, <1>5, Silence DEF Responses
<1>8. Said = answered /\ Said' = Append(answered, n)
  BY <1>2, <1>4, <1>7, Silence DEF Said
<1>9. TypesOK'
  <2>1. <<n>> \in Seq(Nat)
    BY <1>4
  <2>2. packets' \in Streams /\ answered' \in Seq(Nat) /\ pending' \in Seq(Nat)
    BY <1>2, <1>5, <2>1
  <2>3. Responses(pending)' \in Seq(Nat)
    BY <1>7, <2>1
  <2> QED BY <1>2, <2>2, <2>3 DEF TypesOK
<1>10. TakenOK(n)'
  <2> DEFINE len == Len(answered)
             last == len + 1
             now == Append(answered, n)
  <2>1. /\ len \in Nat /\ DOMAIN answered = 1 .. len /\ DOMAIN now = 1 .. last /\ now[last] = n
        /\ \A j \in 1 .. len : now[j] = answered[j]
    BY <1>2, <1>4
  <2>2. \A j \in 1 .. last : j = last \/ j \in 1 .. len
    BY <2>1
  <2>3. last \in 1 .. last /\ \A j \in 1 .. len : j \in 1 .. last /\ j < last
    BY <2>1
  <2> HIDE DEF len, last, now
  <2>4. \A j \in 1 .. len : answered[j] \in 1 .. k /\ packets[answered[j]].kind = "request"
    BY <1>1, <1>8, <2>1 DEF TakenOK
  <2>5. \A i \in 1 .. n : i = n \/ i \in 1 .. k
    BY <1>3 DEF n
  <2>6. n \in 1 .. n /\ \A i \in 1 .. k : i \in 1 .. n /\ i < n
    BY <1>3 DEF n
  <2>7. \A j \in 1 .. n : packets[j].claims = packets[j].len
    BY <1>1, <1>3, <2>5 DEF TakenOK
  <2>8. \A j \in 1 .. last : now[j] \in 1 .. n /\ packets[now[j]].kind = "request"
    BY <1>6, <2>1, <2>2, <2>4, <2>6
  <2>9. \A i \in 1 .. n : packets[i].kind = "request" => \E j \in 1 .. last : now[j] = i
    <3>1. \A i \in 1 .. k : packets[i].kind = "request" => \E j \in 1 .. len : answered[j] = i
      BY <1>1, <1>8, <2>1 DEF TakenOK
    <3> QED BY <2>1, <2>3, <2>5, <3>1
  <2>10. \A i, j \in 1 .. last : i < j => now[i] < now[j]
    <3> SUFFICES ASSUME NEW i \in 1 .. last, NEW j \in 1 .. last, i < j PROVE now[i] < now[j]
      OBVIOUS
    <3>1. i \in 1 .. len
      BY <2>1 DEF last
    <3>2. CASE j = last
      BY <2>1, <2>4, <2>6, <3>1, <3>2
    <3>3. CASE j \in 1 .. len
      <4>1. answered[i] < answered[j]
        BY <1>1, <1>8, <2>1, <3>1, <3>3 DEF TakenOK
      <4> QED BY <2>1, <3>1, <3>3, <4>1
    <3> QED BY <2>2, <3>2, <3>3
  <2>11. Offset(n + 1)' = Offset(n + 1)
    BY <1>2, OffsetStays
  <2>12. Said' = now /\ DOMAIN now = 1 .. last
    BY <1>8, <2>1 DEF now
  <2> QED BY <1>2, <1>5, <2>7, <2>8, <2>9, <2>10, <2>11, <2>12 DEF TakenOK
<1>11. n \in 0 .. Len(packets')
  BY <1>2, <1>3, <1>4
<1> QED BY <1>9, <1>10, <1>11 DEF ConnectionInv

\* A memcheck is taken, and not answered.
LEMMA MemcheckTaken ==
  ASSUME ConnectionInv, DecodeMemcheck
  PROVE  ConnectionInv'
<1>1. PICK k \in 0 .. Len(packets) : TakenOK(k)
  BY DEF ConnectionInv
<1>2. packets \in Streams /\ Complete /\ UNCHANGED <<packets, answered, pending, at>>
  BY DEF ConnectionInv, TypesOK, DecodeMemcheck, client
<1> DEFINE n == k + 1
<1>3. /\ n \in 1 .. Len(packets) /\ AtFront = {n}
      /\ packets[n].claims = packets[n].len
      /\ start + Claimed = Offset(n + 1)
  BY <1>1, <1>2, NextAtFront DEF TakenOK
<1>4. start' = Offset(n + 1) /\ packets[n].kind = "memcheck"
  BY <1>3 DEF DecodeMemcheck, Consume, IsMemcheck
<1>5. Len(packets) \in Nat
  BY <1>2, PacketsAre
<1>6. n \in 0 .. Len(packets')
  BY <1>2, <1>3, <1>5
<1>7. (\A i \in 1 .. n : i = n \/ i \in 1 .. k) /\ \A i \in 1 .. k : i \in 1 .. n
  BY <1>3
<1> HIDE DEF n
<1>8. Said' = Said
  BY <1>2 DEF Said, Responses
<1>9. Offset(n + 1)' = Offset(n + 1)
  BY <1>2, OffsetStays
<1>10. TakenOK(n)'
  <2>1. \A j \in 1 .. n : packets[j].claims = packets[j].len
    BY <1>1, <1>3, <1>7 DEF TakenOK
  <2>2. \A j \in DOMAIN Said : Said[j] \in 1 .. n /\ packets[Said[j]].kind = "request"
    BY <1>1, <1>7 DEF TakenOK
  <2>3. \A i \in 1 .. n : packets[i].kind = "request" => \E j \in DOMAIN Said : Said[j] = i
    BY <1>1, <1>4, <1>7 DEF TakenOK
  <2>4. \A i, j \in DOMAIN Said : i < j => Said[i] < Said[j]
    BY <1>1 DEF TakenOK
  <2> QED BY <1>2, <1>4, <1>8, <1>9, <2>1, <2>2, <2>3, <2>4 DEF TakenOK
<1>11. TypesOK'
  BY <1>2 DEF ConnectionInv, TypesOK, Responses
<1> QED BY <1>6, <1>10, <1>11 DEF ConnectionInv

\* What was being said has been said.
LEMMA MessageSaid ==
  ASSUME ConnectionInv, Write \/ WriteError
  PROVE  ConnectionInv'
<1>1. /\ UNCHANGED <<packets, start>> /\ answered' = answered \o Responses(pending)
      /\ pending' = NoMessage /\ Responses(pending) \in Seq(Nat) /\ answered \in Seq(Nat)
      /\ packets \in Streams
  BY DEF ConnectionInv, TypesOK, Write, WriteError, client, input
<1>2. answered' \in Seq(Nat)
  BY <1>1
<1>3. Responses(pending)' = <<>>
  BY <1>1, Silence DEF Responses
<1>4. Said' = Said
  BY <1>1, <1>2, <1>3, Silence DEF Said
<1>5. TypesOK'
  <2>1. <<>> \in Seq(Nat)
    OBVIOUS
  <2>2. packets' \in Streams /\ pending' \in Seq(Nat)
    BY <1>1, <2>1 DEF NoMessage
  <2>3. Responses(pending)' \in Seq(Nat)
    BY <1>3, <2>1
  <2> QED BY <1>1, <1>2, <2>2, <2>3 DEF TypesOK
<1> QED BY <1>1, <1>4, <1>5, NothingTaken DEF ConnectionInv

LEMMA NothingSaid ==
  ASSUME ConnectionInv, UNCHANGED <<packets, start, answered, pending>>,
         at' = at \/ at \notin {"challenge", "respond"}
  PROVE  ConnectionInv'
<1>1. TypesOK'
  <2>1. Responses(pending)' = Responses(pending)
    BY DEF Responses
  <2>2. packets' \in Streams /\ answered' \in Seq(Nat) /\ pending' \in Seq(Nat)
    BY DEF ConnectionInv, TypesOK
  <2>3. at' \notin {"challenge", "respond"} => pending' = NoMessage
    BY DEF ConnectionInv, TypesOK
  <2> QED BY <2>1, <2>2, <2>3 DEF ConnectionInv, TypesOK
<1>2. Said' = Said
  BY DEF Said, Responses
<1> QED BY <1>1, <1>2, NothingTaken DEF ConnectionInv

\* The time is out: nothing has been sent, and perhaps a challenge is due.
LEMMA TimeIsOut ==
  ASSUME ConnectionInv, Timeout
  PROVE  ConnectionInv'
<1>1. at = "read" /\ UNCHANGED <<packets, start, answered>>
  BY DEF Timeout, client, input
<1>2. CASE UNCHANGED pending /\ at' \in {"closed", "read"}
  BY <1>1, <1>2, NothingSaid
<1>3. CASE pending' = <<Challenge>> /\ at' = "challenge"
  <2>1. packets \in Streams /\ answered \in Seq(Nat) /\ pending = NoMessage
    BY <1>1 DEF ConnectionInv, TypesOK
  <2>2. Responses(pending)' = <<>> /\ Responses(pending) = <<>>
    BY <1>3, <2>1, Silence DEF Responses
  <2>3. Said' = Said
    BY <1>1, <2>2 DEF Said
  <2>4. <<Challenge>> \in Seq(Nat) /\ <<>> \in Seq(Nat)
    BY DEF Challenge
  <2>5. TypesOK'
    BY <1>1, <1>3, <2>1, <2>2, <2>4 DEF TypesOK
  <2> QED BY <1>1, <2>3, <2>5, NothingTaken DEF ConnectionInv
<1> QED BY <1>1, <1>2, <1>3 DEF Timeout, Return, Say

LEMMA ConnectionNext == ASSUME ConnectionInv, [CNext]_cvars PROVE ConnectionInv'
<1> USE DEF client, input
<1>1. CASE UNCHANGED cvars
  BY <1>1, NothingSaid DEF cvars
<1>2. CASE Read \/ ReadEOF \/ ReadError \/ DecodeIncomplete \/ DecodeError
  BY <1>2, NothingSaid DEF Read, ReadEOF, ReadError, DecodeIncomplete, DecodeError, Return
<1>3. CASE ClientSends \/ ClientReceives \/ ClientCloses \/ Shutdown
  BY <1>3, NothingSaid DEF ClientSends, ClientReceives, ClientCloses, Shutdown
<1> QED BY <1>1, <1>2, <1>3, TimeIsOut, RequestTaken, MemcheckTaken, MessageSaid DEF CNext, Run

\* However TCP cuts the stream, requests are answered in order, each once, and
\* nothing behind a packet with an invalid length is: for any packets.
THEOREM AnswersFollow == CSpec => []ResponsesFollowRequests
<1>1. ConnectionInv => ResponsesFollowRequests
  <2> SUFFICES ASSUME ConnectionInv PROVE ResponsesFollowRequests
    OBVIOUS
  <2>1. PICK k \in 0 .. Len(packets) : TakenOK(k)
    BY DEF ConnectionInv
  <2> DEFINE framed == {i \in DOMAIN packets : \E n \in 1 .. start : n = Offset(i) + packets[i].len}
  <2>2. packets \in Streams
    BY DEF ConnectionInv, TypesOK
  <2>3. Len(packets) \in Nat /\ DOMAIN packets = 1 .. Len(packets)
    BY <2>2, PacketsAre
  <2>4. \A i \in 1 .. Len(packets) : i \in framed <=> i \in 1 .. k
    <3> SUFFICES ASSUME NEW i \in 1 .. Len(packets) PROVE i \in framed <=> i \in 1 .. k
      OBVIOUS
    <3>1. PICK end, front : end = Offset(i) + packets[i].len /\ front = start
      OBVIOUS
    <3>2. end = Offset(i + 1) /\ front = Offset(k + 1)
      BY <2>1, <2>2, <3>1, OffsetIs DEF TakenOK
    <3>3. i + 1 \in 1 .. Len(packets) + 1 /\ k + 1 \in 1 .. Len(packets) + 1 /\ 1 \in 1 .. Len(packets) + 1
      BY <2>3
    <3>4. end \in Nat /\ front \in Nat /\ end > 0
      <4>1. 1 < i + 1
        OBVIOUS
      <4>2. Offset(1) < Offset(i + 1)
        BY <2>2, <3>3, <4>1, OffsetGrows
      <4>3. end \in Nat /\ front \in Nat
        BY <2>2, <3>2, <3>3, OffsetGrows
      <4> QED BY <2>2, <3>2, <4>2, <4>3, OffsetIs
    <3>5. i \in framed <=> end <= front
      <4>1. i \in framed <=> end \in 1 .. front
        BY <2>3, <3>1
      <4> QED BY <3>4, <4>1
    <3>6. CASE i \in 1 .. k
      <4>1. i + 1 = k + 1 \/ i + 1 < k + 1
        BY <3>6
      <4>2. end = front \/ end < front
        BY <2>2, <3>2, <3>3, <4>1, OffsetGrows
      <4> QED BY <3>4, <3>5, <3>6, <4>2
    <3>7. CASE i \notin 1 .. k
      <4>1. k + 1 < i + 1
        BY <3>7
      <4>2. front < end
        BY <2>2, <3>2, <3>3, <4>1, OffsetGrows
      <4>3. ~(end <= front)
        BY <3>4, <4>2
      <4> QED BY <3>5, <3>7, <4>3
    <3> QED BY <3>6, <3>7
  <2>5. \A i \in 1 .. k : i \in 1 .. Len(packets)
    BY <2>3
  <2>6. framed = 1 .. k
    BY <2>3, <2>4, <2>5
  <2> HIDE DEF framed
  <2>7. Range(Said) = {i \in framed : packets[i].kind = "request"}
    BY <2>1, <2>6 DEF TakenOK, Range
  <2>8. \A i, j \in DOMAIN Said : i < j => Said[i] < Said[j]
    BY <2>1 DEF TakenOK
  <2>9. \A i \in framed : \A j \in 1 .. i : packets[j].claims = packets[j].len
    BY <2>1, <2>6 DEF TakenOK
  <2> QED BY <2>7, <2>8, <2>9 DEF ResponsesFollowRequests, Said, framed
<1>2. CSpec => []ConnectionInv
  BY ConnectionInit, ConnectionNext, PTL DEF CSpec
<1> QED BY <1>1, <1>2, PTL
=============================================================================
