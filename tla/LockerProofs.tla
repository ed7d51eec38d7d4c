---------------------------- MODULE LockerProofs ----------------------------
(***************************************************************************)
(* Theorems about Locker, for any connections, personas, names, uploads    *)
(* and tags.                                                               *)
(***************************************************************************)
EXTENDS Locker, FiniteSetTheorems, WellFoundedInduction, SequenceTheorems, TLAPS

-----------------------------------------------------------------------------
(* Naturals and finite sets *)

\* Every non-empty set of naturals has a least element, which Min chooses.
LEMMA Least ==
  ASSUME NEW S \in SUBSET Nat, S # {}
  PROVE  Min(S) \in S /\ \A n \in S : Min(S) <= n
<1> DEFINE R == OpToRel(<, Nat)
<1>1. IsWellFoundedOn(R, Nat)
  BY NatLessThanWellFounded
<1>2. \A m, n \in Nat : n < m => <<n, m>> \in R
  BY DEF OpToRel
<1> HIDE DEF R
<1>3. PICK m \in S : \A n \in S : <<n, m>> \notin R
  BY <1>1, WFMin
<1>4. ASSUME NEW n \in S PROVE m <= n
  <2>1. m \in Nat /\ n \in Nat /\ ~(n < m)
    BY <1>2, <1>3
  <2> QED BY <2>1
<1>5. \E k \in S : \A n \in S : k <= n
  BY <1>4
<1> QED BY <1>5 DEF Min

\* A set with 0 and the successor of each of its naturals has them all.
LEMMA AllNaturals ==
  ASSUME NEW S, 0 \in S, \A n \in Nat : n \in S => n + 1 \in S
  PROVE  Nat \subseteq S
<1> SUFFICES ASSUME Nat \ S # {} PROVE FALSE
  OBVIOUS
<1> DEFINE m == Min(Nat \ S)
<1>1. m \in Nat \ S /\ \A n \in Nat \ S : m <= n
  BY Least
<1> HIDE DEF m
<1>2. m # 0 /\ m \in Nat
  BY <1>1
<1>3. m - 1 \in Nat /\ (m - 1) + 1 = m /\ ~(m <= m - 1)
  BY <1>2
<1>4. m - 1 \in S
  BY <1>1, <1>3
<1> QED BY <1>1, <1>3, <1>4

\* A sequence that lists a finite set without repetition, as SetToSeqs has
\* them, lists all of it.
LEMMA ListsAll ==
  ASSUME NEW S, IsFiniteSet(S), NEW s \in SetToSeqs(S)
  PROVE  /\ s \in Seq(S) /\ DOMAIN s = 1 .. Len(s)
         /\ \A i, j \in DOMAIN s : s[i] = s[j] => i = j
         /\ \A x \in S : \E i \in DOMAIN s : s[i] = x
<1> DEFINE n == Cardinality(S)
           T == {s[i] : i \in 1 .. n}
<1>1. n \in Nat
  BY FS_CardinalityType
<1>2. s \in [1 .. n -> S] /\ \A i, j \in 1 .. n : i # j => s[i] # s[j]
  BY DEF SetToSeqs
<1> HIDE DEF n
<1>3. s \in Seq(S) /\ Len(s) = n /\ DOMAIN s = 1 .. n
  BY <1>1, <1>2
<1>4. s \in Bijection(1 .. n, T)
  BY <1>2 DEF Bijection, Injection, Surjection, IsInjective
<1>5. IsFiniteSet(1 .. n) /\ Cardinality(1 .. n) = n
  BY <1>1, FS_Interval
<1>6. Cardinality(T) = n
  BY <1>4, <1>5, FS_Bijection DEF ExistsBijection
<1>7. T \in SUBSET S
  BY <1>2
<1>8. T = S
  BY <1>6, <1>7, FS_Subset DEF n
<1> QED BY <1>2, <1>3, <1>8

-----------------------------------------------------------------------------
(* The loop that keeps what is in a set *)

KeptBy(f, s, S, n) ==
  f = [m \in 0 .. n |-> IF m = 0 THEN <<>>
                          ELSE IF s[m] \in S THEN Append(f[m - 1], s[m]) ELSE f[m - 1]]

LEMMA KeptOneMore ==
  ASSUME NEW s, NEW S, NEW n \in Nat, NEW f, KeptBy(f, s, S, n)
  PROVE  \E g : KeptBy(g, s, S, n + 1)
<1> DEFINE new == n + 1
           g == [m \in 0 .. new |->
                   IF m \in 0 .. n THEN f[m]
                     ELSE IF s[new] \in S THEN Append(f[n], s[new]) ELSE f[n]]
<1>1. ASSUME NEW m \in 0 .. new
      PROVE  g[m] = IF m = 0 THEN <<>> ELSE IF s[m] \in S THEN Append(g[m - 1], s[m]) ELSE g[m - 1]
  <2>1. CASE m \in 0 .. n
    <3>1. f[m] = IF m = 0 THEN <<>> ELSE IF s[m] \in S THEN Append(f[m - 1], s[m]) ELSE f[m - 1]
      BY <2>1 DEF KeptBy
    <3>2. m # 0 => m - 1 \in 0 .. n /\ m - 1 \in 0 .. new
      BY <2>1
    <3> QED BY <2>1, <3>1, <3>2
  <2>2. CASE m \notin 0 .. n
    <3>1. m = new /\ m # 0 /\ m - 1 = n /\ n \in 0 .. n /\ n \in 0 .. new
      BY <2>2
    <3> QED BY <2>2, <3>1
  <2> QED BY <2>1, <2>2
<1>2. g = [m \in 0 .. new |-> g[m]]
  OBVIOUS
<1> HIDE DEF g
<1>3. g = [m \in 0 .. new |-> IF m = 0 THEN <<>>
                                ELSE IF s[m] \in S THEN Append(g[m - 1], s[m]) ELSE g[m - 1]]
  BY <1>1, <1>2
<1> QED BY <1>3 DEF KeptBy

LEMMA KeptExists == ASSUME NEW s, NEW S, NEW n \in Nat PROVE \E f : KeptBy(f, s, S, n)
<1> DEFINE D == {m \in Nat : \E f : KeptBy(f, s, S, m)}
<1>1. 0 \in D
  <2>1. 0 .. 0 = {0}
    OBVIOUS
  <2>2. KeptBy([m \in {0} |-> <<>>], s, S, 0)
    BY <2>1 DEF KeptBy
  <2> QED BY <2>2
<1>2. ASSUME NEW m \in Nat, m \in D PROVE m + 1 \in D
  BY <1>2, KeptOneMore
<1> HIDE DEF D
<1>3. n \in D
  BY <1>1, <1>2, AllNaturals
<1> QED BY <1>3 DEF D

\* What has been kept after n elements.
KeptOK(r, s, S, n) ==
  /\ r \in Seq(S) /\ Len(r) <= n
  /\ \A i \in DOMAIN r : \E j \in 1 .. n : r[i] = s[j]
  /\ \A j \in 1 .. n : s[j] \in S => \E i \in DOMAIN r : r[i] = s[j]
  /\ (\A i, j \in 1 .. n : s[i] = s[j] => i = j) => \A i, j \in DOMAIN r : r[i] = r[j] => i = j

LEMMA KeptStep ==
  ASSUME NEW s, NEW S, NEW n \in Nat, NEW r, KeptOK(r, s, S, n)
  PROVE  KeptOK(IF s[n + 1] \in S THEN Append(r, s[n + 1]) ELSE r, s, S, n + 1)
<1> DEFINE new == n + 1
<1>1. new \in 1 .. new /\ \A j \in 1 .. new : j = new \/ j \in 1 .. n
  OBVIOUS
<1>2. \A j \in 1 .. n : j \in 1 .. new /\ j # new
  OBVIOUS
<1>3. r \in Seq(S) /\ Len(r) \in Nat /\ Len(r) <= n /\ DOMAIN r = 1 .. Len(r)
  BY DEF KeptOK
<1>4. CASE s[new] \notin S
  <2>1. Len(r) <= new
    BY <1>3
  <2> QED BY <1>1, <1>2, <1>4, <2>1 DEF KeptOK
<1>5. CASE s[new] \in S
  <2> DEFINE q == Append(r, s[new])
             last == Len(r) + 1
  <2>1. q \in Seq(S) /\ Len(q) = last /\ DOMAIN q = 1 .. last
    BY <1>3, <1>5
  <2>2. last <= new /\ last \in 1 .. last /\ \A i \in 1 .. last : i = last \/ i \in DOMAIN r
    BY <1>3
  <2>3. \A i \in DOMAIN r : i \in 1 .. last
    BY <1>3
  <2>4. q[last] = s[new] /\ \A i \in DOMAIN r : q[i] = r[i]
    BY <1>3
  <2> HIDE DEF q, last, new
  <2>5. ASSUME NEW i \in DOMAIN q PROVE \E j \in 1 .. new : q[i] = s[j]
    <3>1. CASE i = last
      BY <1>1, <2>4, <3>1
    <3>2. CASE i \in DOMAIN r
      <4>1. PICK j \in 1 .. n : r[i] = s[j]
        BY <3>2 DEF KeptOK
      <4> QED BY <1>2, <2>4, <3>2, <4>1
    <3> QED BY <2>1, <2>2, <3>1, <3>2
  <2>6. \A j \in 1 .. new : s[j] \in S => \E i \in DOMAIN q : q[i] = s[j]
    BY <1>1, <1>2, <2>1, <2>2, <2>3, <2>4 DEF KeptOK
  <2>7. ASSUME \A i, j \in 1 .. new : s[i] = s[j] => i = j
        PROVE  \A i, j \in DOMAIN q : q[i] = q[j] => i = j
    <3>1. \A i, j \in DOMAIN r : r[i] = r[j] => i = j
      BY <1>2, <2>7 DEF KeptOK
    <3>2. \A i \in DOMAIN r : r[i] # s[new]
      BY <1>1, <1>2, <2>7 DEF KeptOK
    <3> QED BY <2>1, <2>2, <2>4, <3>1, <3>2
  <2>8. Len(q) <= new
    BY <2>1, <2>2
  <2> QED BY <1>5, <2>1, <2>5, <2>6, <2>7, <2>8 DEF KeptOK, q, new
<1> QED BY <1>4, <1>5

\* Of a sequence, what is in S and nothing else, nothing twice unless the
\* sequence has it twice.
LEMMA OnlyIs ==
  ASSUME NEW T, NEW s \in Seq(T), NEW S
  PROVE  KeptOK(Only(s, S), s, S, Len(s))
<1> DEFINE kept == CHOOSE f : KeptBy(f, s, S, Len(s))
           D == {n \in Nat : n <= Len(s) => KeptOK(kept[n], s, S, n)}
<1>1. Len(s) \in Nat
  OBVIOUS
<1>2. KeptBy(kept, s, S, Len(s))
  BY <1>1, KeptExists
<1>3. Only(s, S) = kept[Len(s)]
  BY DEF Only, KeptBy
<1> HIDE DEF kept
<1>4. 0 \in D
  <2>1. kept[0] = <<>>
    BY <1>1, <1>2 DEF KeptBy
  <2>2. KeptOK(<<>>, s, S, 0)
    <3>1. 1 .. 0 = {} /\ DOMAIN <<>> = {}
      OBVIOUS
    <3> QED BY <3>1 DEF KeptOK
  <2> QED BY <2>1, <2>2
<1>5. ASSUME NEW n \in Nat, n \in D PROVE n + 1 \in D
  <2> SUFFICES ASSUME n + 1 <= Len(s) PROVE KeptOK(kept[n + 1], s, S, n + 1)
    OBVIOUS
  <2>1. n <= Len(s) /\ n + 1 \in 0 .. Len(s) /\ n + 1 # 0 /\ (n + 1) - 1 = n
    BY <1>1
  <2>2. kept[n + 1] = IF s[n + 1] \in S THEN Append(kept[n], s[n + 1]) ELSE kept[n]
    BY <1>2, <2>1 DEF KeptBy
  <2> QED BY <1>5, <2>1, <2>2, KeptStep
<1> HIDE DEF D
<1>6. Len(s) \in D
  BY <1>1, <1>4, <1>5, AllNaturals
<1> QED BY <1>1, <1>3, <1>6 DEF D

-----------------------------------------------------------------------------
(* Listings *)

LEMMA OrderIs ==
  /\ FileOrder \in Seq(Paths) /\ DOMAIN FileOrder = 1 .. Len(FileOrder)
  /\ \A i, j \in DOMAIN FileOrder : FileOrder[i] = FileOrder[j] => i = j
  /\ \A d \in Paths : \E i \in DOMAIN FileOrder : FileOrder[i] = d
<1>1. IsFiniteSet(Paths)
  BY LockerAssumption, FS_Product DEF Paths
<1> QED BY <1>1, LockerAssumption, ListsAll

\* Every file with this prefix, once.
LEMMA EntriesAre ==
  ASSUME NEW prefix
  PROVE  /\ Entries(prefix) \in Seq({EntryOf(d, prefix) : d \in Paths})
         /\ DOMAIN Entries(prefix) = 1 .. Len(Entries(prefix)) /\ Len(Entries(prefix)) \in Nat
         /\ \A i \in DOMAIN Entries(prefix) :
              LET d == Entries(prefix)[i].path
              IN  /\ d \in Paths /\ file[d] # Absent /\ Matches(d, prefix)
                  /\ Entries(prefix)[i] = EntryOf(d, prefix)
         /\ \A i, j \in DOMAIN Entries(prefix) : Entries(prefix)[i].path = Entries(prefix)[j].path => i = j
         /\ \A d \in Paths : file[d] # Absent /\ Matches(d, prefix) =>
              \E i \in DOMAIN Entries(prefix) : Entries(prefix)[i].path = d
<1> DEFINE S == {d \in Paths : file[d] # Absent /\ Matches(d, prefix)}
           files == Only(FileOrder, S)
           own == Entries(prefix)
<1>1. own = [i \in DOMAIN files |-> EntryOf(files[i], prefix)]
  BY DEF Entries
<1>2. KeptOK(files, FileOrder, S, Len(FileOrder))
  BY OrderIs, OnlyIs
<1> HIDE DEF files, own, S
<1>3. /\ files \in Seq(S)
      /\ \A d \in S : \E i \in DOMAIN files : files[i] = d
      /\ \A i, j \in DOMAIN files : files[i] = files[j] => i = j
  <2>1. \A d \in S : \E j \in 1 .. Len(FileOrder) : FileOrder[j] = d
    BY OrderIs DEF S
  <2>2. files \in Seq(S)
    BY <1>2 DEF KeptOK
  <2>3. \A d \in S : \E i \in DOMAIN files : files[i] = d
    <3>1. \A j \in 1 .. Len(FileOrder) : FileOrder[j] \in S => \E i \in DOMAIN files : files[i] = FileOrder[j]
      BY <1>2 DEF KeptOK
    <3> QED BY <2>1, <3>1
  <2>4. \A i, j \in 1 .. Len(FileOrder) : FileOrder[i] = FileOrder[j] => i = j
    BY OrderIs
  <2>5. \A i, j \in DOMAIN files : files[i] = files[j] => i = j
    BY <1>2, <2>4 DEF KeptOK
  <2> QED BY <2>2, <2>3, <2>5
<1>4. DOMAIN files = 1 .. Len(files) /\ Len(files) \in Nat /\ \A i \in DOMAIN files : files[i] \in S /\ files[i] \in Paths
  BY <1>3 DEF S
<1>5. DOMAIN own = DOMAIN files /\ \A i \in DOMAIN files : own[i] = EntryOf(files[i], prefix)
  BY <1>1
<1>6. \A i \in DOMAIN files : own[i].path = files[i]
  BY <1>5 DEF EntryOf
<1>7. own \in Seq({EntryOf(d, prefix) : d \in Paths}) /\ Len(own) = Len(files)
  <2>1. \A i \in 1 .. Len(files) : EntryOf(files[i], prefix) \in {EntryOf(d, prefix) : d \in Paths}
    BY <1>4
  <2> QED BY <1>1, <1>4, <2>1
<1> QED BY <1>3, <1>4, <1>5, <1>6, <1>7 DEF own, S

\* An alias is the entry it stands for, but for its name.
LEMMA AliasIs ==
  ASSUME NEW prefix, NEW n \in NewIn(Entries(prefix))
  PROVE  \E k \in TaggedIn(Entries(prefix), n) :
           /\ k = Min(TaggedIn(Entries(prefix), n)) /\ k \in DOMAIN Entries(prefix)
           /\ AliasIn(Entries(prefix), n).path = Entries(prefix)[k].path
           /\ AliasIn(Entries(prefix), n).size = Entries(prefix)[k].size
           /\ AliasIn(Entries(prefix), n).name = n
<1> DEFINE own == Entries(prefix)
<1>1. TaggedIn(own, n) \in SUBSET Nat /\ TaggedIn(own, n) # {} /\ TaggedIn(own, n) \subseteq DOMAIN own
  <2>1. TaggedIn(own, n) \subseteq DOMAIN own
    BY DEF TaggedIn
  <2>2. DOMAIN own \subseteq Nat
    BY EntriesAre
  <2>3. TaggedIn(own, n) # {}
    BY DEF NewIn
  <2> QED BY <2>1, <2>2, <2>3
<1>2. PICK k \in TaggedIn(own, n) : k = Min(TaggedIn(own, n))
  BY <1>1, Least
<1>3. PICK d : own[k] = EntryOf(d, prefix)
  BY <1>1, EntriesAre, Zenon
<1> HIDE DEF own
<1>4. AliasIn(own, n) = [own[k] EXCEPT !.name = n]
  BY <1>2 DEF AliasIn
<1>5. /\ AliasIn(own, n).path = own[k].path /\ AliasIn(own, n).size = own[k].size
      /\ AliasIn(own, n).name = n
  BY <1>3, <1>4 DEF EntryOf
<1> QED BY <1>1, <1>2, <1>5 DEF own

\* The entries, and behind them each alias once.
LEMMA ListingsAre ==
  ASSUME NEW prefix, NEW list \in Listings(prefix)
  PROVE  /\ Len(list) \in Nat /\ DOMAIN list = 1 .. Len(list) /\ Len(Entries(prefix)) <= Len(list)
         /\ list \in Seq(Range(list))
         /\ \A i \in 1 .. Len(Entries(prefix)) : list[i] = Entries(prefix)[i]
         /\ \A i \in Len(Entries(prefix)) + 1 .. Len(list) :
              \E n \in NewIn(Entries(prefix)) : list[i] = AliasIn(Entries(prefix), n)
         /\ \A n \in NewIn(Entries(prefix)) :
              \E i \in Len(Entries(prefix)) + 1 .. Len(list) : list[i] = AliasIn(Entries(prefix), n)
         /\ \A i, j \in Len(Entries(prefix)) + 1 .. Len(list) : list[i].name = list[j].name => i = j
<1> DEFINE own == Entries(prefix)
           new == NewIn(own)
           m == Len(own)
<1>1. PICK x \in SetToSeqs(new) : list = own \o [k \in DOMAIN x |-> AliasIn(own, x[k])]
  BY DEF Listings, WithStretchAliases
<1>2. IsFiniteSet(new)
  <2>1. new \subseteq Names
    BY DEF NewIn
  <2> QED BY <2>1, LockerAssumption, FS_Subset
<1>3. m \in Nat /\ DOMAIN own = 1 .. m /\ own \in Seq({EntryOf(d, prefix) : d \in Paths})
  BY EntriesAre
<1>4. \A n \in new : AliasIn(own, n).name = n
  BY AliasIs
<1> HIDE DEF own, new, m
<1> DEFINE tail == [k \in DOMAIN x |-> AliasIn(own, x[k])]
           A == {AliasIn(own, n) : n \in new}
           E == {EntryOf(d, prefix) : d \in Paths}
<1>5. /\ x \in Seq(new) /\ DOMAIN x = 1 .. Len(x) /\ Len(x) \in Nat
      /\ \A i, j \in DOMAIN x : x[i] = x[j] => i = j
      /\ \A n \in new : \E i \in DOMAIN x : x[i] = n
  BY <1>2, ListsAll
<1>6. \A k \in DOMAIN x : x[k] \in new /\ tail[k] = AliasIn(own, x[k])
  BY <1>5
<1>7. tail \in Seq(A) /\ Len(tail) = Len(x)
  <2>1. \A k \in 1 .. Len(x) : AliasIn(own, x[k]) \in A
    BY <1>5, <1>6
  <2> QED BY <1>5, <2>1
<1>8. list = own \o tail
  BY <1>1
<1> HIDE DEF tail, A, E
<1>9. own \in Seq(E \cup A) /\ tail \in Seq(E \cup A) /\ Len(own) = m
  BY <1>3, <1>7 DEF E, m
<1>10. /\ list \in Seq(E \cup A) /\ Len(list) = m + Len(x) /\ DOMAIN list = 1 .. m + Len(x)
       /\ \A i \in 1 .. m : list[i] = own[i]
       /\ \A i \in m + 1 .. m + Len(x) : list[i] = tail[i - m]
  <2>1. /\ list \in Seq(E \cup A) /\ Len(list) = m + Len(x)
        /\ \A i \in 1 .. m + Len(x) : list[i] = IF i <= m THEN own[i] ELSE tail[i - m]
    <3>1. /\ own \o tail \in Seq(E \cup A) /\ Len(own \o tail) = Len(own) + Len(tail)
          /\ \A i \in 1 .. Len(own) + Len(tail) :
               (own \o tail)[i] = IF i <= Len(own) THEN own[i] ELSE tail[i - Len(own)]
      BY <1>9, ConcatProperties
    <3> QED BY <1>7, <1>8, <1>9, <3>1
  <2>2. \A i \in 1 .. m : i \in 1 .. m + Len(x) /\ i <= m
    BY <1>3, <1>5
  <2>3. \A i \in m + 1 .. m + Len(x) : i \in 1 .. m + Len(x) /\ ~(i <= m)
    BY <1>3, <1>5
  <2> QED BY <2>1, <2>2, <2>3
<1>11. \A i \in m + 1 .. m + Len(x) : i - m \in DOMAIN x
  BY <1>3, <1>5
<1>12. \A k \in DOMAIN x : m + k \in m + 1 .. m + Len(x) /\ (m + k) - m = k
  BY <1>3, <1>5
<1>13. \A i \in m + 1 .. m + Len(x) : list[i] = AliasIn(own, x[i - m]) /\ x[i - m] \in new
  BY <1>6, <1>10, <1>11
<1>14. ASSUME NEW n \in new PROVE \E i \in m + 1 .. m + Len(x) : list[i] = AliasIn(own, n)
  <2>1. PICK k \in DOMAIN x : x[k] = n
    BY <1>5
  <2> QED BY <1>12, <1>13, <2>1
<1>15. ASSUME NEW i \in m + 1 .. m + Len(x), NEW j \in m + 1 .. m + Len(x), list[i].name = list[j].name
       PROVE  i = j
  <2>1. x[i - m] = x[j - m]
    BY <1>4, <1>13, <1>15
  <2>2. i - m = j - m
    BY <1>5, <1>11, <2>1
  <2> QED BY <1>3, <2>2
<1>16. list \in Seq(Range(list)) /\ m <= m + Len(x) /\ m + Len(x) \in Nat
  <2>1. \A i \in 1 .. Len(list) : list[i] \in Range(list)
    BY <1>10 DEF Range
  <2>2. list = [i \in 1 .. Len(list) |-> list[i]] /\ Len(list) \in Nat
    BY <1>10
  <2> QED BY <1>3, <1>5, <2>1, <2>2
<1> QED BY <1>10, <1>13, <1>14, <1>15, <1>16 DEF own, new, m

-----------------------------------------------------------------------------
(* What a get finds in a listing *)

NamedIn(list, n) == {i \in DOMAIN list : list[i].name = n}

\* findEntryByName finds the first entry of that name, if there is one.
LEMMA FindFirst ==
  ASSUME NEW list, DOMAIN list \subseteq Nat, NEW n
  PROVE  /\ NamedIn(list, n) = {} => Find(list, n) = {}
         /\ NamedIn(list, n) # {} =>
              \E k \in NamedIn(list, n) : /\ \A i \in NamedIn(list, n) : k <= i
                                          /\ Find(list, n) = {list[k].path}
<1>1. Find(list, n) = IF NamedIn(list, n) = {} THEN {} ELSE {list[Min(NamedIn(list, n))].path}
  BY DEF Find, NamedIn
<1>2. NamedIn(list, n) \in SUBSET Nat
  BY DEF NamedIn
<1> QED BY <1>1, <1>2, Least

\* An entry of that name goes first; then comes the alias; then nothing is found.
LEMMA FindIs ==
  ASSUME NEW prefix, NEW list \in Listings(prefix), NEW n
  PROVE  /\ NamedIn(Entries(prefix), n) # {} =>
              \E k \in NamedIn(Entries(prefix), n) : Find(list, n) = {Entries(prefix)[k].path}
         /\ n \in NewIn(Entries(prefix)) =>
              Find(list, n) = {AliasIn(Entries(prefix), n).path}
         /\ NamedIn(Entries(prefix), n) = {} /\ n \notin NewIn(Entries(prefix)) => Find(list, n) = {}
<1> DEFINE own == Entries(prefix)
           m == Len(own)
<1>1. /\ DOMAIN own = 1 .. m /\ m \in Nat /\ m <= Len(list)
      /\ DOMAIN list = 1 .. Len(list) /\ Len(list) \in Nat
  BY EntriesAre, ListingsAre
<1>2. \A i \in 1 .. m : i \in DOMAIN list /\ list[i] = own[i]
  BY <1>1, ListingsAre
<1>3. \A i \in m + 1 .. Len(list) :
        \E a \in NewIn(own) : list[i] = AliasIn(own, a) /\ list[i].name = a
  BY ListingsAre, AliasIs
<1>4. \A a \in NewIn(own) : NamedIn(own, a) = {} /\ \E i \in m + 1 .. Len(list) : list[i] = AliasIn(own, a)
  <2>1. \A a \in NewIn(own) : NamedIn(own, a) = {}
    BY DEF NewIn, NamedIn
  <2> QED BY <2>1, ListingsAre
<1>5. DOMAIN list \subseteq Nat /\ \A i \in DOMAIN list : i \in 1 .. m \/ i \in m + 1 .. Len(list)
  BY <1>1
<1>6. \A i \in m + 1 .. Len(list) : i \in DOMAIN list /\ i \in Nat
  BY <1>1
<1> HIDE DEF own, m
<1>7. ASSUME NamedIn(own, n) # {}
      PROVE  \E k \in NamedIn(own, n) : Find(list, n) = {own[k].path}
  <2>1. PICK j \in 1 .. m : own[j].name = n
    BY <1>1, <1>7 DEF NamedIn
  <2>2. j \in NamedIn(list, n)
    BY <1>2, <2>1 DEF NamedIn
  <2>3. PICK k \in NamedIn(list, n) : Find(list, n) = {list[k].path}
    BY <1>5, <2>2, FindFirst
  <2>4. k \notin m + 1 .. Len(list)
    BY <1>3, <1>4, <1>7, <2>3 DEF NamedIn
  <2>5. k \in 1 .. m
    BY <1>5, <2>3, <2>4 DEF NamedIn
  <2> QED BY <1>1, <1>2, <2>3, <2>5 DEF NamedIn
<1>8. ASSUME n \in NewIn(own) PROVE Find(list, n) = {AliasIn(own, n).path}
  <2>1. PICK j \in m + 1 .. Len(list) : list[j] = AliasIn(own, n)
    BY <1>4, <1>8
  <2>2. list[j].name = n
    BY <1>8, <2>1, AliasIs DEF own
  <2>3. j \in NamedIn(list, n)
    BY <1>6, <2>2 DEF NamedIn
  <2>4. PICK k \in NamedIn(list, n) : Find(list, n) = {list[k].path}
    BY <1>5, <2>3, FindFirst
  <2>5. k \notin 1 .. m
    BY <1>1, <1>2, <1>4, <1>8, <2>4 DEF NamedIn
  <2>6. k \in m + 1 .. Len(list)
    BY <1>5, <2>4, <2>5 DEF NamedIn
  <2> QED BY <1>3, <2>4, <2>6 DEF NamedIn
<1>9. ASSUME NamedIn(own, n) = {}, n \notin NewIn(own) PROVE Find(list, n) = {}
  <2>1. \A i \in DOMAIN list : list[i].name # n
    BY <1>1, <1>2, <1>3, <1>5, <1>9 DEF NamedIn
  <2> QED BY <1>5, <2>1, FindFirst DEF NamedIn
<1> QED BY <1>7, <1>8, <1>9 DEF own

-----------------------------------------------------------------------------
(* Listings depend on the directory and on the aliases only *)

LEMMA EntriesStay ==
  ASSUME UNCHANGED <<file, meta>>, NEW prefix
  PROVE  Entries(prefix)' = Entries(prefix)
<1>1. PICK files : files = Only(FileOrder, {d \in Paths : file[d] # Absent /\ Matches(d, prefix)})
  OBVIOUS
<1>2. {d \in Paths : file'[d] # Absent /\ Matches(d, prefix)}
        = {d \in Paths : file[d] # Absent /\ Matches(d, prefix)}
  OBVIOUS
<1>3. files = Only(FileOrder, {d \in Paths : file'[d] # Absent /\ Matches(d, prefix)})
  BY <1>1, <1>2
<1>4. Entries(prefix) = [i \in DOMAIN files |-> EntryOf(files[i], prefix)]
  BY <1>1 DEF Entries
<1>5. Entries(prefix)' = [i \in DOMAIN files |-> EntryOf(files[i], prefix)']
  BY <1>3 DEF Entries, EntryOf, NameIn
<1>6. \A i : EntryOf(files[i], prefix)' = EntryOf(files[i], prefix)
  BY DEF EntryOf, NameIn
<1> QED BY <1>4, <1>5, <1>6

LEMMA ListingsStay ==
  ASSUME UNCHANGED <<file, meta, aliases>>, NEW prefix
  PROVE  Listings(prefix)' = Listings(prefix)
<1>1. PICK own : own = Entries(prefix)
  OBVIOUS
<1>2. own = Entries(prefix)'
  BY <1>1, EntriesStay
<1>3. \A n : TaggedIn(own, n)' = TaggedIn(own, n)
  BY DEF TaggedIn
<1>4. \A n : AliasIn(own, n)' = AliasIn(own, n)
  BY <1>3 DEF AliasIn
<1>5. NewIn(own)' = NewIn(own)
  BY <1>3 DEF NewIn
<1>6. WithStretchAliases(own)' = WithStretchAliases(own)
  BY <1>3, <1>4, <1>5 DEF WithStretchAliases
<1> QED BY <1>1, <1>2, <1>6 DEF Listings

-----------------------------------------------------------------------------
(* What a get finds, in terms of the files *)

\* No other persona's files are taken for this one's.
Alone(p) == \A q \in Personas : <<p, q>> \notin Shadows

\* The ghosts of a persona that are called n, or were raced on n.
Called(p, n) == {t \in Names : file[<<p, t>>] # Absent /\ (t = n \/ <<t, n>> \in aliases)}

\* The entries of such a persona are its files, under their names.
LEMMA OwnEntries ==
  ASSUME NEW p \in Personas, Alone(p)
  PROVE  /\ \A i \in DOMAIN Entries(p) : \E t \in Names :
              /\ Entries(p)[i].path = <<p, t>> /\ Entries(p)[i].name = t
              /\ Entries(p)[i].size = file[<<p, t>>] /\ file[<<p, t>>] # Absent
         /\ \A t \in Names : file[<<p, t>>] # Absent =>
              \E i \in DOMAIN Entries(p) : /\ Entries(p)[i].path = <<p, t>> /\ Entries(p)[i].name = t
                                           /\ Entries(p)[i].size = file[<<p, t>>]
         /\ \A i, j \in DOMAIN Entries(p) : Entries(p)[i].name = Entries(p)[j].name => i = j
<1> DEFINE own == Entries(p)
<1>1. p # ""
  BY LockerAssumption
<1>2. \A d \in Paths : Matches(d, p) <=> d[1] = p
  BY <1>1 DEF Matches, Alone, Paths
<1>3. \A d \in Paths : d[1] = p => EntryOf(d, p) = [path |-> d, name |-> d[2], size |-> file[d]]
  BY DEF EntryOf, NameIn
<1>4. \A d \in Paths : d = <<d[1], d[2]>> /\ d[2] \in Names
  BY DEF Paths
<1>5. \A i \in DOMAIN own : own[i].path \in Paths /\ file[own[i].path] # Absent
                            /\ own[i].path[1] = p /\ own[i] = EntryOf(own[i].path, p)
  BY <1>2, EntriesAre
<1>6. \A t \in Names : <<p, t>> \in Paths /\ <<p, t>>[1] = p /\ <<p, t>>[2] = t
  BY DEF Paths
<1>7. \A i, j \in DOMAIN own : own[i].path = own[j].path => i = j
  BY EntriesAre
<1>8. \A t \in Names : file[<<p, t>>] # Absent => \E i \in DOMAIN own : own[i].path = <<p, t>>
  <2>1. \A d \in Paths : file[d] # Absent /\ Matches(d, p) => \E i \in DOMAIN own : own[i].path = d
    BY EntriesAre
  <2> SUFFICES ASSUME NEW t \in Names, file[<<p, t>>] # Absent
               PROVE  \E i \in DOMAIN own : own[i].path = <<p, t>>
    OBVIOUS
  <2>2. <<p, t>> \in Paths /\ Matches(<<p, t>>, p)
    BY <1>2, <1>6
  <2> QED BY <2>1, <2>2
<1> HIDE DEF own
<1>9. \A i \in DOMAIN own : /\ own[i].path = <<p, own[i].name>> /\ own[i].name \in Names
                            /\ own[i].size = file[own[i].path]
  <2> SUFFICES ASSUME NEW i \in DOMAIN own
               PROVE  /\ own[i].path = <<p, own[i].name>> /\ own[i].name \in Names
                      /\ own[i].size = file[own[i].path]
    OBVIOUS
  <2>1. PICK d \in Paths : d = own[i].path /\ d[1] = p /\ own[i] = EntryOf(d, p)
    BY <1>5
  <2>2. own[i] = [path |-> d, name |-> d[2], size |-> file[d]]
    BY <1>3, <2>1
  <2>3. own[i].name = d[2] /\ own[i].size = file[d]
    BY <2>2
  <2> QED BY <1>4, <2>1, <2>3
<1>10. \A i \in DOMAIN own : \E t \in Names :
         /\ own[i].path = <<p, t>> /\ own[i].name = t
         /\ own[i].size = file[<<p, t>>] /\ file[<<p, t>>] # Absent
  BY <1>5, <1>9
<1>11. \A t \in Names : file[<<p, t>>] # Absent =>
         \E i \in DOMAIN own : own[i].path = <<p, t>> /\ own[i].name = t /\ own[i].size = file[<<p, t>>]
  <2>1. \A t, u : <<p, t>> = <<p, u>> => t = u
    OBVIOUS
  <2> QED BY <1>8, <1>9, <2>1
<1>12. \A i, j \in DOMAIN own : own[i].name = own[j].name => i = j
  BY <1>7, <1>9
<1> QED BY <1>10, <1>11, <1>12 DEF own

\* What is found is a file that is there.
LEMMA FoundIsThere ==
  ASSUME NEW prefix, NEW list \in Listings(prefix), NEW n, NEW d \in Find(list, n)
  PROVE  d \in Paths /\ file[d] # Absent
<1> DEFINE own == Entries(prefix)
<1>1. \A i \in DOMAIN own : own[i].path \in Paths /\ file[own[i].path] # Absent
  BY EntriesAre
<1>2. CASE NamedIn(own, n) # {}
  <2>1. PICK k \in NamedIn(own, n) : Find(list, n) = {own[k].path}
    BY <1>2, FindIs
  <2>2. k \in DOMAIN own
    BY DEF NamedIn
  <2> QED BY <1>1, <2>1, <2>2
<1>3. CASE n \in NewIn(own)
  <2>1. Find(list, n) = {AliasIn(own, n).path}
    BY <1>3, FindIs
  <2>2. PICK k \in DOMAIN own : AliasIn(own, n).path = own[k].path
    BY <1>3, AliasIs
  <2> QED BY <1>1, <2>1, <2>2
<1>4. CASE NamedIn(own, n) = {} /\ n \notin NewIn(own)
  BY <1>4, FindIs
<1> QED BY <1>2, <1>3, <1>4

\* A persona that has the ghost finds its own, and that name before an alias.
LEMMA OwnFound ==
  ASSUME NEW p \in Personas, Alone(p), NEW n \in Names, NEW list \in Listings(p), Called(p, n) # {}
  PROVE  \E t \in Called(p, n) : Find(list, n) = {<<p, t>>} /\ (n \in Called(p, n) => t = n)
<1> DEFINE own == Entries(p)
<1>1. \A i \in DOMAIN own : own[i].path = <<p, own[i].name>> /\ own[i].name \in Names /\ file[<<p, own[i].name>>] # Absent
  <2>1. \A i \in DOMAIN own : \E t \in Names :
          /\ own[i].path = <<p, t>> /\ own[i].name = t
          /\ own[i].size = file[<<p, t>>] /\ file[<<p, t>>] # Absent
    BY OwnEntries
  <2> HIDE DEF own
  <2> QED BY <2>1
<1>2. \A t \in Names : file[<<p, t>>] # Absent => \E i \in DOMAIN own : own[i].name = t
  BY OwnEntries
<1> HIDE DEF own
<1>3. CASE NamedIn(own, n) # {}
  <2>1. PICK k \in NamedIn(own, n) : Find(list, n) = {own[k].path}
    BY <1>3, FindIs DEF own
  <2>2. own[k].path = <<p, n>> /\ file[<<p, n>>] # Absent
    BY <1>1, <2>1 DEF NamedIn
  <2> QED BY <2>1, <2>2 DEF Called
<1>4. CASE NamedIn(own, n) = {}
  <2>1. n \notin Called(p, n) /\ n \notin {own[i].name : i \in DOMAIN own}
    BY <1>2, <1>4 DEF Called, NamedIn
  <2>2. PICK t \in Names : file[<<p, t>>] # Absent /\ <<t, n>> \in aliases
    BY <2>1 DEF Called
  <2>3. PICK i \in DOMAIN own : own[i].name = t
    BY <1>2, <2>2
  <2>4. n \in NewIn(own)
    BY <2>1, <2>2, <2>3 DEF NewIn, TaggedIn
  <2>5. PICK k \in TaggedIn(own, n) : k \in DOMAIN own /\ AliasIn(own, n).path = own[k].path
    BY <2>4, AliasIs DEF own
  <2>6. Find(list, n) = {own[k].path}
    BY <2>4, <2>5, FindIs DEF own
  <2>7. own[k].name \in Called(p, n) /\ own[k].path = <<p, own[k].name>>
    BY <1>1, <2>5 DEF TaggedIn, Called
  <2> QED BY <2>1, <2>6, <2>7
<1> QED BY <1>3, <1>4

\* Any persona that has the ghost finds one of its own or of a persona whose
\* name continues its own.
LEMMA OwnOrShadow ==
  ASSUME NEW p \in Personas, NEW n \in Names, NEW list \in Listings(p), Called(p, n) # {}
  PROVE  Find(list, n) # {} /\ \A d \in Find(list, n) : Matches(d, p)
<1> DEFINE own == Entries(p)
<1>1. \A i \in DOMAIN own : Matches(own[i].path, p)
  BY EntriesAre
<1>2. PICK t \in Called(p, n) : TRUE
  OBVIOUS
<1>3. t \in Names /\ file[<<p, t>>] # Absent /\ (t = n \/ <<t, n>> \in aliases)
  BY <1>2 DEF Called
<1>4. PICK i \in DOMAIN own : own[i].name = t
  <2>1. <<p, t>> \in Paths /\ <<p, t>>[1] = p /\ <<p, t>>[2] = t
    BY <1>3 DEF Paths
  <2>2. Matches(<<p, t>>, p)
    BY <2>1 DEF Matches
  <2>3. PICK i \in DOMAIN own : own[i].path = <<p, t>>
    BY <1>3, <2>1, <2>2, EntriesAre
  <2>4. own[i] = EntryOf(<<p, t>>, p)
    <3>1. \A j \in DOMAIN own : own[j] = EntryOf(own[j].path, p)
      BY EntriesAre
    <3> QED BY <2>3, <3>1
  <2>5. EntryOf(<<p, t>>, p).name = t
    BY <2>1 DEF EntryOf, NameIn
  <2> QED BY <2>3, <2>4, <2>5
<1> HIDE DEF own
<1>5. CASE NamedIn(own, n) # {}
  <2>1. PICK k \in NamedIn(own, n) : Find(list, n) = {own[k].path}
    BY <1>5, FindIs DEF own
  <2> QED BY <1>1, <2>1 DEF NamedIn
<1>6. CASE NamedIn(own, n) = {}
  <2>1. t # n /\ n \notin {own[j].name : j \in DOMAIN own}
    BY <1>4, <1>6 DEF NamedIn
  <2>2. n \in NewIn(own)
    BY <1>3, <1>4, <2>1 DEF NewIn, TaggedIn
  <2>3. PICK k \in TaggedIn(own, n) : k \in DOMAIN own /\ AliasIn(own, n).path = own[k].path
    BY <2>2, AliasIs DEF own
  <2>4. Find(list, n) = {own[k].path}
    BY <2>2, <2>3, FindIs DEF own
  <2> QED BY <1>1, <2>3, <2>4
<1> QED BY <1>5, <1>6

\* If nothing of that name is found anywhere, nobody has one with its metadata.
LEMMA NobodyHas ==
  ASSUME NEW n \in Names, NEW list \in Listings(""), Find(list, n) = {}
  PROVE  \A d \in Paths : file[d] # Absent /\ meta[d] = "saved" => d[2] # n /\ <<d[2], n>> \notin aliases
<1> DEFINE own == Entries("")
<1> SUFFICES ASSUME NEW d \in Paths, file[d] # Absent, meta[d] = "saved"
             PROVE  d[2] # n /\ <<d[2], n>> \notin aliases
  OBVIOUS
<1>1. PICK i \in DOMAIN own : own[i].path = d /\ own[i] = EntryOf(d, "")
  <2>1. Matches(d, "")
    BY DEF Matches
  <2>2. \E i \in DOMAIN own : own[i].path = d
    BY <2>1, EntriesAre
  <2>3. \A i \in DOMAIN own : own[i] = EntryOf(own[i].path, "")
    BY EntriesAre
  <2> QED BY <2>2, <2>3
<1>2. own[i].name = d[2]
  <2>1. NameIn(d, "") = d[2]
    BY DEF NameIn
  <2>2. EntryOf(d, "").name = NameIn(d, "")
    BY DEF EntryOf
  <2> QED BY <1>1, <2>1, <2>2
<1> HIDE DEF own
<1>3. NamedIn(own, n) = {} /\ n \notin NewIn(own)
  <2>1. NamedIn(own, n) # {} => \E k \in NamedIn(own, n) : Find(list, n) = {own[k].path}
    BY FindIs DEF own
  <2>2. n \in NewIn(own) => Find(list, n) = {AliasIn(own, n).path}
    BY FindIs DEF own
  <2> QED BY <2>1, <2>2
<1>4. d[2] # n
  BY <1>2, <1>3 DEF NamedIn
<1>5. n \notin {own[j].name : j \in DOMAIN own}
  BY <1>3 DEF NamedIn
<1>6. TaggedIn(own, n) = {}
  BY <1>3, <1>5 DEF NewIn
<1> QED BY <1>2, <1>4, <1>6 DEF TaggedIn

-----------------------------------------------------------------------------
(* What a listing shows *)

LEMMA ListingShows ==
  ASSUME NEW p \in Personas, Alone(p), NEW list \in Listings(p)
  PROVE  /\ \A i \in DOMAIN list : /\ \A other \in Listings(p) : Find(other, list[i].name) = {list[i].path}
                                   /\ file[list[i].path] = list[i].size
         /\ \A i, j \in DOMAIN list : list[i].name = list[j].name => i = j
         /\ \A t \in Names : file[<<p, t>>] # Absent =>
              \E i \in 1 .. Len(Entries(p)) : list[i].name = t /\ list[i].size = file[<<p, t>>]
         /\ \A i \in 1 .. Len(Entries(p)) : list[i].path[2] = list[i].name
<1> DEFINE own == Entries(p)
           m == Len(own)
<1>1. /\ DOMAIN own = 1 .. m /\ m \in Nat /\ m <= Len(list)
      /\ DOMAIN list = 1 .. Len(list) /\ Len(list) \in Nat
  BY EntriesAre, ListingsAre
<1>2. \A i \in 1 .. m : list[i] = own[i]
  BY ListingsAre
<1>3. \A i \in m + 1 .. Len(list) : \E a \in NewIn(own) : list[i] = AliasIn(own, a) /\ list[i].name = a
  BY ListingsAre, AliasIs
<1>4. \A i \in DOMAIN list : i \in 1 .. m \/ i \in m + 1 .. Len(list)
  BY <1>1
<1>5. \A i \in DOMAIN own : own[i].path = <<p, own[i].name>> /\ own[i].name \in Names
                            /\ file[own[i].path] = own[i].size
  <2>1. \A i \in DOMAIN own : \E t \in Names :
          /\ own[i].path = <<p, t>> /\ own[i].name = t
          /\ own[i].size = file[<<p, t>>] /\ file[<<p, t>>] # Absent
    BY OwnEntries
  <2> HIDE DEF own
  <2> QED BY <2>1
<1>6. \A i, j \in DOMAIN own : own[i].name = own[j].name => i = j
  BY OwnEntries
<1>7. \A t \in Names : file[<<p, t>>] # Absent =>
        \E i \in DOMAIN own : own[i].path = <<p, t>> /\ own[i].name = t /\ own[i].size = file[<<p, t>>]
  BY OwnEntries
<1>8. \A a \in NewIn(own) : \E k \in DOMAIN own : /\ AliasIn(own, a).path = own[k].path
                                                  /\ AliasIn(own, a).size = own[k].size
  BY AliasIs
<1>9. \A i, j \in m + 1 .. Len(list) : list[i].name = list[j].name => i = j
  BY ListingsAre
<1>10. ASSUME NEW i \in 1 .. m, NEW other \in Listings(p) PROVE Find(other, own[i].name) = {own[i].path}
  <2>1. i \in NamedIn(own, own[i].name)
    BY <1>1 DEF NamedIn
  <2>2. PICK k \in NamedIn(own, own[i].name) : Find(other, own[i].name) = {own[k].path}
    BY <2>1, FindIs
  <2>3. k = i
    BY <1>1, <1>6, <2>2 DEF NamedIn
  <2> QED BY <2>2, <2>3
<1>11. \A a \in NewIn(own) : \A other \in Listings(p) : Find(other, a) = {AliasIn(own, a).path}
  BY FindIs
<1>12. \A a \in NewIn(own) : \A i \in 1 .. m : own[i].name # a
  BY <1>1 DEF NewIn
<1> HIDE DEF own, m
<1>13. ASSUME NEW i \in DOMAIN list
       PROVE  /\ \A other \in Listings(p) : Find(other, list[i].name) = {list[i].path}
              /\ file[list[i].path] = list[i].size
  <2>1. CASE i \in 1 .. m
    BY <1>1, <1>2, <1>5, <1>10, <2>1
  <2>2. CASE i \in m + 1 .. Len(list)
    <3>1. PICK a \in NewIn(own) : list[i] = AliasIn(own, a) /\ list[i].name = a
      BY <1>3, <2>2
    <3>2. \A other \in Listings(p) : Find(other, list[i].name) = {list[i].path}
      BY <1>11, <3>1
    <3>3. PICK k \in DOMAIN own : list[i].path = own[k].path /\ list[i].size = own[k].size
      BY <1>8, <3>1
    <3> QED BY <1>5, <3>2, <3>3
  <2> QED BY <1>4, <2>1, <2>2
<1>14. ASSUME NEW i \in DOMAIN list, NEW j \in DOMAIN list, list[i].name = list[j].name PROVE i = j
  <2>1. ASSUME NEW k \in 1 .. m, NEW l \in m + 1 .. Len(list) PROVE list[k].name # list[l].name
    BY <1>2, <1>3, <1>12
  <2>2. CASE i \in 1 .. m /\ j \in 1 .. m
    BY <1>1, <1>2, <1>6, <1>14, <2>2
  <2>3. CASE i \in m + 1 .. Len(list) /\ j \in m + 1 .. Len(list)
    BY <1>9, <1>14, <2>3
  <2> QED BY <1>4, <1>14, <2>1, <2>2, <2>3
<1>15. \A t \in Names : file[<<p, t>>] # Absent =>
         \E i \in 1 .. m : list[i].name = t /\ list[i].size = file[<<p, t>>]
  BY <1>1, <1>2, <1>7
<1>16. \A i \in 1 .. m : list[i].path[2] = list[i].name
  BY <1>1, <1>2, <1>5
<1> QED BY <1>13, <1>14, <1>15, <1>16 DEF m, own

LEMMA Beginning ==
  ASSUME NEW S, NEW s \in Seq(S), NEW c \in Nat, c <= Len(s)
  PROVE  /\ Len(SubSeq(s, 1, c)) = c /\ DOMAIN SubSeq(s, 1, c) = 1 .. c
         /\ \A i \in 1 .. c : SubSeq(s, 1, c)[i] = s[i]
<1>1. \A i \in 1 .. c : i \in 1 .. Len(s)
  <2>1. \A l \in Nat : c <= l => \A i \in 1 .. c : i \in 1 .. l
    OBVIOUS
  <2> QED BY <2>1
<1>2. \A i \in 1 .. c : s[i] \in S
  BY <1>1
<1>3. /\ SubSeq(s, 1, c) \in Seq(S) /\ Len(SubSeq(s, 1, c)) = IF 1 <= c THEN c - 1 + 1 ELSE 0
      /\ \A i \in 1 .. c - 1 + 1 : SubSeq(s, 1, c)[i] = s[1 + i - 1]
  <2>1. 1 \in Int /\ c \in Int
    OBVIOUS
  <2> QED BY <1>2, <2>1, SubSeqProperties
<1>4. c - 1 + 1 = c /\ (IF 1 <= c THEN c - 1 + 1 ELSE 0) = c /\ \A i \in 1 .. c : 1 + i - 1 = i
  OBVIOUS
<1>5. PICK r : r = SubSeq(s, 1, c)
  OBVIOUS
<1>6. r \in Seq(S) /\ Len(r) = c /\ \A i \in 1 .. c : r[i] = s[i]
  BY <1>3, <1>4, <1>5, Zenon
<1>7. DOMAIN r = 1 .. c
  BY <1>6
<1> QED BY <1>5, <1>6, <1>7, Zenon

\* The first MaxList entries: what dir answers, and nfo without a name.
LEMMA Capped ==
  ASSUME NEW prefix, NEW list \in Listings(prefix), NEW shown,
         shown = SubSeq(list, 1, Min({Len(list), MaxList}))
  PROVE  /\ DOMAIN shown \subseteq DOMAIN list /\ DOMAIN shown = 1 .. Len(shown)
         /\ \A i \in DOMAIN shown : shown[i] = list[i]
         /\ Len(shown) \in Nat /\ Len(shown) <= MaxList
         /\ Len(shown) = Len(list) \/ Len(shown) = MaxList
<1> DEFINE k == Min({Len(list), MaxList})
<1>1. list \in Seq(Range(list)) /\ Len(list) \in Nat /\ DOMAIN list = 1 .. Len(list) /\ MaxList \in Nat
  BY ListingsAre, LockerAssumption
<1>2. k \in {Len(list), MaxList} /\ k <= Len(list) /\ k <= MaxList
  <2>1. {Len(list), MaxList} \in SUBSET Nat /\ {Len(list), MaxList} # {}
    BY <1>1
  <2> QED BY <2>1, Least
<1>3. PICK c \in Nat : c = k
  BY <1>1, <1>2
<1> HIDE DEF k
<1>4. \A i \in 1 .. c : i \in 1 .. Len(list)
  <2>1. \A l \in Nat : c <= l => \A i \in 1 .. c : i \in 1 .. l
    OBVIOUS
  <2> QED BY <1>1, <1>2, <1>3, <2>1
<1>5. shown = SubSeq(list, 1, c)
  BY <1>3 DEF k
<1>6. Len(shown) = c /\ DOMAIN shown = 1 .. c /\ \A i \in 1 .. c : shown[i] = list[i]
  <2>1. c <= Len(list)
    BY <1>2, <1>3
  <2>2. /\ Len(SubSeq(list, 1, c)) = c /\ DOMAIN SubSeq(list, 1, c) = 1 .. c
        /\ \A i \in 1 .. c : SubSeq(list, 1, c)[i] = list[i]
    BY <1>1, <2>1, Beginning, Zenon
  <2> QED BY <1>5, <2>2, Zenon
<1> QED BY <1>1, <1>2, <1>3, <1>4, <1>6

NamedOK(shown, list, n) ==
  /\ DOMAIN shown \subseteq Nat
  /\ \A i \in DOMAIN shown : \E j \in DOMAIN list : shown[i] = list[j]
  /\ \A j \in DOMAIN list : list[j].name = n => \E i \in DOMAIN shown : shown[i] = list[j]
  /\ (\A i, j \in DOMAIN list : list[i] = list[j] => i = j) =>
       \A i, j \in DOMAIN shown : shown[i] = shown[j] => i = j

\* The entries of one name: what nfo answers.
LEMMA Named ==
  ASSUME NEW prefix, NEW list \in Listings(prefix), NEW n, NEW S,
         \A e : e \in S <=> e \in Range(list) /\ e.name = n,
         NEW shown, shown = Only(list, S)
  PROVE  NamedOK(shown, list, n)
<1>1. list \in Seq(Range(list)) /\ DOMAIN list = 1 .. Len(list)
  BY ListingsAre
<1>2. KeptOK(shown, list, S, Len(list))
  BY <1>1, OnlyIs
<1>3. \A j \in DOMAIN list : list[j].name = n => list[j] \in S
  BY DEF Range
<1>4. \A j \in DOMAIN list : list[j] \in S => \E i \in DOMAIN shown : shown[i] = list[j]
  BY <1>1, <1>2 DEF KeptOK
<1>5. shown \in Seq(S)
  BY <1>2 DEF KeptOK
<1>6. \A i \in DOMAIN shown : \E j \in DOMAIN list : shown[i] = list[j]
  BY <1>1, <1>2 DEF KeptOK
<1>7. (\A i, j \in DOMAIN list : list[i] = list[j] => i = j) =>
              \A i, j \in DOMAIN shown : shown[i] = shown[j] => i = j
  BY <1>1, <1>2 DEF KeptOK
<1>8. DOMAIN shown \subseteq Nat
  BY <1>5
<1> QED BY <1>3, <1>4, <1>6, <1>7, <1>8 DEF NamedOK

-----------------------------------------------------------------------------
(* Types *)

Getting == {"findOwn", "findAny", "read"}

TypeInv ==
  /\ file \in [Paths -> Int] /\ stored \in [Paths -> Int]
  /\ meta \in [Paths -> {"none", "broken", "saved"}]
  /\ pc \in [Clients -> Writing \cup Getting \cup {"idle"}]
  /\ req = [c \in Clients |-> req[c]] /\ found = [c \in Clients |-> found[c]]
  /\ steady \in [Clients -> BOOLEAN]
  /\ \A c \in Clients :
       /\ pc[c] # "idle" => req[c].pers \in Personas /\ req[c].name \in Names
       /\ pc[c] \in Writing => req[c].body \in Bodies
       /\ pc[c] = "read" => found[c] \in Paths

LEMMA TypeInit == Init => TypeInv
<1> SUFFICES ASSUME Init PROVE TypeInv
  OBVIOUS
<1>1. Absent \in Int
  BY DEF Absent
<1>2. /\ file \in [Paths -> Int] /\ stored \in [Paths -> Int]
      /\ meta \in [Paths -> {"none", "broken", "saved"}]
  BY <1>1 DEF Init
<1>3. \A c \in Clients : pc[c] = "idle"
  BY DEF Init
<1>4. pc \in [Clients -> Writing \cup Getting \cup {"idle"}] /\ steady \in [Clients -> BOOLEAN]
  BY DEF Init
<1>5. req = [c \in Clients |-> req[c]] /\ found = [c \in Clients |-> found[c]]
  BY DEF Init
<1>6. "idle" \notin Writing /\ "idle" # "read"
  BY DEF Writing
<1> QED BY <1>2, <1>3, <1>4, <1>5, <1>6 DEF TypeInv

\* One handler takes a step; the others stay where they are.
LEMMA TypeGoes ==
  ASSUME TypeInv, NEW c \in Clients, NEW to \in Writing \cup Getting \cup {"idle"}, Goto(c, to),
         NEW r, req' = [req EXCEPT ![c] = r],
         to # "idle" => r.pers \in Personas /\ r.name \in Names,
         to \in Writing => r.body \in Bodies,
         NEW d, found' = [found EXCEPT ![c] = d], to = "read" => d \in Paths,
         file' \in [Paths -> Int], stored' \in [Paths -> Int],
         meta' \in [Paths -> {"none", "broken", "saved"}], steady' \in [Clients -> BOOLEAN]
  PROVE  TypeInv'
<1>1. pc' = [pc EXCEPT ![c] = to] /\ pc \in [Clients -> Writing \cup Getting \cup {"idle"}]
  BY DEF Goto, TypeInv
<1>2. pc' \in [Clients -> Writing \cup Getting \cup {"idle"}] /\ pc'[c] = to
  BY <1>1
<1>3. /\ req' = [e \in Clients |-> req'[e]] /\ found' = [e \in Clients |-> found'[e]]
      /\ req'[c] = r /\ found'[c] = d
  BY DEF TypeInv
<1>4. \A e \in Clients : e # c => pc'[e] = pc[e] /\ req'[e] = req[e] /\ found'[e] = found[e]
  BY <1>1 DEF TypeInv
<1>5. \A e \in Clients :
        /\ pc'[e] # "idle" => req'[e].pers \in Personas /\ req'[e].name \in Names
        /\ pc'[e] \in Writing => req'[e].body \in Bodies
        /\ pc'[e] = "read" => found'[e] \in Paths
  BY <1>2, <1>3, <1>4 DEF TypeInv
<1> QED BY <1>2, <1>3, <1>5 DEF TypeInv

LEMMA TypeFinish ==
  ASSUME TypeInv, NEW c \in Clients, Finish(c),
         file' \in [Paths -> Int], stored' \in [Paths -> Int],
         meta' \in [Paths -> {"none", "broken", "saved"}], steady' \in [Clients -> BOOLEAN]
  PROVE  TypeInv'
<1>1. Goto(c, "idle") /\ req' = [req EXCEPT ![c] = NoRequest] /\ found' = [found EXCEPT ![c] = NoPath]
  BY DEF Finish
<1>2. "idle" \notin Writing /\ "idle" # "read"
  BY DEF Writing
<1> QED BY <1>1, <1>2, TypeGoes

\* What a handler knows of its own request.
LEMMA Requested ==
  ASSUME TypeInv, NEW c \in Clients
  PROVE  /\ req = [req EXCEPT ![c] = req[c]] /\ found = [found EXCEPT ![c] = found[c]]
         /\ pc[c] \in Writing \cup Getting => req[c].pers \in Personas /\ req[c].name \in Names
         /\ pc[c] \in Writing => /\ PathOf(c) \in Paths
                                 /\ req[c].body \in Nat /\ req[c].body # 0 /\ req[c].body \in Bodies
<1>1. pc[c] \in Writing \cup Getting => pc[c] # "idle"
  BY DEF Writing, Getting
<1>2. Bodies \subseteq Nat \ {0}
  BY LockerAssumption
<1>3. pc[c] \in Writing => req[c].pers \in Personas /\ req[c].name \in Names /\ req[c].body \in Bodies
  BY <1>1 DEF TypeInv
<1>4. req = [req EXCEPT ![c] = req[c]] /\ found = [found EXCEPT ![c] = found[c]]
  BY DEF TypeInv
<1>5. pc[c] \in Writing \cup Getting => req[c].pers \in Personas /\ req[c].name \in Names
  BY <1>1 DEF TypeInv
<1>6. pc[c] \in Writing => PathOf(c) \in Paths
  BY <1>3 DEF PathOf, Paths
<1> QED BY <1>2, <1>3, <1>4, <1>5, <1>6

LEMMA TypeStep ==
  ASSUME TypeInv, NEW c \in Clients, Handler(c)
  PROVE  TypeInv'
<1> DEFINE Same == /\ file' \in [Paths -> Int] /\ stored' \in [Paths -> Int]
                   /\ meta' \in [Paths -> {"none", "broken", "saved"}]
                   /\ steady' \in [Clients -> BOOLEAN]
<1>1. /\ req = [req EXCEPT ![c] = req[c]] /\ found = [found EXCEPT ![c] = found[c]]
      /\ pc[c] \in Writing \cup Getting => req[c].pers \in Personas /\ req[c].name \in Names
      /\ pc[c] \in Writing => /\ PathOf(c) \in Paths /\ req[c].body \in Bodies
                              /\ req[c].body \in Nat
  BY Requested
<1>2. /\ file \in [Paths -> Int] /\ stored \in [Paths -> Int]
      /\ meta \in [Paths -> {"none", "broken", "saved"}] /\ steady \in [Clients -> BOOLEAN]
  BY DEF TypeInv
<1>3. /\ {"truncate", "write", "truncateMeta", "writeMeta"} = Writing
      /\ {"findOwn", "findAny", "read"} = Getting
      /\ Writing \cap Getting = {} /\ "read" \notin Writing /\ "read" \notin {"findOwn", "findAny"}
      /\ "idle" \notin Writing \cup Getting
  BY DEF Writing, Getting
<1>4. {Absent, Mixed, Empty, Unknown} \subseteq Int /\ Nat \subseteq Int
  BY DEF Absent, Mixed, Empty, Unknown
<1>5. ASSUME NEW to \in Writing \cup {"findOwn", "findAny"}, Goto(c, to), UNCHANGED <<req, found>>, Same,
             pc[c] \in Writing \cup Getting, to \in Writing => pc[c] \in Writing
      PROVE  TypeInv'
  <2>1. to # "read" /\ to \in Writing \cup Getting \cup {"idle"}
    BY <1>3, <1>5
  <2>2. req' = [req EXCEPT ![c] = req[c]] /\ found' = [found EXCEPT ![c] = found[c]]
    BY <1>1, <1>5
  <2> QED BY <1>1, <1>5, <2>1, <2>2, TypeGoes
<1>6. ASSUME Disturb PROVE steady' \in [Clients -> BOOLEAN]
  BY <1>6 DEF Disturb
<1>7. CASE Put(c)
  <2>1. PICK u \in Uploads :
          /\ req' = [req EXCEPT ![c] = [cmd |-> "put", pers |-> u[1], name |-> u[2], body |-> u[3]]]
          /\ stored' = IF Writers(<<u[1], u[2]>>) = {} THEN stored ELSE [stored EXCEPT ![<<u[1], u[2]>>] = Unknown]
    BY <1>7 DEF Put
  <2>2. u[1] \in Personas /\ u[2] \in Names /\ u[3] \in Bodies
    BY LockerAssumption
  <2>3. Goto(c, "truncate") /\ UNCHANGED <<file, meta, found, steady>>
    BY <1>7 DEF Put, disk
  <2>4. stored' \in [Paths -> Int]
    BY <1>2, <1>4, <2>1
  <2>5. found' = [found EXCEPT ![c] = found[c]]
    BY <1>1, <2>3
  <2>6. "truncate" \in Writing /\ "truncate" # "read"
    BY <1>3
  <2> DEFINE r == [cmd |-> "put", pers |-> u[1], name |-> u[2], body |-> u[3]]
  <2>7. r.pers \in Personas /\ r.name \in Names /\ r.body \in Bodies /\ req' = [req EXCEPT ![c] = r]
    BY <2>1, <2>2
  <2> HIDE DEF r
  <2> QED BY <1>2, <2>3, <2>4, <2>5, <2>6, <2>7, TypeGoes
<1>8. CASE Truncate(c)
  <2>1. pc[c] \in Writing /\ Goto(c, "write") /\ UNCHANGED <<meta, req, found, stored>>
    BY <1>3, <1>8 DEF Truncate
  <2>2. file' \in [Paths -> Int]
    BY <1>2, <1>4, <1>8 DEF Truncate
  <2> QED BY <1>2, <1>3, <1>5, <1>6, <1>8, <2>1, <2>2 DEF Truncate
<1>9. CASE Write(c)
  <2>1. pc[c] \in Writing /\ Goto(c, "truncateMeta") /\ UNCHANGED <<meta, req, found, stored>>
    BY <1>3, <1>9 DEF Write
  <2>2. file' \in [Paths -> Int]
    <3>1. PICK v \in Int : file' = [file EXCEPT ![PathOf(c)] = v]
      <4>1. req[c].body \in Int /\ Mixed \in Int
        BY <1>1, <1>4, <2>1
      <4> QED BY <1>9, <4>1 DEF Write
    <3> QED BY <1>2, <3>1
  <2> QED BY <1>2, <1>3, <1>5, <1>6, <1>9, <2>1, <2>2 DEF Write
<1>10. CASE TruncateMeta(c)
  <2>1. pc[c] \in Writing /\ Goto(c, "writeMeta") /\ UNCHANGED <<file, req, found, stored>>
    BY <1>3, <1>10 DEF TruncateMeta
  <2>2. meta' \in [Paths -> {"none", "broken", "saved"}]
    BY <1>2, <1>10 DEF TruncateMeta
  <2> QED BY <1>2, <1>3, <1>5, <1>6, <1>10, <2>1, <2>2 DEF TruncateMeta
<1>11. CASE WriteMeta(c)
  <2>1. pc[c] \in Writing /\ Finish(c) /\ UNCHANGED file
    BY <1>3, <1>11 DEF WriteMeta
  <2>2. meta' \in [Paths -> {"none", "broken", "saved"}]
    BY <1>2, <1>11 DEF WriteMeta
  <2>3. stored' \in [Paths -> Int]
    <3>1. PICK v : stored' = [stored EXCEPT ![PathOf(c)] = v] /\ v \in {stored[PathOf(c)], req[c].body}
      BY <1>11 DEF WriteMeta
    <3>2. v \in Int
      BY <1>1, <1>2, <1>4, <2>1, <3>1
    <3> QED BY <1>2, <3>1, <3>2
  <2> QED BY <1>2, <1>6, <1>11, <2>1, <2>2, <2>3, TypeFinish DEF WriteMeta
<1>12. CASE PutFails(c)
  <2>1. stored' \in [Paths -> Int] /\ Finish(c) /\ UNCHANGED <<file, meta, steady>>
    BY <1>2, <1>4, <1>12 DEF PutFails, disk
  <2> QED BY <1>2, <2>1, TypeFinish
<1>13. CASE Get(c)
  <2>1. PICK p \in Personas, n \in Names : req' = [req EXCEPT ![c] = [cmd |-> "get", pers |-> p, name |-> n]]
    <3>1. PICK q \in Requests : req' = [req EXCEPT ![c] = [cmd |-> "get", pers |-> q[1], name |-> q[2]]]
      BY <1>13 DEF Get
    <3>2. q[1] \in Personas /\ q[2] \in Names
      BY LockerAssumption DEF Paths
    <3> QED BY <3>1, <3>2
  <2>2. Goto(c, "findOwn") /\ UNCHANGED <<file, meta, found, stored>> /\ steady' \in [Clients -> BOOLEAN]
    BY <1>2, <1>13 DEF Get, disk
  <2> DEFINE r == [cmd |-> "get", pers |-> p, name |-> n]
  <2>3. r.pers \in Personas /\ r.name \in Names /\ req' = [req EXCEPT ![c] = r]
    BY <2>1
  <2>4. "findOwn" \in Getting /\ "findOwn" # "read" /\ "findOwn" \notin Writing
    BY <1>3
  <2>5. found' = [found EXCEPT ![c] = found[c]]
    BY <1>1, <2>2
  <2> HIDE DEF r
  <2> QED BY <1>2, <2>2, <2>3, <2>4, <2>5, TypeGoes
<1>14. ASSUME NEW d \in Paths, found' = [found EXCEPT ![c] = d], Goto(c, "read"), req' = req,
              UNCHANGED <<file, meta, stored, steady>>, pc[c] \in Getting
       PROVE  TypeInv'
  <2>1. "read" \in Getting /\ "read" \notin Writing
    BY <1>3
  <2>2. req' = [req EXCEPT ![c] = req[c]]
    BY <1>1, <1>14
  <2> QED BY <1>1, <1>2, <1>14, <2>1, <2>2, TypeGoes
<1>15. ASSUME NEW response, Answer(c, response), UNCHANGED <<file, meta, stored>> PROVE TypeInv'
  <2>1. Finish(c) /\ steady' \in [Clients -> BOOLEAN]
    BY <1>2, <1>15 DEF Answer
  <2> QED BY <1>2, <1>15, <2>1, TypeFinish
<1>16. CASE FindOwn(c)
  <2>1. pc[c] \in Getting /\ UNCHANGED <<file, meta, req, stored, steady>>
    BY <1>3, <1>16 DEF FindOwn, disk
  <2>2. PICK list \in Listings(req[c].pers) :
          \/ \E d \in Find(list, req[c].name) : found' = [found EXCEPT ![c] = d] /\ Goto(c, "read")
          \/ Goto(c, "findAny") /\ UNCHANGED found
    BY <1>16 DEF FindOwn
  <2>3. CASE \E d \in Find(list, req[c].name) : found' = [found EXCEPT ![c] = d] /\ Goto(c, "read")
    BY <1>14, <2>1, <2>3, FoundIsThere
  <2>4. CASE Goto(c, "findAny") /\ UNCHANGED found
    BY <1>2, <1>3, <1>5, <2>1, <2>4
  <2> QED BY <2>2, <2>3, <2>4
<1>17. CASE FindAny(c)
  <2>1. pc[c] \in Getting /\ UNCHANGED <<file, meta, stored>>
    BY <1>3, <1>17 DEF FindAny, disk
  <2>2. PICK list \in Listings("") :
          \/ /\ \E d \in Find(list, req[c].name) : found' = [found EXCEPT ![c] = d]
             /\ Goto(c, "read") /\ UNCHANGED <<req, steady>>
          \/ Answer(c, NotFound(c))
    BY <1>17 DEF FindAny
  <2>3. CASE /\ \E d \in Find(list, req[c].name) : found' = [found EXCEPT ![c] = d]
             /\ Goto(c, "read") /\ UNCHANGED <<req, steady>>
    BY <1>14, <2>1, <2>3, FoundIsThere
  <2> QED BY <1>15, <2>1, <2>2, <2>3
<1>18. CASE ReadFile(c)
  BY <1>15, <1>18 DEF ReadFile, disk
<1>19. CASE GetFails(c)
  BY <1>15, <1>19 DEF GetFails, disk
<1>20. CASE List(c) \/ Nfo(c)
  BY <1>20 DEF List, Nfo, disk, TypeInv
<1> QED BY <1>7, <1>8, <1>9, <1>10, <1>11, <1>12, <1>13, <1>16, <1>17, <1>18, <1>19, <1>20
        DEF Handler

LEMMA TypeNext == ASSUME TypeInv, [Next]_vars PROVE TypeInv'
<1>1. CASE UNCHANGED vars
  BY <1>1 DEF vars, disk, TypeInv
<1>2. CASE AliasesChange
  BY <1>2 DEF AliasesChange, Disturb, disk, TypeInv
<1>3. CASE Restart
  <2>1. /\ pc' = [c \in Clients |-> "idle"] /\ req' = [c \in Clients |-> NoRequest]
        /\ found' = [c \in Clients |-> NoPath] /\ steady' = [c \in Clients |-> TRUE]
        /\ UNCHANGED <<file, meta>>
    BY <1>3 DEF Restart, disk
  <2>2. stored' \in [Paths -> Int]
    <3>1. Unknown \in Int /\ stored \in [Paths -> Int]
      BY DEF Unknown, TypeInv
    <3> QED BY <1>3, <3>1 DEF Restart
  <2>3. "idle" \notin Writing /\ "idle" # "read"
    BY DEF Writing
  <2> QED BY <2>1, <2>2, <2>3 DEF TypeInv
<1> QED BY <1>1, <1>2, <1>3, TypeStep DEF Next

-----------------------------------------------------------------------------
(* Uploads *)

UploadOK(d) ==
  /\ meta[d] # "none" => file[d] # Absent
  /\ \A c \in Writers(d) : pc[c] # "truncate" => file[d] # Absent
  /\ stored[d] # Unknown =>
       /\ Writers(d) = {} => file[d] = stored[d]
       /\ \A c, e \in Writers(d) : c = e
       /\ \A c \in Writers(d) : /\ pc[c] = "truncate" => file[d] = stored[d]
                                /\ pc[c] = "write" => file[d] = Empty
                                /\ pc[c] \in {"truncateMeta", "writeMeta"} => file[d] = req[c].body

UploadInv == \A d \in Paths : UploadOK(d)

LEMMA UploadInit == Init => UploadInv
<1> SUFFICES ASSUME Init, NEW d \in Paths PROVE UploadOK(d)
  BY DEF UploadInv
<1>1. \A c \in Clients : pc[c] \notin Writing
  BY DEF Init, Writing
<1>2. Writers(d) = {}
  BY <1>1 DEF Writers
<1>3. file[d] = Absent /\ stored[d] = Absent /\ meta[d] = "none"
  BY DEF Init
<1> QED BY <1>2, <1>3 DEF UploadOK

\* One handler goes from one step to another: the other writers stay.
LEMMA WritersMove ==
  ASSUME TypeInv, NEW c \in Clients, NEW to, Goto(c, to),
         \A e \in Clients \ {c} : req'[e] = req[e]
  PROVE  /\ pc'[c] = to /\ \A e \in Clients \ {c} : pc'[e] = pc[e] /\ req'[e] = req[e]
         /\ \A d : Writers(d)' \ {c} = Writers(d) \ {c}
         /\ \A d : c \in Writers(d)' <=> to \in Writing /\ PathOf(c)' = d
         /\ \A d : c \in Writers(d) <=> pc[c] \in Writing /\ PathOf(c) = d
<1>1. pc'[c] = to /\ \A e \in Clients \ {c} : pc'[e] = pc[e] /\ req'[e] = req[e]
  BY DEF Goto, TypeInv
<1>2. \A e \in Clients \ {c} : PathOf(e)' = PathOf(e)
  BY <1>1 DEF PathOf
<1>3. \A d : Writers(d)' \ {c} = Writers(d) \ {c}
  BY <1>1, <1>2 DEF Writers
<1>4. \A d : c \in Writers(d)' <=> to \in Writing /\ PathOf(c)' = d
  BY <1>1 DEF Writers
<1>5. \A d : c \in Writers(d) <=> pc[c] \in Writing /\ PathOf(c) = d
  BY DEF Writers
<1> QED BY <1>1, <1>3, <1>4, <1>5

\* What does not touch a ghost keeps what is known of it.
LEMMA UploadKept ==
  ASSUME TypeInv, NEW d \in Paths, UploadOK(d), file'[d] = file[d], meta'[d] = meta[d], stored'[d] = stored[d],
         Writers(d)' = Writers(d), \A e \in Writers(d) : pc'[e] = pc[e] /\ req'[e] = req[e]
  PROVE  UploadOK(d)'
BY DEF UploadOK

\* A handler of c that is not in an upload leaves every upload alone.
LEMMA UploadApart ==
  ASSUME TypeInv, UploadInv, NEW c \in Clients, NEW to, Goto(c, to), pc[c] \notin Writing, to \notin Writing,
         \A e \in Clients \ {c} : req'[e] = req[e], UNCHANGED <<file, meta, stored>>
  PROVE  UploadInv'
<1> SUFFICES ASSUME NEW d \in Paths PROVE UploadOK(d)'
  BY DEF UploadInv
<1>1. Writers(d)' = Writers(d) /\ \A e \in Writers(d) : pc'[e] = pc[e] /\ req'[e] = req[e]
  <2>1. c \notin Writers(d) /\ c \notin Writers(d)' /\ Writers(d) \subseteq Clients
    BY WritersMove DEF Writers
  <2> QED BY <2>1, WritersMove
<1> QED BY <1>1, UploadKept DEF UploadInv

\* The next step of an upload.
LEMMA UploadMoves ==
  ASSUME TypeInv, NEW d \in Paths, UploadOK(d), NEW c \in Clients, pc[c] \in Writing, NEW to, Goto(c, to),
         \A e \in Clients \ {c} : req'[e] = req[e]
  PROVE  /\ \A e \in Writers(d) \ {c} : pc'[e] = pc[e] /\ req'[e] = req[e]
         /\ Writers(d)' \ {c} = Writers(d) \ {c} /\ pc'[c] = to
         /\ stored[d] # Unknown /\ PathOf(c) = d => Writers(d) = {c}
         /\ c \in Writers(d) <=> PathOf(c) = d
<1>1. Writers(d) \subseteq Clients
  BY DEF Writers
<1>2. stored[d] # Unknown => \A e, f \in Writers(d) : e = f
  BY DEF UploadOK
<1>3. c \in Writers(d) <=> PathOf(c) = d
  BY WritersMove
<1> QED BY <1>1, <1>2, <1>3, WritersMove

\* A step of an upload leaves the other ghosts alone.
LEMMA UploadElsewhere ==
  ASSUME TypeInv, UploadInv, NEW d \in Paths, NEW c \in Clients, pc[c] \in Writing, NEW to, Goto(c, to),
         \A e \in Clients \ {c} : req'[e] = req[e],
         PathOf(c) # d, to \in Writing => PathOf(c)' = PathOf(c),
         file'[d] = file[d], meta'[d] = meta[d], stored'[d] = stored[d]
  PROVE  UploadOK(d)'
<1>1. c \notin Writers(d) /\ c \notin Writers(d)'
  BY WritersMove
<1>2. Writers(d)' = Writers(d)
  BY <1>1, WritersMove
<1>3. \A e \in Writers(d) : pc'[e] = pc[e] /\ req'[e] = req[e]
  BY <1>1, WritersMove DEF Writers
<1> QED BY <1>2, <1>3, UploadKept DEF UploadInv

LEMMA UploadStep ==
  ASSUME TypeInv, UploadInv, NEW c \in Clients, Handler(c)
  PROVE  UploadInv'
<1> USE DEF disk
<1>1. /\ req = [e \in Clients |-> req[e]]
      /\ pc[c] \in Writing => /\ PathOf(c) \in Paths
                              /\ req[c].body \in Nat /\ req[c].body # 0 /\ req[c].body \in Bodies
  BY Requested DEF TypeInv
<1>2. file \in [Paths -> Int] /\ stored \in [Paths -> Int] /\ meta \in [Paths -> {"none", "broken", "saved"}]
  BY DEF TypeInv
<1>3. "truncate" \in Writing /\ "write" \in Writing /\ "truncateMeta" \in Writing /\ "writeMeta" \in Writing
  BY DEF Writing
<1>4. \A w \in {"idle", "findOwn", "findAny", "read"} : w \notin Writing
  BY DEF Writing
<1>5. \A d \in Paths : UploadOK(d)
  BY DEF UploadInv
<1>6. Empty # Absent /\ Mixed # Absent /\ \A n \in Nat : n # Absent /\ n # Mixed /\ n >= Empty
  BY DEF Empty, Absent, Mixed
<1>7. ASSUME Finish(c) PROVE Goto(c, "idle") /\ \A e \in Clients \ {c} : req'[e] = req[e]
  BY <1>1, <1>7 DEF Finish
<1>8. CASE Put(c)
  <2>1. PICK u \in Uploads :
          /\ req' = [req EXCEPT ![c] = [cmd |-> "put", pers |-> u[1], name |-> u[2], body |-> u[3]]]
          /\ stored' = IF Writers(<<u[1], u[2]>>) = {} THEN stored ELSE [stored EXCEPT ![<<u[1], u[2]>>] = Unknown]
    BY <1>8 DEF Put
  <2>2. Goto(c, "truncate") /\ UNCHANGED <<file, meta>> /\ pc[c] = "idle"
    BY <1>8 DEF Put
  <2>3. <<u[1], u[2]>> \in Paths
    BY LockerAssumption DEF Paths
  <2>4. PathOf(c)' = <<u[1], u[2]>> /\ \A e \in Clients \ {c} : req'[e] = req[e]
    BY <1>1, <2>1 DEF PathOf
  <2> SUFFICES ASSUME NEW d \in Paths PROVE UploadOK(d)'
    BY DEF UploadInv
  <2>5. c \notin Writers(d) /\ (c \in Writers(d)' <=> d = <<u[1], u[2]>>)
        /\ Writers(d)' \ {c} = Writers(d) \ {c} /\ pc'[c] = "truncate"
    BY <1>3, <1>4, <2>2, <2>4, WritersMove
  <2>6. \A e \in Writers(d) : pc'[e] = pc[e] /\ req'[e] = req[e]
    BY <2>2, <2>4, <2>5, WritersMove DEF Writers
  <2>7. CASE d # <<u[1], u[2]>>
    <3>1. stored'[d] = stored[d] /\ Writers(d)' = Writers(d)
      BY <1>2, <2>1, <2>5, <2>7
    <3> QED BY <1>5, <2>2, <2>6, <3>1, UploadKept
  <2>8. CASE d = <<u[1], u[2]>> /\ Writers(d) = {}
    <3>1. Writers(d)' = {c}
      BY <2>5, <2>8
    <3>2. file'[d] = file[d] /\ meta'[d] = meta[d] /\ stored'[d] = stored[d]
      BY <2>1, <2>2, <2>8
    <3> QED BY <1>5, <2>5, <2>8, <3>1, <3>2 DEF UploadOK
  <2>9. CASE d = <<u[1], u[2]>> /\ Writers(d) # {}
    <3>1. stored'[d] = Unknown
      BY <1>2, <2>1, <2>9
    <3>2. \A e \in Writers(d)' : e \in Writers(d) \/ pc'[e] = "truncate"
      BY <2>5
    <3> QED BY <1>5, <2>2, <2>6, <3>1, <3>2 DEF UploadOK
  <2> QED BY <2>7, <2>8, <2>9
<1>9. CASE Truncate(c)
  <2>1. /\ pc[c] = "truncate" /\ Goto(c, "write") /\ req' = req /\ UNCHANGED <<meta, stored>>
        /\ PathOf(c)' = PathOf(c) /\ file' = [file EXCEPT ![PathOf(c)] = Empty]
    BY <1>9 DEF Truncate, PathOf
  <2> SUFFICES ASSUME NEW d \in Paths PROVE UploadOK(d)'
    BY DEF UploadInv
  <2>2. CASE d # PathOf(c)
    <3>1. file'[d] = file[d]
      BY <1>2, <2>1, <2>2
    <3> QED BY <1>3, <2>1, <2>2, <3>1, UploadElsewhere
  <2>3. CASE d = PathOf(c)
    <3>1. file'[d] = Empty
      BY <1>2, <2>1, <2>3
    <3>2. /\ \A e \in Writers(d) \ {c} : pc'[e] = pc[e] /\ req'[e] = req[e]
          /\ Writers(d)' \ {c} = Writers(d) \ {c} /\ pc'[c] = "write"
          /\ stored[d] # Unknown => Writers(d) = {c}
          /\ c \in Writers(d) /\ c \in Writers(d)'
      BY <1>3, <1>5, <2>1, <2>3, UploadMoves, WritersMove
    <3>3. stored[d] # Unknown => Writers(d)' = {c}
      BY <3>2
    <3> QED BY <1>5, <1>6, <2>1, <3>1, <3>2, <3>3 DEF UploadOK
  <2> QED BY <2>2, <2>3
<1>10. CASE Write(c)
  <2>1. /\ pc[c] = "write" /\ Goto(c, "truncateMeta") /\ req' = req /\ UNCHANGED <<meta, stored>>
        /\ PathOf(c)' = PathOf(c)
        /\ file' = [file EXCEPT ![PathOf(c)] = IF @ = Mixed \/ @ > req[c].body THEN Mixed ELSE req[c].body]
    BY <1>10 DEF Write, PathOf
  <2> SUFFICES ASSUME NEW d \in Paths PROVE UploadOK(d)'
    BY DEF UploadInv
  <2>2. CASE d # PathOf(c)
    <3>1. file'[d] = file[d]
      BY <1>2, <2>1, <2>2
    <3> QED BY <1>3, <2>1, <2>2, <3>1, UploadElsewhere
  <2>3. CASE d = PathOf(c)
    <3>1. file'[d] = IF file[d] = Mixed \/ file[d] > req[c].body THEN Mixed ELSE req[c].body
      BY <1>2, <2>1, <2>3
    <3>2. file'[d] # Absent /\ (file[d] = Empty => file'[d] = req[c].body)
      <4>1. req[c].body \in Nat
        BY <1>1, <1>3, <2>1
      <4>2. ~(Empty > req[c].body) /\ Empty # Mixed
        BY <4>1 DEF Empty, Mixed
      <4> QED BY <1>6, <3>1, <4>1, <4>2
    <3>3. /\ \A e \in Writers(d) \ {c} : pc'[e] = pc[e] /\ req'[e] = req[e]
          /\ Writers(d)' \ {c} = Writers(d) \ {c} /\ pc'[c] = "truncateMeta"
          /\ stored[d] # Unknown => Writers(d) = {c}
          /\ c \in Writers(d) /\ c \in Writers(d)'
      BY <1>3, <1>5, <2>1, <2>3, UploadMoves, WritersMove
    <3>4. stored[d] # Unknown => Writers(d)' = {c} /\ file[d] = Empty
      BY <1>5, <2>1, <3>3 DEF UploadOK
    <3> QED BY <1>5, <2>1, <3>2, <3>3, <3>4 DEF UploadOK
  <2> QED BY <2>2, <2>3
<1>11. CASE TruncateMeta(c)
  <2>1. /\ pc[c] = "truncateMeta" /\ Goto(c, "writeMeta") /\ req' = req /\ UNCHANGED <<file, stored>>
        /\ PathOf(c)' = PathOf(c) /\ meta' = [meta EXCEPT ![PathOf(c)] = "broken"]
    BY <1>11 DEF TruncateMeta, PathOf
  <2> SUFFICES ASSUME NEW d \in Paths PROVE UploadOK(d)'
    BY DEF UploadInv
  <2>2. CASE d # PathOf(c)
    <3>1. meta'[d] = meta[d]
      BY <1>2, <2>1, <2>2
    <3> QED BY <1>3, <2>1, <2>2, <3>1, UploadElsewhere
  <2>3. CASE d = PathOf(c)
    <3>1. /\ \A e \in Writers(d) \ {c} : pc'[e] = pc[e] /\ req'[e] = req[e]
          /\ Writers(d)' \ {c} = Writers(d) \ {c} /\ pc'[c] = "writeMeta"
          /\ stored[d] # Unknown => Writers(d) = {c}
          /\ c \in Writers(d) /\ c \in Writers(d)'
      BY <1>3, <1>5, <2>1, <2>3, UploadMoves, WritersMove
    <3>2. file[d] # Absent
      BY <1>5, <2>1, <3>1 DEF UploadOK
    <3>3. stored[d] # Unknown => Writers(d)' = {c} /\ file[d] = req[c].body
      BY <1>5, <2>1, <3>1 DEF UploadOK
    <3> QED BY <1>5, <2>1, <3>1, <3>2, <3>3 DEF UploadOK
  <2> QED BY <2>2, <2>3
<1>12. CASE WriteMeta(c)
  <2>1. /\ pc[c] = "writeMeta" /\ Goto(c, "idle") /\ file' = file
        /\ \A e \in Clients \ {c} : req'[e] = req[e]
        /\ stored' = [stored EXCEPT ![PathOf(c)] = IF @ = Unknown THEN @ ELSE req[c].body]
        /\ \E s : meta' = [meta EXCEPT ![PathOf(c)] = s]
    BY <1>7, <1>12 DEF WriteMeta
  <2> SUFFICES ASSUME NEW d \in Paths PROVE UploadOK(d)'
    BY DEF UploadInv
  <2>2. CASE d # PathOf(c)
    <3>1. meta'[d] = meta[d] /\ stored'[d] = stored[d]
      BY <1>2, <2>1, <2>2
    <3> QED BY <1>3, <1>4, <2>1, <2>2, <3>1, UploadElsewhere
  <2>3. CASE d = PathOf(c)
    <3>1. /\ \A e \in Writers(d) \ {c} : pc'[e] = pc[e] /\ req'[e] = req[e]
          /\ Writers(d)' \ {c} = Writers(d) \ {c}
          /\ stored[d] # Unknown => Writers(d) = {c}
          /\ c \in Writers(d) /\ c \notin Writers(d)'
      BY <1>3, <1>4, <1>5, <2>1, <2>3, UploadMoves, WritersMove
    <3>2. stored'[d] = IF stored[d] = Unknown THEN Unknown ELSE req[c].body
      BY <1>2, <2>1, <2>3
    <3>3. file[d] # Absent
      BY <1>5, <2>1, <3>1 DEF UploadOK
    <3>4. stored[d] # Unknown => Writers(d)' = {} /\ file[d] = req[c].body
      BY <1>5, <2>1, <3>1 DEF UploadOK
    <3>5. \A e \in Writers(d)' : e \in Writers(d) /\ pc'[e] = pc[e]
      BY <3>1
    <3> QED BY <1>5, <2>1, <3>2, <3>3, <3>4, <3>5 DEF UploadOK
  <2> QED BY <2>2, <2>3
<1>13. CASE PutFails(c)
  <2>1. /\ pc[c] \in Writing /\ Goto(c, "idle") /\ UNCHANGED <<file, meta>>
        /\ \A e \in Clients \ {c} : req'[e] = req[e]
        /\ stored' = [stored EXCEPT ![PathOf(c)] = Unknown]
    BY <1>7, <1>13 DEF PutFails
  <2> SUFFICES ASSUME NEW d \in Paths PROVE UploadOK(d)'
    BY DEF UploadInv
  <2>2. CASE d # PathOf(c)
    <3>1. stored'[d] = stored[d]
      BY <1>2, <2>1, <2>2
    <3> QED BY <1>4, <2>1, <2>2, <3>1, UploadElsewhere
  <2>3. CASE d = PathOf(c)
    <3>1. stored'[d] = Unknown
      BY <1>2, <2>1, <2>3
    <3>2. \A e \in Writers(d)' : e \in Writers(d) /\ pc'[e] = pc[e]
      BY <1>4, <1>5, <2>1, <2>3, UploadMoves, WritersMove
    <3> QED BY <1>5, <2>1, <3>1, <3>2 DEF UploadOK
  <2> QED BY <2>2, <2>3
<1>14. CASE Get(c)
  <2>1. /\ pc[c] = "idle" /\ Goto(c, "findOwn") /\ UNCHANGED <<file, meta, stored>>
        /\ \A e \in Clients \ {c} : req'[e] = req[e]
    BY <1>1, <1>14 DEF Get
  <2> QED BY <1>4, <2>1, UploadApart
<1>15. CASE FindOwn(c)
  <2>1. /\ pc[c] = "findOwn" /\ (Goto(c, "read") \/ Goto(c, "findAny"))
        /\ UNCHANGED <<file, meta, stored, req>>
    BY <1>15 DEF FindOwn
  <2>2. pc[c] = "findOwn"
    BY <1>15 DEF FindOwn
  <2> QED BY <1>4, <2>1, <2>2, UploadApart
<1>16. CASE FindAny(c)
  <2>1. pc[c] = "findAny" /\ UNCHANGED <<file, meta, stored>>
    BY <1>16 DEF FindAny
  <2>2. (Goto(c, "read") /\ req' = req) \/ Finish(c)
    BY <1>16 DEF FindAny, Answer
  <2> QED BY <1>4, <1>7, <2>1, <2>2, UploadApart
<1>17. CASE ReadFile(c)
  <2>1. pc[c] = "read" /\ Finish(c) /\ UNCHANGED <<file, meta, stored>>
    BY <1>17 DEF ReadFile, Answer
  <2> QED BY <1>4, <1>7, <2>1, UploadApart
<1>18. CASE GetFails(c)
  <2>1. pc[c] \in {"findOwn", "findAny", "read"} /\ Finish(c) /\ UNCHANGED <<file, meta, stored>>
    BY <1>18 DEF GetFails, Answer
  <2> QED BY <1>4, <1>7, <2>1, UploadApart
<1>19. CASE List(c) \/ Nfo(c)
  <2>1. UNCHANGED <<file, meta, stored, pc, req>>
    BY <1>19 DEF List, Nfo
  <2> QED BY <2>1 DEF UploadInv, UploadOK, Writers, PathOf
<1> QED BY <1>8, <1>9, <1>10, <1>11, <1>12, <1>13, <1>14, <1>15, <1>16, <1>17, <1>18, <1>19
        DEF Handler

LEMMA UploadNext == ASSUME TypeInv, UploadInv, [Next]_vars PROVE UploadInv'
<1>1. CASE UNCHANGED vars \/ AliasesChange
  <2>1. UNCHANGED <<file, meta, stored, pc, req>>
    BY <1>1 DEF vars, disk, AliasesChange
  <2> QED BY <2>1 DEF UploadInv, UploadOK, Writers, PathOf
<1>2. CASE Restart
  <2> SUFFICES ASSUME NEW d \in Paths PROVE UploadOK(d)'
    BY DEF UploadInv
  <2>1. UNCHANGED <<file, meta>> /\ stored'[d] = IF Writers(d) = {} THEN stored[d] ELSE Unknown
    BY <1>2 DEF Restart, disk
  <2>2. Writers(d)' = {}
    BY <1>2 DEF Restart, Writers, Writing
  <2>3. UploadOK(d)
    BY DEF UploadInv
  <2> QED BY <2>1, <2>2, <2>3 DEF UploadOK
<1> QED BY <1>1, <1>2, UploadStep DEF Next

-----------------------------------------------------------------------------
(* Gets in progress *)

\* What a get of p for n may read.
Delivers(p, n, d) ==
  Called(p, n) # {} =>
    /\ Matches(d, p)
    /\ Alone(p) => d[1] = p /\ d[2] \in Called(p, n) /\ (n \in Called(p, n) => d[2] = n)

\* What a get has found is still so, unless something has changed meanwhile.
LookOK(c) ==
  steady[c] =>
    /\ pc[c] = "read" => Delivers(req[c].pers, req[c].name, found[c])
    /\ pc[c] = "findAny" => Called(req[c].pers, req[c].name) = {}

LookInv == \A c \in Clients : LookOK(c)

LEMMA CalledStays ==
  ASSUME UNCHANGED <<file, aliases>>
  PROVE  /\ \A p, n : Called(p, n)' = Called(p, n)
         /\ \A p, n, d : Delivers(p, n, d)' <=> Delivers(p, n, d)
<1>1. \A p, n : Called(p, n)' = Called(p, n)
  BY DEF Called
<1> QED BY <1>1 DEF Delivers

\* A get that does not move, while nothing changes.
LEMMA LookKept ==
  ASSUME NEW c \in Clients, LookOK(c), UNCHANGED <<file, aliases>>,
         pc'[c] = pc[c], req'[c] = req[c], found'[c] = found[c], steady'[c] = steady[c]
  PROVE  LookOK(c)'
<1>1. \A p, n : Called(p, n)' = Called(p, n)
  BY CalledStays
<1>2. \A p, n, d : Delivers(p, n, d)' <=> Delivers(p, n, d)
  BY CalledStays
<1>3. /\ Called(req[c].pers, req[c].name)' = Called(req[c].pers, req[c].name)
      /\ Delivers(req[c].pers, req[c].name, found[c])' <=> Delivers(req[c].pers, req[c].name, found[c])
  <2>1. PICK p, n, d : p = req[c].pers /\ n = req[c].name /\ d = found[c]
    OBVIOUS
  <2>2. p = req'[c].pers /\ n = req'[c].name /\ d = found'[c]
    BY <2>1
  <2> QED BY <1>1, <1>2, <2>1, <2>2
<1> QED BY <1>3 DEF LookOK

\* What has changed ends what the gets in progress know.
LEMMA LookDisturbed ==
  ASSUME TypeInv, Disturb, \A e \in Clients : pc[e] = "idle" => pc'[e] = "idle"
  PROVE  LookInv'
<1> SUFFICES ASSUME NEW e \in Clients, steady'[e] PROVE LookOK(e)'
  BY DEF LookInv, LookOK
<1>1. pc[e] = "idle"
  BY DEF Disturb
<1>2. pc'[e] = "idle"
  BY <1>1
<1> QED BY <1>2 DEF LookOK

\* One handler moves and nothing changes: only what it finds itself is new.
LEMMA LookMoves ==
  ASSUME TypeInv, LookInv, NEW c \in Clients, NEW to, Goto(c, to), UNCHANGED <<file, aliases>>,
         \A e \in Clients \ {c} : req'[e] = req[e] /\ found'[e] = found[e] /\ steady'[e] = steady[e],
         LookOK(c)'
  PROVE  LookInv'
<1> SUFFICES ASSUME NEW e \in Clients \ {c} PROVE LookOK(e)'
  BY DEF LookInv
<1>1. pc'[e] = pc[e]
  BY DEF Goto, TypeInv
<1>2. LookOK(e)
  BY DEF LookInv
<1> QED BY <1>1, <1>2, LookKept

\* A handler that is not in the middle of a get afterwards.
LEMMA LookIdle ==
  ASSUME TypeInv, LookInv, NEW c \in Clients, NEW to \in Writing \cup {"idle", "findOwn"}, Goto(c, to),
         UNCHANGED <<file, aliases>>,
         \A e \in Clients \ {c} : req'[e] = req[e] /\ found'[e] = found[e] /\ steady'[e] = steady[e]
  PROVE  LookInv'
<1>1. pc'[c] = to /\ to # "read" /\ to # "findAny"
  BY DEF Goto, TypeInv, Writing
<1>2. LookOK(c)'
  BY <1>1 DEF LookOK
<1> QED BY <1>2, LookMoves

LEMMA LookStep ==
  ASSUME TypeInv, LookInv, NEW c \in Clients, Handler(c)
  PROVE  LookInv'
<1> USE DEF disk
<1>1. /\ req = [e \in Clients |-> req[e]] /\ found = [e \in Clients |-> found[e]]
      /\ steady \in [Clients -> BOOLEAN] /\ pc \in [Clients -> Writing \cup Getting \cup {"idle"}]
  BY DEF TypeInv
<1>2. ASSUME NEW to, Goto(c, to) PROVE pc'[c] = to /\ \A e \in Clients \ {c} : pc'[e] = pc[e]
  BY <1>1, <1>2 DEF Goto
<1>3. ASSUME Finish(c) PROVE /\ Goto(c, "idle")
                             /\ \A e \in Clients \ {c} : req'[e] = req[e] /\ found'[e] = found[e]
  BY <1>1, <1>3 DEF Finish
<1>4. CASE Put(c)
  <2>1. /\ Goto(c, "truncate") /\ UNCHANGED <<file, aliases, found, steady>> /\ "truncate" \in Writing
        /\ \A e \in Clients \ {c} : req'[e] = req[e]
    BY <1>1, <1>4 DEF Put, Writing
  <2> QED BY <2>1, LookIdle
<1>5. CASE Truncate(c) \/ Write(c) \/ TruncateMeta(c) \/ WriteMeta(c)
  <2>1. Disturb /\ pc[c] # "idle"
    BY <1>5 DEF Truncate, Write, TruncateMeta, WriteMeta
  <2>2. \E to : Goto(c, to)
    BY <1>5 DEF Truncate, Write, TruncateMeta, WriteMeta, Finish
  <2>3. \A e \in Clients : pc[e] = "idle" => pc'[e] = "idle"
    BY <1>2, <2>1, <2>2
  <2> QED BY <2>1, <2>3, LookDisturbed
<1>6. CASE PutFails(c)
  <2>1. Finish(c) /\ UNCHANGED <<file, aliases, steady>>
    BY <1>6 DEF PutFails
  <2> QED BY <1>3, <2>1, LookIdle
<1>7. CASE Get(c)
  <2>1. /\ Goto(c, "findOwn") /\ UNCHANGED <<file, aliases, found>>
        /\ \A e \in Clients \ {c} : req'[e] = req[e] /\ steady'[e] = steady[e]
    BY <1>1, <1>7 DEF Get
  <2> QED BY <2>1, LookIdle
<1>8. ASSUME NEW response, Answer(c, response), UNCHANGED <<file, aliases>> PROVE LookInv'
  <2>1. Finish(c) /\ \A e \in Clients \ {c} : steady'[e] = steady[e]
    BY <1>1, <1>8 DEF Answer
  <2> QED BY <1>3, <1>8, <2>1, LookIdle
<1>9. CASE FindOwn(c)
  <2>1. UNCHANGED <<file, aliases, req, steady>> /\ pc[c] = "findOwn"
    BY <1>9 DEF FindOwn
  <2>2. PICK p, n : p = req[c].pers /\ n = req[c].name
    OBVIOUS
  <2>3. p \in Personas /\ n \in Names
    BY <2>1, <2>2, Requested DEF Getting
  <2>4. PICK list \in Listings(p) :
          \/ \E d \in Find(list, n) : found' = [found EXCEPT ![c] = d] /\ Goto(c, "read")
          \/ Find(list, n) = {} /\ Goto(c, "findAny") /\ UNCHANGED found
    BY <1>9, <2>2 DEF FindOwn
  <2>5. p = req'[c].pers /\ n = req'[c].name
    BY <2>1, <2>2
  <2>6. Called(p, n)' = Called(p, n) /\ \A d : Delivers(p, n, d)' <=> Delivers(p, n, d)
    BY <2>1, CalledStays
  <2>7. CASE \E d \in Find(list, n) : found' = [found EXCEPT ![c] = d] /\ Goto(c, "read")
    <3>1. PICK d \in Find(list, n) : found' = [found EXCEPT ![c] = d] /\ Goto(c, "read")
      BY <2>7
    <3>2. pc'[c] = "read" /\ found'[c] = d /\ \A e \in Clients \ {c} : found'[e] = found[e]
      BY <1>1, <1>2, <3>1
    <3>3. Delivers(p, n, d)
      <4> SUFFICES ASSUME Alone(p), Called(p, n) # {}
                   PROVE  d[1] = p /\ d[2] \in Called(p, n) /\ (n \in Called(p, n) => d[2] = n)
        BY <2>3, OwnOrShadow DEF Delivers
      <4>1. PICK t \in Called(p, n) : Find(list, n) = {<<p, t>>} /\ (n \in Called(p, n) => t = n)
        BY <2>3, OwnFound
      <4> QED BY <4>1
    <3>4. Delivers(p, n, d)'
      BY <2>6, <3>3
    <3>5. LookOK(c)'
      BY <2>5, <3>2, <3>4 DEF LookOK
    <3> QED BY <2>1, <3>1, <3>2, <3>5, LookMoves
  <2>8. CASE Find(list, n) = {} /\ Goto(c, "findAny") /\ UNCHANGED found
    <3>1. pc'[c] = "findAny"
      BY <1>2, <2>8
    <3>2. Called(p, n) = {}
      BY <2>3, <2>8, OwnOrShadow
    <3>3. LookOK(c)'
      BY <2>5, <2>6, <3>1, <3>2 DEF LookOK
    <3> QED BY <2>1, <2>8, <3>3, LookMoves
  <2> QED BY <2>4, <2>7, <2>8
<1>10. CASE FindAny(c)
  <2>1. UNCHANGED <<file, aliases>> /\ pc[c] = "findAny"
    BY <1>10 DEF FindAny
  <2>2. CASE /\ \E d : found' = [found EXCEPT ![c] = d]
             /\ Goto(c, "read") /\ UNCHANGED <<req, steady>>
    <3>1. pc'[c] = "read" /\ \A e \in Clients \ {c} : found'[e] = found[e]
      BY <1>1, <1>2, <2>2
    <3>2. PICK p, n, d : p = req[c].pers /\ n = req[c].name /\ d = found'[c]
      OBVIOUS
    <3>3. p = req'[c].pers /\ n = req'[c].name
      BY <2>2, <3>2
    <3>4. steady[c] => Called(p, n) = {}
      BY <2>1, <3>2 DEF LookInv, LookOK
    <3>5. steady[c] => Delivers(p, n, d)'
      BY <2>1, <3>4, CalledStays DEF Delivers
    <3>6. LookOK(c)'
      BY <2>2, <3>1, <3>2, <3>3, <3>5 DEF LookOK
    <3> QED BY <2>1, <2>2, <3>1, <3>6, LookMoves
  <2> QED BY <1>8, <1>10, <2>1, <2>2 DEF FindAny
<1>11. CASE ReadFile(c) \/ GetFails(c)
  BY <1>8, <1>11 DEF ReadFile, GetFails
<1>12. CASE List(c) \/ Nfo(c)
  <2>1. UNCHANGED <<file, aliases, pc, req, found, steady>>
    BY <1>12 DEF List, Nfo
  <2> QED BY <2>1, LookKept DEF LookInv
<1> QED BY <1>4, <1>5, <1>6, <1>7, <1>9, <1>10, <1>11, <1>12 DEF Handler

LEMMA LookNext == ASSUME TypeInv, LookInv, [Next]_vars PROVE LookInv'
<1>1. CASE UNCHANGED vars
  <2>1. UNCHANGED <<file, aliases, pc, req, found, steady>>
    BY <1>1 DEF vars, disk
  <2> QED BY <2>1, LookKept DEF LookInv
<1>2. CASE AliasesChange
  BY <1>2, LookDisturbed DEF AliasesChange
<1>3. CASE Restart
  BY <1>3 DEF Restart, LookInv, LookOK
<1> QED BY <1>1, <1>2, <1>3, LookStep DEF Next

LEMMA LookInit == Init => LookInv
BY DEF Init, LookInv, LookOK

-----------------------------------------------------------------------------
(* Answers *)

\* What the last answer says is still so, unless something has changed.
AnswerInv ==
  /\ answer.kind = "data" =>
       /\ answer.path \in Paths /\ answer.content = file[answer.path]
       /\ answer.asked # NoPath => Delivers(answer.asked[1], answer.asked[2], answer.path)
  /\ answer.kind = "missing" /\ answer.asked # NoPath =>
       /\ Called(answer.asked[1], answer.asked[2]) = {}
       /\ \A d \in Paths : file[d] # Absent /\ meta[d] = "saved" =>
            d[2] # answer.asked[2] /\ <<d[2], answer.asked[2]>> \notin aliases
  /\ answer.kind = "list" =>
       /\ answer.pers \in Personas
       /\ \E list \in Listings(answer.pers) : answer.list = SubSeq(list, 1, Min({Len(list), MaxList}))
  /\ answer.kind = "info" =>
       /\ answer.pers \in Personas
       /\ \E list \in Listings(answer.pers) :
            answer.list = Only(list, {e \in Range(list) : e.name = answer.name})

LEMMA AnswerKept ==
  ASSUME AnswerInv, UNCHANGED <<file, meta, aliases, answer>>
  PROVE  AnswerInv'
<1>1. PICK a : a = answer
  OBVIOUS
<1>2. a = answer'
  BY <1>1
<1>3. \A p : Listings(p)' = Listings(p)
  BY ListingsStay
<1>4. \A p, n, d : Called(p, n)' = Called(p, n) /\ (Delivers(p, n, d)' <=> Delivers(p, n, d))
  BY CalledStays
<1>5. a.kind = "data" =>
        /\ a.path \in Paths /\ a.content = file'[a.path]
        /\ a.asked # NoPath => Delivers(a.asked[1], a.asked[2], a.path)'
  BY <1>1, <1>4 DEF AnswerInv
<1>6. a.kind = "missing" /\ a.asked # NoPath =>
        /\ Called(a.asked[1], a.asked[2])' = {}
        /\ \A d \in Paths : file'[d] # Absent /\ meta'[d] = "saved" =>
             d[2] # a.asked[2] /\ <<d[2], a.asked[2]>> \notin aliases'
  BY <1>1, <1>4 DEF AnswerInv
<1>7. a.kind = "list" =>
        /\ a.pers \in Personas
        /\ \E list \in Listings(a.pers)' : a.list = SubSeq(list, 1, Min({Len(list), MaxList}))
  BY <1>1, <1>3 DEF AnswerInv
<1>8. a.kind = "info" =>
        /\ a.pers \in Personas
        /\ \E list \in Listings(a.pers)' : a.list = Only(list, {e \in Range(list) : e.name = a.name})
  BY <1>1, <1>3 DEF AnswerInv
<1> QED BY <1>2, <1>5, <1>6, <1>7, <1>8 DEF AnswerInv

LEMMA NoAnswerIsTrue == (answer = NoAnswer => AnswerInv)'
BY DEF NoAnswer, AnswerInv

LEMMA AnswerStep ==
  ASSUME TypeInv, LookInv, AnswerInv, NEW c \in Clients, Handler(c)
  PROVE  AnswerInv'
<1> USE DEF disk
<1>1. CASE answer' = NoAnswer
  BY <1>1, NoAnswerIsTrue
<1>2. CASE UNCHANGED <<file, meta, aliases, answer>>
  BY <1>2, AnswerKept
<1>3. CASE ReadFile(c)
  <2>1. UNCHANGED <<file, meta, aliases>> /\ pc[c] = "read"
    BY <1>3 DEF ReadFile
  <2>2. PICK d, asked : /\ d = found[c] /\ asked = Asked(c)
                        /\ answer' = [kind |-> "data", asked |-> asked, path |-> d, content |-> file[d]]
    BY <1>3 DEF ReadFile, Answer, Contents
  <2>3. /\ answer'.kind = "data" /\ answer'.asked = asked /\ answer'.path = d
        /\ answer'.content = file[d]
    BY <2>2
  <2>4. d \in Paths
    BY <2>1, <2>2 DEF TypeInv
  <2>5. ASSUME asked # NoPath PROVE Delivers(asked[1], asked[2], d)'
    <3>1. steady[c] /\ asked = <<req[c].pers, req[c].name>>
      BY <2>2, <2>5 DEF Asked, PathOf
    <3>2. Delivers(asked[1], asked[2], d)
      BY <2>1, <2>2, <3>1 DEF LookInv, LookOK
    <3> QED BY <2>1, <3>2, CalledStays
  <2> QED BY <2>1, <2>3, <2>4, <2>5 DEF AnswerInv
<1>4. CASE FindAny(c) /\ answer' # NoAnswer
  <2>1. UNCHANGED <<file, meta, aliases>> /\ pc[c] = "findAny"
    BY <1>4 DEF FindAny
  <2>2. PICK p, n : p = req[c].pers /\ n = req[c].name
    OBVIOUS
  <2>3. n \in Names
    BY <2>1, <2>2, Requested DEF Getting
  <2>4. PICK list \in Listings("") : Find(list, n) = {} /\ Answer(c, NotFound(c))
    BY <1>4, <2>2 DEF FindAny
  <2>5. PICK asked : /\ asked = Asked(c)
                     /\ answer' = [kind |-> "missing", cause |-> "nobody", asked |-> asked]
    BY <2>4 DEF Answer, NotFound
  <2>6. answer'.kind = "missing" /\ answer'.asked = asked
    BY <2>5
  <2>7. ASSUME asked # NoPath
        PROVE  /\ Called(asked[1], asked[2])' = {}
               /\ \A d \in Paths : file'[d] # Absent /\ meta'[d] = "saved" =>
                    d[2] # asked[2] /\ <<d[2], asked[2]>> \notin aliases'
    <3>1. steady[c] /\ asked = <<p, n>>
      BY <2>2, <2>5, <2>7 DEF Asked, PathOf
    <3>2. Called(p, n) = {}
      BY <2>1, <2>2, <3>1 DEF LookInv, LookOK
    <3>3. Called(p, n)' = {}
      BY <2>1, <3>2, CalledStays
    <3>4. \A d \in Paths : file'[d] # Absent /\ meta'[d] = "saved" =>
            d[2] # n /\ <<d[2], n>> \notin aliases'
      BY <2>1, <2>3, <2>4, NobodyHas
    <3> QED BY <3>1, <3>3, <3>4
  <2> QED BY <2>6, <2>7 DEF AnswerInv
<1>5. CASE List(c)
  <2>1. PICK p \in Personas : \E list \in Listings(p) :
          answer' = [kind |-> "list", pers |-> p, list |-> SubSeq(list, 1, Min({Len(list), MaxList}))]
    BY <1>5 DEF List
  <2>2. PICK list \in Listings(p) :
          answer' = [kind |-> "list", pers |-> p, list |-> SubSeq(list, 1, Min({Len(list), MaxList}))]
    BY <2>1
  <2>3. UNCHANGED <<file, meta, aliases>>
    BY <1>5 DEF List
  <2>4. list \in Listings(p)'
    BY <2>3, ListingsStay
  <2> QED BY <2>2, <2>4 DEF AnswerInv
<1>6. CASE Nfo(c)
  <2>1. PICK p \in Personas, n \in Names : \E list \in Listings(p) :
          answer' = [kind |-> "info", pers |-> p, name |-> n,
                     list |-> Only(list, {e \in Range(list) : e.name = n})]
    <3>1. PICK q \in Requests : \E list \in Listings(q[1]) :
            answer' = [kind |-> "info", pers |-> q[1], name |-> q[2],
                       list |-> Only(list, {e \in Range(list) : e.name = q[2]})]
      BY <1>6 DEF Nfo
    <3>2. q[1] \in Personas /\ q[2] \in Names
      BY LockerAssumption DEF Paths
    <3> QED BY <3>1, <3>2
  <2>2. PICK list \in Listings(p) :
          answer' = [kind |-> "info", pers |-> p, name |-> n,
                     list |-> Only(list, {e \in Range(list) : e.name = n})]
    BY <2>1
  <2>3. UNCHANGED <<file, meta, aliases>>
    BY <1>6 DEF Nfo
  <2>4. list \in Listings(p)'
    BY <2>3, ListingsStay
  <2> QED BY <2>2, <2>4 DEF AnswerInv
<1>7. CASE Put(c) \/ Truncate(c) \/ Write(c) \/ TruncateMeta(c) \/ WriteMeta(c) \/ Get(c)
  BY <1>1, <1>7 DEF Put, Truncate, Write, TruncateMeta, WriteMeta, Get, Disturb
<1>8. CASE PutFails(c) \/ FindOwn(c)
  BY <1>1, <1>8 DEF PutFails, FindOwn
<1>9. CASE GetFails(c)
  <2>1. answer' = Failure
    BY <1>9 DEF GetFails, Answer
  <2> QED BY <2>1 DEF Failure, AnswerInv
<1>10. CASE FindAny(c) /\ answer' = NoAnswer
  BY <1>1, <1>10
<1> QED BY <1>3, <1>4, <1>5, <1>6, <1>7, <1>8, <1>9, <1>10 DEF Handler

LEMMA AnswerNext == ASSUME TypeInv, LookInv, AnswerInv, [Next]_vars PROVE AnswerInv'
<1>1. CASE UNCHANGED vars
  BY <1>1, AnswerKept DEF vars, disk
<1>2. CASE AliasesChange \/ Restart
  BY <1>2, NoAnswerIsTrue DEF AliasesChange, Restart, Disturb
<1> QED BY <1>1, <1>2, AnswerStep DEF Next

LEMMA AnswerInit == Init => AnswerInv
BY DEF Init, NoAnswer, AnswerInv

-----------------------------------------------------------------------------
(* The theorems *)

LockerInv == TypeInv /\ UploadInv /\ LookInv /\ AnswerInv

LEMMA LockerInvariant == Spec => []LockerInv
<1>1. Init => LockerInv
  BY TypeInit, UploadInit, LookInit, AnswerInit DEF LockerInv
<1>2. LockerInv /\ [Next]_vars => LockerInv'
  BY TypeNext, UploadNext, LookNext, AnswerNext DEF LockerInv
<1> QED BY <1>1, <1>2, PTL DEF Spec

\* Every acknowledged upload of a persona stands in its listings, before the aliases.
LEMMA StoredIsListed ==
  ASSUME UploadInv, NEW p \in Personas, Alone(p), NEW list \in Listings(p),
         NEW d \in Paths, d[1] = p, Writers(d) = {}, stored[d] \notin {Absent, Unknown}
  PROVE  \E i \in 1 .. Len(Entries(p)) : list[i].name = d[2] /\ list[i].size = stored[d]
<1>1. file[d] = stored[d] /\ file[d] # Absent
  BY DEF UploadInv, UploadOK
<1>2. d[2] \in Names /\ d = <<p, d[2]>>
  BY DEF Paths
<1> QED BY <1>1, <1>2, ListingShows

LEMMA ListIsTrue ==
  ASSUME LockerInv, answer.kind = "list", Alone(answer.pers)
  PROVE  ListingIsTrue
<1>1. PICK p, shown : p = answer.pers /\ shown = answer.list
  OBVIOUS
<1>2. p \in Personas /\ Alone(p)
  BY <1>1 DEF LockerInv, AnswerInv
<1>3. PICK list \in Listings(p) : shown = SubSeq(list, 1, Min({Len(list), MaxList}))
  BY <1>1 DEF LockerInv, AnswerInv
<1> DEFINE own == {d \in Paths : /\ d[1] = p /\ Writers(d) = {} /\ stored[d] \notin {Absent, Unknown}}
           Listed(d) == \E i \in DOMAIN shown : shown[i].name = d[2] /\ shown[i].size = stored[d]
<1>4. PICK n : n = Len(Entries(p))
  OBVIOUS
<1>5. n \in Nat /\ n <= Len(list) /\ DOMAIN list = 1 .. Len(list) /\ Len(list) \in Nat
  BY <1>4, ListingsAre, EntriesAre
<1>6. /\ DOMAIN shown \subseteq DOMAIN list /\ DOMAIN shown = 1 .. Len(shown)
      /\ \A i \in DOMAIN shown : shown[i] = list[i]
      /\ Len(shown) \in Nat /\ Len(shown) <= MaxList
      /\ Len(shown) = Len(list) \/ Len(shown) = MaxList
  BY <1>3, Capped
<1>7. \A d \in own : \E i \in 1 .. n : list[i].name = d[2] /\ list[i].size = stored[d]
  BY <1>2, <1>4, StoredIsListed DEF LockerInv
<1>8. n <= Len(shown) => \A d \in own : Listed(d)
  <2> SUFFICES ASSUME n <= Len(shown), NEW d \in own PROVE Listed(d)
    OBVIOUS
  <2>1. PICK i \in 1 .. n : list[i].name = d[2] /\ list[i].size = stored[d]
    BY <1>7
  <2>2. i \in 1 .. Len(shown)
    <3>1. Len(shown) \in Nat
      BY <1>6
    <3> QED BY <1>5, <3>1
  <2>3. i \in DOMAIN shown
    BY <1>6, <2>2, Zenon
  <2> QED BY <1>6, <2>1, <2>3
<1>9. \A i \in DOMAIN shown : \A other \in Listings(p) :
        Find(other, shown[i].name) = {shown[i].path} /\ file[shown[i].path] = shown[i].size
  BY <1>2, <1>6, ListingShows
<1>10. \A i, j \in DOMAIN shown : shown[i].name = shown[j].name => i = j
  <2>1. \A i, j \in DOMAIN list : list[i].name = list[j].name => i = j
    BY <1>2, ListingShows
  <2> QED BY <1>6, <2>1
<1>11. (\A d \in own : Listed(d)) \/ Len(shown) = MaxList
  BY <1>5, <1>6, <1>8
<1>12. (\E i \in DOMAIN shown : shown[i].path[2] # shown[i].name) => \A d \in own : Listed(d)
  <2> SUFFICES ASSUME NEW i \in DOMAIN shown, shown[i].path[2] # shown[i].name
               PROVE  n <= Len(shown)
    BY <1>8
  <2>1. \A k \in 1 .. n : list[k].path[2] = list[k].name
    BY <1>2, <1>4, ListingShows
  <2>2. shown[i] = list[i]
    BY <1>6
  <2>3. i \notin 1 .. n
    BY <2>1, <2>2
  <2>4. i \in 1 .. Len(shown) /\ Len(shown) \in Nat
    BY <1>6
  <2> QED BY <1>5, <2>3, <2>4
<1> HIDE DEF Listed
<1>13. /\ Len(shown) <= MaxList
       /\ (\A d \in own : Listed(d)) \/ Len(shown) = MaxList
       /\ (\E i \in DOMAIN shown : shown[i].path[2] # shown[i].name) => \A d \in own : Listed(d)
  BY <1>6, <1>11, <1>12
<1> USE DEF Listed
<1> QED BY <1>1, <1>9, <1>10, <1>13 DEF ListingIsTrue

LEMMA InfoIsTrue ==
  ASSUME LockerInv, answer.kind = "info", Alone(answer.pers)
  PROVE  ListingIsTrue
<1>1. PICK p, n, shown : p = answer.pers /\ n = answer.name /\ shown = answer.list
  OBVIOUS
<1>2. p \in Personas /\ Alone(p)
  BY <1>1 DEF LockerInv, AnswerInv
<1>3. PICK list \in Listings(p) : shown = Only(list, {e \in Range(list) : e.name = n})
  BY <1>1 DEF LockerInv, AnswerInv
<1>4. PICK S : S = {e \in Range(list) : e.name = n}
  OBVIOUS
<1>5. shown = Only(list, S) /\ \A e : e \in S <=> e \in Range(list) /\ e.name = n
  BY <1>3, <1>4
<1>6. /\ \A i \in DOMAIN list : /\ \A other \in Listings(p) : Find(other, list[i].name) = {list[i].path}
                                  /\ file[list[i].path] = list[i].size
      /\ \A i, j \in DOMAIN list : list[i].name = list[j].name => i = j
  BY <1>2, ListingShows
<1>7. NamedOK(shown, list, n)
  BY <1>3, <1>5, Named
<1>8. \A j \in DOMAIN list : list[j].name = n => \E i \in DOMAIN shown : shown[i] = list[j]
  BY <1>7 DEF NamedOK
<1>9. \A i \in DOMAIN shown : \E j \in DOMAIN list : shown[i] = list[j]
  BY <1>7 DEF NamedOK
<1>10. \A i, j \in DOMAIN shown : shown[i] = shown[j] => i = j
  BY <1>6, <1>7 DEF NamedOK
<1>11. \A i \in DOMAIN shown : \A other \in Listings(p) :
        Find(other, shown[i].name) = {shown[i].path} /\ file[shown[i].path] = shown[i].size
  BY <1>6, <1>9
<1>12. \A i, j \in DOMAIN shown : shown[i].name = shown[j].name => i = j
  BY <1>6, <1>9, <1>10
<1>13. \A d \in Paths : d[1] = p /\ Writers(d) = {} /\ stored[d] \notin {Absent, Unknown} /\ d[2] = n =>
         \E i \in DOMAIN shown : shown[i].name = d[2] /\ shown[i].size = stored[d]
  <2> SUFFICES ASSUME NEW d \in Paths, d[1] = p, Writers(d) = {}, stored[d] \notin {Absent, Unknown},
                      d[2] = n
               PROVE  \E i \in DOMAIN shown : shown[i].name = d[2] /\ shown[i].size = stored[d]
    OBVIOUS
  <2>1. PICK j \in 1 .. Len(Entries(p)) : list[j].name = d[2] /\ list[j].size = stored[d]
    BY <1>2, StoredIsListed DEF LockerInv
  <2>2. j \in DOMAIN list
    BY ListingsAre, EntriesAre
  <2> QED BY <1>8, <2>1, <2>2
<1> QED BY <1>1, <1>11, <1>12, <1>13 DEF ListingIsTrue

\* Whatever is uploaded meanwhile, by this upload or after it, a download is the
\* whole body of the last acknowledged upload or of the one in progress, unless
\* it was read between the truncation and the write of that one, or uploads of
\* that ghost have overlapped or one was interrupted.
THEOREM DownloadsAreWhole == Spec => []DownloadIsLastUpload
<1>1. ASSUME LockerInv, answer.kind = "data", stored[answer.path] # Unknown
      PROVE  \/ answer.content = stored[answer.path]
             \/ \E c \in Writers(answer.path) : pc[c] = "write" \/ answer.content = req[c].body
  <2>1. PICK d : d = answer.path
    OBVIOUS
  <2>2. d \in Paths /\ answer.content = file[d] /\ UploadOK(d)
    BY <1>1, <2>1 DEF LockerInv, AnswerInv, UploadInv
  <2>3. CASE Writers(d) = {}
    BY <1>1, <2>1, <2>2, <2>3 DEF UploadOK
  <2>4. ASSUME NEW c \in Writers(d) PROVE file[d] = stored[d] \/ pc[c] = "write" \/ file[d] = req[c].body
    <3>1. pc[c] \in Writing
      BY DEF Writers
    <3> QED BY <1>1, <2>1, <2>2, <3>1 DEF UploadOK, Writing
  <2> QED BY <2>1, <2>2, <2>3, <2>4
<1>2. LockerInv => DownloadIsLastUpload
  BY <1>1 DEF DownloadIsLastUpload
<1> QED BY <1>2, LockerInvariant, PTL

\* A persona that has the ghost, whatever became of the metadata, gets its own,
\* and that name before an alias, or at worst one of a persona whose name
\* continues its own, for any personas, names and aliases.
THEOREM OwnGhostsGoFirst == Spec => []OwnGhostFirst
<1>1. LockerInv => OwnGhostFirst
  BY DEF LockerInv, AnswerInv, OwnGhostFirst, Delivers, Called, Alone
<1> QED BY <1>1, LockerInvariant, PTL

\* A ghost that somebody has with its metadata is reported missing only after a
\* failed read or a change during the get; and no crash leaves metadata without
\* a ghost.
THEOREM MissingIsMissing == Spec => []NotFoundIsTrue
<1>1. LockerInv => NotFoundIsTrue
  BY DEF LockerInv, UploadInv, UploadOK, AnswerInv, NotFoundIsTrue
<1> QED BY <1>1, LockerInvariant, PTL

\* What dir and nfo show is what a get delivers, and every acknowledged upload
\* is shown unless the cap is reached, for any order of the files and any cap.
THEOREM ListingsAreTrue == Spec => []ListingIsTrue
<1>1. LockerInv => ListingIsTrue
  BY ListIsTrue, InfoIsTrue DEF ListingIsTrue, Alone
<1> QED BY <1>1, LockerInvariant, PTL
=============================================================================
