------------------------- MODULE LeaderboardProofs -------------------------
(***************************************************************************)
(* Theorems about Leaderboard: what a request for owners answers and what  *)
(* a page shows are what the board says (AnswersMatchBoard,                *)
(* PagesShowRanks), links only regroup times (LinksRegroup), and a ghost   *)
(* tag belongs to the time beside it (GhostStays).                         *)
(*                                                                         *)
(* BoardInv carries the first two: the tables are well typed, every        *)
(* connection stands at a statement that fits its request, and what it has *)
(* read is what the tables say of every owner that did not change since    *)
(* the request came in.  GhostInv carries the last: the rows that an       *)
(* upload has written hold its run.  That MIN, Cardinality and the pages   *)
(* mean what they should is shown with least elements, finite sets and     *)
(* injections.                                                             *)
(***************************************************************************)
EXTENDS Leaderboard, FiniteSetTheorems, WellFoundedInduction, SequenceTheorems, TLAPS

-----------------------------------------------------------------------------
(* Numbers *)

\* Every non-empty set of naturals has a least element, which Min chooses.
LEMMA Least ==
  ASSUME NEW S \in SUBSET Nat, S # {}
  PROVE  Min(S) \in S /\ \A n \in S : Min(S) <= n
<1> DEFINE R == OpToRel(<, Nat)
<1>1. IsWellFoundedOn(R, Nat)
  BY NatLessThanWellFounded
<1>2. \A m, n \in Nat : n < m => <<n, m>> \in R
  BY DEF OpToRel
<1> HIDE DEF R
<1>3. PICK m \in S : \A n \in S : <<n, m>> \notin R
  BY <1>1, WFMin
<1>4. ASSUME NEW n \in S PROVE m <= n
  <2>1. m \in Nat /\ n \in Nat /\ ~(n < m)
    BY <1>2, <1>3
  <2> QED BY <2>1
<1>5. \E k \in S : \A n \in S : k <= n
  BY <1>4
<1> QED BY <1>5 DEF Min

\* The same for times of which at most one may be below 0.
LEMMA LeastOfTimes ==
  ASSUME NEW A \in SUBSET Int, \A a, b \in A : a = b, NEW B \in SUBSET Nat, A \cup B # {}
  PROVE  Min(A \cup B) \in A \cup B /\ \A n \in A \cup B : Min(A \cup B) <= n
<1>1. \E k \in A \cup B : \A n \in A \cup B : k <= n
  <2>1. CASE A \cup B \in SUBSET Nat
    BY <2>1, Least
  <2>2. CASE A \cup B \notin SUBSET Nat
    <3>1. PICK a \in A : a \notin Nat
      BY <2>2
    <3>2. a \in Int /\ a <= 0 /\ \A n \in B : n \in Nat
      BY <3>1
    <3>3. \A n \in A \cup B : a <= n
      BY <3>2
    <3> QED BY <3>3
  <2> QED BY <2>1, <2>2
<1> QED BY <1>1 DEF Min

LEMMA MinOne == \A n \in Int : Min({n}) = n
<1> TAKE n \in Int
<1>1. {n} \in SUBSET Int /\ (\A a, b \in {n} : a = b) /\ {n} \cup {} # {} /\ {n} \cup {} = {n}
  OBVIOUS
<1>2. Min({n} \cup {}) \in {n} \cup {}
  BY <1>1, LeastOfTimes
<1> QED BY <1>1, <1>2

LEMMA MinTwo == ASSUME NEW a \in Nat, NEW b \in Nat PROVE Min({a, b}) = IF a <= b THEN a ELSE b
<1>1. {a, b} \in SUBSET Nat /\ {a, b} # {}
  OBVIOUS
<1>2. Min({a, b}) \in {a, b} /\ Min({a, b}) <= a /\ Min({a, b}) <= b
  BY <1>1, Least
<1> QED BY <1>2

-----------------------------------------------------------------------------
(* The tables *)

TablesOK ==
  /\ DOMAIN stats \subseteq Personas \X Keys \X Periods /\ IsFiniteSet(DOMAIN stats)
  /\ \A c \in DOMAIN stats : stats[c] \in Row
  /\ DOMAIN runs \subseteq players \X Periods /\ IsFiniteSet(DOMAIN runs)
  /\ \A c \in DOMAIN runs : runs[c] \in Row
  /\ players \subseteq Players /\ IsFiniteSet(players)
  /\ DOMAIN links \subseteq players /\ links \in [DOMAIN links -> Personas]

\* What is left of an upload.
UploadOK(s) ==
  pc[s] = "upsert" => /\ req[s].persona \in Personas /\ req[s].value \in Times
                      /\ found[s] \in Seq(Keys \X Periods) /\ found[s] # <<>>

Uploads ==
  /\ DOMAIN pc = Sessions /\ DOMAIN req = Sessions /\ DOMAIN found = Sessions
  /\ \A s \in Sessions : UploadOK(s)

LEMMA TablesInit == Init => TablesOK /\ Uploads
<1> SUFFICES ASSUME Init PROVE TablesOK /\ Uploads
  OBVIOUS
<1>1. DOMAIN <<>> = {}
  OBVIOUS
<1> QED BY <1>1, FS_EmptySet DEF Init, TablesOK, Uploads, UploadOK

\* The next writes of an upload.
LEMMA RestOfUpload ==
  ASSUME NEW S, NEW q \in Seq(S), q # <<>>
  PROVE  /\ Head(q) \in S /\ Tail(q) \in Seq(S) /\ Len(q) \in Nat
         /\ Len(q) # 1 => Tail(q) # <<>>
<1>1. Head(q) \in S /\ Tail(q) \in Seq(S) /\ Len(Tail(q)) = Len(q) - 1 /\ Len(q) \in Nat
  BY HeadTailProperties, LenProperties
<1>2. Tail(q) = <<>> <=> Len(Tail(q)) = 0
  BY <1>1, EmptySeq
<1> QED BY <1>1, <1>2

\* The tables keep their types, statement by statement.
LEMMA TablesNext == ASSUME TablesOK, Uploads, [Next]_vars PROVE TablesOK'
<1>1. CASE UNCHANGED tables
  BY <1>1 DEF TablesOK, tables
<1>2. ASSUME NEW s \in Sessions, Upsert(s) PROVE TablesOK'
  <2> DEFINE w == Head(found[s])
             k == <<req[s].persona, w[1], w[2]>>
  <2>1. w \in Keys \X Periods /\ req[s].persona \in Personas /\ req[s].value \in Times
    BY <1>2, RestOfUpload DEF Upsert, Uploads, UploadOK
  <2>2. /\ stats' = Store(stats, k, [value |-> req[s].value, current |-> TRUE])
        /\ UNCHANGED <<runs, players, links>>
    BY <1>2 DEF Upsert
  <2>3. k \in Personas \X Keys \X Periods /\ [value |-> req[s].value, current |-> TRUE] \in Row
    BY <2>1 DEF Row
  <2> HIDE DEF k
  <2>4. /\ DOMAIN stats' = DOMAIN stats \cup {k} /\ stats'[k] \in Row
        /\ \A x \in DOMAIN stats \ {k} : stats'[x] = stats[x]
    BY <2>2, <2>3 DEF Store
  <2>5. IsFiniteSet(DOMAIN stats')
    <3>1. IsFiniteSet(DOMAIN stats)
      BY DEF TablesOK
    <3> QED BY <2>4, <3>1, FS_AddElement
  <2>6. \A c \in DOMAIN stats' : stats'[c] \in Row
    BY <2>4 DEF TablesOK
  <2> QED BY <2>2, <2>3, <2>4, <2>5, <2>6 DEF TablesOK
<1>3. ASSUME NEW h \in Players, AddHistoricalRun(h) PROVE TablesOK'
  <2>1. players' = players \cup {h} /\ UNCHANGED <<stats, links>>
    BY <1>3 DEF AddHistoricalRun
  <2>2. IsFiniteSet(players')
    <3>1. IsFiniteSet(players)
      BY DEF TablesOK
    <3> QED BY <2>1, <3>1, FS_AddElement
  <2>3. CASE UNCHANGED runs
    BY <2>1, <2>2, <2>3 DEF TablesOK
  <2>4. CASE \E q \in Periods, v \in Times, c \in BOOLEAN :
               runs' = Store(runs, <<h, q>>, [value |-> v, current |-> c])
    <3>1. PICK q \in Periods, v \in Times, c \in BOOLEAN :
            runs' = Store(runs, <<h, q>>, [value |-> v, current |-> c])
      BY <2>4
    <3> DEFINE k == <<h, q>>
               r == [value |-> v, current |-> c]
    <3>2. k \in players' \X Periods /\ r \in Row /\ runs' = Store(runs, k, r)
      BY <2>1, <3>1 DEF Row
    <3> HIDE DEF k, r
    <3>3. /\ DOMAIN runs' = DOMAIN runs \cup {k} /\ runs'[k] = r
          /\ \A x \in DOMAIN runs \ {k} : runs'[x] = runs[x]
      BY <3>2 DEF Store
    <3>4. IsFiniteSet(DOMAIN runs')
      <4>1. IsFiniteSet(DOMAIN runs)
        BY DEF TablesOK
      <4> QED BY <3>3, <4>1, FS_AddElement
    <3>5. \A x \in DOMAIN runs' : runs'[x] \in Row
      BY <3>2, <3>3 DEF TablesOK
    <3> QED BY <2>1, <2>2, <3>2, <3>3, <3>4, <3>5 DEF TablesOK
  <2> QED BY <1>3, <2>3, <2>4 DEF AddHistoricalRun
<1>4. ASSUME NEW h \in Players, NEW p \in Personas, LinkHistoricalAccount(h, p) PROVE TablesOK'
  <2>1. h \in players /\ links' = Store(links, h, p) /\ UNCHANGED <<stats, runs, players>>
    BY <1>4 DEF LinkHistoricalAccount
  <2>2. DOMAIN links' = DOMAIN links \cup {h}
    BY <2>1 DEF Store
  <2>3. links' \in [DOMAIN links' -> Personas]
    BY <2>1 DEF Store, TablesOK
  <2>4. DOMAIN links' \subseteq players
    BY <2>1, <2>2 DEF TablesOK
  <2> QED BY <2>1, <2>3, <2>4 DEF TablesOK
<1>5. ASSUME NEW h \in Players, UnlinkHistoricalAccount(h) PROVE TablesOK'
  BY <1>5 DEF UnlinkHistoricalAccount, TablesOK
<1>6. ASSUME NEW q \in Dated, Rollover(q) PROVE TablesOK'
  <2>1. /\ DOMAIN stats' = DOMAIN stats /\ DOMAIN runs' = DOMAIN runs
        /\ UNCHANGED <<players, links>>
    BY <1>6 DEF Rollover
  <2>2. \A c \in DOMAIN stats : stats'[c] \in Row
    BY <1>6 DEF Rollover, TablesOK, Row
  <2>3. \A c \in DOMAIN runs : runs'[c] \in Row
    BY <1>6 DEF Rollover, TablesOK, Row
  <2> QED BY <2>1, <2>2, <2>3 DEF TablesOK
<1> DEFINE Others ==
      \/ \E s \in Writers : UpdateStats(s)
      \/ \E s \in Readers : QueryOwners(s) \/ GetTopNAndStats(s)
      \/ \E s \in Sessions : \/ StatementFails(s) \/ SelectStats(s) \/ SelectLinkedStats(s)
                             \/ SelectRuns(s) \/ SelectValue(s) \/ SelectLinked(s) \/ SelectRun(s)
                             \/ SelectRank(s) \/ SelectTop(s) \/ SelectTag(s)
<1>7. CASE Others
  BY <1>1, <1>7 DEF UpdateStats, QueryOwners, GetTopNAndStats, Ask, StatementFails, SelectStats,
     SelectLinkedStats, SelectRuns, SelectValue, SelectLinked, SelectRun, SelectRank, SelectTop, SelectTag
<1>8. CASE UNCHANGED vars
  BY <1>1, <1>8 DEF vars
<1> QED BY <1>2, <1>3, <1>4, <1>5, <1>6, <1>7, <1>8 DEF Next, Handler, Import

-----------------------------------------------------------------------------
(* Boards *)

Entrant(o, v, b) == [owner |-> o, value |-> v, timeOnly |-> b]

Entrants(cands) == \A c \in cands : \E o : \E v \in Nat, b \in BOOLEAN : c = Entrant(o, v, b)

\* Every candidate's owner has a best row, which is not after the candidate.
LEMMA BestExists ==
  ASSUME NEW cands, Entrants(cands), NEW c \in cands
  PROVE  \E r \in BestRows(cands) : r.owner = c.owner /\ r.value <= c.value
<1> DEFINE mine == {d \in cands : d.owner = c.owner}
           m == Min({d.value : d \in mine})
<1>1. \A d \in cands : d.value \in Nat /\ d.timeOnly \in BOOLEAN
  BY DEF Entrants, Entrant
<1>2. {d.value : d \in mine} \in SUBSET Nat /\ {d.value : d \in mine} # {}
  BY <1>1
<1>3. m \in {d.value : d \in mine} /\ \A n \in {d.value : d \in mine} : m <= n
  BY <1>2, Least
<1> HIDE DEF m
<1>4. PICK d \in mine : d.value = m
  BY <1>3
<1>5. \A e \in mine : m <= e.value
  BY <1>3
<1>6. PICK r \in mine : r.value = m /\ (r.timeOnly => \A e \in mine : e.value = m => e.timeOnly)
  BY <1>4
<1>7. ASSUME NEW e \in cands, e.owner = r.owner PROVE ~Before(e, r)
  <2>1. e \in mine /\ m <= e.value /\ e.value \in Nat /\ m \in Nat
    BY <1>1, <1>3, <1>5, <1>6, <1>7
  <2> QED BY <1>6, <2>1 DEF Before
<1>8. r \in BestRows(cands)
  BY <1>7 DEF BestRows
<1> QED BY <1>5, <1>6, <1>8

LEMMA BestUnique ==
  ASSUME NEW cands, Entrants(cands), NEW r \in BestRows(cands), NEW s \in BestRows(cands),
         r.owner = s.owner
  PROVE  r = s
<1>1. ~Before(r, s) /\ ~Before(s, r) /\ r \in cands /\ s \in cands
  BY DEF BestRows
<1>2. PICK o : \E v \in Nat, b \in BOOLEAN : r = Entrant(o, v, b)
  BY <1>1 DEF Entrants
<1>3. PICK v \in Nat, b \in BOOLEAN : r = Entrant(o, v, b)
  BY <1>2
<1>4. PICK o2 : \E v2 \in Nat, b2 \in BOOLEAN : s = Entrant(o2, v2, b2)
  BY <1>1 DEF Entrants
<1>5. PICK v2 \in Nat, b2 \in BOOLEAN : s = Entrant(o2, v2, b2)
  BY <1>4
<1>6. o = o2 /\ v = v2 /\ b = b2
  BY <1>1, <1>3, <1>5 DEF Before, Entrant
<1> QED BY <1>3, <1>5, <1>6

\* What a stored row or a run contributes.
LEMMA OwnIs ==
  \A p, k, q : Own(p, k, q) = IF <<p, k, q>> \in DOMAIN stats /\ Visible(stats[<<p, k, q>>], q)
                               THEN {stats[<<p, k, q>>].value} ELSE {}
BY DEF Own

LEMMA RunTimesIs ==
  \A h, q : RunTimes(h, q) = IF <<h, q>> \in DOMAIN runs /\ Visible(runs[<<h, q>>], q)
                              THEN {runs[<<h, q>>].value} ELSE {}
BY DEF RunTimes

LEMMA TimesTyped ==
  TablesOK => \A q : /\ \A p, k : Own(p, k, q) \in SUBSET Int /\ Timed(Own(p, k, q)) \in SUBSET (Nat \ {0})
                     /\ \A h : RunTimes(h, q) \in SUBSET Int /\ Timed(RunTimes(h, q)) \in SUBSET (Nat \ {0})
                     /\ \A h : h \notin players => RunTimes(h, q) = {}
                     /\ \A p : LinkedTimes(p, q) \in SUBSET (Nat \ {0})
                     /\ \A p, v : v \in LinkedTimes(p, q) <=> \E h \in Linked(p) : v \in Timed(RunTimes(h, q))
<1> SUFFICES ASSUME TablesOK, NEW q
             PROVE  /\ \A p, k : Own(p, k, q) \in SUBSET Int /\ Timed(Own(p, k, q)) \in SUBSET (Nat \ {0})
                    /\ \A h : RunTimes(h, q) \in SUBSET Int /\ Timed(RunTimes(h, q)) \in SUBSET (Nat \ {0})
                    /\ \A h : h \notin players => RunTimes(h, q) = {}
                    /\ \A p : LinkedTimes(p, q) \in SUBSET (Nat \ {0})
                    /\ \A p, v : v \in LinkedTimes(p, q) <=> \E h \in Linked(p) : v \in Timed(RunTimes(h, q))
  OBVIOUS
<1>0. Times \subseteq Int
  BY BoardAssumption
<1>1. ASSUME NEW A \in SUBSET Int PROVE Timed(A) \in SUBSET (Nat \ {0})
  <2>1. ASSUME NEW v \in Timed(A) PROVE v \in Nat /\ v # 0
    <3>1. v \in Int /\ v > 0
      BY DEF Timed
    <3> QED BY <3>1
  <2> QED BY <2>1
<1>2. \A p, k : Own(p, k, q) \in SUBSET Int
  BY <1>0, OwnIs DEF TablesOK, Row
<1>3. \A h : RunTimes(h, q) \in SUBSET Int
  BY <1>0, RunTimesIs DEF TablesOK, Row
<1>4. \A h : h \notin players => RunTimes(h, q) = {}
  BY RunTimesIs DEF TablesOK
<1>5. \A p, v : v \in LinkedTimes(p, q) <=> \E h \in Linked(p) : v \in Timed(RunTimes(h, q))
  BY DEF LinkedTimes, Timed
<1>6. \A p : LinkedTimes(p, q) \in SUBSET (Nat \ {0})
  BY <1>1, <1>3, <1>5
<1> QED BY <1>1, <1>2, <1>3, <1>4, <1>5, <1>6

\* The candidates, one by one.
LEMMA CandidateIs ==
  TablesOK => \A q, c :
    c \in Candidates(q) <=>
      \/ \E p \in Personas : \E v \in Timed(Own(p, "time", q)) : c = Entrant(p, v, FALSE)
      \/ \E p \in Personas : \E h \in Linked(p) : \E v \in Timed(RunTimes(h, q)) : c = Entrant(p, v, TRUE)
      \/ \E h \in players \ DOMAIN links : \E v \in Timed(RunTimes(h, q)) : c = Entrant(h, v, TRUE)
<1> SUFFICES ASSUME TablesOK, NEW q, NEW c
             PROVE  c \in Candidates(q) <=>
                      \/ \E p \in Personas : \E v \in Timed(Own(p, "time", q)) : c = Entrant(p, v, FALSE)
                      \/ \E p \in Personas : \E h \in Linked(p) : \E v \in Timed(RunTimes(h, q)) : c = Entrant(p, v, TRUE)
                      \/ \E h \in players \ DOMAIN links : \E v \in Timed(RunTimes(h, q)) : c = Entrant(h, v, TRUE)
  OBVIOUS
<1>1. \A p, v : v \in LinkedTimes(p, q) <=> \E h \in Linked(p) : v \in Timed(RunTimes(h, q))
  BY TimesTyped
<1> DEFINE Of(p) == {[owner |-> p, value |-> v, timeOnly |-> FALSE] : v \in Timed(Own(p, "time", q))} \cup
                    {[owner |-> p, value |-> v, timeOnly |-> TRUE] : v \in LinkedTimes(p, q)}
           By(h) == {[owner |-> h, value |-> v, timeOnly |-> TRUE] : v \in Timed(RunTimes(h, q))}
<1>2. Candidates(q) = (UNION {Of(p) : p \in Personas}) \cup (UNION {By(h) : h \in players \ DOMAIN links})
  BY DEF Candidates
<1>3. \A p : c \in Of(p) <=> \/ \E v \in Timed(Own(p, "time", q)) : c = Entrant(p, v, FALSE)
                             \/ \E h \in Linked(p) : \E v \in Timed(RunTimes(h, q)) : c = Entrant(p, v, TRUE)
  BY <1>1 DEF Entrant
<1>4. \A h : c \in By(h) <=> \E v \in Timed(RunTimes(h, q)) : c = Entrant(h, v, TRUE)
  BY DEF Entrant
<1> HIDE DEF Of, By
<1>5. c \in Candidates(q) <=> \/ \E p \in Personas : c \in Of(p)
                              \/ \E h \in players \ DOMAIN links : c \in By(h)
  BY <1>2
<1> QED BY <1>3, <1>4, <1>5

LEMMA CandidatesTyped == TablesOK => \A q : Entrants(Candidates(q))
<1> SUFFICES ASSUME TablesOK, NEW q PROVE Entrants(Candidates(q))
  OBVIOUS
<1> SUFFICES ASSUME NEW c \in Candidates(q)
             PROVE  \E o : \E v \in Nat, b \in BOOLEAN : c = Entrant(o, v, b)
  BY DEF Entrants
<1>1. \A p : \A v \in Timed(Own(p, "time", q)) : v \in Nat
  BY TimesTyped
<1>2. \A h : \A v \in Timed(RunTimes(h, q)) : v \in Nat
  BY TimesTyped
<1>3. \/ \E p \in Personas : \E v \in Timed(Own(p, "time", q)) : c = Entrant(p, v, FALSE)
      \/ \E p \in Personas : \E h \in Linked(p) : \E v \in Timed(RunTimes(h, q)) : c = Entrant(p, v, TRUE)
      \/ \E h \in players \ DOMAIN links : \E v \in Timed(RunTimes(h, q)) : c = Entrant(h, v, TRUE)
  BY CandidateIs
<1>4. CASE \E p \in Personas : \E v \in Timed(Own(p, "time", q)) : c = Entrant(p, v, FALSE)
  BY <1>1, <1>4
<1>5. CASE \E p \in Personas : \E h \in Linked(p) : \E v \in Timed(RunTimes(h, q)) : c = Entrant(p, v, TRUE)
  BY <1>2, <1>5
<1>6. CASE \E h \in players \ DOMAIN links : \E v \in Timed(RunTimes(h, q)) : c = Entrant(h, v, TRUE)
  BY <1>2, <1>6
<1> QED BY <1>3, <1>4, <1>5, <1>6

\* A board has finitely many candidates, for the tables have finitely many rows.
LEMMA CandidatesFinite == TablesOK => \A q : IsFiniteSet(Candidates(q))
<1> SUFFICES ASSUME TablesOK, NEW q PROVE IsFiniteSet(Candidates(q))
  OBVIOUS
<1>1. IsFiniteSet(DOMAIN stats) /\ IsFiniteSet(DOMAIN runs) /\ IsFiniteSet(players) /\ IsFiniteSet(DOMAIN links)
  BY FS_Subset DEF TablesOK
<1> DEFINE owned == {c[1] : c \in DOMAIN stats}
           linked == {links[h] : h \in DOMAIN links}
           values == {stats[c].value : c \in DOMAIN stats}
           times == {runs[c].value : c \in DOMAIN runs}
<1>2. IsFiniteSet(owned)
  <2> DEFINE f == [c \in DOMAIN stats |-> c[1]]
  <2>1. f \in Surjection(DOMAIN stats, owned)
    BY DEF Surjection
  <2> HIDE DEF f
  <2> QED BY <1>1, <2>1, FS_Surjection
<1>3. IsFiniteSet(linked)
  <2> DEFINE f == [h \in DOMAIN links |-> links[h]]
  <2>1. f \in Surjection(DOMAIN links, linked)
    BY DEF Surjection
  <2> HIDE DEF f
  <2> QED BY <1>1, <2>1, FS_Surjection
<1>4. IsFiniteSet(values)
  <2> DEFINE f == [c \in DOMAIN stats |-> stats[c].value]
  <2>1. f \in Surjection(DOMAIN stats, values)
    BY DEF Surjection
  <2> HIDE DEF f
  <2> QED BY <1>1, <2>1, FS_Surjection
<1>5. IsFiniteSet(times)
  <2> DEFINE f == [c \in DOMAIN runs |-> runs[c].value]
  <2>1. f \in Surjection(DOMAIN runs, times)
    BY DEF Surjection
  <2> HIDE DEF f
  <2> QED BY <1>1, <2>1, FS_Surjection
<1> DEFINE owners == owned \cup linked \cup players
           all == (owners \X (values \cup times)) \X BOOLEAN
<1>6. IsFiniteSet(owners) /\ IsFiniteSet(values \cup times) /\ IsFiniteSet(BOOLEAN)
  <2> HIDE DEF owned, linked, values, times
  <2>1. IsFiniteSet({TRUE}) /\ IsFiniteSet({FALSE}) /\ BOOLEAN = {TRUE} \cup {FALSE}
    BY FS_Singleton
  <2>2. IsFiniteSet(BOOLEAN)
    BY <2>1, FS_Union
  <2>3. IsFiniteSet(owned \cup linked)
    BY <1>2, <1>3, FS_Union
  <2>4. IsFiniteSet(owners) /\ IsFiniteSet(values \cup times)
    BY <1>1, <1>4, <1>5, <2>3, FS_Union
  <2> QED BY <2>2, <2>4
<1>7. IsFiniteSet(all)
  BY <1>6, FS_Product
<1>8. ASSUME NEW c \in Candidates(q)
      PROVE  \E o \in owners, v \in values \cup times, b \in BOOLEAN : c = Entrant(o, v, b)
  <2>1. ASSUME NEW p, NEW v \in Timed(Own(p, "time", q)) PROVE p \in owners /\ v \in values
    <3>1. <<p, "time", q>> \in DOMAIN stats /\ v = stats[<<p, "time", q>>].value
      BY <2>1, OwnIs DEF Timed
    <3>2. <<p, "time", q>>[1] = p
      OBVIOUS
    <3> QED BY <3>1, <3>2
  <2>2. ASSUME NEW h, NEW v \in Timed(RunTimes(h, q)) PROVE v \in times
    BY <2>2, RunTimesIs DEF Timed
  <2>3. ASSUME NEW p, NEW h \in Linked(p) PROVE p \in owners
    BY <2>3 DEF Linked
  <2>4. players \subseteq owners
    OBVIOUS
  <2>5. \/ \E p \in Personas : \E v \in Timed(Own(p, "time", q)) : c = Entrant(p, v, FALSE)
        \/ \E p \in Personas : \E h \in Linked(p) : \E v \in Timed(RunTimes(h, q)) : c = Entrant(p, v, TRUE)
        \/ \E h \in players \ DOMAIN links : \E v \in Timed(RunTimes(h, q)) : c = Entrant(h, v, TRUE)
    BY CandidateIs
  <2> HIDE DEF owners, values, times
  <2> QED BY <2>1, <2>2, <2>3, <2>4, <2>5
<1> DEFINE f == [x \in all |-> Entrant(x[1][1], x[1][2], x[2])]
           image == {f[x] : x \in all}
<1>9. IsFiniteSet(image)
  <2>1. f \in Surjection(all, image)
    BY DEF Surjection
  <2> HIDE DEF f, all
  <2> QED BY <1>7, <2>1, FS_Surjection
<1>10. ASSUME NEW o \in owners, NEW v \in values \cup times, NEW b \in BOOLEAN
       PROVE  Entrant(o, v, b) \in image
  <2> DEFINE x == <<<<o, v>>, b>>
  <2> HIDE DEF owners, values, times
  <2>1. x \in all /\ f[x] = Entrant(o, v, b)
    OBVIOUS
  <2> QED BY <2>1
<1> HIDE DEF image, owners, values, times
<1>11. Candidates(q) \subseteq image
  BY <1>8, <1>10
<1> QED BY <1>9, <1>11, FS_Subset

-----------------------------------------------------------------------------
(* Links *)

\* How many of a finite set.
LEMMA Count ==
  ASSUME NEW S, IsFiniteSet(S), NEW T, T \subseteq S
  PROVE  /\ IsFiniteSet(T) /\ Cardinality(T) \in Nat
         /\ Cardinality(T) <= Cardinality(S) /\ (Cardinality(T) = 0 <=> T = {})
<1>1. IsFiniteSet(T) /\ Cardinality(T) <= Cardinality(S)
  BY FS_Subset
<1> QED BY <1>1, FS_CardinalityType, FS_EmptySet

\* A board has finitely many rows, one for each owner, and none is better than
\* a row of its owner.
LEMMA BoardIs ==
  TablesOK => \A q :
    /\ IsFiniteSet(BoardRows(q))
    /\ \A r \in BoardRows(q) : r.value \in Nat /\ r \in Candidates(q)
    /\ \A r, s \in BoardRows(q) : r.owner = s.owner => r = s
    /\ \A c \in Candidates(q) : \E r \in BoardRows(q) : r.owner = c.owner /\ r.value <= c.value
    /\ \A v : /\ IsFiniteSet({r \in BoardRows(q) : r.value < v}) /\ Below(q, v) \in Nat
              /\ Below(q, v) = 0 <=> {r \in BoardRows(q) : r.value < v} = {}
<1> SUFFICES ASSUME TablesOK, NEW q
             PROVE  /\ IsFiniteSet(BoardRows(q))
                    /\ \A r \in BoardRows(q) : r.value \in Nat /\ r \in Candidates(q)
                    /\ \A r, s \in BoardRows(q) : r.owner = s.owner => r = s
                    /\ \A c \in Candidates(q) : \E r \in BoardRows(q) : r.owner = c.owner /\ r.value <= c.value
                    /\ \A v : /\ IsFiniteSet({r \in BoardRows(q) : r.value < v}) /\ Below(q, v) \in Nat
                              /\ Below(q, v) = 0 <=> {r \in BoardRows(q) : r.value < v} = {}
  OBVIOUS
<1>1. Entrants(Candidates(q)) /\ IsFiniteSet(Candidates(q)) /\ BoardRows(q) \subseteq Candidates(q)
  BY CandidatesTyped, CandidatesFinite DEF BoardRows, BestRows
<1>2. IsFiniteSet(BoardRows(q))
  BY <1>1, Count
<1>3. \A r \in BoardRows(q) : r.value \in Nat /\ r \in Candidates(q)
  BY <1>1 DEF Entrants, Entrant
<1>4. \A r, s \in BoardRows(q) : r.owner = s.owner => r = s
  BY <1>1, BestUnique DEF BoardRows
<1>5. \A c \in Candidates(q) : \E r \in BoardRows(q) : r.owner = c.owner /\ r.value <= c.value
  BY <1>1, BestExists DEF BoardRows
<1>6. ASSUME NEW v
      PROVE  /\ IsFiniteSet({r \in BoardRows(q) : r.value < v}) /\ Below(q, v) \in Nat
             /\ Below(q, v) = 0 <=> {r \in BoardRows(q) : r.value < v} = {}
  <2>1. {r \in BoardRows(q) : r.value < v} \subseteq BoardRows(q)
    OBVIOUS
  <2> QED BY <1>2, <2>1, Count DEF Below
<1> QED BY <1>2, <1>3, <1>4, <1>5, <1>6

AllTimes(q) == {c.value : c \in Candidates(q)}

\* The fastest time of a board is the least time of any candidate.
LEMMA FastestIs ==
  TablesOK => \A q : Fastest(q) = {v \in AllTimes(q) : \A u \in AllTimes(q) : v <= u}
<1> SUFFICES ASSUME TablesOK, NEW q, NEW v
             PROVE  v \in Fastest(q) <=> v \in AllTimes(q) /\ \A u \in AllTimes(q) : v <= u
  OBVIOUS
<1>1. ASSUME NEW c \in Candidates(q) PROVE c.value \in Nat
  <2>1. PICK o : \E u \in Nat, b \in BOOLEAN : c = Entrant(o, u, b)
    BY CandidatesTyped DEF Entrants
  <2> QED BY <2>1 DEF Entrant
<1>2. v \in Fastest(q) <=> \E r \in BoardRows(q) : r.value = v /\ Below(q, v) = 0
  BY DEF Fastest
<1>3. Below(q, v) = 0 <=> \A r \in BoardRows(q) : ~(r.value < v)
  BY BoardIs
<1>4. ASSUME NEW r \in BoardRows(q), r.value = v, Below(q, v) = 0
      PROVE  v \in AllTimes(q) /\ \A u \in AllTimes(q) : v <= u
  <2>1. v \in AllTimes(q) /\ v \in Nat
    BY <1>4, BoardIs DEF AllTimes
  <2>2. ASSUME NEW c \in Candidates(q) PROVE v <= c.value
    <3>1. PICK s \in BoardRows(q) : s.value <= c.value
      BY BoardIs
    <3>2. ~(s.value < v) /\ s.value \in Nat /\ c.value \in Nat
      BY <1>1, <1>3, <1>4, BoardIs
    <3> QED BY <2>1, <3>1, <3>2
  <2> QED BY <2>1, <2>2 DEF AllTimes
<1>5. ASSUME v \in AllTimes(q), \A u \in AllTimes(q) : v <= u
      PROVE  \E r \in BoardRows(q) : r.value = v /\ Below(q, v) = 0
  <2>1. \A r \in BoardRows(q) : r.value \in AllTimes(q) /\ r.value \in Nat
    BY BoardIs DEF AllTimes
  <2>2. v \in Nat
    BY <1>1, <1>5 DEF AllTimes
  <2>3. PICK r \in BoardRows(q) : r.value <= v
    BY <1>5, BoardIs DEF AllTimes
  <2>4. r.value = v
    BY <1>5, <2>1, <2>2, <2>3
  <2>5. \A s \in BoardRows(q) : ~(s.value < v)
    BY <1>5, <2>1, <2>2
  <2> QED BY <1>3, <2>4, <2>5
<1> QED BY <1>2, <1>4, <1>5

\* The times of all candidates are those of all rows and of all runs, however linked.
LEMMA AllTimesAre ==
  TablesOK => \A q, v : v \in AllTimes(q) <=> \/ \E p \in Personas : v \in Timed(Own(p, "time", q))
                                              \/ \E h \in players : v \in Timed(RunTimes(h, q))
<1> SUFFICES ASSUME TablesOK, NEW q, NEW v
             PROVE  v \in AllTimes(q) <=> \/ \E p \in Personas : v \in Timed(Own(p, "time", q))
                                          \/ \E h \in players : v \in Timed(RunTimes(h, q))
  OBVIOUS
<1>1. v \in AllTimes(q) <=> \E o, b : Entrant(o, v, b) \in Candidates(q)
  <2>1. \A c \in Candidates(q) : \E o : \E u \in Nat, b \in BOOLEAN : c = Entrant(o, u, b)
    BY CandidatesTyped DEF Entrants
  <2>2. \A o, b : Entrant(o, v, b).value = v
    BY DEF Entrant
  <2>3. \A c \in Candidates(q) : c.value = v => \E o, b : c = Entrant(o, v, b)
    BY <2>1 DEF Entrant
  <2> QED BY <2>2, <2>3 DEF AllTimes
<1>2. \A o, o2, u, b, b2 : Entrant(o, v, b) = Entrant(o2, u, b2) => o = o2 /\ v = u /\ b = b2
  BY DEF Entrant
<1>3. \A h \in DOMAIN links : links[h] \in Personas /\ h \in Linked(links[h])
  BY DEF TablesOK, Linked
<1>4. \A p, h : h \in Linked(p) => h \in players
  BY DEF TablesOK, Linked
<1>5. ASSUME NEW o, NEW b, Entrant(o, v, b) \in Candidates(q)
      PROVE  \/ \E p \in Personas : v \in Timed(Own(p, "time", q))
             \/ \E h \in players : v \in Timed(RunTimes(h, q))
  <2>1. \/ \E p \in Personas : \E u \in Timed(Own(p, "time", q)) : Entrant(o, v, b) = Entrant(p, u, FALSE)
        \/ \E p \in Personas : \E h \in Linked(p) : \E u \in Timed(RunTimes(h, q)) : Entrant(o, v, b) = Entrant(p, u, TRUE)
        \/ \E h \in players \ DOMAIN links : \E u \in Timed(RunTimes(h, q)) : Entrant(o, v, b) = Entrant(h, u, TRUE)
    BY <1>5, CandidateIs
  <2>2. \A p, u, c : Entrant(o, v, b) = Entrant(p, u, c) => v = u
    BY DEF Entrant
  <2>3. ASSUME NEW p \in Personas, NEW u \in Timed(Own(p, "time", q)), Entrant(o, v, b) = Entrant(p, u, FALSE)
        PROVE  v \in Timed(Own(p, "time", q))
    BY <2>2, <2>3
  <2>4. ASSUME NEW h, NEW u \in Timed(RunTimes(h, q)), NEW p, Entrant(o, v, b) = Entrant(p, u, TRUE)
        PROVE  v \in Timed(RunTimes(h, q))
    BY <2>2, <2>4
  <2>5. \A h \in players \ DOMAIN links : h \in players
    OBVIOUS
  <2> HIDE DEF Entrant
  <2> QED BY <1>4, <2>1, <2>3, <2>4, <2>5
<1>6. \A p \in Personas : v \in Timed(Own(p, "time", q)) => Entrant(p, v, FALSE) \in Candidates(q)
  BY CandidateIs
<1>7. ASSUME NEW h \in players, v \in Timed(RunTimes(h, q)) PROVE \E o, b : Entrant(o, v, b) \in Candidates(q)
  <2>1. CASE h \in DOMAIN links
    <3>1. Entrant(links[h], v, TRUE) \in Candidates(q)
      BY <1>3, <1>7, <2>1, CandidateIs
    <3> QED BY <3>1
  <2>2. CASE h \notin DOMAIN links
    <3>1. Entrant(h, v, TRUE) \in Candidates(q)
      BY <1>7, <2>2, CandidateIs
    <3> QED BY <3>1
  <2> QED BY <2>1, <2>2
<1> QED BY <1>1, <1>5, <1>6, <1>7

\* A time that somebody or some imported run has, whoever it counts for.
Raced(q, v) == \/ \E p \in Personas : v \in Timed(Own(p, "time", q))
               \/ \E h \in players : v \in Timed(RunTimes(h, q))

LEMMA FastestRaced ==
  TablesOK => \A q, v : v \in Fastest(q) <=> Raced(q, v) /\ \A u : Raced(q, u) => v <= u
<1> SUFFICES ASSUME TablesOK, NEW q, NEW v
             PROVE  v \in Fastest(q) <=> Raced(q, v) /\ \A u : Raced(q, u) => v <= u
  OBVIOUS
<1>1. \A u : u \in AllTimes(q) <=> Raced(q, u)
  BY AllTimesAre DEF Raced
<1>2. v \in Fastest(q) <=> v \in AllTimes(q) /\ \A u \in AllTimes(q) : v <= u
  BY FastestIs
<1> QED BY <1>1, <1>2

\* The standing of an owner is one more than the owners ahead of his row.
LEMMA StandingIs ==
  TablesOK => \A q : /\ DOMAIN Standing(q) = {r.owner : r \in BoardRows(q)}
                     /\ \A r \in BoardRows(q) : Standing(q)[r.owner] = 1 + Below(q, r.value)
<1> SUFFICES ASSUME TablesOK, NEW q
             PROVE  /\ DOMAIN Standing(q) = {r.owner : r \in BoardRows(q)}
                    /\ \A r \in BoardRows(q) : Standing(q)[r.owner] = 1 + Below(q, r.value)
  OBVIOUS
<1>1. DOMAIN Standing(q) = {r.owner : r \in BoardRows(q)}
  BY DEF Standing
<1>2. ASSUME NEW r \in BoardRows(q) PROVE Standing(q)[r.owner] = 1 + Below(q, r.value)
  <2>1. \A x \in BoardRows(q) : x.owner = r.owner => x = r
    BY BoardIs
  <2>2. (CHOOSE x \in BoardRows(q) : x.owner = r.owner) = r
    BY <2>1
  <2>3. Standing(q)[r.owner] = 1 + Below(q, (CHOOSE x \in BoardRows(q) : x.owner = r.owner).value)
    BY DEF Standing
  <2> QED BY <2>2, <2>3
<1> QED BY <1>1, <1>2

LEMMA BelowMonotone == TablesOK => \A q : \A u, v \in Nat : u <= v => Below(q, u) <= Below(q, v)
<1> SUFFICES ASSUME TablesOK, NEW q, NEW u \in Nat, NEW v \in Nat, u <= v
             PROVE  Below(q, u) <= Below(q, v)
  OBVIOUS
<1>1. \A r \in BoardRows(q) : r.value \in Nat
  BY BoardIs
<1>2. {r \in BoardRows(q) : r.value < u} \subseteq {r \in BoardRows(q) : r.value < v}
  BY <1>1
<1>3. IsFiniteSet({r \in BoardRows(q) : r.value < v})
  BY BoardIs
<1> QED BY <1>2, <1>3, Count DEF Below

\* A link changes no stored time and no run.
LEMMA LinkSteps ==
  ASSUME TablesOK, [Next]_vars, links' # links
  PROVE  /\ UNCHANGED <<stats, runs, players>>
         /\ \/ \E h \in Players, p \in Personas : LinkHistoricalAccount(h, p)
            \/ \E h \in Players : UnlinkHistoricalAccount(h)
<1>1. ASSUME NEW s \in Sessions, Handler(s) PROVE FALSE
  BY <1>1 DEF Handler, Upsert, StatementFails, SelectStats, SelectLinkedStats, SelectRuns, SelectValue,
     SelectLinked, SelectRun, SelectRank, SelectTop, SelectTag, tables
<1>2. ASSUME NEW s \in Sessions, UpdateStats(s) \/ QueryOwners(s) \/ GetTopNAndStats(s) PROVE FALSE
  BY <1>2 DEF UpdateStats, QueryOwners, GetTopNAndStats, Ask, tables
<1>3. (\E h \in Players : AddHistoricalRun(h)) \/ (\E q \in Dated : Rollover(q)) \/ UNCHANGED vars => FALSE
  BY DEF AddHistoricalRun, Rollover, vars, tables
<1>4. \/ \E h \in Players, p \in Personas : LinkHistoricalAccount(h, p)
      \/ \E h \in Players : UnlinkHistoricalAccount(h)
  BY <1>1, <1>2, <1>3 DEF Next, Import, Sessions
<1> QED BY <1>4 DEF LinkHistoricalAccount, UnlinkHistoricalAccount

LEMMA FastestRacedNext ==
  (TablesOK => \A q, v : v \in Fastest(q) <=> Raced(q, v) /\ \A u : Raced(q, u) => v <= u)'
BY FastestRaced, PTL

LEMMA FastestKept ==
  ASSUME TablesOK, TablesOK', UNCHANGED <<stats, runs, players>>, NEW b
  PROVE  Fastest(b)' = Fastest(b)
<1>1. \A v : Raced(b, v)' <=> Raced(b, v)
  BY DEF Raced, Own, RunTimes, Visible
<1>2. \A v : v \in Fastest(b) <=> Raced(b, v) /\ \A u : Raced(b, u) => v <= u
  BY FastestRaced
<1>3. \A v : v \in Fastest(b)' <=> Raced(b, v)' /\ \A u : Raced(b, u)' => v <= u
  BY FastestRacedNext
<1>4. \A v : v \in Fastest(b)' <=> v \in Fastest(b)
  BY <1>1, <1>2, <1>3
<1> QED BY <1>4

LEMMA BoardIsNext ==
  (TablesOK => \A q :
     /\ IsFiniteSet(BoardRows(q))
     /\ \A r \in BoardRows(q) : r.value \in Nat /\ r \in Candidates(q)
     /\ \A r, s \in BoardRows(q) : r.owner = s.owner => r = s
     /\ \A c \in Candidates(q) : \E r \in BoardRows(q) : r.owner = c.owner /\ r.value <= c.value
     /\ \A v : /\ IsFiniteSet({r \in BoardRows(q) : r.value < v}) /\ Below(q, v) \in Nat
               /\ Below(q, v) = 0 <=> {r \in BoardRows(q) : r.value < v} = {})'
BY BoardIs, PTL

LEMMA StandingIsNext ==
  (TablesOK => \A q : /\ DOMAIN Standing(q) = {r.owner : r \in BoardRows(q)}
                      /\ \A r \in BoardRows(q) : Standing(q)[r.owner] = 1 + Below(q, r.value))'
BY StandingIs, PTL

LEMMA BelowMonotoneNext ==
  (TablesOK => \A q : \A u, v \in Nat : u <= v => Below(q, u) <= Below(q, v))'
BY BelowMonotone, PTL

LEMMA CandidateIsNext ==
  (TablesOK => \A q, c :
    c \in Candidates(q) <=>
      \/ \E p \in Personas : \E v \in Timed(Own(p, "time", q)) : c = Entrant(p, v, FALSE)
      \/ \E p \in Personas : \E h \in Linked(p) : \E v \in Timed(RunTimes(h, q)) : c = Entrant(p, v, TRUE)
      \/ \E h \in players \ DOMAIN links : \E v \in Timed(RunTimes(h, q)) : c = Entrant(h, v, TRUE))'
BY CandidateIs, PTL

LEMMA CandidatesTypedNext == (TablesOK => \A q : Entrants(Candidates(q)))'
BY CandidatesTyped, PTL

\* The first link of player h moves his times to persona p, and nothing else.
FirstLink(h, p) ==
  /\ TablesOK /\ TablesOK' /\ UNCHANGED <<stats, runs, players>>
  /\ h \in players \ DOMAIN links /\ p \in Personas
  /\ DOMAIN links' = DOMAIN links \cup {h} /\ links'[h] = p
  /\ \A g \in DOMAIN links : links'[g] = links[g]

LEMMA Relinked ==
  ASSUME NEW h, NEW p, FirstLink(h, p), NEW q
  PROVE  /\ \A c \in Candidates(q)' : c.owner # h
         /\ \A c \in Candidates(q)' :
              c \in Candidates(q) \/ \E v \in Timed(RunTimes(h, q)) : c = Entrant(p, v, TRUE)
         /\ \A c \in Candidates(q) : c.owner # h => c \in Candidates(q)'
         /\ \A v \in Timed(RunTimes(h, q)) : Entrant(h, v, TRUE) \in Candidates(q)
<1> USE DEF FirstLink
<1>1. (\A o, k : Own(o, k, q)' = Own(o, k, q)) /\ (\A g : RunTimes(g, q)' = RunTimes(g, q))
  BY DEF Own, RunTimes, Visible
<1>2. /\ Linked(p)' = Linked(p) \cup {h} /\ h \notin Personas
      /\ \A o : o # p => Linked(o)' = Linked(o)
  BY BoardAssumption DEF Linked, TablesOK
<1>3. \A o, v, b : Entrant(o, v, b).owner = o
  BY DEF Entrant
<1>4. \A c : c \in Candidates(q)' <=>
        \/ \E o \in Personas : \E v \in Timed(Own(o, "time", q)) : c = Entrant(o, v, FALSE)
        \/ \E o \in Personas : \E g \in Linked(o)' : \E v \in Timed(RunTimes(g, q)) : c = Entrant(o, v, TRUE)
        \/ \E g \in players \ (DOMAIN links \cup {h}) : \E v \in Timed(RunTimes(g, q)) : c = Entrant(g, v, TRUE)
  BY <1>1, CandidateIsNext DEF Entrant
<1>5. \A c : c \in Candidates(q) <=>
        \/ \E o \in Personas : \E v \in Timed(Own(o, "time", q)) : c = Entrant(o, v, FALSE)
        \/ \E o \in Personas : \E g \in Linked(o) : \E v \in Timed(RunTimes(g, q)) : c = Entrant(o, v, TRUE)
        \/ \E g \in players \ DOMAIN links : \E v \in Timed(RunTimes(g, q)) : c = Entrant(g, v, TRUE)
  BY CandidateIs
<1>6. ASSUME NEW c \in Candidates(q)' PROVE c.owner # h
  <2>1. ASSUME NEW o \in Personas, NEW v, NEW b, c = Entrant(o, v, b) PROVE c.owner # h
    BY <1>2, <1>3, <2>1
  <2>2. ASSUME NEW g \in players \ (DOMAIN links \cup {h}), NEW v, c = Entrant(g, v, TRUE) PROVE c.owner # h
    BY <1>3, <2>2
  <2> QED BY <1>4, <2>1, <2>2
<1>7. ASSUME NEW c \in Candidates(q)'
      PROVE  c \in Candidates(q) \/ \E v \in Timed(RunTimes(h, q)) : c = Entrant(p, v, TRUE)
  <2>1. CASE \E o \in Personas : \E v \in Timed(Own(o, "time", q)) : c = Entrant(o, v, FALSE)
    BY <1>5, <2>1
  <2>2. CASE \E g \in players \ (DOMAIN links \cup {h}) : \E v \in Timed(RunTimes(g, q)) : c = Entrant(g, v, TRUE)
    BY <1>5, <2>2
  <2>3. ASSUME NEW o \in Personas, NEW g \in Linked(o)', NEW v \in Timed(RunTimes(g, q)), c = Entrant(o, v, TRUE)
        PROVE  c \in Candidates(q) \/ \E u \in Timed(RunTimes(h, q)) : c = Entrant(p, u, TRUE)
    <3>1. g \in Linked(o) \/ (o = p /\ g = h)
      BY <1>2
    <3> QED BY <1>5, <2>3, <3>1
  <2> QED BY <1>4, <2>1, <2>2, <2>3
<1>8. ASSUME NEW c \in Candidates(q), c.owner # h PROVE c \in Candidates(q)'
  <2>1. CASE \E o \in Personas : \E v \in Timed(Own(o, "time", q)) : c = Entrant(o, v, FALSE)
    BY <1>4, <2>1
  <2>2. CASE \E g \in players \ DOMAIN links : \E v \in Timed(RunTimes(g, q)) : c = Entrant(g, v, TRUE)
    <3>1. PICK g \in players \ DOMAIN links : \E v \in Timed(RunTimes(g, q)) : c = Entrant(g, v, TRUE)
      BY <2>2
    <3>2. PICK v \in Timed(RunTimes(g, q)) : c = Entrant(g, v, TRUE)
      BY <3>1
    <3>3. g # h
      BY <1>3, <1>8, <3>2
    <3> QED BY <1>4, <3>2, <3>3
  <2>3. CASE \E o \in Personas : \E g \in Linked(o) : \E v \in Timed(RunTimes(g, q)) : c = Entrant(o, v, TRUE)
    <3>1. \A o : Linked(o) \subseteq Linked(o)'
      BY <1>2
    <3> QED BY <1>4, <2>3, <3>1
  <2> QED BY <1>5, <2>1, <2>2, <2>3
<1>9. \A v \in Timed(RunTimes(h, q)) : Entrant(h, v, TRUE) \in Candidates(q)
  BY <1>5
<1> QED BY <1>6, <1>7, <1>8, <1>9

\* Nobody has more owners ahead of him: a run that moves from a player to a
\* persona puts the persona ahead where the player was.
LEMMA NobodyPushed ==
  ASSUME NEW h, NEW p, FirstLink(h, p), NEW q, NEW v \in Nat
  PROVE  Below(q, v)' <= Below(q, v)
<1> DEFINE ahead == {r \in BoardRows(q) : r.value < v}
           after == {r \in BoardRows(q)' : r.value < v}
           was(x) == IF x \in Candidates(q) THEN x.owner ELSE h
<1>0. TablesOK /\ TablesOK'
  BY DEF FirstLink
<1>1. IsFiniteSet(ahead) /\ Below(q, v) = Cardinality(ahead) /\ Below(q, v)' = Cardinality(after)
  BY <1>0, BoardIs DEF Below
<1>2. ASSUME NEW x \in after PROVE \E y \in ahead : y.owner = was(x)
  <2>1. x \in Candidates(q)' /\ x.value \in Nat /\ x.value < v
    BY <1>0, BoardIsNext
  <2>2. \E c \in Candidates(q) : c.owner = was(x) /\ c.value = x.value
    <3>1. CASE x \in Candidates(q)
      BY <3>1
    <3>2. CASE x \notin Candidates(q)
      <4>0. \A c \in Candidates(q)' : c \in Candidates(q) \/ \E u \in Timed(RunTimes(h, q)) : c = Entrant(p, u, TRUE)
        BY Relinked DEF Entrant
      <4>1. PICK u \in Timed(RunTimes(h, q)) : x = Entrant(p, u, TRUE)
        BY <2>1, <3>2, <4>0
      <4>2. Entrant(h, u, TRUE) \in Candidates(q)
        BY Relinked
      <4> QED BY <3>2, <4>1, <4>2 DEF Entrant
    <3> QED BY <3>1, <3>2
  <2>3. PICK y \in BoardRows(q) : y.owner = was(x) /\ y.value <= x.value
    BY <1>0, <2>2, BoardIs
  <2>4. y.value \in Nat
    BY <1>0, BoardIs
  <2> QED BY <2>1, <2>3, <2>4
<1>3. ASSUME NEW x \in after, NEW z \in after, was(x) = was(z) PROVE x = z
  <2>1. x \in BoardRows(q)' /\ z \in BoardRows(q)' /\ x \in Candidates(q)' /\ z \in Candidates(q)'
    BY <1>0, BoardIsNext
  <2>2. x.owner # h /\ z.owner # h
    BY <2>1, Relinked
  <2>3. x.owner = z.owner
    <3>1. CASE x \in Candidates(q) \/ z \in Candidates(q)
      BY <1>3, <2>2, <3>1
    <3>2. CASE x \notin Candidates(q) /\ z \notin Candidates(q)
      BY <2>1, <3>2, Relinked DEF Entrant
    <3> QED BY <3>1, <3>2
  <2> QED BY <1>0, <2>1, <2>3, BoardIsNext
<1> DEFINE f == [x \in after |-> CHOOSE y \in ahead : y.owner = was(x)]
<1>4. \A x \in after : f[x] \in ahead /\ f[x].owner = was(x)
  <2> HIDE DEF ahead, after, was
  <2> QED BY <1>2
<1>5. f \in Injection(after, ahead)
  <2>1. f \in [after -> ahead]
    BY <1>4
  <2>2. \A x, z \in after : f[x] = f[z] => x = z
    <3> HIDE DEF ahead, after, was, f
    <3> QED BY <1>3, <1>4
  <2> HIDE DEF f, after, ahead
  <2> QED BY <2>1, <2>2 DEF Injection, IsInjective
<1>6. IsFiniteSet(after) /\ Cardinality(after) <= Cardinality(ahead)
  <2> HIDE DEF f, after, ahead
  <2> QED BY <1>1, <1>5, FS_Injection
<1> QED BY <1>1, <1>6

LEMMA LinkRegroups ==
  ASSUME NEW h, NEW p, FirstLink(h, p), NEW q, NEW o \in DOMAIN Standing(q), o # h
  PROVE  o \in DOMAIN Standing(q)' /\ Standing(q)'[o] <= Standing(q)[o]
<1>0. TablesOK /\ TablesOK'
  BY DEF FirstLink
<1>1. PICK r \in BoardRows(q) : r.owner = o
  <2>1. DOMAIN Standing(q) = {r.owner : r \in BoardRows(q)}
    BY <1>0, StandingIs
  <2>2. o \in {r.owner : r \in BoardRows(q)}
    BY <2>1
  <2> QED BY <2>2
<1>2. r \in Candidates(q)' /\ r.value \in Nat
  BY <1>0, <1>1, BoardIs, Relinked
<1>3. PICK s \in BoardRows(q)' : s.owner = o /\ s.value <= r.value
  BY <1>0, <1>1, <1>2, BoardIsNext
<1>4. s.value \in Nat /\ Below(q, s.value)' \in Nat /\ Below(q, r.value)' \in Nat /\ Below(q, r.value) \in Nat
  BY <1>0, BoardIs, BoardIsNext
<1>5. Below(q, s.value)' <= Below(q, r.value)'
  BY <1>0, <1>2, <1>3, <1>4, BelowMonotoneNext
<1>6. Below(q, r.value)' <= Below(q, r.value)
  BY <1>2, NobodyPushed
<1>7. Standing(q)[o] = 1 + Below(q, r.value)
  BY <1>0, <1>1, StandingIs
<1>8. o \in DOMAIN Standing(q)' /\ Standing(q)'[o] = 1 + Below(q, s.value)'
  BY <1>0, <1>3, StandingIsNext
<1> QED BY <1>4, <1>5, <1>6, <1>7, <1>8

LEMMA RegroupStep ==
  ASSUME TablesOK, TablesOK', [Next]_vars, links' # links, NEW q
  PROVE  /\ Fastest(q)' = Fastest(q)
         /\ (\A h \in DOMAIN links : h \in DOMAIN links' /\ links'[h] = links[h]) =>
              \A o \in DOMAIN Standing(q) :
                \/ o \in DOMAIN Standing(q)' /\ Standing(q)'[o] <= Standing(q)[o]
                \/ o \in DOMAIN links' \ DOMAIN links
<1>1. /\ UNCHANGED <<stats, runs, players>>
      /\ \/ \E h \in Players, p \in Personas : LinkHistoricalAccount(h, p)
         \/ \E h \in Players : UnlinkHistoricalAccount(h)
  BY LinkSteps
<1>2. Fastest(q)' = Fastest(q)
  BY <1>1, FastestKept
<1>3. ASSUME \A h \in DOMAIN links : h \in DOMAIN links' /\ links'[h] = links[h],
             NEW o \in DOMAIN Standing(q), o \notin DOMAIN links' \ DOMAIN links
      PROVE  o \in DOMAIN Standing(q)' /\ Standing(q)'[o] <= Standing(q)[o]
  <2>1. \A h \in Players : ~UnlinkHistoricalAccount(h)
    BY <1>3 DEF UnlinkHistoricalAccount
  <2>2. PICK h \in Players, p \in Personas : LinkHistoricalAccount(h, p)
    BY <1>1, <2>1
  <2>3. h \in players /\ links' = Store(links, h, p)
    BY <2>2 DEF LinkHistoricalAccount
  <2>4. DOMAIN links' = DOMAIN links \cup {h} /\ links'[h] = p
    BY <2>3 DEF Store
  <2>5. h \notin DOMAIN links
    <3> SUFFICES ASSUME h \in DOMAIN links PROVE FALSE
      OBVIOUS
    <3>1. DOMAIN links' = DOMAIN links /\ \A g \in DOMAIN links : links'[g] = links[g]
      BY <1>3, <2>4
    <3>2. links = [g \in DOMAIN links |-> links[g]] /\ links' = [g \in DOMAIN links' |-> links'[g]]
      BY DEF TablesOK
    <3> QED BY <3>1, <3>2
  <2>6. FirstLink(h, p)
    BY <1>1, <1>3, <2>3, <2>4, <2>5 DEF FirstLink
  <2>7. o # h
    BY <1>3, <2>4, <2>5
  <2> QED BY <2>6, <2>7, LinkRegroups
<1> QED BY <1>2, <1>3

-----------------------------------------------------------------------------
(* Answers about owners *)

\* The times that a request for this owner goes by.
TimesOf(o, q) == IF o \in Players THEN RunTimes(o, q) ELSE Own(o, "time", q) \cup LinkedTimes(o, q)

LeastOf(S) == IF S = {} THEN {} ELSE {Min(S)}

StatTag(o, q) == IF o \in Players THEN {} ELSE Own(o, "tag", q)

\* The entry of owner o in an answer that is read from the tables as they are,
\* but for the rank of a time.
Right(e, o, kind, q) ==
  /\ e.owner = o
  /\ TimesOf(o, q) = {} => e.value = 0
  /\ TimesOf(o, q) # {} => e.value = Min(TimesOf(o, q))
  /\ e.value = 0 => e.rank = 0
  /\ e.value < 0 => e.rank = 1
  /\ kind = "stats" => e.time = LeastOf(TimesOf(o, q)) /\ e.tag = StatTag(o, q)

OwnersUpTo(q, v) == {r.owner : r \in {x \in BoardRows(q) : x.value <= v}}

\* The rank counts the owners with a time up to v, rightly but for those in M.
Placed(rank, v, q, M) ==
  \E A \in SUBSET (Personas \cup Players) :
    /\ IsFiniteSet(A) /\ A # {} /\ rank = Cardinality(A)
    /\ A \ M = OwnersUpTo(q, v) \ M

\* A request goes by a set of times of which at most one is no time at all.
LEMMA LeastTime ==
  TablesOK => \A q : \A o \in Personas \cup Players :
    /\ TimesOf(o, q) \in SUBSET Int
    /\ TimesOf(o, q) # {} => /\ Min(TimesOf(o, q)) \in TimesOf(o, q)
                             /\ \A v \in TimesOf(o, q) : Min(TimesOf(o, q)) <= v
<1> SUFFICES ASSUME TablesOK, NEW q, NEW o \in Personas \cup Players
             PROVE  /\ TimesOf(o, q) \in SUBSET Int
                    /\ TimesOf(o, q) # {} => /\ Min(TimesOf(o, q)) \in TimesOf(o, q)
                                             /\ \A v \in TimesOf(o, q) : Min(TimesOf(o, q)) <= v
  OBVIOUS
<1>1. \E A \in SUBSET Int, B \in SUBSET Nat : (\A a, b \in A : a = b) /\ TimesOf(o, q) = A \cup B
  <2>1. CASE o \in Players
    <3>1. RunTimes(o, q) \in SUBSET Int /\ (\A a, b \in RunTimes(o, q) : a = b)
      BY TimesTyped, RunTimesIs
    <3>2. TimesOf(o, q) = RunTimes(o, q) \cup {} /\ {} \in SUBSET Nat
      BY <2>1 DEF TimesOf
    <3> QED BY <3>1, <3>2
  <2>2. CASE o \notin Players
    <3>1. Own(o, "time", q) \in SUBSET Int /\ (\A a, b \in Own(o, "time", q) : a = b)
      BY TimesTyped, OwnIs
    <3>2. LinkedTimes(o, q) \in SUBSET (Nat \ {0})
      BY TimesTyped
    <3>3. LinkedTimes(o, q) \in SUBSET Nat /\ TimesOf(o, q) = Own(o, "time", q) \cup LinkedTimes(o, q)
      BY <2>2, <3>2 DEF TimesOf
    <3> QED BY <3>1, <3>3
  <2> QED BY <2>1, <2>2
<1>2. PICK A \in SUBSET Int, B \in SUBSET Nat : (\A a, b \in A : a = b) /\ TimesOf(o, q) = A \cup B
  BY <1>1
<1>3. TimesOf(o, q) # {} => Min(A \cup B) \in A \cup B /\ \A n \in A \cup B : Min(A \cup B) <= n
  BY <1>2, LeastOfTimes
<1>4. A \cup B \in SUBSET Int
  OBVIOUS
<1> QED BY <1>2, <1>3, <1>4

\* What a request goes by is what the board has of the owner, but for
\* a number that is no time.
LEMMA TimesOfOwner ==
  TablesOK => \A q : \A o \in Personas \cup Players :
    /\ \A c \in Candidates(q) : c.owner = o => c.value \in TimesOf(o, q)
    /\ \A v \in Timed(TimesOf(o, q)) : \E c \in Candidates(q) : c.value = v /\ (o \in Personas => c.owner = o)
<1> SUFFICES ASSUME TablesOK, NEW q, NEW o \in Personas \cup Players
             PROVE  /\ \A c \in Candidates(q) : c.owner = o => c.value \in TimesOf(o, q)
                    /\ \A v \in Timed(TimesOf(o, q)) :
                         \E c \in Candidates(q) : c.value = v /\ (o \in Personas => c.owner = o)
  OBVIOUS
<1>1. \A A : \A v : v \in Timed(A) <=> v \in A /\ v > 0
  BY DEF Timed
<1>2. Personas \cap Players = {}
  BY BoardAssumption
<1>3. \A p, v, b : Entrant(p, v, b).owner = p /\ Entrant(p, v, b).value = v
  BY DEF Entrant
<1>4. \A p, v : v \in LinkedTimes(p, q) <=> \E h \in Linked(p) : v \in Timed(RunTimes(h, q))
  BY TimesTyped
<1>5. \A c : c \in Candidates(q) <=>
        \/ \E p \in Personas : \E v \in Timed(Own(p, "time", q)) : c = Entrant(p, v, FALSE)
        \/ \E p \in Personas : \E h \in Linked(p) : \E v \in Timed(RunTimes(h, q)) : c = Entrant(p, v, TRUE)
        \/ \E h \in players \ DOMAIN links : \E v \in Timed(RunTimes(h, q)) : c = Entrant(h, v, TRUE)
  BY CandidateIs
<1>6. ASSUME NEW c \in Candidates(q), c.owner = o PROVE c.value \in TimesOf(o, q)
  <2>1. ASSUME NEW p \in Personas, NEW v \in Timed(Own(p, "time", q)), c = Entrant(p, v, FALSE)
        PROVE  c.value \in TimesOf(o, q)
    <3>1. p = o /\ v = c.value
      BY <1>3, <1>6, <2>1
    <3> QED BY <1>1, <1>2, <3>1 DEF TimesOf
  <2>2. ASSUME NEW p \in Personas, NEW h \in Linked(p), NEW v \in Timed(RunTimes(h, q)), c = Entrant(p, v, TRUE)
        PROVE  c.value \in TimesOf(o, q)
    <3>1. p = o /\ v = c.value
      BY <1>3, <1>6, <2>2
    <3> QED BY <1>2, <1>4, <3>1 DEF TimesOf
  <2>3. ASSUME NEW h \in players, NEW v \in Timed(RunTimes(h, q)), c = Entrant(h, v, TRUE)
        PROVE  c.value \in TimesOf(o, q)
    <3>1. h = o /\ v = c.value /\ h \in Players
      <4>1. h = o /\ v = c.value
        BY <1>3, <1>6, <2>3
      <4> QED BY <4>1 DEF TablesOK
    <3> QED BY <1>1, <3>1 DEF TimesOf
  <2> QED BY <1>5, <2>1, <2>2, <2>3
<1>7. ASSUME NEW v \in Timed(TimesOf(o, q))
      PROVE  \E c \in Candidates(q) : c.value = v /\ (o \in Personas => c.owner = o)
  <2>1. CASE o \in Players
    <3>1. v \in Timed(RunTimes(o, q)) /\ o \notin Personas /\ o \in players
      BY <1>1, <1>2, <1>7, <2>1, TimesTyped DEF TimesOf
    <3>2. CASE o \in DOMAIN links
      <4>1. links[o] \in Personas /\ o \in Linked(links[o])
        BY <3>2 DEF TablesOK, Linked
      <4>2. Entrant(links[o], v, TRUE) \in Candidates(q)
        BY <1>5, <3>1, <4>1
      <4> QED BY <1>3, <3>1, <4>2
    <3>3. CASE o \notin DOMAIN links
      <4>1. Entrant(o, v, TRUE) \in Candidates(q)
        BY <1>5, <3>1, <3>3
      <4> QED BY <1>3, <3>1, <4>1
    <3> QED BY <3>2, <3>3
  <2>2. CASE o \notin Players
    <3>1. o \in Personas /\ (v \in Timed(Own(o, "time", q)) \/ v \in LinkedTimes(o, q))
      BY <1>1, <1>7, <2>2 DEF TimesOf
    <3>2. CASE v \in Timed(Own(o, "time", q))
      <4>1. Entrant(o, v, FALSE) \in Candidates(q)
        BY <1>5, <3>1, <3>2
      <4>2. Entrant(o, v, FALSE).owner = o /\ Entrant(o, v, FALSE).value = v
        BY <1>3
      <4> QED BY <4>1, <4>2
    <3>3. CASE v \in LinkedTimes(o, q)
      <4>1. Entrant(o, v, TRUE) \in Candidates(q)
        BY <1>4, <1>5, <3>1, <3>3
      <4>2. Entrant(o, v, TRUE).owner = o /\ Entrant(o, v, TRUE).value = v
        BY <1>3
      <4> QED BY <4>1, <4>2
    <3> QED BY <3>1, <3>2, <3>3
  <2> QED BY <2>1, <2>2
<1> QED BY <1>6, <1>7

\* As many owners as rows.
LEMMA OwnersCount ==
  ASSUME TablesOK, NEW q, NEW X \in SUBSET BoardRows(q)
  PROVE  /\ IsFiniteSet(X) /\ IsFiniteSet({r.owner : r \in X})
         /\ Cardinality({r.owner : r \in X}) = Cardinality(X) /\ Cardinality(X) \in Nat
<1> DEFINE f == [r \in X |-> r.owner]
           O == {r.owner : r \in X}
<1>1. IsFiniteSet(X) /\ Cardinality(X) \in Nat
  <2>1. IsFiniteSet(BoardRows(q))
    BY BoardIs
  <2> QED BY <2>1, Count
<1>2. f \in Surjection(X, O)
  BY DEF Surjection
<1>3. f \in Injection(X, O)
  <2>1. \A r, x \in X : r.owner = x.owner => r = x
    BY BoardIs
  <2> QED BY <2>1 DEF Injection, IsInjective
<1> HIDE DEF f, O
<1>4. IsFiniteSet(O) /\ Cardinality(O) = Cardinality(X)
  BY <1>1, <1>2, <1>3, FS_Surjection
<1> QED BY <1>1, <1>4 DEF O

\* Rows of the board have an owner and a time.
LEMMA RowsTyped ==
  TablesOK => \A q : \A r \in BoardRows(q) :
    /\ r.owner \in Personas \cup Players /\ r.value \in Nat \ {0} /\ r.timeOnly \in BOOLEAN
    /\ r = [owner |-> r.owner, value |-> r.value, timeOnly |-> r.timeOnly]
<1> SUFFICES ASSUME TablesOK, NEW q, NEW r \in BoardRows(q)
             PROVE  /\ r.owner \in Personas \cup Players /\ r.value \in Nat \ {0} /\ r.timeOnly \in BOOLEAN
                    /\ r = [owner |-> r.owner, value |-> r.value, timeOnly |-> r.timeOnly]
  OBVIOUS
<1>1. \E o \in Personas \cup Players, v \in Nat \ {0}, b \in BOOLEAN : r = Entrant(o, v, b)
  <2>1. r \in Candidates(q)
    BY BoardIs
  <2>2. \/ \E p \in Personas : \E v \in Timed(Own(p, "time", q)) : r = Entrant(p, v, FALSE)
        \/ \E p \in Personas : \E h \in Linked(p) : \E v \in Timed(RunTimes(h, q)) : r = Entrant(p, v, TRUE)
        \/ \E h \in players \ DOMAIN links : \E v \in Timed(RunTimes(h, q)) : r = Entrant(h, v, TRUE)
    BY <2>1, CandidateIs
  <2>3. /\ \A p : \A v \in Timed(Own(p, "time", q)) : v \in Nat \ {0}
        /\ \A h : \A v \in Timed(RunTimes(h, q)) : v \in Nat \ {0}
    BY TimesTyped
  <2>4. players \subseteq Players
    BY DEF TablesOK
  <2>5. CASE \E p \in Personas : \E v \in Timed(Own(p, "time", q)) : r = Entrant(p, v, FALSE)
    BY <2>3, <2>5
  <2>6. CASE \E p \in Personas : \E h \in Linked(p) : \E v \in Timed(RunTimes(h, q)) : r = Entrant(p, v, TRUE)
    BY <2>3, <2>6
  <2>7. CASE \E h \in players \ DOMAIN links : \E v \in Timed(RunTimes(h, q)) : r = Entrant(h, v, TRUE)
    BY <2>3, <2>4, <2>7
  <2> QED BY <2>2, <2>5, <2>6, <2>7
<1> QED BY <1>1 DEF Entrant

\* rankForValue, which ranks only the candidates up to the value, counts the
\* owners of the board up to that value, and finds nobody below 1.
LEMMA RankIs ==
  TablesOK => \A q : \A v \in Int :
    /\ RankForValue(q, v) \in Nat
    /\ v <= 0 => RankForValue(q, v) = 1
    /\ \A c \in Candidates(q) : c.value = v => /\ OwnersUpTo(q, v) \in SUBSET (Personas \cup Players)
                                               /\ IsFiniteSet(OwnersUpTo(q, v)) /\ OwnersUpTo(q, v) # {}
                                               /\ RankForValue(q, v) = Cardinality(OwnersUpTo(q, v))
<1> SUFFICES ASSUME TablesOK, NEW q, NEW v \in Int
             PROVE  /\ RankForValue(q, v) \in Nat
                    /\ v <= 0 => RankForValue(q, v) = 1
                    /\ \A c \in Candidates(q) :
                         c.value = v => /\ OwnersUpTo(q, v) \in SUBSET (Personas \cup Players)
                                        /\ IsFiniteSet(OwnersUpTo(q, v)) /\ OwnersUpTo(q, v) # {}
                                        /\ RankForValue(q, v) = Cardinality(OwnersUpTo(q, v))
  OBVIOUS
<1> DEFINE shown == {r \in BoardRows(q) : r.value <= v}
           ranked == BestRows({c \in Candidates(q) : c.value <= v})
<1>1. \A c \in Candidates(q) : c.value \in Nat /\ c.timeOnly \in BOOLEAN
  BY CandidatesTyped DEF Entrants, Entrant
<1>2. ranked = shown
  <2>1. \A c \in Candidates(q) : c.value <= v => \A d \in Candidates(q) : Before(d, c) => d.value <= v
    BY <1>1 DEF Before
  <2> QED BY <2>1 DEF BestRows, BoardRows
<1>3. shown \in SUBSET BoardRows(q) /\ OwnersUpTo(q, v) = {r.owner : r \in shown}
  BY DEF OwnersUpTo
<1>4. RankForValue(q, v) = IF Cardinality(shown) = 0 THEN 1 ELSE Cardinality(shown)
  <2>1. RankForValue(q, v) = IF Cardinality(ranked) = 0 THEN 1 ELSE Cardinality(ranked)
    BY DEF RankForValue
  <2> QED BY <1>2, <2>1
<1>5. \A r \in BoardRows(q) : r.owner \in Personas \cup Players /\ r.value \in Nat /\ r.value # 0
  BY RowsTyped
<1>6. v <= 0 => shown = {}
  BY <1>5
<1>7. \A c \in Candidates(q) : c.value = v => shown # {}
  BY BoardIs
<1> HIDE DEF shown
<1>8. /\ IsFiniteSet(shown) /\ IsFiniteSet(OwnersUpTo(q, v)) /\ Cardinality(shown) \in Nat
      /\ Cardinality(OwnersUpTo(q, v)) = Cardinality(shown) /\ (Cardinality(shown) = 0 <=> shown = {})
  <2>1. IsFiniteSet(shown) /\ IsFiniteSet({r.owner : r \in shown})
        /\ Cardinality({r.owner : r \in shown}) = Cardinality(shown) /\ Cardinality(shown) \in Nat
    BY <1>3, OwnersCount
  <2> QED BY <1>3, <2>1, FS_EmptySet
<1>9. OwnersUpTo(q, v) \in SUBSET (Personas \cup Players) /\ (shown # {} => OwnersUpTo(q, v) # {})
  BY <1>3, <1>5
<1> QED BY <1>4, <1>6, <1>7, <1>8, <1>9

\* What RankedAnswerMatchesBoard says of one entry, when the owners in M
\* changed since the query.
Matches(e, o, kind, q, M) ==
  LET mine  == {r \in BoardRows(q) : r.owner = e.owner}
      still == {r \in BoardRows(q) : r.owner \notin M /\ r.value <= e.value}
  IN  /\ e.owner = o
      /\ e.owner \notin M =>
           /\ e.value > 0 => /\ \A r \in mine : r.value = e.value
                             /\ Cardinality(still) <= e.rank
                             /\ e.rank <= Cardinality(still) + Cardinality(M)
                             /\ kind = "stats" => e.time = {e.value}
           /\ e.value <= 0 => e.rank = IF e.value = 0 THEN 0 ELSE 1
           /\ e.owner \in Personas =>
                \/ e.value \in Own(e.owner, "time", q) /\ e.value <= 0
                \/ e.rank = 0 <=> mine = {}

\* Each owner that changed shifts the rank by one at most.
LEMMA PlacedBounds ==
  ASSUME TablesOK, NEW q, NEW v \in Int, NEW rank, NEW M, IsFiniteSet(M), Placed(rank, v, q, M)
  PROVE  LET still == {r \in BoardRows(q) : r.owner \notin M /\ r.value <= v}
         IN  rank \in Nat \ {0} /\ Cardinality(still) <= rank
             /\ rank <= Cardinality(still) + Cardinality(M)
<1> DEFINE still == {r \in BoardRows(q) : r.owner \notin M /\ r.value <= v}
           S == {r.owner : r \in still}
<1>1. PICK A \in SUBSET (Personas \cup Players) :
        /\ IsFiniteSet(A) /\ A # {} /\ rank = Cardinality(A)
        /\ A \ M = OwnersUpTo(q, v) \ M
  BY DEF Placed
<1>2. A \ M = S /\ still \in SUBSET BoardRows(q)
  BY <1>1 DEF OwnersUpTo
<1> HIDE DEF still
<1>3. IsFiniteSet(S) /\ Cardinality(S) = Cardinality(still) /\ Cardinality(still) \in Nat
  BY <1>2, OwnersCount
<1> HIDE DEF S
<1>4. rank \in Nat /\ rank # 0 /\ Cardinality(S) <= rank
  <2>1. S \subseteq A
    BY <1>2
  <2> QED BY <1>1, <2>1, Count
<1>5. IsFiniteSet(A \cap M) /\ Cardinality(A \cap M) \in Nat /\ Cardinality(A \cap M) <= Cardinality(M)
      /\ Cardinality(M) \in Nat
  <2>1. A \cap M \subseteq M
    OBVIOUS
  <2> QED BY <2>1, Count, FS_CardinalityType
<1>6. Cardinality(A) = Cardinality(S) + Cardinality(A \cap M)
  <2>1. A = S \cup (A \cap M) /\ S \cap (A \cap M) = {}
    BY <1>2
  <2>2. Cardinality(S \cup (A \cap M)) = Cardinality(S) + Cardinality(A \cap M) - Cardinality(S \cap (A \cap M))
    BY <1>3, <1>5, FS_Union
  <2>3. Cardinality({}) = 0
    BY FS_EmptySet
  <2> DEFINE a == Cardinality(A)
             b == Cardinality(S)
             c == Cardinality(A \cap M)
  <2>4. a = b + c - 0
    BY <2>1, <2>2, <2>3
  <2>5. b \in Nat /\ c \in Nat
    BY <1>3, <1>5
  <2> HIDE DEF a, b, c
  <2>6. a = b + c
    BY <2>4, <2>5
  <2> QED BY <2>6 DEF a, b, c
<1>7. rank <= Cardinality(still) + Cardinality(M) /\ Cardinality(still) <= rank
  BY <1>1, <1>3, <1>4, <1>5, <1>6
<1> QED BY <1>4, <1>7 DEF still

LEMMA RightMatches ==
  ASSUME TablesOK, NEW q, NEW o \in Personas \cup Players, NEW kind, NEW e, NEW M, IsFiniteSet(M),
         e.owner = o, o \notin M => Right(e, o, kind, q) /\ (e.value > 0 => Placed(e.rank, e.value, q, M))
  PROVE  Matches(e, o, kind, q, M)
<1> DEFINE T == TimesOf(o, q)
           mine == {r \in BoardRows(q) : r.owner = o}
           still == {r \in BoardRows(q) : r.owner \notin M /\ r.value <= e.value}
<1>0. CASE o \in M
  BY <1>0 DEF Matches
<1>1. CASE o \notin M
  <2>1. /\ T \in SUBSET Int
        /\ T # {} => Min(T) \in T /\ \A n \in T : Min(T) <= n
    BY LeastTime
  <2>2. /\ \A c \in Candidates(q) : c.owner = o => c.value \in T
        /\ \A v \in Timed(T) : \E c \in Candidates(q) : c.value = v /\ (o \in Personas => c.owner = o)
    BY TimesOfOwner
  <2>3. /\ T = {} => e.value = 0
        /\ T # {} => e.value = Min(T)
        /\ e.value = 0 => e.rank = 0
        /\ e.value < 0 => e.rank = 1
        /\ kind = "stats" => e.time = LeastOf(T)
    BY <1>1 DEF Right
  <2>4. \A r \in mine : r.value \in T /\ r.value \in Nat
    BY <2>2, BoardIs
  <2>5. \A a, b \in RunTimes(o, q) : a = b
    BY RunTimesIs
  <2>6. o \notin Players => T = Own(o, "time", q) \cup LinkedTimes(o, q)
    BY DEF TimesOf
  <2>7. o \in Players => T = RunTimes(o, q)
    BY DEF TimesOf
  <2>8. o \in Personas => o \notin Players
    BY BoardAssumption
  <2>9. \A v \in LinkedTimes(o, q) : v \in Nat \ {0}
    BY TimesTyped
  <2>10. \A v \in T : v > 0 => v \in Timed(T)
    BY DEF Timed
  <2> HIDE DEF T
  <2>11. e.value \in Int /\ (e.value # 0 => T # {} /\ e.value \in T /\ \A n \in T : e.value <= n)
    <3>1. CASE T = {}
      BY <2>3, <3>1
    <3>2. CASE T # {}
      <4>1. e.value = Min(T)
        BY <2>3, <3>2
      <4>2. e.value \in T /\ \A n \in T : e.value <= n
        BY <2>1, <3>2, <4>1
      <4>3. e.value \in Int
        BY <2>1, <4>2
      <4> QED BY <3>2, <4>2, <4>3
    <3> QED BY <3>1, <3>2
  <2>12. ASSUME e.value > 0
         PROVE  /\ \A r \in mine : r.value = e.value
                /\ Cardinality(still) <= e.rank
                /\ e.rank <= Cardinality(still) + Cardinality(M)
                /\ kind = "stats" => e.time = {e.value}
                /\ e.rank # 0 /\ (o \in Personas => mine # {})
    <3>1. T # {} /\ e.value = Min(T) /\ e.value \in T /\ \A n \in T : e.value <= n
      <4>1. e.value # 0
        BY <2>11, <2>12
      <4>2. T # {} /\ e.value \in T /\ \A n \in T : e.value <= n
        BY <2>11, <4>1
      <4> QED BY <2>3, <4>2
    <3>2. PICK c \in Candidates(q) : c.value = e.value /\ (o \in Personas => c.owner = o)
      <4>1. e.value \in Timed(T)
        BY <2>10, <2>12, <3>1
      <4> QED BY <2>2, <4>1
    <3>3. Placed(e.rank, e.value, q, M)
      BY <1>1, <2>12
    <3>4. e.rank \in Nat \ {0} /\ Cardinality(still) <= e.rank
          /\ e.rank <= Cardinality(still) + Cardinality(M)
      BY <2>11, <3>3, PlacedBounds
    <3>5. kind = "stats" => e.time = {e.value}
      BY <2>3, <3>1 DEF LeastOf
    <3>6. o \in Personas => \E r \in BoardRows(q) : r.owner = o /\ r.value <= e.value
      BY <3>2, BoardIs
    <3>7. ASSUME NEW r \in mine PROVE r.value = e.value
      <4>1. r.value \in T /\ r.value \in Nat
        BY <2>4
      <4>2. CASE o \in Players
        BY <2>5, <2>7, <3>1, <4>1, <4>2
      <4>3. CASE o \in Personas
        <5>1. PICK s \in BoardRows(q) : s.owner = o /\ s.value <= e.value
          BY <3>6, <4>3
        <5>2. s = r
          BY <5>1, BoardIs
        <5>3. e.value <= r.value
          BY <3>1, <4>1
        <5> QED BY <2>11, <4>1, <5>1, <5>2, <5>3
      <4> QED BY <4>2, <4>3
    <3>8. e.rank # 0
      BY <3>4
    <3> HIDE DEF still
    <3> QED BY <3>4, <3>5, <3>6, <3>7, <3>8
  <2>13. e.value <= 0 => e.rank = IF e.value = 0 THEN 0 ELSE 1
    BY <2>3, <2>11
  <2>14. ASSUME o \in Personas
         PROVE  \/ e.value \in Own(o, "time", q) /\ e.value <= 0
                \/ e.rank = 0 <=> mine = {}
    <3>1. CASE T = {}
      <4>1. e.value = 0 /\ e.rank = 0
        BY <2>3, <3>1
      <4>2. mine = {}
        BY <2>4, <3>1
      <4> QED BY <4>1, <4>2
    <3>2. CASE T # {} /\ e.value > 0
      BY <2>12, <2>14, <3>2
    <3>3. CASE T # {} /\ ~(e.value > 0)
      <4>1. e.value <= 0 /\ e.value \in T
        BY <2>1, <2>3, <2>11, <3>3
      <4>2. e.value \notin LinkedTimes(o, q)
        BY <2>9, <2>11, <4>1
      <4> QED BY <2>6, <2>8, <2>14, <4>1, <4>2
    <3> QED BY <3>1, <3>2, <3>3
  <2>15. e.value > 0 => /\ \A r \in mine : r.value = e.value
                        /\ Cardinality(still) <= e.rank
                        /\ e.rank <= Cardinality(still) + Cardinality(M)
                        /\ kind = "stats" => e.time = {e.value}
    BY <2>12
  <2>16. o \in Personas => \/ e.value \in Own(o, "time", q) /\ e.value <= 0
                           \/ e.rank = 0 <=> mine = {}
    BY <2>14
  <2> QED BY <2>13, <2>15, <2>16 DEF Matches
<1> QED BY <1>0, <1>1

-----------------------------------------------------------------------------
(* Pages of the board *)

ARow == [owner : Personas \cup Players, rank : Nat, value : Nat, timeOnly : BOOLEAN, tag : SUBSET Int]

\* What PageRanksAreRanks says of a page that is not empty.
PageRight(q, rows) ==
  \A i \in DOMAIN rows :
    /\ \A j \in DOMAIN rows : rows[i].owner = rows[j].owner => i = j
    /\ Below(q, rows[i].value) < rows[i].rank /\ rows[i].rank <= UpTo(q, rows[i].value)
    /\ [owner |-> rows[i].owner, value |-> rows[i].value, timeOnly |-> rows[i].timeOnly] \in BoardRows(q)

\* Every row of the board is in its place once, and its place is one of those
\* that its time has.
LEMMA Places ==
  ASSUME TablesOK, NEW q, NEW b \in Boards(q)
  PROVE  /\ Len(b) \in Nat /\ b \in [1 .. Len(b) -> BoardRows(q)]
         /\ \A i, j \in 1 .. Len(b) : b[i].owner = b[j].owner => i = j
         /\ \A k \in 1 .. Len(b) : Below(q, b[k].value) < k /\ k <= UpTo(q, b[k].value)
<1> DEFINE N == Cardinality(BoardRows(q))
<1>1. IsFiniteSet(BoardRows(q)) /\ N \in Nat /\ \A r \in BoardRows(q) : r.value \in Nat
  BY BoardIs, Count
<1>2. /\ b \in [1 .. N -> BoardRows(q)]
      /\ \A r \in BoardRows(q) : \E i \in 1 .. N : b[i] = r
      /\ \A i, j \in 1 .. N : i < j => b[i].value <= b[j].value
  BY DEF Boards, BoardRows
<1>3. Cardinality(1 .. N) = N /\ IsFiniteSet(1 .. N)
  BY <1>1, FS_Interval
<1> HIDE DEF N
<1>4. Len(b) = N
  BY <1>1, <1>2
<1>5. \A i, j \in 1 .. N : b[i] = b[j] => i = j
  <2>1. b \in Surjection(1 .. N, BoardRows(q))
    BY <1>2 DEF Surjection
  <2>2. b \in Injection(1 .. N, BoardRows(q))
    BY <1>1, <1>3, <2>1, FS_SurjSameCardinalityImpliesInj DEF N
  <2> QED BY <2>2 DEF Injection, IsInjective
<1>6. \A i, j \in 1 .. N : b[i].owner = b[j].owner => i = j
  BY <1>2, <1>5, BoardIs
<1>7. ASSUME NEW k \in 1 .. N PROVE Below(q, b[k].value) < k /\ k <= UpTo(q, b[k].value)
  <2> DEFINE ahead == {r \in BoardRows(q) : r.value < b[k].value}
             upto == {r \in BoardRows(q) : r.value <= b[k].value}
             f == [r \in ahead |-> CHOOSE i \in 1 .. N : b[i] = r]
             g == [i \in 1 .. k |-> b[i]]
  <2>1. k \in Nat /\ k # 0 /\ b[k] \in BoardRows(q) /\ b[k].value \in Nat
    BY <1>1, <1>2
  <2>2. Cardinality(1 .. k - 1) = k - 1 /\ IsFiniteSet(1 .. k - 1) /\ Cardinality(1 .. k) = k
    <3> HIDE DEF ahead, upto, f, g
    <3>1. k - 1 \in Int /\ k \in Int /\ 1 \in Int
      BY <2>1
    <3>2. /\ IsFiniteSet(1 .. k - 1)
          /\ Cardinality(1 .. k - 1) = IF 1 > k - 1 THEN 0 ELSE (k - 1) - 1 + 1
          /\ Cardinality(1 .. k) = IF 1 > k THEN 0 ELSE k - 1 + 1
      BY <3>1, FS_Interval
    <3> QED BY <2>1, <3>2
  <2>3. \A r \in ahead : f[r] \in 1 .. N /\ b[f[r]] = r
    <3> HIDE DEF ahead
    <3>1. ahead \subseteq BoardRows(q)
      BY DEF ahead
    <3> QED BY <1>2, <3>1
  <2>4. ASSUME NEW r \in ahead PROVE f[r] \in 1 .. k - 1
    <3>1. f[r] \in 1 .. N /\ b[f[r]].value < b[k].value /\ b[f[r]].value \in Nat
      BY <1>1, <2>3
    <3> HIDE DEF f, ahead
    <3>2. ~(k < f[r]) /\ f[r] # k
      BY <1>2, <2>1, <3>1
    <3> QED BY <2>1, <3>1, <3>2
  <2>5. f \in Injection(ahead, 1 .. k - 1)
    <3>1. f \in [ahead -> 1 .. k - 1]
      BY <2>4
    <3>2. \A r, s \in ahead : f[r] = f[s] => r = s
      <4> HIDE DEF f, ahead
      <4> QED BY <2>3
    <3> HIDE DEF f, ahead
    <3> QED BY <3>1, <3>2 DEF Injection, IsInjective
  <2>6. Cardinality(ahead) <= k - 1
    <3> HIDE DEF f, ahead
    <3> QED BY <2>2, <2>5, FS_Injection
  <2>7. \A i \in 1 .. k : b[i] \in upto
    <3>1. ASSUME NEW i \in 1 .. k PROVE b[i] \in BoardRows(q) /\ b[i].value <= b[k].value
      <4>1. i \in 1 .. N /\ b[i] \in BoardRows(q) /\ b[i].value \in Nat
        BY <1>1, <1>2
      <4>2. CASE i = k
        BY <2>1, <4>2
      <4>3. CASE i < k
        BY <1>2, <4>1, <4>3
      <4> QED BY <2>1, <4>1, <4>2, <4>3
    <3> QED BY <3>1
  <2>8. g \in Injection(1 .. k, upto)
    <3>1. g \in [1 .. k -> upto]
      BY <2>7
    <3>2. \A i, j \in 1 .. k : g[i] = g[j] => i = j
      <4>1. \A i \in 1 .. k : g[i] = b[i] /\ i \in 1 .. N
        BY <1>1, <2>1
      <4> HIDE DEF g
      <4> QED BY <1>5, <4>1
    <3> HIDE DEF g, upto
    <3> QED BY <3>1, <3>2 DEF Injection, IsInjective
  <2>9. IsFiniteSet(upto)
    <3>1. upto \subseteq BoardRows(q)
      OBVIOUS
    <3> QED BY <1>1, <3>1, FS_Subset
  <2>10. k <= Cardinality(upto)
    <3> HIDE DEF g, upto
    <3> QED BY <2>2, <2>8, <2>9, FS_Injection
  <2>11. Below(q, b[k].value) = Cardinality(ahead) /\ UpTo(q, b[k].value) = Cardinality(upto)
    BY DEF Below, UpTo
  <2>12. Below(q, b[k].value) \in Nat
    BY BoardIs
  <2> HIDE DEF ahead, upto
  <2> QED BY <2>1, <2>6, <2>10, <2>11, <2>12
<1> QED BY <1>1, <1>2, <1>4, <1>6, <1>7

LEMMA PageIs ==
  ASSUME TablesOK, NEW q, NEW b \in Boards(q), NEW lo \in Nat \ {0}, NEW hi \in Nat \ {0},
         Page(b, lo, hi) # <<>>
  PROVE  /\ Page(b, lo, hi) \in Seq(ARow) /\ Len(Page(b, lo, hi)) \in Nat \ {0}
         /\ PageRight(q, Page(b, lo, hi))
<1> DEFINE last == LastOf(lo, hi)
           n == Min({last, Len(b)}) - lo + 1
           P == Page(b, lo, hi)
           row(i) == [owner |-> b[lo + i - 1].owner, rank |-> lo + i - 1, value |-> b[lo + i - 1].value,
                      timeOnly |-> b[lo + i - 1].timeOnly, tag |-> {}]
<1>1. Len(b) \in Nat /\ b \in [1 .. Len(b) -> BoardRows(q)]
  BY Places
<1>2. last \in Nat /\ Min({last, Len(b)}) = IF last <= Len(b) THEN last ELSE Len(b)
  <2>1. last \in Nat
    BY DEF LastOf
  <2> HIDE DEF last
  <2> QED BY <1>1, <2>1, MinTwo
<1> HIDE DEF last
<1>3. n \in Int /\ n + lo - 1 <= Len(b)
  BY <1>1, <1>2
<1>4. P = [i \in 1 .. n |-> row(i)]
  BY DEF Page, last
<1> HIDE DEF n
<1>5. n \in Nat /\ n # 0
  <2> SUFFICES ASSUME n < 1 PROVE FALSE
    BY <1>3
  <2>1. 1 .. n = {}
    BY <1>3
  <2>2. P = <<>>
    BY <1>4, <2>1
  <2> QED BY <2>2
<1>6. \A i \in 1 .. n : lo + i - 1 \in 1 .. Len(b)
  BY <1>1, <1>3, <1>5
<1>7. \A i \in 1 .. n : LET r == b[lo + i - 1]
                        IN  /\ r \in BoardRows(q)
                            /\ r.owner \in Personas \cup Players /\ r.value \in Nat /\ r.timeOnly \in BOOLEAN
                            /\ r = [owner |-> r.owner, value |-> r.value, timeOnly |-> r.timeOnly]
  BY <1>1, <1>6, RowsTyped
<1>8. \A i \in 1 .. n : row(i) \in ARow
  <2> TAKE i \in 1 .. n
  <2>1. lo + i - 1 \in Nat
    BY <1>5
  <2>2. /\ b[lo + i - 1].owner \in Personas \cup Players
        /\ b[lo + i - 1].value \in Nat /\ b[lo + i - 1].timeOnly \in BOOLEAN
    BY <1>7
  <2> QED BY <2>1, <2>2 DEF ARow
<1>9. P \in [1 .. n -> ARow]
  <2> HIDE DEF row, P
  <2> QED BY <1>4, <1>8
<1>10. P \in Seq(ARow) /\ Len(P) = n /\ DOMAIN P = 1 .. n
  <2> HIDE DEF P
  <2>1. P \in Seq(ARow)
    BY <1>5, <1>9, SeqDef
  <2> QED BY <1>5, <1>9, <2>1
<1>11. \A i \in 1 .. n : /\ P[i].owner = b[lo + i - 1].owner /\ P[i].value = b[lo + i - 1].value
                         /\ P[i].timeOnly = b[lo + i - 1].timeOnly /\ P[i].rank = lo + i - 1
  BY <1>4
<1> HIDE DEF P
<1>12. ASSUME NEW i \in 1 .. n
       PROVE  /\ \A j \in 1 .. n : P[i].owner = P[j].owner => i = j
              /\ Below(q, P[i].value) < P[i].rank /\ P[i].rank <= UpTo(q, P[i].value)
              /\ [owner |-> P[i].owner, value |-> P[i].value, timeOnly |-> P[i].timeOnly] \in BoardRows(q)
  <2>1. \A j \in 1 .. n : P[i].owner = P[j].owner => i = j
    <3> TAKE j \in 1 .. n
    <3> HAVE P[i].owner = P[j].owner
    <3>1. b[lo + i - 1].owner = b[lo + j - 1].owner
      BY <1>11
    <3>2. lo + i - 1 = lo + j - 1
      BY <1>6, <3>1, Places
    <3> QED BY <1>5, <3>2
  <2>2. Below(q, P[i].value) < P[i].rank /\ P[i].rank <= UpTo(q, P[i].value)
    BY <1>6, <1>11, Places
  <2>3. [owner |-> P[i].owner, value |-> P[i].value, timeOnly |-> P[i].timeOnly] \in BoardRows(q)
    BY <1>7, <1>11
  <2> QED BY <2>1, <2>2, <2>3
<1>13. PageRight(q, P)
  BY <1>10, <1>12 DEF PageRight
<1> QED BY <1>5, <1>10, <1>13 DEF P

-----------------------------------------------------------------------------
(* The requests in progress and the answers *)

OwnerSteps == {"selectStats", "selectLinkedStats", "selectRuns", "selectValue", "selectLinked",
               "selectRun", "selectRank"}

\* At most one number.
Single == {A \in SUBSET Int : \A a, b \in A : a = b}

Known   == [time : Single, tag : Single, value : Single]
AnEntry == [owner : Personas \cup Players, time : Single, tag : Single, rank : Nat, value : Int]

OwnersQuery(rq) == rq.kind \in {"stats", "ranked"} /\ rq.owners \in OwnerLists /\ rq.period \in Periods
TopQuery(rq)    == rq.kind = "top" /\ rq.period \in Periods /\ rq.lo \in Nat \ {0} /\ rq.hi \in Nat \ {0}

\* The statements that a request of this kind makes about this owner.
StepFor(step, kind, o) ==
  /\ step \in {"selectStats", "selectLinkedStats", "selectRuns"} => kind = "stats"
  /\ step \in {"selectRuns", "selectRun"} => o \in Players
  /\ o \in Players => step \in {"selectRuns", "selectRun", "selectRank"}

\* Where a connection stands in its request.
Shape(s) ==
  /\ pc[s] \in {"idle", "upsert", "selectTop", "selectTag"} \cup OwnerSteps
  /\ pc[s] \in OwnerSteps =>
       /\ s \in Readers /\ OwnersQuery(req[s])
       /\ found[s][1] \in Seq(AnEntry) /\ Len(found[s][1]) < Len(req[s].owners)
       /\ found[s][2] \in Known /\ StepFor(pc[s], req[s].kind, Owner(s))
  /\ pc[s] = "selectTop" => s \in Readers /\ TopQuery(req[s])
  /\ pc[s] = "selectTag" => /\ s \in Readers /\ TopQuery(req[s])
                            /\ found[s][2] \in Seq(ARow) /\ found[s][1] \in 1 .. Len(found[s][2])
  /\ UploadOK(s)

\* What the handler knows of an owner that did not change meanwhile.
KnownRight(step, kind, k, o, q) ==
  /\ step = "selectLinkedStats" => k.time = Own(o, "time", q) /\ k.tag = Own(o, "tag", q)
  /\ step \in {"selectValue", "selectLinked", "selectRun", "selectRank"} /\ kind = "stats" =>
       k.time = LeastOf(TimesOf(o, q)) /\ k.tag = StatTag(o, q)
  /\ step = "selectLinked" => k.value = Own(o, "time", q)
  /\ step = "selectRank" => TimesOf(o, q) # {} /\ k.value = {Min(TimesOf(o, q))}

\* The entry of owner o when the owners in M changed.
EntryRight(e, o, kind, q, M) ==
  /\ e.owner = o
  /\ o \notin M => Right(e, o, kind, q) /\ (e.value > 0 => Placed(e.rank, e.value, q, M))

EntriesRight(rq, done, M) ==
  \A i \in 1 .. Len(done) : EntryRight(done[i], rq.owners[i], rq.kind, rq.period, M)

\* The rows of owners that did not change are rows of the board.
RowsRight(q, rows, M) ==
  \A i \in DOMAIN rows : rows[i].owner \notin M =>
    [owner |-> rows[i].owner, value |-> rows[i].value, timeOnly |-> rows[i].timeOnly] \in BoardRows(q)

\* The first n rows have their tags.
TagsRight(q, rows, n, M) == \A i \in 1 .. n : rows[i].owner \notin M => rows[i].tag = TagOf(q, rows[i])

\* What a request has read is still so, but for the owners that changed since
\* it came in.
Fresh(s) ==
  /\ pc[s] \in OwnerSteps =>
       /\ EntriesRight(req[s], found[s][1], moved[s])
       /\ Owner(s) \notin moved[s] =>
            KnownRight(pc[s], req[s].kind, found[s][2], Owner(s), req[s].period)
  /\ pc[s] = "selectTag" =>
       /\ moved[s] = {} => PageRight(req[s].period, found[s][2])
       /\ RowsRight(req[s].period, found[s][2], moved[s])
       /\ TagsRight(req[s].period, found[s][2], found[s][1] - 1, moved[s])

\* An answer is what the tables say of those who did not change, or a page
\* with no real row.
AnswerRight(s) ==
  /\ answer[s].kind \in {"stats", "ranked"} =>
       /\ OwnersQuery(answer[s].to) /\ answer[s].to.kind = answer[s].kind
       /\ answer[s].entries \in Seq(AnEntry) /\ Len(answer[s].entries) = Len(answer[s].to.owners)
       /\ EntriesRight(answer[s].to, answer[s].entries, moved[s])
  /\ answer[s].kind = "top" =>
       /\ answer[s].to.period \in Periods
       /\ \/ /\ answer[s].rows \in Seq(ARow)
             /\ moved[s] = {} => PageRight(answer[s].to.period, answer[s].rows)
             /\ RowsRight(answer[s].to.period, answer[s].rows, moved[s])
             /\ TagsRight(answer[s].to.period, answer[s].rows, Len(answer[s].rows), moved[s])
          \/ DOMAIN answer[s].rows \subseteq {1} /\ \A i \in DOMAIN answer[s].rows : answer[s].rows[i].owner = 0

Domains == /\ DOMAIN pc = Sessions /\ DOMAIN req = Sessions /\ DOMAIN found = Sessions
           /\ DOMAIN answer = Readers /\ moved \in [Readers -> SUBSET (Personas \cup Players)]
           /\ \A r \in Readers : IsFiniteSet(moved[r])

RequestsOK == /\ Domains
              /\ \A s \in Sessions : Shape(s)
              /\ \A r \in Readers : Fresh(r) /\ AnswerRight(r)

BoardInv == TablesOK /\ RequestsOK

\* The queries read nothing but the tables.
LEMMA SameTables ==
  ASSUME UNCHANGED tables
  PROVE  /\ \A o, k, q : Own(o, k, q)' = Own(o, k, q)
         /\ \A o, q : LinkedTimes(o, q)' = LinkedTimes(o, q)
         /\ \A o, q : RunTimes(o, q)' = RunTimes(o, q)
         /\ \A rq, done, M : EntriesRight(rq, done, M)' <=> EntriesRight(rq, done, M)
         /\ \A step, kind, k, o, q : KnownRight(step, kind, k, o, q)' <=> KnownRight(step, kind, k, o, q)
         /\ \A q, rows : PageRight(q, rows)' <=> PageRight(q, rows)
         /\ \A q, rows, M : RowsRight(q, rows, M)' <=> RowsRight(q, rows, M)
         /\ \A q, rows, n, M : TagsRight(q, rows, n, M)' <=> TagsRight(q, rows, n, M)
<1>1. stats' = stats /\ runs' = runs /\ players' = players /\ links' = links
  BY DEF tables
<1>2. \A o, k, q : Own(o, k, q)' = Own(o, k, q)
  BY <1>1 DEF Own, Visible
<1>3. \A o, q : RunTimes(o, q)' = RunTimes(o, q)
  BY <1>1 DEF RunTimes, Visible
<1>4. \A o, q : LinkedTimes(o, q)' = LinkedTimes(o, q)
  BY <1>1, <1>3 DEF LinkedTimes, Linked
<1>5. \A q : Candidates(q)' = Candidates(q)
  BY <1>1, <1>2, <1>3, <1>4 DEF Candidates
<1>6. \A q : BoardRows(q)' = BoardRows(q)
  BY <1>5 DEF BoardRows
<1>7. \A q, v : /\ UpTo(q, v)' = UpTo(q, v) /\ Below(q, v)' = Below(q, v)
                /\ RankForValue(q, v)' = RankForValue(q, v)
  BY <1>5, <1>6 DEF UpTo, Below, RankForValue
<1>8. \A o, q : TimesOf(o, q)' = TimesOf(o, q) /\ StatTag(o, q)' = StatTag(o, q)
  BY <1>2, <1>3, <1>4 DEF TimesOf, StatTag
<1>9. \A e, o, kind, q : Right(e, o, kind, q)' <=> Right(e, o, kind, q)
  BY <1>8 DEF Right
<1>10. \A rq, done, M : EntriesRight(rq, done, M)' <=> EntriesRight(rq, done, M)
  <2>1. \A q, v : OwnersUpTo(q, v)' = OwnersUpTo(q, v)
    BY <1>6 DEF OwnersUpTo
  <2>2. \A rank, v, q, M : Placed(rank, v, q, M)' <=> Placed(rank, v, q, M)
    BY <2>1 DEF Placed
  <2>3. \A e, o, kind, q, M : EntryRight(e, o, kind, q, M)' <=> EntryRight(e, o, kind, q, M)
    BY <1>9, <2>2 DEF EntryRight
  <2> QED BY <2>3 DEF EntriesRight
<1>11. \A step, kind, k, o, q : KnownRight(step, kind, k, o, q)' <=> KnownRight(step, kind, k, o, q)
  BY <1>2, <1>8 DEF KnownRight
<1>12. \A q, rows : PageRight(q, rows)' <=> PageRight(q, rows)
  BY <1>6, <1>7 DEF PageRight
<1>13. \A q, row : TagOf(q, row)' = TagOf(q, row)
  BY <1>2 DEF TagOf
<1>14. \A q, rows, n, M : TagsRight(q, rows, n, M)' <=> TagsRight(q, rows, n, M)
  BY <1>13 DEF TagsRight
<1>15. \A q, rows, M : RowsRight(q, rows, M)' <=> RowsRight(q, rows, M)
  BY <1>6 DEF RowsRight
<1> QED BY <1>2, <1>3, <1>4, <1>10, <1>11, <1>12, <1>14, <1>15

\* A step of one connection that changes no table is no matter for the others.
LEMMA OthersKept ==
  ASSUME RequestsOK, UNCHANGED tables, Domains', NEW s \in Sessions,
         \A t \in Sessions \ {s} : pc'[t] = pc[t] /\ req'[t] = req[t] /\ found'[t] = found[t],
         \A t \in Readers \ {s} : moved'[t] = moved[t] /\ answer'[t] = answer[t],
         Shape(s)', s \in Readers => Fresh(s)' /\ AnswerRight(s)'
  PROVE  RequestsOK'
<1>1. ASSUME NEW t \in Sessions PROVE Shape(t)'
  <2>1. CASE t = s
    BY <2>1
  <2>2. CASE t # s
    <3>1. Shape(t) /\ pc'[t] = pc[t] /\ req'[t] = req[t] /\ found'[t] = found[t]
      BY <2>2 DEF RequestsOK
    <3> QED BY <3>1 DEF Shape, UploadOK, Owner
  <2> QED BY <2>1, <2>2
<1>2. ASSUME NEW t \in Readers PROVE Fresh(t)' /\ AnswerRight(t)'
  <2>1. CASE t = s
    BY <1>2, <2>1
  <2>2. CASE t # s
    <3>1. /\ pc'[t] = pc[t] /\ req'[t] = req[t] /\ found'[t] = found[t]
          /\ moved'[t] = moved[t] /\ answer'[t] = answer[t]
      BY <2>2 DEF Sessions
    <3>2. Fresh(t) /\ AnswerRight(t)
      BY DEF RequestsOK
    <3>3. Fresh(t)'
      BY <3>1, <3>2, SameTables DEF Fresh, Owner
    <3>4. AnswerRight(t)'
      BY <3>1, <3>2, SameTables DEF AnswerRight
    <3> QED BY <3>3, <3>4
  <2> QED BY <2>1, <2>2
<1> QED BY <1>1, <1>2 DEF RequestsOK

\* The request that a connection is at, as Shape has it.
LEMMA AtRequest ==
  ASSUME BoardInv, NEW s \in Sessions, pc[s] \in OwnerSteps
  PROVE  /\ s \in Readers /\ Domains /\ Shape(s) /\ Fresh(s) /\ AnswerRight(s)
         /\ OwnersQuery(req[s]) /\ req[s].owners \in Seq(Personas \cup Players)
         /\ found[s][1] \in Seq(AnEntry) /\ Len(found[s][1]) \in Nat /\ Len(req[s].owners) \in Nat
         /\ Len(found[s][1]) + 1 \in 1 .. Len(req[s].owners)
         /\ found[s][2] \in Known /\ StepFor(pc[s], req[s].kind, Owner(s))
         /\ Owner(s) \in Personas \cup Players
<1>1. s \in Readers /\ Domains /\ Shape(s) /\ Fresh(s) /\ AnswerRight(s)
  BY DEF BoardInv, RequestsOK, Shape
<1>2. /\ OwnersQuery(req[s]) /\ found[s][1] \in Seq(AnEntry) /\ Len(found[s][1]) < Len(req[s].owners)
      /\ found[s][2] \in Known /\ StepFor(pc[s], req[s].kind, Owner(s))
  BY <1>1 DEF Shape
<1>3. req[s].owners \in Seq(Personas \cup Players)
  BY <1>2, BoardAssumption DEF OwnersQuery
<1>4. Len(found[s][1]) \in Nat /\ Len(req[s].owners) \in Nat
  BY <1>2, <1>3, LenProperties
<1>5. Len(found[s][1]) + 1 \in 1 .. Len(req[s].owners)
  BY <1>2, <1>4
<1>6. Owner(s) \in Personas \cup Players
  BY <1>3, <1>5, ElementOfSeq DEF Owner
<1> QED BY <1>1, <1>2, <1>3, <1>4, <1>5, <1>6

LEMMA LearnStep ==
  ASSUME BoardInv, NEW s \in Sessions, pc[s] \in OwnerSteps, UNCHANGED tables,
         NEW step \in OwnerSteps, NEW k \in Known, Learn(s, step, k),
         StepFor(step, req[s].kind, Owner(s)),
         Owner(s) \notin moved[s] => KnownRight(step, req[s].kind, k, Owner(s), req[s].period)
  PROVE  RequestsOK'
<1>1. /\ pc' = [pc EXCEPT ![s] = step] /\ found' = [found EXCEPT ![s] = <<found[s][1], k>>]
      /\ req' = req /\ answer' = answer /\ moved' = moved
  BY DEF Learn, Continue, Goto
<1>2. s \in Readers /\ Domains /\ Shape(s) /\ Fresh(s) /\ AnswerRight(s)
  BY AtRequest
<1>3. pc'[s] = step /\ found'[s] = <<found[s][1], k>> /\ Owner(s)' = Owner(s)
  BY <1>1, <1>2 DEF Domains, Owner
<1>4. Domains'
  BY <1>1, <1>2 DEF Domains
<1>5. \A t \in Sessions \ {s} : pc'[t] = pc[t] /\ req'[t] = req[t] /\ found'[t] = found[t]
  BY <1>1, <1>2 DEF Domains
<1>6. Shape(s)'
  <2>1. step \notin {"idle", "upsert", "selectTop", "selectTag"}
    BY DEF OwnerSteps
  <2>2. /\ OwnersQuery(req[s]) /\ found[s][1] \in Seq(AnEntry) /\ Len(found[s][1]) < Len(req[s].owners)
    BY <1>2 DEF Shape
  <2>3. UploadOK(s)'
    BY <1>3, <2>1 DEF UploadOK
  <2> HIDE DEF OwnerSteps, Known
  <2> QED BY <1>1, <1>2, <1>3, <2>1, <2>2, <2>3 DEF Shape, OwnersQuery
<1>7. Fresh(s)'
  <2>1. step # "selectTag" /\ pc[s] # "selectTag"
    BY DEF OwnerSteps
  <2>2. EntriesRight(req[s], found[s][1], moved[s])
    BY <1>2 DEF Fresh
  <2>3. EntriesRight(req[s], found[s][1], moved[s])'
    BY <1>1, <1>3, <2>2, SameTables
  <2>4. Owner(s) \notin moved[s] => KnownRight(step, req[s].kind, k, Owner(s), req[s].period)'
    BY <1>1, <1>3, SameTables
  <2> QED BY <1>1, <1>3, <2>1, <2>3, <2>4 DEF Fresh
<1>8. AnswerRight(s)'
  BY <1>1, <1>2, SameTables DEF AnswerRight
<1> QED BY <1>1, <1>4, <1>5, <1>6, <1>7, <1>8, OthersKept DEF BoardInv

\* The last step of a request, for this connection and for the others.
LEMMA RespondStep ==
  ASSUME BoardInv, NEW s \in Readers, UNCHANGED tables, NEW response, Respond(s, response),
         answer'[s] = response => AnswerRight(s)'
  PROVE  RequestsOK'
<1>0. s \in Sessions /\ Domains
  BY DEF Sessions, BoardInv, RequestsOK
<1>1. /\ pc' = [pc EXCEPT ![s] = "idle"] /\ found' = [found EXCEPT ![s] = <<>>]
      /\ req' = [req EXCEPT ![s] = None] /\ moved' = moved
      /\ answer' = [answer EXCEPT ![s] = response]
  BY DEF Respond, Finish, Goto
<1>2. Domains' /\ pc'[s] = "idle" /\ answer'[s] = response
  BY <1>0, <1>1 DEF Domains
<1>3. \A t \in Sessions \ {s} : pc'[t] = pc[t] /\ req'[t] = req[t] /\ found'[t] = found[t]
  BY <1>0, <1>1 DEF Domains
<1>4. \A t \in Readers \ {s} : moved'[t] = moved[t] /\ answer'[t] = answer[t]
  BY <1>0, <1>1 DEF Domains
<1>5. Shape(s)' /\ Fresh(s)'
  BY <1>2 DEF Shape, Fresh, UploadOK, OwnerSteps
<1> QED BY <1>0, <1>2, <1>3, <1>4, <1>5, OthersKept DEF BoardInv

\* One more entry, and the next owner or the answer.
LEMMA EntryStep ==
  ASSUME BoardInv, NEW s \in Sessions, pc[s] \in OwnerSteps, UNCHANGED tables,
         NEW rank \in Nat, NEW value \in Int, Entry(s, rank, value),
         EntryRight([owner |-> Owner(s), time |-> found[s][2].time, tag |-> found[s][2].tag,
                     rank |-> rank, value |-> value], Owner(s), req[s].kind, req[s].period, moved[s])
  PROVE  RequestsOK'
<1> DEFINE e == [owner |-> Owner(s), time |-> found[s][2].time, tag |-> found[s][2].tag,
                 rank |-> rank, value |-> value]
           done == Append(found[s][1], e)
           next == FirstStatement(req[s].kind, req[s].owners[Len(done) + 1])
           response == [kind |-> req[s].kind, to |-> req[s], entries |-> done]
<1>1. /\ s \in Readers /\ Domains /\ Shape(s) /\ Fresh(s) /\ AnswerRight(s)
      /\ OwnersQuery(req[s]) /\ req[s].owners \in Seq(Personas \cup Players)
      /\ found[s][1] \in Seq(AnEntry) /\ Len(found[s][1]) \in Nat /\ Len(req[s].owners) \in Nat
      /\ Len(found[s][1]) + 1 \in 1 .. Len(req[s].owners)
      /\ found[s][2] \in Known /\ Owner(s) \in Personas \cup Players
  BY AtRequest
<1>2. e \in AnEntry
  BY <1>1 DEF Known, AnEntry
<1>3. IF Len(done) = Len(req[s].owners) THEN Respond(s, response) ELSE Continue(s, next, <<done, Blank>>)
  BY DEF Entry
<1> HIDE DEF e
<1>4. /\ done \in Seq(AnEntry) /\ Len(done) = Len(found[s][1]) + 1
      /\ \A i \in 1 .. Len(found[s][1]) : done[i] = found[s][1][i]
      /\ done[Len(found[s][1]) + 1] = e
  BY <1>1, <1>2, AppendProperties
<1> HIDE DEF done
<1>5. EntriesRight(req[s], done, moved[s])
  <2> SUFFICES ASSUME NEW i \in 1 .. Len(done)
               PROVE  EntryRight(done[i], req[s].owners[i], req[s].kind, req[s].period, moved[s])
    BY DEF EntriesRight
  <2>1. CASE i \in 1 .. Len(found[s][1])
    BY <1>1, <1>4, <2>1 DEF Fresh, EntriesRight
  <2>2. CASE i = Len(found[s][1]) + 1
    <3>1. req[s].owners[i] = Owner(s) /\ done[i] = e
      BY <1>4, <2>2 DEF Owner
    <3> QED BY <3>1 DEF e
  <2> QED BY <1>1, <1>4, <2>1, <2>2
<1>6. CASE Len(done) = Len(req[s].owners)
  <2>1. Respond(s, response)
    BY <1>3, <1>6
  <2>2. ASSUME answer'[s] = response PROVE AnswerRight(s)'
    <3>1. moved' = moved
      BY <2>1 DEF Respond
    <3>2. /\ answer'[s].kind = req[s].kind /\ answer'[s].to = req[s] /\ answer'[s].entries = done
          /\ req[s].kind # "top"
      BY <1>1, <2>2 DEF OwnersQuery
    <3>3. EntriesRight(answer[s].to, answer[s].entries, moved[s])'
      BY <1>5, <3>1, <3>2, SameTables
    <3> QED BY <1>1, <1>4, <1>6, <3>2, <3>3 DEF AnswerRight, OwnersQuery
  <2> HIDE DEF response
  <2> QED BY <1>1, <2>1, <2>2, RespondStep
<1>7. CASE Len(done) # Len(req[s].owners)
  <2> DEFINE o == req[s].owners[Len(done) + 1]
  <2>1. Continue(s, next, <<done, Blank>>)
    BY <1>3, <1>7
  <2>2. /\ pc' = [pc EXCEPT ![s] = next] /\ found' = [found EXCEPT ![s] = <<done, Blank>>]
        /\ req' = req /\ answer' = answer /\ moved' = moved
    BY <2>1 DEF Continue, Goto
  <2>3. Len(done) + 1 \in 1 .. Len(req[s].owners) /\ Len(done) < Len(req[s].owners)
    <3>1. \A m, n \in Nat : m + 1 \in 1 .. n /\ m + 1 # n => (m + 1) + 1 \in 1 .. n /\ m + 1 < n
      OBVIOUS
    <3> HIDE DEF done
    <3> QED BY <1>1, <1>4, <1>7, <3>1
  <2>4. o \in Personas \cup Players
    BY <1>1, <2>3, ElementOfSeq
  <2>5. /\ next \in OwnerSteps /\ StepFor(next, req[s].kind, o) /\ next \notin {"idle", "upsert", "selectTop", "selectTag"}
        /\ next \notin {"selectLinkedStats", "selectLinked", "selectRank"}
        /\ req[s].kind = "stats" => next \notin {"selectValue", "selectRun"}
    BY <1>1, <2>4 DEF FirstStatement, OwnerSteps, StepFor, OwnersQuery
  <2> HIDE DEF next, o
  <2>6. pc'[s] = next /\ found'[s] = <<done, Blank>> /\ Domains'
    BY <1>1, <2>2 DEF Domains
  <2>7. Owner(s)' = o
    BY <2>2, <2>6 DEF Owner, o
  <2>8. Blank \in Known
    BY DEF Blank, Known, Single
  <2>9. \A t \in Sessions \ {s} : pc'[t] = pc[t] /\ req'[t] = req[t] /\ found'[t] = found[t]
    BY <1>1, <2>2 DEF Domains
  <2>10. Shape(s)'
    <3>1. UploadOK(s)'
      BY <2>5, <2>6 DEF UploadOK
    <3> QED BY <1>1, <1>4, <2>2, <2>3, <2>5, <2>6, <2>7, <2>8, <3>1 DEF Shape, OwnersQuery
  <2>11. Fresh(s)'
    <3>1. \A q : KnownRight(next, req[s].kind, Blank, o, q)
      BY <2>5 DEF KnownRight
    <3>2. KnownRight(pc[s], req[s].kind, found[s][2], Owner(s), req[s].period)'
      BY <2>2, <2>6, <2>7, <3>1, SameTables
    <3>3. EntriesRight(req[s], found[s][1], moved[s])'
      BY <1>5, <2>2, <2>6, SameTables
    <3> QED BY <2>2, <2>5, <2>6, <3>2, <3>3 DEF Fresh
  <2>12. AnswerRight(s)'
    BY <1>1, <2>2, SameTables DEF AnswerRight
  <2> QED BY <1>1, <2>2, <2>6, <2>9, <2>10, <2>11, <2>12, OthersKept DEF BoardInv
<1> QED BY <1>6, <1>7

\* The value is known, if there is one.
\* One number of its own and the linked times have a least one.
LEMMA LeastOfSingle ==
  ASSUME NEW A \in Single, NEW B \in SUBSET Nat, A \cup B # {}
  PROVE  Min(A \cup B) \in Int
<1>1. A \in SUBSET Int /\ \A a, b \in A : a = b
  BY DEF Single
<1>2. Min(A \cup B) \in A \cup B
  BY <1>1, LeastOfTimes
<1>3. ASSUME NEW n \in A \cup B PROVE n \in Int
  <2>1. n \in B => n \in Nat
    OBVIOUS
  <2> QED BY <1>1, <2>1
<1> QED BY <1>2, <1>3

LEMMA ValuedStep ==
  ASSUME BoardInv, NEW s \in Sessions, pc[s] \in {"selectLinked", "selectRun"}, UNCHANGED tables,
         NEW own \in Single, NEW linked \in SUBSET Nat, NEW values, values = own \cup linked,
         Valued(s, values), Owner(s) \notin moved[s] => values = TimesOf(Owner(s), req[s].period)
  PROVE  RequestsOK'
<1>1. pc[s] \in OwnerSteps
  BY DEF OwnerSteps
<1>2. /\ Fresh(s) /\ found[s][2] \in Known /\ OwnersQuery(req[s])
      /\ StepFor(pc[s], req[s].kind, Owner(s))
  BY <1>1, AtRequest
<1>3. Owner(s) \notin moved[s] /\ req[s].kind = "stats" =>
        /\ found[s][2].time = LeastOf(TimesOf(Owner(s), req[s].period))
        /\ found[s][2].tag = StatTag(Owner(s), req[s].period)
  BY <1>1, <1>2 DEF Fresh, KnownRight
<1>4. CASE values = {}
  <2>1. Entry(s, 0, 0)
    BY <1>4 DEF Valued
  <2>2. EntryRight([owner |-> Owner(s), time |-> found[s][2].time, tag |-> found[s][2].tag,
                    rank |-> 0, value |-> 0], Owner(s), req[s].kind, req[s].period, moved[s])
    BY <1>3, <1>4 DEF EntryRight, Right
  <2> QED BY <1>1, <2>1, <2>2, EntryStep
<1>5. CASE values # {}
  <2> DEFINE k == [found[s][2] EXCEPT !.value = {Min(values)}]
  <2>1. Learn(s, "selectRank", k)
    BY <1>5 DEF Valued
  <2>2. Min(values) \in Int
    BY <1>5, LeastOfSingle
  <2>3. k \in Known /\ k.time = found[s][2].time /\ k.tag = found[s][2].tag /\ k.value = {Min(values)}
    <3>1. {Min(values)} \in Single
      BY <2>2 DEF Single
    <3> QED BY <1>2, <3>1 DEF Known
  <2> HIDE DEF k
  <2>4. "selectRank" \in OwnerSteps /\ StepFor("selectRank", req[s].kind, Owner(s))
    BY <1>2 DEF OwnerSteps, StepFor
  <2>5. Owner(s) \notin moved[s] => KnownRight("selectRank", req[s].kind, k, Owner(s), req[s].period)
    BY <1>3, <1>5, <2>3 DEF KnownRight
  <2> QED BY <1>1, <2>1, <2>3, <2>4, <2>5, LearnStep
<1> QED BY <1>4, <1>5

LEMMA LeastSingle ==
  /\ \A A \in Single : LeastOf(A) = A
  /\ \A A \in Single, B \in SUBSET Nat : LeastOf(A \cup B) \in Single
<1>1. ASSUME NEW A \in Single PROVE LeastOf(A) = A
  <2>1. CASE A = {}
    BY <2>1 DEF LeastOf
  <2>2. CASE A # {}
    <3>1. PICK n \in Int : A = {n}
      BY <2>2 DEF Single
    <3> QED BY <3>1, MinOne DEF LeastOf
  <2> QED BY <2>1, <2>2
<1>2. ASSUME NEW A \in Single, NEW B \in SUBSET Nat PROVE LeastOf(A \cup B) \in Single
  <2>1. CASE A \cup B = {}
    BY <2>1 DEF LeastOf, Single
  <2>2. CASE A \cup B # {}
    <3>1. Min(A \cup B) \in Int
      BY <2>2, LeastOfSingle
    <3> QED BY <2>2, <3>1 DEF LeastOf, Single
  <2> QED BY <2>1, <2>2
<1> QED BY <1>1, <1>2

LEMMA OwnersStep ==
  ASSUME BoardInv, NEW s \in Sessions,
         \/ SelectStats(s) \/ SelectLinkedStats(s) \/ SelectRuns(s)
         \/ SelectValue(s) \/ SelectLinked(s) \/ SelectRun(s) \/ SelectRank(s)
  PROVE  RequestsOK'
<1> DEFINE o == Owner(s)
           q == req[s].period
           M == moved[s]
<1>1. UNCHANGED tables
  BY DEF SelectStats, SelectLinkedStats, SelectRuns, SelectValue, SelectLinked, SelectRun, SelectRank
<1>2. pc[s] \in OwnerSteps
  BY DEF OwnerSteps, SelectStats, SelectLinkedStats, SelectRuns, SelectValue, SelectLinked, SelectRun, SelectRank
<1>3. /\ Fresh(s) /\ found[s][2] \in Known /\ OwnersQuery(req[s]) /\ StepFor(pc[s], req[s].kind, o)
      /\ o \in Personas \cup Players
  BY <1>2, AtRequest
<1>4. o \in Players => o \notin Personas
  BY BoardAssumption
<1>5. /\ Own(o, "time", q) \in Single /\ Own(o, "tag", q) \in Single
      /\ RunTimes(o, q) \in Single /\ LinkedTimes(o, q) \in SUBSET Nat
  <2>1. LinkedTimes(o, q) \in SUBSET (Nat \ {0})
    BY TimesTyped DEF BoardInv
  <2>2. \A k : Own(o, k, q) \in SUBSET Int /\ \A a, b \in Own(o, k, q) : a = b
    BY TimesTyped, OwnIs DEF BoardInv
  <2>3. RunTimes(o, q) \in SUBSET Int /\ \A a, b \in RunTimes(o, q) : a = b
    BY TimesTyped, RunTimesIs DEF BoardInv
  <2> QED BY <2>1, <2>2, <2>3 DEF Single
<1>6. o \notin M => KnownRight(pc[s], req[s].kind, found[s][2], o, q)
  BY <1>2, <1>3 DEF Fresh
<1> HIDE DEF o, q, M
<1>7. CASE SelectStats(s)
  <2> DEFINE k == [Blank EXCEPT !.time = Own(o, "time", q), !.tag = Own(o, "tag", q)]
  <2>1. Learn(s, "selectLinkedStats", k) /\ pc[s] = "selectStats"
    BY <1>7 DEF SelectStats, o, q
  <2>2. k \in Known /\ k.time = Own(o, "time", q) /\ k.tag = Own(o, "tag", q)
    BY <1>5 DEF Known, Blank, Single
  <2> HIDE DEF k
  <2>3. "selectLinkedStats" \in OwnerSteps /\ StepFor("selectLinkedStats", req[s].kind, o)
    BY <1>3, <2>1 DEF OwnerSteps, StepFor
  <2>4. o \notin M => KnownRight("selectLinkedStats", req[s].kind, k, o, q)
    BY <2>2 DEF KnownRight
  <2> QED BY <1>1, <1>2, <2>1, <2>2, <2>3, <2>4, LearnStep DEF o, q, M
<1>8. CASE SelectLinkedStats(s)
  <2> DEFINE T == found[s][2].time \cup LinkedTimes(o, q)
             k == [found[s][2] EXCEPT !.time = LeastOf(T)]
  <2>1. Learn(s, "selectValue", k) /\ pc[s] = "selectLinkedStats"
    BY <1>8 DEF SelectLinkedStats, LeastOf, o, q
  <2>2. LeastOf(T) \in Single
    <3>1. found[s][2].time \in Single
      BY <1>3 DEF Known
    <3> QED BY <1>5, <3>1, LeastSingle
  <2>3. k \in Known /\ k.time = LeastOf(T) /\ k.tag = found[s][2].tag
    BY <1>3, <2>2 DEF Known
  <2>4. "selectValue" \in OwnerSteps /\ StepFor("selectValue", req[s].kind, o) /\ o \notin Players
    BY <1>3, <2>1 DEF OwnerSteps, StepFor
  <2>5. o \notin M => T = TimesOf(o, q) /\ found[s][2].tag = StatTag(o, q)
    BY <1>6, <2>1, <2>4 DEF KnownRight, TimesOf, StatTag
  <2> HIDE DEF k, T
  <2>6. o \notin M => KnownRight("selectValue", req[s].kind, k, o, q)
    BY <2>3, <2>5 DEF KnownRight
  <2> QED BY <1>1, <1>2, <2>1, <2>3, <2>4, <2>6, LearnStep DEF o, q, M
<1>9. CASE SelectRuns(s)
  <2> DEFINE k == [Blank EXCEPT !.time = RunTimes(o, q)]
  <2>1. Learn(s, "selectRun", k) /\ pc[s] = "selectRuns"
    BY <1>9 DEF SelectRuns, o, q
  <2>2. k \in Known /\ k.time = RunTimes(o, q) /\ k.tag = {}
    BY <1>5 DEF Known, Blank, Single
  <2> HIDE DEF k
  <2>3. "selectRun" \in OwnerSteps /\ StepFor("selectRun", req[s].kind, o) /\ o \in Players
    BY <1>3, <2>1 DEF OwnerSteps, StepFor
  <2>4. RunTimes(o, q) = LeastOf(RunTimes(o, q))
    BY <1>5, LeastSingle
  <2>5. o \notin M => KnownRight("selectRun", req[s].kind, k, o, q)
    BY <2>2, <2>3, <2>4 DEF KnownRight, TimesOf, StatTag
  <2> QED BY <1>1, <1>2, <2>1, <2>2, <2>3, <2>5, LearnStep DEF o, q, M
<1>10. CASE SelectValue(s)
  <2> DEFINE k == [found[s][2] EXCEPT !.value = Own(o, "time", q)]
  <2>1. Learn(s, "selectLinked", k) /\ pc[s] = "selectValue"
    BY <1>10 DEF SelectValue, o, q
  <2>2. k \in Known /\ k.time = found[s][2].time /\ k.tag = found[s][2].tag /\ k.value = Own(o, "time", q)
    BY <1>3, <1>5 DEF Known
  <2> HIDE DEF k
  <2>3. "selectLinked" \in OwnerSteps /\ StepFor("selectLinked", req[s].kind, o)
    BY <1>3, <2>1 DEF OwnerSteps, StepFor
  <2>4. o \notin M => KnownRight("selectLinked", req[s].kind, k, o, q)
    BY <1>6, <2>1, <2>2 DEF KnownRight
  <2> QED BY <1>1, <1>2, <2>1, <2>2, <2>3, <2>4, LearnStep DEF o, q, M
<1>11. CASE SelectLinked(s)
  <2> DEFINE T == found[s][2].value \cup LinkedTimes(o, q)
  <2>1. Valued(s, T) /\ pc[s] = "selectLinked"
    BY <1>11 DEF SelectLinked, o, q
  <2>2. found[s][2].value \in Single
    BY <1>3 DEF Known
  <2>3. o \notin M => T = TimesOf(o, q)
    BY <1>3, <1>6, <2>1 DEF KnownRight, TimesOf, StepFor
  <2> QED BY <1>1, <1>5, <2>1, <2>2, <2>3, ValuedStep DEF o, q, M
<1>12. CASE SelectRun(s)
  <2>1. Valued(s, RunTimes(o, q)) /\ pc[s] = "selectRun"
    BY <1>12 DEF SelectRun, o, q
  <2>2. RunTimes(o, q) = TimesOf(o, q)
    BY <1>3, <2>1 DEF TimesOf, StepFor
  <2>3. RunTimes(o, q) = RunTimes(o, q) \cup {} /\ {} \in SUBSET Nat
    OBVIOUS
  <2> QED BY <1>1, <1>5, <2>1, <2>2, <2>3, ValuedStep DEF o, q, M
<1>13. CASE SelectRank(s)
  <2>1. PICK v \in found[s][2].value : Entry(s, IF v = 0 THEN 0 ELSE RankForValue(q, v), v)
    BY <1>13 DEF SelectRank, q
  <2> DEFINE rank == IF v = 0 THEN 0 ELSE RankForValue(q, v)
  <2>2. v \in Int
    BY <1>3 DEF Known, Single
  <2>3. rank \in Nat
    BY <2>2, RankIs DEF BoardInv
  <2>4. pc[s] = "selectRank"
    BY <1>13 DEF SelectRank
  <2> DEFINE T == TimesOf(o, q)
             e == [owner |-> o, time |-> found[s][2].time, tag |-> found[s][2].tag, rank |-> rank, value |-> v]
  <2>5. ASSUME o \notin M PROVE Right(e, o, req[s].kind, q) /\ (v > 0 => Placed(rank, v, q, M))
    <3>1. T # {} /\ v = Min(T) /\ v \in T
      <4>1. T # {} /\ v = Min(T)
        BY <1>6, <2>4, <2>5 DEF KnownRight
      <4> QED BY <1>3, <4>1, LeastTime DEF BoardInv
    <3>2. req[s].kind = "stats" => found[s][2].time = LeastOf(T) /\ found[s][2].tag = StatTag(o, q)
      BY <1>6, <2>4, <2>5 DEF KnownRight
    <3>3. v < 0 => rank = 1
      BY <2>2, RankIs DEF BoardInv
    <3>4. Right(e, o, req[s].kind, q)
      BY <3>1, <3>2, <3>3 DEF Right
    <3>5. ASSUME v > 0 PROVE Placed(rank, v, q, M)
      <4>1. v \in Timed(T)
        BY <3>1, <3>5 DEF Timed
      <4>2. PICK c \in Candidates(q) : c.value = v
        BY <1>3, <4>1, TimesOfOwner DEF BoardInv
      <4>3. /\ OwnersUpTo(q, v) \in SUBSET (Personas \cup Players)
            /\ IsFiniteSet(OwnersUpTo(q, v)) /\ OwnersUpTo(q, v) # {}
            /\ RankForValue(q, v) = Cardinality(OwnersUpTo(q, v))
        BY <2>2, <4>2, RankIs DEF BoardInv
      <4>4. rank = RankForValue(q, v)
        BY <2>2, <3>5
      <4> QED BY <4>3, <4>4 DEF Placed
    <3> QED BY <3>4, <3>5
  <2>6. EntryRight(e, o, req[s].kind, q, M)
    BY <2>5 DEF EntryRight
  <2> HIDE DEF rank
  <2>7. Entry(s, rank, v)
    BY <2>1 DEF rank
  <2> QED BY <1>1, <1>2, <2>2, <2>3, <2>6, <2>7, EntryStep DEF o, q, M
<1> QED BY <1>7, <1>8, <1>9, <1>10, <1>11, <1>12, <1>13

LEMMA SelectTopStep ==
  ASSUME BoardInv, NEW s \in Sessions, SelectTop(s)
  PROVE  RequestsOK'
<1> DEFINE q == req[s].period
<1>1. pc[s] = "selectTop" /\ UNCHANGED tables
  BY DEF SelectTop
<1>2. s \in Readers /\ Domains /\ Shape(s) /\ AnswerRight(s) /\ TopQuery(req[s])
  BY <1>1 DEF BoardInv, RequestsOK, Shape
<1>3. PICK b \in Boards(q) :
        LET rows == Page(b, req[s].lo, req[s].hi)
        IN  IF rows = <<>>
              THEN Respond(s, [kind |-> "top", to |-> req[s], rows |-> EmptyPage(s)])
              ELSE Continue(s, "selectTag", <<1, rows>>)
  BY DEF SelectTop
<1> DEFINE rows == Page(b, req[s].lo, req[s].hi)
           response == [kind |-> "top", to |-> req[s], rows |-> EmptyPage(s)]
<1>4. CASE rows = <<>>
  <2>1. Respond(s, response)
    BY <1>3, <1>4
  <2>2. ASSUME answer'[s] = response PROVE AnswerRight(s)'
    <3>1. answer'[s].kind = "top" /\ answer'[s].to = req[s] /\ answer'[s].rows = EmptyPage(s)
      BY <2>2
    <3>2. DOMAIN EmptyPage(s) \subseteq {1} /\ \A i \in DOMAIN EmptyPage(s) : EmptyPage(s)[i].owner = 0
      BY DEF EmptyPage, Dummy
    <3> QED BY <1>2, <3>1, <3>2 DEF AnswerRight, TopQuery
  <2> HIDE DEF response
  <2> QED BY <1>1, <1>2, <2>1, <2>2, RespondStep
<1>5. CASE rows # <<>>
  <2>1. Continue(s, "selectTag", <<1, rows>>)
    BY <1>3, <1>5
  <2>2. rows \in Seq(ARow) /\ Len(rows) \in Nat \ {0} /\ PageRight(q, rows)
    BY <1>2, <1>5, PageIs DEF BoardInv, TopQuery
  <2> HIDE DEF rows, q
  <2>3. /\ pc' = [pc EXCEPT ![s] = "selectTag"] /\ found' = [found EXCEPT ![s] = <<1, rows>>]
        /\ req' = req /\ answer' = answer /\ moved' = moved
    BY <2>1 DEF Continue, Goto
  <2>4. pc'[s] = "selectTag" /\ found'[s] = <<1, rows>> /\ Domains'
    BY <1>2, <2>3 DEF Domains
  <2>5. \A t \in Sessions \ {s} : pc'[t] = pc[t] /\ req'[t] = req[t] /\ found'[t] = found[t]
    BY <1>2, <2>3 DEF Domains
  <2>6. Shape(s)'
    BY <1>2, <2>2, <2>3, <2>4 DEF Shape, OwnerSteps, UploadOK, TopQuery
  <2>7. Fresh(s)'
    <3>1. TagsRight(q, rows, 0, moved[s])
      BY DEF TagsRight
    <3>2. PageRight(req[s].period, found[s][2])'
      BY <1>1, <2>2, <2>3, <2>4, SameTables DEF q
    <3>3. TagsRight(req[s].period, found[s][2], found[s][1] - 1, moved[s])'
      BY <1>1, <2>3, <2>4, <3>1, SameTables DEF q
    <3>4. RowsRight(q, rows, moved[s])
      BY <2>2 DEF PageRight, RowsRight
    <3>5. RowsRight(req[s].period, found[s][2], moved[s])'
      BY <1>1, <2>3, <2>4, <3>4, SameTables DEF q
    <3> QED BY <2>4, <3>2, <3>3, <3>5 DEF Fresh, OwnerSteps
  <2>8. AnswerRight(s)'
    BY <1>1, <1>2, <2>3, SameTables DEF AnswerRight
  <2> QED BY <1>1, <2>3, <2>4, <2>5, <2>6, <2>7, <2>8, OthersKept DEF BoardInv
<1> QED BY <1>4, <1>5

\* What is shown of a page is a page, cut short.
LEMMA CappedIs ==
  ASSUME NEW rows \in Seq(ARow), Len(rows) # 0, NEW shown \in Capped(rows)
  PROVE  /\ shown \in Seq(ARow) /\ Len(shown) \in Nat /\ Len(shown) <= Len(rows)
         /\ \A i \in 1 .. Len(shown) : shown[i] = rows[i]
<1> DEFINE kept == IF \E i \in DOMAIN rows : Imported(rows[i]) THEN Min({Len(rows), MaxRows}) ELSE Len(rows)
<1>1. Len(rows) \in Nat /\ \A i \in 1 .. Len(rows) : rows[i] \in ARow
  BY LenProperties, ElementOfSeq
<1>2. MaxRows \in Nat \ {0}
  BY BoardAssumption
<1>3. kept \in Nat /\ kept # 0 /\ kept <= Len(rows)
  BY <1>1, <1>2, MinTwo
<1>4. PICK n \in 1 .. kept : shown = SubSeq(rows, 1, n)
  BY <1>3 DEF Capped
<1> HIDE DEF kept
<1>5. n \in Nat /\ 1 <= n /\ n <= Len(rows) /\ \A i \in 1 .. n : rows[i] \in ARow
  BY <1>1, <1>3
<1>6. /\ shown \in Seq(ARow) /\ Len(shown) = n
      /\ \A i \in 1 .. n : shown[i] = rows[i]
  BY <1>4, <1>5, SubSeqProperties
<1> QED BY <1>5, <1>6

\* A row with its tag is the same row.
LEMMA TaggedIs ==
  ASSUME NEW q, NEW rows \in Seq(ARow), NEW i \in 1 .. Len(rows), NEW M,
         RowsRight(q, rows, M), TagsRight(q, rows, i - 1, M), NEW tagged,
         tagged = [rows EXCEPT ![i].tag = TagOf(q, rows[i])]
  PROVE  /\ PageRight(q, rows) => PageRight(q, tagged)
         /\ RowsRight(q, tagged, M) /\ TagsRight(q, tagged, i, M)
<1>1. DOMAIN rows = 1 .. Len(rows) /\ Len(rows) \in Nat /\ \A j \in 1 .. Len(rows) : rows[j] \in ARow
  BY LenProperties, ElementOfSeq
<1>2. DOMAIN tagged = DOMAIN rows
  BY <1>1
<1>3. \A j \in 1 .. Len(rows) : /\ tagged[j].owner = rows[j].owner /\ tagged[j].value = rows[j].value
                                /\ tagged[j].rank = rows[j].rank /\ tagged[j].timeOnly = rows[j].timeOnly
                                /\ tagged[j].tag = IF j = i THEN TagOf(q, rows[i]) ELSE rows[j].tag
  BY <1>1 DEF ARow
<1>4. (PageRight(q, rows) => PageRight(q, tagged)) /\ RowsRight(q, tagged, M)
  BY <1>1, <1>2, <1>3 DEF PageRight, RowsRight
<1>5. \A j \in 1 .. Len(rows) : TagOf(q, tagged[j]) = TagOf(q, rows[j])
  BY <1>3 DEF TagOf
<1>6. ASSUME NEW j \in 1 .. i, tagged[j].owner \notin M PROVE tagged[j].tag = TagOf(q, tagged[j])
  <2>1. j \in 1 .. Len(rows)
    BY <1>1
  <2>2. CASE j = i
    BY <1>3, <1>5, <2>1, <2>2
  <2>3. CASE j # i
    <3>1. j \in 1 .. i - 1
      BY <1>1, <2>3
    <3> QED BY <1>3, <1>5, <1>6, <2>1, <2>3, <3>1 DEF TagsRight
  <2> QED BY <2>2, <2>3
<1> QED BY <1>4, <1>6 DEF TagsRight

LEMMA SelectTagStep ==
  ASSUME BoardInv, NEW s \in Sessions, SelectTag(s)
  PROVE  RequestsOK'
<1> DEFINE q == req[s].period
           i == found[s][1]
           old == found[s][2]
           rows == [old EXCEPT ![i].tag = TagOf(q, old[i])]
           M == moved[s]
<1>1. pc[s] = "selectTag" /\ UNCHANGED tables
  BY DEF SelectTag
<1>2. /\ s \in Readers /\ Domains /\ Shape(s) /\ AnswerRight(s) /\ Fresh(s) /\ TopQuery(req[s])
      /\ old \in Seq(ARow) /\ i \in 1 .. Len(old)
  BY <1>1 DEF BoardInv, RequestsOK, Shape
<1>3. (M = {} => PageRight(q, old)) /\ RowsRight(q, old, M) /\ TagsRight(q, old, i - 1, M)
  BY <1>1, <1>2 DEF Fresh
<1>4. IF i < Len(rows)
        THEN Continue(s, "selectTag", <<i + 1, rows>>)
        ELSE \E shown \in Capped(rows) : Respond(s, [kind |-> "top", to |-> req[s], rows |-> shown])
  BY DEF SelectTag
<1>5. rows \in Seq(ARow) /\ Len(rows) = Len(old) /\ Len(old) \in Nat
  <2>1. Len(old) \in Nat /\ old[i] \in ARow
    BY <1>2, LenProperties, ElementOfSeq
  <2>2. TagOf(q, old[i]) \in SUBSET Int
    BY TimesTyped DEF TagOf, BoardInv
  <2> DEFINE new == [old[i] EXCEPT !.tag = TagOf(q, old[i])]
  <2>3. new \in ARow
    BY <2>1, <2>2 DEF ARow
  <2>4. rows = [old EXCEPT ![i] = new]
    OBVIOUS
  <2> HIDE DEF new, rows
  <2> QED BY <1>2, <2>1, <2>3, <2>4, ExceptSeq
<1>6. (M = {} => PageRight(q, rows)) /\ RowsRight(q, rows, M) /\ TagsRight(q, rows, i, M)
  <2> HIDE DEF q, i, old, M
  <2> QED BY <1>2, <1>3, TaggedIs
<1>7. i \in Nat /\ Len(rows) # 0
  BY <1>2, <1>5
<1> HIDE DEF q, i, old, rows, M
<1>8. CASE i < Len(rows)
  <2>1. Continue(s, "selectTag", <<i + 1, rows>>)
    BY <1>4, <1>8
  <2>2. /\ pc' = [pc EXCEPT ![s] = "selectTag"] /\ found' = [found EXCEPT ![s] = <<i + 1, rows>>]
        /\ req' = req /\ answer' = answer /\ moved' = moved
    BY <2>1 DEF Continue, Goto
  <2>3. pc'[s] = "selectTag" /\ found'[s] = <<i + 1, rows>> /\ Domains'
    BY <1>2, <2>2 DEF Domains
  <2>4. \A t \in Sessions \ {s} : pc'[t] = pc[t] /\ req'[t] = req[t] /\ found'[t] = found[t]
    BY <1>2, <2>2 DEF Domains
  <2>5. Shape(s)'
    <3>1. i + 1 \in 1 .. Len(rows)
      BY <1>2, <1>5, <1>7, <1>8
    <3> QED BY <1>2, <1>5, <2>2, <2>3, <3>1 DEF Shape, OwnerSteps, UploadOK, TopQuery
  <2>6. Fresh(s)'
    <3>1. M = {} => PageRight(req[s].period, found[s][2])'
      BY <1>1, <1>6, <2>2, <2>3, SameTables DEF q
    <3>2. found'[s][1] - 1 = i /\ found'[s][2] = rows
      BY <1>7, <2>3
    <3>3. TagsRight(req[s].period, found[s][2], found[s][1] - 1, moved[s])'
      BY <1>1, <1>6, <2>2, <3>2, SameTables DEF q, M
    <3>4. RowsRight(req[s].period, found[s][2], moved[s])'
      BY <1>1, <1>6, <2>2, <3>2, SameTables DEF q, M
    <3> QED BY <2>2, <2>3, <3>1, <3>3, <3>4 DEF Fresh, OwnerSteps, M
  <2>7. AnswerRight(s)'
    BY <1>1, <1>2, <2>2, SameTables DEF AnswerRight
  <2> QED BY <1>1, <2>2, <2>3, <2>4, <2>5, <2>6, <2>7, OthersKept DEF BoardInv
<1>9. CASE ~(i < Len(rows))
  <2>1. PICK shown \in Capped(rows) : Respond(s, [kind |-> "top", to |-> req[s], rows |-> shown])
    BY <1>4, <1>9
  <2> DEFINE response == [kind |-> "top", to |-> req[s], rows |-> shown]
  <2>2. /\ shown \in Seq(ARow) /\ Len(shown) \in Nat /\ Len(shown) <= Len(rows)
        /\ \A j \in 1 .. Len(shown) : shown[j] = rows[j]
    BY <1>5, <1>7, CappedIs
  <2>3. i = Len(rows)
    BY <1>2, <1>5, <1>9
  <2>4. (M = {} => PageRight(q, shown)) /\ RowsRight(q, shown, M) /\ TagsRight(q, shown, Len(shown), M)
    <3>1. DOMAIN shown = 1 .. Len(shown) /\ DOMAIN rows = 1 .. Len(rows)
      BY <1>5, <2>2, LenProperties
    <3>2. \A j \in 1 .. Len(shown) : j \in 1 .. Len(rows)
      BY <1>5, <2>2
    <3>3. M = {} => PageRight(q, shown)
      BY <1>6, <2>2, <3>1, <3>2 DEF PageRight
    <3>4. TagsRight(q, shown, Len(shown), M)
      BY <1>6, <2>2, <2>3, <3>2 DEF TagsRight
    <3>5. RowsRight(q, shown, M)
      BY <1>6, <2>2, <3>1, <3>2 DEF RowsRight
    <3> QED BY <3>3, <3>4, <3>5
  <2>5. ASSUME answer'[s] = response PROVE AnswerRight(s)'
    <3>1. /\ answer'[s].kind = "top" /\ answer'[s].to = req[s] /\ answer'[s].rows = shown
          /\ moved' = moved
      BY <2>1, <2>5 DEF Respond
    <3>2. M = {} => PageRight(answer[s].to.period, answer[s].rows)'
      BY <1>1, <2>4, <3>1, SameTables DEF q
    <3>3. TagsRight(answer[s].to.period, answer[s].rows, Len(answer[s].rows), moved[s])'
      BY <1>1, <2>4, <3>1, SameTables DEF q, M
    <3>4. RowsRight(answer[s].to.period, answer[s].rows, moved[s])'
      BY <1>1, <2>4, <3>1, SameTables DEF q, M
    <3> QED BY <1>2, <2>2, <3>1, <3>2, <3>3, <3>4 DEF AnswerRight, TopQuery, M
  <2> HIDE DEF response
  <2>6. Respond(s, response)
    BY <2>1 DEF response
  <2> QED BY <1>1, <1>2, <2>5, <2>6, RespondStep
<1> QED BY <1>8, <1>9

\* A step that is no matter for the owners outside M.
Calm(M) ==
  /\ \A o, q : o \notin M => /\ \A k : Own(o, k, q)' = Own(o, k, q)
                             /\ RunTimes(o, q)' = RunTimes(o, q)
                             /\ LinkedTimes(o, q)' = LinkedTimes(o, q)
  /\ \A h : h \notin M => (h \in (players \ DOMAIN links)' <=> h \in players \ DOMAIN links)

\* Their rows stay on the board, and a rank is off by no more than M.
LEMMA CalmBoard ==
  ASSUME NEW M, Calm(M), Personas \cap Players = {}, players \subseteq Players, players' \subseteq Players
  PROVE  /\ \A q, c : c.owner \notin M => (c \in Candidates(q)' <=> c \in Candidates(q))
         /\ \A q, r : r.owner \notin M => (r \in BoardRows(q)' <=> r \in BoardRows(q))
         /\ \A q, v : OwnersUpTo(q, v)' \ M = OwnersUpTo(q, v) \ M
<1>1. ASSUME NEW q, NEW c, c.owner \notin M PROVE c \in Candidates(q)' <=> c \in Candidates(q)
  <2> DEFINE Of(p) == {Entrant(p, v, FALSE) : v \in Timed(Own(p, "time", q))} \cup
                      {Entrant(p, v, TRUE) : v \in LinkedTimes(p, q)}
             By(h) == {Entrant(h, v, TRUE) : v \in Timed(RunTimes(h, q))}
  <2>1. Candidates(q) = (UNION {Of(p) : p \in Personas}) \cup (UNION {By(h) : h \in players \ DOMAIN links})
    BY DEF Candidates, Entrant
  <2>2. Candidates(q)' = (UNION {Of(p)' : p \in Personas}) \cup (UNION {By(h)' : h \in (players \ DOMAIN links)'})
    BY DEF Candidates, Entrant
  <2>3. \A p : p # c.owner => c \notin Of(p) /\ c \notin Of(p)' /\ c \notin By(p) /\ c \notin By(p)'
    BY DEF Entrant
  <2>4. Of(c.owner)' = Of(c.owner) /\ By(c.owner)' = By(c.owner)
    BY <1>1 DEF Calm, Timed
  <2>5. c.owner \in (players \ DOMAIN links)' <=> c.owner \in players \ DOMAIN links
    BY <1>1 DEF Calm
  <2> HIDE DEF Of, By
  <2>6. c \in Candidates(q) <=> \/ c.owner \in Personas /\ c \in Of(c.owner)
                                \/ c.owner \in players \ DOMAIN links /\ c \in By(c.owner)
    <3>1. c \in Candidates(q) <=> \/ \E p \in Personas : c \in Of(p)
                                  \/ \E h \in players \ DOMAIN links : c \in By(h)
      BY <2>1
    <3>2. \A p : (c \in Of(p) => p = c.owner) /\ (c \in By(p) => p = c.owner)
      BY <2>3
    <3> QED BY <3>1, <3>2, Zenon
  <2>7. c \in Candidates(q)' <=> \/ c.owner \in Personas /\ c \in Of(c.owner)'
                                 \/ c.owner \in (players \ DOMAIN links)' /\ c \in By(c.owner)'
    <3>1. c \in Candidates(q)' <=> \/ \E p \in Personas : c \in Of(p)'
                                   \/ \E h \in (players \ DOMAIN links)' : c \in By(h)'
      BY <2>2
    <3>2. \A p : (c \in Of(p)' => p = c.owner) /\ (c \in By(p)' => p = c.owner)
      BY <2>3
    <3> QED BY <3>1, <3>2, Zenon
  <2> QED BY <2>4, <2>5, <2>6, <2>7
<1>2. ASSUME NEW q, NEW r, r.owner \notin M PROVE r \in BoardRows(q)' <=> r \in BoardRows(q)
  <2>1. \A d : d.owner = r.owner => (d \in Candidates(q)' <=> d \in Candidates(q))
    BY <1>1, <1>2
  <2> QED BY <2>1 DEF BoardRows, BestRows, Before
<1>3. ASSUME NEW q, NEW v PROVE OwnersUpTo(q, v)' \ M = OwnersUpTo(q, v) \ M
  <2>1. ASSUME NEW o, o \notin M PROVE o \in OwnersUpTo(q, v)' <=> o \in OwnersUpTo(q, v)
    <3>1. o \in OwnersUpTo(q, v) <=> \E r : r \in BoardRows(q) /\ r.value <= v /\ r.owner = o
      BY DEF OwnersUpTo
    <3>2. o \in OwnersUpTo(q, v)' <=> \E r : r \in BoardRows(q)' /\ r.value <= v /\ r.owner = o
      BY DEF OwnersUpTo
    <3>3. \A r : r.owner = o => (r \in BoardRows(q)' <=> r \in BoardRows(q))
      BY <1>2, <2>1
    <3> QED BY <3>1, <3>2, <3>3
  <2> QED BY <2>1
<1> QED BY <1>1, <1>2, <1>3

\* So what a request has read stays right for the others.
LEMMA CalmKeeps ==
  ASSUME NEW M, Calm(M), Personas \cap Players = {}, players \subseteq Players, players' \subseteq Players
  PROVE  /\ \A rq, done, N : EntriesRight(rq, done, N) => EntriesRight(rq, done, N \cup M)'
         /\ \A step, kind, k, o, q : o \notin M /\ KnownRight(step, kind, k, o, q) =>
                                      KnownRight(step, kind, k, o, q)'
         /\ \A q, rows, N : RowsRight(q, rows, N) => RowsRight(q, rows, N \cup M)'
         /\ \A q, rows, n, N : TagsRight(q, rows, n, N) => TagsRight(q, rows, n, N \cup M)'
         /\ \A q, rows : M = {} /\ PageRight(q, rows) => PageRight(q, rows)'
<1>1. \A q, v, N : OwnersUpTo(q, v)' \ (N \cup M) = OwnersUpTo(q, v) \ (N \cup M)
  <2>1. \A q, v : OwnersUpTo(q, v)' \ M = OwnersUpTo(q, v) \ M
    BY CalmBoard
  <2> QED BY <2>1
<1>2. \A o, q : o \notin M => /\ \A k : Own(o, k, q)' = Own(o, k, q)
                              /\ RunTimes(o, q)' = RunTimes(o, q)
                              /\ LinkedTimes(o, q)' = LinkedTimes(o, q)
  BY DEF Calm
<1>3. \A o, q : o \notin M => TimesOf(o, q)' = TimesOf(o, q) /\ StatTag(o, q)' = StatTag(o, q)
  BY <1>2 DEF TimesOf, StatTag
<1>4. ASSUME NEW rank, NEW v, NEW q, NEW N, Placed(rank, v, q, N) PROVE Placed(rank, v, q, N \cup M)'
  <2>1. PICK A \in SUBSET (Personas \cup Players) :
          /\ IsFiniteSet(A) /\ A # {} /\ rank = Cardinality(A)
          /\ A \ N = OwnersUpTo(q, v) \ N
    BY <1>4 DEF Placed
  <2>2. A \ (N \cup M) = OwnersUpTo(q, v) \ (N \cup M)
    BY <2>1
  <2>3. A \ (N \cup M) = OwnersUpTo(q, v)' \ (N \cup M)
    BY <1>1, <2>2
  <2> QED BY <2>1, <2>3 DEF Placed
<1>5. \A e, o, kind, q : o \notin M /\ Right(e, o, kind, q) => Right(e, o, kind, q)'
  BY <1>3 DEF Right
<1>6. \A e, o, kind, q, N : EntryRight(e, o, kind, q, N) => EntryRight(e, o, kind, q, N \cup M)'
  BY <1>4, <1>5 DEF EntryRight
<1>7. \A rq, done, N : EntriesRight(rq, done, N) => EntriesRight(rq, done, N \cup M)'
  BY <1>6 DEF EntriesRight
<1>8. \A step, kind, k, o, q : o \notin M /\ KnownRight(step, kind, k, o, q) =>
                               KnownRight(step, kind, k, o, q)'
  BY <1>2, <1>3 DEF KnownRight
<1>9. \A q, rows, N : RowsRight(q, rows, N) => RowsRight(q, rows, N \cup M)'
  <2>1. \A q, o, v, b : o \notin M => ([owner |-> o, value |-> v, timeOnly |-> b] \in BoardRows(q)'
                                     <=> [owner |-> o, value |-> v, timeOnly |-> b] \in BoardRows(q))
    <3> TAKE q, o, v, b
    <3> DEFINE r == [owner |-> o, value |-> v, timeOnly |-> b]
    <3>1. r.owner = o
      OBVIOUS
    <3> HIDE DEF r
    <3>2. o \notin M => (r \in BoardRows(q)' <=> r \in BoardRows(q))
      BY <3>1, CalmBoard
    <3> QED BY <3>2 DEF r
  <2> QED BY <2>1 DEF RowsRight
<1>10. \A q, rows, n, N : TagsRight(q, rows, n, N) => TagsRight(q, rows, n, N \cup M)'
  <2>1. \A q, row : row.owner \notin M => TagOf(q, row)' = TagOf(q, row)
    BY <1>2 DEF TagOf
  <2> QED BY <2>1 DEF TagsRight
<1>11. ASSUME M = {}, NEW q, NEW rows, PageRight(q, rows) PROVE PageRight(q, rows)'
  <2>1. \A r : r \in BoardRows(q)' <=> r \in BoardRows(q)
    BY <1>11, CalmBoard
  <2>2. BoardRows(q)' = BoardRows(q)
    BY <2>1
  <2>3. \A v : Below(q, v)' = Below(q, v) /\ UpTo(q, v)' = UpTo(q, v)
    BY <2>2 DEF Below, UpTo
  <2> QED BY <1>11, <2>2, <2>3 DEF PageRight
<1> QED BY <1>7, <1>8, <1>9, <1>10, <1>11

\* The tables of one owner change only for those that Disturb names.
LEMMA CalmTables ==
  ASSUME NEW M, players' \ DOMAIN links' \subseteq (players \ DOMAIN links) \cup M,
         players \ DOMAIN links \subseteq (players' \ DOMAIN links') \cup M,
         \A o, k, q : o \notin M => Own(o, k, q)' = Own(o, k, q),
         \A o, q : o \notin M => RunTimes(o, q)' = RunTimes(o, q),
         \A o : o \notin M => Linked(o)' = Linked(o),
         \A o, q : o \notin M => \A h \in Linked(o) : RunTimes(h, q)' = RunTimes(h, q)
  PROVE  Calm(M)
<1>1. ASSUME NEW o, NEW q, o \notin M PROVE LinkedTimes(o, q)' = LinkedTimes(o, q)
  <2>1. LinkedTimes(o, q)' = Timed(UNION {RunTimes(h, q)' : h \in Linked(o)'})
    BY DEF LinkedTimes, Timed
  <2>2. Linked(o)' = Linked(o) /\ \A h \in Linked(o) : RunTimes(h, q)' = RunTimes(h, q)
    BY <1>1
  <2>3. {RunTimes(h, q)' : h \in Linked(o)'} = {RunTimes(h, q) : h \in Linked(o)}
    BY <2>2
  <2> QED BY <2>1, <2>3 DEF LinkedTimes
<1>2. ASSUME NEW h, h \notin M PROVE h \in (players \ DOMAIN links)' <=> h \in players \ DOMAIN links
  BY <1>2
<1> QED BY <1>1, <1>2 DEF Calm

LEMMA CalmUpsert ==
  ASSUME NEW s \in Sessions, Upsert(s)
  PROVE  Calm({req[s].persona})
<1>1. PICK w : stats' = Store(stats, <<req[s].persona, w[1], w[2]>>, [value |-> req[s].value, current |-> TRUE])
  BY DEF Upsert
<1>2. runs' = runs /\ players' = players /\ links' = links
  BY DEF Upsert
<1>3. ASSUME NEW o, NEW k, NEW q, o \notin {req[s].persona} PROVE Own(o, k, q)' = Own(o, k, q)
  <2> DEFINE c == <<o, k, q>>
             key == <<req[s].persona, w[1], w[2]>>
  <2>1. c # key
    BY <1>3
  <2>2. stats' = Store(stats, key, [value |-> req[s].value, current |-> TRUE])
    BY <1>1
  <2> HIDE DEF key
  <2>3. (c \in DOMAIN stats' <=> c \in DOMAIN stats) /\ (c \in DOMAIN stats => stats'[c] = stats[c])
    BY <2>1, <2>2 DEF Store
  <2>4. Own(o, k, q)' = {stats'[d].value : d \in {x \in DOMAIN stats' : x = c /\ Visible(stats'[x], q)}}
    BY DEF Own, Visible
  <2>5. Own(o, k, q) = {stats[d].value : d \in {x \in DOMAIN stats : x = c /\ Visible(stats[x], q)}}
    BY DEF Own
  <2> HIDE DEF c
  <2> QED BY <2>3, <2>4, <2>5
<1>4. \A o, q : RunTimes(o, q)' = RunTimes(o, q)
  BY <1>2 DEF RunTimes, Visible
<1>5. \A o : Linked(o)' = Linked(o)
  BY <1>2 DEF Linked
<1> QED BY <1>2, <1>3, <1>4, <1>5, CalmTables

\* Runs of other players are not touched.
LEMMA RunsKept ==
  ASSUME NEW h, NEW q, NEW r, runs' = Store(runs, <<h, q>>, r)
  PROVE  \A o, p : o # h => RunTimes(o, p)' = RunTimes(o, p)
<1> SUFFICES ASSUME NEW o, NEW p, o # h PROVE RunTimes(o, p)' = RunTimes(o, p)
  OBVIOUS
<1> DEFINE c == <<o, p>>
           key == <<h, q>>
<1>1. c # key /\ runs' = Store(runs, key, r)
  OBVIOUS
<1> HIDE DEF key
<1>2. (c \in DOMAIN runs' <=> c \in DOMAIN runs) /\ (c \in DOMAIN runs => runs'[c] = runs[c])
  BY <1>1 DEF Store
<1>3. RunTimes(o, p)' = {runs'[d].value : d \in {x \in DOMAIN runs' : x = c /\ Visible(runs'[x], p)}}
  BY DEF RunTimes, Visible
<1>4. RunTimes(o, p) = {runs[d].value : d \in {x \in DOMAIN runs : x = c /\ Visible(runs[x], p)}}
  BY DEF RunTimes
<1> HIDE DEF c
<1> QED BY <1>2, <1>3, <1>4

LEMMA CalmAdd ==
  ASSUME NEW h \in Players, AddHistoricalRun(h)
  PROVE  Calm(WithLinked(h))
<1>1. players' = players \cup {h} /\ stats' = stats /\ links' = links
  BY DEF AddHistoricalRun
<1>2. \A o, p : o # h => RunTimes(o, p)' = RunTimes(o, p)
  <2>1. CASE UNCHANGED runs
    BY <2>1 DEF RunTimes, Visible
  <2>2. CASE \E q \in Periods, v \in Times, c \in BOOLEAN :
               runs' = Store(runs, <<h, q>>, [value |-> v, current |-> c])
    BY <2>2, RunsKept
  <2> QED BY <2>1, <2>2 DEF AddHistoricalRun
<1>3. h \in WithLinked(h) /\ (h \in DOMAIN links => links[h] \in WithLinked(h))
  BY DEF WithLinked
<1>4. \A o, k, q : Own(o, k, q)' = Own(o, k, q)
  BY <1>1 DEF Own, Visible
<1>5. \A o : /\ Linked(o)' = Linked(o)
             /\ o \notin WithLinked(h) => \A g \in Linked(o) : g # h
  BY <1>1, <1>3 DEF Linked
<1> QED BY <1>1, <1>2, <1>3, <1>4, <1>5, CalmTables

LEMMA CalmLink ==
  ASSUME NEW h, NEW p, h \in players, LinkHistoricalAccount(h, p)
  PROVE  Calm({p} \cup WithLinked(h))
<1>1. links' = Store(links, h, p) /\ stats' = stats /\ runs' = runs /\ players' = players
  BY DEF LinkHistoricalAccount
<1>2. /\ DOMAIN links' = DOMAIN links \cup {h} /\ links'[h] = p
      /\ \A g \in DOMAIN links \ {h} : links'[g] = links[g]
  BY <1>1 DEF Store
<1>3. h \in WithLinked(h) /\ (h \in DOMAIN links => links[h] \in WithLinked(h))
  BY DEF WithLinked
<1>4. \A o, k, q : Own(o, k, q)' = Own(o, k, q)
  BY <1>1 DEF Own, Visible
<1>5. \A o, q : RunTimes(o, q)' = RunTimes(o, q)
  BY <1>1 DEF RunTimes, Visible
<1>6. ASSUME NEW o, o \notin {p} \cup WithLinked(h) PROVE Linked(o)' = Linked(o)
  <2>1. ASSUME NEW g PROVE g \in DOMAIN links' /\ links'[g] = o <=> g \in DOMAIN links /\ links[g] = o
    BY <1>2, <1>3, <1>6
  <2> QED BY <2>1 DEF Linked
<1> QED BY <1>1, <1>2, <1>3, <1>4, <1>5, <1>6, CalmTables

LEMMA CalmUnlink ==
  ASSUME NEW h, UnlinkHistoricalAccount(h)
  PROVE  Calm(WithLinked(h))
<1>1. /\ links' = [g \in DOMAIN links \ {h} |-> links[g]] /\ stats' = stats /\ runs' = runs
      /\ players' = players
  BY DEF UnlinkHistoricalAccount
<1>3. h \in WithLinked(h) /\ (h \in DOMAIN links => links[h] \in WithLinked(h))
  BY DEF WithLinked
<1>4. \A o, k, q : Own(o, k, q)' = Own(o, k, q)
  BY <1>1 DEF Own, Visible
<1>5. \A o, q : RunTimes(o, q)' = RunTimes(o, q)
  BY <1>1 DEF RunTimes, Visible
<1>6. ASSUME NEW o, o \notin WithLinked(h) PROVE Linked(o)' = Linked(o)
  <2>1. ASSUME NEW g PROVE g \in DOMAIN links' /\ links'[g] = o <=> g \in DOMAIN links /\ links[g] = o
    BY <1>1, <1>3, <1>6
  <2> QED BY <2>1 DEF Linked
<1> QED BY <1>1, <1>3, <1>4, <1>5, <1>6, CalmTables

LEMMA CalmRollover ==
  ASSUME TablesOK, NEW q, Rollover(q)
  PROVE  Calm({c[1] : c \in DOMAIN stats} \cup players \cup {links[h] : h \in DOMAIN links})
<1> DEFINE M == {c[1] : c \in DOMAIN stats} \cup players \cup {links[h] : h \in DOMAIN links}
<1>1. /\ DOMAIN stats' = DOMAIN stats /\ DOMAIN runs' = DOMAIN runs
      /\ players' = players /\ links' = links
  BY DEF Rollover
<1>2. ASSUME NEW o, NEW k, NEW p, o \notin M PROVE Own(o, k, p)' = Own(o, k, p)
  <2>1. <<o, k, p>> \notin DOMAIN stats
    BY <1>2
  <2> QED BY <1>1, <2>1 DEF Own, Visible
<1>3. ASSUME NEW o, NEW p, o \notin M PROVE RunTimes(o, p)' = RunTimes(o, p)
  <2>1. <<o, p>> \notin DOMAIN runs
    BY <1>3 DEF TablesOK
  <2> QED BY <1>1, <2>1 DEF RunTimes, Visible
<1>4. ASSUME NEW o, o \notin M PROVE Linked(o)' = Linked(o) /\ Linked(o) = {}
  BY <1>1, <1>4 DEF Linked
<1> HIDE DEF M
<1>5. Calm(M)
  BY <1>1, <1>2, <1>3, <1>4, CalmTables
<1> QED BY <1>5 DEF M

\* A step that changes the tables of the owners in M spoils every answer, and
\* what a request in progress has read of others stays right.
LEMMA DisturbStep ==
  ASSUME BoardInv, TablesOK', NEW M \in SUBSET (Personas \cup Players), IsFiniteSet(M), Calm(M), Disturb(M),
         DOMAIN pc' = Sessions, DOMAIN req' = Sessions, DOMAIN found' = Sessions,
         \A s \in Sessions : Shape(s)',
         \A r \in Readers : \/ pc'[r] \in {"idle", "upsert"}
                            \/ pc'[r] = pc[r] /\ req'[r] = req[r] /\ found'[r] = found[r]
  PROVE  RequestsOK'
<1>1. /\ moved' = [r \in Readers |-> IF pc[r] = "idle" THEN {} ELSE moved[r] \cup M]
      /\ answer' = [r \in Readers |-> None] /\ Domains
  BY DEF Disturb, BoardInv, RequestsOK
<1>2. Domains'
  <2>1. ASSUME NEW r \in Readers PROVE moved'[r] \in SUBSET (Personas \cup Players) /\ IsFiniteSet(moved'[r])
    BY <1>1, FS_EmptySet, FS_Union DEF Domains
  <2>2. DOMAIN answer' = Readers /\ moved' \in [Readers -> SUBSET (Personas \cup Players)]
    BY <1>1, <2>1
  <2> QED BY <2>1, <2>2 DEF Domains
<1>3. Personas \cap Players = {} /\ players \subseteq Players /\ players' \subseteq Players
  BY BoardAssumption DEF BoardInv, TablesOK
<1>4. ASSUME NEW r \in Readers PROVE Fresh(r)'
  <2>1. CASE pc'[r] \in {"idle", "upsert"}
    BY <2>1 DEF Fresh, OwnerSteps
  <2>2. CASE pc[r] # "idle" /\ pc'[r] = pc[r] /\ req'[r] = req[r] /\ found'[r] = found[r]
    <3>0. PICK N : N = moved[r]
      OBVIOUS
    <3>1. moved'[r] = N \cup M /\ Fresh(r)
      BY <1>1, <2>2, <3>0 DEF BoardInv, RequestsOK
    <3>2. ASSUME pc[r] \in OwnerSteps
          PROVE  /\ EntriesRight(req[r], found[r][1], N \cup M)'
                 /\ Owner(r) \notin N \cup M =>
                      KnownRight(pc[r], req[r].kind, found[r][2], Owner(r), req[r].period)'
      <4>1. EntriesRight(req[r], found[r][1], N)
        BY <3>0, <3>1, <3>2 DEF Fresh
      <4>2. EntriesRight(req[r], found[r][1], N \cup M)'
        BY <1>3, <2>2, <4>1, CalmKeeps
      <4>3. Owner(r) \notin N => KnownRight(pc[r], req[r].kind, found[r][2], Owner(r), req[r].period)
        BY <3>0, <3>1, <3>2 DEF Fresh
      <4>4. ASSUME Owner(r) \notin N \cup M
            PROVE  KnownRight(pc[r], req[r].kind, found[r][2], Owner(r), req[r].period)'
        <5>1. Owner(r)' = Owner(r)
          BY <2>2 DEF Owner
        <5>2. \A step, kind, k, o, q : o \notin M /\ KnownRight(step, kind, k, o, q) =>
                                       KnownRight(step, kind, k, o, q)'
          BY <1>3, CalmKeeps
        <5>3. KnownRight(pc[r], req[r].kind, found[r][2], Owner(r), req[r].period)
          BY <4>3, <4>4
        <5> QED BY <2>2, <4>4, <5>1, <5>2, <5>3
      <4> QED BY <4>2, <4>4
    <3>3. ASSUME pc[r] = "selectTag"
          PROVE  /\ N \cup M = {} => PageRight(req[r].period, found[r][2])'
                 /\ RowsRight(req[r].period, found[r][2], N \cup M)'
                 /\ TagsRight(req[r].period, found[r][2], found[r][1] - 1, N \cup M)'
      <4>1. /\ N = {} => PageRight(req[r].period, found[r][2])
            /\ RowsRight(req[r].period, found[r][2], N)
            /\ TagsRight(req[r].period, found[r][2], found[r][1] - 1, N)
        BY <3>0, <3>1, <3>3 DEF Fresh
      <4>2. RowsRight(req[r].period, found[r][2], N \cup M)'
        BY <1>3, <2>2, <4>1, CalmKeeps
      <4>3. TagsRight(req[r].period, found[r][2], found[r][1] - 1, N \cup M)'
        BY <1>3, <2>2, <4>1, CalmKeeps
      <4>4. ASSUME N \cup M = {} PROVE PageRight(req[r].period, found[r][2])'
        <5>1. M = {} /\ PageRight(req[r].period, found[r][2])
          BY <4>1, <4>4
        <5> QED BY <1>3, <2>2, <5>1, CalmKeeps
      <4> QED BY <4>2, <4>3, <4>4
    <3>4. Owner(r)' = Owner(r)
      BY <2>2 DEF Owner
    <3>5. pc[r] \in OwnerSteps =>
            /\ EntriesRight(req[r], found[r][1], moved[r])'
            /\ Owner(r)' \notin moved'[r] =>
                 KnownRight(pc[r], req[r].kind, found[r][2], Owner(r), req[r].period)'
      BY <3>1, <3>2, <3>4
    <3>6. pc[r] = "selectTag" =>
            /\ moved'[r] = {} => PageRight(req[r].period, found[r][2])'
            /\ RowsRight(req[r].period, found[r][2], moved[r])'
            /\ TagsRight(req[r].period, found[r][2], found[r][1] - 1, moved[r])'
      BY <3>1, <3>3
    <3> QED BY <2>2, <3>5, <3>6 DEF Fresh
  <2>3. CASE pc[r] = "idle" /\ pc'[r] = pc[r]
    BY <2>3 DEF Fresh, OwnerSteps
  <2> QED BY <2>1, <2>2, <2>3
<1>5. \A r \in Readers : AnswerRight(r)'
  BY <1>1 DEF AnswerRight, None
<1> QED BY <1>2, <1>4, <1>5 DEF RequestsOK

LEMMA UpdateStatsStep ==
  ASSUME BoardInv, NEW s \in Writers, UpdateStats(s)
  PROVE  RequestsOK'
<1>0. s \in Sessions /\ Domains /\ UNCHANGED tables /\ answer' = answer /\ moved' = moved
  BY DEF Sessions, BoardInv, RequestsOK, UpdateStats, tables
<1>1. PICK p \in Personas, v \in Times, writes \in Updates :
        Receive(s, [persona |-> p, value |-> v, writes |-> writes], writes, "upsert")
  BY DEF UpdateStats
<1>2. /\ pc' = [pc EXCEPT ![s] = "upsert"] /\ found' = [found EXCEPT ![s] = writes]
      /\ req' = [req EXCEPT ![s] = [persona |-> p, value |-> v, writes |-> writes]]
  BY <1>1 DEF Receive, Goto
<1>3. pc'[s] = "upsert" /\ found'[s] = writes /\ req'[s].persona = p /\ req'[s].value = v /\ Domains'
  BY <1>0, <1>2 DEF Domains
<1>4. \A t \in Sessions \ {s} : pc'[t] = pc[t] /\ req'[t] = req[t] /\ found'[t] = found[t]
  BY <1>0, <1>2 DEF Domains
<1>5. writes \in Seq(Keys \X Periods) /\ writes # <<>>
  BY BoardAssumption DEF Keys
<1>6. Shape(s)'
  BY <1>3, <1>5 DEF Shape, OwnerSteps, UploadOK
<1>7. s \in Readers => Fresh(s)' /\ AnswerRight(s)'
  <2>1. s \in Readers => AnswerRight(s)
    BY DEF BoardInv, RequestsOK
  <2> QED BY <1>0, <1>3, <2>1, SameTables DEF Fresh, OwnerSteps, AnswerRight
<1> QED BY <1>0, <1>3, <1>4, <1>6, <1>7, OthersKept DEF BoardInv

LEMMA UpsertStep ==
  ASSUME BoardInv, TablesOK', NEW s \in Sessions, Upsert(s)
  PROVE  RequestsOK'
<1>1. pc[s] = "upsert" /\ Disturb({req[s].persona}) /\ Domains
  BY DEF Upsert, BoardInv, RequestsOK
<1>2. \A t \in Sessions : Shape(t)
  BY DEF BoardInv, RequestsOK
<1>3. req[s].persona \in Personas /\ req[s].value \in Times /\ found[s] \in Seq(Keys \X Periods) /\ found[s] # <<>>
  BY <1>1, <1>2 DEF Shape, UploadOK
<1>4. Tail(found[s]) \in Seq(Keys \X Periods) /\ (Len(found[s]) # 1 => Tail(found[s]) # <<>>)
  BY <1>3, RestOfUpload
<1>5. \/ /\ pc' = [pc EXCEPT ![s] = "idle"] /\ req' = [req EXCEPT ![s] = None]
         /\ found' = [found EXCEPT ![s] = <<>>]
      \/ /\ pc' = pc /\ req' = req /\ found' = [found EXCEPT ![s] = Tail(found[s])]
         /\ Len(found[s]) # 1
  BY DEF Upsert, Finish, Goto
<1>6. DOMAIN pc' = Sessions /\ DOMAIN req' = Sessions /\ DOMAIN found' = Sessions
  BY <1>1, <1>5 DEF Domains
<1>7. ASSUME NEW t \in Sessions PROVE Shape(t)'
  <2>1. CASE t = s
    BY <1>1, <1>3, <1>4, <1>5, <2>1 DEF Domains, Shape, OwnerSteps, UploadOK
  <2>2. CASE t # s
    <3>1. pc'[t] = pc[t] /\ req'[t] = req[t] /\ found'[t] = found[t]
      BY <1>1, <1>5, <2>2 DEF Domains
    <3> QED BY <1>2, <3>1 DEF Shape, UploadOK, Owner
  <2> QED BY <2>1, <2>2
<1>8. \A r \in Readers : \/ pc'[r] \in {"idle", "upsert"}
                         \/ pc'[r] = pc[r] /\ req'[r] = req[r] /\ found'[r] = found[r]
  BY <1>1, <1>5 DEF Domains, Sessions
<1>9. {req[s].persona} \in SUBSET (Personas \cup Players) /\ IsFiniteSet({req[s].persona})
  BY <1>3, FS_Singleton
<1> QED BY <1>1, <1>6, <1>7, <1>8, <1>9, CalmUpsert, DisturbStep

LEMMA FailStep ==
  ASSUME BoardInv, NEW s \in Sessions, StatementFails(s)
  PROVE  RequestsOK'
<1>1. /\ pc' = [pc EXCEPT ![s] = "idle"] /\ req' = [req EXCEPT ![s] = None]
      /\ found' = [found EXCEPT ![s] = <<>>] /\ UNCHANGED tables
      /\ moved' = [r \in Readers |-> IF r = s THEN {} ELSE moved[r]]
      /\ answer' = [r \in Readers |-> IF r = s THEN None ELSE answer[r]]
  BY DEF StatementFails, Finish, Goto
<1>2. Domains
  BY DEF BoardInv, RequestsOK
<1>3. Domains' /\ pc'[s] = "idle"
  <2>1. ASSUME NEW r \in Readers PROVE moved'[r] \in SUBSET (Personas \cup Players) /\ IsFiniteSet(moved'[r])
    BY <1>1, <1>2, FS_EmptySet DEF Domains
  <2>2. DOMAIN answer' = Readers /\ moved' \in [Readers -> SUBSET (Personas \cup Players)]
    BY <1>1, <2>1
  <2> QED BY <1>1, <1>2, <2>1, <2>2 DEF Domains
<1>4. \A t \in Sessions \ {s} : pc'[t] = pc[t] /\ req'[t] = req[t] /\ found'[t] = found[t]
  BY <1>1, <1>2 DEF Domains
<1>5. \A t \in Readers \ {s} : moved'[t] = moved[t] /\ answer'[t] = answer[t]
  BY <1>1
<1>6. Shape(s)'
  BY <1>3 DEF Shape, OwnerSteps, UploadOK
<1>7. s \in Readers => Fresh(s)' /\ AnswerRight(s)'
  BY <1>1, <1>3 DEF Fresh, OwnerSteps, AnswerRight, None
<1> QED BY <1>1, <1>3, <1>4, <1>5, <1>6, <1>7, OthersKept DEF BoardInv

LEMMA AskStep ==
  ASSUME BoardInv, NEW s \in Readers, QueryOwners(s) \/ GetTopNAndStats(s)
  PROVE  RequestsOK'
<1>0. s \in Sessions /\ Domains
  BY DEF Sessions, BoardInv, RequestsOK
<1>1. ASSUME NEW rq, NEW todo, NEW step, Ask(s, rq, todo, step), Shape(s)', Fresh(s)'
      PROVE  RequestsOK'
  <2>1. /\ pc' = [pc EXCEPT ![s] = step] /\ found' = [found EXCEPT ![s] = todo]
        /\ req' = [req EXCEPT ![s] = rq] /\ UNCHANGED tables /\ moved' = [moved EXCEPT ![s] = {}]
        /\ answer' = [answer EXCEPT ![s] = None]
    BY <1>1 DEF Ask, Receive, Goto
  <2>2. Domains' /\ answer'[s] = None /\ moved'[s] = {}
    <3>1. \A r \in Readers : moved'[r] = IF r = s THEN {} ELSE moved[r]
      BY <1>0, <2>1 DEF Domains
    <3>2. moved' \in [Readers -> SUBSET (Personas \cup Players)] /\ \A r \in Readers : IsFiniteSet(moved'[r])
      BY <1>0, <2>1, <3>1, FS_EmptySet DEF Domains
    <3> QED BY <1>0, <2>1, <3>1, <3>2 DEF Domains
  <2>3. AnswerRight(s)'
    BY <2>2 DEF AnswerRight, None
  <2>4. \A t \in Sessions \ {s} : pc'[t] = pc[t] /\ req'[t] = req[t] /\ found'[t] = found[t]
    BY <1>0, <2>1 DEF Domains
  <2>5. \A t \in Readers \ {s} : moved'[t] = moved[t] /\ answer'[t] = answer[t]
    BY <1>0, <2>1 DEF Domains
  <2> QED BY <1>0, <1>1, <2>1, <2>2, <2>3, <2>4, <2>5, OthersKept DEF BoardInv
<1>2. CASE QueryOwners(s)
  <2>1. PICK k \in Queries \ {"top"}, os \in OwnerLists, q \in Periods :
          Ask(s, [kind |-> k, owners |-> os, period |-> q], <<<<>>, Blank>>, FirstStatement(k, os[1]))
    BY <1>2 DEF QueryOwners
  <2> DEFINE rq == [kind |-> k, owners |-> os, period |-> q]
             step == FirstStatement(k, os[1])
  <2>2. k \in {"stats", "ranked"} /\ os \in Seq(Personas \cup Players) /\ os # <<>>
    BY BoardAssumption
  <2>3. os[1] \in Personas \cup Players /\ Len(os) \in Nat \ {0}
    BY <2>2, EmptySeq, ElementOfSeq
  <2>4. /\ step \in OwnerSteps /\ StepFor(step, k, os[1]) /\ step \notin {"idle", "upsert", "selectTop", "selectTag"}
        /\ step \notin {"selectLinkedStats", "selectLinked", "selectRank"}
        /\ k = "stats" => step \notin {"selectValue", "selectRun"}
    BY <2>2, <2>3 DEF FirstStatement, OwnerSteps, StepFor
  <2> HIDE DEF step
  <2>5. /\ pc' = [pc EXCEPT ![s] = step] /\ found' = [found EXCEPT ![s] = <<<<>>, Blank>>]
        /\ req' = [req EXCEPT ![s] = rq]
    BY <2>1 DEF Ask, Receive, Goto, step
  <2>6. pc'[s] = step /\ found'[s] = <<<<>>, Blank>> /\ req'[s] = rq
    BY <1>0, <2>5 DEF Domains
  <2>7. <<>> \in Seq(AnEntry) /\ Len(<<>>) = 0 /\ Blank \in Known
    <3>1. {} \in Single
      BY DEF Single
    <3> QED BY <3>1, EmptySeq DEF Blank, Known
  <2>8. Owner(s)' = os[1]
    BY <2>6, <2>7 DEF Owner
  <2>9. Shape(s)'
    <3>1. OwnersQuery(rq)
      BY <2>2 DEF OwnersQuery
    <3>2. UploadOK(s)'
      BY <2>4, <2>6 DEF UploadOK
    <3> QED BY <2>3, <2>4, <2>6, <2>7, <2>8, <3>1, <3>2 DEF Shape, OwnersQuery
  <2>10. Fresh(s)'
    <3>1. EntriesRight(req[s], found[s][1], moved[s])'
      BY <2>6, <2>7 DEF EntriesRight
    <3>2. KnownRight(pc[s], req[s].kind, found[s][2], Owner(s), req[s].period)'
      BY <2>4, <2>6, <2>8 DEF KnownRight
    <3> QED BY <2>4, <2>6, <3>1, <3>2 DEF Fresh
  <2> QED BY <1>1, <2>1, <2>9, <2>10 DEF step
<1>3. CASE GetTopNAndStats(s)
  <2>1. PICK q \in Periods, lo \in 1 .. CutoffRank, hi \in 1 .. CutoffRank :
          Ask(s, [kind |-> "top", period |-> q, lo |-> lo, hi |-> hi], <<>>, "selectTop")
    BY <1>3 DEF GetTopNAndStats
  <2> DEFINE rq == [kind |-> "top", period |-> q, lo |-> lo, hi |-> hi]
  <2>2. /\ pc' = [pc EXCEPT ![s] = "selectTop"] /\ found' = [found EXCEPT ![s] = <<>>]
        /\ req' = [req EXCEPT ![s] = rq]
    BY <2>1 DEF Ask, Receive, Goto
  <2>3. pc'[s] = "selectTop" /\ req'[s] = rq
    BY <1>0, <2>2 DEF Domains
  <2>4. lo \in Nat \ {0} /\ hi \in Nat \ {0}
    BY BoardAssumption
  <2>5. Shape(s)' /\ Fresh(s)'
    BY <2>3, <2>4 DEF Shape, Fresh, OwnerSteps, UploadOK, TopQuery
  <2> QED BY <1>1, <2>1, <2>5
<1> QED BY <1>2, <1>3

LEMMA BoardInit == Init => BoardInv
<1> SUFFICES ASSUME Init PROVE BoardInv
  OBVIOUS
<1>1. TablesOK
  BY TablesInit
<1>2. Domains
  <2>1. moved = [r \in Readers |-> {}]
    BY DEF Init
  <2>2. moved \in [Readers -> SUBSET (Personas \cup Players)] /\ \A r \in Readers : IsFiniteSet(moved[r])
    BY <2>1, FS_EmptySet
  <2> QED BY <2>2 DEF Init, Domains
<1>3. \A s \in Sessions : Shape(s)
  BY DEF Init, Shape, OwnerSteps, UploadOK
<1>4. \A r \in Readers : Fresh(r) /\ AnswerRight(r)
  BY DEF Init, Fresh, OwnerSteps, AnswerRight, Sessions, None
<1> QED BY <1>1, <1>2, <1>3, <1>4 DEF BoardInv, RequestsOK

\* A player, and the persona he is linked to.
LEMMA LinkedOwners ==
  ASSUME TablesOK, NEW h \in Players
  PROVE  WithLinked(h) \in SUBSET (Personas \cup Players) /\ IsFiniteSet(WithLinked(h))
<1>1. CASE h \in DOMAIN links
  <2>1. WithLinked(h) = {h} \cup {links[h]} /\ links[h] \in Personas
    BY <1>1 DEF WithLinked, TablesOK
  <2>2. IsFiniteSet({h}) /\ IsFiniteSet({links[h]})
    BY FS_Singleton
  <2>3. IsFiniteSet({h} \cup {links[h]})
    BY <2>2, FS_Union
  <2> QED BY <2>1, <2>3
<1>2. CASE h \notin DOMAIN links
  <2>1. WithLinked(h) = {h}
    BY <1>2 DEF WithLinked
  <2> QED BY <2>1, FS_Singleton
<1> QED BY <1>1, <1>2

\* Everybody whom a new week or month may concern.
LEMMA AllOwners ==
  ASSUME TablesOK
  PROVE  LET M == {c[1] : c \in DOMAIN stats} \cup players \cup {links[h] : h \in DOMAIN links}
         IN  M \in SUBSET (Personas \cup Players) /\ IsFiniteSet(M)
<1> DEFINE owned == {c[1] : c \in DOMAIN stats}
           linked == {links[h] : h \in DOMAIN links}
<1>1. IsFiniteSet(DOMAIN stats) /\ IsFiniteSet(players) /\ IsFiniteSet(DOMAIN links)
  BY FS_Subset DEF TablesOK
<1>2. IsFiniteSet(owned)
  <2> DEFINE f == [c \in DOMAIN stats |-> c[1]]
  <2>1. f \in Surjection(DOMAIN stats, owned)
    BY DEF Surjection
  <2> HIDE DEF f
  <2> QED BY <1>1, <2>1, FS_Surjection
<1>3. IsFiniteSet(linked)
  <2> DEFINE f == [h \in DOMAIN links |-> links[h]]
  <2>1. f \in Surjection(DOMAIN links, linked)
    BY DEF Surjection
  <2> HIDE DEF f
  <2> QED BY <1>1, <2>1, FS_Surjection
<1>4. owned \subseteq Personas /\ linked \subseteq Personas /\ players \subseteq Players
  BY DEF TablesOK
<1> HIDE DEF owned, linked
<1>5. IsFiniteSet(owned \cup players \cup linked)
  BY <1>1, <1>2, <1>3, FS_Union
<1>6. owned \cup players \cup linked \in SUBSET (Personas \cup Players)
  BY <1>4
<1> QED BY <1>5, <1>6 DEF owned, linked

LEMMA BoardNext == BoardInv /\ [Next]_vars => BoardInv'
<1> SUFFICES ASSUME BoardInv, [Next]_vars PROVE BoardInv'
  OBVIOUS
<1>0. TablesOK
  BY DEF BoardInv
<1>1. TablesOK'
  <2>1. Uploads
    BY DEF BoardInv, RequestsOK, Domains, Shape, Uploads
  <2> QED BY <2>1, TablesNext DEF BoardInv
<1>2. ASSUME NEW s \in Sessions, Handler(s) PROVE RequestsOK'
  BY <1>1, <1>2, UpsertStep, FailStep, OwnersStep, SelectTopStep, SelectTagStep DEF Handler
<1>3. ASSUME NEW s \in Writers, UpdateStats(s) PROVE RequestsOK'
  BY <1>3, UpdateStatsStep
<1>4. ASSUME NEW s \in Readers, QueryOwners(s) \/ GetTopNAndStats(s) PROVE RequestsOK'
  BY <1>4, AskStep
<1>5. ASSUME NEW M \in SUBSET (Personas \cup Players), IsFiniteSet(M), Calm(M), Disturb(M),
             UNCHANGED <<pc, req, found>>
      PROVE  RequestsOK'
  <2>1. DOMAIN pc' = Sessions /\ DOMAIN req' = Sessions /\ DOMAIN found' = Sessions
    BY <1>5 DEF BoardInv, RequestsOK, Domains
  <2>2. \A s \in Sessions : Shape(s)'
    BY <1>5 DEF BoardInv, RequestsOK, Shape, UploadOK, Owner
  <2>3. \A r \in Readers : pc'[r] = pc[r] /\ req'[r] = req[r] /\ found'[r] = found[r]
    BY <1>5
  <2> QED BY <1>1, <1>5, <2>1, <2>2, <2>3, DisturbStep
<1>6. ASSUME NEW h \in Players, AddHistoricalRun(h) PROVE RequestsOK'
  <2>1. Disturb(WithLinked(h)) /\ UNCHANGED <<pc, req, found>>
    BY <1>6 DEF AddHistoricalRun
  <2> QED BY <1>0, <1>5, <1>6, <2>1, CalmAdd, LinkedOwners
<1>7. ASSUME NEW h \in Players, UnlinkHistoricalAccount(h) PROVE RequestsOK'
  <2>1. Disturb(WithLinked(h)) /\ UNCHANGED <<pc, req, found>>
    BY <1>7 DEF UnlinkHistoricalAccount
  <2> QED BY <1>0, <1>5, <1>7, <2>1, CalmUnlink, LinkedOwners
<1>8. ASSUME NEW h \in Players, NEW p \in Personas, LinkHistoricalAccount(h, p) PROVE RequestsOK'
  <2>1. h \in players /\ Disturb({p} \cup WithLinked(h)) /\ UNCHANGED <<pc, req, found>>
    BY <1>8 DEF LinkHistoricalAccount
  <2>2. {p} \cup WithLinked(h) \in SUBSET (Personas \cup Players) /\ IsFiniteSet({p} \cup WithLinked(h))
    BY <1>0, LinkedOwners, FS_Singleton, FS_Union
  <2>3. Calm({p} \cup WithLinked(h))
    BY <1>8, <2>1, CalmLink
  <2> QED BY <1>5, <2>1, <2>2, <2>3
<1>9. ASSUME NEW q \in Dated, Rollover(q) PROVE RequestsOK'
  <2> DEFINE M == {c[1] : c \in DOMAIN stats} \cup players \cup {links[h] : h \in DOMAIN links}
  <2>1. Disturb(M) /\ UNCHANGED <<pc, req, found>>
    BY <1>9 DEF Rollover
  <2>2. M \in SUBSET (Personas \cup Players) /\ IsFiniteSet(M)
    BY <1>0, AllOwners
  <2>3. Calm(M)
    BY <1>0, <1>9, CalmRollover
  <2> HIDE DEF M
  <2> QED BY <1>5, <2>1, <2>2, <2>3
<1>10. ASSUME UNCHANGED vars PROVE RequestsOK'
  <2>0. UNCHANGED <<tables, pc, req, found, answer, moved>>
    BY <1>10 DEF vars
  <2>1. Domains'
    BY <2>0 DEF BoardInv, RequestsOK, Domains
  <2>2. \A s \in Sessions : Shape(s)'
    BY <2>0 DEF BoardInv, RequestsOK, Shape, UploadOK, Owner
  <2>3. ASSUME NEW r \in Readers PROVE Fresh(r)' /\ AnswerRight(r)'
    <3>1. Fresh(r) /\ AnswerRight(r)
      BY DEF BoardInv, RequestsOK
    <3> QED BY <2>0, <3>1, SameTables DEF Fresh, AnswerRight, Owner
  <2> QED BY <2>1, <2>2, <2>3 DEF RequestsOK
<1>11. RequestsOK'
  BY <1>2, <1>3, <1>4, <1>6, <1>7, <1>8, <1>9, <1>10 DEF Next, Import
<1> QED BY <1>1, <1>11 DEF BoardInv

-----------------------------------------------------------------------------
(* The theorems about ranks, pages and links *)

LEMMA BoardAlways == Spec => []BoardInv
BY BoardInit, BoardNext, PTL DEF Spec

LEMMA AnswersMatch == BoardInv => RankedAnswerMatchesBoard
<1> SUFFICES ASSUME BoardInv, NEW s \in Readers, answer[s].kind \in {"stats", "ranked"}
             PROVE  LET q == answer[s].to.period
                    IN  /\ Len(answer[s].entries) = Len(answer[s].to.owners)
                        /\ \A i \in DOMAIN answer[s].entries :
                             Matches(answer[s].entries[i], answer[s].to.owners[i], answer[s].kind, q, moved[s])
  BY DEF RankedAnswerMatchesBoard, Matches
<1>1. /\ AnswerRight(s) /\ OwnersQuery(answer[s].to) /\ answer[s].to.kind = answer[s].kind
      /\ answer[s].entries \in Seq(AnEntry) /\ Len(answer[s].entries) = Len(answer[s].to.owners)
      /\ EntriesRight(answer[s].to, answer[s].entries, moved[s])
  BY DEF BoardInv, RequestsOK, AnswerRight
<1>2. DOMAIN answer[s].entries = 1 .. Len(answer[s].entries)
  BY <1>1, LenProperties
<1>3. answer[s].to.owners \in Seq(Personas \cup Players)
  BY <1>1, BoardAssumption DEF OwnersQuery
<1>4. IsFiniteSet(moved[s])
  BY DEF BoardInv, RequestsOK, Domains
<1>5. ASSUME NEW i \in DOMAIN answer[s].entries
      PROVE  Matches(answer[s].entries[i], answer[s].to.owners[i], answer[s].kind,
                     answer[s].to.period, moved[s])
  <2>1. answer[s].to.owners[i] \in Personas \cup Players
    BY <1>1, <1>2, <1>3, ElementOfSeq
  <2>2. EntryRight(answer[s].entries[i], answer[s].to.owners[i], answer[s].kind,
                   answer[s].to.period, moved[s])
    BY <1>1, <1>2 DEF EntriesRight
  <2> QED BY <1>4, <2>1, <2>2, RightMatches DEF BoardInv, EntryRight
<1> QED BY <1>1, <1>5

\* Every answer about owners is what the board says of those whose times did
\* not change meanwhile: the statements of GetStats, GetRankedStats and their
\* ...ForOwners forms come to the time that TopN shows and, but for one place
\* for each owner that did change, to its position.
THEOREM AnswersMatchBoard == Spec => []RankedAnswerMatchesBoard
BY BoardAlways, AnswersMatch, PTL

LEMMA PagesRight == BoardInv => PageRanksAreRanks
<1> SUFFICES ASSUME BoardInv, NEW s \in Readers, answer[s].kind = "top", moved[s] = {},
                    NEW i \in DOMAIN answer[s].rows
             PROVE  LET q == answer[s].to.period
                        rows == answer[s].rows
                    IN  /\ \A j \in DOMAIN rows : rows[i].owner = rows[j].owner => i = j
                        /\ rows[i].owner # 0 => /\ Below(q, rows[i].value) < rows[i].rank
                                                /\ rows[i].rank <= UpTo(q, rows[i].value)
                                                /\ [owner |-> rows[i].owner, value |-> rows[i].value,
                                                    timeOnly |-> rows[i].timeOnly] \in BoardRows(q)
  BY DEF PageRanksAreRanks
<1>1. AnswerRight(s)
  BY DEF BoardInv, RequestsOK
<1>2. CASE PageRight(answer[s].to.period, answer[s].rows)
  BY <1>2 DEF PageRight
<1>3. CASE DOMAIN answer[s].rows \subseteq {1} /\ \A j \in DOMAIN answer[s].rows : answer[s].rows[j].owner = 0
  BY <1>3
<1> QED BY <1>1, <1>2, <1>3 DEF AnswerRight

\* Every page that GetTopNAndStats shows has each owner once, with his own row
\* of the board and at one of the positions that his time has.
THEOREM PagesShowRanks == Spec => []PageRanksAreRanks
BY BoardAlways, PagesRight, PTL

\* Linking and unlinking keep the fastest time of every board, and the first
\* link of a player pushes nobody down.
THEOREM LinksRegroup == Spec => LinksOnlyRegroup
<1>1. BoardInv /\ BoardInv' /\ [Next]_vars =>
        [links' # links =>
          \A q \in Periods :
            /\ Fastest(q)' = Fastest(q)
            /\ (\A h \in DOMAIN links : h \in DOMAIN links' /\ links'[h] = links[h]) =>
                 \A o \in DOMAIN Standing(q) :
                   \/ o \in DOMAIN Standing(q)' /\ Standing(q)'[o] <= Standing(q)[o]
                   \/ o \in DOMAIN links' \ DOMAIN links]_vars
  BY RegroupStep DEF BoardInv
<1> QED BY <1>1, BoardAlways, PTL DEF Spec, LinksOnlyRegroup

-----------------------------------------------------------------------------
(* Ghost tags: an upload that nothing interrupts and that writes both rows    *)
(* of a period leaves the time and the tag of the same run there, and while   *)
(* it is under way the rows it has written hold that run.                    *)

Written(p, k, q, v) == <<p, k, q>> \in DOMAIN stats /\ stats[<<p, k, q>>].value = v

Pair(p, q) == \A v, w : Written(p, "time", q, v) /\ Written(p, "tag", q, w) => v = w

\* The keys that an upload has yet to write for a period.
RestOf(w, q) == {w[i][1] : i \in {j \in 1 .. Len(w) : w[j][2] = q}}

\* An upload leaves a period alone, or what it has written there is its run.
Halfway(s, p, q) ==
  \/ Pair(p, q) /\ RestOf(found[s], q) = {}
  \/ \A k \in Keys \ RestOf(found[s], q) : Written(p, k, q, req[s].value)

PairOK(p, q) ==
  /\ \A s, t \in Updating(p) : s = t
  /\ Updating(p) = {} => Pair(p, q)
  /\ \A s \in Updating(p) : Halfway(s, p, q)

GhostInv ==
  /\ \A s \in Sessions : pc[s] = "upsert" => s \in Writers
  /\ \A p \in Personas, q \in Periods : <<p, q>> \notin torn => PairOK(p, q)

\* A new upload writes all of a period, nothing of it, or a part.
LEMMA WholePeriods ==
  ASSUME NEW w \in Updates, NEW q \in Periods, q \notin Partial(w)
  PROVE  RestOf(w, q) \in {{}, Keys}
<1>1. w \in Seq(Keys \X Periods)
  BY BoardAssumption DEF Keys
<1>2. DOMAIN w = 1 .. Len(w) /\ \A i \in 1 .. Len(w) : w[i] \in Keys \X Periods
  BY <1>1, LenProperties, ElementOfSeq
<1>3. ASSUME NEW k PROVE k \in RestOf(w, q) <=> <<k, q>> \in Range(w)
  <2>1. ASSUME k \in RestOf(w, q) PROVE <<k, q>> \in Range(w)
    <3>1. PICK i \in 1 .. Len(w) : w[i][2] = q /\ w[i][1] = k
      BY <2>1 DEF RestOf
    <3>2. w[i] = <<k, q>>
      BY <1>2, <3>1
    <3> QED BY <1>2, <3>2 DEF Range
  <2>2. ASSUME <<k, q>> \in Range(w) PROVE k \in RestOf(w, q)
    <3>1. PICK i \in 1 .. Len(w) : w[i] = <<k, q>>
      BY <1>2, <2>2 DEF Range
    <3>2. w[i][2] = q /\ w[i][1] = k
      BY <3>1
    <3> QED BY <3>2 DEF RestOf
  <2> QED BY <2>1, <2>2
<1>4. RestOf(w, q) \subseteq Keys
  BY <1>2 DEF RestOf
<1>5. (\E k \in Keys : <<k, q>> \in Range(w)) => \A l \in Keys : <<l, q>> \in Range(w)
  BY DEF Partial
<1> QED BY <1>3, <1>4, <1>5

\* What remains after the first write.
LEMMA RestTail ==
  ASSUME NEW w \in Seq(Keys \X Periods), w # <<>>
  PROVE  LET x == Head(w)
         IN  /\ x \in Keys \X Periods /\ x[1] \in RestOf(w, x[2])
             /\ \A q : /\ RestOf(Tail(w), q) \subseteq RestOf(w, q)
                       /\ RestOf(w, q) \subseteq RestOf(Tail(w), q) \cup (IF q = x[2] THEN {x[1]} ELSE {})
             /\ Len(w) = 1 => \A q : RestOf(Tail(w), q) = {}
<1> DEFINE x == Head(w)
           t == Tail(w)
<1>1. Len(w) \in Nat \ {0} /\ \A i \in 1 .. Len(w) : w[i] \in Keys \X Periods
  BY EmptySeq, ElementOfSeq
<1>2. x = w[1] /\ Len(t) = Len(w) - 1 /\ \A i \in 1 .. Len(t) : t[i] = w[i + 1]
  BY HeadTailProperties
<1> HIDE DEF x, t
<1>3. 1 \in 1 .. Len(w) /\ x \in Keys \X Periods
  BY <1>1, <1>2
<1>4. x[1] \in RestOf(w, x[2])
  BY <1>2, <1>3 DEF RestOf
<1>5. ASSUME NEW q
      PROVE  /\ RestOf(t, q) \subseteq RestOf(w, q)
             /\ RestOf(w, q) \subseteq RestOf(t, q) \cup (IF q = x[2] THEN {x[1]} ELSE {})
  <2>1. ASSUME NEW i \in 1 .. Len(t) PROVE i + 1 \in 1 .. Len(w) /\ t[i] = w[i + 1]
    BY <1>1, <1>2
  <2>2. ASSUME NEW i \in 1 .. Len(w), i # 1 PROVE i - 1 \in 1 .. Len(t) /\ t[i - 1] = w[i]
    <3>1. i - 1 \in 1 .. Len(t) /\ (i - 1) + 1 = i
      BY <1>1, <1>2, <2>2
    <3> QED BY <1>2, <3>1
  <2>3. \A k, u : k \in RestOf(u, q) <=> \E i \in 1 .. Len(u) : u[i][2] = q /\ u[i][1] = k
    BY DEF RestOf
  <2>4. ASSUME NEW k \in RestOf(t, q) PROVE k \in RestOf(w, q)
    <3>1. PICK i \in 1 .. Len(t) : t[i][2] = q /\ t[i][1] = k
      BY <2>3
    <3> QED BY <2>1, <2>3, <3>1
  <2>5. ASSUME NEW k \in RestOf(w, q) PROVE k \in RestOf(t, q) \/ (q = x[2] /\ k = x[1])
    <3>1. PICK i \in 1 .. Len(w) : w[i][2] = q /\ w[i][1] = k
      BY <2>3
    <3>2. CASE i = 1
      BY <1>2, <3>1, <3>2
    <3>3. CASE i # 1
      BY <2>2, <2>3, <3>1, <3>3
    <3> QED BY <3>2, <3>3
  <2> QED BY <2>4, <2>5
<1>6. Len(w) = 1 => \A q : RestOf(t, q) = {}
  BY <1>2 DEF RestOf
<1> QED BY <1>3, <1>4, <1>5, <1>6 DEF x, t

\* No upload moves and no stored value changes.
LEMMA UploadsKept ==
  ASSUME GhostInv, \A p, k, q, v : Written(p, k, q, v)' <=> Written(p, k, q, v), torn \subseteq torn',
         \A s \in Sessions : /\ pc'[s] = "upsert" <=> pc[s] = "upsert"
                             /\ pc[s] = "upsert" => req'[s] = req[s] /\ found'[s] = found[s]
  PROVE  GhostInv'
<1>1. \A s \in Sessions : pc'[s] = "upsert" => s \in Writers
  BY DEF GhostInv
<1>2. \A p : Updating(p)' = Updating(p)
  BY DEF Updating, Sessions
<1>3. \A p, q : Pair(p, q)' <=> Pair(p, q)
  BY DEF Pair
<1>4. \A p : \A s \in Updating(p) : found'[s] = found[s] /\ req'[s] = req[s]
  BY DEF Updating, Sessions
<1>5. ASSUME NEW p \in Personas, NEW q \in Periods, <<p, q>> \notin torn' PROVE PairOK(p, q)'
  <2>1. PairOK(p, q)
    BY <1>5 DEF GhostInv
  <2>2. \A s \in Updating(p) : Halfway(s, p, q)'
    BY <1>3, <1>4, <2>1 DEF PairOK, Halfway
  <2> QED BY <1>2, <1>3, <2>1, <2>2 DEF PairOK
<1> QED BY <1>1, <1>5 DEF GhostInv

\* A statement of a query is no matter for the uploads.
LEMMA ReadStep ==
  ASSUME BoardInv, GhostInv, NEW s \in Sessions,
         \/ SelectStats(s) \/ SelectLinkedStats(s) \/ SelectRuns(s)
         \/ SelectValue(s) \/ SelectLinked(s) \/ SelectRun(s) \/ SelectRank(s)
         \/ SelectTop(s) \/ SelectTag(s)
  PROVE  GhostInv'
<1>1. UNCHANGED tables /\ torn' = torn
  BY DEF SelectStats, SelectLinkedStats, SelectRuns, SelectValue, SelectLinked, SelectRun, SelectRank,
     SelectTop, SelectTag
<1>2. pc[s] \in OwnerSteps \cup {"selectTop", "selectTag"} /\ pc[s] # "upsert" /\ Domains
  BY DEF OwnerSteps, SelectStats, SelectLinkedStats, SelectRuns, SelectValue, SelectLinked, SelectRun,
     SelectRank, SelectTop, SelectTag, BoardInv, RequestsOK
<1>3. ASSUME NEW step, NEW read, Continue(s, step, read), step # "upsert"
      PROVE  pc'[s] # "upsert" /\ \A t \in Sessions \ {s} : pc'[t] = pc[t] /\ req'[t] = req[t] /\ found'[t] = found[t]
  BY <1>2, <1>3 DEF Continue, Goto, Domains
<1>4. ASSUME NEW response, Respond(s, response)
      PROVE  pc'[s] # "upsert" /\ \A t \in Sessions \ {s} : pc'[t] = pc[t] /\ req'[t] = req[t] /\ found'[t] = found[t]
  BY <1>2, <1>4 DEF Respond, Finish, Goto, Domains
<1>5. ASSUME NEW rank, NEW value, Entry(s, rank, value), pc[s] \in OwnerSteps
      PROVE  pc'[s] # "upsert" /\ \A t \in Sessions \ {s} : pc'[t] = pc[t] /\ req'[t] = req[t] /\ found'[t] = found[t]
  <2>1. \A o : FirstStatement(req[s].kind, o) # "upsert"
    BY <1>5, AtRequest DEF FirstStatement, OwnersQuery
  <2> QED BY <1>3, <1>4, <1>5, <2>1 DEF Entry
<1>6. ASSUME NEW values, Valued(s, values), pc[s] \in OwnerSteps
      PROVE  pc'[s] # "upsert" /\ \A t \in Sessions \ {s} : pc'[t] = pc[t] /\ req'[t] = req[t] /\ found'[t] = found[t]
  BY <1>3, <1>5, <1>6 DEF Valued, Learn
<1>7. pc'[s] # "upsert" /\ \A t \in Sessions \ {s} : pc'[t] = pc[t] /\ req'[t] = req[t] /\ found'[t] = found[t]
  <2>1. CASE SelectStats(s) \/ SelectLinkedStats(s) \/ SelectRuns(s) \/ SelectValue(s)
    BY <1>3, <2>1 DEF SelectStats, SelectLinkedStats, SelectRuns, SelectValue, Learn
  <2>2. CASE SelectLinked(s) \/ SelectRun(s)
    BY <1>6, <2>2 DEF SelectLinked, SelectRun, OwnerSteps
  <2>3. CASE SelectRank(s)
    BY <1>5, <2>3 DEF SelectRank, OwnerSteps
  <2>4. CASE SelectTop(s)
    BY <1>3, <1>4, <2>4 DEF SelectTop
  <2>5. CASE SelectTag(s)
    BY <1>3, <1>4, <2>5 DEF SelectTag
  <2> QED BY <2>1, <2>2, <2>3, <2>4, <2>5
<1>8. \A p, k, q, v : Written(p, k, q, v)' <=> Written(p, k, q, v)
  BY <1>1 DEF Written, tables
<1>9. \A t \in Sessions : /\ pc'[t] = "upsert" <=> pc[t] = "upsert"
                          /\ pc[t] = "upsert" => req'[t] = req[t] /\ found'[t] = found[t]
  BY <1>2, <1>7
<1> QED BY <1>1, <1>8, <1>9, UploadsKept

\* A request comes in.
LEMMA AskKeeps ==
  ASSUME BoardInv, GhostInv, NEW s \in Readers, QueryOwners(s) \/ GetTopNAndStats(s)
  PROVE  GhostInv'
<1>1. PICK rq, todo, step : Ask(s, rq, todo, step) /\ step # "upsert"
  <2>1. CASE QueryOwners(s)
    <3>1. PICK k \in Queries \ {"top"}, os \in OwnerLists, q \in Periods :
            Ask(s, [kind |-> k, owners |-> os, period |-> q], <<<<>>, Blank>>, FirstStatement(k, os[1]))
      BY <2>1 DEF QueryOwners
    <3>2. FirstStatement(k, os[1]) # "upsert"
      BY BoardAssumption DEF FirstStatement
    <3> QED BY <3>1, <3>2
  <2>2. CASE GetTopNAndStats(s)
    BY <2>2 DEF GetTopNAndStats
  <2> QED BY <2>1, <2>2
<1>2. /\ pc[s] = "idle" /\ pc' = [pc EXCEPT ![s] = step] /\ req' = [req EXCEPT ![s] = rq]
      /\ found' = [found EXCEPT ![s] = todo] /\ UNCHANGED tables /\ torn' = torn
  BY <1>1 DEF Ask, Receive, Goto
<1>3. \A p, k, q, v : Written(p, k, q, v)' <=> Written(p, k, q, v)
  BY <1>2 DEF Written, tables
<1>4. \A t \in Sessions : /\ pc'[t] = "upsert" <=> pc[t] = "upsert"
                          /\ pc[t] = "upsert" => req'[t] = req[t] /\ found'[t] = found[t]
  BY <1>1, <1>2 DEF BoardInv, RequestsOK, Domains, Sessions
<1> QED BY <1>2, <1>3, <1>4, UploadsKept

\* An upload that overlaps another of its persona tears the rows of the
\* persona, and one that brings a row alone those of its period; the others
\* find the rows whole.
LEMMA UpdateStatsKeeps ==
  ASSUME BoardInv, GhostInv, NEW s \in Writers, UpdateStats(s)
  PROVE  GhostInv'
<1>1. PICK p \in Personas, v \in Times, w \in Updates :
        /\ Receive(s, [persona |-> p, value |-> v, writes |-> w], w, "upsert")
        /\ torn' = torn \cup ({p} \X (IF Updating(p) = {} THEN Partial(w) ELSE Periods))
        /\ UNCHANGED tables
  BY DEF UpdateStats, tables
<1>3. /\ pc[s] = "idle" /\ pc' = [pc EXCEPT ![s] = "upsert"] /\ found' = [found EXCEPT ![s] = w]
      /\ req' = [req EXCEPT ![s] = [persona |-> p, value |-> v, writes |-> w]]
  BY <1>1 DEF Receive, Goto
<1>4. s \in Sessions /\ Domains
  BY DEF Sessions, BoardInv, RequestsOK
<1>5. /\ pc'[s] = "upsert" /\ found'[s] = w /\ req'[s].persona = p
      /\ \A t \in Sessions \ {s} : pc'[t] = pc[t] /\ req'[t] = req[t] /\ found'[t] = found[t]
  BY <1>3, <1>4 DEF Domains
<1>6. \A t \in Sessions : pc'[t] = "upsert" => t \in Writers
  BY <1>5 DEF GhostInv
<1>7. Updating(p)' = Updating(p) \cup {s} /\ \A o : o # p => Updating(o)' = Updating(o)
  BY <1>3, <1>5 DEF Updating, Sessions
<1>8. \A o, k, q, x : Written(o, k, q, x)' <=> Written(o, k, q, x)
  BY <1>1 DEF Written, tables
<1>9. \A o, q : Pair(o, q)' <=> Pair(o, q)
  BY <1>8 DEF Pair
<1>10. ASSUME NEW o \in Personas, NEW q \in Periods, <<o, q>> \notin torn' PROVE PairOK(o, q)'
  <2>1. <<o, q>> \notin torn
    BY <1>1, <1>10
  <2>2. PairOK(o, q)
    BY <2>1 DEF GhostInv
  <2>3. CASE o = p
    <3>1. Updating(p) = {} /\ q \notin Partial(w)
      BY <1>1, <1>10, <2>3
    <3>2. Pair(p, q)'
      BY <1>9, <2>2, <2>3, <3>1 DEF PairOK
    <3>3. Updating(p)' = {s}
      BY <1>7, <3>1
    <3>4. RestOf(found'[s], q) \in {{}, Keys}
      BY <1>5, <3>1, WholePeriods
    <3>5. Halfway(s, p, q)'
      BY <3>2, <3>4 DEF Halfway
    <3> QED BY <2>3, <3>2, <3>3, <3>5 DEF PairOK
  <2>4. CASE o # p
    <3>1. Updating(o)' = Updating(o) /\ \A t \in Updating(o) : found'[t] = found[t] /\ req'[t] = req[t]
      BY <1>3, <1>5, <1>7, <2>4 DEF Updating, Sessions
    <3>2. \A t \in Updating(o) : Halfway(t, o, q)'
      BY <1>8, <1>9, <2>2, <3>1 DEF PairOK, Halfway
    <3> QED BY <1>9, <2>2, <3>1, <3>2 DEF PairOK
  <2> QED BY <2>3, <2>4
<1> QED BY <1>6, <1>10 DEF GhostInv

\* A broken upload tears the rows of its persona.
LEMMA FailKeeps ==
  ASSUME BoardInv, GhostInv, NEW s \in Sessions, StatementFails(s)
  PROVE  GhostInv'
<1>1. /\ pc' = [pc EXCEPT ![s] = "idle"] /\ req' = [req EXCEPT ![s] = None]
      /\ found' = [found EXCEPT ![s] = <<>>] /\ UNCHANGED tables
      /\ torn' = IF pc[s] = "upsert" THEN torn \cup ({req[s].persona} \X Periods) ELSE torn
  BY DEF StatementFails, Finish, Goto
<1>2. /\ pc'[s] = "idle"
      /\ \A t \in Sessions \ {s} : pc'[t] = pc[t] /\ req'[t] = req[t] /\ found'[t] = found[t]
  BY <1>1 DEF BoardInv, RequestsOK, Domains
<1>3. \A p, k, q, v : Written(p, k, q, v)' <=> Written(p, k, q, v)
  BY <1>1 DEF Written, tables
<1>4. \A t \in Sessions : pc'[t] = "upsert" => t \in Writers
  BY <1>2 DEF GhostInv
<1>5. ASSUME NEW p \in Personas, NEW q \in Periods, <<p, q>> \notin torn' PROVE PairOK(p, q)'
  <2>1. <<p, q>> \notin torn
    BY <1>1, <1>5
  <2>2. PairOK(p, q)
    BY <2>1 DEF GhostInv
  <2>3. s \notin Updating(p)
    BY <1>1, <1>5 DEF Updating
  <2>4. Updating(p)' = Updating(p) /\ \A t \in Updating(p) : found'[t] = found[t] /\ req'[t] = req[t]
    BY <1>2, <2>3 DEF Updating, Sessions
  <2>5. \A o, k : Pair(o, k)' <=> Pair(o, k)
    BY <1>3 DEF Pair
  <2>6. \A t \in Updating(p) : Halfway(t, p, q)'
    BY <1>3, <2>2, <2>4, <2>5 DEF PairOK, Halfway
  <2> QED BY <2>2, <2>4, <2>5, <2>6 DEF PairOK
<1> QED BY <1>4, <1>5 DEF GhostInv

LEMMA StoreWrites ==
  ASSUME NEW p, NEW x, NEW n, stats' = Store(stats, <<p, x[1], x[2]>>, [value |-> n, current |-> TRUE])
  PROVE  \A o, k, q, v : Written(o, k, q, v)' <=>
           IF o = p /\ k = x[1] /\ q = x[2] THEN v = n ELSE Written(o, k, q, v)
<1> DEFINE key == <<p, x[1], x[2]>>
           row == [value |-> n, current |-> TRUE]
<1>1. row.value = n
  OBVIOUS
<1>2. \A o, k, q : <<o, k, q>> = key <=> (o = p /\ k = x[1] /\ q = x[2])
  OBVIOUS
<1> HIDE DEF key, row
<1>3. DOMAIN stats' = DOMAIN stats \cup {key} /\ \A c \in DOMAIN stats' : stats'[c] = IF c = key THEN row ELSE stats[c]
  BY DEF Store, key, row
<1>4. ASSUME NEW o, NEW k, NEW q, NEW v
      PROVE  Written(o, k, q, v)' <=>
               IF o = p /\ k = x[1] /\ q = x[2] THEN v = n ELSE Written(o, k, q, v)
  <2> DEFINE c == <<o, k, q>>
  <2>1. (Written(o, k, q, v)' <=> (c \in DOMAIN stats' /\ stats'[c].value = v)) /\
        (Written(o, k, q, v) <=> (c \in DOMAIN stats /\ stats[c].value = v))
    BY DEF Written
  <2>2. c = key <=> (o = p /\ k = x[1] /\ q = x[2])
    BY <1>2
  <2> HIDE DEF c
  <2>3. CASE c = key
    BY <1>1, <1>3, <2>1, <2>2, <2>3
  <2>4. CASE c # key
    BY <1>3, <2>1, <2>2, <2>4
  <2> QED BY <2>3, <2>4
<1> QED BY <1>4

\* One write of an upload.
LEMMA UpsertKeeps ==
  ASSUME BoardInv, GhostInv, NEW s \in Sessions, Upsert(s)
  PROVE  GhostInv'
<1>1. pc[s] = "upsert" /\ Domains /\ UploadOK(s) /\ torn' = torn
  BY DEF Upsert, BoardInv, RequestsOK, Shape
<1>2. PICK p \in Personas, n \in Times : p = req[s].persona /\ n = req[s].value
  BY <1>1 DEF UploadOK
<1>3. PICK w \in Seq(Keys \X Periods) : w = found[s] /\ w # <<>>
  BY <1>1 DEF UploadOK
<1>4. s \in Writers /\ s \in Updating(p)
  BY <1>1, <1>2 DEF GhostInv, Updating
<1>5. PICK x \in Keys \X Periods :
        /\ x = Head(w) /\ x[1] \in RestOf(w, x[2])
        /\ \A q : /\ RestOf(Tail(w), q) \subseteq RestOf(w, q)
                  /\ RestOf(w, q) \subseteq RestOf(Tail(w), q) \cup (IF q = x[2] THEN {x[1]} ELSE {})
        /\ Len(w) = 1 => \A q : RestOf(Tail(w), q) = {}
  BY <1>3, RestTail
<1>6. stats' = Store(stats, <<p, x[1], x[2]>>, [value |-> n, current |-> TRUE])
  BY <1>2, <1>3, <1>5 DEF Upsert
<1>7. \/ /\ pc' = [pc EXCEPT ![s] = "idle"] /\ req' = [req EXCEPT ![s] = None]
         /\ found' = [found EXCEPT ![s] = <<>>] /\ Len(w) = 1
      \/ /\ pc' = pc /\ req' = req /\ found' = [found EXCEPT ![s] = Tail(w)] /\ Len(w) # 1
  BY <1>3 DEF Upsert, Finish, Goto
<1>8. /\ \A t \in Sessions \ {s} : pc'[t] = pc[t] /\ req'[t] = req[t] /\ found'[t] = found[t]
      /\ \/ pc'[s] = "idle" /\ Len(w) = 1
         \/ pc'[s] = "upsert" /\ req'[s] = req[s] /\ found'[s] = Tail(w) /\ Len(w) # 1
  BY <1>1, <1>7 DEF Domains
<1>9. \A t \in Sessions : pc'[t] = "upsert" => t \in Writers
  BY <1>4, <1>8 DEF GhostInv
<1>10. \A o, k, q, v : Written(o, k, q, v)' <=>
         IF o = p /\ k = x[1] /\ q = x[2] THEN v = n ELSE Written(o, k, q, v)
  BY <1>6, StoreWrites
<1>11. ASSUME NEW o \in Personas, o # p, NEW q \in Periods, <<o, q>> \notin torn'
       PROVE  PairOK(o, q)'
  <2>1. Updating(o)' = Updating(o) /\ s \notin Updating(o)
    BY <1>1, <1>2, <1>8, <1>11 DEF Updating, Sessions
  <2>2. \A t \in Updating(o) : found'[t] = found[t] /\ req'[t] = req[t]
    BY <1>8, <2>1 DEF Updating, Sessions
  <2>3. (\A k, v : Written(o, k, q, v)' <=> Written(o, k, q, v)) /\ (Pair(o, q)' <=> Pair(o, q))
    BY <1>10, <1>11 DEF Pair
  <2>4. PairOK(o, q)
    BY <1>1, <1>11 DEF GhostInv
  <2>5. \A t \in Updating(o) : Halfway(t, o, q)'
    BY <2>2, <2>3, <2>4 DEF PairOK, Halfway
  <2> QED BY <2>1, <2>3, <2>4, <2>5 DEF PairOK
<1>12. ASSUME NEW q \in Periods, <<p, q>> \notin torn' PROVE PairOK(p, q)'
  <2>1. PairOK(p, q)
    BY <1>1, <1>12 DEF GhostInv
  <2>2. Updating(p) = {s}
    BY <1>4, <2>1 DEF PairOK
  <2>3. /\ \A t \in Updating(p)' : t = s
        /\ s \in Updating(p)' => pc'[s] = "upsert" /\ found'[s] = Tail(w) /\ req'[s].value = n
        /\ Updating(p)' = {} => Len(w) = 1
    <3>1. ASSUME NEW t \in Writers, t # s PROVE t \notin Updating(p)'
      <4>1. ~(pc[t] = "upsert" /\ req[t].persona = p)
        BY <2>2, <3>1 DEF Updating
      <4> QED BY <1>8, <3>1, <4>1 DEF Updating, Sessions
    <3>2. pc'[s] = "upsert" => s \in Updating(p)'
      BY <1>2, <1>4, <1>8 DEF Updating
    <3>3. s \in Updating(p)' => pc'[s] = "upsert"
      BY DEF Updating
    <3>4. \A t \in Updating(p)' : t \in Writers
      BY DEF Updating
    <3> QED BY <1>2, <1>8, <3>1, <3>2, <3>3, <3>4
  <2>4. \/ Pair(p, q) /\ RestOf(w, q) = {}
        \/ \A k \in Keys \ RestOf(w, q) : Written(p, k, q, n)
    BY <1>2, <1>3, <2>1, <2>2 DEF PairOK, Halfway
  <2>5. \/ Pair(p, q)' /\ RestOf(Tail(w), q) = {}
        \/ \A k \in Keys \ RestOf(Tail(w), q) : Written(p, k, q, n)'
    <3>1. CASE Pair(p, q) /\ RestOf(w, q) = {}
      <4>1. q # x[2]
        BY <1>5, <3>1
      <4>2. Pair(p, q)'
        BY <1>10, <3>1, <4>1 DEF Pair
      <4> QED BY <1>5, <3>1, <4>2
    <3>2. CASE \A k \in Keys \ RestOf(w, q) : Written(p, k, q, n)
      <4>1. ASSUME NEW k \in Keys \ RestOf(Tail(w), q) PROVE Written(p, k, q, n)'
        <5>1. CASE q = x[2] /\ k = x[1]
          BY <1>10, <5>1
        <5>2. CASE ~(q = x[2] /\ k = x[1])
          <6>1. k \notin RestOf(w, q)
            BY <1>5, <4>1, <5>2
          <6> QED BY <1>10, <3>2, <5>2, <6>1
        <5> QED BY <5>1, <5>2
      <4> QED BY <4>1
    <3> QED BY <2>4, <3>1, <3>2
  <2>6. Len(w) = 1 => Pair(p, q)'
    <3> SUFFICES ASSUME Len(w) = 1, ~Pair(p, q)' PROVE FALSE
      OBVIOUS
    <3>1. Written(p, "time", q, n)' /\ Written(p, "tag", q, n)'
      BY <1>5, <2>5 DEF Keys
    <3> QED BY <3>1 DEF Pair, Written
  <2>7. \A t \in Updating(p)' : Halfway(t, p, q)'
    BY <2>3, <2>5 DEF Halfway
  <2> QED BY <2>3, <2>6, <2>7 DEF PairOK
<1>13. ASSUME NEW o \in Personas, NEW q \in Periods, <<o, q>> \notin torn' PROVE PairOK(o, q)'
  BY <1>11, <1>12, <1>13
<1> QED BY <1>9, <1>13 DEF GhostInv

LEMMA GhostInit == Init => GhostInv
<1> SUFFICES ASSUME Init PROVE GhostInv
  OBVIOUS
<1>1. \A s \in Sessions : pc[s] # "upsert"
  BY DEF Init
<1>2. \A p : Updating(p) = {}
  BY <1>1 DEF Updating, Sessions
<1>3. \A p, q : Pair(p, q)
  BY DEF Init, Pair, Written
<1> QED BY <1>1, <1>2, <1>3 DEF GhostInv, PairOK

LEMMA GhostNext == ASSUME BoardInv, GhostInv, [Next]_vars PROVE GhostInv'
<1>1. ASSUME NEW s \in Sessions, Handler(s) PROVE GhostInv'
  BY <1>1, UpsertKeeps, FailKeeps, ReadStep DEF Handler
<1>2. ASSUME UNCHANGED <<pc, req, found, torn>>,
             \A p, k, q, v : Written(p, k, q, v)' <=> Written(p, k, q, v)
      PROVE  GhostInv'
  BY <1>2, UploadsKept
<1>3. ASSUME UNCHANGED <<pc, req, found, torn, stats>> PROVE GhostInv'
  <2>1. \A p, k, q, v : Written(p, k, q, v)' <=> Written(p, k, q, v)
    BY <1>3 DEF Written
  <2> QED BY <1>2, <1>3, <2>1
<1>4. ASSUME Import PROVE GhostInv'
  BY <1>3, <1>4 DEF Import, AddHistoricalRun, LinkHistoricalAccount, UnlinkHistoricalAccount
<1>5. ASSUME NEW q \in Dated, Rollover(q) PROVE GhostInv'
  <2>1. /\ DOMAIN stats' = DOMAIN stats
        /\ \A c \in DOMAIN stats :
             stats'[c] = IF c[3] = q THEN [stats[c] EXCEPT !.current = FALSE] ELSE stats[c]
    BY <1>5 DEF Rollover
  <2>2. \A c \in DOMAIN stats : stats[c] \in Row
    BY DEF BoardInv, TablesOK
  <2>3. \A c \in DOMAIN stats : stats'[c].value = stats[c].value
    BY <2>1, <2>2 DEF Row
  <2>4. \A p, k, o, v : Written(p, k, o, v)' <=> Written(p, k, o, v)
    BY <2>1, <2>3 DEF Written
  <2> QED BY <1>2, <1>5, <2>4 DEF Rollover
<1>6. ASSUME UNCHANGED vars PROVE GhostInv'
  BY <1>3, <1>6 DEF vars, tables
<1> QED BY <1>1, <1>4, <1>5, <1>6, UpdateStatsKeeps, AskKeeps DEF Next

LEMMA OwnWritten == \A p, k, q : \A v \in Own(p, k, q) : Written(p, k, q, v) /\ Own(p, k, q) = {v}
BY OwnIs DEF Written

\* A page: an imported time has no tag, an own time the tag of its run.
LEMMA PageGhosts ==
  ASSUME TablesOK, NEW q, NEW row, NEW p \in Personas, row.owner = p, Pair(p, q), row.tag = TagOf(q, row),
         [owner |-> row.owner, value |-> row.value, timeOnly |-> row.timeOnly] \in BoardRows(q)
  PROVE  /\ row.tag \subseteq {row.value}
         /\ row.value \in Own(p, "time", q) => row.tag = Own(p, "tag", q)
<1> DEFINE r == Entrant(row.owner, row.value, row.timeOnly)
<1>1. /\ r \in BoardRows(q) /\ r \in Candidates(q)
      /\ r.owner = p /\ r.value = row.value /\ r.timeOnly = row.timeOnly
  BY BoardIs DEF Entrant
<1>2. row.value \in Nat \ {0} /\ row.timeOnly \in BOOLEAN
  BY <1>1, RowsTyped
<1>3. CASE row.timeOnly
  <2>1. row.tag = {}
    BY <1>3 DEF TagOf
  <2>2. row.value \notin Own(p, "time", q)
    <3> SUFFICES ASSUME row.value \in Own(p, "time", q) PROVE FALSE
      OBVIOUS
    <3> DEFINE c == Entrant(p, row.value, FALSE)
    <3>0. row.value \in Timed(Own(p, "time", q))
      BY <1>2 DEF Timed
    <3>1. c \in Candidates(q)
      BY <3>0, CandidateIs
    <3>2. Before(c, r) /\ c.owner = r.owner
      BY <1>1, <1>2, <1>3 DEF Before, Entrant
    <3> QED BY <1>1, <3>1, <3>2 DEF BoardRows, BestRows
  <2> QED BY <2>1, <2>2
<1>4. CASE ~row.timeOnly
  <2>1. row.tag = Own(p, "tag", q)
    BY <1>4 DEF TagOf
  <2>2. row.value \in Own(p, "time", q)
    <3>1. \/ \E o \in Personas : \E v \in Timed(Own(o, "time", q)) : r = Entrant(o, v, FALSE)
          \/ \E o \in Personas : \E h \in Linked(o) : \E v \in Timed(RunTimes(h, q)) : r = Entrant(o, v, TRUE)
          \/ \E h \in players \ DOMAIN links : \E v \in Timed(RunTimes(h, q)) : r = Entrant(h, v, TRUE)
      BY <1>1, CandidateIs
    <3>2. \A o, v, b : r = Entrant(o, v, b) => r.owner = o /\ r.value = v /\ r.timeOnly = b
      BY DEF Entrant
    <3> HIDE DEF r
    <3>3. PICK o \in Personas : \E v \in Timed(Own(o, "time", q)) : r = Entrant(o, v, FALSE)
      BY <1>1, <1>4, <3>1, <3>2
    <3>4. PICK v \in Timed(Own(o, "time", q)) : r = Entrant(o, v, FALSE)
      BY <3>3
    <3>5. row.value = v /\ o = p
      BY <1>1, <3>2, <3>4
    <3> QED BY <3>4, <3>5 DEF Timed
  <2>3. \A t \in Own(p, "tag", q) : t = row.value
    BY <2>2, OwnWritten DEF Pair
  <2> QED BY <2>1, <2>3
<1> QED BY <1>2, <1>3, <1>4

\* An entry: the tag of the persona's own time, which a linked run may beat.
LEMMA EntryGhosts ==
  ASSUME TablesOK, NEW q, NEW e, NEW p \in Personas, Pair(p, q), Right(e, p, "stats", q), e.tag # {}
  PROVE  \/ e.tag = e.time
         \/ Own(p, "time", q) = {}
         \/ /\ e.tag = Own(p, "time", q)
            /\ \E t \in LinkedTimes(p, q) : e.time = {t} /\ \A v \in e.tag : t < v
<1> DEFINE T == TimesOf(p, q)
<1>1. e.tag = Own(p, "tag", q) /\ T = Own(p, "time", q) \cup LinkedTimes(p, q) /\ e.time = LeastOf(T)
  BY BoardAssumption DEF Right, StatTag, TimesOf
<1>2. T \in SUBSET Int /\ (T # {} => Min(T) \in T /\ \A n \in T : Min(T) <= n)
  BY LeastTime
<1> HIDE DEF T
<1> SUFFICES ASSUME NEW a, Own(p, "time", q) = {a}, e.time # e.tag
             PROVE  /\ e.tag = {a}
                    /\ \E t \in LinkedTimes(p, q) : e.time = {t} /\ \A v \in e.tag : t < v
  BY OwnWritten
<1>3. PICK g \in e.tag : TRUE
  OBVIOUS
<1>4. e.tag = {g} /\ g = a
  BY <1>1, <1>3, OwnWritten DEF Pair
<1>5. T # {} /\ a \in T /\ Min(T) \in T /\ Min(T) <= a /\ e.time = {Min(T)}
  BY <1>1, <1>2 DEF LeastOf
<1>6. Min(T) # a /\ Min(T) \in LinkedTimes(p, q)
  BY <1>1, <1>4, <1>5
<1>7. Min(T) < a
  <2>1. \A m, n \in Int : m <= n /\ m # n => m < n
    OBVIOUS
  <2>2. Min(T) \in Int /\ a \in Int
    BY <1>2, <1>5
  <2> QED BY <1>5, <1>6, <2>1, <2>2
<1> QED BY <1>4, <1>5, <1>6, <1>7

LEMMA GhostRight == BoardInv /\ GhostInv => GhostBelongsToTime
<1> SUFFICES ASSUME BoardInv, GhostInv, NEW s \in Readers
             PROVE  /\ answer[s].kind = "top" =>
                         \A i \in DOMAIN answer[s].rows :
                           LET row == answer[s].rows[i]
                               q == answer[s].to.period
                           IN  row.owner \in Personas \ moved[s] /\ Whole(row.owner, q) =>
                                 /\ row.tag \subseteq {row.value}
                                 /\ row.value \in Own(row.owner, "time", q) => row.tag = Own(row.owner, "tag", q)
                    /\ answer[s].kind = "stats" =>
                         \A i \in DOMAIN answer[s].entries :
                           LET e == answer[s].entries[i]
                               q == answer[s].to.period
                           IN  e.owner \in Personas \ moved[s] /\ Whole(e.owner, q) /\ e.tag # {} =>
                                 \/ e.tag = e.time
                                 \/ Own(e.owner, "time", q) = {}
                                 \/ /\ e.tag = Own(e.owner, "time", q)
                                    /\ \E t \in LinkedTimes(e.owner, q) : e.time = {t} /\ \A v \in e.tag : t < v
  BY DEF GhostBelongsToTime
<1>1. AnswerRight(s) /\ TablesOK
  BY DEF BoardInv, RequestsOK
<1>2. ASSUME NEW p \in Personas, NEW q \in Periods, Whole(p, q) PROVE Pair(p, q)
  BY <1>2 DEF GhostInv, PairOK, Whole
<1> DEFINE q == answer[s].to.period
<1>3. ASSUME answer[s].kind = "top", NEW i \in DOMAIN answer[s].rows,
             answer[s].rows[i].owner \in Personas \ moved[s], Whole(answer[s].rows[i].owner, q)
      PROVE  /\ answer[s].rows[i].tag \subseteq {answer[s].rows[i].value}
             /\ answer[s].rows[i].value \in Own(answer[s].rows[i].owner, "time", q) =>
                  answer[s].rows[i].tag = Own(answer[s].rows[i].owner, "tag", q)
  <2> DEFINE row == answer[s].rows[i]
  <2>1. /\ answer[s].rows \in Seq(ARow) /\ RowsRight(q, answer[s].rows, moved[s])
        /\ TagsRight(q, answer[s].rows, Len(answer[s].rows), moved[s])
    BY <1>1, <1>3, BoardAssumption DEF AnswerRight
  <2>2. i \in 1 .. Len(answer[s].rows)
    BY <1>3, <2>1
  <2>3. /\ row.tag = TagOf(q, row)
        /\ [owner |-> row.owner, value |-> row.value, timeOnly |-> row.timeOnly] \in BoardRows(q)
    BY <1>3, <2>1, <2>2 DEF TagsRight, RowsRight
  <2>4. Pair(row.owner, q)
    BY <1>1, <1>2, <1>3 DEF AnswerRight
  <2> HIDE DEF row, q
  <2>5. row.owner \in Personas
    BY <1>3 DEF row
  <2>6. /\ row.tag \subseteq {row.value}
        /\ row.value \in Own(row.owner, "time", q) => row.tag = Own(row.owner, "tag", q)
    BY <1>1, <2>3, <2>4, <2>5, PageGhosts
  <2> QED BY <2>6 DEF row
<1>4. ASSUME answer[s].kind = "stats", NEW i \in DOMAIN answer[s].entries,
             answer[s].entries[i].owner \in Personas \ moved[s], Whole(answer[s].entries[i].owner, q),
             answer[s].entries[i].tag # {}
      PROVE  LET e == answer[s].entries[i]
             IN  \/ e.tag = e.time
                 \/ Own(e.owner, "time", q) = {}
                 \/ /\ e.tag = Own(e.owner, "time", q)
                    /\ \E t \in LinkedTimes(e.owner, q) : e.time = {t} /\ \A v \in e.tag : t < v
  <2> DEFINE e == answer[s].entries[i]
  <2>1. /\ OwnersQuery(answer[s].to) /\ answer[s].to.kind = "stats"
        /\ answer[s].entries \in Seq(AnEntry) /\ EntriesRight(answer[s].to, answer[s].entries, moved[s])
    BY <1>1, <1>4 DEF AnswerRight
  <2>2. i \in 1 .. Len(answer[s].entries) /\ q \in Periods
    BY <1>4, <2>1 DEF OwnersQuery
  <2>3. Right(e, e.owner, "stats", q)
    BY <1>4, <2>1, <2>2 DEF EntriesRight, EntryRight, Right
  <2>4. Pair(e.owner, q)
    BY <1>2, <1>4, <2>2
  <2> HIDE DEF e, q
  <2>5. e.owner \in Personas /\ e.tag # {}
    BY <1>4 DEF e
  <2> QED BY <1>1, <2>3, <2>4, <2>5, EntryGhosts DEF e
<1> QED BY <1>3, <1>4

\* A tag shown beside a time is the tag of that run, for every persona whose
\* rows, runs and links did not change while the request was answered and
\* whose uploads neither overlapped nor broke off nor brought a row alone.
THEOREM GhostStays == Spec => []GhostBelongsToTime
<1>1. BoardInv /\ GhostInv /\ [Next]_vars => GhostInv'
  BY GhostNext
<1>2. Spec => []GhostInv
  BY <1>1, GhostInit, BoardAlways, PTL DEF Spec
<1> QED BY <1>2, BoardAlways, GhostRight, PTL
=============================================================================
