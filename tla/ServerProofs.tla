---------------------------- MODULE ServerProofs ----------------------------
(***************************************************************************)
(* Theorems about the start of the server, for any files, environments,    *)
(* logs and links.                                                         *)
(*                                                                         *)
(* The upgrade: the committed table never changes its rows, and at each    *)
(* statement of the transaction the table inside it has come as far as the *)
(* statements before have brought it.  The rotation: each log still to be  *)
(* removed has enough newer ones that are not.  The settings: after any    *)
(* number of lines a key has the value of its last line so far.            *)
(***************************************************************************)
EXTENDS Server, FiniteSetTheorems, WellFoundedInduction, TLAPS

Table  == [rows : SUBSET LinkRows, columns : {"none", "now", "verified"}]
Tables == [links : Table, new : Table]

Committed ==
  /\ db \in Tables /\ before \in SUBSET LinkRows
  /\ db.new = Gone
  /\ db.links.rows = before
  /\ db.links.columns = "none" => db.links = Gone

InTransaction ==
  /\ work \in Tables
  /\ pc = "createNew" => work = db
  /\ pc = "copyRows" => work.links = db.links /\ work.new = Links({}, "now")
  /\ pc \in {"dropOld", "renameNew"} => work.new = Links(before, "now")
  /\ pc = "commit" => work = [links |-> Links(before, "now"), new |-> Gone]

Progress ==
  /\ pc = "checkColumns" => db.links.columns # "none"
  /\ pc \in {"wait", "closing"} => db.links.columns = "now"

MigrationInv == Committed /\ InTransaction /\ Progress

\* The statements of the transaction follow one another.
LEMMA Order ==
  /\ Following("createNew") = "copyRows"
  /\ Following("copyRows") = "dropOld"
  /\ Following("dropOld") = "renameNew"
  /\ Following("renameNew") = "commit"
<1> DEFINE Index(statement) == CHOOSE j \in DOMAIN Transaction : Transaction[j] = statement
<1>1. /\ DOMAIN Transaction = 1 .. 4 /\ Len(Transaction) = 4
      /\ Transaction[1] = "createNew" /\ Transaction[2] = "copyRows"
      /\ Transaction[3] = "dropOld" /\ Transaction[4] = "renameNew"
  BY DEF Transaction
<1>2. ASSUME NEW i \in 1 .. 4, NEW s, s = Transaction[i]
      PROVE  Index(s) = i
  <2>1. ASSUME NEW j \in 1 .. 4, Transaction[j] = s
        PROVE  j = i
    BY <1>1, <1>2, <2>1
  <2>2. QED
    BY <1>1, <1>2, <2>1
<1>3. /\ Index("createNew") = 1 /\ Index("copyRows") = 2
      /\ Index("dropOld") = 3 /\ Index("renameNew") = 4
  BY <1>1, <1>2
<1>4. QED
  BY <1>1, <1>3 DEF Following

\* Every initial database, new or old, satisfies the invariant.
LEMMA MigrationInit == Init => MigrationInv
<1> SUFFICES ASSUME Init PROVE MigrationInv
  OBVIOUS
<1>1. Gone \in Table /\ Links(LinkRows, "now") \in Table /\ Links(LinkRows, "verified") \in Table
  BY DEF Gone, Links, Table
<1>2. PICK t \in {Gone, Links(LinkRows, "now"), Links(LinkRows, "verified")} :
        db = [links |-> t, new |-> Gone]
  BY DEF Init
<1>3. db \in Tables /\ work \in Tables
  BY <1>1, <1>2 DEF Init, Tables, NoWork
<1>4. db.links.columns = "none" => db.links = Gone
  BY <1>2 DEF Gone, Links
<1>5. QED
  BY <1>2, <1>3, <1>4 DEF Init, MigrationInv, Committed, InTransaction, Progress, Table, Tables

\* One statement of the transaction.
LEMMA MigrateStep == ASSUME MigrationInv, Migrate PROVE MigrationInv'
<1> USE DEF MigrationInv, Committed, InTransaction, Progress, Migrate, Goto, disk
<1>1. pc \in {"createNew", "copyRows", "dropOld", "renameNew"}
  BY DEF Transaction
<1>2. CASE pc = "createNew"
  <2>1. work' = [work EXCEPT !.new = Links({}, "now")]
    BY <1>2 DEF After
  <2>2. work'.links = db.links /\ work'.new = Links({}, "now")
    BY <1>2, <2>1 DEF Tables
  <2>3. work' \in Tables
    BY <2>1 DEF Tables, Table, Links
  <2>4. QED
    BY <1>2, <2>2, <2>3, Order
<1>3. CASE pc = "copyRows"
  <2>1. work' = [work EXCEPT !.new.rows = work.links.rows]
    BY <1>3 DEF After
  <2>2. work'.new = Links(before, "now")
    BY <1>3, <2>1 DEF Tables, Table, Links
  <2>3. work' \in Tables
    BY <2>1 DEF Tables, Table
  <2>4. QED
    BY <1>3, <2>2, <2>3, Order
<1>4. CASE pc = "dropOld"
  <2>1. work' = [work EXCEPT !.links = Gone]
    BY <1>4 DEF After
  <2>2. work'.new = Links(before, "now")
    BY <1>4, <2>1 DEF Tables
  <2>3. work' \in Tables
    BY <2>1 DEF Tables, Table, Gone
  <2>4. QED
    BY <1>4, <2>2, <2>3, Order
<1>5. CASE pc = "renameNew"
  <2>1. work' = [links |-> work.new, new |-> Gone]
    BY <1>5 DEF After
  <2>2. work' = [links |-> Links(before, "now"), new |-> Gone]
    BY <1>5, <2>1
  <2>3. work' \in Tables
    BY <2>2 DEF Tables, Table, Gone, Links
  <2>4. QED
    BY <1>5, <2>2, <2>3, Order
<1>6. QED
  BY <1>1, <1>2, <1>3, <1>4, <1>5

\* The process ends and loses what is not committed.
LEMMA EndStep == ASSUME MigrationInv, NEW code, End(code), UNCHANGED disk PROVE MigrationInv'
<1>1. work' \in Tables
  BY DEF End, NoWork, Gone, Tables, Table
<1>2. QED
  BY <1>1 DEF MigrationInv, Committed, InTransaction, Progress, End, Goto, disk

\* Every other step of the process.
LEMMA MigrationNext == ASSUME MigrationInv, [Next]_vars PROVE MigrationInv'
<1> USE DEF MigrationInv, Committed, InTransaction, Progress, Goto, disk, serving
<1>1. CASE Start
  BY <1>1 DEF Start
<1>2. CASE OpenLog \/ RemoveOld \/ LogReady
  BY <1>2 DEF OpenLog, RemoveOld, LogReady
<1>3. CASE CreateTables
  <2>1. CASE db.links = Gone
    <3>1. db' = [db EXCEPT !.links = Links({}, "now")]
      BY <1>3, <2>1 DEF CreateTables
    <3>2. before = {}
      BY <2>1 DEF Gone
    <3>3. db'.links = Links({}, "now") /\ db'.new = Gone /\ db' \in Tables
      BY <3>1 DEF Tables, Table, Links
    <3>4. QED
      BY <1>3, <3>2, <3>3 DEF CreateTables, Links
  <2>2. CASE db.links # Gone
    BY <1>3, <2>2 DEF CreateTables
  <2>3. QED
    BY <2>1, <2>2
<1>4. CASE CheckColumns
  <2>1. db.links.columns \in {"now", "verified"}
    BY <1>4 DEF CheckColumns, Tables, Table
  <2>2. QED
    BY <1>4, <2>1 DEF CheckColumns, Listen, Transaction
<1>5. CASE Migrate
  BY <1>5, MigrateStep
<1>6. CASE Commit
  <2>1. db' = [links |-> Links(before, "now"), new |-> Gone]
    BY <1>6 DEF Commit
  <2>2. work' \in Tables
    BY <1>6 DEF Commit, NoWork, Gone, Tables, Table
  <2>3. QED
    BY <1>6, <2>1, <2>2 DEF Commit, Listen, Links
<1>7. CASE StartFails
  BY <1>7, EndStep DEF StartFails
<1>8. CASE Wait
  BY <1>8, EndStep DEF Wait
<1>9. CASE Close
  BY <1>9, EndStep DEF Close
<1>10. CASE Crash
  BY <1>10, EndStep DEF Crash
<1>11. CASE Signal
  BY <1>11 DEF Signal
<1>12. ASSUME NEW l \in Listeners,
              Bind(l) \/ BindFails(l) \/ Accept(l) \/ SessionEnds(l) \/ CloseListener(l) \/ AcceptFails(l)
       PROVE  MigrationInv'
  BY <1>12 DEF Bind, BindFails, Accept, SessionEnds, CloseListener, AcceptFails
<1>13. CASE UNCHANGED vars
  BY <1>13 DEF vars
<1>14. QED
  BY <1>1, <1>2, <1>3, <1>4, <1>5, <1>6, <1>7, <1>8, <1>9, <1>10, <1>11, <1>12, <1>13
  DEF Next, Main

\* No upgrade loses or invents a link, wherever the process fails or is killed
\* between the statements of storage.Open, and requests are served from the
\* new form of the table only.
THEOREM UpgradeIsSafe == Spec => []LinksSurviveUpgrade
<1>1. MigrationInv => LinksSurviveUpgrade
  BY DEF MigrationInv, Committed, Progress, LinksSurviveUpgrade, Gone
<1>2. QED
  BY MigrationInit, MigrationNext, <1>1, PTL DEF Spec

-----------------------------------------------------------------------------
(* Naturals and finite sets *)

\* Every non-empty set of naturals has a least element.
LEMMA Least ==
  ASSUME NEW S \in SUBSET Nat, S # {}
  PROVE  \E m \in S : \A n \in S : m <= n
<1> DEFINE R == OpToRel(<, Nat)
<1>1. IsWellFoundedOn(R, Nat)
  BY NatLessThanWellFounded
<1>2. \A m, n \in Nat : n < m => <<n, m>> \in R
  BY DEF OpToRel
<1> HIDE DEF R
<1>3. PICK m \in S : \A n \in S : <<n, m>> \notin R
  BY <1>1, WFMin
<1>4. ASSUME NEW n \in S PROVE m <= n
  <2>1. m \in Nat /\ n \in Nat /\ ~(n < m)
    BY <1>2, <1>3
  <2> QED BY <2>1
<1> QED BY <1>4

\* A set with 0 and the successor of each of its naturals has them all.
LEMMA AllNaturals ==
  ASSUME NEW S, 0 \in S, \A n \in Nat : n \in S => n + 1 \in S
  PROVE  Nat \subseteq S
<1> SUFFICES ASSUME Nat \ S # {} PROVE FALSE
  OBVIOUS
<1>1. PICK m \in Nat \ S : \A n \in Nat \ S : m <= n
  BY Least
<1>2. m # 0 /\ m \in Nat
  BY <1>1
<1>3. m - 1 \in Nat /\ (m - 1) + 1 = m /\ ~(m <= m - 1)
  BY <1>2
<1>4. m - 1 \in S
  BY <1>1, <1>3
<1> QED BY <1>1, <1>3, <1>4

\* A finite set of naturals has a greatest element: the one that the fewest
\* elements exceed.
LEMMA Greatest ==
  ASSUME NEW S \in SUBSET Nat, IsFiniteSet(S), S # {}
  PROVE  \E m \in S : \A n \in S : n <= m
<1> DEFINE Above(x) == {n \in S : n > x}
<1>1. ASSUME NEW x \in S PROVE IsFiniteSet(Above(x)) /\ Cardinality(Above(x)) \in Nat
  BY FS_Subset, FS_CardinalityType
<1>2. {Cardinality(Above(x)) : x \in S} \in SUBSET Nat /\ {Cardinality(Above(x)) : x \in S} # {}
  BY <1>1
<1>3. PICK c \in {Cardinality(Above(x)) : x \in S} : \A d \in {Cardinality(Above(x)) : x \in S} : c <= d
  BY <1>2, Least
<1>4. PICK m \in S : \A x \in S : Cardinality(Above(m)) <= Cardinality(Above(x))
  BY <1>3
<1>5. ASSUME NEW n \in S, n > m PROVE FALSE
  <2>1. m \in Nat /\ n \in Nat
    OBVIOUS
  <2>2. \A x \in S : x > n => x > m
    <3>1. TAKE x \in S
    <3>2. x \in Nat
      OBVIOUS
    <3> QED BY <1>5, <2>1, <3>2
  <2>3. Above(n) \subseteq Above(m)
    BY <2>2
  <2>4. n \in Above(m) /\ n \notin Above(n)
    BY <1>5, <2>1
  <2> HIDE DEF Above
  <2>5. Cardinality(Above(n)) <= Cardinality(Above(m)) /\ Cardinality(Above(n)) # Cardinality(Above(m))
    BY <1>1, <2>3, <2>4, FS_Subset
  <2>6. Cardinality(Above(m)) <= Cardinality(Above(n))
    BY <1>4
  <2> QED BY <1>1, <2>5, <2>6
<1>6. ASSUME NEW n \in S PROVE n <= m
  <2>1. m \in Nat /\ n \in Nat /\ ~(n > m)
    BY <1>5
  <2> QED BY <2>1
<1> QED BY <1>6

-----------------------------------------------------------------------------
(* The rotation of the logs *)

\* The newer logs that stay.
Newer(f) == {t \in (files \cap Stamps) \ doomed : t > f}

\* Each log that is to be removed has enough newer ones that are not.
RotationInv ==
  /\ IsFiniteSet(files \cap Stamps)
  /\ doomed \subseteq (files \cap Stamps) \ {current}
  /\ \A f \in doomed : Cardinality(Newer(f)) >= KeepLogs

LEMMA RotationInit == Init => RotationInv
<1> SUFFICES ASSUME Init PROVE RotationInv
  OBVIOUS
<1>1. files \cap Stamps = {} /\ doomed = {}
  BY ServerAssumption DEF Init
<1> QED BY <1>1, FS_EmptySet DEF RotationInv

LEMMA AtLeast ==
  ASSUME NEW S, IsFiniteSet(S), NEW T, T \subseteq S, Cardinality(T) >= KeepLogs
  PROVE  Cardinality(S) >= KeepLogs
<1>1. Cardinality(T) <= Cardinality(S) /\ Cardinality(S) \in Nat /\ Cardinality(T) \in Nat
  BY FS_Subset, FS_CardinalityType
<1> QED BY <1>1, ServerAssumption

\* What is newer than all of the excess is not excess, and it is enough.
LEMMA ExcessIsOld ==
  ASSUME NEW logs \in SUBSET Stamps, IsFiniteSet(logs), NEW f \in Excess(logs)
  PROVE  Cardinality({t \in logs \ Excess(logs) : t > f}) >= KeepLogs
<1>1. logs \subseteq Nat /\ Excess(logs) \subseteq logs
  BY ServerAssumption DEF Excess
<1>2. IsFiniteSet(Excess(logs))
  BY <1>1, FS_Subset
<1>3. PICK g \in Excess(logs) : \A h \in Excess(logs) : h <= g
  BY <1>1, <1>2, Greatest
<1>4. Cardinality({t \in logs : t > g}) >= KeepLogs
  BY DEF Excess
<1>5. ASSUME NEW t \in logs, t > g PROVE t \notin Excess(logs) /\ t > f
  <2>1. t \in Nat /\ g \in Nat /\ f \in Nat /\ f <= g
    BY <1>1, <1>3
  <2>2. t \notin Excess(logs)
    BY <1>3, <1>5, <2>1
  <2> QED BY <1>5, <2>1, <2>2
<1>6. {t \in logs : t > g} \subseteq {t \in logs \ Excess(logs) : t > f}
  BY <1>5
<1>7. IsFiniteSet({t \in logs \ Excess(logs) : t > f})
  BY FS_Subset
<1> QED BY <1>4, <1>6, <1>7, AtLeast

LEMMA OpenLogRotates == ASSUME RotationInv, OpenLog PROVE RotationInv'
<1>1. PICK t \in Stamps : /\ current' = t /\ files' = files \cup {t}
                          /\ doomed' = Excess((files \cap Stamps) \cup {t}) \ {t}
  BY DEF OpenLog
<1> DEFINE logs == (files \cap Stamps) \cup {t}
<1>2. logs \in SUBSET Stamps /\ files' \cap Stamps = logs
  BY <1>1
<1>3. IsFiniteSet(logs)
  BY FS_AddElement DEF RotationInv
<1>4. Excess(logs) \subseteq logs
  BY DEF Excess
<1> HIDE DEF logs
<1>5. doomed' = Excess(logs) \ {t}
  BY <1>1 DEF logs
<1>6. ASSUME NEW f \in doomed' PROVE Cardinality(Newer(f)') >= KeepLogs
  <2>1. f \in Excess(logs)
    BY <1>5, <1>6
  <2>2. Cardinality({u \in logs \ Excess(logs) : u > f}) >= KeepLogs
    BY <1>2, <1>3, <2>1, ExcessIsOld
  <2>3. Newer(f)' = {u \in logs \ doomed' : u > f}
    BY <1>2 DEF Newer
  <2>4. {u \in logs \ Excess(logs) : u > f} \subseteq Newer(f)'
    BY <1>5, <2>3
  <2>5. IsFiniteSet(Newer(f)')
    BY <1>3, <2>3, FS_Subset
  <2> QED BY <2>2, <2>4, <2>5, AtLeast
<1> QED BY <1>1, <1>2, <1>3, <1>4, <1>5, <1>6 DEF RotationInv

\* The file that is removed next, whether or not it can be.
LEMMA RemoveOldStep ==
  ASSUME RotationInv, RemoveOld
  PROVE  \E t \in doomed : /\ doomed' = doomed \ {t} /\ files' \in {files, files \ {t}}
                           /\ \A f \in doomed : Newer(f) \subseteq files' \cap Stamps
                           /\ \A f \in doomed : Newer(f) \subseteq Newer(f)'
<1>1. doomed # {} /\ doomed \subseteq Nat /\ IsFiniteSet(doomed)
  BY ServerAssumption, FS_Subset DEF RemoveOld, RotationInv
<1>2. \E u \in doomed : \A v \in doomed : v <= u
  BY <1>1, Greatest
<1>3. PICK t \in doomed : doomed' = doomed \ {t} /\ files' \in {files, files \ {t}}
  BY <1>2 DEF RemoveOld
<1>4. \A f \in doomed : Newer(f) \subseteq (files' \cap Stamps) \ doomed'
  BY <1>3 DEF Newer
<1>5. \A f \in doomed : Newer(f) \subseteq Newer(f)'
  BY <1>4 DEF Newer
<1> QED BY <1>3, <1>4, <1>5

LEMMA RotationNext == ASSUME RotationInv, [Next]_vars PROVE RotationInv'
<1>1. CASE OpenLog
  BY <1>1, OpenLogRotates
<1>2. CASE RemoveOld
  <2>1. PICK t \in doomed : /\ doomed' = doomed \ {t} /\ files' \in {files, files \ {t}}
                            /\ \A f \in doomed : Newer(f) \subseteq Newer(f)'
    BY <1>2, RemoveOldStep
  <2>2. IsFiniteSet(files' \cap Stamps)
    BY <2>1, FS_Subset DEF RotationInv
  <2>3. doomed' \subseteq (files' \cap Stamps) \ {current}
    BY <2>1 DEF RotationInv
  <2>4. ASSUME NEW f \in doomed' PROVE Cardinality(Newer(f)') >= KeepLogs
    <3>1. f \in doomed /\ Cardinality(Newer(f)) >= KeepLogs
      BY <2>1, <2>4 DEF RotationInv
    <3>2. IsFiniteSet(Newer(f)')
      BY <2>2, FS_Subset DEF Newer
    <3> QED BY <2>1, <3>1, <3>2, AtLeast
  <2>5. current' = current
    BY <1>2 DEF RemoveOld
  <2> QED BY <2>2, <2>3, <2>4, <2>5 DEF RotationInv
<1>3. ASSUME NEW code, End(code), UNCHANGED disk PROVE RotationInv'
  BY <1>3 DEF RotationInv, End, disk
<1>4. ASSUME UNCHANGED <<files, doomed, current>> PROVE RotationInv'
  BY <1>4 DEF RotationInv, Newer
<1>5. CASE StartFails \/ Wait \/ Close \/ Crash
  BY <1>3, <1>4, <1>5 DEF StartFails, Wait, Close, Crash, Goto, disk
<1>6. CASE [Next]_vars /\ ~(OpenLog \/ RemoveOld \/ StartFails \/ Wait \/ Close \/ Crash)
  <2>1. UNCHANGED <<files, doomed, current>>
    BY <1>6 DEF Next, Main, Start, LogReady, CreateTables, CheckColumns, Migrate, Commit, Signal,
         Bind, BindFails, Accept, SessionEnds, CloseListener, AcceptFails, vars, disk
  <2> QED BY <1>4, <2>1
<1> QED BY <1>1, <1>2, <1>5, <1>6

LEMMA OnlyExcess ==
  ASSUME RotationInv, [Next]_vars, NEW f \in files \ files'
  PROVE  /\ f \in Stamps /\ f # current
         /\ Cardinality({t \in files' \cap Stamps : t > f}) >= KeepLogs
<1>1. RemoveOld
  BY DEF Next, Main, Start, OpenLog, LogReady, CreateTables, CheckColumns, Migrate, Commit, StartFails,
     Wait, Close, Crash, Signal, Bind, BindFails, Accept, SessionEnds, CloseListener, AcceptFails, vars, disk
<1>2. f \in doomed /\ Newer(f) \subseteq files' \cap Stamps /\ files' \subseteq files
  BY <1>1, RemoveOldStep
<1>3. Newer(f) \subseteq {t \in files' \cap Stamps : t > f}
  BY <1>2 DEF Newer
<1>4. IsFiniteSet({t \in files' \cap Stamps : t > f})
  BY <1>2, FS_Subset DEF RotationInv
<1> QED BY <1>2, <1>3, <1>4, AtLeast DEF RotationInv

\* Removing old logs leaves the log in use, the files of others, and as many
\* newer logs as are to be kept, for any stamps, any number of logs and
\* wherever a removal fails or is cut short.
THEOREM RotationIsSafe == Spec => RotationKeepsNewest
<1>1. RotationInv /\ [Next]_vars =>
        [\A f \in files \ files' :
           /\ f \in Stamps /\ f # current
           /\ Cardinality({t \in files' \cap Stamps : t > f}) >= KeepLogs]_vars
  BY OnlyExcess
<1> QED BY RotationInit, RotationNext, <1>1, PTL DEF Spec, RotationKeepsNewest

-----------------------------------------------------------------------------
(* Reading the settings *)

Nothing == [section |-> "", values |-> <<>>]

\* fold gives to each set of lines what reading them in order makes of Nothing.
Folds(fold, file, S) ==
  fold = [T \in SUBSET S |-> IF T = {} THEN Nothing ELSE ReadLine(fold[T \ {Max(T)}], file[Max(T)])]

LEMMA MaxIs ==
  ASSUME NEW n \in Nat, NEW T \in SUBSET (1 .. n), T # {}
  PROVE  Max(T) \in T /\ \A m \in T : m <= Max(T)
<1>0. IsFiniteSet(1 .. n) /\ 1 .. n \subseteq Nat
  BY FS_Interval
<1>1. T \subseteq Nat /\ IsFiniteSet(T)
  BY <1>0, FS_Subset
<1>2. \E m \in T : \A k \in T : k <= m
  BY <1>1, Greatest
<1>3. \A m, k \in T : k <= m <=> m >= k
  BY <1>1
<1>4. \E m \in T : \A k \in T : m >= k
  BY <1>2, <1>3
<1> QED BY <1>3, <1>4 DEF Max

LEMMA FoldsOneMore ==
  ASSUME NEW file, NEW n \in Nat, NEW f, Folds(f, file, 1 .. n)
  PROVE  \E g : Folds(g, file, 1 .. n + 1)
<1> DEFINE new == n + 1
           g == [T \in SUBSET (1 .. new) |->
                   IF new \in T THEN ReadLine(f[T \ {new}], file[new]) ELSE f[T]]
<1>1. ASSUME NEW T \in SUBSET (1 .. new)
      PROVE  g[T] = IF T = {} THEN Nothing ELSE ReadLine(g[T \ {Max(T)}], file[Max(T)])
  <2>1. CASE new \in T
    <3>1. Max(T) = new
      <4>1. new \in Nat /\ T # {}
        BY <2>1
      <4>2. Max(T) \in T /\ \A m \in T : m <= Max(T)
        BY <4>1, MaxIs
      <4>3. new <= Max(T) /\ Max(T) \in 1 .. new
        BY <2>1, <4>2
      <4> QED BY <4>3
    <3>2. T \ {new} \in SUBSET (1 .. new) /\ new \notin T \ {new}
      OBVIOUS
    <3>3. g[T \ {new}] = f[T \ {new}]
      BY <3>2
    <3>4. g[T] = ReadLine(f[T \ {new}], file[new])
      BY <2>1
    <3> QED BY <2>1, <3>1, <3>3, <3>4
  <2>2. CASE new \notin T
    <3>1. T \in SUBSET (1 .. n)
      BY <2>2
    <3>2. g[T] = f[T]
      BY <2>2
    <3>3. f[T] = IF T = {} THEN Nothing ELSE ReadLine(f[T \ {Max(T)}], file[Max(T)])
      BY <3>1 DEF Folds
    <3>4. g[T \ {Max(T)}] = f[T \ {Max(T)}]
      BY <2>2
    <3> QED BY <3>2, <3>3, <3>4
  <2> QED BY <2>1, <2>2
<1> HIDE DEF g
<1>2. \E h : h = g /\ DOMAIN h = SUBSET (1 .. new) /\ h = [T \in SUBSET (1 .. new) |-> h[T]]
  BY DEF g
<1>3. g = [T \in SUBSET (1 .. new) |-> IF T = {} THEN Nothing ELSE ReadLine(g[T \ {Max(T)}], file[Max(T)])]
  BY <1>1, <1>2
<1> QED BY <1>3 DEF Folds

LEMMA FoldsExist == ASSUME NEW file, NEW n \in Nat PROVE \E f : Folds(f, file, 1 .. n)
<1> DEFINE S == {m \in Nat : \E f : Folds(f, file, 1 .. m)}
<1>1. 0 \in S
  <2>1. 1 .. 0 = {} /\ SUBSET {} = {{}}
    OBVIOUS
  <2>2. Folds([T \in {{}} |-> Nothing], file, 1 .. 0)
    BY <2>1 DEF Folds
  <2> QED BY <2>2
<1>2. ASSUME NEW m \in Nat, m \in S PROVE m + 1 \in S
  BY <1>2, FoldsOneMore
<1> HIDE DEF S
<1>3. n \in S
  BY <1>1, <1>2, AllNaturals
<1> QED BY <1>3 DEF S

\* After n lines of the file.
Read(file, n) == (CHOOSE f : Folds(f, file, DOMAIN file))[1 .. n]

LEMMA ReadSteps ==
  ASSUME NEW file \in Seq(Line)
  PROVE  /\ Read(file, 0) = Nothing
         /\ \A n \in 0 .. Len(file) - 1 : Read(file, n + 1) = ReadLine(Read(file, n), file[n + 1])
         /\ ReadINI(file) = Read(file, Len(file)).values
<1> DEFINE fold == CHOOSE f : Folds(f, file, DOMAIN file)
<1>1. DOMAIN file = 1 .. Len(file) /\ Len(file) \in Nat
  OBVIOUS
<1>2. Folds(fold, file, 1 .. Len(file))
  BY <1>1, FoldsExist
<1>3. \A n \in 0 .. Len(file) : Read(file, n) = fold[1 .. n]
  BY DEF Read
<1>4. ReadINI(file) = fold[1 .. Len(file)].values
  BY <1>1 DEF ReadINI, FoldLeft, MapThenFoldSet, Folds, Nothing
<1> HIDE DEF fold
<1>5. fold[{}] = Nothing
  BY <1>2 DEF Folds
<1>6. ASSUME NEW n \in 0 .. Len(file) - 1
      PROVE  fold[1 .. n + 1] = ReadLine(fold[1 .. n], file[n + 1])
  <2>0. n + 1 \in 1 .. n + 1 /\ \A m \in 1 .. n + 1 : m \in 1 .. Len(file)
    BY <1>1
  <2>1. 1 .. n + 1 \in SUBSET (1 .. Len(file)) /\ n + 1 \in 1 .. n + 1 /\ 1 .. n + 1 # {}
    BY <2>0
  <2>2. Max(1 .. n + 1) = n + 1
    <3>1. Max(1 .. n + 1) \in 1 .. n + 1 /\ n + 1 <= Max(1 .. n + 1)
      BY <1>1, <2>1, MaxIs
    <3> QED BY <3>1
  <2>3. (1 .. n + 1) \ {n + 1} = 1 .. n
    OBVIOUS
  <2> QED BY <1>2, <2>1, <2>2, <2>3 DEF Folds
<1>7. 1 .. 0 = {}
  OBVIOUS
<1> QED BY <1>1, <1>3, <1>4, <1>5, <1>6, <1>7

\* Line i sets this key.
Sets(file, i, section, key) ==
  file[i].kind = "setting" /\ file[i].key = key /\ SectionAt(file, i) = section

\* What is known after n lines: the section, and of every key its last value.
ReadSoFar(file, n) ==
  LET read == Read(file, n)
  IN  /\ read = [section |-> SectionAt(file, n), values |-> read.values]
      /\ \A section, key :
           /\ (\A i \in 1 .. n : ~Sets(file, i, section, key)) => <<section, key>> \notin DOMAIN read.values
           /\ \A i \in 1 .. n :
                Sets(file, i, section, key) /\ (\A j \in i + 1 .. n : ~Sets(file, j, section, key)) =>
                  <<section, key>> \in DOMAIN read.values /\ read.values[<<section, key>>] = file[i].value

LEMMA SectionSteps ==
  ASSUME NEW file \in Seq(Line), NEW n \in 0 .. Len(file) - 1
  PROVE  SectionAt(file, n + 1) = IF file[n + 1].kind = "section" THEN file[n + 1].name ELSE SectionAt(file, n)
<1> DEFINE above(i) == {j \in 1 .. i : file[j].kind = "section"}
           new == n + 1
<1>1. \A j \in 1 .. new : j \in 1 .. n \/ j = new
  OBVIOUS
<1>2. new \in 1 .. new /\ \A j \in 1 .. n : j \in 1 .. new /\ j # new /\ j <= new
  OBVIOUS
<1>3. CASE file[new].kind = "section"
  <2>1. new \in above(new) /\ \A j \in above(new) : j <= new /\ j \in Nat /\ new \in Nat
    BY <1>3
  <2>2. \A j \in above(new) : (\A k \in above(new) : k <= j) => j = new
    <3>1. \A j \in Nat : j <= new /\ new <= j => j = new
      OBVIOUS
    <3> QED BY <2>1, <3>1
  <2> HIDE DEF above
  <2>3. (CHOOSE j \in above(new) : \A k \in above(new) : k <= j) = new
    BY <2>1, <2>2
  <2>4. SectionAt(file, new) = file[new].name
    BY <2>1, <2>3 DEF SectionAt, above
  <2> QED BY <1>3, <2>4
<1>4. CASE file[new].kind # "section"
  <2>1. above(new) = above(n)
    BY <1>1, <1>2, <1>4
  <2>2. \A i \in {n, new} : SectionAt(file, i) =
          IF above(i) = {} THEN "" ELSE file[CHOOSE j \in above(i) : \A k \in above(i) : k <= j].name
    BY Zenon DEF SectionAt
  <2> HIDE DEF above
  <2> QED BY <1>4, <2>1, <2>2
<1> QED BY <1>3, <1>4

LEMMA ReadOneMore ==
  ASSUME NEW file \in Seq(Line), NEW n \in 0 .. Len(file) - 1, ReadSoFar(file, n)
  PROVE  ReadSoFar(file, n + 1)
<1> DEFINE new == n + 1
           line == file[new]
           old == Read(file, n)
           read == Read(file, new)
<1>1. read = ReadLine(old, line) /\ line \in Line /\ line.kind \in {"section", "setting"}
  BY ReadSteps DEF Line
<1>2. SectionAt(file, new) = IF line.kind = "section" THEN line.name ELSE SectionAt(file, n)
  BY SectionSteps
<1>3. old = [section |-> SectionAt(file, n), values |-> old.values]
  BY DEF ReadSoFar
<1>4. \A i \in 1 .. new : i \in 1 .. n \/ i = new
  OBVIOUS
<1>5. new \in 1 .. new /\ new + 1 .. new = {} /\ \A i \in 1 .. n : i \in 1 .. new /\ new \in i + 1 .. new
                                                /\ i + 1 .. n \subseteq i + 1 .. new
  OBVIOUS
<1> HIDE DEF read, old, line, new
<1>6. CASE line.kind = "section"
  <2>1. read = [old EXCEPT !.section = line.name]
    BY <1>1, <1>6 DEF ReadLine
  <2>2. read = [section |-> line.name, values |-> old.values]
    BY <1>3, <2>1
  <2>3. \A section, key : ~Sets(file, new, section, key)
    BY <1>6 DEF Sets, line
  <2>4. read.values = old.values /\ read = [section |-> SectionAt(file, new), values |-> read.values]
    BY <1>2, <1>6, <2>2
  <2> QED BY <1>4, <1>5, <2>3, <2>4 DEF ReadSoFar, old, read, new
<1>7. CASE line.kind = "setting"
  <2> DEFINE here == SectionAt(file, n)
             cell == <<here, line.key>>
  <2>1. read = [old EXCEPT !.values = Put(@, <<old.section, line.key>>, line.value)]
    BY <1>1, <1>7 DEF ReadLine
  <2>2. old.section = here
    BY <1>3
  <2>3. read = [section |-> here, values |-> Put(old.values, cell, line.value)]
    BY <1>3, <2>1, <2>2
  <2>4. read = [section |-> SectionAt(file, new), values |-> read.values] /\ SectionAt(file, new) = here
    BY <1>2, <1>7, <2>3
  <2>5. /\ DOMAIN read.values = DOMAIN old.values \cup {cell}
        /\ \A c \in DOMAIN read.values : read.values[c] = IF c = cell THEN line.value ELSE old.values[c]
    BY <2>3 DEF Put
  <2>6. \A section, key : Sets(file, new, section, key) <=> section = here /\ key = line.key
    BY <1>7, <2>4 DEF Sets, line
  <2>7. \A section, key : <<section, key>> = cell <=> section = here /\ key = line.key
    OBVIOUS
  <2> HIDE DEF here, cell
  <2>8. ASSUME NEW section, NEW key, \A i \in 1 .. new : ~Sets(file, i, section, key)
        PROVE  <<section, key>> \notin DOMAIN read.values
    BY <1>5, <2>5, <2>6, <2>7, <2>8 DEF ReadSoFar, old
  <2>9. ASSUME NEW section, NEW key, NEW i \in 1 .. new, Sets(file, i, section, key),
               \A j \in i + 1 .. new : ~Sets(file, j, section, key)
        PROVE  <<section, key>> \in DOMAIN read.values /\ read.values[<<section, key>>] = file[i].value
    <3>1. CASE i = new
      BY <2>5, <2>6, <2>7, <2>9, <3>1 DEF line
    <3>2. CASE i # new
      <4>1. i \in 1 .. n /\ new \in i + 1 .. new
        BY <1>4, <1>5, <3>2
      <4>2. <<section, key>> # cell
        <5>1. ~Sets(file, new, section, key)
          BY <2>9, <4>1
        <5> QED BY <2>6, <2>7, <5>1
      <4>3. <<section, key>> \in DOMAIN old.values /\ old.values[<<section, key>>] = file[i].value
        BY <1>5, <2>9, <4>1 DEF ReadSoFar, old
      <4> QED BY <2>5, <4>2, <4>3
    <3> QED BY <3>1, <3>2
  <2> QED BY <2>4, <2>8, <2>9 DEF ReadSoFar, read, new
<1> QED BY <1>1, <1>6, <1>7

\* When all lines have been read, a key has the value of its last line.
LEMMA LastLineWins == ASSUME NEW file \in Seq(Line) PROVE ReadSoFar(file, Len(file))
<1> DEFINE S == {n \in Nat : n <= Len(file) => ReadSoFar(file, n)}
<1>1. 0 \in S
  <2>1. Read(file, 0) = Nothing /\ 1 .. 0 = {}
    BY ReadSteps
  <2>2. SectionAt(file, 0) = ""
    BY <2>1 DEF SectionAt
  <2>3. DOMAIN Nothing.values = {}
    BY DEF Nothing
  <2>4. Nothing = [section |-> "", values |-> Nothing.values]
    BY DEF Nothing
  <2> QED BY <2>1, <2>2, <2>3, <2>4 DEF ReadSoFar
<1>2. ASSUME NEW n \in Nat, n \in S PROVE n + 1 \in S
  <2>1. n + 1 <= Len(file) => n \in 0 .. Len(file) - 1 /\ n <= Len(file)
    OBVIOUS
  <2>2. n + 1 <= Len(file) => ReadSoFar(file, n + 1)
    BY <1>2, <2>1, ReadOneMore
  <2> QED BY <2>2
<1>3. Len(file) \in Nat /\ Len(file) <= Len(file)
  OBVIOUS
<1> HIDE DEF S
<1>4. Len(file) \in S
  BY <1>1, <1>2, <1>3, AllNaturals
<1> QED BY <1>3, <1>4 DEF S

-----------------------------------------------------------------------------
(* The settings *)

\* The last value of a key, as the finished table of values has it.
LEMMA LastValueIs ==
  ASSUME NEW file \in Seq(Line), NEW section, NEW key
  PROVE  LastValue(file, section, key) =
           IF <<section, key>> \in DOMAIN ReadINI(file) THEN {ReadINI(file)[<<section, key>>]} ELSE {}
<1> DEFINE lines == {i \in DOMAIN file : Sets(file, i, section, key)}
<1>1. LastValue(file, section, key) = {file[i].value : i \in {j \in lines : \A k \in lines : k <= j}}
  BY DEF LastValue, Sets
<1>2. ReadINI(file) = Read(file, Len(file)).values /\ DOMAIN file = 1 .. Len(file)
  BY ReadSteps
<1>3. /\ (\A i \in DOMAIN file : ~Sets(file, i, section, key)) => <<section, key>> \notin DOMAIN ReadINI(file)
      /\ \A i \in DOMAIN file :
           Sets(file, i, section, key) /\ (\A j \in i + 1 .. Len(file) : ~Sets(file, j, section, key)) =>
             <<section, key>> \in DOMAIN ReadINI(file) /\ ReadINI(file)[<<section, key>>] = file[i].value
  BY <1>2, LastLineWins DEF ReadSoFar
<1>4. lines \subseteq Nat /\ IsFiniteSet(lines) /\ lines \subseteq 1 .. Len(file)
  <2>1. lines \subseteq 1 .. Len(file) /\ Len(file) \in Nat
    BY <1>2
  <2>2. IsFiniteSet(1 .. Len(file)) /\ 1 .. Len(file) \subseteq Nat
    BY <2>1, FS_Interval
  <2> QED BY <2>1, <2>2, FS_Subset
<1>5. CASE lines = {}
  BY <1>1, <1>3, <1>5
<1>6. CASE lines # {}
  <2> HIDE DEF lines
  <2>1. PICK m \in lines : \A k \in lines : k <= m
    BY <1>4, <1>6, Greatest
  <2>2. \A j \in lines : (\A k \in lines : k <= j) => j = m
    <3>1. \A j \in lines : j \in Nat
      BY <1>4
    <3>2. \A i, j \in Nat : i <= j /\ j <= i => i = j
      OBVIOUS
    <3> QED BY <2>1, <3>1, <3>2
  <2>3. LastValue(file, section, key) = {file[m].value}
    BY <1>1, <2>1, <2>2
  <2>4. ASSUME NEW j \in m + 1 .. Len(file) PROVE j \notin lines
    <3>1. m \in Nat /\ ~(j <= m)
      BY <1>4
    <3> QED BY <2>1, <3>1
  <2>5. Sets(file, m, section, key) /\ m \in DOMAIN file
    BY DEF lines
  <2>6. \A j \in m + 1 .. Len(file) : ~Sets(file, j, section, key)
    <3> SUFFICES ASSUME NEW j \in m + 1 .. Len(file) PROVE ~Sets(file, j, section, key)
      OBVIOUS
    <3>1. j \in DOMAIN file
      BY <1>2, <2>5
    <3> QED BY <2>4, <3>1 DEF lines
  <2> QED BY <1>3, <2>3, <2>5, <2>6
<1> QED BY <1>5, <1>6

\* The first of three sources that has a usable value.
LEMMA FirstOfThree ==
  ASSUME NEW A, NEW B, NEW C, NEW usable, C \cap usable # {}
  PROVE  FirstUsable(<<A, B, C>>, usable) =
           IF A \cap usable # {} THEN A ELSE IF B \cap usable # {} THEN B ELSE C
<1> DEFINE sources == <<A, B, C>>
           First(i) == sources[i] \cap usable # {} /\ \A j \in 1 .. i - 1 : sources[j] \cap usable = {}
<1>1. DOMAIN sources = 1 .. 3 /\ sources[1] = A /\ sources[2] = B /\ sources[3] = C
  OBVIOUS
<1>2. 1 .. 1 - 1 = {} /\ 1 .. 2 - 1 = {1} /\ 1 .. 3 - 1 = {1, 2} /\ 1 .. 3 = {1, 2, 3}
  OBVIOUS
<1>3. FirstUsable(sources, usable) = sources[CHOOSE i \in 1 .. 3 : First(i)]
  BY <1>1 DEF FirstUsable
<1>4. /\ First(1) <=> A \cap usable # {}
      /\ First(2) <=> B \cap usable # {} /\ A \cap usable = {}
      /\ First(3) <=> A \cap usable = {} /\ B \cap usable = {}
  BY <1>1, <1>2
<1> HIDE DEF First, sources
<1>5. CASE A \cap usable # {}
  <2>1. \A i \in 1 .. 3 : First(i) <=> i = 1
    BY <1>2, <1>4, <1>5
  <2>2. (CHOOSE i \in 1 .. 3 : First(i)) = 1
    BY <1>2, <2>1
  <2> QED BY <1>1, <1>3, <1>5, <2>2 DEF sources
<1>6. CASE A \cap usable = {} /\ B \cap usable # {}
  <2>1. \A i \in 1 .. 3 : First(i) <=> i = 2
    BY <1>2, <1>4, <1>6
  <2>2. (CHOOSE i \in 1 .. 3 : First(i)) = 2
    BY <1>2, <2>1
  <2> QED BY <1>1, <1>3, <1>6, <2>2 DEF sources
<1>7. CASE A \cap usable = {} /\ B \cap usable = {}
  <2>1. \A i \in 1 .. 3 : First(i) <=> i = 3
    BY <1>2, <1>4, <1>7
  <2>2. (CHOOSE i \in 1 .. 3 : First(i)) = 3
    BY <1>2, <2>1
  <2> QED BY <1>1, <1>3, <1>7, <2>2 DEF sources
<1> QED BY <1>5, <1>6, <1>7

\* Where the environment, the file and the default are laid over one another.
LEMMA BySources ==
  ASSUME NEW env, NEW values, NEW section, NEW key, NEW default, NEW usable, NEW file, default \in usable,
         LastValue(file, section, key) =
           IF <<section, key>> \in DOMAIN values THEN {values[<<section, key>>]} ELSE {}
  PROVE  Expected(IF env \in usable THEN env
                    ELSE IF <<section, key>> \in DOMAIN values /\ values[<<section, key>>] \in usable
                           THEN values[<<section, key>>] ELSE default,
                  env, file, section, key, default, usable)
<1>1. /\ {env} \cap usable # {} <=> env \in usable
      /\ LastValue(file, section, key) \cap usable # {} <=>
           <<section, key>> \in DOMAIN values /\ values[<<section, key>>] \in usable
      /\ {default} \cap usable # {}
  OBVIOUS
<1>2. FirstUsable(<<{env}, LastValue(file, section, key), {default}>>, usable) =
        IF env \in usable THEN {env}
          ELSE IF <<section, key>> \in DOMAIN values /\ values[<<section, key>>] \in usable
                 THEN LastValue(file, section, key) ELSE {default}
  BY <1>1, FirstOfThree
<1> QED BY <1>1, <1>2 DEF Expected

\* Load on any file and environment.
LEMMA LoadIsRight ==
  ASSUME NEW file, file = Unreadable \/ file \in Seq(Line), NEW env
  PROVE  LET read == IF file = Unreadable THEN <<>> ELSE file
             text == {env.dbPath, Default.dbPath}
                       \cup {read[i].value : i \in {j \in DOMAIN read : read[j].kind = "setting"}}
         IN  /\ Expected(Load(file, env).dbPath, env.dbPath, read, "paths", "db_path",
                         Default.dbPath, text \ {""})
             /\ Expected(Load(file, env).feslPort, env.feslPort, read, "network", "fesl_port",
                         Default.feslPort, Numbers)
<1> DEFINE read == IF file = Unreadable THEN <<>> ELSE file
           values == IF file = Unreadable THEN <<>> ELSE ReadINI(file)
           given == {read[i].value : i \in {j \in DOMAIN read : read[j].kind = "setting"}}
           text == {env.dbPath, Default.dbPath} \cup given
           path == <<"paths", "db_path">>
           port == <<"network", "fesl_port">>
<1>1. ASSUME NEW section, NEW key
      PROVE  LastValue(read, section, key) =
               IF <<section, key>> \in DOMAIN values THEN {values[<<section, key>>]} ELSE {}
  <2>1. CASE file = Unreadable
    BY <2>1 DEF LastValue
  <2>2. CASE file # Unreadable
    BY <2>2, LastValueIs
  <2> QED BY <2>1, <2>2
<1>2. ASSUME NEW section, NEW key PROVE LastValue(read, section, key) \subseteq given
  BY DEF LastValue
<1>3. /\ Load(file, env).dbPath = Getenv(env.dbPath, Lookup(values, path, Default.dbPath))
      /\ Load(file, env).feslPort = GetenvInt(env.feslPort, LookupInt(values, port, Default.feslPort))
  BY DEF Load
<1>4. Default.dbPath \in text \ {""} /\ Default.feslPort \in Numbers
  BY DEF Default, Numbers
<1> HIDE DEF read, values, given
<1>5. /\ env.dbPath \in text \ {""} <=> env.dbPath # ""
      /\ path \in DOMAIN values => (values[path] \in text \ {""} <=> values[path] # "")
  BY <1>1, <1>2
<1> HIDE DEF text
<1>6. /\ Load(file, env).dbPath =
           IF env.dbPath \in text \ {""} THEN env.dbPath
             ELSE IF path \in DOMAIN values /\ values[path] \in text \ {""} THEN values[path]
                    ELSE Default.dbPath
      /\ Load(file, env).feslPort =
           IF env.feslPort \in Numbers THEN env.feslPort
             ELSE IF port \in DOMAIN values /\ values[port] \in Numbers THEN values[port]
                    ELSE Default.feslPort
  BY <1>3, <1>5 DEF Getenv, GetenvInt, Lookup, LookupInt
<1>7. Expected(Load(file, env).dbPath, env.dbPath, read, "paths", "db_path", Default.dbPath, text \ {""})
  BY <1>1, <1>4, <1>6, BySources
<1>8. Expected(Load(file, env).feslPort, env.feslPort, read, "network", "fesl_port", Default.feslPort, Numbers)
  BY <1>1, <1>4, <1>6, BySources
<1> QED BY <1>7, <1>8 DEF read, text, given

SettingsInv == pc = "openLog" => input.file \in Files /\ settings = Load(input.file, input.env)

LEMMA SettingsNext == ASSUME SettingsInv, [Next]_vars PROVE SettingsInv'
<1>1. CASE Start
  BY <1>1 DEF Start, Goto, SettingsInv
<1>2. CASE pc' = "openLog" /\ ~Start
  <2>1. Transaction[1] # "openLog" /\ \A i \in DOMAIN Transaction : Following(Transaction[i]) # "openLog"
    <3>1. DOMAIN Transaction = {1, 2, 3, 4} /\ Transaction[1] = "createNew" /\ Transaction[2] = "copyRows"
          /\ Transaction[3] = "dropOld" /\ Transaction[4] = "renameNew"
      BY DEF Transaction
    <3> QED BY <3>1, Order
  <2>2. UNCHANGED <<pc, input, settings>>
    BY <1>2, <2>1 DEF Next, Main, OpenLog, RemoveOld, LogReady, CreateTables, CheckColumns, Migrate, Commit,
         Listen, StartFails, Wait, Close, Crash, End, Signal, Goto, Bind, BindFails, Accept, SessionEnds,
         CloseListener, AcceptFails, vars
  <2> QED BY <2>2 DEF SettingsInv
<1> QED BY <1>1, <1>2 DEF SettingsInv

\* Each setting has the value of the first source that has a usable one, for
\* any file of any length and any environment: reading line by line with one
\* section in mind finds the last line of a key in its section.
THEOREM SettingsAreByPrecedence == Spec => []SettingsByPrecedence
<1>1. Init => SettingsInv
  BY DEF Init, SettingsInv
<1>2. SettingsInv => SettingsByPrecedence
  <2> SUFFICES ASSUME SettingsInv, pc = "openLog" PROVE SettingsByPrecedence
    BY DEF SettingsByPrecedence
  <2>1. (input.file = Unreadable \/ input.file \in Seq(Line)) /\ settings = Load(input.file, input.env)
    BY ServerAssumption DEF SettingsInv
  <2> QED BY <2>1, LoadIsRight DEF SettingsByPrecedence
<1> QED BY <1>1, <1>2, SettingsNext, PTL DEF Spec
=============================================================================
