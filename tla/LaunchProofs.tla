---------------------------- MODULE LaunchProofs ----------------------------
(***************************************************************************)
(* Theorems about ClientStart, for any sequence of patches, any number of  *)
(* threads of the game and whatever interleaves at the log, and about      *)
(* Launcher, for any process ids and any length of the window's queue.     *)
(*                                                                         *)
(* ClientStart: what makes the first inductive: a place that is half       *)
(* patched, or the hook on ProcessEvent before its trampoline, is the one  *)
(* DllMain is at; and the places whose turn has not come, or that were     *)
(* reported missing, have their old code and nobody is stopped in them.    *)
(* The second rests on what the writer that has the log knows of the       *)
(* handle, and on what the lines before the summary say of the patches.    *)
(*                                                                         *)
(* Launcher: the text the window will end up with, which is the last one   *)
(* on its way, tells whether the worker holds a game; and an open handle   *)
(* whose game lives is a handle of the game that runs now.                 *)
(***************************************************************************)
EXTENDS ClientStart, Launcher, SequenceTheorems, TLAPS

-----------------------------------------------------------------------------
(* ClientStart *)

Places == ToSet(Patches)

Shape ==
  /\ DOMAIN at = Writers /\ DOMAIN place = Places
  /\ done \in 0 .. Len(Patches)
  /\ at["dll"] \in {"torn", "store"} => done < Len(Patches)

\* Outside the patch that DllMain is at, calls reach the old code or a hook.
Sound ==
  /\ \A p \in Places : place[p] = "torn" => at["dll"] = "torn" /\ p = Current
  /\ place["ProcessEvent"] = "new" /\ ~stored =>
       at["dll"] = "store" /\ Current = "ProcessEvent"

\* The places whose turn has not come have their old code.
Pending ==
  \A i \in done + 1 .. Len(Patches) :
    place[Patches[i]] = "old" \/ (i = done + 1 /\ at["dll"] \in {"torn", "store"})

PatchInv == crash = Running => Shape /\ Sound /\ Pending

LEMMA WritersDiffer ==
  /\ "dll" \in Writers /\ "heap" \in Writers
  /\ \A t \in Threads : t \in Writers /\ t # "dll" /\ t # "heap"
BY ClientStartAssumption DEF Writers

LEMMA CurrentIsPlace == ASSUME Shape, done < Len(Patches) PROVE Current \in Places
BY ClientStartAssumption DEF Shape, Current, Places, ToSet

LEMMA PatchInit == Init => PatchInv
<1> SUFFICES ASSUME Init PROVE Shape /\ Sound /\ Pending
  BY DEF PatchInv
<1>1. "ProcessEvent" \in Places
  BY ClientStartAssumption DEF Places
<1>2. at["dll"] = "create" /\ DOMAIN at = Writers
  BY WritersDiffer DEF Init
<1>3. Len(Patches) \in Nat /\ \A i \in 1 .. Len(Patches) : Patches[i] \in Places
  BY ClientStartAssumption DEF Places, ToSet
<1>4. QED
  BY <1>1, <1>2, <1>3 DEF Init, Shape, Sound, Pending, Places

\* The place whose turn it is differs from those whose turn comes.
LEMMA TurnsDiffer ==
  ASSUME Shape, done < Len(Patches), NEW i \in done + 2 .. Len(Patches)
  PROVE  Patches[i] # Current /\ Patches[i] \in Places
BY ClientStartAssumption DEF Shape, Current, IsInjective, Places, ToSet

\* A step that patches nothing and leaves DllMain where it is, or outside apply_patches.
LEMMA ElsewhereKeeps ==
  ASSUME PatchInv, UNCHANGED <<place, stored, done, crash>>, DOMAIN at' = DOMAIN at,
         \/ at'["dll"] = at["dll"]
         \/ at["dll"] \notin {"torn", "store"} /\ at'["dll"] \notin {"torn", "store"}
  PROVE  PatchInv'
BY DEF PatchInv, Shape, Sound, Pending, Current

LEMMA LogKeeps ==
  ASSUME PatchInv, NEW w \in Writers, UseLog(w)
  PROVE  PatchInv'
<1> USE WritersDiffer DEF Goto, Log
<1>0. UNCHANGED <<place, stored, done, crash>>
  BY DEF UseLog, Create, Assign, WriteLine, CloseHandle, Invalidate, patching
<1>1. CASE crash # Running
  BY <1>0, <1>1 DEF PatchInv
<1>2. CASE crash = Running
  <2>1. DOMAIN at = Writers
    BY <1>2 DEF PatchInv, Shape
  <2>2. CASE Create(w) \/ Assign(w) \/ WriteLine(w) \/ CloseHandle(w)
    BY <1>0, <2>1, <2>2, ElsewhereKeeps DEF Create, Assign, WriteLine, CloseHandle
  <2>3. CASE Invalidate(w)
    BY <1>0, <2>1, <2>3, ElsewhereKeeps DEF Invalidate
  <2>4. QED
    BY <2>2, <2>3 DEF UseLog
<1>3. QED
  BY <1>1, <1>2

LEMMA PatchingKeeps ==
  ASSUME PatchInv, Dll
  PROVE  PatchInv'
<1> USE WritersDiffer DEF Goto
<1>0. SUFFICES ASSUME crash = Running PROVE PatchInv'
  <2>1. crash' = crash
    BY DEF Dll, Supported, Unsupported, SkipPatch, BeginPatch, EndPatch, StoreTrampoline, Summary
  <2>2. QED
    BY <1>0, <2>1 DEF PatchInv
<1>1. Shape /\ Sound /\ Pending /\ DOMAIN at = Writers /\ Len(Patches) \in Nat
  BY <1>0, ClientStartAssumption DEF PatchInv, Shape
<1>2. "ProcessEvent" \in Places
  BY ClientStartAssumption DEF Places
<1>3. CASE Supported \/ Unsupported \/ Summary
  BY <1>1, <1>3, ElsewhereKeeps DEF Supported, Unsupported, Summary, patching
<1>4. CASE SkipPatch
  <2>1. \A p \in Places : place[p] # "torn"
    BY <1>1, <1>4 DEF SkipPatch, Sound
  <2>2. Shape' /\ Sound'
    BY <1>1, <1>2, <1>4, <2>1 DEF SkipPatch, Shape, Sound
  <2>3. Pending'
    BY <1>1, <1>4 DEF SkipPatch, Shape, Pending
  <2>4. QED
    BY <2>2, <2>3 DEF PatchInv
<1>5. CASE BeginPatch
  <2>1. at'["dll"] = "torn" /\ Current' = Current /\ Current \in Places
    BY <1>1, <1>5, CurrentIsPlace DEF BeginPatch, Current
  <2>2. \A p \in Places : place[p] # "torn"
    BY <1>1, <1>5 DEF BeginPatch, Sound
  <2>3. \A p \in Places : place'[p] = IF p = Current THEN "torn" ELSE place[p]
    BY <1>1, <1>5 DEF BeginPatch, Shape
  <2>4. Shape'
    BY <1>1, <1>5, <2>1 DEF BeginPatch, Shape
  <2>5. Sound'
    BY <1>1, <1>2, <1>5, <2>1, <2>2, <2>3 DEF BeginPatch, Sound
  <2>6. Pending'
    <3>1. done' = done /\ done \in Nat /\ done < Len(Patches)
      BY <1>1, <1>5 DEF BeginPatch, Shape
    <3>2. ASSUME NEW i \in done + 2 .. Len(Patches) PROVE place'[Patches[i]] = "old"
      BY <1>1, <2>3, <3>1, <1>5, TurnsDiffer DEF Pending, BeginPatch
    <3>3. QED
      BY <2>1, <3>1, <3>2 DEF Pending
  <2>7. QED
    BY <2>4, <2>5, <2>6 DEF PatchInv
<1>6. CASE EndPatch
  <2>1. Current \in Places /\ done < Len(Patches)
    BY <1>1, <1>6, CurrentIsPlace DEF EndPatch, Shape
  <2>2. \A p \in Places : place'[p] = IF p = Current THEN "new" ELSE place[p]
    BY <1>1, <1>6 DEF EndPatch, Shape
  <2>3. \A p \in Places : place'[p] # "torn"
    BY <1>1, <1>6, <2>2 DEF EndPatch, Sound
  <2>0. ASSUME NEW i \in done + 2 .. Len(Patches) PROVE place'[Patches[i]] = "old"
    <3>1. i \in done + 1 .. Len(Patches) /\ i # done + 1
      BY <1>1, <2>1 DEF Shape
    <3>2. QED
      BY <1>1, <2>1, <2>2, <3>1, TurnsDiffer DEF Pending
  <2>4. CASE Current = "ProcessEvent"
    <3>0. Pending'
      BY <1>1, <2>0, <2>1, <1>6, <2>4 DEF EndPatch, Pending, Shape
    <3>1. at'["dll"] = "store" /\ Current' = Current /\ done' = done
      BY <1>1, <1>6, <2>4 DEF EndPatch, Current
    <3>2. Shape' /\ Sound'
      BY <1>1, <1>6, <2>1, <2>3, <2>4, <3>1 DEF EndPatch, Shape, Sound
    <3>3. QED
      BY <3>0, <3>2 DEF PatchInv
  <2>5. CASE Current # "ProcessEvent"
    <3>1. at'["dll"] = "patch" /\ done' = done + 1 /\ stored' = stored
      BY <1>1, <1>6, <2>5 DEF EndPatch
    <3>2. place'["ProcessEvent"] = place["ProcessEvent"]
      BY <1>2, <2>2, <2>5
    <3>3. place["ProcessEvent"] = "new" => stored
      BY <1>1, <1>6 DEF EndPatch, Sound
    <3>4. Shape' /\ Sound'
      BY <1>1, <1>6, <2>1, <2>3, <3>1, <3>2, <3>3 DEF EndPatch, Shape, Sound
    <3>5. Pending'
      BY <1>1, <2>0, <2>1, <3>1 DEF Pending, Shape
    <3>6. QED
      BY <3>4, <3>5 DEF PatchInv
  <2>6. QED
    BY <2>4, <2>5
<1>7. CASE StoreTrampoline
  <2>1. \A p \in Places : place[p] # "torn"
    BY <1>1, <1>7 DEF StoreTrampoline, Sound
  <2>2. Shape' /\ Sound'
    BY <1>1, <1>7, <2>1 DEF StoreTrampoline, Shape, Sound
  <2>3. Pending'
    <3>1. done' = done + 1 /\ place' = place /\ done \in Nat
      BY <1>1, <1>7 DEF StoreTrampoline, Shape
    <3>2. \A i \in done + 2 .. Len(Patches) : i \in done + 1 .. Len(Patches) /\ i # done + 1
      BY <3>1
    <3>3. QED
      BY <1>1, <3>1, <3>2 DEF Pending
  <2>4. QED
    BY <2>2, <2>3 DEF PatchInv
<1>8. QED
  BY <1>3, <1>4, <1>5, <1>6, <1>7 DEF Dll

\* The ways the start can crash the game.
Crashing ==
  \/ \E p \in Places : CallCrashes(p) \/ StrandedCrashes(p)
  \/ JumpCrashes \/ SpoiledCrashes

LEMMA CrashIsSeen ==
  ASSUME Crashing
  PROVE  \E how \in {"call", "stranded", "jump", "memory"}, p \in Places \cup {"none"} :
           Crash(how, p) /\ crash' # Running
<1>1. \A how \in {"call", "stranded", "jump", "memory"} : \A p : Crash(how, p) => crash' # Running
  BY DEF Crash, Running
<1>2. "ProcessEvent" \in Places
  BY ClientStartAssumption DEF Places
<1>3. QED
  BY <1>1, <1>2 DEF Crashing, CallCrashes, StrandedCrashes, JumpCrashes, SpoiledCrashes

LEMMA PatchNext == ASSUME PatchInv, [Next]_vars PROVE PatchInv'
<1>1. CASE Dll
  BY <1>1, PatchingKeeps
<1>2. CASE \E w \in Writers : UseLog(w)
  BY <1>2, LogKeeps
<1>3. CASE Heap \/ SessionStarts \/ SessionReady \/ SessionEnds \/ \E t \in Threads : Redirect(t) \/ Warn(t)
  <2>1. UNCHANGED <<place, stored, done, crash>>
    BY <1>3 DEF patching, Heap, HeapLook, HeapCopy, HeapGivesUp, SessionStarts, SessionReady, SessionEnds, Redirect, Warn
  <2>2. CASE crash # Running
    BY <2>1, <2>2 DEF PatchInv
  <2>3. CASE crash = Running
    <3>1. DOMAIN at = Writers
      BY <2>3 DEF PatchInv, Shape
    <3>2. CASE SessionStarts \/ SessionReady \/ SessionEnds
      BY <2>1, <3>2, ElsewhereKeeps DEF SessionStarts, SessionReady, SessionEnds
    <3>3. CASE Heap
      <4>1. at' = [at EXCEPT !["heap"] = at'["heap"]]
        BY <3>1, <3>3, WritersDiffer DEF Heap, HeapLook, HeapCopy, HeapGivesUp, Log, Goto
      <4>2. QED
        BY <2>1, <3>1, <4>1, WritersDiffer, ElsewhereKeeps
    <3>4. ASSUME NEW t \in Threads, Redirect(t) \/ Warn(t) PROVE PatchInv'
      <4>1. at' = [at EXCEPT ![t] = "create"]
        BY <3>4 DEF Redirect, Warn, Log, Goto
      <4>2. QED
        BY <2>1, <3>1, <4>1, WritersDiffer, ElsewhereKeeps
    <3>5. QED
      BY <1>3, <3>2, <3>3, <3>4
  <2>4. QED
    BY <2>2, <2>3
<1>4. ASSUME NEW p \in Places, StopsInside(p) PROVE PatchInv'
  BY <1>4, ElsewhereKeeps DEF StopsInside
<1>5. ASSUME crash' # Running PROVE PatchInv'
  BY <1>5 DEF PatchInv
<1>6. CASE UNCHANGED vars
  BY <1>6, ElsewhereKeeps DEF vars, patching
<1>7. QED
  BY <1>1, <1>2, <1>3, <1>4, <1>5, <1>6, CrashIsSeen DEF Next, Game, Crashing, Places

-----------------------------------------------------------------------------
(* The log file *)

Using(w) == at[w] \notin Outside \cup {"create"}

\* What the one writer that has the log knows of the handle.
Holding(w) ==
  /\ at[w] = "assign" => got[w] = open /\ open # 0
  /\ at[w] \in {"write", "verify", "patch", "torn", "store", "close"} => g_log = open /\ open # 0
  /\ at[w] = "clear" => open = 0

\* Until two writers have the log at once: one has it, and the file is open
\* only for him.
Alone ==
  /\ \A v, w \in Writers : Using(v) /\ Using(w) => v = w
  /\ \A w \in Writers : Holding(w)
  /\ crash = Running /\ (\A w \in Writers : ~Using(w)) => open = 0
  /\ log = said

LogInv ==
  /\ DOMAIN at = Writers /\ DOMAIN got = Writers
  /\ crash # Running => open = 0 /\ \A w \in Writers : at[w] = "dead"
  /\ ~shared => Alone

LEMMA LogInit == Init => LogInv
BY ClientStartAssumption DEF Init, LogInv, Alone, Using, Holding, Outside, Writers

\* A step of the writer that has the log.
LEMMA Within ==
  ASSUME LogInv, NEW w \in Writers, Using(w),
         UNCHANGED <<crash, shared>>, DOMAIN at' = Writers, DOMAIN got' = Writers,
         \A v \in Writers \ {w} : ~Using(v) => ~Using(v)',
         ~shared => Holding(w)' /\ log' = said' /\ (Using(w)' \/ open' = 0)
  PROVE  LogInv'
<1>1. crash = Running
  BY DEF LogInv, Using, Outside
<1>2. ASSUME ~shared PROVE Alone'
  <2>1. \A v \in Writers \ {w} : ~Using(v)'
    BY <1>2 DEF LogInv, Alone
  <2>2. \A v \in Writers \ {w} : Holding(v)'
    BY <2>1 DEF Using, Holding, Outside
  <2>3. QED
    BY <1>2, <2>1, <2>2 DEF Alone
<1>3. QED
  BY <1>1, <1>2 DEF LogInv

\* A step of a writer that does not have the log and does not take it.
LEMMA Without ==
  ASSUME LogInv, NEW w \in Writers, ~Using(w), UNCHANGED <<crash, shared, g_log, open, got, log, said>>,
         NEW x \in Outside \cup {"create"}, at' = [at EXCEPT ![w] = x], at[w] # "dead"
  PROVE  LogInv'
<1>1. crash = Running
  BY DEF LogInv
<1>2. \A v \in Writers : at'[v] = IF v = w THEN x ELSE at[v]
  BY DEF LogInv
<1>3. \A v \in Writers : Using(v)' = Using(v)
  BY <1>2 DEF Using
<1>4. \A v \in Writers : Holding(v) => Holding(v)'
  BY <1>2 DEF Holding, Outside
<1>5. QED
  BY <1>1, <1>3, <1>4 DEF LogInv, Alone

LEMMA CreateKeeps ==
  ASSUME LogInv, NEW w \in Writers, Create(w)
  PROVE  LogInv'
<1>1. crash = Running /\ crash' = crash
  BY DEF Create, LogInv
<1>2. DOMAIN at' = Writers /\ DOMAIN got' = Writers
  BY DEF Create, LogInv, Goto
<1>3. ASSUME ~shared' PROVE Alone'
  <2>1. ~shared /\ \A v \in Writers \ {w} : ~Using(v)
    BY <1>3 DEF Create, Using
  <2>2. ~Using(w)
    BY DEF Create, Using
  <2>3. open = 0 /\ log = said
    BY <1>1, <2>1, <2>2 DEF LogInv, Alone
  <2>4. open' = got'[w] /\ open' # 0 /\ log' = said' /\ at'[w] = "assign"
    BY <2>3, ClientStartAssumption DEF Create, LogInv, Goto
  <2>5. \A v \in Writers \ {w} : at'[v] = at[v]
    BY DEF Create, LogInv, Goto
  <2>6. Using(w)' /\ \A v \in Writers \ {w} : ~Using(v)'
    BY <2>1, <2>4, <2>5 DEF Using, Outside
  <2>7. \A v \in Writers : Holding(v)'
    BY <2>4, <2>6 DEF Holding, Using, Outside
  <2>8. QED
    BY <2>4, <2>6, <2>7 DEF Alone
<1>4. QED
  BY <1>1, <1>2, <1>3 DEF LogInv

LEMMA UseKeeps ==
  ASSUME LogInv, NEW w \in Writers, UseLog(w)
  PROVE  LogInv'
<1> USE DEF Goto
<1>0. DOMAIN at = Writers /\ DOMAIN got = Writers
  BY DEF LogInv
<1>1. CASE Create(w)
  BY <1>1, CreateKeeps
<1>2. ASSUME NEW from \in {"assign", "write", "close", "clear"}, at[w] = from,
             NEW x, at' = [at EXCEPT ![w] = x], UNCHANGED <<crash, shared>>, DOMAIN got' = Writers,
             ~shared => Holding(w)' /\ log' = said' /\ (x \notin Outside \cup {"create"} \/ open' = 0)
      PROVE  LogInv'
  <2>1. Using(w) /\ DOMAIN at' = Writers /\ at'[w] = x
    BY <1>0, <1>2 DEF Using, Outside
  <2>2. \A v \in Writers \ {w} : at'[v] = at[v]
    BY <1>0, <1>2
  <2>3. \A v \in Writers \ {w} : ~Using(v) => ~Using(v)'
    BY <2>2 DEF Using
  <2>4. ~shared => Using(w)' \/ open' = 0
    BY <1>2, <2>1 DEF Using
  <2>5. QED
    BY <1>2, <2>1, <2>3, <2>4, Within
<1>3. CASE Assign(w)
  <2>1. ~shared => got[w] = open /\ open # 0 /\ log = said
    BY <1>3 DEF Assign, LogInv, Alone, Holding
  <2>2. at'[w] \in {"verify", "write"} /\ g_log' = got[w] /\ open' = open
    BY <1>0, <1>3 DEF Assign
  <2>3. ~shared => Holding(w)'
    BY <2>1, <2>2 DEF Holding
  <2>4. QED
    BY <1>0, <1>2, <1>3, <2>1, <2>2, <2>3 DEF Assign, Outside
<1>4. CASE WriteLine(w)
  <2>1. ~shared => g_log = open /\ open # 0 /\ log = said
    BY <1>4 DEF WriteLine, LogInv, Alone, Holding
  <2>2. ~shared => log' = said'
    BY <1>4, <2>1 DEF WriteLine, Write
  <2>3. ~shared => Holding(w)'
    BY <1>0, <1>4, <2>1 DEF WriteLine, Holding
  <2>4. QED
    BY <1>0, <1>2, <1>4, <2>2, <2>3 DEF WriteLine, Outside
<1>5. CASE CloseHandle(w)
  <2>1. ~shared => g_log = open /\ open # 0 /\ log = said
    BY <1>5 DEF CloseHandle, LogInv, Alone, Holding
  <2>2. ~shared => open' = 0 /\ Holding(w)'
    BY <1>0, <1>5, <2>1 DEF CloseHandle, Holding
  <2>3. QED
    BY <1>0, <1>2, <1>5, <2>1, <2>2 DEF CloseHandle, Outside
<1>6. CASE Invalidate(w)
  <2>1. Using(w) /\ UNCHANGED <<crash, shared>> /\ DOMAIN got' = Writers /\ DOMAIN at' = Writers
    BY <1>0, <1>6 DEF Invalidate, Using, Outside
  <2>2. ~shared => open' = 0 /\ log' = said'
    BY <1>6 DEF Invalidate, LogInv, Alone, Holding
  <2>3. at'[w] \in Outside
    BY <1>0, <1>6, WritersDiffer DEF Invalidate, Outside
  <2>4. \A v \in Writers \ {w} : at'[v] \in {at[v]} \cup Outside
    BY <1>0, <1>6 DEF Invalidate, Outside
  <2>5. \A v \in Writers \ {w} : ~Using(v) => ~Using(v)'
    BY <2>4 DEF Using
  <2>6. ~shared => Holding(w)'
    BY <2>3 DEF Holding, Outside
  <2>7. QED
    BY <2>1, <2>2, <2>5, <2>6, Within
<1>7. QED
  BY <1>1, <1>3, <1>4, <1>5, <1>6 DEF UseLog

LEMMA DllKeeps ==
  ASSUME LogInv, Dll
  PROVE  LogInv'
<1> USE WritersDiffer DEF Goto
<1>0. DOMAIN at = Writers /\ DOMAIN got = Writers
  BY DEF LogInv
<1>1. at["dll"] \in {"verify", "patch", "torn", "store"}
  BY DEF Dll, Supported, Unsupported, SkipPatch, BeginPatch, EndPatch, StoreTrampoline, Summary
<1>2. /\ DOMAIN at' = Writers /\ at'["dll"] \in {"patch", "close", "torn", "store"}
      /\ \A v \in Writers \ {"dll"} : at'[v] = at[v]
  BY <1>0 DEF Dll, Supported, Unsupported, SkipPatch, BeginPatch, EndPatch, StoreTrampoline,
              Summary
<1>3. UNCHANGED <<crash, shared, g_log, open, got>> /\ (UNCHANGED <<log, said>> \/ \E line : Write(line))
  BY DEF Dll, Supported, Unsupported, SkipPatch, BeginPatch, EndPatch, StoreTrampoline, Summary,
         logging
<1>4. Using("dll") /\ Using("dll")'
  BY <1>0, <1>1, <1>2 DEF Using, Outside
<1>5. ~shared => g_log = open /\ open # 0 /\ log = said
  BY <1>1 DEF LogInv, Alone, Holding
<1>6. ~shared => Holding("dll")' /\ log' = said'
  BY <1>0, <1>2, <1>3, <1>5 DEF Holding, Write
<1>7. \A v \in Writers \ {"dll"} : ~Using(v) => ~Using(v)'
  BY <1>0, <1>2 DEF Using
<1>8. QED
  BY <1>0, <1>2, <1>3, <1>4, <1>6, <1>7, Within

LEMMA LogNext == ASSUME LogInv, [Next]_vars PROVE LogInv'
<1> USE WritersDiffer DEF Goto, Log
<1>0. DOMAIN at = Writers
  BY DEF LogInv
<1>1. CASE Dll
  BY <1>1, DllKeeps
<1>2. CASE \E w \in Writers : UseLog(w)
  BY <1>2, UseKeeps
<1>3. CASE Heap
  <2>1. PICK x \in Outside \cup {"create"} : at' = [at EXCEPT !["heap"] = x]
    BY <1>3 DEF Heap, HeapLook, HeapCopy, HeapGivesUp, Outside
  <2>2. ~Using("heap") /\ at["heap"] # "dead" /\ UNCHANGED <<crash, shared, g_log, open, got, log, said>>
    BY <1>3 DEF Heap, HeapLook, HeapCopy, HeapGivesUp, Using, Outside, logging
  <2>3. QED
    BY <2>1, <2>2, Without
<1>4. ASSUME NEW t \in Threads, Redirect(t) \/ Warn(t) PROVE LogInv'
  <2>1. at' = [at EXCEPT ![t] = "create"]
    BY <1>4 DEF Redirect, Warn
  <2>2. ~Using(t) /\ at[t] # "dead" /\ UNCHANGED <<crash, shared, g_log, open, got, log, said>>
    BY <1>4 DEF Redirect, Warn, Using, Outside
  <2>3. QED
    BY <2>1, <2>2, Without
<1>5. CASE Crashing
  <2>1. PICK how \in {"call", "stranded", "jump", "memory"}, p \in Places \cup {"none"} :
          Crash(how, p) /\ crash' # Running
    BY <1>5, CrashIsSeen
  <2>2. \A w \in Writers : at'[w] = "dead"
    BY <2>1 DEF Crash
  <2>3. /\ UNCHANGED <<log, said, shared>> /\ open' = 0
        /\ DOMAIN at' = Writers /\ DOMAIN got' = Writers
    BY <2>1 DEF Crash
  <2>4. ~shared => log = said
    BY DEF LogInv, Alone
  <2>5. QED
    BY <2>1, <2>2, <2>3, <2>4 DEF LogInv, Alone, Using, Holding, Outside
<1>6. CASE SessionStarts \/ SessionReady \/ SessionEnds \/ UNCHANGED vars
           \/ \E p \in Places : StopsInside(p)
  BY <1>6 DEF SessionStarts, SessionReady, SessionEnds, StopsInside, vars, logging,
              LogInv, Alone, Using, Holding
<1>7. QED
  BY <1>1, <1>2, <1>3, <1>4, <1>5, <1>6 DEF Next, Game, Crashing, Places

-----------------------------------------------------------------------------
(* What the log says of the patches *)

Dealt(i) == place[Patches[i]] = "new" \/ <<"missing", Patches[i]>> \in said

\* The lines before the summary say which patches are missing, and after it
\* nothing is patched any more.
SummaryInv ==
  /\ DOMAIN at = Writers /\ DOMAIN text = Writers /\ DOMAIN place = Places
  /\ done \in 0 .. Len(Patches)
  /\ at["dll"] \in {"torn", "store"} => done < Len(Patches)
  /\ at["dll"] = "store" => place[Current] = "new"
  /\ log \subseteq said
  /\ \A w \in Writers : text[w] # <<"OK">>
  /\ \A i \in 1 .. done : Dealt(i)
  /\ <<"OK">> \in said => /\ at["dll"] \in {"close", "clear", "off", "dead"}
                          /\ \A p \in Places : place[p] = "new"

LEMMA LinesDiffer ==
  /\ <<>> # <<"OK">>
  /\ \A line \in {<<"unsupported">>, <<"incomplete">>, <<"connected">>, <<"not found">>,
                  <<"redirected">>} : line # <<"OK">>
  /\ \A x : <<"missing", x>> # <<"OK">> /\ <<"warning", x>> # <<"OK">>
OBVIOUS

LEMMA SummaryInit == Init => SummaryInv
<1> SUFFICES ASSUME Init PROVE SummaryInv
  OBVIOUS
<1>1. at["dll"] = "create"
  BY WritersDiffer DEF Init
<1>2. Len(Patches) \in Nat /\ 1 .. 0 = {}
  BY ClientStartAssumption
<1>3. QED
  BY <1>1, <1>2, LinesDiffer DEF Init, SummaryInv, Places

\* A step that patches nothing, and writes no summary.
LEMMA NoSummary ==
  ASSUME SummaryInv, UNCHANGED <<place, stored, done>>, said \subseteq said', log' \subseteq said',
         <<"OK">> \in said' => <<"OK">> \in said,
         DOMAIN at' = Writers, DOMAIN text' = Writers, \A w \in Writers : text'[w] # <<"OK">>,
         \/ at'["dll"] = at["dll"]
         \/ at["dll"] \in {"close", "clear"} /\ at'["dll"] \in {"clear", "off"}
         \/ at["dll"] \notin {"close", "clear", "off", "dead"} /\ at'["dll"] \notin {"torn", "store"}
         \/ at'["dll"] = "dead"
  PROVE  SummaryInv'
<1>1. \A i \in 1 .. done : Dealt(i)'
  BY DEF SummaryInv, Dealt
<1>2. QED
  BY <1>1 DEF SummaryInv, Current

LEMMA UseSummary ==
  ASSUME SummaryInv, NEW w \in Writers, UseLog(w)
  PROVE  SummaryInv'
<1> USE WritersDiffer DEF Goto
<1>0. DOMAIN at = Writers /\ DOMAIN text = Writers /\ \A v \in Writers : text[v] # <<"OK">>
  BY DEF SummaryInv
<1>1. UNCHANGED <<place, stored, done>>
  BY DEF patching, UseLog, Create, Assign, WriteLine, CloseHandle, Invalidate
<1>2. DOMAIN at' = Writers /\ DOMAIN text' = Writers
  BY <1>0 DEF UseLog, Create, Assign, WriteLine, CloseHandle, Invalidate
<1>3. \A v \in Writers : text'[v] # <<"OK">>
  BY <1>0, LinesDiffer DEF UseLog, Create, Assign, WriteLine, CloseHandle, Invalidate
<1>4. /\ said \subseteq said' /\ log' \subseteq said'
      /\ <<"OK">> \in said' => <<"OK">> \in said
  BY <1>0 DEF SummaryInv, UseLog, Create, Assign, WriteLine, Write, CloseHandle, Invalidate
<1>5. w # "dll" => at'["dll"] = at["dll"]
  BY <1>0 DEF UseLog, Create, Assign, WriteLine, CloseHandle, Invalidate
<1>6. CASE w = "dll"
  <2>1. CASE CloseHandle(w) \/ Invalidate(w)
    <3>1. at["dll"] \in {"close", "clear"} /\ at'["dll"] \in {"clear", "off"}
      BY <1>0, <1>6, <2>1 DEF CloseHandle, Invalidate
    <3>2. QED
      BY <1>1, <1>2, <1>3, <1>4, <3>1, NoSummary
  <2>2. CASE Create(w) \/ Assign(w) \/ WriteLine(w)
    <3>1. /\ at["dll"] \notin {"close", "clear", "off", "dead"}
          /\ at'["dll"] \notin {"torn", "store"}
      BY <1>0, <1>6, <2>2 DEF Create, Assign, WriteLine
    <3>2. QED
      BY <1>1, <1>2, <1>3, <1>4, <3>1, NoSummary
  <2>3. QED
    BY <2>1, <2>2 DEF UseLog
<1>7. QED
  BY <1>1, <1>2, <1>3, <1>4, <1>5, <1>6, NoSummary

\* The places of the patches dealt with are not patched again.
LEMMA OnlyCurrent ==
  ASSUME done \in 0 .. Len(Patches), NEW i \in 1 .. done, done < Len(Patches)
  PROVE  Patches[i] # Current /\ Patches[i] \in Places /\ Current \in Places
BY ClientStartAssumption DEF Current, IsInjective, Places, ToSet

LEMMA DllSummary ==
  ASSUME SummaryInv, Dll
  PROVE  SummaryInv'
<1> USE WritersDiffer DEF Goto
<1>0. /\ DOMAIN at = Writers /\ text' = text /\ DOMAIN at' = Writers
      /\ done \in 0 .. Len(Patches) /\ Len(Patches) \in Nat /\ DOMAIN place = Places
  BY ClientStartAssumption
     DEF SummaryInv, Dll, Supported, Unsupported, SkipPatch, BeginPatch, EndPatch,
         StoreTrampoline, Summary, logging
<1>1. at["dll"] \notin {"close", "clear", "off", "dead"}
  BY DEF Dll, Supported, Unsupported, SkipPatch, BeginPatch, EndPatch, StoreTrampoline, Summary
<1>2. <<"OK">> \notin said
  BY <1>1 DEF SummaryInv
<1>3. CASE Supported \/ Unsupported
  <2>1. /\ UNCHANGED <<place, stored, done>> /\ at'["dll"] \in {"patch", "close"}
        /\ said \subseteq said' /\ log' \subseteq said' /\ <<"OK">> \notin said'
    BY <1>0, <1>2, <1>3, LinesDiffer DEF patching, Supported, Unsupported, Write, SummaryInv, logging
  <2>2. QED
    BY <1>0, <1>1, <2>1, NoSummary DEF SummaryInv
<1>4. CASE SkipPatch
  <2>1. /\ said' = said \cup {<<"missing", Current>>} /\ log' \subseteq said' /\ <<"OK">> \notin said'
        /\ place' = place /\ done' = done + 1 /\ done < Len(Patches) /\ at' = at
        /\ at["dll"] = "patch"
    BY <1>2, <1>4, LinesDiffer DEF SkipPatch, Write, SummaryInv
  <2>2. ASSUME NEW i \in 1 .. done' PROVE Dealt(i)'
    <3>1. CASE i = done + 1
      BY <2>1, <3>1 DEF Dealt, Current
    <3>2. CASE i \in 1 .. done
      BY <2>1, <3>2 DEF Dealt, SummaryInv
    <3>3. QED
      BY <1>0, <2>1, <3>1, <3>2
  <2>3. QED
    BY <1>0, <2>1, <2>2 DEF SummaryInv
<1>5. CASE BeginPatch
  <2>1. /\ place' = [place EXCEPT ![Current] = "torn"] /\ done' = done /\ done < Len(Patches)
        /\ said' = said /\ log' = log /\ at'["dll"] = "torn"
    BY <1>0, <1>5 DEF BeginPatch, logging
  <2>2. \A i \in 1 .. done : Dealt(i)'
    BY <1>0, <2>1, OnlyCurrent DEF Dealt, SummaryInv
  <2>3. QED
    BY <1>0, <1>2, <2>1, <2>2 DEF SummaryInv
<1>6. CASE EndPatch
  <2>1. /\ place' = [place EXCEPT ![Current] = "new"] /\ done < Len(Patches)
        /\ said' = said /\ log' = log
    BY <1>0, <1>6 DEF EndPatch, SummaryInv, logging
  <2>2. \A i \in 1 .. done : Dealt(i)'
    BY <1>0, <2>1, OnlyCurrent DEF Dealt, SummaryInv
  <2>3. Current \in Places
    BY <1>0, <2>1, CurrentIsPlace, ClientStartAssumption DEF Current, Places, ToSet
  <2>4. place'[Current] = "new"
    BY <1>0, <2>1, <2>3
  <2>5. CASE Current = "ProcessEvent"
    <3>1. done' = done /\ at'["dll"] = "store" /\ Current' = Current
      BY <1>0, <1>6, <2>5 DEF EndPatch, Current
    <3>2. QED
      BY <1>0, <1>2, <2>1, <2>2, <2>4, <3>1 DEF SummaryInv
  <2>6. CASE Current # "ProcessEvent"
    <3>1. done' = done + 1 /\ at'["dll"] = "patch"
      BY <1>0, <1>6, <2>6 DEF EndPatch
    <3>2. ASSUME NEW i \in 1 .. done' PROVE Dealt(i)'
      <4>1. i = done + 1 \/ i \in 1 .. done
        BY <1>0, <3>1
      <4>2. CASE i = done + 1
        BY <2>4, <4>2 DEF Dealt, Current
      <4>3. QED
        BY <2>2, <4>1, <4>2
    <3>3. \A i \in 1 .. done' : Dealt(i)'
      BY <3>2
    <3>4. QED
      BY <1>0, <1>2, <2>1, <3>1, <3>3 DEF SummaryInv
  <2>7. QED
    BY <2>5, <2>6
<1>7. CASE StoreTrampoline
  <2>1. /\ place' = place /\ said' = said /\ log' = log /\ done' = done + 1 /\ at'["dll"] = "patch"
        /\ done < Len(Patches) /\ place[Current] = "new"
    BY <1>0, <1>7 DEF StoreTrampoline, SummaryInv, logging
  <2>2. ASSUME NEW i \in 1 .. done' PROVE Dealt(i)'
    <3>1. i = done + 1 \/ i \in 1 .. done
      BY <1>0, <2>1
    <3>2. CASE i = done + 1
      BY <2>1, <3>2 DEF Dealt, Current
    <3>3. CASE i \in 1 .. done
      BY <2>1, <3>3 DEF Dealt, SummaryInv
    <3>4. QED
      BY <3>1, <3>2, <3>3
  <2>3. \A i \in 1 .. done' : Dealt(i)'
    BY <2>2
  <2>4. QED
    BY <1>0, <1>2, <2>1, <2>3 DEF SummaryInv
<1>8. CASE Summary
  <2>1. /\ UNCHANGED <<place, stored, done>> /\ done = Len(Patches) /\ at'["dll"] = "close"
        /\ said \subseteq said' /\ log' \subseteq said'
    BY <1>0, <1>8 DEF patching, Summary, Write, SummaryInv
  <2>2. ASSUME <<"OK">> \in said' PROVE \A p \in Places : place[p] = "new"
    <3>1. \A p \in Places : <<"missing", p>> \notin said
      BY <1>2, <1>8, <2>2, LinesDiffer DEF Summary, Write, Places
    <3>2. \A p \in Places : \E i \in 1 .. done : p = Patches[i]
      BY <2>1, ClientStartAssumption DEF Places, ToSet
    <3>3. ASSUME NEW i \in 1 .. done, Patches[i] \in Places PROVE place[Patches[i]] = "new"
      BY <3>1, <3>3 DEF SummaryInv, Dealt
    <3>4. QED
      BY <3>2, <3>3
  <2>3. \A i \in 1 .. done : Dealt(i)'
    BY <2>1 DEF SummaryInv, Dealt
  <2>4. QED
    BY <1>0, <2>1, <2>2, <2>3 DEF SummaryInv
<1>9. QED
  BY <1>3, <1>4, <1>5, <1>6, <1>7, <1>8 DEF Dll

LEMMA SummaryNext == ASSUME SummaryInv, [Next]_vars PROVE SummaryInv'
<1> USE WritersDiffer, LinesDiffer DEF Goto, Log
<1>0. DOMAIN at = Writers /\ DOMAIN text = Writers /\ log \subseteq said
      /\ \A v \in Writers : text[v] # <<"OK">>
  BY DEF SummaryInv
<1>1. CASE Dll
  BY <1>1, DllSummary
<1>2. CASE \E w \in Writers : UseLog(w)
  BY <1>2, UseSummary
<1>3. CASE Heap
  <2>1. /\ UNCHANGED <<place, stored, done, log, said>> /\ DOMAIN at' = Writers /\ at'["dll"] = at["dll"]
        /\ DOMAIN text' = Writers
    BY <1>0, <1>3 DEF patching, Heap, HeapLook, HeapCopy, HeapGivesUp, logging
  <2>2. \A v \in Writers : text'[v] # <<"OK">>
    BY <1>0, <1>3 DEF Heap, HeapLook, HeapCopy, HeapGivesUp, logging
  <2>3. QED
    BY <1>0, <2>1, <2>2, NoSummary
<1>4. ASSUME NEW t \in Threads, Redirect(t) \/ Warn(t) PROVE SummaryInv'
  <2>1. /\ UNCHANGED <<place, stored, done, log, said>> /\ DOMAIN at' = Writers /\ at'["dll"] = at["dll"]
        /\ DOMAIN text' = Writers
    BY <1>0, <1>4 DEF Redirect, Warn, patching
  <2>2. \A v \in Writers : text'[v] # <<"OK">>
    BY <1>0, <1>4 DEF Redirect, Warn
  <2>3. QED
    BY <1>0, <2>1, <2>2, NoSummary
<1>5. CASE Crashing
  <2>1. PICK how \in {"call", "stranded", "jump", "memory"}, p \in Places \cup {"none"} :
          Crash(how, p) /\ crash' # Running
    BY <1>5, CrashIsSeen
  <2>2. /\ UNCHANGED <<place, stored, done, log, said>>
        /\ DOMAIN at' = Writers /\ at'["dll"] = "dead"
        /\ DOMAIN text' = Writers /\ \A w \in Writers : text'[w] = <<>>
    BY <2>1 DEF Crash, patching
  <2>3. \A w \in Writers : text'[w] # <<"OK">>
    BY <2>2, LinesDiffer
  <2>4. QED
    BY <1>0, <2>2, <2>3, NoSummary
<1>6. CASE SessionStarts \/ SessionReady \/ SessionEnds \/ UNCHANGED vars
           \/ \E p \in Places : StopsInside(p)
  <2>1. UNCHANGED <<place, stored, done, log, said, text, at>>
    BY <1>6 DEF SessionStarts, SessionReady, SessionEnds, StopsInside, vars, patching, logging
  <2>2. QED
    BY <1>0, <2>1, NoSummary
<1>7. QED
  BY <1>1, <1>2, <1>3, <1>4, <1>5, <1>6 DEF Next, Game, Crashing, Places

\* Until two writers have the log at once nothing that was to be written is
\* missing from it and it is open only for the writer that has it; and however
\* they interleave, it never says OK when a patch is missing.
THEOREM LogTells == Spec => []LogTellsUnlessShared
<1>1. LogInv /\ SummaryInv => LogTellsUnlessShared
  BY DEF LogInv, SummaryInv, Alone, Using, LogTellsUnlessShared, Places
<1>2. Init => LogInv /\ SummaryInv
  BY LogInit, SummaryInit
<1>3. LogInv /\ SummaryInv /\ [Next]_vars => (LogInv /\ SummaryInv)'
  BY LogNext, SummaryNext
<1>4. QED
  BY <1>1, <1>2, <1>3, PTL DEF Spec

-----------------------------------------------------------------------------
(* Where the game crashes *)

\* A place that was reported as missing keeps its old code and its turn is over.
MissingInv ==
  /\ \A p : <<"missing", p>> \in said => \E i \in 1 .. done : p = Patches[i] /\ place[p] = "old"
  /\ \A p \in stranded : p \in Places /\ place[p] # "old"
  /\ \A w \in Writers : \A p : text[w] # <<"missing", p>>

LEMMA NotMissing ==
  ASSUME NEW p
  PROVE  /\ <<>> # <<"missing", p>>
         /\ \A line \in {<<"unsupported">>, <<"incomplete">>, <<"connected">>, <<"not found">>,
                         <<"redirected">>, <<"OK">>} : line # <<"missing", p>>
         /\ \A x : <<"warning", x>> # <<"missing", p>>
OBVIOUS

LEMMA MissingInit == Init => MissingInv
<1> SUFFICES ASSUME Init PROVE MissingInv
  OBVIOUS
<1>1. \A w \in Writers : text[w] = <<>>
  BY DEF Init
<1>2. QED
  BY <1>1, NotMissing DEF Init, MissingInv

\* A step that neither patches nor reports a place.
LEMMA NoReport ==
  ASSUME MissingInv, UNCHANGED patching,
         \A p : <<"missing", p>> \in said' => <<"missing", p>> \in said,
         \A w \in Writers : \A p : text'[w] # <<"missing", p>>
  PROVE  MissingInv'
BY DEF MissingInv, patching

LEMMA DllReports ==
  ASSUME PatchInv, LogInv, SummaryInv, MissingInv, Dll
  PROVE  MissingInv'
<1>0. /\ DOMAIN place = Places /\ done \in 0 .. Len(Patches) /\ Len(Patches) \in Nat
      /\ at["dll"] \in {"torn", "store"} => done < Len(Patches)
  BY ClientStartAssumption DEF SummaryInv
<1>1. text' = text
  BY DEF Dll, Supported, Unsupported, SkipPatch, BeginPatch, EndPatch, StoreTrampoline, Summary,
         logging
<1>2. \A w \in Writers : \A p : text'[w] # <<"missing", p>>
  BY <1>1 DEF MissingInv
<1>3. CASE Supported \/ Unsupported \/ Summary
  <2>1. UNCHANGED patching
    BY <1>3 DEF Supported, Unsupported, Summary
  <2>2. \A p : <<"missing", p>> \in said' => <<"missing", p>> \in said
    BY <1>3, NotMissing DEF Supported, Unsupported, Summary, Write, logging
  <2>3. QED
    BY <1>2, <2>1, <2>2, NoReport
<1>4. ASSUME done < Len(Patches) PROVE \A i \in 1 .. done : Patches[i] # Current
  BY <1>0, <1>4, OnlyCurrent
<1>5. CASE SkipPatch
  <2>1. /\ said' = said \cup {<<"missing", Current>>} /\ done' = done + 1 /\ place' = place
        /\ stranded' = stranded /\ done < Len(Patches) /\ at["dll"] = "patch"
    BY <1>5 DEF SkipPatch, Write
  <2>2. \A q : <<"missing", q>> = <<"missing", Current>> => q = Current
    OBVIOUS
  <2>3. ASSUME NEW p, <<"missing", p>> \in said'
        PROVE  \E i \in 1 .. done' : p = Patches[i] /\ place'[p] = "old"
    <3>1. CASE <<"missing", p>> \in said
      BY <1>0, <2>1, <3>1 DEF MissingInv
    <3>2. CASE p = Current
      <4>1. done + 1 \in 1 .. done' /\ p = Patches[done + 1]
        BY <1>0, <2>1, <3>2 DEF Current
      <4>2. Pending /\ done + 1 \in done + 1 .. Len(Patches)
        BY <1>0, <2>1, WritersDiffer DEF PatchInv, LogInv
      <4>3. place[Current] = "old"
        BY <2>1, <4>2 DEF Pending, Current
      <4>4. QED
        BY <2>1, <3>2, <4>1, <4>3
    <3>3. QED
      BY <2>1, <2>2, <2>3, <3>1, <3>2
  <2>4. QED
    BY <1>2, <2>1, <2>3 DEF MissingInv
<1>6. CASE BeginPatch \/ EndPatch \/ StoreTrampoline
  <2>1. /\ said' = said /\ stranded' = stranded /\ done' \in {done, done + 1}
        /\ done < Len(Patches) /\ \A p \in Places \ {Current} : place'[p] = place[p]
        /\ \A p \in Places : place[p] # "old" => place'[p] # "old"
    BY <1>0, <1>6 DEF BeginPatch, EndPatch, StoreTrampoline, logging
  <2>2. ASSUME NEW p, <<"missing", p>> \in said
        PROVE  \E i \in 1 .. done' : p = Patches[i] /\ place'[p] = "old"
    <3>1. PICK i \in 1 .. done : p = Patches[i] /\ place[p] = "old"
      BY <2>2 DEF MissingInv
    <3>2. i \in 1 .. done' /\ p # Current /\ p \in Places
      BY <1>0, <1>4, <2>1, <3>1, OnlyCurrent
    <3>3. QED
      BY <2>1, <3>1, <3>2
  <2>3. QED
    BY <1>2, <2>1, <2>2 DEF MissingInv
<1>7. QED
  BY <1>3, <1>5, <1>6 DEF Dll

LEMMA MissingNext ==
  ASSUME PatchInv, LogInv, SummaryInv, MissingInv, [Next]_vars
  PROVE  MissingInv'
<1> USE WritersDiffer, NotMissing DEF Goto, Log
<1>0. DOMAIN text = Writers /\ \A w \in Writers : \A p : text[w] # <<"missing", p>>
  BY DEF SummaryInv, MissingInv
<1>1. CASE Dll
  BY <1>1, DllReports
<1>2. ASSUME NEW v \in Writers, UseLog(v) PROVE MissingInv'
  <2>1. UNCHANGED patching
    BY <1>2 DEF UseLog, Create, Assign, WriteLine, CloseHandle, Invalidate
  <2>2. said' \in {said, said \cup {text[v]}}
    BY <1>2 DEF UseLog, Create, Assign, WriteLine, CloseHandle, Invalidate, Write
  <2>3. \A w \in Writers : text'[w] \in {text[w], <<>>}
    BY <1>0, <1>2 DEF UseLog, Create, Assign, WriteLine, CloseHandle, Invalidate
  <2>4. QED
    BY <1>0, <2>1, <2>2, <2>3, NoReport
<1>3. ASSUME NEW v \in Writers, NEW line, text' = [text EXCEPT ![v] = line], UNCHANGED <<patching, said>>,
             \A p : line # <<"missing", p>>
      PROVE  MissingInv'
  BY <1>0, <1>3, NoReport
<1>4. CASE Heap
  <2>1. CASE HeapLook
    BY <1>0, <2>1, NoReport DEF HeapLook, logging
  <2>2. CASE HeapCopy
    BY <1>3, <2>2 DEF HeapCopy
  <2>3. CASE HeapGivesUp
    BY <1>3, <2>3 DEF HeapGivesUp
  <2>4. QED
    BY <1>4, <2>1, <2>2, <2>3 DEF Heap
<1>5. ASSUME NEW t \in Threads, Redirect(t) \/ Warn(t) PROVE MissingInv'
  BY <1>3, <1>5 DEF Redirect, Warn
<1>6. ASSUME NEW q \in Places, StopsInside(q) PROVE MissingInv'
  BY <1>0, <1>6 DEF StopsInside, MissingInv, logging
<1>7. CASE Crashing
  <2>1. PICK how \in {"call", "stranded", "jump", "memory"}, p \in Places \cup {"none"} :
          Crash(how, p) /\ crash' # Running
    BY <1>7, CrashIsSeen
  <2>2. UNCHANGED <<patching, said>> /\ \A w \in Writers : text'[w] = <<>>
    BY <2>1 DEF Crash
  <2>3. QED
    BY <2>2, NoReport
<1>8. CASE SessionStarts \/ SessionReady \/ SessionEnds \/ UNCHANGED vars
  BY <1>0, <1>8, NoReport DEF SessionStarts, SessionReady, SessionEnds, vars, logging
<1>9. QED
  BY <1>1, <1>2, <1>4, <1>5, <1>6, <1>7, <1>8 DEF Next, Game, Crashing, Places

\* Whatever the game's threads call while the client is being installed and
\* later, and whichever patches fail, a call crashes only in the place that
\* DllMain is patching at that moment; and no crash is in a place that DllMain has
\* reported as skipped or failed.
THEOREM CallsAreSafe == Spec => CallsCrashOnlyWhilePatching
<1> DEFINE Inv == PatchInv /\ LogInv /\ SummaryInv /\ MissingInv
<1> DEFINE Where ==
      crash' # crash =>
        /\ crash'.how = "call" => at["dll"] \in {"torn", "store"} /\ crash'.where = Current
        /\ <<"missing", crash'.where>> \notin said
<1>1. ASSUME Inv, Next PROVE Where
  <2> SUFFICES ASSUME crash' # crash
               PROVE  /\ crash'.how = "call" => at["dll"] \in {"torn", "store"} /\ crash'.where = Current
                      /\ <<"missing", crash'.where>> \notin said
    OBVIOUS
  <2>1. Crashing
    BY <1>1 DEF Next, Dll, Supported, Unsupported, SkipPatch, BeginPatch, EndPatch,
                StoreTrampoline, Summary, Heap, HeapLook, HeapCopy, HeapGivesUp, Game,
                SessionStarts, SessionReady, SessionEnds, StopsInside, Redirect, Warn, UseLog,
                Create, Assign, WriteLine, CloseHandle, Invalidate, Crashing, Places
  <2>2. /\ "ProcessEvent" \in Places /\ "none" \notin Places
        /\ \A p : <<"missing", p>> \in said => p \in Places /\ place[p] = "old"
    <3>1. "ProcessEvent" \in Places /\ "none" \notin Places
      BY ClientStartAssumption DEF Places
    <3>2. \A i \in 1 .. done : Patches[i] \in Places
      BY <1>1, ClientStartAssumption DEF SummaryInv, Places, ToSet
    <3>3. QED
      BY <1>1, <3>1, <3>2 DEF MissingInv
  <2>3. ASSUME NEW p \in Places, CallCrashes(p)
        PROVE  /\ at["dll"] \in {"torn", "store"} /\ crash'.where = Current
               /\ <<"missing", crash'.where>> \notin said
    <3>1. crash'.where = p /\ crash = Running /\ place[p] # "old"
      BY <2>3 DEF CallCrashes, Crash
    <3>2. at["dll"] \in {"torn", "store"} /\ p = Current
      BY <1>1, <2>3, <3>1 DEF CallCrashes, PatchInv, Sound
    <3>3. QED
      BY <2>2, <3>1, <3>2
  <2>4. ASSUME NEW p \in Places, StrandedCrashes(p)
        PROVE  crash'.how # "call" /\ <<"missing", crash'.where>> \notin said
    BY <1>1, <2>2, <2>4 DEF StrandedCrashes, Crash, MissingInv
  <2>5. CASE JumpCrashes
    BY <2>2, <2>5 DEF JumpCrashes, Crash
  <2>6. CASE SpoiledCrashes
    BY <2>2, <2>6 DEF SpoiledCrashes, Crash
  <2>7. QED
    BY <2>1, <2>3, <2>4, <2>5, <2>6 DEF Crashing
<1>2. Init => Inv
  BY PatchInit, LogInit, SummaryInit, MissingInit
<1>3. Inv /\ [Next]_vars => Inv'
  BY PatchNext, LogNext, SummaryNext, MissingNext
<1>4. QED
  BY <1>1, <1>2, <1>3, PTL DEF Spec, CallsCrashOnlyWhilePatching

-----------------------------------------------------------------------------
(* Launcher *)

Games == [alive : BOOLEAN, pid : Pids \cup {0}, access : BOOLEAN, ready : BOOLEAN,
          loaded : BOOLEAN, refused : BOOLEAN]

Statuses == {"limited access", "needs access", "already running", "running in-game", "preparing",
             "retrying", "ready", "not running", "saved"}

LShape ==
  /\ game \in Games
  /\ posted \in Seq(Statuses)
  /\ waiting \in BOOLEAN

\* What the window shows when it has caught up.
Shown == IF posted = <<>> THEN status ELSE posted[Len(posted)]

ShownIsEarned ==
  waiting => /\ Shown = "running in-game" => worker = "attached"
             /\ worker = "attached" => Shown \in {"running in-game", "saved"}

Held ==
  /\ handle = "alive" => game.alive
  /\ worker = "attached" /\ handle = "alive" => game.loaded \/ game.refused

StatusInv == LShape /\ ShownIsEarned /\ Held

\* Posted texts go behind what is on its way.
LEMMA PostedLast ==
  ASSUME LShape, NEW texts \in Seq(Statuses), texts # <<>>, Post(texts)
  PROVE  /\ posted' \in Seq(Statuses)
         /\ waiting => posted' # <<>> /\ posted'[Len(posted')] = texts[Len(texts)]
<1>1. CASE waiting
  <2>1. posted' = posted \o texts
    BY <1>1 DEF Post
  <2>2. Len(posted \o texts) = Len(posted) + Len(texts) /\ Len(texts) > 0
    BY DEF LShape
  <2>3. (posted \o texts)[Len(posted) + Len(texts)] = texts[Len(texts)]
    BY <2>2 DEF LShape
  <2>4. QED
    BY <2>1, <2>2, <2>3 DEF LShape
<1>2. CASE ~waiting
  BY <1>2 DEF Post, LShape
<1>3. QED
  BY <1>1, <1>2

\* The worker comes to hold a game, or stays without one, and says so last.
LEMMA PostKeeps ==
  ASSUME LShape, NEW texts \in Seq(Statuses), texts # <<>>, Post(texts), waiting' = waiting,
         texts[Len(texts)] = "running in-game" <=> worker' = "attached"
  PROVE  posted' \in Seq(Statuses) /\ ShownIsEarned'
BY PostedLast DEF ShownIsEarned, Shown

\* One text, or two.
LEMMA Literals ==
  ASSUME NEW S, NEW a \in S, NEW b \in S
  PROVE  /\ <<a>> \in Seq(S) /\ Len(<<a>>) = 1 /\ <<a>>[1] = a
         /\ <<a, b>> \in Seq(S) /\ Len(<<a, b>>) = 2 /\ <<a, b>>[2] = b
<1>1. <<a>> \in Seq(S) /\ Len(<<a>>) = 1 /\ <<a>>[1] = a
  OBVIOUS
<1>2. <<a, b>> \in Seq(S) /\ Len(<<a, b>>) = 2 /\ <<a, b>>[2] = b
  OBVIOUS
<1>3. QED
  BY <1>1, <1>2

\* The texts the worker posts.
LEMMA Texts ==
  ASSUME NEW a \in Statuses, NEW b \in Statuses
  PROVE  /\ <<a>> \in Seq(Statuses) /\ <<a>> # <<>> /\ <<a>>[Len(<<a>>)] = a
         /\ <<a, b>> \in Seq(Statuses) /\ <<a, b>> # <<>> /\ <<a, b>>[Len(<<a, b>>)] = b
<1>1. /\ <<a>> \in Seq(Statuses) /\ Len(<<a>>) = 1 /\ <<a>>[1] = a
      /\ <<a, b>> \in Seq(Statuses) /\ Len(<<a, b>>) = 2 /\ <<a, b>>[2] = b
  BY Literals
<1>2. <<a>> # <<>> /\ <<a, b>> # <<>>
  BY <1>1, EmptySeq
<1>3. QED
  BY <1>1, <1>2

LEMMA PostOne ==
  ASSUME LShape, NEW a \in Statuses, Post(<<a>>), waiting' = waiting,
         a = "running in-game" <=> worker' = "attached"
  PROVE  posted' \in Seq(Statuses) /\ ShownIsEarned'
<1>1. <<a>> \in Seq(Statuses) /\ <<a>> # <<>> /\ <<a>>[Len(<<a>>)] = a
  BY Texts
<1>2. <<a>>[Len(<<a>>)] = "running in-game" <=> worker' = "attached"
  BY <1>1
<1>3. QED
  BY <1>1, <1>2, PostKeeps

LEMMA PostTwo ==
  ASSUME LShape, NEW a \in Statuses, NEW b \in Statuses, Post(<<a, b>>), waiting' = waiting,
         b = "running in-game" <=> worker' = "attached"
  PROVE  posted' \in Seq(Statuses) /\ ShownIsEarned'
<1>1. <<a, b>> \in Seq(Statuses) /\ <<a, b>> # <<>> /\ <<a, b>>[Len(<<a, b>>)] = b
  BY Texts
<1>2. <<a, b>>[Len(<<a, b>>)] = "running in-game" <=> worker' = "attached"
  BY <1>1
<1>3. QED
  BY <1>1, <1>2, PostKeeps

\* A step that posts and shows nothing, and neither takes nor leaves a game.
LEMMA QuietKeeps ==
  ASSUME StatusInv, UNCHANGED <<posted, status, waiting>>,
         worker' = "attached" <=> worker = "attached"
  PROVE  ShownIsEarned'
BY DEF StatusInv, ShownIsEarned, Shown

\* The worker's first texts end with the one the window begins with.
LEMMA FirstTexts ==
  ASSUME NEW p \in Greetings
  PROVE  p \in Seq(Statuses) /\ p # <<>> /\ p[Len(p)] = "not running"
<1>1. "not running" \in Statuses /\ "limited access" \in Statuses
  BY DEF Statuses
<1>2. CASE p = <<"not running">>
  BY <1>1, <1>2, Texts
<1>3. CASE p = <<"limited access", "not running">>
  BY <1>1, <1>3, Texts
<1>4. QED
  BY <1>2, <1>3 DEF Greetings

LEMMA StatusInit == LInit => StatusInv
<1> SUFFICES ASSUME LInit PROVE StatusInv
  OBVIOUS
<1>1. game \in Games
  BY DEF LInit, NoGame, Games
<1>2. posted \in Seq(Statuses) /\ ShownIsEarned
  BY FirstTexts DEF LInit, ShownIsEarned, Shown
<1>3. QED
  BY <1>1, <1>2 DEF LInit, StatusInv, LShape, Held

LEMMA GameKeeps == ASSUME StatusInv, GameStarts \/ GameReady \/ GameEnds PROVE StatusInv'
<1>1. ShownIsEarned'
  BY QuietKeeps DEF GameStarts, GameReady, GameEnds
<1>2. CASE GameStarts
  <2>1. PICK p \in Pids, a, l \in BOOLEAN :
          game' = [NoGame EXCEPT !.alive = TRUE, !.pid = p, !.access = a, !.loaded = l]
    BY <1>2 DEF GameStarts
  <2>2. game' \in Games
    BY <2>1 DEF NoGame, Games
  <2>3. handle # "alive" /\ handle' = handle
    BY <1>2 DEF GameStarts, StatusInv, Held
  <2>4. QED
    BY <1>1, <1>2, <2>2, <2>3 DEF GameStarts, StatusInv, LShape, Held
<1>3. CASE GameReady
  <2>1. game' \in Games /\ game'.alive /\ game'.loaded = game.loaded /\ game'.refused = game.refused
    BY <1>3 DEF GameReady, StatusInv, LShape, Games
  <2>2. QED
    BY <1>1, <1>3, <2>1 DEF GameReady, StatusInv, LShape, Held
<1>4. CASE GameEnds
  BY <1>1, <1>4 DEF GameEnds, StatusInv, LShape, Held, NoGame, Games
<1>5. QED
  BY <1>2, <1>3, <1>4

LEMMA WorkerKeeps == ASSUME StatusInv, Worker PROVE StatusInv'
<1> USE DEF Step
<1>0. LShape /\ ShownIsEarned /\ Held
  BY DEF StatusInv
<1>1. CASE FindGame \/ FindNothing \/ Stop \/ NotLoaded \/ Ready \/ Inject
  <2>1. ShownIsEarned'
    BY <1>1, QuietKeeps DEF FindGame, FindNothing, Stop, NotLoaded, Ready, Inject
  <2>2. QED
    BY <1>0, <1>1, <2>1 DEF FindGame, FindNothing, Stop, NotLoaded, Ready, Inject, StatusInv, LShape, Held
<1>2. CASE OpenProcess
  <2>1. CASE Alive(pid) /\ game.access
    <3>1. ShownIsEarned'
      BY <1>2, <2>1, QuietKeeps DEF OpenProcess
    <3>2. QED
      BY <1>0, <1>2, <2>1, <3>1 DEF OpenProcess, StatusInv, LShape, Held, Alive
  <2>2. CASE ~(Alive(pid) /\ game.access)
    <3>1. /\ Post(<<"needs access">>) /\ waiting' = waiting
          /\ "needs access" = "running in-game" <=> worker' = "attached"
      BY <1>2, <2>2 DEF OpenProcess
    <3>2. posted' \in Seq(Statuses) /\ ShownIsEarned'
      BY <1>0, <3>1, PostOne DEF Post, Statuses
    <3>3. QED
      BY <1>0, <1>2, <2>2, <3>2 DEF OpenProcess, StatusInv, LShape, Held
  <2>3. QED
    BY <2>1, <2>2
<1>3. CASE AlreadyLoaded
  <2>1. /\ Post(<<"already running", "running in-game">>) /\ waiting' = waiting
        /\ "running in-game" = "running in-game" <=> worker' = "attached"
    BY <1>3 DEF AlreadyLoaded, Attach
  <2>2. posted' \in Seq(Statuses) /\ ShownIsEarned'
    BY <1>0, <2>1, PostTwo DEF Post, Statuses
  <2>3. QED
    BY <1>0, <1>3, <2>2 DEF AlreadyLoaded, StatusInv, LShape, Held
<1>4. CASE NotReady \/ InjectFails
  <2>1. /\ Post(<<"preparing">>) \/ Post(<<"retrying">>)
        /\ waiting' = waiting
        /\ "preparing" = "running in-game" <=> worker' = "attached"
        /\ "retrying" = "running in-game" <=> worker' = "attached"
    BY <1>4 DEF NotReady, InjectFails
  <2>2. posted' \in Seq(Statuses) /\ ShownIsEarned'
    BY <1>0, <2>1, PostOne DEF Post, Statuses
  <2>3. QED
    BY <1>0, <1>4, <2>2 DEF NotReady, InjectFails, StatusInv, LShape, Held
<1>5. CASE Loaded
  <2>1. /\ Post(<<"ready", "running in-game">>) /\ waiting' = waiting
        /\ "running in-game" = "running in-game" <=> worker' = "attached"
    BY <1>5 DEF Loaded, Attach
  <2>3. posted' \in Seq(Statuses) /\ ShownIsEarned'
    BY <1>0, <2>1, PostTwo DEF Post, Statuses
  <2>4. /\ game' \in Games /\ game'.alive = game.alive
        /\ handle = "ended" \/ game'.loaded \/ game'.refused
    BY <1>0, <1>5 DEF Loaded, LShape, Games
  <2>5. QED
    BY <1>0, <1>5, <2>3, <2>4 DEF Loaded, StatusInv, LShape, Held
<1>6. CASE Detach
  <2>1. /\ Post(<<"not running">>) /\ waiting' = waiting
        /\ "not running" = "running in-game" <=> worker' = "attached"
    BY <1>6 DEF Detach
  <2>2. posted' \in Seq(Statuses) /\ ShownIsEarned'
    BY <1>0, <2>1, PostOne DEF Post, Statuses
  <2>3. QED
    BY <1>0, <1>6, <2>2 DEF Detach, StatusInv, LShape, Held
<1>7. QED
  BY <1>1, <1>2, <1>3, <1>4, <1>5, <1>6 DEF Worker

LEMMA WindowKeeps == ASSUME StatusInv, ShowStatus \/ SaveConfig \/ Destroy \/ Relaunch PROVE StatusInv'
<1>0. LShape /\ ShownIsEarned /\ Held
  BY DEF StatusInv
<1>1. CASE ShowStatus
  <2>1. posted' \in Seq(Statuses) /\ Len(posted') = Len(posted) - 1 /\ Len(posted) > 0
    BY <1>0, <1>1 DEF ShowStatus, LShape
  <2>2. Shown' = Shown
    <3>1. CASE Len(posted) = 1
      <4>1. posted' = <<>> /\ posted # <<>> /\ Head(posted) = posted[1]
        BY <1>0, <1>1, <2>1, <3>1, EmptySeq DEF ShowStatus, LShape
      <4>2. QED
        BY <1>1, <3>1, <4>1 DEF ShowStatus, Shown
    <3>2. CASE Len(posted) > 1
      <4>1. posted' # <<>>
        BY <2>1, <3>2, EmptySeq
      <4>2. posted'[Len(posted')] = posted[Len(posted')+1]
        BY <1>0, <1>1, <2>1, <3>2 DEF ShowStatus, LShape
      <4>3. posted'[Len(posted')] = posted[Len(posted)]
        BY <1>0, <2>1, <4>2, LenProperties DEF LShape
      <4>4. QED
        BY <1>1, <4>1, <4>3 DEF ShowStatus, Shown
    <3>3. QED
      BY <1>0, <2>1, <3>1, <3>2 DEF LShape
  <2>3. QED
    BY <1>0, <1>1, <2>1, <2>2 DEF ShowStatus, StatusInv, LShape, ShownIsEarned, Held
<1>2. CASE Destroy
  <2>1. posted' \in Seq(Statuses)
    BY <1>2, EmptySeq DEF Destroy
  <2>2. QED
    BY <1>0, <1>2, <2>1 DEF Destroy, StatusInv, LShape, ShownIsEarned, Held
<1>3. CASE Relaunch
  <2>1. posted' \in Seq(Statuses) /\ ShownIsEarned'
    BY <1>3, FirstTexts DEF Relaunch, ShownIsEarned, Shown
  <2>2. game' \in Games
    BY <1>0, <1>3 DEF Relaunch, LShape, Games
  <2>3. QED
    BY <1>0, <1>3, <2>1, <2>2 DEF Relaunch, StatusInv, LShape, Held
<1>4. CASE SaveConfig
  <2>1. Shown' = IF posted = <<>> THEN "saved" ELSE Shown
    BY <1>4 DEF SaveConfig, Shown
  <2>2. ShownIsEarned'
    BY <1>0, <1>4, <2>1 DEF SaveConfig, ShownIsEarned
  <2>3. QED
    BY <1>0, <1>4, <2>2 DEF SaveConfig, StatusInv, LShape, Held
<1>5. QED
  BY <1>1, <1>2, <1>3, <1>4

LEMMA StatusNext == ASSUME StatusInv, [LNext]_lvars PROVE StatusInv'
<1>1. CASE UNCHANGED lvars
  BY <1>1 DEF lvars, StatusInv, LShape, ShownIsEarned, Shown, Held
<1>2. QED
  BY <1>1, GameKeeps, WorkerKeeps, WindowKeeps DEF LNext

-----------------------------------------------------------------------------
\* Whatever games come, end and take over each other's process ids, however far
\* the window is behind and whenever the user saves settings, a window that has
\* caught up says that MedgeNet runs only while the worker holds a game, whose
\* DLL is loaded or was refused, and nothing else while it does but that the
\* settings were saved.
THEOREM StatusIsTrue == LSpec => []StatusIsEarned
<1>1. StatusInv => StatusIsEarned
  BY DEF StatusInv, ShownIsEarned, Shown, Held, StatusIsEarned
<1>2. QED
  BY StatusInit, StatusNext, <1>1, PTL DEF LSpec
=============================================================================
