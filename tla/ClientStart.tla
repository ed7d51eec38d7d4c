---------------------------- MODULE ClientStart ----------------------------
(***************************************************************************)
(* The start of the client DLL inside the running game                     *)
(* (client/dll/MedgeNetClient.c): DllMain patches the code of the game     *)
(* while the game's threads execute it, then a thread waits for the game's *)
(* session and gives it the server's host, and all of them write to one    *)
(* log file through one global handle.                                     *)
(*                                                                         *)
(* An atomic step is one call of the system (CreateFile, WriteFile,        *)
(* CloseHandle, Sleep), one access to g_log, or one half of a patch.  The  *)
(* game is external: its threads call what has been patched at any moment, *)
(* and its session comes and goes.                                         *)
(***************************************************************************)
EXTENDS Naturals, Sequences, SequencesExt, FiniteSets

CONSTANTS Patches,     \* the patched places, in the order of apply_patches
          Threads,     \* threads of the game
          Handles,     \* values of handles; a closed one may come again
          MaxAttempts, \* 120 in patch_heap_thread
          MaxWarnings, \* bound: failed PUTs that the transport hook sees
          MaxSessions  \* bound: sessions of the game

ASSUME ClientStartAssumption ==
  /\ Patches \in Seq(STRING)
  /\ {"ProcessEvent", "FeslConnUpdate"} \subseteq ToSet(Patches) /\ IsInjective(Patches)
  /\ "none" \notin ToSet(Patches)
  /\ 0 \notin Handles /\ Handles # {}
  /\ Threads \cap {"dll", "heap"} = {}
  /\ MaxAttempts \in Nat /\ MaxWarnings \in Nat /\ MaxSessions \in Nat

Writers == Threads \cup {"dll", "heap"}

VARIABLES place,    \* per patch: the old code, a part of the new, or the new
          stored,   \* g_process_event_trampoline_addr is set
          done,     \* patches DllMain has dealt with
          stranded, \* places in whose bytes a thread was stopped while they were written
          crash,    \* how and where the game crashed
          g_log,    \* the global handle, 0 for INVALID_HANDLE_VALUE
          open,     \* the handle the file is open with, 0 for none
          at,       \* per writer: where it is
          got,      \* per writer: what CreateFile returned
          text,     \* per writer: the line it writes
          log,      \* lines in the file
          said,     \* history: lines that were to be written
          shared,   \* history: two writers had the log at once
          attempts, session, sessions, \* attempts; the host of the session; how many there were
          aimed,    \* the session read by patch_heap_thread still exists
          spoiled   \* it was written to after it had ended

patching == <<place, stored, done, stranded>>
logging  == <<g_log, open, got, text, log, said, shared>>
heap     == <<attempts, session, sessions, aimed, spoiled>>
vars     == <<patching, crash, at, logging, heap>>

Running == [how |-> "none", where |-> "none"]

Goto(w, point) == at' = [at EXCEPT ![w] = point]
Outside == {"off", "run", "loop", "copy", "dead"}   \* where a writer has no business with the log

-----------------------------------------------------------------------------
(* log_open or log_reopen, log_str, log_close *)

\* A second writer is not admitted: the file is shared for reading only.
Create(w) ==
  /\ at[w] = "create"
  /\ \E h \in Handles :
       /\ got' = [got EXCEPT ![w] = IF open = 0 THEN h ELSE 0]
       /\ open' = IF open = 0 THEN h ELSE open
  /\ shared' = (shared \/ \E v \in Writers \ {w} : at[v] \notin Outside \cup {"create"})
  /\ Goto(w, "assign")
  /\ UNCHANGED <<patching, crash, g_log, text, log, said, heap>>

\* DllMain writes and closes later.
Assign(w) ==
  /\ at[w] = "assign"
  /\ g_log' = got[w]
  /\ got' = [got EXCEPT ![w] = 0]
  /\ Goto(w, IF w = "dll" THEN "verify" ELSE "write")
  /\ UNCHANGED <<patching, crash, open, text, log, said, shared, heap>>

Write(line) ==
  /\ log' = IF g_log # 0 /\ g_log = open THEN log \cup {line} ELSE log
  /\ said' = said \cup {line}

WriteLine(w) ==
  /\ at[w] = "write"
  /\ Write(text[w])
  /\ Goto(w, "close")
  /\ UNCHANGED <<patching, crash, g_log, open, got, text, shared, heap>>

\* Deviation: the handle is forgotten and not closed.
CloseHandle_Forgotten(w) ==
  /\ at[w] = "close"
  /\ open' = open
  /\ Goto(w, "clear")
  /\ UNCHANGED <<patching, crash, g_log, got, text, log, said, shared, heap>>

CloseHandle(w) ==
  /\ at[w] = "close"
  /\ open' = IF g_log # 0 /\ g_log = open THEN 0 ELSE open
  /\ Goto(w, "clear")
  /\ UNCHANGED <<patching, crash, g_log, got, text, log, said, shared, heap>>

Invalidate(w) ==
  /\ at[w] = "clear"
  /\ g_log' = 0
  /\ \/ w \in Threads /\ Goto(w, "run")
     \/ w = "heap" /\ Goto(w, "off")
     \/ w = "dll" /\ at' = [at EXCEPT !["dll"] = "off",
                              !["heap"] = IF done = Len(Patches) THEN "loop" ELSE "off"]
  /\ text' = [text EXCEPT ![w] = <<>>]
  /\ UNCHANGED <<patching, crash, open, got, log, said, shared, heap>>

\* A writer that is about to open the log, with a line.
Log(w, line) ==
  /\ Goto(w, "create")
  /\ text' = [text EXCEPT ![w] = line]

-----------------------------------------------------------------------------
(* DllMain and apply_patches *)

Supported ==
  /\ at["dll"] = "verify"
  /\ Goto("dll", "patch")
  /\ UNCHANGED <<patching, crash, logging, heap>>

\* find_exe_profile or verify_profile_anchors fails.
Unsupported ==
  /\ at["dll"] = "verify"
  /\ Write(<<"unsupported">>) /\ Goto("dll", "close")
  /\ UNCHANGED <<patching, crash, g_log, open, got, text, shared, heap>>

Current == Patches[done + 1]

\* The place does not have the expected bytes or cannot be written.
SkipPatch ==
  /\ at["dll"] = "patch" /\ done < Len(Patches)
  /\ Write(<<"missing", Current>>)
  /\ done' = done + 1
  /\ UNCHANGED <<place, stored, stranded, crash, g_log, open, at, got, text, shared, heap>>

BeginPatch ==
  /\ at["dll"] = "patch" /\ done < Len(Patches)
  /\ place' = [place EXCEPT ![Current] = "torn"]
  /\ Goto("dll", "torn")
  /\ UNCHANGED <<stored, done, stranded, crash, logging, heap>>

\* Deviation: the address is stored when all patches are in place.
EndPatch_StoreLast ==
  /\ at["dll"] = "torn"
  /\ place' = [place EXCEPT ![Current] = "new"]
  /\ stored' = (done + 1 = Len(Patches))
  /\ done' = done + 1 /\ Goto("dll", "patch")
  /\ UNCHANGED <<stranded, crash, logging, heap>>

\* The last byte; ProcessEvent still lacks the address of its trampoline.
EndPatch ==
  /\ at["dll"] = "torn"
  /\ place' = [place EXCEPT ![Current] = "new"]
  /\ IF Current = "ProcessEvent"
       THEN Goto("dll", "store") /\ UNCHANGED done
       ELSE Goto("dll", "patch") /\ done' = done + 1
  /\ UNCHANGED <<stored, stranded, crash, logging, heap>>

StoreTrampoline ==
  /\ at["dll"] = "store"
  /\ stored' = TRUE /\ done' = done + 1
  /\ Goto("dll", "patch")
  /\ UNCHANGED <<place, stranded, crash, logging, heap>>

\* g_patch_failures and g_patch_skips count the lines of SkipPatch, written or
\* not; after log_close the heap thread is created.
Summary ==
  /\ at["dll"] = "patch" /\ done = Len(Patches)
  /\ Write(IF \E p \in ToSet(Patches) : <<"missing", p>> \in said THEN <<"incomplete">> ELSE <<"OK">>)
  /\ Goto("dll", "close")
  /\ UNCHANGED <<patching, crash, g_log, open, got, text, shared, heap>>

-----------------------------------------------------------------------------
(* patch_heap_thread *)

\* The session's host can be overwritten.
Reachable == session \in {"original", "server"}

\* Deviation: the last attempt comes too late.
HeapLook_LastUnused ==
  /\ at["heap"] = "loop" /\ attempts < MaxAttempts
  /\ attempts' = attempts + 1
  /\ aimed' = Reachable
  /\ Goto("heap", IF Reachable /\ attempts' < MaxAttempts THEN "copy" ELSE "loop")
  /\ UNCHANGED <<patching, crash, logging, session, sessions, spoiled>>

\* Sleep, then a look: without a session (or where its pointer cannot be read),
\* or with one whose buffer cannot be written yet, the next attempt.
HeapLook ==
  /\ at["heap"] = "loop" /\ attempts < MaxAttempts
  /\ attempts' = attempts + 1
  /\ aimed' = Reachable
  /\ Goto("heap", IF Reachable THEN "copy" ELSE "loop")
  /\ UNCHANGED <<patching, crash, logging, session, sessions, spoiled>>

\* The host is copied to where the session was seen.  If that session has ended,
\* the next one may be there, or memory of something else, or none.
HeapCopy ==
  /\ at["heap"] = "copy"
  /\ \/ (aimed \/ session = "original") /\ session' = "server" /\ UNCHANGED spoiled
     \/ ~aimed /\ spoiled' = TRUE /\ UNCHANGED session
  /\ Log("heap", <<"connected">>)
  /\ UNCHANGED <<patching, crash, g_log, open, got, log, said, shared, attempts, sessions, aimed>>

HeapGivesUp ==
  /\ at["heap"] = "loop" /\ attempts = MaxAttempts
  /\ Log("heap", <<"not found">>)
  /\ UNCHANGED <<patching, crash, g_log, open, got, log, said, shared, heap>>

-----------------------------------------------------------------------------
(* The game *)

SessionStarts ==
  /\ crash = Running /\ session = "none" /\ sessions < MaxSessions
  /\ session' = "forming" /\ sessions' = sessions + 1
  /\ UNCHANGED <<patching, crash, at, logging, attempts, aimed, spoiled>>

SessionReady ==
  /\ crash = Running /\ session = "forming"
  /\ session' = "original"
  /\ UNCHANGED <<patching, crash, at, logging, attempts, sessions, aimed, spoiled>>

SessionEnds ==
  /\ crash = Running /\ session # "none"
  /\ session' = "none" /\ aimed' = FALSE
  /\ UNCHANGED <<patching, crash, at, logging, attempts, sessions, spoiled>>

\* A thread of the game is stopped among the bytes that are being written.
StopsInside(p) ==
  /\ crash = Running /\ place[p] = "torn"
  /\ stranded' = stranded \cup {p}
  /\ UNCHANGED <<place, stored, done, crash, at, logging, heap>>

\* The process is gone with its threads, handles and memory; the file stays.
Crash(how, p) ==
  /\ crash = Running /\ crash' = [how |-> how, where |-> p]
  /\ at' = [w \in Writers |-> "dead"]
  /\ g_log' = 0 /\ open' = 0 /\ got' = [w \in Writers |-> 0] /\ text' = [w \in Writers |-> <<>>]
  /\ session' = "none" /\ sessions' = 0 /\ attempts' = 0 /\ aimed' = FALSE /\ spoiled' = FALSE
  /\ UNCHANGED <<patching, log, said, shared>>

\* A call of a place half patched, or of ProcessEvent before its trampoline.
CallCrashes(p) ==
  /\ place[p] = "torn" \/ (p = "ProcessEvent" /\ place[p] = "new" /\ ~stored)
  /\ Crash("call", p)

\* The stopped thread goes on in the middle of new instructions, whenever it does.
StrandedCrashes(p) == p \in stranded /\ Crash("stranded", p)

\* The code copied from ProcessEvent ends with a short jump that is not relocated:
\* when the game's global it tests is null, the jump leaves the trampoline.
JumpCrashes ==
  /\ place["ProcessEvent"] = "new" /\ stored
  /\ Crash("jump", "ProcessEvent")

\* What lay where the session had been is used.
SpoiledCrashes == spoiled /\ Crash("memory", "none")

\* The first RestartLevel that is redirected is logged.
Redirect(t) ==
  /\ at[t] = "run" /\ place["ProcessEvent"] = "new" /\ stored
  /\ <<"redirected">> \notin said \cup {text[u] : u \in Threads}
  /\ Log(t, <<"redirected">>)
  /\ UNCHANGED <<patching, crash, g_log, open, got, log, said, shared, heap>>

\* The transport hook sees a PUT that failed.
Warn(t) ==
  /\ at[t] = "run" /\ place["FeslConnUpdate"] = "new"
  /\ \E i \in 1 .. MaxWarnings :
       /\ <<"warning", i>> \notin said \cup {text[u] : u \in Threads}
       /\ \A j \in 1 .. i - 1 : <<"warning", j>> \in said \cup {text[u] : u \in Threads}
       /\ Log(t, <<"warning", i>>)
  /\ UNCHANGED <<patching, crash, g_log, open, got, log, said, shared, heap>>

-----------------------------------------------------------------------------
Init ==
  /\ place = [p \in ToSet(Patches) |-> "old"] /\ stored = FALSE /\ done = 0
  /\ stranded = {} /\ crash = Running
  /\ g_log = 0 /\ open = 0 /\ got = [w \in Writers |-> 0]
  /\ text = [w \in Writers |-> <<>>]
  /\ log = {} /\ said = {} /\ shared = FALSE
  /\ at = [w \in Writers |-> CASE w = "dll" -> "create" [] w = "heap" -> "off" [] OTHER -> "run"]
  /\ attempts = 0 /\ session = "none" /\ sessions = 0 /\ aimed = FALSE /\ spoiled = FALSE

UseLog(w) == Create(w) \/ Assign(w) \/ WriteLine(w) \/ CloseHandle(w) \/ Invalidate(w)

Dll ==
  \/ Supported \/ Unsupported
  \/ SkipPatch \/ BeginPatch \/ EndPatch \/ StoreTrampoline \/ Summary

Heap == HeapLook \/ HeapCopy \/ HeapGivesUp

Game ==
  \/ SessionStarts \/ SessionReady \/ SessionEnds
  \/ \E p \in ToSet(Patches) : StopsInside(p) \/ CallCrashes(p) \/ StrandedCrashes(p)
  \/ JumpCrashes \/ SpoiledCrashes
  \/ \E t \in Threads : Redirect(t) \/ Warn(t)

Next == Dll \/ Heap \/ Game \/ \E w \in Writers : UseLog(w)

\* The threads of the DLL are scheduled.
Fairness == WF_vars(Dll \/ UseLog("dll")) /\ WF_vars(Heap \/ UseLog("heap"))

Spec == Init /\ [][Next]_vars /\ Fairness
-----------------------------------------------------------------------------
(* Properties *)

\* A call crashes only in the place that DllMain is patching at that moment;
\* whatever was patched, skipped or failed before, a call reaches the game's code
\* or a hook that has all it needs.  Later the start can still crash the game in
\* three ways, which these claims leave open: a thread that was stopped among the
\* bytes goes on, the jump copied from ProcessEvent is taken, or the heap thread
\* wrote to a session that had ended.  But neither a call nor one of the first two
\* ever crashes in a place that DllMain has reported as skipped or failed.
CallsCrashOnlyWhilePatching ==
  [][crash' # crash =>
       /\ crash'.how = "call" => at["dll"] \in {"torn", "store"} /\ crash'.where = Current
       /\ <<"missing", crash'.where>> \notin said]_vars

\* Unless two writers had the log at once, every line is in the file and the
\* file is closed whenever no writer is in it; and even then the file never
\* says that the patches are all right when one of them is missing.
LogTellsUnlessShared ==
  /\ ~shared => /\ log = said
                /\ (\A w \in Writers : at[w] \in Outside \cup {"create"}) => open = 0
  /\ <<"OK">> \in log => \A p \in ToSet(Patches) : place[p] = "new"

\* A session whose host can be written while the heap thread still has an attempt,
\* and that stays, gets the server's host, in the middle of whatever the hooks do to the log.
SessionIsRedirected ==
  (session = "original" /\ at["heap"] = "loop" /\ attempts < MaxAttempts)
    ~> (session # "original" \/ crash # Running)
=============================================================================
