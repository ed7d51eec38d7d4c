------------------------------ MODULE Launcher ------------------------------
(***************************************************************************)
(* The launcher: the worker that waits for the game, injects the client    *)
(* DLL and waits for the game's end, and the window that shows its status  *)
(* (client/launcher/MedgeNetLauncher.cpp).                                 *)
(*                                                                         *)
(* The game is a process beside it that starts, gets ready and ends at any *)
(* moment; the worker knows it by its process id, which a later game may   *)
(* have too while no handle to the former is open, and by a handle, which  *)
(* stays with the game it was opened for.                                  *)
(* A game may have the DLL from an earlier run of the launcher.  One game  *)
(* runs at a time.  Status texts are posted to the window's queue.         *)
(***************************************************************************)
EXTENDS Naturals, Sequences

CONSTANTS Pids,      \* bound: process ids of games
          MaxPosted  \* bound: status texts in the window's queue

ASSUME LauncherAssumption == 0 \notin Pids /\ MaxPosted \in Nat \ {0, 1}

VARIABLES game,    \* the game, or the last one
          worker,  \* where injector_thread is
          pid,     \* what find_process returned
          handle,  \* the open handle: "none", or whether its game lives
          waiting, \* g_waiting
          posted,  \* WM_STATUS messages on their way
          status   \* what the window shows

lvars == <<game, worker, pid, handle, waiting, posted, status>>

NoGame == [alive |-> FALSE, pid |-> 0, access |-> FALSE, ready |-> FALSE,
           loaded |-> FALSE, refused |-> FALSE]

\* What has_module sees of a process id.
Alive(p) == game.alive /\ game.pid = p

-----------------------------------------------------------------------------
(* The game *)

\* access: whether the launcher may open it.
GameStarts ==
  /\ ~game.alive
  /\ \E p \in Pids, a, l \in BOOLEAN :
       /\ handle = "none" \/ p # pid
       /\ game' = [NoGame EXCEPT !.alive = TRUE, !.pid = p, !.access = a, !.loaded = l]
  /\ UNCHANGED <<worker, pid, handle, waiting, posted, status>>

\* It has loaded openal32.dll or d3d9.dll.
GameReady ==
  /\ game.alive /\ ~game.ready
  /\ game' = [game EXCEPT !.ready = TRUE]
  /\ UNCHANGED <<worker, pid, handle, waiting, posted, status>>

GameEnds ==
  /\ game.alive
  /\ game' = NoGame
  /\ handle' = IF handle = "none" THEN "none" ELSE "ended"
  /\ UNCHANGED <<worker, pid, waiting, posted, status>>

-----------------------------------------------------------------------------
(* injector_thread *)

\* PostMessage; a window that is gone takes nothing.
Post(texts) ==
  /\ Len(posted) + Len(texts) <= MaxPosted
  /\ posted' = IF waiting THEN posted \o texts ELSE posted

Step(to) == worker' = to

\* The loop's condition, and find_process.
FindGame ==
  /\ worker = "find" /\ waiting /\ game.alive
  /\ pid' = game.pid /\ Step("open")
  /\ UNCHANGED <<game, handle, waiting, posted, status>>

\* No game runs, or the snapshot or its first entry failed.
FindNothing ==
  /\ worker = "find" /\ waiting
  /\ pid' = 0
  /\ UNCHANGED <<game, worker, handle, waiting, posted, status>>

Stop ==
  /\ worker = "find" /\ ~waiting
  /\ Step("stopped")
  /\ UNCHANGED <<game, pid, handle, waiting, posted, status>>

OpenProcess ==
  /\ worker = "open"
  /\ IF Alive(pid) /\ game.access
       THEN handle' = "alive" /\ Step("check") /\ UNCHANGED posted
       ELSE Post(<<"needs access">>) /\ Step("find") /\ UNCHANGED handle
  /\ UNCHANGED <<game, pid, waiting, status>>

\* wait_for_process_exit begins.
Attach(text) == Post(<<text, "running in-game">>) /\ Step("attached")

\* has_module for the client's DLL; a snapshot that fails sees none.
AlreadyLoaded ==
  /\ worker = "check" /\ Alive(pid) /\ game.loaded
  /\ Attach("already running")
  /\ UNCHANGED <<game, pid, handle, waiting, status>>

NotLoaded ==
  /\ worker = "check"
  /\ Step("ready?")
  /\ UNCHANGED <<game, pid, handle, waiting, posted, status>>

Ready ==
  /\ worker = "ready?" /\ Alive(pid) /\ game.ready
  /\ Step("inject")
  /\ UNCHANGED <<game, pid, handle, waiting, posted, status>>

NotReady ==
  /\ worker = "ready?"
  /\ handle' = "none" /\ Post(<<"preparing">>) /\ Step("find")
  /\ UNCHANGED <<game, pid, waiting, status>>

\* inject_dll: the path is written and LoadLibrary started in the game.
Inject ==
  /\ worker = "inject" /\ handle = "alive"
  /\ Step("loading")
  /\ UNCHANGED <<game, pid, handle, waiting, posted, status>>

\* Deviation: after a failure, too, it waits for the end of the game.
InjectFails_Attached ==
  /\ worker = "inject"
  /\ Attach("retrying")
  /\ UNCHANGED <<game, pid, handle, waiting, status>>

InjectFails ==
  /\ worker = "inject"
  /\ handle' = "none" /\ Post(<<"retrying">>) /\ Step("find")
  /\ UNCHANGED <<game, pid, waiting, status>>

\* The remote thread ends, with the DLL, without it, or with the game; which
\* one, inject_dll does not ask.
Loaded ==
  /\ worker = "loading"
  /\ IF handle = "ended" THEN UNCHANGED game
     ELSE \/ game' = [game EXCEPT !.loaded = TRUE]
          \/ ~game.loaded /\ game' = [game EXCEPT !.refused = TRUE]
  /\ Attach("ready")
  /\ UNCHANGED <<pid, handle, waiting, status>>

\* Deviation: after the game has ended the status stays as it is.
Detach_Silent ==
  /\ worker = "attached" /\ (~waiting \/ handle = "ended")
  /\ handle' = "none" /\ Step("find")
  /\ UNCHANGED <<game, pid, waiting, posted, status>>

\* The game has ended, or the launcher is being closed.
Detach ==
  /\ worker = "attached" /\ (~waiting \/ handle = "ended")
  /\ handle' = "none" /\ Post(<<"not running">>) /\ Step("find")
  /\ UNCHANGED <<game, pid, waiting, status>>

-----------------------------------------------------------------------------
(* The window *)

ShowStatus ==
  /\ waiting /\ posted # <<>>
  /\ status' = Head(posted) /\ posted' = Tail(posted)
  /\ UNCHANGED <<game, worker, pid, handle, waiting>>

\* WM_COMMAND, IDC_SAVE: save_config uses the status line for an answer of its own.
SaveConfig ==
  /\ waiting
  /\ status' = "saved"
  /\ UNCHANGED <<game, worker, pid, handle, waiting, posted>>

\* WM_DESTROY
Destroy ==
  /\ waiting
  /\ waiting' = FALSE /\ posted' = <<>>
  /\ UNCHANGED <<game, worker, pid, handle, status>>

\* What injector_thread posts first: without the debug privilege, a warning.
Greetings == {<<"not running">>, <<"limited access", "not running">>}

\* WinMain returns and takes the worker with it, wherever it is, but not the
\* LoadLibrary that runs in the game; the user starts the launcher anew.
Relaunch ==
  /\ ~waiting
  /\ waiting' = TRUE /\ posted' \in Greetings /\ status' = "not running"
  /\ worker' = "find" /\ pid' = 0 /\ handle' = "none"
  /\ \/ UNCHANGED game
     \/ worker = "loading" /\ handle = "alive" /\ game' = [game EXCEPT !.loaded = TRUE]

LInit ==
  /\ game = NoGame /\ worker = "find" /\ pid = 0 /\ handle = "none"
  /\ waiting = TRUE /\ posted \in Greetings /\ status = "not running"

Worker ==
  \/ FindGame \/ FindNothing \/ Stop \/ OpenProcess \/ AlreadyLoaded \/ NotLoaded
  \/ Ready \/ NotReady \/ Inject \/ InjectFails \/ Loaded \/ Detach

LNext ==
  \/ GameStarts \/ GameReady \/ GameEnds
  \/ Worker \/ ShowStatus \/ SaveConfig \/ Destroy \/ Relaunch

\* The worker and the window run; snapshots and injections do not fail for ever.
LFairness ==
  /\ WF_lvars(Worker) /\ WF_lvars(ShowStatus)
  /\ SF_lvars(FindGame) /\ SF_lvars(Ready) /\ SF_lvars(Inject)

LSpec == LInit /\ [][LNext]_lvars /\ LFairness
-----------------------------------------------------------------------------
(* Properties *)

\* Once the window has caught up, it says that MedgeNet runs in the game only
\* while the worker holds a game (wait_for_process_exit), and while it holds one
\* it says so, unless the user has saved the settings since, which overwrites
\* that line until the game ends; and a living game that is held has the DLL,
\* unless LoadLibrary refused it, which inject_dll does not notice.
StatusIsEarned ==
  waiting /\ posted = <<>> =>
    /\ status = "running in-game" => worker = "attached"
    /\ worker = "attached" => status \in {"running in-game", "saved"}
    /\ worker = "attached" /\ handle = "alive" => game.loaded \/ game.refused

\* A game the launcher may open and that is ready gets the DLL, whatever the
\* worker was doing when it started, unless LoadLibrary refuses; and when a game
\* that is held ends, the window says so or finds the next one.
GameIsServed ==
  /\ (game.alive /\ game.access /\ game.ready)
       ~> (game.loaded \/ game.refused \/ ~game.alive \/ ~waiting)
  /\ (worker = "attached" /\ handle = "ended")
       ~> (status = "not running" \/ game.alive \/ ~waiting)
=============================================================================
