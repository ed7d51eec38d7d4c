----------------------------- MODULE TickDetour -----------------------------
(***************************************************************************)
(* The hook on FeslConnection::Tick in client/dll/MedgeNetClient.c: while  *)
(* the game loads, UE3 stops calling ProcessTick and the transport tick    *)
(* calls it instead (detour_FeslConnUpdate, capture_ProcessTick), and the  *)
(* completion of a ghost PUT is delivered again (diag_locker_state).       *)
(*                                                                         *)
(* All of this runs on one thread, between and inside the frames of the    *)
(* game: the state is its call stack and the globals of the hooks.  The    *)
(* game itself is external.  It starts frames when it likes, or never,     *)
(* ticks the transport between frames and inside them, and wherever it has *)
(* control its file locker may take up and finish requests and the busy    *)
(* flag may be set.  Assumed of it: no transport tick inside a locker      *)
(* callback, and a result that only a PUT sets.                            *)
(***************************************************************************)
EXTENDS Naturals, Sequences, SequencesExt

CONSTANTS Threshold, \* PT_STALE_THRESHOLD
          MaxNested, \* bound: transport ticks in a row inside one frame
          MaxPuts    \* bound: PUT requests

ASSUME DetourAssumption ==
  /\ Threshold \in Nat \ {0} /\ MaxPuts \in Nat /\ MaxNested \in Nat

VARIABLES stack,    \* the calls in progress, the innermost last
          inTick,   \* g_in_process_tick
          captured, \* g_process_tick_ecx is not null
          unseen,   \* g_pt_counter differs from g_pt_last_seen
          stale,    \* g_pt_stale, at most Threshold
          busy,     \* the busy flag of the GOSManager is not zero
          prev,     \* g_locker_prev_state
          locker,   \* the state of the file locker: state 5 is "put"
          result,   \* its lastResult: 4 is "stored"
          put,      \* history: the number of the latest PUT
          stored,   \* history: the PUTs that succeeded
          replays,  \* history: the PUTs whose callback was called again
          quiet,    \* history: guarded ticks since UE3 last began a frame, capped
          nested    \* ticks inside the current frame since it or one within it began

hook    == <<inTick, captured, unseen, stale>>
request == <<locker, result, put, stored>>
replay  == <<prev, replays>>
vars    == <<stack, hook, busy, replay, request, quiet, nested>>

Lockers == {"absent", "idle", "get", "put"}
Frames  == {"frame", "pumped"}
Detours == {"http", "diag", "callback", "stale", "pump", "original"}

Top == IF stack = <<>> THEN "game" ELSE Last(stack)

\* The innermost call continues at the given point; it calls; it returns.
Goto(point) == stack' = Append(Front(stack), point)
Call(point) == stack' = Append(stack, point)
Return == stack' = Front(stack)

-----------------------------------------------------------------------------
(* detour_FeslConnUpdate *)

\* A tick inside a ProcessTick that the detour itself has called.
EnterReentrant ==
  /\ inTick
  /\ Call("original")
  /\ UNCHANGED <<busy, quiet>>

\* Deviation: a tick inside a ProcessTick of the detour is like any other.
EnterGuarded_Always ==
  /\ busy' = FALSE
  /\ Call("http")
  /\ quiet' = IF quiet > Threshold THEN quiet ELSE quiet + 1

EnterGuarded ==
  /\ ~inTick
  /\ busy' = FALSE
  /\ Call("http")
  /\ quiet' = IF quiet > Threshold THEN quiet ELSE quiet + 1

Enter ==
  /\ Top = "game" \/ (Top \in Frames /\ nested < MaxNested)
  /\ nested' = IF Top = "game" THEN nested ELSE nested + 1
  /\ EnterReentrant \/ EnterGuarded
  /\ UNCHANGED <<hook, replay, request>>

\* tick_http_locker: what ProtoHttpUpdate does is the game's (below).
TickHttpLocker ==
  /\ Top = "http"
  /\ Goto("diag")
  /\ UNCHANGED <<hook, busy, replay, request, quiet, nested>>

Completed == locker = "idle" /\ prev # "idle"

NoLocker ==
  /\ Top = "diag" /\ locker = "absent"
  /\ Goto("stale")
  /\ UNCHANGED <<hook, busy, replay, request, quiet, nested>>

Sample ==
  /\ Top = "diag" /\ locker # "absent" /\ ~Completed
  /\ prev' = locker
  /\ Goto("stale")
  /\ UNCHANGED <<hook, busy, replays, request, quiet, nested>>

\* The PUT was seen in flight and has succeeded: its callback is called, and
\* only when it returns is the completion taken as seen.
Replay ==
  /\ Top = "diag" /\ Completed /\ prev = "put" /\ result = "stored"
  /\ replays' = Append(replays, put)
  /\ Goto("callback")
  /\ UNCHANGED <<hook, busy, prev, request, quiet, nested>>

\* Deviation: the completion is not marked as seen.
ReplayReturns_Forgets ==
  /\ Top = "callback"
  /\ Goto("stale")
  /\ UNCHANGED <<hook, busy, replay, request, quiet, nested>>

ReplayReturns ==
  /\ Top = "callback"
  /\ prev' = "idle"
  /\ Goto("stale")
  /\ UNCHANGED <<hook, busy, replays, request, quiet, nested>>

\* Nothing to replay, or the callback of the locker is null or unreadable.
NoReplay ==
  /\ Top = "diag" /\ Completed
  /\ prev' = "idle"
  /\ Goto("stale")
  /\ UNCHANGED <<hook, busy, replays, request, quiet, nested>>

NextStale == IF stale < Threshold THEN stale + 1 ELSE stale

\* Deviation: the stale ticks are counted over frames.
CounterMoved_KeepsStale ==
  /\ Top = "stale" /\ unseen
  /\ unseen' = FALSE
  /\ stale' = stale
  /\ Goto("original")
  /\ UNCHANGED <<inTick, captured, busy, replay, request, quiet, nested>>

\* UE3 has run a frame since the last look.
CounterMoved ==
  /\ Top = "stale" /\ unseen
  /\ unseen' = FALSE
  /\ stale' = 0
  /\ Goto("original")
  /\ UNCHANGED <<inTick, captured, busy, replay, request, quiet, nested>>

\* Not stale for long enough, or nothing to call ProcessTick on.
CounterStale ==
  /\ Top = "stale" /\ ~unseen
  /\ stale' = NextStale
  /\ NextStale < Threshold \/ ~captured
  /\ Goto("original")
  /\ UNCHANGED <<inTick, captured, unseen, busy, replay, request, quiet, nested>>

\* ProcessTick through its trampoline, in place of the original tick: the
\* capture stub, and with it g_pt_counter, is not involved.
Pump ==
  /\ Top = "stale" /\ ~unseen
  /\ stale' = NextStale
  /\ NextStale >= Threshold /\ captured
  /\ inTick' = TRUE
  /\ stack' = Front(stack) \o <<"pump", "pumped">>
  /\ nested' = 0
  /\ UNCHANGED <<captured, unseen, busy, replay, request, quiet>>

\* Deviation: g_in_process_tick is left set.
PumpReturns_KeepsGuard ==
  /\ Top = "pumped"
  /\ stack' = Front(Front(stack))
  /\ UNCHANGED <<hook, busy, replay, request, quiet, nested>>

\* ProcessTick returns to the detour, and the detour to its caller.
PumpReturns ==
  /\ Top = "pumped"
  /\ inTick' = FALSE
  /\ stack' = Front(Front(stack))
  /\ UNCHANGED <<captured, unseen, stale, busy, replay, request, quiet, nested>>

OriginalReturns ==
  /\ Top = "original"
  /\ Return
  /\ UNCHANGED <<hook, busy, replay, request, quiet, nested>>

-----------------------------------------------------------------------------
(* The game *)

\* capture_ProcessTick, and on into the frame.
FrameStarts ==
  /\ Top = "game"
  /\ captured' = TRUE
  /\ unseen' = TRUE
  /\ Call("frame")
  /\ quiet' = 0
  /\ nested' = 0
  /\ UNCHANGED <<inTick, stale, busy, replay, request>>

FrameReturns ==
  /\ Top = "frame"
  /\ Return
  /\ UNCHANGED <<hook, busy, replay, request, quiet, nested>>

InGame == Top \in Frames \cup {"game", "http", "callback", "original"}

\* A transaction is submitted, or a stat read leaves the flag behind.
GameSetsBusy ==
  /\ InGame
  /\ busy' = TRUE
  /\ UNCHANGED <<stack, hook, replay, request, quiet, nested>>

LockerCreated ==
  /\ InGame /\ locker = "absent"
  /\ locker' = "idle"
  /\ UNCHANGED <<stack, hook, busy, replay, result, put, stored, quiet, nested>>

PutStarts ==
  /\ InGame /\ locker = "idle" /\ put < MaxPuts
  /\ locker' = "put" /\ put' = put + 1
  /\ UNCHANGED <<stack, hook, busy, replay, result, stored, quiet, nested>>

PutEnds ==
  /\ InGame /\ locker = "put"
  /\ locker' = "idle"
  /\ \/ result' = "stored" /\ stored' = stored \cup {put}
     \/ result' = "failed" /\ stored' = stored
  /\ UNCHANGED <<stack, hook, busy, replay, put, quiet, nested>>

GetStarts ==
  /\ InGame /\ locker = "idle"
  /\ locker' = "get"
  /\ UNCHANGED <<stack, hook, busy, replay, result, put, stored, quiet, nested>>

GetEnds ==
  /\ InGame /\ locker = "get"
  /\ locker' = "idle"
  /\ UNCHANGED <<stack, hook, busy, replay, result, put, stored, quiet, nested>>

-----------------------------------------------------------------------------
Init ==
  /\ stack = <<>>
  /\ inTick = FALSE /\ captured = FALSE /\ unseen = FALSE /\ stale = 0
  /\ busy \in BOOLEAN
  /\ prev = "idle"
  /\ locker = "absent" /\ result = "failed"
  /\ put = 0 /\ stored = {} /\ replays = <<>>
  /\ quiet = 0 /\ nested = 0

Detour == \/ TickHttpLocker
          \/ NoLocker \/ Sample \/ Replay \/ ReplayReturns \/ NoReplay
          \/ CounterMoved \/ CounterStale \/ Pump

Locker == LockerCreated \/ PutStarts \/ PutEnds \/ GetStarts \/ GetEnds

Next == Enter \/ Detour \/ PumpReturns \/ OriginalReturns
        \/ FrameStarts \/ FrameReturns \/ GameSetsBusy \/ Locker

Spec == Init /\ [][Next]_vars

\* The timer keeps ticking the transport between frames and the code that is
\* called returns; nothing makes UE3 start a frame.
Fairness == /\ SF_vars(Enter /\ Top = "game") /\ WF_vars(Detour)
            /\ WF_vars(PumpReturns) /\ WF_vars(OriginalReturns) /\ WF_vars(FrameReturns)

FairSpec == Spec /\ Fairness
-----------------------------------------------------------------------------
(* Properties *)

InProgress(points) == {i \in DOMAIN stack : stack[i] \in points}

\* The detour never calls ProcessTick inside a ProcessTick that it has called,
\* whatever ticks come in between, and g_in_process_tick is set exactly while
\* such a call runs.  Nothing guards a frame of UE3: inside it ProcessTick is
\* entered again, but only when that frame lasts for more than Threshold ticks.
ReentersOnlyLongFrames ==
  /\ \A i, j \in InProgress({"pumped"}) : i = j
  /\ inTick <=> InProgress({"pumped"}) # {}
  /\ \A i, j \in InProgress(Frames) : i # j => quiet > Threshold

\* The detour takes over only when UE3 has begun no frame for more than
\* Threshold ticks, and calls ProcessTick on an object that UE3 has used.
PumpsOnlyWhenStale ==
  InProgress({"pumped"}) # {} => captured /\ quiet > Threshold

\* The callback is called again only for a PUT that succeeded and at most once
\* for each, whatever requests come and go between two ticks.
ReplaysAreCompletions ==
  /\ IsInjective(replays)
  /\ Range(replays) \subseteq stored

\* Once UE3 has run, ProcessTick never stops being called, even when the game
\* loads for ever, and a busy flag left behind is always cleared again: the
\* transactions that wait for either do not deadlock.
ProcessTickKeepsRunning ==
  /\ captured ~> InProgress(Frames) # {}
  /\ busy ~> ~busy
=============================================================================
