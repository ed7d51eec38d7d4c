---------------------------- MODULE RestartRace ----------------------------
(***************************************************************************)
(* The hook on UE3's ProcessEvent in client/dll/MedgeNetClient.c: in a     *)
(* race of one player, RestartLevel is replaced by RestartRace             *)
(* (detour_ProcessEvent), once both functions have been found among the    *)
(* objects of the game (ue_resolve_restart_functions).                     *)
(*                                                                         *)
(* ProcessEvent is re-entrant: what a script function does calls it again. *)
(* The state is the call stack of each thread, the guard all calls share   *)
(* and what has been found.  The game is external: it calls ProcessEvent   *)
(* when it likes, loads packages one by one, and goes from level to level. *)
(* The hook is in place and install_restartlevel_race_fix has returned.    *)
(***************************************************************************)
EXTENDS Naturals, Sequences, SequencesExt

CONSTANTS Threads,
          ResolveEvery, \* calls from one search of the objects to the next: 256
          Width,        \* of g_restart_fix_resolve_attempts: 2^32
          MaxDepth      \* bound: calls of ProcessEvent inside each other

ASSUME RestartAssumption ==
  /\ ResolveEvery \in Nat \ {0} /\ MaxDepth \in Nat \ {0}
  /\ Width \in Nat \ {0, 1} /\ Width % ResolveEvery = 0

VARIABLES stack,    \* of each thread, the calls in progress, the innermost last
          guard,    \* g_restart_fix_in_process_event
          found,    \* the functions that are resolved
          attempts, \* g_restart_fix_resolve_attempts
          loaded,   \* of the two functions, those the game has loaded
          race,     \* the game of the current world is a TdSPLevelRace
          late      \* history: calls that did not find what was loaded

hook  == <<guard, found, attempts, late>>
world == <<loaded, race>>
vars  == <<stack, hook, world>>

Both == {"RestartLevel", "RestartRace"}
Functions == Both \cup {"Other"}

\* A call is looked at under the guard, or runs a function of the game: the one
\* it was made for or RestartRace instead.
Guarded == {"resolve", "check", "redirect"}
Running == {"original", "redirect"}
Call == [function : Functions, at : Guarded \cup Running]

Top(t) == Last(stack[t])
At(t, point) == stack[t] # <<>> /\ Top(t).at = point

Goto(t, point) ==
  stack' = [stack EXCEPT ![t] = Append(Front(@), [Top(t) EXCEPT !.at = point])]

Push(t, function, point) ==
  stack' = [stack EXCEPT ![t] = Append(@, [function |-> function, at |-> point])]

\* InterlockedExchange, and on to the original function.
Release(t) ==
  /\ guard' = FALSE
  /\ Goto(t, "original")

-----------------------------------------------------------------------------
CanCall(t) ==
  /\ stack[t] # <<>> => Top(t).at \in Running
  /\ Len(stack[t]) < MaxDepth

\* Deviation: the guard is not looked at.
Enter_Unguarded(t, function) ==
  /\ CanCall(t)
  /\ guard' = TRUE
  /\ Push(t, function, "resolve")
  /\ UNCHANGED <<found, attempts, late, world>>

\* InterlockedCompareExchange: the guard was free and is taken.
Enter(t, function) ==
  /\ CanCall(t) /\ ~guard
  /\ guard' = TRUE
  /\ Push(t, function, "resolve")
  /\ UNCHANGED <<found, attempts, late, world>>

\* The guard is held, by a call further out or by another thread.
PassThrough(t, function) ==
  /\ CanCall(t) /\ guard
  /\ Push(t, function, "original")
  /\ UNCHANGED <<hook, world>>

Throttled == found # Both /\ attempts > 0 /\ attempts % ResolveEvery # 0

CountAttempt == attempts' = (attempts + 1) % Width

\* Deviation: only a search counts as an attempt.
ResolveThrottled_Uncounted(t) ==
  /\ At(t, "resolve") /\ Throttled
  /\ late' = IF loaded = Both THEN late + 1 ELSE late
  /\ Release(t)
  /\ UNCHANGED <<found, attempts, world>>

ResolveThrottled(t) ==
  /\ At(t, "resolve") /\ Throttled
  /\ CountAttempt
  /\ late' = IF loaded = Both THEN late + 1 ELSE late
  /\ Release(t)
  /\ UNCHANGED <<found, world>>

\* ue_find_function, for what is missing.
Resolve(t) ==
  /\ At(t, "resolve") /\ ~Throttled
  /\ CountAttempt
  /\ found' = found \cup loaded
  /\ IF found' = Both /\ Top(t).function = "RestartLevel"
       THEN Goto(t, "check") /\ guard' = guard
       ELSE Release(t)
  /\ UNCHANGED <<late, world>>

\* ue_current_level_race_game has found none.
NoRace(t) ==
  /\ At(t, "check") /\ ~race
  /\ Release(t)
  /\ UNCHANGED <<found, attempts, late, world>>

Redirect(t) ==
  /\ At(t, "check") /\ race
  /\ Goto(t, "redirect")
  /\ UNCHANGED <<hook, world>>

\* Deviation: the guard is not released.
RedirectReturns_KeepsGuard(t) ==
  /\ At(t, "redirect")
  /\ stack' = [stack EXCEPT ![t] = Front(@)]
  /\ UNCHANGED <<hook, world>>

RedirectReturns(t) ==
  /\ At(t, "redirect")
  /\ guard' = FALSE
  /\ stack' = [stack EXCEPT ![t] = Front(@)]
  /\ UNCHANGED <<found, attempts, late, world>>

OriginalReturns(t) ==
  /\ At(t, "original")
  /\ stack' = [stack EXCEPT ![t] = Front(@)]
  /\ UNCHANGED <<hook, world>>

-----------------------------------------------------------------------------
(* The game *)

Load(function) ==
  /\ loaded' = loaded \cup {function}
  /\ UNCHANGED <<stack, hook, race>>

ChangeWorld ==
  /\ race' = ~race
  /\ UNCHANGED <<stack, hook, loaded>>

\* The hook's installation looks once itself.
Init ==
  /\ stack = [t \in Threads |-> <<>>]
  /\ guard = FALSE
  /\ loaded \in SUBSET Both /\ found = loaded
  /\ attempts = 1
  /\ race \in BOOLEAN
  /\ late = 0

ProcessEvent(t) ==
  \/ \E function \in Functions : Enter(t, function) \/ PassThrough(t, function)
  \/ ResolveThrottled(t) \/ Resolve(t)
  \/ NoRace(t) \/ Redirect(t)
  \/ RedirectReturns(t) \/ OriginalReturns(t)

Next == \/ \E t \in Threads : ProcessEvent(t)
        \/ \E function \in Both : Load(function)
        \/ ChangeWorld

Spec == Init /\ [][Next]_vars
-----------------------------------------------------------------------------
(* Properties *)

GuardedCalls == {c \in Threads \X (1 .. MaxDepth) :
                   c[2] <= Len(stack[c[1]]) /\ stack[c[1]][c[2]].at \in Guarded}

\* A restart is not redirected again from inside the restart it caused, which
\* would not end: the guard is held exactly while one call, on whatever thread
\* and however deep, is looked at or runs RestartRace in its place.
NoRedirectInRedirect ==
  /\ \A c, d \in GuardedCalls : c = d
  /\ guard <=> GuardedCalls # {}

Passed(t) == /\ Len(stack'[t]) >= Len(stack[t])
             /\ stack'[t] # stack[t]
             /\ Last(stack'[t]).at = "original"

\* Once both functions are known, a player who restarts in a race restarts the
\* race: the call gets through unchanged only while another one holds the guard.
RestartsAreRedirected ==
  [][\A t \in Threads :
       Passed(t) /\ Last(stack'[t]).function = "RestartLevel" /\ found = Both /\ race
         => \E c \in GuardedCalls : c # <<t, Len(stack'[t])>>]_vars

\* The search of all objects is made rarely but not never: when both functions
\* are loaded, fewer than ResolveEvery calls go by before they are found, also
\* when the count of attempts overflows.
FoundSoonAfterLoading == late < ResolveEvery
=============================================================================
