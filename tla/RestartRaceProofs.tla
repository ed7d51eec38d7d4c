-------------------------- MODULE RestartRaceProofs --------------------------
(***************************************************************************)
(* Theorems about RestartRace, for any number of threads, any depth of     *)
(* calls inside each other and any counter.                                *)
(*                                                                         *)
(* The first property is inductive once the stacks are known to be stacks: *)
(* only the innermost call of a thread ever changes, and a new one is      *)
(* looked at only when the guard is free, which says that no other call    *)
(* is.  The second follows from it, call by call.  The third counts: the   *)
(* calls that have looked in vain for what is loaded are fewer than the    *)
(* attempts since the last multiple of ResolveEvery (LateInv).             *)
(***************************************************************************)
EXTENDS RestartRace, SequenceTheorems, TLAPS

Stacks ==
  /\ DOMAIN stack = Threads
  /\ \A t \in Threads : stack[t] \in Seq(Call) /\ Len(stack[t]) <= MaxDepth

\* The i-th call of a thread is looked at under the guard or runs RestartRace.
Held(t, i) == i <= Len(stack[t]) /\ stack[t][i].at \in Guarded

Depths == 1 .. MaxDepth

\* The property, call by call.
HeldOnce == \A t, u \in Threads : \A i, j \in Depths : Held(t, i) /\ Held(u, j) => t = u /\ i = j
HeldFor  == guard <=> \E t \in Threads : \E i \in Depths : Held(t, i)

GuardInv == Stacks /\ guard \in BOOLEAN /\ HeldOnce /\ HeldFor

LEMMA HeldCalls ==
  ASSUME NEW t \in Threads, NEW i \in Depths
  PROVE  <<t, i>> \in GuardedCalls <=> Held(t, i)
BY DEF GuardedCalls, Held, Depths

LEMMA ByCalls == HeldOnce /\ HeldFor => NoRedirectInRedirect
<1> SUFFICES ASSUME HeldOnce, HeldFor PROVE NoRedirectInRedirect
  OBVIOUS
<1>1. \A c \in GuardedCalls : c = <<c[1], c[2]>> /\ c[1] \in Threads /\ c[2] \in Depths
  BY DEF GuardedCalls, Depths
<1>2. \A c \in GuardedCalls : Held(c[1], c[2])
  BY DEF GuardedCalls, Held
<1>3. \A c, d \in GuardedCalls : c = d
  BY <1>1, <1>2 DEF HeldOnce
<1>4. guard => GuardedCalls # {}
  BY HeldCalls DEF HeldFor
<1>5. GuardedCalls # {} => guard
  BY <1>1, <1>2 DEF HeldFor
<1>6. QED
  BY <1>3, <1>4, <1>5 DEF NoRedirectInRedirect

-----------------------------------------------------------------------------
\* The innermost call of a thread returns, moves, or makes another; the calls
\* further out stay.
LEMMA TopReturns ==
  ASSUME NEW s \in Seq(Call), s # <<>>
  PROVE  /\ Front(s) \in Seq(Call) /\ Len(Front(s)) = Len(s) - 1
         /\ \A i \in 1 .. Len(s) - 1 : Front(s)[i] = s[i]
<1>1. Len(s) \in Nat \ {0} /\ \A i \in 1 .. Len(s) : s[i] \in Call
  BY EmptySeq, LenProperties, ElementOfSeq
<1>2. PICK n \in Nat : Len(s) = n + 1 /\ Len(s) - 1 = n
  BY <1>1
<1>3. /\ Front(s) \in Seq(Call)
      /\ Len(Front(s)) = IF 1 <= n THEN n - 1 + 1 ELSE 0
      /\ \A i \in 1 .. n - 1 + 1 : Front(s)[i] = s[1 + i - 1]
  <2>1. 1 \in Int /\ n \in Int /\ \A i \in 1 .. n : s[i] \in Call
    BY <1>1, <1>2
  <2>2. Front(s) = SubSeq(s, 1, n)
    BY <1>2 DEF Front
  <2>3. QED
    BY <2>1, <2>2, SubSeqProperties
<1>4. Len(Front(s)) = n
  BY <1>3
<1>5. \A i \in 1 .. n : Front(s)[i] = s[i]
  <2> TAKE i \in 1 .. n
  <2>1. i \in 1 .. n - 1 + 1 /\ 1 + i - 1 = i
    OBVIOUS
  <2>2. QED
    BY <1>3, <2>1
<1>6. QED
  BY <1>2, <1>3, <1>4, <1>5

LEMMA TopMoves ==
  ASSUME NEW s \in Seq(Call), s # <<>>, NEW point \in Guarded \cup Running
  PROVE  LET r == Append(Front(s), [Last(s) EXCEPT !.at = point])
         IN  /\ r \in Seq(Call) /\ Len(r) = Len(s)
             /\ \A i \in 1 .. Len(s) : r[i].at = IF i = Len(s) THEN point ELSE s[i].at
<1>1. Len(s) \in Nat \ {0} /\ Last(s) \in Call
  BY EmptySeq, LenProperties DEF Last
<1>2. [Last(s) EXCEPT !.at = point] \in Call /\ [Last(s) EXCEPT !.at = point].at = point
  BY <1>1 DEF Call
<1>3. /\ Front(s) \in Seq(Call) /\ Len(Front(s)) = Len(s) - 1
      /\ \A i \in 1 .. Len(s) - 1 : Front(s)[i] = s[i]
  BY TopReturns
<1>4. QED
  BY <1>1, <1>2, <1>3

LEMMA TopMade ==
  ASSUME NEW s \in Seq(Call), NEW function \in Functions, NEW point \in Guarded \cup Running
  PROVE  LET r == Append(s, [function |-> function, at |-> point])
         IN  /\ r \in Seq(Call) /\ Len(r) = Len(s) + 1
             /\ \A i \in 1 .. Len(s) + 1 : r[i].at = IF i = Len(s) + 1 THEN point ELSE s[i].at
BY DEF Call

-----------------------------------------------------------------------------
\* A step that holds what was held before.
LEMMA HeldKept ==
  ASSUME GuardInv, guard' = guard, Stacks',
         \A t \in Threads, i \in Depths : Held(t, i)' <=> Held(t, i)
  PROVE  GuardInv'
BY DEF GuardInv, HeldOnce, HeldFor

\* A step that holds a first call.
LEMMA HeldTaken ==
  ASSUME GuardInv, ~guard, guard' = TRUE, Stacks', NEW u \in Threads, NEW n \in Depths,
         \A t \in Threads, i \in Depths : Held(t, i)' <=> (Held(t, i) \/ (t = u /\ i = n))
  PROVE  GuardInv'
BY DEF GuardInv, HeldOnce, HeldFor

\* A step that lets go of the one call held.
LEMMA HeldReleased ==
  ASSUME GuardInv, guard' = FALSE, Stacks', NEW u \in Threads, NEW n \in Depths, Held(u, n),
         \A t \in Threads, i \in Depths : Held(t, i)' => Held(t, i) /\ ~(t = u /\ i = n)
  PROVE  GuardInv'
BY DEF GuardInv, HeldOnce, HeldFor

-----------------------------------------------------------------------------
LEMMA GuardInit == Init => GuardInv
<1> SUFFICES ASSUME Init PROVE GuardInv
  OBVIOUS
<1>1. Stacks
  BY RestartAssumption DEF Init, Stacks
<1>2. \A t \in Threads, i \in Depths : ~Held(t, i)
  BY RestartAssumption DEF Init, Held, Depths
<1>3. QED
  BY <1>1, <1>2 DEF Init, GuardInv, HeldOnce, HeldFor

\* A step moves, makes or returns the innermost call of thread u.
LEMMA PushStep ==
  ASSUME Stacks, NEW u \in Threads, NEW function \in Functions, NEW point \in Guarded \cup Running,
         Len(stack[u]) < MaxDepth, Push(u, function, point)
  PROVE  /\ Stacks'
         /\ Len(stack[u]) + 1 \in Depths
         /\ \A t \in Threads, i \in Depths :
              Held(t, i)' <=> \/ Held(t, i)
                              \/ t = u /\ i = Len(stack[u]) + 1 /\ point \in Guarded
<1> DEFINE r == Append(stack[u], [function |-> function, at |-> point])
<1>1. stack[u] \in Seq(Call) /\ Len(stack[u]) \in Nat
  BY LenProperties DEF Stacks
<1>2. /\ r \in Seq(Call) /\ Len(r) = Len(stack[u]) + 1
      /\ \A i \in 1 .. Len(stack[u]) + 1 : r[i].at = IF i = Len(stack[u]) + 1 THEN point ELSE stack[u][i].at
  BY <1>1, TopMade
<1>3. /\ DOMAIN stack' = Threads /\ stack'[u] = r
      /\ \A t \in Threads : t # u => stack'[t] = stack[t]
  BY DEF Push, Stacks
<1> HIDE DEF r
<1>4. Stacks' /\ Len(stack[u]) + 1 \in Depths
  <2>1. MaxDepth \in Nat /\ Len(stack[u]) + 1 \in Depths
    BY <1>1, RestartAssumption DEF Depths
  <2>2. stack'[u] \in Seq(Call) /\ Len(stack'[u]) <= MaxDepth
    BY <1>2, <1>3, <2>1 DEF Depths
  <2>3. Stacks'
    BY <1>3, <2>2 DEF Stacks
  <2>4. QED
    BY <2>1, <2>3
<1>5. ASSUME NEW i \in Depths
      PROVE  Held(u, i)' <=> Held(u, i) \/ (i = Len(stack[u]) + 1 /\ point \in Guarded)
  BY <1>1, <1>2, <1>3, <1>5 DEF Held, Depths
<1>6. ASSUME NEW t \in Threads, t # u, NEW i \in Depths PROVE Held(t, i)' <=> Held(t, i)
  BY <1>3, <1>6 DEF Held
<1>7. QED
  BY <1>4, <1>5, <1>6

LEMMA GotoStep ==
  ASSUME Stacks, NEW u \in Threads, NEW point \in Guarded \cup Running,
         stack[u] # <<>>, Goto(u, point)
  PROVE  /\ Stacks'
         /\ Len(stack[u]) \in Depths
         /\ \A t \in Threads, i \in Depths :
              Held(t, i)' <=> IF t = u /\ i = Len(stack[u]) THEN point \in Guarded ELSE Held(t, i)
<1> DEFINE r == Append(Front(stack[u]), [Last(stack[u]) EXCEPT !.at = point])
<1>1. stack[u] \in Seq(Call) /\ Len(stack[u]) \in Nat \ {0} /\ Len(stack[u]) <= MaxDepth
  BY LenProperties, EmptySeq DEF Stacks
<1>2. /\ r \in Seq(Call) /\ Len(r) = Len(stack[u])
      /\ \A i \in 1 .. Len(stack[u]) : r[i].at = IF i = Len(stack[u]) THEN point ELSE stack[u][i].at
  BY <1>1, TopMoves
<1>3. /\ DOMAIN stack' = Threads /\ stack'[u] = r
      /\ \A t \in Threads : t # u => stack'[t] = stack[t]
  BY DEF Goto, Top, Stacks
<1> HIDE DEF r
<1>4. Stacks' /\ Len(stack[u]) \in Depths
  BY <1>1, <1>2, <1>3, RestartAssumption DEF Stacks, Depths
<1>5. ASSUME NEW i \in Depths
      PROVE  Held(u, i)' <=> IF i = Len(stack[u]) THEN point \in Guarded ELSE Held(u, i)
  BY <1>1, <1>2, <1>3, <1>5 DEF Held, Depths
<1>6. ASSUME NEW t \in Threads, t # u, NEW i \in Depths PROVE Held(t, i)' <=> Held(t, i)
  BY <1>3, <1>6 DEF Held
<1>7. QED
  BY <1>4, <1>5, <1>6

LEMMA ReturnStep ==
  ASSUME Stacks, NEW u \in Threads, stack[u] # <<>>,
         stack' = [stack EXCEPT ![u] = Front(@)]
  PROVE  /\ Stacks'
         /\ Len(stack[u]) \in Depths
         /\ \A t \in Threads, i \in Depths :
              Held(t, i)' <=> Held(t, i) /\ ~(t = u /\ i = Len(stack[u]))
<1>1. stack[u] \in Seq(Call) /\ Len(stack[u]) \in Nat \ {0} /\ Len(stack[u]) <= MaxDepth
  BY LenProperties, EmptySeq DEF Stacks
<1>2. /\ Front(stack[u]) \in Seq(Call) /\ Len(Front(stack[u])) = Len(stack[u]) - 1
      /\ \A i \in 1 .. Len(stack[u]) - 1 : Front(stack[u])[i] = stack[u][i]
  BY <1>1, TopReturns
<1>3. /\ DOMAIN stack' = Threads /\ stack'[u] = Front(stack[u])
      /\ \A t \in Threads : t # u => stack'[t] = stack[t]
  BY DEF Stacks
<1>4. Stacks' /\ Len(stack[u]) \in Depths
  BY <1>1, <1>2, <1>3, RestartAssumption DEF Stacks, Depths
<1>5. ASSUME NEW i \in Depths PROVE Held(u, i)' <=> Held(u, i) /\ i # Len(stack[u])
  BY <1>1, <1>2, <1>3, <1>5 DEF Held, Depths
<1>6. ASSUME NEW t \in Threads, t # u, NEW i \in Depths PROVE Held(t, i)' <=> Held(t, i)
  BY <1>3, <1>6 DEF Held
<1>7. QED
  BY <1>4, <1>5, <1>6

-----------------------------------------------------------------------------
\* The call that At speaks of is the innermost one, and is held if it is looked
\* at or runs RestartRace.
LEMMA TopHeld ==
  ASSUME Stacks, NEW u \in Threads, NEW point, At(u, point)
  PROVE  /\ stack[u] # <<>>
         /\ Held(u, Len(stack[u])) <=> point \in Guarded
<1>1. stack[u] # <<>> /\ stack[u][Len(stack[u])].at = point
  BY DEF At, Top, Last
<1>2. Len(stack[u]) \in Nat
  BY LenProperties DEF Stacks
<1>3. QED
  BY <1>1, <1>2 DEF Held

LEMMA ReleaseKeeps ==
  ASSUME GuardInv, NEW u \in Threads, NEW point \in Guarded, At(u, point), Release(u)
  PROVE  GuardInv'
<1>1. Stacks /\ stack[u] # <<>> /\ Held(u, Len(stack[u]))
  BY TopHeld DEF GuardInv
<1>2. "original" \in Guarded \cup Running /\ "original" \notin Guarded
  BY DEF Guarded, Running
<1>3. Goto(u, "original") /\ guard' = FALSE
  BY DEF Release
<1>4. /\ Stacks' /\ Len(stack[u]) \in Depths
      /\ \A t \in Threads, i \in Depths :
           Held(t, i)' <=> IF t = u /\ i = Len(stack[u]) THEN "original" \in Guarded ELSE Held(t, i)
  BY <1>1, <1>2, <1>3, GotoStep
<1>5. \A t \in Threads, i \in Depths : Held(t, i)' => Held(t, i) /\ ~(t = u /\ i = Len(stack[u]))
  BY <1>2, <1>4
<1>6. QED
  BY <1>1, <1>3, <1>4, <1>5, HeldReleased

\* The call that holds the guard goes from one point under it to the next.
LEMMA HoldKeeps ==
  ASSUME GuardInv, NEW u \in Threads, NEW point \in Guarded, NEW to \in Guarded,
         At(u, point), Goto(u, to), guard' = guard
  PROVE  GuardInv'
<1>1. Stacks /\ stack[u] # <<>> /\ Held(u, Len(stack[u]))
  BY TopHeld DEF GuardInv
<1>2. /\ Stacks' /\ Len(stack[u]) \in Depths
      /\ \A t \in Threads, i \in Depths :
           Held(t, i)' <=> IF t = u /\ i = Len(stack[u]) THEN to \in Guarded ELSE Held(t, i)
  BY <1>1, GotoStep
<1>3. \A t \in Threads, i \in Depths : Held(t, i)' <=> Held(t, i)
  BY <1>1, <1>2
<1>4. QED
  BY <1>2, <1>3, HeldKept

LEMMA EnterKeeps ==
  ASSUME GuardInv, NEW u \in Threads, NEW function \in Functions,
         Enter(u, function) \/ PassThrough(u, function)
  PROVE  GuardInv'
<1>1. Stacks /\ Len(stack[u]) < MaxDepth
  BY DEF GuardInv, Enter, PassThrough, CanCall
<1>2. CASE Enter(u, function)
  <2>1. "resolve" \in Guarded /\ "resolve" \in Guarded \cup Running
    BY DEF Guarded
  <2>2. ~guard /\ guard' = TRUE /\ Push(u, function, "resolve")
    BY <1>2 DEF Enter
  <2>3. /\ Stacks' /\ Len(stack[u]) + 1 \in Depths
        /\ \A t \in Threads, i \in Depths :
             Held(t, i)' <=> \/ Held(t, i)
                             \/ t = u /\ i = Len(stack[u]) + 1 /\ "resolve" \in Guarded
    BY <1>1, <2>1, <2>2, PushStep
  <2>4. \A t \in Threads, i \in Depths : Held(t, i)' <=> (Held(t, i) \/ (t = u /\ i = Len(stack[u]) + 1))
    BY <2>1, <2>3
  <2>5. QED
    BY <2>2, <2>3, <2>4, HeldTaken
<1>3. CASE PassThrough(u, function)
  <2>1. "original" \notin Guarded /\ "original" \in Guarded \cup Running
    BY DEF Guarded, Running
  <2>2. guard' = guard /\ Push(u, function, "original")
    BY <1>3 DEF PassThrough, hook
  <2>3. /\ Stacks'
        /\ \A t \in Threads, i \in Depths :
             Held(t, i)' <=> \/ Held(t, i)
                             \/ t = u /\ i = Len(stack[u]) + 1 /\ "original" \in Guarded
    BY <1>1, <2>1, <2>2, PushStep
  <2>4. \A t \in Threads, i \in Depths : Held(t, i)' <=> Held(t, i)
    BY <2>1, <2>3
  <2>5. QED
    BY <2>2, <2>3, <2>4, HeldKept
<1>4. QED
  BY <1>2, <1>3

LEMMA ReturnKeeps ==
  ASSUME GuardInv, NEW u \in Threads, RedirectReturns(u) \/ OriginalReturns(u)
  PROVE  GuardInv'
<1>1. CASE RedirectReturns(u)
  <2>1. "redirect" \in Guarded
    BY DEF Guarded
  <2>2. At(u, "redirect") /\ guard' = FALSE /\ stack' = [stack EXCEPT ![u] = Front(@)]
    BY <1>1 DEF RedirectReturns
  <2>3. Stacks /\ stack[u] # <<>> /\ Held(u, Len(stack[u]))
    BY <2>1, <2>2, TopHeld DEF GuardInv
  <2>4. /\ Stacks' /\ Len(stack[u]) \in Depths
        /\ \A t \in Threads, i \in Depths :
             Held(t, i)' <=> Held(t, i) /\ ~(t = u /\ i = Len(stack[u]))
    BY <2>2, <2>3, ReturnStep
  <2>5. QED
    BY <2>2, <2>3, <2>4, HeldReleased
<1>2. CASE OriginalReturns(u)
  <2>1. "original" \notin Guarded
    BY DEF Guarded
  <2>2. At(u, "original") /\ guard' = guard /\ stack' = [stack EXCEPT ![u] = Front(@)]
    BY <1>2 DEF OriginalReturns, hook
  <2>3. Stacks /\ stack[u] # <<>> /\ ~Held(u, Len(stack[u]))
    BY <2>1, <2>2, TopHeld DEF GuardInv
  <2>4. /\ Stacks'
        /\ \A t \in Threads, i \in Depths :
             Held(t, i)' <=> Held(t, i) /\ ~(t = u /\ i = Len(stack[u]))
    BY <2>2, <2>3, ReturnStep
  <2>5. \A t \in Threads, i \in Depths : Held(t, i)' <=> Held(t, i)
    BY <2>3, <2>4
  <2>6. QED
    BY <2>2, <2>4, <2>5, HeldKept
<1>3. QED
  BY <1>1, <1>2, Zenon

\* What leaves the stacks and the guard alone.
LEMMA IdleKeeps == ASSUME GuardInv, stack' = stack, guard' = guard PROVE GuardInv'
BY DEF GuardInv, Stacks, HeldOnce, HeldFor, Held

LEMMA GuardNext == ASSUME GuardInv, [Next]_vars PROVE GuardInv'
<1> USE DEF Guarded
<1>1. ASSUME NEW t \in Threads, ResolveThrottled(t) PROVE GuardInv'
  BY <1>1, ReleaseKeeps DEF ResolveThrottled
<1>2. ASSUME NEW t \in Threads, Resolve(t) PROVE GuardInv'
  <2>1. At(t, "resolve") /\ "resolve" \in Guarded /\ "check" \in Guarded
    BY <1>2 DEF Resolve
  <2>2. (Goto(t, "check") /\ guard' = guard) \/ Release(t)
    BY <1>2 DEF Resolve
  <2>3. QED
    BY <2>1, <2>2, ReleaseKeeps, HoldKeeps
<1>3. ASSUME NEW t \in Threads, NoRace(t) PROVE GuardInv'
  BY <1>3, ReleaseKeeps DEF NoRace
<1>4. ASSUME NEW t \in Threads, Redirect(t) PROVE GuardInv'
  <2>1. /\ At(t, "check") /\ Goto(t, "redirect") /\ guard' = guard
        /\ "check" \in Guarded /\ "redirect" \in Guarded
    BY <1>4 DEF Redirect, hook
  <2>2. QED
    BY <2>1, HoldKeeps
<1>5. ASSUME NEW t \in Threads, ProcessEvent(t) PROVE GuardInv'
  BY <1>1, <1>2, <1>3, <1>4, <1>5, EnterKeeps, ReturnKeeps DEF ProcessEvent
<1>6. ASSUME (\E function \in Both : Load(function)) \/ ChangeWorld \/ UNCHANGED vars
      PROVE  GuardInv'
  <2>1. stack' = stack /\ guard' = guard
    BY <1>6 DEF Load, ChangeWorld, hook, vars
  <2>2. QED
    BY <2>1, IdleKeeps
<1>7. QED
  BY <1>5, <1>6 DEF Next

-----------------------------------------------------------------------------
\* A restart is not redirected again from inside the restart it caused: at any
\* time one call at most, of all threads and at every depth, is looked at or
\* runs RestartRace, and the guard is held exactly then.
THEOREM GuardIsHeldOnce == Spec => []NoRedirectInRedirect
<1>1. GuardInv => NoRedirectInRedirect
  BY ByCalls DEF GuardInv
<1>2. QED
  BY GuardInit, GuardNext, <1>1, PTL DEF Spec

-----------------------------------------------------------------------------
\* Only what the game has can be found.
FoundInv == found \subseteq Both /\ loaded \subseteq Both

LEMMA FoundInit == Init => FoundInv
BY DEF Init, FoundInv

LEMMA FoundNext == ASSUME FoundInv, [Next]_vars PROVE FoundInv'
<1>1. UNCHANGED found \/ found' = found \cup loaded
  BY DEF Next, ProcessEvent, Enter, PassThrough, ResolveThrottled, Resolve, NoRace, Redirect,
         RedirectReturns, OriginalReturns, Load, ChangeWorld, hook, vars
<1>2. UNCHANGED loaded \/ \E function \in Both : loaded' = loaded \cup {function}
  BY DEF Next, ProcessEvent, Enter, PassThrough, ResolveThrottled, Resolve, NoRace, Redirect,
         RedirectReturns, OriginalReturns, Load, ChangeWorld, world, vars
<1>3. QED
  BY <1>1, <1>2 DEF FoundInv

\* The innermost call keeps its function when it goes on to another point.
LEMMA FunctionKept ==
  ASSUME Stacks, NEW u \in Threads, NEW point \in Guarded \cup Running,
         stack[u] # <<>>, Goto(u, point)
  PROVE  /\ Last(stack'[u]).at = point /\ Last(stack'[u]).function = Top(u).function
         /\ \A t \in Threads \ {u} : stack'[t] = stack[t]
<1>1. stack[u] \in Seq(Call) /\ Len(stack[u]) \in Nat \ {0}
  BY LenProperties, EmptySeq DEF Stacks
<1>2. Top(u) \in Call
  BY <1>1, ElementOfSeq DEF Top, Last
<1> DEFINE moved == [Top(u) EXCEPT !.at = point]
<1>3. moved \in Call /\ moved.at = point /\ moved.function = Top(u).function
  BY <1>2 DEF Call
<1>4. Front(stack[u]) \in Seq(Call)
  BY <1>1, TopReturns
<1>5. stack'[u] = Append(Front(stack[u]), moved) /\ \A t \in Threads \ {u} : stack'[t] = stack[t]
  BY DEF Goto, Stacks
<1> HIDE DEF moved
<1>6. Last(stack'[u]) = moved
  BY <1>3, <1>4, <1>5, AppendProperties, LenProperties DEF Last
<1>7. QED
  BY <1>3, <1>5, <1>6

LEMMA FunctionMade ==
  ASSUME Stacks, NEW u \in Threads, NEW function \in Functions, NEW point \in Guarded \cup Running,
         Push(u, function, point)
  PROVE  /\ Last(stack'[u]).at = point /\ Len(stack'[u]) = Len(stack[u]) + 1
         /\ \A t \in Threads \ {u} : stack'[t] = stack[t]
<1>1. stack[u] \in Seq(Call)
  BY DEF Stacks
<1> DEFINE made == [function |-> function, at |-> point]
<1>2. made \in Call /\ made.at = point
  BY DEF Call
<1>3. stack'[u] = Append(stack[u], made) /\ \A t \in Threads \ {u} : stack'[t] = stack[t]
  BY DEF Push, Stacks
<1> HIDE DEF made
<1>4. Last(stack'[u]) = made /\ Len(stack'[u]) = Len(stack[u]) + 1
  BY <1>1, <1>2, <1>3, AppendProperties, LenProperties DEF Last
<1>5. QED
  BY <1>2, <1>3, <1>4

\* A call that passes a held guard finds another call that holds it.
LEMMA PassedGuarded ==
  ASSUME GuardInv, NEW u \in Threads, NEW function \in Functions, PassThrough(u, function)
  PROVE  \E c \in GuardedCalls : c # <<u, Len(stack'[u])>>
<1>1. guard /\ Push(u, function, "original") /\ "original" \in Guarded \cup Running /\ Stacks
  BY DEF PassThrough, Guarded, Running, GuardInv
<1>2. PICK t \in Threads, i \in Depths : Held(t, i)
  BY <1>1 DEF GuardInv, HeldFor
<1>3. <<t, i>> \in GuardedCalls
  BY <1>2, HeldCalls
<1>4. Len(stack'[u]) = Len(stack[u]) + 1
  BY <1>1, FunctionMade
<1>5. ASSUME t = u PROVE i # Len(stack'[u])
  <2>1. i <= Len(stack[u]) /\ Len(stack[u]) \in Nat /\ i \in Nat
    BY <1>1, <1>2, <1>5, LenProperties DEF Held, Stacks, Depths
  <2>2. QED
    BY <1>4, <2>1
<1>6. QED
  BY <1>3, <1>5

\* Once both functions are known a RestartLevel in a race gets through
\* unchanged only past a guard that another call holds: no look at it ends in
\* the original function.
THEOREM RestartsInRaces == Spec => RestartsAreRedirected
<1>1. ASSUME GuardInv, FoundInv, [Next]_vars, NEW t \in Threads, Passed(t),
             Last(stack'[t]).function = "RestartLevel", found = Both, race
      PROVE  \E c \in GuardedCalls : c # <<t, Len(stack'[t])>>
  <2>1. Stacks /\ Len(stack'[t]) >= Len(stack[t]) /\ stack'[t] # stack[t]
        /\ Last(stack'[t]).at = "original"
    BY <1>1 DEF Passed, GuardInv
  <2>2. PICK u \in Threads : ProcessEvent(u)
    <3>1. stack' # stack
      BY <2>1
    <3>2. QED
      BY <1>1, <3>1 DEF Next, Load, ChangeWorld, vars
  <2>3. ASSUME NEW function \in Functions, Enter(u, function) PROVE FALSE
    <3>1. Push(u, function, "resolve") /\ "resolve" \in Guarded \cup Running
      BY <2>3 DEF Enter, Guarded
    <3>2. QED
      BY <2>1, <3>1, FunctionMade
  <2>4. ASSUME NEW function \in Functions, PassThrough(u, function)
        PROVE  \E c \in GuardedCalls : c # <<t, Len(stack'[t])>>
    <3>1. Push(u, function, "original") /\ "original" \in Guarded \cup Running
      BY <2>4 DEF PassThrough, Running
    <3>2. t = u
      BY <2>1, <3>1, FunctionMade
    <3>3. QED
      BY <1>1, <2>4, <3>2, PassedGuarded
  <2>5. ~ResolveThrottled(u)
    BY <1>1 DEF ResolveThrottled, Throttled
  <2>6. ~NoRace(u)
    BY <1>1 DEF NoRace
  <2>7. ASSUME Redirect(u) PROVE FALSE
    <3>1. Goto(u, "redirect") /\ "redirect" \in Guarded \cup Running /\ stack[u] # <<>>
      BY <2>7 DEF Redirect, At, Guarded
    <3>2. QED
      BY <2>1, <3>1, FunctionKept
  <2>8. ASSUME Resolve(u) PROVE FALSE
    <3>1. found' = Both /\ stack[u] # <<>> /\ {"check", "original"} \subseteq Guarded \cup Running
      BY <1>1, <2>8 DEF Resolve, FoundInv, At, Guarded, Running
    <3>2. CASE Goto(u, "check")
      BY <2>1, <3>1, <3>2, FunctionKept
    <3>3. CASE Release(u) /\ Top(u).function # "RestartLevel"
      BY <1>1, <2>1, <3>1, <3>3, FunctionKept DEF Release
    <3>4. QED
      BY <2>8, <3>1, <3>2, <3>3 DEF Resolve
  <2>9. ASSUME RedirectReturns(u) \/ OriginalReturns(u) PROVE FALSE
    <3>1. stack' = [stack EXCEPT ![u] = Front(@)] /\ stack[u] # <<>>
      BY <2>9 DEF RedirectReturns, OriginalReturns, At
    <3>2. stack'[u] = Front(stack[u]) /\ (t # u => stack'[t] = stack[t])
      BY <2>1, <3>1 DEF Stacks
    <3>3. Len(stack[u]) \in Nat /\ Len(Front(stack[u])) = Len(stack[u]) - 1
      BY <2>1, <3>1, TopReturns, LenProperties DEF Stacks
    <3>4. QED
      BY <2>1, <3>2, <3>3
  <2>10. QED
    BY <2>2, <2>3, <2>4, <2>5, <2>6, <2>7, <2>8, <2>9 DEF ProcessEvent
<1>2. ASSUME GuardInv /\ FoundInv, [Next]_vars
      PROVE  \A t \in Threads :
               Passed(t) /\ Last(stack'[t]).function = "RestartLevel" /\ found = Both /\ race
                 => \E c \in GuardedCalls : c # <<t, Len(stack'[t])>>
  BY <1>1, <1>2
<1>3. Init => GuardInv /\ FoundInv
  BY GuardInit, FoundInit
<1>4. GuardInv /\ FoundInv /\ [Next]_vars => (GuardInv /\ FoundInv)'
  BY GuardNext, FoundNext
<1>5. QED
  BY <1>2, <1>3, <1>4, PTL DEF Spec, RestartsAreRedirected
-----------------------------------------------------------------------------
(* The throttle *)

\* Division with a remainder below d is unique.
LEMMA Remainder ==
  ASSUME NEW d \in Nat \ {0}, NEW q \in Nat, NEW r \in 0 .. d - 1
  PROVE  (d * q + r) % d = r
OBVIOUS

\* The count of attempts modulo ResolveEvery goes up by one and starts again
\* at 0, also when the counter itself starts again.
LEMMA CountGoesRound ==
  ASSUME NEW n \in 0 .. Width - 1
  PROVE  /\ (n + 1) % Width \in 0 .. Width - 1
         /\ n % ResolveEvery \in 0 .. ResolveEvery - 1
         /\ ((n + 1) % Width) % ResolveEvery =
              IF n % ResolveEvery = ResolveEvery - 1 THEN 0 ELSE (n % ResolveEvery) + 1
         /\ ((n + 1) % Width) % ResolveEvery \in 0 .. ResolveEvery - 1
<1> DEFINE d == ResolveEvery
           q == n \div d
           r == n % d
<1>1. d \in Nat \ {0} /\ Width \in Nat \ {0} /\ Width % d = 0 /\ n \in Nat /\ n < Width
  BY RestartAssumption
<1>2. q \in Nat /\ r \in 0 .. d - 1 /\ n = d * q + r
  BY <1>1
<1>3. (n + 1) % d = IF r = d - 1 THEN 0 ELSE r + 1
  <2> HIDE DEF d, q, r
  <2>1. CASE r = d - 1
    <3>1. n + 1 = d * (q + 1) + 0 /\ q + 1 \in Nat /\ 0 \in 0 .. d - 1
      BY <1>1, <1>2, <2>1
    <3> QED BY <1>1, <2>1, <3>1, Remainder
  <2>2. CASE r # d - 1
    <3>1. n + 1 = d * q + (r + 1) /\ r + 1 \in 0 .. d - 1
      BY <1>1, <1>2, <2>2
    <3> QED BY <1>1, <1>2, <2>2, <3>1, Remainder
  <2> QED BY <2>1, <2>2
<1>4. (n + 1) % Width = IF n + 1 = Width THEN 0 ELSE n + 1
  BY <1>1
<1>5. 0 % d = 0
  BY <1>1
<1>6. ((n + 1) % Width) % d = (n + 1) % d
  <2> HIDE DEF d
  <2>1. CASE n + 1 = Width
    BY <1>1, <1>4, <1>5, <2>1
  <2>2. CASE n + 1 # Width
    BY <1>4, <2>2
  <2> QED BY <2>1, <2>2
<1>7. (n + 1) % Width \in 0 .. Width - 1
  BY <1>1, <1>4
<1>8. (n + 1) % d \in 0 .. d - 1
  BY <1>1
<1> HIDE DEF d
<1>9. ((n + 1) % Width) % d \in 0 .. d - 1
  BY <1>6, <1>8
<1> USE DEF d
<1> QED BY <1>2, <1>3, <1>6, <1>7, <1>9

\* Calls are late only while a search is outstanding, and each of them has
\* counted: they are fewer than the attempts since the last multiple of
\* ResolveEvery, at which the next search is made.
LateInv ==
  /\ FoundInv
  /\ attempts \in 0 .. Width - 1 /\ late \in 0 .. ResolveEvery - 1
  /\ loaded # Both => late = 0
  /\ found # Both /\ attempts % ResolveEvery # 0 => late < attempts % ResolveEvery

LEMMA LateInit == Init => LateInv
<1> SUFFICES ASSUME Init PROVE LateInv
  OBVIOUS
<1>1. FoundInv
  BY FoundInit
<1>2. attempts = 1 /\ late = 0 /\ 1 \in 0 .. Width - 1 /\ 0 \in 0 .. ResolveEvery - 1
  BY RestartAssumption DEF Init
<1>3. attempts % ResolveEvery \in Nat
  BY <1>2, RestartAssumption
<1> QED BY <1>1, <1>2, <1>3 DEF LateInv

\* A late call more, an attempt more.
LEMMA OneMore ==
  ASSUME NEW d \in Nat \ {0}, NEW r \in 0 .. d - 1, NEW r2, r2 = IF r = d - 1 THEN 0 ELSE r + 1,
         NEW n \in 0 .. d - 1, n < r, NEW n2, n2 = n \/ n2 = n + 1
  PROVE  n2 \in 0 .. d - 1 /\ (r2 # 0 => n2 < r2)
OBVIOUS

LEMMA LateNext == ASSUME LateInv, [Next]_vars PROVE LateInv'
<1> DEFINE r == attempts % ResolveEvery
<1>1. FoundInv'
  BY FoundNext DEF LateInv
<1>2. ResolveEvery \in Nat \ {0} /\ attempts \in 0 .. Width - 1 /\ late \in 0 .. ResolveEvery - 1
  BY RestartAssumption DEF LateInv
<1>3. r \in 0 .. ResolveEvery - 1
  BY <1>2, CountGoesRound
<1>4. CASE CountAttempt
  <2>1. /\ attempts' \in 0 .. Width - 1
        /\ r' = IF r = ResolveEvery - 1 THEN 0 ELSE r + 1
        /\ r' \in 0 .. ResolveEvery - 1
    BY <1>2, <1>4, CountGoesRound DEF CountAttempt
  <2>2. ASSUME NEW t \in Threads, ResolveThrottled(t) PROVE LateInv'
    <3>1. found # Both /\ r # 0 /\ UNCHANGED <<found, loaded>>
      BY <2>2 DEF ResolveThrottled, Throttled, world
    <3>2. late' = IF loaded = Both THEN late + 1 ELSE late
      BY <2>2 DEF ResolveThrottled
    <3>3. late < r /\ (loaded # Both => late = 0)
      BY <3>1 DEF LateInv
    <3>4. late' \in 0 .. ResolveEvery - 1 /\ (r' # 0 => late' < r')
      BY <1>2, <1>3, <2>1, <3>2, <3>3, OneMore
    <3>5. loaded' # Both => late' = 0
      BY <3>1, <3>2, <3>3
    <3> QED BY <1>1, <2>1, <3>4, <3>5 DEF LateInv
  <2>3. ASSUME NEW t \in Threads, Resolve(t) PROVE LateInv'
    <3>1. found' = found \cup loaded /\ UNCHANGED <<late, loaded>>
      BY <2>3 DEF Resolve, world
    <3>2. found' # Both => late' = 0
      BY <3>1 DEF LateInv, FoundInv
    <3>3. r' \in 0 .. ResolveEvery - 1 /\ ResolveEvery \in Nat
      BY <1>2, <2>1
    <3>4. found' # Both /\ r' # 0 => late' < r'
      BY <3>2, <3>3
    <3> QED BY <1>1, <1>2, <2>1, <3>1, <3>2, <3>4 DEF LateInv
  <2>4. ~(UNCHANGED attempts)
    BY <1>2, <1>4, RestartAssumption DEF CountAttempt
  <2> QED BY <2>2, <2>3, <2>4 DEF Next, ProcessEvent, Enter, PassThrough, NoRace, Redirect,
             RedirectReturns, OriginalReturns, Load, ChangeWorld, hook, vars
<1>5. CASE ~CountAttempt
  <2>1. UNCHANGED <<found, attempts, late>>
    BY <1>5 DEF Next, ProcessEvent, Enter, PassThrough, ResolveThrottled, Resolve, NoRace, Redirect,
         RedirectReturns, OriginalReturns, Load, ChangeWorld, hook, vars
  <2>2. loaded' # Both => loaded # Both
    BY <1>1 DEF Next, ProcessEvent, Enter, PassThrough, ResolveThrottled, Resolve, NoRace, Redirect,
         RedirectReturns, OriginalReturns, Load, ChangeWorld, world, vars, FoundInv, LateInv
  <2> QED BY <1>1, <2>1, <2>2 DEF LateInv
<1> QED BY <1>4, <1>5

\* However many attempts have been made, and whether or not the counter has
\* overflowed, fewer than ResolveEvery calls go by before what is loaded is found.
THEOREM SearchComesInTime == Spec => []FoundSoonAfterLoading
<1>1. LateInv => FoundSoonAfterLoading
  BY RestartAssumption DEF LateInv, FoundSoonAfterLoading
<1> QED BY LateInit, LateNext, <1>1, PTL DEF Spec
=============================================================================
