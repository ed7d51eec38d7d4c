-------------------------- MODULE TickDetourProofs --------------------------
(***************************************************************************)
(* Theorems about TickDetour, for any threshold, any number of uploads and *)
(* any number of ticks inside a frame.                                     *)
(*                                                                         *)
(* What makes the first two inductive: the call stack is a tick or a frame *)
(* of the detour, between the frames of UE3 or inside one, and the stale   *)
(* ticks lag behind the ticks since UE3 last began a frame.  The third: an *)
(* upload that the hook remembers in flight has not been replayed, except  *)
(* while its callback is being called, and then that call is innermost.    *)
(***************************************************************************)
EXTENDS TickDetour, SequenceTheorems, TLAPS

Before  == {"http", "diag", "callback", "stale"}   \* a tick before its decision
Points  == Before \cup {"original"}

\* The detour is running a frame: between those of UE3, or inside one.
PumpingIn(s) == s = <<"frame", "pump", "pumped">> \/ s = <<"frame", "pump", "pumped", "original">>
Pumping(s) == s = <<"pump", "pumped">> \/ s = <<"pump", "pumped", "original">> \/ PumpingIn(s)

Shape(s) == \/ s = <<>> \/ s = <<"frame">>
            \/ \E p \in Points : s = <<p>> \/ s = <<"frame", p>>
            \/ Pumping(s)

\* A tick that has begun will count, unless UE3 has run a frame.
Pending == Top \in Before

PauseInv ==
  /\ Shape(stack) /\ (inTick <=> Pumping(stack))
  /\ stale \in 0 .. Threshold /\ quiet \in 0 .. Threshold + 1
  /\ Pending => quiet >= 1
  /\ captured /\ ~unseen => /\ stale + 1 <= quiet
                            /\ Pending => stale + 2 <= quiet \/ quiet = Threshold + 1
  /\ Pumping(stack) => captured /\ quiet > Threshold

UploadInv ==
  /\ put \in Nat /\ stored \subseteq 1 .. put
  /\ locker = "put" => put >= 1 /\ put \notin stored
  /\ locker # "put" /\ result = "stored" => put \in stored

ReplayInv ==
  /\ replays \in Seq(Nat) /\ ReplaysAreCompletions
  /\ prev = "put" /\ Top # "callback" => put \notin Range(replays)

DetourInv == UploadInv /\ ReplayInv

-----------------------------------------------------------------------------
(* The stack *)

\* Calls on a stack of at most two, and returns.
LEMMA Tuples ==
  ASSUME NEW a, NEW b, NEW c
  PROVE  /\ Append(<<>>, a) = <<a>> /\ Append(<<a>>, b) = <<a, b>>
         /\ Append(<<a, b>>, c) = <<a, b, c>>
         /\ Front(<<a>>) = <<>> /\ Front(<<a, b>>) = <<a>> /\ Front(<<a, b, c>>) = <<a, b>>
<1> DEFINE S == {a, b, c}
<1>1. /\ <<>> \in Seq(S) /\ <<a>> \in Seq(S) /\ <<a, b>> \in Seq(S) /\ <<a, b, c>> \in Seq(S)
      /\ Len(<<a>>) = 1 /\ Len(<<a, b>>) = 2 /\ Len(<<a, b, c>>) = 3
  OBVIOUS
<1>2. Append(<<>>, a) = <<a>> /\ Front(<<a>>) = <<>>
  BY DEF Front
<1>3. Append(<<a>>, b) = <<a, b>>
  <2>1. /\ Append(<<a>>, b) \in Seq(S) /\ Len(Append(<<a>>, b)) = 2
        /\ Append(<<a>>, b)[1] = a /\ Append(<<a>>, b)[2] = b
    BY <1>1, AppendProperties
  <2>2. \A i \in 1 .. 2 : Append(<<a>>, b)[i] = <<a, b>>[i]
    BY <2>1
  <2>3. QED
    BY <1>1, <2>1, <2>2, SeqEqual
<1>4. Append(<<a, b>>, c) = <<a, b, c>>
  <2>1. /\ Append(<<a, b>>, c) \in Seq(S) /\ Len(Append(<<a, b>>, c)) = 3
        /\ \A i \in 1 .. 2 : Append(<<a, b>>, c)[i] = <<a, b>>[i]
        /\ Append(<<a, b>>, c)[3] = c
    BY <1>1, AppendProperties
  <2>2. \A i \in 1 .. 3 : Append(<<a, b>>, c)[i] = <<a, b, c>>[i]
    BY <2>1
  <2>3. QED
    BY <1>1, <2>1, <2>2, SeqEqual
<1>5. Front(<<a, b>>) = <<a>>
  <2>1. Front(<<a, b>>) = SubSeq(<<a, b>>, 1, 1)
    BY <1>1 DEF Front
  <2>2. \A i \in 1 .. 1 : <<a, b>>[i] \in S
    OBVIOUS
  <2>3. /\ SubSeq(<<a, b>>, 1, 1) \in Seq(S) /\ Len(SubSeq(<<a, b>>, 1, 1)) = 1
        /\ SubSeq(<<a, b>>, 1, 1)[1] = a
    BY <2>2, SubSeqProperties
  <2>4. \A i \in 1 .. 1 : SubSeq(<<a, b>>, 1, 1)[i] = <<a>>[i]
    BY <2>3
  <2>5. QED
    BY <1>1, <2>1, <2>3, <2>4, SeqEqual
<1>6. Front(<<a, b, c>>) = <<a, b>>
  <2>1. Front(<<a, b, c>>) = SubSeq(<<a, b, c>>, 1, 2)
    BY <1>1 DEF Front
  <2>2. \A i \in 1 .. 2 : <<a, b, c>>[i] \in S
    OBVIOUS
  <2>3. /\ SubSeq(<<a, b, c>>, 1, 2) \in Seq(S) /\ Len(SubSeq(<<a, b, c>>, 1, 2)) = 2
        /\ SubSeq(<<a, b, c>>, 1, 2)[1] = a /\ SubSeq(<<a, b, c>>, 1, 2)[2] = b
    BY <2>2, SubSeqProperties
  <2>4. \A i \in 1 .. 2 : SubSeq(<<a, b, c>>, 1, 2)[i] = <<a, b>>[i]
    BY <2>3
  <2>5. QED
    BY <1>1, <2>1, <2>3, <2>4, SeqEqual
<1>7. QED
  BY <1>2, <1>3, <1>4, <1>5, <1>6

\* A frame of the detour takes the place of a tick, and both return at once.
LEMMA PumpTuples ==
  ASSUME NEW a, NEW b, NEW c, NEW d
  PROVE  /\ Append(<<a, b, c>>, d) = <<a, b, c, d>>
         /\ Front(<<a, b, c, d>>) = <<a, b, c>>
         /\ <<>> \o <<b, c>> = <<b, c>> /\ <<a>> \o <<b, c>> = <<a, b, c>>
<1> DEFINE S == {a, b, c, d}
<1>1. /\ <<a, b, c>> \in Seq(S) /\ <<a, b, c, d>> \in Seq(S)
      /\ Len(<<a, b, c>>) = 3 /\ Len(<<a, b, c, d>>) = 4
  OBVIOUS
<1>2. Append(<<a, b, c>>, d) = <<a, b, c, d>>
  <2>1. /\ Append(<<a, b, c>>, d) \in Seq(S) /\ Len(Append(<<a, b, c>>, d)) = 4
        /\ \A i \in 1 .. 3 : Append(<<a, b, c>>, d)[i] = <<a, b, c>>[i]
        /\ Append(<<a, b, c>>, d)[4] = d
    BY <1>1, AppendProperties
  <2>2. \A i \in 1 .. 4 : Append(<<a, b, c>>, d)[i] = <<a, b, c, d>>[i]
    BY <2>1
  <2>3. QED
    BY <1>1, <2>1, <2>2, SeqEqual
<1>3. Front(<<a, b, c, d>>) = <<a, b, c>>
  <2>1. Front(<<a, b, c, d>>) = SubSeq(<<a, b, c, d>>, 1, 3)
    BY <1>1 DEF Front
  <2>2. \A i \in 1 .. 3 : <<a, b, c, d>>[i] \in S
    OBVIOUS
  <2>3. /\ SubSeq(<<a, b, c, d>>, 1, 3) \in Seq(S) /\ Len(SubSeq(<<a, b, c, d>>, 1, 3)) = 3
        /\ \A i \in 1 .. 3 : SubSeq(<<a, b, c, d>>, 1, 3)[i] = <<a, b, c, d>>[i]
    BY <2>2, SubSeqProperties
  <2>4. \A i \in 1 .. 3 : SubSeq(<<a, b, c, d>>, 1, 3)[i] = <<a, b, c>>[i]
    BY <2>3
  <2>5. QED
    BY <1>1, <2>1, <2>3, <2>4, SeqEqual
<1>4. <<>> \o <<b, c>> = <<b, c>>
  OBVIOUS
<1>5. <<a>> \o <<b, c>> = <<a, b, c>>
  <2>1. /\ <<a>> \o <<b, c>> \in Seq(S) /\ Len(<<a>> \o <<b, c>>) = 3
        /\ \A i \in 1 .. 3 : (<<a>> \o <<b, c>>)[i] = IF i <= 1 THEN <<a>>[i] ELSE <<b, c>>[i - 1]
    OBVIOUS
  <2>2. \A i \in 1 .. 3 : (<<a>> \o <<b, c>>)[i] = <<a, b, c>>[i]
    BY <2>1
  <2>3. QED
    BY <1>1, <2>1, <2>2, SeqEqual
<1>6. QED
  BY <1>2, <1>3, <1>4, <1>5

LEMMA FourthCall ==
  \A a, b, c, d : Append(<<a, b, c>>, d) = <<a, b, c, d>>
BY PumpTuples

TopOf(s) == IF s = <<>> THEN "game" ELSE Last(s)

LEMMA ShapeTop ==
  ASSUME NEW s
  PROVE  /\ s = <<>> => TopOf(s) = "game"
         /\ s = <<"frame">> => TopOf(s) = "frame"
         /\ \A p \in Points : s = <<p>> \/ s = <<"frame", p>> => TopOf(s) = p
         /\ s = <<"pump", "pumped">> \/ s = <<"frame", "pump", "pumped">> => TopOf(s) = "pumped"
         /\ s = <<"pump", "pumped", "original">> \/ s = <<"frame", "pump", "pumped", "original">>
              => TopOf(s) = "original"
<1>1. \A a, b, c, d :
         /\ Last(<<a>>) = a /\ Last(<<a, b>>) = b /\ Last(<<a, b, c>>) = c /\ Last(<<a, b, c, d>>) = d
         /\ <<a>> # <<>> /\ <<a, b>> # <<>> /\ <<a, b, c>> # <<>> /\ <<a, b, c, d>> # <<>>
  BY DEF Last
<1>2. QED
  BY <1>1 DEF TopOf

\* The shapes exclude each other.
LEMMA Apart ==
  ASSUME NEW s
  PROVE  /\ s = <<>> \/ s = <<"frame">> => ~Pumping(s)
         /\ \A p \in Points : s = <<p>> \/ s = <<"frame", p>> => ~Pumping(s)
BY DEF Pumping, PumpingIn, Points, Before

\* What the stack is at each point.
LEMMA AtTop ==
  ASSUME Shape(stack)
  PROVE  /\ Top = "game" => stack = <<>>
         /\ Top = "frame" => stack = <<"frame">>
         /\ Top = "pumped" => stack = <<"pump", "pumped">> \/ stack = <<"frame", "pump", "pumped">>
         /\ Top \in Before => stack = <<Top>> \/ stack = <<"frame", Top>>
         /\ Top = "original" => \/ stack = <<"original">> \/ stack = <<"frame", "original">>
                                \/ stack = <<"pump", "pumped", "original">>
                                \/ stack = <<"frame", "pump", "pumped", "original">>
<1>1. Top = TopOf(stack)
  BY DEF Top, TopOf
<1>2. QED
  BY <1>1, ShapeTop DEF Shape, Pumping, PumpingIn, Points, Before

\* The innermost call is at point p now, with or without a frame of the detour.
Reached(p, pumping) == Shape(stack') /\ Top' = p /\ (Pumping(stack') <=> pumping)

LEMMA Reaches ==
  /\ stack' = <<>> => Reached("game", FALSE)
  /\ stack' = <<"frame">> => Reached("frame", FALSE)
  /\ \A p \in Points : stack' = <<p>> \/ stack' = <<"frame", p>> => Reached(p, FALSE)
  /\ stack' = <<"pump", "pumped">> \/ stack' = <<"frame", "pump", "pumped">> => Reached("pumped", TRUE)
  /\ stack' = <<"pump", "pumped", "original">> \/ stack' = <<"frame", "pump", "pumped", "original">>
       => Reached("original", TRUE)
<1>1. Top' = TopOf(stack')
  BY DEF Top, TopOf
<1>2. /\ stack' = <<"pump", "pumped">> \/ stack' = <<"frame", "pump", "pumped">> => Pumping(stack')
      /\ stack' = <<"pump", "pumped", "original">> \/ stack' = <<"frame", "pump", "pumped", "original">>
           => Pumping(stack')
  BY DEF Pumping, PumpingIn
<1>3. /\ stack' = <<>> => Reached("game", FALSE)
      /\ stack' = <<"frame">> => Reached("frame", FALSE)
      /\ \A p \in Points : stack' = <<p>> \/ stack' = <<"frame", p>> => Reached(p, FALSE)
  BY <1>1, ShapeTop, Apart DEF Reached, Shape
<1>4. stack' = <<"pump", "pumped">> \/ stack' = <<"frame", "pump", "pumped">> => Reached("pumped", TRUE)
  BY <1>1, <1>2, ShapeTop DEF Reached, Shape
<1>5. stack' = <<"pump", "pumped", "original">> \/ stack' = <<"frame", "pump", "pumped", "original">>
        => Reached("original", TRUE)
  BY <1>1, <1>2, ShapeTop DEF Reached, Shape
<1>6. QED
  BY <1>3, <1>4, <1>5

\* The tick goes on to its next point.
LEMMA Moves ==
  ASSUME Shape(stack), Top \in Before, NEW p \in Points, Goto(p)
  PROVE  ~Pumping(stack) /\ Reached(p, FALSE)
<1>0. Top \in Points
  BY DEF Points
<1>1. CASE stack = <<Top>>
  <2>1. stack' = <<p>>
    BY <1>1, Tuples DEF Goto
  <2>2. QED
    BY <1>0, <1>1, <2>1, Apart, Reaches
<1>2. CASE stack = <<"frame", Top>>
  <2>1. stack' = <<"frame", p>>
    BY <1>2, Tuples DEF Goto
  <2>2. QED
    BY <1>0, <1>2, <2>1, Apart, Reaches
<1>3. QED
  BY <1>1, <1>2, AtTop

\* A tick begins, outside a frame, in one of UE3, or in one of the detour.
LEMMA Ticks ==
  ASSUME Shape(stack), Top \in {"game", "frame"}, NEW p \in Points, Call(p)
  PROVE  ~Pumping(stack) /\ Reached(p, FALSE)
<1>1. CASE stack = <<>>
  <2>1. stack' = <<p>>
    BY <1>1, Tuples DEF Call
  <2>2. QED
    BY <1>1, <2>1, Apart, Reaches
<1>2. CASE stack = <<"frame">>
  <2>1. stack' = <<"frame", p>>
    BY <1>2, Tuples DEF Call
  <2>2. QED
    BY <1>2, <2>1, Apart, Reaches
<1>3. QED
  BY <1>1, <1>2, AtTop

LEMMA TickInPumped ==
  ASSUME Shape(stack), Top = "pumped", Call("original")
  PROVE  Reached("original", TRUE)
<1>1. /\ stack = <<"pump", "pumped">> \/ stack = <<"frame", "pump", "pumped">>
      /\ stack' = Append(stack, "original")
  BY AtTop DEF Call
<1>2. /\ Append(<<"pump", "pumped">>, "original") = <<"pump", "pumped", "original">>
      /\ Append(<<"frame", "pump", "pumped">>, "original") = <<"frame", "pump", "pumped", "original">>
  <2>1. Append(<<"pump", "pumped">>, "original") = <<"pump", "pumped", "original">>
    BY Tuples
  <2>2. Append(<<"frame", "pump", "pumped">>, "original") = <<"frame", "pump", "pumped", "original">>
    BY FourthCall
  <2>3. QED
    BY <2>1, <2>2
<1>3. QED
  BY <1>1, <1>2, Reaches

\* A frame begins: UE3's, or the detour's in place of the tick.
LEMMA FrameBegins ==
  ASSUME Shape(stack), Top = "game", Call("frame")
  PROVE  Reached("frame", FALSE)
<1>1. stack' = <<"frame">>
  BY AtTop, Tuples DEF Call
<1>2. QED
  BY <1>1, Reaches

LEMMA PumpBegins ==
  ASSUME Shape(stack), Top = "stale", stack' = Front(stack) \o <<"pump", "pumped">>
  PROVE  Reached("pumped", TRUE)
<1>1. stack = <<"stale">> \/ stack = <<"frame", "stale">>
  BY AtTop DEF Before
<1>2. Front(<<"stale">>) = <<>> /\ Front(<<"frame", "stale">>) = <<"frame">>
  BY Tuples
<1>3. /\ <<>> \o <<"pump", "pumped">> = <<"pump", "pumped">>
      /\ <<"frame">> \o <<"pump", "pumped">> = <<"frame", "pump", "pumped">>
  BY PumpTuples
<1>4. stack' = <<"pump", "pumped">> \/ stack' = <<"frame", "pump", "pumped">>
  BY <1>1, <1>2, <1>3
<1>5. QED
  BY <1>4, Reaches

\* A tick or a frame returns.
LEMMA TickEnds ==
  ASSUME Shape(stack), Top = "original", Return
  PROVE  \/ ~Pumping(stack) /\ (Reached("game", FALSE) \/ Reached("frame", FALSE))
         \/ Pumping(stack) /\ Reached("pumped", TRUE)
<1>0. "original" \in Points
  BY DEF Points
<1>1. CASE stack = <<"original">> \/ stack = <<"frame", "original">>
  <2>1. Front(<<"original">>) = <<>> /\ Front(<<"frame", "original">>) = <<"frame">>
    BY Tuples
  <2>2. stack' = <<>> \/ stack' = <<"frame">>
    BY <1>1, <2>1 DEF Return
  <2>3. ~Pumping(stack)
    BY <1>0, <1>1, Apart
  <2>4. QED
    BY <2>2, <2>3, Reaches
<1>2. CASE stack = <<"pump", "pumped", "original">> \/ stack = <<"frame", "pump", "pumped", "original">>
  <2>1. /\ Front(<<"pump", "pumped", "original">>) = <<"pump", "pumped">>
        /\ Front(<<"frame", "pump", "pumped", "original">>) = <<"frame", "pump", "pumped">>
    <3>1. Front(<<"pump", "pumped", "original">>) = <<"pump", "pumped">>
      BY Tuples
    <3>2. Front(<<"frame", "pump", "pumped", "original">>) = <<"frame", "pump", "pumped">>
      BY PumpTuples
    <3>3. QED
      BY <3>1, <3>2
  <2>2. stack' = <<"pump", "pumped">> \/ stack' = <<"frame", "pump", "pumped">>
    BY <1>2, <2>1 DEF Return
  <2>3. Pumping(stack)
    BY <1>2 DEF Pumping, PumpingIn
  <2>4. QED
    BY <2>2, <2>3, Reaches
<1>3. QED
  BY <1>1, <1>2, AtTop

LEMMA FrameEnds ==
  ASSUME Shape(stack),
         \/ Top = "frame" /\ stack' = Front(stack)
         \/ Top = "pumped" /\ stack' = Front(Front(stack))
  PROVE  Reached("game", FALSE) \/ Reached("frame", FALSE)
<1>1. CASE Top = "frame" /\ stack' = Front(stack)
  <2>1. stack' = <<>>
    BY <1>1, AtTop, Tuples
  <2>2. QED
    BY <2>1, Reaches
<1>2. CASE Top = "pumped" /\ stack' = Front(Front(stack))
  <2>1. stack = <<"pump", "pumped">> \/ stack = <<"frame", "pump", "pumped">>
    BY <1>2, AtTop
  <2>2. /\ Front(<<"pump", "pumped">>) = <<"pump">> /\ Front(<<"pump">>) = <<>>
        /\ Front(<<"frame", "pump", "pumped">>) = <<"frame", "pump">>
        /\ Front(<<"frame", "pump">>) = <<"frame">>
    BY Tuples
  <2>3. stack' = <<>> \/ stack' = <<"frame">>
    BY <1>2, <2>1, <2>2
  <2>4. QED
    BY <2>3, Reaches
<1>3. QED
  BY <1>1, <1>2

-----------------------------------------------------------------------------
(* Frames and pauses *)

LEMMA PauseInit == Init => PauseInv
<1> SUFFICES ASSUME Init PROVE PauseInv
  OBVIOUS
<1>1. stack = <<>> /\ ~Pumping(stack)
  BY Apart DEF Init
<1>2. Top = "game"
  BY <1>1 DEF Top
<1>3. QED
  BY <1>1, <1>2, DetourAssumption DEF Init, PauseInv, Shape, Pending, Before

\* The stale ticks stay behind the quiet ones.
LEMMA Lag ==
  \A s, t \in 0 .. Threshold, q \in 0 .. Threshold + 1 :
    (s + 2 <= q \/ q = Threshold + 1) /\ t <= s + 1 => t + 1 <= q
BY DetourAssumption

\* A tick before its decision.
LEMMA DetourPause ==
  ASSUME PauseInv, Detour, ~Pump
  PROVE  PauseInv'
<1> USE DetourAssumption DEF hook
<1>0. Shape(stack) /\ stale \in 0 .. Threshold /\ quiet \in 0 .. Threshold + 1
  BY DEF PauseInv
<1>1. UNCHANGED <<inTick, captured, quiet>>
  BY DEF Detour, TickHttpLocker, NoLocker, Sample, Replay, ReplayReturns, NoReplay,
         CounterMoved, CounterStale
<1>2. Top \in Before /\ Pending
  BY DEF Detour, TickHttpLocker, NoLocker, Sample, Replay, ReplayReturns, NoReplay,
         CounterMoved, CounterStale, Before, Pending
<1>3. CASE CounterMoved \/ CounterStale
  <2>1. Goto("original")
    BY <1>3 DEF CounterMoved, CounterStale
  <2>2. ~Pumping(stack) /\ Reached("original", FALSE)
    BY <1>0, <1>2, <2>1, Moves DEF Points
  <2>3. ~Pending'
    BY <2>2 DEF Reached, Pending, Before
  <2>4. CASE CounterMoved
    <3>1. stale' = 0 /\ ~unseen' /\ quiet >= 1
      BY <1>2, <2>4 DEF CounterMoved, PauseInv
    <3>2. QED
      BY <1>0, <1>1, <1>2, <2>2, <2>3, <3>1 DEF PauseInv, Reached
  <2>5. CASE CounterStale
    <3>1. ~unseen /\ unseen' = unseen /\ stale' \in 0 .. Threshold /\ stale' <= stale + 1
      BY <1>0, <2>5 DEF CounterStale, NextStale
    <3>2. captured => stale + 2 <= quiet \/ quiet = Threshold + 1
      BY <1>2, <3>1 DEF PauseInv
    <3>3. captured => stale' + 1 <= quiet
      BY <1>0, <3>1, <3>2, Lag
    <3>4. QED
      BY <1>0, <1>1, <1>2, <2>2, <2>3, <3>1, <3>3 DEF PauseInv, Reached
  <2>6. QED
    BY <1>3, <2>4, <2>5
<1>4. CASE TickHttpLocker \/ NoLocker \/ Sample \/ Replay \/ ReplayReturns \/ NoReplay
  <2>1. UNCHANGED <<unseen, stale>> /\ (Goto("diag") \/ Goto("stale") \/ Goto("callback"))
    BY <1>4 DEF TickHttpLocker, NoLocker, Sample, Replay, ReplayReturns, NoReplay
  <2>2. PICK p \in Before : Goto(p)
    BY <2>1 DEF Before
  <2>3. ~Pumping(stack) /\ Reached(p, FALSE)
    BY <1>0, <1>2, <2>2, Moves DEF Points
  <2>4. Pending'
    BY <2>3 DEF Reached, Pending
  <2>5. QED
    BY <1>1, <1>2, <2>1, <2>3, <2>4 DEF PauseInv, Reached
<1>5. QED
  BY <1>3, <1>4 DEF Detour

\* The detour runs a frame itself.
LEMMA PumpPause ==
  ASSUME PauseInv, Pump
  PROVE  PauseInv'
<1> USE DetourAssumption
<1>0. /\ Shape(stack) /\ stale \in 0 .. Threshold /\ quiet \in 0 .. Threshold + 1
      /\ Top = "stale" /\ ~unseen /\ captured /\ Pending /\ NextStale >= Threshold
  BY DEF PauseInv, Pump, Pending, Before
<1>1. stack' = Front(stack) \o <<"pump", "pumped">>
  BY DEF Pump
<1>2. Reached("pumped", TRUE)
  BY <1>0, <1>1, PumpBegins
<1>3. ~Pending'
  BY <1>2 DEF Reached, Pending, Before
<1>4. stale' = NextStale /\ stale' = Threshold /\ stale' <= stale + 1
  BY <1>0 DEF Pump, NextStale
<1>5. stale + 2 <= quiet \/ quiet = Threshold + 1
  BY <1>0 DEF PauseInv
<1>6. quiet > Threshold /\ stale' + 1 <= quiet
  BY <1>0, <1>4, <1>5
<1>7. inTick' = TRUE /\ unseen' = unseen /\ captured' = captured /\ quiet' = quiet
  BY DEF Pump
<1>8. QED
  BY <1>0, <1>2, <1>3, <1>4, <1>6, <1>7 DEF PauseInv, Reached

LEMMA EnterPause ==
  ASSUME PauseInv, Enter
  PROVE  PauseInv'
<1> USE DetourAssumption DEF hook
<1>0. /\ Shape(stack) /\ stale \in 0 .. Threshold /\ quiet \in 0 .. Threshold + 1
      /\ (inTick <=> Pumping(stack)) /\ UNCHANGED <<inTick, captured, unseen, stale>>
  BY DEF PauseInv, Enter
<1>1. Top \in {"game", "frame", "pumped"} /\ ~Pending
  BY DEF Enter, Frames, Before, Pending
<1>2. CASE EnterGuarded
  <2>1. ~inTick /\ Call("http")
    BY <1>2 DEF EnterGuarded
  <2>2. Top \in {"game", "frame"}
    BY <1>0, <1>1, <2>1, AtTop DEF Pumping, PumpingIn
  <2>3. ~Pumping(stack) /\ Reached("http", FALSE)
    BY <1>0, <2>1, <2>2, Ticks DEF Points, Before
  <2>4. Pending'
    BY <2>3 DEF Reached, Pending, Before
  <2>5. quiet' \in 0 .. Threshold + 1 /\ (quiet' = quiet + 1 \/ quiet' = Threshold + 1) /\ quiet' >= 1
    BY <1>0, <1>2 DEF EnterGuarded
  <2>6. captured /\ ~unseen => stale + 1 <= quiet
    BY DEF PauseInv
  <2>7. captured /\ ~unseen => stale + 1 <= quiet' /\ (stale + 2 <= quiet' \/ quiet' = Threshold + 1)
    BY <1>0, <2>5, <2>6
  <2>8. QED
    BY <1>0, <2>1, <2>3, <2>4, <2>5, <2>7 DEF PauseInv, Reached
<1>3. CASE EnterReentrant
  <2>1. Pumping(stack) /\ Call("original") /\ UNCHANGED quiet
    BY <1>0, <1>3 DEF EnterReentrant
  <2>2. Top = "pumped"
    BY <1>0, <1>1, <2>1, AtTop, Apart
  <2>3. Reached("original", TRUE)
    BY <1>0, <2>1, <2>2, TickInPumped
  <2>4. ~Pending'
    BY <2>3 DEF Reached, Pending, Before
  <2>5. QED
    BY <1>0, <1>1, <2>1, <2>3, <2>4 DEF PauseInv, Reached
<1>4. QED
  BY <1>2, <1>3 DEF Enter

\* The calls and returns of the game.
LEMMA FramePause ==
  ASSUME PauseInv, FrameStarts \/ FrameReturns \/ PumpReturns \/ OriginalReturns
  PROVE  PauseInv'
<1> USE DetourAssumption DEF hook
<1>0. /\ Shape(stack) /\ stale \in 0 .. Threshold /\ quiet \in 0 .. Threshold + 1
      /\ (inTick <=> Pumping(stack))
  BY DEF PauseInv
<1>1. CASE FrameStarts
  <2>1. Reached("frame", FALSE)
    BY <1>0, <1>1, FrameBegins DEF FrameStarts
  <2>2. ~Pumping(stack)
    BY <1>0, <1>1, AtTop, Apart DEF FrameStarts
  <2>3. ~Pending'
    BY <2>1 DEF Reached, Pending, Before
  <2>4. quiet' = 0 /\ unseen' /\ inTick' = inTick /\ stale' = stale
    BY <1>1 DEF FrameStarts
  <2>5. QED
    BY <1>0, <2>1, <2>2, <2>3, <2>4 DEF PauseInv, Reached
<1>2. CASE FrameReturns \/ PumpReturns
  <2>1. Shape(stack') /\ ~Pumping(stack') /\ Top' \in {"game", "frame"}
    BY <1>0, <1>2, FrameEnds DEF FrameReturns, PumpReturns, Return, Reached
  <2>2. ~Pending /\ ~Pending'
    BY <1>2, <2>1 DEF FrameReturns, PumpReturns, Pending, Before
  <2>3. ~inTick'
    BY <1>0, <1>2, AtTop, Apart DEF FrameReturns, PumpReturns
  <2>4. UNCHANGED <<stale, quiet, unseen, captured>>
    BY <1>2 DEF FrameReturns, PumpReturns
  <2>5. QED
    BY <1>0, <2>1, <2>2, <2>3, <2>4 DEF PauseInv
<1>3. CASE OriginalReturns
  <2>1. /\ Shape(stack') /\ Top' \in {"game", "frame", "pumped"}
        /\ Pumping(stack') <=> Pumping(stack)
    BY <1>0, <1>3, TickEnds DEF OriginalReturns, Reached
  <2>2. ~Pending /\ ~Pending'
    BY <1>3, <2>1 DEF OriginalReturns, Pending, Before
  <2>3. UNCHANGED <<stale, quiet, unseen, inTick, captured>>
    BY <1>3 DEF OriginalReturns
  <2>4. QED
    BY <1>0, <2>1, <2>2, <2>3 DEF PauseInv
<1>4. QED
  BY <1>1, <1>2, <1>3

LEMMA PauseNext == ASSUME PauseInv, [Next]_vars PROVE PauseInv'
<1>1. CASE GameSetsBusy \/ Locker \/ UNCHANGED vars
  <2>1. UNCHANGED <<stack, inTick, captured, unseen, stale, quiet>>
    BY <1>1 DEF GameSetsBusy, Locker, LockerCreated, PutStarts, PutEnds, GetStarts, GetEnds, vars, hook
  <2>2. Pending' = Pending /\ Top' = Top
    BY <2>1 DEF Pending, Top
  <2>3. QED
    BY <2>1, <2>2 DEF PauseInv
<1>2. QED
  BY <1>1, DetourPause, PumpPause, EnterPause, FramePause DEF Next

LEMMA Pause == Spec => []PauseInv
  BY PauseInit, PauseNext, PTL DEF Spec

\* Where ProcessTick is running in each shape of the stack.
LEMMA InFrames ==
  ASSUME Shape(stack)
  PROVE  /\ ~Pumping(stack) => /\ InProgress({"pumped"}) = {}
                               /\ \A i \in InProgress(Frames) : i = 1
         /\ Pumping(stack) => /\ InProgress({"pumped"}) # {}
                              /\ \A i, j \in InProgress({"pumped"}) : i = j
<1>1. CASE stack = <<>> \/ stack = <<"frame">>
  BY <1>1, Apart DEF InProgress, Frames
<1>2. ASSUME NEW p \in Points, stack = <<p>> \/ stack = <<"frame", p>>
      PROVE  /\ ~Pumping(stack) /\ InProgress({"pumped"}) = {}
             /\ \A i \in InProgress(Frames) : i = 1
  BY <1>2, Apart DEF InProgress, Frames, Points, Before
<1>3. CASE stack = <<"pump", "pumped">> \/ stack = <<"pump", "pumped", "original">>
  <2>1. Pumping(stack) /\ 2 \in InProgress({"pumped"})
    BY <1>3 DEF Pumping, InProgress
  <2>2. \A i \in InProgress({"pumped"}) : i = 2
    BY <1>3 DEF InProgress
  <2>3. QED
    BY <2>1, <2>2
<1>4. CASE PumpingIn(stack)
  <2>1. Pumping(stack) /\ 3 \in InProgress({"pumped"})
    BY <1>4 DEF Pumping, PumpingIn, InProgress
  <2>2. \A i \in InProgress({"pumped"}) : i = 3
    BY <1>4 DEF PumpingIn, InProgress
  <2>3. QED
    BY <2>1, <2>2
<1>5. QED
  BY <1>1, <1>2, <1>3, <1>4 DEF Shape, Pumping

-----------------------------------------------------------------------------
(* Uploads and replays *)

\* Steps of the hook that call or return and take no notice of the locker.
LEMMA CallsKeep ==
  ASSUME DetourInv, Top # "callback", UNCHANGED <<replay, request>>
  PROVE  DetourInv'
BY DEF DetourInv, UploadInv, ReplayInv, ReplaysAreCompletions, replay, request

LEMMA DetourInit == Init => DetourInv
<1> SUFFICES ASSUME Init PROVE DetourInv
  OBVIOUS
<1>1. replays = <<>> /\ put = 0 /\ stored = {}
  BY DEF Init
<1>2. UploadInv
  BY <1>1 DEF Init, UploadInv
<1>3. replays \in Seq(Nat) /\ DOMAIN replays = {}
  BY <1>1, EmptySeq, LenProperties
<1>4. ReplayInv
  BY <1>1, <1>3 DEF Init, ReplayInv, ReplaysAreCompletions, IsInjective, Range
<1>5. QED
  BY <1>2, <1>4 DEF DetourInv

\* The callback is called again, for an upload that succeeded and is new.
LEMMA ReplayKeeps == ASSUME PauseInv, DetourInv, Replay PROVE DetourInv'
<1>1. /\ Top = "diag" /\ locker = "idle" /\ prev = "put" /\ result = "stored"
      /\ replays' = Append(replays, put) /\ Goto("callback")
      /\ UNCHANGED <<prev, locker, result, put, stored>>
  BY DEF Replay, Completed, request
<1>2. put \in Nat /\ put \in stored /\ put \notin Range(replays) /\ replays \in Seq(Nat)
  BY <1>1 DEF DetourInv, UploadInv, ReplayInv
<1>3. Top' = "callback"
  BY <1>1, Moves DEF PauseInv, Before, Points, Reached
<1>4. /\ replays' \in Seq(Nat) /\ Len(replays) \in Nat
      /\ DOMAIN replays = 1 .. Len(replays) /\ DOMAIN replays' = 1 .. Len(replays) + 1
      /\ \A i \in 1 .. Len(replays) : replays'[i] = replays[i]
      /\ replays'[Len(replays) + 1] = put
  <2>1. /\ replays' \in Seq(Nat) /\ Len(replays') = Len(replays) + 1
        /\ \A i \in 1 .. Len(replays) : replays'[i] = replays[i]
        /\ replays'[Len(replays) + 1] = put
    BY <1>1, <1>2, AppendProperties
  <2>2. Len(replays) \in Nat /\ DOMAIN replays = 1 .. Len(replays) /\ DOMAIN replays' = 1 .. Len(replays')
    BY <1>2, <2>1, LenProperties
  <2>3. QED
    BY <2>1, <2>2
<1>5. ASSUME NEW i \in 1 .. Len(replays) PROVE replays[i] \in Range(replays) /\ replays[i] # put
  BY <1>2, <1>4, <1>5 DEF Range
<1>6. IsInjective(replays')
  <2> SUFFICES ASSUME NEW i \in 1 .. Len(replays) + 1, NEW j \in 1 .. Len(replays) + 1,
                      replays'[i] = replays'[j]
               PROVE  i = j
    BY <1>4 DEF IsInjective
  <2>1. CASE i \in 1 .. Len(replays) /\ j \in 1 .. Len(replays)
    BY <1>4, <2>1 DEF DetourInv, ReplayInv, ReplaysAreCompletions, IsInjective
  <2>2. CASE i = Len(replays) + 1 \/ j = Len(replays) + 1
    BY <1>4, <1>5, <2>2
  <2>3. QED
    BY <1>4, <2>1, <2>2
<1>7. Range(replays') \subseteq stored'
  <2> SUFFICES ASSUME NEW i \in 1 .. Len(replays) + 1 PROVE replays'[i] \in stored
    BY <1>1, <1>4 DEF Range
  <2>1. CASE i = Len(replays) + 1
    BY <1>2, <1>4, <2>1
  <2>2. CASE i \in 1 .. Len(replays)
    BY <1>4, <1>5, <2>2 DEF DetourInv, ReplayInv, ReplaysAreCompletions
  <2>3. QED
    BY <1>4, <2>1, <2>2
<1>8. UploadInv'
  BY <1>1 DEF DetourInv, UploadInv
<1>9. QED
  BY <1>3, <1>4, <1>6, <1>7, <1>8 DEF DetourInv, ReplayInv, ReplaysAreCompletions

\* The hook takes a sample of the locker, or takes a completion as seen.
LEMMA SampleKeeps == ASSUME DetourInv, Sample \/ ReplayReturns \/ NoReplay PROVE DetourInv'
<1>1. /\ prev' = locker \/ prev' = "idle"
      /\ Goto("stale") /\ replays' = replays
      /\ UNCHANGED <<locker, result, put, stored>>
  BY DEF Sample, ReplayReturns, NoReplay, request
<1>2. locker = "put" => put \notin Range(replays)
  BY DEF DetourInv, UploadInv, ReplayInv, ReplaysAreCompletions
<1>3. UploadInv'
  BY <1>1 DEF DetourInv, UploadInv
<1>4. ReplayInv'
  BY <1>1, <1>2 DEF DetourInv, ReplayInv, ReplaysAreCompletions
<1>5. QED
  BY <1>3, <1>4 DEF DetourInv

LEMMA LockerKeeps == ASSUME DetourInv, Locker PROVE DetourInv'
<1>1. stack' = stack /\ UNCHANGED <<prev, replays>>
  BY DEF Locker, LockerCreated, PutStarts, PutEnds, GetStarts, GetEnds, replay
<1>2. Top' = Top
  BY <1>1 DEF Top
<1>3. put \in Nat /\ stored \subseteq 1 .. put /\ Range(replays) \subseteq stored
  BY DEF DetourInv, UploadInv, ReplayInv, ReplaysAreCompletions
<1>4. CASE PutStarts
  <2>1. locker' = "put" /\ put' = put + 1 /\ stored' = stored
    BY <1>4 DEF PutStarts
  <2>2. put' \notin stored /\ put' \notin Range(replays)
    BY <1>3, <2>1
  <2>3. UploadInv'
    BY <1>3, <2>1, <2>2 DEF UploadInv
  <2>4. ReplayInv'
    BY <1>1, <2>1, <2>2 DEF DetourInv, ReplayInv, ReplaysAreCompletions
  <2>5. QED
    BY <1>2, <2>3, <2>4 DEF DetourInv
<1>5. CASE PutEnds
  <2>1. /\ locker = "put" /\ locker' = "idle" /\ put' = put
        /\ \/ result' = "stored" /\ stored' = stored \cup {put}
           \/ result' = "failed" /\ stored' = stored
    BY <1>5 DEF PutEnds
  <2>2. put >= 1
    BY <2>1 DEF DetourInv, UploadInv
  <2>3. stored' \subseteq 1 .. put
    <3>1. put \in 1 .. put
      BY <1>3, <2>2
    <3>2. stored' \subseteq stored \cup {put}
      BY <2>1
    <3>3. QED
      BY <1>3, <3>1, <3>2
  <2>4. UploadInv'
    BY <1>3, <2>1, <2>3 DEF UploadInv
  <2>5. ReplayInv'
    BY <1>1, <1>2, <2>1 DEF DetourInv, ReplayInv, ReplaysAreCompletions
  <2>6. QED
    BY <1>2, <2>4, <2>5 DEF DetourInv
<1>6. CASE LockerCreated \/ GetStarts \/ GetEnds
  <2>1. /\ locker # "put" /\ locker' # "put" /\ UNCHANGED <<result, put, stored>>
    BY <1>6 DEF LockerCreated, GetStarts, GetEnds
  <2>2. UploadInv'
    BY <2>1 DEF DetourInv, UploadInv
  <2>3. ReplayInv'
    BY <1>1, <1>2, <2>1 DEF DetourInv, ReplayInv, ReplaysAreCompletions
  <2>4. QED
    BY <1>2, <2>2, <2>3 DEF DetourInv
<1>7. QED
  BY <1>4, <1>5, <1>6 DEF Locker

\* The hook calls or returns and takes no notice of the locker, or the game does.
LEMMA OthersKeep ==
  ASSUME DetourInv,
         \/ Enter \/ TickHttpLocker \/ NoLocker \/ CounterMoved \/ CounterStale \/ Pump
         \/ PumpReturns \/ OriginalReturns \/ FrameStarts \/ FrameReturns
  PROVE  DetourInv'
<1>1. Top # "callback" /\ UNCHANGED <<replay, request>>
  BY DEF Enter, Frames, TickHttpLocker, NoLocker, CounterMoved, CounterStale, Pump,
         PumpReturns, OriginalReturns, FrameStarts, FrameReturns
<1>2. QED
  BY <1>1, CallsKeep

LEMMA DetourNext == ASSUME PauseInv, DetourInv, [Next]_vars PROVE DetourInv'
<1>1. CASE UNCHANGED vars \/ GameSetsBusy
  <2>1. UNCHANGED <<stack, prev, locker, result, put, stored, replays>>
    BY <1>1 DEF vars, replay, request, GameSetsBusy
  <2>2. QED
    BY <2>1 DEF DetourInv, UploadInv, ReplayInv, ReplaysAreCompletions, Top
<1>2. CASE Next
  BY <1>1, <1>2, OthersKeep, LockerKeeps, SampleKeeps, ReplayKeeps DEF Next, Detour
<1>3. QED
  BY <1>1, <1>2

-----------------------------------------------------------------------------
\* However long the frames are and however many ticks come inside them: the
\* detour's ProcessTick never runs inside itself, the guard is set exactly while
\* it runs, and it runs inside a frame of UE3 only when that frame has lasted
\* for more than Threshold ticks.
THEOREM ReentersLongFrames == Spec => []ReentersOnlyLongFrames
<1>1. ASSUME PauseInv PROVE ReentersOnlyLongFrames
  BY <1>1, InFrames DEF PauseInv, ReentersOnlyLongFrames
<1>2. QED
  BY Pause, <1>1, PTL

\* The detour runs a frame only when UE3 has begun none for more than Threshold
\* ticks, and on a captured object.
THEOREM PumpsWhenStale == Spec => []PumpsOnlyWhenStale
<1>1. ASSUME PauseInv PROVE PumpsOnlyWhenStale
  BY <1>1, InFrames DEF PauseInv, PumpsOnlyWhenStale
<1>2. QED
  BY Pause, <1>1, PTL

\* The callback of an upload is called again only if the upload succeeded, and
\* at most once, whatever requests begin and end between two looks of the hook.
THEOREM ReplayedOnce == Spec => []ReplaysAreCompletions
<1>1. DetourInv => ReplaysAreCompletions
  BY DEF DetourInv, ReplayInv
<1>2. Init => PauseInv /\ DetourInv
  BY PauseInit, DetourInit
<1>3. PauseInv /\ DetourInv /\ [Next]_vars => (PauseInv /\ DetourInv)'
  BY PauseNext, DetourNext
<1>4. QED
  BY <1>1, <1>2, <1>3, PTL DEF Spec
=============================================================================
