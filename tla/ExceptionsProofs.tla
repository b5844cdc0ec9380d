--------------------------- MODULE ExceptionsProofs ---------------------------
(***************************************************************************)
(* Proofs about Exceptions, for any depth of calls. Every step changes the *)
(* top of the stack in place, pushes a frame on it or pops one: the first  *)
(* lemmas say what each does to Shape and to the number of monitors.       *)
(***************************************************************************)
EXTENDS Exceptions, FiniteSetTheorems, TLAPS

\* The frames of r are those of s, except for marks and what the last one does.
Alike(s, r) ==
  /\ r \in Seq(Frames) /\ Len(r) = Len(s)
  /\ \A i \in 1..Len(s) :
       /\ r[i].kind = s[i].kind /\ r[i].call = s[i].call /\ r[i].back = s[i].back
       /\ r[i].sync = s[i].sync
       /\ i < Len(s) => r[i].does = s[i].does /\ r[i].held = s[i].held

\* What the last frame of r may do and hold.
LastFits(r) ==
  r # <<>> =>
    /\ r[Len(r)].kind = "native" => r[Len(r)].held = 0
    /\ r[Len(r)].does = "dispatch" => Len(r) = 1
    /\ r[Len(r)].does = "throw" => r[Len(r)].kind = "native"

\* Changes of the last frame keep the shape.
LEMMA ShapeAlike ==
  ASSUME NEW s \in Seq(Frames), Shape(s), NEW r, Alike(s, r), LastFits(r)
  PROVE  Shape(r)
<1> SUFFICES ASSUME NEW i \in 1..Len(s)
             PROVE  /\ r[i].back = IF i = 1 \/ r[i - 1].does = "dispatch" THEN 0
                                   ELSE PcOf(r, i - 1)
                    /\ r[i].kind = "native" => r[i].call = "invoke" /\ r[i].held = 0
                    /\ r[i].call = "invoke" => i > 1 /\ r[i - 1].does # "dispatch"
                    /\ r[i].does = "dispatch" => i = 1
                    /\ r[i].does = "throw" => r[i].kind = "native"
  BY DEF Alike, Shape
<1>1. Len(s) \in Nat /\ Len(r) = Len(s)
  BY DEF Alike
<1>2. i # 1 => i - 1 \in 1..Len(s) /\ i - 1 < Len(s)
  BY <1>1
<1>3. i # 1 => r[i - 1].does = s[i - 1].does /\ PcOf(r, i - 1) = PcOf(s, i - 1)
  BY <1>2 DEF Alike, PcOf
<1>4. r[i].kind = s[i].kind /\ r[i].call = s[i].call /\ r[i].back = s[i].back
  BY DEF Alike
<1>5. CASE i < Len(s)
  BY <1>3, <1>4, <1>5 DEF Alike, Shape
<1>6. CASE i = Len(s)
  <2>1. r # <<>>
    BY <1>1, <1>6
  <2> QED
    BY <1>1, <1>3, <1>4, <1>6, <2>1 DEF LastFits, Shape
<1> QED
  BY <1>1, <1>5, <1>6

\* A pushed frame that knows its caller keeps the shape.
LEMMA ShapePush ==
  ASSUME NEW s \in Seq(Frames), s # <<>>, Shape(s), NEW f \in Frames,
         f.back = IF s[Len(s)].does = "dispatch" THEN 0 ELSE PcOf(s, Len(s)),
         f.does = "code",
         f.kind = "native" => f.call = "invoke" /\ f.held = 0,
         f.call = "invoke" => s[Len(s)].does # "dispatch"
  PROVE  Append(s, f) \in Seq(Frames) /\ Shape(Append(s, f))
<1> DEFINE r == Append(s, f)
<1>1. /\ r \in Seq(Frames) /\ Len(s) \in Nat \ {0} /\ Len(r) = Len(s) + 1
      /\ r[Len(s) + 1] = f /\ \A i \in 1..Len(s) : r[i] = s[i]
  OBVIOUS
<1> HIDE DEF r
<1>2. \A i \in 1..Len(s) : PcOf(r, i) = PcOf(s, i)
  BY <1>1 DEF PcOf
<1>3. ASSUME NEW i \in 1..Len(r)
      PROVE  /\ r[i].back = IF i = 1 \/ r[i - 1].does = "dispatch" THEN 0
                            ELSE PcOf(r, i - 1)
             /\ r[i].kind = "native" => r[i].call = "invoke" /\ r[i].held = 0
             /\ r[i].call = "invoke" => i > 1 /\ r[i - 1].does # "dispatch"
             /\ r[i].does = "dispatch" => i = 1
             /\ r[i].does = "throw" => r[i].kind = "native"
  <2>1. CASE i = Len(s) + 1
    <3>1. i - 1 = Len(s) /\ i # 1 /\ i > 1 /\ r[i] = f /\ r[i - 1] = s[Len(s)]
          /\ PcOf(r, i - 1) = PcOf(s, Len(s))
      BY <1>1, <1>2, <2>1
    <3> QED
      BY <3>1
  <2>2. CASE i \in 1..Len(s)
    <3>1. i # 1 => i - 1 \in 1..Len(s)
      BY <1>1, <2>2
    <3>2. r[i] = s[i] /\ (i # 1 => r[i - 1] = s[i - 1] /\ PcOf(r, i - 1) = PcOf(s, i - 1))
      BY <1>1, <1>2, <2>2, <3>1
    <3> QED
      BY <2>2, <3>2 DEF Shape
  <2> QED
    BY <1>1, <2>1, <2>2
<1> QED
  BY <1>1, <1>3 DEF Shape, r

\* The frames below the last one.
LEMMA PopFrames ==
  ASSUME NEW s \in Seq(Frames), s # <<>>
  PROVE  LET r == SubSeq(s, 1, Len(s) - 1) IN
           /\ r \in Seq(Frames) /\ Len(s) \in Nat \ {0} /\ Len(r) = Len(s) - 1
           /\ \A i \in 1..Len(r) : r[i] = s[i]
<1> DEFINE r == SubSeq(s, 1, Len(s) - 1)
<1>1. Len(s) \in Nat \ {0}
  OBVIOUS
<1>2. /\ r \in Seq(Frames) /\ Len(r) = Len(s) - 1
      /\ \A i \in 1..(Len(s) - 1) : r[i] = s[i]
  OBVIOUS
<1> HIDE DEF r
<1>3. \A i \in 1..Len(r) : r[i] = s[i]
  BY <1>2
<1> QED
  BY <1>1, <1>2, <1>3 DEF r

\* Without its last frame a stack keeps its shape.
LEMMA ShapePop ==
  ASSUME NEW s \in Seq(Frames), s # <<>>, Shape(s)
  PROVE  LET r == SubSeq(s, 1, Len(s) - 1) IN
           /\ r \in Seq(Frames) /\ Len(r) = Len(s) - 1 /\ Shape(r)
           /\ \A i \in 1..Len(r) : r[i] = s[i]
<1> DEFINE r == SubSeq(s, 1, Len(s) - 1)
<1>1. /\ r \in Seq(Frames) /\ Len(s) \in Nat \ {0} /\ Len(r) = Len(s) - 1
      /\ \A i \in 1..Len(r) : r[i] = s[i]
  BY PopFrames
<1> HIDE DEF r
<1>2. ASSUME NEW i \in 1..Len(r)
      PROVE  /\ i \in 1..Len(s) /\ r[i] = s[i]
             /\ i # 1 => r[i - 1] = s[i - 1] /\ PcOf(r, i - 1) = PcOf(s, i - 1)
  BY <1>1 DEF PcOf
<1>3. Shape(r)
  BY <1>2 DEF Shape
<1> QED
  BY <1>1, <1>3 DEF r

-----------------------------------------------------------------------------
(* The number of monitors.                                                  *)

\* The frames that hold monitors are finitely many.
LEMMA MonitorsFinite ==
  ASSUME NEW s \in Seq(Frames)
  PROVE  /\ IsFiniteSet(Synced(s)) /\ IsFiniteSet(Blocked(s))
         /\ Cardinality(Synced(s)) \in Nat /\ Cardinality(Blocked(s)) \in Nat
<1>1. Len(s) \in Nat
  OBVIOUS
<1>2. IsFiniteSet(1..Len(s))
  BY <1>1, FS_Interval
<1>3. Synced(s) \subseteq 1..Len(s) /\ Blocked(s) \subseteq 1..Len(s)
  BY DEF Synced, Blocked
<1> QED
  BY <1>2, <1>3, FS_Subset, FS_CardinalityType

\* Marks do not hold monitors.
LEMMA MonitorsAlike ==
  ASSUME NEW s \in Seq(Frames), NEW r \in Seq(Frames), Len(r) = Len(s),
         \A i \in 1..Len(s) : r[i].sync = s[i].sync /\ r[i].held = s[i].held
  PROVE  Monitors(r) = Monitors(s)
<1>1. Synced(r) = Synced(s) /\ Blocked(r) = Blocked(s)
  BY DEF Synced, Blocked
<1> QED
  BY <1>1 DEF Monitors

\* The last frame holds a monitor if it is synchronized, and one if its block is held.
LEMMA MonitorsLast ==
  ASSUME NEW s \in Seq(Frames), NEW r \in Seq(Frames), s # <<>>, Len(r) = Len(s) - 1,
         \A i \in 1..Len(r) : r[i].sync = s[i].sync /\ r[i].held = s[i].held
  PROVE  Monitors(s) = Monitors(r) + Count(s[Len(s)].sync) + s[Len(s)].held
<1>1. Len(s) \in Nat \ {0} /\ s[Len(s)] \in Frames
  OBVIOUS
<1>2. Len(s) \notin Synced(r) /\ Len(s) \notin Blocked(r)
  BY <1>1 DEF Synced, Blocked
<1>3. Synced(s) = IF s[Len(s)].sync THEN Synced(r) \cup {Len(s)} ELSE Synced(r)
  BY <1>1 DEF Synced
<1>4. Blocked(s) = IF s[Len(s)].held = 1 THEN Blocked(r) \cup {Len(s)} ELSE Blocked(r)
  BY SMTT(30), <1>1 DEF Blocked
<1>5. /\ IsFiniteSet(Synced(r)) /\ IsFiniteSet(Blocked(r))
      /\ Cardinality(Synced(r)) \in Nat /\ Cardinality(Blocked(r)) \in Nat
  BY MonitorsFinite
<1>6. /\ Cardinality(Synced(r) \cup {Len(s)}) = Cardinality(Synced(r)) + 1
      /\ Cardinality(Blocked(r) \cup {Len(s)}) = Cardinality(Blocked(r)) + 1
  BY <1>2, <1>5, FS_AddElement
<1>7. s[Len(s)].held \in 0..1 /\ s[Len(s)].sync \in BOOLEAN
  BY <1>1 DEF Frames
<1>8. Cardinality(Synced(s)) = Cardinality(Synced(r)) + Count(s[Len(s)].sync)
  BY <1>3, <1>5, <1>6, <1>7 DEF Count
<1>9. Cardinality(Blocked(s)) = Cardinality(Blocked(r)) + s[Len(s)].held
  BY <1>4, <1>5, <1>6, <1>7
<1>10. Count(s[Len(s)].sync) \in Nat
  BY DEF Count
<1> QED
  BY <1>5, <1>7, <1>8, <1>9, <1>10 DEF Monitors

-----------------------------------------------------------------------------
(* What keeps the inductive invariant.                                      *)

\* A running thread has a frame, and the pc and the dispatch mark fit it.
LEMMA TopFacts ==
  ASSUME IInv, Active
  PROVE  /\ stack \in Seq(Frames) /\ stack # <<>> /\ Depth \in Nat \ {0}
         /\ Depth \in 1..Depth /\ Top \in Frames /\ Top = stack[Depth]
         /\ Top.does # "dispatch" /\ pc = PcOf(stack, Depth)
         /\ monitor_num = Monitors(stack) /\ monitor_num \in Nat /\ Shape(stack)
         /\ Top.kind = "native" => Top.call = "invoke" /\ Top.held = 0
         /\ Top.call = "invoke" => Depth > 1 /\ stack[Depth - 1].does # "dispatch"
<1>1. /\ stack \in Seq(Frames) /\ stack # <<>> /\ Shape(stack) /\ Top.does # "dispatch"
      /\ pc = PcOf(stack, Depth) /\ monitor_num = Monitors(stack) /\ monitor_num \in Nat
  BY DEF IInv, TypeOK, PcIsTops, PcOf, Top, MonitorBalance
<1>2. Len(stack) \in Nat \ {0} /\ stack[Len(stack)] \in Frames
  BY <1>1
<1> QED
  BY <1>1, <1>2 DEF Depth, Top, Shape

\* The number of monitors is a number.
LEMMA MonitorsType ==
  ASSUME NEW s \in Seq(Frames)
  PROVE  Monitors(s) \in Nat
  BY MonitorsFinite DEF Monitors

\* A step that changes the running frame in place.
LEMMA EditStep ==
  ASSUME IInv, UNCHANGED quiet, Active, Alike(stack, stack'), LastFits(stack'),
         stack'[Depth].does # "dispatch", monitor_num' = Monitors(stack'),
         step' \in Steps, UNCHANGED pc
  PROVE  IInv'
<1>1. Depth \in Nat \ {0} /\ stack \in Seq(Frames) /\ Shape(stack)
  BY TopFacts
<1>2. /\ stack' \in Seq(Frames) /\ Len(stack') = Depth /\ stack' # <<>>
      /\ stack'[Depth].kind = stack[Depth].kind
  BY <1>1 DEF Alike, Depth
<1>3. Shape(stack')
  BY <1>1, ShapeAlike
<1>4. monitor_num' \in Nat
  BY <1>2, MonitorsType
<1>5. TypeOK'
  BY <1>2, <1>4 DEF TypeOK, IInv
<1>6. pc' = IF stack'[Depth].kind = "java" THEN Depth ELSE 0
  BY <1>2, TopFacts DEF PcOf
<1>7. Shape(stack)'
  BY <1>3 DEF Shape, PcOf
<1>8. Depth' = Depth /\ Top' = stack'[Depth]
  BY <1>2 DEF Depth, Top
<1>9. PcIsTops' /\ (Active => stack # <<>> /\ Top.does # "dispatch")'
  BY <1>2, <1>6, <1>8 DEF PcIsTops
<1>10. MonitorBalance'
  BY DEF MonitorBalance, Monitors, Synced, Blocked
<1> QED
  BY <1>5, <1>7, <1>9, <1>10 DEF IInv

\* A step that pushes a frame, the caller perhaps marked or changed before.
LEMMA PushStep ==
  ASSUME IInv, UNCHANGED quiet, Active, NEW s, Alike(stack, s), LastFits(s), s[Depth].held = Top.held,
         NEW f \in Frames, f.does = "code", f.held = 0,
         f.back = IF s[Depth].does = "dispatch" THEN 0 ELSE PcOf(s, Depth),
         f.kind = "native" => f.call = "invoke",
         f.call = "invoke" => s[Depth].does # "dispatch",
         Push(s, f), monitor_num' = monitor_num + Count(f.sync)
  PROVE  IInv'
<1>1. Depth \in Nat \ {0} /\ stack \in Seq(Frames) /\ Shape(stack)
  BY TopFacts
<1>2. s \in Seq(Frames) /\ Len(s) = Depth /\ s # <<>> /\ Shape(s)
  BY <1>1, ShapeAlike DEF Alike, Depth
<1>3. /\ stack' = Append(s, f) /\ step' = "run"
      /\ pc' = IF f.kind = "java" THEN Depth + 1 ELSE 0
  BY DEF Push
<1>4. stack' \in Seq(Frames) /\ Shape(stack')
  BY <1>2, <1>3, ShapePush
<1>5. /\ Len(stack') = Depth + 1 /\ stack'[Depth + 1] = f /\ stack' # <<>>
      /\ \A i \in 1..Depth : stack'[i] = s[i]
  BY <1>1, <1>2, <1>3
<1>6. Monitors(s) = Monitors(stack)
  <2>1. \A i \in 1..Len(stack) : s[i].sync = stack[i].sync /\ s[i].held = stack[i].held
    BY <1>1 DEF Alike, Depth, Top
  <2> QED
    BY <1>1, <1>2, <2>1, MonitorsAlike DEF Depth
<1>7. Monitors(stack') = Monitors(s) + Count(f.sync) + 0
  <2>1. Len(s) = Len(stack') - 1
    BY <1>1, <1>2, <1>5
  <2> QED
    BY <1>2, <1>4, <1>5, <2>1, MonitorsLast
<1>8. monitor_num' = Monitors(stack') /\ monitor_num' \in Nat
  BY <1>2, <1>4, <1>6, <1>7, TopFacts, MonitorsType DEF Count
<1>9. Depth' = Depth + 1 /\ Top' = f
  BY <1>5 DEF Depth, Top
<1>10. TypeOK'
  BY <1>1, <1>3, <1>4, <1>8 DEF TypeOK, Steps, IInv
<1>11. PcIsTops' /\ (Active => stack # <<>> /\ Top.does # "dispatch")'
  BY <1>3, <1>5, <1>9 DEF PcIsTops
<1>12. Shape(stack)' /\ MonitorBalance'
  BY <1>4, <1>8 DEF Shape, PcOf, MonitorBalance, Monitors, Synced, Blocked
<1> QED
  BY <1>10, <1>11, <1>12 DEF IInv

\* The frames of r are those of s except for marks.
SameButMarks(s, r) ==
  /\ r \in Seq(Frames) /\ Len(r) = Len(s)
  /\ \A i \in 1..Len(s) :
       /\ r[i].kind = s[i].kind /\ r[i].call = s[i].call /\ r[i].back = s[i].back
       /\ r[i].sync = s[i].sync /\ r[i].does = s[i].does /\ r[i].held = s[i].held

\* Marks change neither the shape nor the number of monitors.
LEMMA MarksKeep ==
  ASSUME NEW s \in Seq(Frames), Shape(s), NEW r, SameButMarks(s, r)
  PROVE  Shape(r) /\ Monitors(r) = Monitors(s)
<1>1. Alike(s, r)
  BY DEF SameButMarks, Alike
<1>2. LastFits(r)
  <2>1. r # <<>> => Len(s) \in 1..Len(s)
    BY DEF SameButMarks
  <2> QED
    BY <2>1 DEF SameButMarks, LastFits, Shape
<1>3. Monitors(r) = Monitors(s)
  BY MonitorsAlike DEF SameButMarks
<1> QED
  BY <1>1, <1>2, <1>3, ShapeAlike

\* A step that pops the running frame and perhaps changes marks.
LEMMA PopStep ==
  ASSUME IInv, UNCHANGED quiet, Active, Top.held = 0, SameButMarks(Below, stack'),
         pc' = Top.back, monitor_num' = monitor_num - Count(Top.sync), step' \in Steps,
         Active' => Depth > 1 /\ stack[Depth - 1].does # "dispatch"
  PROVE  IInv'
<1>1. Depth \in Nat \ {0} /\ stack \in Seq(Frames) /\ stack # <<>> /\ Shape(stack)
      /\ Top = stack[Depth] /\ Top \in Frames /\ Depth = Len(stack)
  BY TopFacts DEF Depth
<1>2. /\ Below \in Seq(Frames) /\ Len(Below) = Depth - 1 /\ Shape(Below)
      /\ \A i \in 1..Len(Below) : Below[i] = stack[i]
  BY <1>1, ShapePop DEF Below, Depth
<1>3. stack' \in Seq(Frames) /\ Len(stack') = Depth - 1
  BY <1>2 DEF SameButMarks
<1>4. Shape(stack') /\ Monitors(stack') = Monitors(Below)
  BY <1>2, MarksKeep
<1>5. Monitors(stack) = Monitors(Below) + Count(Top.sync) + 0
  BY <1>1, <1>2, MonitorsLast
<1>6. Monitors(Below) \in Nat /\ Count(Top.sync) \in Nat
  BY <1>2, MonitorsType DEF Count
<1>7. monitor_num' = Monitors(stack') /\ monitor_num' \in Nat
  BY <1>4, <1>5, <1>6, TopFacts
<1>8. Top.back \in Nat
  BY <1>1 DEF Frames
<1>9. TypeOK'
  BY <1>3, <1>7, <1>8 DEF TypeOK, IInv
<1>10. ASSUME Active'
       PROVE  /\ stack' # <<>> /\ Top'.does # "dispatch"
              /\ pc' = IF Top'.kind = "java" THEN Depth' ELSE 0
  <2>1. Depth > 1 /\ stack[Depth - 1].does # "dispatch" /\ Depth - 1 \in 1..Len(Below)
    BY <1>1, <1>2, <1>10
  <2>2. Top.back = PcOf(stack, Depth - 1)
    BY <1>1, <2>1 DEF Shape
  <2>3. Depth' = Depth - 1 /\ Top' = stack'[Depth - 1] /\ stack' # <<>>
    BY <1>1, <1>3, <2>1 DEF Depth, Top
  <2>4. /\ stack'[Depth - 1].kind = stack[Depth - 1].kind
        /\ stack'[Depth - 1].does = stack[Depth - 1].does
    BY <1>2, <2>1 DEF SameButMarks
  <2> QED
    BY <2>1, <2>2, <2>3, <2>4 DEF PcOf
<1>11. PcIsTops' /\ (Active => stack # <<>> /\ Top.does # "dispatch")'
  BY <1>10 DEF PcIsTops
<1>12. Shape(stack)' /\ MonitorBalance'
  BY <1>4, <1>7 DEF Shape, PcOf, MonitorBalance, Monitors, Synced, Blocked
<1> QED
  BY <1>9, <1>11, <1>12 DEF IInv

-----------------------------------------------------------------------------
(* Every step keeps the inductive invariant.                                *)

\* Changing marks in two goes is changing marks.
LEMMA MarkAgain ==
  ASSUME NEW s \in Seq(Frames), NEW r, SameButMarks(s, r), NEW i \in 1..Len(r),
         NEW b \in BOOLEAN
  PROVE  SameButMarks(s, [r EXCEPT ![i].mark = b])
<1>1. r \in Seq(Frames) /\ r[i] \in Frames
  BY DEF SameButMarks
<1>2. [r[i] EXCEPT !.mark = b] \in Frames
  BY <1>1 DEF Frames
<1>3. /\ [r EXCEPT ![i].mark = b] \in Seq(Frames)
      /\ Len([r EXCEPT ![i].mark = b]) = Len(r)
  BY <1>1, <1>2
<1>4. \A j \in 1..Len(r) : [r EXCEPT ![i].mark = b][j] =
        IF j = i THEN [r[i] EXCEPT !.mark = b] ELSE r[j]
  BY <1>1
<1>5. /\ [r[i] EXCEPT !.mark = b].kind = r[i].kind /\ [r[i] EXCEPT !.mark = b].call = r[i].call
      /\ [r[i] EXCEPT !.mark = b].back = r[i].back /\ [r[i] EXCEPT !.mark = b].sync = r[i].sync
      /\ [r[i] EXCEPT !.mark = b].does = r[i].does /\ [r[i] EXCEPT !.mark = b].held = r[i].held
  BY <1>1 DEF Frames
<1> QED
  BY <1>3, <1>4, <1>5 DEF SameButMarks

\* What the running frame leaves behind.
LEMMA BelowFacts ==
  ASSUME IInv, Active
  PROVE  /\ Below \in Seq(Frames) /\ Len(Below) = Depth - 1 /\ SameButMarks(Below, Below)
         /\ \A i \in 1..(Depth - 1) : Below[i] = stack[i]
<1>1. Depth \in Nat \ {0} /\ stack \in Seq(Frames) /\ stack # <<>> /\ Shape(stack)
  BY TopFacts
<1>2. /\ Below \in Seq(Frames) /\ Len(Below) = Depth - 1
      /\ \A i \in 1..Len(Below) : Below[i] = stack[i]
  BY <1>1, ShapePop DEF Below, Depth
<1> QED
  BY <1>2 DEF SameButMarks

\* A method that is left, by a return or by an exception, keeps the invariant.
LEMMA LeaveStep ==
  ASSUME IInv, UNCHANGED quiet, Active, Top.held = 0, NEW s, SameButMarks(Below, s),
         NEW v \in Results, Leave(s, v)
  PROVE  IInv'
<1>1. Depth \in Nat \ {0} /\ (Top.call = "invoke" => Depth > 1 /\ stack[Depth - 1].does # "dispatch")
  BY TopFacts
<1>2. /\ Below \in Seq(Frames) /\ Len(Below) = Depth - 1
      /\ \A i \in 1..(Depth - 1) : Below[i] = stack[i]
  BY BelowFacts
<1>3. s \in Seq(Frames) /\ Len(s) = Depth - 1
  BY <1>2 DEF SameButMarks
<1>4. pc' = Top.back /\ monitor_num' = monitor_num - Count(Top.sync)
  BY DEF Leave
<1>5. CASE Top.call = "invoke"
  <2>1. Check(s, v)
    BY <1>5 DEF Leave
  <2>2. Len(s) \in 1..Len(s)
    BY <1>1, <1>3, <1>5
  <2>3. SameButMarks(Below, [s EXCEPT ![Len(s)].mark = FALSE])
    BY <1>2, <2>2, MarkAgain
  <2>4. SameButMarks(Below, stack') /\ step' \in Steps
    BY <2>1, <2>3 DEF Check, Steps
  <2> QED
    BY <1>1, <1>4, <1>5, <2>4, PopStep
<1>6. CASE Top.call # "invoke"
  <2>1. BackInVM(s)
    BY <1>6 DEF Leave
  <2>2. SameButMarks(Below, stack') /\ step' \in Steps
    BY <2>1 DEF BackInVM, Steps
  <2>3. ASSUME Active' PROVE Depth > 1 /\ stack[Depth - 1].does # "dispatch"
    <3>1. s # <<>> /\ s[Len(s)].does # "dispatch"
      BY <2>1, <2>3 DEF BackInVM, Active
    <3>2. Depth > 1 /\ Depth - 1 \in 1..Len(Below)
      BY <1>1, <1>2, <1>3, <3>1
    <3> QED
      BY <1>2, <1>3, <3>1, <3>2 DEF SameButMarks
  <2> QED
    BY <1>4, <2>2, <2>3, PopStep
<1> QED
  BY <1>5, <1>6

\* A stack whose last frame only gets a new field is like it was.
LEMMA SetLast ==
  ASSUME IInv, Active, NEW f \in Frames,
         f.kind = Top.kind, f.call = Top.call, f.back = Top.back, f.sync = Top.sync
  PROVE  LET r == [stack EXCEPT ![Depth] = f] IN
           /\ Alike(stack, r) /\ r[Depth] = f /\ Len(r) = Depth
           /\ \A i \in 1..(Depth - 1) : r[i] = stack[i]
<1> DEFINE r == [stack EXCEPT ![Depth] = f]
<1>1. stack \in Seq(Frames) /\ Depth \in 1..Depth /\ Depth = Len(stack) /\ Top = stack[Depth]
  BY TopFacts DEF Depth
<1>2. /\ r \in Seq(Frames) /\ Len(r) = Depth /\ r[Depth] = f
      /\ \A i \in 1..(Depth - 1) : r[i] = stack[i]
  BY <1>1
<1> HIDE DEF r
<1>3. Alike(stack, r)
  BY <1>1, <1>2 DEF Alike
<1> QED
  BY <1>2, <1>3 DEF r

\* A new frame of the running Java method's callee.
LEMMA FrameFacts ==
  ASSUME IInv, NEW k \in {"java", "native"}, NEW c \in {"invoke", "upcall"}, NEW b \in BOOLEAN
  PROVE  /\ Frame(k, c, b) \in Frames /\ Frame(k, c, b).back = pc
         /\ Frame(k, c, b).does = "code" /\ Frame(k, c, b).held = 0
         /\ Frame(k, c, b).sync = b /\ Frame(k, c, b).kind = k /\ Frame(k, c, b).call = c
         /\ ~Frame(k, c, b).mark
  BY DEF Frame, Frames, IInv, TypeOK

\* The stack is like itself.
LEMMA SelfAlike ==
  ASSUME IInv, Active
  PROVE  Alike(stack, stack) /\ LastFits(stack) /\ stack[Depth].held = Top.held
  BY TopFacts DEF Alike, LastFits, Depth, Top, Shape

\* Calls.
LEMMA CallStep ==
  ASSUME IInv, UNCHANGED quiet, (\E b \in BOOLEAN : Invoke("java", b) \/ Invoke("native", b)) \/ Upcall
  PROVE  IInv'
<1>1. Active
  BY DEF Active, Invoke, Upcall, Runs
<1>2. PICK k \in {"java", "native"}, c \in {"invoke", "upcall"}, b \in BOOLEAN :
        /\ Push(stack, Frame(k, c, b)) /\ monitor_num' = monitor_num + Count(b)
        /\ k = "native" => c = "invoke"
  <2>1. CASE \E b \in BOOLEAN : Invoke("java", b) \/ Invoke("native", b)
    BY <2>1 DEF Invoke
  <2>2. CASE Upcall
    <3>1. Push(stack, Frame("java", "upcall", FALSE)) /\ monitor_num' = monitor_num
      BY <2>2 DEF Upcall
    <3>2. monitor_num' = monitor_num + Count(FALSE)
      BY <1>1, <3>1, TopFacts DEF Count
    <3> QED
      BY <3>1, <3>2
  <2> QED
    BY <2>1, <2>2
<1>3. stack[Depth].does # "dispatch" /\ pc = PcOf(stack, Depth)
  BY <1>1, TopFacts
<1> QED
  BY <1>1, <1>2, <1>3, FrameFacts, SelfAlike, PushStep

\* A synchronized block is entered or left.
LEMMA BlockStep ==
  ASSUME IInv, UNCHANGED quiet, EnterBlock \/ LeaveBlock
  PROVE  IInv'
<1>1. Active /\ Runs("java")
  BY DEF Active, EnterBlock, LeaveBlock, Runs
<1>2. PICK h \in 0..1 : /\ Top.held = 1 - h /\ stack' = [stack EXCEPT ![Depth].held = h]
                         /\ monitor_num' = monitor_num + h - (1 - h) /\ UNCHANGED <<step, pc>>
  BY <1>1, TopFacts DEF EnterBlock, LeaveBlock
<1> DEFINE f == [Top EXCEPT !.held = h]
<1>3. /\ f \in Frames /\ f.kind = Top.kind /\ f.call = Top.call /\ f.back = Top.back
      /\ f.sync = Top.sync /\ f.does = "code" /\ f.held = h /\ f.kind = "java"
  BY <1>1, TopFacts DEF Frames, Runs
<1>4. stack' = [stack EXCEPT ![Depth] = f]
  BY <1>2 DEF Top
<1> HIDE DEF f
<1>5. /\ Alike(stack, stack') /\ stack'[Depth] = f /\ Len(stack') = Depth
      /\ \A i \in 1..(Depth - 1) : stack'[i] = stack[i]
  BY <1>1, <1>3, <1>4, SetLast
<1>6. LastFits(stack')
  BY <1>3, <1>5 DEF LastFits
<1>7. monitor_num' = Monitors(stack')
  <2>1. /\ stack \in Seq(Frames) /\ stack' \in Seq(Frames) /\ stack # <<>>
        /\ Depth \in Nat \ {0} /\ Depth = Len(stack) /\ Top = stack[Depth]
        /\ monitor_num = Monitors(stack) /\ Top.sync \in BOOLEAN
    BY <1>1, <1>5, TopFacts DEF Alike, Depth, Frames
  <2>2. /\ Below \in Seq(Frames) /\ Len(Below) = Depth - 1
        /\ \A i \in 1..(Depth - 1) : Below[i] = stack[i]
    BY <1>1, BelowFacts
  <2>3. Monitors(stack) = Monitors(Below) + Count(Top.sync) + (1 - h)
    BY <1>2, <2>1, <2>2, MonitorsLast
  <2>4. Monitors(stack') = Monitors(Below) + Count(Top.sync) + h
    <3>1. stack' # <<>> /\ Len(Below) = Len(stack') - 1
      BY <1>5, <2>1, <2>2
    <3>2. \A i \in 1..Len(Below) : Below[i].sync = stack'[i].sync /\ Below[i].held = stack'[i].held
      BY <1>5, <2>2
    <3> QED
      BY <1>3, <1>5, <2>1, <2>2, <3>1, <3>2, MonitorsLast
  <2>5. Monitors(Below) \in Nat /\ Count(Top.sync) \in Nat
    BY <2>2, MonitorsType DEF Count
  <2> QED
    BY <1>2, <2>1, <2>3, <2>4, <2>5
<1>8. step' \in Steps
  BY <1>2 DEF IInv, TypeOK
<1> QED
  BY <1>1, <1>2, <1>3, <1>5, <1>6, <1>7, <1>8, EditStep

\* A banned method is not called: only the mark of the running frame can change.
LEMMA BannedStep ==
  ASSUME IInv, UNCHANGED quiet, InvokeBanned
  PROVE  IInv'
<1>1. Active /\ Runs("java")
  BY DEF Active, InvokeBanned, Runs
<1>2. PICK v \in Results : Check(stack, v) /\ UNCHANGED <<pc, monitor_num>>
  BY DEF InvokeBanned
<1>3. /\ stack \in Seq(Frames) /\ Len(stack) = Depth /\ Depth \in 1..Len(stack)
      /\ Shape(stack) /\ monitor_num = Monitors(stack) /\ stack[Depth].does = "code"
  BY <1>1, TopFacts DEF Depth, Runs
<1>4. SameButMarks(stack, stack)
  BY <1>3 DEF SameButMarks
<1>5. SameButMarks(stack, stack') /\ step' \in Steps
  BY <1>2, <1>3, <1>4, MarkAgain DEF Check, Steps
<1>6. Monitors(stack') = Monitors(stack)
  BY <1>3, <1>5, MarksKeep
<1>7. Alike(stack, stack')
  BY <1>5 DEF SameButMarks, Alike
<1>8. LastFits(stack') /\ stack'[Depth].does # "dispatch"
  BY <1>3, <1>5 DEF SameButMarks, LastFits, Shape
<1> QED
  BY <1>1, <1>2, <1>3, <1>5, <1>6, <1>7, <1>8, EditStep

\* The step of the thread changes and nothing else does.
LEMMA ThrowCatchStep ==
  ASSUME IInv, UNCHANGED quiet, Throw \/ Catch
  PROVE  IInv'
<1>1. Active /\ step' \in {"run", "handle"} /\ UNCHANGED <<stack, pc, monitor_num>>
  BY DEF Active, Throw, Catch, Runs
<1>2. stack[Depth].does # "dispatch" /\ monitor_num' = Monitors(stack')
  BY <1>1, TopFacts
<1> QED
  BY <1>1, <1>2, SelfAlike, EditStep DEF Steps

\* A native throws.
LEMMA NativeThrowStep ==
  ASSUME IInv, UNCHANGED quiet, NativeThrow
  PROVE  IInv'
<1> DEFINE t == [Top EXCEPT !.does = "throw"]
           r == [stack EXCEPT ![Depth] = t]
           s == [r EXCEPT ![Depth - 1].mark = TRUE]
<1>1. Active /\ Runs("native")
  BY DEF Active, NativeThrow, Runs
<1>2. /\ Depth \in Nat /\ Depth > 1 /\ Top = stack[Depth] /\ Top.kind = "native"
      /\ Top.held = 0 /\ Top \in Frames /\ stack \in Seq(Frames) /\ Depth = Len(stack)
  BY <1>1, TopFacts DEF Runs, Depth
<1>3. /\ t \in Frames /\ t.kind = Top.kind /\ t.call = Top.call /\ t.back = Top.back
      /\ t.sync = Top.sync /\ t.does = "throw" /\ t.held = 0
  BY <1>2 DEF Frames
<1>4. [stack EXCEPT ![Depth - 1].mark = TRUE, ![Depth].does = "throw"] = s
  BY <1>2
<1> HIDE DEF t
<1>5. /\ Alike(stack, r) /\ r[Depth] = t /\ Len(r) = Depth /\ r \in Seq(Frames)
      /\ \A i \in 1..(Depth - 1) : r[i] = stack[i]
  BY <1>1, <1>3, SetLast DEF Alike
<1> HIDE DEF r
<1>6. SameButMarks(r, s)
  <2>1. SameButMarks(r, r) /\ Depth - 1 \in 1..Len(r)
    BY <1>2, <1>5 DEF SameButMarks
  <2> QED
    BY <1>5, <2>1, MarkAgain
<1> HIDE DEF s
<1>7. /\ s[Depth].does = "throw" /\ s[Depth].held = 0 /\ s[Depth].kind = "native"
      /\ Len(s) = Depth
  BY <1>2, <1>3, <1>5, <1>6 DEF SameButMarks
<1>8. Alike(stack, s) /\ LastFits(s)
  BY <1>2, <1>5, <1>6, <1>7 DEF Alike, SameButMarks, LastFits
<1>9. pc = 0 /\ PcOf(s, Depth) = 0
  BY <1>1, <1>2, <1>7, TopFacts DEF PcOf
<1>10. /\ Push(s, Frame("java", "upcall", FALSE))
       /\ monitor_num' = monitor_num + Count(FALSE)
  <2>1. Push(s, Frame("java", "upcall", FALSE)) /\ monitor_num' = monitor_num
    BY <1>4 DEF NativeThrow
  <2>2. monitor_num' = monitor_num + Count(FALSE)
    BY <1>1, <2>1, TopFacts DEF Count
  <2> QED
    BY <2>1, <2>2
<1> QED
  BY <1>1, <1>2, <1>7, <1>8, <1>9, <1>10, FrameFacts, PushStep

\* dispatchUncaughtException is called.
LEMMA UncaughtStep ==
  ASSUME IInv, UNCHANGED quiet, Uncaught
  PROVE  IInv'
<1> DEFINE t == [Top EXCEPT !.does = "dispatch"]
           r == [stack EXCEPT ![Depth] = t]
           f == [Frame("java", "upcall", FALSE) EXCEPT !.back = Top.back]
<1>1. Active /\ Depth = 1
  BY DEF Active, Uncaught
<1>2. /\ Top = stack[Depth] /\ Top \in Frames /\ Top.held = 0
      /\ (Top.kind = "native" => Depth > 1) /\ Shape(stack) /\ Depth \in 1..Len(stack)
  BY <1>1, TopFacts DEF Uncaught, Depth
<1>3. /\ t \in Frames /\ t.kind = Top.kind /\ t.call = Top.call /\ t.back = Top.back
      /\ t.sync = Top.sync /\ t.does = "dispatch" /\ t.held = 0
  BY <1>2, TopFacts DEF Uncaught, Frames
<1>4. [stack EXCEPT ![1].does = "dispatch"] = r
  BY <1>1, <1>2
<1> HIDE DEF t
<1>5. Alike(stack, r) /\ r[Depth] = t /\ Len(r) = Depth
  BY <1>1, <1>3, SetLast
<1> HIDE DEF r
<1>6. LastFits(r)
  BY <1>1, <1>3, <1>5 DEF LastFits
<1>7. Top.back = 0
  BY <1>1, <1>2 DEF Shape
<1>8. /\ f \in Frames /\ f.back = 0 /\ f.does = "code" /\ f.held = 0 /\ f.sync = FALSE
      /\ f.kind = "java" /\ f.call = "upcall"
  BY ZenonT(60), <1>2, <1>7, FrameFacts DEF Frames
<1>9. Push(r, f) /\ monitor_num' = monitor_num + Count(FALSE)
  <2>1. Push(r, f) /\ monitor_num' = monitor_num
    BY <1>4 DEF Uncaught
  <2>2. monitor_num' = monitor_num + Count(FALSE)
    BY <1>1, <2>1, TopFacts DEF Count
  <2> QED
    BY <2>1, <2>2
<1> HIDE DEF f
<1> QED
  BY <1>1, <1>2, <1>3, <1>5, <1>6, <1>8, <1>9, PushStep

\* A method returns, or is left by an exception.
LEMMA ReturnStep ==
  ASSUME IInv, UNCHANGED quiet, Return \/ NativeReturn \/ Propagate
  PROVE  IInv'
<1>1. Active
  BY DEF Active, Return, NativeReturn, Propagate, Runs
<1>2. Top.held = 0
  BY <1>1, TopFacts DEF Return, NativeReturn, Propagate
<1>3. Below \in Seq(Frames) /\ Len(Below) = Depth - 1 /\ SameButMarks(Below, Below)
  BY <1>1, BelowFacts
<1>4. CASE Return \/ NativeReturn
  <2>1. PICK v \in Results : Leave(Below, v)
    BY <1>4 DEF Return, NativeReturn
  <2> QED
    BY <1>1, <1>2, <1>3, <2>1, LeaveStep
<1>5. CASE Propagate
  <2>1. /\ Depth > 1 /\ Depth \in Nat
        /\ Leave([Below EXCEPT ![Depth - 1].mark = TRUE], "throwable")
    BY <1>1, <1>5, TopFacts DEF Propagate
  <2>2. Depth - 1 \in 1..Len(Below)
    BY <1>3, <2>1
  <2>3. SameButMarks(Below, [Below EXCEPT ![Depth - 1].mark = TRUE])
    BY <1>3, <2>2, MarkAgain
  <2> QED
    BY <1>1, <1>2, <2>1, <2>3, LeaveStep DEF Results
<1> QED
  BY <1>4, <1>5

\* The invariant holds when a thread begins its first method.
LEMMA InitIInv == Init => IInv
<1> SUFFICES ASSUME Init PROVE IInv
  OBVIOUS
<1> DEFINE f == [kind |-> "java", call |-> "upcall", mark |-> FALSE, sync |-> FALSE,
                 held |-> 0, does |-> "code", back |-> 0]
<1>1. /\ f \in Frames /\ f.kind = "java" /\ f.call = "upcall" /\ ~f.sync /\ f.held = 0
      /\ f.does = "code" /\ f.back = 0
  BY DEF Frames
<1>2. stack = <<f>> /\ step = "run" /\ pc = 1 /\ monitor_num = 0 /\ quiet \in BOOLEAN
  BY DEF Init
<1> HIDE DEF f
<1>3. Len(stack) = 1 /\ stack[1] = f /\ stack \in Seq(Frames) /\ stack # <<>>
  BY <1>1, <1>2
<1>4. Depth = 1 /\ Top = f
  BY <1>3 DEF Depth, Top
<1>5. Shape(stack)
  BY <1>1, <1>3 DEF Shape
<1>6. Synced(stack) = {} /\ Blocked(stack) = {}
  BY <1>1, <1>3 DEF Synced, Blocked
<1>7. MonitorBalance
  BY <1>2, <1>6, FS_EmptySet DEF MonitorBalance, Monitors
<1> QED
  BY <1>1, <1>2, <1>3, <1>4, <1>5, <1>7 DEF IInv, TypeOK, Steps, PcIsTops

\* Every step keeps the invariant, and so does stuttering.
LEMMA NextIInv == IInv /\ [Next]_vars => IInv'
<1> SUFFICES ASSUME IInv, [Next]_vars PROVE IInv'
  OBVIOUS
<1>1. CASE UNCHANGED vars
  BY <1>1 DEF vars, IInv, TypeOK, Shape, PcOf, Active, Top, Depth, PcIsTops,
              MonitorBalance, Monitors, Synced, Blocked
<1>2. CASE Next
  BY <1>2, CallStep, BlockStep, BannedStep, ThrowCatchStep, NativeThrowStep,
     UncaughtStep, ReturnStep DEF Next
<1> QED
  BY <1>1, <1>2

-----------------------------------------------------------------------------
(* The marks, when the methods the VM calls keep their exceptions.          *)

\* Every marked frame of s waits for a native that throws.
MarksWait(s) ==
  \A i \in 1..Len(s) : s[i].mark =>
    i < Len(s) /\ s[i + 1].kind = "native" /\ s[i + 1].does = "throw"

\* A step after which the marks wait keeps NoStaleMark.
LEMMA WaitIsEnough ==
  ASSUME MarksWait(stack'), step' # "abort"
  PROVE  NoStaleMark'
  BY DEF NoStaleMark, MarksWait, Depth

\* Pushing an unmarked frame makes no mark stale.
LEMMA PushWaits ==
  ASSUME NEW s \in Seq(Frames), NEW f \in Frames, ~f.mark,
         \A i \in 1..(Len(s) - 1) : s[i].mark => s[i + 1].kind = "native" /\ s[i + 1].does = "throw",
         s # <<>> => ~s[Len(s)].mark
  PROVE  MarksWait(Append(s, f))
<1> DEFINE r == Append(s, f)
<1>1. /\ Len(s) \in Nat /\ Len(r) = Len(s) + 1 /\ r[Len(s) + 1] = f
      /\ \A i \in 1..Len(s) : r[i] = s[i]
  OBVIOUS
<1> HIDE DEF r
<1> SUFFICES ASSUME NEW i \in 1..Len(r), r[i].mark
             PROVE  i < Len(r) /\ r[i + 1].kind = "native" /\ r[i + 1].does = "throw"
  BY DEF MarksWait, r
<1>2. i \in 1..Len(s) /\ s[i].mark
  BY <1>1
<1>3. s # <<>> /\ i # Len(s)
  BY <1>2
<1>4. i \in 1..(Len(s) - 1) /\ i + 1 \in 1..Len(s)
  BY <1>1, <1>2, <1>3
<1> QED
  BY <1>1, <1>2, <1>4

\* Which marks there are while a thread runs.
LEMMA MarkFacts ==
  ASSUME IInv, NoStaleMark, Active
  PROVE  /\ ~Top.mark
         /\ \A i \in 1..(Depth - 1) : stack[i].mark =>
              stack[i + 1].kind = "native" /\ stack[i + 1].does = "throw"
         /\ Depth > 1 /\ stack[Depth - 1].mark => Top.kind = "native" /\ Top.does = "throw"
<1>1. Depth \in Nat \ {0} /\ Depth \in 1..Depth /\ Top = stack[Depth]
  BY TopFacts
<1>2. Depth > 1 => Depth - 1 \in 1..Depth /\ (Depth - 1) + 1 = Depth
  BY <1>1
<1> QED
  BY <1>1, <1>2 DEF NoStaleMark

\* When a method is left, and its caller is marked only if it threw, the caller is
\* not marked any more.
LEMMA LeaveWaits ==
  ASSUME IInv, NoStaleMark, Active, NEW s, SameButMarks(Below, s), NEW v \in Results,
         Leave(s, v),
         \A i \in 1..(Depth - 2) : s[i] = Below[i],
         Depth > 1 /\ s[Depth - 1].mark => Top.call = "invoke" /\ v = "throwable"
  PROVE  NoStaleMark'
<1>1. /\ Depth \in Nat \ {0}
      /\ (Top.call = "invoke" => Depth > 1)
  BY TopFacts
<1>2. Len(Below) = Depth - 1 /\ \A i \in 1..(Depth - 1) : Below[i] = stack[i]
  BY BelowFacts
<1>3. s \in Seq(Frames) /\ Len(s) = Depth - 1
  BY <1>2 DEF SameButMarks
<1>4. \A i \in 1..(Depth - 2) : s[i].mark =>
        s[i + 1].kind = "native" /\ s[i + 1].does = "throw"
  <2> SUFFICES ASSUME NEW i \in 1..(Depth - 2), s[i].mark
               PROVE  s[i + 1].kind = "native" /\ s[i + 1].does = "throw"
    OBVIOUS
  <2>1. /\ i \in 1..(Depth - 1) /\ i + 1 \in 1..(Depth - 1) /\ i + 1 \in 1..Len(Below)
    BY <1>1, <1>2
  <2>2. stack[i].mark
    BY <1>2, <2>1
  <2> QED
    BY <1>2, <2>1, <2>2, MarkFacts DEF SameButMarks
<1>5. CASE Depth > 1 /\ s[Depth - 1].mark
  <2>1. Check(s, "throwable") /\ Top.call = "invoke"
    BY <1>5 DEF Leave
  <2>2. Len(s) \in 1..Len(s) /\ s[Len(s)] \in Frames
    BY <1>1, <1>3, <1>5
  <2>3. stack' = [s EXCEPT ![Len(s)].mark = FALSE] /\ step' = "handle"
    BY <1>3, <1>5, <2>1 DEF Check
  <2>4. /\ Len(stack') = Depth - 1 /\ ~stack'[Depth - 1].mark
        /\ stack'[Depth - 1].kind = s[Depth - 1].kind
        /\ stack'[Depth - 1].does = s[Depth - 1].does
        /\ \A i \in 1..(Depth - 2) : stack'[i] = s[i]
    BY <1>1, <1>3, <2>2, <2>3 DEF Frames
  <2>5. ASSUME NEW i \in 1..Len(stack'), stack'[i].mark
        PROVE  i < Len(stack') /\ stack'[i + 1].kind = "native" /\ stack'[i + 1].does = "throw"
    <3>1. i \in 1..(Depth - 2) /\ s[i].mark
      BY <1>1, <2>4, <2>5
    <3>2. i + 1 \in 1..(Depth - 2) \/ i + 1 = Depth - 1
      BY <1>1, <3>1
    <3> QED
      BY <1>1, <1>4, <2>4, <3>1, <3>2
  <2> QED
    BY <2>3, <2>5, WaitIsEnough DEF MarksWait
<1>6. CASE ~(Depth > 1 /\ s[Depth - 1].mark)
  <2>1. stack' = s /\ step' # "abort"
    BY <1>1, <1>3, <1>6 DEF Leave, Check, BackInVM
  <2>2. ASSUME NEW i \in 1..Len(s), s[i].mark
        PROVE  i < Len(s) /\ s[i + 1].kind = "native" /\ s[i + 1].does = "throw"
    <3>1. i # Depth - 1
      BY <1>1, <1>3, <1>6, <2>2
    <3>2. i \in 1..(Depth - 2)
      BY <1>1, <1>3, <3>1
    <3> QED
      BY <1>1, <1>3, <1>4, <2>2, <3>2
  <2> QED
    BY <2>1, <2>2, WaitIsEnough DEF MarksWait
<1> QED
  BY <1>5, <1>6

\* Every step keeps NoStaleMark.
LEMMA QuietStep ==
  ASSUME quiet, IInv, NoStaleMark, Next
  PROVE  NoStaleMark'
<1>1. /\ Active /\ stack \in Seq(Frames) /\ Depth \in Nat \ {0} /\ Depth = Len(stack)
      /\ Top = stack[Depth] /\ Top \in Frames /\ ~Top.mark /\ stack # <<>>
      /\ \A i \in 1..(Depth - 1) : stack[i].mark =>
           stack[i + 1].kind = "native" /\ stack[i + 1].does = "throw"
  <2>1. Active
    BY DEF Active, Next, Invoke, Upcall, EnterBlock, LeaveBlock, InvokeBanned, Return,
           NativeReturn, Throw, NativeThrow, Catch, Propagate, Uncaught, Runs
  <2> QED
    BY <2>1, TopFacts, MarkFacts DEF Depth
<1>2. MarksWait(stack)
  BY <1>1 DEF NoStaleMark, MarksWait
<1>3. ASSUME (\E b \in BOOLEAN : Invoke("java", b) \/ Invoke("native", b)) \/ Upcall
      PROVE  NoStaleMark'
  <2>1. PICK k \in {"java", "native"}, c \in {"invoke", "upcall"}, b \in BOOLEAN :
          Push(stack, Frame(k, c, b))
    BY <1>3 DEF Invoke, Upcall
  <2>2. MarksWait(Append(stack, Frame(k, c, b)))
    BY <1>1, FrameFacts, PushWaits
  <2> QED
    BY <2>1, <2>2, WaitIsEnough DEF Push
<1>4. ASSUME EnterBlock \/ LeaveBlock PROVE NoStaleMark'
  <2>1. PICK h \in 0..1 : stack' = [stack EXCEPT ![Depth].held = h] /\ step' = step
    BY <1>4 DEF EnterBlock, LeaveBlock
  <2>2. /\ Len(stack') = Len(stack)
        /\ \A i \in 1..Len(stack) : /\ stack'[i].mark = stack[i].mark
                                   /\ stack'[i].kind = stack[i].kind
                                   /\ stack'[i].does = stack[i].does
    BY <1>1, <2>1 DEF Frames
  <2>3. \A i \in 1..Len(stack) : i < Len(stack) => i + 1 \in 1..Len(stack)
    BY <1>1
  <2>4. MarksWait(stack')
    BY <1>2, <2>2, <2>3 DEF MarksWait
  <2> QED
    BY <1>1, <2>1, <2>4, WaitIsEnough DEF Active
<1>5. ASSUME InvokeBanned PROVE NoStaleMark'
  <2>1. stack' = stack /\ step' = "run"
    BY <1>1, <1>5 DEF InvokeBanned, Check
  <2> QED
    BY <1>2, <2>1, WaitIsEnough
<1>6. ASSUME Throw \/ Catch PROVE NoStaleMark'
  <2>1. stack' = stack /\ step' # "abort"
    BY <1>6 DEF Throw, Catch
  <2> QED
    BY <1>2, <2>1, WaitIsEnough
<1>7. ASSUME Return \/ NativeReturn PROVE NoStaleMark'
  <2>1. PICK v \in Results : Leave(Below, v) /\ (Top.does = "throw" => v = "throwable")
    BY <1>7 DEF Return, NativeReturn, Runs
  <2>2. SameButMarks(Below, Below) /\ \A i \in 1..(Depth - 1) : Below[i] = stack[i]
    BY <1>1, BelowFacts
  <2>3. Depth > 1 /\ Below[Depth - 1].mark => Top.call = "invoke" /\ v = "throwable"
    <3>1. Depth > 1 => Depth - 1 \in 1..(Depth - 1)
      BY <1>1
    <3> QED
      BY <1>1, <2>1, <2>2, <3>1, MarkFacts, TopFacts
  <2> QED
    BY <1>1, <2>1, <2>2, <2>3, LeaveWaits
<1>8. ASSUME NativeThrow PROVE NoStaleMark'
  <2> DEFINE s == [stack EXCEPT ![Depth - 1].mark = TRUE, ![Depth].does = "throw"]
  <2>1. Top.kind = "native" /\ Depth > 1
    BY <1>1, <1>8, TopFacts DEF NativeThrow, Runs
  <2>2. /\ s \in Seq(Frames) /\ Len(s) = Depth /\ ~s[Depth].mark
        /\ s[Depth].kind = "native" /\ s[Depth].does = "throw"
        /\ \A i \in 1..(Depth - 1) : /\ s[i].kind = stack[i].kind /\ s[i].does = stack[i].does
                                     /\ i # Depth - 1 => s[i].mark = stack[i].mark
    <3> DEFINE t == [Top EXCEPT !.does = "throw"]
               b == [stack[Depth - 1] EXCEPT !.mark = TRUE]
    <3>1. Depth - 1 \in 1..Len(stack) /\ stack[Depth - 1] \in Frames
      BY <1>1, <2>1
    <3>2. /\ t \in Frames /\ ~t.mark /\ t.kind = "native" /\ t.does = "throw"
          /\ b \in Frames /\ b.kind = stack[Depth - 1].kind /\ b.does = stack[Depth - 1].does
      BY ZenonT(60), <1>1, <2>1, <3>1 DEF Frames
    <3> DEFINE r == [stack EXCEPT ![Depth - 1] = b]
    <3>3. [r[Depth] EXCEPT !.does = "throw"] = t
      BY <1>1, <2>1
    <3>4. s = [r EXCEPT ![Depth] = [r[Depth] EXCEPT !.does = "throw"]]
      OBVIOUS
    <3>5. s = [r EXCEPT ![Depth] = t]
      BY <3>3, <3>4
    <3> HIDE DEF s, t, b
    <3>6. /\ r \in Seq(Frames) /\ Len(r) = Depth /\ r[Depth - 1] = b
          /\ \A i \in 1..(Depth - 1) : i # Depth - 1 => r[i] = stack[i]
      BY <1>1, <2>1, <3>1, <3>2
    <3> HIDE DEF r
    <3>7. /\ s \in Seq(Frames) /\ Len(s) = Depth /\ s[Depth] = t
          /\ \A i \in 1..(Depth - 1) : s[i] = r[i]
      BY <1>1, <3>2, <3>5, <3>6
    <3> QED
      BY <1>1, <2>1, <3>2, <3>6, <3>7
  <2>3. Push(s, Frame("java", "upcall", FALSE))
    BY <1>8 DEF NativeThrow
  <2> HIDE DEF s
  <2>4. ASSUME NEW i \in 1..(Len(s) - 1), s[i].mark
        PROVE  s[i + 1].kind = "native" /\ s[i + 1].does = "throw"
    <3>1. CASE i = Depth - 1
      BY <1>1, <2>2, <3>1
    <3>2. CASE i # Depth - 1
      <4>1. i \in 1..(Depth - 1) /\ i + 1 \in 1..(Depth - 1)
        BY <1>1, <2>2, <3>2
      <4> QED
        BY <1>1, <2>2, <2>4, <3>2, <4>1
    <3> QED
      BY <3>1, <3>2
  <2>5. MarksWait(Append(s, Frame("java", "upcall", FALSE)))
    BY <2>2, <2>4, FrameFacts, PushWaits
  <2> QED
    BY <2>3, <2>5, WaitIsEnough DEF Push
<1>9. ASSUME Propagate PROVE NoStaleMark'
  <2> DEFINE s == [Below EXCEPT ![Depth - 1].mark = TRUE]
  <2>1. Depth > 1 /\ Leave(s, "throwable") /\ Top.call = "invoke"
    BY <1>9 DEF Propagate
  <2>2. Below \in Seq(Frames) /\ Len(Below) = Depth - 1 /\ SameButMarks(Below, Below)
    BY <1>1, BelowFacts
  <2>3. Depth - 1 \in 1..Len(Below)
    BY <1>1, <2>1, <2>2
  <2>4. SameButMarks(Below, s)
    BY <2>2, <2>3, MarkAgain
  <2>5. \A i \in 1..(Depth - 2) : s[i] = Below[i]
    BY <1>1, <2>2
  <2> HIDE DEF s
  <2> QED
    BY <1>1, <2>1, <2>4, <2>5, LeaveWaits DEF Results
<1>10. ASSUME Uncaught PROVE NoStaleMark'
  <2> DEFINE s == [stack EXCEPT ![1].does = "dispatch"]
             f == [Frame("java", "upcall", FALSE) EXCEPT !.back = Top.back]
  <2>1. Depth = 1 /\ Push(s, f)
    BY <1>10 DEF Uncaught
  <2>2. s \in Seq(Frames) /\ Len(s) = 1 /\ ~s[1].mark
    <3>1. [stack[1] EXCEPT !.does = "dispatch"] \in Frames
          /\ ~[stack[1] EXCEPT !.does = "dispatch"].mark
      BY <1>1, <2>1 DEF Frames
    <3> DEFINE t == [stack[1] EXCEPT !.does = "dispatch"]
    <3>2. s = [stack EXCEPT ![1] = t]
      OBVIOUS
    <3>3. t \in Frames /\ ~t.mark
      BY <3>1
    <3> HIDE DEF s, t
    <3>4. stack \in Seq(Frames) /\ Len(stack) = 1
      BY <1>1, <2>1
    <3>5. s \in Seq(Frames) /\ Len(s) = 1 /\ s[1] = t
      BY <3>2, <3>3, <3>4
    <3> QED
      BY <3>3, <3>5
  <2>3. f \in Frames /\ ~f.mark
    BY ZenonT(60), <1>1, FrameFacts DEF Frames
  <2> HIDE DEF s, f
  <2>4. MarksWait(Append(s, f))
    BY <2>2, <2>3, PushWaits
  <2> QED
    BY <2>1, <2>4, WaitIsEnough DEF Push
<1> QED
  BY <1>3, <1>4, <1>5, <1>6, <1>7, <1>8, <1>9, <1>10 DEF Next

\* No frame is marked at the beginning.
LEMMA InitUnmarked == Init => NoStaleMark
  BY DEF Init, NoStaleMark, Depth

\* An exception that leaves a method is in its caller's hands at once.
LEMMA HandOver ==
  ASSUME quiet, IInv, [Next]_vars, step = "handle", Depth > 1, Len(stack') < Depth
  PROVE  step' = "handle"
<1>1. Active /\ Depth \in Nat /\ Depth = Len(stack)
  BY TopFacts DEF Active, Depth
<1>2. Propagate
  <2>1. CASE Next
    BY <1>1, <2>1 DEF Next, Invoke, Upcall, EnterBlock, LeaveBlock, InvokeBanned, Return,
       NativeReturn, Throw, NativeThrow, Catch, Uncaught, Runs
  <2>2. CASE UNCHANGED vars
    BY <1>1, <2>2 DEF vars
  <2> QED
    BY <2>1, <2>2
<1> DEFINE s == [Below EXCEPT ![Depth - 1].mark = TRUE]
<1>3. Check(s, "throwable")
  BY <1>2 DEF Propagate, Leave
<1>4. Below \in Seq(Frames) /\ Len(Below) = Depth - 1 /\ Depth - 1 \in 1..Len(Below)
  BY <1>1, BelowFacts
<1>5. Len(s) = Depth - 1 /\ s[Len(s)].mark
  BY <1>4 DEF Frames
<1> QED
  BY <1>3, <1>5 DEF Check

\* What a method returns is not thrown.
LEMMA ReturnedNotThrown ==
  ASSUME IInv, NoStaleMark, [Next]_vars, step = "run", step' = "handle"
  PROVE  Len(stack') = Depth \/ (Top.kind = "native" /\ Top.does = "throw")
<1>1. Active /\ Depth \in Nat /\ Depth = Len(stack)
  BY TopFacts DEF Active, Depth
<1>2. Next
  BY DEF vars
<1>3. CASE Return \/ NativeReturn
  <2>1. PICK v \in Results : Leave(Below, v)
    BY <1>3 DEF Return, NativeReturn
  <2>2. Top.call = "invoke" /\ Check(Below, v)
    BY <2>1 DEF Leave, BackInVM
  <2>3. Below[Len(Below)].mark
    BY <2>2 DEF Check
  <2>4. Depth > 1 /\ Len(Below) = Depth - 1 /\ Below[Depth - 1] = stack[Depth - 1]
    BY <1>1, <2>2, TopFacts, BelowFacts
  <2> QED
    BY <1>1, <2>3, <2>4, MarkFacts
<1>4. CASE InvokeBanned
  <2>1. PICK v \in Results : Check(stack, v)
    BY <1>4 DEF InvokeBanned
  <2>2. stack[Depth] = Top /\ ~Top.mark
    BY <1>1, TopFacts, MarkFacts
  <2> QED
    BY <1>1, <2>1, <2>2 DEF Check
<1>5. CASE Throw
  BY <1>1, <1>5 DEF Throw
<1>6. ~(Upcall \/ EnterBlock \/ LeaveBlock \/ NativeThrow \/ Catch \/ Propagate \/ Uncaught)
  BY DEF Upcall, EnterBlock, LeaveBlock, NativeThrow, Catch, Propagate, Uncaught, Push
<1>7. ~\E b \in BOOLEAN : Invoke("java", b) \/ Invoke("native", b)
  BY DEF Invoke, Push
<1> QED
  BY <1>2, <1>3, <1>4, <1>5, <1>6, <1>7 DEF Next

-----------------------------------------------------------------------------
(* The theorems.                                                            *)

\* The strengthened invariant holds in every reachable state, for any depth of
\* calls and whichever methods throw.
THEOREM Invariance == Spec => []IInv
  BY InitIInv, NextIInv, PTL DEF Spec

\* However callees end, the pc of a running frame is in its own code.
THEOREM PcRestored == Spec => []PcIsTops
<1>1. IInv => PcIsTops
  BY DEF IInv
<1> QED
  BY <1>1, Invariance, PTL

\* However methods are left, the monitor count is the number of monitors held.
THEOREM MonitorsCounted == Spec => []MonitorBalance
<1>1. IInv => MonitorBalance
  BY DEF IInv
<1> QED
  BY <1>1, Invariance, PTL

\* If the methods the VM calls by itself keep their exceptions, no mark is left for
\* a later call, and the assertion behind the check never fails.
THEOREM MarksFresh == Spec => []QuietMarks
<1>1. IInv /\ QuietMarks /\ [Next]_vars => QuietMarks'
  <2> SUFFICES ASSUME IInv, QuietMarks, [Next]_vars, quiet' PROVE NoStaleMark'
    BY DEF QuietMarks
  <2>1. quiet
    BY DEF Next, vars
  <2>2. NoStaleMark
    BY <2>1 DEF QuietMarks
  <2>3. CASE UNCHANGED vars
    BY <2>2, <2>3 DEF vars, NoStaleMark, Depth
  <2> QED
    BY <2>1, <2>2, <2>3, QuietStep
<1>2. Init => QuietMarks
  BY InitUnmarked DEF QuietMarks
<1> QED
  BY <1>1, <1>2, Invariance, PTL DEF Spec

\* Under the same assumption every exception that leaves a method is handled in the
\* caller next.
THEOREM ExceptionsHandedOver == Spec => QuietHandedOver
<1>1. IInv /\ [Next]_vars =>
        [quiet /\ step = "handle" /\ Depth > 1 /\ Len(stack') < Depth => step' = "handle"]_vars
  BY HandOver
<1> QED
  BY <1>1, Invariance, PTL DEF Spec, QuietHandedOver

\* And no value that a method returns is taken for an exception.
THEOREM ResultsNotThrown == Spec => OnlyThrown
<1>1. IInv /\ QuietMarks /\ [Next]_vars =>
        [quiet /\ step = "run" /\ step' = "handle" =>
           Len(stack') = Depth \/ (Top.kind = "native" /\ Top.does = "throw")]_vars
  BY ReturnedNotThrown DEF QuietMarks
<1> QED
  BY <1>1, Invariance, MarksFresh, PTL DEF Spec, OnlyThrown
===============================================================================
