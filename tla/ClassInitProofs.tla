--------------------------- MODULE ClassInitProofs ---------------------------
(***************************************************************************)
(* Proofs about ClassInit, for any threads, classes, parents and <clinit>   *)
(* methods. A step of initial_client changes one thread's stack, in one of  *)
(* three ways; the effect lemmas say what each way leaves alone.            *)
(***************************************************************************)
EXTENDS ClassInit, TLAPS

\* The top call of a stack moves on, or loses a class it still had to touch.
LEMMA MoveEffect ==
  ASSUME NEW s \in Seq(Frames), s # <<>>, NEW f \in Frames
  PROVE  LET m == [s EXCEPT ![Len(s)] = f] IN
           /\ m \in Seq(Frames) /\ Len(m) = Len(s) /\ m[Len(s)] = f
           /\ \A i \in 1..(Len(s) - 1) : m[i] = s[i]
  OBVIOUS

\* A call is pushed.
LEMMA PushEffect ==
  ASSUME NEW s \in Seq(Frames), NEW f \in Frames
  PROVE  LET m == Append(s, f) IN
           /\ m \in Seq(Frames) /\ Len(m) = Len(s) + 1 /\ m[Len(s) + 1] = f
           /\ \A i \in 1..Len(s) : m[i] = s[i]
  OBVIOUS

\* The top call returns.
LEMMA PopEffect ==
  ASSUME NEW s \in Seq(Frames), s # <<>>
  PROVE  LET m == SubSeq(s, 1, Len(s) - 1) IN
           /\ m \in Seq(Frames) /\ Len(m) = Len(s) - 1
           /\ \A i \in 1..(Len(s) - 1) : m[i] = s[i]
  OBVIOUS

\* Only the stack of t changes.
OthersKeep(t) ==
  /\ stack' \in [Threads -> Seq(Frames)]
  /\ \A u \in Threads \ {t} : stack'[u] = stack[u]

\* Below the top call of t nothing changes.
BelowKeeps(t) == \A i \in 1..(Len(stack[t]) - 1) : stack'[t][i] = stack[t][i]

\* The top call of t becomes f.
TopBecomes(t, f) ==
  /\ OthersKeep(t) /\ BelowKeeps(t)
  /\ stack[t] # <<>> /\ Len(stack'[t]) = Len(stack[t])
  /\ stack'[t][Len(stack[t])] = f

\* The top call of t becomes f and calls g.
TopCalls(t, f, g) ==
  /\ OthersKeep(t) /\ BelowKeeps(t)
  /\ stack[t] # <<>> /\ Len(stack'[t]) = Len(stack[t]) + 1
  /\ stack'[t][Len(stack[t])] = f /\ stack'[t][Len(stack[t]) + 1] = g

\* The top call of t returns.
TopReturns(t) ==
  /\ OthersKeep(t) /\ BelowKeeps(t)
  /\ stack[t] # <<>> /\ Len(stack'[t]) = Len(stack[t]) - 1

\* The frame of the top call of t, moved to p, or with u touched.
At(t, p) == [Top(t) EXCEPT !.at = p]
Touched(t, u) == [Top(t) EXCEPT !.todo = @ \ {u}]

\* The top call of a non-empty stack is a frame.
LEMMA TopIsFrame ==
  ASSUME TypeOK, NEW t \in Threads, stack[t] # <<>>
  PROVE  /\ Top(t) \in Frames /\ Len(stack[t]) \in Nat \ {0}
         /\ Top(t).class \in Classes /\ Top(t).todo \subseteq Classes
         /\ Top(t).at \in {"test", "mark", "final", "clinit"}
<1>1. stack[t] \in Seq(Frames) /\ Len(stack[t]) \in Nat \ {0}
  BY DEF TypeOK
<1>2. stack[t][Len(stack[t])] \in Frames
  BY <1>1
<1> QED
  BY <1>1, <1>2 DEF Top, Frames

\* Every call on a stack is a frame.
LEMMA FrameInStack ==
  ASSUME TypeOK, NEW t \in Threads, NEW i \in 1..Len(stack[t])
  PROVE  stack[t][i] \in Frames
<1>1. stack[t] \in Seq(Frames)
  BY DEF TypeOK
<1> QED
  BY <1>1

\* A new call is a frame.
LEMMA CallIsFrame ==
  ASSUME NEW c \in Classes
  PROVE  Call(c) \in Frames /\ Call(c).at = "test" /\ Call(c).class = c
  BY ConstantsAssumption DEF Call, Frames

\* GoOn replaces the top frame.
LEMMA GoOnEffect ==
  ASSUME TypeOK, NEW t \in Threads, stack[t] # <<>>,
         NEW p \in {"mark", "final", "clinit"}, GoOn(t, p)
  PROVE  TopBecomes(t, At(t, p))
<1>1. At(t, p) \in Frames /\ MovedTo(t, p) = [stack[t] EXCEPT ![Len(stack[t])] = At(t, p)]
  BY TopIsFrame DEF At, MovedTo, Top, Frames
<1>2. stack[t] \in Seq(Frames) /\ stack' = [stack EXCEPT ![t] = MovedTo(t, p)]
  BY DEF TypeOK, GoOn
<1>3. /\ MovedTo(t, p) \in Seq(Frames) /\ Len(MovedTo(t, p)) = Len(stack[t])
      /\ MovedTo(t, p)[Len(stack[t])] = At(t, p)
      /\ \A i \in 1..(Len(stack[t]) - 1) : MovedTo(t, p)[i] = stack[t][i]
  BY <1>1, <1>2, MoveEffect
<1> QED
  BY <1>2, <1>3 DEF TypeOK, TopBecomes, OthersKeep, BelowKeeps

\* Return pops the top frame.
LEMMA ReturnEffect ==
  ASSUME TypeOK, NEW t \in Threads, stack[t] # <<>>, Return(t)
  PROVE  TopReturns(t)
<1>1. stack[t] \in Seq(Frames) /\ stack' = [stack EXCEPT ![t] = Popped(t)]
  BY DEF TypeOK, Return
<1>2. /\ Popped(t) \in Seq(Frames) /\ Len(Popped(t)) = Len(stack[t]) - 1
      /\ \A i \in 1..(Len(stack[t]) - 1) : Popped(t)[i] = stack[t][i]
  BY <1>1, PopEffect DEF Popped
<1> QED
  BY <1>1, <1>2 DEF TypeOK, TopReturns, OthersKeep, BelowKeeps

\* A call from a changed top frame changes the frame and pushes one.
LEMMA CallEffect ==
  ASSUME TypeOK, NEW t \in Threads, stack[t] # <<>>, NEW f \in Frames, NEW g \in Frames,
         stack' = [stack EXCEPT ![t] = Append([stack[t] EXCEPT ![Len(stack[t])] = f], g)]
  PROVE  TopCalls(t, f, g)
<1> DEFINE m == [stack[t] EXCEPT ![Len(stack[t])] = f]
<1>1. stack[t] \in Seq(Frames) /\ Len(stack[t]) \in Nat \ {0}
  BY DEF TypeOK
<1>2. /\ m \in Seq(Frames) /\ Len(m) = Len(stack[t]) /\ m[Len(stack[t])] = f
      /\ \A i \in 1..(Len(stack[t]) - 1) : m[i] = stack[t][i]
  BY <1>1, MoveEffect
<1>3. /\ Append(m, g) \in Seq(Frames) /\ Len(Append(m, g)) = Len(m) + 1
      /\ Append(m, g)[Len(m) + 1] = g /\ \A i \in 1..Len(m) : Append(m, g)[i] = m[i]
  BY <1>2, PushEffect
<1>4. /\ \A i \in 1..(Len(stack[t]) - 1) : Append(m, g)[i] = stack[t][i]
      /\ Append(m, g)[Len(stack[t])] = f
  BY <1>1, <1>2, <1>3
<1>5. stack' = [stack EXCEPT ![t] = Append(m, g)]
  OBVIOUS
<1> HIDE DEF m
<1> QED
  BY <1>1, <1>2, <1>3, <1>4, <1>5 DEF TypeOK, TopCalls, OthersKeep, BelowKeeps

-----------------------------------------------------------------------------
(* What each step does, in these terms.                                    *)

\* The step leaves the state of every class, the counts and the records alone.
OnlyStack == UNCHANGED <<state, runs, done>>

\* The class of the top call of t.
C(t) == Top(t).class

\* SeeNotInitialized moves the top call past the test.
LEMMA SeeNotInitializedEffect ==
  ASSUME TypeOK, NEW t \in Threads, SeeNotInitialized(t)
  PROVE  /\ IsAt(t, "test") /\ state[C(t)] = "NotInitialized" /\ OnlyStack
         /\ TopBecomes(t, At(t, "mark"))
  BY GoOnEffect DEF SeeNotInitialized, IsAt, OnlyStack, C

\* SeeInitialized returns from a marked class.
LEMMA SeeInitializedEffect ==
  ASSUME TypeOK, NEW t \in Threads, SeeInitialized(t)
  PROVE  /\ IsAt(t, "test") /\ state[C(t)] # "NotInitialized" /\ OnlyStack
         /\ TopReturns(t)
  BY ReturnEffect DEF SeeInitialized, IsAt, OnlyStack, C

\* SetInitializing marks the class and moves on, by way of the parent if any.
LEMMA SetInitializingEffect ==
  ASSUME TypeOK, NEW t \in Threads, SetInitializing(t)
  PROVE  /\ IsAt(t, "mark") /\ state' = [state EXCEPT ![C(t)] = "Initializing"]
         /\ UNCHANGED <<runs, done>>
         /\ \/ Parent[C(t)] = NoClass /\ TopBecomes(t, At(t, "final"))
            \/ /\ Parent[C(t)] \in Classes
               /\ TopCalls(t, At(t, "final"), Call(Parent[C(t)]))
<1>1. /\ stack[t] # <<>> /\ IsAt(t, "mark") /\ CallParent(t)
      /\ state' = [state EXCEPT ![C(t)] = "Initializing"] /\ UNCHANGED <<runs, done>>
  BY DEF SetInitializing, IsAt, C
<1>2. C(t) \in Classes /\ At(t, "final") \in Frames
  BY <1>1, TopIsFrame DEF C, At, Frames
<1>3. CASE Parent[C(t)] = NoClass
  BY <1>1, <1>3, GoOnEffect DEF CallParent, GoOn, C
<1>4. CASE Parent[C(t)] # NoClass
  <2>1. Parent[C(t)] \in Classes
    BY <1>2, <1>4, ConstantsAssumption
  <2>2. MovedTo(t, "final") = [stack[t] EXCEPT ![Len(stack[t])] = At(t, "final")]
    BY <1>1 DEF MovedTo, At, Top
  <2>3. stack' = [stack EXCEPT ![t] =
          Append([stack[t] EXCEPT ![Len(stack[t])] = At(t, "final")], Call(Parent[C(t)]))]
    BY <1>1, <1>4, <2>2 DEF CallParent, C
  <2> QED
    BY <1>1, <1>2, <2>1, <2>3, CallEffect, CallIsFrame
<1> QED
  BY <1>1, <1>3, <1>4

\* RunClinit counts the <clinit> it enters.
LEMMA RunClinitEffect ==
  ASSUME TypeOK, NEW t \in Threads, RunClinit(t)
  PROVE  /\ IsAt(t, "final") /\ UNCHANGED <<state, done>>
         /\ runs' = [runs EXCEPT ![t][C(t)] = @ + 1]
         /\ TopBecomes(t, At(t, "clinit"))
  BY GoOnEffect DEF RunClinit, IsAt, C

\* ClinitUses calls for a class the <clinit> uses.
LEMMA ClinitUsesEffect ==
  ASSUME TypeOK, NEW t \in Threads, NEW u \in Classes, ClinitUses(t, u)
  PROVE  IsAt(t, "clinit") /\ OnlyStack /\ TopCalls(t, Touched(t, u), Call(u))
<1>1. stack[t] # <<>> /\ IsAt(t, "clinit") /\ OnlyStack
  BY DEF ClinitUses, IsAt, OnlyStack
<1>2. Touched(t, u) \in Frames
  BY <1>1, TopIsFrame DEF Touched, Frames
<1>3. stack' = [stack EXCEPT ![t] =
        Append([stack[t] EXCEPT ![Len(stack[t])] = Touched(t, u)], Call(u))]
  BY DEF ClinitUses, Touched, Top
<1> QED
  BY <1>1, <1>2, <1>3, CallEffect, CallIsFrame

\* SetInitialized records the class and returns.
LEMMA SetInitializedEffect ==
  ASSUME TypeOK, NEW t \in Threads, SetInitialized(t)
  PROVE  /\ IsAt(t, "clinit") /\ state' = [state EXCEPT ![C(t)] = "Initialized"]
         /\ UNCHANGED runs /\ done' = done \cup {C(t)}
         /\ TopReturns(t)
  BY ReturnEffect DEF SetInitialized, IsAt, C

\* A use begins a stack of calls that have tested nothing yet.
LEMMA UseEffect ==
  ASSUME TypeOK, NEW t \in Threads, Use(t)
  PROVE  /\ OthersKeep(t) /\ OnlyStack /\ stack[t] = <<>>
         /\ \A i \in 1..Len(stack'[t]) : stack'[t][i].at = "test"
<1>1. CASE \E c \in Classes : UseClass(t, c)
  <2>1. PICK c \in Classes : UseClass(t, c)
    BY <1>1
  <2>2. Call(c) \in Frames /\ Call(c).at = "test"
    BY CallIsFrame
  <2> QED
    BY <2>1, <2>2 DEF TypeOK, UseClass, OthersKeep, OnlyStack
<1>2. CASE \E c, d \in Classes : UseField(t, c, d)
  <2>1. PICK c \in Classes, d \in Classes : UseField(t, c, d)
    BY <1>2
  <2>2. Call(c) \in Frames /\ Call(c).at = "test" /\ Call(d) \in Frames /\ Call(d).at = "test"
    BY CallIsFrame
  <2>3. LET s == <<Call(d), Call(c)>> IN
          s \in Seq(Frames) /\ \A i \in 1..Len(s) : s[i].at = "test"
    BY <2>2
  <2> QED
    BY <2>1, <2>3 DEF TypeOK, UseField, OthersKeep, OnlyStack
<1> QED
  BY <1>1, <1>2 DEF Use

-----------------------------------------------------------------------------
(* Every step, as seen by the calls that are past the test.                 *)

\* A call that stays on the stack of t stays the call for its class.
Keeps(t) ==
  \A i \in 1..Len(stack[t]) :
    i <= Len(stack'[t]) => stack'[t][i].class = stack[t][i].class

\* A call past the test was there before: as it is now, or it is the top call of
\* t and has just moved from p to q.
Tracks(t, p, q) ==
  \A u \in Threads : \A i \in Chosen(u)' :
    /\ i \in 1..Len(stack[u])
    /\ stack'[u][i].class = stack[u][i].class
    /\ \/ stack'[u][i].at = stack[u][i].at /\ (u = t => i < Len(stack[t]))
       \/ u = t /\ i = Len(stack[t]) /\ stack[u][i].at = p /\ stack'[u][i].at = q

\* No class goes back to NotInitialized, and a call returns only for a marked class.
Progresses(t) ==
  /\ \A c \in Classes : state[c] # "NotInitialized" => state'[c] # "NotInitialized"
  /\ Len(stack'[t]) < Len(stack[t]) =>
       Len(stack'[t]) = Len(stack[t]) - 1 /\ state'[C(t)] # "NotInitialized"

View(t, p, q) == OthersKeep(t) /\ Keeps(t) /\ Tracks(t, p, q) /\ Progresses(t)

\* When the top frame of t moves to p.
LEMMA MoveView ==
  ASSUME TypeOK, NEW t \in Threads, NEW p \in {"mark", "final", "clinit"},
         TopBecomes(t, At(t, p))
  PROVE  Keeps(t) /\ Tracks(t, Top(t).at, p)
<1>1. /\ Len(stack[t]) \in Nat \ {0} /\ stack[t][Len(stack[t])] = Top(t)
      /\ At(t, p).class = Top(t).class /\ At(t, p).at = p
  BY TopIsFrame DEF TopBecomes, At, Top, Frames
<1>2. /\ \A u \in Threads \ {t} : stack'[u] = stack[u]
      /\ \A i \in 1..(Len(stack[t]) - 1) : stack'[t][i] = stack[t][i]
      /\ Len(stack'[t]) = Len(stack[t]) /\ stack'[t][Len(stack[t])] = At(t, p)
  BY DEF TopBecomes, OthersKeep, BelowKeeps
<1>3. \A i \in 1..Len(stack[t]) : i = Len(stack[t]) \/ i \in 1..(Len(stack[t]) - 1)
  BY <1>1
<1>4. \A i \in 1..Len(stack[t]) : stack'[t][i].class = stack[t][i].class
  BY <1>1, <1>2, <1>3
<1> QED
  BY <1>1, <1>2, <1>3, <1>4 DEF Keeps, Tracks, Chosen

\* When the top frame of t becomes f and calls for c.
LEMMA CallView ==
  ASSUME TypeOK, NEW t \in Threads, NEW f, f.class = Top(t).class,
         NEW c \in Classes, TopCalls(t, f, Call(c))
  PROVE  Keeps(t) /\ Tracks(t, Top(t).at, f.at)
<1>1. /\ Len(stack[t]) \in Nat \ {0} /\ stack[t][Len(stack[t])] = Top(t)
      /\ Call(c).at = "test"
  BY TopIsFrame, CallIsFrame DEF TopCalls, Top
<1>2. /\ \A u \in Threads \ {t} : stack'[u] = stack[u]
      /\ \A i \in 1..(Len(stack[t]) - 1) : stack'[t][i] = stack[t][i]
      /\ Len(stack'[t]) = Len(stack[t]) + 1 /\ stack'[t][Len(stack[t])] = f
      /\ stack'[t][Len(stack[t]) + 1] = Call(c)
  BY DEF TopCalls, OthersKeep, BelowKeeps
<1>3. \A i \in 1..Len(stack[t]) : i = Len(stack[t]) \/ i \in 1..(Len(stack[t]) - 1)
  BY <1>1
<1>4. \A i \in 1..Len(stack[t]) : stack'[t][i].class = stack[t][i].class
  BY <1>1, <1>2, <1>3
<1>5. \A i \in 1..Len(stack'[t]) : i \in 1..Len(stack[t]) \/ stack'[t][i].at = "test"
  BY <1>1, <1>2
<1> QED
  BY SMTT(30), <1>1, <1>2, <1>3, <1>4, <1>5 DEF Keeps, Tracks, Chosen

\* When the top call of t returns.
LEMMA ReturnView ==
  ASSUME TypeOK, NEW t \in Threads, TopReturns(t), NEW p
  PROVE  Keeps(t) /\ Tracks(t, p, p) /\ Len(stack'[t]) = Len(stack[t]) - 1
<1>1. Len(stack[t]) \in Nat \ {0}
  BY DEF TopReturns, TypeOK
<1>2. /\ \A u \in Threads \ {t} : stack'[u] = stack[u]
      /\ \A i \in 1..(Len(stack[t]) - 1) : stack'[t][i] = stack[t][i]
      /\ Len(stack'[t]) = Len(stack[t]) - 1
  BY DEF TopReturns, OthersKeep, BelowKeeps
<1> QED
  BY SMTT(30), <1>1, <1>2 DEF Keeps, Tracks, Chosen

\* A use of a class leaves the chosen calls alone.
LEMMA UseView ==
  ASSUME TypeOK, NEW t \in Threads, Use(t)
  PROVE  OnlyStack /\ View(t, "test", "test")
  BY UseEffect DEF View, OthersKeep, Keeps, Tracks, Chosen, Progresses, OnlyStack, TypeOK

\* SeeNotInitialized chooses a class that nobody has marked.
LEMMA SeeNotInitializedView ==
  ASSUME TypeOK, NEW t \in Threads, SeeNotInitialized(t)
  PROVE  /\ IsAt(t, "test") /\ state[C(t)] = "NotInitialized" /\ OnlyStack
         /\ View(t, "test", "mark") /\ Len(stack'[t]) = Len(stack[t])
<1>1. /\ IsAt(t, "test") /\ state[C(t)] = "NotInitialized" /\ OnlyStack
      /\ TopBecomes(t, At(t, "mark"))
  BY SeeNotInitializedEffect
<1>2. Keeps(t) /\ Tracks(t, "test", "mark")
  BY <1>1, MoveView DEF IsAt
<1> QED
  BY <1>1, <1>2 DEF View, TopBecomes, Progresses, OnlyStack, TypeOK

\* SeeInitialized leaves the chosen calls alone.
LEMMA SeeInitializedView ==
  ASSUME TypeOK, NEW t \in Threads, SeeInitialized(t)
  PROVE  /\ IsAt(t, "test") /\ state[C(t)] # "NotInitialized" /\ OnlyStack
         /\ View(t, "test", "test")
<1>1. /\ IsAt(t, "test") /\ state[C(t)] # "NotInitialized" /\ OnlyStack
      /\ TopReturns(t)
  BY SeeInitializedEffect
<1> QED
  BY <1>1, ReturnView DEF View, TopReturns, Progresses, OnlyStack

\* SetInitializing begins a chosen class, and its parent is next.
LEMMA SetInitializingView ==
  ASSUME TypeOK, NEW t \in Threads, SetInitializing(t)
  PROVE  /\ IsAt(t, "mark") /\ state' = [state EXCEPT ![C(t)] = "Initializing"]
         /\ UNCHANGED <<runs, done>>
         /\ View(t, "mark", "final")
         /\ \/ Parent[C(t)] = NoClass
            \/ /\ Len(stack'[t]) = Len(stack[t]) + 1
               /\ stack'[t][Len(stack[t]) + 1].class = Parent[C(t)]
<1>1. /\ IsAt(t, "mark") /\ state' = [state EXCEPT ![C(t)] = "Initializing"]
      /\ UNCHANGED <<runs, done>>
      /\ \/ Parent[C(t)] = NoClass /\ TopBecomes(t, At(t, "final"))
         \/ /\ Parent[C(t)] \in Classes
            /\ TopCalls(t, At(t, "final"), Call(Parent[C(t)]))
  BY SetInitializingEffect
<1>2. C(t) \in Classes /\ \A c \in Classes : state[c] # "NotInitialized" => state'[c] # "NotInitialized"
  BY <1>1, TopIsFrame DEF IsAt, C, TypeOK
<1>3. At(t, "final").class = Top(t).class /\ At(t, "final").at = "final"
  BY <1>1, TopIsFrame DEF IsAt, At, Frames
<1>4. CASE Parent[C(t)] = NoClass /\ TopBecomes(t, At(t, "final"))
  BY <1>1, <1>2, <1>4, MoveView DEF View, TopBecomes, Progresses, IsAt, TypeOK
<1>5. CASE /\ Parent[C(t)] \in Classes
           /\ TopCalls(t, At(t, "final"), Call(Parent[C(t)]))
  <2>1. Keeps(t) /\ Tracks(t, "mark", "final")
    BY <1>1, <1>3, <1>5, CallView DEF IsAt
  <2>2. /\ OthersKeep(t) /\ Len(stack'[t]) = Len(stack[t]) + 1
        /\ stack'[t][Len(stack[t]) + 1].class = Parent[C(t)] /\ Len(stack[t]) \in Nat
    BY <1>5, CallIsFrame DEF TopCalls, TypeOK
  <2> QED
    BY <1>1, <1>2, <2>1, <2>2 DEF View, Progresses
<1> QED
  BY <1>1, <1>4, <1>5

\* RunClinit goes on with a begun class.
LEMMA RunClinitView ==
  ASSUME TypeOK, NEW t \in Threads, RunClinit(t)
  PROVE  /\ IsAt(t, "final") /\ UNCHANGED <<state, done>>
         /\ runs' = [runs EXCEPT ![t][C(t)] = @ + 1]
         /\ View(t, "final", "clinit")
<1>1. /\ IsAt(t, "final") /\ UNCHANGED <<state, done>>
      /\ runs' = [runs EXCEPT ![t][C(t)] = @ + 1]
      /\ TopBecomes(t, At(t, "clinit"))
  BY RunClinitEffect
<1>2. Keeps(t) /\ Tracks(t, "final", "clinit")
  BY <1>1, MoveView DEF IsAt
<1> QED
  BY <1>1, <1>2 DEF View, TopBecomes, Progresses, TypeOK

\* ClinitUses leaves the chosen calls alone.
LEMMA ClinitUsesView ==
  ASSUME TypeOK, NEW t \in Threads, NEW u \in Classes, ClinitUses(t, u)
  PROVE  IsAt(t, "clinit") /\ OnlyStack /\ View(t, "clinit", "clinit")
<1>1. IsAt(t, "clinit") /\ OnlyStack /\ TopCalls(t, Touched(t, u), Call(u))
  BY ClinitUsesEffect
<1>2. Touched(t, u).class = Top(t).class /\ Touched(t, u).at = Top(t).at
  BY <1>1, TopIsFrame DEF IsAt, Touched, Frames
<1>3. Keeps(t) /\ Tracks(t, "clinit", "clinit")
  BY <1>1, <1>2, CallView DEF IsAt
<1> QED
  BY <1>1, <1>3 DEF View, TopCalls, Progresses, OnlyStack, TypeOK

\* SetInitialized drops a begun call, whose class is Initialized.
LEMMA SetInitializedView ==
  ASSUME TypeOK, NEW t \in Threads, SetInitialized(t)
  PROVE  /\ IsAt(t, "clinit") /\ state' = [state EXCEPT ![C(t)] = "Initialized"]
         /\ UNCHANGED runs /\ done' = done \cup {C(t)}
         /\ View(t, "clinit", "clinit")
<1>1. /\ IsAt(t, "clinit") /\ state' = [state EXCEPT ![C(t)] = "Initialized"]
      /\ UNCHANGED runs /\ done' = done \cup {C(t)}
      /\ TopReturns(t)
  BY SetInitializedEffect
<1>2. C(t) \in Classes /\ \A c \in Classes : state[c] # "NotInitialized" => state'[c] # "NotInitialized"
  BY <1>1, TopIsFrame DEF IsAt, C, TypeOK
<1> QED
  BY <1>1, <1>2, ReturnView DEF View, TopReturns, Progresses, TypeOK

-----------------------------------------------------------------------------
(* Every step keeps the inductive invariant.                                *)

\* What all steps have in common: the top call of t moves from p to q.
Moves(t, p, q) ==
  /\ View(t, p, q)
  /\ <<p, q>> \in {<<"test", "test">>, <<"test", "mark">>, <<"mark", "final">>,
                  <<"final", "clinit">>, <<"clinit", "clinit">>}
  /\ q = "mark" => /\ IsAt(t, "test") /\ state[C(t)] = "NotInitialized"
                   /\ Len(stack'[t]) = Len(stack[t])
  /\ q = "final" => /\ state'[C(t)] # "NotInitialized"
                    /\ \/ Parent[C(t)] = NoClass
                       \/ /\ Len(stack'[t]) = Len(stack[t]) + 1
                          /\ stack'[t][Len(stack[t]) + 1].class = Parent[C(t)]
  /\ IF p = "final" THEN IsAt(t, "final") /\ runs' = [runs EXCEPT ![t][C(t)] = @ + 1]
                    ELSE runs' = runs

\* A step of t leaves done alone and makes no class Initialized, or it ends the
\* <clinit> of the top call of t.
Finishes(t) ==
  /\ state' \in [Classes -> States]
  /\ \/ /\ done' = done
        /\ \A c \in Classes : state'[c] = "Initialized" => state[c] = "Initialized"
     \/ /\ IsAt(t, "clinit") /\ done' = done \cup {C(t)}
        /\ state' = [state EXCEPT ![C(t)] = "Initialized"]

\* Every step of a thread moves its top call.
LEMMA StepMoves ==
  ASSUME TypeOK, NEW t \in Threads, Use(t) \/ InitStep(t)
  PROVE  \E p, q \in {"test", "mark", "final", "clinit"} : Moves(t, p, q) /\ Finishes(t)
<1>1. CASE Use(t)
  <2>1. Moves(t, "test", "test") /\ Finishes(t)
    BY <1>1, UseView DEF Moves, OnlyStack, Finishes, TypeOK
  <2> QED
    BY <2>1
<1>2. CASE SeeNotInitialized(t)
  <2>1. Moves(t, "test", "mark") /\ Finishes(t)
    BY <1>2, SeeNotInitializedView DEF Moves, OnlyStack, Finishes, TypeOK
  <2> QED
    BY <2>1
<1>3. CASE SeeInitialized(t)
  <2>1. Moves(t, "test", "test") /\ Finishes(t)
    BY <1>3, SeeInitializedView DEF Moves, OnlyStack, Finishes, TypeOK
  <2> QED
    BY <2>1
<1>4. CASE SetInitializing(t)
  <2>1. C(t) \in Classes
    BY <1>4, SetInitializingView, TopIsFrame DEF C, IsAt
  <2>2. Moves(t, "mark", "final")
    BY <1>4, <2>1, SetInitializingView DEF Moves, TypeOK
  <2>3. Finishes(t)
    BY <1>4, <2>1, SetInitializingView DEF Finishes, TypeOK, States
  <2> QED
    BY <2>2, <2>3
<1>5. CASE RunClinit(t)
  <2>1. Moves(t, "final", "clinit")
    BY <1>5, RunClinitView DEF Moves
  <2>2. Finishes(t)
    BY <1>5, RunClinitView DEF Finishes, TypeOK
  <2> QED
    BY <2>1, <2>2
<1>6. CASE \E u \in Classes : ClinitUses(t, u)
  <2>1. Moves(t, "clinit", "clinit") /\ Finishes(t)
    BY <1>6, ClinitUsesView DEF Moves, OnlyStack, Finishes, TypeOK
  <2> QED
    BY <2>1
<1>7. CASE SetInitialized(t)
  <2>1. Moves(t, "clinit", "clinit")
    BY <1>7, SetInitializedView DEF Moves
  <2>2. C(t) \in Classes
    BY <1>7, SetInitializedView, TopIsFrame DEF C, IsAt
  <2>3. Finishes(t)
    BY <1>7, <2>2, SetInitializedView DEF Finishes, TypeOK, States
  <2> QED
    BY <2>1, <2>3
<1> QED
  BY <1>1, <1>2, <1>3, <1>4, <1>5, <1>6, <1>7 DEF InitStep

\* A call past the test: kept as it was, or the top call of t just moved.
LEMMA ChosenBefore ==
  ASSUME NEW t \in Threads, NEW p, NEW q, Moves(t, p, q), NEW u \in Threads,
         NEW i \in Chosen(u)'
  PROVE  /\ i \in 1..Len(stack[u]) /\ stack'[u][i].class = stack[u][i].class
         /\ \/ /\ i \in Chosen(u) /\ stack'[u][i].at = stack[u][i].at
               /\ (u = t => i < Len(stack[t]))
            \/ /\ u = t /\ i = Len(stack[t]) /\ stack[u][i] = Top(t)
               /\ stack[u][i].at = p /\ stack'[u][i].at = q /\ q # "test"
  BY DEF Moves, View, Tracks, Chosen, Top

\* Every step keeps a thread from choosing a class twice, or a banned one.
LEMMA ChosenStep ==
  ASSUME IInv, NEW t \in Threads, NEW p, NEW q, Moves(t, p, q)
  PROVE  ChosenInv'
<1> SUFFICES ASSUME NEW u \in Threads, NEW i \in Chosen(u)'
             PROVE  /\ stack'[u][i].class \notin Banned
                    /\ stack'[u][i].at = "mark" => i = Len(stack'[u])
                    /\ \A j \in Chosen(u)' : stack'[u][i].class = stack'[u][j].class => i = j
  BY DEF ChosenInv
<1>1. \A j \in Chosen(u)' :
        /\ stack'[u][j].class = stack[u][j].class
        /\ \/ /\ j \in Chosen(u) /\ stack'[u][j].at = stack[u][j].at
              /\ (u = t => j < Len(stack[t]))
           \/ /\ u = t /\ j = Len(stack[t]) /\ stack[u][j] = Top(t)
              /\ stack[u][j].at = p /\ stack'[u][j].at = q /\ q # "test"
  BY ChosenBefore
<1>2. \A j \in Chosen(u) :
        /\ stack[u][j].class \notin Banned /\ j \in 1..Len(stack[u])
        /\ stack[u][j].at = "mark" => j = Len(stack[u])
        /\ \A k \in Chosen(u) : stack[u][j].class = stack[u][k].class => j = k
        /\ stack[u][j].at # "mark" => state[stack[u][j].class] # "NotInitialized"
  <2> SUFFICES ASSUME NEW j \in Chosen(u)
               PROVE  /\ stack[u][j].class \notin Banned /\ j \in 1..Len(stack[u])
                      /\ stack[u][j].at = "mark" => j = Len(stack[u])
                      /\ \A k \in Chosen(u) :
                           stack[u][j].class = stack[u][k].class => j = k
                      /\ stack[u][j].at # "mark" =>
                           state[stack[u][j].class] # "NotInitialized"
    OBVIOUS
  <2>1. j \in 1..Len(stack[u]) /\ stack[u][j].at # "test"
    BY DEF Chosen
  <2>2. stack[u][j].at # "mark" => j \in Begun(u)
    BY <2>1, FrameInStack DEF IInv, Begun, Frames
  <2> QED
    BY <2>1, <2>2 DEF IInv, ChosenInv, MarkedInv
<1>3. u # t => stack'[u] = stack[u]
  BY DEF Moves, View, OthersKeep
<1>4. \A j \in Chosen(u)' : j \in Chosen(u) \/ (u = t /\ j = Len(stack[t]) /\ q = "mark")
  BY <1>1 DEF Moves, Chosen
<1>5. q = "mark" =>
        /\ state[Top(t).class] = "NotInitialized" /\ Top(t).class \notin Banned
        /\ Len(stack'[t]) = Len(stack[t])
  BY TopIsFrame, ConstantsAssumption DEF IInv, MarkedInv, Moves, IsAt, C
<1>6. stack'[u][i].class \notin Banned
  BY <1>1, <1>2, <1>4, <1>5
<1>7. ASSUME stack'[u][i].at = "mark" PROVE i = Len(stack'[u])
  BY <1>1, <1>2, <1>3, <1>5, <1>7
<1>8. ASSUME NEW j \in Chosen(u)', stack'[u][i].class = stack'[u][j].class PROVE i = j
  BY <1>1, <1>2, <1>4, <1>5, <1>8
<1> QED
  BY <1>6, <1>7, <1>8

\* Every step keeps marked what has been begun, counted or finished.
LEMMA MarkedStep ==
  ASSUME IInv, NEW t \in Threads, NEW p, NEW q, Moves(t, p, q), Finishes(t)
  PROVE  MarkedInv'
<1>1. \A c \in Classes : state[c] # "NotInitialized" => state'[c] # "NotInitialized"
  BY DEF Moves, View, Progresses
<1>2. ASSUME NEW c \in Banned \cup done' PROVE state'[c] # "NotInitialized"
  <2>1. CASE c \in Banned \cup done
    BY <1>1, <2>1, ConstantsAssumption DEF IInv, MarkedInv, TypeOK
  <2>2. CASE c = C(t) /\ IsAt(t, "clinit") /\ state' = [state EXCEPT ![C(t)] = "Initialized"]
    BY <2>2, TopIsFrame DEF IInv, IsAt, C, TypeOK
  <2> QED
    BY <1>2, <2>1, <2>2 DEF Finishes
<1>3. ASSUME NEW u \in Threads, NEW i \in Begun(u)'
      PROVE  state'[stack'[u][i].class] # "NotInitialized"
  <2>1. i \in Chosen(u)' /\ stack'[u][i].at \in {"final", "clinit"}
    BY DEF Begun, Chosen
  <2>2. /\ i \in 1..Len(stack[u]) /\ stack'[u][i].class = stack[u][i].class
        /\ stack[u][i].class \in Classes
    BY <2>1, ChosenBefore, FrameInStack DEF IInv, Frames
  <2>3. CASE i \in Begun(u)
    BY <1>1, <2>2, <2>3 DEF IInv, MarkedInv
  <2>4. CASE i \notin Begun(u)
    <3>1. u = t /\ stack[u][i] = Top(t) /\ q = "final"
      BY <2>1, <2>2, <2>4, ChosenBefore DEF Begun, Moves
    <3> QED
      BY <2>2, <3>1 DEF Moves, C
  <2> QED
    BY <2>3, <2>4
<1>4. ASSUME NEW u \in Threads, NEW c \in Classes, runs'[u][c] > 0
      PROVE  state'[c] # "NotInitialized"
  <2>1. runs[u][c] > 0 \/ (c = C(t) /\ u = t /\ IsAt(t, "final"))
    BY <1>4 DEF Moves, IInv, TypeOK
  <2>2. IsAt(t, "final") => Len(stack[t]) \in Begun(t)
    BY TopIsFrame DEF IInv, IsAt, Begun, Top
  <2> QED
    BY <1>1, <2>1, <2>2 DEF IInv, MarkedInv, C, Top
<1> QED
  BY <1>2, <1>3, <1>4 DEF MarkedInv

\* Every step counts a <clinit> once.
LEMMA RunsStep ==
  ASSUME IInv, NEW t \in Threads, NEW p, NEW q, Moves(t, p, q)
  PROVE  RunsInv'
<1>1. p = "final" => /\ Len(stack[t]) \in Chosen(t) /\ C(t) \in Classes
                     /\ stack[t][Len(stack[t])] = Top(t) /\ runs[t][C(t)] = 0
  BY TopIsFrame DEF Moves, IsAt, Chosen, IInv, RunsInv, C, Top
<1>2. \A u \in Threads, c \in Classes :
        \/ runs'[u][c] = runs[u][c]
        \/ p = "final" /\ u = t /\ c = C(t) /\ runs'[u][c] = 1
  BY <1>1 DEF Moves, IInv, TypeOK
<1>3. ASSUME NEW u \in Threads, NEW c \in Classes PROVE runs'[u][c] <= 1
  BY <1>2 DEF IInv, RunsInv
<1>4. ASSUME NEW u \in Threads, NEW i \in Chosen(u)', stack'[u][i].at \in {"mark", "final"}
      PROVE  runs'[u][stack'[u][i].class] = 0
  <2>1. /\ i \in 1..Len(stack[u]) /\ stack'[u][i].class = stack[u][i].class
        /\ stack[u][i].class \in Classes
    BY ChosenBefore, FrameInStack DEF IInv, Frames
  <2>2. runs[u][stack[u][i].class] = 0
    <3>1. CASE i \in Chosen(u) /\ stack[u][i].at \in {"mark", "final"}
      BY <3>1 DEF IInv, RunsInv
    <3>2. CASE ~(i \in Chosen(u) /\ stack[u][i].at \in {"mark", "final"})
      <4>1. q = "mark" /\ u = t /\ stack[u][i] = Top(t)
        BY <1>4, <2>1, <3>2, ChosenBefore DEF Chosen, Moves
      <4> QED
        BY <2>1, <4>1 DEF Moves, C, IInv, MarkedInv, TypeOK
    <3> QED
      BY <3>1, <3>2
  <2>3. ~(p = "final" /\ u = t /\ stack[u][i].class = C(t))
    <3> SUFFICES ASSUME p = "final", u = t, stack[u][i].class = C(t) PROVE FALSE
      OBVIOUS
    <3>1. q = "clinit"
      BY DEF Moves
    <3>2. i \in Chosen(t) /\ i < Len(stack[t])
      BY <1>4, <3>1, ChosenBefore
    <3> QED
      BY <1>1, <3>2 DEF IInv, ChosenInv, C
  <2> QED
    BY <1>2, <2>1, <2>2, <2>3
<1> QED
  BY <1>3, <1>4 DEF RunsInv

\* Every step keeps a begun class's parent marked, or next.
LEMMA ParentStep ==
  ASSUME IInv, NEW t \in Threads, NEW p, NEW q, Moves(t, p, q)
  PROVE  ParentInv'
<1> SUFFICES ASSUME NEW u \in Threads, NEW i \in Begun(u)',
                    NEW k, k = Parent[stack'[u][i].class]
             PROVE  \/ k = NoClass
                    \/ state'[k] # "NotInitialized"
                    \/ /\ stack'[u][i].at = "final" /\ i < Len(stack'[u])
                       /\ stack'[u][i + 1].class = k
  BY DEF ParentInv
<1>1. i \in Chosen(u)' /\ stack'[u][i].at \in {"final", "clinit"}
  BY DEF Begun, Chosen
<1>2. /\ i \in 1..Len(stack[u]) /\ stack'[u][i].class = stack[u][i].class
      /\ stack[u][i].class \in Classes /\ k \in Classes \cup {NoClass}
      /\ Len(stack[u]) \in Nat /\ Len(stack'[u]) \in Nat
  <2>1. stack[u] \in Seq(Frames) /\ stack'[u] \in Seq(Frames)
    BY DEF IInv, TypeOK, Moves, View, OthersKeep
  <2> QED
    BY <1>1, <2>1, ChosenBefore, FrameInStack, ConstantsAssumption DEF IInv, Frames
<1>3. \A c \in Classes : state[c] # "NotInitialized" => state'[c] # "NotInitialized"
  BY DEF Moves, View, Progresses
<1>4. CASE i \in Begun(u) /\ stack'[u][i].at = stack[u][i].at /\ (u = t => i < Len(stack[t]))
  <2>1. CASE k = NoClass \/ state[k] # "NotInitialized"
    BY <1>2, <1>3, <2>1
  <2>2. CASE k # NoClass /\ state[k] = "NotInitialized"
    <3>1. stack[u][i].at = "final" /\ i < Len(stack[u]) /\ stack[u][i + 1].class = k
      BY <1>2, <1>4, <2>2 DEF IInv, ParentInv
    <3>2. CASE u # t
      BY <1>4, <3>1, <3>2 DEF Moves, View, OthersKeep
    <3>3. CASE u = t /\ i + 1 <= Len(stack'[t])
      BY <1>2, <1>4, <3>1, <3>3 DEF Moves, View, Keeps
    <3>4. CASE u = t /\ i + 1 > Len(stack'[t])
      <4>1. i + 1 = Len(stack[t]) /\ state'[C(t)] # "NotInitialized"
        BY <1>2, <3>1, <3>4 DEF Moves, View, Progresses
      <4> QED
        BY <3>1, <3>4, <4>1 DEF C, Top
    <3> QED
      BY <1>2, <3>2, <3>3, <3>4
  <2> QED
    BY <2>1, <2>2
<1>5. CASE /\ u = t /\ i = Len(stack[t]) /\ stack[u][i] = Top(t)
           /\ stack[u][i].at = p /\ stack'[u][i].at = q
  <2>1. CASE q = "final"
    BY <1>2, <1>5, <2>1 DEF Moves, C
  <2>2. CASE q = "clinit"
    <3>1. i \in Begun(u)
      BY <1>2, <1>5, <2>2 DEF Begun, Moves
    <3> QED
      BY <1>2, <1>3, <1>5, <3>1 DEF IInv, ParentInv
  <2> QED
    BY <1>1, <1>5, <2>1, <2>2
<1> QED
  BY <1>1, <1>2, <1>4, <1>5, ChosenBefore DEF Begun

\* Every step keeps an Initialized class finished, with its parent marked.
LEMMA DoneStep ==
  ASSUME IInv, NEW t \in Threads, NEW p, NEW q, Moves(t, p, q), Finishes(t)
  PROVE  InitializedIsDone'
<1>1. \A c \in Classes : state[c] # "NotInitialized" => state'[c] # "NotInitialized"
  BY DEF Moves, View, Progresses
<1>2. \A c \in Classes : Parent[c] # NoClass => Parent[c] \in Classes
  BY ConstantsAssumption
<1> SUFFICES ASSUME NEW c \in Classes, state'[c] = "Initialized"
             PROVE  /\ c \in done' \ Banned
                    /\ Parent[c] # NoClass => state'[Parent[c]] # "NotInitialized"
  BY DEF InitializedIsDone
<1>3. CASE state[c] = "Initialized"
  BY <1>1, <1>2, <1>3 DEF IInv, InitializedIsDone, Finishes
<1>4. CASE state[c] # "Initialized"
  <2>1. IsAt(t, "clinit") /\ done' = done \cup {C(t)} /\ c = C(t)
    BY <1>4 DEF Finishes, IInv, TypeOK
  <2>2. /\ Len(stack[t]) \in Begun(t) /\ Len(stack[t]) \in Chosen(t)
        /\ stack[t][Len(stack[t])].class = c /\ stack[t][Len(stack[t])].at = "clinit"
    BY <2>1, TopIsFrame DEF IInv, IsAt, Begun, Chosen, C, Top
  <2>3. c \notin Banned
    BY <2>2 DEF IInv, ChosenInv
  <2>4. Parent[c] = NoClass \/ state[Parent[c]] # "NotInitialized"
    BY <2>2 DEF IInv, ParentInv
  <2> QED
    BY <1>1, <1>2, <2>1, <2>3, <2>4
<1> QED
  BY <1>3, <1>4

\* Every step keeps the types.
LEMMA TypeStep ==
  ASSUME IInv, NEW t \in Threads, NEW p, NEW q, Moves(t, p, q), Finishes(t)
  PROVE  TypeOK'
<1>1. stack' \in [Threads -> Seq(Frames)] /\ state' \in [Classes -> States]
  BY DEF Moves, View, OthersKeep, Finishes
<1>2. runs' \in [Threads -> [Classes -> Nat]]
  <2>1. IsAt(t, "final") => C(t) \in Classes
    BY TopIsFrame DEF IInv, IsAt, C
  <2>2. runs \in [Threads -> [Classes -> Nat]]
    BY DEF IInv, TypeOK
  <2>3. \/ runs' = runs
        \/ IsAt(t, "final") /\ runs' = [runs EXCEPT ![t][C(t)] = @ + 1]
    BY DEF Moves
  <2> QED
    BY <2>1, <2>2, <2>3
<1>3. done' \subseteq Classes
  <2>1. IsAt(t, "clinit") => C(t) \in Classes
    BY TopIsFrame DEF IInv, IsAt, C
  <2> QED
    BY <2>1 DEF Finishes, IInv, TypeOK
<1> QED
  BY <1>1, <1>2, <1>3 DEF TypeOK

\* The invariant holds before any thread uses a class.
LEMMA InitIInv == Init => IInv
<1> SUFFICES ASSUME Init PROVE IInv
  OBVIOUS
<1>1. TypeOK
  BY ConstantsAssumption DEF Init, TypeOK, States
<1>2. \A t \in Threads : Chosen(t) = {} /\ Begun(t) = {}
  BY DEF Init, Chosen, Begun
<1>3. ChosenInv /\ ParentInv
  BY <1>2 DEF ChosenInv, ParentInv
<1>4. RunsInv
  BY <1>2 DEF Init, RunsInv
<1>5. MarkedInv
  BY <1>2, ConstantsAssumption DEF Init, MarkedInv
<1>6. InitializedIsDone
  BY DEF Init, InitializedIsDone
<1> QED
  BY <1>1, <1>3, <1>4, <1>5, <1>6 DEF IInv

\* Every step keeps the invariant, and so does stuttering.
LEMMA NextIInv == IInv /\ [Next]_vars => IInv'
<1> SUFFICES ASSUME IInv, [Next]_vars PROVE IInv'
  OBVIOUS
<1>1. CASE Next
  <2>1. PICK t \in Threads : Use(t) \/ InitStep(t)
    BY <1>1 DEF Next
  <2>2. PICK p \in {"test", "mark", "final", "clinit"},
             q \in {"test", "mark", "final", "clinit"} : Moves(t, p, q) /\ Finishes(t)
    BY <2>1, StepMoves DEF IInv
  <2>3. ChosenInv' /\ MarkedInv' /\ RunsInv'
    BY <2>2, ChosenStep, MarkedStep, RunsStep
  <2>4. ParentInv' /\ InitializedIsDone' /\ TypeOK'
    BY <2>2, ParentStep, DoneStep, TypeStep
  <2> QED
    BY <2>3, <2>4 DEF IInv
<1>2. CASE UNCHANGED vars
  BY <1>2 DEF vars, IInv, TypeOK, ChosenInv, MarkedInv, RunsInv, ParentInv,
              InitializedIsDone, Chosen, Begun
<1> QED
  BY <1>1, <1>2

-----------------------------------------------------------------------------
(* The theorems.                                                            *)

\* The strengthened invariant holds in every reachable state, for any threads,
\* class hierarchy and <clinit> methods.
THEOREM Invariance == Spec => []IInv
  BY InitIInv, NextIInv, PTL DEF Spec

\* Every variable keeps its type.
THEOREM TypeCorrect == Spec => []TypeOK
<1>1. IInv => TypeOK
  BY DEF IInv
<1> QED
  BY <1>1, Invariance, PTL

\* initial_client never initialises a class inside the same thread's
\* initialisation of it: the mark made before the recursion is enough, although
\* other threads read and write the state without a lock.
THEOREM NeverReentered == Spec => []NoReentry
<1>1. IInv => NoReentry
  BY DEF IInv, ChosenInv, NoReentry, Begun, Chosen
<1> QED
  BY <1>1, Invariance, PTL

\* A thread runs the <clinit> of a class at most once.
THEOREM ClinitRunsOnce == Spec => []ClinitOncePerThread
<1>1. IInv => ClinitOncePerThread
  BY DEF IInv, RunsInv, ClinitOncePerThread
<1> QED
  BY <1>1, Invariance, PTL

\* A class marked Initialized has had its <clinit> return, is not banned, and its
\* parent is marked.
THEOREM InitializedMeansDone == Spec => []InitializedIsDone
<1>1. IInv => InitializedIsDone
  BY DEF IInv
<1> QED
  BY <1>1, Invariance, PTL

-----------------------------------------------------------------------------
(* Who has begun what: every step, as seen by the calls past the mark.      *)

\* A begun call stays begun, for the same class, or is the top call of t, whose
\* class becomes Initialized.
Stays(t) ==
  \A u \in Threads : \A i \in Begun(u) :
    \/ i \in Begun(u)' /\ stack'[u][i].class = stack[u][i].class
    \/ /\ u = t /\ i = Len(stack[t]) /\ IsAt(t, "clinit")
       /\ state'[C(t)] = "Initialized"

\* Only t changes the state of a class: that of its top call, at the mark or at the
\* end of the <clinit>.
Marks(t) ==
  \/ state' = state
  \/ /\ IsAt(t, "mark") /\ state' = [state EXCEPT ![C(t)] = "Initializing"]
     /\ Len(stack[t]) \in Begun(t)' /\ stack'[t][Len(stack[t])].class = C(t)
  \/ IsAt(t, "clinit") /\ state' = [state EXCEPT ![C(t)] = "Initialized"]

\* A call of t returns from the test of a marked class, or from its <clinit>.
Pops(t) ==
  Len(stack'[t]) < Len(stack[t]) =>
    \/ IsAt(t, "test") /\ state[C(t)] # "NotInitialized" /\ state' = state
    \/ IsAt(t, "clinit") /\ state'[C(t)] = "Initialized"

Tells(t) == Stays(t) /\ Marks(t) /\ Pops(t)

\* When the top call keeps its class, and does not leave what it has begun.
LEMMA KeptStays ==
  ASSUME TypeOK, NEW t \in Threads, stack[t] # <<>>, OthersKeep(t), BelowKeeps(t),
         Len(stack'[t]) >= Len(stack[t]),
         stack'[t][Len(stack[t])].class = Top(t).class,
         Top(t).at \in {"final", "clinit"} =>
           stack'[t][Len(stack[t])].at \in {"final", "clinit"}
  PROVE  Stays(t)
<1>1. Len(stack[t]) \in Nat \ {0} /\ Len(stack'[t]) \in Nat
  BY DEF TypeOK, OthersKeep
<1>2. \A u \in Threads \ {t} : stack'[u] = stack[u]
  BY DEF OthersKeep
<1>3. \A i \in 1..Len(stack[t]) : i = Len(stack[t]) \/ i \in 1..(Len(stack[t]) - 1)
  BY <1>1
<1>4. \A i \in Begun(t) :
        /\ i \in 1..Len(stack'[t]) /\ stack'[t][i].class = stack[t][i].class
        /\ stack'[t][i].at \in {"final", "clinit"}
  BY SMTT(30), <1>1, <1>3 DEF Begun, BelowKeeps, Top
<1> QED
  BY <1>2, <1>4 DEF Stays, Begun

\* When the top call returns, and was still at the test or has made its class
\* Initialized.
LEMMA PoppedStays ==
  ASSUME TypeOK, NEW t \in Threads, TopReturns(t),
         IsAt(t, "test") \/ (IsAt(t, "clinit") /\ state'[C(t)] = "Initialized")
  PROVE  Stays(t)
<1>1. Len(stack[t]) \in Nat \ {0} /\ Len(stack'[t]) = Len(stack[t]) - 1
  BY DEF TypeOK, TopReturns
<1>2. \A u \in Threads \ {t} : stack'[u] = stack[u]
  BY DEF TopReturns, OthersKeep
<1>3. \A i \in 1..Len(stack[t]) : i = Len(stack[t]) \/ i \in 1..(Len(stack[t]) - 1)
  BY <1>1
<1>4. ASSUME NEW i \in Begun(t), i # Len(stack[t])
      PROVE  i \in Begun(t)' /\ stack'[t][i].class = stack[t][i].class
  BY <1>1, <1>3, <1>4 DEF Begun, TopReturns, BelowKeeps
<1>5. Len(stack[t]) \in Begun(t) => IsAt(t, "clinit") /\ state'[C(t)] = "Initialized"
  BY DEF IsAt, Begun, Top
<1> QED
  BY <1>2, <1>4, <1>5 DEF Stays, Begun

\* Every step tells of the begun calls what Tells says.
LEMMA StepTells ==
  ASSUME TypeOK, NEW t \in Threads, Use(t) \/ InitStep(t)
  PROVE  Tells(t)
<1>1. CASE Use(t)
  <2>1. OthersKeep(t) /\ OnlyStack /\ Begun(t) = {} /\ Len(stack[t]) = 0 /\ Len(stack'[t]) \in Nat
    BY <1>1, UseEffect DEF Begun, OthersKeep
  <2> QED
    BY <2>1 DEF Tells, Stays, Marks, Pops, OthersKeep, OnlyStack, Begun
<1>2. CASE SeeNotInitialized(t)
  <2>1. /\ IsAt(t, "test") /\ OnlyStack /\ TopBecomes(t, At(t, "mark"))
        /\ At(t, "mark").class = Top(t).class /\ Len(stack[t]) \in Nat
    BY <1>2, SeeNotInitializedEffect, TopIsFrame DEF At, Frames, IsAt
  <2>2. Stays(t)
    BY <2>1, KeptStays DEF TopBecomes, IsAt
  <2> QED
    BY <2>1, <2>2 DEF Tells, Marks, Pops, TopBecomes, OnlyStack
<1>3. CASE SeeInitialized(t)
  <2>1. IsAt(t, "test") /\ state[C(t)] # "NotInitialized" /\ OnlyStack /\ TopReturns(t)
    BY <1>3, SeeInitializedEffect
  <2> QED
    BY <2>1, PoppedStays DEF Tells, Marks, Pops, OnlyStack
<1>4. CASE SetInitializing(t)
  <2>1. /\ IsAt(t, "mark") /\ state' = [state EXCEPT ![C(t)] = "Initializing"]
        /\ Len(stack[t]) \in Nat \ {0} /\ stack[t] # <<>>
        /\ At(t, "final").class = Top(t).class /\ At(t, "final").at = "final"
        /\ OthersKeep(t) /\ BelowKeeps(t)
        /\ stack'[t][Len(stack[t])] = At(t, "final")
        /\ Len(stack'[t]) \in {Len(stack[t]), Len(stack[t]) + 1}
    BY <1>4, SetInitializingEffect, TopIsFrame DEF At, Frames, IsAt, TopBecomes, TopCalls
  <2>2. Stays(t)
    BY <2>1, KeptStays
  <2>3. Len(stack[t]) \in Begun(t)' /\ stack'[t][Len(stack[t])].class = C(t)
    BY <2>1 DEF Begun, C
  <2> QED
    BY <2>1, <2>2, <2>3 DEF Tells, Marks, Pops
<1>5. CASE RunClinit(t)
  <2>1. /\ IsAt(t, "final") /\ state' = state /\ TopBecomes(t, At(t, "clinit"))
        /\ At(t, "clinit").class = Top(t).class /\ At(t, "clinit").at = "clinit"
        /\ Len(stack[t]) \in Nat
    BY <1>5, RunClinitEffect, TopIsFrame DEF At, Frames, IsAt
  <2>2. Stays(t)
    BY <2>1, KeptStays DEF TopBecomes
  <2> QED
    BY <2>1, <2>2 DEF Tells, Marks, Pops, TopBecomes
<1>6. ASSUME NEW u \in Classes, ClinitUses(t, u) PROVE Tells(t)
  <2>1. /\ IsAt(t, "clinit") /\ OnlyStack /\ TopCalls(t, Touched(t, u), Call(u))
        /\ Touched(t, u).class = Top(t).class /\ Touched(t, u).at = Top(t).at
        /\ Len(stack[t]) \in Nat
    BY <1>6, ClinitUsesEffect, TopIsFrame DEF Touched, Frames, IsAt
  <2>2. Stays(t)
    BY <2>1, KeptStays DEF TopCalls
  <2> QED
    BY <2>1, <2>2 DEF Tells, Marks, Pops, TopCalls, OnlyStack
<1>7. CASE SetInitialized(t)
  <2>1. /\ IsAt(t, "clinit") /\ state' = [state EXCEPT ![C(t)] = "Initialized"]
        /\ TopReturns(t) /\ C(t) \in Classes
    BY <1>7, SetInitializedEffect, TopIsFrame DEF IsAt, C
  <2>2. state'[C(t)] = "Initialized"
    BY <2>1 DEF TypeOK
  <2> QED
    BY <2>1, <2>2, PoppedStays DEF Tells, Marks, Pops
<1> QED
  BY <1>1, <1>2, <1>3, <1>4, <1>5, <1>6, <1>7 DEF InitStep

-----------------------------------------------------------------------------
(* Every step keeps FirstInv.                                               *)

\* The counts never go down.
LEMMA RunsGrow ==
  ASSUME IInv, NEW t \in Threads, NEW p, NEW q, Moves(t, p, q)
  PROVE  \A u \in Threads, c \in Classes : runs'[u][c] >= runs[u][c] /\ runs'[u][c] \in Nat
<1>1. IsAt(t, "final") => C(t) \in Classes
  BY TopIsFrame DEF IInv, IsAt, C
<1>2. runs \in [Threads -> [Classes -> Nat]]
  BY DEF IInv, TypeOK
<1>3. runs' = runs \/ (C(t) \in Classes /\ runs' = [runs EXCEPT ![t][C(t)] = @ + 1])
  BY <1>1 DEF Moves
<1> QED
  BY <1>2, <1>3

\* Every step counts the <clinit> it enters.
LEMMA CountedStep ==
  ASSUME IInv, CountedInv, NEW t \in Threads, NEW p, NEW q, Moves(t, p, q)
  PROVE  CountedInv'
<1> SUFFICES ASSUME NEW u \in Threads, NEW i \in Begun(u)', stack'[u][i].at = "clinit"
             PROVE  runs'[u][stack'[u][i].class] > 0
  BY DEF CountedInv
<1>1. i \in Chosen(u)'
  BY DEF Begun, Chosen
<1>2. /\ i \in 1..Len(stack[u]) /\ stack'[u][i].class = stack[u][i].class
      /\ stack[u][i].class \in Classes
  BY <1>1, ChosenBefore, FrameInStack DEF IInv, Frames
<1>3. CASE stack[u][i].at = "clinit"
  <2>1. runs[u][stack[u][i].class] > 0 /\ runs[u][stack[u][i].class] \in Nat
    BY <1>2, <1>3 DEF CountedInv, Begun, IInv, TypeOK
  <2> QED
    BY <1>2, <2>1, RunsGrow
<1>4. CASE stack[u][i].at # "clinit"
  <2>1. u = t /\ stack[u][i] = Top(t) /\ q = "clinit" /\ p = "final"
    BY <1>1, <1>4, ChosenBefore DEF Moves
  <2> QED
    BY <1>2, <2>1 DEF Moves, C, IInv, TypeOK
<1> QED
  BY <1>3, <1>4

\* Every step leaves a call at each class that is Initializing.
LEMMA InitializingStep ==
  ASSUME TypeOK, InitializingInv, NEW t \in Threads, Tells(t)
  PROVE  InitializingInv'
<1> SUFFICES ASSUME NEW c \in Classes, state'[c] = "Initializing", c \notin Banned
             PROVE  \E u \in Threads : c \in InProgress(u)'
  BY DEF InitializingInv
<1>1. CASE state[c] = "Initializing"
  <2>1. PICK u \in Threads : c \in InProgress(u)
    BY <1>1 DEF InitializingInv
  <2>2. PICK i \in Begun(u) : c = stack[u][i].class
    BY <2>1 DEF InProgress
  <2>3. i \in Begun(u)' /\ stack'[u][i].class = c
    BY <2>2 DEF Tells, Stays, C, Top
  <2> QED
    BY <2>3 DEF InProgress
<1>2. CASE state[c] # "Initializing"
  <2>1. /\ c = C(t) /\ Len(stack[t]) \in Begun(t)'
        /\ stack'[t][Len(stack[t])].class = C(t)
    BY <1>2 DEF Tells, Marks, TypeOK
  <2> QED
    BY <2>1 DEF InProgress
<1> QED
  BY <1>1, <1>2

\* A thread that has changed no state now had changed none before.
LEMMA UntouchedBefore ==
  ASSUME IInv, CountedInv, NEW t \in Threads, NEW p, NEW q, Moves(t, p, q), Tells(t),
         NEW u \in Threads, Untouched(u)'
  PROVE  Untouched(u)
<1>1. ASSUME NEW c \in Classes PROVE runs[u][c] = 0
  <2>1. runs'[u][c] = 0 /\ runs[u][c] \in Nat
    BY DEF Untouched, IInv, TypeOK
  <2> QED
    BY <2>1, RunsGrow
<1>2. ASSUME NEW i \in Begun(u) PROVE FALSE
  <2>1. u = t /\ i = Len(stack[t]) /\ IsAt(t, "clinit")
    BY DEF Tells, Stays, Untouched
  <2>2. stack[u][i].at = "clinit" /\ stack[u][i].class \in Classes
    BY <2>1, FrameInStack DEF IsAt, Top, Begun, IInv, Frames
  <2> QED
    BY <1>1, <2>2 DEF CountedInv
<1> QED
  BY <1>1, <1>2 DEF Untouched

\* Another thread that changes no state changes nothing for a.
LEMMA AloneOther ==
  ASSUME NEW t \in Threads, NEW a \in Threads \ {t}, OthersKeep(t), Tells(t),
         Untouched(t), Untouched(t)'
  PROVE  state' = state /\ stack'[a] = stack[a]
<1>1. ~IsAt(t, "clinit") \/ Len(stack[t]) \notin 1..Len(stack[t])
  BY DEF IsAt, Top, Untouched, Begun
<1> QED
  BY <1>1 DEF OthersKeep, Tells, Marks, Untouched, IsAt

\* Every step keeps the parent first, while only one thread has changed a state.
LEMMA AloneStep ==
  ASSUME IInv, FirstInv, NEW t \in Threads, NEW p, NEW q, Moves(t, p, q), Tells(t)
  PROVE  AloneInv'
<1> SUFFICES ASSUME NEW a \in Threads, \A u \in Threads \ {a} : Untouched(u)',
                    NEW i \in Begun(a)', NEW k, k = Parent[stack'[a][i].class],
                    k \notin Banned \cup {NoClass}
             PROVE  \/ state'[k] = "Initialized" \/ k \in InProgress(a)'
                    \/ /\ stack'[a][i].at = "final" /\ i < Len(stack'[a])
                       /\ stack'[a][i + 1].class = k
  BY DEF AloneInv
<1>1. \A u \in Threads \ {a} : Untouched(u)
  BY UntouchedBefore DEF FirstInv
<1>2. \A j \in Begun(a) : Parent[stack[a][j].class] = k =>
        \/ state[k] = "Initialized" \/ k \in InProgress(a)
        \/ stack[a][j].at = "final" /\ j < Len(stack[a]) /\ stack[a][j + 1].class = k
  BY <1>1 DEF FirstInv, AloneInv
<1>3. OthersKeep(t) /\ Keeps(t)
  BY DEF Moves, View
<1>4. CASE a # t
  <2>1. state' = state /\ stack'[a] = stack[a]
    BY <1>1, <1>3, <1>4, AloneOther
  <2>2. i \in Begun(a) /\ InProgress(a)' = InProgress(a)
    BY <2>1 DEF Begun, InProgress
  <2> QED
    BY <1>2, <2>1, <2>2
<1>5. CASE a = t
  <2>1. i \in Chosen(t)' /\ stack'[t][i].at \in {"final", "clinit"}
    BY <1>5 DEF Begun, Chosen
  <2>2. /\ i \in 1..Len(stack[t]) /\ stack'[t][i].class = stack[t][i].class
        /\ stack[t][i].class \in Classes /\ k \in Classes
        /\ Len(stack[t]) \in Nat /\ Len(stack'[t]) \in Nat
    <3>1. stack[t] \in Seq(Frames) /\ stack'[t] \in Seq(Frames)
      BY <1>3 DEF IInv, TypeOK, OthersKeep
    <3> QED
      BY <1>5, <2>1, <3>1, ChosenBefore, FrameInStack, ConstantsAssumption DEF IInv, Frames
  <2>3. k \in InProgress(t) => k \in InProgress(t)' \/ state'[k] = "Initialized"
    BY DEF Tells, Stays, InProgress, C, Top
  <2>4. state[k] = "Initialized" => k \in InProgress(t)' \/ state'[k] = "Initialized"
    BY <2>2 DEF Tells, Marks, InProgress, IInv, TypeOK
  <2>5. CASE i \in Begun(t) /\ stack'[t][i].at = stack[t][i].at /\ i < Len(stack[t])
    <3>1. CASE state[k] = "Initialized" \/ k \in InProgress(t)
      BY <1>5, <2>3, <2>4, <3>1
    <3>2. CASE ~(state[k] = "Initialized" \/ k \in InProgress(t))
      <4>1. stack[t][i].at = "final" /\ stack[t][i + 1].class = k
        BY <1>2, <1>5, <2>2, <2>5, <3>2
      <4>2. CASE i + 1 <= Len(stack'[t])
        <5>1. i + 1 \in 1..Len(stack[t]) /\ i < Len(stack'[t])
          BY <2>2, <2>5, <4>2
        <5>2. stack'[t][i + 1].class = stack[t][i + 1].class
          BY <1>3, <4>2, <5>1 DEF Keeps
        <5> QED
          BY <1>5, <2>5, <4>1, <5>1, <5>2
      <4>3. CASE i + 1 > Len(stack'[t])
        <5>1. Len(stack'[t]) < Len(stack[t]) /\ i + 1 = Len(stack[t])
          BY <2>2, <2>5, <4>3 DEF Moves, View, Progresses
        <5>2. C(t) = k
          BY <4>1, <5>1 DEF C, Top
        <5>3. CASE state'[k] = "Initialized"
          BY <5>3
        <5>4. CASE state[k] = "Initializing"
          <6>1. PICK u \in Threads : k \in InProgress(u)
            BY <2>2, <5>4 DEF FirstInv, InitializingInv
          <6>2. u = t
            BY <1>1, <1>5, <6>1 DEF Untouched, InProgress
          <6> QED
            BY <3>2, <6>1, <6>2
        <5> QED
          BY <2>2, <3>2, <5>1, <5>2, <5>3, <5>4 DEF Tells, Pops, IInv, TypeOK, States
      <4> QED
        BY <2>2, <4>2, <4>3
    <3> QED
      BY <3>1, <3>2
  <2>6. CASE /\ i = Len(stack[t]) /\ stack[t][i] = Top(t)
             /\ stack[t][i].at = p /\ stack'[t][i].at = q
    <3>1. CASE q = "final"
      BY <1>5, <2>2, <2>6, <3>1 DEF Moves, C
    <3>2. CASE q = "clinit"
      <4>1. i \in Begun(t)
        BY <2>2, <2>6, <3>2 DEF Begun, Moves
      <4> QED
        BY <1>2, <1>5, <2>2, <2>3, <2>4, <2>6, <4>1
    <3> QED
      BY <2>1, <2>6, <3>1, <3>2
  <2> QED
    BY <2>1, <2>5, <2>6, ChosenBefore DEF Begun
<1> QED
  BY <1>4, <1>5

\* FirstInv holds before any thread uses a class.
LEMMA InitFirstInv == Init => FirstInv
<1> SUFFICES ASSUME Init PROVE FirstInv
  OBVIOUS
<1>1. \A t \in Threads : Begun(t) = {}
  BY DEF Init, Begun
<1> QED
  BY <1>1 DEF Init, FirstInv, CountedInv, InitializingInv, AloneInv

\* Every step keeps FirstInv beside IInv, and so does stuttering.
LEMMA NextFirstInv == IInv /\ FirstInv /\ [Next]_vars => FirstInv'
<1> SUFFICES ASSUME IInv, FirstInv, [Next]_vars PROVE FirstInv'
  OBVIOUS
<1>1. CASE Next
  <2>1. PICK t \in Threads : Use(t) \/ InitStep(t)
    BY <1>1 DEF Next
  <2>2. PICK p \in {"test", "mark", "final", "clinit"},
             q \in {"test", "mark", "final", "clinit"} : Moves(t, p, q)
    BY <2>1, StepMoves DEF IInv
  <2>3. Tells(t)
    BY <2>1, StepTells DEF IInv
  <2>4. CountedInv'
    BY <2>2, CountedStep DEF FirstInv
  <2>5. InitializingInv'
    BY <2>3, InitializingStep DEF IInv, FirstInv
  <2>6. AloneInv'
    BY <2>2, <2>3, AloneStep
  <2> QED
    BY <2>4, <2>5, <2>6 DEF FirstInv
<1>2. CASE UNCHANGED vars
  BY <1>2 DEF vars, FirstInv, CountedInv, InitializingInv, AloneInv, Untouched,
              InProgress, Begun
<1> QED
  BY <1>1, <1>2

\* No step returns from the test of a class that is neither initialised, nor banned,
\* nor in progress.
LEMMA StepReturnsUsable ==
  ASSUME IInv, FirstInv, [Next]_vars, NEW t \in Threads, NEW c \in Classes,
         IsAt(t, "test"), Top(t).class = c, Len(stack'[t]) < Len(stack[t])
  PROVE  state[c] = "Initialized" \/ c \in Banned \/ \E u \in Threads : c \in InProgress(u)
<1>1. Len(stack[t]) \in Nat /\ stack'[t] # stack[t]
  BY DEF IInv, TypeOK
<1>2. Next
  BY <1>1 DEF vars
<1>3. PICK u \in Threads : Use(u) \/ InitStep(u)
  BY <1>2 DEF Next
<1>4. PICK p \in {"test", "mark", "final", "clinit"},
           q \in {"test", "mark", "final", "clinit"} : Moves(u, p, q)
  BY <1>3, StepMoves DEF IInv
<1>5. u = t
  BY <1>1, <1>4 DEF Moves, View, OthersKeep
<1>6. Tells(t)
  BY <1>3, <1>5, StepTells DEF IInv
<1>7. state[c] # "NotInitialized"
  BY <1>6 DEF Tells, Pops, IsAt, C
<1> QED
  BY <1>7 DEF IInv, TypeOK, States, FirstInv, InitializingInv

-----------------------------------------------------------------------------
(* The theorems about racing threads.                                       *)

\* What is behind the two theorems below holds in every reachable state.
THEOREM FirstInvariance == Spec => []FirstInv
  BY Invariance, InitFirstInv, NextFirstInv, PTL DEF Spec

\* In every thread the parent is initialised, or being initialised further out, before
\* a <clinit> runs, as long as no other thread has initialised anything: of the order
\* that initial_client's recursion is to give, this is what its unlocked state keeps.
THEOREM ParentComesFirstAlone == Spec => []ParentFirstAlone
<1>1. IInv /\ FirstInv => ParentFirstAlone
  <2> SUFFICES ASSUME IInv, FirstInv, NEW t \in Threads,
                      \A u \in Threads \ {t} :
                        stack[u] = <<>> /\ \A c \in Classes : runs[u][c] = 0
               PROVE  ParentFirstIn(t)
    BY DEF ParentFirstAlone
  <2>1. \A u \in Threads \ {t} : Untouched(u)
    BY DEF Untouched, Begun
  <2> QED
    BY <2>1 DEF FirstInv, AloneInv, ParentFirstIn
<1> QED
  BY <1>1, Invariance, FirstInvariance, PTL

\* A call of initial_client returns without initialising only when the class is
\* initialised, banned, or some thread's call is still at it, however threads race.
THEOREM ReturnsUsable == Spec => UsableOnReturn
<1>1. IInv /\ FirstInv /\ [Next]_vars =>
        [\A t \in Threads, c \in Classes :
           IsAt(t, "test") /\ Top(t).class = c /\ Len(stack'[t]) < Len(stack[t])
             => state[c] = "Initialized" \/ c \in Banned \/ \E u \in Threads : c \in InProgress(u)]_vars
  BY StepReturnsUsable
<1> QED
  BY <1>1, Invariance, FirstInvariance, PTL DEF Spec, UsableOnReturn
=============================================================================
