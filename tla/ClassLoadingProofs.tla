-------------------------- MODULE ClassLoadingProofs --------------------------
(***************************************************************************)
(* Proofs about ClassLoading, for any threads, classes and dependencies.    *)
(* A step changes the stack of calls of one thread in one of five ways; the *)
(* lemmas on steps say which, and with what answer. The invariant is then   *)
(* preserved part by part.                                                  *)
(***************************************************************************)
EXTENDS ClassLoading, FiniteSetTheorems, TLAPS

-----------------------------------------------------------------------------
(* Sequences.                                                               *)

\* The top of a stack and what is below it.
LEMMA LastFront ==
  ASSUME NEW S, NEW s \in Seq(S), s # <<>>
  PROVE  /\ Len(s) \in Nat \ {0} /\ Last(s) = s[Len(s)] /\ Last(s) \in S
         /\ Front(s) \in Seq(S) /\ Len(Front(s)) = Len(s) - 1
         /\ \A i \in 1 .. Len(s) - 1 : Front(s)[i] = s[i]
<1>1. Len(s) \in Nat \ {0} /\ s[Len(s)] \in S
  OBVIOUS
<1>2. \A i \in 1 .. Len(s) - 1 : s[i] \in S
  BY <1>1
<1>3. SubSeq(s, 1, Len(s) - 1) \in Seq(S)
  BY <1>1, <1>2
<1>4. Len(SubSeq(s, 1, Len(s) - 1)) = Len(s) - 1
  <2>1. CASE Len(s) = 1
    BY <2>1
  <2>2. CASE Len(s) > 1
    BY SMTT(30), <2>2
  <2> QED
    BY SMTT(30), <1>1, <2>1, <2>2
<1>5. \A i \in 1 .. Len(s) - 1 : SubSeq(s, 1, Len(s) - 1)[i] = s[i]
  BY <1>1
<1> QED
  BY <1>1, <1>3, <1>4, <1>5 DEF Last, Front

\* The top of a stack is replaced by f.
LEMMA Replaced ==
  ASSUME NEW S, NEW s \in Seq(S), s # <<>>, NEW f \in S
  PROVE  LET m == Append(Front(s), f) IN
           /\ m \in Seq(S) /\ Len(m) = Len(s) /\ m[Len(s)] = f
           /\ \A i \in 1 .. Len(s) - 1 : m[i] = s[i]
<1> DEFINE m == Append(Front(s), f)
<1>1. /\ Len(s) \in Nat \ {0} /\ Front(s) \in Seq(S) /\ Len(Front(s)) = Len(s) - 1
      /\ \A i \in 1 .. Len(s) - 1 : Front(s)[i] = s[i]
  BY LastFront
<1> HIDE DEF Front
<1>2. /\ m \in Seq(S) /\ Len(m) = Len(Front(s)) + 1 /\ m[Len(Front(s)) + 1] = f
      /\ \A i \in 1 .. Len(Front(s)) : m[i] = Front(s)[i]
  BY <1>1
<1> QED
  BY <1>1, <1>2

\* A call is put on a stack.
LEMMA Pushed ==
  ASSUME NEW S, NEW s \in Seq(S), NEW f \in S
  PROVE  LET m == Append(s, f) IN
           /\ m \in Seq(S) /\ Len(m) = Len(s) + 1 /\ m[Len(s) + 1] = f
           /\ \A i \in 1 .. Len(s) : m[i] = s[i]
  OBVIOUS

\* What is left of a sequence once its first element is taken.
LEMMA Rest ==
  ASSUME NEW S, NEW s \in Seq(S), NEW k \in Nat, SubSeq(s, k + 1, Len(s)) # <<>>
  PROVE  LET r == SubSeq(s, k + 1, Len(s)) IN
           k < Len(s) /\ Head(r) = s[k + 1] /\ Tail(r) = SubSeq(s, k + 2, Len(s))
<1>1. k < Len(s)
  OBVIOUS
<1>2. /\ SubSeq(s, k + 1, Len(s)) \in Seq(S) /\ Len(SubSeq(s, k + 1, Len(s))) = Len(s) - k
      /\ \A i \in 1 .. Len(s) - k : SubSeq(s, k + 1, Len(s))[i] = s[k + i]
  BY <1>1
<1>3. /\ SubSeq(s, k + 2, Len(s)) \in Seq(S) /\ Len(SubSeq(s, k + 2, Len(s))) = Len(s) - k - 1
      /\ \A i \in 1 .. Len(s) - k - 1 : SubSeq(s, k + 2, Len(s))[i] = s[k + 1 + i]
  BY <1>1
<1> QED
  BY <1>1, <1>2, <1>3

\* Nothing is left once all elements are taken.
LEMMA RestIsEmpty ==
  ASSUME NEW S, NEW s \in Seq(S), NEW k \in Nat, k <= Len(s)
  PROVE  SubSeq(s, k + 1, Len(s)) = <<>> <=> k = Len(s)
<1>1. Len(s) \in Nat
  OBVIOUS
<1>2. CASE k = Len(s)
  <2>1. Len(SubSeq(s, k + 1, Len(s))) = 0 /\ SubSeq(s, k + 1, Len(s)) \in Seq(S)
    BY <1>1, <1>2
  <2> QED
    BY <1>2, <2>1
<1>3. CASE k < Len(s)
  <2> DEFINE r == SubSeq(s, k + 1, Len(s))
  <2>1. Len(r) = Len(s) - k
    BY <1>1, <1>3
  <2> HIDE DEF r
  <2>2. r # <<>> /\ k # Len(s)
    BY <1>1, <1>3, <2>1
  <2> QED
    BY <2>2 DEF r
<1> QED
  BY <1>1, <1>2, <1>3

-----------------------------------------------------------------------------
(* Names and what they need.                                                *)

\* A name without dots and lost letters is a class and a number of dimensions.
LEMMA NameFacts ==
  ASSUME NEW e \in Elements, NEW d \in Nat
  PROVE  /\ Name(e, d) \in Names /\ Name(e, d).elem = e /\ Name(e, d).dim = d
         /\ Name(e, d).cut = 0 /\ ~Name(e, d).dotted
         /\ \A n \in Names : n.elem = e /\ n.dim = d /\ n.cut = 0 /\ ~n.dotted => n = Name(e, d)
  BY DEF Name, Names

\* The name with slashes is the name but for the dots.
LEMMA PlainFacts ==
  ASSUME NEW n \in Names
  PROVE  /\ Plain(n) \in Names /\ ~Plain(n).dotted
         /\ Plain(n).elem = n.elem /\ Plain(n).dim = n.dim /\ Plain(n).cut = n.cut
         /\ ~n.dotted => Plain(n) = n
         /\ n.cut = 0 => Name(n.elem, n.dim) = Plain(n)
<1>1. /\ Plain(n) \in Names /\ ~Plain(n).dotted
      /\ Plain(n).elem = n.elem /\ Plain(n).dim = n.dim /\ Plain(n).cut = n.cut
      /\ ~n.dotted => Plain(n) = n
  BY DEF Plain, Names
<1>2. n.cut = 0 => Name(n.elem, n.dim) = Plain(n)
  <2>1. n.elem \in Elements /\ n.dim \in Nat
    BY DEF Names
  <2> QED
    BY <1>1, <2>1, NameFacts
<1> QED
  BY <1>1, <1>2

\* The classes have heights.
LEMMA HeightExists ==
  ASSUME LoadingAssumption
  PROVE  Height \in [Elements -> Nat] /\ IsHeight(Height)
<1>1. Cardinality(Elements) \in Nat
  BY FS_CardinalityType DEF LoadingAssumption
<1>2. Height \in [Elements -> 0 .. Cardinality(Elements)] /\ IsHeight(Height)
  BY DEF LoadingAssumption, Height
<1> HIDE DEF Height, Elements
<1> QED
  BY <1>1, <1>2

\* A name needed by n comes before n, and so on.
LEMMA BeforeOrders ==
  ASSUME LoadingAssumption, NEW m \in Names, NEW n \in Names, NEW o \in Names
  PROVE  ~Before(m, m) /\ (Before(m, n) /\ Before(n, o) => Before(m, o))
<1>1. Height \in [Elements -> Nat]
  BY HeightExists
<1>2. \A x \in Names : x.dim \in Nat /\ x.elem \in Elements
  BY DEF Names
<1> HIDE DEF Height, Names, Elements
<1>3. /\ Height[m.elem] \in Nat /\ Height[n.elem] \in Nat /\ Height[o.elem] \in Nat
      /\ m.dim \in Nat /\ n.dim \in Nat /\ o.dim \in Nat
  BY <1>1, <1>2
<1> QED
  BY <1>3 DEF Before

\* The element class of an array, and its lower dimension as the loader names it.
ElementName(n) == [n EXCEPT !.dim = 0]
LowerName(loader, n) ==
  [n EXCEPT !.dim = @ - 1, !.cut = @ + (IF loader = "own" THEN 1 ELSE 0)]

\* What a class needs.
LEMMA ClassNeeds ==
  ASSUME LoadingAssumption, NEW n \in Names, n.dim = 0, n.elem \notin Basics, NEW loader
  PROVE  LET needs == NeedsOf(loader, n) IN
           /\ needs \in Seq(Names) /\ Len(needs) = Len(Deps[n.elem])
           /\ \A i \in 1 .. Len(needs) :
                needs[i] = Name(Deps[n.elem][i], 0) /\ Before(needs[i], n)
<1> DEFINE d == Deps[n.elem]
<1>1. n.elem \in Elements
  BY DEF Names
<1>2. d \in Seq(Elements \ Basics)
  BY <1>1 DEF LoadingAssumption
<1>3. Len(d) \in Nat /\ \A i \in 1 .. Len(d) : d[i] \in Elements
  BY <1>2
<1>4. NeedsOf(loader, n) = [i \in 1 .. Len(d) |-> Name(d[i], 0)]
  BY DEF NeedsOf
<1>5. \A i \in 1 .. Len(d) : Name(d[i], 0) \in Names /\ Name(d[i], 0).dim = 0 /\ Name(d[i], 0).elem = d[i]
  BY <1>3 DEF Name, Names
<1>6. \A i \in 1 .. Len(d) : Height[d[i]] < Height[n.elem]
  BY <1>1, HeightExists DEF IsHeight
<1> HIDE DEF d, Height
<1>7. \A i \in 1 .. Len(d) : Before(Name(d[i], 0), n)
  BY <1>5, <1>6 DEF Before
<1>8. /\ NeedsOf(loader, n) \in Seq(Names) /\ Len(NeedsOf(loader, n)) = Len(d)
      /\ \A i \in 1 .. Len(d) : NeedsOf(loader, n)[i] = Name(d[i], 0)
  BY <1>3, <1>4, <1>5
<1> QED
  BY <1>7, <1>8 DEF d

\* What an array needs.
LEMMA ArrayNeeds ==
  ASSUME LoadingAssumption, NEW n \in Names, n.dim > 0, NEW loader
  PROVE  LET needs == NeedsOf(loader, n) IN
           /\ needs \in Seq(Names)
           /\ \A i \in 1 .. Len(needs) :
                /\ \/ needs[i] = ElementName(n) /\ n.elem \notin Basics
                   \/ needs[i] = LowerName(loader, n) /\ n.dim > 1
                /\ Before(needs[i], n)
           /\ n.elem \notin Basics => Len(needs) > 0 /\ needs[1] = ElementName(n)
           /\ n.dim > 1 => Len(needs) > 0 /\ needs[Len(needs)] = LowerName(loader, n)
<1> DEFINE e == ElementName(n)
           l == LowerName(loader, n)
           needs == NeedsOf(loader, n)
<1>1. n.dim \in Nat /\ n.cut \in Nat /\ n.elem \in Elements
  BY DEF Names
<1>2. e \in Names /\ e.dim = 0 /\ Before(e, n)
  BY <1>1 DEF ElementName, Names, Before
<1>3. n.dim > 1 => l \in Names /\ l.dim = n.dim - 1 /\ Before(l, n)
  <2> DEFINE m == [n EXCEPT !.dim = n.dim - 1]
             c == n.cut + (IF loader = "own" THEN 1 ELSE 0)
  <2>1. SUFFICES ASSUME n.dim > 1
                 PROVE  l \in Names /\ l.dim = n.dim - 1 /\ Before(l, n)
    OBVIOUS
  <2>2. m \in Names /\ m.dim = n.dim - 1 /\ c \in Nat
    BY <1>1, <2>1 DEF Names
  <2>3. l = [m EXCEPT !.cut = c]
    BY DEF LowerName
  <2> HIDE DEF m, c, l
  <2>4. l \in Names /\ l.dim = m.dim
    BY <2>2, <2>3 DEF Names
  <2> QED
    BY <1>1, <2>1, <2>2, <2>4 DEF Before
<1>4. needs = (IF n.elem \in Basics THEN <<>> ELSE <<e>>) \o (IF n.dim = 1 THEN <<>> ELSE <<l>>)
  BY <1>1 DEF NeedsOf, ElementName, LowerName
<1> HIDE DEF e, l, needs
<1>5. CASE n.elem \in Basics /\ n.dim = 1
  <2>1. needs = <<>>
    BY <1>4, <1>5
  <2> QED
    BY <2>1, <1>5 DEF needs
<1>6. CASE n.elem \in Basics /\ n.dim # 1
  <2>1. needs = <<l>> /\ n.dim > 1
    BY <1>1, <1>4, <1>6
  <2>2. needs \in Seq(Names) /\ Len(needs) = 1 /\ needs[1] = l
    BY <2>1, <1>3
  <2> QED
    BY <2>1, <2>2, <1>3, <1>6 DEF needs, l
<1>7. CASE n.elem \notin Basics /\ n.dim = 1
  <2>1. needs = <<e>>
    BY <1>4, <1>7
  <2>2. needs \in Seq(Names) /\ Len(needs) = 1 /\ needs[1] = e
    BY <2>1, <1>2
  <2> QED
    BY <2>1, <2>2, <1>2, <1>7 DEF needs, e
<1>8. CASE n.elem \notin Basics /\ n.dim # 1
  <2>1. n.dim > 1 /\ needs = <<e>> \o <<l>>
    BY <1>1, <1>4, <1>8
  <2>2. needs \in Seq(Names) /\ Len(needs) = 2 /\ needs[1] = e /\ needs[2] = l
    BY <2>1, <1>2, <1>3
  <2> QED
    BY <2>1, <2>2, <1>2, <1>3, <1>8 DEF needs, e, l
<1> QED
  BY <1>5, <1>6, <1>7, <1>8

\* The names n needs, in any case.
LEMMA NeedsShape ==
  ASSUME LoadingAssumption, NEW n \in Names, n.dim = 0 => n.elem \notin Basics, NEW loader
  PROVE  /\ NeedsOf(loader, n) \in Seq(Names)
         /\ \A i \in 1 .. Len(NeedsOf(loader, n)) :
              NeedsOf(loader, n)[i] \in Names /\ Before(NeedsOf(loader, n)[i], n)
<1>1. n.dim \in Nat
  BY DEF Names
<1>2. /\ NeedsOf(loader, n) \in Seq(Names)
      /\ \A i \in 1 .. Len(NeedsOf(loader, n)) : Before(NeedsOf(loader, n)[i], n)
  <2>1. CASE n.dim = 0
    BY <2>1, ClassNeeds
  <2>2. CASE n.dim > 0
    BY <2>2, ArrayNeeds
  <2> QED
    BY <1>1, <2>1, <2>2
<1> QED
  BY <1>2

\* A name m that n needs: of a class the name of a class that is there, of an array one of its
\* own class, cut only by the own loader.
Needed(m, n, loader) ==
  /\ m.elem \in Elements /\ (m.dim = 0 => m.elem \notin Basics)
  /\ IF n.dim = 0
       THEN /\ m.dim = 0 /\ m.cut = 0 /\ ~m.dotted /\ m.elem \in Jar \cup Files
            /\ n.elem \in Jar => m.elem \in Jar
       ELSE m.elem = n.elem /\ m.dim < n.dim /\ (m.dotted <=> n.dotted)
  /\ m.cut > 0 => n.cut > 0 \/ (loader = "own" /\ n.dim > 1)

\* The names n needs are of that kind.
LEMMA NeedsAreThere ==
  ASSUME LoadingAssumption, NEW n \in Names, n.dim = 0 => n.elem \notin Basics,
         NEW loader, NEW i \in 1 .. Len(NeedsOf(loader, n))
  PROVE  Needed(NeedsOf(loader, n)[i], n, loader)
<1>1. n.dim \in Nat /\ n.cut \in Nat /\ n.elem \in Elements /\ n.dotted \in BOOLEAN
  BY DEF Names
<1>2. CASE n.dim = 0
  <2> DEFINE d == Deps[n.elem]
  <2>1. i \in 1 .. Len(d) /\ NeedsOf(loader, n)[i] = Name(d[i], 0)
    BY <1>2, ClassNeeds
  <2>2. d[i] \in Elements \ Basics /\ d[i] \in Jar \cup Files /\ (n.elem \in Jar => d[i] \in Jar)
    <3>1. d \in Seq(Elements \ Basics)
      BY <1>1 DEF LoadingAssumption
    <3>2. n.elem \in Jar \/ n.elem \in Files \cup Anonymous
      BY <1>1, <1>2 DEF Elements
    <3> QED
      BY SMTT(30), <2>1, <3>1, <3>2 DEF LoadingAssumption
  <2> QED
    BY <1>2, <2>1, <2>2 DEF Name, Needed
<1>3. CASE n.dim > 0
  <2>2. CASE NeedsOf(loader, n)[i] = ElementName(n) /\ n.elem \notin Basics
    <3>1. /\ ElementName(n).elem = n.elem /\ ElementName(n).dim = 0 /\ ElementName(n).cut = n.cut
          /\ ElementName(n).dotted = n.dotted
      BY DEF ElementName, Names
    <3> QED
      BY <1>1, <1>3, <2>2, <3>1 DEF Needed
  <2>3. CASE NeedsOf(loader, n)[i] = LowerName(loader, n) /\ n.dim > 1
    <3>1. /\ LowerName(loader, n).elem = n.elem /\ LowerName(loader, n).dim = n.dim - 1
          /\ LowerName(loader, n).cut = n.cut + (IF loader = "own" THEN 1 ELSE 0)
          /\ LowerName(loader, n).dotted = n.dotted
      BY <1>1 DEF LowerName, Names
    <3> QED
      BY <1>1, <1>3, <2>3, <3>1 DEF Needed
  <2> QED
    BY <1>3, <2>2, <2>3, ArrayNeeds
<1> QED
  BY <1>1, <1>2, <1>3

-----------------------------------------------------------------------------
(* The ways in which a step changes the stacks of calls.                    *)

\* Only the stack of t changes, and not below its top call.
OthersKeep(t) ==
  /\ calls' \in [Threads -> Seq(Frames)]
  /\ \A u \in Threads \ {t} : calls'[u] = calls[u]
  /\ \A i \in 1 .. Len(calls[t]) - 1 : calls'[t][i] = calls[t][i]

\* The top call of t becomes f.
TopBecomes(t, f) ==
  /\ OthersKeep(t) /\ calls[t] # <<>>
  /\ Len(calls'[t]) = Len(calls[t]) /\ calls'[t][Len(calls[t])] = f

\* The top call of t becomes f and calls g.
TopCalls(t, f, g) ==
  /\ OthersKeep(t) /\ calls[t] # <<>> /\ Len(calls'[t]) = Len(calls[t]) + 1
  /\ calls'[t][Len(calls[t])] = f /\ calls'[t][Len(calls[t]) + 1] = g

\* The top call of t returns r.
TopReturns(t, r) ==
  /\ OthersKeep(t) /\ calls[t] # <<>> /\ Len(calls'[t]) = Len(calls[t]) - 1
  /\ answer' = [answer EXCEPT ![t] = r] /\ locks' = Unlocked(LockOf(Top(t).loader))

\* The top call of a thread is a frame.
LEMMA TopIsFrame ==
  ASSUME DataOK, NEW t \in Threads, calls[t] # <<>>
  PROVE  /\ Top(t) \in Frames /\ Top(t) = calls[t][Len(calls[t])]
         /\ Len(calls[t]) \in Nat \ {0} /\ calls[t] \in Seq(Frames)
<1>1. calls[t] \in Seq(Frames)
  BY DEF DataOK
<1> QED
  BY <1>1, LastFront DEF Top

\* Every call on a stack is a frame.
LEMMA CallIsFrame ==
  ASSUME DataOK, NEW t \in Threads
  PROVE  /\ calls[t] \in Seq(Frames) /\ Len(calls[t]) \in Nat
         /\ \A i \in 1 .. Len(calls[t]) : calls[t][i] \in Frames
<1>1. calls[t] \in Seq(Frames)
  BY DEF DataOK
<1> QED
  BY <1>1

\* The top call moves to pc "look".
LEMMA LookEffect ==
  ASSUME DataOK, NEW t \in Threads, calls[t] # <<>>,
         calls' = [calls EXCEPT ![t][Len(calls[t])].pc = "look"]
  PROVE  TopBecomes(t, [Top(t) EXCEPT !.pc = "look"])
<1> DEFINE f == [Top(t) EXCEPT !.pc = "look"]
           m == [calls[t] EXCEPT ![Len(calls[t])] = f]
<1>1. /\ Top(t) \in Frames /\ Top(t) = calls[t][Len(calls[t])]
      /\ Len(calls[t]) \in Nat \ {0} /\ calls[t] \in Seq(Frames)
  BY TopIsFrame
<1>2. f \in Frames
  BY <1>1 DEF Frames
<1>3. calls' = [calls EXCEPT ![t] = m]
  BY <1>1
<1> HIDE DEF f
<1>4. /\ m \in Seq(Frames) /\ Len(m) = Len(calls[t]) /\ m[Len(calls[t])] = f
      /\ \A i \in 1 .. Len(calls[t]) - 1 : m[i] = calls[t][i]
  BY <1>1, <1>2
<1> HIDE DEF m
<1>5. calls \in [Threads -> Seq(Frames)]
  BY DEF DataOK
<1> QED
  BY <1>3, <1>4, <1>5 DEF TopBecomes, OthersKeep, f

\* The top call is replaced.
LEMMA BecomesEffect ==
  ASSUME DataOK, NEW t \in Threads, calls[t] # <<>>, NEW f \in Frames,
         calls' = [calls EXCEPT ![t] = Append(Front(calls[t]), f)]
  PROVE  TopBecomes(t, f)
<1> DEFINE m == Append(Front(calls[t]), f)
<1>1. calls[t] \in Seq(Frames) /\ calls \in [Threads -> Seq(Frames)]
  BY DEF DataOK
<1>2. /\ m \in Seq(Frames) /\ Len(m) = Len(calls[t]) /\ m[Len(calls[t])] = f
      /\ \A i \in 1 .. Len(calls[t]) - 1 : m[i] = calls[t][i]
  BY <1>1, Replaced
<1>3. calls' = [calls EXCEPT ![t] = m]
  OBVIOUS
<1> HIDE DEF m
<1> QED
  BY <1>1, <1>2, <1>3 DEF TopBecomes, OthersKeep

\* The top call is replaced and calls another one.
LEMMA PushEffect ==
  ASSUME DataOK, NEW t \in Threads, calls[t] # <<>>, NEW f \in Frames, NEW g \in Frames,
         Push(t, f, g)
  PROVE  TopCalls(t, f, g)
<1> DEFINE m == Append(Front(calls[t]), f)
           s == Append(m, g)
<1>1. calls[t] \in Seq(Frames) /\ calls \in [Threads -> Seq(Frames)] /\ Len(calls[t]) \in Nat \ {0}
  BY TopIsFrame DEF DataOK
<1>2. /\ m \in Seq(Frames) /\ Len(m) = Len(calls[t]) /\ m[Len(calls[t])] = f
      /\ \A i \in 1 .. Len(calls[t]) - 1 : m[i] = calls[t][i]
  BY <1>1, Replaced
<1>3. calls' = [calls EXCEPT ![t] = s]
  BY DEF Push
<1> HIDE DEF m
<1>4. s \in Seq(Frames) /\ Len(s) = Len(m) + 1 /\ s[Len(m) + 1] = g /\ \A i \in 1 .. Len(m) : s[i] = m[i]
  BY <1>2, Pushed
<1> HIDE DEF s
<1>5. /\ Len(s) = Len(calls[t]) + 1 /\ s[Len(calls[t]) + 1] = g /\ s[Len(calls[t])] = f
      /\ \A i \in 1 .. Len(calls[t]) - 1 : s[i] = calls[t][i]
  BY <1>1, <1>2, <1>4
<1> QED
  BY <1>1, <1>3, <1>4, <1>5 DEF TopCalls, OthersKeep

\* The top call returns.
LEMMA ReturnEffect ==
  ASSUME DataOK, NEW t \in Threads, calls[t] # <<>>, NEW r, Return(t, r)
  PROVE  TopReturns(t, r)
<1>1. calls[t] \in Seq(Frames) /\ calls \in [Threads -> Seq(Frames)]
  BY DEF DataOK
<1>2. /\ Front(calls[t]) \in Seq(Frames) /\ Len(Front(calls[t])) = Len(calls[t]) - 1
      /\ \A i \in 1 .. Len(calls[t]) - 1 : Front(calls[t])[i] = calls[t][i]
  BY <1>1, LastFront
<1>3. calls' = [calls EXCEPT ![t] = Front(calls[t])]
  BY DEF Return
<1> HIDE DEF Front
<1>4. OthersKeep(t) /\ Len(calls'[t]) = Len(calls[t]) - 1
  BY <1>1, <1>2, <1>3 DEF OthersKeep
<1> QED
  BY <1>4 DEF TopReturns, Return

-----------------------------------------------------------------------------
(* The kinds of steps, each with what the invariant needs to know of it.    *)

\* What a loader has found so far stays as it is.
Quiet == UNCHANGED <<klasses, system, classmap, anonymous, fate>>

\* The top call of t gets its lock.
Acquires(t) ==
  /\ Quiet /\ UNCHANGED answer /\ Top(t).pc = "lock" /\ MayLock(t, LockOf(Top(t).loader))
  /\ locks' = Locked(t, LockOf(Top(t).loader))
  /\ TopBecomes(t, [Top(t) EXCEPT !.pc = "look"])

\* The top call of t begins to load what it needs.
Begun(f) == [f EXCEPT !.pc = "deps", !.todo = NeedsOf(f.loader, f.name)]
Begins(t) ==
  /\ Quiet /\ UNCHANGED <<answer, locks>> /\ Top(t).pc \in {"look", "asked"}
  /\ Top(t).loader \in {"boot", "own"} /\ Unloaded(Top(t))
  /\ TopBecomes(t, Begun(Top(t)))

\* The top call of t asks another one for the same name.
AskedLoader(f) == IF f.loader = "find" THEN "map" ELSE "boot"
Asks(t) ==
  /\ Quiet /\ UNCHANGED <<answer, locks>> /\ Top(t).pc = "look"
  /\ Top(t).loader \in {"own", "find", "ask"} /\ Top(t).bytes # "anonymous"
  /\ TopCalls(t, [Top(t) EXCEPT !.pc = "asked"], Call(AskedLoader(Top(t)), Top(t).name, "none"))

\* The top call of t loads the next of its needs.
Wanting(f, got) ==
  [f EXCEPT !.pc = "need", !.got = got,
            !.todo = SubSeq(NeedsOf(f.loader, f.name), Len(got) + 2, Len(NeedsOf(f.loader, f.name)))]
Wants(t) ==
  /\ Quiet /\ UNCHANGED <<answer, locks>> /\ Top(t).pc \in {"deps", "need"}
  /\ ~(Top(t).pc = "need" /\ answer[t] = NoKlass)
  /\ Len(Loaded(t)) < Len(NeedsOf(Top(t).loader, Top(t).name))
  /\ TopCalls(t, Wanting(Top(t), Loaded(t)),
              Call(Top(t).loader, NeedsOf(Top(t).loader, Top(t).name)[Len(Loaded(t)) + 1], "none"))

\* The top call of t returns r, with nothing constructed.
Returns(t, r) ==
  /\ Quiet /\ TopReturns(t, r) /\ Top(t).pc # "lock" /\ r \in Nat \cup {NoKlass}
  /\ Top(t).loader \in {"boot", "own"} => MayReturn(Top(t).loader, Top(t).name, r)

\* The top call of t returns a new klass.
Constructs(t) ==
  /\ UNCHANGED fate /\ Top(t).pc \in {"deps", "need"} /\ TopReturns(t, Len(klasses) + 1)
  /\ Top(t).pc = "need" => answer[t] # NoKlass
  /\ calls[t] # <<>> /\ Top(t).todo = <<>>
  /\ LowerOf(t) # NoKlass => klasses[LowerOf(t)].higher = NoKlass
  /\ klasses' = Append(IF LowerOf(t) = NoKlass THEN klasses
                       ELSE Higher(klasses, LowerOf(t), Len(klasses) + 1), NewKlass(t))
  /\ IF Top(t).bytes = "anonymous"
       THEN anonymous' = anonymous \cup {Len(klasses) + 1} /\ UNCHANGED <<system, classmap>>
     ELSE IF Top(t).loader = "boot"
       THEN system' = Insert(system, Top(t).name, Len(klasses) + 1) /\ UNCHANGED <<classmap, anonymous>>
       ELSE classmap' = Insert(classmap, Top(t).name, Len(klasses) + 1) /\ UNCHANGED <<system, anonymous>>

\* A call enters a loader.
Enters(t) ==
  /\ Quiet /\ UNCHANGED <<answer, locks>> /\ calls[t] = <<>>
  /\ calls' \in [Threads -> Seq(Frames)] /\ \A u \in Threads \ {t} : calls'[u] = calls[u]
  /\ Named(calls'[t])
  /\ \E loader \in Loaders, n \in Names, b \in {"none", "class", "anonymous"} :
       Len(calls'[t]) = 1 /\ calls'[t][1] = Call(loader, n, b)

\* The process ends, for a reason that is named.
Ends ==
  /\ UNCHANGED <<klasses, system, classmap, anonymous, answer, locks, calls>>
  /\ fate' \in {"exited", "not found"} /\ EndsAreKnown'

-----------------------------------------------------------------------------
(* What the invariant says of a top call.                                   *)

\* The klasses, and what the maps hold.
LEMMA KlassFacts ==
  ASSUME DataOK
  PROVE  /\ Len(klasses) \in Nat /\ klasses \in Seq(Klasses)
         /\ \A k \in 1 .. Len(klasses) : klasses[k] \in Klasses /\ klasses[k].name \in Names
<1>1. klasses \in Seq(Klasses)
  BY DEF DataOK
<1>2. Len(klasses) \in Nat /\ \A k \in 1 .. Len(klasses) : klasses[k] \in Klasses
  BY <1>1
<1>3. \A kl \in Klasses : kl.name \in Names
  BY DEF Klasses
<1> QED
  BY <1>1, <1>2, <1>3

LEMMA MapFacts ==
  ASSUME DataOK, MapsInv
  PROVE  /\ \A n \in DOMAIN system : system[n] \in Nat
         /\ \A n \in DOMAIN classmap : classmap[n] \in Nat
         /\ \A k \in anonymous : k \in Nat
<1>1. Len(klasses) \in Nat
  BY KlassFacts
<1>2. \A n \in DOMAIN system : system[n] \in 1 .. Len(klasses)
  BY DEF MapsInv
<1>3. \A n \in DOMAIN classmap : classmap[n] \in 1 .. Len(klasses)
  BY DEF MapsInv
<1>4. \A k \in anonymous : k \in 1 .. Len(klasses)
  BY DEF DataOK
<1> QED
  BY <1>1, <1>2, <1>3, <1>4

\* The klass a loader has for a name.
LEMMA LoadedIsKlass ==
  ASSUME LoadingAssumption, DataOK, MapsInv, NEW loader, NEW n, NEW a, LoadedBy(loader, n, a)
  PROVE  /\ a \in 1 .. Len(klasses) /\ a # NoKlass /\ klasses[a].name = Plain(n) /\ a \in Kept
         /\ n \in Names /\ n.cut = 0 /\ (n.dotted => n.dim = 0)
         /\ \/ n \in DOMAIN system /\ n.elem \in Jar \cup Basics /\ ~n.dotted
            \/ /\ loader = "own" /\ n \in DOMAIN classmap
               /\ ~n.dotted => n.elem \in Files \cup Anonymous
            \/ loader = "own" /\ n.elem \in Anonymous /\ n.dim = 0 /\ ~n.dotted
<1>1. Len(klasses) \in Nat /\ \A k \in 1 .. Len(klasses) : klasses[k].name \in Names
  BY KlassFacts
<1>2. CASE n \in DOMAIN system /\ a = system[n]
  <2>1. /\ a \in 1 .. Len(klasses) /\ klasses[a].name = n /\ n.elem \in Jar \cup Basics /\ ~n.dotted
        /\ n \in Names
    BY <1>2 DEF MapsInv, DataOK
  <2>2. n.cut = 0 /\ a \in Kept
    BY <1>2, <2>1 DEF MapsInv, Kept
  <2> QED
    BY <1>1, <1>2, <2>1, <2>2, PlainFacts DEF LoadingAssumption
<1>3. CASE loader = "own" /\ n \in DOMAIN classmap /\ a = classmap[n]
  <2>1. /\ a \in 1 .. Len(klasses) /\ klasses[a].name = Plain(n) /\ n \in Names
        /\ IF n.dotted THEN n.dim = 0 ELSE n.elem \in Files \cup Anonymous
    BY <1>3 DEF MapsInv, DataOK
  <2>2. klasses[a].name.cut = 0 /\ a \in Kept
    BY <1>3, <2>1 DEF MapsInv, Kept
  <2>3. n.cut = 0
    BY <2>1, <2>2, PlainFacts
  <2> QED
    BY <1>1, <1>3, <2>1, <2>2, <2>3 DEF LoadingAssumption
<1>4. CASE loader = "own" /\ a \in anonymous /\ klasses[a].name = n
  <2>1. a \in 1 .. Len(klasses) /\ klasses[a].anonymous
    BY <1>4 DEF MapsInv, DataOK
  <2>2. n.cut = 0 /\ ~n.dotted /\ n.elem \in Anonymous /\ n.dim = 0 /\ a \in Kept /\ n \in Names
    BY <1>1, <1>4, <2>1 DEF MapsInv, Kept
  <2> QED
    BY <1>1, <1>4, <2>1, <2>2, PlainFacts DEF LoadingAssumption
<1> QED
  BY <1>2, <1>3, <1>4 DEF LoadedBy

\* The top call of a thread, by what the invariant says of every call.
LEMMA TopIsRight ==
  ASSUME DataOK, StackInv, NamesInv, ProgressInv, NEW t \in Threads, calls[t] # <<>>
  PROVE  LET f == Top(t)
             first == calls[t][1]
             needs == NeedsOf(f.loader, f.name) IN
           /\ f.pc \in Pcs(f.loader)
           /\ IF f.bytes = "anonymous"
                THEN f.loader = "own" /\ f.name.elem \in Anonymous /\ f.name.dim = 0 /\ f.name.cut = 0
                     /\ ~f.name.dotted /\ Len(calls[t]) = 1 /\ f.pc # "asked"
                ELSE f.name.dim = 0 => f.name.elem \notin Basics
           /\ f.bytes = "class" \/ f.name.dotted => f.name.dim = 0 /\ f.name.cut = 0
           /\ f.name.dotted => first.loader = "own"
           /\ f.name.cut > 0 => /\ f.name.elem \in Files \cup Anonymous /\ first.name.elem = f.name.elem
                                /\ first.name.dim > 1
           /\ f.name.dim > 0 => first.name.elem = f.name.elem /\ first.name.dim >= f.name.dim
           /\ f.loader = "own" /\ f.bytes = "none" =>
                /\ ~f.name.dotted
                /\ f.name.elem \in Anonymous => Made(f.name.elem) /\ first.name.elem = f.name.elem
           /\ f.pc # "need" => f.got = <<>>
           /\ f.pc = "deps" => f.todo = needs
           /\ f.pc = "need" => Len(f.got) < Len(needs) /\ f.todo = SubSeq(needs, Len(f.got) + 2, Len(needs))
           /\ \A j \in 1 .. Len(f.got) : LoadedBy(f.loader, needs[j], f.got[j])
           /\ f.pc \in {"deps", "need"} => Unloaded(f) /\ f.loader \in {"boot", "own"}
<1> DEFINE i == Len(calls[t])
           first == calls[t][1]
<1>1. Top(t) = calls[t][i] /\ i \in 1 .. Len(calls[t]) /\ Top(t) \in Frames
  BY TopIsFrame
<1>2. calls[t][i].pc \in Pcs(calls[t][i].loader)
  BY <1>1 DEF StackInv, Chained
<1>3. calls[t][i].pc \in {"deps", "need"} => calls[t][i].loader \in {"boot", "own"}
  BY <1>1, <1>2 DEF Pcs, Frames, Loaders
<1> HIDE DEF i
<1>4. LET f == calls[t][i] IN
        /\ IF f.bytes = "anonymous"
             THEN f.loader = "own" /\ f.name.elem \in Anonymous /\ f.name.dim = 0 /\ f.name.cut = 0
                  /\ ~f.name.dotted /\ i = 1 /\ f.pc # "asked"
             ELSE f.name.dim = 0 => f.name.elem \notin Basics
        /\ f.bytes = "class" \/ f.name.dotted => f.name.dim = 0 /\ f.name.cut = 0
        /\ f.name.dotted => first.loader = "own"
        /\ f.name.cut > 0 => /\ f.name.elem \in Files \cup Anonymous /\ first.name.elem = f.name.elem
                             /\ first.name.dim > 1
        /\ f.name.dim > 0 => first.name.elem = f.name.elem /\ first.name.dim >= f.name.dim
        /\ f.loader = "own" /\ f.bytes = "none" =>
             /\ ~f.name.dotted
             /\ f.name.elem \in Anonymous => Made(f.name.elem) /\ first.name.elem = f.name.elem
  BY <1>1 DEF NamesInv, Named
<1>5. LET f == calls[t][i]
          needs == NeedsOf(f.loader, f.name) IN
        /\ f.pc # "need" => f.got = <<>>
        /\ f.pc = "deps" => f.todo = needs
        /\ f.pc = "need" => Len(f.got) < Len(needs) /\ f.todo = SubSeq(needs, Len(f.got) + 2, Len(needs))
        /\ \A j \in 1 .. Len(f.got) : LoadedBy(f.loader, needs[j], f.got[j])
        /\ f.pc \in {"deps", "need"} => Unloaded(f)
  BY <1>1 DEF ProgressInv, InProgress
<1> QED
  BY <1>1, <1>2, <1>3, <1>4, <1>5 DEF i

\* The name of a top call, and what it needs.
LEMMA TopNeeds ==
  ASSUME LoadingAssumption, DataOK, StackInv, NamesInv, ProgressInv, NEW t \in Threads, calls[t] # <<>>
  PROVE  LET n == Top(t).name
             needs == NeedsOf(Top(t).loader, n) IN
           /\ n \in Names /\ (n.dim = 0 => n.elem \notin Basics)
           /\ needs \in Seq(Names) /\ Len(needs) \in Nat
           /\ \A i \in 1 .. Len(needs) : needs[i] \in Names /\ Before(needs[i], n)
<1>1. Top(t) \in Frames /\ Top(t).name \in Names
  BY TopIsFrame DEF Frames
<1>2. Top(t).name.dim = 0 => Top(t).name.elem \notin Basics
  BY TopIsRight DEF LoadingAssumption
<1>3. /\ NeedsOf(Top(t).loader, Top(t).name) \in Seq(Names)
      /\ \A i \in 1 .. Len(NeedsOf(Top(t).loader, Top(t).name)) :
           /\ NeedsOf(Top(t).loader, Top(t).name)[i] \in Names
           /\ Before(NeedsOf(Top(t).loader, Top(t).name)[i], Top(t).name)
  BY <1>1, <1>2, NeedsShape
<1> QED
  BY <1>1, <1>2, <1>3

\* What the last call of a top call returned.
LEMMA TopAnswered ==
  ASSUME AnswerInv, NEW t \in Threads, calls[t] # <<>>
  PROVE  LET f == Top(t) IN
           /\ f.loader = "own" /\ f.pc = "asked" => MayReturn("boot", f.name, answer[t])
           /\ f.loader \in {"boot", "own"} /\ f.pc = "need" =>
                MayReturn(f.loader, NeedsOf(f.loader, f.name)[Len(f.got) + 1], answer[t])
<1>1. Top(t).loader = "own" /\ Top(t).pc = "asked" => Callee(Top(t)) = [loader |-> "boot", name |-> Top(t).name]
  BY DEF Callee
<1>2. Top(t).pc = "need" =>
        Callee(Top(t)) = [loader |-> Top(t).loader,
                          name |-> NeedsOf(Top(t).loader, Top(t).name)[Len(Top(t).got) + 1]]
  BY DEF Callee
<1>3. Top(t).loader \in {"boot", "own"} /\ Top(t).pc \in {"asked", "need"} =>
        MayReturn(Callee(Top(t)).loader, Callee(Top(t)).name, answer[t])
  BY DEF AnswerInv, Answered
<1> QED
  BY <1>1, <1>2, <1>3

\* All that a top call has loaded is what it needs, in order.
LEMMA LoadedAreNeeds ==
  ASSUME LoadingAssumption, IInv, NEW t \in Threads, calls[t] # <<>>, Top(t).pc \in {"deps", "need"},
         ~(Top(t).pc = "need" /\ answer[t] = NoKlass)
  PROVE  LET needs == NeedsOf(Top(t).loader, Top(t).name)
             m == Len(Loaded(t)) IN
           /\ Loaded(t) \in Seq(Nat \cup {NoKlass}) /\ m \in Nat /\ m <= Len(needs)
           /\ \A j \in 1 .. m : LoadedBy(Top(t).loader, needs[j], Loaded(t)[j])
           /\ Top(t).todo = <<>> <=> m = Len(needs)
           /\ Top(t).todo # <<>> => /\ Head(Top(t).todo) = needs[m + 1]
                                    /\ Tail(Top(t).todo) = SubSeq(needs, m + 2, Len(needs))
<1> DEFINE f == Top(t)
           needs == NeedsOf(f.loader, f.name)
           m == Len(Loaded(t))
<1>1. DataOK /\ StackInv /\ NamesInv /\ ProgressInv /\ AnswerInv
  BY DEF IInv
<1>2. f \in Frames /\ f.got \in Seq(Nat \cup {NoKlass}) /\ answer[t] \in Nat \cup {NoKlass}
  BY <1>1, TopIsFrame DEF Frames, DataOK
<1>3. needs \in Seq(Names) /\ Len(needs) \in Nat
  BY <1>1, TopNeeds
<1>4. CASE f.pc = "deps"
  <2>1. Loaded(t) = <<>> /\ f.todo = needs
    BY <1>1, <1>4, TopIsRight DEF Loaded
  <2>2. needs # <<>> => Tail(needs) = SubSeq(needs, 2, Len(needs))
    BY <1>3
  <2> QED
    BY <2>1, <2>2, <1>3
<1>5. CASE f.pc = "need"
  <2>1. /\ Loaded(t) = Append(f.got, answer[t]) /\ f.todo = SubSeq(needs, Len(f.got) + 2, Len(needs))
        /\ Len(f.got) < Len(needs) /\ \A j \in 1 .. Len(f.got) : LoadedBy(f.loader, needs[j], f.got[j])
    BY <1>1, <1>5, TopIsRight DEF Loaded
  <2>2. MayReturn(f.loader, needs[Len(f.got) + 1], answer[t])
    BY <1>1, <1>5, TopIsRight, TopAnswered
  <2>3. LoadedBy(f.loader, needs[Len(f.got) + 1], answer[t])
    BY <1>5, <2>2 DEF MayReturn
  <2>4. /\ Loaded(t) \in Seq(Nat \cup {NoKlass}) /\ m = Len(f.got) + 1 /\ m \in Nat /\ m <= Len(needs)
        /\ \A j \in 1 .. Len(f.got) : Loaded(t)[j] = f.got[j]
        /\ Loaded(t)[m] = answer[t]
    BY <1>2, <1>3, <2>1
  <2> HIDE DEF needs, f
  <2>5. \A j \in 1 .. m : LoadedBy(f.loader, needs[j], Loaded(t)[j])
    BY <2>1, <2>3, <2>4
  <2>6. f.todo = SubSeq(needs, m + 1, Len(needs))
    BY <2>1, <2>4, <1>2
  <2>7. f.todo = <<>> <=> m = Len(needs)
    BY <2>4, <2>6, <1>3, RestIsEmpty
  <2>8. f.todo # <<>> => Head(f.todo) = needs[m + 1] /\ Tail(f.todo) = SubSeq(needs, m + 2, Len(needs))
    BY <2>4, <2>6, <1>3, Rest
  <2> QED
    BY <2>4, <2>5, <2>7, <2>8 DEF needs, f
<1> QED
  BY <1>4, <1>5

-----------------------------------------------------------------------------
(* What each step does, in these terms.                                     *)

\* Acquire takes the lock.
LEMMA AcquireKind ==
  ASSUME DataOK, NEW t \in Threads, Acquire(t)
  PROVE  Acquires(t)
<1>1. calls[t] # <<>> /\ calls' = [calls EXCEPT ![t][Len(calls[t])].pc = "look"]
  BY DEF Acquire
<1>2. TopBecomes(t, [Top(t) EXCEPT !.pc = "look"])
  BY <1>1, LookEffect
<1> QED
  BY <1>2 DEF Acquire, Acquires, Quiet

\* Begin moves the top call on, to what it needs.
LEMMA BeginKind ==
  ASSUME LoadingAssumption, IInv, NEW t \in Threads, calls[t] # <<>>, Begin(t)
  PROVE  TopBecomes(t, Begun(Top(t))) /\ UNCHANGED <<answer, locks>>
<1>1. DataOK /\ StackInv /\ NamesInv /\ ProgressInv
  BY DEF IInv
<1>2. Top(t) \in Frames /\ NeedsOf(Top(t).loader, Top(t).name) \in Seq(Names)
  BY <1>1, TopIsFrame, TopNeeds
<1>3. Begun(Top(t)) \in Frames
  BY <1>2 DEF Begun, Frames
<1>4. calls' = [calls EXCEPT ![t] = Append(Front(calls[t]), Begun(Top(t)))]
  BY DEF Begin, Begun
<1> QED
  BY <1>1, <1>3, <1>4, BecomesEffect DEF Begin

\* The innermost call finds nothing: the call outside it learns that, or the process ends.
LEMMA MissingKind ==
  ASSUME LoadingAssumption, IInv, NEW t \in Threads, calls[t] # <<>>, Top(t).pc # "lock",
         Top(t).loader = "boot", ~Top(t).name.dotted, Top(t).name.elem \notin Jar \cup Basics,
         UNCHANGED <<klasses, system, classmap, anonymous>>, Missing(t)
  PROVE  Ends \/ \E r : Returns(t, r)
<1>1. CASE Len(calls[t]) = 1
  <2>1. fate' = "not found" /\ UNCHANGED <<calls, answer, locks>>
    BY <1>1 DEF Missing
  <2>2. calls[t][1] = Top(t)
    BY <1>1, TopIsFrame DEF IInv
  <2>3. \E u \in Threads :
          calls[u] # <<>> /\ calls[u][1].loader = "boot" /\ calls[u][1].name.elem \notin Jar \cup Basics
    BY <2>2
  <2>4. EndsAreKnown'
    BY <2>1, <2>3 DEF EndsAreKnown
  <2> QED
    BY <2>1, <2>4 DEF Ends
<1>2. CASE Len(calls[t]) # 1
  <2>1. Return(t, NoKlass) /\ UNCHANGED fate
    BY <1>2 DEF Missing
  <2>2. TopReturns(t, NoKlass)
    BY <2>1, ReturnEffect DEF IInv
  <2> QED
    BY <2>1, <2>2 DEF Returns, MayReturn, Quiet
<1> QED
  BY <1>1, <1>2

\* BootLook returns a klass, or nothing for a class it does not have, or begins to load.
LEMMA BootLookKind ==
  ASSUME LoadingAssumption, IInv, NEW t \in Threads, BootLook(t)
  PROVE  Begins(t) \/ Ends \/ \E r : Returns(t, r)
<1> DEFINE f == Top(t)
           n == Top(t).name
<1>1. /\ calls[t] # <<>> /\ f.loader = "boot" /\ f.pc = "look"
      /\ UNCHANGED <<klasses, system, classmap, anonymous>>
  BY DEF BootLook, At
<1>2. DataOK /\ StackInv /\ NamesInv /\ ProgressInv /\ MapsInv
  BY DEF IInv
<1>3. n \in Names /\ n.dim \in Nat /\ n.cut \in Nat
  BY <1>1, <1>2, TopIsFrame DEF Frames, Names
<1>4. CASE ~InJar(n) /\ n.dim = 0
  <2>1. Missing(t)
    BY <1>4 DEF BootLook
  <2>2. n.elem \notin Basics /\ (n.cut > 0 => n.elem \in Files \cup Anonymous)
    BY <1>1, <1>2, <1>4, TopIsRight
  <2>3. n.cut = 0 /\ ~n.dotted => n.elem \notin Jar
    BY <1>4 DEF InJar
  <2>4. (Files \cup Anonymous) \cap (Jar \cup Basics) = {}
    BY DEF LoadingAssumption
  <2>5. CASE ~n.dotted
    <3>1. n.elem \notin Jar \cup Basics
      BY <1>3, <2>2, <2>3, <2>4, <2>5
    <3> QED
      BY <1>1, <2>1, <2>5, <3>1, MissingKind
  <2>6. CASE n.dotted
    <3>1. calls[t][1].loader = "own"
      BY <1>1, <1>2, <2>6, TopIsRight
    <3>2. Len(calls[t]) # 1
      BY <1>1, <1>2, <3>1, TopIsFrame
    <3>3. Return(t, NoKlass) /\ UNCHANGED fate
      BY <2>1, <3>2 DEF Missing
    <3>4. TopReturns(t, NoKlass)
      BY <1>1, <1>2, <3>3, ReturnEffect
    <3> QED
      BY <1>1, <2>6, <3>3, <3>4 DEF Returns, MayReturn, Quiet
  <2> QED
    BY <2>5, <2>6
<1>5. CASE ~(~InJar(n) /\ n.dim = 0) /\ n \in DOMAIN system
  <2>1. Return(t, system[n]) /\ UNCHANGED fate
    BY <1>5 DEF BootLook
  <2>2. MayReturn("boot", n, system[n]) /\ system[n] \in Nat
    BY <1>2, <1>5, MapFacts DEF MayReturn, LoadedBy
  <2> QED
    BY <1>1, <1>2, <2>1, <2>2, ReturnEffect DEF Returns, Quiet
<1>6. CASE ~(~InJar(n) /\ n.dim = 0) /\ n \notin DOMAIN system
  <2>1. Begin(t) /\ UNCHANGED fate
    BY <1>6 DEF BootLook
  <2>2. ~n.dotted
    <3>1. n.dotted => n.dim = 0
      BY <1>1, <1>2, TopIsRight
    <3> QED
      BY <1>6, <3>1 DEF InJar
  <2>3. Unloaded(f)
    BY <1>1, <1>6, <2>2 DEF Unloaded, InJar
  <2> QED
    BY <1>1, <2>1, <2>3, BeginKind DEF Begins, Quiet
<1> QED
  BY <1>4, <1>5, <1>6

\* A new call is a frame.
LEMMA NewCall ==
  ASSUME NEW loader \in Loaders, NEW n \in Names, NEW b \in {"none", "class", "anonymous"}
  PROVE  /\ Call(loader, n, b) \in Frames /\ Call(loader, n, b).loader = loader
         /\ Call(loader, n, b).name = n /\ Call(loader, n, b).bytes = b
         /\ Call(loader, n, b).pc = "lock" /\ Call(loader, n, b).got = <<>>
  BY DEF Call, Frames

\* The top call of t asks another loader for its name.
LEMMA AskKind ==
  ASSUME LoadingAssumption, IInv, NEW t \in Threads, calls[t] # <<>>, NEW loader \in Loaders,
         Push(t, [Top(t) EXCEPT !.pc = "asked"], Call(loader, Top(t).name, "none"))
  PROVE  TopCalls(t, [Top(t) EXCEPT !.pc = "asked"], Call(loader, Top(t).name, "none"))
<1>1. DataOK /\ Top(t) \in Frames /\ Top(t).name \in Names
  BY TopIsFrame DEF IInv, Frames
<1>2. [Top(t) EXCEPT !.pc = "asked"] \in Frames
  BY <1>1 DEF Frames
<1> QED
  BY <1>1, <1>2, NewCall, PushEffect

\* OwnLook asks the bootstrap loader, or begins to load an anonymous class.
LEMMA OwnLookKind ==
  ASSUME LoadingAssumption, IInv, NEW t \in Threads, OwnLook(t)
  PROVE  Begins(t) \/ Asks(t)
<1>1. /\ calls[t] # <<>> /\ Top(t).loader = "own" /\ Top(t).pc = "look" /\ Quiet
  BY DEF OwnLook, At, Quiet
<1>2. CASE Top(t).bytes = "anonymous"
  BY <1>1, <1>2, BeginKind DEF OwnLook, Begins, Unloaded
<1>3. CASE Top(t).bytes # "anonymous"
  <2>1. UNCHANGED <<answer, locks>> /\ AskedLoader(Top(t)) = "boot"
    BY <1>1, <1>3 DEF OwnLook, AskedLoader
  <2>2. TopCalls(t, [Top(t) EXCEPT !.pc = "asked"], Call("boot", Top(t).name, "none"))
    BY <1>1, <1>3, AskKind DEF OwnLook, Loaders
  <2> QED
    BY <1>1, <1>3, <2>1, <2>2 DEF Asks
<1> QED
  BY <1>2, <1>3

\* OwnAsked returns what there is, begins to load what has a file or bytes, or ends the process.
LEMMA OwnAskedKind ==
  ASSUME LoadingAssumption, IInv, NEW t \in Threads, OwnAsked(t)
  PROVE  Begins(t) \/ Ends \/ \E r : Returns(t, r)
<1> DEFINE f == Top(t)
           n == Top(t).name
           named == {k \in anonymous : klasses[k].name = n}
           begins == n.dim > 0 \/ f.bytes = "class" \/ (n.cut = 0 /\ n.elem \in Files)
<1>1. /\ calls[t] # <<>> /\ f.loader = "own" /\ f.pc = "asked"
      /\ UNCHANGED <<klasses, system, classmap, anonymous>>
  BY DEF OwnAsked, At
<1>2. DataOK /\ StackInv /\ NamesInv /\ ProgressInv /\ MapsInv /\ AnswerInv
  BY DEF IInv
<1>3. /\ n \in Names /\ n.elem \in Elements /\ n.dim \in Nat /\ n.cut \in Nat /\ n.dotted \in BOOLEAN
      /\ answer[t] \in Nat \cup {NoKlass} /\ f.bytes \in {"none", "class", "anonymous"}
  BY <1>1, <1>2, TopIsFrame DEF Frames, Names, DataOK
<1>4. MayReturn("boot", n, answer[t])
  BY <1>1, <1>2, TopAnswered
<1>5. /\ f.bytes # "anonymous" /\ (f.bytes = "class" \/ n.dotted => n.dim = 0 /\ n.cut = 0)
      /\ n.cut > 0 => calls[t][1].name.elem = n.elem /\ calls[t][1].name.dim > 1 /\ n.elem \in Files \cup Anonymous
      /\ f.bytes = "none" => /\ ~n.dotted
                             /\ n.elem \in Anonymous => Made(n.elem) /\ calls[t][1].name.elem = n.elem
  BY <1>1, <1>2, TopIsRight
<1>6. CASE answer[t] # NoKlass
  <2>1. Return(t, answer[t]) /\ UNCHANGED fate
    BY <1>6 DEF OwnAsked
  <2>2. MayReturn("own", n, answer[t])
    BY <1>4, <1>6 DEF MayReturn, LoadedBy
  <2> QED
    BY <1>1, <1>2, <1>3, <2>1, <2>2, ReturnEffect DEF Returns, Quiet
<1>7. ASSUME answer[t] = NoKlass
      PROVE  ~n.dotted => n.elem \in Files \cup Anonymous
  <2>1. ~LoadedBy("boot", n, answer[t])
    BY <1>2, <1>7, LoadedIsKlass
  <2> QED
    BY <1>3, <1>4, <2>1 DEF MayReturn, Elements
<1>8. CASE answer[t] = NoKlass /\ n \in DOMAIN classmap
  <2>1. Return(t, classmap[n]) /\ UNCHANGED fate
    BY <1>8 DEF OwnAsked
  <2>2. MayReturn("own", n, classmap[n]) /\ classmap[n] \in Nat
    BY <1>2, <1>8, MapFacts DEF MayReturn, LoadedBy
  <2> QED
    BY <1>1, <1>2, <2>1, <2>2, ReturnEffect DEF Returns, Quiet
<1>9. CASE answer[t] = NoKlass /\ n \notin DOMAIN classmap /\ begins
  <2>1. Begin(t) /\ UNCHANGED fate
    BY <1>9 DEF OwnAsked
  <2>2. n.dim = 0 => n.cut = 0
    BY <1>3, <1>5, <1>9
  <2>3. Unloaded(f)
    BY <1>1, <1>5, <1>7, <1>9, <2>2 DEF Unloaded
  <2> QED
    BY <1>1, <2>1, <2>3, BeginKind DEF Begins, Quiet
<1>10. CASE answer[t] = NoKlass /\ n \notin DOMAIN classmap /\ ~begins /\ named # {}
  <2>1. PICK k \in named : Return(t, k) /\ UNCHANGED fate
    BY <1>10 DEF OwnAsked
  <2>2. MayReturn("own", n, k) /\ k \in Nat
    BY <1>2, <2>1, MapFacts DEF MayReturn, LoadedBy
  <2> QED
    BY <1>1, <1>2, <2>1, <2>2, ReturnEffect DEF Returns, Quiet
<1>11. CASE answer[t] = NoKlass /\ n \notin DOMAIN classmap /\ ~begins /\ named = {}
  <2>1. fate' = "exited" /\ UNCHANGED <<calls, answer, locks>>
    BY <1>11 DEF OwnAsked
  <2>2. /\ n.dim = 0 /\ f.bytes = "none" /\ ~n.dotted /\ n.elem \in Files \cup Anonymous
        /\ n.cut > 0 \/ n.elem \in Anonymous
    BY <1>3, <1>5, <1>7, <1>11
  <2>3. LET m == calls[t][1].name
        IN \/ m.dim > 1 /\ m.elem \in Files \cup Anonymous
           \/ m.elem \in Anonymous /\ \E o \in DOMAIN classmap : o.dotted /\ o.elem = m.elem
    <3>1. CASE n.cut > 0
      BY <1>5, <2>2, <3>1
    <3>2. CASE n.cut = 0 /\ n.elem \in Anonymous
      <4>1. n = Name(n.elem, 0)
        BY <1>3, <2>2, <3>2, NameFacts
      <4>2. PICK k \in 1 .. Len(klasses) : klasses[k].name = n
        BY <1>5, <2>2, <3>2, <4>1 DEF Made
      <4>3. ~klasses[k].anonymous
        BY <1>2, <1>11, <4>2 DEF MapsInv
      <4>4. k \in Kept /\ k \notin anonymous
        BY <1>2, <4>2, <4>3 DEF MapsInv
      <4>5. \A o \in DOMAIN system : system[o] # k
        BY <1>2, <3>2, <4>2 DEF MapsInv, LoadingAssumption
      <4>6. PICK o \in DOMAIN classmap : classmap[o] = k
        BY <4>4, <4>5 DEF Kept
      <4>7. o \in Names /\ Plain(o) = n
        BY <1>2, <4>2, <4>6 DEF MapsInv, DataOK
      <4>8. o.dotted /\ o.elem = n.elem
        BY <1>11, <4>6, <4>7, PlainFacts
      <4> QED
        BY <1>5, <2>2, <3>2, <4>6, <4>8
    <3> QED
      BY <1>3, <2>2, <3>1, <3>2
  <2>4. EndsAreKnown'
    BY <1>1, <2>1, <2>3 DEF EndsAreKnown
  <2> QED
    BY <1>1, <2>1, <2>4 DEF Ends
<1> QED
  BY <1>6, <1>8, <1>9, <1>10, <1>11

\* LoadNeed calls for the next need.
LEMMA LoadNeedKind ==
  ASSUME LoadingAssumption, IInv, NEW t \in Threads, LoadNeed(t)
  PROVE  Wants(t)
<1> DEFINE f == Top(t)
           needs == NeedsOf(Top(t).loader, Top(t).name)
           m == Len(Loaded(t))
<1>1. /\ calls[t] # <<>> /\ f.pc \in {"deps", "need"} /\ ~(f.pc = "need" /\ answer[t] = NoKlass)
      /\ f.todo # <<>> /\ Quiet /\ UNCHANGED <<answer, locks>>
      /\ Push(t, [f EXCEPT !.pc = "need", !.todo = Tail(@), !.got = Loaded(t)],
              Call(f.loader, Head(f.todo), "none"))
  BY DEF LoadNeed, Quiet
<1>2. DataOK /\ StackInv /\ NamesInv /\ ProgressInv
  BY DEF IInv
<1>3. f \in Frames /\ needs \in Seq(Names) /\ Len(needs) \in Nat
  BY <1>1, <1>2, TopIsFrame, TopNeeds
<1>4. /\ Loaded(t) \in Seq(Nat \cup {NoKlass}) /\ m \in Nat /\ m < Len(needs)
      /\ Head(f.todo) = needs[m + 1] /\ Tail(f.todo) = SubSeq(needs, m + 2, Len(needs))
  BY <1>1, <1>3, LoadedAreNeeds
<1>5. needs[m + 1] \in Names /\ SubSeq(needs, m + 2, Len(needs)) \in Seq(Names)
  BY <1>3, <1>4
<1>6. Wanting(f, Loaded(t)) \in Frames
  BY <1>3, <1>4, <1>5 DEF Wanting, Frames
<1>7. f.loader \in Loaders
  BY <1>3 DEF Frames
<1>8. Call(f.loader, needs[m + 1], "none") \in Frames
  BY <1>5, <1>7, NewCall
<1>9. [f EXCEPT !.pc = "need", !.todo = Tail(@), !.got = Loaded(t)] = Wanting(f, Loaded(t))
  BY <1>3, <1>4 DEF Wanting, Frames
<1>10. TopCalls(t, Wanting(f, Loaded(t)), Call(f.loader, needs[m + 1], "none"))
  BY <1>1, <1>2, <1>4, <1>6, <1>8, <1>9, PushEffect
<1> QED
  BY <1>1, <1>4, <1>10 DEF Wants

\* GiveUp returns nothing, and only from an array that the bootstrap loader does not have.
LEMMA GiveUpKind ==
  ASSUME LoadingAssumption, IInv, NEW t \in Threads, GiveUp(t)
  PROVE  Ends \/ \E r : Returns(t, r)
<1> DEFINE f == Top(t)
           n == Top(t).name
           needs == NeedsOf(Top(t).loader, Top(t).name)
           i == Len(f.got) + 1
<1>1. /\ calls[t] # <<>> /\ f.pc = "need" /\ answer[t] = NoKlass /\ Missing(t)
      /\ UNCHANGED <<klasses, system, classmap, anonymous>>
  BY DEF GiveUp
<1>2. DataOK /\ StackInv /\ NamesInv /\ ProgressInv /\ AnswerInv /\ MapsInv
  BY DEF IInv
<1>3. f \in Frames /\ n \in Names /\ n.dim \in Nat /\ f.got \in Seq(Nat \cup {NoKlass})
  BY <1>1, <1>2, TopIsFrame DEF Frames, Names
<1>4. f.loader \in {"boot", "own"} /\ Unloaded(f) /\ i \in 1 .. Len(needs)
  <2>1. f.loader \in {"boot", "own"} /\ Unloaded(f) /\ Len(f.got) < Len(needs)
    BY <1>1, <1>2, TopIsRight
  <2>2. Len(needs) \in Nat
    BY <1>1, <1>2, TopNeeds
  <2> QED
    BY <1>3, <2>1, <2>2
<1>5. MayReturn(f.loader, needs[i], NoKlass) /\ ~LoadedBy(f.loader, needs[i], NoKlass)
  BY <1>1, <1>2, <1>4, TopAnswered, LoadedIsKlass
<1>6. f.loader = "boot" /\ (needs[i].dotted \/ needs[i].elem \notin Jar \cup Basics)
  BY <1>5 DEF MayReturn
<1>7. ~n.dotted /\ n.elem \notin Jar \cup Basics
  <2>1. IF n.dim = 0 THEN ~needs[i].dotted /\ (n.elem \in Jar => needs[i].elem \in Jar)
        ELSE needs[i].elem = n.elem /\ (needs[i].dotted <=> n.dotted)
    <3> DEFINE loader == Top(t).loader
    <3>1. n \in Names /\ (n.dim = 0 => n.elem \notin Basics)
      BY <1>1, <1>2, <1>3, TopNeeds
    <3>2. i \in 1 .. Len(NeedsOf(loader, n))
      BY <1>4
    <3> HIDE DEF i, n, loader
    <3>3. Needed(NeedsOf(loader, n)[i], n, loader)
      BY <3>1, <3>2, NeedsAreThere
    <3> QED
      BY <3>3 DEF n, loader, Needed
  <2>2. ~n.dotted /\ (n.dim = 0 => n.elem \in Jar)
    BY <1>4, <1>6 DEF Unloaded
  <2> QED
    BY <1>6, <2>1, <2>2
<1> QED
  BY <1>1, <1>6, <1>7, MissingKind

\* Find returns what the bootstrap loader has, or asks for the other map.
LEMMA FindKind ==
  ASSUME LoadingAssumption, IInv, NEW t \in Threads, Find(t)
  PROVE  Asks(t) \/ \E r : Returns(t, r)
<1>1. /\ calls[t] # <<>> /\ Top(t).loader = "find" /\ Top(t).pc = "look" /\ Quiet
  BY DEF Find, At, Quiet
<1>2. DataOK /\ StackInv /\ NamesInv /\ ProgressInv /\ MapsInv
  BY DEF IInv
<1>3. CASE Top(t).name \in DOMAIN system
  <2>1. Return(t, system[Top(t).name]) /\ system[Top(t).name] \in Nat
    BY <1>2, <1>3, MapFacts DEF Find
  <2> QED
    BY <1>1, <1>2, <2>1, ReturnEffect DEF Returns
<1>4. CASE Top(t).name \notin DOMAIN system
  <2>1. /\ Push(t, [Top(t) EXCEPT !.pc = "asked"], Call("map", Top(t).name, "none"))
        /\ UNCHANGED <<answer, locks>> /\ AskedLoader(Top(t)) = "map"
    BY <1>1, <1>4 DEF Find, AskedLoader
  <2>2. Top(t).bytes # "anonymous"
    BY <1>1, <1>2, TopIsRight
  <2>3. TopCalls(t, [Top(t) EXCEPT !.pc = "asked"], Call("map", Top(t).name, "none"))
    BY <1>1, <2>1, AskKind DEF Loaders
  <2> QED
    BY <1>1, <2>1, <2>2, <2>3 DEF Asks
<1> QED
  BY <1>3, <1>4

\* FindInClassmap returns what the map has, HandOn what was returned to it.
LEMMA AnswerKind ==
  ASSUME LoadingAssumption, IInv, NEW t \in Threads, FindInClassmap(t) \/ HandOn(t)
  PROVE  \E r : Returns(t, r)
<1>1. DataOK /\ MapsInv
  BY DEF IInv
<1>2. CASE FindInClassmap(t)
  <2> DEFINE r == IF Top(t).name \in DOMAIN classmap THEN classmap[Top(t).name] ELSE NoKlass
  <2>1. calls[t] # <<>> /\ Top(t).loader = "map" /\ Top(t).pc = "look" /\ Quiet /\ Return(t, r)
    BY <1>2 DEF FindInClassmap, At, Quiet
  <2>2. r \in Nat \cup {NoKlass}
    BY <1>1, MapFacts
  <2> HIDE DEF r
  <2> QED
    BY <1>1, <2>1, <2>2, ReturnEffect DEF Returns
<1>3. CASE HandOn(t)
  <2>1. /\ calls[t] # <<>> /\ Top(t).loader \in {"find", "ask"} /\ Top(t).pc = "asked" /\ Quiet
        /\ Return(t, answer[t]) /\ answer[t] \in Nat \cup {NoKlass}
    BY <1>1, <1>3 DEF HandOn, Quiet, DataOK
  <2> QED
    BY <1>1, <2>1, ReturnEffect DEF Returns
<1> QED
  BY <1>2, <1>3

\* Ask asks the bootstrap loader.
LEMMA FindBootKind ==
  ASSUME LoadingAssumption, IInv, NEW t \in Threads, Ask(t)
  PROVE  Asks(t)
<1>1. /\ calls[t] # <<>> /\ Top(t).loader = "ask" /\ Top(t).pc = "look" /\ Quiet
      /\ UNCHANGED <<answer, locks>> /\ AskedLoader(Top(t)) = "boot"
      /\ Push(t, [Top(t) EXCEPT !.pc = "asked"], Call("boot", Top(t).name, "none"))
  BY DEF Ask, At, Quiet, AskedLoader
<1>2. Top(t).bytes # "anonymous"
  BY <1>1, TopIsRight DEF IInv
<1>3. TopCalls(t, [Top(t) EXCEPT !.pc = "asked"], Call("boot", Top(t).name, "none"))
  BY <1>1, AskKind DEF Loaders
<1> QED
  BY <1>1, <1>2, <1>3 DEF Asks

\* A name that has lost nothing and whose class the loader has.
LEMMA ConstructsWhole ==
  ASSUME LoadingAssumption, IInv, NEW t \in Threads, calls[t] # <<>>, Top(t).pc \in {"deps", "need"},
         ~(Top(t).pc = "need" /\ answer[t] = NoKlass), Top(t).todo = <<>>
  PROVE  /\ Top(t).name.cut = 0 /\ Unloaded(Top(t)) /\ Top(t).loader \in {"boot", "own"}
         /\ Top(t).loader = "boot" => Top(t).name.elem \in Jar \cup Basics
<1> DEFINE f == Top(t)
           n == Top(t).name
           needs == NeedsOf(Top(t).loader, Top(t).name)
<1>1. DataOK /\ StackInv /\ NamesInv /\ ProgressInv /\ MapsInv
  BY DEF IInv
<1>2. n \in Names /\ n.dim \in Nat /\ n.cut \in Nat /\ n.elem \in Elements
  BY <1>1, TopIsFrame DEF Frames, Names
<1>3. Unloaded(f) /\ f.loader \in {"boot", "own"}
  BY <1>1, TopIsRight
<1>4. /\ f.bytes = "anonymous" => f.loader = "own" /\ n.cut = 0 /\ n.dim = 0
      /\ n.cut > 0 => n.elem \in Files \cup Anonymous
  BY <1>1, TopIsRight
<1>5. (Files \cup Anonymous) \cap (Jar \cup Basics) = {}
  BY DEF LoadingAssumption
<1>6. CASE n.dim = 0
  BY <1>2, <1>3, <1>4, <1>5, <1>6 DEF Unloaded
<1>7. CASE n.dim > 0 /\ n.elem \in Basics
  BY <1>2, <1>3, <1>4, <1>5, <1>7
<1>8. CASE n.dim > 0 /\ n.elem \notin Basics
  <2>1. Len(needs) > 0 /\ needs[1] = ElementName(n) /\ Len(needs) \in Nat
    BY <1>1, <1>2, <1>8, ArrayNeeds, TopNeeds
  <2>2. LoadedBy(f.loader, needs[1], Loaded(t)[1])
    BY <2>1, LoadedAreNeeds
  <2>3. ElementName(n).cut = n.cut /\ ElementName(n).elem = n.elem
    BY <1>2 DEF ElementName, Names
  <2>4. /\ ElementName(n).cut = 0
        /\ f.loader = "boot" => ElementName(n).elem \in Jar \cup Basics
    BY <1>1, <2>1, <2>2, LoadedIsKlass
  <2> QED
    BY <1>3, <2>3, <2>4
<1> QED
  BY <1>2, <1>6, <1>7, <1>8

\* The lower dimension of an array that is constructed, and that it has no higher one.
LEMMA LowerIsFree ==
  ASSUME LoadingAssumption, IInv, NEW t \in Threads, calls[t] # <<>>, Top(t).pc \in {"deps", "need"},
         ~(Top(t).pc = "need" /\ answer[t] = NoKlass), Top(t).todo = <<>>, Top(t).name.dim > 1
  PROVE  LET n == Top(t).name IN
           /\ LowerOf(t) \in 1 .. Len(klasses) /\ LowerOf(t) # NoKlass /\ ~n.dotted
           /\ klasses[LowerOf(t)].name = [n EXCEPT !.dim = n.dim - 1]
           /\ klasses[LowerOf(t)].higher = NoKlass
<1> DEFINE f == Top(t)
           n == Top(t).name
           needs == NeedsOf(Top(t).loader, Top(t).name)
           low == LowerOf(t)
<1>1. DataOK /\ StackInv /\ NamesInv /\ ProgressInv /\ MapsInv /\ KlassesInv
  BY DEF IInv
<1>2. n \in Names /\ n.dim \in Nat /\ n.cut \in Nat /\ n.elem \in Elements
  BY <1>1, TopIsFrame DEF Frames, Names
<1>3. /\ n.cut = 0 /\ Unloaded(f) /\ f.loader \in {"boot", "own"}
      /\ f.loader = "boot" => n.elem \in Jar \cup Basics
  BY ConstructsWhole
<1>4. Len(needs) > 0 /\ needs[Len(needs)] = LowerName(f.loader, n) /\ Len(needs) \in Nat
  BY <1>1, <1>2, ArrayNeeds, TopNeeds
<1>5. /\ Len(Loaded(t)) = Len(needs) /\ Loaded(t) \in Seq(Nat \cup {NoKlass})
      /\ LoadedBy(f.loader, needs[Len(needs)], Loaded(t)[Len(needs)])
  BY <1>4, LoadedAreNeeds
<1>6. low = Loaded(t)[Len(needs)]
  BY <1>4, <1>5 DEF LowerOf, Last
<1>7. LoadedBy(f.loader, LowerName(f.loader, n), low)
  BY <1>4, <1>5, <1>6
<1> HIDE DEF low
<1>8. low \in 1 .. Len(klasses) /\ low # NoKlass /\ klasses[low].name = Plain(LowerName(f.loader, n))
      /\ LowerName(f.loader, n).cut = 0
  BY <1>1, <1>7, LoadedIsKlass
<1>9. f.loader = "boot" /\ ~n.dotted /\ Plain(LowerName(f.loader, n)) = [n EXCEPT !.dim = n.dim - 1]
  <2>1. LowerName("own", n).cut = n.cut + 1
    BY <1>2 DEF LowerName, Names
  <2>2. f.loader = "boot"
    BY <1>2, <1>3, <1>8, <2>1
  <2>4. ~n.dotted
    BY <1>3, <2>2 DEF Unloaded
  <2>3. Plain(LowerName("boot", n)) = [n EXCEPT !.dim = n.dim - 1]
    <3> DEFINE m == [n EXCEPT !.dim = n.dim - 1]
    <3>1. m \in Names /\ m.cut = n.cut /\ m.dotted = n.dotted
      BY <1>2 DEF Names
    <3>2. LowerName("boot", n) = [m EXCEPT !.cut = n.cut + 0]
      BY DEF LowerName
    <3> HIDE DEF m
    <3>3. LowerName("boot", n) = m
      BY <1>2, <3>1, <3>2 DEF Names
    <3>4. Plain(m) = m
      BY <2>4, <3>1, PlainFacts
    <3> QED
      BY <3>3, <3>4 DEF m
  <2> QED
    BY <2>2, <2>3, <2>4
<1>10. ASSUME klasses[low].higher # NoKlass
       PROVE  FALSE
  <2> DEFINE h == klasses[low].higher
             o == klasses[h].name
  <2>1. h \in 1 .. Len(klasses) /\ klasses[h].lower = low
    BY <1>1, <1>8, <1>10 DEF KlassesInv
  <2>2. o.dim > 1 /\ klasses[low].name = [o EXCEPT !.dim = o.dim - 1]
    BY <1>1, <1>8, <2>1 DEF KlassesInv
  <2>3. o \in Names /\ o.dim \in Nat /\ ~klasses[h].anonymous
    <3>1. klasses[h] \in Klasses
      BY <1>1, <2>1, KlassFacts
    <3>2. o \in Names /\ o.dim \in Nat
      BY <3>1 DEF Klasses, Names
    <3>3. klasses[h].anonymous => o.dim = 0
      BY <1>1, <2>1 DEF MapsInv
    <3> QED
      BY <2>2, <3>2, <3>3
  <2>4. h \in Kept /\ h \notin anonymous /\ ~o.dotted
    BY <1>1, <2>1, <2>3 DEF MapsInv
  <2> HIDE DEF h
  <2>5. [o EXCEPT !.dim = o.dim - 1] = [n EXCEPT !.dim = n.dim - 1]
    BY <1>8, <1>9, <2>2
  <2>6. o.dim - 1 = n.dim - 1 /\ o.elem = n.elem /\ o.cut = n.cut
    BY <1>2, <2>3, <2>5 DEF Names
  <2>7. o = n
    BY <1>2, <1>9, <2>3, <2>4, <2>6 DEF Names
  <2>8. n \in DOMAIN system
    <3>1. CASE \E m \in DOMAIN system : system[m] = h
      BY <1>1, <2>7, <3>1 DEF MapsInv
    <3>2. CASE \E m \in DOMAIN classmap : classmap[m] = h
      <4>1. PICK m \in DOMAIN classmap : classmap[m] = h
        BY <3>2
      <4>2. m \in Names /\ Plain(m) = n /\ (IF m.dotted THEN m.dim = 0 ELSE m.elem \in Files \cup Anonymous)
        BY <1>1, <2>7, <4>1 DEF MapsInv, DataOK
      <4>3. ~m.dotted /\ m.elem = n.elem
        BY <2>2, <2>7, <4>2, PlainFacts
      <4> QED
        BY <1>3, <1>9, <4>2, <4>3 DEF LoadingAssumption
    <3> QED
      BY <2>4, <3>1, <3>2 DEF Kept
  <2> QED
    BY <1>3, <1>9, <2>8 DEF Unloaded
<1> QED
  BY <1>8, <1>9, <1>10 DEF low

\* Construct constructs a klass: the assertion never fails.
LEMMA ConstructKind ==
  ASSUME LoadingAssumption, IInv, NEW t \in Threads, Construct(t)
  PROVE  Constructs(t)
<1>1. /\ calls[t] # <<>> /\ Top(t).pc \in {"deps", "need"} /\ Top(t).todo = <<>>
      /\ ~(Top(t).pc = "need" /\ answer[t] = NoKlass)
  BY DEF Construct
<1>2. Top(t).name.dim \in Nat
  BY <1>1, TopIsFrame DEF IInv, Frames, Names
<1>3. LowerOf(t) # NoKlass => klasses[LowerOf(t)].higher = NoKlass
  <2>1. CASE Top(t).name.dim > 1
    BY <1>1, <2>1, LowerIsFree
  <2>2. CASE ~(Top(t).name.dim > 1)
    BY <2>2 DEF LowerOf
  <2> QED
    BY <2>1, <2>2
<1>4. /\ klasses' = Append(IF LowerOf(t) = NoKlass THEN klasses
                           ELSE Higher(klasses, LowerOf(t), Len(klasses) + 1), NewKlass(t))
      /\ IF Top(t).bytes = "anonymous"
           THEN anonymous' = anonymous \cup {Len(klasses) + 1} /\ UNCHANGED <<system, classmap>>
         ELSE IF Top(t).loader = "boot"
           THEN system' = Insert(system, Top(t).name, Len(klasses) + 1) /\ UNCHANGED <<classmap, anonymous>>
           ELSE classmap' = Insert(classmap, Top(t).name, Len(klasses) + 1) /\ UNCHANGED <<system, anonymous>>
      /\ Return(t, Len(klasses) + 1) /\ UNCHANGED fate
  BY <1>3 DEF Construct
<1>5. TopReturns(t, Len(klasses) + 1)
  BY <1>1, <1>4, ReturnEffect DEF IInv
<1> QED
  BY <1>1, <1>3, <1>4, <1>5 DEF Constructs

\* A request enters a loader with one call.
LEMMA EnterKind ==
  ASSUME LoadingAssumption, IInv, NEW t \in Threads,
         ForClassName(t) \/ Resolve(t) \/ FindLoadedClass(t) \/ FindBootStrapClass(t)
           \/ DefineClass(t) \/ DefineAnonymousClass(t)
  PROVE  Enters(t)
<1>1. ASSUME NEW loader \in Loaders, NEW n \in Names, NEW b \in {"none", "class", "anonymous"},
             Enter(t, Call(loader, n, b)), n.cut = 0,
             IF b = "anonymous" THEN loader = "own" /\ n.elem \in Anonymous /\ n.dim = 0 /\ ~n.dotted
             ELSE n.dim = 0 => n.elem \notin Basics,
             b = "class" \/ n.dotted => n.dim = 0, n.dotted => loader = "own",
             loader = "own" /\ b = "none" => ~n.dotted /\ (n.elem \in Anonymous => Made(n.elem))
      PROVE  Enters(t)
  <2> DEFINE c == Call(loader, n, b)
  <2>1. c \in Frames
    BY NewCall
  <2>2. calls \in [Threads -> Seq(Frames)] /\ calls' = [calls EXCEPT ![t] = <<c>>] /\ calls[t] = <<>>
    BY <1>1 DEF IInv, DataOK, Enter
  <2>3. c.loader = loader /\ c.name = n /\ c.bytes = b /\ c.pc = "lock" /\ n.dim \in Nat
    BY NewCall DEF Names
  <2> HIDE DEF c
  <2>4. /\ calls' \in [Threads -> Seq(Frames)] /\ \A u \in Threads \ {t} : calls'[u] = calls[u]
        /\ Len(calls'[t]) = 1 /\ calls'[t][1] = c
    BY <2>1, <2>2
  <2>5. Named(calls'[t])
    <3> DEFINE m == calls'[t]
    <3>1. Len(m) = 1 /\ m[1] = c
      BY <2>4
    <3> HIDE DEF m
    <3>2. Named(m)
      BY <1>1, <2>3, <3>1 DEF Named
    <3> QED
      BY <3>2 DEF m
  <2>6. Quiet /\ UNCHANGED <<answer, locks>>
    BY <1>1 DEF Enter, Quiet
  <2> QED
    BY <1>1, <2>2, <2>4, <2>5, <2>6 DEF Enters, c
<1>2. \A n \in Wanted : /\ n \in Names /\ n.cut = 0 /\ ~n.dotted
                        /\ n.dim = 0 => n.elem \notin Basics
  <2> SUFFICES ASSUME NEW n \in Wanted
               PROVE  /\ n \in Names /\ n.cut = 0 /\ ~n.dotted
                      /\ n.dim = 0 => n.elem \notin Basics
    OBVIOUS
  <2>1. n \in Names /\ Plain(n) = n /\ n.cut = 0 /\ (n.dim = 0 => n.elem \notin Basics)
    BY DEF LoadingAssumption
  <2> QED
    BY <2>1, PlainFacts
<1>3. \A n \in WantedClasses : n \in Wanted
  BY DEF WantedClasses
<1>4. CASE ForClassName(t)
  <2>1. PICK n \in Wanted : Enter(t, Call("boot", n, "none"))
    BY <1>4 DEF ForClassName
  <2> QED
    BY <1>1, <1>2, <2>1 DEF Loaders
<1>5. CASE Resolve(t)
  <2>1. PICK n \in Wanted : (n.elem \in Anonymous => Made(n.elem)) /\ Enter(t, Call("own", n, "none"))
    BY <1>5 DEF Resolve
  <2> QED
    BY <1>1, <1>2, <2>1 DEF Loaders
<1>6. CASE FindLoadedClass(t)
  <2>1. PICK n \in WantedClasses : Enter(t, Call("find", n, "none"))
    BY <1>6 DEF FindLoadedClass
  <2> QED
    BY <1>1, <1>2, <1>3, <2>1 DEF Loaders
<1>7. CASE FindBootStrapClass(t)
  <2>1. PICK n \in WantedClasses : Enter(t, Call("ask", n, "none"))
    BY <1>7 DEF FindBootStrapClass
  <2> QED
    BY <1>1, <1>2, <1>3, <2>1 DEF Loaders
<1>8. CASE DefineClass(t)
  <2>1. PICK e \in Elements \ Basics, dotted \in BOOLEAN :
          Enter(t, Call("own", [Name(e, 0) EXCEPT !.dotted = dotted], "class"))
    BY <1>8 DEF DefineClass
  <2> DEFINE n == [Name(e, 0) EXCEPT !.dotted = dotted]
  <2>2. n \in Names /\ n.elem = e /\ n.dim = 0 /\ n.cut = 0
    BY DEF Name, Names
  <2> HIDE DEF n
  <2>3. Enter(t, Call("own", n, "class"))
    BY <2>1 DEF n
  <2> QED
    BY <1>1, <2>2, <2>3 DEF Loaders
<1>9. CASE DefineAnonymousClass(t)
  <2>1. PICK e \in Anonymous : Enter(t, Call("own", Name(e, 0), "anonymous"))
    BY <1>9 DEF DefineAnonymousClass
  <2>2. e \in Elements
    BY DEF Elements
  <2> QED
    BY <1>1, <2>1, <2>2, NameFacts DEF Loaders
<1> QED
  BY <1>4, <1>5, <1>6, <1>7, <1>8, <1>9

\* Every step of a thread is of one of the kinds.
LEMMA StepKinds ==
  ASSUME LoadingAssumption, IInv, Next
  PROVE  \E t \in Threads :
           \/ Acquires(t) \/ Begins(t) \/ Asks(t) \/ Wants(t) \/ Constructs(t) \/ Enters(t) \/ Ends
           \/ \E r : Returns(t, r)
<1>1. PICK t \in Threads :
        \/ Step(t)
        \/ ForClassName(t) \/ Resolve(t) \/ FindLoadedClass(t) \/ FindBootStrapClass(t)
        \/ DefineClass(t) \/ DefineAnonymousClass(t)
  BY DEF Next
<1>2. CASE Step(t)
  BY <1>2, AcquireKind, BootLookKind, OwnLookKind, OwnAskedKind, LoadNeedKind, GiveUpKind,
     ConstructKind, FindKind, AnswerKind, FindBootKind DEF Step, IInv
<1> QED
  BY <1>1, <1>2, EnterKind

-----------------------------------------------------------------------------
(* The chain of calls.                                                      *)

\* The frame f stands for the same call as the frame g.
SameCall(f, g) == f.loader = g.loader /\ f.name = g.name /\ f.bytes = g.bytes

\* A chain stays one when its top call moves on.
LEMMA ChainedMoves ==
  ASSUME NEW s \in Seq(Frames), NEW m \in Seq(Frames), NEW f \in Frames, s # <<>>, Chained(s),
         Len(m) = Len(s), m[Len(s)] = f, \A i \in 1 .. Len(s) - 1 : m[i] = s[i],
         SameCall(f, s[Len(s)]), f.pc \in Pcs(f.loader)
  PROVE  Chained(m)
<1>1. Len(s) \in Nat \ {0}
  OBVIOUS
<1>2. \A i \in 1 .. Len(s) : SameCall(m[i], s[i])
  BY <1>1 DEF SameCall
<1> SUFFICES ASSUME NEW i \in 1 .. Len(m)
             PROVE  /\ m[i].pc \in Pcs(m[i].loader)
                    /\ i < Len(m) => /\ m[i].pc \in {"asked", "need"} /\ m[i + 1].loader = Callee(m[i]).loader
                                     /\ m[i + 1].name = Callee(m[i]).name /\ m[i + 1].bytes = "none"
                    /\ \A j \in i + 1 .. Len(m) :
                         /\ m[i].loader \in {"boot", "ask"} => m[j].loader = "boot"
                         /\ m[i].loader = m[j].loader => Before(m[j].name, m[i].name)
  BY DEF Chained
<1>3. m[i].pc \in Pcs(m[i].loader)
  BY <1>1 DEF Chained
<1>4. ASSUME i < Len(m)
      PROVE  /\ m[i].pc \in {"asked", "need"} /\ m[i + 1].loader = Callee(m[i]).loader
             /\ m[i + 1].name = Callee(m[i]).name /\ m[i + 1].bytes = "none"
  <2>1. m[i] = s[i] /\ i \in 1 .. Len(s) /\ i < Len(s) /\ SameCall(m[i + 1], s[i + 1])
    BY <1>1, <1>2, <1>4
  <2> QED
    BY <2>1 DEF Chained, SameCall
<1>5. ASSUME NEW j \in i + 1 .. Len(m)
      PROVE  /\ m[i].loader \in {"boot", "ask"} => m[j].loader = "boot"
             /\ m[i].loader = m[j].loader => Before(m[j].name, m[i].name)
  <2>1. i \in 1 .. Len(s) /\ j \in i + 1 .. Len(s) /\ SameCall(m[i], s[i]) /\ SameCall(m[j], s[j])
    BY <1>1, <1>2
  <2> QED
    BY <2>1 DEF Chained, SameCall
<1> QED
  BY <1>3, <1>4, <1>5

\* The call g keeps the order of the calls of s.
InOrder(s, g) ==
  \A i \in 1 .. Len(s) :
    /\ s[i].loader \in {"boot", "ask"} => g.loader = "boot"
    /\ s[i].loader = g.loader => Before(g.name, s[i].name)

\* A chain stays one when its top call calls.
LEMMA ChainedCalls ==
  ASSUME NEW s \in Seq(Frames), NEW m \in Seq(Frames), NEW f \in Frames, NEW g \in Frames,
         s # <<>>, Chained(s), Len(m) = Len(s) + 1, m[Len(s)] = f, m[Len(s) + 1] = g,
         \A i \in 1 .. Len(s) - 1 : m[i] = s[i],
         SameCall(f, s[Len(s)]), f.pc \in Pcs(f.loader), f.pc \in {"asked", "need"},
         g.loader = Callee(f).loader, g.name = Callee(f).name, g.bytes = "none", g.pc = "lock",
         InOrder(s, g)
  PROVE  Chained(m)
<1>1. Len(s) \in Nat \ {0}
  OBVIOUS
<1>2. \A i \in 1 .. Len(s) : SameCall(m[i], s[i])
  BY <1>1 DEF SameCall
<1> SUFFICES ASSUME NEW i \in 1 .. Len(m)
             PROVE  /\ m[i].pc \in Pcs(m[i].loader)
                    /\ i < Len(m) => /\ m[i].pc \in {"asked", "need"} /\ m[i + 1].loader = Callee(m[i]).loader
                                     /\ m[i + 1].name = Callee(m[i]).name /\ m[i + 1].bytes = "none"
                    /\ \A j \in i + 1 .. Len(m) :
                         /\ m[i].loader \in {"boot", "ask"} => m[j].loader = "boot"
                         /\ m[i].loader = m[j].loader => Before(m[j].name, m[i].name)
  BY DEF Chained
<1>3. m[i].pc \in Pcs(m[i].loader)
  <2>1. CASE i = Len(s) + 1
    BY <2>1 DEF Pcs
  <2>2. CASE i = Len(s)
    BY <2>2
  <2>3. CASE i < Len(s)
    BY <1>1, <2>3 DEF Chained
  <2> QED
    BY <1>1, <2>1, <2>2, <2>3
<1>4. ASSUME i < Len(m)
      PROVE  /\ m[i].pc \in {"asked", "need"} /\ m[i + 1].loader = Callee(m[i]).loader
             /\ m[i + 1].name = Callee(m[i]).name /\ m[i + 1].bytes = "none"
  <2>1. CASE i = Len(s)
    BY <2>1
  <2>2. CASE i < Len(s)
    <3>1. m[i] = s[i] /\ i \in 1 .. Len(s) /\ SameCall(m[i + 1], s[i + 1])
      BY <1>1, <1>2, <2>2
    <3> QED
      BY <3>1, <2>2 DEF Chained, SameCall
  <2> QED
    BY <1>1, <1>4, <2>1, <2>2
<1>5. ASSUME NEW j \in i + 1 .. Len(m)
      PROVE  /\ m[i].loader \in {"boot", "ask"} => m[j].loader = "boot"
             /\ m[i].loader = m[j].loader => Before(m[j].name, m[i].name)
  <2>1. i \in 1 .. Len(s) /\ SameCall(m[i], s[i])
    BY <1>1, <1>2
  <2>2. CASE j = Len(s) + 1
    BY <2>1, <2>2 DEF SameCall, InOrder
  <2>3. CASE j < Len(s) + 1
    <3>1. j \in i + 1 .. Len(s) /\ SameCall(m[j], s[j])
      BY <1>1, <1>2, <2>3
    <3> QED
      BY <2>1, <3>1 DEF Chained, SameCall
  <2> QED
    BY <1>1, <2>2, <2>3
<1> QED
  BY <1>3, <1>4, <1>5

\* A chain stays one when its top call returns.
LEMMA ChainedReturns ==
  ASSUME NEW s \in Seq(Frames), NEW m \in Seq(Frames), s # <<>>, Chained(s),
         Len(m) = Len(s) - 1, \A i \in 1 .. Len(s) - 1 : m[i] = s[i]
  PROVE  Chained(m)
<1>1. Len(s) \in Nat \ {0}
  OBVIOUS
<1> SUFFICES ASSUME NEW i \in 1 .. Len(m)
             PROVE  /\ m[i].pc \in Pcs(m[i].loader)
                    /\ i < Len(m) => /\ m[i].pc \in {"asked", "need"} /\ m[i + 1].loader = Callee(m[i]).loader
                                     /\ m[i + 1].name = Callee(m[i]).name /\ m[i + 1].bytes = "none"
                    /\ \A j \in i + 1 .. Len(m) :
                         /\ m[i].loader \in {"boot", "ask"} => m[j].loader = "boot"
                         /\ m[i].loader = m[j].loader => Before(m[j].name, m[i].name)
  BY DEF Chained
<1>2. i \in 1 .. Len(s) /\ i < Len(s) /\ m[i] = s[i]
  BY <1>1
<1>3. i < Len(m) => m[i + 1] = s[i + 1]
  BY <1>1
<1>4. \A j \in i + 1 .. Len(m) : j \in i + 1 .. Len(s) /\ m[j] = s[j]
  BY <1>1
<1> QED
  BY <1>2, <1>3, <1>4 DEF Chained

\* One call is a chain.
LEMMA ChainedEnters ==
  ASSUME NEW m \in Seq(Frames), Len(m) = 1, m[1].pc = "lock"
  PROVE  Chained(m)
  BY DEF Chained, Pcs

\* What the calls below the top call of a chain are.
LEMMA BelowTop ==
  ASSUME NEW s \in Seq(Frames), Chained(s), NEW i \in 1 .. Len(s), i < Len(s)
  PROVE  /\ s[i].loader # "map" /\ s[Len(s)].loader \notin {"find", "ask"}
         /\ s[i].loader \in {"boot", "ask"} => s[Len(s)].loader = "boot"
         /\ s[i].loader = s[Len(s)].loader => Before(s[Len(s)].name, s[i].name)
         /\ i > 1 => s[i].loader \notin {"find", "ask"}
<1>1. Len(s) \in Nat \ {0}
  OBVIOUS
<1>2. s[i].pc \in Pcs(s[i].loader) /\ s[i].pc \in {"asked", "need"}
  BY DEF Chained
<1>3. s[i].loader # "map"
  BY <1>2 DEF Pcs
<1>4. /\ s[i].loader \in {"boot", "ask"} => s[Len(s)].loader = "boot"
      /\ s[i].loader = s[Len(s)].loader => Before(s[Len(s)].name, s[i].name)
  <2>1. Len(s) \in i + 1 .. Len(s)
    BY <1>1
  <2> QED
    BY <2>1 DEF Chained
<1>5. ASSUME NEW j \in 2 .. Len(s)
      PROVE  s[j].loader \notin {"find", "ask"}
  <2>1. j - 1 \in 1 .. Len(s) /\ j - 1 < Len(s) /\ (j - 1) + 1 = j
    BY <1>1
  <2>2. /\ s[j - 1].pc \in Pcs(s[j - 1].loader) /\ s[j - 1].pc \in {"asked", "need"}
        /\ s[j].loader = Callee(s[j - 1]).loader
    BY <2>1 DEF Chained
  <2>3. s[j - 1].pc = "need" => s[j - 1].loader \notin {"find", "ask"}
    BY <2>2 DEF Pcs
  <2> QED
    BY <2>2, <2>3 DEF Callee
<1> QED
  BY <1>1, <1>3, <1>4, <1>5

\* The frame a top call becomes stands for the same call.
LEMMA MovedTop ==
  ASSUME DataOK, NEW t \in Threads, calls[t] # <<>>, NEW p \in {"look", "asked"}
  PROVE  LET f == [Top(t) EXCEPT !.pc = p] IN
           /\ f \in Frames /\ SameCall(f, Top(t)) /\ f.pc = p /\ f.got = Top(t).got
           /\ f.loader = Top(t).loader /\ f.name = Top(t).name
<1>1. Top(t) \in Frames
  BY TopIsFrame
<1> QED
  BY <1>1 DEF SameCall, Frames

LEMMA BegunTop ==
  ASSUME DataOK, NEW t \in Threads, calls[t] # <<>>
  PROVE  LET f == Begun(Top(t)) IN
           /\ SameCall(f, Top(t)) /\ f.pc = "deps" /\ f.got = Top(t).got
           /\ f.todo = NeedsOf(Top(t).loader, Top(t).name)
           /\ f.loader = Top(t).loader /\ f.name = Top(t).name /\ f.bytes = Top(t).bytes
<1>1. Top(t) \in Frames
  BY TopIsFrame
<1> QED
  BY <1>1 DEF SameCall, Begun, Frames

LEMMA WantingTop ==
  ASSUME DataOK, NEW t \in Threads, calls[t] # <<>>, NEW got
  PROVE  LET f == Wanting(Top(t), got)
             needs == NeedsOf(Top(t).loader, Top(t).name) IN
           /\ SameCall(f, Top(t)) /\ f.pc = "need" /\ f.got = got
           /\ f.todo = SubSeq(needs, Len(got) + 2, Len(needs))
           /\ f.loader = Top(t).loader /\ f.name = Top(t).name /\ f.bytes = Top(t).bytes
<1>1. Top(t) \in Frames
  BY TopIsFrame
<1> QED
  BY <1>1 DEF SameCall, Wanting, Frames

\* No step breaks a chain of calls.
LEMMA StackStep ==
  ASSUME LoadingAssumption, IInv, NEW t \in Threads,
         \/ Acquires(t) \/ Begins(t) \/ Asks(t) \/ Wants(t) \/ Enters(t)
         \/ \E r : TopReturns(t, r)
  PROVE  StackInv'
<1> DEFINE s == calls[t]
           m == calls'[t]
<1>1. DataOK /\ StackInv /\ NamesInv /\ ProgressInv
  BY DEF IInv
<1>2. Chained(s) /\ s \in Seq(Frames)
  BY <1>1 DEF StackInv, DataOK
<1>3. SUFFICES Chained(m)
  <2>1. \A u \in Threads \ {t} : calls'[u] = calls[u] /\ Chained(calls[u])
    BY <1>1 DEF StackInv, Acquires, Begins, Asks, Wants, Enters, TopBecomes, TopCalls, TopReturns, OthersKeep
  <2>2. \A u \in Threads \ {t} : Chained(calls'[u])
    BY <2>1
  <2>3. \A u \in Threads : Chained(calls'[u])
    BY <1>3, <2>2
  <2> QED
    BY <2>3 DEF StackInv, Chained, Callee, NeedsOf, Before, Height, Pcs
<1>4. CASE Acquires(t)
  <2> DEFINE f == [Top(t) EXCEPT !.pc = "look"]
  <2>1. TopBecomes(t, f)
    BY <1>4 DEF Acquires
  <2>2. /\ s # <<>> /\ m \in Seq(Frames) /\ Len(m) = Len(s) /\ m[Len(s)] = f
        /\ \A i \in 1 .. Len(s) - 1 : m[i] = s[i]
    BY <2>1 DEF TopBecomes, OthersKeep
  <2>3. f \in Frames /\ SameCall(f, Top(t)) /\ f.pc = "look"
    BY <1>1, <2>2, MovedTop
  <2>4. SameCall(f, s[Len(s)])
    BY <1>1, <2>2, <2>3, TopIsFrame
  <2>5. f.pc \in Pcs(f.loader)
    BY <2>3 DEF Pcs, Frames, Loaders
  <2> HIDE DEF f
  <2> QED
    BY <1>2, <2>2, <2>3, <2>4, <2>5, ChainedMoves
<1>5. CASE Begins(t)
  <2> DEFINE f == Begun(Top(t))
  <2>1. TopBecomes(t, f) /\ Top(t).loader \in {"boot", "own"}
    BY <1>5 DEF Begins
  <2>2. /\ s # <<>> /\ m \in Seq(Frames) /\ Len(m) = Len(s) /\ m[Len(s)] = f
        /\ \A i \in 1 .. Len(s) - 1 : m[i] = s[i]
    BY <2>1 DEF TopBecomes, OthersKeep
  <2>3. SameCall(f, Top(t)) /\ f.pc = "deps" /\ f.loader = Top(t).loader
    BY <1>1, <2>2, BegunTop
  <2>6. SameCall(f, s[Len(s)])
    BY <1>1, <2>2, <2>3, TopIsFrame
  <2>4. f \in Frames
    <3>1. Len(s) \in 1 .. Len(m)
      BY <1>2, <2>2
    <3> QED
      BY <2>2, <3>1
  <2>5. f.pc \in Pcs(f.loader)
    BY <2>1, <2>3 DEF Pcs
  <2> HIDE DEF f
  <2> QED
    BY <1>2, <2>2, <2>4, <2>5, <2>6, ChainedMoves
<1>6. CASE Asks(t)
  <2> DEFINE f == [Top(t) EXCEPT !.pc = "asked"]
             g == Call(AskedLoader(Top(t)), Top(t).name, "none")
  <2>1. TopCalls(t, f, g) /\ Top(t).loader \in {"own", "find", "ask"}
    BY <1>6 DEF Asks
  <2>2. /\ s # <<>> /\ m \in Seq(Frames) /\ Len(m) = Len(s) + 1 /\ m[Len(s)] = f /\ m[Len(s) + 1] = g
        /\ \A i \in 1 .. Len(s) - 1 : m[i] = s[i]
    BY <2>1 DEF TopCalls, OthersKeep
  <2>9. s[Len(s)] = Top(t) /\ Len(s) \in Nat \ {0}
    BY <1>1, <2>2, TopIsFrame
  <2>10. SameCall(f, Top(t)) /\ f.pc = "asked" /\ f.loader = Top(t).loader /\ f.name = Top(t).name
    BY <1>1, <2>2, MovedTop
  <2>3. /\ SameCall(f, s[Len(s)]) /\ f.pc = "asked" /\ f.loader = Top(t).loader /\ f.name = Top(t).name
        /\ s[Len(s)] = Top(t) /\ Len(s) \in Nat \ {0}
    BY <2>9, <2>10
  <2>4. f \in Frames /\ g \in Frames
    BY <2>2, <2>3
  <2>5. g.loader = AskedLoader(Top(t)) /\ g.name = Top(t).name /\ g.bytes = "none" /\ g.pc = "lock"
    BY DEF Call
  <2>6. f.pc \in Pcs(f.loader)
    BY <2>1, <2>3 DEF Pcs
  <2> HIDE DEF f, g
  <2>7. g.loader = Callee(f).loader /\ g.name = Callee(f).name
    BY <2>3, <2>5 DEF Callee, AskedLoader
  <2>8. ASSUME NEW i \in 1 .. Len(s)
        PROVE  /\ s[i].loader \in {"boot", "ask"} => g.loader = "boot"
               /\ s[i].loader = g.loader => Before(g.name, s[i].name)
    <3>1. CASE i = Len(s)
      BY <2>1, <2>3, <2>5, <3>1 DEF AskedLoader
    <3>2. CASE i < Len(s)
      BY <1>2, <2>1, <2>3, <2>5, <3>2, BelowTop DEF AskedLoader
    <3> QED
      BY <2>3, <3>1, <3>2
  <2>11. InOrder(s, g)
    BY <2>8 DEF InOrder
  <2> QED
    BY SMTT(30), <1>2, <2>2, <2>3, <2>4, <2>5, <2>6, <2>7, <2>11, ChainedCalls
<1>7. CASE Wants(t)
  <2> DEFINE needs == NeedsOf(Top(t).loader, Top(t).name)
             k == Len(Loaded(t)) + 1
             f == Wanting(Top(t), Loaded(t))
             g == Call(Top(t).loader, needs[k], "none")
  <2>1. TopCalls(t, f, g) /\ Len(Loaded(t)) < Len(needs) /\ Top(t).pc \in {"deps", "need"}
    BY <1>7 DEF Wants
  <2>2. /\ s # <<>> /\ m \in Seq(Frames) /\ Len(m) = Len(s) + 1 /\ m[Len(s)] = f /\ m[Len(s) + 1] = g
        /\ \A i \in 1 .. Len(s) - 1 : m[i] = s[i]
    BY <2>1 DEF TopCalls, OthersKeep
  <2>10. s[Len(s)] = Top(t) /\ Len(s) \in Nat \ {0}
    BY <1>1, <2>2, TopIsFrame
  <2>11. /\ SameCall(f, Top(t)) /\ f.pc = "need" /\ f.loader = Top(t).loader /\ f.name = Top(t).name
         /\ f.got = Loaded(t)
    BY <1>1, <2>2, WantingTop
  <2>3. /\ SameCall(f, s[Len(s)]) /\ f.pc = "need" /\ f.loader = Top(t).loader /\ f.name = Top(t).name
        /\ f.got = Loaded(t) /\ s[Len(s)] = Top(t) /\ Len(s) \in Nat \ {0}
    BY <2>10, <2>11
  <2>4. f \in Frames /\ g \in Frames /\ f.got \in Seq(Nat \cup {NoKlass})
    <3>1. f \in Frames /\ g \in Frames
      BY <2>2, <2>3
    <3> QED
      BY <3>1 DEF Frames
  <2>5. g.loader = Top(t).loader /\ g.name = needs[k] /\ g.bytes = "none" /\ g.pc = "lock"
    BY DEF Call
  <2>6. Top(t).loader \in {"boot", "own"} /\ f.pc \in Pcs(f.loader)
    BY <1>1, <2>1, <2>2, <2>3, TopIsRight DEF Pcs
  <2>7. /\ needs[k] \in Names /\ Before(needs[k], Top(t).name) /\ Top(t).name \in Names
    <3>1. Len(Loaded(t)) \in Nat
      BY <2>3, <2>4
    <3>2. k \in 1 .. Len(needs)
      BY <1>1, <2>1, <2>2, <3>1, TopNeeds
    <3> QED
      BY <1>1, <2>2, <3>2, TopNeeds
  <2>8. g.loader = Callee(f).loader /\ g.name = Callee(f).name
    BY <2>3, <2>5 DEF Callee
  <2> HIDE DEF f, g, needs, k
  <2>9. ASSUME NEW i \in 1 .. Len(s)
        PROVE  /\ s[i].loader \in {"boot", "ask"} => g.loader = "boot"
               /\ s[i].loader = g.loader => Before(g.name, s[i].name)
    <3>1. CASE i = Len(s)
      BY <2>3, <2>5, <2>6, <2>7, <3>1
    <3>2. CASE i < Len(s)
      <4>1. /\ s[i].loader \in {"boot", "ask"} => Top(t).loader = "boot"
            /\ s[i].loader = Top(t).loader => Before(Top(t).name, s[i].name)
        BY <1>2, <2>3, <3>2, BelowTop
      <4>3. s[i] \in Frames
        BY <1>2
      <4>2. s[i].name \in Names
        BY <4>3 DEF Frames
      <4> QED
        BY <2>5, <2>7, <4>1, <4>2, BeforeOrders
    <3> QED
      BY <2>3, <3>1, <3>2
  <2>12. InOrder(s, g)
    BY <2>9 DEF InOrder
  <2>13. f.pc \in {"asked", "need"}
    BY <2>3
  <2>14. SameCall(f, s[Len(s)])
    BY <2>3
  <2> HIDE DEF s, m
  <2> QED
    BY <1>2, <2>2, <2>4, <2>5, <2>6, <2>8, <2>12, <2>13, <2>14, ChainedCalls
<1>8. CASE Enters(t)
  <2>1. m \in Seq(Frames) /\ Len(m) = 1 /\ m[1].pc = "lock"
    BY <1>8 DEF Enters, Call
  <2> QED
    BY <2>1, ChainedEnters
<1>9. CASE \E r : TopReturns(t, r)
  <2>1. /\ s # <<>> /\ m \in Seq(Frames) /\ Len(m) = Len(s) - 1
        /\ \A i \in 1 .. Len(s) - 1 : m[i] = s[i]
    BY <1>9 DEF TopReturns, OthersKeep
  <2> QED
    BY <1>2, <2>1, ChainedReturns
<1> QED
  BY <1>4, <1>5, <1>6, <1>7, <1>8, <1>9

-----------------------------------------------------------------------------
(* The names of the calls.                                                  *)

\* The call g, without bytes, may be made by a thread whose first call is b.
Fits(b, g) ==
  /\ g.name.dim = 0 => g.name.elem \notin Basics
  /\ g.name.dotted => g.name.dim = 0 /\ g.name.cut = 0 /\ b.loader = "own"
  /\ g.name.cut > 0 => /\ g.name.elem \in Files \cup Anonymous /\ b.name.elem = g.name.elem
                       /\ b.name.dim > 1
  /\ g.name.dim > 0 => b.name.elem = g.name.elem /\ b.name.dim >= g.name.dim
  /\ g.loader = "own" => /\ ~g.name.dotted
                         /\ g.name.elem \in Anonymous => Made(g.name.elem) /\ b.name.elem = g.name.elem

\* The names stay well when the top call moves on.
LEMMA NamedMoves ==
  ASSUME NEW s \in Seq(Frames), NEW m \in Seq(Frames), NEW f \in Frames, s # <<>>, Named(s),
         Len(m) = Len(s), m[Len(s)] = f, \A i \in 1 .. Len(s) - 1 : m[i] = s[i],
         SameCall(f, s[Len(s)]), f.bytes = "anonymous" => f.pc # "asked"
  PROVE  Named(m)
<1>1. Len(s) \in Nat \ {0}
  OBVIOUS
<1>2. \A i \in 1 .. Len(s) : SameCall(m[i], s[i]) /\ (m[i].bytes = "anonymous" => m[i].pc # "asked")
  BY <1>1 DEF SameCall, Named
<1>3. SameCall(m[1], s[1])
  BY <1>1, <1>2
<1> QED
  BY <1>1, <1>2, <1>3 DEF Named, SameCall

\* The names stay well when the top call calls for a name that fits.
LEMMA NamedCalls ==
  ASSUME NEW s \in Seq(Frames), NEW m \in Seq(Frames), NEW f \in Frames, NEW g \in Frames,
         s # <<>>, Named(s), Len(m) = Len(s) + 1, m[Len(s)] = f, m[Len(s) + 1] = g,
         \A i \in 1 .. Len(s) - 1 : m[i] = s[i],
         SameCall(f, s[Len(s)]), f.bytes = "anonymous" => f.pc # "asked",
         g.bytes = "none", Fits(s[1], g)
  PROVE  Named(m)
<1>1. Len(s) \in Nat \ {0}
  OBVIOUS
<1>2. \A i \in 1 .. Len(s) : SameCall(m[i], s[i]) /\ (m[i].bytes = "anonymous" => m[i].pc # "asked")
  BY <1>1 DEF SameCall, Named
<1>3. SameCall(m[1], s[1])
  BY <1>1, <1>2
<1>4. \A i \in 1 .. Len(m) : i \in 1 .. Len(s) \/ m[i] = g
  BY <1>1
<1> QED
  BY <1>1, <1>2, <1>3, <1>4 DEF Named, SameCall, Fits

\* The names stay well when the top call returns.
LEMMA NamedReturns ==
  ASSUME NEW s \in Seq(Frames), NEW m \in Seq(Frames), s # <<>>, Named(s),
         Len(m) = Len(s) - 1, \A i \in 1 .. Len(s) - 1 : m[i] = s[i]
  PROVE  Named(m)
<1>1. Len(s) \in Nat \ {0}
  OBVIOUS
<1>2. \A i \in 1 .. Len(m) : i \in 1 .. Len(s) /\ m[i] = s[i] /\ m[1] = s[1]
  BY <1>1
<1> QED
  BY <1>2 DEF Named

\* The names of a thread's calls stay well: no step loads a name that is not there, or cuts one
\* of another kind.
LEMMA NamesStep ==
  ASSUME LoadingAssumption, IInv, NEW t \in Threads,
         \/ Acquires(t) \/ Begins(t) \/ Asks(t) \/ Wants(t) \/ Enters(t)
         \/ \E r : TopReturns(t, r)
  PROVE  \A u \in Threads : Named(calls'[u])
<1> DEFINE s == calls[t]
           m == calls'[t]
<1>1. DataOK /\ StackInv /\ NamesInv /\ ProgressInv
  BY DEF IInv
<1>2. Named(s) /\ s \in Seq(Frames)
  BY <1>1 DEF NamesInv, DataOK
<1>3. SUFFICES Named(m)
  <2>1. \A u \in Threads \ {t} : calls'[u] = calls[u] /\ Named(calls[u])
    BY <1>1 DEF NamesInv, Acquires, Begins, Asks, Wants, Enters, TopBecomes, TopCalls, TopReturns, OthersKeep
  <2> QED
    BY <1>3, <2>1
<1>4. CASE Acquires(t)
  <2> DEFINE f == [Top(t) EXCEPT !.pc = "look"]
  <2>1. TopBecomes(t, f)
    BY <1>4 DEF Acquires
  <2>2. /\ s # <<>> /\ m \in Seq(Frames) /\ Len(m) = Len(s) /\ m[Len(s)] = f
        /\ \A i \in 1 .. Len(s) - 1 : m[i] = s[i]
    BY <2>1 DEF TopBecomes, OthersKeep
  <2>3. f \in Frames /\ SameCall(f, Top(t)) /\ f.pc = "look"
    BY <1>1, <2>2, MovedTop
  <2>4. SameCall(f, s[Len(s)]) /\ (f.bytes = "anonymous" => f.pc # "asked")
    BY <1>1, <2>2, <2>3, TopIsFrame
  <2> HIDE DEF f, s, m
  <2> QED
    BY <1>2, <2>2, <2>3, <2>4, NamedMoves
<1>5. CASE Begins(t)
  <2> DEFINE f == Begun(Top(t))
  <2>1. TopBecomes(t, f)
    BY <1>5 DEF Begins
  <2>2. /\ s # <<>> /\ m \in Seq(Frames) /\ Len(m) = Len(s) /\ m[Len(s)] = f
        /\ \A i \in 1 .. Len(s) - 1 : m[i] = s[i]
    BY <2>1 DEF TopBecomes, OthersKeep
  <2>3. SameCall(f, Top(t)) /\ f.pc = "deps"
    BY <1>1, <2>2, BegunTop
  <2>4. SameCall(f, s[Len(s)]) /\ (f.bytes = "anonymous" => f.pc # "asked") /\ Len(s) \in 1 .. Len(m)
    BY <1>1, <2>2, <2>3, TopIsFrame
  <2>5. f \in Frames
    BY <2>2, <2>4
  <2> HIDE DEF f, s, m
  <2> QED
    BY <1>2, <2>2, <2>4, <2>5, NamedMoves
<1>6. CASE Asks(t)
  <2> DEFINE f == [Top(t) EXCEPT !.pc = "asked"]
             g == Call(AskedLoader(Top(t)), Top(t).name, "none")
  <2>1. TopCalls(t, f, g) /\ Top(t).bytes # "anonymous"
    BY <1>6 DEF Asks
  <2>2. /\ s # <<>> /\ m \in Seq(Frames) /\ Len(m) = Len(s) + 1 /\ m[Len(s)] = f /\ m[Len(s) + 1] = g
        /\ \A i \in 1 .. Len(s) - 1 : m[i] = s[i]
    BY <2>1 DEF TopCalls, OthersKeep
  <2>3. s[Len(s)] = Top(t) /\ Len(s) \in Nat \ {0}
    BY <1>1, <2>2, TopIsFrame
  <2>4. f \in Frames /\ SameCall(f, s[Len(s)]) /\ f.bytes # "anonymous"
    <3>1. f \in Frames /\ SameCall(f, Top(t))
      BY <1>1, <2>2, MovedTop
    <3> QED
      BY <2>1, <2>3, <3>1 DEF SameCall
  <2>5. /\ g.bytes = "none" /\ g.name = Top(t).name /\ g.loader # "own"
        /\ Len(s) + 1 \in 1 .. Len(m)
    BY <2>2, <2>3 DEF Call, AskedLoader
  <2>6. g \in Frames
    BY <2>2, <2>5
  <2> HIDE DEF f, g, m
  <2>7. Fits(s[1], g)
    BY <1>1, <2>1, <2>2, <2>5, TopIsRight DEF Fits
  <2> HIDE DEF s
  <2> QED
    BY <1>2, <2>2, <2>4, <2>5, <2>6, <2>7, NamedCalls
<1>7. CASE Wants(t)
  <2> DEFINE n == Top(t).name
             needs == NeedsOf(Top(t).loader, n)
             k == Len(Loaded(t)) + 1
             f == Wanting(Top(t), Loaded(t))
             g == Call(Top(t).loader, needs[k], "none")
  <2>1. TopCalls(t, f, g) /\ Len(Loaded(t)) < Len(needs) /\ Top(t).pc \in {"deps", "need"}
    BY <1>7 DEF Wants
  <2>2. /\ s # <<>> /\ m \in Seq(Frames) /\ Len(m) = Len(s) + 1 /\ m[Len(s)] = f /\ m[Len(s) + 1] = g
        /\ \A i \in 1 .. Len(s) - 1 : m[i] = s[i]
    BY <2>1 DEF TopCalls, OthersKeep
  <2>3. s[Len(s)] = Top(t) /\ Len(s) \in Nat \ {0}
    BY <1>1, <2>2, TopIsFrame
  <2>4. SameCall(f, Top(t)) /\ f.pc = "need" /\ f.got = Loaded(t)
    BY <1>1, <2>2, WantingTop
  <2>5. f \in Frames /\ g \in Frames
    <3>1. Len(s) \in 1 .. Len(m) /\ Len(s) + 1 \in 1 .. Len(m)
      BY <2>2, <2>3
    <3> QED
      BY <2>2, <3>1
  <2>6. /\ g.bytes = "none" /\ g.name = needs[k] /\ g.loader = Top(t).loader
        /\ f.bytes = "anonymous" => f.pc # "asked"
    BY <2>4 DEF Call
  <2>7. k \in 1 .. Len(needs) /\ n \in Names /\ (n.dim = 0 => n.elem \notin Basics)
    <3>1. Loaded(t) \in Seq(Nat \cup {NoKlass})
      BY <2>4, <2>5 DEF Frames
    <3>2. Len(Loaded(t)) \in Nat
      BY <3>1
    <3> QED
      BY <1>1, <2>1, <2>2, <3>2, TopNeeds
  <2>8. LET o == needs[k] IN
          /\ o.dim = 0 => o.elem \notin Basics
          /\ IF n.dim = 0 THEN o.dim = 0 /\ o.cut = 0 /\ ~o.dotted /\ o.elem \in Jar \cup Files
             ELSE o.elem = n.elem /\ o.dim < n.dim /\ (o.dotted <=> n.dotted)
          /\ o.cut > 0 => n.cut > 0 \/ (Top(t).loader = "own" /\ n.dim > 1)
    <3> DEFINE loader == Top(t).loader
    <3>1. k \in 1 .. Len(NeedsOf(loader, n)) /\ n \in Names /\ (n.dim = 0 => n.elem \notin Basics)
      BY <2>7
    <3> HIDE DEF k, n, loader
    <3>2. Needed(NeedsOf(loader, n)[k], n, loader)
      BY <3>1, NeedsAreThere
    <3> QED
      BY <3>2 DEF n, loader, Needed
  <2>9. /\ Unloaded(Top(t)) /\ (Top(t).bytes = "anonymous" => n.dim = 0)
        /\ Top(t).bytes = "class" \/ n.dotted => n.dim = 0
        /\ n.cut > 0 => n.elem \in Files \cup Anonymous /\ s[1].name.elem = n.elem /\ s[1].name.dim > 1
        /\ n.dim > 0 => s[1].name.elem = n.elem /\ s[1].name.dim >= n.dim
        /\ Top(t).loader = "own" /\ Top(t).bytes = "none" => (n.elem \in Anonymous => Made(n.elem))
    BY <1>1, <2>1, <2>2, TopIsRight
  <2>10. s[1] \in Frames /\ needs[k] \in Names /\ Top(t) \in Frames
    BY <1>1, <1>2, <2>2, <2>3, <2>7, TopNeeds, TopIsFrame
  <2>11. /\ s[1].name.dim \in Nat /\ n.dim \in Nat /\ needs[k].dim \in Nat /\ needs[k].cut \in Nat
         /\ Top(t).bytes \in {"none", "class", "anonymous"}
    BY <2>7, <2>10 DEF Frames, Names
  <2>12. Top(t).loader = "own" /\ n.dim > 1 => n.elem \in Files \cup Anonymous
    BY <2>9, <2>11 DEF Unloaded
  <2>15. Top(t).loader = "own" /\ n.dim > 0 /\ n.elem \in Anonymous => Made(n.elem)
    BY <2>9, <2>11
  <2>16. Anonymous \cap (Jar \cup Files) = {}
    BY DEF LoadingAssumption
  <2>13. SameCall(f, s[Len(s)])
    BY <2>3, <2>4
  <2> HIDE DEF f, g, m, needs, k, n, s
  <2>14. Fits(s[1], g)
    <3>1. CASE n.dim = 0
      BY <2>6, <2>8, <2>11, <2>16, <3>1 DEF Fits
    <3>2. CASE n.dim > 0
      BY <2>6, <2>8, <2>9, <2>11, <2>12, <2>15, <3>2 DEF Fits
    <3> QED
      BY <2>11, <3>1, <3>2
  <2> QED
    BY <1>2, <2>2, <2>5, <2>6, <2>13, <2>14, NamedCalls
<1>8. CASE Enters(t)
  BY <1>8 DEF Enters
<1>9. CASE \E r : TopReturns(t, r)
  <2>1. /\ s # <<>> /\ m \in Seq(Frames) /\ Len(m) = Len(s) - 1
        /\ \A i \in 1 .. Len(s) - 1 : m[i] = s[i]
    BY <1>9 DEF TopReturns, OthersKeep
  <2> QED
    BY <1>2, <2>1, NamedReturns
<1> QED
  BY <1>4, <1>5, <1>6, <1>7, <1>8, <1>9

\* The names of all calls stay well, for no klass loses its name.
LEMMA NamesFrom ==
  ASSUME \A u \in Threads : Named(calls'[u]),
         \A k \in 1 .. Len(klasses) : k \in 1 .. Len(klasses') /\ klasses'[k].name = klasses[k].name
  PROVE  NamesInv'
<1>1. ASSUME NEW e, Made(e)
      PROVE  \E k \in 1 .. Len(klasses') : klasses'[k].name = Name(e, 0)
  BY <1>1 DEF Made
<1> QED
  BY <1>1 DEF NamesInv, Named, Made

-----------------------------------------------------------------------------
(* The locks.                                                               *)

\* The lock of a loader is one of two, and a set of calls that hold one is finite.
LEMMA HeldIsFinite ==
  ASSUME DataOK, NEW t \in Threads, NEW k
  PROVE  IsFiniteSet(Held(t, k)) /\ Cardinality(Held(t, k)) \in Nat
<1>1. Len(calls[t]) \in Nat
  BY CallIsFrame
<1>2. IsFiniteSet(1 .. Len(calls[t]))
  BY <1>1, FS_Interval
<1>3. Held(t, k) \subseteq 1 .. Len(calls[t])
  BY DEF Held
<1> QED
  BY <1>2, <1>3, FS_Subset, FS_CardinalityType

LEMMA LockIsOne ==
  ASSUME NEW loader
  PROVE  LockOf(loader) \in {"system", "own"}
  BY DEF LockOf

\* The other threads hold what they held.
LEMMA OthersHold ==
  ASSUME NEW t \in Threads, NEW u \in Threads \ {t}, calls'[u] = calls[u], NEW k
  PROVE  Held(u, k)' = Held(u, k)
  BY DEF Held

\* A call moves on from a pc where it has its lock, or calls, or enters: no lock is taken.
LEMMA HeldStays ==
  ASSUME DataOK, NEW t \in Threads, Begins(t) \/ Asks(t) \/ Wants(t) \/ Enters(t), NEW k
  PROVE  Held(t, k)' = Held(t, k)
<1> DEFINE s == calls[t]
           m == calls'[t]
<1>1. Len(s) \in Nat /\ s \in Seq(Frames)
  BY CallIsFrame
<1>2. CASE Enters(t)
  <2>1. Len(m) = 1 /\ m[1].pc = "lock" /\ s = <<>>
    BY <1>2 DEF Enters, Call
  <2>2. \A i : i \notin Held(t, k) /\ i \notin Held(t, k)'
    BY <2>1 DEF Held
  <2> QED
    BY <2>2
<1>3. CASE Begins(t)
  <2> DEFINE f == Begun(Top(t))
  <2>1. /\ s # <<>> /\ Len(m) = Len(s) /\ m[Len(s)] = f /\ \A i \in 1 .. Len(s) - 1 : m[i] = s[i]
        /\ Top(t).pc # "lock"
    BY <1>3 DEF Begins, TopBecomes, OthersKeep
  <2>2. f.loader = Top(t).loader /\ f.pc # "lock" /\ s[Len(s)] = Top(t)
    BY <2>1, BegunTop, TopIsFrame
  <2> HIDE DEF f
  <2>3. \A i \in 1 .. Len(s) : (m[i].pc # "lock" <=> s[i].pc # "lock") /\ m[i].loader = s[i].loader
    BY <1>1, <2>1, <2>2
  <2> QED
    BY <2>1, <2>3 DEF Held
<1>4. ASSUME NEW f, NEW g, TopCalls(t, f, g), Top(t).pc # "lock", f.pc # "lock", f.loader = Top(t).loader,
             g.pc = "lock"
      PROVE  Held(t, k)' = Held(t, k)
  <2>1. /\ s # <<>> /\ Len(m) = Len(s) + 1 /\ m[Len(s)] = f /\ m[Len(s) + 1] = g
        /\ \A i \in 1 .. Len(s) - 1 : m[i] = s[i]
    BY <1>4 DEF TopCalls, OthersKeep
  <2>2. s[Len(s)] = Top(t)
    BY <2>1, TopIsFrame
  <2>3. \A i \in 1 .. Len(s) : (m[i].pc # "lock" <=> s[i].pc # "lock") /\ m[i].loader = s[i].loader
    BY <1>1, <1>4, <2>1, <2>2
  <2>4. \A i \in 1 .. Len(m) : m[i].pc # "lock" => i \in 1 .. Len(s)
    BY <1>1, <1>4, <2>1
  <2>5. \A i : i \in Held(t, k)' <=> i \in Held(t, k)
    BY <1>1, <2>1, <2>3, <2>4 DEF Held
  <2> QED
    BY <2>5
<1>5. CASE Asks(t)
  <2>1. /\ TopCalls(t, [Top(t) EXCEPT !.pc = "asked"], Call(AskedLoader(Top(t)), Top(t).name, "none"))
        /\ Top(t).pc # "lock" /\ s # <<>>
    BY <1>5 DEF Asks, TopCalls
  <2>2. LET f == [Top(t) EXCEPT !.pc = "asked"] IN f.pc # "lock" /\ f.loader = Top(t).loader
    BY <2>1, MovedTop
  <2>3. Call(AskedLoader(Top(t)), Top(t).name, "none").pc = "lock"
    BY DEF Call
  <2> QED
    BY <1>4, <2>1, <2>2, <2>3
<1>6. CASE Wants(t)
  <2> DEFINE f == Wanting(Top(t), Loaded(t))
             g == Call(Top(t).loader, NeedsOf(Top(t).loader, Top(t).name)[Len(Loaded(t)) + 1], "none")
  <2>1. TopCalls(t, f, g) /\ Top(t).pc # "lock" /\ s # <<>>
    BY <1>6 DEF Wants, TopCalls
  <2>2. f.pc # "lock" /\ f.loader = Top(t).loader
    BY <2>1, WantingTop
  <2>3. g.pc = "lock"
    BY DEF Call
  <2> HIDE DEF f, g
  <2> QED
    BY <1>4, <2>1, <2>2, <2>3
<1> QED
  BY <1>2, <1>3, <1>5, <1>6

\* A call that gets its lock holds it.
LEMMA HeldGrows ==
  ASSUME DataOK, NEW t \in Threads, Acquires(t), NEW q, q = LockOf(Top(t).loader)
  PROVE  LET i == Len(calls[t]) IN
           /\ i \notin Held(t, q) /\ Held(t, q)' = Held(t, q) \cup {i}
           /\ \A k \in {"system", "own"} \ {q} : Held(t, k)' = Held(t, k)
<1> DEFINE s == calls[t]
           m == calls'[t]
           f == [Top(t) EXCEPT !.pc = "look"]
<1>1. /\ s # <<>> /\ Len(m) = Len(s) /\ m[Len(s)] = f /\ \A i \in 1 .. Len(s) - 1 : m[i] = s[i]
      /\ Top(t).pc = "lock"
  BY DEF Acquires, TopBecomes, OthersKeep
<1>2. Len(s) \in Nat \ {0} /\ s[Len(s)] = Top(t) /\ f.loader = Top(t).loader /\ f.pc = "look"
  BY <1>1, MovedTop, TopIsFrame
<1> HIDE DEF f
<1>3. \A i \in 1 .. Len(s) : /\ m[i].loader = s[i].loader
                             /\ m[i].pc # "lock" <=> (s[i].pc # "lock" \/ i = Len(s))
  BY <1>1, <1>2
<1>4. \A k : \A i : i \in Held(t, k)' <=>
                      (i \in Held(t, k) \/ (i = Len(s) /\ k = LockOf(Top(t).loader)))
  BY <1>1, <1>2, <1>3 DEF Held
<1>5. \A k : Len(s) \notin Held(t, k)
  BY <1>1, <1>2 DEF Held
<1>6. \A i : i \in Held(t, q)' <=> (i \in Held(t, q) \/ i = Len(s))
  BY <1>4
<1>7. ASSUME NEW k \in {"system", "own"} \ {q}
      PROVE  Held(t, k)' = Held(t, k)
  <2>1. k # q /\ \A i : i \in Held(t, k)' <=> i \in Held(t, k)
    BY <1>4
  <2> QED
    BY <2>1, Zenon
<1> HIDE DEF s
<1>8. Held(t, q)' = Held(t, q) \cup {Len(s)}
  BY <1>6, Zenon
<1> QED
  BY <1>5, <1>7, <1>8 DEF s

\* A call that returns gives its lock back.
LEMMA HeldShrinks ==
  ASSUME DataOK, NEW t \in Threads, NEW r, TopReturns(t, r), Top(t).pc # "lock",
         NEW q, q = LockOf(Top(t).loader)
  PROVE  LET i == Len(calls[t]) IN
           /\ i \in Held(t, q) /\ Held(t, q)' = Held(t, q) \ {i}
           /\ \A k \in {"system", "own"} \ {q} : Held(t, k)' = Held(t, k)
<1> DEFINE s == calls[t]
           m == calls'[t]
<1>1. /\ s # <<>> /\ Len(m) = Len(s) - 1 /\ \A i \in 1 .. Len(s) - 1 : m[i] = s[i]
  BY DEF TopReturns, OthersKeep
<1>2. Len(s) \in Nat \ {0} /\ s[Len(s)] = Top(t)
  BY <1>1, TopIsFrame
<1>3. \A k : \A i : i \in Held(t, k)' <=> (i \in Held(t, k) /\ i # Len(s))
  BY <1>1, <1>2 DEF Held
<1>4. \A k : Len(s) \in Held(t, k) <=> k = LockOf(Top(t).loader)
  BY <1>1, <1>2 DEF Held
<1>5. \A i : i \in Held(t, q)' <=> (i \in Held(t, q) /\ i # Len(s))
  BY <1>3
<1>6. ASSUME NEW k \in {"system", "own"} \ {q}
      PROVE  Held(t, k)' = Held(t, k)
  <2>1. Len(s) \notin Held(t, k)
    BY <1>4
  <2>2. \A i : i \in Held(t, k)' <=> i \in Held(t, k)
    BY <1>3, <2>1
  <2> QED
    BY <2>2, Zenon
<1> HIDE DEF s
<1>7. Held(t, q)' = Held(t, q) \ {Len(s)}
  BY <1>5, Zenon
<1> QED
  BY <1>4, <1>6, <1>7 DEF s

\* What a lock knows of its owner.
LEMMA OwnerHolds ==
  ASSUME DataOK, LocksInv, LoadingAssumption, NEW t \in Threads, NEW k \in {"system", "own"}
  PROVE  /\ Held(t, k) # {} <=> locks[k].owner = t
         /\ Cardinality(Held(t, k)) = IF locks[k].owner = t THEN locks[k].depth ELSE 0
<1>1. Cardinality(Held(t, k)) = IF locks[k].owner = t THEN locks[k].depth ELSE 0
  BY DEF LocksInv
<1>2. locks[k].owner = t => locks[k].depth # 0
  BY DEF LocksInv, LoadingAssumption
<1>3. IsFiniteSet(Held(t, k))
  BY HeldIsFinite
<1>4. Held(t, k) = {} <=> Cardinality(Held(t, k)) = 0
  BY <1>3, FS_EmptySet
<1> QED
  BY <1>1, <1>2, <1>4

\* Every lock is as deep as its owner holds it, whatever step is taken.
LEMMA LocksStep ==
  ASSUME LoadingAssumption, IInv, NEW t \in Threads,
         \/ Acquires(t) \/ Begins(t) \/ Asks(t) \/ Wants(t) \/ Enters(t)
         \/ Top(t).pc # "lock" /\ \E r : TopReturns(t, r)
  PROVE  /\ locks' \in [{"system", "own"} -> [owner : Threads \cup {Free}, depth : Nat]]
         /\ LocksInv'
<1> DEFINE L == [owner : Threads \cup {Free}, depth : Nat]
<1>1. DataOK /\ LocksInv /\ locks \in [{"system", "own"} -> L] /\ Free \notin Threads
  BY DEF IInv, DataOK, LoadingAssumption
<1>2. \A u \in Threads \ {t} : \A k : Held(u, k)' = Held(u, k)
  <2>1. \A u \in Threads \ {t} : calls'[u] = calls[u]
    BY DEF Acquires, Begins, Asks, Wants, Enters, TopBecomes, TopCalls, TopReturns, OthersKeep
  <2> QED
    BY <2>1, OthersHold
<1>3. PICK q \in {"system", "own"} : q = LockOf(Top(t).loader)
  BY LockIsOne
<1>4. CASE Begins(t) \/ Asks(t) \/ Wants(t) \/ Enters(t)
  <2>1. locks' = locks
    BY <1>4 DEF Begins, Asks, Wants, Enters
  <2>2. \A u \in Threads : \A k : Held(u, k)' = Held(u, k)
    BY <1>1, <1>2, <1>4, HeldStays
  <2> QED
    BY <1>1, <2>1, <2>2 DEF LocksInv
<1>5. CASE Acquires(t)
  <2> DEFINE d == locks[q].depth
             i == Len(calls[t])
  <2>1. locks[q].owner \in {Free, t} /\ d \in Nat
    BY <1>1, <1>3, <1>5 DEF Acquires, MayLock
  <2>2. locks' = [locks EXCEPT ![q] = [owner |-> t, depth |-> d + 1]]
    BY <1>3, <1>5 DEF Acquires, Locked
  <2>3. /\ i \notin Held(t, q) /\ Held(t, q)' = Held(t, q) \cup {i}
        /\ \A k \in {"system", "own"} \ {q} : Held(t, k)' = Held(t, k)
    BY <1>1, <1>3, <1>5, HeldGrows
  <2>4. Cardinality(Held(t, q)) = d
    <3>1. locks[q].owner = Free => d = 0
      BY <1>1, <1>3 DEF LocksInv
    <3> QED
      BY <1>1, <1>3, <2>1, <3>1, OwnerHolds
  <2>5. Cardinality(Held(t, q)') = d + 1
    <3>1. IsFiniteSet(Held(t, q))
      BY <1>1, HeldIsFinite
    <3>2. Cardinality(Held(t, q) \cup {i}) = Cardinality(Held(t, q)) + 1
      BY <2>3, <3>1, FS_AddElement
    <3> HIDE DEF d, i
    <3> QED
      BY <2>3, <2>4, <3>2
  <2> HIDE DEF d, i
  <2>6. /\ locks' \in [{"system", "own"} -> L] /\ locks'[q].owner = t /\ locks'[q].depth = d + 1
        /\ \A k \in {"system", "own"} \ {q} : locks'[k] = locks[k]
    BY <1>1, <1>3, <2>1, <2>2
  <2>7. \A k \in {"system", "own"} : locks'[k].owner = Free <=> locks'[k].depth = 0
    BY <1>1, <2>1, <2>6 DEF LocksInv
  <2>8. ASSUME NEW k \in {"system", "own"}, NEW u \in Threads
        PROVE  Cardinality(Held(u, k)') = IF locks'[k].owner = u THEN locks'[k].depth ELSE 0
    <3>1. CASE k # q
      <4>1. Held(u, k)' = Held(u, k)
        <5>1. CASE u = t
          BY <2>3, <3>1, <5>1
        <5>2. CASE u # t
          BY <1>2, <5>2
        <5> QED
          BY <5>1, <5>2
      <4> QED
        BY <1>1, <2>6, <3>1, <4>1, OwnerHolds
    <3>2. CASE k = q /\ u = t
      BY <2>5, <2>6, <3>2
    <3>3. CASE k = q /\ u # t
      <4>1. Held(u, k)' = Held(u, k) /\ locks[k].owner # u
        BY <1>1, <1>2, <2>1, <3>3
      <4> QED
        BY <1>1, <2>6, <3>3, <4>1, OwnerHolds
    <3> QED
      BY <3>1, <3>2, <3>3
  <2> QED
    BY <2>6, <2>7, <2>8 DEF LocksInv
<1>6. CASE Top(t).pc # "lock" /\ \E r : TopReturns(t, r)
  <2> DEFINE d == locks[q].depth
             i == Len(calls[t])
  <2>1. PICK r : TopReturns(t, r)
    BY <1>6
  <2>2. /\ i \in Held(t, q) /\ Held(t, q)' = Held(t, q) \ {i}
        /\ \A k \in {"system", "own"} \ {q} : Held(t, k)' = Held(t, k)
    BY <1>1, <1>3, <1>6, <2>1, HeldShrinks
  <2>3. locks[q].owner = t /\ Cardinality(Held(t, q)) = d /\ d \in Nat \ {0}
    <3>1. Held(t, q) # {}
      BY <2>2
    <3>2. locks[q].owner = t /\ Cardinality(Held(t, q)) = d
      BY <1>1, <1>3, <3>1, OwnerHolds
    <3>3. d # 0 /\ d \in Nat
      BY <1>1, <1>3, <3>2 DEF LocksInv
    <3> QED
      BY <3>2, <3>3
  <2>4. locks' = [locks EXCEPT ![q] = [owner |-> IF d = 1 THEN Free ELSE t, depth |-> d - 1]]
    BY <1>3, <2>1, <2>3 DEF TopReturns, Unlocked
  <2>5. Cardinality(Held(t, q)') = d - 1
    <3>1. IsFiniteSet(Held(t, q))
      BY <1>1, HeldIsFinite
    <3>2. Cardinality(Held(t, q) \ {i}) = Cardinality(Held(t, q)) - 1
      BY <2>2, <3>1, FS_RemoveElement
    <3> HIDE DEF d, i
    <3> QED
      BY <2>2, <2>3, <3>2
  <2> HIDE DEF d, i
  <2>6. /\ locks' \in [{"system", "own"} -> L] /\ locks'[q].depth = d - 1
        /\ locks'[q].owner = IF d = 1 THEN Free ELSE t
        /\ \A k \in {"system", "own"} \ {q} : locks'[k] = locks[k]
    BY <1>1, <1>3, <2>3, <2>4
  <2>7. \A k \in {"system", "own"} : locks'[k].owner = Free <=> locks'[k].depth = 0
    BY <1>1, <2>3, <2>6 DEF LocksInv
  <2>8. ASSUME NEW k \in {"system", "own"}, NEW u \in Threads
        PROVE  Cardinality(Held(u, k)') = IF locks'[k].owner = u THEN locks'[k].depth ELSE 0
    <3>1. CASE k # q
      <4>1. Held(u, k)' = Held(u, k)
        <5>1. CASE u = t
          BY <2>2, <3>1, <5>1
        <5>2. CASE u # t
          BY <1>2, <5>2
        <5> QED
          BY <5>1, <5>2
      <4> QED
        BY <1>1, <2>6, <3>1, <4>1, OwnerHolds
    <3>2. CASE k = q /\ u = t
      BY <1>1, <2>3, <2>5, <2>6, <3>2
    <3>3. CASE k = q /\ u # t
      <4>1. Held(u, k)' = Held(u, k) /\ locks[k].owner # u
        BY <1>1, <1>2, <2>3, <3>3
      <4> QED
        BY <1>1, <2>6, <3>3, <4>1, OwnerHolds
    <3> QED
      BY <3>1, <3>2, <3>3
  <2> QED
    BY <2>6, <2>7, <2>8 DEF LocksInv
<1> QED
  BY <1>4, <1>5, <1>6

-----------------------------------------------------------------------------
(* Steps that construct nothing.                                            *)

\* A call in progress stays one, and an answer one, while the maps and klasses stay as they are.
LEMMA QuietKeeps ==
  ASSUME UNCHANGED <<klasses, system, classmap, anonymous>>
  PROVE  /\ \A f : InProgress(f) => InProgress(f)'
         /\ \A f, a : Answered(f, a) => Answered(f, a)'
<1>1. \A loader, n, a : LoadedBy(loader, n, a) <=> LoadedBy(loader, n, a)'
  BY DEF LoadedBy
<1>2. \A loader, n, a : MayReturn(loader, n, a) <=> MayReturn(loader, n, a)'
  BY <1>1 DEF MayReturn
<1>3. \A f : Unloaded(f) <=> Unloaded(f)'
  BY DEF Unloaded
<1>4. \A f : InProgress(f) => InProgress(f)'
  BY <1>1, <1>3 DEF InProgress
<1>5. \A f, a : Answered(f, a) => Answered(f, a)'
  BY <1>2 DEF Answered
<1> QED
  BY <1>4, <1>5

\* The invariants on calls in progress and on answers, call by call.
LEMMA ProgressFrom ==
  ASSUME \A u \in Threads : \A i \in 1 .. Len(calls'[u]) : \E f : f = calls'[u][i] /\ InProgress(f)'
  PROVE  ProgressInv'
<1> SUFFICES ASSUME NEW u \in Threads, NEW i \in 1 .. Len(calls'[u])
             PROVE  InProgress(calls[u][i])'
  BY DEF ProgressInv
<1>1. PICK f : f = calls'[u][i] /\ InProgress(f)'
  OBVIOUS
<1> QED
  BY <1>1 DEF InProgress, LoadedBy, Unloaded

LEMMA AnswerFrom ==
  ASSUME \A u \in Threads : calls'[u] # <<>> =>
           \E f, a : f = calls'[u][Len(calls'[u])] /\ a = answer'[u] /\ Answered(f, a)'
  PROVE  AnswerInv'
<1> SUFFICES ASSUME NEW u \in Threads, calls'[u] # <<>>
             PROVE  Answered(Top(u), answer[u])'
  BY DEF AnswerInv
<1>1. PICK f, a : f = calls'[u][Len(calls'[u])] /\ a = answer'[u] /\ Answered(f, a)'
  OBVIOUS
<1> QED
  BY <1>1 DEF Answered, MayReturn, LoadedBy, Top, Last, Callee

\* What has not loaded anything yet is in progress.
LEMMA FreshIsInProgress ==
  ASSUME NEW f, f.pc \in {"lock", "look", "asked"}, f.got = <<>>
  PROVE  InProgress(f)
  BY DEF InProgress

\* The calls in progress, when nothing is constructed.
LEMMA ProgressStep ==
  ASSUME LoadingAssumption, IInv, NEW t \in Threads,
         \/ Acquires(t) \/ Begins(t) \/ Asks(t) \/ Wants(t) \/ Enters(t)
         \/ \E r : Returns(t, r)
  PROVE  ProgressInv'
<1> DEFINE s == calls[t]
           m == calls'[t]
<1>1. DataOK /\ StackInv /\ NamesInv /\ ProgressInv
  BY DEF IInv
<1>2. \A f : InProgress(f) => InProgress(f)'
  BY QuietKeeps DEF Acquires, Begins, Asks, Wants, Enters, Returns, Quiet
<1>3. s \in Seq(Frames) /\ Len(s) \in Nat /\ \A i \in 1 .. Len(s) : InProgress(s[i])
  <2>1. s \in Seq(Frames)
    BY <1>1 DEF DataOK
  <2>2. \A i \in 1 .. Len(s) : InProgress(s[i])
    BY <1>1 DEF ProgressInv
  <2> QED
    BY <2>1, <2>2
<1>4. SUFFICES ASSUME NEW i \in 1 .. Len(m)
               PROVE  InProgress(m[i]) \/ \E f : f = m[i] /\ InProgress(f)
  <2>1. \A i \in 1 .. Len(m) : \E f : f = m[i] /\ InProgress(f)
    BY <1>4
  <2>2. \A u \in Threads \ {t} : calls'[u] = calls[u]
    BY DEF Acquires, Begins, Asks, Wants, Enters, Returns, TopBecomes, TopCalls, TopReturns, OthersKeep
  <2>3. \A u \in Threads : \A i \in 1 .. Len(calls'[u]) : \E f : f = calls'[u][i] /\ InProgress(f)
    BY <1>1, <2>1, <2>2 DEF ProgressInv
  <2> QED
    BY <1>2, <2>3, ProgressFrom
<1>5. CASE Acquires(t)
  <2> DEFINE f == [Top(t) EXCEPT !.pc = "look"]
  <2>1. TopBecomes(t, f) /\ Top(t).pc = "lock" /\ s # <<>>
    BY <1>5 DEF Acquires, TopBecomes
  <2>2. f.pc = "look" /\ f.got = Top(t).got /\ Top(t).got = <<>>
    BY <1>1, <2>1, MovedTop, TopIsRight
  <2> HIDE DEF f
  <2>3. InProgress(f)
    BY <2>2, FreshIsInProgress
  <2>4. m[i] = f \/ (i \in 1 .. Len(s) /\ m[i] = s[i])
    BY <1>3, <2>1 DEF TopBecomes, OthersKeep
  <2> QED
    BY <1>3, <2>3, <2>4
<1>6. CASE Begins(t)
  <2> DEFINE f == Begun(Top(t))
  <2>1. TopBecomes(t, f) /\ Top(t).pc \in {"look", "asked"} /\ s # <<>> /\ Unloaded(Top(t))
    BY <1>6 DEF Begins, TopBecomes
  <2>2. Top(t).got = <<>>
    BY <1>1, <2>1, TopIsRight
  <2>3. f.pc = "deps" /\ f.got = <<>> /\ f.todo = NeedsOf(Top(t).loader, Top(t).name)
        /\ f.loader = Top(t).loader /\ f.name = Top(t).name /\ f.bytes = Top(t).bytes
    BY <1>1, <2>1, <2>2, BegunTop
  <2> HIDE DEF f
  <2>4. InProgress(f)
    BY <2>1, <2>3 DEF InProgress, Unloaded
  <2>5. m[i] = f \/ (i \in 1 .. Len(s) /\ m[i] = s[i])
    BY <1>3, <2>1 DEF TopBecomes, OthersKeep
  <2> QED
    BY <1>3, <2>4, <2>5
<1>7. CASE Asks(t)
  <2> DEFINE f == [Top(t) EXCEPT !.pc = "asked"]
             g == Call(AskedLoader(Top(t)), Top(t).name, "none")
  <2>1. TopCalls(t, f, g) /\ Top(t).pc = "look" /\ s # <<>>
    BY <1>7 DEF Asks, TopCalls
  <2>2. f.pc = "asked" /\ f.got = Top(t).got /\ Top(t).got = <<>> /\ g.pc = "lock" /\ g.got = <<>>
    BY <1>1, <2>1, MovedTop, TopIsRight DEF Call
  <2> HIDE DEF f, g
  <2>3. InProgress(f) /\ InProgress(g)
    BY <2>2, FreshIsInProgress
  <2>4. m[i] = f \/ m[i] = g \/ (i \in 1 .. Len(s) /\ m[i] = s[i])
    BY <1>3, <2>1 DEF TopCalls, OthersKeep
  <2> QED
    BY <1>3, <2>3, <2>4
<1>8. CASE Wants(t)
  <2> DEFINE needs == NeedsOf(Top(t).loader, Top(t).name)
             f == Wanting(Top(t), Loaded(t))
             g == Call(Top(t).loader, needs[Len(Loaded(t)) + 1], "none")
  <2>1. TopCalls(t, f, g) /\ Top(t).pc \in {"deps", "need"} /\ s # <<>> /\ Len(Loaded(t)) < Len(needs)
        /\ ~(Top(t).pc = "need" /\ answer[t] = NoKlass)
    BY <1>8 DEF Wants, TopCalls
  <2>2. Unloaded(Top(t))
    BY <1>1, <2>1, TopIsRight
  <2>3. /\ f.pc = "need" /\ f.got = Loaded(t) /\ f.todo = SubSeq(needs, Len(Loaded(t)) + 2, Len(needs))
        /\ f.loader = Top(t).loader /\ f.name = Top(t).name /\ f.bytes = Top(t).bytes
    BY <1>1, <2>1, WantingTop
  <2>4. \A j \in 1 .. Len(Loaded(t)) : LoadedBy(Top(t).loader, needs[j], Loaded(t)[j])
    BY <2>1, LoadedAreNeeds
  <2>5. g.pc = "lock" /\ g.got = <<>>
    BY DEF Call
  <2> HIDE DEF f, g
  <2>6. InProgress(f) /\ InProgress(g)
    <3>1. InProgress(f)
      BY <2>1, <2>2, <2>3, <2>4 DEF InProgress, Unloaded
    <3> QED
      BY <2>5, <3>1, FreshIsInProgress
  <2>7. m[i] = f \/ m[i] = g \/ (i \in 1 .. Len(s) /\ m[i] = s[i])
    BY SMTT(30), <1>3, <2>1 DEF TopCalls, OthersKeep
  <2> QED
    BY <1>3, <2>6, <2>7
<1>9. CASE Enters(t)
  <2>1. m[1].pc = "lock" /\ m[1].got = <<>> /\ Len(m) = 1
    BY <1>9 DEF Enters, Call
  <2>2. m[i].pc = "lock" /\ m[i].got = <<>>
    BY <2>1
  <2>3. PICK f : f = m[i]
    OBVIOUS
  <2>4. InProgress(f)
    BY <2>2, <2>3, FreshIsInProgress
  <2> QED
    BY <2>3, <2>4
<1>10. CASE \E r : Returns(t, r)
  <2>1. i \in 1 .. Len(s) /\ m[i] = s[i]
    BY <1>3, <1>10 DEF Returns, TopReturns, OthersKeep
  <2> QED
    BY <1>3, <2>1
<1> QED
  BY <1>5, <1>6, <1>7, <1>8, <1>9, <1>10

\* What a call returns is what the call below it asked for.
LEMMA AnswersCaller ==
  ASSUME LoadingAssumption, DataOK, StackInv, NEW t \in Threads, calls[t] # <<>>, Len(calls[t]) > 1
  PROVE  LET f == calls[t][Len(calls[t]) - 1] IN
           /\ Callee(f).loader = Top(t).loader /\ Callee(f).name = Top(t).name
           /\ f.loader \in {"boot", "own"} => Top(t).loader \in {"boot", "own"}
           /\ Top(t).bytes = "none"
<1> DEFINE s == calls[t]
           i == Len(calls[t]) - 1
<1>1. Len(s) \in Nat \ {0} /\ s[Len(s)] = Top(t)
  BY TopIsFrame
<1>2. i \in 1 .. Len(s) /\ i < Len(s) /\ i + 1 = Len(s) /\ Chained(s)
  BY <1>1 DEF StackInv
<1>3. Top(t).loader = Callee(s[i]).loader /\ Top(t).name = Callee(s[i]).name /\ Top(t).bytes = "none"
  BY <1>1, <1>2 DEF Chained
<1>4. s[i].loader \in {"boot", "own"} => Callee(s[i]).loader \in {"boot", "own"}
  BY DEF Callee
<1> QED
  BY <1>3, <1>4

\* The answers, when nothing is constructed.
LEMMA AnswerStep ==
  ASSUME LoadingAssumption, IInv, NEW t \in Threads,
         \/ Acquires(t) \/ Begins(t) \/ Asks(t) \/ Wants(t) \/ Enters(t)
         \/ \E r : Returns(t, r)
  PROVE  AnswerInv'
<1> DEFINE s == calls[t]
           m == calls'[t]
<1>1. DataOK /\ StackInv /\ AnswerInv /\ s \in Seq(Frames) /\ Len(s) \in Nat
  <2>1. DataOK /\ StackInv /\ AnswerInv
    BY DEF IInv
  <2>2. s \in Seq(Frames)
    BY <2>1 DEF DataOK
  <2> QED
    BY <2>1, <2>2
<1>2. \A f, a : Answered(f, a) => Answered(f, a)'
  BY QuietKeeps DEF Acquires, Begins, Asks, Wants, Enters, Returns, Quiet
<1>3. \A u \in Threads \ {t} : calls'[u] = calls[u] /\ answer'[u] = answer[u]
  BY <1>1 DEF Acquires, Begins, Asks, Wants, Enters, Returns, TopBecomes, TopCalls, TopReturns, OthersKeep, DataOK
<1>4. SUFFICES ASSUME m # <<>>
               PROVE  \E f, a : f = m[Len(m)] /\ a = answer'[t] /\ Answered(f, a)
  <2>1. \A u \in Threads \ {t} : calls'[u] # <<>> =>
          \E f, a : f = calls'[u][Len(calls'[u])] /\ a = answer'[u] /\ Answered(f, a)
    <3> SUFFICES ASSUME NEW u \in Threads \ {t}, calls'[u] # <<>>
                 PROVE  \E f, a : f = calls'[u][Len(calls'[u])] /\ a = answer'[u] /\ Answered(f, a)
      OBVIOUS
    <3>1. Top(u) = calls'[u][Len(calls'[u])] /\ Answered(Top(u), answer[u]) /\ answer'[u] = answer[u]
      BY <1>1, <1>3, TopIsFrame DEF AnswerInv
    <3> QED
      BY <3>1
  <2>2. \A u \in Threads : calls'[u] # <<>> =>
          \E f, a : f = calls'[u][Len(calls'[u])] /\ a = answer'[u] /\ Answered(f, a)
    BY <1>4, <2>1
  <2>3. \A u \in Threads : calls'[u] # <<>> =>
          \E f, a : f = calls'[u][Len(calls'[u])] /\ a = answer'[u] /\ Answered(f, a)'
    BY <1>2, <2>2
  <2> QED
    BY <2>3, AnswerFrom
<1>5. ASSUME m[Len(m)].pc \notin {"asked", "need"}
      PROVE  \E f, a : f = m[Len(m)] /\ a = answer'[t] /\ Answered(f, a)
  BY <1>5 DEF Answered
<1>6. CASE Acquires(t)
  <2>1. s # <<>> /\ m[Len(m)] = [Top(t) EXCEPT !.pc = "look"]
    BY <1>6 DEF Acquires, TopBecomes
  <2>2. m[Len(m)].pc = "look"
    BY <1>1, <2>1, MovedTop
  <2> QED
    BY <1>5, <2>2
<1>7. CASE Begins(t)
  <2>1. s # <<>> /\ m[Len(m)] = Begun(Top(t))
    BY <1>7 DEF Begins, TopBecomes
  <2>2. m[Len(m)].pc = "deps"
    BY <1>1, <2>1, BegunTop
  <2> QED
    BY <1>5, <2>2
<1>8. CASE Asks(t) \/ Wants(t) \/ Enters(t)
  <2>1. \A f, g : TopCalls(t, f, g) => m[Len(m)] = g
    BY <1>1 DEF TopCalls
  <2>2. \A l, n, b : Call(l, n, b).pc = "lock"
    BY DEF Call
  <2>3. Asks(t) => m[Len(m)].pc = "lock"
    BY <2>1, <2>2 DEF Asks
  <2>4. Wants(t) => m[Len(m)].pc = "lock"
    BY <2>1, <2>2 DEF Wants
  <2>5. Enters(t) => m[Len(m)].pc = "lock"
    BY <2>2 DEF Enters
  <2> QED
    BY <1>5, <1>8, <2>3, <2>4, <2>5
<1>9. CASE \E r : Returns(t, r)
  <2>1. PICK r : Returns(t, r)
    BY <1>9
  <2>2. /\ s # <<>> /\ Len(m) = Len(s) - 1 /\ m \in Seq(Frames) /\ \A i \in 1 .. Len(s) - 1 : m[i] = s[i]
        /\ answer'[t] = r
    BY <1>1, <2>1 DEF Returns, TopReturns, OthersKeep, DataOK
  <2>3. Len(s) > 1 /\ m[Len(m)] = s[Len(s) - 1]
    BY <1>1, <1>4, <2>2
  <2>4. Top(t).loader \in {"boot", "own"} => MayReturn(Top(t).loader, Top(t).name, r)
    BY <2>1 DEF Returns
  <2>5. Answered(s[Len(s) - 1], r)
    BY <1>1, <2>2, <2>3, <2>4, AnswersCaller DEF Answered
  <2> QED
    BY <2>2, <2>3, <2>5
<1> QED
  BY <1>6, <1>7, <1>8, <1>9

-----------------------------------------------------------------------------
(* The construction of a klass.                                             *)

\* What a construction finds: a name that has lost nothing and nobody has loaded.
LEMMA ConstructIsFresh ==
  ASSUME LoadingAssumption, IInv, NEW t \in Threads, Constructs(t)
  PROVE  LET f == Top(t) IN
           /\ f \in Frames /\ f.name \in Names /\ f.name.cut = 0 /\ f.loader \in {"boot", "own"}
           /\ f.loader = "boot" => /\ f.bytes # "anonymous" /\ f.name \notin DOMAIN system
                                   /\ f.name.elem \in Jar \cup Basics /\ ~f.name.dotted
           /\ f.loader = "own" /\ f.bytes # "anonymous" =>
                /\ f.name \notin DOMAIN classmap
                /\ IF f.name.dotted THEN f.name.dim = 0 ELSE f.name.elem \in Files \cup Anonymous
           /\ f.bytes = "anonymous" => f.name.elem \in Anonymous /\ f.name.dim = 0 /\ ~f.name.dotted
<1>1. /\ calls[t] # <<>> /\ Top(t).pc \in {"deps", "need"} /\ Top(t).todo = <<>>
      /\ ~(Top(t).pc = "need" /\ answer[t] = NoKlass)
  BY DEF Constructs
<1>2. DataOK /\ StackInv /\ NamesInv /\ ProgressInv
  BY DEF IInv
<1>3. Top(t) \in Frames /\ Top(t).name \in Names
  BY <1>1, <1>2, TopIsFrame DEF Frames
<1>4. /\ Top(t).name.cut = 0 /\ Unloaded(Top(t)) /\ Top(t).loader \in {"boot", "own"}
      /\ Top(t).loader = "boot" => Top(t).name.elem \in Jar \cup Basics
  BY <1>1, ConstructsWhole
<1>5. Top(t).bytes = "anonymous" =>
        /\ Top(t).loader = "own" /\ Top(t).name.elem \in Anonymous /\ Top(t).name.dim = 0
        /\ ~Top(t).name.dotted
  BY <1>1, <1>2, TopIsRight
<1> QED
  BY <1>3, <1>4, <1>5 DEF Unloaded

\* The maps grow by the new klass.
LEMMA MapsGrow ==
  ASSUME LoadingAssumption, IInv, NEW t \in Threads, Constructs(t)
  PROVE  LET f == Top(t)
             k == Len(klasses) + 1 IN
           /\ DOMAIN system' = DOMAIN system \cup (IF f.loader = "boot" THEN {f.name} ELSE {})
           /\ DOMAIN classmap' = DOMAIN classmap \cup
                (IF f.loader = "own" /\ f.bytes # "anonymous" THEN {f.name} ELSE {})
           /\ \A n \in DOMAIN system : system'[n] = system[n]
           /\ \A n \in DOMAIN classmap : classmap'[n] = classmap[n]
           /\ f.loader = "boot" => system'[f.name] = k
           /\ f.loader = "own" /\ f.bytes # "anonymous" => classmap'[f.name] = k
           /\ anonymous' = anonymous \cup (IF f.bytes = "anonymous" THEN {k} ELSE {})
<1> DEFINE f == Top(t)
           k == Len(klasses) + 1
<1>1. /\ f.loader \in {"boot", "own"}
      /\ f.loader = "boot" => f.bytes # "anonymous" /\ f.name \notin DOMAIN system
      /\ f.loader = "own" /\ f.bytes # "anonymous" => f.name \notin DOMAIN classmap
  BY ConstructIsFresh
<1>2. CASE f.bytes = "anonymous"
  <2>1. anonymous' = anonymous \cup {k} /\ UNCHANGED <<system, classmap>> /\ f.loader = "own"
    BY <1>1, <1>2 DEF Constructs
  <2> QED
    BY <1>2, <2>1
<1>3. CASE f.bytes # "anonymous" /\ f.loader = "boot"
  <2>1. system' = Insert(system, f.name, k) /\ UNCHANGED <<classmap, anonymous>>
    BY <1>3 DEF Constructs
  <2>2. /\ DOMAIN system' = DOMAIN system \cup {f.name} /\ system'[f.name] = k
        /\ \A n \in DOMAIN system : system'[n] = system[n]
    BY <1>1, <1>3, <2>1 DEF Insert
  <2> QED
    BY <1>3, <2>1, <2>2
<1>4. CASE f.bytes # "anonymous" /\ f.loader = "own"
  <2>1. classmap' = Insert(classmap, f.name, k) /\ UNCHANGED <<system, anonymous>>
    BY <1>4 DEF Constructs
  <2>2. /\ DOMAIN classmap' = DOMAIN classmap \cup {f.name} /\ classmap'[f.name] = k
        /\ \A n \in DOMAIN classmap : classmap'[n] = classmap[n]
    BY <1>1, <1>4, <2>1 DEF Insert
  <2> QED
    BY <1>4, <2>1, <2>2
<1> QED
  BY <1>1, <1>2, <1>3, <1>4

\* The constructed klass is put at the end, and its lower dimension is linked to it.
LEMMA KlassesGrow ==
  ASSUME LoadingAssumption, IInv, NEW t \in Threads, Constructs(t)
  PROVE  LET k == Len(klasses) + 1 IN
           /\ Len(klasses) \in Nat /\ klasses' \in Seq(Klasses) /\ Len(klasses') = k
           /\ klasses'[k] = NewKlass(t)
           /\ \A i \in 1 .. Len(klasses) :
                klasses'[i] = IF i = LowerOf(t) THEN [klasses[i] EXCEPT !.higher = k] ELSE klasses[i]
<1> DEFINE k == Len(klasses) + 1
           ks == IF LowerOf(t) = NoKlass THEN klasses ELSE Higher(klasses, LowerOf(t), k)
<1>1. klasses \in Seq(Klasses) /\ Len(klasses) \in Nat /\ k \in Nat /\ DataOK
  BY KlassFacts DEF IInv
<1>2. /\ calls[t] # <<>> /\ Top(t).pc \in {"deps", "need"} /\ Top(t).todo = <<>>
      /\ ~(Top(t).pc = "need" /\ answer[t] = NoKlass)
  BY DEF Constructs
<1>3. LowerOf(t) # NoKlass => LowerOf(t) \in 1 .. Len(klasses)
  BY <1>2, LowerIsFree DEF LowerOf
<1>4. NewKlass(t) \in Klasses
  <2>1. Top(t) \in Frames /\ Top(t).name \in Names /\ Top(t).loader \in {"boot", "own"}
    BY ConstructIsFresh
  <2>2. Loaded(t) \in Seq(Nat \cup {NoKlass})
    BY <1>2, LoadedAreNeeds
  <2>3. LowerOf(t) \in Nat \cup {NoKlass}
    BY <1>1, <1>3
  <2>4. Name(Top(t).name.elem, Top(t).name.dim) \in Names
    BY <2>1 DEF Name, Names
  <2> QED
    BY <2>1, <2>2, <2>3, <2>4 DEF NewKlass, Klasses
<1>5. \A i \in 1 .. Len(klasses) :
        klasses[i] \in Klasses /\ [klasses[i] EXCEPT !.higher = k] \in Klasses
  <2>1. \A kl \in Klasses : [kl EXCEPT !.higher = k] \in Klasses
    BY <1>1 DEF Klasses
  <2>2. \A i \in 1 .. Len(klasses) : klasses[i] \in Klasses
    BY <1>1
  <2> QED
    BY <2>1, <2>2
<1>6. /\ ks \in Seq(Klasses) /\ Len(ks) = Len(klasses)
      /\ \A i \in 1 .. Len(klasses) :
           ks[i] = IF i = LowerOf(t) THEN [klasses[i] EXCEPT !.higher = k] ELSE klasses[i]
  <2>1. CASE LowerOf(t) = NoKlass
    <3>1. \A i \in 1 .. Len(klasses) : i # LowerOf(t)
      BY <1>1, <2>1 DEF LoadingAssumption
    <3> QED
      BY <1>1, <2>1, <3>1
  <2>2. CASE LowerOf(t) # NoKlass
    <3> DEFINE kl == [klasses[LowerOf(t)] EXCEPT !.higher = k]
    <3>1. ks = [klasses EXCEPT ![LowerOf(t)] = kl] /\ kl \in Klasses
      BY <1>3, <1>5, <2>2 DEF Higher
    <3> HIDE DEF kl, ks
    <3>2. /\ ks \in Seq(Klasses) /\ Len(ks) = Len(klasses) /\ ks[LowerOf(t)] = kl
          /\ \A i \in 1 .. Len(klasses) : i # LowerOf(t) => ks[i] = klasses[i]
      BY <1>1, <1>3, <2>2, <3>1
    <3> QED
      BY <3>2 DEF kl
  <2> QED
    BY <2>1, <2>2
<1>7. klasses' = Append(ks, NewKlass(t))
  BY DEF Constructs
<1> HIDE DEF ks, k
<1>8. klasses' \in Seq(Klasses) /\ Len(klasses') = Len(ks) + 1 /\ klasses'[Len(ks) + 1] = NewKlass(t)
      /\ \A i \in 1 .. Len(ks) : klasses'[i] = ks[i]
  BY <1>4, <1>6, <1>7
<1> QED
  BY <1>1, <1>6, <1>8 DEF k

\* What the klasses are after a construction, field by field.
LEMMA KlassFields ==
  ASSUME LoadingAssumption, IInv, NEW t \in Threads, Constructs(t)
  PROVE  LET k == Len(klasses) + 1 IN
           /\ k \in Nat /\ Len(klasses) \in Nat /\ Len(klasses') = k
           /\ \A i \in 1 .. Len(klasses) :
                /\ klasses'[i].name = klasses[i].name /\ klasses'[i].needs = klasses[i].needs
                /\ klasses'[i].lower = klasses[i].lower /\ klasses'[i].anonymous = klasses[i].anonymous
                /\ klasses'[i].higher = IF i = LowerOf(t) THEN k ELSE klasses[i].higher
           /\ klasses'[k].name = Plain(Top(t).name) /\ klasses'[k].needs = Loaded(t)
           /\ klasses'[k].lower = LowerOf(t) /\ klasses'[k].higher = NoKlass
           /\ klasses'[k].anonymous <=> Top(t).bytes = "anonymous"
<1> DEFINE k == Len(klasses) + 1
<1>1. /\ Len(klasses) \in Nat /\ Len(klasses') = k /\ klasses'[k] = NewKlass(t)
      /\ \A i \in 1 .. Len(klasses) :
           klasses'[i] = IF i = LowerOf(t) THEN [klasses[i] EXCEPT !.higher = k] ELSE klasses[i]
  BY KlassesGrow
<1>2. klasses \in Seq(Klasses) /\ \A i \in 1 .. Len(klasses) : klasses[i] \in Klasses
  BY KlassFacts DEF IInv
<1>3. \A kl \in Klasses : LET new == [kl EXCEPT !.higher = k] IN
        /\ new.name = kl.name /\ new.needs = kl.needs /\ new.lower = kl.lower
        /\ new.anonymous = kl.anonymous /\ new.higher = k
  BY DEF Klasses
<1>4. /\ NewKlass(t).needs = Loaded(t) /\ NewKlass(t).lower = LowerOf(t) /\ NewKlass(t).higher = NoKlass
      /\ NewKlass(t).anonymous <=> Top(t).bytes = "anonymous"
      /\ NewKlass(t).name = Name(Top(t).name.elem, Top(t).name.dim)
  BY DEF NewKlass
<1>5. Name(Top(t).name.elem, Top(t).name.dim) = Plain(Top(t).name)
  <2>1. Top(t).name \in Names /\ Top(t).name.cut = 0
    BY ConstructIsFresh
  <2> QED
    BY <2>1, PlainFacts
<1> HIDE DEF k
<1>6. \A i \in 1 .. Len(klasses) :
        /\ klasses'[i].name = klasses[i].name /\ klasses'[i].needs = klasses[i].needs
        /\ klasses'[i].lower = klasses[i].lower /\ klasses'[i].anonymous = klasses[i].anonymous
        /\ klasses'[i].higher = IF i = LowerOf(t) THEN k ELSE klasses[i].higher
  <2> SUFFICES ASSUME NEW i \in 1 .. Len(klasses)
               PROVE  /\ klasses'[i].name = klasses[i].name /\ klasses'[i].needs = klasses[i].needs
                      /\ klasses'[i].lower = klasses[i].lower
                      /\ klasses'[i].anonymous = klasses[i].anonymous
                      /\ klasses'[i].higher = IF i = LowerOf(t) THEN k ELSE klasses[i].higher
    OBVIOUS
  <2>1. CASE i = LowerOf(t)
    <3>1. PICK kl \in Klasses : kl = klasses[i]
      BY <1>2
    <3>2. klasses'[i] = [kl EXCEPT !.higher = k]
      BY <1>1, <2>1, <3>1
    <3> QED
      BY <1>3, <2>1, <3>1, <3>2
  <2>2. CASE i # LowerOf(t)
    BY <1>1, <2>2
  <2> QED
    BY <2>1, <2>2
<1> QED
  BY <1>1, <1>4, <1>5, <1>6 DEF k

\* What is loaded stays loaded, and what a loader constructs it has loaded.
LEMMA LoadedGrows ==
  ASSUME LoadingAssumption, IInv, NEW t \in Threads, Constructs(t)
  PROVE  /\ \A l, n, a : LoadedBy(l, n, a) => LoadedBy(l, n, a)'
         /\ \A l, n, k : Top(t).bytes # "anonymous" /\ l = Top(t).loader /\ n = Top(t).name
                        /\ k = Len(klasses) + 1 => LoadedBy(l, n, k)'
         /\ \A a \in Kept : a \in Kept'
         /\ \A k : k = Len(klasses) + 1 => k \in Kept'
<1>1. /\ \A n \in DOMAIN system : n \in DOMAIN system' /\ system'[n] = system[n]
      /\ \A n \in DOMAIN classmap : n \in DOMAIN classmap' /\ classmap'[n] = classmap[n]
      /\ Top(t).loader = "boot" => Top(t).name \in DOMAIN system' /\ system'[Top(t).name] = Len(klasses) + 1
      /\ Top(t).loader = "own" /\ Top(t).bytes # "anonymous" =>
           Top(t).name \in DOMAIN classmap' /\ classmap'[Top(t).name] = Len(klasses) + 1
      /\ Top(t).loader \in {"boot", "own"}
      /\ \A a \in anonymous : a \in anonymous'
      /\ Top(t).bytes = "anonymous" => Len(klasses) + 1 \in anonymous'
  BY MapsGrow, ConstructIsFresh
<1>2. \A a \in anonymous : klasses'[a].name = klasses[a].name
  BY KlassFields DEF IInv, DataOK
<1>3. \A l, n, a : LoadedBy(l, n, a) => LoadedBy(l, n, a)'
  BY <1>1, <1>2 DEF LoadedBy
<1>4. ASSUME Top(t).bytes # "anonymous", NEW l, l = Top(t).loader, NEW n, n = Top(t).name,
             NEW k, k = Len(klasses) + 1
      PROVE  LoadedBy(l, n, k)'
  BY <1>1, <1>4 DEF LoadedBy
<1>5. \A a \in Kept : a \in Kept'
  BY <1>1 DEF Kept
<1>6. \A k : k = Len(klasses) + 1 => k \in Kept'
  BY <1>1 DEF Kept
<1> QED
  BY <1>3, <1>4, <1>5, <1>6

\* No other call that has its lock loads the name for the same loader.
LEMMA OneLoads ==
  ASSUME LoadingAssumption, IInv, NEW t \in Threads, calls[t] # <<>>, Top(t).pc # "lock",
         NEW u \in Threads, NEW i \in 1 .. Len(calls[u]), u = t => i < Len(calls[t]),
         calls[u][i].pc # "lock", calls[u][i].loader = Top(t).loader
  PROVE  calls[u][i].name # Top(t).name
<1>1. DataOK /\ StackInv /\ LocksInv
  BY DEF IInv
<1>2. Top(t) = calls[t][Len(calls[t])] /\ Len(calls[t]) \in Nat \ {0} /\ Top(t) \in Frames
  BY <1>1, TopIsFrame
<1>3. CASE u = t
  <2>1. Before(Top(t).name, calls[u][i].name)
    BY <1>1, <1>2, <1>3, BelowTop, CallIsFrame DEF StackInv
  <2>2. Top(t).name \in Names
    BY <1>2 DEF Frames
  <2> QED
    BY <2>1, <2>2, BeforeOrders
<1>4. CASE u # t
  <2>1. PICK q \in {"system", "own"} : q = LockOf(Top(t).loader)
    BY LockIsOne
  <2>2. Len(calls[t]) \in Held(t, q) /\ i \in Held(u, q)
    BY <1>2, <2>1 DEF Held
  <2>3. locks[q].owner = t /\ locks[q].owner = u
    BY <1>1, <2>2, OwnerHolds
  <2> QED
    BY <1>4, <2>3
<1> QED
  BY <1>3, <1>4

\* The calls in progress, when a klass is constructed: what they load is still not loaded.
LEMMA ProgressConstruct ==
  ASSUME LoadingAssumption, IInv, NEW t \in Threads, Constructs(t)
  PROVE  ProgressInv'
<1>1. /\ DataOK /\ ProgressInv /\ calls[t] # <<>> /\ Top(t).pc \in {"deps", "need"}
      /\ TopReturns(t, Len(klasses) + 1)
  BY DEF IInv, Constructs
<1>2. SUFFICES ASSUME NEW u \in Threads, NEW i \in 1 .. Len(calls'[u])
               PROVE  \E f : f = calls'[u][i] /\ InProgress(f)'
  BY ProgressFrom
<1>3. i \in 1 .. Len(calls[u]) /\ calls'[u][i] = calls[u][i] /\ (u = t => i < Len(calls[t]))
  BY <1>1, CallIsFrame DEF TopReturns, OthersKeep
<1>4. PICK f : f = calls[u][i]
  OBVIOUS
<1>5. InProgress(f)
  BY <1>1, <1>3, <1>4 DEF ProgressInv
<1>6. f.pc \in {"deps", "need"} /\ f.loader = Top(t).loader => f.name # Top(t).name
  BY <1>1, <1>3, <1>4, OneLoads
<1>7. ASSUME Unloaded(f), f.pc \in {"deps", "need"}
      PROVE  Unloaded(f)'
  BY ZenonT(60), <1>6, <1>7, MapsGrow DEF Unloaded
<1>8. InProgress(f)'
  BY <1>5, <1>7, LoadedGrows DEF InProgress
<1> QED
  BY <1>3, <1>4, <1>8

\* The answers, when a klass is constructed: it is what the call below asked for.
LEMMA AnswerConstruct ==
  ASSUME LoadingAssumption, IInv, NEW t \in Threads, Constructs(t)
  PROVE  AnswerInv'
<1>1. /\ DataOK /\ StackInv /\ AnswerInv /\ calls[t] # <<>> /\ TopReturns(t, Len(klasses) + 1)
  BY DEF IInv, Constructs
<1>2. \A l, n, a : MayReturn(l, n, a) => MayReturn(l, n, a)'
  BY LoadedGrows DEF MayReturn
<1>3. \A f, a : Answered(f, a) => Answered(f, a)'
  BY <1>2 DEF Answered, Callee
<1>4. SUFFICES ASSUME NEW u \in Threads, calls'[u] # <<>>
               PROVE  \E f, a : f = calls'[u][Len(calls'[u])] /\ a = answer'[u] /\ Answered(f, a)'
  BY AnswerFrom
<1>5. CASE u # t
  <2>1. calls'[u] = calls[u] /\ answer'[u] = answer[u]
    BY <1>1, <1>5 DEF TopReturns, OthersKeep, DataOK
  <2>2. PICK f, a : f = Top(u) /\ a = answer[u]
    OBVIOUS
  <2>3. Answered(f, a) /\ f = calls'[u][Len(calls'[u])]
    BY <1>1, <1>4, <2>1, <2>2, TopIsFrame DEF AnswerInv
  <2> QED
    BY <1>3, <2>1, <2>2, <2>3
<1>6. CASE u = t
  <2>1. /\ Len(calls'[t]) = Len(calls[t]) - 1 /\ calls'[t] \in Seq(Frames) /\ Len(calls[t]) \in Nat \ {0}
        /\ \A i \in 1 .. Len(calls[t]) - 1 : calls'[t][i] = calls[t][i]
        /\ answer'[t] = Len(klasses) + 1
    BY <1>1, TopIsFrame DEF TopReturns, OthersKeep, DataOK
  <2>2. Len(calls[t]) > 1 /\ calls'[t][Len(calls'[t])] = calls[t][Len(calls[t]) - 1]
    BY <1>4, <1>6, <2>1
  <2>3. PICK f, a, l, n : /\ f = calls[t][Len(calls[t]) - 1] /\ a = Len(klasses) + 1
                          /\ l = Callee(f).loader /\ n = Callee(f).name
    OBVIOUS
  <2>4. l = Top(t).loader /\ n = Top(t).name /\ Top(t).bytes = "none"
    BY <1>1, <2>2, <2>3, AnswersCaller
  <2>5. MayReturn(l, n, a)'
    BY <2>3, <2>4, LoadedGrows DEF MayReturn
  <2>6. Answered(f, a)'
    BY <2>3, <2>5 DEF Answered, Callee
  <2> QED
    BY <1>6, <2>1, <2>2, <2>3, <2>6
<1> QED
  BY <1>5, <1>6

\* The maps and the klasses name each other when a klass is constructed.
LEMMA MapsConstruct ==
  ASSUME LoadingAssumption, IInv, NEW t \in Threads, Constructs(t)
  PROVE  MapsInv'
<1> DEFINE k == Len(klasses) + 1
           f == Top(t)
<1>1. MapsInv /\ anonymous \subseteq 1 .. Len(klasses)
  BY DEF IInv, DataOK
<1>2. /\ f.name \in Names /\ f.name.cut = 0 /\ f.loader \in {"boot", "own"}
      /\ f.loader = "boot" => f.bytes # "anonymous" /\ f.name.elem \in Jar \cup Basics /\ ~f.name.dotted
      /\ f.loader = "own" /\ f.bytes # "anonymous" =>
           IF f.name.dotted THEN f.name.dim = 0 ELSE f.name.elem \in Files \cup Anonymous
      /\ f.bytes = "anonymous" => f.name.elem \in Anonymous /\ f.name.dim = 0
  BY ConstructIsFresh
<1>3. /\ k \in Nat /\ Len(klasses) \in Nat /\ Len(klasses') = k
      /\ \A i \in 1 .. Len(klasses) : klasses'[i].name = klasses[i].name
                                      /\ klasses'[i].anonymous = klasses[i].anonymous
      /\ klasses'[k].name = Plain(f.name) /\ (klasses'[k].anonymous <=> f.bytes = "anonymous")
  BY KlassFields
<1>4. 1 .. Len(klasses') = 1 .. Len(klasses) \cup {k}
  BY <1>3
<1>5. /\ Plain(f.name).cut = 0 /\ ~Plain(f.name).dotted /\ Plain(f.name).elem = f.name.elem
      /\ Plain(f.name).dim = f.name.dim /\ (~f.name.dotted => Plain(f.name) = f.name)
  BY <1>2, PlainFacts
<1>6. \A n \in DOMAIN system' : /\ system'[n] \in 1 .. Len(klasses') /\ n.elem \in Jar \cup Basics
                                /\ ~n.dotted /\ klasses'[system'[n]].name = n
  <2>1. \A n \in DOMAIN system' : \/ n \in DOMAIN system /\ system'[n] = system[n]
                                  \/ f.loader = "boot" /\ n = f.name /\ system'[n] = k
    BY MapsGrow
  <2> HIDE DEF k, f
  <2> QED
    BY <1>1, <1>2, <1>3, <1>4, <1>5, <2>1 DEF MapsInv
<1>7. \A n \in DOMAIN classmap' :
        /\ classmap'[n] \in 1 .. Len(klasses') /\ klasses'[classmap'[n]].name = Plain(n)
        /\ IF n.dotted THEN n.dim = 0 ELSE n.elem \in Files \cup Anonymous
  <2>1. \A n \in DOMAIN classmap' :
          \/ n \in DOMAIN classmap /\ classmap'[n] = classmap[n]
          \/ f.loader = "own" /\ f.bytes # "anonymous" /\ n = f.name /\ classmap'[n] = k
    BY MapsGrow
  <2> HIDE DEF k, f
  <2> QED
    BY <1>1, <1>2, <1>3, <1>4, <2>1 DEF MapsInv
<1>8. anonymous' = anonymous \cup (IF f.bytes = "anonymous" THEN {k} ELSE {})
  BY MapsGrow
<1>9. ASSUME NEW i \in 1 .. Len(klasses')
      PROVE  /\ klasses'[i].name.cut = 0 /\ ~klasses'[i].name.dotted
             /\ IF klasses'[i].anonymous
                  THEN klasses'[i].name.elem \in Anonymous /\ klasses'[i].name.dim = 0 /\ i \in anonymous'
                  ELSE i \in Kept'
  <2>1. CASE i \in 1 .. Len(klasses)
    <3>1. klasses'[i].name = klasses[i].name /\ klasses'[i].anonymous = klasses[i].anonymous
      BY <1>3, <2>1
    <3>2. /\ klasses[i].name.cut = 0 /\ ~klasses[i].name.dotted
          /\ IF klasses[i].anonymous
               THEN klasses[i].name.elem \in Anonymous /\ klasses[i].name.dim = 0 /\ i \in anonymous
               ELSE i \in Kept
      BY <1>1, <2>1 DEF MapsInv
    <3>3. i \in Kept => i \in Kept'
      BY LoadedGrows
    <3> QED
      BY <1>8, <3>1, <3>2, <3>3
  <2>2. CASE i = k
    <3>1. i \in Kept'
      BY <2>2, LoadedGrows
    <3> HIDE DEF k, f
    <3> QED
      BY <1>2, <1>3, <1>5, <1>8, <2>2, <3>1
  <2> QED
    BY <1>4, <2>1, <2>2
<1>10. \A i \in anonymous' : klasses'[i].anonymous
  BY <1>1, <1>3, <1>8 DEF MapsInv
<1> QED
  BY <1>6, <1>7, <1>9, <1>10 DEF MapsInv

\* The klasses are linked as they should when one is constructed.
LEMMA KlassesConstruct ==
  ASSUME LoadingAssumption, IInv, NEW t \in Threads, Constructs(t)
  PROVE  KlassesInv'
<1> DEFINE k == Len(klasses) + 1
           low == LowerOf(t)
           needs == NeedsOf(Top(t).loader, Top(t).name)
<1>1. MapsInv /\ KlassesInv /\ DataOK /\ NoKlass \notin Nat
  BY DEF IInv, LoadingAssumption
<1>2. /\ calls[t] # <<>> /\ Top(t).pc \in {"deps", "need"} /\ Top(t).todo = <<>>
      /\ ~(Top(t).pc = "need" /\ answer[t] = NoKlass)
  BY DEF Constructs
<1>3. /\ k \in Nat /\ Len(klasses) \in Nat /\ Len(klasses') = k
      /\ \A i \in 1 .. Len(klasses) :
           /\ klasses'[i].name = klasses[i].name /\ klasses'[i].needs = klasses[i].needs
           /\ klasses'[i].lower = klasses[i].lower
           /\ klasses'[i].higher = IF i = low THEN k ELSE klasses[i].higher
      /\ klasses'[k].name = Plain(Top(t).name) /\ klasses'[k].needs = Loaded(t)
      /\ klasses'[k].lower = low /\ klasses'[k].higher = NoKlass
  BY KlassFields
<1>4. low # NoKlass =>
        /\ low \in 1 .. Len(klasses) /\ Top(t).name.dim > 1 /\ Plain(Top(t).name) = Top(t).name
        /\ klasses[low].name = [Top(t).name EXCEPT !.dim = Top(t).name.dim - 1]
        /\ klasses[low].higher = NoKlass
  <2>1. SUFFICES ASSUME low # NoKlass
                 PROVE  /\ low \in 1 .. Len(klasses) /\ Top(t).name.dim > 1 /\ Plain(Top(t).name) = Top(t).name
                        /\ klasses[low].name = [Top(t).name EXCEPT !.dim = Top(t).name.dim - 1]
                        /\ klasses[low].higher = NoKlass
    OBVIOUS
  <2>2. Top(t).name.dim > 1 /\ Top(t).name \in Names
    BY <2>1, ConstructIsFresh DEF LowerOf
  <2> QED
    BY <1>2, <2>2, LowerIsFree, PlainFacts
<1>5. ASSUME NEW i \in 1 .. Len(klasses'), NEW j \in 1 .. Len(klasses'[i].needs)
      PROVE  klasses'[i].needs[j] \in Kept'
  <2>1. \A a \in Kept : a \in Kept'
    BY LoadedGrows
  <2>2. CASE i \in 1 .. Len(klasses)
    <3>1. klasses'[i].needs = klasses[i].needs
      BY <1>3, <2>2
    <3> QED
      BY <1>1, <2>1, <2>2, <3>1 DEF KlassesInv
  <2>3. CASE i = k
    <3>1. klasses'[i].needs = Loaded(t)
      BY <1>3, <2>3
    <3>2. PICK l, n : LoadedBy(l, n, Loaded(t)[j])
      BY <1>2, <1>5, <3>1, LoadedAreNeeds
    <3>3. Loaded(t)[j] \in Kept
      BY <1>1, <3>2, LoadedIsKlass
    <3> QED
      BY <2>1, <3>1, <3>3
  <2> QED
    BY <1>3, <2>2, <2>3
<1> HIDE DEF low, k
<1>6. ASSUME NEW i \in 1 .. Len(klasses'), klasses'[i].lower # NoKlass
      PROVE  LET l == klasses'[i].lower IN
               /\ l \in 1 .. Len(klasses') /\ klasses'[i].name.dim > 1
               /\ klasses'[l].name = [klasses'[i].name EXCEPT !.dim = klasses'[i].name.dim - 1]
               /\ klasses'[l].higher = i
  <2>1. CASE i \in 1 .. Len(klasses)
    <3>1. PICK l : l = klasses[i].lower
      OBVIOUS
    <3>2. /\ l \in 1 .. Len(klasses) /\ klasses[i].name.dim > 1
          /\ klasses[l].name = [klasses[i].name EXCEPT !.dim = klasses[i].name.dim - 1]
          /\ klasses[l].higher = i
      BY <1>1, <1>3, <1>6, <2>1, <3>1 DEF KlassesInv
    <3>3. l # low
      BY <1>3, <1>4, <1>1, <2>1, <3>2
    <3>4. l \in 1 .. Len(klasses') /\ klasses'[l].name = klasses[l].name /\ klasses'[l].higher = i
      BY <1>3, <3>2, <3>3 DEF k
    <3>5. klasses'[i].lower = l /\ klasses'[i].name = klasses[i].name
      BY <1>3, <2>1, <3>1
    <3> QED
      BY <3>2, <3>4, <3>5
  <2>2. CASE i = k
    <3>1. klasses'[i].lower = low /\ low # NoKlass /\ klasses'[i].name = Top(t).name
      BY <1>3, <1>4, <1>6, <2>2
    <3>2. low \in 1 .. Len(klasses') /\ klasses'[low].name = klasses[low].name /\ klasses'[low].higher = k
      BY <1>3, <1>4, <3>1 DEF k
    <3> QED
      BY <1>4, <2>2, <3>1, <3>2
  <2> QED
    BY <1>3, <2>1, <2>2 DEF k
<1>7. ASSUME NEW i \in 1 .. Len(klasses'), klasses'[i].higher # NoKlass
      PROVE  klasses'[i].higher \in 1 .. Len(klasses') /\ klasses'[klasses'[i].higher].lower = i
  <2>1. i \in 1 .. Len(klasses)
    BY <1>3, <1>7 DEF k
  <2>2. CASE i = low
    BY <1>3, <2>1, <2>2 DEF k
  <2>3. CASE i # low
    <3>1. PICK h : h = klasses[i].higher
      OBVIOUS
    <3>2. klasses'[i].higher = h /\ h # NoKlass
      BY <1>3, <1>7, <2>1, <2>3, <3>1
    <3>3. h \in 1 .. Len(klasses) /\ klasses[h].lower = i
      BY <1>1, <2>1, <3>1, <3>2 DEF KlassesInv
    <3> QED
      BY <1>3, <3>2, <3>3 DEF k
  <2> QED
    BY <2>2, <2>3
<1> QED
  BY <1>5, <1>6, <1>7 DEF KlassesInv

-----------------------------------------------------------------------------
(* The invariant.                                                           *)

\* Nothing happens once the process has ended, and the requests are bounded.
LEMMA NextIsGuarded ==
  ASSUME LoadingAssumption, DataOK, Next
  PROVE  fate = "runs" /\ requests' \in 0 .. Requests
<1>1. PICK t \in Threads :
        \/ Step(t)
        \/ ForClassName(t) \/ Resolve(t) \/ FindLoadedClass(t) \/ FindBootStrapClass(t)
        \/ DefineClass(t) \/ DefineAnonymousClass(t)
  BY DEF Next
<1>2. requests \in 0 .. Requests /\ Requests \in Nat
  BY DEF DataOK, LoadingAssumption
<1>3. CASE Step(t)
  BY <1>2, <1>3 DEF Step, Acquire, BootLook, OwnLook, OwnAsked, LoadNeed, GiveUp, Construct, Find,
     FindInClassmap, Ask, HandOn, At
<1>4. ASSUME NEW c, Enter(t, c)
      PROVE  fate = "runs" /\ requests' \in 0 .. Requests
  BY <1>2, <1>4 DEF Enter
<1> QED
  BY <1>1, <1>3, <1>4 DEF ForClassName, Resolve, FindLoadedClass, FindBootStrapClass, DefineClass,
     DefineAnonymousClass

\* The invariant holds at first.
LEMMA InitInv ==
  ASSUME LoadingAssumption, Init
  PROVE  IInv
<1>1. DataOK
  BY DEF Init, DataOK, LoadingAssumption
<1>2. LocksInv
  <2>1. \A k, t : t \in Threads => Held(t, k) = {}
    BY DEF Init, Held
  <2>2. Cardinality({}) = 0
    BY FS_EmptySet
  <2>3. \A k \in {"system", "own"} : locks[k].owner = Free /\ locks[k].depth = 0
    BY DEF Init
  <2> QED
    BY <2>1, <2>2, <2>3 DEF LocksInv, LoadingAssumption
<1>3. StackInv /\ NamesInv /\ ProgressInv /\ AnswerInv
  BY DEF Init, StackInv, Chained, NamesInv, Named, ProgressInv, AnswerInv
<1>4. MapsInv /\ KlassesInv
  BY DEF Init, MapsInv, KlassesInv
<1>5. fate # "aborted" /\ EndsAreKnown
  BY DEF Init, EndsAreKnown
<1> QED
  BY <1>1, <1>2, <1>3, <1>4, <1>5 DEF IInv

\* What is said of the maps and the klasses stays while they do, and what is said of the calls.
LEMMA MapsKeep ==
  ASSUME MapsInv, KlassesInv, UNCHANGED <<klasses, system, classmap, anonymous>>
  PROVE  MapsInv' /\ KlassesInv'
<1>1. Kept' = Kept
  BY DEF Kept
<1>2. MapsInv'
  BY <1>1 DEF MapsInv
<1>3. KlassesInv'
  BY <1>1 DEF KlassesInv
<1> QED
  BY <1>2, <1>3

LEMMA CallsKeep ==
  ASSUME ProgressInv, AnswerInv, UNCHANGED <<klasses, system, classmap, anonymous, calls, answer>>
  PROVE  ProgressInv' /\ AnswerInv'
<1>1. \A u \in Threads : \A i \in 1 .. Len(calls'[u]) : \E f : f = calls'[u][i] /\ InProgress(f)'
  BY QuietKeeps DEF ProgressInv
<1>2. \A u \in Threads : calls'[u] # <<>> =>
        \E f, a : f = calls'[u][Len(calls'[u])] /\ a = answer'[u] /\ Answered(f, a)'
  BY QuietKeeps DEF AnswerInv, Top, Last
<1> QED
  BY <1>1, <1>2, ProgressFrom, AnswerFrom

\* The invariant holds after a step that neither constructs nor ends the process.
LEMMA QuietInv ==
  ASSUME LoadingAssumption, IInv, NEW t \in Threads, fate = "runs", requests' \in 0 .. Requests,
         \/ Acquires(t) \/ Begins(t) \/ Asks(t) \/ Wants(t) \/ Enters(t)
         \/ \E r : Returns(t, r)
  PROVE  IInv'
<1>1. DataOK /\ MapsInv /\ KlassesInv
  BY DEF IInv
<1>2. UNCHANGED <<klasses, system, classmap, anonymous, fate>>
  BY DEF Acquires, Begins, Asks, Wants, Enters, Returns, Quiet
<1>3. \/ Acquires(t) \/ Begins(t) \/ Asks(t) \/ Wants(t) \/ Enters(t)
      \/ Top(t).pc # "lock" /\ \E r : TopReturns(t, r)
  BY DEF Returns
<1>4. /\ locks' \in [{"system", "own"} -> [owner : Threads \cup {Free}, depth : Nat]]
      /\ LocksInv' /\ StackInv' /\ NamesInv' /\ ProgressInv' /\ AnswerInv'
  BY <1>2, <1>3, LocksStep, StackStep, NamesStep, NamesFrom, ProgressStep, AnswerStep
<1>5. calls' \in [Threads -> Seq(Frames)]
  BY DEF Acquires, Begins, Asks, Wants, Enters, Returns, TopBecomes, TopCalls, TopReturns, OthersKeep
<1>6. answer' \in [Threads -> Nat \cup {NoKlass}]
  <2>1. \/ answer' = answer
        \/ \E r \in Nat \cup {NoKlass} : answer' = [answer EXCEPT ![t] = r]
    BY DEF Acquires, Begins, Asks, Wants, Enters, Returns, TopReturns
  <2> QED
    BY <1>1, <2>1 DEF DataOK
<1>7. DataOK'
  BY <1>1, <1>2, <1>4, <1>5, <1>6 DEF DataOK
<1>8. MapsInv' /\ KlassesInv'
  BY <1>1, <1>2, MapsKeep
<1>9. fate' # "aborted" /\ EndsAreKnown'
  BY <1>2 DEF EndsAreKnown
<1> QED
  BY <1>4, <1>7, <1>8, <1>9 DEF IInv

\* The invariant holds after a construction.
LEMMA ConstructInv ==
  ASSUME LoadingAssumption, IInv, NEW t \in Threads, fate = "runs", requests' \in 0 .. Requests,
         Constructs(t)
  PROVE  IInv'
<1>1. DataOK /\ klasses' \in Seq(Klasses) /\ Len(klasses) \in Nat /\ Len(klasses') = Len(klasses) + 1
  BY KlassesGrow DEF IInv
<1>2. TopReturns(t, Len(klasses) + 1) /\ Top(t).pc # "lock" /\ fate' = fate
  BY DEF Constructs
<1>3. /\ locks' \in [{"system", "own"} -> [owner : Threads \cup {Free}, depth : Nat]]
      /\ LocksInv' /\ StackInv' /\ NamesInv'
  <2>1. \A i \in 1 .. Len(klasses) : i \in 1 .. Len(klasses') /\ klasses'[i].name = klasses[i].name
    BY <1>1, KlassFields
  <2> QED
    BY <1>2, <2>1, LocksStep, StackStep, NamesStep, NamesFrom
<1>4. ProgressInv' /\ AnswerInv' /\ MapsInv' /\ KlassesInv'
  BY ProgressConstruct, AnswerConstruct, MapsConstruct, KlassesConstruct
<1>5. calls' \in [Threads -> Seq(Frames)] /\ answer' \in [Threads -> Nat \cup {NoKlass}]
  BY <1>1, <1>2 DEF TopReturns, OthersKeep, DataOK
<1>6. Top(t).name \in Names
  BY ConstructIsFresh
<1>7. DOMAIN system' \subseteq Names /\ DOMAIN classmap' \subseteq Names
  <2>1. /\ DOMAIN system' = DOMAIN system \cup (IF Top(t).loader = "boot" THEN {Top(t).name} ELSE {})
        /\ DOMAIN classmap' = DOMAIN classmap \cup
             (IF Top(t).loader = "own" /\ Top(t).bytes # "anonymous" THEN {Top(t).name} ELSE {})
    BY MapsGrow
  <2> QED
    BY <1>1, <1>6, <2>1 DEF DataOK
<1>8. anonymous' \subseteq 1 .. Len(klasses')
  <2>1. anonymous' = anonymous \cup (IF Top(t).bytes = "anonymous" THEN {Len(klasses) + 1} ELSE {})
    BY MapsGrow
  <2>2. \A i \in anonymous : i \in 1 .. Len(klasses)
    BY <1>1 DEF DataOK
  <2>3. ASSUME NEW i \in anonymous'
        PROVE  i \in 1 .. Len(klasses')
    <3>1. i \in anonymous \/ i = Len(klasses) + 1
      BY <2>1
    <3> QED
      BY <1>1, <2>2, <3>1
  <2> QED
    BY <2>3
<1>9. DataOK'
  BY <1>1, <1>2, <1>3, <1>5, <1>7, <1>8 DEF DataOK
<1>10. fate' # "aborted" /\ EndsAreKnown'
  BY <1>2 DEF EndsAreKnown
<1> QED
  BY <1>3, <1>4, <1>9, <1>10 DEF IInv

\* The invariant holds after the process has ended.
LEMMA EndInv ==
  ASSUME LoadingAssumption, IInv, requests' \in 0 .. Requests, Ends
  PROVE  IInv'
<1>1. /\ UNCHANGED <<klasses, system, classmap, anonymous, answer, locks, calls>>
      /\ fate' \in {"exited", "not found"} /\ EndsAreKnown'
  BY DEF Ends
<1>2. DataOK' /\ LocksInv' /\ StackInv'
  <2>1. DataOK'
    BY <1>1 DEF IInv, DataOK
  <2>2. LocksInv'
    <3>1. \A u, k : Held(u, k)' = Held(u, k)
      BY <1>1 DEF Held
    <3> QED
      BY <1>1, <3>1 DEF IInv, LocksInv
  <2>3. StackInv'
    BY <1>1 DEF IInv, StackInv
  <2> QED
    BY <2>1, <2>2, <2>3
<1>3. NamesInv'
  BY <1>1, NamesFrom DEF IInv, NamesInv
<1>4. ProgressInv' /\ AnswerInv' /\ MapsInv' /\ KlassesInv'
  BY <1>1, CallsKeep, MapsKeep DEF IInv
<1> QED
  BY <1>1, <1>2, <1>3, <1>4 DEF IInv

\* However many threads load however many classes of whatever dependencies: the invariant holds.
THEOREM Invariance ==
  ASSUME LoadingAssumption
  PROVE  Spec => []IInv
<1>1. Init => IInv
  BY InitInv
<1>2. IInv /\ [Next]_vars => IInv'
  <2> SUFFICES ASSUME IInv, [Next]_vars
               PROVE  IInv'
    OBVIOUS
  <2>1. CASE Next
    <3>1. fate = "runs" /\ requests' \in 0 .. Requests
      BY <2>1, NextIsGuarded DEF IInv
    <3>2. PICK t \in Threads :
            \/ Acquires(t) \/ Begins(t) \/ Asks(t) \/ Wants(t) \/ Constructs(t) \/ Enters(t) \/ Ends
            \/ \E r : Returns(t, r)
      BY <2>1, StepKinds
    <3> QED
      BY <3>1, <3>2, QuietInv, ConstructInv, EndInv
  <2>2. CASE UNCHANGED vars
    <3>1. DataOK' /\ LocksInv' /\ StackInv'
      <4>1. DataOK'
        BY <2>2 DEF vars, IInv, DataOK
      <4>2. LocksInv'
        <5>1. \A u, k : Held(u, k)' = Held(u, k)
          BY <2>2 DEF vars, Held
        <5> QED
          BY <2>2, <5>1 DEF vars, IInv, LocksInv
      <4>3. StackInv'
        BY <2>2 DEF vars, IInv, StackInv
      <4> QED
        BY <4>1, <4>2, <4>3
    <3>4. NamesInv'
      BY <2>2, NamesFrom DEF vars, IInv, NamesInv
    <3>2. ProgressInv' /\ AnswerInv' /\ MapsInv' /\ KlassesInv'
      BY <2>2, CallsKeep, MapsKeep DEF vars, IInv
    <3>3. fate' # "aborted" /\ EndsAreKnown'
      BY <2>2 DEF vars, IInv, EndsAreKnown
    <3> QED
      BY <3>1, <3>2, <3>3, <3>4 DEF IInv
  <2> QED
    BY <2>1, <2>2
<1> QED
  BY <1>1, <1>2, PTL DEF Spec

-----------------------------------------------------------------------------
(* What follows from the invariant.                                         *)

\* The state is of its type: every name in a map is the name of a klass that exists.
THEOREM TypeCorrect ==
  ASSUME LoadingAssumption
  PROVE  Spec => []TypeOK
<1>1. IInv => TypeOK
  BY DEF IInv, DataOK, MapsInv, TypeOK
<1> QED
  BY <1>1, Invariance, PTL

\* BootStrapClassLoader and AutomanClassLoader construct one klass for a name, however the loads
\* of the threads and the loads they cause interleave, but for a class that defineClass brought
\* under its name with dots: of two klasses with one name, one is in the map under the dotted one.
THEOREM OneKlass ==
  ASSUME LoadingAssumption
  PROVE  Spec => []OneKlassPerName
<1>1. ASSUME IInv
      PROVE  OneKlassPerName
  <2>1. DataOK /\ MapsInv /\ (Files \cup Anonymous) \cap (Jar \cup Basics) = {}
    BY <1>1 DEF IInv, LoadingAssumption
  <2>2. \A n : ~(n \in DOMAIN system /\ n \in DOMAIN classmap)
    BY <2>1 DEF MapsInv
  <2>3. ASSUME NEW i \in 1 .. Len(klasses), ~klasses[i].anonymous,
               ~\E n \in DOMAIN classmap : n.dotted /\ classmap[n] = i
        PROVE  LET n == klasses[i].name
               IN \/ n \in DOMAIN system /\ system[n] = i
                  \/ n \in DOMAIN classmap /\ classmap[n] = i
    <3>1. i \in Kept /\ i \notin anonymous
      BY <2>1, <2>3 DEF MapsInv
    <3>2. CASE \E n \in DOMAIN system : system[n] = i
      BY <2>1, <3>2 DEF MapsInv
    <3>3. CASE \E n \in DOMAIN classmap : classmap[n] = i
      <4>1. PICK n \in DOMAIN classmap : classmap[n] = i
        BY <3>3
      <4>2. klasses[i].name = Plain(n) /\ ~n.dotted /\ n \in Names
        BY <2>1, <2>3, <4>1 DEF MapsInv, DataOK
      <4> QED
        BY <4>1, <4>2, PlainFacts
    <3> QED
      BY <3>1, <3>2, <3>3 DEF Kept
  <2>4. ASSUME NEW i \in 1 .. Len(klasses), NEW j \in 1 .. Len(klasses),
               klasses[i].name = klasses[j].name, ~klasses[i].anonymous, ~klasses[j].anonymous
        PROVE  i = j \/ \E n \in DOMAIN classmap : n.dotted /\ classmap[n] \in {i, j}
    BY <2>2, <2>3, <2>4
  <2> QED
    BY <2>2, <2>4 DEF OneKlassPerName
<1> QED
  BY <1>1, Invariance, PTL

\* A klass in a map has its own name, but for the dots, and what it needs was put into a map
\* before it.
THEOREM NeedsComeFirst ==
  ASSUME LoadingAssumption
  PROVE  Spec => []NeedsAreLoaded
<1>1. ASSUME IInv
      PROVE  NeedsAreLoaded
  <2>1. DataOK /\ MapsInv /\ KlassesInv /\ klasses \in Seq(Klasses)
    BY <1>1 DEF IInv, DataOK
  <2>2. ASSUME NEW i \in 1 .. Len(klasses), NEW k \in ToSet(klasses[i].needs)
        PROVE  k \in Kept
    <3>1. klasses[i].needs \in Seq(Nat \cup {NoKlass})
      <4>1. klasses[i] \in Klasses
        BY <2>1
      <4> QED
        BY <4>1 DEF Klasses
    <3>2. PICK j \in 1 .. Len(klasses[i].needs) : k = klasses[i].needs[j]
      BY <2>2, <3>1 DEF ToSet
    <3> QED
      BY <2>1, <3>2 DEF KlassesInv
  <2>3. \A n \in DOMAIN system : system[n] \in 1 .. Len(klasses) /\ klasses[system[n]].name = Plain(n)
    BY <2>1, PlainFacts DEF MapsInv, DataOK
  <2>4. \A n \in DOMAIN classmap :
          classmap[n] \in 1 .. Len(klasses) /\ klasses[classmap[n]].name = Plain(n)
    BY <2>1 DEF MapsInv
  <2> QED
    BY <2>2, <2>3, <2>4 DEF NeedsAreLoaded
<1> QED
  BY <1>1, Invariance, PTL

\* The dimensions of an array type are linked both ways, and setting the higher dimension of a
\* klass never meets one that is set: the assertion holds.
THEOREM AssertionHolds ==
  ASSUME LoadingAssumption
  PROVE  Spec => []DimensionsAreChained
<1>1. ASSUME IInv
      PROVE  DimensionsAreChained
  <2>1. KlassesInv /\ fate # "aborted"
    BY <1>1 DEF IInv
  <2> QED
    BY <2>1 DEF KlassesInv, DimensionsAreChained
<1> QED
  BY <1>1, Invariance, PTL

\* A load ends the process only for an array with more than one dimension of a class that is not
\* in the jar, for a class that only defineClass brought, and for a class that Class.forName asks
\* the bootstrap loader for and that it does not have.
THEOREM EndsForKnownReasons ==
  ASSUME LoadingAssumption
  PROVE  Spec => []EndsAreKnown
<1>1. IInv => EndsAreKnown
  BY DEF IInv
<1> QED
  BY <1>1, Invariance, PTL

\* Who holds the lock of the bootstrap loader and waits for the other one is in findLoadedClass.
LEMMA WrongOrder ==
  ASSUME LoadingAssumption, IInv, NEW t \in Threads, calls[t] # <<>>, Top(t).pc = "lock",
         LockOf(Top(t).loader) = "own", locks["system"].owner = t
  PROVE  calls[t][1].loader = "find"
<1>1. DataOK /\ LocksInv /\ StackInv
  BY DEF IInv
<1>2. Top(t) = calls[t][Len(calls[t])] /\ Len(calls[t]) \in Nat \ {0} /\ calls[t] \in Seq(Frames)
  BY <1>1, TopIsFrame
<1>3. Held(t, "system") # {}
  BY <1>1, OwnerHolds
<1>4. PICK i \in 1 .. Len(calls[t]) : calls[t][i].pc # "lock" /\ LockOf(calls[t][i].loader) = "system"
  BY <1>3 DEF Held
<1>5. i < Len(calls[t]) /\ Chained(calls[t])
  BY <1>1, <1>2, <1>4 DEF StackInv
<1>6. calls[t][i].loader \in {"boot", "find", "ask"} /\ Top(t).loader \notin {"boot", "find", "ask"}
  BY <1>4 DEF LockOf
<1>7. calls[t][i].loader \notin {"boot", "ask"} /\ (i > 1 => calls[t][i].loader # "find")
  BY <1>2, <1>5, <1>6, BelowTop
<1> QED
  BY <1>2, <1>6, <1>7

\* As long as no thread is in ClassLoader.findLoadedClass0 the two loaders never wait for each
\* other: the lock of the own loader comes before the one of the bootstrap loader.
THEOREM LockOrder ==
  ASSUME LoadingAssumption
  PROVE  Spec => []LoadersNeverDeadlock
<1>1. ASSUME IInv
      PROVE  LoadersNeverDeadlock
  <2> SUFFICES ASSUME \A t \in Threads : calls[t] # <<>> => calls[t][1].loader # "find",
                      NEW t \in Threads, NEW u \in Threads, Waits(t, u), Waits(u, t)
               PROVE  FALSE
    BY DEF LoadersNeverDeadlock, FindingEnds
  <2>1. /\ t # u /\ calls[t] # <<>> /\ Top(t).pc = "lock" /\ calls[u] # <<>> /\ Top(u).pc = "lock"
        /\ locks[LockOf(Top(t).loader)].owner = u /\ locks[LockOf(Top(u).loader)].owner = t
    BY DEF Waits
  <2>2. PICK a \in {"system", "own"}, b \in {"system", "own"} :
          a = LockOf(Top(t).loader) /\ b = LockOf(Top(u).loader)
    BY LockIsOne
  <2>3. a # b
    BY <2>1, <2>2
  <2>4. CASE a = "own"
    BY <1>1, <2>1, <2>2, <2>3, <2>4, WrongOrder
  <2>5. CASE b = "own"
    BY <1>1, <2>1, <2>2, <2>3, <2>5, WrongOrder
  <2> QED
    BY <2>2, <2>3, <2>4, <2>5
<1> QED
  BY <1>1, Invariance, PTL

\* What the run of the run-time system checks of the loaders, for any number of threads.
THEOREM WholeKlasses ==
  ASSUME LoadingAssumption
  PROVE  Spec => []KlassesAreOneAndWhole
<1>1. OneKlassPerName /\ NeedsAreLoaded /\ DimensionsAreChained /\ EndsAreKnown
        => KlassesAreOneAndWhole
  BY DEF KlassesAreOneAndWhole
<1> QED
  BY <1>1, OneKlass, NeedsComeFirst, AssertionHolds, EndsForKnownReasons, PTL
=============================================================================
