---------------------------- MODULE LinkingProofs ----------------------------
(***************************************************************************)
(* Proofs about Linking, for any hierarchy without a cycle and any class   *)
(* files. The lookups are recursive along the hierarchy: each recursion    *)
(* has one solution, and what is claimed of a lookup passes from the types *)
(* above a type to the type. The stores rest on the places: offsets number *)
(* the instance fields of a class and keep their values in subclasses.     *)
(***************************************************************************)
EXTENDS Linking, FiniteSetTheorems, TLAPS

-----------------------------------------------------------------------------
(* Recursive definitions. CHOOSE finds a solution of a recursion because one exists when every *)
(* chain of `below` ends.                                                                      *)

\* F computes the value at x from the values at what is below x.
IsRecursion(S, V, below, F) ==
  /\ below \in [S -> SUBSET S] /\ F \in [S \X [S -> V] -> V]
  /\ \A T \in SUBSET S : T = {} \/ \E x \in T : below[x] \cap T = {}
  /\ \A x \in S, f, g \in [S -> V] : (\A y \in below[x] : f[y] = g[y]) => F[<<x, f>>] = F[<<x, g>>]

\* f solves the recursion on a part that holds all below its elements.
Solves(S, V, below, F, f, D) ==
  /\ f \in [S -> V] /\ D \subseteq S /\ \A x \in D : below[x] \subseteq D /\ f[x] = F[<<x, f>>]

\* Two solutions agree where both are.
LEMMA SolutionsAgree ==
  ASSUME NEW S, NEW V, NEW below, NEW F, IsRecursion(S, V, below, F),
         NEW f, NEW D, Solves(S, V, below, F, f, D), NEW g, NEW E, Solves(S, V, below, F, g, E)
  PROVE  \A x \in D \cap E : f[x] = g[x]
<1>0. \A x \in S : \A p, q \in [S -> V] : (\A y \in below[x] : p[y] = q[y]) => F[<<x, p>>] = F[<<x, q>>]
  BY DEF IsRecursion
<1> DEFINE T == {x \in D \cap E : f[x] # g[x]}
<1> SUFFICES ASSUME T # {} PROVE FALSE
  OBVIOUS
<1>1. T \in SUBSET S
  BY DEF Solves
<1>2. PICK x \in T : below[x] \cap T = {}
  BY <1>1 DEF IsRecursion
<1>3. x \in D /\ x \in E /\ x \in S /\ below[x] \subseteq D \cap E
  BY DEF Solves
<1>4. \A y \in below[x] : f[y] = g[y]
  BY <1>2, <1>3
<1>5. f \in [S -> V] /\ g \in [S -> V] /\ f[x] = F[<<x, f>>] /\ g[x] = F[<<x, g>>]
  BY <1>3 DEF Solves
<1>6. F[<<x, f>>] = F[<<x, g>>]
  BY <1>0, <1>3, <1>4, <1>5
<1> QED
  BY <1>5, <1>6

\* A solution on everything exists: what a recursive definition names satisfies its equation.
LEMMA SolutionExists ==
  ASSUME NEW S, NEW V, NEW below, NEW F, IsRecursion(S, V, below, F), V # {}
  PROVE  \E f \in [S -> V] : \A x \in S : f[x] = F[<<x, f>>]
<1>0. \A x \in S : \A p, q \in [S -> V] : (\A y \in below[x] : p[y] = q[y]) => F[<<x, p>>] = F[<<x, q>>]
  BY DEF IsRecursion
<1> DEFINE Sol(f, D) == Solves(S, V, below, F, f, D)
           Value(x, v) == \E f, D : Sol(f, D) /\ x \in D /\ f[x] = v
           Dom == {x \in S : \E v : Value(x, v)}
           d == CHOOSE v \in V : TRUE
           g == [x \in S |-> IF x \in Dom THEN CHOOSE v : Value(x, v) ELSE d]
<1>1. ASSUME NEW f, NEW D, Sol(f, D), NEW x \in D
      PROVE  x \in Dom /\ g[x] = f[x] /\ f[x] \in V
  <2>1. x \in S /\ f[x] \in V
    BY <1>1 DEF Solves
  <2>2. Value(x, f[x])
    BY <1>1
  <2>3. x \in Dom
    BY <2>1, <2>2
  <2>4. PICK h, E : Sol(h, E) /\ x \in E /\ h[x] = CHOOSE v : Value(x, v)
    BY <2>2
  <2>5. h[x] = f[x]
    BY <1>1, <2>4, SolutionsAgree
  <2> QED
    BY <2>1, <2>3, <2>4, <2>5
<1>2. ASSUME NEW x \in Dom PROVE \E f, D : Sol(f, D) /\ x \in D
  BY <1>2
<1> HIDE DEF Value
<1>3. d \in V
  OBVIOUS
<1>4. g \in [S -> V]
  <2>1. ASSUME NEW x \in S PROVE g[x] \in V
    <3>1. CASE x \in Dom
      BY <3>1, <1>1, <1>2
    <3>2. CASE x \notin Dom
      BY <3>2, <1>3
    <3> QED
      BY <3>1, <3>2
  <2> QED
    BY <2>1
<1> HIDE DEF g, d
<1>5. Sol(g, Dom)
  <2>1. ASSUME NEW x \in Dom PROVE below[x] \subseteq Dom /\ g[x] = F[<<x, g>>]
    <3>1. PICK f, D : Sol(f, D) /\ x \in D
      BY <1>2
    <3>2. /\ f \in [S -> V] /\ x \in S /\ below[x] \subseteq D /\ f[x] = F[<<x, f>>]
      BY <3>1 DEF Solves
    <3>3. g[x] = f[x] /\ \A y \in below[x] : y \in Dom /\ g[y] = f[y]
      BY <1>1, <3>1, <3>2
    <3>4. F[<<x, g>>] = F[<<x, f>>]
      BY <1>0, <1>4, <3>2, <3>3
    <3> QED
      BY <3>2, <3>3, <3>4
  <2> QED
    BY <1>4, <2>1 DEF Solves
<1>6. Dom = S
  <2> SUFFICES ASSUME S \ Dom # {} PROVE FALSE
    OBVIOUS
  <2>1. PICK x \in S \ Dom : below[x] \cap (S \ Dom) = {}
    BY DEF IsRecursion
  <2> DEFINE h == [g EXCEPT ![x] = F[<<x, g>>]]
             E == Dom \cup {x}
  <2>2. below[x] \subseteq Dom
    BY <2>1 DEF IsRecursion
  <2>3. F[<<x, g>>] \in V
    BY <1>4 DEF IsRecursion
  <2>4. h \in [S -> V] /\ h[x] = F[<<x, g>>] /\ \A y \in Dom : h[y] = g[y]
    BY <1>4, <2>1, <2>3
  <2> HIDE DEF h
  <2>5. ASSUME NEW y \in E PROVE below[y] \subseteq E /\ h[y] = F[<<y, h>>]
    <3>1. y \in S /\ below[y] \subseteq Dom
      BY <1>5, <2>1, <2>2 DEF Solves
    <3>2. F[<<y, h>>] = F[<<y, g>>]
      BY <1>0, <1>4, <2>1, <2>4, <3>1
    <3>3. h[y] = F[<<y, g>>]
      BY <1>5, <2>4 DEF Solves
    <3> QED
      BY <3>1, <3>2, <3>3
  <2>6. Sol(h, E)
    BY <2>4, <2>5 DEF Solves
  <2> QED
    BY <1>1, <2>1, <2>6
<1> QED
  BY <1>4, <1>5, <1>6 DEF Solves

-----------------------------------------------------------------------------
(* The hierarchy.                                                           *)

\* What is assumed of the types, where the proofs need it.
LEMMA Hierarchy ==
  ASSUME LinkingAssumption
  PROVE  /\ Classes \cap Interfaces = {} /\ NoClass \notin Types
         /\ Parent \in [Types -> Classes \cup {NoClass}] /\ Implements \in [Types -> SUBSET Interfaces]
         /\ \A S \in SUBSET Types : S = {} \/ \E c \in S : Above(c) \cap S = {}
         /\ \A c \in Types : Above(c) = (Implements[c] \cup {Parent[c]}) \ {NoClass} /\ Above(c) \subseteq Types
<1>1. Parent \in [Types -> Classes \cup {NoClass}] /\ Implements \in [Types -> SUBSET Interfaces]
  BY DEF LinkingAssumption
<1>2. \A c \in Types : Above(c) = (Implements[c] \cup {Parent[c]}) \ {NoClass} /\ Above(c) \subseteq Types
  BY <1>1 DEF Above, Types
<1>3. \A S \in SUBSET Types : S = {} \/ \E c \in S : Above(c) \cap S = {}
  BY DEF LinkingAssumption
<1> QED
  BY <1>1, <1>2, <1>3 DEF LinkingAssumption

\* What passes from the types above a type to the type itself holds of every type.
LEMMA FromAbove ==
  ASSUME LinkingAssumption,
         NEW S, \A c \in Types : Above(c) \subseteq S => c \in S
  PROVE  Types \subseteq S
<1> SUFFICES ASSUME Types \ S # {} PROVE FALSE
  OBVIOUS
<1>1. PICK c \in Types \ S : Above(c) \cap (Types \ S) = {}
  BY Hierarchy
<1> QED
  BY <1>1, Hierarchy

\* A set of types and no type has an element with nothing of the set above it.
LEMMA EndsOfChains ==
  ASSUME LinkingAssumption,
         NEW T \in SUBSET (Types \cup {NoClass}), T # {}
  PROVE  NoClass \in T \/ \E c \in T : c \in Types /\ Above(c) \cap T = {}
BY Hierarchy

\* The chain of a type is the type and the chain of its superclass.
LEMMA ChainIs ==
  ASSUME LinkingAssumption
  PROVE  /\ Chain[NoClass] = {}
         /\ \A c \in Types : Chain[c] = {c} \cup Chain[Parent[c]]
<1> DEFINE S == Types \cup {NoClass}
           V == SUBSET Types
           below == [c \in S |-> IF c = NoClass THEN {} ELSE {Parent[c]}]
           F == [q \in S \X [S -> V] |-> IF q[1] = NoClass THEN {} ELSE {q[1]} \cup q[2][Parent[q[1]]]]
<1>1. below \in [S -> SUBSET S]
  BY Hierarchy DEF Types
<1>2. ASSUME NEW T \in SUBSET S, T # {} PROVE \E x \in T : below[x] \cap T = {}
  BY <1>2, EndsOfChains, Hierarchy
<1>3. ASSUME NEW c \in S, NEW f \in [S -> V] PROVE F[<<c, f>>] = IF c = NoClass THEN {} ELSE {c} \cup f[Parent[c]]
  OBVIOUS
<1>4. ASSUME NEW q \in S \X [S -> V] PROVE (IF q[1] = NoClass THEN {} ELSE {q[1]} \cup q[2][Parent[q[1]]]) \in V
  BY Hierarchy DEF Types
<1>5. F \in [S \X [S -> V] -> V]
  BY <1>4
<1>6. IsRecursion(S, V, below, F)
  <2>1. ASSUME NEW c \in S, NEW f \in [S -> V], NEW g \in [S -> V], \A y \in below[c] : f[y] = g[y]
        PROVE  F[<<c, f>>] = F[<<c, g>>]
    BY <2>1, <1>3
  <2> QED
    BY <1>1, <1>2, <1>5, <2>1 DEF IsRecursion
<1>7. PICK f \in [S -> V] : \A c \in S : f[c] = F[<<c, f>>]
  <2>1. V # {}
    OBVIOUS
  <2> HIDE DEF F, below, V, S
  <2> QED
    BY <1>6, <2>1, SolutionExists
<1>8. f = [c \in S |-> IF c = NoClass THEN {} ELSE {c} \cup f[Parent[c]]]
  <2>1. \A c \in S : f[c] = IF c = NoClass THEN {} ELSE {c} \cup f[Parent[c]]
    BY <1>3, <1>7
  <2> QED
    BY <2>1
<1>9. Chain = [c \in S |-> IF c = NoClass THEN {} ELSE {c} \cup Chain[Parent[c]]]
  BY <1>8 DEF Chain
<1> QED
  BY <1>9, Hierarchy

\* A superclass has its superclasses in the chain; nothing is its own superclass; the chain of
\* a class has classes only, that of an interface one more type.
LEMMA ChainOrder ==
  ASSUME LinkingAssumption
  PROVE  \A c \in Types : /\ c \in Chain[c] /\ Chain[c] \subseteq Types
                          /\ \A d \in Chain[c] : Chain[d] \subseteq Chain[c]
<1> DEFINE S == {c \in Types : /\ Chain[c] \subseteq Types
                               /\ \A d \in Chain[c] : Chain[d] \subseteq Chain[c]}
<1>1. ASSUME NEW c \in Types, Above(c) \subseteq S PROVE c \in S
  <2>1. Chain[c] = {c} \cup Chain[Parent[c]]
    BY ChainIs
  <2>2. CASE Parent[c] = NoClass
    BY <2>1, <2>2, ChainIs
  <2>3. CASE Parent[c] # NoClass
    <3>1. Parent[c] \in S
      BY <1>1, <2>3, Hierarchy
    <3> QED
      BY <2>1, <3>1
  <2> QED
    BY <2>2, <2>3
<1>2. Types \subseteq S
  <2> HIDE DEF S
  <2> QED
    BY <1>1, FromAbove
<1> QED
  BY <1>2, ChainIs

\* No type is its own superclass.
LEMMA NothingAboveItself ==
  ASSUME LinkingAssumption
  PROVE  \A c \in Types : c \notin Chain[Parent[c]]
<1> SUFFICES ASSUME NEW c \in Types, c \in Chain[Parent[c]] PROVE FALSE
  OBVIOUS
<1> DEFINE T == {d \in Types : d \in Chain[c] /\ c \in Chain[d]}
<1>1. c \in T
  BY ChainOrder
<1>2. PICK d \in T : Above(d) \cap T = {}
  BY <1>1, Hierarchy
<1>3. c \in Chain[Parent[d]]
  BY ChainIs
<1>4. Parent[d] # NoClass
  BY <1>3, ChainIs
<1>5. Parent[d] \in Above(d) /\ Parent[d] \in Types
  BY <1>4, Hierarchy
<1>6. Parent[d] \in Chain[c]
  BY <1>5, ChainIs, ChainOrder
<1> QED
  BY <1>2, <1>3, <1>5, <1>6

\* The superclasses of an interface, Object, are superclasses of every type.
LEMMA TopIsShared ==
  ASSUME LinkingAssumption
  PROVE  \A i \in Interfaces, c \in Types : Chain[i] \ {i} \subseteq Chain[c] /\ Chain[i] \ {i} \subseteq Classes
<1>1. PICK top \in Classes : /\ \A c \in Types : Parent[c] = NoClass <=> c = top
                             /\ \A i \in Interfaces : Parent[i] = top
  BY DEF LinkingAssumption
<1>2. Chain[top] = {top}
  BY <1>1, ChainIs DEF Types
<1>3. \A i \in Interfaces : Chain[i] = {i, top}
  BY <1>1, <1>2, ChainIs DEF Types
<1> DEFINE S == {c \in Types : top \in Chain[c]}
<1>4. ASSUME NEW c \in Types, Above(c) \subseteq S PROVE c \in S
  <2>1. CASE c = top
    BY <1>2, <2>1
  <2>2. CASE c # top
    BY <1>1, <1>4, <2>2, ChainIs, Hierarchy
  <2> QED
    BY <2>1, <2>2
<1>5. Types \subseteq S
  <2> HIDE DEF S
  <2> QED
    BY <1>4, FromAbove
<1> QED
  BY <1>3, <1>5

-----------------------------------------------------------------------------
(* What the searches answer, equation by equation.                          *)

\* A static field is found in the type that declares it.
LEMMA StaticHomeIs ==
  ASSUME LinkingAssumption
  PROVE  \A n : \A c \in Types : n \in DOMAIN slots[c] => StaticHome(n)[c] = c
<1> TAKE n
<1> DEFINE S == Types \cup {NoClass}
           End(c) == c = NoClass \/ n \in DOMAIN slots[c]
           below == [c \in S |-> IF c = NoClass THEN {} ELSE {Parent[c]}]
           F == [q \in S \X [S -> S] |-> IF End(q[1]) THEN q[1] ELSE q[2][Parent[q[1]]]]
<1> HIDE DEF End
<1>1. below \in [S -> SUBSET S]
  BY Hierarchy DEF Types
<1>2. ASSUME NEW T \in SUBSET S, T # {} PROVE \E x \in T : below[x] \cap T = {}
  BY <1>2, EndsOfChains, Hierarchy
<1>3. ASSUME NEW c \in S, NEW f \in [S -> S] PROVE F[<<c, f>>] = IF End(c) THEN c ELSE f[Parent[c]]
  OBVIOUS
<1>4. ASSUME NEW q \in S \X [S -> S] PROVE (IF End(q[1]) THEN q[1] ELSE q[2][Parent[q[1]]]) \in S
  BY Hierarchy DEF Types, End
<1>5. F \in [S \X [S -> S] -> S]
  BY <1>4
<1>6. IsRecursion(S, S, below, F)
  <2>1. ASSUME NEW c \in S, NEW f \in [S -> S], NEW g \in [S -> S], \A y \in below[c] : f[y] = g[y]
        PROVE  F[<<c, f>>] = F[<<c, g>>]
    BY <2>1, <1>3 DEF End
  <2> QED
    BY <1>1, <1>2, <1>5, <2>1 DEF IsRecursion
<1>7. PICK f \in [S -> S] : \A c \in S : f[c] = F[<<c, f>>]
  <2>1. S # {}
    OBVIOUS
  <2> HIDE DEF F, below, S
  <2> QED
    BY <1>6, <2>1, SolutionExists
<1>8. f = [c \in S |-> IF c = NoClass \/ n \in DOMAIN slots[c] THEN c ELSE f[Parent[c]]]
  <2>1. \A c \in S : f[c] = IF c = NoClass \/ n \in DOMAIN slots[c] THEN c ELSE f[Parent[c]]
    BY <1>3, <1>7 DEF End
  <2> QED
    BY <2>1
<1>9. StaticHome(n) = [c \in S |-> IF c = NoClass \/ n \in DOMAIN slots[c] THEN c ELSE StaticHome(n)[Parent[c]]]
  BY <1>8 DEF StaticHome
<1> QED
  BY <1>9

Fields(n, t, k) == <<k, n>> \in DOMAIN layout[t] \/ n \in DOMAIN slots[k]

\* Sets under names of their own.
Only(x) == {x}
Nothing == {}

\* What the search finds in the superinterfaces.
FoundAbove(n, k) == (UNION {FieldSearch(n)[<<i, i>>] : i \in Implements[k]}) \ {NoField}

\* get_field: the layout the search began with and the static fields of the type, then the
\* superinterfaces, then the superclass.
LEMMA FieldSearchIs ==
  ASSUME LinkingAssumption,
         NEW n, NEW t \in Types
  PROVE  /\ FieldSearch(n)[<<t, NoClass>>] = Only(NoField)
         /\ \A k \in Types :
              /\ Fields(n, t, k) => FieldSearch(n)[<<t, k>>] = Only(k)
              /\ ~Fields(n, t, k) /\ FoundAbove(n, k) # Nothing => FieldSearch(n)[<<t, k>>] = FoundAbove(n, k)
              /\ ~Fields(n, t, k) /\ FoundAbove(n, k) = Nothing =>
                   FieldSearch(n)[<<t, k>>] = FieldSearch(n)[<<t, Parent[k]>>]
<1> DEFINE S == Types \X (Types \cup {NoClass})
           V == SUBSET (Types \cup {NoField})
           Sup(f, k) == (UNION {f[<<i, i>>] : i \in Implements[k]}) \ {NoField}
           G(p, f) == IF p[2] = NoClass THEN {NoField}
                      ELSE IF Fields(n, p[1], p[2]) THEN {p[2]}
                      ELSE IF Sup(f, p[2]) # {} THEN Sup(f, p[2]) ELSE f[<<p[1], Parent[p[2]]>>]
           below == [p \in S |-> IF p[2] = NoClass THEN {}
                                 ELSE {<<i, i>> : i \in Implements[p[2]]} \cup {<<p[1], Parent[p[2]]>>}]
           F == [q \in S \X [S -> V] |-> G(q[1], q[2])]
<1>0. ASSUME NEW p \in S, p[2] # NoClass
      PROVE  /\ p[1] \in Types /\ p[2] \in Types /\ p = <<p[1], p[2]>>
             /\ Implements[p[2]] \subseteq Types /\ Parent[p[2]] \in Types \cup {NoClass}
             /\ Implements[p[2]] \subseteq Above(p[2])
             /\ Parent[p[2]] # NoClass => Parent[p[2]] \in Above(p[2])
  BY <1>0, Hierarchy DEF Types
<1>1. below \in [S -> SUBSET S]
  BY <1>0
<1>2. ASSUME NEW T \in SUBSET S, T # {} PROVE \E x \in T : below[x] \cap T = {}
  <2> DEFINE K == {p[2] : p \in T}
  <2>1. K \in SUBSET (Types \cup {NoClass}) /\ K # {}
    BY <1>2
  <2>2. CASE NoClass \in K
    BY <2>2
  <2>3. CASE \E k \in K : k \in Types /\ Above(k) \cap K = {} /\ NoClass \notin K
    <3>1. PICK p \in T : p[2] \in Types /\ Above(p[2]) \cap K = {} /\ NoClass \notin K
      BY <2>3
    <3>2. \A q \in below[p] : q[2] \in Above(p[2]) \cup {NoClass}
      BY <1>0, <3>1, Hierarchy
    <3>3. \A q \in T : q[2] \in K
      OBVIOUS
    <3> HIDE DEF K, below
    <3> QED
      BY <3>1, <3>2, <3>3
  <2> QED
    <3> HIDE DEF K
    <3> QED
      BY <2>1, <2>2, <2>3, EndsOfChains
<1>3. ASSUME NEW p \in S, NEW f \in [S -> V] PROVE F[<<p, f>>] = G(p, f)
  <2> HIDE DEF G, S, V
  <2> QED
    BY <1>3
<1>4. ASSUME NEW p \in S, NEW f \in [S -> V] PROVE G(p, f) \in V
  <2>1. CASE p[2] = NoClass
    BY <2>1
  <2>2. CASE p[2] # NoClass
    <3>1. f[<<p[1], Parent[p[2]]>>] \in V
      BY <1>0, <2>2
    <3>2. \A i \in Implements[p[2]] : f[<<i, i>>] \in V
      BY <1>0, <2>2
    <3>3. Sup(f, p[2]) \in V
      BY <3>2
    <3> HIDE DEF Sup
    <3> QED
      BY <1>0, <2>2, <3>1, <3>3
  <2> QED
    BY <2>1, <2>2
<1>5. F \in [S \X [S -> V] -> V]
  <2> HIDE DEF G, S, V
  <2> QED
    BY <1>4
<1>6. IsRecursion(S, V, below, F)
  <2>1. ASSUME NEW p \in S, NEW f \in [S -> V], NEW g \in [S -> V], \A y \in below[p] : f[y] = g[y]
        PROVE  F[<<p, f>>] = F[<<p, g>>]
    <3>1. CASE p[2] = NoClass
      BY <3>1, <1>3
    <3>2. CASE p[2] # NoClass
      <4>1. \A i \in Implements[p[2]] : f[<<i, i>>] = g[<<i, i>>]
        BY <1>0, <2>1, <3>2
      <4>2. f[<<p[1], Parent[p[2]]>>] = g[<<p[1], Parent[p[2]]>>]
        BY <1>0, <2>1, <3>2
      <4>3. Sup(f, p[2]) = Sup(g, p[2])
        BY <4>1
      <4>4. G(p, f) = G(p, g)
        <5> HIDE DEF Sup
        <5> QED
          BY <4>2, <4>3
      <4> HIDE DEF F, G, S, V
      <4> QED
        BY <1>3, <2>1, <4>4
    <3> QED
      BY <3>1, <3>2
  <2> QED
    BY <1>1, <1>2, <1>5, <2>1 DEF IsRecursion
<1>7. PICK f \in [S -> V] : \A p \in S : f[p] = F[<<p, f>>]
  <2>1. V # {}
    OBVIOUS
  <2> HIDE DEF F, below, V, S
  <2> QED
    BY <1>6, <2>1, SolutionExists
<1>8. \A p \in S : f[p] = G(p, f)
  <2> HIDE DEF F, G, S, V
  <2> QED
    BY <1>3, <1>7
<1>9. f = [p \in S |-> G(p, f)]
  <2> HIDE DEF G
  <2> QED
    BY <1>8
<1>10. FieldSearch(n) = [p \in S |-> G(p, FieldSearch(n))]
  BY <1>9 DEF FieldSearch, Fields
<1>11. \A p \in S : FieldSearch(n)[p] = G(p, FieldSearch(n))
  <2> HIDE DEF G
  <2> QED
    BY <1>10
<1>12. FieldSearch(n)[<<t, NoClass>>] = {NoField}
  BY <1>11
<1>13. ASSUME NEW k \in Types
       PROVE  /\ Fields(n, t, k) => FieldSearch(n)[<<t, k>>] = Only(k)
              /\ ~Fields(n, t, k) /\ FoundAbove(n, k) # Nothing => FieldSearch(n)[<<t, k>>] = FoundAbove(n, k)
              /\ ~Fields(n, t, k) /\ FoundAbove(n, k) = Nothing =>
                   FieldSearch(n)[<<t, k>>] = FieldSearch(n)[<<t, Parent[k]>>]
  <2>1. FieldSearch(n)[<<t, k>>] = G(<<t, k>>, FieldSearch(n)) /\ k # NoClass
    BY <1>11, Hierarchy
  <2> QED
    BY <2>1 DEF FoundAbove, Only, Nothing
<1> QED
  BY <1>12, <1>13 DEF Only

\* What Java finds in the superinterfaces.
ResolvedAbove(n, c) == (UNION {Resolved(n)[i] : i \in Implements[c]}) \ {NoField}

\* JVMS 5.4.3.2: the declaration, then the superinterfaces, then the superclass.
LEMMA ResolvedIs ==
  ASSUME LinkingAssumption
  PROVE  \A n : /\ Resolved(n)[NoClass] = Only(NoField)
                /\ \A c \in Types :
                     /\ Declares(c, n, FieldKinds) => Resolved(n)[c] = Only(c)
                     /\ ~Declares(c, n, FieldKinds) /\ ResolvedAbove(n, c) # Nothing => Resolved(n)[c] = ResolvedAbove(n, c)
                     /\ ~Declares(c, n, FieldKinds) /\ ResolvedAbove(n, c) = Nothing => Resolved(n)[c] = Resolved(n)[Parent[c]]
<1> TAKE n
<1> DEFINE S == Types \cup {NoClass}
           V == SUBSET (Types \cup {NoField})
           Has(c) == Declares(c, n, FieldKinds)
           Sup(f, c) == (UNION {f[i] : i \in Implements[c]}) \ {NoField}
           G(c, f) == IF c = NoClass THEN {NoField} ELSE IF Has(c) THEN {c}
                      ELSE IF Sup(f, c) # {} THEN Sup(f, c) ELSE f[Parent[c]]
           below == [c \in S |-> IF c = NoClass THEN {} ELSE Implements[c] \cup {Parent[c]}]
           F == [q \in S \X [S -> V] |-> G(q[1], q[2])]
<1> HIDE DEF Has
<1>0. ASSUME NEW c \in S, c # NoClass
      PROVE  c \in Types /\ Implements[c] \subseteq Types /\ Parent[c] \in S
  BY <1>0, Hierarchy DEF Types
<1>1. below \in [S -> SUBSET S]
  BY <1>0
<1>2. ASSUME NEW T \in SUBSET S, T # {} PROVE \E x \in T : below[x] \cap T = {}
  <2>1. CASE NoClass \in T
    BY <2>1
  <2>2. CASE NoClass \notin T
    <3>1. PICK c \in T : c \in Types /\ Above(c) \cap T = {}
      BY <1>2, <2>2, EndsOfChains
    <3>2. below[c] \subseteq Above(c) \cup {NoClass}
      BY <3>1, Hierarchy
    <3> HIDE DEF below
    <3> QED
      BY <2>2, <3>1, <3>2
  <2> QED
    BY <2>1, <2>2
<1>3. ASSUME NEW c \in S, NEW f \in [S -> V] PROVE F[<<c, f>>] = G(c, f)
  <2> HIDE DEF G, S, V
  <2> QED
    BY <1>3
<1>4. ASSUME NEW c \in S, NEW f \in [S -> V] PROVE G(c, f) \in V
  <2>1. CASE c = NoClass
    BY <2>1
  <2>2. CASE c # NoClass
    <3>1. f[Parent[c]] \in V
      BY <1>0, <2>2
    <3>2. \A i \in Implements[c] : f[i] \in V
      BY <1>0, <2>2
    <3>3. Sup(f, c) \in V
      BY <3>2
    <3> HIDE DEF Sup
    <3> QED
      BY <1>0, <2>2, <3>1, <3>3
  <2> QED
    BY <2>1, <2>2
<1>5. F \in [S \X [S -> V] -> V]
  <2> HIDE DEF G, S, V
  <2> QED
    BY <1>4
<1>6. IsRecursion(S, V, below, F)
  <2>1. ASSUME NEW c \in S, NEW f \in [S -> V], NEW g \in [S -> V], \A y \in below[c] : f[y] = g[y]
        PROVE  F[<<c, f>>] = F[<<c, g>>]
    <3>1. CASE c = NoClass
      BY <3>1, <1>3
    <3>2. CASE c # NoClass
      <4>1. (\A i \in Implements[c] : f[i] = g[i]) /\ f[Parent[c]] = g[Parent[c]]
        BY <2>1, <3>2
      <4>2. Sup(f, c) = Sup(g, c)
        BY <4>1
      <4>3. G(c, f) = G(c, g)
        <5> HIDE DEF Sup
        <5> QED
          BY <4>1, <4>2
      <4> HIDE DEF F, G, S, V
      <4> QED
        BY <1>3, <2>1, <4>3
    <3> QED
      BY <3>1, <3>2
  <2> QED
    BY <1>1, <1>2, <1>5, <2>1 DEF IsRecursion
<1>7. PICK f \in [S -> V] : \A c \in S : f[c] = F[<<c, f>>]
  <2>1. V # {}
    OBVIOUS
  <2> HIDE DEF F, below, V, S
  <2> QED
    BY <1>6, <2>1, SolutionExists
<1>8. \A c \in S : f[c] = G(c, f)
  <2> HIDE DEF F, G, S, V
  <2> QED
    BY <1>3, <1>7
<1>9. f = [c \in S |-> G(c, f)]
  <2> HIDE DEF G
  <2> QED
    BY <1>8
<1>10. Resolved(n) = [c \in S |-> G(c, Resolved(n))]
  BY <1>9 DEF Resolved, Has
<1>11. \A c \in S : Resolved(n)[c] = G(c, Resolved(n))
  <2> HIDE DEF G
  <2> QED
    BY <1>10
<1>12. Resolved(n)[NoClass] = {NoField}
  BY <1>11
<1>13. ASSUME NEW c \in Types
       PROVE  /\ Declares(c, n, FieldKinds) => Resolved(n)[c] = Only(c)
              /\ ~Declares(c, n, FieldKinds) /\ ResolvedAbove(n, c) # Nothing => Resolved(n)[c] = ResolvedAbove(n, c)
              /\ ~Declares(c, n, FieldKinds) /\ ResolvedAbove(n, c) = Nothing => Resolved(n)[c] = Resolved(n)[Parent[c]]
  <2>1. Resolved(n)[c] = G(c, Resolved(n)) /\ c # NoClass
    BY <1>11, Hierarchy
  <2> QED
    BY <2>1 DEF Has, ResolvedAbove, Only, Nothing
<1> QED
  BY <1>12, <1>13 DEF Only

\* get_interface_method: the interface, then what is above it.
LEMMA InterfaceMethodIs ==
  ASSUME LinkingAssumption
  PROVE  \A i \in Types :
           InterfaceMethod[i] =
             IF Declared(i) THEN {i} ELSE IF Parent[i] = NoClass THEN {NoMethod, Wild}
             ELSE (UNION {InterfaceMethod[j] : j \in Implements[i]}) \cup InterfaceMethod[Parent[i]]
<1> DEFINE S == Types
           V == SUBSET (Types \cup {NoMethod, Wild})
           Sup(f, i) == UNION ({f[j] : j \in Implements[i]} \cup (IF Parent[i] = NoClass THEN {} ELSE {f[Parent[i]]}))
           G(i, f) == IF Declared(i) THEN {i} ELSE IF Parent[i] = NoClass THEN {NoMethod, Wild} ELSE Sup(f, i)
           below == [i \in S |-> Above(i)]
           F == [q \in S \X [S -> V] |-> G(q[1], q[2])]
<1>1. below \in [S -> SUBSET S]
  BY Hierarchy
<1>2. ASSUME NEW T \in SUBSET S, T # {} PROVE \E x \in T : below[x] \cap T = {}
  BY <1>2, Hierarchy
<1>3. ASSUME NEW i \in S, NEW f \in [S -> V] PROVE F[<<i, f>>] = G(i, f)
  <2> HIDE DEF G, S, V
  <2> QED
    BY <1>3
<1>4. ASSUME NEW i \in S, NEW f \in [S -> V] PROVE G(i, f) \in V
  <2>1. \A j \in Implements[i] : f[j] \in V
    BY Hierarchy DEF Types
  <2>2. Parent[i] # NoClass => f[Parent[i]] \in V
    BY Hierarchy DEF Types
  <2>3. Sup(f, i) \in V
    BY <2>1, <2>2
  <2> HIDE DEF Sup
  <2> QED
    BY <2>3
<1>5. F \in [S \X [S -> V] -> V]
  <2> HIDE DEF G, S, V
  <2> QED
    BY <1>4
<1>6. IsRecursion(S, V, below, F)
  <2>1. ASSUME NEW i \in S, NEW f \in [S -> V], NEW g \in [S -> V], \A y \in below[i] : f[y] = g[y]
        PROVE  F[<<i, f>>] = F[<<i, g>>]
    <3>1. (\A j \in Implements[i] : f[j] = g[j]) /\ (Parent[i] # NoClass => f[Parent[i]] = g[Parent[i]])
      <4>1. Implements[i] \subseteq Above(i) /\ (Parent[i] # NoClass => Parent[i] \in Above(i))
        BY Hierarchy DEF Types
      <4> QED
        BY <2>1, <4>1
    <3>2. {f[j] : j \in Implements[i]} = {g[j] : j \in Implements[i]}
      BY <3>1
    <3>3. Sup(f, i) = Sup(g, i)
      BY <3>1, <3>2
    <3> HIDE DEF Sup
    <3> QED
      BY <1>3, <3>3
  <2> QED
    BY <1>1, <1>2, <1>5, <2>1 DEF IsRecursion
<1>7. PICK f \in [S -> V] : \A i \in S : f[i] = F[<<i, f>>]
  <2>1. V # {}
    OBVIOUS
  <2> HIDE DEF F, below, V, S
  <2> QED
    BY <1>6, <2>1, SolutionExists
<1>8. \A i \in S : f[i] = G(i, f)
  <2> HIDE DEF F, G, S, V
  <2> QED
    BY <1>3, <1>7
<1>9. f = [i \in S |-> G(i, f)]
  <2> HIDE DEF G
  <2> QED
    BY <1>8
<1>10. InterfaceMethod = [i \in S |-> G(i, InterfaceMethod)]
  BY <1>9 DEF InterfaceMethod
<1>11. \A i \in S : InterfaceMethod[i] = G(i, InterfaceMethod)
  <2> HIDE DEF G
  <2> QED
    BY <1>10
<1>12. ASSUME NEW i \in Types, Parent[i] # NoClass
       PROVE  Sup(InterfaceMethod, i) = (UNION {InterfaceMethod[j] : j \in Implements[i]}) \cup InterfaceMethod[Parent[i]]
  BY <1>12
<1> HIDE DEF Sup
<1> QED
  BY <1>11, <1>12

\* get_class_method: the class, then the superclass, then the superinterfaces.
LEMMA ClassMethodIs ==
  ASSUME LinkingAssumption
  PROVE  \A c \in Classes :
           LET above == IF Parent[c] = NoClass THEN {NoMethod, Wild} ELSE ClassMethod[Parent[c]]
               beside == UNION {InterfaceMethod[i] : i \in Implements[c]}
           IN ClassMethod[c] = IF Declared(c) THEN {c}
                               ELSE IF NoMethod \in above /\ Implements[c] # {} THEN (above \ {NoMethod}) \cup beside
                               ELSE above
<1> DEFINE S == Classes
           Beside(c) == UNION {InterfaceMethod[i] : i \in Implements[c]}
           V == SUBSET (Types \cup {NoMethod, Wild} \cup UNION {Beside(c) : c \in Classes})
           Sup(f, c) == IF Parent[c] = NoClass THEN {NoMethod, Wild} ELSE f[Parent[c]]
           G(c, f) == IF Declared(c) THEN {c}
                      ELSE IF NoMethod \in Sup(f, c) /\ Implements[c] # {}
                        THEN (Sup(f, c) \ {NoMethod}) \cup Beside(c)
                      ELSE Sup(f, c)
           below == [c \in S |-> {Parent[c]} \ {NoClass}]
           F == [q \in S \X [S -> V] |-> G(q[1], q[2])]
<1>1. below \in [S -> SUBSET S]
  BY Hierarchy DEF Types
<1>2. ASSUME NEW T \in SUBSET S, T # {} PROVE \E x \in T : below[x] \cap T = {}
  <2>1. PICK c \in T : Above(c) \cap T = {}
    BY <1>2, Hierarchy DEF Types
  <2>2. below[c] \subseteq Above(c)
    BY Hierarchy DEF Types
  <2> HIDE DEF below
  <2> QED
    BY <2>1, <2>2
<1>3. ASSUME NEW c \in S, NEW f \in [S -> V] PROVE F[<<c, f>>] = G(c, f)
  <2> HIDE DEF G, S, V
  <2> QED
    BY <1>3
<1>4. ASSUME NEW c \in S, NEW f \in [S -> V] PROVE G(c, f) \in V
  <2>1. Sup(f, c) \in V
    BY Hierarchy DEF Types
  <2>2. Beside(c) \in V /\ {c} \in V
    BY DEF Types
  <2> HIDE DEF Sup, Beside
  <2> QED
    BY <2>1, <2>2
<1>5. F \in [S \X [S -> V] -> V]
  <2> HIDE DEF V, G
  <2> QED
    BY <1>4
<1>6. IsRecursion(S, V, below, F)
  <2>1. ASSUME NEW c \in S, NEW f \in [S -> V], NEW g \in [S -> V], \A y \in below[c] : f[y] = g[y]
        PROVE  F[<<c, f>>] = F[<<c, g>>]
    <3>1. Sup(f, c) = Sup(g, c)
      BY <2>1
    <3> HIDE DEF Sup, Beside, V, S
    <3> QED
      BY <1>3, <2>1, <3>1
  <2> HIDE DEF V, F, below
  <2> QED
    BY <1>1, <1>2, <1>5, <2>1 DEF IsRecursion
<1>7. PICK f \in [S -> V] : \A c \in S : f[c] = F[<<c, f>>]
  <2>1. V # {}
    OBVIOUS
  <2> HIDE DEF F, below, V, S
  <2> QED
    BY <1>6, <2>1, SolutionExists
<1>8. \A c \in S : f[c] = G(c, f)
  <2> HIDE DEF F, G, S, V
  <2> QED
    BY <1>3, <1>7
<1>9. f = [c \in S |-> G(c, f)]
  <2> HIDE DEF G
  <2> QED
    BY <1>8
<1>10. ClassMethod = [c \in S |-> G(c, ClassMethod)]
  BY <1>9 DEF ClassMethod
<1>11. \A c \in S : ClassMethod[c] = G(c, ClassMethod)
  <2> HIDE DEF G
  <2> QED
    BY <1>10
<1> QED
  BY <1>11

\* The interfaces an interface extends are itself and those its superinterfaces extend.
LEMMA ExtendedIs ==
  ASSUME LinkingAssumption
  PROVE  \A i \in Interfaces : Extended[i] = {i} \cup UNION {Extended[j] : j \in Implements[i]}
<1> DEFINE S == Interfaces
           V == SUBSET Interfaces
           G(i, f) == {i} \cup UNION {f[j] : j \in Implements[i]}
           below == [i \in S |-> Implements[i]]
           F == [q \in S \X [S -> V] |-> G(q[1], q[2])]
<1>1. below \in [S -> SUBSET S]
  BY Hierarchy DEF Types
<1>2. ASSUME NEW T \in SUBSET S, T # {} PROVE \E x \in T : below[x] \cap T = {}
  BY <1>2, Hierarchy DEF Types
<1>3. ASSUME NEW i \in S, NEW f \in [S -> V] PROVE F[<<i, f>>] = G(i, f)
  <2> HIDE DEF G, S, V
  <2> QED
    BY <1>3
<1>4. ASSUME NEW i \in S, NEW f \in [S -> V] PROVE G(i, f) \in V
  <2>1. \A j \in Implements[i] : f[j] \in V
    BY Hierarchy DEF Types
  <2> QED
    BY <2>1
<1>5. F \in [S \X [S -> V] -> V]
  <2> HIDE DEF G, S, V
  <2> QED
    BY <1>4
<1>6. IsRecursion(S, V, below, F)
  <2>1. ASSUME NEW i \in S, NEW f \in [S -> V], NEW g \in [S -> V], \A y \in below[i] : f[y] = g[y]
        PROVE  F[<<i, f>>] = F[<<i, g>>]
    <3>1. {f[j] : j \in Implements[i]} = {g[j] : j \in Implements[i]}
      BY <2>1
    <3>2. G(i, f) = G(i, g)
      BY <3>1
    <3> HIDE DEF F, G, S, V
    <3> QED
      BY <1>3, <2>1, <3>2
  <2> QED
    BY <1>1, <1>2, <1>5, <2>1 DEF IsRecursion
<1>7. PICK f \in [S -> V] : \A i \in S : f[i] = F[<<i, f>>]
  <2>1. V # {}
    OBVIOUS
  <2> HIDE DEF F, below, V, S
  <2> QED
    BY <1>6, <2>1, SolutionExists
<1>8. \A i \in S : f[i] = G(i, f)
  <2> HIDE DEF F, G, S, V
  <2> QED
    BY <1>3, <1>7
<1>9. f = [i \in S |-> G(i, f)]
  <2> HIDE DEF G
  <2> QED
    BY <1>8
<1> QED
  BY <1>9 DEF Extended

-----------------------------------------------------------------------------
(* Calls.                                                                   *)

Declaring(c) == {d \in Chain[c] : Declared(d)}
Reachable(c) == UNION {Extended[i] : i \in UNION {Implements[d] : d \in Chain[c]}}

\* Where Object has no such method an interface's search ends in an interface or at the pointer.
LEMMA InterfaceAnswers ==
  ASSUME LinkingAssumption,
         NEW top \in Classes, ~Declared(top), Parent[top] = NoClass, \A i \in Interfaces : Parent[i] = top
  PROVE  \A i \in Interfaces : InterfaceMethod[i] \subseteq {NoMethod, Wild} \cup {j \in Extended[i] : Declared(j)}
<1> DEFINE Ok(i) == InterfaceMethod[i] \subseteq {NoMethod, Wild} \cup {j \in Extended[i] : Declared(j)}
           S == {i \in Types : i \in Interfaces => Ok(i)}
<1>1. InterfaceMethod[top] = {NoMethod, Wild}
  BY InterfaceMethodIs DEF Types
<1>2. ASSUME NEW i \in Types, Above(i) \subseteq S PROVE i \in S
  <2> SUFFICES ASSUME i \in Interfaces PROVE Ok(i)
    BY <1>2
  <2>1. i \in Extended[i] /\ \A j \in Implements[i] : Extended[j] \subseteq Extended[i]
    BY ExtendedIs
  <2>2. Implements[i] \subseteq Above(i) \cap Interfaces /\ Parent[i] = top /\ top # NoClass
    BY Hierarchy DEF Types
  <2>3. \A j \in Implements[i] : Ok(j)
    BY <1>2, <2>2
  <2>4. \A j \in Implements[i] : InterfaceMethod[j] \subseteq {NoMethod, Wild} \cup {k \in Extended[i] : Declared(k)}
    BY <2>1, <2>3
  <2>5. CASE Declared(i)
    <3>1. InterfaceMethod[i] = {i}
      BY <2>5, InterfaceMethodIs
    <3> QED
      BY <2>1, <2>5, <3>1
  <2>6. CASE ~Declared(i)
    <3>1. InterfaceMethod[i] = (UNION {InterfaceMethod[j] : j \in Implements[i]}) \cup {NoMethod, Wild}
      BY <1>1, <2>2, <2>6, InterfaceMethodIs
    <3> QED
      BY <2>4, <3>1
  <2> QED
    BY <2>5, <2>6
<1>3. Types \subseteq S
  <2> HIDE DEF S
  <2> QED
    BY <1>2, FromAbove
<1> QED
  BY <1>3 DEF Types

\* The declaration of a superclass is found, and of several the first.
LEMMA SuperclassAnswers ==
  ASSUME LinkingAssumption
  PROVE  \A c \in Classes : Declaring(c) # {} =>
           \E d \in Declaring(c) : ClassMethod[c] = {d} /\ Declaring(c) \subseteq Chain[d]
<1> DEFINE Ok(c) == Declaring(c) # {} =>
                      \E d \in Declaring(c) : ClassMethod[c] = {d} /\ Declaring(c) \subseteq Chain[d]
           S == {c \in Types : c \in Classes => Ok(c)}
<1>1. ASSUME NEW c \in Types, Above(c) \subseteq S PROVE c \in S
  <2> SUFFICES ASSUME c \in Classes, Declaring(c) # {}
               PROVE  \E d \in Declaring(c) : ClassMethod[c] = {d} /\ Declaring(c) \subseteq Chain[d]
    BY <1>1
  <2>1. CASE Declared(c)
    <3>1. c \in Declaring(c) /\ Declaring(c) \subseteq Chain[c] /\ ClassMethod[c] = {c}
      BY <2>1, ChainOrder, ClassMethodIs DEF Declaring
    <3> QED
      BY <3>1
  <2>2. CASE ~Declared(c)
    <3>1. Parent[c] # NoClass /\ Declaring(c) = Declaring(Parent[c])
      BY <2>2, ChainIs DEF Declaring
    <3>2. Parent[c] \in Above(c) /\ Parent[c] \in Classes
      BY <3>1, Hierarchy
    <3>3. PICK d \in Declaring(c) : ClassMethod[Parent[c]] = {d} /\ Declaring(c) \subseteq Chain[d]
      BY <1>1, <3>1, <3>2
    <3>4. d # NoMethod
      <4>1. NoMethod \notin Types
        BY DEF LinkingAssumption
      <4>2. d \in Chain[c] /\ c \in Types
        BY <3>1, <3>3 DEF Declaring, Types
      <4> QED
        BY <4>1, <4>2, ChainOrder
    <3>5. ClassMethod[c] = {d}
      BY <2>2, <3>1, <3>3, <3>4, ClassMethodIs
    <3> QED
      BY <3>3, <3>5
  <2> QED
    BY <2>1, <2>2
<1>2. Types \subseteq S
  <2> HIDE DEF S
  <2> QED
    BY <1>1, FromAbove
<1> QED
  BY <1>2 DEF Types

\* Where no superclass has the method, the answer comes from the superinterfaces.
LEMMA SuperinterfaceAnswers ==
  ASSUME LinkingAssumption
  PROVE  \A c \in Classes : Declaring(c) = {} =>
           ClassMethod[c] \subseteq {NoMethod, Wild} \cup {i \in Reachable(c) : Declared(i)}
<1>0. PICK top \in Classes : /\ \A c \in Types : Parent[c] = NoClass <=> c = top
                             /\ \A i \in Interfaces : Parent[i] = top
  BY DEF LinkingAssumption
<1> DEFINE Ok(c) == Declaring(c) = {} =>
                      ClassMethod[c] \subseteq {NoMethod, Wild} \cup {i \in Reachable(c) : Declared(i)}
           S == {c \in Types : c \in Classes => top \in Chain[c] /\ Ok(c)}
<1>1. ASSUME NEW c \in Types, Above(c) \subseteq S PROVE c \in S
  <2> SUFFICES ASSUME c \in Classes
               PROVE  /\ top \in Chain[c]
                      /\ Declaring(c) = {} =>
                           ClassMethod[c] \subseteq {NoMethod, Wild} \cup {i \in Reachable(c) : Declared(i)}
    BY <1>1
  <2>1. Parent[c] # NoClass => Parent[c] \in Above(c) /\ Parent[c] \in Classes
    BY Hierarchy
  <2>2. top \in Chain[c]
    BY <1>0, <1>1, <2>1, ChainIs
  <2> SUFFICES ASSUME Declaring(c) = {}
               PROVE  ClassMethod[c] \subseteq {NoMethod, Wild} \cup {i \in Reachable(c) : Declared(i)}
    BY <2>2
  <2>3. ~Declared(c) /\ ~Declared(top)
    BY <2>2, ChainOrder DEF Declaring
  <2>4. \A i \in Interfaces : InterfaceMethod[i] \subseteq {NoMethod, Wild} \cup {j \in Extended[i] : Declared(j)}
    BY <1>0, <2>3, InterfaceAnswers DEF Types
  <2>5. Implements[c] \subseteq Interfaces /\ \A i \in Implements[c] : Extended[i] \subseteq Reachable(c)
    BY ChainIs, Hierarchy DEF Reachable
  <2>6. UNION {InterfaceMethod[i] : i \in Implements[c]} \subseteq {NoMethod, Wild} \cup {i \in Reachable(c) : Declared(i)}
    BY <2>4, <2>5
  <2>7. Parent[c] # NoClass =>
          ClassMethod[Parent[c]] \subseteq {NoMethod, Wild} \cup {i \in Reachable(c) : Declared(i)}
    <3> SUFFICES ASSUME Parent[c] # NoClass
                 PROVE  ClassMethod[Parent[c]] \subseteq {NoMethod, Wild} \cup {i \in Reachable(c) : Declared(i)}
      OBVIOUS
    <3>1. Chain[Parent[c]] \subseteq Chain[c]
      BY ChainIs
    <3>2. Declaring(Parent[c]) = {} /\ Reachable(Parent[c]) \subseteq Reachable(c)
      BY <3>1 DEF Declaring, Reachable
    <3>3. Ok(Parent[c])
      BY <1>1, <2>1
    <3> QED
      BY <3>2, <3>3
  <2>8. CASE Parent[c] = NoClass
    <3>1. ClassMethod[c] \subseteq {NoMethod, Wild} \cup UNION {InterfaceMethod[i] : i \in Implements[c]}
      <4> HIDE DEF S, Ok
      <4> QED
        BY <2>3, <2>8, ClassMethodIs
    <3> QED
      BY <2>6, <3>1
  <2>9. CASE Parent[c] # NoClass
    <3>1. ClassMethod[c] \subseteq ClassMethod[Parent[c]] \cup UNION {InterfaceMethod[i] : i \in Implements[c]}
      <4> HIDE DEF S, Ok
      <4> QED
        BY <2>3, <2>9, ClassMethodIs
    <3> QED
      BY <2>6, <2>7, <2>9, <3>1
  <2> QED
    BY <2>8, <2>9
<1>2. Types \subseteq S
  <2> HIDE DEF S
  <2> QED
    BY <1>1, FromAbove
<1> QED
  BY <1>2 DEF Types

\* get_class_method: invokeinterface runs the method Java selects, whatever the hierarchy.
LEMMA InterfaceCalls ==
  ASSUME LinkingAssumption
  PROVE  InterfaceCallsAreJavas
<1> SUFFICES ASSUME NEW c \in Linked \cap Classes
             PROVE  IF Declaring(c) # {} THEN \E d \in Declaring(c) : ClassMethod[c] = {d} /\ Declaring(c) \subseteq Chain[d]
                    ELSE ClassMethod[c] \ {NoMethod, Wild} \subseteq {i \in Reachable(c) : Declared(i)}
  BY DEF InterfaceCallsAreJavas, Declaring, Reachable
<1> QED
  BY SuperclassAnswers, SuperinterfaceAnswers

-----------------------------------------------------------------------------
(* The places of fields.                                                    *)

\* Counting the smaller elements numbers a finite set of numbers from 0.
LEMMA Ranks ==
  ASSUME NEW m \in Nat, NEW O \in SUBSET (1 .. m)
  PROVE  /\ Cardinality(O) \in Nat
         /\ \A p \in O : Cardinality({i \in O : i < p}) \in 0 .. Cardinality(O) - 1
         /\ \A p, q \in O : Cardinality({i \in O : i < p}) = Cardinality({i \in O : i < q}) => p = q
         /\ \A k \in 0 .. Cardinality(O) - 1 : \E p \in O : Cardinality({i \in O : i < p}) = k
<1> DEFINE B(p) == {i \in O : i < p}
           R == [p \in O |-> Cardinality(B(p))]
<1>1. IsFiniteSet(O)
  <2>1. IsFiniteSet(1 .. m)
    BY FS_Interval
  <2> QED
    BY <2>1, FS_Subset
<1>2. Cardinality(O) \in Nat
  BY <1>1, FS_CardinalityType
<1>3. ASSUME NEW p \in O
      PROVE  /\ IsFiniteSet(B(p)) /\ Cardinality(B(p)) \in Nat
             /\ Cardinality(B(p)) + 1 <= Cardinality(O)
             /\ \A q \in O : p < q => Cardinality(B(p)) + 1 <= Cardinality(B(q))
  <2>1. IsFiniteSet(B(p))
    BY <1>1, FS_Subset
  <2>2. Cardinality(B(p)) \in Nat
    BY <2>1, FS_CardinalityType
  <2>3. p \notin B(p)
    OBVIOUS
  <2>4. IsFiniteSet(B(p) \cup {p}) /\ Cardinality(B(p) \cup {p}) = Cardinality(B(p)) + 1
    <3> HIDE DEF B
    <3> QED
      BY <2>1, <2>3, FS_AddElement
  <2>5. B(p) \cup {p} \in SUBSET O
    OBVIOUS
  <2>6. ASSUME NEW q \in O, p < q PROVE Cardinality(B(p)) + 1 <= Cardinality(B(q))
    <3>1. B(p) \cup {p} \in SUBSET B(q)
      <4>1. p \in Int /\ q \in Int /\ \A i \in O : i \in Int /\ (i < p => i < q)
        BY <2>6
      <4> QED
        BY <2>6, <4>1
    <3>2. IsFiniteSet(B(q))
      BY <1>1, FS_Subset
    <3> HIDE DEF B
    <3> QED
      BY <2>4, <3>1, <3>2, FS_Subset
  <2>7. Cardinality(B(p)) + 1 <= Cardinality(O)
    <3> HIDE DEF B
    <3> QED
      BY <1>1, <2>4, <2>5, FS_Subset
  <2> QED
    BY <2>1, <2>2, <2>6, <2>7
<1> HIDE DEF B
<1>4. \A p \in O : Cardinality(B(p)) \in 0 .. Cardinality(O) - 1
  BY <1>2, <1>3
<1>5. ASSUME NEW p \in O, NEW q \in O, Cardinality(B(p)) = Cardinality(B(q)) PROVE p = q
  <2>1. p \in Int /\ q \in Int /\ Cardinality(B(p)) \in Nat /\ ~(p < q) /\ ~(q < p)
    BY <1>3, <1>5
  <2> QED
    BY <2>1
<1>6. R \in Injection(O, 0 .. Cardinality(O) - 1)
  <2>1. R \in [O -> 0 .. Cardinality(O) - 1]
    BY <1>4
  <2>2. \A p, q \in O : R[p] = R[q] => p = q
    BY <1>5
  <2> HIDE DEF R
  <2>3. IsInjective(R)
    BY <2>1, <2>2 DEF IsInjective
  <2> QED
    BY <2>1, <2>3 DEF Injection
<1>7. IsFiniteSet(0 .. Cardinality(O) - 1) /\ Cardinality(0 .. Cardinality(O) - 1) = Cardinality(O)
  <2> DEFINE C == Cardinality(O)
  <2>1. C \in Nat /\ C - 1 \in Int /\ 0 \in Int
    BY <1>2
  <2> HIDE DEF C
  <2>2. IsFiniteSet(0 .. C - 1) /\ Cardinality(0 .. C - 1) = IF 0 > C - 1 THEN 0 ELSE C - 1 - 0 + 1
    BY <2>1, FS_Interval
  <2>3. Cardinality(0 .. C - 1) = C
    BY <2>1, <2>2
  <2> QED
    BY <2>2, <2>3 DEF C
<1>8. R \in Surjection(O, 0 .. Cardinality(O) - 1)
  <2> HIDE DEF R
  <2> QED
    BY <1>6, <1>7, FS_Injection
<1>9. \A k \in 0 .. Cardinality(O) - 1 : \E p \in O : Cardinality(B(p)) = k
  BY <1>8 DEF Surjection
<1> QED
  BY <1>2, <1>4, <1>5, <1>9 DEF B

FieldNames(cf, kinds) == {cf.fields[i].name : i \in OfKind(cf, kinds)}

\* The fields of a class file.
LEMMA FieldsOf ==
  ASSUME LinkingAssumption,
         NEW c \in Types, NEW cf \in ClassFiles[c]
  PROVE  /\ cf # NoClass /\ Len(cf.fields) \in Nat
         /\ \A i \in 1 .. Len(cf.fields) : cf.fields[i].name \in Names /\ cf.fields[i].kind \in FieldKinds
         /\ \A i, j \in 1 .. Len(cf.fields) : cf.fields[i].name = cf.fields[j].name => i = j
         /\ \A i \in 1 .. Len(cf.fields) : c \in Interfaces => cf.fields[i].kind # "instance"
         /\ cf.method \in {"none", "public", "private", "static"}
<1>1. /\ cf # NoClass /\ cf.fields \in Seq([name : Names, kind : FieldKinds])
      /\ \A i, j \in 1 .. Len(cf.fields) : cf.fields[i].name = cf.fields[j].name => i = j
      /\ \A i \in 1 .. Len(cf.fields) : c \in Interfaces => cf.fields[i].kind # "instance"
      /\ cf.method \in {"none", "public", "private", "static"}
  BY DEF LinkingAssumption
<1>2. ASSUME NEW R, NEW s \in Seq(R) PROVE Len(s) \in Nat /\ \A i \in 1 .. Len(s) : s[i] \in R
  OBVIOUS
<1>3. Len(cf.fields) \in Nat /\ \A i \in 1 .. Len(cf.fields) : cf.fields[i] \in [name : Names, kind : FieldKinds]
  BY <1>1, <1>2
<1> QED
  BY <1>1, <1>3

\* Index numbers the fields of some kinds from 0.
LEMMA Indices ==
  ASSUME LinkingAssumption,
         NEW c \in Types, NEW cf \in ClassFiles[c], NEW kinds
  PROVE  /\ Cardinality(OfKind(cf, kinds)) \in Nat /\ FieldNames(cf, kinds) \subseteq Names
         /\ {Index(cf, kinds, n) : n \in FieldNames(cf, kinds)} = 0 .. Cardinality(OfKind(cf, kinds)) - 1
         /\ \A m, n \in FieldNames(cf, kinds) : Index(cf, kinds, m) = Index(cf, kinds, n) => m = n
<1> DEFINE O == OfKind(cf, kinds)
           B(p) == {i \in O : i < p}
           N == FieldNames(cf, kinds)
<1>1. \A i, j \in 1 .. Len(cf.fields) : cf.fields[i].name = cf.fields[j].name => i = j
  BY FieldsOf
<1>2. Len(cf.fields) \in Nat /\ O \in SUBSET (1 .. Len(cf.fields))
  BY FieldsOf DEF OfKind
<1>3. ASSUME NEW n \in N PROVE \E p \in O : cf.fields[p].name = n /\ Index(cf, kinds, n) = Cardinality(B(p))
  <2>1. PICK p \in O : cf.fields[p].name = n
    BY DEF FieldNames
  <2>2. \A j \in O : cf.fields[j].name = n => j = p
    BY <1>1, <1>2, <2>1
  <2>3. {i \in O : \E j \in O : i < j /\ cf.fields[j].name = n} = B(p)
    BY <2>1, <2>2
  <2> QED
    BY <2>1, <2>3 DEF Index
<1>4. ASSUME NEW p \in O PROVE \E n \in N : n \in Names /\ cf.fields[p].name = n /\ Index(cf, kinds, n) = Cardinality(B(p))
  <2> DEFINE n == cf.fields[p].name
  <2>1. n \in N /\ n \in Names
    BY <1>2, FieldsOf DEF FieldNames
  <2>2. PICK q \in O : cf.fields[q].name = n /\ Index(cf, kinds, n) = Cardinality(B(q))
    BY <1>3, <2>1
  <2>3. q = p
    BY <1>1, <1>2, <2>2
  <2> QED
    BY <2>1, <2>2, <2>3
<1>5. /\ Cardinality(O) \in Nat
      /\ \A p \in O : Cardinality(B(p)) \in 0 .. Cardinality(O) - 1
      /\ \A p, q \in O : Cardinality(B(p)) = Cardinality(B(q)) => p = q
      /\ \A k \in 0 .. Cardinality(O) - 1 : \E p \in O : Cardinality(B(p)) = k
  <2> HIDE DEF O
  <2> QED
    BY <1>2, Ranks
<1> HIDE DEF O, B
<1>6. N \subseteq Names
  BY <1>3, <1>4
<1>7. {Index(cf, kinds, n) : n \in N} = 0 .. Cardinality(O) - 1
  <2>1. ASSUME NEW n \in N PROVE Index(cf, kinds, n) \in 0 .. Cardinality(O) - 1
    BY <1>3, <1>5
  <2>2. ASSUME NEW k \in 0 .. Cardinality(O) - 1 PROVE \E n \in N : Index(cf, kinds, n) = k
    BY <1>4, <1>5
  <2> HIDE DEF N
  <2> QED
    BY <2>1, <2>2
<1>8. ASSUME NEW m \in N, NEW n \in N, Index(cf, kinds, m) = Index(cf, kinds, n) PROVE m = n
  <2>1. PICK p \in O : cf.fields[p].name = m /\ Index(cf, kinds, m) = Cardinality(B(p))
    BY <1>3
  <2>2. PICK q \in O : cf.fields[q].name = n /\ Index(cf, kinds, n) = Cardinality(B(q))
    BY <1>3
  <2> QED
    BY <1>5, <1>8, <2>1, <2>2
<1> QED
  BY <1>5, <1>6, <1>7, <1>8 DEF O

-----------------------------------------------------------------------------
(* The state of linked types.                                               *)

\* LocationsHoldJavasValues with the static field of a type read in that type.
Hold ==
  \A c \in Linked, n \in Names : <<c, n>> \notin stray =>
    /\ Declares(c, n, Static) => statics[c][slots[c][n]] = java[<<c, n>>]
    /\ object.klass # NoClass /\ c \in Chain[object.klass] /\ Declares(c, n, {"instance"}) =>
         object.fields[layout[object.klass][<<c, n>>]] = java[<<c, n>>]

Core == TypeOK /\ FilesInv /\ FieldsHaveTheirPlaces /\ PlacesInv /\ VtableInv

\* No linked type is missing.
LEMMA LinkedTypes ==
  ASSUME LinkingAssumption
  PROVE  Linked \subseteq Types /\ NoClass \notin Linked
BY Hierarchy DEF Linked

\* A linked type declares the names of its class file.
LEMMA DeclaresIs ==
  ASSUME NEW c \in Linked, NEW n, NEW kinds
  PROVE  Declares(c, n, kinds) <=> n \in FieldNames(file[c], kinds)
BY DEF Declares, FieldNames, OfKind

\* An instance field is not static and is not declared in an interface.
LEMMA KindsApart ==
  ASSUME LinkingAssumption,
         NEW c \in Types, NEW cf \in ClassFiles[c], NEW n \in FieldNames(cf, {"instance"})
  PROVE  n \notin FieldNames(cf, Static) /\ c \notin Interfaces
BY FieldsOf DEF FieldNames, OfKind, Static

\* The superclasses of a linked type are linked.
LEMMA ChainLinked ==
  ASSUME LinkingAssumption, FilesInv
  PROVE  \A c \in Linked : Chain[c] \subseteq Linked
<1> DEFINE S == {c \in Types : c \in Linked => Chain[c] \subseteq Linked}
<1>1. ASSUME NEW c \in Types, Above(c) \subseteq S PROVE c \in S
  <2> SUFFICES ASSUME c \in Linked PROVE Chain[c] \subseteq Linked
    OBVIOUS
  <2>1. CASE Parent[c] = NoClass
    BY <2>1, ChainIs
  <2>2. CASE Parent[c] # NoClass
    <3>1. Parent[c] \in Above(c) /\ Above(c) \subseteq Linked
      BY <2>2, Hierarchy DEF FilesInv
    <3>2. Chain[Parent[c]] \subseteq Linked
      BY <1>1, <3>1
    <3> QED
      BY <3>2, ChainIs
  <2> QED
    BY <2>1, <2>2
<1>2. Types \subseteq S
  <2> HIDE DEF S
  <2> QED
    BY <1>1, FromAbove
<1> QED
  BY <1>2, LinkedTypes

\* Static fields have indices of their own.
LEMMA SlotIs ==
  ASSUME LinkingAssumption,
         Core, NEW c \in Linked
  PROVE  /\ file[c] \in ClassFiles[c] /\ c \in Types
         /\ \A n : n \in DOMAIN slots[c] <=> Declares(c, n, Static)
         /\ \A n : n \in DOMAIN slots[c] => n \in Names /\ slots[c][n] \in Nat
         /\ \A m, n \in DOMAIN slots[c] : slots[c][m] = slots[c][n] => m = n
         /\ statics[c] \in [{slots[c][n] : n \in DOMAIN slots[c]} -> Values]
<1>1. file[c] \in ClassFiles[c] /\ c \in Types
  BY LinkedTypes DEF Core, TypeOK
<1>2. slots[c] = [n \in FieldNames(file[c], Static) |-> Index(file[c], Static, n)]
  BY DEF Core, PlacesInv, SlotsOf, FieldNames
<1>3. statics[c] \in [{slots[c][n] : n \in DOMAIN slots[c]} -> Values]
  BY DEF Core, PlacesInv
<1>4. \A n \in FieldNames(file[c], Static) : Index(file[c], Static, n) \in Nat
  BY <1>1, Indices
<1> QED
  BY <1>1, <1>2, <1>3, <1>4, DeclaresIs, Indices

\* Instance fields have places of their own, in subclasses too.
LEMMA PlaceIs ==
  ASSUME LinkingAssumption,
         Core, NEW c \in Linked, NEW d \in Chain[c], NEW n, Declares(d, n, {"instance"})
  PROVE  /\ d \in Linked /\ n \in Names
         /\ <<d, n>> \in DOMAIN layout[c] /\ <<d, n>> \in DOMAIN layout[d]
         /\ layout[d][<<d, n>>] = layout[c][<<d, n>>]
         /\ layout[c][<<d, n>>] \in 0 .. total[c] - 1
<1>1. d \in Linked /\ d \in Chain[d]
  BY ChainOrder, LinkedTypes DEF Declares
<1>2. n \in Names
  BY <1>1, DeclaresIs, Indices, SlotIs
<1>3. <<d, n>> \in DOMAIN layout[c] /\ <<d, n>> \in DOMAIN layout[d]
  BY <1>1, <1>2 DEF Core, FieldsHaveTheirPlaces
<1>4. /\ {layout[c][k] : k \in DOMAIN layout[c]} = 0 .. total[c] - 1
      /\ \A k \in DOMAIN layout[d] : layout[c][k] = layout[d][k]
  BY DEF Core, FieldsHaveTheirPlaces
<1> QED
  BY <1>1, <1>2, <1>3, <1>4

\* Two instance fields of an object share no place.
LEMMA PlacesApart ==
  ASSUME LinkingAssumption,
         Core, NEW c \in Linked, NEW d \in Chain[c], NEW n, Declares(d, n, {"instance"}),
         NEW e \in Chain[c], NEW m, Declares(e, m, {"instance"}), layout[c][<<d, n>>] = layout[c][<<e, m>>]
  PROVE  d = e /\ n = m
<1>1. <<d, n>> \in DOMAIN layout[c] /\ <<e, m>> \in DOMAIN layout[c]
  BY PlaceIs
<1>2. \A k, l \in DOMAIN layout[c] : layout[c][k] = layout[c][l] => k = l
  BY DEF Core, FieldsHaveTheirPlaces
<1> QED
  BY <1>1, <1>2

\* Reading a static field by name reads it in the type that declares it.
LEMMA LocationsAre ==
  ASSUME LinkingAssumption
  PROVE  Core => (LocationsHoldJavasValues <=> Hold)
<1> SUFFICES ASSUME Core PROVE LocationsHoldJavasValues <=> Hold
  OBVIOUS
<1>1. ASSUME NEW c \in Linked, NEW n, Declares(c, n, Static) PROVE GetStatic(c, n) = statics[c][slots[c][n]]
  BY <1>1, LinkedTypes, SlotIs, StaticHomeIs DEF GetStatic
<1>2. ASSUME object.klass # NoClass, NEW c \in Chain[object.klass], NEW n, Declares(c, n, {"instance"})
      PROVE  /\ GetField(c, n) = object.fields[layout[object.klass][<<c, n>>]]
             /\ UnsafeGet(c, n) = object.fields[layout[object.klass][<<c, n>>]]
  <2>1. object.klass \in Linked /\ total[object.klass] \in Nat
    BY <1>2, LinkedTypes DEF Core, TypeOK
  <2>2. /\ <<c, n>> \in DOMAIN layout[c]
        /\ layout[c][<<c, n>>] = layout[object.klass][<<c, n>>]
        /\ layout[object.klass][<<c, n>>] \in 0 .. total[object.klass] - 1
    <3>1. PICK k \in Linked : k = object.klass
      BY <2>1
    <3>2. c \in Chain[k] /\ Declares(c, n, {"instance"})
      BY <1>2, <3>1
    <3>3. /\ <<c, n>> \in DOMAIN layout[c] /\ layout[c][<<c, n>>] = layout[k][<<c, n>>]
          /\ layout[k][<<c, n>>] \in 0 .. total[k] - 1
      BY <3>2, PlaceIs
    <3> QED
      BY <3>1, <3>3
  <2>3. ObjectFieldOffset(c, n) = layout[object.klass][<<c, n>>] /\ ~StaticOffset(ObjectFieldOffset(c, n))
    BY <2>1, <2>2 DEF ObjectFieldOffset, AllFieldOffset, StaticOffset
  <2> QED
    BY <2>3 DEF GetField, Location, UnsafeGet
<1>3. ASSUME object.mirrored = Mirror, Mirror \in Linked, NEW n, Declares(Mirror, n, Static)
      PROVE  UnsafeGet(Mirror, n) = statics[Mirror][slots[Mirror][n]]
  <2>1. object.klass = Mirror
    BY <1>3, LinkedTypes DEF Core, TypeOK
  <2>2. total[Mirror] \in Nat /\ n \in DOMAIN slots[Mirror] /\ slots[Mirror][n] \in Nat
    <3>1. Mirror \in Types
      BY <1>3, LinkedTypes
    <3>2. total[Mirror] \in Nat
      BY <3>1 DEF Core, TypeOK
    <3>3. n \in DOMAIN slots[Mirror] /\ slots[Mirror][n] \in Nat
      BY <1>3, SlotIs
    <3> QED
      BY <3>2, <3>3
  <2>3. <<Mirror, n>> \notin DOMAIN layout[Mirror]
    <3>1. ~Declares(Mirror, n, {"instance"})
      BY <1>3, SlotIs, DeclaresIs, KindsApart
    <3>2. DOMAIN layout[Mirror] = {l \in Chain[Mirror] \X Names : Declares(l[1], l[2], {"instance"})}
      BY <1>3 DEF Core, FieldsHaveTheirPlaces
    <3> QED
      BY <3>1, <3>2
  <2>4. ObjectFieldOffset(Mirror, n) = slots[Mirror][n] + total[Mirror] /\ StaticOffset(ObjectFieldOffset(Mirror, n))
    BY <2>1, <2>2, <2>3 DEF ObjectFieldOffset, AllFieldOffset, StaticOffset
  <2> QED
    BY <2>1, <2>2, <2>4 DEF UnsafeGet
<1> QED
  BY <1>1, <1>2, <1>3 DEF LocationsHoldJavasValues, Hold

\* The invariant with its values stated so,
LEMMA InvariantIs ==
  ASSUME LinkingAssumption
  PROVE  IInv <=> Core /\ Hold /\ OnlyStaticsGoAstray
BY LocationsAre DEF IInv, Core

\* in the next state too.
LEMMA InvariantIsNext ==
  ASSUME LinkingAssumption
  PROVE  IInv' <=> Core' /\ Hold' /\ OnlyStaticsGoAstray'
BY InvariantIs, PTL

-----------------------------------------------------------------------------
(* The steps.                                                               *)

tables == <<file, layout, total, owned, slots, vtable>>

\* A step that links nothing keeps the tables; what it owes is the values.
LEMMA TablesKeep ==
  ASSUME Core, UNCHANGED tables,
         statics' = [c \in Types |-> statics'[c]],
         \A c \in Linked : statics'[c] \in [{slots[c][n] : n \in DOMAIN slots[c]} -> Values],
         java' \in [Types \X Names -> Values], \A l \in Types \X Names : l[1] \notin Linked => java'[l] = 0,
         ready' \subseteq Linked, stores' \in 0 .. Stores,
         object'.klass \in (Linked \cap Classes) \cup {NoClass},
         object' = [klass |-> object'.klass, fields |-> object'.fields, mirrored |-> object'.mirrored],
         object'.klass # NoClass => object'.fields \in [0 .. total[object'.klass] - 1 -> Values],
         object'.mirrored \in IF object'.klass = Mirror THEN Linked ELSE {NoClass},
         stray' \subseteq Types \X Names
  PROVE  Core'
<1>1. Linked' = Linked /\ \A c, n, kinds : Declares(c, n, kinds)' <=> Declares(c, n, kinds)
  BY DEF tables, Linked, Declares
<1>2. TypeOK'
  BY <1>1 DEF Core, TypeOK, tables
<1>3. FilesInv'
  BY <1>1 DEF Core, FilesInv, tables
<1>4. FieldsHaveTheirPlaces'
  BY <1>1 DEF Core, FieldsHaveTheirPlaces, tables
<1>5. PlacesInv'
  <2>1. ASSUME NEW c \in Linked
        PROVE  /\ slots'[c] = SlotsOf(file'[c]) /\ statics'[c] \in [{slots'[c][n] : n \in DOMAIN slots'[c]} -> Values]
               /\ \A k \in DOMAIN layout'[c] : owned'[c][layout'[c][k]] = (k[1] = c)
    <3>1. slots[c] = SlotsOf(file[c]) /\ \A k \in DOMAIN layout[c] : owned[c][layout[c][k]] = (k[1] = c)
      BY DEF Core, PlacesInv
    <3>2. file' = file /\ layout' = layout /\ owned' = owned /\ slots' = slots
      BY DEF tables
    <3>3. {slots'[c][n] : n \in DOMAIN slots'[c]} = {slots[c][n] : n \in DOMAIN slots[c]}
      BY <3>2
    <3>4. statics'[c] \in [{slots'[c][n] : n \in DOMAIN slots'[c]} -> Values]
      BY <3>3
    <3>5. slots'[c] = SlotsOf(file'[c])
      BY <3>1, <3>2
    <3>6. \A k \in DOMAIN layout'[c] : owned'[c][layout'[c][k]] = (k[1] = c)
      BY <3>1, <3>2
    <3> QED
      BY <3>4, <3>5, <3>6
  <2>2. \A c \in Linked' :
          /\ slots'[c] = SlotsOf(file'[c]) /\ statics'[c] \in [{slots'[c][n] : n \in DOMAIN slots'[c]} -> Values]
          /\ \A k \in DOMAIN layout'[c] : owned'[c][layout'[c][k]] = (k[1] = c)
    BY <1>1, <2>1
  <2> QED
    BY <2>2 DEF PlacesInv, SlotsOf, Index, OfKind
<1>6. VtableInv'
  BY <1>1 DEF Core, VtableInv, tables
<1> QED
  BY <1>2, <1>3, <1>4, <1>5, <1>6 DEF Core

\* Hold, of the next state, when a step links nothing.
LEMMA HoldsNext ==
  ASSUME UNCHANGED tables,
         \A c \in Linked, n \in Names :
           <<c, n>> \notin stray' /\ Declares(c, n, Static) => statics'[c][slots[c][n]] = java'[<<c, n>>],
         \A c \in Linked, n \in Names :
           (/\ <<c, n>> \notin stray' /\ object'.klass # NoClass
            /\ c \in Chain[object'.klass] /\ Declares(c, n, {"instance"})) =>
             object'.fields[layout[object'.klass][<<c, n>>]] = java'[<<c, n>>]
  PROVE  Hold'
<1>1. Linked' = Linked /\ \A c, n, kinds : Declares(c, n, kinds)' <=> Declares(c, n, kinds)
  BY DEF tables, Linked, Declares
<1> QED
  BY <1>1 DEF Hold, tables

\* The fields of a new object are 0, as in Java.
LEMMA NewInstanceKeeps ==
  ASSUME LinkingAssumption,
         Core, Hold, NEW c \in Classes, NewInstance(c)
  PROVE  Core' /\ Hold'
<1>1. /\ c \in Linked \cap Classes /\ object.klass = NoClass /\ UNCHANGED <<tables, statics, ready, stray, stores>>
      /\ \E m \in IF c = Mirror THEN Linked ELSE {NoClass} :
           object' = [klass |-> c, fields |-> [o \in 0 .. total[c] - 1 |-> 0], mirrored |-> m]
      /\ java' = [l \in DOMAIN java |-> IF Declares(l[1], l[2], {"instance"}) THEN 0 ELSE java[l]]
  BY DEF NewInstance, tables
<1>2. /\ java \in [Types \X Names -> Values] /\ 0 \in Values /\ c # NoClass
      /\ object'.klass = c /\ object'.fields \in [0 .. total[c] - 1 -> Values]
      /\ object' = [klass |-> object'.klass, fields |-> object'.fields, mirrored |-> object'.mirrored]
      /\ object'.mirrored \in IF object'.klass = Mirror THEN Linked ELSE {NoClass}
      /\ \A o \in 0 .. total[c] - 1 : object'.fields[o] = 0
  <2>1. PICK m \in IF c = Mirror THEN Linked ELSE {NoClass} :
          object' = [klass |-> c, fields |-> [o \in 0 .. total[c] - 1 |-> 0], mirrored |-> m]
    BY <1>1
  <2>2. java \in [Types \X Names -> Values] /\ 0 \in Values /\ c # NoClass
    BY <1>1, LinkedTypes DEF Core, TypeOK, LinkingAssumption
  <2>3. /\ object'.klass = c /\ object'.fields = [o \in 0 .. total[c] - 1 |-> 0] /\ object'.mirrored = m
        /\ object' = [klass |-> object'.klass, fields |-> object'.fields, mirrored |-> object'.mirrored]
    BY <2>1
  <2> QED
    BY <2>2, <2>3
<1>3. \A d \in Types, n \in Names :
        java'[<<d, n>>] = IF Declares(d, n, {"instance"}) THEN 0 ELSE java[<<d, n>>]
  BY <1>1, <1>2
<1>4. java' \in [Types \X Names -> Values]
  BY <1>1, <1>2
<1>5. \A l \in Types \X Names : l[1] \notin Linked => java'[l] = 0
  BY <1>1, <1>2 DEF Core, FilesInv
<1>6. Core'
  <2>1. /\ statics' = [d \in Types |-> statics'[d]] /\ ready' \subseteq Linked /\ stores' \in 0 .. Stores
        /\ stray' \subseteq Types \X Names
        /\ \A d \in Linked : statics'[d] \in [{slots[d][n] : n \in DOMAIN slots[d]} -> Values]
    <3>1. /\ statics = [d \in Types |-> statics[d]] /\ ready \subseteq Linked /\ stores \in 0 .. Stores
          /\ stray \subseteq Types \X Names
      BY DEF Core, TypeOK, FilesInv
    <3>2. \A d \in Linked : statics[d] \in [{slots[d][n] : n \in DOMAIN slots[d]} -> Values]
      BY DEF Core, PlacesInv
    <3> QED
      BY <1>1, <3>1, <3>2
  <2> QED
    BY <1>1, <1>2, <1>4, <1>5, <2>1, TablesKeep
<1>7. ASSUME NEW d \in Linked, NEW n \in Names, <<d, n>> \notin stray', Declares(d, n, Static)
      PROVE  statics'[d][slots[d][n]] = java'[<<d, n>>]
  <2>1. ~Declares(d, n, {"instance"}) /\ d \in Types
    BY <1>7, SlotIs, DeclaresIs, KindsApart
  <2> QED
    BY <1>1, <1>3, <1>7, <2>1 DEF Hold
<1>8. ASSUME NEW d \in Linked, NEW n \in Names, <<d, n>> \notin stray', d \in Chain[c], Declares(d, n, {"instance"})
      PROVE  object'.fields[layout[c][<<d, n>>]] = java'[<<d, n>>]
  BY <1>1, <1>2, <1>3, <1>8, PlaceIs, LinkedTypes
<1>9. Hold'
  BY <1>1, <1>2, <1>7, <1>8, HoldsNext
<1> QED
  BY <1>6, <1>9

\* A store to an instance field.
LEMMA StoreKeeps ==
  ASSUME LinkingAssumption,
         Core, Hold, UNCHANGED <<tables, statics, ready, stray>>, stores' \in 0 .. Stores,
         object.klass # NoClass, NEW t \in Chain[object.klass], NEW n, Declares(t, n, {"instance"}), NEW v \in Values,
         object' = [object EXCEPT !.fields[layout[object.klass][<<t, n>>]] = v],
         java' = [java EXCEPT ![<<t, n>>] = v]
  PROVE  Core' /\ Hold'
<1>1. PICK k \in Linked : k = object.klass /\ k \in Classes
  BY DEF Core, TypeOK
<1>2. /\ t \in Linked /\ n \in Names /\ layout[k][<<t, n>>] \in 0 .. total[k] - 1
  BY <1>1, PlaceIs
<1> DEFINE o == layout[k][<<t, n>>]
<1>3. /\ object = [klass |-> k, fields |-> object.fields, mirrored |-> object.mirrored]
      /\ object.fields \in [0 .. total[k] - 1 -> Values]
      /\ object.mirrored \in IF k = Mirror THEN Linked ELSE {NoClass}
  BY <1>1, LinkedTypes DEF Core, TypeOK
<1>4. object' = [klass |-> k, fields |-> [object.fields EXCEPT ![o] = v], mirrored |-> object.mirrored]
  BY <1>1, <1>3
<1>5. /\ object'.klass = k /\ object'.fields \in [0 .. total[k] - 1 -> Values]
      /\ object' = [klass |-> object'.klass, fields |-> object'.fields, mirrored |-> object'.mirrored]
      /\ object'.mirrored \in IF object'.klass = Mirror THEN Linked ELSE {NoClass}
      /\ \A p \in 0 .. total[k] - 1 : object'.fields[p] = IF p = o THEN v ELSE object.fields[p]
  <2>1. object'.klass = k /\ object'.fields = [object.fields EXCEPT ![o] = v] /\ object'.mirrored = object.mirrored
    BY <1>4
  <2>2. [object.fields EXCEPT ![o] = v] \in [0 .. total[k] - 1 -> Values]
    BY <1>3
  <2>3. \A p \in 0 .. total[k] - 1 : [object.fields EXCEPT ![o] = v][p] = IF p = o THEN v ELSE object.fields[p]
    BY <1>3
  <2> HIDE DEF o
  <2> QED
    BY <1>3, <1>4, <2>1, <2>2, <2>3
<1>6. java \in [Types \X Names -> Values]
  BY DEF Core, TypeOK
<1>7. /\ java' \in [Types \X Names -> Values]
      /\ \A d \in Types, m \in Names :
           java'[<<d, m>>] = IF d = t /\ m = n THEN v ELSE java[<<d, m>>]
  BY <1>2, <1>6, LinkedTypes
<1>8. \A l \in Types \X Names : l[1] \notin Linked => java'[l] = 0
  BY <1>2, <1>6, LinkedTypes DEF Core, FilesInv
<1>9. Core'
  <2>1. /\ statics' = [d \in Types |-> statics'[d]] /\ ready' \subseteq Linked /\ stray' \subseteq Types \X Names
        /\ \A d \in Linked : statics'[d] \in [{slots[d][m] : m \in DOMAIN slots[d]} -> Values]
    <3>1. statics = [d \in Types |-> statics[d]] /\ ready \subseteq Linked /\ stray \subseteq Types \X Names
      BY DEF Core, TypeOK, FilesInv
    <3>2. \A d \in Linked : statics[d] \in [{slots[d][m] : m \in DOMAIN slots[d]} -> Values]
      BY DEF Core, PlacesInv
    <3> QED
      BY <3>1, <3>2
  <2> QED
    BY <1>1, <1>5, <1>7, <1>8, <2>1, TablesKeep
<1>10. ASSUME NEW d \in Linked, NEW m \in Names, <<d, m>> \notin stray', Declares(d, m, Static)
       PROVE  statics'[d][slots[d][m]] = java'[<<d, m>>]
  <2>1. ~Declares(d, m, {"instance"}) /\ d \in Types
    BY <1>10, SlotIs, DeclaresIs, KindsApart
  <2>2. ~(d = t /\ m = n)
    BY <2>1
  <2> QED
    BY <1>7, <1>10, <2>1, <2>2 DEF Hold
<1>11. ASSUME NEW d \in Linked, NEW m \in Names, <<d, m>> \notin stray', d \in Chain[k], Declares(d, m, {"instance"})
       PROVE  object'.fields[layout[k][<<d, m>>]] = java'[<<d, m>>]
  <2>1. layout[k][<<d, m>>] \in 0 .. total[k] - 1 /\ d \in Types
    BY <1>11, PlaceIs, LinkedTypes
  <2>2. object.fields[layout[k][<<d, m>>]] = java[<<d, m>>]
    BY <1>1, <1>11, LinkedTypes DEF Hold
  <2>3. layout[k][<<d, m>>] = o <=> d = t /\ m = n
    BY <1>1, <1>11, PlacesApart
  <2> QED
    BY <1>5, <1>7, <2>1, <2>2, <2>3
<1>12. Hold'
  BY <1>1, <1>5, <1>10, <1>11, HoldsNext
<1> QED
  BY <1>9, <1>12

\* A store to a static field.
LEMMA StaticStoreKeeps ==
  ASSUME LinkingAssumption,
         Core, Hold, UNCHANGED <<tables, object, ready, stray>>, stores' \in 0 .. Stores,
         NEW t \in Linked, NEW n, Declares(t, n, Static), NEW v \in Values,
         statics' = [statics EXCEPT ![t][slots[t][n]] = v],
         java' = [java EXCEPT ![<<t, n>>] = v]
  PROVE  Core' /\ Hold'
<1>1. n \in DOMAIN slots[t] /\ n \in Names /\ t \in Types
  BY SlotIs
<1>2. statics = [c \in Types |-> statics[c]] /\ java \in [Types \X Names -> Values]
  BY DEF Core, TypeOK, FilesInv
<1>3. /\ statics' = [c \in Types |-> statics'[c]]
      /\ \A c \in Types : statics'[c] = IF c = t THEN [statics[t] EXCEPT ![slots[t][n]] = v] ELSE statics[c]
  BY <1>1, <1>2
<1>4. statics[t] \in [{slots[t][m] : m \in DOMAIN slots[t]} -> Values]
  BY SlotIs
<1>5. \A s \in {slots[t][m] : m \in DOMAIN slots[t]} : statics'[t][s] = IF s = slots[t][n] THEN v ELSE statics[t][s]
  BY <1>1, <1>3, <1>4
<1>6. \A c \in Linked : statics'[c] \in [{slots[c][m] : m \in DOMAIN slots[c]} -> Values]
  <2>1. statics'[t] \in [{slots[t][m] : m \in DOMAIN slots[t]} -> Values]
    BY <1>1, <1>3, <1>4
  <2> QED
    BY <1>3, <2>1, SlotIs
<1>7. /\ java' \in [Types \X Names -> Values]
      /\ \A d \in Types, m \in Names : java'[<<d, m>>] = IF d = t /\ m = n THEN v ELSE java[<<d, m>>]
  BY <1>1, <1>2
<1>8. \A l \in Types \X Names : l[1] \notin Linked => java'[l] = 0
  BY <1>1, <1>2 DEF Core, FilesInv
<1>9. Core'
  <2>1. /\ ready' \subseteq Linked /\ object'.klass \in (Linked \cap Classes) \cup {NoClass}
        /\ object' = [klass |-> object'.klass, fields |-> object'.fields, mirrored |-> object'.mirrored]
        /\ object'.klass # NoClass => object'.fields \in [0 .. total[object'.klass] - 1 -> Values]
        /\ object'.mirrored \in IF object'.klass = Mirror THEN Linked ELSE {NoClass}
        /\ stray' \subseteq Types \X Names
    BY DEF Core, TypeOK
  <2> QED
    BY <1>3, <1>6, <1>7, <1>8, <2>1, TablesKeep
<1>10. ASSUME NEW d \in Linked, NEW m \in Names, <<d, m>> \notin stray', Declares(d, m, Static)
       PROVE  statics'[d][slots[d][m]] = java'[<<d, m>>]
  <2>1. d \in Types /\ m \in DOMAIN slots[d] /\ statics[d][slots[d][m]] = java[<<d, m>>]
    BY <1>10, SlotIs DEF Hold
  <2>2. CASE d # t
    BY <1>3, <1>7, <2>1, <2>2
  <2>3. CASE d = t
    <3>1. slots[t][m] = slots[t][n] <=> m = n
      BY <1>1, <2>1, <2>3, SlotIs
    <3> QED
      BY <1>5, <1>7, <2>1, <2>3, <3>1
  <2> QED
    BY <2>2, <2>3
<1>11. ASSUME NEW d \in Linked, NEW m \in Names, <<d, m>> \notin stray', object.klass # NoClass,
              d \in Chain[object.klass], Declares(d, m, {"instance"})
       PROVE  object.fields[layout[object.klass][<<d, m>>]] = java'[<<d, m>>]
  <2>1. ~Declares(d, m, Static) /\ d \in Types
    BY <1>11, SlotIs, DeclaresIs, KindsApart
  <2>2. ~(d = t /\ m = n)
    BY <2>1
  <2> QED
    BY <1>7, <1>11, <2>1, <2>2 DEF Hold
<1>12. Hold'
  BY <1>10, <1>11, HoldsNext
<1> QED
  BY <1>9, <1>12

\* An instance field that resolution finds belongs to the type or a superclass.
LEMMA FieldAnswers ==
  ASSUME LinkingAssumption,
         Core, NEW n
  PROVE  \A k \in Types : \A t \in Types : \A a \in FieldSearch(n)[<<t, k>>] :
           Declares(a, n, {"instance"}) => a \in Chain[k]
<1> DEFINE Ok(k) == \A t \in Types : \A a \in FieldSearch(n)[<<t, k>>] : Declares(a, n, {"instance"}) => a \in Chain[k]
           S == {k \in Types : Ok(k)}
<1>1. ASSUME NEW k \in Types, Above(k) \subseteq S PROVE k \in S
  <2> SUFFICES ASSUME NEW t \in Types, NEW a \in FieldSearch(n)[<<t, k>>], Declares(a, n, {"instance"})
               PROVE  a \in Chain[k]
    OBVIOUS
  <2>1. a \in Types /\ a # NoField /\ a \notin Interfaces
    <3>1. a \in Linked
      BY DEF Declares
    <3>2. a \in Types /\ a \notin Interfaces
      BY <3>1, SlotIs, DeclaresIs, KindsApart
    <3> QED
      BY <3>2 DEF LinkingAssumption
  <2>2. a = k \/ a \in FoundAbove(n, k) \/ a \in FieldSearch(n)[<<t, Parent[k]>>]
    <3>1. \/ FieldSearch(n)[<<t, k>>] = Only(k) \/ FieldSearch(n)[<<t, k>>] = FoundAbove(n, k)
          \/ FieldSearch(n)[<<t, k>>] = FieldSearch(n)[<<t, Parent[k]>>]
      <4> HIDE DEF S, Ok
      <4> QED
        BY FieldSearchIs
    <3> QED
      BY <3>1 DEF Only
  <2>3. a = k \/ (\E i \in Implements[k] : a \in FieldSearch(n)[<<i, i>>]) \/ a \in FieldSearch(n)[<<t, Parent[k]>>]
    BY <2>2 DEF FoundAbove
  <2>4. CASE a = k
    BY <2>4, ChainOrder
  <2>5. ASSUME NEW i \in Implements[k], a \in FieldSearch(n)[<<i, i>>] PROVE a \in Chain[k]
    <3>1. i \in Interfaces /\ i \in Types /\ i \in Above(k)
      BY Hierarchy DEF Types
    <3>2. a \in Chain[i]
      BY <1>1, <2>5, <3>1
    <3>3. a # i
      BY <2>1, <3>1
    <3> QED
      BY <3>1, <3>2, <3>3, TopIsShared
  <2>6. CASE a \in FieldSearch(n)[<<t, Parent[k]>>]
    <3>1. Parent[k] # NoClass
      BY <2>1, <2>6, FieldSearchIs DEF Only
    <3>2. Parent[k] \in Above(k)
      BY <3>1, Hierarchy
    <3>3. a \in Chain[Parent[k]]
      BY <1>1, <2>6, <3>2
    <3> QED
      BY <3>3, ChainIs
  <2> QED
    BY <2>3, <2>4, <2>5, <2>6
<1>2. Types \subseteq S
  <2> HIDE DEF S
  <2> QED
    BY <1>1, FromAbove
<1> QED
  BY <1>2

\* putfield stores where Java stores.
LEMMA PutFieldKeeps ==
  ASSUME LinkingAssumption,
         Core, Hold, NEW c \in Types, NEW n \in Names, NEW v \in Values, PutField(c, n, v)
  PROVE  Core' /\ Hold'
<1>1. PICK t \in FieldOf(n)[c] :
        /\ t # NoField /\ Declares(t, n, {"instance"})
        /\ object' = [object EXCEPT !.fields[Location(t, n)] = v]
        /\ java' = [java EXCEPT ![<<t, n>>] = v]
  BY DEF PutField
<1>2. /\ object.klass # NoClass /\ c \in Chain[object.klass] /\ stores' = stores + 1 /\ stores < Stores
      /\ UNCHANGED <<tables, statics, ready, stray>>
  BY DEF PutField, tables
<1>3. object.klass \in Types
  BY <1>2, LinkedTypes DEF Core, TypeOK
<1>4. t \in Chain[object.klass]
  <2>1. t \in Chain[c]
    BY <1>1, FieldAnswers DEF FieldOf
  <2> QED
    BY <1>2, <1>3, <2>1, ChainOrder
<1>5. stores' \in 0 .. Stores
  BY <1>2 DEF Core, TypeOK, LinkingAssumption
<1> QED
  BY <1>1, <1>2, <1>4, <1>5, StoreKeeps DEF Location

\* putstatic stores where Java stores.
LEMMA PutStaticKeeps ==
  ASSUME LinkingAssumption,
         Core, Hold, NEW c \in Types, NEW n \in Names, NEW v \in Values, PutStatic(c, n, v)
  PROVE  Core' /\ Hold'
<1>1. PICK t \in FieldOf(n)[c] :
        /\ Declares(t, n, {"static"})
        /\ statics' = [statics EXCEPT ![StaticHome(n)[t]][slots[StaticHome(n)[t]][n]] = v]
        /\ java' = [java EXCEPT ![<<t, n>>] = v]
  BY DEF PutStatic
<1>2. stores' = stores + 1 /\ stores < Stores /\ UNCHANGED <<tables, object, ready, stray>>
  BY DEF PutStatic, tables
<1>3. t \in Linked /\ Declares(t, n, Static)
  BY <1>1 DEF Declares, Static
<1>4. StaticHome(n)[t] = t
  BY <1>3, SlotIs, StaticHomeIs
<1>5. stores' \in 0 .. Stores
  BY <1>2 DEF Core, TypeOK, LinkingAssumption
<1> QED
  BY <1>1, <1>2, <1>3, <1>4, <1>5, StaticStoreKeeps

\* The ConstantValue attributes reach the static fields that have them and no other.
LEMMA InitializeFinalsKeeps ==
  ASSUME LinkingAssumption,
         Core, Hold, NEW c \in Types, InitializeFinals(c)
  PROVE  Core' /\ Hold'
<1> DEFINE Final(s) == \E n \in Names : Declares(c, n, {"constant"}) /\ slots[c][n] = s
<1>1. /\ c \in Linked /\ ready' = ready \cup {c} /\ UNCHANGED <<tables, object, stray, stores>>
      /\ statics' = [statics EXCEPT ![c] = [s \in DOMAIN statics[c] |-> IF Final(s) THEN Constant ELSE statics[c][s]]]
      /\ java' = [l \in DOMAIN java |->
                    IF l[1] = c /\ Declares(c, l[2], {"constant"}) THEN Constant ELSE java[l]]
  BY DEF InitializeFinals, tables
<1> HIDE DEF Final
<1>2. /\ statics = [d \in Types |-> statics[d]] /\ java \in [Types \X Names -> Values] /\ Constant \in Values
      /\ ready \subseteq Linked /\ stores \in 0 .. Stores
  BY DEF Core, TypeOK, FilesInv, LinkingAssumption
<1>3. statics[c] \in [{slots[c][n] : n \in DOMAIN slots[c]} -> Values]
  BY <1>1, SlotIs
<1>4. /\ statics' = [d \in Types |-> statics'[d]]
      /\ \A d \in Types : d # c => statics'[d] = statics[d]
      /\ statics'[c] = [s \in DOMAIN statics[c] |-> IF Final(s) THEN Constant ELSE statics[c][s]]
  BY <1>1, <1>2
<1>5. \A d \in Linked : statics'[d] \in [{slots[d][n] : n \in DOMAIN slots[d]} -> Values]
  <2>1. statics'[c] \in [{slots[c][n] : n \in DOMAIN slots[c]} -> Values]
    <3>1. \A s \in DOMAIN statics[c] : (IF Final(s) THEN Constant ELSE statics[c][s]) \in Values
      BY <1>2, <1>3
    <3> QED
      BY <1>3, <1>4, <3>1
  <2>2. ASSUME NEW d \in Linked, d # c PROVE statics'[d] \in [{slots[d][n] : n \in DOMAIN slots[d]} -> Values]
    <3>1. statics'[d] = statics[d]
      BY <1>4, <2>2, LinkedTypes
    <3> QED
      BY <3>1, SlotIs
  <2> QED
    BY <2>1, <2>2
<1>6. /\ java' \in [Types \X Names -> Values]
      /\ \A d \in Types, n \in Names :
           java'[<<d, n>>] = IF d = c /\ Declares(c, n, {"constant"}) THEN Constant ELSE java[<<d, n>>]
  BY <1>1, <1>2
<1>7. \A l \in Types \X Names : l[1] \notin Linked => java'[l] = 0
  BY <1>1, <1>2 DEF Core, FilesInv
<1>8. Core'
  <2>1. /\ object'.klass \in (Linked \cap Classes) \cup {NoClass}
        /\ object' = [klass |-> object'.klass, fields |-> object'.fields, mirrored |-> object'.mirrored]
        /\ object'.klass # NoClass => object'.fields \in [0 .. total[object'.klass] - 1 -> Values]
        /\ object'.mirrored \in IF object'.klass = Mirror THEN Linked ELSE {NoClass}
        /\ stray' \subseteq Types \X Names
    BY <1>1 DEF Core, TypeOK
  <2>2. ready' \subseteq Linked /\ stores' \in 0 .. Stores /\ UNCHANGED tables
    BY <1>1, <1>2
  <2> QED
    BY <1>4, <1>5, <1>6, <1>7, <2>1, <2>2, TablesKeep
<1>9. ASSUME NEW d \in Linked, NEW n \in Names, <<d, n>> \notin stray', Declares(d, n, Static)
      PROVE  statics'[d][slots[d][n]] = java'[<<d, n>>]
  <2>1. d \in Types /\ n \in DOMAIN slots[d] /\ statics[d][slots[d][n]] = java[<<d, n>>]
    BY <1>1, <1>9, SlotIs DEF Hold
  <2>2. CASE d # c
    BY <1>4, <1>6, <2>1, <2>2
  <2>3. CASE d = c
    <3>1. slots[c][n] \in DOMAIN statics[c]
      BY <1>3, <2>1, <2>3
    <3>2. Final(slots[c][n]) <=> Declares(c, n, {"constant"})
      <4>1. ASSUME NEW m \in Names, Declares(c, m, {"constant"}), slots[c][m] = slots[c][n] PROVE m = n
        <5>1. Declares(c, m, Static)
          BY <4>1 DEF Declares, Static
        <5> QED
          BY <1>1, <2>1, <2>3, <4>1, <5>1, SlotIs
      <4> QED
        BY <4>1 DEF Final
    <3> QED
      BY <1>4, <1>6, <2>1, <2>3, <3>1, <3>2
  <2> QED
    BY <2>2, <2>3
<1>10. ASSUME NEW d \in Linked, NEW n \in Names, <<d, n>> \notin stray', object.klass # NoClass,
              d \in Chain[object.klass], Declares(d, n, {"instance"})
       PROVE  object.fields[layout[object.klass][<<d, n>>]] = java'[<<d, n>>]
  <2>1. ~Declares(d, n, Static) /\ d \in Types
    BY <1>10, SlotIs, DeclaresIs, KindsApart
  <2>2. ~Declares(d, n, {"constant"})
    BY <2>1 DEF Declares, Static
  <2> QED
    BY <1>1, <1>6, <1>10, <2>1, <2>2 DEF Hold
<1>11. Hold'
  BY <1>1, <1>9, <1>10, HoldsNext
<1> QED
  BY <1>8, <1>11

\* Nothing stored, nothing lost.
LEMMA StutterKeeps ==
  ASSUME Core, Hold, UNCHANGED <<tables, statics, java, ready, object, stray>>, stores' \in 0 .. Stores
  PROVE  Core' /\ Hold'
<1>1. /\ statics = [d \in Types |-> statics[d]] /\ ready \subseteq Linked /\ java \in [Types \X Names -> Values]
      /\ \A l \in Types \X Names : l[1] \notin Linked => java[l] = 0
      /\ object.klass \in (Linked \cap Classes) \cup {NoClass}
      /\ object = [klass |-> object.klass, fields |-> object.fields, mirrored |-> object.mirrored]
      /\ object.klass # NoClass => object.fields \in [0 .. total[object.klass] - 1 -> Values]
      /\ object.mirrored \in IF object.klass = Mirror THEN Linked ELSE {NoClass}
      /\ stray \subseteq Types \X Names
  BY DEF Core, TypeOK, FilesInv
<1>2. \A d \in Linked : statics[d] \in [{slots[d][m] : m \in DOMAIN slots[d]} -> Values]
  BY DEF Core, PlacesInv
<1>3. Core'
  BY <1>1, <1>2, TablesKeep
<1>4. Hold'
  BY HoldsNext DEF Hold
<1> QED
  BY <1>3, <1>4

\* A store by offset changes the locations the offset stands for and no other.
LEMMA StoreAtIs ==
  ASSUME LinkingAssumption, Core, object.klass # NoClass, NEW offset, NEW v \in Values, StoreAt(offset, v)
  PROVE  /\ statics' = [d \in Types |-> statics'[d]]
         /\ \A d \in Linked : statics'[d] \in [{slots[d][m] : m \in DOMAIN slots[d]} -> Values]
         /\ object' = [klass |-> object.klass, fields |-> object'.fields, mirrored |-> object.mirrored]
         /\ object'.fields \in [0 .. total[object.klass] - 1 -> Values]
         /\ \A d \in Linked, m \in Names : Declares(d, m, Static) =>
              statics'[d][slots[d][m]] = IF <<d, m>> \in Meant(offset) THEN v ELSE statics[d][slots[d][m]]
         /\ \A d \in Linked, m \in Names : d \in Chain[object.klass] /\ Declares(d, m, {"instance"}) =>
              object'.fields[layout[object.klass][<<d, m>>]] =
                IF <<d, m>> \in Meant(offset) THEN v ELSE object.fields[layout[object.klass][<<d, m>>]]
<1>1. PICK k \in Linked : k = object.klass /\ k \in Types
  BY LinkedTypes DEF Core, TypeOK
<1>2. /\ statics = [d \in Types |-> statics[d]] /\ total[k] \in Nat
      /\ object = [klass |-> k, fields |-> object.fields, mirrored |-> object.mirrored]
      /\ object.fields \in [0 .. total[k] - 1 -> Values]
  BY <1>1, LinkedTypes DEF Core, TypeOK, FilesInv
<1>3. \A d \in Linked : d \in Types /\ statics[d] \in [{slots[d][m] : m \in DOMAIN slots[d]} -> Values]
  BY SlotIs
<1>4. Meant(offset) = {l \in DOMAIN layout[k] : layout[k][l] = offset}
                        \cup {<<k, m>> : m \in {n \in DOMAIN slots[k] : slots[k][n] + total[k] = offset}}
  BY <1>1 DEF Meant
<1>5. \A l \in DOMAIN layout[k] : layout[k][l] \in 0 .. total[k] - 1
  BY DEF Core, FieldsHaveTheirPlaces
<1>6. \A m \in DOMAIN slots[k] : slots[k][m] \in Nat
  BY SlotIs
<1>7. ASSUME NEW d \in Linked, NEW m \in Names, Declares(d, m, Static)
      PROVE  /\ m \in DOMAIN slots[d] /\ <<d, m>> \notin DOMAIN layout[k]
             /\ <<d, m>> \in Meant(offset) <=> d = k /\ slots[k][m] + total[k] = offset
  <2>1. m \in DOMAIN slots[d] /\ ~Declares(d, m, {"instance"})
    BY <1>7, SlotIs, DeclaresIs, KindsApart
  <2>2. <<d, m>> \notin DOMAIN layout[k]
    BY <2>1 DEF Core, FieldsHaveTheirPlaces
  <2> QED
    BY <1>4, <2>1, <2>2
<1>8. ASSUME NEW d \in Linked, NEW m \in Names, d \in Chain[k], Declares(d, m, {"instance"})
      PROVE  /\ layout[k][<<d, m>>] \in 0 .. total[k] - 1
             /\ <<d, m>> \in Meant(offset) <=> layout[k][<<d, m>>] = offset
  <2>1. <<d, m>> \in DOMAIN layout[k] /\ ~Declares(d, m, Static)
    BY <1>8, PlaceIs, SlotIs, DeclaresIs, KindsApart
  <2>2. d = k => m \notin DOMAIN slots[k]
    BY <2>1, SlotIs
  <2> QED
    BY <1>4, <1>5, <2>1, <2>2
<1>9. CASE Meant(offset) = {}
  <2>1. UNCHANGED <<object, statics>>
    BY <1>9 DEF StoreAt
  <2> QED
    BY <1>1, <1>2, <1>3, <1>9, <2>1
<1>10. CASE Meant(offset) # {} /\ StaticOffset(offset)
  <2>1. statics' = [statics EXCEPT ![k][offset - total[k]] = v] /\ UNCHANGED object
    BY <1>1, <1>10 DEF StoreAt
  <2>2. \A l \in DOMAIN layout[k] : layout[k][l] # offset
    BY <1>1, <1>2, <1>5, <1>10 DEF StaticOffset
  <2>3. PICK n \in DOMAIN slots[k] : slots[k][n] + total[k] = offset
    BY <1>4, <1>10, <2>2
  <2>4. offset - total[k] = slots[k][n]
    BY <1>2, <1>6, <2>3
  <2>5. /\ statics' = [d \in Types |-> statics'[d]]
        /\ \A d \in Types : statics'[d] = IF d = k THEN [statics[k] EXCEPT ![slots[k][n]] = v] ELSE statics[d]
    <3> DEFINE new == [statics[k] EXCEPT ![slots[k][n]] = v]
    <3>1. statics = [d \in Types |-> statics[d]] /\ k \in Types
      BY <1>1, <1>2
    <3>2. statics' = [statics EXCEPT ![k] = new]
      BY <2>1, <2>4
    <3> HIDE DEF new
    <3>3. statics' = [d \in Types |-> statics'[d]] /\ \A d \in Types : statics'[d] = IF d = k THEN new ELSE statics[d]
      BY <3>1, <3>2
    <3> QED
      BY <3>3 DEF new
  <2>6. statics'[k] \in [{slots[k][m] : m \in DOMAIN slots[k]} -> Values]
    <3> DEFINE places == {slots[k][m] : m \in DOMAIN slots[k]}
    <3>1. statics[k] \in [places -> Values]
      BY <1>3
    <3>2. statics'[k] = [statics[k] EXCEPT ![slots[k][n]] = v]
      BY <1>1, <2>5
    <3> HIDE DEF places
    <3>3. statics'[k] \in [places -> Values]
      BY <3>1, <3>2
    <3> QED
      BY <3>3 DEF places
  <2>7. ASSUME NEW d \in Linked, NEW m \in Names, Declares(d, m, Static)
        PROVE  statics'[d][slots[d][m]] = IF <<d, m>> \in Meant(offset) THEN v ELSE statics[d][slots[d][m]]
    <3>1. CASE d # k
      BY <1>3, <1>7, <2>5, <2>7, <3>1
    <3>2. CASE d = k
      <4>1. m \in DOMAIN slots[k] /\ (<<k, m>> \in Meant(offset) <=> slots[k][m] = slots[k][n])
        BY <1>2, <1>6, <1>7, <2>3, <2>7, <3>2
      <4>2. slots[k][m] \in DOMAIN statics[k]
        BY <1>3, <4>1
      <4> QED
        BY <1>1, <2>5, <3>2, <4>1, <4>2
    <3> QED
      BY <3>1, <3>2
  <2>8. ASSUME NEW d \in Linked, NEW m \in Names, d \in Chain[k], Declares(d, m, {"instance"})
        PROVE  <<d, m>> \notin Meant(offset)
    BY <1>8, <2>2, <2>8, PlaceIs
  <2> QED
    BY <1>1, <1>2, <1>3, <2>1, <2>5, <2>6, <2>7, <2>8
<1>11. CASE Meant(offset) # {} /\ ~StaticOffset(offset)
  <2>1. object' = [object EXCEPT !.fields[offset] = v] /\ UNCHANGED statics
    BY <1>11 DEF StoreAt
  <2>2. PICK l \in Meant(offset) : TRUE
    BY <1>11
  <2>3. offset \in 0 .. total[k] - 1
    <3>1. CASE l \in DOMAIN layout[k] /\ layout[k][l] = offset
      BY <1>5, <3>1
    <3>2. CASE \E m \in DOMAIN slots[k] : slots[k][m] + total[k] = offset
      BY <1>1, <1>2, <1>6, <1>11, <3>2 DEF StaticOffset
    <3> QED
      BY <1>4, <2>2, <3>1, <3>2
  <2>4. object' = [klass |-> k, fields |-> [object.fields EXCEPT ![offset] = v], mirrored |-> object.mirrored]
    <3> DEFINE fields == [object.fields EXCEPT ![offset] = v]
    <3>1. object' = [object EXCEPT !.fields = fields]
      BY <2>1
    <3> HIDE DEF fields
    <3>2. object = [klass |-> k, fields |-> object.fields, mirrored |-> object.mirrored]
      BY <1>2
    <3>3. object' = [klass |-> k, fields |-> fields, mirrored |-> object.mirrored]
      BY <3>1, <3>2
    <3> QED
      BY <3>3 DEF fields
  <2>5. /\ object' = [klass |-> k, fields |-> object'.fields, mirrored |-> object.mirrored]
        /\ object'.fields = [object.fields EXCEPT ![offset] = v]
    BY <2>4
  <2>6. /\ object'.fields \in [0 .. total[k] - 1 -> Values]
        /\ \A p \in 0 .. total[k] - 1 : object'.fields[p] = IF p = offset THEN v ELSE object.fields[p]
    BY <1>2, <2>3, <2>5
  <2>7. ASSUME NEW d \in Linked, NEW m \in Names, Declares(d, m, Static) PROVE <<d, m>> \notin Meant(offset)
    BY <1>1, <1>2, <1>6, <1>7, <1>11, <2>7 DEF StaticOffset
  <2>8. ASSUME NEW d \in Linked, NEW m \in Names, d \in Chain[k], Declares(d, m, {"instance"})
        PROVE  object'.fields[layout[k][<<d, m>>]] =
                 IF <<d, m>> \in Meant(offset) THEN v ELSE object.fields[layout[k][<<d, m>>]]
    BY <1>8, <2>6, <2>8
  <2>9. UNCHANGED statics
    BY <2>1
  <2> QED
    BY <1>1, <1>2, <1>3, <2>5, <2>6, <2>7, <2>8, <2>9
<1> QED
  BY <1>9, <1>10, <1>11

\* Where Unsafe is right: of the fields of the object, and of the static fields of
\* java/lang/Class, the offset stands for the field it was asked of.
LEMMA OffsetIs ==
  ASSUME LinkingAssumption, Core, NEW t \in Types, NEW n \in Names, Unsafe(t, n)
  PROVE  /\ object.klass \in Linked /\ t \in Linked
         /\ \/ Meant(ObjectFieldOffset(t, n)) = {<<t, n>>}
            \/ object.klass = Mirror /\ object.mirrored = t /\ t # Mirror /\ Declares(t, n, {"static"})
         /\ Declares(t, n, {"instance"}) => t \in Chain[object.klass]
         /\ Meant(ObjectFieldOffset(t, n)) = {<<t, n>>} => UnsafeGet(t, n) =
              IF Declares(t, n, {"instance"}) THEN object.fields[layout[object.klass][<<t, n>>]]
              ELSE statics[t][slots[t][n]]
<1>1. PICK k \in Linked : k = object.klass /\ total[k] \in Nat
  BY LinkedTypes DEF Unsafe, Core, TypeOK
<1> DEFINE offset == ObjectFieldOffset(t, n)
<1>2. Meant(offset) = {l \in DOMAIN layout[k] : layout[k][l] = offset}
                        \cup {<<k, m>> : m \in {i \in DOMAIN slots[k] : slots[k][i] + total[k] = offset}}
  BY <1>1 DEF Meant
<1>3. /\ \A l \in DOMAIN layout[k] : layout[k][l] \in 0 .. total[k] - 1
      /\ \A l, i \in DOMAIN layout[k] : layout[k][l] = layout[k][i] => l = i
  BY DEF Core, FieldsHaveTheirPlaces
<1>4. /\ \A m \in DOMAIN slots[k] : slots[k][m] \in Nat
      /\ \A m, i \in DOMAIN slots[k] : slots[k][m] = slots[k][i] => m = i
  BY SlotIs
<1>5. CASE t \in Chain[object.klass] /\ Declares(t, n, {"instance"})
  <2>1. /\ <<t, n>> \in DOMAIN layout[t] /\ layout[t][<<t, n>>] = layout[k][<<t, n>>] /\ t \in Linked
        /\ layout[k][<<t, n>>] \in 0 .. total[k] - 1 /\ <<t, n>> \in DOMAIN layout[k]
    BY <1>1, <1>5, PlaceIs
  <2>2. offset = layout[k][<<t, n>>]
    BY <2>1 DEF ObjectFieldOffset, AllFieldOffset
  <2> HIDE DEF offset
  <2>3. Meant(offset) = {<<t, n>>}
    <3>1. \A m \in DOMAIN slots[k] : slots[k][m] + total[k] # offset
      BY <1>1, <1>4, <2>1, <2>2
    <3> QED
      BY <1>2, <1>3, <2>1, <2>2, <3>1
  <2>4. ~StaticOffset(offset)
    BY <1>1, <2>1, <2>2 DEF StaticOffset
  <2>5. UnsafeGet(t, n) = object.fields[layout[object.klass][<<t, n>>]]
    BY <1>1, <2>2, <2>4 DEF UnsafeGet, offset
  <2> QED
    BY <1>1, <1>5, <2>1, <2>3, <2>5 DEF offset
<1>6. CASE t = object.mirrored /\ Declares(t, n, {"static"})
  <2>1. object.klass = Mirror /\ t \in Linked /\ Declares(t, n, Static)
    BY <1>6, LinkedTypes DEF Core, TypeOK, Declares, Static
  <2>2. n \in DOMAIN slots[t] /\ ~Declares(t, n, {"instance"})
    BY <2>1, SlotIs, DeclaresIs, KindsApart
  <2>3. CASE t # Mirror
    <3>1. Meant(offset) # {<<t, n>>}
      <4>1. <<t, n>> \notin DOMAIN layout[k]
        BY <2>2 DEF Core, FieldsHaveTheirPlaces
      <4> HIDE DEF offset
      <4> QED
        BY <1>1, <1>2, <2>1, <2>3, <4>1
    <3> QED
      BY <1>1, <1>6, <2>1, <2>2, <2>3, <3>1
  <2>4. CASE t = Mirror
    <3>1. k = t /\ <<t, n>> \notin DOMAIN layout[t]
      BY <1>1, <2>1, <2>2, <2>4 DEF Core, FieldsHaveTheirPlaces
    <3>2. offset = slots[k][n] + total[k]
      BY <3>1 DEF ObjectFieldOffset, AllFieldOffset
    <3> HIDE DEF offset
    <3>3. /\ \A l \in DOMAIN layout[k] : layout[k][l] # offset
          /\ \A m \in DOMAIN slots[k] : slots[k][m] + total[k] = offset <=> m = n
      BY <1>1, <1>3, <1>4, <2>2, <3>1, <3>2
    <3>4. Meant(offset) = {<<t, n>>}
      BY <1>2, <2>2, <3>1, <3>3
    <3>5. StaticOffset(offset) /\ offset - total[k] = slots[k][n]
      BY <1>1, <1>4, <2>2, <3>1, <3>2 DEF StaticOffset
    <3>6. UnsafeGet(t, n) = statics[t][slots[t][n]]
      BY <1>1, <3>1, <3>5 DEF UnsafeGet, offset
    <3> QED
      BY <1>1, <2>1, <2>2, <3>4, <3>6 DEF offset
  <2> QED
    BY <2>3, <2>4
<1> QED
  BY <1>5, <1>6 DEF Unsafe

\* What Unsafe mistakes is exposed: static fields of the mirrored type, and what the mirror and
\* java/lang/Class hold.
LEMMA StraysAre ==
  ASSUME LinkingAssumption, Core, OnlyStaticsGoAstray, NEW t \in Types, NEW n \in Names, Unsafe(t, n),
         UNCHANGED tables, object'.klass = object.klass, object'.mirrored = object.mirrored,
         stray' = stray \cup Astray(t, n, ObjectFieldOffset(t, n))
  PROVE  OnlyStaticsGoAstray' /\ stray' \subseteq Types \X Names
<1> DEFINE offset == ObjectFieldOffset(t, n)
<1>1. object.klass \in Linked /\ t \in Linked
  BY OffsetIs
<1>2. stray \subseteq Types \X Names
  BY DEF Core, TypeOK
<1>3. Exposed(object.mirrored)' = Exposed(object.mirrored)
  BY DEF Exposed, Declares, Linked, tables
<1>4. CASE Meant(offset) = {<<t, n>>}
  <2>1. stray' = stray
    BY <1>4 DEF Astray
  <2> QED
    BY <1>2, <1>3, <2>1 DEF OnlyStaticsGoAstray
<1>5. CASE Meant(offset) # {<<t, n>>}
  <2>1. object.klass = Mirror /\ object.mirrored = t /\ t # Mirror /\ Declares(t, n, Static)
    <3>1. object.klass = Mirror /\ object.mirrored = t /\ t # Mirror /\ Declares(t, n, {"static"})
      BY <1>5, OffsetIs
    <3> QED
      BY <3>1 DEF Declares, Static
  <2>2. CASE Meant(offset) = {}
    <3>1. stray' = Types \X Names
      BY <1>2, <1>5, <2>2 DEF Astray
    <3> QED
      BY <2>1, <3>1 DEF OnlyStaticsGoAstray
  <2>3. CASE Meant(offset) # {}
    <3>1. stray' = stray \cup Meant(offset) \cup {<<t, n>>}
      BY <1>5, <2>3 DEF Astray
    <3>2. <<t, n>> \in Exposed(t)
      BY <2>1 DEF Exposed
    <3>3. Meant(offset) \subseteq Exposed(t)
      <4>1. DOMAIN layout[Mirror] = {l \in Chain[Mirror] \X Names : Declares(l[1], l[2], {"instance"})}
        BY <1>1, <2>1 DEF Core, FieldsHaveTheirPlaces
      <4>2. Chain[Mirror] \subseteq Types
        BY <1>1, <2>1, ChainLinked, LinkedTypes DEF Core
      <4>3. \A m \in DOMAIN slots[Mirror] : m \in Names /\ Declares(Mirror, m, Static)
        BY <1>1, <2>1, SlotIs
      <4>4. \A l \in DOMAIN layout[Mirror] : l \in Exposed(t)
        BY <4>1, <4>2 DEF Exposed
      <4>5. \A m \in DOMAIN slots[Mirror] : <<Mirror, m>> \in Exposed(t)
        BY <1>1, <2>1, <4>3, LinkedTypes DEF Exposed
      <4> HIDE DEF offset
      <4> QED
        BY <2>1, <4>4, <4>5 DEF Meant
    <3>4. Exposed(t) \subseteq Types \X Names
      BY DEF Exposed
    <3>5. stray = Types \X Names \/ stray \subseteq Exposed(t)
      BY <2>1 DEF OnlyStaticsGoAstray
    <3>6. stray' = Types \X Names \/ stray' \subseteq Exposed(t)
      BY <3>1, <3>2, <3>3, <3>4, <3>5
    <3>7. stray' \subseteq Types \X Names
      BY <3>4, <3>6
    <3> QED
      BY <1>3, <2>1, <3>6, <3>7 DEF OnlyStaticsGoAstray
  <2> QED
    BY <2>2, <2>3
<1> QED
  BY <1>4, <1>5

\* A store by Unsafe leaves Java's values where it does not lead astray.
LEMMA UnsafeStoreKeeps ==
  ASSUME LinkingAssumption,
         Core, Hold, OnlyStaticsGoAstray, NEW t \in Types, NEW n \in Names, NEW v \in Values, Unsafe(t, n),
         UNCHANGED <<tables, ready>>, stores' \in 0 .. Stores,
         \/ StoreAt(ObjectFieldOffset(t, n), v) /\ java' = [java EXCEPT ![<<t, n>>] = v]
         \/ /\ UNCHANGED <<object, statics>> \/ StoreAt(ObjectFieldOffset(t, n), v)
            /\ java' = java \/ java' = [java EXCEPT ![<<t, n>>] = v]
            /\ Meant(ObjectFieldOffset(t, n)) # {<<t, n>>} \/ <<t, n>> \in stray
         \/ UNCHANGED <<object, statics, java>>,
         stray' = stray \cup Astray(t, n, ObjectFieldOffset(t, n))
  PROVE  Core' /\ Hold'
<1> DEFINE offset == ObjectFieldOffset(t, n)
           k == object.klass
<1>1. k \in Linked /\ t \in Linked /\ k \in Types /\ k # NoClass /\ t \in Types
  BY OffsetIs, LinkedTypes
<1> HIDE DEF offset, k
<1>2. /\ statics = [d \in Types |-> statics[d]] /\ ready \subseteq Linked /\ java \in [Types \X Names -> Values]
      /\ \A l \in Types \X Names : l[1] \notin Linked => java[l] = 0
      /\ k \in Linked \cap Classes
      /\ object = [klass |-> k, fields |-> object.fields, mirrored |-> object.mirrored]
      /\ object.fields \in [0 .. total[k] - 1 -> Values]
      /\ object.mirrored \in IF k = Mirror THEN Linked ELSE {NoClass}
  BY <1>1 DEF Core, TypeOK, FilesInv, k
<1>3. \A d \in Linked : statics[d] \in [{slots[d][m] : m \in DOMAIN slots[d]} -> Values]
  BY DEF Core, PlacesInv
<1>4. /\ java' \in [Types \X Names -> Values]
      /\ \A d \in Types, m \in Names : <<d, m>> # <<t, n>> => java'[<<d, m>>] = java[<<d, m>>]
      /\ \A l \in Types \X Names : l[1] \notin Linked => java'[l] = 0
  <2>1. /\ java \in [Types \X Names -> Values] /\ <<t, n>> \in Types \X Names
        /\ \A l \in Types \X Names : l[1] \notin Linked => java[l] = 0
    BY <1>1, <1>2
  <2>2. java' = java \/ java' = [java EXCEPT ![<<t, n>>] = v]
    OBVIOUS
  <2>3. /\ java' \in [Types \X Names -> Values]
        /\ \A l \in Types \X Names : l # <<t, n>> => java'[l] = java[l]
    BY <2>1, <2>2
  <2>4. \A l \in Types \X Names : l[1] \notin Linked => l # <<t, n>>
    BY <1>1
  <2> QED
    BY <2>1, <2>3, <2>4
<1>5. CASE UNCHANGED <<object, statics>> \/ StoreAt(offset, v)
  <2>1. /\ statics' = [d \in Types |-> statics'[d]]
        /\ \A d \in Linked : statics'[d] \in [{slots[d][m] : m \in DOMAIN slots[d]} -> Values]
        /\ object' = [klass |-> k, fields |-> object'.fields, mirrored |-> object.mirrored]
        /\ object'.fields \in [0 .. total[k] - 1 -> Values]
    BY <1>1, <1>2, <1>3, <1>5, StoreAtIs DEF k
  <2>2. \A d \in Linked, m \in Names : <<d, m>> \notin Meant(offset) =>
          /\ Declares(d, m, Static) => statics'[d][slots[d][m]] = statics[d][slots[d][m]]
          /\ d \in Chain[k] /\ Declares(d, m, {"instance"}) =>
               object'.fields[layout[k][<<d, m>>]] = object.fields[layout[k][<<d, m>>]]
    BY <1>1, <1>5, StoreAtIs DEF k
  <2>3. object'.klass = k /\ object'.mirrored = object.mirrored
    BY <2>1
  <2>4. stray' \subseteq Types \X Names
    BY <2>3, StraysAre DEF k
  <2>5. Core'
    BY <1>1, <1>2, <1>4, <2>1, <2>3, <2>4, TablesKeep
  <2>6. ASSUME NEW d \in Linked, NEW m \in Names, <<d, m>> \notin stray', <<d, m>> # <<t, n>>
        PROVE  /\ <<d, m>> \notin stray /\ <<d, m>> \notin Meant(offset) /\ d \in Types
               /\ java'[<<d, m>>] = java[<<d, m>>]
    BY <1>4, <2>6, LinkedTypes DEF Astray, offset
  <2>7. ASSUME <<t, n>> \notin stray'
        PROVE  Meant(offset) = {<<t, n>>} /\ <<t, n>> \notin stray
    BY <1>1, <2>7 DEF Astray, offset
  <2>8. ASSUME <<t, n>> \notin stray'
        PROVE  /\ Declares(t, n, Static) => statics'[t][slots[t][n]] = java'[<<t, n>>]
               /\ t \in Chain[k] /\ Declares(t, n, {"instance"}) =>
                    object'.fields[layout[k][<<t, n>>]] = java'[<<t, n>>]
    <3>1. Meant(offset) = {<<t, n>>} /\ <<t, n>> \notin stray
      BY <2>7, <2>8
    <3>2. CASE StoreAt(offset, v) /\ java' = [java EXCEPT ![<<t, n>>] = v]
      <4>1. java'[<<t, n>>] = v
        BY <1>1, <1>2, <3>2
      <4>2. /\ Declares(t, n, Static) => statics'[t][slots[t][n]] = v
            /\ t \in Chain[k] /\ Declares(t, n, {"instance"}) => object'.fields[layout[k][<<t, n>>]] = v
        BY <1>1, <3>1, <3>2, StoreAtIs DEF k
      <4> QED
        BY <4>1, <4>2
    <3>3. CASE UNCHANGED <<object, statics, java>>
      BY <1>1, <3>1, <3>3 DEF Hold, k
    <3> QED
      BY <3>1, <3>2, <3>3 DEF offset
  <2>9. ASSUME NEW d \in Linked, NEW m \in Names, <<d, m>> \notin stray'
        PROVE  /\ Declares(d, m, Static) => statics'[d][slots[d][m]] = java'[<<d, m>>]
               /\ d \in Chain[k] /\ Declares(d, m, {"instance"}) =>
                    object'.fields[layout[k][<<d, m>>]] = java'[<<d, m>>]
    <3>1. CASE d = t /\ m = n
      BY <2>8, <2>9, <3>1
    <3>2. CASE ~(d = t /\ m = n)
      <4>1. /\ Declares(d, m, Static) => statics[d][slots[d][m]] = java[<<d, m>>]
            /\ d \in Chain[k] /\ Declares(d, m, {"instance"}) => object.fields[layout[k][<<d, m>>]] = java[<<d, m>>]
        BY <1>1, <2>6, <2>9, <3>2 DEF Hold, k
      <4> QED
        BY <2>2, <2>6, <2>9, <3>2, <4>1
    <3> QED
      BY <3>1, <3>2
  <2>10. Hold'
    BY <2>3, <2>9, HoldsNext
  <2> QED
    BY <2>5, <2>10
<1> QED
  BY <1>5 DEF offset

\* Unsafe.putObject.
LEMMA UnsafePutKeeps ==
  ASSUME LinkingAssumption, Core, Hold, OnlyStaticsGoAstray,
         NEW t \in Types, NEW n \in Names, NEW v \in Values, UnsafePut(t, n, v)
  PROVE  Core' /\ Hold'
<1>1. /\ Unsafe(t, n) /\ StoreAt(ObjectFieldOffset(t, n), v) /\ java' = [java EXCEPT ![<<t, n>>] = v]
      /\ stores' = stores + 1 /\ stores < Stores /\ UNCHANGED <<tables, ready>>
      /\ stray' = stray \cup Astray(t, n, ObjectFieldOffset(t, n))
  BY DEF UnsafePut, Unsafe, tables
<1>2. stores' \in 0 .. Stores
  BY <1>1 DEF Core, TypeOK, LinkingAssumption
<1> QED
  BY <1>1, <1>2, UnsafeStoreKeeps

\* Unsafe.compareAndSwapObject swaps where Java swaps, or stores nothing.
LEMMA CompareAndSwapKeeps ==
  ASSUME LinkingAssumption, Core, Hold, OnlyStaticsGoAstray,
         NEW t \in Types, NEW n \in Names, NEW e \in Values, NEW v \in Values, CompareAndSwap(t, n, e, v)
  PROVE  Core' /\ Hold'
<1> DEFINE offset == ObjectFieldOffset(t, n)
           swaps == Meant(offset) # {} /\ UnsafeGet(t, n) = e
<1>1. /\ Unsafe(t, n) /\ stores' = stores + 1 /\ stores < Stores /\ UNCHANGED <<tables, ready>>
      /\ IF swaps THEN StoreAt(offset, v) ELSE UNCHANGED <<object, statics>>
      /\ java' = IF java[<<t, n>>] = e THEN [java EXCEPT ![<<t, n>>] = v] ELSE java
      /\ stray' = stray \cup Astray(t, n, offset)
  BY DEF CompareAndSwap, Unsafe, tables
<1>2. stores' \in 0 .. Stores
  BY <1>1 DEF Core, TypeOK, LinkingAssumption
<1>3. CASE Meant(offset) # {<<t, n>>} \/ <<t, n>> \in stray
  <2> HIDE DEF swaps
  <2> QED
    BY <1>1, <1>2, <1>3, UnsafeStoreKeeps
<1>4. CASE Meant(offset) = {<<t, n>>} /\ <<t, n>> \notin stray
  <2>1. UnsafeGet(t, n) = java[<<t, n>>]
    <3>1. /\ object.klass \in Linked /\ t \in Linked
          /\ Declares(t, n, {"instance"}) => t \in Chain[object.klass]
          /\ UnsafeGet(t, n) = IF Declares(t, n, {"instance"}) THEN object.fields[layout[object.klass][<<t, n>>]]
                               ELSE statics[t][slots[t][n]]
      BY <1>1, <1>4, OffsetIs
    <3>2. ~Declares(t, n, {"instance"}) => Declares(t, n, Static)
      BY <1>1 DEF Unsafe, Declares, Static
    <3>3. object.klass # NoClass
      BY <3>1, LinkedTypes
    <3> QED
      BY <1>4, <3>1, <3>2, <3>3 DEF Hold
  <2>2. swaps <=> java[<<t, n>>] = e
    BY <1>4, <2>1
  <2> HIDE DEF swaps
  <2>3. \/ StoreAt(offset, v) /\ java' = [java EXCEPT ![<<t, n>>] = v]
        \/ UNCHANGED <<object, statics, java>>
    BY <1>1, <2>2
  <2> QED
    BY <1>1, <1>2, <2>3, UnsafeStoreKeeps
<1> QED
  BY <1>3, <1>4

\* Nothing goes astray but by Unsafe, and nothing that is exposed ceases to be.
LEMMA StrayKeeps ==
  ASSUME LinkingAssumption, Core, Hold, OnlyStaticsGoAstray, [Next]_vars
  PROVE  OnlyStaticsGoAstray'
<1>1. ASSUME NEW t \in Types, NEW n \in Names, NEW v, NEW e, UnsafePut(t, n, v) \/ CompareAndSwap(t, n, e, v)
      PROVE  OnlyStaticsGoAstray'
  <2>1. Unsafe(t, n) /\ UNCHANGED tables /\ stray' = stray \cup Astray(t, n, ObjectFieldOffset(t, n))
    BY <1>1 DEF UnsafePut, CompareAndSwap, tables
  <2>2. object' = object \/ object' = [object EXCEPT !.fields[ObjectFieldOffset(t, n)] = v]
    BY <1>1 DEF UnsafePut, CompareAndSwap, StoreAt
  <2>3. object = [klass |-> object.klass, fields |-> object.fields, mirrored |-> object.mirrored]
    BY DEF Core, TypeOK
  <2>4. object'.klass = object.klass /\ object'.mirrored = object.mirrored
    BY <2>2, <2>3
  <2> QED
    BY <2>1, <2>4, StraysAre
<1>2. ASSUME stray' = stray, stray # {} => object'.klass = object.klass /\ object'.mirrored = object.mirrored,
             \A l \in Types \X Names : \A kinds :
               Declares(l[1], l[2], kinds) => Declares(l[1], l[2], kinds)'
      PROVE  OnlyStaticsGoAstray'
  <2>1. \A m : Exposed(m) \subseteq {l \in Types \X Names :
          \/ l[1] \in {m, Mirror} /\ Declares(l[1], l[2], Static)'
          \/ l[1] \in Chain[Mirror] /\ Declares(l[1], l[2], {"instance"})'}
    BY <1>2 DEF Exposed
  <2>2. Exposed(object.mirrored)' = {l \in Types \X Names :
          \/ l[1] \in {object'.mirrored, Mirror} /\ Declares(l[1], l[2], Static)'
          \/ l[1] \in Chain[Mirror] /\ Declares(l[1], l[2], {"instance"})'}
    BY DEF Exposed
  <2> QED
    BY <1>2, <2>1, <2>2 DEF OnlyStaticsGoAstray
<1>3. \A l \in Types \X Names : \A kinds : UNCHANGED file => (Declares(l[1], l[2], kinds) => Declares(l[1], l[2], kinds)')
  BY DEF Declares, Linked
<1>4. ASSUME NEW c \in Types, Link(c) PROVE OnlyStaticsGoAstray'
  <2>1. UNCHANGED <<object, stray>> /\ c \notin Linked
    BY <1>4 DEF Link
  <2>2. \A d \in Types : d # c => file'[d] = file[d]
    BY <1>4 DEF Link, Core, FilesInv
  <2>3. \A d \in Linked : d \in Types /\ d # c
    BY <2>1 DEF Linked
  <2>4. \A l \in Types \X Names : \A kinds : Declares(l[1], l[2], kinds) => Declares(l[1], l[2], kinds)'
    BY <2>2, <2>3 DEF Declares, Linked
  <2> QED
    BY <1>2, <2>1, <2>4
<1>5. ASSUME NEW c \in Classes, NewInstance(c) PROVE OnlyStaticsGoAstray'
  <2>1. stray' = stray /\ UNCHANGED file /\ object.klass = NoClass
    BY <1>5 DEF NewInstance
  <2>2. stray = {}
    BY <2>1 DEF OnlyStaticsGoAstray, LinkingAssumption, Types
  <2> QED
    BY <1>2, <1>3, <2>1, <2>2
<1>6. ASSUME NEW c \in Types, NEW n \in Names, NEW v, PutField(c, n, v) PROVE OnlyStaticsGoAstray'
  <2>1. UNCHANGED <<file, stray>> /\ \E o : object' = [object EXCEPT !.fields[o] = v]
    BY <1>6 DEF PutField
  <2>2. object = [klass |-> object.klass, fields |-> object.fields, mirrored |-> object.mirrored]
    BY DEF Core, TypeOK
  <2>3. object'.klass = object.klass /\ object'.mirrored = object.mirrored
    BY <2>1, <2>2
  <2> QED
    BY <1>2, <1>3, <2>1, <2>3
<1>7. ASSUME UNCHANGED <<file, object, stray>> PROVE OnlyStaticsGoAstray'
  BY <1>2, <1>3, <1>7
<1> QED
  BY <1>1, <1>4, <1>5, <1>6, <1>7 DEF Next, vars, PutStatic, InitializeFinals

\* What a new type of class file cf gets.
LEMMA NewTables ==
  ASSUME LinkingAssumption,
         Core, NEW c \in Types, c \notin Linked, Above(c) \subseteq Linked, NEW cf \in ClassFiles[c]
  PROVE  /\ total[Parent[c]] \in Nat /\ Cardinality(OfKind(cf, {"instance"})) \in Nat
         /\ DOMAIN LayoutOf(c, cf) = DOMAIN layout[Parent[c]] \cup {<<c, n>> : n \in FieldNames(cf, {"instance"})}
         /\ \A k \in DOMAIN layout[Parent[c]] :
              /\ k[1] # c /\ LayoutOf(c, cf)[k] = layout[Parent[c]][k]
              /\ LayoutOf(c, cf)[k] \in 0 .. total[Parent[c]] - 1
         /\ \A k, l \in DOMAIN LayoutOf(c, cf) : LayoutOf(c, cf)[k] = LayoutOf(c, cf)[l] => k = l
         /\ {LayoutOf(c, cf)[k] : k \in DOMAIN LayoutOf(c, cf)} =
              0 .. total[Parent[c]] + Cardinality(OfKind(cf, {"instance"})) - 1
<1> DEFINE p == Parent[c]
           I == {"instance"}
           N == FieldNames(cf, I)
           own == Cardinality(OfKind(cf, I))
           old == DOMAIN layout[p]
           new == LayoutOf(c, cf)
<1>1. p \in Linked \cup {NoClass} /\ p \in Types \cup {NoClass}
  BY Hierarchy, LinkedTypes
<1>2. total[p] \in Nat
  BY <1>1 DEF Core, TypeOK
<1>3. /\ \A k \in old : k[1] \in Types /\ k[1] # c /\ layout[p][k] \in 0 .. total[p] - 1
      /\ {layout[p][k] : k \in old} = 0 .. total[p] - 1
      /\ \A k, l \in old : layout[p][k] = layout[p][l] => k = l
  <2>1. CASE p = NoClass
    BY <2>1 DEF Core, FilesInv
  <2>2. CASE p # NoClass
    <3>1. p \in Linked
      BY <1>1, <2>2
    <3>2. /\ old = {k \in Chain[p] \X Names : Declares(k[1], k[2], I)}
          /\ {layout[p][k] : k \in old} = 0 .. total[p] - 1
          /\ \A k, l \in old : layout[p][k] = layout[p][l] => k = l
      BY <3>1 DEF Core, FieldsHaveTheirPlaces
    <3>3. Chain[p] \subseteq Types /\ c \notin Chain[p]
      BY <1>1, <2>2, ChainOrder, NothingAboveItself
    <3>4. \A k \in old : k[1] \in Types /\ k[1] # c
      BY <3>2, <3>3
    <3>5. \A k \in old : layout[p][k] \in {layout[p][l] : l \in old}
      OBVIOUS
    <3> HIDE DEF old
    <3> QED
      BY <3>2, <3>4, <3>5
  <2> QED
    BY <2>1, <2>2
<1>4. {<<c, cf.fields[i].name>> : i \in OfKind(cf, I)} = {<<c, n>> : n \in N}
  BY DEF FieldNames
<1>5. new = [k \in old \cup {<<c, n>> : n \in N} |-> IF k[1] = c THEN total[p] + Index(cf, I, k[2]) ELSE layout[p][k]]
  BY <1>4 DEF LayoutOf
<1>6. /\ own \in Nat /\ {Index(cf, I, n) : n \in N} = 0 .. own - 1
      /\ \A m, n \in N : Index(cf, I, m) = Index(cf, I, n) => m = n
  BY Indices
<1> HIDE DEF N, own, old, I, p, new
<1>7. DOMAIN new = old \cup {<<c, n>> : n \in N}
  BY <1>5
<1>8. \A k \in old : k[1] # c /\ new[k] = layout[p][k] /\ new[k] \in 0 .. total[p] - 1
  BY <1>3, <1>5
<1>9. \A n \in N : /\ Index(cf, I, n) \in 0 .. own - 1
                   /\ new[<<c, n>>] = total[p] + Index(cf, I, n)
                   /\ new[<<c, n>>] \in total[p] .. total[p] + own - 1
  <2> SUFFICES ASSUME NEW n \in N
               PROVE  /\ Index(cf, I, n) \in 0 .. own - 1
                      /\ new[<<c, n>>] = total[p] + Index(cf, I, n)
                      /\ new[<<c, n>>] \in total[p] .. total[p] + own - 1
    OBVIOUS
  <2>1. Index(cf, I, n) \in {Index(cf, I, m) : m \in N}
    OBVIOUS
  <2>2. Index(cf, I, n) \in 0 .. own - 1
    BY <1>6, <2>1
  <2>3. new[<<c, n>>] = total[p] + Index(cf, I, n)
    BY <1>5
  <2> QED
    BY <1>2, <1>6, <2>2, <2>3
<1>10. ASSUME NEW k \in DOMAIN new, NEW l \in DOMAIN new, new[k] = new[l] PROVE k = l
  <2>1. CASE k \in old /\ l \in old
    BY <1>3, <1>8, <1>10, <2>1
  <2>2. ASSUME NEW m \in N, k = <<c, m>>, NEW n \in N, l = <<c, n>> PROVE k = l
    <3>1. Index(cf, I, m) = Index(cf, I, n)
      BY <1>2, <1>9, <1>10, <2>2
    <3> QED
      BY <1>6, <2>2, <3>1
  <2>3. ASSUME k \in old, NEW n \in N, l = <<c, n>> PROVE FALSE
    BY <1>2, <1>6, <1>8, <1>9, <1>10, <2>3
  <2>4. ASSUME l \in old, NEW n \in N, k = <<c, n>> PROVE FALSE
    BY <1>2, <1>6, <1>8, <1>9, <1>10, <2>4
  <2> QED
    BY <1>7, <2>1, <2>2, <2>3, <2>4
<1>11. {new[k] : k \in DOMAIN new} = 0 .. total[p] + own - 1
  <2>1. ASSUME NEW k \in DOMAIN new PROVE new[k] \in 0 .. total[p] + own - 1
    <3>1. CASE k \in old
      BY <1>2, <1>6, <1>8, <3>1
    <3>2. ASSUME NEW n \in N, k = <<c, n>> PROVE new[k] \in 0 .. total[p] + own - 1
      BY <1>2, <1>6, <1>9, <3>2
    <3> QED
      BY <1>7, <3>1, <3>2
  <2>2. ASSUME NEW o \in 0 .. total[p] + own - 1 PROVE \E k \in DOMAIN new : new[k] = o
    <3>1. CASE o < total[p]
      <4>1. o \in 0 .. total[p] - 1
        BY <1>2, <1>6, <3>1
      <4>2. o \in {layout[p][k] : k \in old}
        BY <1>3, <4>1
      <4> QED
        BY <1>7, <1>8, <4>2
    <3>2. CASE ~(o < total[p])
      <4>1. o - total[p] \in 0 .. own - 1
        BY <1>2, <1>6, <3>2
      <4>2. PICK n \in N : Index(cf, I, n) = o - total[p]
        BY <1>6, <4>1
      <4>3. new[<<c, n>>] = o
        BY <1>2, <1>9, <4>2
      <4> QED
        BY <1>7, <4>3
    <3> QED
      BY <3>1, <3>2
  <2> QED
    BY <2>1, <2>2
<1> QED
  BY <1>2, <1>6, <1>7, <1>8, <1>10, <1>11 DEF N, own, old, I, p, new

\* Linking a type keeps the places of the others and gives its own fields theirs.
LEMMA LinkKeeps ==
  ASSUME LinkingAssumption,
         Core, Hold, NEW c \in Types, Link(c)
  PROVE  Core' /\ Hold'
<1>1. PICK cf \in ClassFiles[c] :
        LET new == LayoutOf(c, cf)
        IN /\ Legal(c, cf)
           /\ file' = [file EXCEPT ![c] = cf]
           /\ layout' = [layout EXCEPT ![c] = new]
           /\ total' = [total EXCEPT ![c] = total[Parent[c]] + Cardinality(OfKind(cf, {"instance"}))]
           /\ owned' = [owned EXCEPT ![c] = OwnedOf(c, new)]
           /\ slots' = [slots EXCEPT ![c] = SlotsOf(cf)]
           /\ statics' = [statics EXCEPT ![c] = [s \in {SlotsOf(cf)[n] : n \in DOMAIN SlotsOf(cf)} |-> 0]]
           /\ vtable' = [vtable EXCEPT ![c] = VtableOf(c, cf)]
  BY DEF Link
<1> DEFINE p == Parent[c]
           own == Cardinality(OfKind(cf, {"instance"}))
           new == LayoutOf(c, cf)
<1>2. c \notin Linked /\ Above(c) \subseteq Linked /\ UNCHANGED <<ready, object, java, stray, stores>>
  BY DEF Link
<1>3. /\ file = [d \in Types |-> file[d]] /\ layout = [d \in Types \cup {NoClass} |-> layout[d]]
      /\ owned = [d \in Types |-> owned[d]] /\ slots = [d \in Types |-> slots[d]]
      /\ statics = [d \in Types |-> statics[d]]
      /\ total \in [Types \cup {NoClass} -> Nat] /\ vtable \in [Types \cup {NoClass} -> Types \cup {NoMethod}]
  BY DEF Core, TypeOK, FilesInv
\* Only c changes.
<1>4. /\ file' = [d \in Types |-> file'[d]] /\ layout' = [d \in Types \cup {NoClass} |-> layout'[d]]
      /\ owned' = [d \in Types |-> owned'[d]] /\ slots' = [d \in Types |-> slots'[d]]
      /\ statics' = [d \in Types |-> statics'[d]]
  BY <1>1, <1>3
<1>5. \A d \in Types : d # c => /\ file'[d] = file[d] /\ owned'[d] = owned[d] /\ slots'[d] = slots[d]
                                /\ statics'[d] = statics[d]
  BY <1>1, <1>3
<1>6. \A d \in Types \cup {NoClass} : d # c => layout'[d] = layout[d] /\ total'[d] = total[d] /\ vtable'[d] = vtable[d]
  BY <1>1, <1>3
<1>7. /\ file'[c] = cf /\ owned'[c] = OwnedOf(c, new) /\ slots'[c] = SlotsOf(cf)
      /\ statics'[c] = [s \in {SlotsOf(cf)[n] : n \in DOMAIN SlotsOf(cf)} |-> 0]
      /\ layout'[c] = new /\ total'[c] = total[p] + own /\ vtable'[c] = VtableOf(c, cf)
  BY <1>1, <1>3
<1>24. total' = [total EXCEPT ![c] = total[p] + own]
  BY <1>1
<1>8. cf # NoClass /\ c # NoClass
  BY FieldsOf, Hierarchy
<1>9. Linked' = Linked \cup {c}
  BY <1>5, <1>7, <1>8 DEF Linked
<1>10. \A d \in Linked : d \in Types /\ d # c /\ Chain[d] \subseteq Linked
  BY <1>2, LinkedTypes, ChainLinked DEF Core
<1>11. \A d \in Types : \A n, kinds : d # c => (Declares(d, n, kinds)' <=> Declares(d, n, kinds))
  BY <1>5, <1>9 DEF Declares
<1>12. \A n, kinds : Declares(c, n, kinds)' <=> n \in FieldNames(cf, kinds)
  BY <1>7, <1>9 DEF Declares, FieldNames, OfKind
<1>13. p \in Linked \cup {NoClass} /\ p \in Types \cup {NoClass} /\ p # c
  BY <1>2, <1>8, Hierarchy, LinkedTypes
<1>14. Chain[c] = {c} \cup Chain[p] /\ Chain[p] \subseteq Linked
  BY <1>10, <1>13, ChainIs
<1>15. /\ total[p] \in Nat /\ own \in Nat
       /\ DOMAIN new = DOMAIN layout[p] \cup {<<c, n>> : n \in FieldNames(cf, {"instance"})}
       /\ \A k \in DOMAIN layout[p] : k[1] # c /\ new[k] = layout[p][k] /\ new[k] \in 0 .. total[p] - 1
       /\ \A k, l \in DOMAIN new : new[k] = new[l] => k = l
       /\ {new[k] : k \in DOMAIN new} = 0 .. total[p] + own - 1
  BY <1>2, NewTables
<1> HIDE DEF new, own
<1>16. FieldNames(cf, {"instance"}) \subseteq Names /\ FieldNames(cf, Static) \subseteq Names
  BY Indices
<1>17. SlotsOf(cf) = [n \in FieldNames(cf, Static) |-> Index(cf, Static, n)]
  BY DEF SlotsOf, FieldNames
<1>18. TypeOK'
  <2>1. \A d \in Linked' : file'[d] \in ClassFiles[d]
    BY <1>5, <1>7, <1>9, <1>10 DEF Core, TypeOK
  <2>2. total' \in [Types \cup {NoClass} -> Nat]
    BY <1>3, <1>13, <1>15, <1>24
  <2>3. vtable' \in [Types \cup {NoClass} -> Types \cup {NoMethod}]
    <3>1. VtableOf(c, cf) \in Types \cup {NoMethod}
      BY <1>3, <1>13 DEF VtableOf
    <3> QED
      BY <1>1, <1>3, <3>1
  <2>4. /\ ready \subseteq Linked /\ stores \in 0 .. Stores /\ java \in [Types \X Names -> Values]
        /\ object.klass \in (Linked \cap Classes) \cup {NoClass}
        /\ object = [klass |-> object.klass, fields |-> object.fields, mirrored |-> object.mirrored]
        /\ object.klass # NoClass => object.fields \in [0 .. total[object.klass] - 1 -> Values]
        /\ object.mirrored \in IF object.klass = Mirror THEN Linked ELSE {NoClass}
        /\ stray \subseteq Types \X Names
    BY DEF Core, TypeOK
  <2>5. object.klass # NoClass => total'[object.klass] = total[object.klass]
    BY <1>6, <1>10, <2>4
  <2> QED
    BY <1>2, <1>9, <2>1, <2>2, <2>3, <2>4, <2>5 DEF TypeOK
<1>19. FilesInv'
  <2>1. /\ DOMAIN layout[NoClass] = {} /\ total[NoClass] = 0 /\ vtable[NoClass] = NoMethod
        /\ \A d \in Linked : Above(d) \subseteq Linked
        /\ \A l \in Types \X Names : l[1] \notin Linked => java[l] = 0
    BY DEF Core, FilesInv
  <2>2. layout'[NoClass] = layout[NoClass] /\ total'[NoClass] = total[NoClass] /\ vtable'[NoClass] = vtable[NoClass]
    BY <1>6, <1>8
  <2>3. \A d \in Linked' : Above(d) \subseteq Linked'
    BY <1>2, <1>9, <2>1
  <2> QED
    BY <1>2, <1>4, <1>9, <2>1, <2>2, <2>3 DEF FilesInv
<1>20. FieldsHaveTheirPlaces'
  <2>1. ASSUME NEW d \in Linked
        PROVE  /\ DOMAIN layout'[d] = {k \in Chain[d] \X Names : Declares(k[1], k[2], {"instance"})'}
               /\ {layout'[d][k] : k \in DOMAIN layout'[d]} = 0 .. total'[d] - 1
               /\ \A k, l \in DOMAIN layout'[d] : layout'[d][k] = layout'[d][l] => k = l
               /\ \A e \in Chain[d] : \A k \in DOMAIN layout'[e] : k \in DOMAIN layout'[d] /\ layout'[d][k] = layout'[e][k]
    <3>1. /\ DOMAIN layout[d] = {k \in Chain[d] \X Names : Declares(k[1], k[2], {"instance"})}
          /\ {layout[d][k] : k \in DOMAIN layout[d]} = 0 .. total[d] - 1
          /\ \A k, l \in DOMAIN layout[d] : layout[d][k] = layout[d][l] => k = l
          /\ \A e \in Chain[d] : \A k \in DOMAIN layout[e] : k \in DOMAIN layout[d] /\ layout[d][k] = layout[e][k]
      BY DEF Core, FieldsHaveTheirPlaces
    <3>2. layout'[d] = layout[d] /\ total'[d] = total[d] /\ \A e \in Chain[d] : e \in Types /\ e # c /\ layout'[e] = layout[e]
      BY <1>6, <1>10
    <3>3. {k \in Chain[d] \X Names : Declares(k[1], k[2], {"instance"})'}
            = {k \in Chain[d] \X Names : Declares(k[1], k[2], {"instance"})}
      BY <1>11, <3>2
    <3> QED
      BY <3>1, <3>2, <3>3
  <2>2. DOMAIN layout[p] = {k \in Chain[p] \X Names : Declares(k[1], k[2], {"instance"})}
    <3>1. CASE p = NoClass
      BY <3>1, ChainIs DEF Core, FilesInv
    <3>2. CASE p # NoClass
      BY <1>13, <3>2 DEF Core, FieldsHaveTheirPlaces
    <3> QED
      BY <3>1, <3>2
  <2>3. DOMAIN layout'[c] = {k \in Chain[c] \X Names : Declares(k[1], k[2], {"instance"})'}
    <3>1. \A e \in Chain[p] : e \in Types /\ e # c
      BY <1>10, <1>14
    <3>2. ASSUME NEW k \in Chain[c] \X Names, Declares(k[1], k[2], {"instance"})' PROVE k \in DOMAIN new
      <4>1. CASE k[1] = c
        BY <1>12, <1>15, <3>2, <4>1
      <4>2. CASE k[1] # c
        <5>1. k \in Chain[p] \X Names
          BY <1>14, <4>2
        <5> QED
          BY <1>11, <1>15, <2>2, <3>1, <3>2, <5>1
      <4> QED
        BY <4>1, <4>2
    <3>3. ASSUME NEW k \in DOMAIN layout[p]
          PROVE  k \in Chain[c] \X Names /\ Declares(k[1], k[2], {"instance"})'
      BY <1>11, <1>14, <2>2, <3>1
    <3>4. ASSUME NEW n \in FieldNames(cf, {"instance"})
          PROVE  <<c, n>> \in Chain[c] \X Names /\ Declares(c, n, {"instance"})'
      BY <1>12, <1>14, <1>16
    <3> QED
      BY <1>7, <1>15, <3>2, <3>3, <3>4
  <2>4. ASSUME NEW e \in Chain[c], NEW k \in DOMAIN layout'[e]
        PROVE  k \in DOMAIN layout'[c] /\ layout'[c][k] = layout'[e][k]
    <3>1. CASE e = c
      BY <3>1
    <3>2. CASE e # c
      <4>1. e \in Chain[p] /\ p # NoClass
        BY <1>14, <3>2, ChainIs
      <4>2. e \in Types /\ layout'[e] = layout[e]
        BY <1>6, <1>10, <1>14, <3>2, <4>1
      <4>3. k \in DOMAIN layout[p] /\ layout[p][k] = layout[e][k]
        BY <1>13, <2>4, <4>1, <4>2 DEF Core, FieldsHaveTheirPlaces
      <4> QED
        BY <1>7, <1>15, <4>2, <4>3
    <3> QED
      BY <3>1, <3>2
  <2>5. /\ {layout'[c][k] : k \in DOMAIN layout'[c]} = 0 .. total'[c] - 1
        /\ \A k, l \in DOMAIN layout'[c] : layout'[c][k] = layout'[c][l] => k = l
    BY <1>7, <1>15
  <2> QED
    BY <1>9, <2>1, <2>3, <2>4, <2>5 DEF FieldsHaveTheirPlaces
<1>21. PlacesInv'
  <2>1. ASSUME NEW d \in Linked
        PROVE  /\ slots'[d] = SlotsOf(file'[d])
               /\ statics'[d] \in [{slots'[d][n] : n \in DOMAIN slots'[d]} -> Values]
               /\ \A k \in DOMAIN layout'[d] : owned'[d][layout'[d][k]] = (k[1] = d)
    <3>1. /\ slots[d] = SlotsOf(file[d]) /\ statics[d] \in [{slots[d][n] : n \in DOMAIN slots[d]} -> Values]
          /\ \A k \in DOMAIN layout[d] : owned[d][layout[d][k]] = (k[1] = d)
      BY DEF Core, PlacesInv
    <3>2. /\ file'[d] = file[d] /\ owned'[d] = owned[d] /\ slots'[d] = slots[d] /\ statics'[d] = statics[d]
          /\ layout'[d] = layout[d]
      BY <1>5, <1>6, <1>10
    <3> QED
      BY <3>1, <3>2
  <2>2. statics'[c] \in [{slots'[c][n] : n \in DOMAIN slots'[c]} -> Values]
    BY <1>7 DEF LinkingAssumption
  <2>3. ASSUME NEW k \in DOMAIN new PROVE OwnedOf(c, new)[new[k]] = (k[1] = c)
    <3>1. OwnedOf(c, new)[new[k]] = (new[k] \notin {new[l] : l \in DOMAIN layout[p]})
      BY DEF OwnedOf
    <3>2. CASE k \in DOMAIN layout[p]
      BY <1>15, <3>1, <3>2
    <3>3. CASE k \notin DOMAIN layout[p]
      <4>1. k[1] = c
        BY <1>15, <3>3
      <4>2. \A l \in DOMAIN layout[p] : l \in DOMAIN new /\ new[l] # new[k]
        BY <1>15, <3>3
      <4> QED
        BY <3>1, <4>1, <4>2
    <3> QED
      BY <3>2, <3>3
  <2>4. slots'[c] = SlotsOf(file'[c]) /\ \A k \in DOMAIN layout'[c] : owned'[c][layout'[c][k]] = (k[1] = c)
    BY <1>7, <2>3
  <2>5. \A d \in Linked' : /\ slots'[d] = SlotsOf(file'[d])
                           /\ statics'[d] \in [{slots'[d][n] : n \in DOMAIN slots'[d]} -> Values]
                           /\ \A k \in DOMAIN layout'[d] : owned'[d][layout'[d][k]] = (k[1] = d)
    <3> SUFFICES ASSUME NEW d \in Linked'
                 PROVE  /\ slots'[d] = SlotsOf(file'[d])
                        /\ statics'[d] \in [{slots'[d][n] : n \in DOMAIN slots'[d]} -> Values]
                        /\ \A k \in DOMAIN layout'[d] : owned'[d][layout'[d][k]] = (k[1] = d)
      OBVIOUS
    <3>1. CASE d \in Linked
      BY <2>1, <3>1
    <3>2. CASE d = c
      BY <2>2, <2>4, <3>2
    <3> QED
      BY <1>9, <3>1, <3>2
  <2> QED
    BY <2>5 DEF PlacesInv, SlotsOf, Index, OfKind
<1>22. VtableInv'
  <2>1. ASSUME NEW d \in Linked
        PROVE  LET public == {e \in Chain[d] : file'[e].method = "public"}
               IN public # {} => vtable'[d] \in public /\ public \subseteq Chain[vtable'[d]]
    <3>1. {e \in Chain[d] : file'[e].method = "public"} = {e \in Chain[d] : file[e].method = "public"}
      BY <1>5, <1>10
    <3>2. vtable'[d] = vtable[d]
      BY <1>6, <1>10
    <3>3. LET public == {e \in Chain[d] : file[e].method = "public"}
          IN public # {} => vtable[d] \in public /\ public \subseteq Chain[vtable[d]]
      BY DEF Core, VtableInv
    <3> QED
      BY <3>1, <3>2, <3>3
  <2> DEFINE old == {e \in Chain[p] : file[e].method = "public"}
             public == {e \in Chain[c] : file'[e].method = "public"}
  <2>2. old # {} => vtable[p] \in old /\ old \subseteq Chain[vtable[p]]
    <3>1. CASE p = NoClass
      BY <3>1, ChainIs
    <3>2. CASE p # NoClass
      BY <1>13, <3>2 DEF Core, VtableInv
    <3> QED
      BY <3>1, <3>2
  <2>3. public = IF cf.method = "public" THEN {c} \cup old ELSE old
    <3>1. \A e \in Chain[p] : e # c /\ file'[e] = file[e]
      BY <1>5, <1>10, <1>14
    <3> QED
      BY <1>7, <1>14, <3>1
  <2>4. cf.method \in {"private", "static"} => old = {}
    BY <1>1 DEF Legal
  <2>5. cf.method \in {"none", "public", "private", "static"}
    BY FieldsOf
  <2>6. public \subseteq Chain[c]
    OBVIOUS
  <2>7. public # {} => vtable'[c] \in public /\ public \subseteq Chain[vtable'[c]]
    <3> HIDE DEF old, public
    <3>1. CASE cf.method = "none"
      BY <1>7, <2>2, <2>3, <3>1 DEF VtableOf
    <3>2. CASE cf.method = "public"
      <4>1. vtable'[c] = c
        BY <1>7, <3>2 DEF VtableOf
      <4> QED
        BY <2>3, <2>6, <3>2, <4>1
    <3>3. CASE cf.method \in {"private", "static"}
      BY <2>3, <2>4, <3>3
    <3> QED
      BY <2>5, <3>1, <3>2, <3>3
  <2> QED
    BY <1>9, <2>1, <2>7 DEF VtableInv
<1>23. Hold'
  <2>1. ASSUME NEW d \in Linked', NEW n \in Names, <<d, n>> \notin stray', Declares(d, n, Static)'
        PROVE  statics'[d][slots'[d][n]] = java'[<<d, n>>]
    <3>1. CASE d = c
      <4>1. n \in DOMAIN SlotsOf(cf)
        BY <1>12, <1>17, <2>1, <3>1
      <4>2. statics'[c][slots'[c][n]] = 0
        BY <1>7, <4>1
      <4>3. java[<<c, n>>] = 0
        BY <1>2 DEF Core, FilesInv
      <4> QED
        BY <1>2, <3>1, <4>2, <4>3
    <3>2. CASE d # c
      <4>1. d \in Linked /\ Declares(d, n, Static)
        BY <1>9, <1>10, <1>11, <2>1, <3>2
      <4> QED
        BY <1>2, <1>5, <1>10, <2>1, <4>1 DEF Hold
    <3> QED
      BY <3>1, <3>2
  <2>2. ASSUME NEW d \in Linked', NEW n \in Names, <<d, n>> \notin stray', object'.klass # NoClass,
               d \in Chain[object'.klass], Declares(d, n, {"instance"})'
        PROVE  object'.fields[layout'[object'.klass][<<d, n>>]] = java'[<<d, n>>]
    <3>1. object.klass \in Linked /\ object' = object /\ java' = java
      BY <1>2, <2>2 DEF Core, TypeOK
    <3>2. d \in Linked /\ Declares(d, n, {"instance"})
      BY <1>10, <1>11, <2>2, <3>1
    <3>3. layout'[object.klass] = layout[object.klass]
      BY <1>6, <1>10, <3>1
    <3> QED
      BY <1>2, <2>2, <3>1, <3>2, <3>3 DEF Hold
  <2> QED
    BY <2>1, <2>2 DEF Hold
<1> QED
  BY <1>18, <1>19, <1>20, <1>21, <1>22, <1>23 DEF Core

-----------------------------------------------------------------------------
(* The invariant, and what follows of it.                                   *)

\* Nothing is linked at the start.
LEMMA LinkingStart ==
  ASSUME LinkingAssumption, Init
  PROVE  IInv
<1>1. Linked = {} /\ NoClass \notin Types
  BY Hierarchy DEF Init, Linked
<1>2. /\ 0 \in Values /\ Stores \in Nat
  BY DEF LinkingAssumption
<1>3. TypeOK
  <2>1. /\ object = [klass |-> NoClass, fields |-> <<>>, mirrored |-> NoClass]
        /\ stray = {} /\ stores = 0 /\ ready = {} /\ java = [l \in Types \X Names |-> 0]
    BY DEF Init
  <2>2. object.klass = NoClass /\ object.fields = <<>> /\ object.mirrored = NoClass /\ NoClass # Mirror
    BY <1>1, <2>1 DEF LinkingAssumption, Types
  <2>3. /\ object = [klass |-> object.klass, fields |-> object.fields, mirrored |-> object.mirrored]
        /\ object.mirrored \in IF object.klass = Mirror THEN Linked ELSE {NoClass}
    BY <2>1, <2>2
  <2>4. total \in [Types \cup {NoClass} -> Nat] /\ vtable \in [Types \cup {NoClass} -> Types \cup {NoMethod}]
    BY DEF Init
  <2> QED
    BY <1>1, <1>2, <2>1, <2>2, <2>3, <2>4 DEF TypeOK
<1>4. FilesInv
  BY <1>1 DEF Init, FilesInv
<1>5. FieldsHaveTheirPlaces /\ PlacesInv /\ VtableInv /\ Hold /\ OnlyStaticsGoAstray
  BY <1>1 DEF Init, FieldsHaveTheirPlaces, PlacesInv, VtableInv, Hold, OnlyStaticsGoAstray
<1> QED
  BY <1>3, <1>4, <1>5, InvariantIs DEF Core

\* Every step keeps the invariant.
LEMMA LinkingStep ==
  ASSUME LinkingAssumption, IInv, [Next]_vars
  PROVE  IInv'
<1>1. Core /\ Hold /\ OnlyStaticsGoAstray
  BY InvariantIs
<1>2. ASSUME Next PROVE Core' /\ Hold'
  <2>1. ASSUME NEW c \in Types, Link(c) PROVE Core' /\ Hold'
    BY <1>1, <2>1, LinkKeeps
  <2>2. ASSUME NEW c \in Types, InitializeFinals(c) PROVE Core' /\ Hold'
    BY <1>1, <2>2, InitializeFinalsKeeps
  <2>3. ASSUME NEW c \in Classes, NewInstance(c) PROVE Core' /\ Hold'
    BY <1>1, <2>3, NewInstanceKeeps
  <2>4. ASSUME NEW c \in Types, NEW n \in Names, NEW v \in Values, PutField(c, n, v) PROVE Core' /\ Hold'
    BY <1>1, <2>4, PutFieldKeeps
  <2>5. ASSUME NEW c \in Types, NEW n \in Names, NEW v \in Values, PutStatic(c, n, v) PROVE Core' /\ Hold'
    BY <1>1, <2>5, PutStaticKeeps
  <2>6. ASSUME NEW c \in Types, NEW n \in Names, NEW v \in Values, UnsafePut(c, n, v) PROVE Core' /\ Hold'
    BY <1>1, <2>6, UnsafePutKeeps
  <2>7. ASSUME NEW c \in Types, NEW n \in Names, NEW e \in Values, NEW v \in Values, CompareAndSwap(c, n, e, v)
        PROVE  Core' /\ Hold'
    BY <1>1, <2>7, CompareAndSwapKeeps
  <2> QED
    BY <1>2, <2>1, <2>2, <2>3, <2>4, <2>5, <2>6, <2>7 DEF Next
<1>3. ASSUME UNCHANGED vars PROVE Core' /\ Hold'
  <2>1. UNCHANGED <<tables, statics, java, ready, object, stray, stores>>
    BY <1>3 DEF vars, tables
  <2>2. stores \in 0 .. Stores
    BY <1>1 DEF Core, TypeOK
  <2> QED
    BY <1>1, <2>1, <2>2, StutterKeeps
<1> QED
  BY <1>1, <1>2, <1>3, StrayKeeps, InvariantIsNext

\* Resolution by the tables is resolution by the declarations.
LEMMA FieldsResolve ==
  ASSUME LinkingAssumption, IInv
  PROVE  FieldsResolveAsInJava
<1>1. Core
  BY InvariantIs
<1> SUFFICES ASSUME NEW n \in Names PROVE \A c \in Linked : FieldOf(n)[c] = Resolved(n)[c]
  BY DEF FieldsResolveAsInJava
<1> DEFINE Ok(k) == \A t \in Linked : k \in Chain[t] => FieldSearch(n)[<<t, k>>] = Resolved(n)[k]
           S == {k \in Types : Ok(k)}
<1>2. ASSUME NEW k \in Types, Above(k) \subseteq S PROVE k \in S
  <2> SUFFICES ASSUME NEW t \in Linked, k \in Chain[t] PROVE FieldSearch(n)[<<t, k>>] = Resolved(n)[k]
    OBVIOUS
  <2>1. k \in Linked /\ t \in Types /\ Above(k) \subseteq Linked
    BY <1>1, ChainLinked, LinkedTypes DEF Core, FilesInv
  <2>2. Fields(n, t, k) <=> Declares(k, n, FieldKinds)
    <3>1. <<k, n>> \in DOMAIN layout[t] <=> Declares(k, n, {"instance"})
      BY <1>1 DEF Core, FieldsHaveTheirPlaces
    <3>2. n \in DOMAIN slots[k] <=> Declares(k, n, Static)
      BY <1>1, <2>1, SlotIs
    <3>3. Declares(k, n, FieldKinds) <=> Declares(k, n, {"instance"}) \/ Declares(k, n, Static)
      BY DEF Declares, FieldKinds, Static
    <3> QED
      BY <3>1, <3>2, <3>3 DEF Fields
  <2>3. FoundAbove(n, k) = ResolvedAbove(n, k)
    <3>1. ASSUME NEW i \in Implements[k] PROVE FieldSearch(n)[<<i, i>>] = Resolved(n)[i]
      <4>1. i \in Above(k) /\ i \in Linked /\ i \in Chain[i]
        BY <2>1, ChainOrder, Hierarchy, LinkedTypes DEF Types
      <4> QED
        BY <1>2, <4>1
    <3> QED
      BY <3>1 DEF FoundAbove, ResolvedAbove
  <2>4. FieldSearch(n)[<<t, Parent[k]>>] = Resolved(n)[Parent[k]]
    <3>1. CASE Parent[k] = NoClass
      BY <2>1, <3>1, FieldSearchIs, ResolvedIs
    <3>2. CASE Parent[k] # NoClass
      <4>1. Parent[k] \in Above(k) /\ Parent[k] \in Types
        BY <3>2, Hierarchy
      <4>2. Parent[k] \in Chain[t]
        BY <2>1, <4>1, ChainIs, ChainOrder
      <4> QED
        BY <1>2, <4>1, <4>2
    <3> QED
      BY <3>1, <3>2
  <2> HIDE DEF Ok, S
  <2>5. CASE Fields(n, t, k)
    <3>1. FieldSearch(n)[<<t, k>>] = Only(k)
      BY <2>1, <2>5, FieldSearchIs
    <3>2. Resolved(n)[k] = Only(k)
      BY <2>2, <2>5, ResolvedIs
    <3> QED
      BY <3>1, <3>2
  <2>6. CASE ~Fields(n, t, k) /\ FoundAbove(n, k) # Nothing
    <3>1. FieldSearch(n)[<<t, k>>] = FoundAbove(n, k)
      BY <2>1, <2>6, FieldSearchIs
    <3>2. Resolved(n)[k] = ResolvedAbove(n, k)
      BY <2>2, <2>3, <2>6, ResolvedIs
    <3> QED
      BY <2>3, <3>1, <3>2
  <2>7. CASE ~Fields(n, t, k) /\ FoundAbove(n, k) = Nothing
    <3>1. FieldSearch(n)[<<t, k>>] = FieldSearch(n)[<<t, Parent[k]>>]
      BY <2>1, <2>7, FieldSearchIs
    <3>2. Resolved(n)[k] = Resolved(n)[Parent[k]]
      BY <2>2, <2>3, <2>7, ResolvedIs
    <3> QED
      BY <2>4, <3>1, <3>2
  <2> QED
    BY <2>5, <2>6, <2>7
<1>3. Types \subseteq S
  <2> HIDE DEF S
  <2> QED
    BY <1>2, FromAbove
<1>4. ASSUME NEW c \in Linked PROVE FieldOf(n)[c] = Resolved(n)[c]
  <2>1. c \in Types /\ c \in Chain[c]
    BY ChainOrder, LinkedTypes
  <2> QED
    BY <1>3, <2>1 DEF FieldOf
<1> QED
  BY <1>4

\* Reflection shows the fields of the class file and finds constructors again.
LEMMA Reflects ==
  ASSUME LinkingAssumption, IInv
  PROVE  ReflectsOwnMembers
<1>1. Core
  BY InvariantIs
<1> SUFFICES ASSUME NEW c \in Linked
             PROVE  /\ DeclaredFields(c) = {<<c, file[c].fields[i].name>> : i \in 1 .. Len(file[c].fields)}
                    /\ \A i \in ConstructorSlots(c) : MethodInSlot(c, i) = "<init>"
                    /\ MethodSlots(c, FALSE) \ MethodSlots(c, TRUE) =
                         {i \in 1 .. Len(Members(c)) : Members(c)[i] = "method" /\ file[c].method = "private"}
                    /\ \A i \in MethodSlots(c, FALSE) : MethodInSlot(c, i) # "<clinit>"
  BY DEF ReflectsOwnMembers
<1>2. c \in Types /\ c \in Chain[c] /\ file[c] \in ClassFiles[c]
  BY <1>1, ChainOrder, SlotIs
<1>3. DeclaredFields(c) = {<<c, file[c].fields[i].name>> : i \in 1 .. Len(file[c].fields)}
  <2>1. \A k \in DOMAIN layout[c] : owned[c][layout[c][k]] <=> k[1] = c
    BY <1>1 DEF Core, PlacesInv
  <2>2. DOMAIN layout[c] = {k \in Chain[c] \X Names : Declares(k[1], k[2], {"instance"})}
    BY <1>1 DEF Core, FieldsHaveTheirPlaces
  <2>3. \A n : n \in DOMAIN slots[c] <=> n \in FieldNames(file[c], Static)
    BY <1>1, DeclaresIs, SlotIs
  <2>4. \A n : Declares(c, n, {"instance"}) <=> n \in FieldNames(file[c], {"instance"})
    BY DeclaresIs
  <2>5. FieldNames(file[c], {"instance"}) \subseteq Names
    BY <1>2, Indices
  <2>6. {k \in DOMAIN layout[c] : owned[c][layout[c][k]]} = {<<c, n>> : n \in FieldNames(file[c], {"instance"})}
    <3>1. ASSUME NEW k \in DOMAIN layout[c], owned[c][layout[c][k]]
          PROVE  \E n \in FieldNames(file[c], {"instance"}) : k = <<c, n>>
      BY <2>1, <2>2, <2>4, <3>1
    <3>2. ASSUME NEW n \in FieldNames(file[c], {"instance"})
          PROVE  <<c, n>> \in DOMAIN layout[c] /\ owned[c][layout[c][<<c, n>>]]
      BY <1>2, <2>1, <2>2, <2>4, <2>5
    <3> QED
      BY <3>1, <3>2
  <2>7. \A n : (\E i \in 1 .. Len(file[c].fields) : file[c].fields[i].name = n)
                 <=> n \in FieldNames(file[c], {"instance"}) \/ n \in FieldNames(file[c], Static)
    BY <1>2, FieldsOf DEF FieldNames, OfKind, FieldKinds, Static
  <2>8. DeclaredFields(c) = {<<c, n>> : n \in FieldNames(file[c], {"instance"})}
                              \cup {<<c, n>> : n \in FieldNames(file[c], Static)}
    BY <2>3, <2>6 DEF DeclaredFields
  <2> QED
    BY <2>7, <2>8
<1>4. \A i \in ConstructorSlots(c) : MethodInSlot(c, i) = "<init>"
  BY DEF ConstructorSlots, MethodInSlot
<1>5. MethodSlots(c, FALSE) \ MethodSlots(c, TRUE) =
        {i \in 1 .. Len(Members(c)) : Members(c)[i] = "method" /\ file[c].method = "private"}
  BY DEF MethodSlots
<1>6. \A i \in MethodSlots(c, FALSE) : MethodInSlot(c, i) # "<clinit>"
  BY DEF MethodSlots, MethodInSlot
<1> QED
  BY <1>3, <1>4, <1>5, <1>6

\* The vtable holds the most derived public method.
LEMMA VirtualCalls == ASSUME IInv PROVE VirtualCallsAreJavas
BY DEF IInv, VtableInv, VirtualCallsAreJavas

\* InstanceKlass::InstanceKlass: the invariant holds whatever is linked and stored, in whatever
\* order.
THEOREM Invariance ==
  ASSUME LinkingAssumption
  PROVE  Spec => []IInv
<1>1. IInv /\ [Next]_vars => IInv'
  BY LinkingStep
<1> QED
  BY <1>1, LinkingStart, PTL DEF Spec

\* get_field, get_static_field_value, Unsafe and the declared fields: in every state of every
\* behaviour fields have places of their own, are found where JVMS 5.4.3.2 finds them, have
\* Java's values unless they have gone astray, and reflection shows those of the class file.
\* Only what Unsafe does to a static field of a type other than java/lang/Class leads astray,
\* and it exposes only static fields of that type, and what java/lang/Class and its mirror hold.
THEOREM FieldsAreRight ==
  ASSUME LinkingAssumption
  PROVE  Spec => [](/\ FieldsHaveTheirPlaces /\ FieldsResolveAsInJava
                    /\ LocationsHoldJavasValues /\ OnlyStaticsGoAstray /\ ReflectsOwnMembers)
<1>1. IInv => /\ FieldsHaveTheirPlaces /\ FieldsResolveAsInJava
              /\ LocationsHoldJavasValues /\ OnlyStaticsGoAstray /\ ReflectsOwnMembers
  BY FieldsResolve, Reflects DEF IInv
<1> QED
  BY <1>1, Invariance, PTL

\* The vtable and get_class_method: in every state of every behaviour they find the methods
\* Java selects.
THEOREM CallsAreRight ==
  ASSUME LinkingAssumption
  PROVE  Spec => [](VirtualCallsAreJavas /\ InterfaceCallsAreJavas)
<1>1. IInv => VirtualCallsAreJavas /\ InterfaceCallsAreJavas
  BY VirtualCalls, InterfaceCalls
<1> QED
  BY <1>1, Invariance, PTL
=============================================================================
