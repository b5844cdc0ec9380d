----------------------------- MODULE RuntimeProofs -----------------------------
(* The invariants of the run-time models for every value of the constants: the   *)
(* proofs about monitors, the collection and the end of the process, and those   *)
(* of ConstantPoolProofs, LinkingProofs and ClassLoadingProofs carried over to   *)
(* module Runtime.                                                               *)
EXTENDS Runtime, ClassLoadingProofs, FiniteSetTheorems, TLAPS

PP == INSTANCE ConstantPoolProofs WITH fate <- poolFate

LP == INSTANCE LinkingProofs WITH Names <- FieldNames

-----------------------------------------------------------------------------
(* Monitors. That wait keeps the mutex is what the proofs turn on: it is why one *)
(* thread waits at a time, and why a wait must end by itself.                    *)

\* The monitor of a new object is free.
LEMMA MonitorStart == ASSUME Mon!MonitorAssumption, Mon!Init PROVE Mon!IInv
<1>1. owner = Null /\ entries = 0 /\ entries \in 0 .. MaxEntries
  BY DEF Mon!MonitorAssumption, Mon!Init
<1>2. \A t \in Threads : Mon!Runs(t)
  BY DEF Mon!Init, Mon!Runs
<1>3. signalled \in BOOLEAN /\ waiting \in [Threads -> Timeouts \cup {Null}]
  BY DEF Mon!Init
<1> QED
  BY <1>1, <1>2, <1>3 DEF Mon!IInv, Mon!TypeOK

\* Every operation of one thread keeps the invariant.
LEMMA MonitorKeeps ==
  ASSUME Mon!MonitorAssumption, Mon!IInv, NEW t \in Threads,
         Mon!Enter(t) \/ Mon!Leave(t) \/ Mon!Wait(t) \/ Mon!WaitReturns(t) \/ Mon!NotifyAll(t)
  PROVE  Mon!IInv'
<1>1. /\ MaxEntries \in Nat /\ entries \in 0 .. MaxEntries
      /\ owner \in Threads \cup {Null} /\ (owner = Null) = (entries = 0)
      /\ t # Null /\ Null \notin Threads
  BY DEF Mon!MonitorAssumption, Mon!IInv, Mon!TypeOK
<1>2. CASE Mon!Enter(t)
  BY <1>1, <1>2 DEF Mon!Enter, Mon!IInv, Mon!TypeOK, Mon!Runs
<1>3. CASE Mon!Leave(t)
  <2>1. entries' = entries - 1 /\ entries \in 1 .. MaxEntries
    BY <1>1, <1>3 DEF Mon!Leave
  <2>2. /\ entries' \in 0 .. MaxEntries /\ owner' \in Threads \cup {Null}
        /\ (owner' = Null) = (entries' = 0)
    BY <1>1, <1>3, <2>1 DEF Mon!Leave
  <2>3. \A u \in Threads : Mon!Runs(u)
    BY <1>3 DEF Mon!Leave, Mon!IInv, Mon!Runs
  <2> QED
    BY <1>3, <2>2, <2>3 DEF Mon!Leave, Mon!IInv, Mon!TypeOK, Mon!Runs
<1>4. CASE Mon!Wait(t)
  BY <1>1, <1>4 DEF Mon!Wait, Mon!IInv, Mon!TypeOK, Mon!Runs
<1>5. CASE Mon!WaitReturns(t)
  BY <1>1, <1>5 DEF Mon!WaitReturns, Mon!IInv, Mon!TypeOK, Mon!Runs
<1>6. CASE Mon!NotifyAll(t)
  BY <1>1, <1>6 DEF Mon!NotifyAll, Mon!IInv, Mon!TypeOK, Mon!Runs
<1> QED
  BY <1>2, <1>3, <1>4, <1>5, <1>6

\* Every step keeps the invariant, and so does stuttering.
LEMMA MonitorStep == ASSUME Mon!MonitorAssumption, Mon!IInv, [Mon!Next]_mVars PROVE Mon!IInv'
<1>1. CASE Mon!Next
  BY <1>1, MonitorKeeps DEF Mon!Next
<1>2. CASE UNCHANGED mVars
  BY <1>2 DEF mVars, Mon!IInv, Mon!TypeOK, Mon!Runs
<1> QED
  BY <1>1, <1>2

\* Counting in ObjectMonitor is counting.
LEMMA MonitorCounts == \A s : Mon!Cardinality(s) = Cardinality(s)
  BY DEF Mon!Cardinality, Cardinality

\* One thread at most waits in Monitor::wait of an object, however many own it in turn: so
\* notify_all may set an auto-reset event, which lets one thread go.
LEMMA OneThreadWaits == ASSUME Mon!IInv PROVE Mon!OneWaits
<1> DEFINE W == {t \in Threads : ~Mon!Runs(t)}
<1>1. W = {} \/ W = {owner}
  BY DEF Mon!IInv
<1>2. Cardinality({}) = 0 /\ Cardinality({owner}) = 1
  BY FS_EmptySet, FS_Singleton
<1> QED
  BY <1>1, <1>2, MonitorCounts DEF Mon!OneWaits

\* No thread waits for a notification that nobody can give: the waiter keeps the mutex, and
\* the DWORD of a timeout that Java accepts and a DWORD can hold is that timeout, so never
\* INFINITE but for the greatest. Where it is INFINITE nobody else can own the mutex.
LEMMA NobodyIsNeeded == ASSUME Mon!MonitorAssumption, Mon!IInv PROVE Mon!WaitersNeedNobody
<1>1. Dword \in Nat \ {0, 1} /\ Null \notin Threads
  BY DEF Mon!MonitorAssumption
<1>2. ASSUME NEW ms \in 0 .. Dword - 2 PROVE ms % Dword # Dword - 1
  BY <1>1
<1>3. ASSUME NEW t \in Threads, ~Mon!Runs(t) PROVE owner = t
  BY <1>3 DEF Mon!IInv
<1>4. ASSUME NEW t \in Threads, ~Mon!Runs(t)
      PROVE  {u \in Threads \ {t} : Mon!Runs(u) /\ owner \in {Null, u}} = {}
  BY <1>1, <1>3, <1>4
<1> QED
  BY <1>2, <1>4 DEF Mon!WaitersNeedNobody, Mon!Ordinary, Mon!Timeout, Mon!Infinite

-----------------------------------------------------------------------------
(* The collection. A step of the recursion either gives one slot its copy, or     *)
(* enters a new copy into the map and then gives it to the slot: Extended,         *)
(* FilledRoot and FilledField say that each half keeps the invariant, for the set  *)
(* of the slots still to be visited.                                               *)

(* Sequences without repetition.                                            *)

Distinct(s) == \A k, l \in 1 .. Len(s) : s[k] = s[l] => k = l
Items(s) == {s[k] : k \in 1 .. Len(s)}

\* What is left of a sequence without its head.
LEMMA TailOf ==
  ASSUME NEW S, NEW s \in Seq(S), s # <<>>, Distinct(s)
  PROVE  /\ Head(s) \in S /\ Head(s) \in Items(s)
         /\ Tail(s) \in Seq(S) /\ Distinct(Tail(s)) /\ Items(Tail(s)) = Items(s) \ {Head(s)}
<1>1. /\ Len(s) \in Nat \ {0} /\ Head(s) = s[1] /\ Tail(s) \in Seq(S) /\ Len(Tail(s)) = Len(s) - 1
      /\ \A k \in 1 .. Len(s) - 1 : Tail(s)[k] = s[k + 1]
  OBVIOUS
<1>2. Head(s) \in S /\ Head(s) \in Items(s)
  BY <1>1 DEF Items
<1>3. \A k \in 1 .. Len(s) - 1 : k + 1 \in 1 .. Len(s) /\ k + 1 # 1
  BY <1>1
<1>4. Distinct(Tail(s))
  BY <1>1, <1>3 DEF Distinct
<1>5. Items(Tail(s)) \subseteq Items(s) \ {Head(s)}
  <2>1. ASSUME NEW k \in 1 .. Len(s) - 1
        PROVE  Tail(s)[k] \in Items(s) /\ Tail(s)[k] # s[1]
    BY <1>1, <1>3 DEF Items, Distinct
  <2> QED
    BY <1>1, <2>1 DEF Items
<1>6. Items(s) \ {Head(s)} \subseteq Items(Tail(s))
  <2>1. ASSUME NEW k \in 1 .. Len(s), k # 1
        PROVE  s[k] \in Items(Tail(s))
    <3>1. k - 1 \in 1 .. Len(s) - 1 /\ (k - 1) + 1 = k
      BY <1>1, <2>1
    <3>2. Tail(s)[k - 1] = s[k]
      BY <1>1, <3>1
    <3> QED
      BY <1>1, <3>1, <3>2 DEF Items
  <2> QED
    BY <1>1, <2>1 DEF Items
<1> QED
  BY <1>1, <1>2, <1>4, <1>5, <1>6

\* Sequences that share nothing.
Apart(s, t, S) ==
  s \in Seq(S) /\ t \in Seq(S) /\ Distinct(s) /\ Distinct(t) /\ Items(s) \cap Items(t) = {}
Joins(c, s, t, S) == c \in Seq(S) /\ Distinct(c) /\ Items(c) = Items(s) \cup Items(t)

\* One after the other they have no repetition.
LEMMA ConcatOf ==
  ASSUME NEW S, NEW s, NEW t, Apart(s, t, S)
  PROVE  Joins(s \o t, s, t, S)
<1>0. s \in Seq(S) /\ t \in Seq(S) /\ Distinct(s) /\ Distinct(t) /\ Items(s) \cap Items(t) = {}
  BY DEF Apart
<1> DEFINE c == s \o t
<1>1. /\ Len(s) \in Nat /\ Len(t) \in Nat /\ c \in Seq(S) /\ Len(c) = Len(s) + Len(t)
      /\ \A k \in 1 .. Len(s) : c[k] = s[k]
      /\ \A k \in 1 .. Len(t) : c[Len(s) + k] = t[k]
  BY <1>0
<1> HIDE DEF c
<1>2. ASSUME NEW k \in 1 .. Len(c)
      PROVE  \/ k \in 1 .. Len(s) /\ c[k] = s[k]
             \/ k > Len(s) /\ k - Len(s) \in 1 .. Len(t) /\ c[k] = t[k - Len(s)]
  <2>1. CASE k \in 1 .. Len(s)
    BY <1>1, <2>1
  <2>2. CASE k \notin 1 .. Len(s)
    <3>1. k - Len(s) \in 1 .. Len(t) /\ Len(s) + (k - Len(s)) = k
      BY <1>1, <1>2, <2>2
    <3>2. c[Len(s) + (k - Len(s))] = t[k - Len(s)]
      BY <1>1, <3>1
    <3> QED
      BY <1>1, <2>2, <3>1, <3>2
  <2> QED
    BY <2>1, <2>2
<1>3. Distinct(c)
  <2> SUFFICES ASSUME NEW k \in 1 .. Len(c), NEW l \in 1 .. Len(c), c[k] = c[l]
               PROVE  k = l
    BY DEF Distinct
  <2>1. CASE k \in 1 .. Len(s) /\ c[k] = s[k] /\ l \in 1 .. Len(s) /\ c[l] = s[l]
    BY <1>0, <2>1 DEF Distinct
  <2>2. CASE k \in 1 .. Len(s) /\ c[k] = s[k] /\ l - Len(s) \in 1 .. Len(t) /\ c[l] = t[l - Len(s)]
    BY <1>0, <2>2 DEF Items
  <2>3. CASE k - Len(s) \in 1 .. Len(t) /\ c[k] = t[k - Len(s)] /\ l \in 1 .. Len(s) /\ c[l] = s[l]
    BY <1>0, <2>3 DEF Items
  <2>4. CASE /\ k - Len(s) \in 1 .. Len(t) /\ c[k] = t[k - Len(s)]
             /\ l - Len(s) \in 1 .. Len(t) /\ c[l] = t[l - Len(s)]
    <3>1. k - Len(s) = l - Len(s)
      BY <1>0, <2>4 DEF Distinct
    <3> QED
      BY <1>1, <3>1
  <2> QED
    BY <1>2, <2>1, <2>2, <2>3, <2>4
<1>4. Items(c) \subseteq Items(s) \cup Items(t)
  BY <1>2 DEF Items
<1>5. Items(s) \cup Items(t) \subseteq Items(c)
  <2>1. \A k \in 1 .. Len(s) : k \in 1 .. Len(c)
    BY <1>1
  <2>2. \A k \in 1 .. Len(t) : Len(s) + k \in 1 .. Len(c)
    BY <1>1
  <2> QED
    BY <1>1, <2>1, <2>2 DEF Items
<1> QED
  BY <1>1, <1>3, <1>4, <1>5 DEF Joins, c

(* The two halves of a step of the recursion.                               *)

LEMMA CountIsNat == ASSUME GC!HeapAssumption, NEW k PROVE GC!FieldCount(k) \in Nat
  BY DEF GC!HeapAssumption, GC!FieldCount

Good(hp, sl, mp, P) == GC!MapInv(hp, mp) /\ GC!SlotsInv(hp, sl, mp, P) /\ GC!ReachedInv(mp)

\* The heap and the map with the copy n of object o.
WithCopy(hp, o, n) == [x \in DOMAIN hp \cup {n} |-> IF x = n THEN hp[o] ELSE hp[x]]
WithPair(mp, o, n) == [x \in DOMAIN mp \cup {o} |-> IF x = o THEN n ELSE mp[x]]
WithFields(P, o, n) == P \cup {<<n, j>> : j \in 1 .. GC!FieldCount(before.heap[o].kind)}

\* Object o gets the copy n, which still leads to the old graph.
LEMMA Extended ==
  ASSUME GC!HeapAssumption, GC!BeforeInv, NEW hp, NEW sl, NEW mp, NEW P, Good(hp, sl, mp, P),
         NEW o \in handlers, o \notin DOMAIN mp, NEW n \in Nat, n \notin DOMAIN hp,
         \A S \in SUBSET handlers : GC!Closed(before.heap, before.slot, S) => o \in S
  PROVE  Good(WithCopy(hp, o, n), sl, WithPair(mp, o, n), WithFields(P, o, n))
<1> DEFINE h == [x \in DOMAIN hp \cup {n} |-> IF x = n THEN hp[o] ELSE hp[x]]
           m == [x \in DOMAIN mp \cup {o} |-> IF x = o THEN n ELSE mp[x]]
           Q == P \cup {<<n, j>> : j \in 1 .. GC!FieldCount(before.heap[o].kind)}
<1>1. /\ DOMAIN mp \subseteq handlers /\ mp \in [DOMAIN mp -> Nat]
      /\ \A p \in DOMAIN mp : mp[p] \notin handlers
      /\ \A p, q \in DOMAIN mp : mp[p] = mp[q] => p = q
      /\ DOMAIN hp = handlers \cup GC!Copies(mp) /\ hp \in GC!Heaps(DOMAIN hp) /\ GC!Sized(hp)
      /\ \A p \in handlers : hp[p] = before.heap[p]
  BY DEF Good, GC!MapInv
<1>2. DOMAIN h = DOMAIN hp \cup {n} /\ h[n] = hp[o] /\ \A x \in DOMAIN hp : h[x] = hp[x]
  OBVIOUS
<1>3. DOMAIN m = DOMAIN mp \cup {o} /\ m[o] = n /\ \A x \in DOMAIN mp : m[x] = mp[x]
  OBVIOUS
<1>4. o \in DOMAIN hp /\ hp[o] = before.heap[o] /\ n \notin handlers
  BY <1>1
<1>5. \A p \in DOMAIN mp : mp[p] \in DOMAIN hp /\ mp[p] # n
  BY <1>1 DEF GC!Copies
<1>6. h \in GC!Heaps(DOMAIN h) /\ GC!Sized(h)
  BY <1>1, <1>2, <1>4 DEF GC!Heaps, GC!Sized
<1>7. m \in [DOMAIN m -> Nat]
  BY <1>1
<1> HIDE DEF h, m
<1>8. GC!Copies(m) = GC!Copies(mp) \cup {n}
  BY <1>3 DEF GC!Copies
<1>9. GC!MapInv(h, m)
  <2>1. \A p, q \in DOMAIN m : m[p] = m[q] => p = q
    BY <1>1, <1>3, <1>5
  <2>2. \A p \in DOMAIN m : m[p] \notin handlers
    BY <1>1, <1>3, <1>4
  <2>3. DOMAIN h = handlers \cup GC!Copies(m)
    BY <1>1, <1>2, <1>8
  <2>4. \A p \in handlers : h[p] = before.heap[p]
    BY <1>1, <1>2
  <2>5. DOMAIN m \subseteq handlers
    BY <1>1, <1>3
  <2> QED
    BY <1>6, <1>7, <2>1, <2>2, <2>3, <2>4, <2>5 DEF GC!MapInv
<1>10. \A x, y : GC!IsCopy(mp, x, y) => GC!IsCopy(m, x, y)
  BY <1>3 DEF GC!IsCopy
<1>11. GC!SlotsInv(h, sl, m, Q)
  <2>1. /\ sl \in [GC!RootSet -> Nat \cup {Null}]
        /\ \A r \in GC!RootSet : IF <<r>> \in P THEN sl[r] = before.slot[r]
                                 ELSE GC!IsCopy(mp, before.slot[r], sl[r])
        /\ \A p \in DOMAIN mp :
             /\ hp[mp[p]].kind = before.heap[p].kind
             /\ \A j \in 1 .. GC!FieldCount(before.heap[p].kind) :
                  IF <<mp[p], j>> \in P THEN hp[mp[p]].fields[j] = before.heap[p].fields[j]
                  ELSE GC!IsCopy(mp, before.heap[p].fields[j], hp[mp[p]].fields[j])
    BY DEF Good, GC!SlotsInv
  <2>2. \A r : <<r>> \in Q <=> <<r>> \in P
    <3>1. \A r, j : <<r>> # <<n, j>>
      <4>1. \A r, j : Len(<<r>>) = 1 /\ Len(<<n, j>>) = 2
        OBVIOUS
      <4> QED
        BY <4>1
    <3> QED
      BY <3>1
  <2>3. \A p \in DOMAIN mp : \A j : <<mp[p], j>> \in Q <=> <<mp[p], j>> \in P
    BY <1>5
  <2>4. \A r \in GC!RootSet : IF <<r>> \in Q THEN sl[r] = before.slot[r]
                              ELSE GC!IsCopy(m, before.slot[r], sl[r])
    BY <1>10, <2>1, <2>2
  <2>5. ASSUME NEW p \in DOMAIN m
        PROVE  /\ h[m[p]].kind = before.heap[p].kind
               /\ \A j \in 1 .. GC!FieldCount(before.heap[p].kind) :
                    IF <<m[p], j>> \in Q THEN h[m[p]].fields[j] = before.heap[p].fields[j]
                    ELSE GC!IsCopy(m, before.heap[p].fields[j], h[m[p]].fields[j])
    <3>1. CASE p = o
      BY <1>2, <1>3, <1>4, <3>1
    <3>2. CASE p # o
      <4>1. p \in DOMAIN mp /\ m[p] = mp[p] /\ h[m[p]] = hp[mp[p]]
        BY <1>2, <1>3, <1>5, <3>2
      <4> HIDE DEF Q
      <4> QED
        BY <1>10, <2>1, <2>3, <4>1
    <3> QED
      BY <3>1, <3>2
  <2> HIDE DEF Q
  <2> QED
    BY <2>1, <2>4, <2>5 DEF GC!SlotsInv
<1>12. GC!ReachedInv(m)
  BY <1>3 DEF Good, GC!ReachedInv
<1> QED
  BY <1>9, <1>11, <1>12 DEF Good, WithCopy, WithPair, WithFields, h, m, Q

\* A root gets the copy of what it leads to.
LEMMA FilledRoot ==
  ASSUME NEW hp, NEW sl, NEW mp, NEW P, Good(hp, sl, mp, P), NEW r \in GC!RootSet,
         NEW y \in Nat \cup {Null}, GC!IsCopy(mp, before.slot[r], y)
  PROVE  Good(hp, [sl EXCEPT ![r] = y], mp, P \ {<<r>>})
<1> DEFINE s == [sl EXCEPT ![r] = y]
<1>1. sl \in [GC!RootSet -> Nat \cup {Null}]
  BY DEF Good, GC!SlotsInv
<1>2. s \in [GC!RootSet -> Nat \cup {Null}] /\ s[r] = y /\ \A q \in GC!RootSet \ {r} : s[q] = sl[q]
  BY <1>1
<1> HIDE DEF s
<1>3. \A q : q # r => <<q>> # <<r>>
  OBVIOUS
<1>4. \A n, j : <<n, j>> # <<r>>
  <2>1. \A n, j : Len(<<r>>) = 1 /\ Len(<<n, j>>) = 2
    OBVIOUS
  <2> QED
    BY <2>1
<1>5. \A q \in GC!RootSet : IF <<q>> \in P \ {<<r>>} THEN s[q] = before.slot[q]
                            ELSE GC!IsCopy(mp, before.slot[q], s[q])
  <2> TAKE q \in GC!RootSet
  <2>1. CASE q = r
    BY <1>2, <2>1
  <2>2. CASE q # r
    BY <1>2, <1>3, <2>2 DEF Good, GC!SlotsInv
  <2> QED
    BY <2>1, <2>2
<1>6. GC!SlotsInv(hp, s, mp, P \ {<<r>>})
  BY <1>2, <1>4, <1>5 DEF Good, GC!SlotsInv
<1> QED
  BY <1>6 DEF Good, s

\* A field of a copy gets the copy of what it leads to.
LEMMA FilledField ==
  ASSUME GC!HeapAssumption, GC!BeforeInv, NEW hp, NEW sl, NEW mp, NEW P, Good(hp, sl, mp, P),
         NEW o \in DOMAIN mp, NEW j \in 1 .. GC!FieldCount(before.heap[o].kind),
         NEW y \in Nat \cup {Null}, GC!IsCopy(mp, before.heap[o].fields[j], y)
  PROVE  Good([hp EXCEPT ![mp[o]].fields[j] = y], sl, mp, P \ {<<mp[o], j>>})
<1> DEFINE n == mp[o]
           f == [hp[n].fields EXCEPT ![j] = y]
           x == [hp[n] EXCEPT !.fields = f]
           h == [hp EXCEPT ![n] = x]
<1>1. /\ DOMAIN mp \subseteq handlers /\ mp \in [DOMAIN mp -> Nat]
      /\ \A p \in DOMAIN mp : mp[p] \notin handlers
      /\ \A p, q \in DOMAIN mp : mp[p] = mp[q] => p = q
      /\ DOMAIN hp = handlers \cup GC!Copies(mp) /\ hp \in GC!Heaps(DOMAIN hp) /\ GC!Sized(hp)
      /\ \A p \in handlers : hp[p] = before.heap[p]
  BY DEF Good, GC!MapInv
<1>2. n \in DOMAIN hp /\ n \notin handlers
  BY <1>1 DEF GC!Copies
<1>3. /\ hp[n] \in [kind : GC!Kinds, fields : Seq(Nat \cup {Null})] /\ hp[n].kind = before.heap[o].kind
      /\ Len(hp[n].fields) = GC!FieldCount(hp[n].kind)
  BY <1>1, <1>2 DEF GC!Heaps, GC!Sized, Good, GC!SlotsInv
<1>4. hp[n].fields \in Seq(Nat \cup {Null}) /\ j \in 1 .. Len(hp[n].fields)
  BY <1>3
<1>5. /\ f \in Seq(Nat \cup {Null}) /\ Len(f) = Len(hp[n].fields) /\ f[j] = y
      /\ \A i \in 1 .. Len(hp[n].fields) : i # j => f[i] = hp[n].fields[i]
  BY <1>4
<1> HIDE DEF f
<1>6. x \in [kind : GC!Kinds, fields : Seq(Nat \cup {Null})] /\ x.kind = hp[n].kind /\ x.fields = f
  BY <1>3, <1>5
<1> HIDE DEF x
<1>7. DOMAIN h = DOMAIN hp /\ h[n] = x /\ \A p \in DOMAIN hp : p # n => h[p] = hp[p]
  BY <1>2
<1>8. h \in GC!Heaps(DOMAIN h) /\ GC!Sized(h)
  <2>1. \A p \in DOMAIN h : h[p] \in [kind : GC!Kinds, fields : Seq(Nat \cup {Null})]
    BY <1>1, <1>6, <1>7 DEF GC!Heaps
  <2>2. h \in [DOMAIN h -> [kind : GC!Kinds, fields : Seq(Nat \cup {Null})]]
    BY <2>1
  <2> HIDE DEF h
  <2>3. \A p \in DOMAIN h : Len(h[p].fields) = GC!FieldCount(h[p].kind)
    BY <1>1, <1>3, <1>5, <1>6, <1>7 DEF GC!Sized
  <2> QED
    BY <2>2, <2>3 DEF GC!Heaps, GC!Sized
<1> HIDE DEF h
<1>9. GC!MapInv(h, mp)
  <2>1. \A p \in handlers : h[p] = before.heap[p]
    BY <1>1, <1>2, <1>7
  <2> QED
    BY <1>1, <1>7, <1>8, <2>1 DEF GC!MapInv
<1> DEFINE Q == P \ {<<n, j>>}
<1>10. GC!SlotsInv(h, sl, mp, Q)
  <2>1. \A r : <<r>> # <<n, j>>
    <3>1. \A r : Len(<<r>>) = 1 /\ Len(<<n, j>>) = 2
      OBVIOUS
    <3> QED
      BY <3>1
  <2>2. /\ sl \in [GC!RootSet -> Nat \cup {Null}]
        /\ \A r \in GC!RootSet : IF <<r>> \in Q THEN sl[r] = before.slot[r]
                                 ELSE GC!IsCopy(mp, before.slot[r], sl[r])
    BY <2>1 DEF Good, GC!SlotsInv
  <2>3. ASSUME NEW p \in DOMAIN mp
        PROVE  h[mp[p]].kind = before.heap[p].kind
    BY <1>1, <1>3, <1>6, <1>7 DEF Good, GC!SlotsInv, GC!Copies
  <2>4. ASSUME NEW p \in DOMAIN mp, NEW i \in 1 .. GC!FieldCount(before.heap[p].kind)
        PROVE  IF <<mp[p], i>> \in Q THEN h[mp[p]].fields[i] = before.heap[p].fields[i]
               ELSE GC!IsCopy(mp, before.heap[p].fields[i], h[mp[p]].fields[i])
    <3>1. IF <<mp[p], i>> \in P THEN hp[mp[p]].fields[i] = before.heap[p].fields[i]
          ELSE GC!IsCopy(mp, before.heap[p].fields[i], hp[mp[p]].fields[i])
      BY DEF Good, GC!SlotsInv
    <3>2. CASE p = o /\ i = j
      BY <1>5, <1>6, <1>7, <3>2
    <3>3. CASE p = o /\ i # j
      <4>1. h[mp[p]].fields[i] = hp[mp[p]].fields[i]
        BY <1>3, <1>5, <1>6, <1>7, <3>3
      <4>2. <<mp[p], i>> \in Q <=> <<mp[p], i>> \in P
        BY <3>3
      <4> QED
        BY <3>1, <4>1, <4>2
    <3>4. CASE p # o
      <4>1. mp[p] # n /\ mp[p] \in DOMAIN hp
        BY <1>1, <3>4 DEF GC!Copies
      <4>2. h[mp[p]].fields[i] = hp[mp[p]].fields[i]
        BY <1>7, <4>1
      <4>3. <<mp[p], i>> \in Q <=> <<mp[p], i>> \in P
        BY <4>1
      <4> QED
        BY <3>1, <4>2, <4>3
    <3> QED
      BY <3>2, <3>3, <3>4
  <2> HIDE DEF Q
  <2> QED
    BY <2>2, <2>3, <2>4 DEF GC!SlotsInv
<1> QED
  BY <1>9, <1>10 DEF Good, h, x, f

(* The slot a step is at.                                                   *)

Collecting == GC!HeapAssumption /\ GC!IInv /\ phase = "roots"

\* What holds in the midst of a collection.
LEMMA Midst ==
  ASSUME Collecting
  PROVE  /\ GC!BeforeInv /\ GC!TodoInv /\ Good(heap, slot, map, GC!Unvisited \cup GC!InTodo)
         /\ made \in Nat /\ made <= Objects /\ DOMAIN heap \subseteq 1 .. made
  BY DEF Collecting, GC!IInv, GC!CollectInv, Good, GC!TypeOK, GC!HeapAssumption

\* Slot s is root r.
AtRoot(s, r) == r \in GC!RootSet /\ s = <<r>> /\ GC!At(s) = before.slot[r]

\* Slot s is field j of the copy of o.
AtField(s, o, j) ==
  /\ o \in DOMAIN map /\ j \in 1 .. GC!FieldCount(before.heap[o].kind) /\ s = <<map[o], j>>
  /\ GC!At(s) = before.heap[o].fields[j]

\* A field of a copy is a field of the object it was copied from.
LEMMA FieldOfCopy ==
  ASSUME Collecting, NEW s \in GC!FieldSlots(heap, map)
  PROVE  \E o \in DOMAIN map : \E j \in 1 .. GC!FieldCount(before.heap[o].kind) : s = <<map[o], j>>
<1>1. PICK n \in GC!Copies(map) : \E j \in 1 .. GC!FieldCount(heap[n].kind) : s = <<n, j>>
  BY DEF GC!FieldSlots
<1>2. PICK o \in DOMAIN map : n = map[o]
  BY DEF GC!Copies
<1>3. heap[n].kind = before.heap[o].kind
  BY <1>2, Midst DEF Good, GC!SlotsInv
<1> QED
  BY <1>1, <1>2, <1>3

\* The slot a step is at is a root or a field of a copy, and leads to the old graph.
LEMMA HeadSlot ==
  ASSUME Collecting, todo # <<>>
  PROVE  /\ \/ \E r : AtRoot(Head(todo), r)
            \/ \E o, j : AtField(Head(todo), o, j)
         /\ GC!At(Head(todo)) \in handlers \cup {Null}
         /\ \A S \in SUBSET handlers :
              GC!Closed(before.heap, before.slot, S) => GC!At(Head(todo)) \in S \cup {Null}
<1> DEFINE s == Head(todo)
           P == GC!Unvisited \cup GC!InTodo
<1>1. GC!BeforeInv /\ GC!TodoInv /\ Good(heap, slot, map, P)
  BY Midst
<1>2. s \in {<<r>> : r \in GC!RootSet} \cup GC!FieldSlots(heap, map) /\ s \in P
  BY <1>1, TailOf DEF GC!TodoInv, GC!InTodo, Distinct, Items
<1> HIDE DEF P, s
<1>3. CASE s \in {<<r>> : r \in GC!RootSet}
  <2>1. PICK r \in GC!RootSet : s = <<r>>
    BY <1>3
  <2>2. Len(s) = 1 /\ s[1] = r
    BY <2>1
  <2>3. GC!At(s) = slot[r] /\ slot[r] = before.slot[r]
    BY <1>1, <1>2, <2>1, <2>2 DEF GC!At, Good, GC!SlotsInv
  <2>4. AtRoot(s, r)
    BY <2>1, <2>3 DEF AtRoot
  <2>5. \A S : GC!Closed(before.heap, before.slot, S) => GC!At(s) \in S \cup {Null}
    BY <2>3 DEF GC!Closed
  <2> QED
    BY <1>1, <2>4, <2>5 DEF GC!BeforeInv, s
<1>4. CASE s \in GC!FieldSlots(heap, map)
  <2>1. PICK o \in DOMAIN map : \E i \in 1 .. GC!FieldCount(before.heap[o].kind) : s = <<map[o], i>>
    BY <1>4, FieldOfCopy
  <2>2. PICK j \in 1 .. GC!FieldCount(before.heap[o].kind) : s = <<map[o], j>>
    BY <2>1
  <2>3. Len(s) = 2 /\ s[1] = map[o] /\ s[2] = j
    BY <2>2
  <2>4. GC!At(s) = heap[map[o]].fields[j] /\ heap[map[o]].fields[j] = before.heap[o].fields[j]
    BY <1>1, <1>2, <2>2, <2>3 DEF GC!At, Good, GC!SlotsInv
  <2>5. AtField(s, o, j)
    BY <2>2, <2>4 DEF AtField
  <2>6. o \in handlers /\ Len(before.heap[o].fields) = GC!FieldCount(before.heap[o].kind)
    BY <1>1 DEF Good, GC!MapInv, GC!BeforeInv, GC!Heaps, GC!Sized
  <2>7. \A S : o \in S /\ GC!Closed(before.heap, before.slot, S) => GC!At(s) \in S \cup {Null}
    BY <2>2, <2>4, <2>6 DEF GC!Closed
  <2>8. \A S \in SUBSET handlers : GC!Closed(before.heap, before.slot, S) => o \in S
    BY <1>1 DEF Good, GC!ReachedInv
  <2> QED
    BY <1>1, <2>5, <2>6, <2>7, <2>8 DEF GC!BeforeInv, s
<1> QED
  BY <1>2, <1>3, <1>4

\* Set gives the slot y, a copy of what it leads to.
LEMMA Given ==
  ASSUME Collecting, todo # <<>>, NEW hp, NEW mp, NEW P, Good(hp, slot, mp, P),
         \A o \in DOMAIN map : o \in DOMAIN mp /\ mp[o] = map[o],
         NEW y \in Nat \cup {Null}, GC!IsCopy(mp, GC!At(Head(todo)), y), GC!Set(Head(todo), hp, y)
  PROVE  /\ Good(heap', slot', mp, P \ {Head(todo)}) /\ DOMAIN heap' = DOMAIN hp
         /\ \A n \in DOMAIN hp : heap'[n].kind = hp[n].kind
<1> DEFINE s == Head(todo)
<1>1. GC!BeforeInv /\ GC!HeapAssumption
  BY Midst DEF Collecting
<1> HIDE DEF s
<1>2. ASSUME NEW r, AtRoot(s, r)
      PROVE  /\ Good(heap', slot', mp, P \ {s}) /\ DOMAIN heap' = DOMAIN hp
             /\ \A n \in DOMAIN hp : heap'[n].kind = hp[n].kind
  <2>1. Len(s) = 1 /\ s[1] = r /\ s = <<r>> /\ GC!At(s) = before.slot[r] /\ r \in GC!RootSet
    BY <1>2 DEF AtRoot
  <2>2. heap' = hp /\ slot' = [slot EXCEPT ![r] = y]
    BY <2>1 DEF GC!Set, s
  <2>3. Good(hp, [slot EXCEPT ![r] = y], mp, P \ {<<r>>})
    BY <2>1, FilledRoot DEF s
  <2> QED
    BY <2>1, <2>2, <2>3
<1>3. ASSUME NEW o, NEW j, AtField(s, o, j)
      PROVE  /\ Good(heap', slot', mp, P \ {s}) /\ DOMAIN heap' = DOMAIN hp
             /\ \A n \in DOMAIN hp : heap'[n].kind = hp[n].kind
  <2>1. /\ o \in DOMAIN mp /\ j \in 1 .. GC!FieldCount(before.heap[o].kind) /\ s = <<mp[o], j>>
        /\ GC!At(s) = before.heap[o].fields[j] /\ s[1] = mp[o] /\ s[2] = j
    BY <1>3 DEF AtField
  <2>2. Len(s) # 1
    BY <2>1
  <2>3. heap' = [hp EXCEPT ![mp[o]].fields[j] = y] /\ slot' = slot
    BY <2>1, <2>2 DEF GC!Set, s
  <2>4. Good([hp EXCEPT ![mp[o]].fields[j] = y], slot, mp, P \ {<<mp[o], j>>})
    BY ZenonT(60), <1>1, <2>1, FilledField DEF s
  <2>5. mp[o] \in DOMAIN hp /\ hp[mp[o]] \in [kind : GC!Kinds, fields : Seq(Nat \cup {Null})]
    BY <2>1 DEF Good, GC!MapInv, GC!Heaps, GC!Copies
  <2>6. DOMAIN heap' = DOMAIN hp /\ \A n \in DOMAIN hp : heap'[n].kind = hp[n].kind
    BY <2>3, <2>5
  <2> QED
    BY <2>1, <2>3, <2>4, <2>6
<1> QED
  BY <1>2, <1>3, HeadSlot DEF s

\* The head slot, which leads nowhere, counts as visited.
LEMMA Passed ==
  ASSUME Collecting, todo # <<>>, GC!At(Head(todo)) = Null
  PROVE  Good(heap, slot, map, (GC!Unvisited \cup GC!InTodo) \ {Head(todo)})
<1> DEFINE s == Head(todo)
           P == GC!Unvisited \cup GC!InTodo
<1>1. Good(heap, slot, map, P)
  BY Midst
<1> HIDE DEF P, s
<1>2. \A r \in GC!RootSet : <<r>> = s => slot[r] = Null
  <2> TAKE r \in GC!RootSet
  <2>1. Len(<<r>>) = 1 /\ <<r>>[1] = r
    OBVIOUS
  <2> QED
    BY <2>1 DEF GC!At, s
<1>3. \A n, j : <<n, j>> = s => heap[n].fields[j] = Null
  <2> TAKE n, j
  <2>1. Len(<<n, j>>) # 1 /\ <<n, j>>[1] = n /\ <<n, j>>[2] = j
    OBVIOUS
  <2> QED
    BY <2>1 DEF GC!At, s
<1>4. s \in P
  BY Midst, TailOf DEF GC!TodoInv, GC!InTodo, Distinct, Items, s, P
<1>5. \A r \in GC!RootSet : IF <<r>> \in P \ {s} THEN slot[r] = before.slot[r]
                            ELSE GC!IsCopy(map, before.slot[r], slot[r])
  BY <1>1, <1>2, <1>4 DEF Good, GC!SlotsInv, GC!IsCopy
<1>6. \A o \in DOMAIN map : \A j \in 1 .. GC!FieldCount(before.heap[o].kind) :
        IF <<map[o], j>> \in P \ {s} THEN heap[map[o]].fields[j] = before.heap[o].fields[j]
        ELSE GC!IsCopy(map, before.heap[o].fields[j], heap[map[o]].fields[j])
  BY <1>1, <1>3, <1>4 DEF Good, GC!SlotsInv, GC!IsCopy
<1> QED
  BY <1>1, <1>5, <1>6 DEF Good, GC!SlotsInv, s, P

\* The collection goes on with the slots Q.
LEMMA Continues ==
  ASSUME Collecting, NEW Q, Good(heap', slot', map', Q), (GC!Unvisited \cup GC!InTodo)' = Q, GC!TodoInv',
         made' \in 0 .. Objects, DOMAIN heap' \subseteq 1 .. made', next' \in 1 .. Len(Roots) + 1,
         UNCHANGED <<handlers, phase, before>>
  PROVE  GC!IInv'
<1>1. GC!BeforeInv /\ phase = "roots"
  BY Midst DEF Collecting
<1>2. GC!BeforeInv'
  BY <1>1 DEF GC!BeforeInv, GC!Heaps, GC!Sized, GC!Closed, GC!FieldCount
<1>3. GC!MapInv(heap, map)'
  BY DEF Good, GC!MapInv, GC!Heaps, GC!Sized, GC!Copies, GC!FieldCount
<1>4. GC!SlotsInv(heap, slot, map, GC!Unvisited \cup GC!InTodo)'
  BY DEF Good, GC!SlotsInv, GC!IsCopy, GC!FieldCount
<1>5. GC!ReachedInv(map)'
  BY DEF Good, GC!ReachedInv, GC!Closed
<1>6. GC!TypeOK'
  <2>1. heap' \in GC!Heaps(DOMAIN heap') /\ GC!Sized(heap') /\ handlers \subseteq DOMAIN heap'
    BY DEF Good, GC!MapInv
  <2>2. slot' \in [GC!RootSet -> Nat \cup {Null}]
    BY DEF Good, GC!SlotsInv
  <2> QED
    BY <1>1, <2>1, <2>2 DEF GC!TypeOK, GC!Heaps, GC!Sized, GC!FieldCount, GC!RootSet
<1>7. GC!MutatorInv' /\ GC!CollectInv'
  BY <1>1, <1>2, <1>3, <1>4, <1>5 DEF GC!MutatorInv, GC!CollectInv
<1> QED
  BY <1>6, <1>7 DEF GC!IInv

\* Skip and Redirect: the head slot is done, and nothing else has changed.
LEMMA HeadDone ==
  ASSUME Collecting, todo # <<>>, Good(heap', slot', map, (GC!Unvisited \cup GC!InTodo) \ {Head(todo)}),
         DOMAIN heap' = DOMAIN heap, \A n \in DOMAIN heap : heap'[n].kind = heap[n].kind,
         todo' = Tail(todo), UNCHANGED <<handlers, phase, next, map, before, made>>
  PROVE  GC!IInv'
<1> DEFINE S == {<<r>> : r \in GC!RootSet} \cup GC!FieldSlots(heap, map)
<1>1. GC!TodoInv /\ Good(heap, slot, map, GC!Unvisited \cup GC!InTodo)
  BY Midst
<1>2. todo \in Seq(S) /\ Distinct(todo) /\ GC!InTodo \cap GC!Unvisited = {}
  BY <1>1 DEF GC!TodoInv, Distinct
<1> HIDE DEF S
<1>3. /\ Tail(todo) \in Seq(S) /\ Distinct(Tail(todo)) /\ Head(todo) \in Items(todo)
      /\ Items(Tail(todo)) = Items(todo) \ {Head(todo)}
  BY <1>2, TailOf
<1>4. GC!InTodo' = GC!InTodo \ {Head(todo)} /\ GC!Unvisited' = GC!Unvisited /\ Head(todo) \in GC!InTodo
  BY <1>3 DEF GC!InTodo, Items, GC!Unvisited
<1>5. (GC!Unvisited \cup GC!InTodo)' = (GC!Unvisited \cup GC!InTodo) \ {Head(todo)}
  BY <1>2, <1>4
<1>6. GC!FieldSlots(heap', map') = GC!FieldSlots(heap, map)
  <2>1. \A n \in GC!Copies(map) : n \in DOMAIN heap
    BY <1>1 DEF Good, GC!MapInv
  <2> QED
    BY <2>1 DEF GC!FieldSlots, GC!Copies
<1>7. GC!TodoInv'
  <2>1. todo' \in Seq({<<r>> : r \in GC!RootSet} \cup GC!FieldSlots(heap', map'))
    BY <1>3, <1>6 DEF S
  <2> QED
    BY <1>2, <1>3, <1>4, <2>1 DEF GC!TodoInv, Distinct, GC!RootSet
<1>8. made' \in 0 .. Objects /\ DOMAIN heap' \subseteq 1 .. made' /\ next' \in 1 .. Len(Roots) + 1
  BY DEF Collecting, GC!IInv, GC!TypeOK
<1> QED
  BY <1>5, <1>7, <1>8, Continues

LEMMA SkipKeeps ==
  ASSUME GC!HeapAssumption, GC!IInv, GC!Skip
  PROVE  GC!IInv'
<1>1. Collecting /\ todo # <<>> /\ GC!At(Head(todo)) = Null
  BY DEF GC!Skip, Collecting
<1>2. Good(heap, slot, map, (GC!Unvisited \cup GC!InTodo) \ {Head(todo)})
  BY <1>1, Passed
<1>3. UNCHANGED <<heap, slot, handlers, phase, next, map, before, made>> /\ todo' = Tail(todo)
  BY DEF GC!Skip
<1> QED
  BY <1>1, <1>2, <1>3, HeadDone

LEMMA RedirectKeeps ==
  ASSUME GC!HeapAssumption, GC!IInv, GC!Redirect
  PROVE  GC!IInv'
<1> DEFINE o == GC!At(Head(todo))
           P == GC!Unvisited \cup GC!InTodo
<1>1. Collecting /\ todo # <<>> /\ o # Null /\ o \in DOMAIN map
  BY DEF GC!Redirect, Collecting, GC!Copied
<1>2. /\ GC!Set(Head(todo), heap, map[o]) /\ todo' = Tail(todo)
      /\ UNCHANGED <<handlers, phase, next, map, before, made>>
  BY DEF GC!Redirect
<1>3. Good(heap, slot, map, P) /\ map[o] \in Nat /\ GC!IsCopy(map, o, map[o])
  BY <1>1, Midst DEF Good, GC!MapInv, GC!IsCopy
<1>4. /\ Good(heap', slot', map, P \ {Head(todo)}) /\ DOMAIN heap' = DOMAIN heap
      /\ \A n \in DOMAIN heap : heap'[n].kind = heap[n].kind
  BY <1>1, <1>2, <1>3, Given
<1> QED
  BY <1>1, <1>2, <1>4, HeadDone

\* The slots of a new copy, as a sequence.
LEMMA InnerSlots ==
  ASSUME GC!HeapAssumption, NEW k, NEW n, NEW S, \A j \in 1 .. GC!FieldCount(k) : <<n, j>> \in S
  PROVE  /\ GC!Inner(k, n) \in Seq(S) /\ Distinct(GC!Inner(k, n))
         /\ Items(GC!Inner(k, n)) = {<<n, j>> : j \in 1 .. GC!FieldCount(k)}
<1>1. GC!FieldCount(k) \in Nat
  BY CountIsNat
<1>2. /\ GC!Inner(k, n) \in Seq(S) /\ Len(GC!Inner(k, n)) = GC!FieldCount(k)
      /\ \A j \in 1 .. GC!FieldCount(k) : GC!Inner(k, n)[j] = <<n, j>>
  BY <1>1 DEF GC!Inner
<1>3. \A i, j : <<n, i>> = <<n, j>> => i = j
  OBVIOUS
<1> DEFINE s == GC!Inner(k, n)
           J == 1 .. GC!FieldCount(k)
<1>4. s \in Seq(S) /\ 1 .. Len(s) = J /\ \A j \in J : s[j] = <<n, j>>
  BY <1>2
<1> HIDE DEF s, J
<1>5. Distinct(s)
  BY <1>3, <1>4 DEF Distinct
<1>6. Items(s) = {<<n, j>> : j \in J}
  BY <1>4 DEF Items
<1> QED
  BY <1>4, <1>5, <1>6 DEF s, J

LEMMA CopyKeeps ==
  ASSUME GC!HeapAssumption, GC!IInv, GC!Copy
  PROVE  GC!IInv'
<1> DEFINE o == GC!At(Head(todo))
           n == GC!Fresh
           k == before.heap[o].kind
           P == GC!Unvisited \cup GC!InTodo
           I == {<<n, j>> : j \in 1 .. GC!FieldCount(k)}
           h == [x \in DOMAIN heap \cup {n} |-> IF x = n THEN heap[o] ELSE heap[x]]
           S == {<<r>> : r \in GC!RootSet} \cup GC!FieldSlots(heap, map)
           T == {<<r>> : r \in GC!RootSet} \cup GC!FieldSlots(heap', map')
<1>1. Collecting /\ todo # <<>> /\ o # Null /\ o \notin DOMAIN map
  BY DEF GC!Copy, Collecting, GC!Copied
<1>2. /\ n <= Objects /\ GC!Set(Head(todo), h, n) /\ made' = n
      /\ map' = [x \in DOMAIN map \cup {o} |-> IF x = o THEN n ELSE map[x]]
      /\ todo' = GC!Inner(heap[o].kind, n) \o Tail(todo)
      /\ UNCHANGED <<handlers, phase, next, before>>
  BY DEF GC!Copy
<1>3. /\ GC!BeforeInv /\ GC!TodoInv /\ Good(heap, slot, map, P) /\ made \in Nat
      /\ DOMAIN heap \subseteq 1 .. made
      /\ GC!HeapAssumption
  BY <1>1, Midst DEF Collecting
<1>4. n \in Nat /\ n \notin DOMAIN heap /\ n = made + 1
  BY <1>3 DEF GC!Fresh
<1>5. o \in handlers /\ \A Z \in SUBSET handlers : GC!Closed(before.heap, before.slot, Z) => o \in Z
  BY <1>1, HeadSlot
<1>6. heap[o].kind = k
  BY <1>3, <1>5 DEF Good, GC!MapInv
<1> HIDE DEF n, k, o, P, S, T
<1>7. Good(h, slot, map', P \cup I)
  <2>1. /\ GC!HeapAssumption /\ GC!BeforeInv /\ Good(heap, slot, map, P) /\ o \in handlers
        /\ o \notin DOMAIN map
        /\ n \in Nat /\ n \notin DOMAIN heap
        /\ \A Z \in SUBSET handlers : GC!Closed(before.heap, before.slot, Z) => o \in Z
    BY <1>1, <1>3, <1>4, <1>5
  <2> HIDE DEF I
  <2>2. Good(WithCopy(heap, o, n), slot, WithPair(map, o, n), WithFields(P, o, n))
    BY <2>1, Extended
  <2> QED
    BY <1>2, <2>2 DEF k, I, h, WithCopy, WithPair, WithFields
<1>8. /\ DOMAIN h = DOMAIN heap \cup {n} /\ h[n] = heap[o] /\ \A x \in DOMAIN heap : h[x] = heap[x]
  BY <1>4
<1>9. /\ DOMAIN map' = DOMAIN map \cup {o} /\ map'[o] = n /\ \A x \in DOMAIN map : map'[x] = map[x]
  BY <1>1, <1>2
<1> HIDE DEF h
<1>10. GC!IsCopy(map', o, n)
  BY <1>1, <1>9 DEF GC!IsCopy
<1>11. /\ Good(heap', slot', map', (P \cup I) \ {Head(todo)}) /\ DOMAIN heap' = DOMAIN h
       /\ \A x \in DOMAIN h : heap'[x].kind = h[x].kind
  BY <1>1, <1>2, <1>4, <1>7, <1>9, <1>10, Given DEF o
<1>12. \A x \in GC!Copies(map) : x \in DOMAIN heap /\ x # n
  BY <1>3, <1>4 DEF Good, GC!MapInv
<1>13. GC!Copies(map') = GC!Copies(map) \cup {n}
  BY <1>9 DEF GC!Copies
<1>14. GC!FieldSlots(heap', map') = GC!FieldSlots(heap, map) \cup I
  <2>1. heap'[n].kind = k /\ \A x \in GC!Copies(map) : heap'[x].kind = heap[x].kind
    BY <1>6, <1>8, <1>11, <1>12
  <2> QED
    BY <1>13, <2>1 DEF GC!FieldSlots
<1>15. todo \in Seq(S) /\ Distinct(todo) /\ GC!InTodo \cap GC!Unvisited = {}
  BY <1>3 DEF GC!TodoInv, Distinct, S
<1>16. /\ Tail(todo) \in Seq(S) /\ Distinct(Tail(todo)) /\ Head(todo) \in Items(todo)
       /\ Items(Tail(todo)) = Items(todo) \ {Head(todo)} /\ Items(todo) = GC!InTodo
  BY <1>1, <1>15, TailOf DEF Items, GC!InTodo
<1>17. S \subseteq T /\ I \subseteq T
  BY <1>14 DEF S, T
<1>18. Tail(todo) \in Seq(T)
  <2>1. Len(Tail(todo)) \in Nat /\ \A i \in 1 .. Len(Tail(todo)) : Tail(todo)[i] \in S
    BY <1>16
  <2> QED
    BY <1>16, <1>17, <2>1
<1>19. I \cap S = {} /\ I \cap GC!Unvisited = {}
  <2>1. \A r, j : <<n, j>> # <<r>>
    <3>1. \A r, j : Len(<<n, j>>) = 2 /\ Len(<<r>>) = 1
      OBVIOUS
    <3> QED
      BY <3>1
  <2>2. \A x, j, i : <<x, i>> = <<n, j>> => x = n
    OBVIOUS
  <2>3. \A j : <<n, j>> \notin GC!FieldSlots(heap, map)
    BY <1>12, <2>2 DEF GC!FieldSlots
  <2> QED
    BY <2>1, <2>3 DEF S, GC!Unvisited
<1>20. Items(todo) \subseteq S
  BY <1>15 DEF Items
<1>21. /\ GC!Inner(k, n) \in Seq(T) /\ Distinct(GC!Inner(k, n)) /\ Items(GC!Inner(k, n)) = I
  BY <1>3, <1>17, InnerSlots
<1> HIDE DEF I
<1>22. /\ todo' \in Seq(T) /\ Distinct(todo') /\ Items(todo') = I \cup (GC!InTodo \ {Head(todo)})
  <2>1. I \cap Items(Tail(todo)) = {}
    BY <1>16, <1>19, <1>20
  <2>2. todo' = GC!Inner(k, n) \o Tail(todo)
    BY <1>2, <1>6
  <2>3. Apart(GC!Inner(k, n), Tail(todo), T)
    BY <1>16, <1>18, <1>21, <2>1 DEF Apart
  <2>4. Joins(todo', GC!Inner(k, n), Tail(todo), T)
    BY <2>2, <2>3, ConcatOf
  <2> QED
    BY <1>16, <1>21, <2>4 DEF Joins
<1>23. GC!InTodo' = I \cup (GC!InTodo \ {Head(todo)}) /\ GC!Unvisited' = GC!Unvisited
  BY <1>2, <1>22 DEF GC!InTodo, Items, GC!Unvisited
<1>24. (GC!Unvisited \cup GC!InTodo)' = (P \cup I) \ {Head(todo)}
  BY <1>15, <1>16, <1>19, <1>20, <1>23 DEF P
<1>25. GC!TodoInv'
  BY <1>15, <1>19, <1>22, <1>23 DEF GC!TodoInv, Distinct, T, GC!RootSet
<1>26. made' \in 0 .. Objects /\ DOMAIN heap' \subseteq 1 .. made' /\ next' \in 1 .. Len(Roots) + 1
  BY <1>2, <1>3, <1>4, <1>8, <1>11 DEF GC!IInv, GC!TypeOK, GC!HeapAssumption
<1> QED
  BY <1>1, <1>2, <1>11, <1>24, <1>25, <1>26, Continues

LEMMA VisitRootKeeps ==
  ASSUME GC!HeapAssumption, GC!IInv, GC!VisitRoot
  PROVE  GC!IInv'
<1> DEFINE s == <<Roots[next]>>
<1>1. /\ Collecting /\ todo = <<>> /\ todo' = <<s>> /\ next' = next + 1 /\ next \in 1 .. Len(Roots)
      /\ UNCHANGED <<heap, slot, handlers, phase, map, before, made>>
  BY DEF GC!VisitRoot, Collecting, GC!IInv, GC!TypeOK
<1>2. Good(heap, slot, map, GC!Unvisited \cup GC!InTodo)
  BY <1>1, Midst
<1>3. Roots \in Seq(GC!RootSet) /\ \A i, j \in 1 .. Len(Roots) : Roots[i] = Roots[j] => i = j
  BY DEF GC!HeapAssumption
<1>4. Roots[next] \in GC!RootSet /\ Len(Roots) \in Nat
  BY <1>1, <1>3
<1>5. GC!Unvisited' = {<<Roots[i]>> : i \in next + 1 .. Len(Roots)}
  BY <1>1 DEF GC!Unvisited
<1>6. \A i \in next .. Len(Roots) : i = next \/ i \in next + 1 .. Len(Roots)
  BY <1>1, <1>4
<1>7. \A i \in next + 1 .. Len(Roots) : i \in next .. Len(Roots)
  BY <1>1, <1>4
<1>8. GC!Unvisited = GC!Unvisited' \cup {s}
  BY <1>1, <1>5, <1>6, <1>7 DEF GC!Unvisited
<1>9. s \notin GC!Unvisited'
  <2>1. \A i \in next + 1 .. Len(Roots) : i \in 1 .. Len(Roots) /\ i # next
    BY <1>1, <1>4
  <2>2. \A x, y : <<x>> = <<y>> => x = y
    OBVIOUS
  <2> QED
    BY <1>1, <1>3, <1>5, <2>1, <2>2
<1>10. GC!InTodo = {} /\ GC!InTodo' = {s}
  <2>1. Len(<<>>) = 0 /\ Len(<<s>>) = 1 /\ <<s>>[1] = s
    OBVIOUS
  <2>2. \A k \in 1 .. 0 : FALSE
    OBVIOUS
  <2>3. \A k : k \in 1 .. 1 <=> k = 1
    OBVIOUS
  <2> QED
    BY <1>1, <2>1, <2>2, <2>3 DEF GC!InTodo
<1>11. (GC!Unvisited \cup GC!InTodo)' = GC!Unvisited \cup GC!InTodo
  BY <1>8, <1>10
<1>12. GC!TodoInv'
  <2> DEFINE T == {<<r>> : r \in GC!RootSet} \cup GC!FieldSlots(heap', map')
  <2>1. s \in T
    BY <1>4
  <2> HIDE DEF T
  <2>2. todo' \in Seq(T) /\ \A k, l \in 1 .. Len(todo') : k = l
    BY <1>1, <2>1
  <2> QED
    BY <1>9, <1>10, <2>2 DEF GC!TodoInv, T, GC!RootSet
<1>13. made' \in 0 .. Objects /\ DOMAIN heap' \subseteq 1 .. made' /\ next' \in 1 .. Len(Roots) + 1
  BY <1>1, <1>4 DEF GC!IInv, GC!TypeOK
<1>14. Good(heap', slot', map', GC!Unvisited \cup GC!InTodo)
  BY <1>1, <1>2
<1> QED
  BY <1>1, <1>11, <1>12, <1>13, <1>14, Continues

\* A collection begins with the graph as it is, and every root to be visited.
LEMMA StartKeeps ==
  ASSUME GC!HeapAssumption, GC!IInv, GC!Start
  PROVE  GC!IInv'
<1>1. /\ phase = "mutator" /\ phase' = "roots" /\ next' = 1 /\ todo' = <<>> /\ map' = <<>>
      /\ before' = [heap |-> heap, slot |-> slot] /\ UNCHANGED <<heap, slot, handlers, made>>
  BY DEF GC!Start
<1>2. GC!TypeOK /\ handlers = DOMAIN heap /\ GC!Closed(heap, slot, handlers)
  BY <1>1 DEF GC!IInv, GC!MutatorInv
<1>3. before'.heap = heap /\ before'.slot = slot /\ DOMAIN map' = {}
  BY <1>1
<1>4. GC!BeforeInv'
  BY <1>1, <1>2, <1>3 DEF GC!BeforeInv, GC!TypeOK, GC!Heaps, GC!Sized, GC!Closed, GC!FieldCount, GC!RootSet
<1>5. GC!Copies(map') = {}
  BY <1>3 DEF GC!Copies
<1>6. GC!MapInv(heap, map)'
  <2>1. map' \in [DOMAIN map' -> Nat]
    BY <1>1
  <2> QED
    BY <1>1, <1>2, <1>3, <1>5, <2>1 DEF GC!MapInv, GC!TypeOK, GC!Heaps, GC!Sized, GC!Copies, GC!FieldCount
<1>7. \A r \in GC!RootSet : <<r>> \in GC!Unvisited'
  BY <1>1 DEF GC!Unvisited, GC!RootSet
<1>8. GC!SlotsInv(heap, slot, map, GC!Unvisited \cup GC!InTodo)'
  BY <1>1, <1>2, <1>3, <1>7 DEF GC!SlotsInv, GC!TypeOK, GC!RootSet
<1>9. GC!ReachedInv(map)'
  BY <1>3 DEF GC!ReachedInv
<1>10. GC!TodoInv'
  <2>1. Len(<<>>) = 0 /\ \A S : <<>> \in Seq(S)
    OBVIOUS
  <2>2. \A k \in 1 .. 0 : FALSE
    OBVIOUS
  <2>3. Len(todo') = 0 /\ todo' \in Seq({<<r>> : r \in GC!RootSet} \cup GC!FieldSlots(heap', map'))
    BY <1>1, <2>1
  <2> HIDE DEF GC!FieldSlots
  <2> QED
    BY <2>2, <2>3 DEF GC!TodoInv, GC!InTodo, GC!RootSet
<1>11. GC!TypeOK'
  <2>1. Len(Roots) \in Nat
    BY DEF GC!HeapAssumption
  <2> QED
    BY <1>1, <1>2, <2>1 DEF GC!TypeOK, GC!Heaps, GC!Sized, GC!FieldCount, GC!RootSet
<1> QED
  BY <1>1, <1>4, <1>6, <1>8, <1>9, <1>10, <1>11 DEF GC!IInv, GC!MutatorInv, GC!CollectInv

\* When no slot is left to be visited, all lead to the copies; what is not deleted are the copies.
LEMMA Finished ==
  ASSUME GC!HeapAssumption, GC!IInv, GC!Delete
  PROVE  /\ GC!BeforeInv /\ Good(heap, slot, map, {})
         /\ DOMAIN heap' = GC!Copies(map) /\ \A n \in GC!Copies(map) : heap'[n] = heap[n]
         /\ handlers' = GC!Copies(map) /\ phase' = "mutator"
         /\ UNCHANGED <<slot, next, todo, map, before, made>>
<1>1. /\ Collecting /\ todo = <<>> /\ next > Len(Roots)
      /\ heap' = [o \in DOMAIN heap \ handlers |-> heap[o]]
      /\ handlers' = GC!Copies(map) /\ phase' = "mutator"
      /\ UNCHANGED <<slot, next, todo, map, before, made>>
  BY DEF GC!Delete, Collecting, GC!NewHandlers, GC!Copies
<1>2. GC!Unvisited \cup GC!InTodo = {}
  <2>1. Len(Roots) \in Nat /\ next \in 1 .. Len(Roots) + 1
    BY DEF GC!HeapAssumption, GC!IInv, GC!TypeOK
  <2>2. \A i \in next .. Len(Roots) : FALSE
    BY <1>1, <2>1
  <2>3. Len(<<>>) = 0 /\ \A k \in 1 .. 0 : FALSE
    OBVIOUS
  <2> QED
    BY <1>1, <2>2, <2>3 DEF GC!Unvisited, GC!InTodo
<1>3. GC!BeforeInv /\ Good(heap, slot, map, {})
  BY <1>1, <1>2, Midst
<1>4. DOMAIN heap \ handlers = GC!Copies(map)
  BY <1>3 DEF Good, GC!MapInv, GC!Copies
<1> QED
  BY <1>1, <1>3, <1>4

LEMMA DeleteKeeps ==
  ASSUME GC!HeapAssumption, GC!IInv, GC!Delete
  PROVE  GC!IInv'
<1> DEFINE C == GC!Copies(map)
<1>1. /\ GC!BeforeInv /\ Good(heap, slot, map, {})
      /\ DOMAIN heap' = C /\ \A n \in C : heap'[n] = heap[n]
      /\ handlers' = C /\ phase' = "mutator" /\ UNCHANGED <<slot, next, todo, map, before, made>>
  BY Finished
<1>2. GC!TypeOK /\ C \subseteq DOMAIN heap
  BY <1>1 DEF GC!IInv, Good, GC!MapInv
<1>3. \A x, y : GC!IsCopy(map, x, y) => y \in C \cup {Null}
  BY DEF GC!IsCopy, GC!Copies
<1>4. \A r \in GC!RootSet : slot[r] \in C \cup {Null}
  BY <1>1, <1>3 DEF Good, GC!SlotsInv
<1>5. ASSUME NEW n \in C, NEW j \in 1 .. Len(heap'[n].fields)
      PROVE  heap'[n].fields[j] \in C \cup {Null}
  <2>1. PICK o \in DOMAIN map : n = map[o]
    BY DEF GC!Copies
  <2>2. /\ heap'[n] = heap[n] /\ heap[n].kind = before.heap[o].kind
        /\ Len(heap[n].fields) = GC!FieldCount(heap[n].kind)
    BY <1>1, <1>2, <2>1 DEF Good, GC!SlotsInv, GC!MapInv, GC!Sized
  <2>3. j \in 1 .. GC!FieldCount(before.heap[o].kind)
    BY <2>2
  <2> QED
    BY <1>1, <1>3, <2>1, <2>2, <2>3 DEF Good, GC!SlotsInv
<1>6. GC!Closed(heap', slot', C)
  BY <1>1, <1>4, <1>5 DEF GC!Closed
<1> HIDE DEF C
<1>7. heap' \in GC!Heaps(C) /\ GC!Sized(heap')
  <2>1. heap' = [n \in C |-> heap[n]]
    BY <1>1, <1>2 DEF GC!Delete, C
  <2> QED
    BY <1>1, <1>2, <2>1 DEF GC!TypeOK, GC!Heaps, GC!Sized
<1>8. GC!TypeOK'
  BY <1>1, <1>2, <1>7 DEF GC!TypeOK, GC!Heaps, GC!Sized, GC!FieldCount, GC!RootSet
<1> QED
  BY <1>1, <1>6, <1>8 DEF GC!IInv, GC!MutatorInv, GC!CollectInv, GC!Closed

(* The program.                                                             *)

LEMMA AllocateKeeps ==
  ASSUME GC!HeapAssumption, GC!IInv, NEW r \in GC!RootSet, NEW k \in GC!Kinds, GC!Allocate(r, k)
  PROVE  GC!IInv'
<1> DEFINE n == GC!Fresh
           x == [kind |-> k, fields |-> [j \in 1 .. GC!FieldCount(k) |-> Null]]
<1>1. /\ phase = "mutator" /\ phase' = "mutator" /\ n <= Objects /\ made' = n
      /\ heap' = [o \in DOMAIN heap \cup {n} |-> IF o = n THEN x ELSE heap[o]]
      /\ handlers' = handlers \cup {n} /\ slot' = [slot EXCEPT ![r] = n] /\ UNCHANGED next
  BY DEF GC!Allocate, GC!Changing
<1>2. GC!TypeOK /\ handlers = DOMAIN heap /\ GC!Closed(heap, slot, handlers)
  BY <1>1 DEF GC!IInv, GC!MutatorInv
<1>3. GC!FieldCount(k) \in Nat
  BY CountIsNat
<1>4. /\ x \in [kind : GC!Kinds, fields : Seq(Nat \cup {Null})] /\ Len(x.fields) = GC!FieldCount(x.kind)
      /\ \A j \in 1 .. Len(x.fields) : x.fields[j] = Null
  BY <1>3
<1>5. n \in Nat /\ n = made + 1 /\ n \notin DOMAIN heap /\ made \in Nat
  BY <1>2 DEF GC!TypeOK, GC!Fresh, GC!HeapAssumption
<1> HIDE DEF x, n
<1>6. DOMAIN heap' = DOMAIN heap \cup {n} /\ heap'[n] = x /\ \A o \in DOMAIN heap : heap'[o] = heap[o]
  BY <1>1, <1>5
<1>7. heap' \in GC!Heaps(DOMAIN heap')
  BY <1>1, <1>2, <1>4 DEF GC!TypeOK, GC!Heaps
<1>8. GC!Sized(heap')
  BY <1>2, <1>4, <1>6 DEF GC!TypeOK, GC!Sized
<1>9. /\ slot' \in [GC!RootSet -> Nat \cup {Null}] /\ slot'[r] = n
      /\ \A q \in GC!RootSet \ {r} : slot'[q] = slot[q]
  BY <1>1, <1>2, <1>5 DEF GC!TypeOK
<1>10. made' \in 0 .. Objects /\ DOMAIN heap' \subseteq 1 .. made'
  BY <1>1, <1>2, <1>5, <1>6 DEF GC!TypeOK, GC!HeapAssumption
<1>11. GC!Closed(heap', slot', DOMAIN heap')
  BY <1>2, <1>4, <1>6, <1>9 DEF GC!Closed
<1>12. GC!TypeOK'
  BY <1>1, <1>2, <1>6, <1>7, <1>8, <1>9, <1>10 DEF GC!TypeOK, GC!Heaps, GC!Sized, GC!FieldCount, GC!RootSet
<1> QED
  BY <1>1, <1>2, <1>6, <1>11, <1>12 DEF GC!IInv, GC!MutatorInv, GC!CollectInv, GC!Closed, GC!RootSet

LEMMA StoreKeeps ==
  ASSUME GC!HeapAssumption, GC!IInv, NEW r \in GC!RootSet, NEW s \in GC!RootSet, NEW j, GC!Store(r, s, j)
  PROVE  GC!IInv'
<1> DEFINE o == slot[r]
           y == slot[s]
           f == [heap[o].fields EXCEPT ![j] = y]
           x == [heap[o] EXCEPT !.fields = f]
<1>1. /\ phase = "mutator" /\ phase' = "mutator" /\ o # Null /\ j \in 1 .. GC!FieldCount(heap[o].kind)
      /\ heap' = [heap EXCEPT ![o] = x] /\ UNCHANGED <<handlers, slot, made, next>>
  BY DEF GC!Store, GC!Changing
<1>2. GC!TypeOK /\ handlers = DOMAIN heap /\ GC!Closed(heap, slot, handlers)
  BY <1>1 DEF GC!IInv, GC!MutatorInv
<1>3. o \in DOMAIN heap /\ y \in DOMAIN heap \cup {Null} /\ y \in Nat \cup {Null}
  BY <1>1, <1>2 DEF GC!Closed, GC!TypeOK
<1>4. /\ heap[o] \in [kind : GC!Kinds, fields : Seq(Nat \cup {Null})]
      /\ Len(heap[o].fields) = GC!FieldCount(heap[o].kind)
  BY <1>2, <1>3 DEF GC!TypeOK, GC!Heaps, GC!Sized
<1>5. heap[o].fields \in Seq(Nat \cup {Null}) /\ j \in 1 .. Len(heap[o].fields)
  BY <1>1, <1>4
<1>6. /\ f \in Seq(Nat \cup {Null}) /\ Len(f) = Len(heap[o].fields) /\ f[j] = y
      /\ \A i \in 1 .. Len(heap[o].fields) : i # j => f[i] = heap[o].fields[i]
  BY <1>3, <1>5
<1> HIDE DEF f
<1>7. x \in [kind : GC!Kinds, fields : Seq(Nat \cup {Null})] /\ x.kind = heap[o].kind /\ x.fields = f
  BY <1>4, <1>6
<1> HIDE DEF x
<1>8. DOMAIN heap' = DOMAIN heap /\ heap'[o] = x /\ \A p \in DOMAIN heap : p # o => heap'[p] = heap[p]
  BY <1>1, <1>3
<1>9. heap' \in GC!Heaps(DOMAIN heap')
  BY <1>1, <1>2, <1>3, <1>7 DEF GC!TypeOK, GC!Heaps
<1>10. GC!Sized(heap')
  <2>1. Len(heap'[o].fields) = GC!FieldCount(heap'[o].kind)
    BY <1>4, <1>6, <1>7, <1>8
  <2> QED
    BY <1>2, <1>8, <2>1 DEF GC!TypeOK, GC!Sized
<1>11. \A i \in 1 .. Len(heap'[o].fields) : heap'[o].fields[i] \in DOMAIN heap \cup {Null}
  <2>1. \A i \in 1 .. Len(heap[o].fields) : heap[o].fields[i] \in DOMAIN heap \cup {Null}
    BY <1>2, <1>3 DEF GC!Closed
  <2> QED
    BY <1>3, <1>6, <1>7, <1>8, <2>1
<1>12. GC!Closed(heap', slot', DOMAIN heap')
  BY <1>1, <1>2, <1>8, <1>11 DEF GC!Closed
<1>13. GC!TypeOK'
  BY <1>1, <1>2, <1>8, <1>9, <1>10 DEF GC!TypeOK, GC!Heaps, GC!Sized, GC!FieldCount, GC!RootSet
<1> QED
  BY <1>1, <1>2, <1>8, <1>12, <1>13 DEF GC!IInv, GC!MutatorInv, GC!CollectInv, GC!Closed, GC!RootSet

LEMMA DropKeeps ==
  ASSUME GC!HeapAssumption, GC!IInv, NEW r \in GC!RootSet, GC!Drop(r)
  PROVE  GC!IInv'
<1>1. /\ phase = "mutator" /\ phase' = "mutator" /\ slot' = [slot EXCEPT ![r] = Null]
      /\ UNCHANGED <<handlers, heap, made, next>>
  BY DEF GC!Drop, GC!Changing
<1>2. GC!TypeOK /\ handlers = DOMAIN heap /\ GC!Closed(heap, slot, handlers)
  BY <1>1 DEF GC!IInv, GC!MutatorInv
<1>3. GC!TypeOK'
  BY <1>1, <1>2 DEF GC!TypeOK, GC!Heaps, GC!Sized, GC!FieldCount, GC!RootSet
<1>4. GC!Closed(heap', slot', handlers')
  BY <1>1, <1>2 DEF GC!Closed, GC!TypeOK
<1> QED
  BY <1>1, <1>2, <1>3, <1>4 DEF GC!IInv, GC!MutatorInv, GC!CollectInv, GC!Closed, GC!RootSet

(* The invariant.                                                           *)

LEMMA CollectionStart == ASSUME GC!HeapAssumption, GC!Init PROVE GC!IInv
<1> DEFINE N == Len(Initial)
<1>1. N \in Nat /\ N <= Objects /\ \A o \in 1 .. N : Initial[o] \in GC!Kinds
  BY DEF GC!HeapAssumption
<1>2. PICK refs \in [1 .. N -> [1 .. Fields -> 1 .. N \cup {Null}]] :
        heap = [o \in 1 .. N |->
                  [kind |-> Initial[o], fields |-> [j \in 1 .. GC!FieldCount(Initial[o]) |-> refs[o][j]]]]
  BY DEF GC!Init
<1>3. /\ slot \in [GC!RootSet -> 1 .. N \cup {Null}] /\ handlers = 1 .. N /\ made = N
      /\ phase = "mutator" /\ next = 1
  BY DEF GC!Init
<1>4. ASSUME NEW o \in 1 .. N
      PROVE  /\ heap[o] \in [kind : GC!Kinds, fields : Seq(Nat \cup {Null})]
             /\ Len(heap[o].fields) = GC!FieldCount(heap[o].kind)
             /\ \A j \in 1 .. Len(heap[o].fields) : heap[o].fields[j] \in 1 .. N \cup {Null}
  <2> DEFINE c == GC!FieldCount(Initial[o])
             f == [j \in 1 .. c |-> refs[o][j]]
  <2>1. heap[o] = [kind |-> Initial[o], fields |-> f]
    BY <1>2
  <2>2. c \in Nat /\ \A j \in 1 .. c : j \in 1 .. Fields
    BY CountIsNat DEF GC!FieldCount, GC!HeapAssumption
  <2>3. \A j \in 1 .. c : refs[o][j] \in 1 .. N \cup {Null}
    BY <1>2, <2>2
  <2> HIDE DEF c
  <2>4. f \in Seq(Nat \cup {Null}) /\ Len(f) = c /\ \A j \in 1 .. c : f[j] \in 1 .. N \cup {Null}
    <3>1. \A j \in 1 .. c : refs[o][j] \in Nat \cup {Null}
      BY <2>3
    <3> QED
      BY <2>2, <2>3, <3>1
  <2> HIDE DEF f
  <2> QED
    BY <1>1, <2>1, <2>4 DEF c
<1>5. DOMAIN heap = 1 .. N /\ heap = [o \in 1 .. N |-> heap[o]]
  BY <1>2
<1> HIDE DEF N
<1>6. heap \in GC!Heaps(DOMAIN heap) /\ GC!Sized(heap)
  BY <1>4, <1>5 DEF GC!Heaps, GC!Sized
<1>7. GC!Closed(heap, slot, DOMAIN heap)
  BY <1>3, <1>4, <1>5 DEF GC!Closed
<1>8. GC!TypeOK
  <2>1. Len(Roots) \in Nat /\ slot \in [GC!RootSet -> Nat \cup {Null}]
    BY <1>3 DEF GC!HeapAssumption
  <2> QED
    BY <1>1, <1>3, <1>5, <1>6, <2>1 DEF GC!TypeOK, GC!HeapAssumption
<1> QED
  BY <1>3, <1>5, <1>7, <1>8 DEF GC!IInv, GC!MutatorInv, GC!CollectInv

LEMMA CollectionStutters == ASSUME GC!HeapAssumption, GC!IInv, UNCHANGED gVars PROVE GC!IInv'
<1>1. UNCHANGED <<heap, slot, handlers, phase, next, todo, map, before, made>>
  BY DEF gVars
<1>2. GC!TypeOK'
  BY <1>1 DEF GC!IInv, GC!TypeOK, GC!Heaps, GC!Sized, GC!FieldCount, GC!RootSet
<1>3. GC!MutatorInv'
  BY <1>1 DEF GC!IInv, GC!MutatorInv, GC!Closed, GC!RootSet
<1>4. CASE phase = "roots"
  <2>1. Collecting
    BY <1>4 DEF Collecting
  <2>2. Good(heap', slot', map', GC!Unvisited \cup GC!InTodo) /\ GC!TodoInv
    BY <1>1, <2>1, Midst
  <2>3. (GC!Unvisited \cup GC!InTodo)' = GC!Unvisited \cup GC!InTodo
    BY <1>1 DEF GC!Unvisited, GC!InTodo
  <2>4. GC!TodoInv'
    BY <1>1, <2>2 DEF GC!TodoInv, GC!Unvisited, GC!InTodo, GC!FieldSlots, GC!Copies, GC!FieldCount,
           GC!RootSet
  <2> QED
    BY <1>1, <1>2, <2>1, <2>2, <2>3, <2>4, Continues DEF GC!TypeOK
<1>5. CASE phase # "roots"
  BY <1>1, <1>2, <1>3, <1>5 DEF GC!IInv, GC!CollectInv
<1> QED
  BY <1>4, <1>5

LEMMA CollectionStep == ASSUME GC!HeapAssumption, GC!IInv, [GC!Next]_gVars PROVE GC!IInv'
<1>1. ASSUME NEW r \in GC!RootSet, NEW s \in GC!RootSet, NEW k \in GC!Kinds, GC!Allocate(r, k)
      PROVE  GC!IInv'
  BY <1>1, AllocateKeeps
<1>2. ASSUME NEW r \in GC!RootSet, NEW s \in GC!RootSet, NEW j \in 1 .. Fields, GC!Store(r, s, j)
      PROVE  GC!IInv'
  BY <1>2, StoreKeeps
<1>3. ASSUME NEW r \in GC!RootSet, GC!Drop(r) PROVE GC!IInv'
  BY <1>3, DropKeeps
<1>4. CASE GC!Start
  BY <1>4, StartKeeps
<1>5. CASE GC!VisitRoot
  BY <1>5, VisitRootKeeps
<1>6. CASE GC!Skip
  BY <1>6, SkipKeeps
<1>7. CASE GC!Redirect
  BY <1>7, RedirectKeeps
<1>8. CASE GC!Copy
  BY <1>8, CopyKeeps
<1>9. CASE GC!Delete
  BY <1>9, DeleteKeeps
<1>10. CASE UNCHANGED gVars
  BY <1>10, CollectionStutters
<1> QED
  BY <1>1, <1>2, <1>3, <1>4, <1>5, <1>6, <1>7, <1>8, <1>9, <1>10 DEF GC!Next

\* The invariant holds in every reachable state, whatever the graph and the roots.
LEMMA CollectionInvariance == ASSUME GC!HeapAssumption PROVE GC!Spec => []GC!IInv
<1>1. GC!Init => GC!IInv
  BY CollectionStart
<1>2. GC!IInv /\ [GC!Next]_gVars => GC!IInv'
  BY CollectionStep
<1> QED
  BY <1>1, <1>2, PTL DEF GC!Spec, GC!vars, gVars

(* What a collection does to the graph.                                     *)

\* Only Delete ends a collection.
LEMMA EndIsDelete ==
  ASSUME [GC!Next]_gVars, phase = "roots", phase' = "mutator"
  PROVE  GC!Delete
<1>1. phase' # phase
  OBVIOUS
<1> QED
  BY <1>1 DEF GC!Next, GC!Allocate, GC!Store, GC!Drop, GC!Changing, GC!Start, GC!VisitRoot, GC!Skip,
         GC!Redirect, GC!Copy, gVars

\* The objects that were copied are those the roots led to.
LEMMA CopiedIsReached ==
  ASSUME GC!HeapAssumption, GC!IInv, GC!Delete
  PROVE  GC!Reached(before.heap, before.slot, DOMAIN map)
<1>1. GC!BeforeInv /\ Good(heap, slot, map, {})
  BY Finished
<1>2. \A x, y : GC!IsCopy(map, x, y) => x \in DOMAIN map \cup {Null}
  BY DEF GC!IsCopy
<1>3. \A r \in GC!RootSet : before.slot[r] \in DOMAIN map \cup {Null}
  BY <1>1, <1>2 DEF Good, GC!SlotsInv
<1>4. DOMAIN map \subseteq handlers /\ handlers = DOMAIN before.heap
  BY <1>1 DEF Good, GC!MapInv, GC!BeforeInv, GC!Heaps
<1>5. \A o \in DOMAIN map : Len(before.heap[o].fields) = GC!FieldCount(before.heap[o].kind)
  BY <1>1, <1>4 DEF GC!BeforeInv, GC!Sized
<1>6. \A o \in DOMAIN map : \A j \in 1 .. Len(before.heap[o].fields) :
        before.heap[o].fields[j] \in DOMAIN map \cup {Null}
  BY <1>1, <1>2, <1>5 DEF Good, GC!SlotsInv
<1>7. \A T \in SUBSET DOMAIN map : GC!Closed(before.heap, before.slot, T) => T = DOMAIN map
  BY <1>1, <1>4 DEF Good, GC!ReachedInv
<1> QED
  BY <1>3, <1>4, <1>6, <1>7 DEF GC!Reached, GC!Closed

\* The roots lead to a copy of the graph, one to one: the property SameGraph.
LEMMA CollectsTheGraph == ASSUME GC!HeapAssumption PROVE GC!Spec => GC!SameGraph
<1> DEFINE copy(o) == IF o = Null THEN Null ELSE map[o]
<1>1. ASSUME GC!IInv, [GC!Next]_gVars, phase = "roots", phase' = "mutator"
      PROVE  /\ GC!Reached(before.heap, before.slot, DOMAIN map)
             /\ \A o, p \in DOMAIN map : map[o] = map[p] => o = p
             /\ \A r \in GC!RootSet : slot'[r] = copy(before.slot[r])
             /\ \A o \in DOMAIN map : /\ heap'[map[o]].kind = before.heap[o].kind
                                      /\ Len(heap'[map[o]].fields) = Len(before.heap[o].fields)
                                      /\ \A j \in 1 .. Len(before.heap[o].fields) :
                                           heap'[map[o]].fields[j] = copy(before.heap[o].fields[j])
  <2>1. GC!Delete
    BY <1>1, EndIsDelete
  <2>2. /\ GC!BeforeInv /\ Good(heap, slot, map, {}) /\ slot' = slot
        /\ \A n \in GC!Copies(map) : heap'[n] = heap[n]
    BY <1>1, <2>1, Finished
  <2>3. \A x, y : GC!IsCopy(map, x, y) => y = copy(x)
    BY DEF GC!IsCopy
  <2> HIDE DEF copy
  <2>4. \A r \in GC!RootSet : slot'[r] = copy(before.slot[r])
    BY <2>2, <2>3 DEF Good, GC!SlotsInv
  <2>5. \A o, p \in DOMAIN map : map[o] = map[p] => o = p
    BY <2>2 DEF Good, GC!MapInv
  <2>6. ASSUME NEW o \in DOMAIN map
        PROVE  /\ heap'[map[o]].kind = before.heap[o].kind
               /\ Len(heap'[map[o]].fields) = Len(before.heap[o].fields)
               /\ \A j \in 1 .. Len(before.heap[o].fields) :
                    heap'[map[o]].fields[j] = copy(before.heap[o].fields[j])
    <3>1. heap'[map[o]] = heap[map[o]] /\ map[o] \in DOMAIN heap /\ o \in DOMAIN before.heap
      BY <2>2 DEF Good, GC!MapInv, GC!Copies, GC!BeforeInv, GC!Heaps
    <3>2. heap[map[o]].kind = before.heap[o].kind
      BY <2>2 DEF Good, GC!SlotsInv
    <3>3. /\ Len(before.heap[o].fields) = GC!FieldCount(before.heap[o].kind)
          /\ Len(heap[map[o]].fields) = GC!FieldCount(before.heap[o].kind)
      BY <2>2, <3>1, <3>2 DEF Good, GC!MapInv, GC!BeforeInv, GC!Sized
    <3> QED
      BY <2>2, <2>3, <3>1, <3>2, <3>3 DEF Good, GC!SlotsInv
  <2> QED
    BY <1>1, <2>1, <2>4, <2>5, <2>6, CopiedIsReached
<1>2. GC!IInv /\ [GC!Next]_gVars =>
        [phase = "roots" /\ phase' = "mutator" =>
           LET old == DOMAIN map
               c(o) == IF o = Null THEN Null ELSE map[o]
           IN /\ GC!Reached(before.heap, before.slot, old)
              /\ \A o, p \in old : map[o] = map[p] => o = p
              /\ \A r \in GC!RootSet : slot'[r] = c(before.slot[r])
              /\ \A o \in old : /\ heap'[map[o]].kind = before.heap[o].kind
                                /\ Len(heap'[map[o]].fields) = Len(before.heap[o].fields)
                                /\ \A j \in 1 .. Len(before.heap[o].fields) :
                                     heap'[map[o]].fields[j] = c(before.heap[o].fields[j])]_gVars
  BY <1>1
<1> QED
  BY <1>2, CollectionInvariance, PTL DEF GC!Spec, GC!vars, gVars, GC!SameGraph

\* Between collections every object is in the handler pool, and after one there are only objects
\* the roots lead to: the property GarbageIsFreed.
LEMMA GarbageGoes == ASSUME GC!HeapAssumption PROVE GC!Spec => GC!GarbageIsFreed
<1>1. GC!IInv => (phase = "mutator" => handlers = DOMAIN heap)
  BY DEF GC!IInv, GC!MutatorInv
<1>2. ASSUME GC!IInv, [GC!Next]_gVars, phase = "roots", phase' = "mutator"
      PROVE  GC!Reached(heap', slot', DOMAIN heap')
  <2>1. GC!Delete /\ GC!IInv'
    BY <1>2, EndIsDelete, CollectionStep
  <2>2. /\ GC!BeforeInv /\ Good(heap, slot, map, {}) /\ slot' = slot /\ DOMAIN heap' = GC!Copies(map)
        /\ \A n \in GC!Copies(map) : heap'[n] = heap[n]
    BY <1>2, <2>1, Finished
  <2>3. GC!Closed(heap', slot', DOMAIN heap')
    BY <1>2, <2>1 DEF GC!IInv, GC!MutatorInv, GC!Closed
  <2>4. ASSUME NEW T \in SUBSET DOMAIN heap', GC!Closed(heap', slot', T)
        PROVE  DOMAIN heap' \subseteq T
    <3> DEFINE O == {o \in DOMAIN map : map[o] \in T}
    <3>1. ASSUME NEW x, NEW y \in T \cup {Null}, GC!IsCopy(map, x, y)
          PROVE  x \in O \cup {Null}
      <4>1. \A o \in DOMAIN map : map[o] # Null
        BY <2>2 DEF Good, GC!MapInv, GC!HeapAssumption
      <4> QED
        BY <3>1, <4>1 DEF GC!IsCopy
    <3> HIDE DEF O
    <3>2. \A r \in GC!RootSet : before.slot[r] \in O \cup {Null}
      BY <2>2, <2>4, <3>1 DEF Good, GC!SlotsInv, GC!Closed
    <3>3. ASSUME NEW o \in O, NEW j \in 1 .. Len(before.heap[o].fields)
          PROVE  before.heap[o].fields[j] \in O \cup {Null}
      <4>1. o \in DOMAIN map /\ map[o] \in T
        BY DEF O
      <4>2. heap'[map[o]] = heap[map[o]] /\ map[o] \in DOMAIN heap /\ o \in DOMAIN before.heap
        BY <2>2, <4>1 DEF Good, GC!MapInv, GC!Copies, GC!BeforeInv, GC!Heaps
      <4>3. heap[map[o]].kind = before.heap[o].kind
        BY <2>2, <4>1 DEF Good, GC!SlotsInv
      <4>4. /\ Len(before.heap[o].fields) = GC!FieldCount(before.heap[o].kind)
            /\ Len(heap[map[o]].fields) = GC!FieldCount(before.heap[o].kind)
        BY <2>2, <4>2, <4>3 DEF Good, GC!MapInv, GC!BeforeInv, GC!Sized
      <4>5. heap[map[o]].fields[j] \in T \cup {Null}
        BY <2>4, <4>1, <4>2, <4>4 DEF GC!Closed
      <4>6. GC!IsCopy(map, before.heap[o].fields[j], heap[map[o]].fields[j])
        BY <2>2, <4>1, <4>4 DEF Good, GC!SlotsInv
      <4> QED
        BY <3>1, <4>5, <4>6
    <3>4. GC!Closed(before.heap, before.slot, O) /\ O \in SUBSET handlers
      BY <2>2, <3>2, <3>3 DEF GC!Closed, O, Good, GC!MapInv
    <3>5. DOMAIN map \subseteq O
      BY <2>2, <3>4 DEF Good, GC!ReachedInv
    <3> QED
      BY <2>2, <3>5 DEF O, GC!Copies
  <2> QED
    BY <2>3, <2>4 DEF GC!Reached
<1>3. GC!IInv /\ [GC!Next]_gVars =>
        [phase = "roots" /\ phase' = "mutator" => GC!Reached(heap', slot', DOMAIN heap')]_gVars
  BY <1>2
<1> QED
  BY <1>1, <1>3, CollectionInvariance, PTL DEF GC!Spec, GC!vars, gVars, GC!GarbageIsFreed

-----------------------------------------------------------------------------
(* The end of the process. A walk under automan_jvm::lock() passes threads that  *)
(* are Death only; Death is for good, and a thread that is not Death is needed   *)
(* to start another. So when the walk ends nobody is left, and nobody comes      *)
(* after it.                                                                     *)

\* Shutdown counts with the operators of FiniteSets.
LEMMA EndCounts == \A s : Exit!Cardinality(s) = Cardinality(s)
  BY DEF Exit!Cardinality, Cardinality
LEMMA EndFinite == \A s : Exit!IsFiniteSet(s) <=> IsFiniteSet(s)
  BY DEF Exit!IsFiniteSet, IsFiniteSet

\* The moves of the actors that start no thread.
Ways ==
  {<<"java", "parked">>, <<"parked", "java">>, <<"java", "dying">>, <<"dying", "dead">>,
   <<"java", "lock">>, <<"idle", "set">>, <<"set", "detect">>, <<"detect", "lock">>,
   <<"lock", "walk">>, <<"walk", "hung">>, <<"walk", "cancel">>, <<"join", "count">>,
   <<"count", "cancel">>, <<"cancel", "end">>}

\* The actor a goes from p to q, and changes neither the list nor what is being started,
\* nor the count unless it returns.
Moves(a, p, q) ==
  /\ a \in Exit!Enders /\ <<p, q>> \in Ways /\ at[a] = p /\ at' = [at EXCEPT ![a] = q]
  /\ UNCHANGED <<threads, starting>>
  /\ p \in {"idle", "set", "detect"} => a = Console
  /\ p \in {"join", "count"} => a = Launcher
  /\ p \notin {"join", "count", "cancel"} => a \in Exit!JavaThreads \cup {Console}
  /\ \/ q # "dying" /\ thread_num' = thread_num
     \/ a \in Exit!JavaThreads /\ Exit!Return(a)

\* The steps other than those that start a thread or walk past one.
MovingStep ==
  \/ \E t \in Exit!JavaThreads : Exit!Park(t) \/ Exit!Unpark(t) \/ Exit!Return(t) \/ Exit!Die(t) \/ Exit!Halt(t)
  \/ Exit!Signal \/ Exit!SetGc \/ Exit!DetectReady
  \/ \E a \in Exit!JavaThreads \cup {Console} : Exit!Lock(a) \/ Exit!Hang(a) \/ Exit!Unlock(a)
  \/ Exit!JoinMain \/ Exit!SeeNoThreads
  \/ \E a \in Exit!Enders : Exit!End(a)

\* Every such step is a move of one actor.
LEMMA StepMoves == ASSUME MovingStep PROVE \E a, p, q : Moves(a, p, q)
<1>1. \A t \in Exit!JavaThreads : Exit!Park(t) => Moves(t, "java", "parked")
  BY DEF Exit!Park, Moves, Exit!Goto, Exit!Enders, Ways
<1>2. \A t \in Exit!JavaThreads : Exit!Unpark(t) => Moves(t, "parked", "java")
  BY DEF Exit!Unpark, Moves, Exit!Goto, Exit!Enders, Ways
<1>3. \A t \in Exit!JavaThreads : Exit!Return(t) => Moves(t, "java", "dying")
  BY DEF Exit!Return, Moves, Exit!Goto, Exit!Enders, Ways
<1>4. \A t \in Exit!JavaThreads : Exit!Die(t) => Moves(t, "dying", "dead")
  BY DEF Exit!Die, Moves, Exit!Goto, Exit!Enders, Ways
<1>5. \A t \in Exit!JavaThreads : Exit!Halt(t) => Moves(t, "java", "lock")
  BY DEF Exit!Halt, Moves, Exit!Goto, Exit!Enders, Ways
<1>6. Exit!Signal => Moves(Console, "idle", "set")
  BY DEF Exit!Signal, Moves, Exit!Goto, Exit!Enders, Ways
<1>7. Exit!SetGc => Moves(Console, "set", "detect")
  BY DEF Exit!SetGc, Moves, Exit!Goto, Exit!Enders, Ways
<1>8. Exit!DetectReady => Moves(Console, "detect", "lock")
  BY DEF Exit!DetectReady, Moves, Exit!Goto, Exit!Enders, Ways
<1>9. \A a \in Exit!JavaThreads \cup {Console} : Exit!Lock(a) => Moves(a, "lock", "walk")
  BY DEF Exit!Lock, Moves, Exit!Goto, Exit!Enders, Ways
<1>10. \A a \in Exit!JavaThreads \cup {Console} : Exit!Hang(a) => Moves(a, "walk", "hung")
  BY DEF Exit!Hang, Exit!InWalk, Moves, Exit!Enders, Ways
<1>11. \A a \in Exit!JavaThreads \cup {Console} : Exit!Unlock(a) => Moves(a, "walk", "cancel")
  BY DEF Exit!Unlock, Moves, Exit!Goto, Exit!Enders, Ways
<1>12. Exit!JoinMain => Moves(Launcher, "join", "count")
  BY DEF Exit!JoinMain, Moves, Exit!Goto, Exit!Enders, Ways
<1>13. Exit!SeeNoThreads => Moves(Launcher, "count", "cancel")
  BY DEF Exit!SeeNoThreads, Moves, Exit!Goto, Exit!Enders, Ways
<1>14. \A a \in Exit!Enders : Exit!End(a) => Moves(a, "cancel", "end")
  BY DEF Exit!End, Moves, Exit!Goto, Ways
<1> QED
  BY <1>1, <1>2, <1>3, <1>4, <1>5, <1>6, <1>7, <1>8, <1>9, <1>10, <1>11, <1>12, <1>13,
     <1>14 DEF MovingStep

\* The list and the threads being started fit together, after a move as before it.
LEMMA MoveKeepsList ==
  ASSUME Exit!TypeOK, Exit!ListInv, NEW a, NEW p, NEW q, Moves(a, p, q)
  PROVE  Exit!ListInv'
<1>1. /\ \A b \in Exit!Enders : at'[b] = IF b = a THEN q ELSE at[b]
      /\ p \notin {"unborn", "pushing", "pushed"} /\ q \notin {"unborn", "pushing", "pushed"}
      /\ threads' = threads /\ starting' = starting /\ at[a] = p
  BY DEF Moves, Ways, Exit!TypeOK
<1>2. Exit!JavaThreads \subseteq Exit!Enders /\ Children \subseteq Exit!JavaThreads
  BY DEF Exit!Enders, Exit!JavaThreads
<1>3. /\ \A t \in Exit!JavaThreads : at'[t] # "unborn" <=> \E i \in 1 .. Len(threads') : threads'[i] = t
      /\ \A i, j \in 1 .. Len(threads') : threads'[i] = threads'[j] => i = j
  BY <1>1, <1>2 DEF Exit!ListInv
<1>4. \A t \in Exit!JavaThreads : (at'[t] = "pushed" <=> at[t] = "pushed")
                        /\ (at'[t] = "pushing" <=> at[t] = "pushing")
  BY <1>1, <1>2
<1> QED
  BY <1>1, <1>2, <1>3, <1>4 DEF Exit!ListInv

\* A new thread enters the list at its end.
LEMMA PushKeepsList ==
  ASSUME Exit!ShutdownAssumption, Exit!TypeOK, Exit!ListInv, NEW t \in Exit!JavaThreads, NEW c \in Children, Exit!Push(t, c)
  PROVE  Exit!ListInv' /\ threads' \in Seq(Exit!JavaThreads) /\ Len(threads') = Len(threads) + 1
         /\ \A i \in 1 .. Len(threads) : threads'[i] = threads[i]
<1>1. Exit!JavaThreads \subseteq Exit!Enders /\ Children \subseteq Exit!JavaThreads
  BY DEF Exit!Enders, Exit!JavaThreads
<1>2. /\ at[t] = "java" /\ at[c] = "unborn" /\ threads' = Append(threads, c)
      /\ \A u \in Exit!JavaThreads : starting'[u] = IF u = t THEN c ELSE starting[u]
      /\ \A b \in Exit!Enders : at'[b] = IF b = c THEN "pushing" ELSE IF b = t THEN "pushed" ELSE at[b]
  BY <1>1 DEF Exit!Push, Exit!TypeOK
<1>3. /\ threads \in Seq(Exit!JavaThreads) /\ threads' \in Seq(Exit!JavaThreads) /\ Len(threads') = Len(threads) + 1
      /\ threads'[Len(threads) + 1] = c
      /\ \A i \in 1 .. Len(threads) : threads'[i] = threads[i]
  BY <1>1, <1>2 DEF Exit!TypeOK
<1>4. \A i \in 1 .. Len(threads') : i \in 1 .. Len(threads) \/ i = Len(threads) + 1
  BY <1>3
<1>5. \A i \in 1 .. Len(threads) : threads[i] # c
  BY <1>1, <1>2 DEF Exit!ListInv
<1>6. \A u \in Exit!JavaThreads : at'[u] # "unborn" <=> \E i \in 1 .. Len(threads') : threads'[i] = u
  <2>1. ASSUME NEW u \in Exit!JavaThreads, at'[u] # "unborn"
        PROVE  \E i \in 1 .. Len(threads') : threads'[i] = u
    <3>1. CASE u = c
      BY <1>3, <3>1
    <3>2. CASE u # c
      <4>1. PICK i \in 1 .. Len(threads) : threads[i] = u
        BY <1>1, <1>2, <2>1, <3>2 DEF Exit!ListInv
      <4> QED
        BY <1>3, <4>1
    <3> QED
      BY <3>1, <3>2
  <2>2. ASSUME NEW u \in Exit!JavaThreads, NEW i \in 1 .. Len(threads'), threads'[i] = u
        PROVE  at'[u] # "unborn"
    BY <1>1, <1>2, <1>3, <1>4, <2>2 DEF Exit!ListInv
  <2> QED
    BY <2>1, <2>2
<1>7. \A i, j \in 1 .. Len(threads') : threads'[i] = threads'[j] => i = j
  BY <1>3, <1>4, <1>5 DEF Exit!ListInv
<1>8. \A d \in Children : at'[d] = "pushing" => \E u \in Exit!JavaThreads : at'[u] = "pushed" /\ starting'[u] = d
  BY <1>1, <1>2 DEF Exit!ListInv
<1>9. ASSUME NEW u \in Exit!JavaThreads, at'[u] = "pushed"
      PROVE  /\ starting'[u] \in Children /\ at'[starting'[u]] = "pushing"
             /\ \A v \in Exit!JavaThreads : at'[v] = "pushed" /\ starting'[v] = starting'[u] => v = u
  BY <1>1, <1>2, <1>9 DEF Exit!ListInv
<1> QED
  BY <1>3, <1>6, <1>7, <1>8, <1>9 DEF Exit!ListInv

\* A launched thread is started no more.
LEMMA LaunchKeepsList ==
  ASSUME Exit!TypeOK, Exit!ListInv, NEW t \in Exit!JavaThreads, NEW c \in Children, Exit!Launch(t, c)
  PROVE  Exit!ListInv'
<1>1. Exit!JavaThreads \subseteq Exit!Enders /\ Children \subseteq Exit!JavaThreads
  BY DEF Exit!Enders, Exit!JavaThreads
<1>2. /\ at[t] = "pushed" /\ starting[t] = c /\ at[c] = "pushing" /\ threads' = threads
      /\ \A b \in Exit!Enders : at'[b] = IF b \in {c, t} THEN "java" ELSE at[b]
      /\ \A u \in Exit!JavaThreads : u # t => starting'[u] = starting[u]
  BY <1>1 DEF Exit!Launch, Exit!ListInv, Exit!TypeOK
<1> QED
  BY <1>1, <1>2 DEF Exit!ListInv

\* The walk leaves the list and the actors where they are.
LEMMA PassKeepsList ==
  ASSUME Exit!ListInv, NEW a, Exit!PassDead(a) \/ Exit!PassSelf(a)
  PROVE  Exit!ListInv'
  BY DEF Exit!PassDead, Exit!PassSelf, Exit!ListInv

\* Every step is a move, the start of a thread, or a pass of the walk.
LEMMA NextCases ==
  ASSUME Exit!Next
  PROVE  \/ MovingStep
         \/ \E t \in Exit!JavaThreads, c \in Children : Exit!Push(t, c) \/ Exit!Launch(t, c)
         \/ \E a \in Exit!JavaThreads \cup {Console} : Exit!PassDead(a) \/ Exit!PassSelf(a)
  BY DEF Exit!Next, MovingStep

\* Every step keeps the list.
LEMMA ListStep == ASSUME Exit!ShutdownAssumption, Exit!TypeOK, Exit!ListInv, Exit!Next PROVE Exit!ListInv'
  BY NextCases, StepMoves, MoveKeepsList, PushKeepsList, LaunchKeepsList, PassKeepsList

\* A list of threads in which none is twice is not longer than there are threads.
LEMMA ListIsShort ==
  ASSUME Exit!ShutdownAssumption, NEW s \in Seq(Exit!JavaThreads),
         \A i, j \in 1 .. Len(s) : s[i] = s[j] => i = j
  PROVE  Len(s) <= Exit!Cardinality(Exit!JavaThreads) /\ Exit!Cardinality(Exit!JavaThreads) \in Nat
<1>1. Exit!IsFiniteSet(Exit!JavaThreads)
  <2>1. Exit!IsFiniteSet(Children \cup {Main}) /\ Exit!JavaThreads = Children \cup {Main}
    BY FS_AddElement, EndCounts, EndFinite DEF Exit!ShutdownAssumption, Exit!JavaThreads
  <2> QED
    BY <2>1
<1>2. Exit!Cardinality(Exit!JavaThreads) \in Nat /\ Len(s) \in Nat
  BY <1>1, FS_CardinalityType, EndCounts, EndFinite
<1>3. Exit!IsFiniteSet(1 .. Len(s)) /\ Exit!Cardinality(1 .. Len(s)) = Len(s)
  <2>1. \A n \in Nat : Exit!IsFiniteSet(1 .. n) /\ Exit!Cardinality(1 .. n) = IF 1 > n THEN 0 ELSE n - 1 + 1
    BY FS_Interval, EndCounts, EndFinite
  <2> QED
    BY <1>2, <2>1
<1>4. s \in [1 .. Len(s) -> Exit!JavaThreads]
  OBVIOUS
<1>5. CASE Exit!Cardinality(Exit!JavaThreads) < Len(s)
  <2>1. \E i, j \in 1 .. Len(s) : i # j /\ s[i] = s[j]
    BY <1>1, <1>3, <1>4, <1>5, FS_PigeonHole, EndCounts, EndFinite
  <2> QED
    BY <2>1
<1> QED
  BY <1>2, <1>5

-----------------------------------------------------------------------------
(* The walk.                                                                *)

\* A thread that has ended has ended for good, and what it means is kept: when an actor
\* moves, the marks of the walk are kept if nothing but its own changes.
LEMMA WalkStep ==
  ASSUME Exit!ShutdownAssumption, Exit!TypeOK, Exit!ListInv, Exit!WalkInv, Exit!Next
  PROVE  Exit!WalkInv'
<1>1. /\ Exit!JavaThreads \subseteq Exit!Enders /\ Children \subseteq Exit!JavaThreads /\ Console \in Exit!Enders
      /\ Launcher \in Exit!Enders /\ Null \notin Exit!Enders /\ Console \notin Exit!JavaThreads
      /\ Launcher \notin Exit!JavaThreads /\ Launcher # Console
  BY DEF Exit!ShutdownAssumption, Exit!Enders, Exit!JavaThreads
<1>2. /\ threads \in Seq(Exit!JavaThreads) /\ Len(threads) \in Nat
      /\ \A i \in 1 .. Len(threads) : threads[i] \in Exit!JavaThreads
      /\ \A a \in Exit!Enders : seen[a] \in Nat
  BY DEF Exit!TypeOK
<1>3. ASSUME NEW t \in Exit!JavaThreads, Exit!Park(t) \/ Exit!Unpark(t) PROVE Exit!WalkInv'
  <2>1. /\ at[t] \in {"java", "parked"} /\ at' \in [Exit!Enders -> Exit!Places]
        /\ \A b \in Exit!Enders : IF b = t THEN at'[b] \in {"java", "parked"} ELSE at'[b] = at[b]
        /\ state'[t] # "Death" /\ \A u \in Exit!JavaThreads : u # t => state'[u] = state[u]
        /\ UNCHANGED <<threads, lock, seen>>
    BY ZenonT(60), <1>1, <1>3 DEF Exit!Park, Exit!Unpark, Exit!Goto, Exit!TypeOK, Exit!Places
  <2>2. state[t] # "Death"
    BY <2>1 DEF Exit!WalkInv, Exit!Walked
  <2> QED
    BY <1>1, <1>2, <2>1, <2>2 DEF Exit!WalkInv, Exit!Walked
<1>4. ASSUME NEW t \in Exit!JavaThreads, Exit!Die(t) PROVE Exit!WalkInv'
  <2>1. /\ at[t] = "dying" /\ \A b \in Exit!Enders : at'[b] = IF b = t THEN "dead" ELSE at[b]
        /\ state'[t] = "Death" /\ \A u \in Exit!JavaThreads : u # t => state'[u] = state[u]
        /\ UNCHANGED <<threads, lock, seen>>
    BY <1>1, <1>4 DEF Exit!Die, Exit!Goto, Exit!TypeOK
  <2> QED
    BY <1>1, <1>2, <2>1 DEF Exit!WalkInv, Exit!Walked
<1>5. ASSUME NEW a \in Exit!Enders, NEW p, NEW q, <<p, q>> \in Ways \ {<<"lock", "walk">>, <<"walk", "cancel">>},
             at[a] = p, at' = [at EXCEPT ![a] = q], q # "dead",
             UNCHANGED <<state, threads, lock, seen>>
      PROVE  Exit!WalkInv'
  <2>1. /\ \A b \in Exit!Enders : at'[b] = IF b = a THEN q ELSE at[b]
        /\ q # "walk" /\ (p \in Exit!Walked => q \in Exit!Walked) /\ (q = "hung" => p = "walk")
        /\ p # "dead"
    BY <1>5 DEF Exit!TypeOK, Ways, Exit!Walked
  <2> QED
    BY <1>1, <1>2, <1>5, <2>1 DEF Exit!WalkInv, Exit!Walked
<1>6. ASSUME NEW a \in Exit!JavaThreads \cup {Console}, Exit!Lock(a) PROVE Exit!WalkInv'
  <2>1. /\ at[a] = "lock" /\ \A b \in Exit!Enders : at'[b] = IF b = a THEN "walk" ELSE at[b]
        /\ lock \in {Null, a} /\ lock' = a /\ UNCHANGED <<state, threads, seen>> /\ a \in Exit!Enders
    BY <1>1, <1>6 DEF Exit!Lock, Exit!LockFreeFor, Exit!Goto, Exit!TypeOK
  <2>2. \A b \in Exit!Enders \ {a} : at[b] \notin {"walk", "hung"} /\ seen[a] = 0
    BY <1>1, <2>1 DEF Exit!WalkInv, Exit!Walked
  <2> QED
    BY <1>1, <1>2, <2>1, <2>2 DEF Exit!WalkInv, Exit!Walked
<1>7. ASSUME NEW a \in Exit!JavaThreads \cup {Console}, Exit!Unlock(a) PROVE Exit!WalkInv'
  <2>1. /\ at[a] = "walk" /\ \A b \in Exit!Enders : at'[b] = IF b = a THEN "cancel" ELSE at[b]
        /\ UNCHANGED <<state, threads, seen>> /\ a \in Exit!Enders
    BY <1>1, <1>7 DEF Exit!Unlock, Exit!Goto, Exit!TypeOK
  <2>2. \A b \in Exit!Enders \ {a} : at[b] \notin {"walk", "hung"}
    BY <1>1, <2>1 DEF Exit!WalkInv
  <2> QED
    BY <1>1, <1>2, <2>1, <2>2 DEF Exit!WalkInv, Exit!Walked
<1>8. ASSUME NEW a \in Exit!JavaThreads \cup {Console}, Exit!PassDead(a) PROVE Exit!WalkInv'
  <2>1. /\ at[a] = "walk" /\ seen[a] < Len(threads) /\ state[threads[seen[a] + 1]] = "Death"
        /\ \A b \in Exit!Enders : seen'[b] = IF b = a THEN seen[a] + 1 ELSE seen[b]
        /\ UNCHANGED <<at, state, threads, lock>> /\ a \in Exit!Enders
    BY <1>1, <1>8 DEF Exit!PassDead, Exit!InWalk, Exit!Ignored, Exit!Visited, Exit!TypeOK
  <2>2. \A i \in 1 .. (seen[a] + 1) : i \in 1 .. seen[a] \/ i = seen[a] + 1
    BY <1>2, <2>1
  <2> QED
    BY SMTT(30), <1>1, <1>2, <2>1, <2>2 DEF Exit!WalkInv, Exit!Walked
<1>9. ASSUME NEW a \in Exit!JavaThreads \cup {Console}, Exit!PassSelf(a) PROVE Exit!WalkInv'
  <2>1. /\ at[a] = "walk" /\ seen[a] < Len(threads) /\ threads[seen[a] + 1] = a
        /\ \A b \in Exit!Enders : seen'[b] = IF b = a THEN seen[a] + 1 ELSE seen[b]
        /\ UNCHANGED <<at, threads, lock>> /\ a \in Exit!Enders
    BY <1>1, <1>9 DEF Exit!PassSelf, Exit!InWalk, Exit!Visited, Exit!TypeOK
  <2>2. a \in Exit!JavaThreads /\ \A u \in Exit!JavaThreads : state'[u] = IF u = a THEN "Death" ELSE state[u]
    BY <1>2, <1>9, <2>1 DEF Exit!PassSelf, Exit!TypeOK
  <2>3. \A i \in 1 .. (seen[a] + 1) : i \in 1 .. seen[a] \/ i = seen[a] + 1
    BY <1>2, <2>1
  <2>4. \A b \in Exit!Enders : at[b] = "walk" => b = a
    BY <1>1, <2>1 DEF Exit!WalkInv
  <2>5. \A i \in 1 .. seen'[a] : state'[threads[i]] = "Death"
    BY <1>2, <2>1, <2>2, <2>3 DEF Exit!WalkInv
  <2>6. \A b \in Exit!Enders : at'[b] \in {"walk", "hung"} => lock' = b
    BY <1>1, <2>1 DEF Exit!WalkInv
  <2>7. \A b \in Exit!Enders : at'[b] \notin Exit!Walked => seen'[b] = 0
    BY <1>1, <2>1 DEF Exit!WalkInv, Exit!Walked
  <2>8. \A b \in Exit!Enders : seen'[b] <= Len(threads')
    BY <1>1, <1>2, <2>1 DEF Exit!WalkInv
  <2>9. \A b \in Exit!Enders : at'[b] = "walk" => \A i \in 1 .. seen'[b] : state'[threads'[i]] = "Death"
    BY <2>1, <2>4, <2>5
  <2>10. \A u \in Exit!JavaThreads : state'[u] = "Death" => at'[u] \in {"dead"} \cup Exit!Walked
    BY <1>1, <2>1, <2>2 DEF Exit!WalkInv, Exit!Walked
  <2> QED
    BY <2>6, <2>7, <2>8, <2>9, <2>10 DEF Exit!WalkInv
<1>10. ASSUME NEW t \in Exit!JavaThreads, NEW c \in Children, Exit!Push(t, c) PROVE Exit!WalkInv'
  <2>1. /\ Len(threads') = Len(threads) + 1
        /\ \A i \in 1 .. Len(threads) : threads'[i] = threads[i]
    BY <1>10, PushKeepsList
  <2>2. /\ at[t] = "java" /\ at[c] = "unborn" /\ UNCHANGED <<state, lock, seen>>
        /\ \A b \in Exit!Enders : at'[b] = IF b = c THEN "pushing" ELSE IF b = t THEN "pushed" ELSE at[b]
    BY <1>1, <1>10 DEF Exit!Push, Exit!TypeOK
  <2>3. \A a \in Exit!Enders : at[a] = "walk" => \A i \in 1 .. seen[a] : i \in 1 .. Len(threads)
    BY <1>2 DEF Exit!WalkInv
  <2> QED
    BY SMTT(30), <1>1, <1>2, <2>1, <2>2, <2>3 DEF Exit!WalkInv, Exit!Walked
<1>11. ASSUME NEW t \in Exit!JavaThreads, NEW c \in Children, Exit!Launch(t, c) PROVE Exit!WalkInv'
  <2>1. /\ at[t] = "pushed" /\ at[c] = "pushing" /\ UNCHANGED <<state, threads, lock, seen>>
        /\ \A b \in Exit!Enders : at'[b] = IF b \in {c, t} THEN "java" ELSE at[b]
    BY <1>1, <1>11 DEF Exit!Launch, Exit!ListInv, Exit!TypeOK
  <2> QED
    BY <1>1, <1>2, <2>1 DEF Exit!WalkInv, Exit!Walked
<1>12. ASSUME NEW t \in Exit!JavaThreads, Exit!Return(t) \/ Exit!Halt(t) PROVE Exit!WalkInv'
  BY <1>1, <1>5, <1>12 DEF Exit!Return, Exit!Halt, Exit!Goto, Ways
<1>13. ASSUME Exit!Signal \/ Exit!SetGc \/ Exit!DetectReady \/ Exit!JoinMain \/ Exit!SeeNoThreads PROVE Exit!WalkInv'
  BY <1>1, <1>5, <1>13 DEF Exit!Signal, Exit!SetGc, Exit!DetectReady, Exit!JoinMain, Exit!SeeNoThreads, Exit!Goto, Ways
<1>14. ASSUME NEW a \in Exit!JavaThreads \cup {Console}, Exit!Hang(a) PROVE Exit!WalkInv'
  BY <1>1, <1>5, <1>14 DEF Exit!Hang, Exit!InWalk, Ways
<1>15. ASSUME NEW a \in Exit!Enders, Exit!End(a) PROVE Exit!WalkInv'
  BY <1>5, <1>15 DEF Exit!End, Exit!Goto, Ways
<1> QED
  BY <1>3, <1>4, <1>6, <1>7, <1>8, <1>9, <1>10, <1>11, <1>12, <1>13, <1>14, <1>15 DEF Exit!Next

-----------------------------------------------------------------------------
(* The count.                                                               *)

\* Among the children, finite in number, the counted ones can be counted.
LEMMA CountedIsFinite ==
  ASSUME Exit!ShutdownAssumption
  PROVE  /\ Exit!IsFiniteSet(Exit!Counted) /\ Exit!Cardinality(Exit!Counted) \in 0 .. Exit!Cardinality(Children)
         /\ Exit!IsFiniteSet(Exit!Counted') /\ Exit!Cardinality(Exit!Counted') \in 0 .. Exit!Cardinality(Children)
<1>1. Exit!Counted \in SUBSET Children /\ Exit!Counted' \in SUBSET Children /\ Exit!IsFiniteSet(Children)
  BY DEF Exit!Counted, Exit!ShutdownAssumption
<1>2. Exit!Cardinality(Children) \in Nat
  BY <1>1, FS_CardinalityType, EndCounts, EndFinite
<1>3. Exit!IsFiniteSet(Exit!Counted) /\ Exit!Cardinality(Exit!Counted) <= Exit!Cardinality(Children)
  BY <1>1, FS_Subset, EndCounts, EndFinite
<1>4. Exit!IsFiniteSet(Exit!Counted') /\ Exit!Cardinality(Exit!Counted') <= Exit!Cardinality(Children)
  BY <1>1, FS_Subset, EndCounts, EndFinite
<1>5. Exit!Cardinality(Exit!Counted) \in Nat /\ Exit!Cardinality(Exit!Counted') \in Nat
  BY <1>3, <1>4, FS_CardinalityType, EndCounts, EndFinite
<1> QED
  BY <1>2, <1>3, <1>4, <1>5

\* Every step counts the children it launches and those that return.
LEMMA CountStep ==
  ASSUME Exit!ShutdownAssumption, Exit!TypeOK, Exit!ListInv, thread_num = Exit!Cardinality(Exit!Counted), Exit!Next
  PROVE  thread_num' = Exit!Cardinality(Exit!Counted')
<1>1. /\ Children \subseteq Exit!JavaThreads /\ Exit!JavaThreads \subseteq Exit!Enders /\ Main \notin Children
      /\ Console \notin Children /\ Launcher \notin Children
      /\ Exit!IsFiniteSet(Exit!Counted) /\ Exit!Cardinality(Exit!Counted) \in Nat
  BY CountedIsFinite DEF Exit!ShutdownAssumption, Exit!Enders, Exit!JavaThreads
<1>2. ASSUME NEW t \in Exit!JavaThreads, Exit!Return(t) PROVE thread_num' = Exit!Cardinality(Exit!Counted')
  <2>1. \A c \in Children : at'[c] = IF c = t THEN "dying" ELSE at[c]
    BY <1>1, <1>2 DEF Exit!Return, Exit!Goto, Exit!TypeOK
  <2>2. Exit!Counted' = Exit!Counted \ {t} /\ at[t] = "java"
    BY <1>2, <2>1 DEF Exit!Counted, Exit!Live, Exit!Walked, Exit!Return, Exit!Goto
  <2>3. CASE t = Main
    BY <1>1, <1>2, <2>2, <2>3 DEF Exit!Return, Exit!Counted
  <2>4. CASE t \in Children
    <3>1. t \in Exit!Counted
      BY <2>2, <2>4 DEF Exit!Counted, Exit!Live
    <3> QED
      BY <1>1, <1>2, <2>2, <2>4, <3>1, FS_RemoveElement, EndCounts, EndFinite DEF Exit!Return
  <2> QED
    BY <2>3, <2>4 DEF Exit!JavaThreads
<1>3. ASSUME NEW t \in Exit!JavaThreads, NEW c \in Children, Exit!Launch(t, c)
      PROVE  thread_num' = Exit!Cardinality(Exit!Counted')
  <2>1. /\ at[t] = "pushed" /\ at[c] = "pushing"
        /\ \A d \in Children : at'[d] = IF d \in {c, t} THEN "java" ELSE at[d]
    BY <1>1, <1>3 DEF Exit!Launch, Exit!ListInv, Exit!TypeOK
  <2>2. Exit!Counted' = Exit!Counted \cup {c} /\ c \notin Exit!Counted
    BY <2>1 DEF Exit!Counted, Exit!Live, Exit!Walked
  <2> QED
    BY <1>1, <1>3, <2>2, FS_AddElement, EndCounts, EndFinite DEF Exit!Launch
<1>4. ASSUME Exit!Counted' = Exit!Counted, thread_num' = thread_num PROVE thread_num' = Exit!Cardinality(Exit!Counted')
  BY <1>4
<1>5. ASSUME NEW t \in Exit!JavaThreads, NEW c \in Children, Exit!Push(t, c)
      PROVE  Exit!Counted' = Exit!Counted /\ thread_num' = thread_num
  <2>1. /\ at[t] = "java" /\ at[c] = "unborn"
        /\ \A d \in Children : at'[d] = IF d = c THEN "pushing" ELSE IF d = t THEN "pushed" ELSE at[d]
    BY <1>1, <1>5 DEF Exit!Push, Exit!TypeOK
  <2>2. \A d \in Children : at'[d] \in Exit!Live <=> at[d] \in Exit!Live
    BY <2>1 DEF Exit!Live, Exit!Walked
  <2> QED
    BY <1>5, <2>2 DEF Exit!Counted, Exit!Push
<1>6. ASSUME NEW a, NEW p, NEW q, Moves(a, p, q), q # "dying"
      PROVE  Exit!Counted' = Exit!Counted
  <2>1. \A d \in Children : at'[d] = IF d = a THEN q ELSE at[d]
    BY <1>1, <1>6 DEF Moves, Exit!TypeOK
  <2>2. a \in Children => (p \in Exit!Live <=> q \in Exit!Live) /\ at[a] = p
    BY <1>1, <1>6 DEF Moves, Ways, Exit!Live, Exit!Walked
  <2>3. \A d \in Children : at'[d] \in Exit!Live <=> at[d] \in Exit!Live
    BY <2>1, <2>2
  <2> QED
    BY <2>3 DEF Exit!Counted
<1>7. CASE MovingStep
  <2>1. PICK a, p, q : Moves(a, p, q)
    BY <1>7, StepMoves
  <2>2. CASE a \in Exit!JavaThreads /\ Exit!Return(a)
    BY <1>2, <2>2
  <2>3. CASE q # "dying" /\ thread_num' = thread_num
    BY <1>4, <1>6, <2>1, <2>3
  <2> QED
    BY <2>1, <2>2, <2>3 DEF Moves
<1>8. ASSUME NEW a, Exit!PassDead(a) \/ Exit!PassSelf(a) PROVE Exit!Counted' = Exit!Counted /\ thread_num' = thread_num
  BY <1>8 DEF Exit!PassDead, Exit!PassSelf, Exit!Counted
<1> QED
  BY <1>3, <1>4, <1>5, <1>7, <1>8, NextCases

-----------------------------------------------------------------------------
(* The end.                                                                 *)

\* A move other than one that ends a walk or a wait leaves EndInv, and one that does
\* establishes it for its actor.
LEMMA MoveKeepsEnd ==
  ASSUME Exit!ShutdownAssumption, Exit!TypeOK, Exit!EndInv, NEW a, NEW p, NEW q, Moves(a, p, q),
         q = "count" => at[Main] = "dead",
         q = "cancel" =>
           \/ a = Launcher /\ \A t \in Exit!JavaThreads : at[t] \in {"unborn", "dying", "dead"}
           \/ a = Console /\ \A t \in Exit!JavaThreads : at[t] \in {"unborn", "dead", "cancel", "end"}
           \/ a \in Exit!JavaThreads /\ \A t \in Exit!JavaThreads \ {a} : at[t] \in {"unborn", "dead"}
  PROVE  Exit!EndInv'
<1>1. /\ Main \in Exit!JavaThreads /\ Exit!JavaThreads \subseteq Exit!Enders /\ Console \in Exit!Enders
      /\ Launcher \in Exit!Enders /\ Console \notin Exit!JavaThreads
      /\ Launcher \notin Exit!JavaThreads /\ Launcher # Console
  BY DEF Exit!ShutdownAssumption, Exit!Enders, Exit!JavaThreads
<1>2. /\ \A b \in Exit!Enders : at'[b] = IF b = a THEN q ELSE at[b]
      /\ at[a] = p /\ <<p, q>> \in Ways /\ a \in Exit!Enders
      /\ p \in {"idle", "set", "detect"} => a = Console
      /\ p \in {"join", "count"} => a = Launcher
      /\ p \notin {"join", "count", "cancel"} => a \in Exit!JavaThreads \cup {Console}
  BY DEF Moves, Exit!TypeOK
<1>3. /\ p \notin {"unborn", "dead", "end"} /\ (p = "dying" => q = "dead")
      /\ (p = "cancel" => q = "end") /\ (q = "end" => p = "cancel")
      /\ (q = "count" => p = "join") /\ (p = "count" => q = "cancel")
  BY <1>2 DEF Ways
<1>4. ASSUME at'[Launcher] \in {"count", "cancel", "end"} PROVE at'[Main] = "dead"
  <2>1. at[Main] = "dead"
    BY <1>1, <1>2, <1>3, <1>4 DEF Exit!EndInv, Ways
  <2> QED
    BY <1>1, <1>2, <1>3, <2>1
<1>5. ASSUME at'[Launcher] \in {"cancel", "end"}, NEW t \in Exit!JavaThreads
      PROVE  at'[t] \in {"unborn", "dying", "dead"}
  <2>1. at[t] \in {"unborn", "dying", "dead"}
    BY <1>1, <1>2, <1>3, <1>5 DEF Exit!EndInv
  <2> QED
    BY <1>1, <1>2, <1>3, <2>1
<1>6. ASSUME at'[Console] \in {"cancel", "end"}, NEW t \in Exit!JavaThreads
      PROVE  at'[t] \in {"unborn", "dead", "cancel", "end"}
  <2>1. at[t] \in {"unborn", "dead", "cancel", "end"}
    BY <1>1, <1>2, <1>3, <1>6 DEF Exit!EndInv
  <2> QED
    BY <1>1, <1>2, <1>3, <2>1
<1>7. ASSUME NEW b \in Exit!JavaThreads, at'[b] \in {"cancel", "end"}, NEW t \in Exit!JavaThreads \ {b}
      PROVE  at'[t] \in {"unborn", "dead"}
  <2>1. at[t] \in {"unborn", "dead"}
    BY <1>1, <1>2, <1>3, <1>7 DEF Exit!EndInv
  <2> QED
    BY <1>1, <1>2, <1>3, <2>1
<1> QED
  BY <1>4, <1>5, <1>6, <1>7 DEF Exit!EndInv

\* When a walk is over, every thread of the list has ended, so that only threads that have
\* never been started are left beside the one that walked.
LEMMA WalkedAll ==
  ASSUME Exit!ShutdownAssumption, Exit!TypeOK, Exit!ListInv, Exit!WalkInv, Exit!EndInv,
         NEW a \in Exit!JavaThreads \cup {Console}, Exit!Unlock(a)
  PROVE  /\ \A t \in Exit!JavaThreads : at[t] \in {"unborn", "dead", "cancel", "end"} \/ t = a
         /\ a \in Exit!JavaThreads => \A t \in Exit!JavaThreads \ {a} : at[t] \in {"unborn", "dead"}
<1>1. /\ Exit!JavaThreads \subseteq Exit!Enders /\ a \in Exit!Enders /\ Console \notin Exit!JavaThreads
      /\ at[a] = "walk" /\ seen[a] = Len(threads)
  BY DEF Exit!ShutdownAssumption, Exit!Enders, Exit!JavaThreads, Exit!Unlock, Exit!Goto
<1>2. \A b \in Exit!Enders \ {a} : at[b] \notin {"walk", "hung"}
  BY <1>1 DEF Exit!WalkInv
<1>3. ASSUME NEW t \in Exit!JavaThreads \ {a} PROVE at[t] \in {"unborn", "dead", "cancel", "end"}
  <2>1. CASE at[t] = "unborn"
    BY <2>1
  <2>2. CASE at[t] # "unborn"
    <3>1. PICK i \in 1 .. Len(threads) : threads[i] = t
      BY <2>2 DEF Exit!ListInv
    <3>2. state[t] = "Death"
      BY <1>1, <3>1 DEF Exit!WalkInv
    <3> QED
      BY <1>1, <1>2, <3>2 DEF Exit!WalkInv, Exit!Walked
  <2> QED
    BY <2>1, <2>2
<1>4. ASSUME a \in Exit!JavaThreads, NEW t \in Exit!JavaThreads \ {a} PROVE at[t] \notin {"cancel", "end"}
  BY <1>1, <1>4 DEF Exit!EndInv
<1> QED
  BY <1>3, <1>4

\* With Main dead and no child counted there is nobody that could be starting another.
LEMMA NobodyCounted ==
  ASSUME Exit!ShutdownAssumption, Exit!TypeOK, Exit!ListInv, thread_num = Exit!Cardinality(Exit!Counted), Exit!WalkInv,
         at[Main] = "dead", thread_num = 0, NEW t \in Exit!JavaThreads
  PROVE  at[t] \in {"unborn", "dying", "dead"}
<1>1. Exit!Counted = {}
  BY CountedIsFinite, FS_EmptySet, EndCounts, EndFinite
<1>2. \A c \in Children : at[c] \in {"unborn", "pushing", "dying", "dead"}
  BY <1>1 DEF Exit!Counted, Exit!Live, Exit!Walked, Exit!TypeOK, Exit!Places, Exit!Enders, Exit!JavaThreads
<1>3. \A u \in Exit!JavaThreads : at[u] # "pushed"
  BY <1>2 DEF Exit!JavaThreads
<1>4. \A c \in Children : at[c] # "pushing"
  BY <1>3 DEF Exit!ListInv
<1> QED
  BY <1>2, <1>4 DEF Exit!JavaThreads

\* Every step keeps what an actor at the end leaves of the others.
LEMMA EndStep ==
  ASSUME Exit!ShutdownAssumption, Exit!IInv, Exit!Next
  PROVE  Exit!EndInv'
<1>1. /\ Exit!JavaThreads \subseteq Exit!Enders /\ Children \subseteq Exit!JavaThreads /\ Main \in Exit!JavaThreads
      /\ Main \notin Children /\ Console \in Exit!Enders \ Exit!JavaThreads /\ Launcher \in Exit!Enders \ Exit!JavaThreads
      /\ Launcher # Console
  BY DEF Exit!ShutdownAssumption, Exit!Enders, Exit!JavaThreads
<1>2. Exit!TypeOK /\ Exit!ListInv /\ Exit!WalkInv /\ Exit!EndInv
  BY DEF Exit!IInv
<1>3. ASSUME NEW a \in Exit!JavaThreads \cup {Console}, Exit!Unlock(a) PROVE Exit!EndInv'
  <2>1. Moves(a, "walk", "cancel")
    BY <1>1, <1>3 DEF Exit!Unlock, Exit!Goto, Moves, Ways
  <2> QED
    BY <1>2, <1>3, <2>1, MoveKeepsEnd, WalkedAll
<1>4. CASE Exit!SeeNoThreads
  <2>1. Moves(Launcher, "count", "cancel") /\ thread_num = 0 /\ at[Main] = "dead"
    BY <1>1, <1>2, <1>4 DEF Exit!SeeNoThreads, Exit!Goto, Moves, Ways, Exit!EndInv
  <2>2. \A t \in Exit!JavaThreads : at[t] \in {"unborn", "dying", "dead"}
    BY <1>2, <2>1, NobodyCounted DEF Exit!IInv
  <2> QED
    BY <1>2, <2>1, <2>2, MoveKeepsEnd
<1>5. CASE Exit!JoinMain
  <2>1. Moves(Launcher, "join", "count") /\ at[Main] = "dead"
    BY <1>1, <1>5 DEF Exit!JoinMain, Exit!Goto, Moves, Ways
  <2> QED
    BY <1>2, <2>1, MoveKeepsEnd
<1>6. ASSUME NEW a, NEW p, NEW q, Moves(a, p, q), q \notin {"count", "cancel"} PROVE Exit!EndInv'
  BY <1>2, <1>6, MoveKeepsEnd
<1>7. ASSUME NEW t \in Exit!JavaThreads, NEW c \in Children, Exit!Push(t, c) PROVE Exit!EndInv'
  <2>1. /\ at[t] = "java" /\ at[c] = "unborn"
        /\ \A b \in Exit!Enders : at'[b] = IF b = c THEN "pushing" ELSE IF b = t THEN "pushed" ELSE at[b]
    BY <1>1, <1>2, <1>7 DEF Exit!Push, Exit!TypeOK
  <2>2. /\ at[Launcher] \notin {"cancel", "end"} /\ at[Console] \notin {"cancel", "end"}
        /\ \A b \in Exit!JavaThreads : at[b] \notin {"cancel", "end"}
    BY <1>2, <2>1 DEF Exit!EndInv
  <2> QED
    BY <1>1, <1>2, <2>1, <2>2 DEF Exit!EndInv
<1>8. ASSUME NEW t \in Exit!JavaThreads, NEW c \in Children, Exit!Launch(t, c) PROVE Exit!EndInv'
  <2>1. /\ at[t] = "pushed" /\ at[c] = "pushing"
        /\ \A b \in Exit!Enders : at'[b] = IF b \in {c, t} THEN "java" ELSE at[b]
    BY <1>1, <1>2, <1>8 DEF Exit!Launch, Exit!ListInv, Exit!TypeOK
  <2>2. /\ at[Launcher] \notin {"cancel", "end"} /\ at[Console] \notin {"cancel", "end"}
        /\ \A b \in Exit!JavaThreads : at[b] \notin {"cancel", "end"}
    BY <1>2, <2>1 DEF Exit!EndInv
  <2> QED
    BY <1>1, <1>2, <2>1, <2>2 DEF Exit!EndInv
<1>9. ASSUME NEW a, Exit!PassDead(a) \/ Exit!PassSelf(a) PROVE Exit!EndInv'
  BY <1>2, <1>9 DEF Exit!PassDead, Exit!PassSelf, Exit!EndInv
<1>10. ASSUME NEW t \in Exit!JavaThreads, Exit!Park(t) \/ Exit!Unpark(t) \/ Exit!Return(t) \/ Exit!Die(t) \/ Exit!Halt(t)
       PROVE  \E a, p, q : Moves(a, p, q) /\ q \notin {"count", "cancel"}
  <2>1. /\ Exit!Park(t) => Moves(t, "java", "parked")
        /\ Exit!Unpark(t) => Moves(t, "parked", "java")
        /\ Exit!Return(t) => Moves(t, "java", "dying")
        /\ Exit!Die(t) => Moves(t, "dying", "dead")
        /\ Exit!Halt(t) => Moves(t, "java", "lock")
    BY DEF Exit!Park, Exit!Unpark, Exit!Return, Exit!Die, Exit!Halt, Moves, Exit!Goto, Exit!Enders, Ways
  <2> QED
    BY <1>10, <2>1
<1>11. ASSUME Exit!Signal \/ Exit!SetGc \/ Exit!DetectReady
       PROVE  \E a, p, q : Moves(a, p, q) /\ q \notin {"count", "cancel"}
  <2>1. /\ Exit!Signal => Moves(Console, "idle", "set")
        /\ Exit!SetGc => Moves(Console, "set", "detect")
        /\ Exit!DetectReady => Moves(Console, "detect", "lock")
    BY DEF Exit!Signal, Exit!SetGc, Exit!DetectReady, Moves, Exit!Goto, Exit!Enders, Ways
  <2> QED
    BY <1>11, <2>1
<1>12. ASSUME NEW a \in Exit!JavaThreads \cup {Console}, Exit!Lock(a) \/ Exit!Hang(a)
       PROVE  \E b, p, q : Moves(b, p, q) /\ q \notin {"count", "cancel"}
  <2>1. /\ Exit!Lock(a) => Moves(a, "lock", "walk")
        /\ Exit!Hang(a) => Moves(a, "walk", "hung")
    BY DEF Exit!Lock, Exit!Hang, Exit!InWalk, Moves, Exit!Goto, Exit!Enders, Ways
  <2> QED
    BY <1>12, <2>1
<1>13. ASSUME NEW a \in Exit!Enders, Exit!End(a) PROVE Moves(a, "cancel", "end")
  BY <1>13 DEF Exit!End, Moves, Exit!Goto, Ways
<1> QED
  BY <1>3, <1>4, <1>5, <1>6, <1>7, <1>8, <1>9, <1>10, <1>11, <1>12, <1>13 DEF Exit!Next

-----------------------------------------------------------------------------
(* The types, and the invariant as a whole.                                 *)

\* The types of what an actor changes beside its own place.
Data ==
  /\ state \in [Exit!JavaThreads -> {"Running", "Waiting", "Death"}] /\ threads \in Seq(Exit!JavaThreads)
  /\ starting \in [Exit!JavaThreads -> Children \cup {Null}] /\ gc \in BOOLEAN
  /\ lock \in Exit!Enders \cup {Null} /\ seen \in [Exit!Enders -> Nat]

\* Every step keeps the types, given the rest of the invariant after it.
LEMMA TypeStep ==
  ASSUME Exit!ShutdownAssumption, Exit!IInv, Exit!Next, Exit!ListInv', Exit!WalkInv', thread_num' = Exit!Cardinality(Exit!Counted')
  PROVE  Exit!TypeOK'
<1>1. /\ Exit!JavaThreads \subseteq Exit!Enders /\ Children \subseteq Exit!JavaThreads /\ Console \in Exit!Enders \ Exit!JavaThreads
      /\ Launcher \in Exit!Enders \ Exit!JavaThreads /\ Exit!TypeOK
  BY DEF Exit!ShutdownAssumption, Exit!Enders, Exit!JavaThreads, Exit!IInv
<1>2. thread_num' \in 0 .. Exit!Cardinality(Children)
  BY CountedIsFinite
<1>3. /\ at' \in [Exit!Enders -> Exit!Places]
      /\ \A t \in Exit!JavaThreads : at'[t] \notin {"idle", "set", "detect", "join", "count"}
  <2>1. CASE MovingStep
    <3>1. PICK a, p, q : Moves(a, p, q)
      BY <2>1, StepMoves
    <3> QED
      BY <1>1, <3>1 DEF Moves, Ways, Exit!TypeOK, Exit!Places
  <2>2. ASSUME NEW t \in Exit!JavaThreads, NEW c \in Children, Exit!Push(t, c) \/ Exit!Launch(t, c)
        PROVE  /\ at' \in [Exit!Enders -> Exit!Places]
               /\ \A u \in Exit!JavaThreads : at'[u] \notin {"idle", "set", "detect", "join", "count"}
    BY <1>1, <2>2 DEF Exit!Push, Exit!Launch, Exit!TypeOK, Exit!Places
  <2>3. ASSUME NEW a, Exit!PassDead(a) \/ Exit!PassSelf(a)
        PROVE  at' = at
    BY <2>3 DEF Exit!PassDead, Exit!PassSelf
  <2> QED
    BY <1>1, <2>1, <2>2, <2>3, NextCases DEF Exit!TypeOK
<1>4. Data'
  <2>1. Data
    BY <1>1 DEF Exit!TypeOK, Data
  <2>2. ASSUME NEW t \in Exit!JavaThreads, Exit!Park(t) \/ Exit!Unpark(t) \/ Exit!Return(t) \/ Exit!Die(t) \/ Exit!Halt(t) PROVE Data'
    BY <2>1, <2>2 DEF Data, Exit!Park, Exit!Unpark, Exit!Return, Exit!Die, Exit!Halt
  <2>3. ASSUME NEW t \in Exit!JavaThreads, NEW c \in Children, Exit!Push(t, c) PROVE Data'
    BY <1>1, <2>1, <2>3 DEF Data, Exit!Push
  <2>4. ASSUME NEW t \in Exit!JavaThreads, NEW c \in Children, Exit!Launch(t, c) PROVE Data'
    BY <2>1, <2>4 DEF Data, Exit!Launch
  <2>5. ASSUME Exit!Signal \/ Exit!SetGc \/ Exit!DetectReady \/ Exit!JoinMain \/ Exit!SeeNoThreads PROVE Data'
    BY <2>1, <2>5 DEF Data, Exit!Signal, Exit!SetGc, Exit!DetectReady, Exit!JoinMain, Exit!SeeNoThreads
  <2>6. ASSUME NEW a \in Exit!JavaThreads \cup {Console}, Exit!Lock(a) \/ Exit!Hang(a) \/ Exit!Unlock(a) PROVE Data'
    BY <1>1, <2>1, <2>6 DEF Data, Exit!Lock, Exit!Hang, Exit!Unlock
  <2>7. ASSUME NEW a \in Exit!JavaThreads \cup {Console}, Exit!PassDead(a) \/ Exit!PassSelf(a) PROVE Data'
    <3>1. /\ a \in Exit!Enders /\ seen' = [seen EXCEPT ![a] = @ + 1]
          /\ UNCHANGED <<threads, gc, lock, starting>>
      BY <1>1, <2>7 DEF Exit!PassDead, Exit!PassSelf
    <3>2. state' \in [Exit!JavaThreads -> {"Running", "Waiting", "Death"}]
      BY <2>1, <2>7 DEF Data, Exit!PassDead, Exit!PassSelf
    <3> QED
      BY <2>1, <3>1, <3>2 DEF Data
  <2>8. ASSUME NEW a \in Exit!Enders, Exit!End(a) PROVE Data'
    BY <2>1, <2>8 DEF Data, Exit!End
  <2> QED
    BY <2>2, <2>3, <2>4, <2>5, <2>6, <2>7, <2>8 DEF Exit!Next
<1>5. seen' \in [Exit!Enders -> 0 .. Exit!Cardinality(Exit!JavaThreads)]
  <2>1. threads' \in Seq(Exit!JavaThreads) /\ Len(threads') \in Nat /\ seen' \in [Exit!Enders -> Nat]
    BY <1>4 DEF Data
  <2>2. \A i, j \in 1 .. Len(threads') : threads'[i] = threads'[j] => i = j
    BY DEF Exit!ListInv
  <2>3. Len(threads') <= Exit!Cardinality(Exit!JavaThreads) /\ Exit!Cardinality(Exit!JavaThreads) \in Nat
    BY <2>1, <2>2, ListIsShort
  <2>4. \A a \in Exit!Enders : seen'[a] <= Len(threads')
    BY DEF Exit!WalkInv
  <2> QED
    BY <2>1, <2>3, <2>4
<1> QED
  BY <1>2, <1>3, <1>4, <1>5 DEF Exit!TypeOK, Data

\* The invariant holds when Main is the only thread.
LEMMA EndStart == ASSUME Exit!ShutdownAssumption, Exit!Init PROVE Exit!IInv
<1>1. /\ Exit!JavaThreads \subseteq Exit!Enders /\ Children \subseteq Exit!JavaThreads /\ Main \in Exit!JavaThreads
      /\ Main \notin Children /\ Console \in Exit!Enders \ Exit!JavaThreads /\ Launcher \in Exit!Enders \ Exit!JavaThreads
      /\ Launcher # Console
  BY DEF Exit!ShutdownAssumption, Exit!Enders, Exit!JavaThreads
<1>2. /\ \A c \in Children : at[c] = "unborn"
      /\ at[Main] = "java" /\ at[Console] = "idle" /\ at[Launcher] = "join"
      /\ at \in [Exit!Enders -> Exit!Places]
  BY <1>1 DEF Exit!Init, Exit!Places
<1>3. \A a \in Exit!Enders : at[a] \in {"unborn", "java", "idle", "join"}
  BY <1>2 DEF Exit!Enders, Exit!JavaThreads
<1>4. \A t \in Exit!JavaThreads : t = Main \/ t \in Children
  BY DEF Exit!JavaThreads
<1>5. /\ threads = <<Main>> /\ Len(threads) = 1 /\ threads[1] = Main /\ threads \in Seq(Exit!JavaThreads)
  BY <1>1 DEF Exit!Init
<1>6. Exit!Counted = {} /\ Exit!Cardinality(Exit!Counted) = 0
  BY <1>2, FS_EmptySet, EndCounts, EndFinite DEF Exit!Counted, Exit!Live, Exit!Walked
<1>7. 0 \in 0 .. Exit!Cardinality(Children) /\ 0 \in 0 .. Exit!Cardinality(Exit!JavaThreads)
  <2>1. Exit!Cardinality(Children) \in Nat
    BY FS_CardinalityType, EndCounts, EndFinite DEF Exit!ShutdownAssumption
  <2>2. Exit!Cardinality(Exit!JavaThreads) \in Nat
    <3>1. \A i, j \in 1 .. Len(threads) : threads[i] = threads[j] => i = j
      BY <1>5
    <3> QED
      BY <1>5, <3>1, ListIsShort
  <2> QED
    BY <2>1, <2>2
<1>8. Exit!TypeOK
  BY <1>1, <1>2, <1>4, <1>5, <1>7 DEF Exit!Init, Exit!TypeOK
<1>9. Exit!ListInv
  BY <1>2, <1>4, <1>5 DEF Exit!ListInv
<1>10. Exit!WalkInv
  BY <1>1, <1>3, <1>5 DEF Exit!Init, Exit!WalkInv, Exit!Walked
<1>11. Exit!EndInv
  BY <1>1, <1>2, <1>4 DEF Exit!EndInv
<1> QED
  BY <1>6, <1>8, <1>9, <1>10, <1>11 DEF Exit!Init, Exit!IInv

\* Every step keeps the invariant, and so does stuttering.
LEMMA EndKeeps == ASSUME Exit!ShutdownAssumption, Exit!IInv, [Exit!Next]_(Exit!vars) PROVE Exit!IInv'
<1>1. CASE Exit!Next
  <2>1. Exit!TypeOK /\ Exit!ListInv /\ Exit!WalkInv /\ thread_num = Exit!Cardinality(Exit!Counted)
    BY DEF Exit!IInv
  <2>2. Exit!ListInv' /\ Exit!WalkInv' /\ thread_num' = Exit!Cardinality(Exit!Counted')
    BY <1>1, <2>1, ListStep, WalkStep, CountStep
  <2>3. Exit!TypeOK' /\ Exit!EndInv'
    BY <1>1, <2>2, TypeStep, EndStep
  <2> QED
    BY <2>2, <2>3 DEF Exit!IInv
<1>2. CASE UNCHANGED Exit!vars
  BY <1>2 DEF Exit!vars, Exit!IInv, Exit!TypeOK, Exit!ListInv, Exit!WalkInv, Exit!Counted, Exit!EndInv
<1> QED
  BY <1>1, <1>2

-----------------------------------------------------------------------------
(* The end of the process, in every reachable state.                            *)

\* The invariant holds in every reachable state, for any number of threads.
LEMMA EndInvariance == ASSUME Exit!ShutdownAssumption PROVE Exit!Spec => []Exit!IInv
  BY EndStart, EndKeeps, PTL DEF Exit!Spec

\* Whoever comes to free everything, by the launcher's wait, by System.exit, an uncaught
\* exception or a signal: no thread is left that executes Java code or could start to.
LEMMA AloneAtTheEnd == ASSUME Exit!ShutdownAssumption PROVE Exit!Spec => []Exit!EndIsAlone
<1>1. ASSUME Exit!IInv PROVE Exit!EndIsAlone
  <2> SUFFICES ASSUME NEW a \in Exit!Enders, at[a] = "end", NEW t \in Exit!JavaThreads
               PROVE  at[t] \in {"unborn", "dying", "dead", "cancel", "end"}
    BY DEF Exit!EndIsAlone
  <2>1. a = Launcher \/ a = Console \/ a \in Exit!JavaThreads
    BY DEF Exit!Enders
  <2> QED
    BY <1>1, <2>1 DEF Exit!IInv, Exit!EndInv
<1> QED
  BY <1>1, EndInvariance, PTL

\* Signals aside, one actor at most comes to free everything.
LEMMA OnceAtTheEnd == ASSUME Exit!ShutdownAssumption PROVE Exit!Spec => []Exit!EndsOnce
<1>1. ASSUME Exit!IInv PROVE Exit!EndsOnce
  <2> DEFINE E == {a \in Exit!Enders \ {Console} : at[a] = "end"}
  <2>1. ASSUME NEW a \in E, NEW b \in E PROVE a = b
    <3>1. /\ a \in Exit!JavaThreads \cup {Launcher} /\ b \in Exit!JavaThreads \cup {Launcher}
          /\ at[a] = "end" /\ at[b] = "end"
      BY DEF Exit!Enders
    <3>2. \A t, u \in Exit!JavaThreads : at[t] = "end" /\ at[u] = "end" => t = u
      BY <1>1 DEF Exit!IInv, Exit!EndInv
    <3>3. at[Launcher] = "end" => \A t \in Exit!JavaThreads : at[t] # "end"
      BY <1>1 DEF Exit!IInv, Exit!EndInv
    <3> QED
      BY <3>1, <3>2, <3>3
  <2>2. E = {} \/ \E a : E = {a}
    BY <2>1
  <2>3. Exit!Cardinality(E) \in {0, 1}
    BY <2>2, FS_EmptySet, FS_Singleton, EndCounts, EndFinite
  <2> QED
    BY <2>3 DEF Exit!EndsOnce
<1> QED
  BY <1>1, EndInvariance, PTL

-----------------------------------------------------------------------------
(* The constant pool and linking: as their proofs have them and as Runtime has   *)
(* them, modules ConstantPool and Linking are the same.                          *)

\* The behaviours are the same,
LEMMA PoolSpecIsOne == Pool!Spec <=> PP!Spec
  BY DEF Pool!Spec, PP!Spec, Pool!Init, PP!Init, Pool!Next, PP!Next, Pool!vars, PP!vars, Pool!Ask,
         PP!Ask, Pool!Look, PP!Look, Pool!Intern, PP!Intern, Pool!WriteFirst, PP!WriteFirst,
         Pool!WriteSecond, PP!WriteSecond, Pool!WriteUnused, PP!WriteUnused,
         Pool!SetRealDescriptor, PP!SetRealDescriptor, Pool!Copy, PP!Copy, Pool!Index, PP!Index,
         Pool!Kind, PP!Kind, Pool!Text, PP!Text, Pool!Frame, PP!Frame, Pool!At, PP!At, Pool!Goto,
         PP!Goto, Pool!Interned, PP!Interned, Pool!Rest, PP!Rest, Pool!Overlapped, PP!Overlapped,
         Pool!ToSet, PP!ToSet, Pool!Last, PP!Last, Pool!Front, PP!Front

\* the inductive invariant,
LEMMA PoolInvariantIsOne == Pool!IInv <=> PP!IInv
  BY DEF Pool!IInv, PP!IInv, Pool!TypeOK, PP!TypeOK, Pool!ValuesInv, PP!ValuesInv, Pool!MadeInv,
         PP!MadeInv, Pool!Made, PP!Made, Pool!CallsInv, PP!CallsInv, Pool!InPlace, PP!InPlace,
         Pool!WorkInv, PP!WorkInv, Pool!AtWork, PP!AtWork, Pool!RealInv, PP!RealInv, Pool!TextInv,
         PP!TextInv, Pool!AnswersInv, PP!AnswersInv, Pool!AnswersAreRight, PP!AnswersAreRight,
         Pool!SitesUseTheirDescriptor, PP!SitesUseTheirDescriptor, Pool!Means, PP!Means, Pool!Pcs,
         PP!Pcs, Pool!Reads, PP!Reads, Pool!Kinds, PP!Kinds, Pool!Index, PP!Index, Pool!Kind,
         PP!Kind, Pool!Text, PP!Text, Pool!Frame, PP!Frame, Pool!ToSet, PP!ToSet, Pool!Last,
         PP!Last

\* what is assumed of the constants,
LEMMA PoolAssumptionIsOne == Pool!PoolAssumption <=> PP!PoolAssumption
  BY DEF Pool!PoolAssumption, PP!PoolAssumption, Pool!Index, PP!Index, Pool!Kinds, PP!Kinds

\* and the property of strings.
LEMMA StringsAreOneIsOne == Pool!StringsAreOne <=> PP!StringsAreOne
  BY DEF Pool!StringsAreOne, PP!StringsAreOne, Pool!Kind, PP!Kind, Pool!Text, PP!Text

\* So are those of Linking,
LEMMA LinkingSpecIsOne == L!Spec <=> LP!Spec
<1>1. /\ L!Types = LP!Types /\ L!Linked = LP!Linked /\ L!Chain = LP!Chain
      /\ \A c : L!Above(c) = LP!Above(c)
      /\ \A cf : L!SlotsOf(cf) = LP!SlotsOf(cf) /\ \A ks : L!OfKind(cf, ks) = LP!OfKind(cf, ks)
  BY DEF L!Types, LP!Types, L!Linked, LP!Linked, L!Chain, LP!Chain, L!Above, LP!Above, L!SlotsOf,
         LP!SlotsOf, L!OfKind, LP!OfKind, L!Index, LP!Index, L!Static, LP!Static, L!Cardinality, LP!Cardinality
<1>2. \A c, n, ks : L!Declares(c, n, ks) <=> LP!Declares(c, n, ks)
  BY <1>1 DEF L!Declares, LP!Declares
<1>3. \A n : L!FieldOf(n) = LP!FieldOf(n) /\ L!StaticHome(n) = LP!StaticHome(n)
  BY DEF L!FieldOf, LP!FieldOf, L!FieldSearch, LP!FieldSearch, L!StaticHome, LP!StaticHome, L!Types, LP!Types
<1>4. \A c : L!Link(c) <=> LP!Link(c)
  BY DEF L!Link, LP!Link, L!Linked, LP!Linked, L!Types, LP!Types, L!Above, LP!Above, L!Chain, LP!Chain,
         L!LayoutOf, LP!LayoutOf, L!OfKind, LP!OfKind, L!Index, LP!Index, L!Cardinality, LP!Cardinality,
         L!Legal, LP!Legal, L!OwnedOf, LP!OwnedOf, L!SlotsOf, LP!SlotsOf, L!Static, LP!Static,
         L!VtableOf, LP!VtableOf
<1>5. \A c : /\ L!InitializeFinals(c) <=> LP!InitializeFinals(c)
             /\ L!NewInstance(c) <=> LP!NewInstance(c)
  BY <1>1, <1>2 DEF L!InitializeFinals, LP!InitializeFinals, L!NewInstance, LP!NewInstance
<1>6. \A c, n, v : /\ L!PutField(c, n, v) <=> LP!PutField(c, n, v)
                   /\ L!PutStatic(c, n, v) <=> LP!PutStatic(c, n, v)
  <2>1. \A c, n, v : L!PutField(c, n, v) <=> LP!PutField(c, n, v)
    BY DEF L!PutField, LP!PutField, L!FieldOf, LP!FieldOf, L!FieldSearch, LP!FieldSearch, L!Chain, LP!Chain,
           L!Declares, LP!Declares, L!Location, LP!Location, L!Linked, LP!Linked, L!Types, LP!Types
  <2>2. \A c, n, v : L!PutStatic(c, n, v) <=> LP!PutStatic(c, n, v)
    BY DEF L!PutStatic, LP!PutStatic, L!FieldOf, LP!FieldOf, L!FieldSearch, LP!FieldSearch, L!Declares,
           LP!Declares, L!StaticHome, LP!StaticHome, L!Linked, LP!Linked, L!Types, LP!Types
  <2> QED
    BY <2>1, <2>2
<1>7. \A t, n : L!Unsafe(t, n) <=> LP!Unsafe(t, n)
  BY <1>1, <1>2 DEF L!Unsafe, LP!Unsafe
<1>8. /\ \A t, n : L!ObjectFieldOffset(t, n) = LP!ObjectFieldOffset(t, n)
      /\ \A o : L!StaticOffset(o) <=> LP!StaticOffset(o)
      /\ \A o : L!Meant(o) = LP!Meant(o)
      /\ \A t, n, o : L!Astray(t, n, o) = LP!Astray(t, n, o)
      /\ \A t, n : L!UnsafeGet(t, n) = LP!UnsafeGet(t, n)
      /\ \A o, v : L!StoreAt(o, v) <=> LP!StoreAt(o, v)
  <2>1. \A t, n : L!ObjectFieldOffset(t, n) = LP!ObjectFieldOffset(t, n)
    BY DEF L!ObjectFieldOffset, LP!ObjectFieldOffset, L!AllFieldOffset, LP!AllFieldOffset
  <2>2. \A o : L!StaticOffset(o) <=> LP!StaticOffset(o)
    BY DEF L!StaticOffset, LP!StaticOffset
  <2>3. \A o : L!Meant(o) = LP!Meant(o)
    BY DEF L!Meant, LP!Meant
  <2>4. \A t, n, o : L!Astray(t, n, o) = LP!Astray(t, n, o)
    BY <1>1, <2>3 DEF L!Astray, LP!Astray
  <2>5. \A t, n : L!UnsafeGet(t, n) = LP!UnsafeGet(t, n)
    BY <2>1, <2>2 DEF L!UnsafeGet, LP!UnsafeGet
  <2>6. \A o, v : L!StoreAt(o, v) <=> LP!StoreAt(o, v)
    BY <2>2, <2>3 DEF L!StoreAt, LP!StoreAt
  <2> QED
    BY <2>1, <2>2, <2>3, <2>4, <2>5, <2>6
<1>9. \A c, n, e, v : /\ L!UnsafePut(c, n, v) <=> LP!UnsafePut(c, n, v)
                      /\ L!CompareAndSwap(c, n, e, v) <=> LP!CompareAndSwap(c, n, e, v)
  <2>1. \A c, n, v : L!UnsafePut(c, n, v) <=> LP!UnsafePut(c, n, v)
    BY <1>7, <1>8 DEF L!UnsafePut, LP!UnsafePut
  <2>2. \A c, n, e, v : L!CompareAndSwap(c, n, e, v) <=> LP!CompareAndSwap(c, n, e, v)
    BY <1>7, <1>8 DEF L!CompareAndSwap, LP!CompareAndSwap
  <2> QED
    BY <2>1, <2>2
<1>10. L!Next <=> LP!Next
  <2>1. (\E c \in L!Types : L!Link(c) \/ L!InitializeFinals(c))
          <=> \E c \in LP!Types : LP!Link(c) \/ LP!InitializeFinals(c)
    BY <1>1, <1>4, <1>5
  <2>2. (\E c \in Classes : L!NewInstance(c)) <=> \E c \in Classes : LP!NewInstance(c)
    BY <1>5
  <2>3. (\E c \in L!Types, n \in FieldNames, v \in Values : L!PutField(c, n, v) \/ L!PutStatic(c, n, v) \/ L!UnsafePut(c, n, v))
          <=> \E c \in LP!Types, n \in FieldNames, v \in Values :
                LP!PutField(c, n, v) \/ LP!PutStatic(c, n, v) \/ LP!UnsafePut(c, n, v)
    BY <1>1, <1>6, <1>9
  <2>4. (\E c \in L!Types, n \in FieldNames, e, v \in Values : L!CompareAndSwap(c, n, e, v))
          <=> \E c \in LP!Types, n \in FieldNames, e, v \in Values : LP!CompareAndSwap(c, n, e, v)
    BY <1>1, <1>9
  <2> QED
    BY <2>1, <2>2, <2>3, <2>4 DEF L!Next, LP!Next
<1>11. L!Init <=> LP!Init
  BY <1>1 DEF L!Init, LP!Init
<1>12. [L!Next]_(L!vars) <=> [LP!Next]_(LP!vars)
  BY <1>10 DEF L!vars, LP!vars
<1> QED
  BY <1>11, <1>12, PTL DEF L!Spec, LP!Spec

\* its invariant,
LEMMA LinkingInvariantIsOne == L!IInv <=> LP!IInv
<1>1. L!OnlyStaticsGoAstray <=> LP!OnlyStaticsGoAstray
  BY DEF L!OnlyStaticsGoAstray, LP!OnlyStaticsGoAstray, L!Exposed, LP!Exposed, L!Declares, LP!Declares,
         L!Linked, LP!Linked, L!Types, LP!Types, L!Static, LP!Static, L!Chain, LP!Chain
<1>2. L!LocationsHoldJavasValues <=> LP!LocationsHoldJavasValues
  BY DEF L!LocationsHoldJavasValues, LP!LocationsHoldJavasValues, L!GetStatic, LP!GetStatic, L!GetField,
         LP!GetField, L!UnsafeGet, LP!UnsafeGet, L!StaticHome, LP!StaticHome, L!Location, LP!Location,
         L!ObjectFieldOffset, LP!ObjectFieldOffset, L!AllFieldOffset, LP!AllFieldOffset,
         L!StaticOffset, LP!StaticOffset, L!Declares, LP!Declares, L!Linked, LP!Linked, L!Types,
         LP!Types, L!Static, LP!Static, L!Chain, LP!Chain
<1>3. L!TypeOK <=> LP!TypeOK
  BY DEF L!TypeOK, LP!TypeOK, L!Linked, LP!Linked, L!Types, LP!Types
<1>4. L!FilesInv <=> LP!FilesInv
  BY DEF L!FilesInv, LP!FilesInv, L!Linked, LP!Linked, L!Types, LP!Types, L!Above, LP!Above
<1>5. L!FieldsHaveTheirPlaces <=> LP!FieldsHaveTheirPlaces
  BY DEF L!FieldsHaveTheirPlaces, LP!FieldsHaveTheirPlaces, L!Linked, LP!Linked, L!Types, LP!Types,
         L!Chain, LP!Chain, L!Declares, LP!Declares
<1>6. L!PlacesInv <=> LP!PlacesInv
  BY DEF L!PlacesInv, LP!PlacesInv, L!SlotsOf, LP!SlotsOf, L!OfKind, LP!OfKind, L!Static, LP!Static,
         L!Index, LP!Index, L!Cardinality, LP!Cardinality, L!Linked, LP!Linked, L!Types, LP!Types
<1>7. L!VtableInv <=> LP!VtableInv
  BY DEF L!VtableInv, LP!VtableInv, L!Linked, LP!Linked, L!Types, LP!Types, L!Chain, LP!Chain
<1> QED
  BY <1>1, <1>2, <1>3, <1>4, <1>5, <1>6, <1>7 DEF L!IInv, LP!IInv

\* its assumption
LEMMA HierarchyIsOne == L!LinkingAssumption <=> LP!LinkingAssumption
  BY DEF L!LinkingAssumption, LP!LinkingAssumption, L!Types, LP!Types, L!Above, LP!Above,
         L!FieldKinds, LP!FieldKinds

\* and its properties, of fields
LEMMA FieldsAreOne == L!FieldsResolveAsInJava /\ L!ReflectsOwnMembers
                       <=> LP!FieldsResolveAsInJava /\ LP!ReflectsOwnMembers
  BY DEF L!FieldsResolveAsInJava, LP!FieldsResolveAsInJava, L!ReflectsOwnMembers,
         LP!ReflectsOwnMembers, L!Linked, LP!Linked, L!FieldOf, LP!FieldOf, L!Resolved,
         LP!Resolved, L!DeclaredFields, LP!DeclaredFields, L!ConstructorSlots,
         LP!ConstructorSlots, L!MethodInSlot, LP!MethodInSlot, L!MethodSlots, LP!MethodSlots,
         L!Members, LP!Members, L!Types, LP!Types, L!FieldSearch, LP!FieldSearch, L!Declares,
         LP!Declares, L!FieldKinds, LP!FieldKinds, L!Declared, LP!Declared

\* and of calls.
LEMMA CallsAreOne == L!VirtualCallsAreJavas /\ L!InterfaceCallsAreJavas
                      <=> LP!VirtualCallsAreJavas /\ LP!InterfaceCallsAreJavas
  BY DEF L!VirtualCallsAreJavas, LP!VirtualCallsAreJavas, L!InterfaceCallsAreJavas,
         LP!InterfaceCallsAreJavas, L!Linked, LP!Linked, L!Chain, LP!Chain, L!Declared,
         LP!Declared, L!Extended, LP!Extended, L!ClassMethod, LP!ClassMethod, L!Types, LP!Types,
         L!InterfaceMethod, LP!InterfaceMethod

-----------------------------------------------------------------------------
(* Together.                                                                    *)

\* The state of a model changes by its own steps only.
LEMMA StepsAreApart ==
  ASSUME [RuntimeNext]_runtimeVars
  PROVE  /\ [Next]_vars /\ [L!Next]_lVars /\ [Pool!Next]_pVars
         /\ [GC!Next]_gVars /\ [Mon!Next]_mVars /\ [Exit!Next]_sVars
  BY DEF RuntimeNext, runtimeVars, vars, lVars, pVars, gVars, mVars, sVars

\* Every model behaves in Runtime as it does alone.
LEMMA PartsBehave ==
  RuntimeSpec => Spec /\ L!Spec /\ Pool!Spec /\ GC!Spec /\ Mon!Spec /\ Exit!Spec
<1>1. RuntimeInit => Init /\ L!Init /\ Pool!Init /\ GC!Init /\ Mon!Init /\ Exit!Init
  BY DEF RuntimeInit
<1>2. [RuntimeNext]_runtimeVars => [Next]_vars /\ [L!Next]_(L!vars) /\ [Pool!Next]_(Pool!vars)
                                     /\ [GC!Next]_(GC!vars) /\ [Mon!Next]_(Mon!vars) /\ [Exit!Next]_(Exit!vars)
  BY StepsAreApart DEF L!vars, Pool!vars, GC!vars, Mon!vars, Exit!vars, lVars, pVars, gVars, mVars, sVars
<1> QED
  BY <1>1, <1>2, PTL DEF RuntimeSpec, Spec, L!Spec, Pool!Spec, GC!Spec, Mon!Spec, Exit!Spec

\* The inductive invariants hold in every reachable state, whatever the threads, classes,
\* entries, graphs, roots and numbers.
THEOREM RuntimeStates == RuntimeSpec => []StatesOK
<1>1. Spec => []IInv
  BY Invariance, RuntimeAssumption
<1>2. Pool!Spec => []Pool!IInv
  BY PP!Invariance, PoolSpecIsOne, PoolInvariantIsOne, PoolAssumptionIsOne, RuntimeAssumption, PTL
<1>3. GC!Spec => []GC!IInv
  BY CollectionInvariance, RuntimeAssumption
<1>4. Mon!Spec => []Mon!IInv
  <2>1. Mon!Init => Mon!IInv
    BY MonitorStart, RuntimeAssumption
  <2>2. Mon!IInv /\ [Mon!Next]_(Mon!vars) => Mon!IInv'
    BY MonitorStep, RuntimeAssumption DEF Mon!vars, mVars
  <2> QED
    BY <2>1, <2>2, PTL DEF Mon!Spec
<1>5. Exit!Spec => []Exit!IInv
  BY EndInvariance, RuntimeAssumption
<1>6. L!Spec => []L!IInv
  BY LP!Invariance, LinkingSpecIsOne, LinkingInvariantIsOne, HierarchyIsOne, RuntimeAssumption, PTL
<1>7. IInv /\ L!IInv /\ Pool!IInv /\ GC!IInv /\ Mon!IInv /\ Exit!IInv => StatesOK
  BY DEF StatesOK
<1> QED
  BY <1>1, <1>2, <1>3, <1>4, <1>5, <1>6, <1>7, PartsBehave, PTL

\* InstanceKlass::parse_fields, get_field, Unsafe, reflection: for any hierarchy without cycles,
\* any class files and any sequence of stores, fields have places of their own, a reference
\* finds the declaration Java's finds, every location has Java's value, and reflection lists
\* what the class file declares.
THEOREM FieldsOfClasses == RuntimeSpec => []FieldsAreJavas
<1>1. StatesOK => FieldsAreJavas
  <2> SUFFICES ASSUME L!IInv PROVE FieldsAreJavas
    BY DEF StatesOK
  <2>1. L!FieldsHaveTheirPlaces /\ L!LocationsHoldJavasValues /\ L!OnlyStaticsGoAstray
    BY DEF L!IInv
  <2>2. LP!FieldsResolveAsInJava /\ LP!ReflectsOwnMembers
    BY LP!FieldsResolve, LP!Reflects, LinkingInvariantIsOne, HierarchyIsOne, RuntimeAssumption
  <2> QED
    BY <2>1, <2>2, FieldsAreOne DEF FieldsAreJavas
<1> QED
  BY <1>1, RuntimeStates, PTL

\* parse_methods, get_class_method, get_interface_method: for any hierarchy without cycles and
\* any class files invokevirtual and invokeinterface run the methods Java selects.
THEOREM CallsOfClasses == RuntimeSpec => []CallsAreJavas
<1>1. StatesOK => CallsAreJavas
  <2> SUFFICES ASSUME L!IInv PROVE CallsAreJavas
    BY DEF StatesOK
  <2>1. LP!VirtualCallsAreJavas /\ LP!InterfaceCallsAreJavas
    BY LP!VirtualCalls, LP!InterfaceCalls, LinkingInvariantIsOne, HierarchyIsOne, RuntimeAssumption
  <2> QED
    BY <2>1, CallsAreOne DEF CallsAreJavas
<1> QED
  BY <1>1, RuntimeStates, PTL

\* rt_constant_pool: for any threads and any entries, parsed without a lock, a thread reads
\* what the class file means; equal texts are one String; a site of MethodHandle.invoke that
\* is alone has its own descriptor.
THEOREM PoolAnswers == RuntimeSpec => []PoolAnswersAreRight
<1>1. Pool!IInv => Pool!AnswersAreRight /\ Pool!SitesUseTheirDescriptor
  BY DEF Pool!IInv, Pool!AnswersInv
<1>2. Pool!Spec => []Pool!StringsAreOne
  BY PP!OneString, PoolSpecIsOne, StringsAreOneIsOne, PoolAssumptionIsOne, RuntimeAssumption, PTL
<1>3. StatesOK => Pool!IInv
  BY DEF StatesOK
<1>4. Pool!AnswersAreRight /\ Pool!SitesUseTheirDescriptor /\ Pool!StringsAreOne => PoolAnswersAreRight
  BY DEF PoolAnswersAreRight
<1> QED
  BY <1>1, <1>2, <1>3, <1>4, RuntimeStates, PartsBehave, PTL

\* GC::system_gc: for any graph and any roots a collection ends with the same graph, one to
\* one, with nothing else in the heap, and with every object in the handler pool.
THEOREM Collection == RuntimeSpec => CollectionIsACopy
<1>1. GC!Spec => GC!SameGraph /\ GC!GarbageIsFreed
  BY CollectsTheGraph, GarbageGoes, RuntimeAssumption
<1> QED
  BY <1>1, PartsBehave DEF CollectionIsACopy

\* Object.wait and Object.notifyAll: for any threads and timeouts one thread waits for an
\* object at a time, and its wait ends without the notification it keeps out.
THEOREM WaitsEnd == RuntimeSpec => []WaitersNeedNobody
<1>1. StatesOK => WaitersNeedNobody
  BY OneThreadWaits, NobodyIsNeeded, RuntimeAssumption DEF StatesOK, WaitersNeedNobody
<1> QED
  BY <1>1, RuntimeStates, PTL

\* System.exit, an uncaught exception, a signal and the last return: for any number of threads
\* whoever frees everything is alone, and is one only, signals aside.
THEOREM EndComesAlone == RuntimeSpec => []EndIsAlone
<1>1. Exit!Spec => []Exit!EndIsAlone /\ []Exit!EndsOnce
  BY AloneAtTheEnd, OnceAtTheEnd, RuntimeAssumption
<1>2. Exit!EndIsAlone /\ Exit!EndsOnce => EndIsAlone
  BY DEF EndIsAlone
<1> QED
  BY <1>1, <1>2, PartsBehave, PTL
=============================================================================
