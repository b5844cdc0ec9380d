-------------------------------- MODULE CopyGC --------------------------------
(***************************************************************************)
(* The copying collection GC::system_gc, run while every thread stands at  *)
(* a safepoint. It walks the roots in a fixed order; the recursion into    *)
(* the fields of a copy is the stack `todo' of the slots still to be       *)
(* visited. Objects are numbers; a copy is a new number. A slot is a root  *)
(* or a field of an object. Between two collections the program allocates  *)
(* and stores.                                                             *)
(***************************************************************************)
EXTENDS Integers, Sequences, FiniteSets

CONSTANTS
  Initial,       \* the kinds of the objects at the start: "instance", "array" or "box"
  Fields,        \* fields of an instance and elements of an array
  Roots,         \* the slots system_gc starts from, in its order
  Changes,       \* bound: allocations and stores of the program
  Objects,       \* bound: objects and copies ever made
  Collections,   \* bound: collections
  Null

VARIABLES
  heap,        \* the objects that are not deleted: number -> [kind, fields]
  slot,        \* the roots
  handlers,    \* Mempool::oop_handler_pool
  phase,       \* "mutator" or "roots"
  next,        \* the root to be visited next
  todo,        \* slots to be visited, the innermost call first
  map,         \* new_oop_map: an object and its copy
  before,      \* the heap and the roots when the collection began
  made,        \* objects and copies made so far
  changes, collections  \* so far

vars == <<heap, slot, handlers, phase, next, todo, map, before, made, changes, collections>>

Kinds == {"instance", "array", "box"}
RootSet == {Roots[i] : i \in 1 .. Len(Roots)}

\* Each root is a location of its own, which system_gc comes to once.
HeapAssumption ==
  /\ Fields \in Nat /\ Changes \in Nat /\ Objects \in Nat /\ Collections \in Nat /\ Null \notin Nat
  /\ Initial \in Seq(Kinds) /\ Len(Initial) <= Objects
  /\ Roots \in Seq(RootSet) /\ \A i, j \in 1 .. Len(Roots) : Roots[i] = Roots[j] => i = j

Fresh == made + 1

FieldCount(k) == IF k = "box" THEN 0 ELSE Fields

-----------------------------------------------------------------------------
(* The program.                                                             *)

Changing ==
  /\ phase = "mutator" /\ changes < Changes /\ changes' = changes + 1
  /\ UNCHANGED <<phase, next, todo, map, before, collections>>

\* Allocation enters the object into the handler pool.
Allocate(r, k) ==
  /\ Changing /\ Fresh <= Objects
  /\ heap' = [o \in DOMAIN heap \cup {Fresh} |->
               IF o = Fresh THEN [kind |-> k, fields |-> [j \in 1 .. FieldCount(k) |-> Null]] ELSE heap[o]]
  /\ handlers' = handlers \cup {Fresh} /\ slot' = [slot EXCEPT ![r] = Fresh] /\ made' = Fresh

\* What the program has in one slot it stores in a field of what it has in another.
Store(r, s, j) ==
  /\ Changing /\ slot[r] # Null /\ j \in 1 .. FieldCount(heap[slot[r]].kind)
  /\ heap' = [heap EXCEPT ![slot[r]].fields[j] = slot[s]] /\ UNCHANGED <<handlers, slot, made>>

Drop(r) ==
  /\ Changing /\ slot[r] # Null
  /\ slot' = [slot EXCEPT ![r] = Null] /\ UNCHANGED <<handlers, heap, made>>

-----------------------------------------------------------------------------
(* The collection.                                                          *)

Start ==
  /\ phase = "mutator" /\ collections < Collections
  /\ phase' = "roots" /\ next' = 1 /\ todo' = <<>> /\ map' = <<>>
  /\ before' = [heap |-> heap, slot |-> slot] /\ collections' = collections + 1
  /\ UNCHANGED <<heap, slot, handlers, made, changes>>

\* The next root is visited when the recursion into the one before has ended.
VisitRoot ==
  /\ phase = "roots" /\ todo = <<>> /\ next <= Len(Roots)
  /\ todo' = <<<<Roots[next]>>>> /\ next' = next + 1
  /\ UNCHANGED <<heap, slot, handlers, phase, map, before, made, changes, collections>>

At(s) == IF Len(s) = 1 THEN slot[s[1]] ELSE heap[s[1]].fields[s[2]]
Set(s, hp, o) ==
  IF Len(s) = 1 THEN heap' = hp /\ slot' = [slot EXCEPT ![s[1]] = o]
  ELSE heap' = [hp EXCEPT ![s[1]].fields[s[2]] = o] /\ UNCHANGED slot

\* Nothing is there.
Skip ==
  /\ phase = "roots" /\ todo # <<>> /\ At(Head(todo)) = Null
  /\ todo' = Tail(todo) /\ UNCHANGED <<heap, slot, handlers, phase, next, map, before, made, changes, collections>>

\* The object is in new_oop_map.
Copied(o) == o \in DOMAIN map

\* What is already copied: the slot is given the copy.
Redirect ==
  /\ phase = "roots" /\ todo # <<>> /\ At(Head(todo)) # Null /\ Copied(At(Head(todo)))
  /\ Set(Head(todo), heap, map[At(Head(todo))])
  /\ todo' = Tail(todo) /\ UNCHANGED <<handlers, phase, next, map, before, made, changes, collections>>

\* Mutant of Inner: the elements of arrays are not visited.
InstancesOnly(k, n) == [j \in 1 .. (IF k = "instance" THEN FieldCount(k) ELSE 0) |-> <<n, j>>]

\* The slots of copy n: boxes have none.
Inner(k, n) == [j \in 1 .. FieldCount(k) |-> <<n, j>>]

\* The object is copied with its fields as they are; the slot is given the copy, whose fields
\* are visited next.
Copy ==
  /\ phase = "roots" /\ todo # <<>> /\ At(Head(todo)) # Null /\ ~Copied(At(Head(todo)))
  /\ LET o == At(Head(todo))
         n == Fresh
     IN /\ n <= Objects
        /\ Set(Head(todo), [x \in DOMAIN heap \cup {n} |-> IF x = n THEN heap[o] ELSE heap[x]], n)
        /\ map' = [x \in DOMAIN map \cup {o} |-> IF x = o THEN n ELSE map[x]]
        /\ todo' = Inner(heap[o].kind, n) \o Tail(todo) /\ made' = n
  /\ UNCHANGED <<handlers, phase, next, before, changes, collections>>

\* Mutant of NewHandlers: the new list is not swapped in.
OldHandlers(copies) == handlers

\* The copies are the handler pool from now on.
NewHandlers(copies) == copies

\* Everything in the handler pool is deleted; the threads go on.
Delete ==
  /\ phase = "roots" /\ todo = <<>> /\ next > Len(Roots)
  /\ heap' = [o \in DOMAIN heap \ handlers |-> heap[o]]
  /\ handlers' = NewHandlers({map[o] : o \in DOMAIN map})
  /\ phase' = "mutator"
  /\ UNCHANGED <<slot, next, todo, map, before, made, changes, collections>>

\* Any graph of the initial objects, garbage included.
Init ==
  /\ \E refs \in [1 .. Len(Initial) -> [1 .. Fields -> 1 .. Len(Initial) \cup {Null}]] :
       heap = [o \in 1 .. Len(Initial) |->
                 [kind |-> Initial[o], fields |-> [j \in 1 .. FieldCount(Initial[o]) |-> refs[o][j]]]]
  /\ slot \in [RootSet -> 1 .. Len(Initial) \cup {Null}]
  /\ handlers = 1 .. Len(Initial) /\ made = Len(Initial)
  /\ phase = "mutator" /\ next = 1 /\ todo = <<>> /\ map = <<>>
  /\ before = [heap |-> <<>>, slot |-> [r \in RootSet |-> Null]] /\ changes = 0 /\ collections = 0

Next ==
  \/ \E r, s \in RootSet :
       \/ \E k \in Kinds : Allocate(r, k)
       \/ \E j \in 1 .. Fields : Store(r, s, j)
       \/ Drop(r)
  \/ Start \/ VisitRoot \/ Skip \/ Redirect \/ Copy \/ Delete

Spec == Init /\ [][Next]_vars

-----------------------------------------------------------------------------
(* Properties.                                                              *)

Heaps(D) == [D -> [kind : Kinds, fields : Seq(Nat \cup {Null})]]
Sized(hp) == \A o \in DOMAIN hp : Len(hp[o].fields) = FieldCount(hp[o].kind)

TypeOK ==
  /\ made \in 0 .. Objects /\ DOMAIN heap \subseteq 1 .. made /\ heap \in Heaps(DOMAIN heap) /\ Sized(heap)
  /\ slot \in [RootSet -> Nat \cup {Null}] /\ handlers \subseteq DOMAIN heap
  /\ phase \in {"mutator", "roots"} /\ next \in 1 .. Len(Roots) + 1

\* The roots lead into S, and nothing leads out of it.
Closed(hp, sl, S) ==
  /\ \A r \in RootSet : sl[r] \in S \cup {Null}
  /\ \A o \in S : \A j \in 1 .. Len(hp[o].fields) : hp[o].fields[j] \in S \cup {Null}

\* S is what the roots lead to.
Reached(hp, sl, S) ==
  S \subseteq DOMAIN hp /\ Closed(hp, sl, S) /\ \A T \in SUBSET S : Closed(hp, sl, T) => T = S

\* When a collection ends the roots lead to the same graph as before, sharing and cycles
\* included: map takes the old one to the new one, one to one.
SameGraph ==
  [][phase = "roots" /\ phase' = "mutator" =>
       LET old == DOMAIN map
           copy(o) == IF o = Null THEN Null ELSE map[o]
       IN /\ Reached(before.heap, before.slot, old)
          /\ \A o, p \in old : map[o] = map[p] => o = p
          /\ \A r \in RootSet : slot'[r] = copy(before.slot[r])
          /\ \A o \in old : /\ heap'[map[o]].kind = before.heap[o].kind
                            /\ Len(heap'[map[o]].fields) = Len(before.heap[o].fields)
                            /\ \A j \in 1 .. Len(before.heap[o].fields) :
                                 heap'[map[o]].fields[j] = copy(before.heap[o].fields[j])]_vars

\* When a collection ends what is not reachable is gone, and the next collection will find
\* every object in the handler pool.
GarbageIsFreed ==
  /\ [](phase = "mutator" => handlers = DOMAIN heap)
  /\ [][phase = "roots" /\ phase' = "mutator" => Reached(heap', slot', DOMAIN heap')]_vars

-----------------------------------------------------------------------------
(* The inductive invariant.                                                 *)

\* Between collections the handler pool has every object, and nothing leads out of it.
MutatorInv == phase = "mutator" => handlers = DOMAIN heap /\ Closed(heap, slot, DOMAIN heap)

Copies(mp) == {mp[o] : o \in DOMAIN mp}
IsCopy(mp, x, y) == IF x = Null THEN y = Null ELSE x \in DOMAIN mp /\ y = mp[x]

\* The graph a collection began with, which it does not change.
BeforeInv ==
  /\ before.heap \in Heaps(handlers) /\ Sized(before.heap) /\ before.slot \in [RootSet -> Nat \cup {Null}]
  /\ Closed(before.heap, before.slot, handlers)

\* A copy per object and an object per copy.
MapInv(hp, mp) ==
  /\ DOMAIN mp \subseteq handlers /\ mp \in [DOMAIN mp -> Nat]
  /\ \A o \in DOMAIN mp : mp[o] \notin handlers
  /\ \A o, p \in DOMAIN mp : mp[o] = mp[p] => o = p
  /\ DOMAIN hp = handlers \cup Copies(mp) /\ hp \in Heaps(DOMAIN hp) /\ Sized(hp)
  /\ \A o \in handlers : hp[o] = before.heap[o]

\* P are the slots still to be visited: they lead to the old graph, all others to the copies.
SlotsInv(hp, sl, mp, P) ==
  /\ sl \in [RootSet -> Nat \cup {Null}]
  /\ \A r \in RootSet : IF <<r>> \in P THEN sl[r] = before.slot[r] ELSE IsCopy(mp, before.slot[r], sl[r])
  /\ \A o \in DOMAIN mp :
       /\ hp[mp[o]].kind = before.heap[o].kind
       /\ \A j \in 1 .. FieldCount(before.heap[o].kind) :
            IF <<mp[o], j>> \in P THEN hp[mp[o]].fields[j] = before.heap[o].fields[j]
            ELSE IsCopy(mp, before.heap[o].fields[j], hp[mp[o]].fields[j])

\* Only what the roots led to is copied.
ReachedInv(mp) == \A S \in SUBSET handlers : Closed(before.heap, before.slot, S) => DOMAIN mp \subseteq S

FieldSlots(hp, mp) == UNION {{<<n, j>> : j \in 1 .. FieldCount(hp[n].kind)} : n \in Copies(mp)}
Unvisited == {<<Roots[i]>> : i \in next .. Len(Roots)}
InTodo == {todo[k] : k \in 1 .. Len(todo)}

\* The slots of the recursion are a root that has been taken, and fields of copies, each once.
TodoInv ==
  /\ todo \in Seq({<<r>> : r \in RootSet} \cup FieldSlots(heap, map))
  /\ InTodo \cap Unvisited = {} /\ \A k, l \in 1 .. Len(todo) : todo[k] = todo[l] => k = l

CollectInv ==
  phase = "roots" =>
    /\ BeforeInv /\ MapInv(heap, map) /\ TodoInv
    /\ SlotsInv(heap, slot, map, Unvisited \cup InTodo) /\ ReachedInv(map)

IInv == TypeOK /\ MutatorInv /\ CollectInv
=============================================================================
