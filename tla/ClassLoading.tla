----------------------------- MODULE ClassLoading -----------------------------
(***************************************************************************)
(* BootStrapClassLoader, AutomanClassLoader and the natives that call them *)
(* from several threads. A load is a stack of calls: a class loads its     *)
(* superclass and interfaces, an array its element and its lower           *)
(* dimension. Each loader holds a recursive lock while it loads; the own   *)
(* loader asks the bootstrap loader first, under its own lock.             *)
(*                                                                         *)
(* A name is a class and a number of dimensions. `cut` counts the letters  *)
(* lost at its end: the own loader drops the ';' of a lower dimension. A   *)
(* name is dotted if it has Java's dots where class files have slashes:    *)
(* defineClass hands it on as it is, the other natives convert it.         *)
(***************************************************************************)
EXTENDS Integers, Sequences, SequencesExt, FiniteSets

CONSTANTS
  Threads,
  Jar, Files, Basics,   \* classes of the jar, classes with a file, the basic types
  Deps,                 \* the superclass and the interfaces of a class, in loading order
  Anonymous,            \* classes known by their bytes only
  Wanted,               \* bound: the classes and arrays asked for by name
  Requests,             \* bound: calls
  NoKlass, Free

Elements == Jar \cup Files \cup Basics \cup Anonymous

VARIABLES
  klasses,   \* the klasses constructed so far
  system,    \* system_classmap: name -> index of a klass
  classmap,  \* AutomanClassLoader::classmap
  anonymous, \* anonymous_klassmap
  locks,     \* system_classmap_lock and AutomanClassLoader::lock: owner and depth
  calls,     \* the calls of each thread, innermost last
  answer,    \* what the last call of a thread returned
  fate,      \* the process runs or has exited, or an assertion failed: on a lower dimension
             \* ("aborted") or because the class asked for was not found ("not found")
  requests   \* calls begun by Java so far

vars == <<klasses, system, classmap, anonymous, locks, calls, answer, fate, requests>>

Names == [elem : Elements, dim : Nat, cut : Nat, dotted : BOOLEAN]
Name(e, d) == [elem |-> e, dim |-> d, cut |-> 0, dotted |-> FALSE]

\* The name with slashes, as class files have it.
Plain(n) == [n EXCEPT !.dotted = FALSE]

\* No class is its own superclass or interface, nor by way of others.
IsHeight(h) == \A c \in Elements : \A i \in 1 .. Len(Deps[c]) : h[Deps[c][i]] < h[c]

LoadingAssumption ==
  /\ IsFiniteSet(Elements)
  /\ Deps \in [Elements -> Seq(Elements \ Basics)] /\ Requests \in Nat
  /\ Free \notin Threads /\ NoKlass \notin Nat
  /\ \A n \in Wanted : n \in Names /\ Plain(n) = n /\ n.cut = 0 /\ (n.dim = 0 => n.elem \notin Basics)
  /\ Anonymous \cap (Jar \cup Files \cup Basics) = {} /\ Jar \cap Basics = {}
  /\ Files \cap (Jar \cup Basics) = {}  \* a class of the jar is never looked for in a file
  /\ \A c \in Jar : \A i \in 1 .. Len(Deps[c]) : Deps[c][i] \in Jar
  /\ \A c \in Files \cup Anonymous : \A i \in 1 .. Len(Deps[c]) : Deps[c][i] \in Jar \cup Files
  /\ \E h \in [Elements -> 0 .. Cardinality(Elements)] : IsHeight(h)

-----------------------------------------------------------------------------
(* Locks.                                                                   *)

LockOf(loader) == IF loader \in {"boot", "find", "ask"} THEN "system" ELSE "own"
MayLock(t, k) == locks[k].owner \in {Free, t}
Locked(t, k) == [locks EXCEPT ![k] = [owner |-> t, depth |-> @.depth + 1]]
Unlocked(k) == [locks EXCEPT ![k] = [owner |-> IF @.depth = 1 THEN Free ELSE @.owner, depth |-> @.depth - 1]]

-----------------------------------------------------------------------------
(* Calls. A call is at "lock" until it has its lock, then at "look", and at  *)
(* "deps" while it waits for what it needs, todo being the rest.             *)

Call(loader, n, bytes) ==
  [loader |-> loader, name |-> n, bytes |-> bytes, pc |-> "lock", todo |-> <<>>, got |-> <<>>]

Top(t) == Last(calls[t])
At(t, loader, pc) == fate = "runs" /\ calls[t] # <<>> /\ Top(t).loader = loader /\ Top(t).pc = pc

\* The innermost call returns r and gives back its lock.
Return(t, r) ==
  /\ calls' = [calls EXCEPT ![t] = Front(@)]
  /\ answer' = [answer EXCEPT ![t] = r]
  /\ locks' = Unlocked(LockOf(Top(t).loader))

\* The innermost call returns nullptr. Those that Java makes assert that it is not.
Missing(t) ==
  IF Len(calls[t]) = 1 THEN fate' = "not found" /\ UNCHANGED <<calls, answer, locks>>
  ELSE Return(t, NoKlass) /\ UNCHANGED fate

\* Of the innermost call: go to pc and call c.
Push(t, frame, c) == calls' = [calls EXCEPT ![t] = Append(Append(Front(@), frame), c)]

\* Mutant of Acquire: AutomanClassLoader takes no lock.
AcquireSystemOnly(t) ==
  /\ fate = "runs" /\ calls[t] # <<>> /\ Top(t).pc = "lock"
  /\ Top(t).loader = "own" \/ MayLock(t, LockOf(Top(t).loader))
  /\ locks' = Locked(t, LockOf(Top(t).loader))
  /\ calls' = [calls EXCEPT ![t][Len(calls[t])].pc = "look"]
  /\ UNCHANGED <<klasses, system, classmap, anonymous, answer, fate, requests>>

\* LockGuard: waits for another thread, not for its own.
Acquire(t) ==
  /\ fate = "runs" /\ calls[t] # <<>> /\ Top(t).pc = "lock"
  /\ MayLock(t, LockOf(Top(t).loader))
  /\ locks' = Locked(t, LockOf(Top(t).loader))
  /\ calls' = [calls EXCEPT ![t][Len(calls[t])].pc = "look"]
  /\ UNCHANGED <<klasses, system, classmap, anonymous, answer, fate, requests>>

\* Mutant of NeedsOf: the element's name loses its last letter, not the lower dimension's.
NeedsTruncated(loader, n) ==
  IF n.dim = 0 THEN [i \in 1 .. Len(Deps[n.elem]) |-> Name(Deps[n.elem][i], 0)]
  ELSE (IF n.elem \in Basics THEN <<>> ELSE <<[n EXCEPT !.dim = 0, !.cut = @ + (IF loader = "own" THEN 1 ELSE 0)]>>)
       \o (IF n.dim = 1 THEN <<>> ELSE <<[n EXCEPT !.dim = @ - 1]>>)

\* What is loaded before the klass is constructed, in order: superclass and interfaces of a
\* class; of an array its element class, and its lower dimension, with the letter the own
\* loader drops.
NeedsOf(loader, n) ==
  IF n.dim = 0 THEN [i \in 1 .. Len(Deps[n.elem]) |-> Name(Deps[n.elem][i], 0)]
  ELSE (IF n.elem \in Basics THEN <<>> ELSE <<[n EXCEPT !.dim = 0]>>)
       \o (IF n.dim = 1 THEN <<>>
           ELSE <<[n EXCEPT !.dim = @ - 1, !.cut = @ + (IF loader = "own" THEN 1 ELSE 0)]>>)

InJar(n) == n.dim = 0 /\ n.cut = 0 /\ ~n.dotted /\ n.elem \in Jar

\* After the lookup: construct at once or load the first of the needs.
Begin(t) ==
  LET f == [Top(t) EXCEPT !.pc = "deps", !.todo = NeedsOf(Top(t).loader, Top(t).name)]
  IN calls' = [calls EXCEPT ![t] = Append(Front(@), f)] /\ UNCHANGED <<answer, locks>>

\* BootStrapClassLoader::loadClass: a class of the jar or an array that is in the map, one to
\* be loaded, or nothing.
BootLook(t) ==
  /\ At(t, "boot", "look")
  /\ LET n == Top(t).name
     IN IF ~InJar(n) /\ n.dim = 0 THEN Missing(t)
        ELSE /\ IF n \in DOMAIN system THEN Return(t, system[n]) ELSE Begin(t)
             /\ UNCHANGED fate
  /\ UNCHANGED <<klasses, system, classmap, anonymous, requests>>

\* AutomanClassLoader::loadClass asks the bootstrap loader first, unless the class is anonymous.
OwnLook(t) ==
  /\ At(t, "own", "look")
  /\ IF Top(t).bytes = "anonymous" THEN Begin(t)
     ELSE /\ Push(t, [Top(t) EXCEPT !.pc = "asked"], Call("boot", Top(t).name, "none"))
          /\ UNCHANGED <<answer, locks>>
  /\ UNCHANGED <<klasses, system, classmap, anonymous, fate, requests>>

\* What the bootstrap loader found is the answer; then its own map, a file or the bytes given,
\* the first anonymous class of that name. With none of them the process exits.
OwnAsked(t) ==
  /\ At(t, "own", "asked")
  /\ LET n == Top(t).name
         named == {k \in anonymous : klasses[k].name = n}
     IN IF answer[t] # NoKlass THEN Return(t, answer[t]) /\ UNCHANGED fate
        ELSE IF n \in DOMAIN classmap THEN Return(t, classmap[n]) /\ UNCHANGED fate
        ELSE IF n.dim > 0 \/ Top(t).bytes = "class" \/ (n.cut = 0 /\ n.elem \in Files)
          THEN Begin(t) /\ UNCHANGED fate
        ELSE IF named # {}
          THEN (\E k \in named : (\A j \in named : k <= j) /\ Return(t, k)) /\ UNCHANGED fate
        ELSE fate' = "exited" /\ UNCHANGED <<calls, answer, locks>>
  /\ UNCHANGED <<klasses, system, classmap, anonymous, requests>>

\* What the innermost call has loaded, the last answer included.
Loaded(t) == IF Top(t).pc = "need" THEN Append(Top(t).got, answer[t]) ELSE Top(t).got

\* The next need is loaded by the loader of the class. What the bootstrap loader cannot find of
\* an array makes it give up.
LoadNeed(t) ==
  /\ fate = "runs" /\ calls[t] # <<>> /\ Top(t).pc \in {"deps", "need"}
  /\ ~(Top(t).pc = "need" /\ answer[t] = NoKlass) /\ Top(t).todo # <<>>
  /\ Push(t, [Top(t) EXCEPT !.pc = "need", !.todo = Tail(@), !.got = Loaded(t)],
          Call(Top(t).loader, Head(Top(t).todo), "none"))
  /\ UNCHANGED <<klasses, system, classmap, anonymous, locks, answer, fate, requests>>

GiveUp(t) ==
  /\ fate = "runs" /\ calls[t] # <<>> /\ Top(t).pc = "need" /\ answer[t] = NoKlass
  /\ Missing(t)
  /\ UNCHANGED <<klasses, system, classmap, anonymous, requests>>

\* insert keeps the entry a map has; the new klass is the answer all the same.
Insert(map, n, k) == IF n \in DOMAIN map THEN map
                     ELSE [m \in DOMAIN map \cup {n} |-> IF m = n THEN k ELSE map[m]]

\* Mutant of Higher: the lower dimension is not linked back.
LowerOnly(ks, low, k) == ks
Higher(ks, low, k) == [ks EXCEPT ![low].higher = k]

\* The lower dimension of an array with more than one, and the klass that is constructed.
LowerOf(t) == IF Top(t).name.dim > 1 THEN Last(Loaded(t)) ELSE NoKlass
NewKlass(t) ==
  [name |-> Name(Top(t).name.elem, Top(t).name.dim), loader |-> Top(t).loader, needs |-> Loaded(t),
   lower |-> LowerOf(t), higher |-> NoKlass, anonymous |-> Top(t).bytes = "anonymous"]

\* The klass is constructed and put into the map of its loader. Of an array with more than one
\* dimension the lower one must not have a higher one yet.
Construct(t) ==
  /\ fate = "runs" /\ calls[t] # <<>> /\ Top(t).pc \in {"deps", "need"} /\ Top(t).todo = <<>>
  /\ ~(Top(t).pc = "need" /\ answer[t] = NoKlass)
  /\ LET f == Top(t)
         k == Len(klasses) + 1
         low == LowerOf(t)
     IN IF low # NoKlass /\ klasses[low].higher # NoKlass
          THEN /\ fate' = "aborted"
               /\ UNCHANGED <<klasses, system, classmap, anonymous, calls, answer, locks>>
          ELSE /\ klasses' = Append(IF low = NoKlass THEN klasses ELSE Higher(klasses, low, k), NewKlass(t))
               /\ IF f.bytes = "anonymous"
                    THEN anonymous' = anonymous \cup {k} /\ UNCHANGED <<system, classmap>>
                  ELSE IF f.loader = "boot"
                    THEN system' = Insert(system, f.name, k) /\ UNCHANGED <<classmap, anonymous>>
                    ELSE classmap' = Insert(classmap, f.name, k) /\ UNCHANGED <<system, anonymous>>
               /\ Return(t, k) /\ UNCHANGED fate
  /\ UNCHANGED requests

\* findLoadedClass: the map of the bootstrap loader, and under its lock the other map. It asks
\* for the name with slashes, so it misses what defineClass brought.
Find(t) ==
  /\ At(t, "find", "look")
  /\ IF Top(t).name \in DOMAIN system THEN Return(t, system[Top(t).name])
     ELSE Push(t, [Top(t) EXCEPT !.pc = "asked"], Call("map", Top(t).name, "none")) /\ UNCHANGED <<answer, locks>>
  /\ UNCHANGED <<klasses, system, classmap, anonymous, fate, requests>>

\* find_in_classmap.
FindInClassmap(t) ==
  /\ At(t, "map", "look")
  /\ Return(t, IF Top(t).name \in DOMAIN classmap THEN classmap[Top(t).name] ELSE NoKlass)
  /\ UNCHANGED <<klasses, system, classmap, anonymous, fate, requests>>

\* Mutant of Ask: the load goes through the own loader.
AskOwn(t) ==
  /\ At(t, "ask", "look")
  /\ Push(t, [Top(t) EXCEPT !.pc = "asked"], Call("own", Top(t).name, "none"))
  /\ UNCHANGED <<klasses, system, classmap, anonymous, locks, answer, fate, requests>>

\* findBootstrapClass holds the lock of the bootstrap loader around its load.
Ask(t) ==
  /\ At(t, "ask", "look")
  /\ Push(t, [Top(t) EXCEPT !.pc = "asked"], Call("boot", Top(t).name, "none"))
  /\ UNCHANGED <<klasses, system, classmap, anonymous, locks, answer, fate, requests>>

\* The natives hand on what their inner call returned.
HandOn(t) ==
  /\ fate = "runs" /\ calls[t] # <<>> /\ Top(t).loader \in {"find", "ask"} /\ Top(t).pc = "asked"
  /\ Return(t, answer[t])
  /\ UNCHANGED <<klasses, system, classmap, anonymous, fate, requests>>

-----------------------------------------------------------------------------
(* The entrances to the loaders. Java asks for classes that are there.      *)

Enter(t, call) ==
  /\ fate = "runs" /\ calls[t] = <<>> /\ requests < Requests
  /\ calls' = [calls EXCEPT ![t] = <<call>>] /\ requests' = requests + 1
  /\ UNCHANGED <<klasses, system, classmap, anonymous, locks, answer, fate>>

WantedClasses == {n \in Wanted : n.dim = 0}

\* Class.forName0 and the resolution in classes of the bootstrap loader.
ForClassName(t) == \E n \in Wanted : Enter(t, Call("boot", n, "none"))

\* A klass of the class e has been made.
Made(e) == \E k \in 1 .. Len(klasses) : klasses[k].name = Name(e, 0)

\* Resolution in classes of the own loader. Classes known by their bytes only are named once
\* they are there.
Resolve(t) ==
  \E n \in Wanted : (n.elem \in Anonymous => Made(n.elem)) /\ Enter(t, Call("own", n, "none"))

FindLoadedClass(t) == \E n \in WantedClasses : Enter(t, Call("find", n, "none"))
FindBootStrapClass(t) == \E n \in WantedClasses : Enter(t, Call("ask", n, "none"))

\* ClassLoader.defineClass1 and Unsafe.defineClass bring the bytes of a class, with its name
\* as Java has it: dotted, unless the class is in no package.
DefineClass(t) ==
  \E e \in Elements \ Basics, dotted \in BOOLEAN :
    Enter(t, Call("own", [Name(e, 0) EXCEPT !.dotted = dotted], "class"))

\* Unsafe.defineAnonymousClass.
DefineAnonymousClass(t) == \E e \in Anonymous : Enter(t, Call("own", Name(e, 0), "anonymous"))

Init ==
  /\ klasses = <<>> /\ system = <<>> /\ classmap = <<>> /\ anonymous = {}
  /\ locks = [k \in {"system", "own"} |-> [owner |-> Free, depth |-> 0]]
  /\ calls = [t \in Threads |-> <<>>] /\ answer = [t \in Threads |-> NoKlass]
  /\ fate = "runs" /\ requests = 0

Step(t) ==
  \/ Acquire(t) \/ BootLook(t) \/ OwnLook(t) \/ OwnAsked(t) \/ LoadNeed(t) \/ GiveUp(t)
  \/ Construct(t) \/ Find(t) \/ FindInClassmap(t) \/ Ask(t) \/ HandOn(t)

Next ==
  \E t \in Threads :
    \/ Step(t)
    \/ ForClassName(t) \/ Resolve(t) \/ FindLoadedClass(t) \/ FindBootStrapClass(t)
    \/ DefineClass(t) \/ DefineAnonymousClass(t)

Spec == Init /\ [][Next]_vars

-----------------------------------------------------------------------------
(* Properties.                                                              *)

TypeOK ==
  /\ DOMAIN locks = {"system", "own"} /\ fate \in {"runs", "exited", "aborted", "not found"}
  /\ \A k \in DOMAIN locks : locks[k].owner \in Threads \cup {Free} /\ locks[k].depth \in Nat
  /\ \A n \in DOMAIN system : system[n] \in 1 .. Len(klasses)
  /\ \A n \in DOMAIN classmap : classmap[n] \in 1 .. Len(klasses)
  /\ anonymous \subseteq 1 .. Len(klasses) /\ requests \in 0 .. Requests

\* However the loads of several threads and the loads they cause interleave: one klass for a
\* name, and none of the own loader for a name the bootstrap loader has. The exception: a class
\* that defineClass brought is in the map under the dotted name, where neither loader looks
\* when a class file names it, and can be loaded once more under the name with slashes.
OneKlassPerName ==
  /\ \A i, j \in 1 .. Len(klasses) :
       klasses[i].name = klasses[j].name /\ ~klasses[i].anonymous /\ ~klasses[j].anonymous =>
         i = j \/ \E n \in DOMAIN classmap : n.dotted /\ classmap[n] \in {i, j}
  /\ DOMAIN system \cap DOMAIN classmap = {}

\* The klasses the loaders hold, and with them the collector.
Kept == {system[n] : n \in DOMAIN system} \cup {classmap[n] : n \in DOMAIN classmap} \cup anonymous

\* A map has a klass under its own name, but for the dots, and what it is linked to is kept:
\* superclass, interfaces, element.
NeedsAreLoaded ==
  \A map \in {system, classmap} : \A n \in DOMAIN map :
    /\ klasses[map[n]].name = Plain(n)
    /\ ToSet(klasses[map[n]].needs) \subseteq Kept

\* The dimensions of an array type form a chain, linked both ways, and the assertion that a
\* lower dimension has no higher one yet never fails.
DimensionsAreChained ==
  /\ fate # "aborted"
  /\ \A k \in 1 .. Len(klasses) : klasses[k].lower # NoKlass =>
       LET low == klasses[klasses[k].lower]
       IN low.higher = k /\ low.name = [klasses[k].name EXCEPT !.dim = @ - 1]

\* What ends the process. An array of user classes with more than one dimension: the name of
\* the lower dimension has lost its ';'. A class without a file that defineClass brought: it is
\* there, under the dotted name. Class.forName of a class the bootstrap loader does not have.
EndsAreKnown ==
  /\ fate = "exited" => \E t \in Threads :
       /\ calls[t] # <<>>
       /\ LET n == calls[t][1].name
          IN \/ n.dim > 1 /\ n.elem \in Files \cup Anonymous
             \/ n.elem \in Anonymous /\ \E m \in DOMAIN classmap : m.dotted /\ m.elem = n.elem
  /\ fate = "not found" => \E t \in Threads :
       calls[t] # <<>> /\ calls[t][1].loader = "boot" /\ calls[t][1].name.elem \notin Jar \cup Basics

\* Two threads that load one name get one Klass, save for classes that came by defineClass; a
\* loaded class has its superclass, interfaces or element class loaded; arrays are chained from
\* dimension to dimension; loading ends the process only for the reasons that are named
\* (classloader.cpp, java_lang_ClassLoader.cpp).
KlassesAreOneAndWhole == OneKlassPerName /\ NeedsAreLoaded /\ DimensionsAreChained /\ EndsAreKnown

\* Thread t waits for a lock that u owns.
Waits(t, u) ==
  /\ fate = "runs" /\ calls[t] # <<>> /\ Top(t).pc = "lock" /\ t # u
  /\ locks[LockOf(Top(t).loader)].owner = u

\* findLoadedClass returns: no two threads wait for each other's lock.
FindingEnds == \A t, u \in Threads : ~(Waits(t, u) /\ Waits(u, t))

\* Without a findLoadedClass under way no two threads wait for each other: the own loader
\* takes its lock before the one of the bootstrap loader, never after it.
LoadersNeverDeadlock ==
  (\A t \in Threads : calls[t] # <<>> => calls[t][1].loader # "find") => FindingEnds

-----------------------------------------------------------------------------
(* The inductive invariant behind the properties.                           *)

Loaders == {"boot", "own", "find", "map", "ask"}
Frames == [loader : Loaders, name : Names, bytes : {"none", "class", "anonymous"},
           pc : {"lock", "look", "asked", "deps", "need"}, todo : Seq(Names),
           got : Seq(Nat \cup {NoKlass})]
Klasses == [name : Names, loader : {"boot", "own"}, needs : Seq(Nat \cup {NoKlass}),
            lower : Nat \cup {NoKlass}, higher : Nat \cup {NoKlass}, anonymous : BOOLEAN]

DataOK ==
  /\ klasses \in Seq(Klasses) /\ calls \in [Threads -> Seq(Frames)]
  /\ answer \in [Threads -> Nat \cup {NoKlass}] /\ anonymous \subseteq 1 .. Len(klasses)
  /\ locks \in [{"system", "own"} -> [owner : Threads \cup {Free}, depth : Nat]]
  /\ DOMAIN system \subseteq Names /\ DOMAIN classmap \subseteq Names
  /\ fate \in {"runs", "exited", "aborted", "not found"} /\ requests \in 0 .. Requests

\* The calls of t that hold lock k: as many as the lock is deep, if t owns it.
Held(t, k) == {i \in 1 .. Len(calls[t]) : calls[t][i].pc # "lock" /\ LockOf(calls[t][i].loader) = k}

LocksInv ==
  /\ \A k \in {"system", "own"} : locks[k].owner = Free <=> locks[k].depth = 0
  /\ \A k \in {"system", "own"}, t \in Threads :
       Cardinality(Held(t, k)) = IF locks[k].owner = t THEN locks[k].depth ELSE 0

\* A name comes before another one if the other may need it.
Height == CHOOSE h \in [Elements -> 0 .. Cardinality(Elements)] : IsHeight(h)
Before(m, n) == m.dim < n.dim \/ (m.dim = n.dim /\ Height[m.elem] < Height[n.elem])

Pcs(loader) ==
  CASE loader = "boot" -> {"lock", "look", "deps", "need"}
    [] loader = "own" -> {"lock", "look", "asked", "deps", "need"}
    [] loader = "map" -> {"lock", "look"}
    [] OTHER -> {"lock", "look", "asked"}

\* What the call f has called last.
Callee(f) ==
  IF f.pc = "need" THEN [loader |-> f.loader, name |-> NeedsOf(f.loader, f.name)[Len(f.got) + 1]]
  ELSE [loader |-> IF f.loader = "find" THEN "map" ELSE "boot", name |-> f.name]

\* The calls of a thread: each is for what the one outside it needs; the bootstrap loader
\* never calls the other loader.
Chained(s) ==
  \A i \in 1 .. Len(s) :
    /\ s[i].pc \in Pcs(s[i].loader)
    /\ i < Len(s) => /\ s[i].pc \in {"asked", "need"} /\ s[i + 1].loader = Callee(s[i]).loader
                     /\ s[i + 1].name = Callee(s[i]).name /\ s[i + 1].bytes = "none"
    /\ \A j \in i + 1 .. Len(s) :
         /\ s[i].loader \in {"boot", "ask"} => s[j].loader = "boot"
         /\ s[i].loader = s[j].loader => Before(s[j].name, s[i].name)

StackInv == \A t \in Threads : Chained(calls[t])

\* The names loaded: cut only in arrays of the own loader, dotted only by defineClass, and of
\* classes known by their bytes only when they are there.
Named(s) ==
  \A i \in 1 .. Len(s) :
    LET f == s[i]
    IN /\ IF f.bytes = "anonymous"
            THEN f.loader = "own" /\ f.name.elem \in Anonymous /\ f.name.dim = 0 /\ f.name.cut = 0
                 /\ ~f.name.dotted /\ i = 1 /\ f.pc # "asked"
            ELSE f.name.dim = 0 => f.name.elem \notin Basics
       /\ f.bytes = "class" \/ f.name.dotted => f.name.dim = 0 /\ f.name.cut = 0
       /\ f.name.dotted => s[1].loader = "own"
       /\ f.name.cut > 0 => /\ f.name.elem \in Files \cup Anonymous /\ s[1].name.elem = f.name.elem
                            /\ s[1].name.dim > 1
       /\ f.name.dim > 0 => s[1].name.elem = f.name.elem /\ s[1].name.dim >= f.name.dim
       /\ f.loader = "own" /\ f.bytes = "none" =>
            /\ ~f.name.dotted
            /\ f.name.elem \in Anonymous => Made(f.name.elem) /\ s[1].name.elem = f.name.elem

NamesInv == \A t \in Threads : Named(calls[t])

\* The klass a is what a call of a loader for n may return.
LoadedBy(loader, n, a) ==
  \/ n \in DOMAIN system /\ a = system[n]
  \/ loader = "own" /\ n \in DOMAIN classmap /\ a = classmap[n]
  \/ loader = "own" /\ a \in anonymous /\ klasses[a].name = n

MayReturn(loader, n, a) ==
  \/ LoadedBy(loader, n, a)
  \/ loader = "boot" /\ a = NoKlass /\ (n.dotted \/ n.elem \notin Jar \cup Basics)

\* What the call f loads nobody has loaded, and it can be constructed.
Unloaded(f) ==
  /\ f.loader = "boot" =>
       f.name \notin DOMAIN system /\ ~f.name.dotted /\ (f.name.dim = 0 => f.name.elem \in Jar)
  /\ f.loader = "own" /\ f.bytes # "anonymous" =>
       /\ f.name \notin DOMAIN classmap
       /\ IF f.name.dotted THEN f.name.dim = 0 ELSE f.name.elem \in Files \cup Anonymous
       /\ f.name.dim = 0 => f.name.cut = 0

\* What a call in progress has loaded so far and has to load, and that its own name is not loaded.
InProgress(f) ==
  LET needs == NeedsOf(f.loader, f.name)
  IN /\ f.pc # "need" => f.got = <<>>
     /\ f.pc = "deps" => f.todo = needs
     /\ f.pc = "need" => Len(f.got) < Len(needs) /\ f.todo = SubSeq(needs, Len(f.got) + 2, Len(needs))
     /\ \A j \in 1 .. Len(f.got) : LoadedBy(f.loader, needs[j], f.got[j])
     /\ f.pc \in {"deps", "need"} => Unloaded(f)

ProgressInv == \A t \in Threads : \A i \in 1 .. Len(calls[t]) : InProgress(calls[t][i])

\* What the last call of a thread returned is what the call outside it asked for.
Answered(f, a) ==
  f.loader \in {"boot", "own"} /\ f.pc \in {"asked", "need"} =>
    MayReturn(Callee(f).loader, Callee(f).name, a)

AnswerInv == \A t \in Threads : calls[t] # <<>> => Answered(Top(t), answer[t])

\* The maps and the klasses name each other.
MapsInv ==
  /\ \A n \in DOMAIN system :
       /\ system[n] \in 1 .. Len(klasses) /\ n.elem \in Jar \cup Basics /\ ~n.dotted
       /\ klasses[system[n]].name = n
  /\ \A n \in DOMAIN classmap :
       /\ classmap[n] \in 1 .. Len(klasses) /\ klasses[classmap[n]].name = Plain(n)
       /\ IF n.dotted THEN n.dim = 0 ELSE n.elem \in Files \cup Anonymous
  /\ \A k \in 1 .. Len(klasses) :
       LET kl == klasses[k]
       IN /\ kl.name.cut = 0 /\ ~kl.name.dotted
          /\ IF kl.anonymous THEN kl.name.elem \in Anonymous /\ kl.name.dim = 0 /\ k \in anonymous
             ELSE k \in Kept
  /\ \A k \in anonymous : klasses[k].anonymous

\* The klasses: what they need is loaded, and dimensions are linked both ways.
KlassesInv ==
  \A k \in 1 .. Len(klasses) :
    LET kl == klasses[k]
    IN /\ \A j \in 1 .. Len(kl.needs) : kl.needs[j] \in Kept
       /\ kl.lower # NoKlass =>
            /\ kl.lower \in 1 .. Len(klasses) /\ kl.name.dim > 1
            /\ klasses[kl.lower].name = [kl.name EXCEPT !.dim = @ - 1]
            /\ klasses[kl.lower].higher = k
       /\ kl.higher # NoKlass => kl.higher \in 1 .. Len(klasses) /\ klasses[kl.higher].lower = k

IInv ==
  /\ DataOK /\ LocksInv /\ StackInv /\ NamesInv /\ ProgressInv /\ AnswerInv /\ MapsInv /\ KlassesInv
  /\ fate # "aborted" /\ EndsAreKnown
=============================================================================
