----------------------------- MODULE ConstantPool -----------------------------
(***************************************************************************)
(* The run-time constant pool of a class, parsed entry by entry when an    *)
(* instruction first asks for it, by any thread and without a lock. An     *)
(* entry is a pair: `first' (the tag; none before) is written before      *)
(* `second' (the pointer). String constants are interned under a lock. The *)
(* call sites of MethodHandle.invoke share one Method and store their own  *)
(* descriptor in it.                                                       *)
(***************************************************************************)
EXTENDS Integers, Sequences, SequencesExt, FiniteSets

CONSTANTS
  Threads,
  Entries,      \* numbered: kind, and what it stands for: content, text (an entry), descriptor
  MaxAsked,     \* bound: entries asked for
  Null

Index == 1 .. Len(Entries)

VARIABLES
  pool,      \* entry -> [first, second]
  table,     \* StringTable: content -> the string object
  strings,   \* string objects allocated so far
  real,      \* real_descriptor of MethodHandle.invoke, or Null
  reads,     \* the calls of operator[] of each thread, innermost last
  got,       \* what the last call returned
  answers,   \* what instructions were given
  fate,      \* "runs", or "crashed": a null pointer was dereferenced
  asked      \* entries asked for, in order

vars == <<pool, table, strings, real, reads, got, answers, fate, asked>>

Kinds == {"class", "string", "number", "wide", "unused", "text", "site"}

PoolAssumption ==
  /\ MaxAsked \in Nat /\ Len(Entries) \in Nat /\ Null \notin Nat
  /\ \A i \in Index :
       /\ Entries[i].kind \in Kinds
       /\ IF Entries[i].kind = "string"
            THEN Entries[i].text \in Index /\ Entries[Entries[i].text].kind = "text"
            ELSE Entries[i].kind # "unused" => Entries[i].content \in Nat
       /\ Entries[i].kind = "site" => Entries[i].descriptor # Null
       /\ Entries[i].kind = "wide" => i + 1 \in Index /\ Entries[i + 1].kind = "unused"

Kind(i) == Entries[i].kind
Text(i) == Entries[Entries[i].text].content
Frame(t) == Last(reads[t])
At(t, pc) == fate = "runs" /\ reads[t] # <<>> /\ Frame(t).pc = pc
Goto(t, pc, v) == reads' = [reads EXCEPT ![t] = Append(Front(@), [Frame(t) EXCEPT !.pc = pc, !.value = v])]

\* An instruction asks for an entry.
Ask(t, i) ==
  /\ fate = "runs" /\ reads[t] = <<>> /\ Len(asked) < MaxAsked /\ Kind(i) # "unused"
  /\ reads' = [reads EXCEPT ![t] = <<[entry |-> i, pc |-> "look", value |-> Null]>>]
  /\ asked' = Append(asked, i)
  /\ UNCHANGED <<pool, table, strings, real, got, answers, fate>>

\* Mutant of Look: the entry is marked as parsed before it is.
LookMarks(t) ==
  /\ At(t, "look")
  /\ LET i == Frame(t).entry
     IN IF pool[i].first # "none" THEN Goto(t, "copy", Null) /\ UNCHANGED pool
        ELSE /\ pool' = [pool EXCEPT ![i].first = Kind(i)]
             /\ IF Kind(i) = "string"
                  THEN reads' = [reads EXCEPT ![t] = Append(Append(Front(@), [Frame(t) EXCEPT !.pc = "intern"]),
                                   [entry |-> Entries[i].text, pc |-> "look", value |-> Null])]
                  ELSE Goto(t, "first", Entries[i].content)
  /\ UNCHANGED <<table, strings, real, got, answers, fate, asked>>

\* A tag says that the entry is parsed. Else the value is made: a class is loaded, a member
\* resolved, a number or text copied; a string asks for its text.
Look(t) ==
  /\ At(t, "look")
  /\ LET i == Frame(t).entry
     IN IF pool[i].first # "none" THEN Goto(t, "copy", Null)
        ELSE IF Kind(i) = "string"
          THEN reads' = [reads EXCEPT ![t] = Append(Append(Front(@), [Frame(t) EXCEPT !.pc = "intern"]),
                           [entry |-> Entries[i].text, pc |-> "look", value |-> Null])]
        ELSE Goto(t, "first", Entries[i].content)
  /\ UNCHANGED <<pool, table, strings, real, got, answers, fate, asked>>

\* Mutant of Interned: the table is not looked at.
NewString(c) == strings + 1

\* The string of this content in the table, the one just allocated if there is none.
Interned(c) == IF c \in DOMAIN table THEN table[c] ELSE strings + 1

\* intern allocates a string and, under the lock of the table, finds or enters it. The text is
\* dereferenced first.
Intern(t) ==
  /\ At(t, "intern")
  /\ IF got[t] = Null
       THEN fate' = "crashed" /\ UNCHANGED <<reads, table, strings>>
       ELSE /\ Goto(t, "first", Interned(got[t]))
            /\ table' = [c \in DOMAIN table \cup {got[t]} |-> IF c = got[t] THEN Interned(c) ELSE table[c]]
            /\ strings' = strings + 1 /\ UNCHANGED fate
  /\ UNCHANGED <<pool, real, got, answers, asked>>

\* The pair is assigned member by member.
WriteFirst(t) ==
  /\ At(t, "first")
  /\ pool' = [pool EXCEPT ![Frame(t).entry].first = Kind(Frame(t).entry)]
  /\ Goto(t, "second", Frame(t).value)
  /\ UNCHANGED <<table, strings, real, got, answers, fate, asked>>

\* Mutant of Rest: the descriptor is not stored.
NoDescriptor(k) == IF k = "wide" THEN "unused" ELSE "copy"

\* What is left to do after the pair: the unused slot behind a long or double, the descriptor
\* of a call site.
Rest(k) == CASE k = "wide" -> "unused" [] k = "site" -> "descriptor" [] OTHER -> "copy"

WriteSecond(t) ==
  /\ At(t, "second")
  /\ pool' = [pool EXCEPT ![Frame(t).entry].second = Frame(t).value]
  /\ Goto(t, Rest(Kind(Frame(t).entry)), Frame(t).value)
  /\ UNCHANGED <<table, strings, real, got, answers, fate, asked>>

\* Mutant of WriteUnused: the mark lands on the entry itself.
UnusedHere(t) ==
  /\ At(t, "unused")
  /\ pool' = [pool EXCEPT ![Frame(t).entry] = [first |-> "unused", second |-> Null]]
  /\ Goto(t, "copy", Frame(t).value)
  /\ UNCHANGED <<table, strings, real, got, answers, fate, asked>>

WriteUnused(t) ==
  /\ At(t, "unused")
  /\ pool' = [pool EXCEPT ![Frame(t).entry + 1] = [first |-> "unused", second |-> Null]]
  /\ Goto(t, "copy", Frame(t).value)
  /\ UNCHANGED <<table, strings, real, got, answers, fate, asked>>

\* set_real_descriptor, after the entry is published.
SetRealDescriptor(t) ==
  /\ At(t, "descriptor")
  /\ real' = Entries[Frame(t).entry].descriptor
  /\ Goto(t, "copy", Frame(t).value)
  /\ UNCHANGED <<pool, table, strings, got, answers, fate, asked>>

\* Another thread has published the entry and is not done with it.
Overlapped(t, i) ==
  \E u \in Threads \ {t} : \E k \in 1 .. Len(reads[u]) :
    reads[u][k].entry = i /\ reads[u][k].pc \in {"second", "descriptor"}

\* operator[] copies the pair. A call through a site then takes its arguments by the
\* descriptor the Method has.
Copy(t) ==
  /\ At(t, "copy")
  /\ LET i == Frame(t).entry
     IN /\ got' = [got EXCEPT ![t] = pool[i].second]
        /\ answers' = answers \cup {[entry |-> i, tag |-> pool[i].first, value |-> pool[i].second,
                                     descriptor |-> real, overlapped |-> Overlapped(t, i),
                                     sites |-> {j \in ToSet(asked) : Kind(j) = "site"}]}
  /\ reads' = [reads EXCEPT ![t] = Front(@)]
  /\ UNCHANGED <<pool, table, strings, real, fate, asked>>

Init ==
  /\ pool = [i \in Index |-> [first |-> "none", second |-> Null]]
  /\ table = <<>> /\ strings = 0 /\ real = Null
  /\ reads = [t \in Threads |-> <<>>] /\ got = [t \in Threads |-> Null]
  /\ answers = {} /\ fate = "runs" /\ asked = <<>>

Next ==
  \E t \in Threads :
    \/ \E i \in Index : Ask(t, i)
    \/ Look(t) \/ Intern(t) \/ WriteFirst(t) \/ WriteSecond(t) \/ WriteUnused(t)
    \/ SetRealDescriptor(t) \/ Copy(t)

Spec == Init /\ [][Next]_vars

-----------------------------------------------------------------------------
(* Properties.                                                              *)

Pcs == {"look", "intern", "first", "second", "unused", "descriptor", "copy"}
Reads == [entry : Index, pc : Pcs, value : Nat \cup {Null}]

TypeOK ==
  /\ \A i \in Index : pool[i].first \in {"none", Kind(i)}
  /\ \A c \in DOMAIN table : table[c] \in 1 .. strings
  /\ reads \in [Threads -> Seq(Reads)] /\ got \in [Threads -> Nat \cup {Null}]
  /\ asked \in Seq(Index) /\ Len(asked) \in 0 .. MaxAsked /\ fate \in {"runs", "crashed"}

\* v is the value the class file gives entry i.
Means(i, v) ==
  IF Kind(i) = "string" THEN Text(i) \in DOMAIN table /\ v = table[Text(i)]
  ELSE Kind(i) # "unused" /\ v = Entries[i].content

\* Every instruction is given the tag and the value the class file means, whoever parsed the
\* entry and however often. Null is given, or dereferenced, only to a thread that asks while
\* another one is between the two halves of the pair.
AnswersAreRight ==
  /\ \A a \in answers :
       a.tag = Kind(a.entry) /\ IF a.value = Null THEN a.overlapped ELSE Means(a.entry, a.value)
  /\ fate = "crashed" => \E a \in answers : a.overlapped /\ a.value = Null

\* String constants are the same object exactly when their contents are equal, through any
\* entry and any thread.
StringsAreOne ==
  \A a, b \in answers :
    Kind(a.entry) = "string" /\ Kind(b.entry) = "string" /\ a.value # Null /\ b.value # Null =>
      (a.value = b.value <=> Text(a.entry) = Text(b.entry))

\* A call through MethodHandle.invoke takes its arguments by the descriptor of its site, unless
\* another site was asked for before or this one is being parsed by another thread.
SitesUseTheirDescriptor ==
  \A a \in answers : Kind(a.entry) = "site" /\ a.sites = {a.entry} /\ ~a.overlapped =>
    a.descriptor = Entries[a.entry].descriptor

-----------------------------------------------------------------------------
(* The inductive invariant.                                                 *)

\* The values that are there.
ValuesInv ==
  /\ pool \in [Index -> [first : Kinds \cup {"none"}, second : Nat \cup {Null}]] /\ strings \in Nat
  /\ \A c, d \in DOMAIN table : table[c] = table[d] => c = d
  /\ \A i \in Index : pool[i].second # Null => pool[i].first = Kind(i) /\ Means(i, pool[i].second)

\* A call has made the right value.
Made(t, k) == reads[t][k].pc \in {"first", "second", "unused", "descriptor"}
                => Means(reads[t][k].entry, reads[t][k].value)
MadeInv == \A t \in Threads : \A k \in 1 .. Len(reads[t]) : Made(t, k)

\* Somebody has written the tag of entry i and has steps to do after it.
AtWork(i, pcs) == \E u \in Threads : \E k \in 1 .. Len(reads[u]) :
                    reads[u][k].entry = i /\ reads[u][k].pc \in pcs

\* A call knows its place, and only the innermost one is not waiting for a text.
InPlace(t, k) ==
  LET r == reads[t][k] IN
    /\ Kind(r.entry) # "unused"
    /\ Kind(r.entry) = "site" => r.entry \in ToSet(asked)
    /\ r.pc = "intern" => Kind(r.entry) = "string"
    /\ r.pc = "unused" => Kind(r.entry) = "wide"
    /\ r.pc = "descriptor" => Kind(r.entry) = "site"
    /\ r.pc \in {"second", "unused", "descriptor", "copy"} => pool[r.entry].first = Kind(r.entry)
    /\ k < Len(reads[t]) => r.pc = "intern" /\ reads[t][k + 1].entry = Entries[r.entry].text

CallsInv == \A t \in Threads : \A k \in 1 .. Len(reads[t]) : InPlace(t, k)

\* A tag without a value, or a site without a descriptor, is the work of some call.
WorkInv ==
  \A i \in Index : pool[i].first # "none" /\ Kind(i) # "unused" =>
    /\ pool[i].second = Null => AtWork(i, {"second"})
    /\ Kind(i) = "site" /\ real = Null => AtWork(i, {"second", "descriptor"})

\* The descriptor of MethodHandle.invoke is that of a site that was asked for.
RealInv == real # Null => \E i \in ToSet(asked) : Kind(i) = "site" /\ real = Entries[i].descriptor

\* What intern is about to dereference.
TextInv ==
  \A t \in Threads : reads[t] # <<>> /\ Frame(t).pc = "intern" =>
    IF got[t] = Null THEN \E a \in answers : a.overlapped /\ a.value = Null
    ELSE got[t] = Text(Frame(t).entry)

AnswersInv ==
  /\ AnswersAreRight /\ SitesUseTheirDescriptor
  /\ \A a \in answers : a.entry \in Index /\ a.value \in Nat \cup {Null}

IInv ==
  TypeOK /\ ValuesInv /\ MadeInv /\ CallsInv /\ WorkInv /\ RealInv /\ TextInv /\ AnswersInv
=============================================================================
