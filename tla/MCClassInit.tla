----------------------------- MODULE MCClassInit -----------------------------
(* Small instances of ClassInit for TLC: a root class whose <clinit> uses a  *)
(* subclass, two subclasses whose <clinit> methods use each other, and one   *)
(* that start-up has banned.                                                 *)
EXTENDS ClassInit, TLC

CONSTANTS Root, Left, Right, Perf

MCParent == [c \in Classes |-> IF c = Root THEN NoClass ELSE Root]

MCTouches ==
  [c \in Classes |->
     Classes \cap CASE c = Root  -> {Left}
                    [] c = Left  -> {Right, Perf}
                    [] c = Right -> {Left, Perf}
                    [] c = Perf  -> {Right}]

ThreadSymmetry == Permutations(Threads)
=============================================================================
