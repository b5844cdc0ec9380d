----------------------------- MODULE MCSafepoint -----------------------------
(* Small instances of Safepoint for TLC.                                    *)
EXTENDS Safepoint, TLC

\* Children are interchangeable: nothing in Safepoint orders them.
ChildSymmetry == Permutations(Children)
=============================================================================
