------------------------------ MODULE TypeCheck ------------------------------
(***************************************************************************)
(* The instructions checkcast and instanceof: BytecodeEngine's             *)
(* check_instanceof over the klasses of the VM, beside Java's rules for    *)
(* when a value of a class can be assigned to a type.                      *)
(*                                                                         *)
(* A klass is a class or an interface, an array of a basic type or an      *)
(* array of a class, with a dimension. There is no verifier, so any class  *)
(* can meet any type.                                                      *)
(***************************************************************************)
EXTENDS Naturals

CONSTANTS
  Classes, Interfaces,   \* instance klasses
  Object, Cloneable,     \* java/lang/Object; Cloneable stands for Serializable too
  Parent,                \* Parent[c]: the superclass, or NoClass
  Implements,            \* Implements[c]: the interfaces c names itself
  NoClass,
  Basics,                \* int, boolean and so on
  Dimensions             \* bound: 1 .. Dimensions

Instances == Classes \cup Interfaces

\* The types a walk that starts at c comes to, step[d] being where it goes from d.
Reachable(c, step) ==
  {d \in Instances : \A S \in SUBSET Instances :
                       c \in S /\ (\A e \in S : step[e] \subseteq S) => d \in S}

Superclass == [c \in Instances |-> {Parent[c]} \ {NoClass}]
Supertypes == [c \in Instances |-> Superclass[c] \cup Implements[c]]

HierarchyAssumption ==
  /\ Classes \cap Interfaces = {} /\ NoClass \notin Instances
  /\ Object \in Classes /\ Cloneable \in Interfaces
  /\ Parent \in [Instances -> Classes \cup {NoClass}]
  /\ \A c \in Instances : (Parent[c] = NoClass <=> c = Object) /\ Object \in Reachable(c, Superclass)
  /\ \A i \in Interfaces : Parent[i] = Object
  /\ Implements \in [Instances -> SUBSET Interfaces]
  /\ Dimensions \in Nat \ {0}

Klass(type, element, dimension) == [type |-> type, element |-> element, dimension |-> dimension]

InstanceKlasses == {Klass("Instance", c, 0) : c \in Instances}
TypeArrays == {Klass("TypeArray", b, d) : b \in Basics, d \in 1 .. Dimensions}
ObjArrays == {Klass("ObjArray", c, d) : c \in Instances, d \in 1 .. Dimensions}
Klasses == InstanceKlasses \cup TypeArrays \cup ObjArrays

VARIABLES
  ref,     \* the klass of the object on the operand stack, or the null reference
  klass,   \* the klass of the constant-pool entry
  answer   \* "none" yet, "yes", "no" or "abort" (an assert fails)

vars == <<ref, klass, answer>>

NullRef == Klass("Null", NoClass, 0)

IsInterface(k) == k.type = "Instance" /\ k.element \in Interfaces

-----------------------------------------------------------------------------
(* The VM's test.                                                           *)

check_parent(c, k) == \E d \in Reachable(c, Superclass) : Parent[d] = k

\* Mutant of check_interfaces: only those the class names itself.
OwnInterfaces(c, k) == k \in Implements[c]

\* Interfaces named by c, by an interface so found, or by a superclass of either.
check_interfaces(c, k) == \E d \in Reachable(c, Supertypes) : k \in Implements[d]

\* a1, a2, b1, b2: an instance klass; the target is never asked for being an array, which
\* is neither an interface nor java/lang/Object and no superclass.
InstanceTest(r, k) ==
  IF IsInterface(k) THEN (IsInterface(r) /\ r = k) \/ check_interfaces(r.element, k.element)
  ELSE IF IsInterface(r) THEN k.type = "Instance" /\ k.element = Object
  ELSE k.type = "Instance" /\ (r = k \/ check_parent(r.element, k.element))

\* c1, c2: the supertypes of every array; c3, c4: arrays of equal dimension.
ArrayTest(r, k) ==
  CASE k.type = "Instance" -> k.element \in {Object, Cloneable}
    [] k.type = "TypeArray" -> r.type = "TypeArray" /\ r.element = k.element
    [] k.type = "ObjArray" -> /\ r.type = "ObjArray"
                              /\ r.element = k.element \/ check_parent(r.element, k.element)

\* Mutant of AssertsDimension: arrays of any dimension are compared.
AnyDimension(r, k) == FALSE

AssertsDimension(r, k) == r.type # "Instance" /\ k.type # "Instance" /\ r.dimension # k.dimension

check_instanceof(r, k) ==
  IF AssertsDimension(r, k) THEN "abort"
  ELSE IF (IF r.type = "Instance" THEN InstanceTest(r, k) ELSE ArrayTest(r, k)) THEN "yes" ELSE "no"

-----------------------------------------------------------------------------
Init == ref \in Klasses \cup {NullRef} /\ klass \in Klasses /\ answer = "none"

\* The null reference passes a cast and is an instance of nothing.
Instanceof ==
  /\ answer = "none"
  /\ answer' = IF ref = NullRef THEN "no" ELSE check_instanceof(ref, klass)
  /\ UNCHANGED <<ref, klass>>

\* Mutant of Checkcast: the null reference is not let through.
CheckcastNull ==
  /\ answer = "none"
  /\ answer' = IF ref # NullRef /\ check_instanceof(ref, klass) = "yes" THEN "yes" ELSE "abort"
  /\ UNCHANGED <<ref, klass>>

\* ClassCastException is not thrown: a cast that fails stops the VM.
Checkcast ==
  /\ answer = "none"
  /\ answer' = IF ref = NullRef \/ check_instanceof(ref, klass) = "yes" THEN "yes" ELSE "abort"
  /\ UNCHANGED <<ref, klass>>

Next == Instanceof \/ Checkcast

Spec == Init /\ [][Next]_vars

-----------------------------------------------------------------------------
(* Reference: JLS 4.10.2 and 4.10.3.                                       *)

\* A value of klass r can be assigned to the supertypes of r. Those of an array are Object,
\* Cloneable, and the arrays of the supertypes of its element type, which for an array of
\* arrays are again Object, Cloneable and arrays.
CanAssign(r, k) ==
  IF r.type = "Instance" THEN k.type = "Instance" /\ k.element \in Reachable(r.element, Supertypes)
  ELSE \/ k.type = "Instance" /\ k.element \in {Object, Cloneable}
       \/ k.type = "ObjArray" /\ k.dimension < r.dimension /\ k.element \in {Object, Cloneable}
       \/ /\ k.type = r.type /\ k.dimension = r.dimension
          /\ IF r.type = "TypeArray" THEN k.element = r.element
             ELSE k.element \in Reachable(r.element, Supertypes)

-----------------------------------------------------------------------------
TypeOK ==
  /\ ref \in Klasses \cup {NullRef} /\ klass \in Klasses
  /\ answer \in {"none", "yes", "no", "abort"}

\* No value passes a cast, or counts as an instance, of a type Java would not let it be
\* assigned to: over classes, interfaces reached through any mix of superclasses and
\* superinterfaces, and arrays.
YesIsAssignable == answer = "yes" => ref = NullRef \/ CanAssign(ref, klass)

\* instanceof denies only what Java denies, but for arrays whose element type is one of
\* the target element's implementations rather than its subclass.
NoIsNotAssignable ==
  answer = "no" /\ ref # NullRef =>
    \/ ~CanAssign(ref, klass)
    \/ ref.type = "ObjArray" /\ klass.type = "ObjArray" /\ klass.element \in Interfaces

\* The VM stops where Java would go on only for two arrays of different dimension, or for
\* a cast of those same arrays, and never for null.
AbortsWhereJavaFails ==
  answer = "abort" =>
    /\ ref # NullRef
    /\ \/ ~CanAssign(ref, klass)
       \/ AssertsDimension(ref, klass)
       \/ ref.type = "ObjArray" /\ klass.type = "ObjArray" /\ klass.element \in Interfaces

-----------------------------------------------------------------------------
\* The inductive invariant.
IInv == TypeOK /\ YesIsAssignable /\ NoIsNotAssignable /\ AbortsWhereJavaFails
=============================================================================
