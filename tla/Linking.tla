------------------------------- MODULE Linking -------------------------------
(***************************************************************************)
(* What the constructor of InstanceKlass makes of a class file: offsets of *)
(* the instance fields, indices of the static fields, the vtable; and what *)
(* field resolution, the invoke instructions, Unsafe and reflection find   *)
(* there. Beside every store stands the location Java would store to.      *)
(*                                                                         *)
(* Of the objects there is one: an object of a program, or the mirror of a *)
(* type, which is an object of the class Mirror (java/lang/Class) and what *)
(* Unsafe takes as the base of the static fields of that type.             *)
(*                                                                         *)
(* One method signature stands for all of them: the tables treat every     *)
(* signature on its own. Maps without an order (unordered_map) answer with *)
(* any of the candidates.                                                  *)
(***************************************************************************)
EXTENDS Integers, Sequences, FiniteSets

CONSTANTS
  Classes, Interfaces,   \* names of linked types
  Parent, Implements,    \* the superclass (of an interface: Object) and the superinterfaces
  ClassFiles,            \* the class files a type may come from
  Mirror,                \* java/lang/Class
  NoClass, NoField, NoMethod,
  Wild,                  \* an uninitialized pointer
  Names, Values,         \* field names, and values: 0 and others
  Constant,              \* the value of every ConstantValue attribute
  Stores                 \* bound: stores to fields

Types == Classes \cup Interfaces

VARIABLES
  file,      \* the class file of a linked type, or NoClass
  layout,    \* fields_layout: <<declaring type, name>> -> offset
  total,     \* total_non_static_fields_num
  owned,     \* is_this_klass_field: offset -> BOOLEAN
  slots,     \* static_fields_layout: name -> index
  statics,   \* static_fields
  vtable,    \* the type whose method is in the vtable, or NoMethod
  ready,     \* types whose ConstantValue attributes are set
  object,    \* an object: its class, its fields, and the type it is the mirror of
  java,      \* Java's value of every static field, and of every field of the object
  stray,     \* history: the locations that Unsafe has taken for one another
  stores     \* stores so far

vars == <<file, layout, total, owned, slots, statics, vtable, ready, object, java, stray, stores>>

FieldKinds == {"instance", "static", "constant"}
Above(c) == (Implements[c] \cup {Parent[c]}) \ {NoClass}

\* Object is above all types and nothing is above itself. The fields of a class file have
\* names (with descriptors) of their own, and an interface has no instance fields.
LinkingAssumption ==
  /\ Classes \cap Interfaces = {} /\ NoClass \notin Types /\ Mirror \in Classes
  /\ Parent \in [Types -> Classes \cup {NoClass}] /\ Implements \in [Types -> SUBSET Interfaces]
  /\ \E top \in Classes : /\ Implements[top] = {}
                          /\ \A c \in Types : Parent[c] = NoClass <=> c = top
                          /\ \A i \in Interfaces : Parent[i] = top
  /\ \A S \in SUBSET Types : S = {} \/ \E c \in S : Above(c) \cap S = {}
  /\ {0, Constant} \subseteq Values /\ Stores \in Nat /\ {NoField, NoMethod, Wild} \cap Types = {}
  /\ \A c \in Types : \A cf \in ClassFiles[c] :
       /\ cf # NoClass /\ cf.fields \in Seq([name : Names, kind : FieldKinds])
       /\ \A i, j \in 1 .. Len(cf.fields) : cf.fields[i].name = cf.fields[j].name => i = j
       /\ \A i \in 1 .. Len(cf.fields) : c \in Interfaces => cf.fields[i].kind # "instance"
       /\ cf.method \in {"none", "public", "private", "static"} /\ cf.clinit \in BOOLEAN

Linked == {c \in Types : file[c] # NoClass}

\* c and its superclasses.
Chain == LET up[c \in Types \cup {NoClass}] == IF c = NoClass THEN {} ELSE {c} \cup up[Parent[c]] IN up

-----------------------------------------------------------------------------
(* The constructor. NoClass stands above Object and has no fields or methods. *)

OfKind(cf, kinds) == {i \in 1 .. Len(cf.fields) : cf.fields[i].kind \in kinds}
Static == {"static", "constant"}

\* The place of field n among the fields of some kinds, in the order of the file.
Index(cf, kinds, n) ==
  Cardinality({i \in OfKind(cf, kinds) : \E j \in OfKind(cf, kinds) : i < j /\ cf.fields[j].name = n})

\* Mutant of LayoutOf: own offsets count from 0.
LayoutFromZero(c, cf) ==
  [k \in DOMAIN layout[Parent[c]] \cup {<<c, cf.fields[i].name>> : i \in OfKind(cf, {"instance"})} |->
     IF k[1] = c THEN Index(cf, {"instance"}, k[2]) ELSE layout[Parent[c]][k]]

\* The parent's offsets are copied and the own fields follow. No interface is there yet when
\* the fields are parsed.
LayoutOf(c, cf) ==
  [k \in DOMAIN layout[Parent[c]] \cup {<<c, cf.fields[i].name>> : i \in OfKind(cf, {"instance"})} |->
     IF k[1] = c THEN total[Parent[c]] + Index(cf, {"instance"}, k[2]) ELSE layout[Parent[c]][k]]

\* Mutant of OwnedOf: every field is marked.
AllOwned(c, new) == [o \in {new[k] : k \in DOMAIN new} |-> TRUE]

OwnedOf(c, new) ==
  [o \in {new[k] : k \in DOMAIN new} |-> o \notin {new[k] : k \in DOMAIN layout[Parent[c]]}]

SlotsOf(cf) ==
  [n \in {cf.fields[i].name : i \in OfKind(cf, Static)} |-> Index(cf, Static, n)]

\* Mutant of VtableOf: a method is inserted and never replaces one.
NoOverride(c, cf) ==
  IF vtable[Parent[c]] # NoMethod \/ cf.method \in {"none", "static"} THEN vtable[Parent[c]] ELSE c

\* The parent's vtable is copied. A method replaces the parent's entry whatever its kind, or
\* is added when it is not static.
VtableOf(c, cf) ==
  LET up == vtable[Parent[c]]
  IN IF cf.method = "none" \/ (cf.method = "static" /\ up = NoMethod) THEN up ELSE c

\* What compilers accept: a method keeps the kind of the method it overrides or hides.
Legal(c, cf) ==
  \A d \in Chain[Parent[c]] :
    cf.method = "none" \/ file[d].method \in {"none", "private"} \/ cf.method = file[d].method

Link(c) ==
  /\ c \notin Linked
  /\ Above(c) \subseteq Linked
  /\ \E cf \in ClassFiles[c] :
       LET new == LayoutOf(c, cf)
       IN /\ Legal(c, cf)
          /\ file' = [file EXCEPT ![c] = cf]
          /\ layout' = [layout EXCEPT ![c] = new]
          /\ total' = [total EXCEPT ![c] = total[Parent[c]] + Cardinality(OfKind(cf, {"instance"}))]
          /\ owned' = [owned EXCEPT ![c] = OwnedOf(c, new)]
          /\ slots' = [slots EXCEPT ![c] = SlotsOf(cf)]
          /\ statics' = [statics EXCEPT ![c] = [s \in {SlotsOf(cf)[n] : n \in DOMAIN SlotsOf(cf)} |-> 0]]
          /\ vtable' = [vtable EXCEPT ![c] = VtableOf(c, cf)]
  /\ UNCHANGED <<ready, object, java, stray, stores>>

-----------------------------------------------------------------------------
(* Lookups. Each gives the set of the possible answers.                     *)

\* Mutant of FieldOf: the superclass is searched before the superinterfaces.
SuperclassFirst(n) ==
  LET walk[t \in Types \X (Types \cup {NoClass})] ==
        LET k == t[2]
        IN IF k = NoClass THEN {NoField}
           ELSE IF <<k, n>> \in DOMAIN layout[t[1]] \/ n \in DOMAIN slots[k] THEN {k}
           ELSE IF walk[<<t[1], Parent[k]>>] # {NoField} THEN walk[<<t[1], Parent[k]>>]
           ELSE LET above == (UNION {walk[<<i, i>>] : i \in Implements[k]}) \ {NoField}
                IN IF above = {} THEN {NoField} ELSE above
  IN [c \in Types |-> walk[<<c, c>>]]

\* get_field: the type that declares field n. Instance fields are looked up in the layout of
\* the type the search began at; an interface begins a search of its own.
FieldSearch(n) ==
  LET walk[t \in Types \X (Types \cup {NoClass})] ==
        LET k == t[2]
            above == (UNION {walk[<<i, i>>] : i \in Implements[k]}) \ {NoField}
        IN IF k = NoClass THEN {NoField}
           ELSE IF <<k, n>> \in DOMAIN layout[t[1]] \/ n \in DOMAIN slots[k] THEN {k}
           ELSE IF above # {} THEN above
           ELSE walk[<<t[1], Parent[k]>>]
  IN walk

FieldOf(n) == [c \in Types |-> FieldSearch(n)[<<c, c>>]]

\* Where a static field accessed by name is found: in the type or above it.
StaticHome(n) ==
  LET home[c \in Types \cup {NoClass}] ==
        IF c = NoClass \/ n \in DOMAIN slots[c] THEN c ELSE home[Parent[c]]
  IN home

Declared(c) == file[c].method # "none"

\* get_interface_method. In Object no search gives `target` a value.
InterfaceMethod ==
  LET search[i \in Types] ==
        LET above == UNION ({search[j] : j \in Implements[i]} \cup
                            (IF Parent[i] = NoClass THEN {} ELSE {search[Parent[i]]}))
        IN IF Declared(i) THEN {i} ELSE IF Parent[i] = NoClass THEN {NoMethod, Wild} ELSE above
  IN search

\* Mutant of ClassMethod: the interfaces are searched before the superclass.
InterfacesFirst ==
  LET search[c \in Classes] ==
        LET above == IF Parent[c] = NoClass THEN {NoMethod, Wild} ELSE search[Parent[c]]
            beside == (UNION {InterfaceMethod[i] : i \in Implements[c]}) \ {NoMethod}
        IN IF Declared(c) THEN {c} ELSE IF beside # {} THEN beside ELSE above
  IN search

\* get_class_method: the class, its superclasses, and where they have nothing the interfaces.
\* In Object `target` has no value: a pointer that is not null is the answer.
ClassMethod ==
  LET search[c \in Classes] ==
        LET above == IF Parent[c] = NoClass THEN {NoMethod, Wild} ELSE search[Parent[c]]
            beside == UNION {InterfaceMethod[i] : i \in Implements[c]}
        IN IF Declared(c) THEN {c}
           ELSE IF NoMethod \in above /\ Implements[c] # {} THEN (above \ {NoMethod}) \cup beside
           ELSE above
  IN search

-----------------------------------------------------------------------------
(* Objects and stores.                                                      *)

Declares(c, n, kinds) ==
  c \in Linked /\ \E i \in 1 .. Len(file[c].fields) :
                    file[c].fields[i].name = n /\ file[c].fields[i].kind \in kinds

\* The fields of the object are 0 whoever declares them. A mirror is made for a type.
NewInstance(c) ==
  /\ c \in Linked \cap Classes /\ object.klass = NoClass
  /\ \E m \in IF c = Mirror THEN Linked ELSE {NoClass} :
       object' = [klass |-> c, fields |-> [o \in 0 .. total[c] - 1 |-> 0], mirrored |-> m]
  /\ java' = [l \in DOMAIN java |-> IF Declares(l[1], l[2], {"instance"}) THEN 0 ELSE java[l]]
  /\ UNCHANGED <<file, layout, total, owned, slots, statics, vtable, ready, stray, stores>>

\* Mutant of Location: the field is looked up by its name alone, in the class of the object.
LocationByName(t, n) ==
  LET own == {k \in DOMAIN layout[object.klass] : k[2] = n}
      k == CHOOSE k \in own : \A l \in own : layout[object.klass][l] <= layout[object.klass][k]
  IN layout[object.klass][k]

\* The field of the object is found by the type that declares it and its name.
Location(t, n) == layout[object.klass][<<t, n>>]

\* putfield, resolved at class c: a class the object is an instance of.
PutField(c, n, v) ==
  /\ stores < Stores /\ object.klass # NoClass /\ c \in Chain[object.klass]
  /\ \E t \in FieldOf(n)[c] :
       /\ t # NoField /\ Declares(t, n, {"instance"})
       /\ object' = [object EXCEPT !.fields[Location(t, n)] = v]
       /\ java' = [java EXCEPT ![<<t, n>>] = v]
  /\ stores' = stores + 1
  /\ UNCHANGED <<file, layout, total, owned, slots, statics, vtable, ready, stray>>

\* putstatic, resolved at class c.
PutStatic(c, n, v) ==
  /\ stores < Stores /\ c \in Linked
  /\ \E t \in FieldOf(n)[c] :
       /\ t # NoField /\ Declares(t, n, {"static"})
       /\ LET home == StaticHome(n)[t] IN statics' = [statics EXCEPT ![home][slots[home][n]] = v]
       /\ java' = [java EXCEPT ![<<t, n>>] = v]
  /\ stores' = stores + 1
  /\ UNCHANGED <<file, layout, total, owned, slots, vtable, ready, object, stray>>

\* initialize_final_static_field, once when the type is initialized.
InitializeFinals(c) ==
  /\ c \in Linked \ ready /\ \E n \in Names : Declares(c, n, {"constant"})
  /\ statics' = [statics EXCEPT ![c] = [s \in DOMAIN statics[c] |->
                   IF \E n \in Names : Declares(c, n, {"constant"}) /\ slots[c][n] = s
                     THEN Constant ELSE statics[c][s]]]
  /\ java' = [l \in DOMAIN java |->
                IF l[1] = c /\ Declares(c, l[2], {"constant"}) THEN Constant ELSE java[l]]
  /\ ready' = ready \cup {c}
  /\ UNCHANGED <<file, layout, total, owned, slots, vtable, object, stray, stores>>

\* Mutant of AllFieldOffset: the index of a static field is not encoded.
IndexOnly(t, n) ==
  IF <<t, n>> \in DOMAIN layout[t] THEN layout[t][<<t, n>>] ELSE slots[t][n]

\* get_all_field_offset: a static field is encoded behind the instance fields.
AllFieldOffset(t, n) ==
  IF <<t, n>> \in DOMAIN layout[t] THEN layout[t][<<t, n>>] ELSE slots[t][n] + total[t]

\* Unsafe.objectFieldOffset asks the type that declares the field, not the class of an object;
\* staticFieldOffset is the same function.
ObjectFieldOffset(t, n) == AllFieldOffset(t, n)

\* Unsafe decodes an offset by the class of the object: what is not one of its instance fields
\* is a static field of that class.
StaticOffset(offset) == total[object.klass] <= offset

\* A field of the object; of a static field staticFieldBase gives the mirror of its type.
Unsafe(t, n) ==
  /\ stores < Stores /\ object.klass # NoClass
  /\ \/ t \in Chain[object.klass] /\ Declares(t, n, {"instance"})
     \/ t = object.mirrored /\ Declares(t, n, {"static"})

\* The locations an offset of the object stands for: one of its fields, or a static field of
\* its class; none when the offset is outside both vectors.
Meant(offset) ==
  LET c == object.klass
  IN {k \in DOMAIN layout[c] : layout[c][k] = offset}
       \cup {<<c, n>> : n \in {m \in DOMAIN slots[c] : slots[c][m] + total[c] = offset}}

\* What can no longer have Java's value after an access to field n of t at an offset: nothing
\* if the offset stands for that field; every location if it is outside the vectors, where
\* the behaviour is undefined.
Astray(t, n, offset) ==
  CASE Meant(offset) = {<<t, n>>} -> {}
    [] Meant(offset) = {} -> Types \X Names
    [] OTHER -> Meant(offset) \cup {<<t, n>>}

StoreAt(offset, v) ==
  LET c == object.klass
  IN IF Meant(offset) = {} THEN UNCHANGED <<object, statics>>
     ELSE IF StaticOffset(offset)
       THEN statics' = [statics EXCEPT ![c][offset - total[c]] = v] /\ UNCHANGED object
       ELSE object' = [object EXCEPT !.fields[offset] = v] /\ UNCHANGED statics

\* Unsafe.putObject.
UnsafePut(t, n, v) ==
  /\ Unsafe(t, n) /\ StoreAt(ObjectFieldOffset(t, n), v)
  /\ stray' = stray \cup Astray(t, n, ObjectFieldOffset(t, n))
  /\ java' = [java EXCEPT ![<<t, n>>] = v] /\ stores' = stores + 1
  /\ UNCHANGED <<file, layout, total, owned, slots, vtable, ready>>

\* Unsafe.getObjectVolatile.
UnsafeGet(t, n) ==
  LET offset == ObjectFieldOffset(t, n)
  IN IF StaticOffset(offset) THEN statics[object.klass][offset - total[object.klass]] ELSE object.fields[offset]

\* Unsafe.compareAndSwapObject stores nothing where it finds another value.
CompareAndSwap(t, n, expected, v) ==
  /\ Unsafe(t, n) /\ expected # v
  /\ LET offset == ObjectFieldOffset(t, n)
     IN /\ IF Meant(offset) # {} /\ UnsafeGet(t, n) = expected THEN StoreAt(offset, v)
           ELSE UNCHANGED <<object, statics>>
        /\ stray' = stray \cup Astray(t, n, offset)
  /\ java' = IF java[<<t, n>>] = expected THEN [java EXCEPT ![<<t, n>>] = v] ELSE java
  /\ stores' = stores + 1
  /\ UNCHANGED <<file, layout, total, owned, slots, vtable, ready>>

\* getfield and getstatic.
GetField(t, n) == object.fields[Location(t, n)]
GetStatic(t, n) == LET home == StaticHome(n)[t] IN statics[home][slots[home][n]]

Init ==
  /\ file = [c \in Types |-> NoClass]
  /\ layout = [c \in Types \cup {NoClass} |-> <<>>] /\ owned = [c \in Types |-> <<>>]
  /\ slots = [c \in Types |-> <<>>] /\ statics = [c \in Types |-> <<>>]
  /\ total = [c \in Types \cup {NoClass} |-> 0] /\ vtable = [c \in Types \cup {NoClass} |-> NoMethod]
  /\ ready = {} /\ object = [klass |-> NoClass, fields |-> <<>>, mirrored |-> NoClass]
  /\ java = [l \in Types \X Names |-> 0] /\ stray = {} /\ stores = 0

Next ==
  \/ \E c \in Types : Link(c) \/ InitializeFinals(c)
  \/ \E c \in Classes : NewInstance(c)
  \/ \E c \in Types, n \in Names, v \in Values : PutField(c, n, v) \/ PutStatic(c, n, v) \/ UnsafePut(c, n, v)
  \/ \E c \in Types, n \in Names, e, v \in Values : CompareAndSwap(c, n, e, v)

Spec == Init /\ [][Next]_vars

-----------------------------------------------------------------------------
(* Reflection.                                                              *)

\* getDeclaredFields: of the instance fields those marked as the type's own.
DeclaredFields(c) ==
  {k \in DOMAIN layout[c] : owned[c][layout[c][k]]} \cup {<<c, n>> : n \in DOMAIN slots[c]}

\* The methods of the class file in their order; the index is the slot of reflection.
Members(c) ==
  (IF file[c].clinit THEN <<"<clinit>">> ELSE <<>>)
    \o (IF c \in Classes THEN <<"<init>">> ELSE <<>>)
    \o (IF Declared(c) THEN <<"method">> ELSE <<>>)

ConstructorSlots(c) == {i \in 1 .. Len(Members(c)) : Members(c)[i] = "<init>"}
MethodSlots(c, publicOnly) ==
  {i \in 1 .. Len(Members(c)) : /\ Members(c)[i] # "<clinit>"
                                /\ publicOnly /\ Members(c)[i] = "method" => file[c].method # "private"}

\* search_method_in_slot.
MethodInSlot(c, i) == Members(c)[i]

-----------------------------------------------------------------------------
(* Properties.                                                              *)

TypeOK ==
  /\ \A c \in Linked : file[c] \in ClassFiles[c]
  /\ total \in [Types \cup {NoClass} -> Nat] /\ vtable \in [Types \cup {NoClass} -> Types \cup {NoMethod}]
  /\ ready \subseteq Linked /\ stores \in 0 .. Stores /\ java \in [Types \X Names -> Values]
  /\ object.klass \in (Linked \cap Classes) \cup {NoClass} /\ stray \subseteq Types \X Names
  /\ object = [klass |-> object.klass, fields |-> object.fields, mirrored |-> object.mirrored]
  /\ object.klass # NoClass => object.fields \in [0 .. total[object.klass] - 1 -> Values]
  /\ object.mirrored \in IF object.klass = Mirror THEN Linked ELSE {NoClass}

\* Every instance field a class declares or inherits, hidden ones too, has an offset of its own
\* below the number of fields, and the same one in every subclass: code linked against a
\* class works on the objects of its subclasses.
FieldsHaveTheirPlaces ==
  \A c \in Linked :
    /\ DOMAIN layout[c] = {k \in Chain[c] \X Names : Declares(k[1], k[2], {"instance"})}
    /\ {layout[c][k] : k \in DOMAIN layout[c]} = 0 .. total[c] - 1
    /\ \A k, l \in DOMAIN layout[c] : layout[c][k] = layout[c][l] => k = l
    /\ \A d \in Chain[c] :
         \A k \in DOMAIN layout[d] : k \in DOMAIN layout[c] /\ layout[c][k] = layout[d][k]

\* The order of JVMS 5.4.3.2: the type itself, then each superinterface with all above it, then
\* the superclass. The answer is the first declaration.
Resolved(n) ==
  LET resolved[c \in Types \cup {NoClass}] ==
        LET above == (UNION {resolved[i] : i \in Implements[c]}) \ {NoField}
        IN IF c = NoClass THEN {NoField}
           ELSE IF Declares(c, n, FieldKinds) THEN {c}
           ELSE IF above # {} THEN above ELSE resolved[Parent[c]]
  IN resolved

\* Field resolution finds the declaration Java's finds (JVMS 5.4.3.2), or none where there is none.
FieldsResolveAsInJava == \A n \in Names : \A c \in Linked : FieldOf(n)[c] = Resolved(n)[c]

\* Whatever sequence of putfield, putstatic, Unsafe stores and swaps and initializations: every
\* location has the value Java has there, read by name or by offset, and no store reaches
\* another location, but for the locations gone astray.
LocationsHoldJavasValues ==
  \A c \in Linked, n \in Names : <<c, n>> \notin stray =>
    /\ Declares(c, n, Static) => GetStatic(c, n) = java[<<c, n>>]
    /\ (object.klass # NoClass /\ c \in Chain[object.klass] /\ Declares(c, n, {"instance"})) =>
         GetField(c, n) = java[<<c, n>>] /\ UnsafeGet(c, n) = java[<<c, n>>]
    /\ c = Mirror /\ object.mirrored = Mirror /\ Declares(c, n, Static) => UnsafeGet(c, n) = java[<<c, n>>]

\* What a store through the mirror m can miss or hit: the static fields of its type, the
\* fields of the mirror itself, and the static fields of java/lang/Class.
Exposed(m) ==
  {l \in Types \X Names :
     \/ l[1] \in {m, Mirror} /\ Declares(l[1], l[2], Static)
     \/ l[1] \in Chain[Mirror] /\ Declares(l[1], l[2], {"instance"})}

\* Unsafe mistakes locations only where it stores to a static field through the mirror that
\* staticFieldBase gives, of a type that is not java/lang/Class itself: the offset is decoded
\* by the fields of java/lang/Class, and stands for an exposed location or for no location.
OnlyStaticsGoAstray ==
  stray # {} => /\ object.klass = Mirror /\ object.mirrored # Mirror
                /\ stray = Types \X Names \/ stray \subseteq Exposed(object.mirrored)

\* invokevirtual finds the most derived public method, whatever private and static methods
\* superclasses have under the same signature.
VirtualCallsAreJavas ==
  \A c \in Linked \cap Classes :
    LET public == {d \in Chain[c] : file[d].method = "public"}
    IN public # {} => vtable[c] \in public /\ public \subseteq Chain[vtable[c]]

\* The interfaces i extends, and i.
Extended == LET up[i \in Interfaces] == {i} \cup UNION {up[j] : j \in Implements[i]} IN up

\* The method invokeinterface runs (get_class_method on the object's class) is a superclass's
\* method before any interface's. Where no superclass has one the answer is an interface's, or
\* lost to the uninitialized pointer, never a third type's.
InterfaceCallsAreJavas ==
  \A c \in Linked \cap Classes :
    LET declaring == {d \in Chain[c] : Declared(d)}
        reachable == UNION {Extended[i] : i \in UNION {Implements[d] : d \in Chain[c]}}
    IN IF declaring # {} THEN \E d \in declaring : ClassMethod[c] = {d} /\ declaring \subseteq Chain[d]
       ELSE ClassMethod[c] \ {NoMethod, Wild} \subseteq {i \in reachable : Declared(i)}

\* Reflection shows the fields the class file declares, no inherited one, and a slot leads back
\* to the constructor it was taken from.
ReflectsOwnMembers ==
  \A c \in Linked :
    /\ DeclaredFields(c) = {<<c, file[c].fields[i].name>> : i \in 1 .. Len(file[c].fields)}
    /\ \A i \in ConstructorSlots(c) : MethodInSlot(c, i) = "<init>"
    /\ MethodSlots(c, FALSE) \ MethodSlots(c, TRUE) =
         {i \in 1 .. Len(Members(c)) : Members(c)[i] = "method" /\ file[c].method = "private"}
    /\ \A i \in MethodSlots(c, FALSE) : MethodInSlot(c, i) # "<clinit>"

-----------------------------------------------------------------------------
(* The inductive invariant.                                                 *)

\* What is above a linked type is linked. Types not yet linked have got no values.
FilesInv ==
  /\ file = [c \in Types |-> file[c]] /\ layout = [c \in Types \cup {NoClass} |-> layout[c]]
  /\ owned = [c \in Types |-> owned[c]] /\ slots = [c \in Types |-> slots[c]]
  /\ statics = [c \in Types |-> statics[c]]
  /\ DOMAIN layout[NoClass] = {} /\ total[NoClass] = 0 /\ vtable[NoClass] = NoMethod
  /\ \A c \in Linked : Above(c) \subseteq Linked
  /\ \A l \in Types \X Names : l[1] \notin Linked => java[l] = 0

\* Every static field has its place; the marks tell own fields from inherited ones.
PlacesInv ==
  \A c \in Linked :
    /\ slots[c] = SlotsOf(file[c]) /\ statics[c] \in [{slots[c][n] : n \in DOMAIN slots[c]} -> Values]
    /\ \A k \in DOMAIN layout[c] : owned[c][layout[c][k]] = (k[1] = c)

\* The vtable has the most derived public method, of interfaces too.
VtableInv ==
  \A c \in Linked :
    LET public == {d \in Chain[c] : file[d].method = "public"}
    IN public # {} => vtable[c] \in public /\ public \subseteq Chain[vtable[c]]

IInv ==
  /\ TypeOK /\ FilesInv /\ FieldsHaveTheirPlaces /\ PlacesInv /\ VtableInv
  /\ LocationsHoldJavasValues /\ OnlyStaticsGoAstray
=============================================================================
