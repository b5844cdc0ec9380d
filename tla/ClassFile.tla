------------------------------ MODULE ClassFile ------------------------------
(* The parser of class files (class_parser.cpp). A reader takes the stream as  *)
(* it stands and gives it back behind what it read: `at' is the next byte,     *)
(* `items' are the members assigned so far, `stub' is the CodeStub of the      *)
(* structure just read, `kept' are the stubs that reflection hands to Java.    *)
(* Written files are given item by item; Java's layout is not known here.      *)
EXTENDS Integers, Sequences, SequencesExt, FiniteSets

CONSTANT Files     \* parts: seven sequences of items; texts, unused: slots of the pool; known: no foreign attribute

VARIABLES
  written,         \* the class file
  bytes,           \* the stream
  read,            \* the reader
  part,            \* the parts parsed so far; 8 when the ClassFile is destroyed
  freed            \* the entries of the pool the destructor deleted, in order

vars == <<written, bytes, read, part, freed>>

FilesAssumption == \A file \in Files : Len(file.parts) = 7

-----------------------------------------------------------------------------
(* The stream. *)

\* The w bytes at position p, the first one is the highest.
RECURSIVE Number(_, _)
Number(p, w) == IF w = 0 THEN 0 ELSE 256 * Number(p, w - 1) + bytes[p + w - 1]

\* An assertion fails, or the stream has no more bytes.
Die(s) == [s EXCEPT !.end = "assert"]

Take(w, s) ==
  IF s.end # "reading" THEN s
  ELSE IF s.at + w - 1 > Len(bytes) THEN [s EXCEPT !.end = "no bytes"]
  ELSE [s EXCEPT !.at = @ + w, !.items = Append(@, [w |-> w, v |-> Number(s.at, w)])]

U1(s) == Take(1, s)
U2(s) == Take(2, s)
U4(s) == Take(4, s)

\* The member read last.
LastRead(s) == s.items[Len(s.items)].v

\* Looking ahead; 255 stands for the end of the stream.
Peek1(s) == IF s.at <= Len(bytes) THEN bytes[s.at] ELSE 255
Peek2(s) == IF s.at + 1 <= Len(bytes) THEN Number(s.at, 2) ELSE 65535

\* CodeStub::inject of a member of w bytes.
Inject(w, value) == [b \in 1 .. w |-> (value \div (256 ^ (w - b))) % 256]

\* The stub of a member of w bytes, of what was read up to t and then up to u, and of such a member and then u.
With(s, stub) == [s EXCEPT !.stub = stub]
Stub(w, t) == With(t, Inject(w, LastRead(t)))
Joined(t, u) == With(u, t.stub \o u.stub)
Behind(w, t, u) == Joined(Stub(w, t), u)

\* n structures, their stubs one after the other.
Another(Structure(_), t) == Joined(t, Structure(With(t, <<>>)))
Times(Structure(_), n, s) ==
  LET after[i \in 0 .. n] == IF i = 0 THEN With(s, <<>>) ELSE Another(Structure, after[i - 1])
  IN after[n]

\* As many structures as was read last; the number of structures and the structures.
Following(Structure(_), t) == Times(Structure, LastRead(t), t)
Counted(Structure(_), s) == Following(Structure, U2(s))

-----------------------------------------------------------------------------
(* The constant pool. *)

CpIndex(s) == U2(U1(s))
CpTwoIndices(s) == U2(U2(U1(s)))
CpInteger(s) == U4(U1(s))
CpFloat(s) == U4(U1(s))
CpLong(s) == U4(U4(U1(s)))
CpDouble(s) == U4(U4(U1(s)))
CpNameAndType(s) == U2(U2(U1(s)))
\* Mutant of CpMethodHandle: the kind behind the index.
CpMethodHandleSwapped(s) == U1(U2(U1(s)))
CpMethodHandle(s) == U2(U1(U1(s)))
CpMethodType(s) == U2(U1(s))
CpInvokeDynamic(s) == U2(U2(U1(s)))
CpUtf8(s) == Following(U1, U2(U1(s)))

PoolEntry(tag, s) ==
  CASE tag \in {7, 8} -> CpIndex(s)
    [] tag \in {9, 10, 11} -> CpTwoIndices(s)
    [] tag = 3 -> CpInteger(s)
    [] tag = 4 -> CpFloat(s)
    [] tag = 5 -> CpLong(s)
    [] tag = 6 -> CpDouble(s)
    [] tag = 12 -> CpNameAndType(s)
    [] tag = 1 -> CpUtf8(s)
    [] tag = 15 -> CpMethodHandle(s)
    [] tag = 16 -> CpMethodType(s)
    [] tag = 18 -> CpInvokeDynamic(s)
    [] OTHER -> Die(s)

\* Mutant of Takes2: a long or double takes one slot.
TakesOne(tag) == FALSE
Takes2(tag) == tag \in {5, 6}

\* The slots from i on, of count - 1; slot i is constant_pool[i - 1]. The slot behind a long or double stays empty.
RECURSIVE PoolEntries(_, _, _)
PoolEntries(i, count, s) ==
  IF i >= count \/ s.end # "reading" THEN s
  ELSE LET tag == Peek1(s)
           t == PoolEntry(tag, s)
           text == [b \in 1 .. (IF tag = 1 THEN Len(t.items) - Len(s.items) - 2 ELSE 0) |->
                      t.items[Len(s.items) + 2 + b].v]
           next == IF Takes2(tag) THEN i + 2 ELSE i + 1
       IN PoolEntries(next, count, [t EXCEPT !.pool = [j \in DOMAIN @ \cup {i} |->
                                       IF j = i THEN [tag |-> tag, text |-> text] ELSE @[j]]])

\* Modified UTF-8, as convert_to_Unicode tells the kinds of characters apart. The fourth kind, a pair of
\* surrogates, is never reached: its bytes are of the third kind and give the two units one by one.
Continues(text, p) == text[p] \div 64 = 2
Width(text, p) ==
  CASE text[p] < 128 -> 1
    [] text[p] >= 128 /\ text[p] \div 32 = 6 /\ Continues(text, p + 1) -> 2
    [] text[p] \div 16 = 14 /\ Continues(text, p + 1) /\ Continues(text, p + 2) -> 3
\* Mutant of Unit: a wrong shift.
UnitShifted(text, p) ==
  IF Width(text, p) = 2 THEN (text[p] % 32) * 32 + (text[p + 1] % 64) ELSE text[p]
Unit(text, p) ==
  CASE Width(text, p) = 1 -> text[p]
    [] Width(text, p) = 2 -> (text[p] % 32) * 64 + (text[p + 1] % 64)
    [] Width(text, p) = 3 -> (text[p] % 16) * 4096 + (text[p + 1] % 64) * 64 + (text[p + 2] % 64)

RECURSIVE ConvertFrom(_, _)
ConvertFrom(text, p) ==
  IF p > Len(text) THEN <<>> ELSE <<Unit(text, p)>> \o ConvertFrom(text, p + Width(text, p))
ConvertToUnicode(text) == ConvertFrom(text, 1)

-----------------------------------------------------------------------------
(* Annotations. Every structure makes its stub of those below it.              *)

RECURSIVE ElementValue(_)

\* Mutant of ConstValue: the stub is forgotten.
ConstValueWithoutStub(s) == U2(s)
ConstValue(s) == Stub(2, U2(s))
EnumConstValue(s) == LET type == U2(s) IN Behind(2, type, Stub(2, U2(type)))
ClassInfo(s) == Stub(2, U2(s))

\* A number of structures, with the number in front of their stubs.
Stubbed(Structure(_), w, s) == LET number == Take(w, s) IN Behind(w, number, Following(Structure, number))

ArrayValue(s) == Stubbed(ElementValue, 2, s)
ElementValuePair(s) == LET name == U2(s) IN Behind(2, name, ElementValue(name))
Annotation(s) == LET type == U2(s) IN Behind(2, type, Stubbed(ElementValuePair, 2, type))

\* Tags are the letters B, C, D, F, I, J, S, Z, s, then e, c, @ and [.
ValueOf(tag, s) ==
  CASE tag \in {66, 67, 68, 70, 73, 74, 83, 90, 115} -> ConstValue(s)
    [] tag = 101 -> EnumConstValue(s)
    [] tag = 99 -> ClassInfo(s)
    [] tag = 64 -> Annotation(s)
    [] tag = 91 -> ArrayValue(s)
    [] OTHER -> Die(s)
ElementValue(s) ==
  LET tag == U1(s)
  IN IF tag.end # "reading" THEN tag ELSE Behind(1, tag, ValueOf(LastRead(tag), tag))

ParameterAnnotations(s) == Stubbed(Annotation, 2, s)

\* A target of one member.
Member(w, s) == Stub(w, Take(w, s))
TwoMembers(v, w, s) == LET t == Member(v, s) IN Joined(t, Member(w, t))

LocalvarEntry(s) == LET t == TwoMembers(2, 2, s) IN Joined(t, Member(2, t))
LocalvarTarget(s) == Stubbed(LocalvarEntry, 2, s)

PathStep(s) == TwoMembers(1, 1, s)
TypePath(s) == Stubbed(PathStep, 1, s)

Target(type, s) ==
  CASE type \in {0, 1, 22} -> Member(1, s)
    [] type \in {17, 18} -> TwoMembers(1, 1, s)
    [] type \in {19, 20, 21} -> With(s, <<>>)
    [] type \in {16, 23, 66, 67, 68, 69, 70} -> Member(2, s)
    [] type \in {64, 65} -> LocalvarTarget(s)
    [] type \in {71, 72, 73, 74, 75} -> TwoMembers(2, 1, s)
    [] OTHER -> Die(s)

TypeAnnotation(s) ==
  LET Rest(t) == Joined(t, Annotation(t))
      PathAndRest(t) == Rest(Joined(t, TypePath(t)))
      type == U1(s)
  IN PathAndRest(Behind(1, type, Target(LastRead(type), type)))

-----------------------------------------------------------------------------
(* Attributes. *)

\* attribute_name_index and attribute_length.
Info(s) == U4(U2(s))

ConstantValue(s) == U2(Info(s))
Signature(s) == U2(Info(s))
SourceFile(s) == U2(Info(s))
EnclosingMethod(s) == U2(U2(Info(s)))
Synthetic(s) == Info(s)
Deprecated(s) == Info(s)
Exceptions(s) == Counted(U2, Info(s))
SourceDebugExtension(s) == Following(U1, Info(s))

InnerClass(s) == U2(U2(U2(U2(s))))
InnerClasses(s) == Counted(InnerClass, Info(s))
LineNumber(s) == U2(U2(s))
LineNumberTable(s) == Counted(LineNumber, Info(s))
LocalVariable(s) == U2(U2(U2(U2(U2(s)))))
LocalVariableTable(s) == Counted(LocalVariable, Info(s))
LocalVariableType(s) == U2(U2(U2(U2(U2(s)))))
LocalVariableTypeTable(s) == Counted(LocalVariableType, Info(s))

BootstrapMethod(s) == Counted(U2, U2(s))
BootstrapMethods(s) == Counted(BootstrapMethod, Info(s))
Parameter(s) == U2(U2(s))
MethodParameters(s) == Following(Parameter, U1(Info(s)))

VerificationType(s) ==
  LET tag == Peek1(s)
  IN CASE tag \in 0 .. 6 -> U1(s)
       [] tag \in {7, 8} -> U2(U1(s))
       [] OTHER -> Die(s)

SameFrame(s) == U1(s)
SameLocals1Frame(s) == VerificationType(U1(s))
SameLocals1FrameExtended(s) == VerificationType(U2(U1(s)))
OffsetFrame(s) == U2(U1(s))      \* chop_frame and same_frame_extended
AppendFrame(type, s) == Times(VerificationType, type - 251, U2(U1(s)))
FullFrame(s) == Counted(VerificationType, Counted(VerificationType, U2(U1(s))))

Frame(s) ==
  LET type == Peek1(s)
  IN CASE type \in 0 .. 63 -> SameFrame(s)
       [] type \in 64 .. 127 -> SameLocals1Frame(s)
       [] type = 247 -> SameLocals1FrameExtended(s)
       [] type \in 248 .. 251 -> OffsetFrame(s)
       [] type \in 252 .. 254 -> AppendFrame(type, s)
       [] type = 255 -> FullFrame(s)
       [] OTHER -> Die(s)
StackMapTable(s) == Counted(Frame, Info(s))

\* The stub must be as long as the attribute says; `from' is where the attribute's own bytes begin.
Checked(h, s, more) == IF Len(s.stub) + more = LastRead(h) THEN s ELSE Die(s)
Keep(h, s) == [s EXCEPT !.kept = Append(@, [stub |-> s.stub, from |-> h.at, to |-> s.at - 1])]

RuntimeAnnotations(s) == LET h == Info(s) IN Keep(h, Checked(h, ParameterAnnotations(h), 0))

\* Of visible and of invisible annotations of parameters, only the first keep a stub.
RuntimeInvisibleParameterAnnotations(s) == LET h == Info(s) IN Checked(h, Stubbed(ParameterAnnotations, 1, h), 0)
RuntimeVisibleParameterAnnotations(s) == Keep(Info(s), RuntimeInvisibleParameterAnnotations(s))

RuntimeTypeAnnotations(s) == LET h == Info(s) IN Checked(h, Counted(TypeAnnotation, h), 2)

AnnotationDefault(s) == LET h == Info(s) IN Keep(h, ElementValue(h))

RECURSIVE NewAttribute(_)

ExceptionEntry(s) == U2(U2(U2(U2(s))))
Code(s) ==
  LET code == Following(U1, U4(U2(U2(Info(s)))))
  IN Counted(NewAttribute, Counted(ExceptionEntry, code))

\* Each name is one letter here, its place in this table and one more.
AttributeTable ==
  <<"ConstantValue", "Code", "StackMapTable", "Exceptions", "InnerClasses", "EnclosingMethod", "Synthetic",
    "Signature", "SourceFile", "SourceDebugExtension", "LineNumberTable", "LocalVariableTable",
    "LocalVariableTypeTable", "Deprecated", "RuntimeVisibleAnnotations", "RuntimeInvisibleAnnotations",
    "RuntimeVisibleParameterAnnotations", "RuntimeInvisibleParameterAnnotations",
    "RuntimeVisibleTypeAnnotations", "RuntimeInvisibleTypeAnnotations", "AnnotationDefault",
    "BootstrapMethods", "MethodParameters">>

\* The name must be a text of the pool and one of the table; the attribute is not skipped otherwise.
PeekAttribute(s) ==
  LET index == Peek2(s)
      text == IF index \in DOMAIN s.pool /\ s.pool[index].tag = 1
              THEN ConvertToUnicode(s.pool[index].text) ELSE <<>>
  IN IF Len(text) = 1 /\ text[1] \in DOMAIN AttributeTable THEN AttributeTable[text[1]] ELSE "none"

NewAttribute(s) ==
  LET name == PeekAttribute(s)
  IN CASE s.end # "reading" -> s
       [] s.end = "reading" /\ name = "none" -> Die(s)
       [] name = "ConstantValue" -> ConstantValue(s)
       [] name = "Code" -> Code(s)
       [] name = "StackMapTable" -> StackMapTable(s)
       [] name = "Exceptions" -> Exceptions(s)
       [] name = "InnerClasses" -> InnerClasses(s)
       [] name = "EnclosingMethod" -> EnclosingMethod(s)
       [] name = "Synthetic" -> Synthetic(s)
       [] name = "Signature" -> Signature(s)
       [] name = "SourceFile" -> SourceFile(s)
       [] name = "SourceDebugExtension" -> SourceDebugExtension(s)
       [] name = "LineNumberTable" -> LineNumberTable(s)
       [] name = "LocalVariableTable" -> LocalVariableTable(s)
       [] name = "LocalVariableTypeTable" -> LocalVariableTypeTable(s)
       [] name = "Deprecated" -> Deprecated(s)
       [] name \in {"RuntimeVisibleAnnotations", "RuntimeInvisibleAnnotations"} -> RuntimeAnnotations(s)
       [] name = "RuntimeVisibleParameterAnnotations" -> RuntimeVisibleParameterAnnotations(s)
       [] name = "RuntimeInvisibleParameterAnnotations" -> RuntimeInvisibleParameterAnnotations(s)
       [] name \in {"RuntimeVisibleTypeAnnotations", "RuntimeInvisibleTypeAnnotations"} -> RuntimeTypeAnnotations(s)
       [] name = "AnnotationDefault" -> AnnotationDefault(s)
       [] name = "BootstrapMethods" -> BootstrapMethods(s)
       [] name = "MethodParameters" -> MethodParameters(s)

-----------------------------------------------------------------------------
(* operator >> of ClassFile, part by part, and the destructor.                 *)

Attributes(s) == Counted(NewAttribute, s)
FieldInfo(s) == Attributes(U2(U2(U2(s))))
MethodInfo(s) == Attributes(U2(U2(U2(s))))

\* The bytes of items, half by half; the bytes of parts of the file.
RECURSIVE ItemBytes(_)
ItemBytes(items) ==
  LET half == Len(items) \div 2
  IN CASE items = <<>> -> <<>>
       [] Len(items) = 1 -> Inject(items[1].w, items[1].v)
       [] OTHER -> ItemBytes(SubSeq(items, 1, half)) \o ItemBytes(SubSeq(items, half + 1, Len(items)))
BytesOf(parts) == FlattenSeq([p \in DOMAIN parts |-> ItemBytes(parts[p])])

Init ==
  /\ written \in Files
  /\ bytes = BytesOf(written.parts)
  /\ read = [at |-> 1, items |-> <<>>, stub |-> <<>>, kept |-> <<>>, pool |-> <<>>, end |-> "reading"]
  /\ part = 0
  /\ freed = <<>>

Parse(p, s) ==
  /\ part = p - 1
  /\ read.end = "reading"
  /\ read' = s
  /\ part' = p
  /\ UNCHANGED <<written, bytes, freed>>

\* Neither the magic number nor the version is looked at.
ParseHeader == Parse(1, U2(U2(U2(U4(read)))))
ParseConstantPool == Parse(2, PoolEntries(1, LastRead(read), read))
ParseClassMsgs == Parse(3, U2(U2(U2(read))))
ParseInterfaces == Parse(4, Counted(U2, read))
ParseFields == Parse(5, Counted(FieldInfo, read))
ParseMethods == Parse(6, Counted(MethodInfo, read))
ParseAttributes == Parse(7, Attributes(read))

\* The entries deleted from slot i on; the slot behind a long or double was never set and is jumped over.
\* Mutant of Deleted: no slot is jumped over.
DeletedAll(i, count) == [j \in 1 .. count - 1 |-> j]
RECURSIVE Deleted(_, _)
Deleted(i, count) ==
  IF i >= count THEN <<>>
  ELSE <<i>> \o Deleted(IF i \in DOMAIN read.pool /\ Takes2(read.pool[i].tag) THEN i + 2 ELSE i + 1, count)

Destroy ==
  /\ part = 7
  /\ read.end = "reading"
  /\ freed' = Deleted(1, read.items[4].v)
  /\ part' = 8
  /\ UNCHANGED <<written, bytes, read>>

Next ==
  \/ ParseHeader \/ ParseConstantPool \/ ParseClassMsgs \/ ParseInterfaces
  \/ ParseFields \/ ParseMethods \/ ParseAttributes \/ Destroy

Spec == Init /\ [][Next]_vars

-----------------------------------------------------------------------------
\* What has its type.
TypeOK ==
  /\ part \in 0 .. 8
  /\ read.at \in 1 .. Len(bytes) + 1
  /\ read.end \in {"reading", "assert", "no bytes"}
  /\ \A i \in DOMAIN freed : freed[i] \in Nat

\* After every part the parser has read the items of the file so far, each with its width, and stands where
\* the next part begins: no table, annotation or frame takes a byte too many or too few (operator >>).
ReadsWhatIsWritten ==
  LET due == SubSeq(written.parts, 1, IF part > 7 THEN 7 ELSE part)
  IN read.end = "reading" => read.items = FlattenSeq(due) /\ read.at = 1 + Len(BytesOf(due))

\* A file of Java 8 is parsed to its end. An attribute of another compiler ends the VM (peek_attribute).
DiesOfForeignAttributesOnly ==
  /\ read.end # "reading" => ~written.known /\ read.end = "assert"
  /\ part = 7 /\ ~written.known => read.end = "assert"

\* The bytes reflection hands to Java's annotation parser are the attribute's bytes (CodeStub).
StubsAreTheBytes ==
  read.end = "reading" => \A i \in DOMAIN read.kept :
    LET k == read.kept[i] IN k.stub = SubSeq(bytes, k.from, k.to)

\* The texts of the pool are the strings Java sees in them (convert_to_Unicode).
TextsAreJavas ==
  part >= 2 /\ read.end = "reading" => \A t \in written.texts :
    t.index \in DOMAIN read.pool /\ ConvertToUnicode(read.pool[t.index].text) = t.units

\* The destructor deletes every entry of the pool once, and never the slot behind a long or double.
DeletesEveryEntryOnce ==
  part = 8 => /\ {freed[i] : i \in DOMAIN freed} = DOMAIN read.pool
              /\ Len(freed) = Cardinality(DOMAIN read.pool)
              /\ written.unused \cap DOMAIN read.pool = {}
=============================================================================
