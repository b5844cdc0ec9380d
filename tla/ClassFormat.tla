----------------------------- MODULE ClassFormat -----------------------------
(* Class files as chapter 4 of the Java virtual machine specification lays     *)
(* them out: every attribute of Java 8, in every place, with tables of no and  *)
(* of two entries. A file is seven parts, a part is a sequence of items.       *)
EXTENDS Integers, Sequences, SequencesExt

\* An item of w bytes that hold v.
U1(v) == <<[w |-> 1, v |-> v]>>
U2(v) == <<[w |-> 2, v |-> v]>>
U4(v) == <<[w |-> 4, v |-> v]>>

Bytes(item) == [b \in 1 .. item.w |-> (item.v \div (256 ^ (item.w - b))) % 256]
AllBytes(items) == FlattenSeq([i \in DOMAIN items |-> Bytes(items[i])])
Size(items) == Len(AllBytes(items))

\* The same entry n times, behind its number.
Table(n, entry) == U2(n) \o FlattenSeq([i \in 1 .. n |-> entry])
ByteTable(n, entry) == U1(n) \o FlattenSeq([i \in 1 .. n |-> entry])

-----------------------------------------------------------------------------
(* The constant pool. An entry is its items and its text; a long or double is  *)
(* followed by a slot of no items.                                             *)

Names == <<"ConstantValue", "Code", "StackMapTable", "Exceptions", "InnerClasses", "EnclosingMethod",
           "Synthetic", "Signature", "SourceFile", "SourceDebugExtension", "LineNumberTable",
           "LocalVariableTable", "LocalVariableTypeTable", "Deprecated", "RuntimeVisibleAnnotations",
           "RuntimeInvisibleAnnotations", "RuntimeVisibleParameterAnnotations",
           "RuntimeInvisibleParameterAnnotations", "RuntimeVisibleTypeAnnotations",
           "RuntimeInvisibleTypeAnnotations", "AnnotationDefault", "BootstrapMethods", "MethodParameters",
           "AnotherCompilersAttribute">>

\* The modified UTF-8 of one UTF-16 unit (JVMS 4.4.7).
Utf8(unit) ==
  IF unit \in 1 .. 127 THEN <<unit>>
  ELSE IF unit < 2048 THEN <<192 + unit \div 64, 128 + (unit % 64)>>
  ELSE <<224 + unit \div 4096, 128 + ((unit \div 64) % 64), 128 + (unit % 64)>>

Text(units) ==
  LET bytes == FlattenSeq([i \in DOMAIN units |-> Utf8(units[i])])
  IN [items |-> U1(1) \o U2(Len(bytes)) \o FlattenSeq([i \in DOMAIN bytes |-> U1(bytes[i])]),
      text |-> units]

Entry(items) == [items |-> items, text |-> <<>>]
Unused == Entry(<<>>)

\* The name of the n-th attribute stands for its letters.
NameEntries == [n \in DOMAIN Names |-> Text(<<n>>)]

\* One entry of every other kind; texts of one, two and three bytes, a surrogate pair, the empty text.
OtherEntries ==
  <<Entry(U1(7) \o U2(258)), Entry(U1(5) \o U4(16909060) \o U4(1)), Unused, Entry(U1(8) \o U2(2)),
    Entry(U1(9) \o U2(258) \o U2(1)), Entry(U1(10) \o U2(1) \o U2(3)), Entry(U1(11) \o U2(1) \o U2(3)),
    Entry(U1(3) \o U4(67305985)), Entry(U1(6) \o U4(1) \o U4(2)), Unused, Entry(U1(4) \o U4(5)),
    Entry(U1(12) \o U2(258) \o U2(4)), Entry(U1(15) \o U1(6) \o U2(258)), Entry(U1(16) \o U2(258)),
    Entry(U1(18) \o U2(0) \o U2(258)), Text(<<65, 127, 128, 2047, 0>>), Text(<<2048, 65535, 66>>),
    Text(<<55357, 56832>>), Text(<<>>)>>

Pools == {NameEntries, OtherEntries \o NameEntries}

NameIndex(pool, name) == Len(pool) - Len(Names) + CHOOSE n \in DOMAIN Names : Names[n] = name

-----------------------------------------------------------------------------
(* Annotations. *)

Pair(value) == U2(258) \o value
Annotation(n, value) == U2(259) \o Table(n, Pair(value))
Const == U1(73) \o U2(260)
ElementValues ==
  {U1(tag) \o U2(260) : tag \in {66, 67, 68, 70, 74, 83, 90, 115, 99}}
    \cup {Const, U1(101) \o U2(1) \o U2(261), U1(64) \o Annotation(0, Const), U1(64) \o Annotation(2, Const),
          U1(91) \o Table(0, Const), U1(91) \o Table(2, U1(91) \o Table(2, Const))}

Targets ==
  {U1(t) \o U1(3) : t \in {0, 1, 22}} \cup {U1(t) \o U1(3) \o U1(4) : t \in {17, 18}}
    \cup {U1(t) \o U2(258) : t \in {16, 23, 66, 67, 68, 69, 70}}
    \cup {U1(t) : t \in {19, 20, 21}}
    \cup {U1(t) \o U2(258) \o U1(3) : t \in {71, 72, 73, 74, 75}}
    \cup {U1(t) \o Table(n, U2(1) \o U2(258) \o U2(3)) : t \in {64, 65}, n \in {0, 2}}

TypeAnnotations ==
  {target \o ByteTable(1, U1(3) \o U1(0)) \o Annotation(1, Const) : target \in Targets}
    \cup {U1(19) \o ByteTable(n, U1(3) \o U1(1)) \o Annotation(m, Const) : n \in {0, 2}, m \in {0, 2}}

-----------------------------------------------------------------------------
(* The attributes without those of annotations, and the frames.                *)

Verifications == {U1(tag) : tag \in 0 .. 6} \cup {U1(tag) \o U2(258) : tag \in {7, 8}}
Frames ==
  {U1(63), U1(250) \o U2(258), U1(251) \o U2(258)}
    \cup {U1(t) \o v : t \in {64, 127}, v \in Verifications}
    \cup {U1(247) \o U2(258) \o v : v \in {U1(1), U1(7) \o U2(258)}}
    \cup {U1(252) \o U2(258) \o U1(1), U1(254) \o U2(258) \o U1(7) \o U2(258) \o U1(4) \o U1(8) \o U2(1)}
    \cup {U1(255) \o U2(258) \o Table(n, U1(7) \o U2(3)) \o Table(m, U1(2)) : n \in {0, 2}, m \in {0, 2}}

Counts == {0, 2}
Bodies(name) ==
  CASE name \in {"ConstantValue", "Signature", "SourceFile"} -> {U2(258)}
    [] name = "StackMapTable" -> {Table(n, f) : n \in Counts, f \in Frames}
    [] name = "Exceptions" -> {Table(n, U2(258)) : n \in Counts}
    [] name = "InnerClasses" -> {Table(n, U2(1) \o U2(258) \o U2(3) \o U2(4)) : n \in Counts}
    [] name = "EnclosingMethod" -> {U2(258) \o U2(3)}
    [] name \in {"Synthetic", "Deprecated"} -> {<<>>}
    [] name = "SourceDebugExtension" -> {<<>>, U1(7) \o U1(8) \o U1(9)}
    [] name = "LineNumberTable" -> {Table(n, U2(1) \o U2(258)) : n \in Counts}
    [] name \in {"LocalVariableTable", "LocalVariableTypeTable"} ->
         {Table(n, U2(1) \o U2(258) \o U2(3) \o U2(4) \o U2(5)) : n \in Counts}
    [] name \in {"RuntimeVisibleAnnotations", "RuntimeInvisibleAnnotations"} ->
         {Table(n, Annotation(2, value)) : n \in Counts, value \in ElementValues}
    [] name \in {"RuntimeVisibleParameterAnnotations", "RuntimeInvisibleParameterAnnotations"} ->
         {ByteTable(n, Table(m, Annotation(1, Const))) : n \in Counts, m \in Counts}
    [] name \in {"RuntimeVisibleTypeAnnotations", "RuntimeInvisibleTypeAnnotations"} ->
         {Table(1, annotation) : annotation \in TypeAnnotations} \cup {Table(0, <<>>), Table(2, U1(19) \o U1(0) \o Annotation(0, <<>>))}
    [] name = "AnnotationDefault" -> ElementValues
    [] name = "BootstrapMethods" -> {Table(n, U2(258) \o Table(m, U2(3))) : n \in Counts, m \in Counts}
    [] name = "MethodParameters" -> {ByteTable(n, U2(258) \o U2(3)) : n \in Counts}
    [] name = "AnotherCompilersAttribute" -> {U2(258)}

Attribute(pool, name, body) == U2(NameIndex(pool, name)) \o U4(Size(body)) \o body

\* Four bytes of code, a table of exceptions and attributes.
Code(pool, n, attributes) ==
  Attribute(pool, "Code", U2(2) \o U2(258) \o U4(4) \o U1(4) \o U1(60) \o U1(3) \o U1(172)
                            \o Table(n, U2(0) \o U2(3) \o U2(258) \o U2(0)) \o attributes)

Member(attributes) == U2(1) \o U2(258) \o U2(3) \o attributes
None == U2(0)

\* The attribute twice, in a place; the other tables have no or two entries.
File(pool, place, name, body) ==
  LET twice == Table(2, Attribute(pool, name, body))
  IN [parts |->
        <<U4(19088743) \o U2(0) \o U2(52) \o U2(Len(pool) + 1),
          FlattenSeq([i \in DOMAIN pool |-> pool[i].items]),
          U2(33) \o U2(258) \o U2(2),
          Table(IF place = "class" THEN 2 ELSE 0, U2(258)),
          IF place = "field" THEN Table(2, Member(twice)) ELSE None,
          CASE place = "method" -> Table(2, Member(twice))
            [] place = "code" -> Table(1, Member(Table(1, Code(pool, 2, twice))))
            [] place = "class" -> Table(1, Member(Table(1, Code(pool, 0, None))))
            [] OTHER -> None,
          IF place = "class" THEN twice ELSE None>>,
      texts |-> {[index |-> i, units |-> pool[i].text] : i \in {j \in DOMAIN pool : pool[j] = Text(pool[j].text)}},
      unused |-> {i \in DOMAIN pool : pool[i] = Unused},
      known |-> name # "AnotherCompilersAttribute"]

\* The attributes javac writes in a place.
Places(name) ==
  CASE name \in {"StackMapTable", "LineNumberTable", "LocalVariableTable", "LocalVariableTypeTable"} -> {"code"}
    [] name \in {"InnerClasses", "EnclosingMethod", "SourceFile", "SourceDebugExtension", "BootstrapMethods"} -> {"class"}
    [] name = "ConstantValue" -> {"field"}
    [] name \in {"Exceptions", "AnnotationDefault", "MethodParameters", "RuntimeVisibleParameterAnnotations",
                 "RuntimeInvisibleParameterAnnotations"} -> {"method"}
    [] name \in {"RuntimeVisibleTypeAnnotations", "RuntimeInvisibleTypeAnnotations", "AnotherCompilersAttribute"} ->
         {"class", "field", "method", "code"}
    [] OTHER -> {"class", "field", "method"}

AttributeNames == {Names[n] : n \in DOMAIN Names} \ {"Code"}

AllFiles == UNION {UNION {{File(pool, place, name, body) : pool \in Pools, place \in Places(name)}
                         : body \in Bodies(name)} : name \in AttributeNames}

\* For those who do not parse.
NoFile == [parts |-> [p \in 1 .. 7 |-> <<>>], texts |-> {}, unused |-> {}, known |-> TRUE]
=============================================================================
