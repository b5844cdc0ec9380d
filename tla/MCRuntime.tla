----------------------------- MODULE MCRuntime -----------------------------
(* The models of the run-time system on small instances: those of Runtime, and *)
(* class files, which TLC alone examines.                                      *)
EXTENDS Runtime, TLC

CONSTANTS t1, t2

VARIABLES
  written, bytes, read, part, freed  \* ClassFile

FieldLists == {<<>>,
               <<[name |-> "x", kind |-> "constant"], [name |-> "y", kind |-> "static"]>>,
               <<[name |-> "y", kind |-> "instance"], [name |-> "x", kind |-> "instance"]>>}

WithFields(fs) == {[fields |-> f, method |-> "none", clinit |-> TRUE] : f \in fs}
WithMethod(ms) == {[fields |-> <<>>, method |-> m, clinit |-> FALSE] : m \in ms}

Format == INSTANCE ClassFormat
F == INSTANCE ClassFile WITH Files <- Format!AllFiles \cup {Format!NoFile}
fVars == <<written, bytes, read, part, freed>>

\* Derived extends Base implements Top, Base implements Side; Side extends Top.
MCParent == [c \in Classes \cup Interfaces |->
               CASE c = "Object" -> NoClass [] c = "Derived" -> "Base" [] OTHER -> "Object"]
MCImplements == [c \in Classes \cup Interfaces |->
                   CASE c = "Derived" -> {"Top"} [] c = "Base" -> {"Side"} [] c = "Side" -> {"Top"} [] OTHER -> {}]
MCClassFiles == [c \in Classes \cup Interfaces |->
                   CASE c = "Object" -> WithMethod({"none", "public"})
                     [] c = "Side" -> WithMethod({"none", "public"})
                     [] c = "Top" -> WithMethod({"none", "public"})
                                       \cup WithFields({<<[name |-> "x", kind |-> "constant"]>>})
                     [] OTHER -> WithFields(FieldLists) \cup WithMethod({"public", "private", "static"})]

\* A user class extends one of the jar; a class known by its bytes only extends a user class.
MCDeps == [c \in Elements |-> CASE c = "User" -> <<"Object">> [] c = "Lambda" -> <<"User">> [] OTHER -> <<>>]

\* A class of the jar and one known by its bytes, arrays of one and of two dimensions of the own
\* loader, and of two of the bootstrap loader. Other classes and arrays are loaded as needs.
MCWanted == {Name("Object", 0), Name("int", 2), Name("User", 1), Name("User", 2), Name("Lambda", 0)}

\* Contents are numbered. Two strings of equal content, a number of two slots, two call sites of MethodHandle.invoke.
MCEntries ==
  <<[kind |-> "text", content |-> 11], [kind |-> "text", content |-> 11],
    [kind |-> "string", text |-> 1], [kind |-> "string", text |-> 2],
    [kind |-> "class", content |-> 12],
    [kind |-> "wide", content |-> 13], [kind |-> "unused"],
    [kind |-> "site", content |-> 14, descriptor |-> "()V"],
    [kind |-> "site", content |-> 14, descriptor |-> "(I)V"]>>

\* wait(0), a wait with a limit, wait(-1), and the longest wait of a DWORD.
MCTimeouts == {0, 1, -1, 3}

\* An instance and an array in any graph, seen from two roots.
MCInitial == <<"instance", "array">>
MCRoots == <<"static", "local">>

ASSUME F!FilesAssumption

\* The two threads are interchangeable.
Symmetry == Permutations({t1, t2})

\* The class file matters to the parser only.
MCInit ==
  /\ subject \in Subjects
  /\ F!Init
  /\ subject = "file" <=> written # Format!NoFile
  /\ RuntimeInit

MCNext ==
  \/ RuntimeNext /\ UNCHANGED fVars
  \/ subject = "file" /\ F!Next /\ UNCHANGED runtimeVars

MCSpec == MCInit /\ [][MCNext]_<<runtimeVars, fVars>>

-----------------------------------------------------------------------------
\* The parser takes exactly the bytes of each structure of a class file and ends the VM at a
\* foreign attribute only; the bytes it keeps of annotations are the file's, its texts are
\* Java's, and its destructor deletes every entry of the pool once (class_parser.cpp).
ParsesWhatIsWritten ==
  subject = "file" =>
    /\ F!TypeOK /\ F!ReadsWhatIsWritten /\ F!DiesOfForeignAttributesOnly
    /\ F!StubsAreTheBytes /\ F!TextsAreJavas /\ F!DeletesEveryEntryOnce
=============================================================================
