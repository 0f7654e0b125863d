------------------------------ MODULE ApplyInput ------------------------------
(***************************************************************************)
(* The documents of one `onmsctl apply`, all together: how files of YAML   *)
(* become documents of known kinds (onmsctl-core/src/kind/envelope.rs,     *)
(* registry.rs and the wiring in onmsctl/src/registry.rs), and what each   *)
(* kind's handler refuses of a set of documents that it would accept one   *)
(* by one: a name given twice, two documents of a singleton, a namespace   *)
(* in two graphs, a name that nobody has.                                  *)
(*                                                                         *)
(* What fails between the writes is ApplyRouter's; what one document says  *)
(* is in the module of its kind, and here is one value, its body.          *)
(***************************************************************************)
EXTENDS Naturals, Sequences, FiniteSets, SequencesExt, FiniteSetsExt

CONSTANTS Absent

\* KNOWN_RANKS: the kinds that build registers, by rank.  Ranks that were not a strict order
\* would stop the program.
KnownRanks ==
    <<<<"User", 100>>, <<"EventSource", 200>>, <<"EventSourceOrder", 210>>, <<"ThresholdGroup", 220>>,
      <<"ThreshdPackage", 230>>, <<"SnmpConfig", 250>>, <<"Requisition", 300>>, <<"Maintenance", 350>>,
      <<"DataCollectionSource", 375>>, <<"Graph", 390>>, <<"BusinessService", 400>>>>
RanksAreTotalOrder == \A i \in 2 .. Len(KnownRanks) : KnownRanks[i - 1][2] < KnownRanks[i][2]
Registered == {KnownRanks[i][1] : i \in DOMAIN KnownRanks}
Singletons == {"EventSourceOrder", "SnmpConfig"}
Named == Registered \ Singletons

-----------------------------------------------------------------------------
\* ---- streams.  A value is "malformed", "null", "scalar" or a "mapping", whose kind may be
\* missing or no text.  "keys" are namespaces of a graph or foreign ids of a requisition,
\* "names" the objects of another kind that the document refers to.
Value(node, kind, name) ==
    [node |-> node, kind |-> kind, name |-> name, body |-> 1, keys |-> {}, names |-> {}]
Doc(kind, name) == Value("mapping", kind, name)
Odd(node) == Value(node, Absent, Absent)

\* parse_documents: the stream up to its first malformed value, which fails it; what is null
\* is passed over and not counted.
ParseDocuments(stream) ==
    IF \E i \in DOMAIN stream : stream[i].node = "malformed" THEN Absent
    ELSE SelectSeq(stream, LAMBDA v : v.node # "null")

\* load_documents: the files in their order; RawDoc: a document and its <file>#<index>.
RawDocs(file, stream) ==
    [i \in DOMAIN stream |-> [label |-> <<file, i>>, value |-> stream[i]]]
LoadDocuments(files) ==
    LET parsed == [f \in DOMAIN files |-> ParseDocuments(files[f])]
    IN IF \E f \in DOMAIN files : parsed[f] = Absent THEN Absent
       ELSE FlattenSeq([f \in DOMAIN files |-> RawDocs(f, parsed[f])])

\* peek_kind, and the registry's answer.
PeekKind(doc) == IF doc.value.node = "mapping" THEN doc.value.kind ELSE Absent
Known(doc) == PeekKind(doc) \in Registered

Of(docs, kind) == SelectSeq(docs, LAMBDA doc : PeekKind(doc) = kind)

-----------------------------------------------------------------------------
\* ---- what handlers refuse of their documents before the first request.

\* The labels under which a name, or a foreign id, occurs among the documents of a kind.
LabelsOf(docs, name) == {docs[i].label : i \in {j \in DOMAIN docs : docs[j].value.name = name}}
LabelsWith(docs, key) == {docs[i].label : i \in {j \in DOMAIN docs : key \in docs[j].value.keys}}

\* check_unique_names, check_input_uniqueness, first_duplicate.
UniqueNames(docs) ==
    \A i \in DOMAIN docs : Cardinality(LabelsOf(docs, docs[i].value.name)) = 1

\* check_collisions: a name in two documents is an error, a foreign id only a warning.
CollisionFindings(docs) ==
    LET keys == UNION {docs[i].value.keys : i \in DOMAIN docs}
        names == {docs[i].value.name : i \in DOMAIN docs}
    IN {<<"DuplicateMetadataName", n>> :
           n \in {m \in names : Cardinality(LabelsOf(docs, m)) > 1}}
         \cup {<<"DuplicateForeignId", k>> :
           k \in {l \in keys : Cardinality(LabelsWith(docs, l)) > 1}}
IsHardError(finding) == finding[1] = "DuplicateMetadataName"
IsAborted(docs) == \E f \in CollisionFindings(docs) : IsHardError(f)

\* cross_document_problems: names, and namespaces by the name of their graph.
NamespacesApart(docs) ==
    \A i, j \in DOMAIN docs :
        docs[i].value.keys \cap docs[j].value.keys # {} => docs[i].value.name = docs[j].value.name

Admitted(kind, docs) ==
    CASE kind \in Singletons -> Len(docs) <= 1
      [] kind = "Requisition" -> ~IsAborted(docs)
      [] kind = "Graph" -> UniqueNames(docs) /\ NamespacesApart(docs)
      [] OTHER -> UniqueNames(docs)

\* Each document is parsed by its handler: it has a name.
Valid(files) ==
    LET docs == LoadDocuments(files)
    IN /\ RanksAreTotalOrder
       /\ docs # Absent
       /\ \A i \in DOMAIN docs : Known(docs[i]) /\ docs[i].value.name # Absent
       /\ \A k \in Registered : Admitted(k, Of(docs, k))

-----------------------------------------------------------------------------
\* ---- servers: of each object what its document says.
Objects == (Named \X {"a", "b"}) \cup (Singletons \X {"default"})
Object(value) == <<value.kind, value.name>>
Content(value) == [body |-> value.body, keys |-> value.keys]
Empty == [o \in Objects |-> Absent]
Fresh ==
    {Empty, [o \in Objects |-> [body |-> 2, keys |-> {}]],
     [o \in Objects |-> IF o[2] = "a" THEN [body |-> 1, keys |-> {}] ELSE Absent]}
Server == Fresh \cup {[s EXCEPT ![<<k, "a">>] = Absent] :
                         s \in Fresh, k \in {"EventSource", "ThresholdGroup"}}

\* What a document may name of another kind: sources for the order, groups for a package.
\* The manifest says which of them the same apply brings.
ReferredKind(kind) == IF kind = "EventSourceOrder" THEN "EventSource" ELSE "ThresholdGroup"
Manifest(docs, kind) == {docs[i].value.name : i \in {j \in DOMAIN docs : PeekKind(docs[j]) = kind}}
OnServer(s, kind) == {n \in {"a", "b"} : s[<<kind, n>>] # Absent}
Accepted(files, s) ==
    LET docs == LoadDocuments(files)
    IN \A i \in DOMAIN docs :
          LET kind == ReferredKind(PeekKind(docs[i]))
          IN docs[i].value.names \subseteq OnServer(s, kind) \cup Manifest(docs, kind)

\* A document that is in sync is not sent.  A server refuses what names nothing.
InSync(value, s) == s[Object(value)] = Content(value)
Write(s, value) ==
    IF InSync(value, s) \/ ~(value.names \subseteq OnServer(s, ReferredKind(value.kind))) THEN s
    ELSE [s EXCEPT ![Object(value)] = Content(value)]

\* apply_documents: the buckets by rank, each in the order of its documents.
ByRank(docs) ==
    FlattenSeq([i \in DOMAIN KnownRanks |-> Of(docs, KnownRanks[i][1])])
Applied(files, s) == FoldLeft(LAMBDA t, doc : Write(t, doc.value), s, ByRank(LoadDocuments(files)))
Unchanged(files, s) ==
    LET docs == LoadDocuments(files)
    IN \A i \in DOMAIN docs : InSync(docs[i].value, s)

-----------------------------------------------------------------------------
\* Single documents; pairs of one kind, in a file or two; and pairs with a value that no
\* kind has, or with a document that names another.
Values ==
    {Doc(k, n) : k \in Named, n \in {"a", "b"}} \cup {[Doc(k, "a") EXCEPT !.body = 2] : k \in Named}
        \cup {[Doc(k, n) EXCEPT !.keys = {"ns"}] : k \in {"Graph", "Requisition"}, n \in {"a", "b"}}
        \cup {[Doc("EventSourceOrder", "default") EXCEPT !.names = ns] : ns \in SUBSET {"a", "b"}}
        \cup {[Doc("ThreshdPackage", "a") EXCEPT !.names = {n}] : n \in {"a", "b"}}
        \cup {Doc("SnmpConfig", "default"), Doc("User", Absent), Doc("Unknown", "a")}
        \cup {Odd(n) : n \in {"malformed", "null", "scalar", "mapping"}}
Pairs ==
    {<<v, w>> \in Values \X Values :
        v.kind = w.kind \/ ~({v.kind, w.kind} \subseteq Registered) \/ v.names \cup w.names # {}}
Written == {<<<<v>>>> : v \in Values} \cup {<<p>> : p \in Pairs} \cup {<<<<p[1]>>, <<p[2]>>>> : p \in Pairs}

\* Every document of the input is what the server has, whatever else was in the input, and
\* none of its graphs claims a namespace of another one.
Shows(files, s) ==
    LET docs == LoadDocuments(files)
    IN /\ \A i \in DOMAIN docs : InSync(docs[i].value, s)
       /\ \A k \in {"ns"} : Cardinality({n \in Manifest(docs, "Graph") : k \in s[<<"Graph", n>>].keys}) <= 1
\* What no document of the input is about is as it was.
Spares(files, b, s) ==
    LET docs == LoadDocuments(files)
        named == {Object(docs[i].value) : i \in DOMAIN docs}
    IN \A o \in Objects \ named : s[o] = b[o]
=============================================================================
