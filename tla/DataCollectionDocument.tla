------------------------ MODULE DataCollectionDocument ------------------------
(***************************************************************************)
(* `kind: DataCollectionSource` as a document (onmsctl-datacollection/src):*)
(* what a source's tree may say, the file that is uploaded for it, and     *)
(* when a document and a source count as the same.  Who includes the       *)
(* source, and its enabled flag, are in DataCollectionApply.               *)
(***************************************************************************)
EXTENDS Naturals, Sequences, SequencesExt

CONSTANTS Absent

\* Types and storage flags are compared without their case.
Lower(s) == CASE s = "Gauge" -> "gauge" [] s = "ALL" -> "all" [] OTHER -> s

Mib(alias) == [oid |-> ".1", alias |-> alias, type |-> "Gauge", maxval |-> Absent]
Group(name) == [name |-> name, ifType |-> "all", mibs |-> <<Mib("a")>>, includes |-> <<>>]
Strategy(params) == [class |-> "Sibling", params |-> params]
ResourceType(name) == [name |-> name, label |-> Absent, storage |-> Absent]
SystemDef(name) == [name |-> name, sysoid |-> Absent, mask |-> Absent, includes |-> <<>>]
ProfileSpec == [name |-> "p", step |-> 300, rras |-> <<"rra">>, flag |-> "all"]
Document(rts, groups, defs) ==
    [name |-> "acme", resourceTypes |-> rts, groups |-> groups, systemDefs |-> defs,
     profiles |-> <<"default">>, profileSpec |-> Absent]
Simple == Document(<<>>, <<Group("cpu")>>, <<>>)

A == <<"a", "one">>
B == <<"b", "two">>
Mibs == {Mib("a"), Mib("b"), [Mib("a") EXCEPT !.type = "gauge"]}
Groups ==
    {[Group("cpu") EXCEPT !.mibs = ms] : ms \in {<<>>} \cup {<<m>> : m \in Mibs} \cup {<<m, n>> : m, n \in Mibs}}
        \cup {[Group("cpu") EXCEPT !.mibs = <<m>>] :
                 m \in {[Mib("a") EXCEPT !.maxval = "100"], [Mib("a") EXCEPT !.type = "odd"], Mib("blank")}}
        \cup {[Group("cpu") EXCEPT !.includes = <<"disk">>], [Group("cpu") EXCEPT !.ifType = "blank"], Group("blank")}
ResourceTypes ==
    {[ResourceType("idx") EXCEPT !.storage = s] :
        s \in {Absent, Strategy(<<>>), Strategy(<<A, B>>), Strategy(<<B, A>>), [Strategy(<<>>) EXCEPT !.class = "blank"]}}
        \cup {[ResourceType("idx") EXCEPT !.label = "an & index"], ResourceType("blank")}
SystemDefs ==
    {[SystemDef("box") EXCEPT !.sysoid = o, !.mask = m, !.includes = is] :
        o \in {Absent, ".1.2"}, m \in {Absent, ".1.2."}, is \in {<<>>, <<"cpu">>, <<"cpu", "cpu">>, <<"disk">>}}
Written ==
    {Document(<<>>, <<g>>, <<>>) : g \in Groups}
        \cup {Document(<<>>, <<Group("cpu"), Group(n)>>, <<>>) : n \in {"disk", "cpu"}}
        \cup {Document(<<>>, <<Group("disk"), Group("cpu")>>, <<>>)}
        \cup {Document(<<rt>>, <<>>, <<>>) : rt \in ResourceTypes}
        \cup {Document(<<>>, <<Group("cpu")>>, <<sd>>) : sd \in SystemDefs}
        \cup {Document(<<>>, <<>>, <<>>), [Simple EXCEPT !.name = "blank"]}
        \cup {[Simple EXCEPT !.profiles = ps, !.profileSpec = sp] :
                 ps \in {<<>>, <<"default">>, <<"p">>, <<"default", "p">>},
                 sp \in {Absent, ProfileSpec, [ProfileSpec EXCEPT !.flag = "ALL"], [ProfileSpec EXCEPT !.flag = "odd"],
                         [ProfileSpec EXCEPT !.step = 0], [ProfileSpec EXCEPT !.step = 60], [ProfileSpec EXCEPT !.rras = <<>>]}}

-----------------------------------------------------------------------------
\* Names of the form <definition>_<bug> are slips the code could have made.

\* validate_tree and validate_profile_spec.
ValidGroup(g) ==
    /\ g.name # "blank" /\ g.ifType # "blank" /\ g.mibs # <<>>
    /\ \A m \in Range(g.mibs) : m.alias # "blank" /\ Lower(m.type) = "gauge"
ValidResourceType(rt) == rt.name # "blank" /\ (rt.storage # Absent => rt.storage.class # "blank")
ValidSystemDef_Both(sd, defined) == Range(sd.includes) \subseteq defined
ValidSystemDef(sd, defined) ==
    /\ sd.sysoid = Absent \/ sd.mask = Absent
    /\ Range(sd.includes) \subseteq defined
ValidProfileSpec(p) == p.step > 0 /\ p.rras # <<>> /\ Lower(p.flag) = "all"
Valid(doc) ==
    /\ doc.name # "blank"
    /\ doc.resourceTypes # <<>> \/ doc.groups # <<>> \/ doc.systemDefs # <<>>
    /\ \A g \in Range(doc.groups) : ValidGroup(g)
    /\ \A rt \in Range(doc.resourceTypes) : ValidResourceType(rt)
    /\ \A sd \in Range(doc.systemDefs) : ValidSystemDef(sd, {g.name : g \in Range(doc.groups)})
    /\ doc.profileSpec # Absent => ValidProfileSpec(doc.profileSpec)

\* to_group_xml: a system definition has one of the two.
Members(doc) ==
    [resourceTypes |-> doc.resourceTypes, groups |-> doc.groups, systemDefs |-> doc.systemDefs]
Tree(doc) ==
    [Members(doc) EXCEPT !.systemDefs = [i \in DOMAIN @ |->
        [@[i] EXCEPT !.mask = IF doc.systemDefs[i].sysoid = Absent THEN @ ELSE Absent]]]

\* Canonical: each kind of member by its name, the last of a name; the parameters of a
\* strategy keep their order.
ByName(members, Fold(_)) ==
    [n \in {m.name : m \in Range(members)} |-> Fold(Last(SelectSeq(members, LAMBDA m : m.name = n)))]
CanonMib(m) == [m EXCEPT !.type = Lower(@)]
CanonGroup(g) == [g EXCEPT !.mibs = {CanonMib(m) : m \in Range(@)}, !.includes = Range(@)]
CanonSd(sd) == [sd EXCEPT !.includes = Range(@)]
CanonRt(rt) == rt
Canonical(t) ==
    [resourceTypes |-> ByName(t.resourceTypes, CanonRt), groups |-> ByName(t.groups, CanonGroup),
     systemDefs |-> ByName(t.systemDefs, CanonSd)]

\* The server: the tree of the source, and the profiles by name, those that include it.
Holds(tree, profiles, included) == [tree |-> tree, profiles |-> profiles, included |-> included]
Default == [name |-> "default", step |-> 300, rras |-> <<"rra">>, flag |-> "select"]
Fresh == {Holds(Absent, {Default}, {})}
Server ==
    Fresh \cup {Holds(Tree(d), {Default}, {"default"}) : d \in {x \in Written : Valid(x)}}
          \cup {Holds(Tree(Simple), {Default, [ProfileSpec EXCEPT !.flag = f, !.step = n]}, {"default"}) :
                   f \in {"ALL", "select"}, n \in {60, 300}}

\* The gates of a plan: a source belongs to some profile, and those it is to belong to exist.
Named(doc) == IF doc.profileSpec = Absent THEN {} ELSE {doc.profileSpec.name}
Accepted(doc, server) ==
    /\ server.tree = Absent => doc.profiles # <<>>
    /\ Range(doc.profiles) \subseteq {p.name : p \in server.profiles} \cup Named(doc)

\* source_unchanged and profile_differs.
SameTree(doc, server) == server.tree # Absent /\ Canonical(Members(doc)) = Canonical(server.tree)
InSync(spec, profiles) ==
    \E p \in profiles : [p EXCEPT !.flag = Lower(@)] = [spec EXCEPT !.flag = Lower(@)]
Settled(doc, server) == doc.profileSpec # Absent => InSync(doc.profileSpec, server.profiles)
Unchanged(doc, server) ==
    SameTree(doc, server) /\ Settled(doc, server) /\ Range(doc.profiles) = server.included

\* A tree that counts as the same is not uploaded, nor a profile in sync sent.
Applied(doc, server) ==
    Holds(IF SameTree(doc, server) THEN server.tree ELSE Tree(doc),
          IF Settled(doc, server) THEN server.profiles
          ELSE {p \in server.profiles : p.name # doc.profileSpec.name} \cup {doc.profileSpec},
          Range(doc.profiles))

\* What --diff shows of a change: the source, the profile and who includes the source.
TreeBit(doc, server) ==
    CASE server.tree = Absent -> "create source"
      [] SameTree(doc, server) -> "tree unchanged"
      [] OTHER -> "replace tree"
Preview(doc, server) ==
    [tree |-> TreeBit(doc, server), profile |-> ~Settled(doc, server),
     attach |-> Range(doc.profiles) \ server.included, detach |-> server.included \ Range(doc.profiles)]

-----------------------------------------------------------------------------
\* The source collects what the document says, into the profiles and with the settings it gives.
Shows(doc, server) ==
    LET Has(g) == <<g.name, g.ifType, {CanonMib(m) : m \in Range(g.mibs)}, Range(g.includes)>>
        Def(sd) == <<sd.name, sd.sysoid, sd.mask, Range(sd.includes)>>
    IN /\ server.tree # Absent
       /\ Range(doc.resourceTypes) \subseteq Range(server.tree.resourceTypes)
       /\ {Has(g) : g \in Range(doc.groups)} \subseteq {Has(g) : g \in Range(server.tree.groups)}
       /\ {Def(sd) : sd \in Range(doc.systemDefs)} \subseteq {Def(sd) : sd \in Range(server.tree.systemDefs)}
       /\ server.included = Range(doc.profiles)
       /\ Settled(doc, server)

\* Profiles that the document does not define keep their settings.
Spares(doc, before, after) ==
    {p \in before.profiles : p.name \notin Named(doc)} \subseteq after.profiles

\* The preview has a bit for whatever the apply changes.
Tells(doc, before, after) ==
    LET p == Preview(doc, before)
    IN /\ before.tree # after.tree => p.tree # "tree unchanged"
       /\ before.profiles # after.profiles => p.profile
       /\ after.included = (before.included \ p.detach) \cup p.attach
=============================================================================
