------------------------ MODULE RequisitionDocument ------------------------
(***************************************************************************)
(* `kind: Requisition` as a document (onmsctl-provisioning/src): export    *)
(* and XML conversion, the three levels of the diff, the decision to       *)
(* rescan, and the bodies of an update.                                    *)
(*                                                                         *)
(* A requisition is a set of nodes by foreign id and, unless it uses the   *)
(* server's default, a definition of its foreign source.  A node stands    *)
(* for one with an interface and a service; "keeps" are the data that the  *)
(* server has of it and documents do not have a field for.                 *)
(***************************************************************************)
EXTENDS FiniteSets, TLC

CONSTANTS Fid, Absent

Shapes == [
    label      |-> {"one", "two"},
    location   |-> {"absent", "set"},
    ip         |-> {"one", "two"},
    primary    |-> {"P", "N"},
    service    |-> {"one", "two", "twice"},
    categories |-> {"none", "sorted", "shuffled", "repeated"},
    assets     |-> {"none", "set"}]
Parts == DOMAIN Shapes
Keeps == {"node", "interface", "service"}

Plain == [label |-> "one", location |-> "absent", ip |-> "one", primary |-> "P",
          service |-> "one", categories |-> "sorted", assets |-> "set"]
Node(parts, keeps) == [parts |-> parts, keeps |-> keeps]
\* Plain with one part, or the interface and its service, of another shape.
Varied == {[Plain EXCEPT ![p] = s] : p \in Parts, s \in UNION {Shapes[p] : p \in Parts}}
Various ==
    {v \in Varied : \A p \in Parts : v[p] \in Shapes[p]}
        \cup {[Plain EXCEPT !.ip = "two", !.service = "two"]}

\* The scan interval and the detectors of a foreign source.
Definition == [interval : {"day", "week"}, detectors : {"ab", "ba", "ab, shuffled parameters"}]
Default == [interval |-> "day", detectors |-> "ab"]

\* Requisitions of such nodes, one of them at most unlike the others.
Over(nodes, common) ==
    {[f \in F |-> IF f = g THEN n ELSE common] : F \in SUBSET Fid, g \in Fid, n \in nodes}

\* provisiond: what it looked at when it last scanned a node.
Names(service) == IF service = "two" THEN "two" ELSE "one"
Effective(fs) == IF fs = Absent THEN Default ELSE fs
Detectors(fs) == IF Effective(fs).detectors = "ba" THEN "ba" ELSE "ab"
Inputs(node, fs) ==
    [location |-> node.parts.location, ip |-> node.parts.ip, primary |-> node.parts.primary,
     service |-> Names(node.parts.service), detectors |-> Detectors(fs)]
Requisition(nodes, fs) ==
    [nodes |-> nodes, fs |-> fs, scanned |-> [f \in DOMAIN nodes |-> Inputs(nodes[f], fs)]]

Server ==
    {Requisition(n, fs) : n \in Over({Node(v, k) : v \in Various, k \in {{}, Keeps}}, Node(Plain, {})),
                          fs \in {Absent, Default}}
        \cup {Requisition([f \in Fid |-> Node(Plain, {})], fs) : fs \in Definition}
        \cup {[nodes |-> Absent, fs |-> fs, scanned |-> Absent] : fs \in {Absent, Default}}

-----------------------------------------------------------------------------
\* A server without the requisition.
Fresh == {s \in Server : s.nodes = Absent}

\* Names of the form <definition>_<bug> are slips the code could have made.

\* node_from_wire and interface_from_wire; convert_node and convert_interface of a file, in
\* which an empty location counts as none.
FromWire(parts) == [parts EXCEPT !.primary = IF @ = "odd" THEN "omitted" ELSE @]
FromFile(parts) == [FromWire(parts) EXCEPT !.location = IF @ = "empty" THEN "absent" ELSE @]

Local(nodes) == [f \in DOMAIN nodes |-> FromWire(nodes[f].parts)]

\* requisition_from_wire, and --include-defaults.
Document(nodes, fs, repeats) ==
    [nodes |-> nodes, fs |-> fs, repeats |-> repeats, annotation |-> [f \in {} |-> {}]]
Exported(server) == Document(Local(server.nodes), server.fs, FALSE)
Exports(server) ==
    IF server.nodes = Absent THEN {}
    ELSE {Exported(server), [Exported(server) EXCEPT !.fs = Effective(server.fs)]}

\* XML files can have more: a letter that is none of the three, an empty location, the same
\* foreign id twice, and a "child" element named like an attribute that documents have no
\* field for.  A foreign source may have no requisition.
Orphan == [nodes |-> Absent, fs |-> Default, repeats |-> FALSE]
File ==
    {[nodes |-> n, fs |-> fs, repeats |-> r] :
        n \in Over({Node(v, k) : k \in {{}, {"service"}, {"child"}, {"node", "child"}},
                    v \in {Plain, [Plain EXCEPT !.primary = "odd"],
                           [Plain EXCEPT !.location = "empty"]}}, Node(Plain, {})),
        fs \in {Absent, Default}, r \in BOOLEAN}
    \cup {Orphan}

\* convert_requisition_xml and convert_directory: the findings on a file.
Unmodeled(file) == {f \in DOMAIN file.nodes : file.nodes[f].keeps # {}}
NodeFindings(file) ==
    {"PR001" : f \in Unmodeled(file)}
        \cup {"PR005" : f \in {g \in DOMAIN file.nodes : file.nodes[g].parts.primary = "odd"}}
Findings(file) ==
    IF file = Orphan THEN {"PR002"}
    ELSE NodeFindings(file) \cup (IF file.fs = Absent THEN {"PR004"} ELSE {})
Informational == {"PR004"}
ExitCode(file) == IF Findings(file) \subseteq Informational THEN 0 ELSE 1

\* record_extras: of an attribute and a child of the same name, the attribute is recorded.
Recorded(keeps) == IF "node" \in keeps THEN keeps \ {"child"} ELSE keeps
\* flag_unmodeled: the document is annotated, node by node, with what it has no field for.
Annotation(file) == [f \in Unmodeled(file) |-> Recorded(file.nodes[f].keeps)]

\* build_local.
Built(file) ==
    [Document([f \in DOMAIN file.nodes |-> FromFile(file.nodes[f].parts)], file.fs, file.repeats)
        EXCEPT !.annotation = Annotation(file)]
Converted(file) == IF file = Orphan THEN {} ELSE {Built(file)}

\* deserialize_nodes_strict.
Valid(doc) == ~doc.repeats

\* interface_to_wire sends an omitted snmpPrimary as N; requisition_to_wire leaves the
\* annotation out.
ToWire(parts) == [parts EXCEPT !.primary = IF @ = "omitted" THEN "N" ELSE @]
Body(doc) == [f \in DOMAIN doc.nodes |-> ToWire(doc.nodes[f])]

\* preserve_unmodeled: the node by foreign id, the interface by address, the service by name.
Preserved_Node(parts, live) == live.keeps \cap {"node"}
Preserved(parts, live) ==
    LET sameIp == parts.ip = live.parts.ip
    IN {k \in live.keeps :
           \/ k = "node"
           \/ k = "interface" /\ sameIp
           \/ k = "service" /\ sameIp /\ Names(parts.service) = Names(live.parts.service)}

\* canonicalize: sets are sorted and lose what they repeat; detectors keep their order.
CanonicalPart(shape) == IF shape \in {"shuffled", "repeated"} THEN "sorted" ELSE shape
Canonical(parts) ==
    [p \in Parts |-> IF p = "service" THEN Names(parts[p]) ELSE CanonicalPart(parts[p])]

\* build_local_composite and build_remote_composite substitute the default definition.
Composite(fs) == [interval |-> Effective(fs).interval, detectors |-> Detectors(fs)]

\* diff_requisition: the paths of the leaves that differ; a node of one side is "nodes".
RemoteNodes(server) ==
    IF server.nodes = Absent THEN Local([f \in {} |-> Node(Plain, {})]) ELSE Local(server.nodes)
ChangedParts(l, r) == {p \in Parts : Canonical(l)[p] # Canonical(r)[p]}
Leaves(doc, server) ==
    LET remote == RemoteNodes(server)
        both == DOMAIN doc.nodes \cap DOMAIN remote
    IN UNION {ChangedParts(doc.nodes[f], remote[f]) : f \in both}
       \cup (IF DOMAIN doc.nodes # DOMAIN remote THEN {"nodes"} ELSE {})
       \cup {x \in DOMAIN Composite(doc.fs) : Composite(doc.fs)[x] # Composite(server.fs)[x]}

\* classify_leaf, aggregate_rescan_decision.
Irrelevant == {"label", "categories", "assets", "interval"}
Rescan(leaves) == leaves \ Irrelevant # {}

\* classify_fs_action.
FsAction(doc, server) ==
    LET changed == Composite(doc.fs) # Composite(server.fs)
    IN CASE server.fs = Absent /\ doc.fs = Absent -> "none"
         [] server.fs # Absent /\ doc.fs = Absent -> "delete"
         [] server.fs # Absent /\ doc.fs # Absent /\ ~changed -> "none"
         [] OTHER -> "post"

Unchanged(doc, server) ==
    /\ Leaves(doc, server) = {}
    /\ server.nodes # Absent
    /\ FsAction(doc, server) = "none"

\* execute_plan, served in full, and the import that it triggers: provisiond looks at new
\* nodes, and at all of them when it rescans.
Applied(doc, server) ==
    LET live == IF server.nodes = Absent THEN {} ELSE DOMAIN server.nodes
        nodes == [f \in DOMAIN doc.nodes |->
                     Node(Body(doc)[f],
                          IF f \in live THEN Preserved(doc.nodes[f], server.nodes[f]) ELSE {})]
        fs == CASE FsAction(doc, server) = "post" -> doc.fs
                [] FsAction(doc, server) = "delete" -> Absent
                [] OTHER -> server.fs
        rescan == Rescan(Leaves(doc, server))
    IN [nodes |-> nodes, fs |-> fs,
        scanned |-> [f \in DOMAIN nodes |->
                        IF rescan \/ f \notin live THEN Inputs(nodes[f], fs)
                        ELSE server.scanned[f]]]

-----------------------------------------------------------------------------
\* Documents that somebody wrote.
Written ==
    {Document(n, fs, FALSE) :
        n \in Over(Various \cup {[Plain EXCEPT !.primary = "omitted"]}, Plain),
        fs \in {Absent, Default}}
    \cup {Document([f \in Fid |-> Plain], fs, r) : fs \in Definition, r \in BOOLEAN}

\* The server always stores a letter: a document that leaves snmpPrimary out differs from
\* what its own apply has stored.
Settles(doc) == \A f \in DOMAIN doc.nodes : doc.nodes[f].primary # "omitted"

\* The server shows the document, and provisiond has looked at all of it.
Shows(doc, server) ==
    /\ server.nodes # Absent /\ DOMAIN server.nodes = DOMAIN doc.nodes
    /\ \A f \in DOMAIN doc.nodes :
          Canonical(server.nodes[f].parts) = Canonical(ToWire(doc.nodes[f]))
    /\ (server.fs = Absent) = (doc.fs = Absent)
    /\ Composite(server.fs) = Composite(doc.fs)
    /\ \A f \in DOMAIN server.nodes : server.scanned[f] = Inputs(server.nodes[f], server.fs)

\* What an update must leave alone: the data of each node, interface and service that the
\* document still has.
Spares(doc, before, after) ==
    before.nodes # Absent => \A f \in DOMAIN before.nodes \cap DOMAIN after.nodes :
        LET b == before.nodes[f]  a == after.nodes[f]
        IN /\ "node" \in b.keeps => "node" \in a.keeps
           /\ "interface" \in b.keeps /\ a.parts.ip = b.parts.ip => "interface" \in a.keeps
           /\ "service" \in b.keeps /\ a.parts.ip = b.parts.ip
                  /\ Names(a.parts.service) = Names(b.parts.service) => "service" \in a.keeps

\* What documents have a field for; files that parse, though only a document is checked.
Carried(origin) ==
    origin.nodes # Absent
        /\ ("repeats" \in DOMAIN origin => ~origin.repeats)

\* Two servers hold the same as far as documents can tell.
Same(server, origin) ==
    /\ server.nodes # Absent /\ DOMAIN server.nodes = DOMAIN origin.nodes
    /\ \A f \in DOMAIN origin.nodes :
          Canonical(server.nodes[f].parts) = Canonical(FromFile(origin.nodes[f].parts))
    /\ Composite(server.fs) = Composite(origin.fs)
=============================================================================
