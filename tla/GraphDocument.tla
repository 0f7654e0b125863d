--------------------------- MODULE GraphDocument ---------------------------
(***************************************************************************)
(* `kind: Graph` as a document (onmsctl-graph/src): how GraphML is read    *)
(* into the model, what reading drops or moves and whether it says so, how *)
(* the model is written back, the rules for a document, and when a         *)
(* document and an upload count as the same.                               *)
(*                                                                         *)
(* Text is a token: "ok" is a value that the model has, "odd" one that it  *)
(* does not know, "key" stands for any <data> whose key it does not know.  *)
(***************************************************************************)
EXTENDS Naturals, Sequences, SequencesExt

CONSTANTS Absent

\* RawGraph and RawEdge: a <graph>, its <node>s, and the <edge>s, which may stand in any graph.
Node(id) == [id |-> id, level |-> "absent", ref |-> "absent", other |-> "absent"]
RawGraph(ns, nodes) ==
    [ns |-> ns, crumb |-> "absent", zoom |-> "absent", status |-> "absent", strategy |-> "absent",
     ids |-> Absent, nodes |-> nodes, other |-> "absent"]
RawEdge(graph, id, source, target) ==
    [graph |-> graph, id |-> id, source |-> source, target |-> target, other |-> "absent"]
Graphml(graphs, edges) ==
    [readable |-> TRUE, container |-> "ok", first |-> "ok", crumb |-> "absent", other |-> "absent",
     graphs |-> graphs, edges |-> edges]

Two == <<RawGraph("a", <<Node("v"), Node("w")>>), RawGraph("b", <<Node("x")>>)>>
Plain == Graphml(Two, <<RawEdge(1, "default", "v", "w")>>)

\* An id may be the default of the edge, <source>-<target>, spelled out or left out.
Ids == {"absent", "default", "own"}
OneEdge == {<<RawEdge(g, i, s, t)>> : g \in 1 .. 2, i \in Ids, s, t \in {"v", "x", "unknown"}}
SomeEdges == {RawEdge(g, "absent", s, "w") : g \in 1 .. 2, s \in {"v", "x"}}
Focuses == {"absent", "ALL", "SPECIFIC", "odd"} \X {Absent, <<>>, <<"v">>, <<"x">>, <<"w", " v">>}
Crumbs == {"absent", "ok", "odd"}
InGraph ==
    {[Two[1] EXCEPT !.strategy = f[1], !.ids = f[2]] : f \in Focuses}
        \cup {[Two[1] EXCEPT !.zoom = s] : s \in {"ok", "odd"}}
        \cup {[Two[1] EXCEPT !.status = s] : s \in {"ok", "legacy", "odd"}}
        \cup {[Two[1] EXCEPT !.ns = s] : s \in {"b", "empty"}}
        \cup {[Two[1] EXCEPT !.other = "key"]}
        \cup {[Two[1] EXCEPT !.nodes[1] = n] :
                 n \in {[Node("v") EXCEPT !.level = s] : s \in {"ok", "odd"}}
                       \cup {[Node("v") EXCEPT !.ref = s] : s \in {"ok", "half", "empty"}}
                       \cup {[Node("v") EXCEPT !.other = "key"], Node("x"), Node("empty")}}
Stored ==
    {[Plain EXCEPT !.graphs[1] = g] : g \in InGraph}
        \cup {[Plain EXCEPT !.crumb = c, !.graphs[1].crumb = d] : c, d \in Crumbs}
        \cup {[Plain EXCEPT !.readable = FALSE], [Plain EXCEPT !.graphs = <<>>, !.edges = <<>>]}
        \cup {[Plain EXCEPT !.container = c] : c \in {"odd", "absent"}}
        \cup {[Plain EXCEPT !.edges[1].graph = 2, !.edges[1].id = i] : i \in Ids}
Fresh == {Absent}
Server == Fresh \cup Stored
File ==
    Stored \cup {[Plain EXCEPT !.edges = es] : es \in OneEdge \cup SomeEdges \X SomeEdges}
        \cup {[Plain EXCEPT !.crumb = c, !.graphs[1].crumb = d, !.graphs[2].crumb = e] : c, d, e \in Crumbs}
        \cup {[Plain EXCEPT !.container = c, !.first = n] : c, n \in {"ok", "odd", "absent"}}
        \cup {[Plain EXCEPT !.other = "key"], [Plain EXCEPT !.edges[1].other = "key"]}

-----------------------------------------------------------------------------
\* A value that the model knows is kept.
Known(value) == IF value = "odd" THEN "absent" ELSE value

\* focus-ids is a list between commas; blanks around an id are not part of it.
Trim(id) == IF id = " v" THEN "v" ELSE id
Split(ids) ==
    FlattenSeq([i \in DOMAIN ids |-> IF ids[i] = "v,w" THEN <<"v", "w">> ELSE <<Trim(ids[i])>>])

\* build_layer: the ids are kept with SPECIFIC only.
Focus(g) ==
    CASE g.strategy = "SPECIFIC" ->
            [strategy |-> "SPECIFIC", vertices |-> IF g.ids = Absent THEN <<>> ELSE Split(g.ids)]
      [] g.strategy = "ALL" -> [strategy |-> "ALL", vertices |-> <<>>]
      [] OTHER -> Absent

\* build_vertex: a reference needs both of its halves.
Vertex(n) ==
    [id |-> n.id, level |-> Known(n.level), ref |-> IF n.ref = "half" THEN "absent" ELSE n.ref]

\* canonical: an id that spells out the default is left out.
CanonicalEdge(e) == [e EXCEPT !.id = IF @ = "default" THEN "absent" ELSE @]
Canonical(spec) ==
    [spec EXCEPT !.layers = [i \in DOMAIN @ |->
        [@[i] EXCEPT !.edges = [j \in DOMAIN @ |-> CanonicalEdge(@[j])]]]]

\* An edge belongs to the layer of its source.
Has(graph, id) == \E i \in DOMAIN graph.nodes : graph.nodes[i].id = id
LayerOf(x, e) ==
    LET with == {i \in DOMAIN x.graphs : Has(x.graphs[i], e.source)}
    IN IF with = {} THEN e.graph ELSE CHOOSE i \in with : \A j \in with : j <= i
EdgesOf(x, i) ==
    LET own == SelectSeq(x.edges, LAMBDA e : LayerOf(x, e) = i)
    IN [j \in DOMAIN own |-> [id |-> own[j].id, source |-> own[j].source, target |-> own[j].target]]

\* A breadcrumb-strategy of a graph is lifted to a document that has none yet.
Lifted(x) ==
    LET crumbs == <<Known(x.crumb)>> \o [i \in DOMAIN x.graphs |-> Known(x.graphs[i].crumb)]
        known == {i \in DOMAIN crumbs : crumbs[i] # "absent"}
    IN IF known = {} THEN "absent" ELSE "ok"

Parse(x) ==
    Canonical([crumb |-> Lifted(x),
               layers |-> [i \in DOMAIN x.graphs |->
                   LET g == x.graphs[i]
                   IN [ns |-> g.ns, zoom |-> Known(g.zoom), focus |-> Focus(g),
                       status |-> IF g.status = "legacy" THEN "ok" ELSE Known(g.status),
                       vertices |-> [j \in DOMAIN g.nodes |-> Vertex(g.nodes[j])],
                       edges |-> EdgesOf(x, i)]]])

\* Every step that drops or rewrites something warns, but for an edge that moves.
WarnsOfNode(n) == n.level = "odd" \/ n.other = "key" \/ n.ref = "half"
WarnsOfGraph(g) ==
    \/ "odd" \in {g.zoom, g.status, g.strategy} \/ g.status = "legacy" \/ g.other = "key"
    \/ g.crumb # "absent"
    \/ g.ids # Absent /\ g.strategy # "SPECIFIC"
    \/ \E i \in DOMAIN g.nodes : WarnsOfNode(g.nodes[i])
Warns(x) ==
    \/ x.crumb = "odd" \/ x.other = "key"
    \/ \E i \in DOMAIN x.graphs : WarnsOfGraph(x.graphs[i])
    \/ \E i \in DOMAIN x.edges : x.edges[i].other = "key"

\* render: what is written of a document.
Render(doc) ==
    LET layers == doc.spec.layers
        raw(i) == [ns |-> layers[i].ns, crumb |-> "absent", zoom |-> layers[i].zoom,
                   status |-> layers[i].status, other |-> "absent",
                   strategy |-> IF layers[i].focus = Absent THEN "absent" ELSE layers[i].focus.strategy,
                   ids |-> IF layers[i].focus = Absent THEN Absent
                           ELSE IF layers[i].focus.vertices = <<>> THEN Absent
                           ELSE layers[i].focus.vertices,
                   nodes |-> [j \in DOMAIN layers[i].vertices |->
                                 [Node(layers[i].vertices[j].id) EXCEPT
                                     !.level = layers[i].vertices[j].level,
                                     !.ref = layers[i].vertices[j].ref]]]
        edges(i) == [j \in DOMAIN layers[i].edges |->
                        LET e == layers[i].edges[j]
                        IN RawEdge(i, IF e.id = "absent" THEN "default" ELSE e.id, e.source, e.target)]
    IN [Graphml([i \in DOMAIN layers |-> raw(i)], FlattenSeq([i \in DOMAIN layers |-> edges(i)]))
           EXCEPT !.crumb = doc.spec.crumb]

-----------------------------------------------------------------------------
Document(name, spec) == [name |-> name, spec |-> spec]

\* fetch_doc names the document as the upload.
Exported(server) == Document("ok", Parse(server))
Exports(server) ==
    IF server = Absent THEN {} ELSE IF server.readable THEN {Exported(server)} ELSE {}
ExportCode(server) ==
    IF server = Absent THEN 2 ELSE IF ~server.readable THEN 2 ELSE IF Warns(server) THEN 1 ELSE 0

\* convert_file names it as the container that the server would create.
Name(x) == IF x.container # "absent" THEN x.container
           ELSE IF x.graphs = <<>> THEN "absent" ELSE x.first
Converted(x) == IF x.readable /\ Name(x) # "absent" THEN {Document(Name(x), Parse(x))} ELSE {}
ExitCode(x) ==
    IF Converted(x) = {} THEN 2 ELSE IF Warns(x) \/ Name(x) = "odd" THEN 1 ELSE 0

\* validate.
VertexIds(layer) == {layer.vertices[j].id : j \in DOMAIN layer.vertices}
EffectiveId(e) == IF e.id = "own" THEN <<"own">> ELSE <<e.source, e.target>>
ValidFocus(layer) ==
    layer.focus # Absent =>
        /\ (layer.focus.strategy = "SPECIFIC") = (layer.focus.vertices # <<>>)
        /\ Range(layer.focus.vertices) \subseteq VertexIds(layer) \ {"v,w"}
Valid(doc) ==
    LET layers == doc.spec.layers
        vertices == FlattenSeq([i \in DOMAIN layers |-> layers[i].vertices])
        edges == FlattenSeq([i \in DOMAIN layers |-> layers[i].edges])
        distinct(s, key(_)) == \A i, j \in DOMAIN s : key(s[i]) = key(s[j]) => i = j
    IN /\ doc.name = "ok" /\ layers # <<>>
       /\ \A i \in DOMAIN layers : layers[i].ns # "empty" /\ ValidFocus(layers[i])
       /\ distinct(layers, LAMBDA l : l.ns)
       /\ distinct(vertices, LAMBDA v : v.id)
       /\ \A j \in DOMAIN vertices : vertices[j].id # "empty" /\ vertices[j].ref # "empty"
       /\ \A i \in DOMAIN layers : \A j \in DOMAIN layers[i].edges :
             /\ layers[i].edges[j].source \in VertexIds(layers[i])
             /\ layers[i].edges[j].target \in {v.id : v \in Range(vertices)}
       /\ distinct(edges, EffectiveId)

\* The plan compares canonical specs, and that the container is named as the upload.
Unchanged(doc, server) ==
    /\ server # Absent
    /\ server.readable /\ server.container = "ok" /\ Parse(server) = Canonical(doc.spec)
Applied(doc, server) == Render([doc EXCEPT !.spec = Canonical(@)])

-----------------------------------------------------------------------------
\* Documents that somebody wrote: what files can be turned into, and what only YAML has.
Spec == Parse(Plain)
Focused(ids) ==
    [Spec EXCEPT !.layers[1].vertices[1].id = ids[1], !.layers[1].edges = <<>>,
                 !.layers[1].focus = [strategy |-> "SPECIFIC", vertices |-> ids]]
Written ==
    {Document("ok", Parse(x)) : x \in Stored}
        \cup {Document("ok", Focused(<<id>>)) : id \in {" v", "v,w"}}
        \cup {Document("ok", [Spec EXCEPT !.layers[1].edges = es]) :
                 es \in {<<CanonicalEdge(e), [CanonicalEdge(e) EXCEPT !.id = i]>> :
                            e \in {Spec.layers[1].edges[1]}, i \in Ids}}
        \cup {Document("ok", [Spec EXCEPT !.layers[1].focus = [strategy |-> "ALL", vertices |-> <<"v">>]]),
              Document("odd", Spec)}

\* The id of a vertex in focus loses its blanks on the way: such a document never settles.
Padded(doc) ==
    \E i \in DOMAIN doc.spec.layers :
        LET f == doc.spec.layers[i].focus
        IN f # Absent /\ \E j \in DOMAIN f.vertices : Trim(f.vertices[j]) # f.vertices[j]
Settles(doc) == ~Padded(doc)

\* The upload reads as the document and carries its name.
Shows(doc, server) ==
    /\ server # Absent /\ server.container = "ok"
    /\ server.readable /\ (Padded(doc) \/ Parse(server) = Canonical(doc.spec))

\* What the server loads under a name of its own: namespaces and ids that are given and
\* unique, edges between vertices, a focus on vertices of the graph.
Carried(x) ==
    /\ x # Absent /\ x.readable /\ x.container = "ok" /\ x.graphs # <<>>
    /\ LET nodes == FlattenSeq([i \in DOMAIN x.graphs |-> x.graphs[i].nodes])
           ids == {n.id : n \in Range(nodes)}
       IN /\ \A i, j \in DOMAIN nodes : nodes[i].id = nodes[j].id => i = j
          /\ \A n \in Range(nodes) : n.id # "empty" /\ n.ref # "empty"
          /\ \A e \in Range(x.edges) : {e.source, e.target} \subseteq ids
          /\ \A i, j \in DOMAIN x.edges : EffectiveId(x.edges[i]) = EffectiveId(x.edges[j]) => i = j
    /\ \A i \in DOMAIN x.graphs :
          LET g == x.graphs[i]
          IN /\ g.ns # "empty" /\ \A j \in DOMAIN x.graphs : x.graphs[j].ns = g.ns => i = j
             /\ g.strategy = "SPECIFIC" =>
                   /\ g.ids \notin {Absent, <<>>}
                   /\ \A j \in DOMAIN g.ids : \E n \in Range(g.nodes) : n.id = Trim(g.ids[j])

\* The same graphs, element by element; edges where their source is.
Elements(x) ==
    [crumb |-> x.crumb, other |-> x.other,
     graphs |-> [i \in DOMAIN x.graphs |->
                    [x.graphs[i] EXCEPT !.ids = IF @ = Absent THEN <<>> ELSE Split(@)]],
     edges |-> [i \in DOMAIN x.graphs |->
                   SelectSeq([j \in DOMAIN x.edges |->
                                 [x.edges[j] EXCEPT !.graph = LayerOf(x, x.edges[j]),
                                                    !.id = IF @ = "absent" THEN "default" ELSE @]],
                             LAMBDA e : e.graph = i)]]
Same(server, origin) == Elements(server) = Elements(origin)
=============================================================================
