----------------------- MODULE BusinessServiceDocument -----------------------
(***************************************************************************)
(* `kind: BusinessService` as a document (onmsctl-businessservice/src):    *)
(* the rules for functions, edges, node references and templates, how      *)
(* references become ids and templates become reduction keys, and when a   *)
(* document and a service count as the same.                               *)
(*                                                                         *)
(* Of each sort of edge there is at most one; what it refers to exists or  *)
(* not, on the server.                                                     *)
(***************************************************************************)
EXTENDS FiniteSets

CONSTANTS Absent

\* A function is left out, the default spelled out, another with its properties, or one
\* that the rules refuse (an unknown type, a missing or an impossible property).
Functions == {"absent", "default", "ok", "odd"}
Defaulted(f) == IF f = "absent" THEN "default" ELSE f

\* NodeRef: each of the four fields is absent, blank or set.
Given == {"absent", "blank", "set"}
NodeRefs == [label : Given, location : Given, foreignSource : Given, foreignId : Given]
NoRef == [label |-> "absent", location |-> "absent", foreignSource |-> "absent", foreignId |-> "absent"]
ByLabel == [NoRef EXCEPT !.label = "set"]
ByForeign == [NoRef EXCEPT !.foreignSource = "set", !.foreignId = "set"]

Tokens == {"nodeId", "foreignSource", "foreignId", "nodeLabel"}

\* An edge of each sort; "to" is a child or an application by name.
Common == [weight |-> "ok", map |-> "absent", friendly |-> "absent"]
ChildEdge == [to |-> "one", common |-> Common]
IpServiceEdge(node) == [node |-> node, address |-> "ok", common |-> Common]
ReductionKeyEdge(tokens, node) == [tokens |-> tokens, node |-> node, common |-> Common]

Spec(reduce, child, ip, application, key) ==
    [reduce |-> reduce, child |-> child, ip |-> ip, application |-> application, key |-> key,
     attributes |-> "one", name |-> "ok"]
Bare == Spec("absent", {}, {}, {}, {})
Full(f) ==
    LET common == [Common EXCEPT !.map = f]
    IN Spec(f, {[ChildEdge EXCEPT !.common = common]},
            {[IpServiceEdge(ByLabel) EXCEPT !.common = common]},
            {[ChildEdge EXCEPT !.common = common]},
            {[ReductionKeyEdge({"nodeId"}, ByForeign) EXCEPT !.common = common]})

Commons ==
    {[Common EXCEPT !.weight = "odd"], [Common EXCEPT !.friendly = "set"]}
        \cup {[Common EXCEPT !.map = f] : f \in Functions}
Written ==
    {[Bare EXCEPT !.reduce = f] : f \in Functions}
        \cup {Full(f) : f \in Functions} \cup {[Full("ok") EXCEPT !.attributes = "two"]}
        \cup {[Bare EXCEPT !.name = "blank"]}
        \cup {[Bare EXCEPT !.child = {[to |-> n, common |-> c]}] : n \in {"one", "blank"}, c \in Commons}
        \cup {[Bare EXCEPT !.application = {[to |-> n, common |-> c]}] : n \in {"one", "blank"}, c \in Commons}
        \cup {[Bare EXCEPT !.ip = {IpServiceEdge(n)}] : n \in NodeRefs}
        \cup {[Bare EXCEPT !.ip = {[IpServiceEdge(ByForeign) EXCEPT !.address = "odd"]}]}
        \cup {[Bare EXCEPT !.key = {ReductionKeyEdge(ts, n)}] :
                 ts \in SUBSET (Tokens \cup {"unknown"}),
                 n \in {Absent, NoRef, ByLabel, ByForeign, [ByLabel EXCEPT !.location = "set"],
                        [ByForeign EXCEPT !.foreignId = "absent"], [ByForeign EXCEPT !.label = "set"]}}

-----------------------------------------------------------------------------
\* NodeRef::form: by label or by foreign id, not both and not in part; a location goes with
\* a label only.
Form(n) ==
    LET foreign == n.foreignSource # "absent" \/ n.foreignId # "absent"
    IN CASE n.label # "absent" /\ foreign -> "error"
         [] n.label = "set" /\ ~foreign -> "label"
         [] n.label = "absent" /\ n.location = "absent" /\ n.foreignSource = "set"
               /\ n.foreignId = "set" -> "foreign"
         [] OTHER -> "error"

\* validate_template: a token is known, has a node, and the node's form has its value; a
\* node without a token is a mistake.
Derivable(token, n) ==
    CASE token = "nodeId" -> TRUE
      [] token = "nodeLabel" -> n.label # "absent"
      [] OTHER -> n[token] # "absent"
ValidTemplate(e) ==
    /\ e.tokens \subseteq Tokens
    /\ (e.node = Absent) = (e.tokens = {})
    /\ \A t \in e.tokens : Derivable(t, e.node)

ValidCommon(c) == c.weight = "ok" /\ c.map # "odd"

\* BusinessServiceLocal::validate.
Valid(doc) ==
    /\ doc.name = "ok" /\ doc.reduce # "odd"
    /\ \A e \in doc.child \cup doc.application : e.to # "blank" /\ ValidCommon(e.common)
    /\ \A e \in doc.ip : Form(e.node) # "error" /\ e.address = "ok" /\ ValidCommon(e.common)
    /\ \A e \in doc.key :
          /\ ValidCommon(e.common)
          /\ (e.node # Absent => Form(e.node) # "error")
          /\ ValidTemplate(e)

-----------------------------------------------------------------------------
\* What of the references there is on the server.  A label may be that of no node or of
\* several; a list of applications may be cut short.
World == [child |-> TRUE, application |-> "listed", label |-> 1, foreign |-> TRUE, monitored |-> TRUE]
Worlds ==
    {World, [World EXCEPT !.child = FALSE], [World EXCEPT !.foreign = FALSE],
     [World EXCEPT !.monitored = FALSE]}
        \cup {[World EXCEPT !.label = n] : n \in {0, 2}}
        \cup {[World EXCEPT !.application = a] : a \in {"missing", "cut short"}}

\* resolve_node, and the rest of what a plan must resolve.
ResolvesNode(n, world) ==
    IF Form(n) = "label" THEN world.label = 1 ELSE Form(n) = "foreign" /\ world.foreign

\* expand_reduction_key: the node is looked up for {{nodeId}} only.
Expands(e, world) ==
    e.tokens # {} =>
        /\ e.node # Absent
        /\ Form(e.node) # "error"
        /\ "nodeId" \in e.tokens => ResolvesNode(e.node, world)
        /\ \A t \in e.tokens : t \in Tokens /\ Derivable(t, e.node)

\* plan_service.
Accepted(doc, server) ==
    LET world == server.world
    IN /\ doc.child # {} => world.child
       /\ doc.application # {} => world.application = "listed"
       /\ \A e \in doc.ip : ResolvesNode(e.node, world) /\ world.monitored
       /\ \A e \in doc.key : Expands(e, world)

\* BusinessServiceRequest: ids for names, functions never left out.
Dto(f) == Defaulted(f)
RequestCommon(c) == [c EXCEPT !.map = Dto(@)]
Edge(to, c) == [to |-> to, common |-> RequestCommon(c)]
Request(doc) ==
    [reduce |-> Dto(doc.reduce), attributes |-> doc.attributes,
     child |-> {Edge({"child id"}, e.common) : e \in doc.child},
     application |-> {Edge({"application id"}, e.common) : e \in doc.application},
     ip |-> {Edge({"service id"}, e.common) : e \in doc.ip},
     key |-> {Edge(e.tokens, e.common) : e \in doc.key}]

Fresh == {[world |-> w, service |-> Absent] : w \in Worlds}
Server ==
    Fresh \cup
    {[world |-> w, service |-> s] :
        w \in Worlds,
        s \in {Request(Full("ok")), Request(Full("default"))}
              \cup {[Request(Bare) EXCEPT !.reduce = f] : f \in {"absent", "default", "ok"}}
              \cup {[Request(Full("ok")) EXCEPT !.child = {}], [Request(Full("ok")) EXCEPT !.key = {}],
                    [Request(Bare) EXCEPT !.child = {Edge({"child id"}, [Common EXCEPT !.friendly = "absent"])}]}}

\* snapshot_request and snapshot_response: sets of edges, an absent function as the default.
SnapshotEdges(edges) == {[e EXCEPT !.common.map = Defaulted(@)] : e \in edges}
Snapshot(s) ==
    [s EXCEPT !.reduce = Defaulted(@), !.child = SnapshotEdges(@), !.ip = SnapshotEdges(@),
              !.application = SnapshotEdges(@), !.key = SnapshotEdges(@)]

Unchanged(doc, server) ==
    server.service # Absent /\ Snapshot(Request(doc)) = Snapshot(server.service)
Applied(doc, server) == [server EXCEPT !.service = Request(doc)]

-----------------------------------------------------------------------------
\* The service has the document's edges, each with its weight and name and the function
\* that the document says or implies.
Shows(doc, server) ==
    LET s == server.service
        same(edges, declared) ==
            /\ Cardinality(edges) = Cardinality(declared)
            /\ \A e \in edges : \A d \in declared :
                  /\ e.common.friendly = d.common.friendly
                  /\ Defaulted(e.common.map) = Defaulted(d.common.map)
    IN /\ s # Absent
       /\ s.attributes = doc.attributes /\ Defaulted(s.reduce) = Defaulted(doc.reduce)
       /\ same(s.child, doc.child) /\ same(s.ip, doc.ip)
       /\ same(s.application, doc.application) /\ same(s.key, doc.key)
       /\ \A e \in s.key : \A d \in doc.key : e.to = d.tokens

\* A service that was written has every function: the server has no default for one.
Spares(doc, before, after) ==
    after = before \/
    /\ after.service.reduce # "absent"
    /\ \A e \in after.service.child \cup after.service.application \cup after.service.ip
                 \cup after.service.key : e.common.map # "absent"
=============================================================================
