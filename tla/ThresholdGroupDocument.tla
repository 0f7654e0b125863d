------------------------ MODULE ThresholdGroupDocument ------------------------
(***************************************************************************)
(* `kind: ThresholdGroup` as a document (onmsctl-thresholding/src): what a *)
(* threshold may say, how it is sent and read back, and when a document    *)
(* and a group count as the same.                                          *)
(*                                                                         *)
(* A threshold and an expression differ in what they are about; here both  *)
(* are entries, and their order is the order of evaluation.                *)
(***************************************************************************)
EXTENDS Naturals, Sequences

CONSTANTS Absent

\* The server stores numbers as text: "90.0 as a number" is sent as 90, as text it stays.
Scalars == {"90", "90 as a number", "90.0 as a number", "90.0", "blank"}
ToWire(x) == IF x \in {"90 as a number", "90.0 as a number"} THEN "90" ELSE x

Plain == [type |-> "high", dsType |-> "node", subject |-> 1, value |-> "90", rearm |-> "90",
          trigger |-> 3, operator |-> "absent", relaxed |-> "absent", rearmed |-> "absent",
          filters |-> <<>>]

\* The entries of somebody's document; "subject" is the length of dsName, "trigger" -1 stands
\* for a metadata reference, 0 for what is none and no positive integer.
MaxDsName == 19
Entries ==
    {Plain}
        \cup {[Plain EXCEPT !.type = t, !.rearmed = r] :
                 t \in {"high", "relativeChange", "odd"}, r \in {"absent", "set"}}
        \cup {[Plain EXCEPT !.dsType = t] : t \in {"if", "hwDisk", "blank"}}
        \cup {[Plain EXCEPT !.subject = n] : n \in {0, MaxDsName, MaxDsName + 1}}
        \cup {[Plain EXCEPT !.value = v] : v \in Scalars}
        \cup {[Plain EXCEPT !.trigger = n] : n \in {0, 1}}
        \cup {[Plain EXCEPT !.operator = o, !.relaxed = r] :
                 o \in {"absent", "or", "and", "odd"}, r \in {"absent", "false", "true"}}
        \cup {[Plain EXCEPT !.filters = fs] : fs \in {<<"a", "b">>, <<"b", "a">>, <<"blank">>}}

Document(name, repository, entries) ==
    [name |-> name, repository |-> repository, entries |-> entries]
Two == {Plain, [Plain EXCEPT !.value = "90.0"]}
Written ==
    {Document("ok", "set", <<e>>) : e \in Entries}
        \cup {Document("ok", "set", <<e, f>>) : e, f \in Two}
        \cup {Document("slash", "set", <<Plain>>), Document("ok", "blank", <<Plain>>),
              Document("ok", "set", <<>>)}

-----------------------------------------------------------------------------
\* check_common, check_name and validate.
ValidEntry(e) ==
    /\ e.type # "odd" /\ e.dsType # "blank"
    /\ e.subject \in 1 .. MaxDsName
    /\ e.value # "blank" /\ e.rearm # "blank" /\ e.trigger # 0
    /\ e.operator # "odd"
    /\ \A i \in DOMAIN e.filters : e.filters[i] # "blank"
Valid(doc) ==
    /\ doc.name = "ok" /\ doc.repository = "set"
    /\ \A i \in DOMAIN doc.entries : ValidEntry(doc.entries[i])

\* common_to_wire: defaults are filled in, and what the server does not store is not sent.
NoRearmUei == {"relativeChange", "absoluteChange"}
WireEntry(e) ==
    [e EXCEPT !.value = ToWire(@), !.rearm = ToWire(@),
              !.operator = IF @ = "absent" THEN "or" ELSE @,
              !.relaxed = IF @ = "absent" THEN "false" ELSE @,
              !.rearmed = IF e.type \in NoRearmUei THEN "absent" ELSE @]
Wire(doc) ==
    [name |-> doc.name, repository |-> doc.repository,
     entries |-> [i \in DOMAIN doc.entries |-> WireEntry(doc.entries[i])]]

\* The server: what it stores, the datasource types it knows, and whether the group is that
\* of an extension.
Stored(group) ==
    [group EXCEPT !.entries = [i \in DOMAIN @ |->
        [@[i] EXCEPT !.rearmed = IF group.entries[i].type \in NoRearmUei THEN "absent" ELSE @]]]
Holds(group, readOnly) == [group |-> group, readOnly |-> readOnly, types |-> {"node", "if"}]
Fresh == {Holds(Absent, FALSE), [Holds(Absent, FALSE) EXCEPT !.types = {"node", "if", "hwDisk"}]}
Server ==
    Fresh \cup {Holds(Stored(Wire(d)), FALSE) : d \in {x \in Written : Valid(x) \/ x.name = "slash"}}
          \cup {Holds(Wire(Document("ok", "set", <<Plain>>)), TRUE)}

\* The gates of a plan: datasource types, which the server would not refuse, and groups that
\* cannot be managed.
Accepted(doc, server) ==
    /\ \A i \in DOMAIN doc.entries : doc.entries[i].dsType \in server.types
    /\ ~server.readOnly

\* canonical_group keeps the order of entries and of filters.
Unchanged(doc, server) == server.group # Absent /\ server.group = Wire(doc)
Applied(doc, server) == [server EXCEPT !.group = Stored(Wire(doc))]

\* What --diff shows of a change: entries are matched by their position.
IndexedDiff(before, after) ==
    {i \in DOMAIN before \cup DOMAIN after :
        ~(i \in DOMAIN before /\ i \in DOMAIN after /\ before[i] = after[i])}
Preview(doc, server) ==
    LET b == IF server.group = Absent THEN Document("", "", <<>>) ELSE server.group
    IN [repository |-> b.repository # Wire(doc).repository,
        entries |-> IndexedDiff(b.entries, Wire(doc).entries)]

-----------------------------------------------------------------------------
\* CommonOut: defaults are left out, the server's text is kept as text.
LocalEntry(e) ==
    [e EXCEPT !.operator = IF @ = "or" THEN "absent" ELSE @,
              !.relaxed = IF @ = "false" THEN "absent" ELSE @]
Exported(server) ==
    Document(server.group.name, server.group.repository,
             [i \in DOMAIN server.group.entries |-> LocalEntry(server.group.entries[i])])

\* Groups of an extension are skipped, and counted on stderr.
Exports(server) == IF server.group = Absent \/ server.readOnly THEN {} ELSE {Exported(server)}
ExportCode(server) == IF server.readOnly THEN 1 ELSE 0

-----------------------------------------------------------------------------
\* The group evaluates what the document says, in its order.
Shows(doc, server) ==
    /\ server.group # Absent /\ server.group.repository = doc.repository
    /\ Len(server.group.entries) = Len(doc.entries)
    /\ \A i \in DOMAIN doc.entries :
          LET e == doc.entries[i]  s == server.group.entries[i]
          IN /\ s.type = e.type /\ s.dsType = e.dsType /\ s.subject = e.subject
             /\ s.value = ToWire(e.value) /\ s.trigger = e.trigger /\ s.filters = e.filters
             /\ (s.operator = "and") = (e.operator = "and")
             /\ (s.relaxed = "true") = (e.relaxed = "true")
             /\ e.type \notin NoRearmUei => s.rearmed = e.rearmed

\* The preview of a change has a line for every entry that the server then evaluates
\* otherwise than before.
Tells(doc, before, after) ==
    before.group # Absent =>
        /\ before.group.repository # after.group.repository => Preview(doc, before).repository
        /\ IndexedDiff(before.group.entries, after.group.entries) \subseteq Preview(doc, before).entries

\* A group of an extension is never written.
Spares(doc, before, after) == ~before.readOnly

Carried(server) == server.group # Absent /\ ~server.readOnly /\ server.group.name = "ok"
Same(server, origin) == server.group = origin.group
=============================================================================
