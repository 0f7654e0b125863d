------------------------ MODULE EventSourceDocument ------------------------
(***************************************************************************)
(* `kind: EventSource` as a document (onmsctl-eventconf/src): how the      *)
(* events of a source go from YAML to the wire, to eventconf XML and back, *)
(* what `convert`, `download --format yaml` and `export` report on the     *)
(* way, and when a document and a source count as the same.                *)
(*                                                                         *)
(* An event is a UEI and the shape of each of its parts.  "ok" is a part   *)
(* that a document can carry as it is; the other shapes are those that one *)
(* of the conversions treats on its own.                                   *)
(***************************************************************************)
EXTENDS Naturals, Sequences, SequencesExt

CONSTANTS Uei, Absent

\* The parts of an <event>, in the order in which they are converted, and their shapes:
\*   "broken" lacks something that the schema requires, "odd" has something it refuses,
\*   "bare" has no state, "extra" carries an attribute or a text that documents have no
\*   field for, "padded" is a text between blanks, "empty" a text of no characters,
\*   "partial" a list with an incomplete entry and "hollow" one with no other;
\*   "other" stands for the elements that are not modelled.
Shapes == [
    label           |-> {"ok", "broken", "odd"},
    severity        |-> {"ok", "broken", "odd", "other case"},
    descr           |-> {"absent", "ok"},
    logmsg          |-> {"absent", "ok", "broken", "padded"},
    alarmData       |-> {"absent", "ok", "broken", "odd", "out of range"},
    mask            |-> {"absent", "ok", "broken", "odd"},
    operinstruct    |-> {"absent", "ok", "empty"},
    autoacknowledge |-> {"absent", "ok", "odd", "bare"},
    tticket         |-> {"absent", "ok", "odd", "bare", "extra"},
    correlation     |-> {"absent", "ok", "odd", "bare", "extra"},
    varbindsdecode  |-> {"absent", "ok", "odd"},
    snmp            |-> {"absent", "ok", "odd"},
    parameters      |-> {"absent", "ok", "odd", "partial", "hollow"},
    scripts         |-> {"absent", "ok", "odd", "partial", "hollow"},
    filters         |-> {"absent", "ok", "odd", "partial", "hollow"},
    forwards        |-> {"absent", "ok", "odd"},
    other           |-> {"absent", "ok"}]
Parts == DOMAIN Shapes
Required == {"label", "severity"}

Plain == [p \in Parts |-> IF p \in Required THEN "ok" ELSE "absent"]
Event(u, parts) == [uei |-> u, parts |-> parts]
With(p, shape) == [Plain EXCEPT ![p] = shape]

\* What a source can hold: each shape of each part, and two events that may share a UEI.
XmlEvent == {Event(u, With(p, s)) : u \in Uei, p \in Parts, s \in UNION {Shapes[p] : p \in Parts}}
OneEvent == {<<e>> : e \in {x \in XmlEvent : \A p \in Parts : x.parts[p] \in Shapes[p]}}
TwoEvents == LET of == {Event(u, With(p, "ok")) : u \in Uei, p \in {"descr", "snmp", "other"}}
             IN of \X of
Source == [events : {<<>>} \cup OneEvent \cup TwoEvents, enabled : BOOLEAN, name : {"ok"}]
Fresh == {Absent}
Server == Fresh \cup Source

\* The name of a source, or that of a file without its extension: "odd" is one that the
\* converter refuses, "dots" one that only the validation of documents does.
Name == {"ok", "odd", "reserved", "dots"}
File ==
    Source \cup {[events |-> <<Event(u, Plain)>>, enabled |-> TRUE, name |-> n] :
                   u \in Uei, n \in Name}

-----------------------------------------------------------------------------
\* XmlEvent to Event: elements that are not modelled are skipped.
Read(events) == [i \in DOMAIN events |-> [events[i] EXCEPT !.parts["other"] = "absent"]]

\* TryFrom<&Event> for EventDef, part by part.  A part without its state counts as absent;
\* what documents have no field for is left behind; lists lose their incomplete entries.
Stated == {"autoacknowledge", "tticket", "correlation"}
Lists == {"parameters", "scripts", "filters", "forwards"}
StateFromWire(shape) ==
    CASE shape = "bare" -> "absent" [] shape = "extra" -> "ok" [] OTHER -> shape
ListFromWire(shape) ==
    CASE shape = "partial" -> "short" [] shape = "hollow" -> "none" [] OTHER -> shape
TextFromWire(shape) ==
    CASE shape = "padded" -> "ok" [] shape = "empty" -> "absent" [] OTHER -> shape

\* An alarm type is a number on the wire and, once serialized, a word in a document, which
\* may also say it as a number.
AlarmFromWire(shape) == IF shape = "ok" THEN "word" ELSE shape
AlarmToWire(shape) == IF shape = "word" THEN "ok" ELSE shape

\* EC005: a severity is given the case that the schema has.
Normalized(shape) == IF shape = "other case" THEN "ok" ELSE shape

ToLocal(e) ==
    Event(e.uei, [p \in Parts |->
        CASE p \in Stated -> StateFromWire(e.parts[p])
          [] p \in Lists -> ListFromWire(e.parts[p])
          [] p = "severity" -> Normalized(e.parts[p])
          [] p = "alarmData" -> AlarmFromWire(e.parts[p])
          [] OTHER -> TextFromWire(e.parts[p])])

\* The error that ends the conversion of an event, if any.
Fails(e) == \E p \in Parts : e.parts[p] \in {"broken", "out of range"}
Failure(e) ==
    IF \A p \in {"label", "severity", "logmsg"} : e.parts[p] # "broken" /\ e.parts["alarmData"] = "out of range"
    THEN "EC007" ELSE "EC004"

Document(events, enabled, name) == [events |-> events, enabled |-> enabled, name |-> name]

\* EventSourceLocal::validate.
ValidName(name) == name = "ok"
ValidPart(shape) == shape # "odd"
ValidState(shape) == shape # "odd"
ValidEvent(e) ==
    \A p \in Parts : IF p \in Stated THEN ValidState(e.parts[p]) ELSE ValidPart(e.parts[p])
Valid(doc) ==
    /\ ValidName(doc.name)
    /\ doc.events # <<>>
    /\ \A i \in DOMAIN doc.events : ValidEvent(doc.events[i])

\* convert: what it makes of the events that it can, always in an enabled source.
Assembled(source) ==
    LET convertible == SelectSeq(Read(source.events), LAMBDA e : ~Fails(e))
    IN Document([i \in DOMAIN convertible |-> ToLocal(convertible[i])], TRUE, source.name)

\* And what it finds: in its name, which ends it; in the elements of its events, in their
\* parts and in what it has made of them.
NameFinding(source) ==
    CASE source.name = "odd" -> {"EC008"} [] source.name = "reserved" -> {"EC003"} [] OTHER -> {}
Modelled == Parts \ {"other"}
DirectChildren(e) == {p \in Parts : e.parts[p] # "absent"}
Unmodelled(source) ==
    {"EC001" : e \in {x \in Range(source.events) : ~(DirectChildren(x) \subseteq Modelled)}}
EventFindings(source) ==
    {Failure(e) : e \in {x \in Range(source.events) : Fails(x)}}
        \cup {"EC005" : e \in {x \in Range(source.events) : x.parts["severity"] = "other case"}}
Findings(source) ==
    LET found == Unmodelled(source) \cup EventFindings(source)
    IN CASE NameFinding(source) # {} -> NameFinding(source)
         [] NameFinding(source) = {} /\ source.events = <<>> -> {"EC002"}
         [] OTHER ->
              IF "EC004" \in found \/ Valid(Assembled(source)) THEN found
              ELSE found \cup {"EC006"}
Warnings == {"EC001", "EC005"}

ExitCode(source) ==
    IF ~(Findings(source) \subseteq Warnings) THEN 2
    ELSE IF Findings(source) # {} THEN 1 ELSE 0

\* An error withholds the document.
Converted(source) == IF ExitCode(source) = 2 THEN {} ELSE {Assembled(source)}

\* export_by_selector: a source that is not there is an error.
Exported(server) == Assembled(server)
Exports(server) == IF server = Absent THEN {} ELSE Converted(server)
ExportCode(server) == IF server = Absent THEN 2 ELSE ExitCode(server)

-----------------------------------------------------------------------------
\* From<&EventDef> for Event, then From<&Event> for XmlEvent: an empty list is no element.
Element(shape) == IF shape = "none" THEN "absent" ELSE shape
ToXml(e) ==
    Event(e.uei, [p \in Parts |->
        IF p = "alarmData" THEN AlarmToWire(e.parts[p]) ELSE Element(e.parts[p])])
Rendered(events) == [i \in DOMAIN events |-> ToXml(events[i])]

\* xml_canonical: read and rendered again.
Canonical(events) == Read(events)

OfUei(events, u) == SelectSeq(events, LAMBDA e : e.uei = u)

\* field_diff: an snmp element that only the server has is no difference.
SameParts(l, r) ==
    \A p \in Parts : l.parts[p] = r.parts[p] \/ (p = "snmp" /\ l.parts[p] = "absent")

\* diff_event_sets: a UEI with one event on each side is compared part by part, any other
\* is a difference.
SameUei(local, remote, u) ==
    LET l == OfUei(local, u)  r == OfUei(remote, u)
    IN \/ l = <<>> /\ r = <<>>
       \/ Len(l) = 1 /\ Len(r) = 1 /\ SameParts(l[1], r[1])

\* diff_source: the canonical forms first, the events of each UEI otherwise.
Unchanged(doc, server) ==
    /\ server # Absent /\ doc.enabled = server.enabled
    /\ \/ Rendered(doc.events) = Canonical(server.events)
       \/ \A u \in Uei : SameUei(Rendered(doc.events), Canonical(server.events), u)

\* What --diff shows of a change: the UEIs with added, removed, modified or clustered events,
\* and a flag that changes or that a new source does not keep.
Remote(server) == IF server = Absent THEN <<>> ELSE Canonical(server.events)
WasEnabled(server) == server = Absent \/ server.enabled
Preview(doc, server) ==
    {u \in Uei : ~SameUei(Rendered(doc.events), Remote(server), u)}
        \cup (IF doc.enabled # WasEnabled(server) THEN {"enabled"} ELSE {})

\* upload_then_optionally_disable, served in full.
Applied(doc, server) == Document(Rendered(doc.events), doc.enabled, doc.name)

-----------------------------------------------------------------------------
\* Documents that somebody wrote: a part each, and two events that may share a UEI.
Written ==
    LET one == {<<Event(u, With(p, s))>> :
                   u \in Uei, p \in Parts \ {"other"}, s \in {"ok", "odd", "none"}}
        all == {d \in one : \A p \in Parts :
                    /\ d[1].parts[p] \in Shapes[p] \cup {"none"}
                    /\ d[1].parts[p] = "none" => p \in Lists}
               \cup {<<Event(u, With("alarmData", "word"))>> : u \in Uei}
        of == {Event(u, With(p, "ok")) : u \in Uei, p \in {"descr", "snmp"}}
    IN {Document(es, b, "ok") : es \in all \cup (of \X of) \cup {<<>>}, b \in BOOLEAN}
       \cup {Document(<<Event(u, Plain)>>, TRUE, n) : u \in Uei, n \in Name}

\* The source shows the document: the events of each UEI in order and part by part, but for
\* an snmp element that the document leaves out.
Shows(doc, server) ==
    /\ server # Absent /\ doc.enabled = server.enabled
    /\ \A u \in Uei :
          LET l == OfUei(Rendered(doc.events), u)  r == OfUei(Canonical(server.events), u)
          IN Len(l) = Len(r) /\ \A i \in DOMAIN l : SameParts(l[i], r[i])

\* The preview of an update has a line for every UEI whose events the apply changes, but for
\* an snmp element that goes, and for the order of events.
Tells(doc, before, after) ==
    /\ \A u \in Uei \ Preview(doc, before) :
          LET b == OfUei(Remote(before), u)  a == OfUei(Canonical(after.events), u)
          IN Len(a) = Len(b) /\ \A i \in DOMAIN a : SameParts(a[i], b[i])
    /\ after.enabled # WasEnabled(before) => "enabled" \in Preview(doc, before)

\* Only parts that documents can carry as they are, in an enabled source.
Carried(origin) ==
    /\ origin # Absent /\ origin.enabled
    /\ \A i \in DOMAIN origin.events : \A p \in Parts : origin.events[i].parts[p] \in {"absent", "ok"}
Same(server, origin) == server # Absent /\ server.events = origin.events /\ server.enabled
=============================================================================
