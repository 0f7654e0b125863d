------------------------- MODULE MaintenanceDocument -------------------------
(***************************************************************************)
(* `kind: Maintenance` as a document (onmsctl-maintenance/src): what a     *)
(* time, a device selector and a suppression may say, how selectors become *)
(* node ids, how a window is sent and read back, and when the declared and *)
(* the stored definition count as the same.                                *)
(*                                                                         *)
(* What a daemon honours cannot be read back: MaintenanceApply has the     *)
(* attachments, this module has the definition.                            *)
(***************************************************************************)
EXTENDS Naturals, Sequences, FiniteSets, SequencesExt, FiniteSetsExt

CONSTANTS Absent

-----------------------------------------------------------------------------
\* ---- times.  A field is a number and how it is spelled: "full" has all its digits (05),
\* "short" has fewer (5), "signed" has a sign for one of them (+5); "word" is no number.
Spelled(n, form) == [n |-> n, form |-> form]
Full(n) == Spelled(n, "full")
Clock(h) == [date |-> Absent, clock |-> <<Full(h), Full(0), Full(0)>>]
On(day, month, upper, h) ==
    [date |-> [day |-> Full(day), month |-> month, upper |-> upper], clock |-> Clock(h).clock]

\* A number of two characters, up to a limit: a sign is one of them.
TwoDigits(f) == f.form \in {"full", "signed"}
ParseHms(clock) ==
    IF Len(clock) = 3 /\ \A i \in DOMAIN clock :
           TwoDigits(clock[i]) /\ clock[i].n <= (IF i = 1 THEN 23 ELSE 59)
      THEN [i \in 1 .. 3 |-> clock[i].n] ELSE Absent

\* A month is known by its English name in any case; a day is not compared with the month.
ParseSpecific(t) ==
    IF t.date = Absent THEN Absent
    ELSE IF TwoDigits(t.date.day) /\ t.date.day.n \in 1 .. 31 /\ t.date.month \in 1 .. 12
              /\ ParseHms(t.clock) # Absent
           THEN <<t.date.month, t.date.day.n>> \o ParseHms(t.clock) ELSE Absent
ParseTime(type, t) ==
    IF type = "specific" THEN ParseSpecific(t)
    ELSE IF t.date = Absent THEN ParseHms(t.clock) ELSE Absent

Before(a, b) == \E i \in DOMAIN a : a[i] < b[i] /\ \A j \in 1 .. (i - 1) : a[j] = b[j]

\* A day is a name or a number, or not given.
Weekday(name, upper) == [name |-> name, upper |-> upper]
DayOfMonth(f) == [name |-> "number", upper |-> FALSE, field |-> f]
IsWeekday(day) == day.name = "monday"
ValidDay(type, day) ==
    CASE type = "weekly" -> day # Absent /\ IsWeekday(day)
      [] type = "monthly" -> day # Absent /\ day.name = "number"
                                 /\ day.field.form # "word" /\ day.field.n \in 1 .. 31
      [] OTHER -> day = Absent

Window(day, begins, ends) == [id |-> Absent, day |-> day, begins |-> begins, ends |-> ends]
ValidTime(type, w) ==
    LET b == ParseTime(type, w.begins)
        e == ParseTime(type, w.ends)
    IN ValidDay(type, w.day) /\ b # Absent /\ e # Absent /\ Before(b, e)

-----------------------------------------------------------------------------
\* ---- documents.  An address is spelled in its canonical form or otherwise; a selector is
\* "clean", "blank" or has a "metachar" of the query language.
Address(host, canonical) == [host |-> host, canonical |-> canonical]
MatchAny == Address("match-any", TRUE)
IsIp(a) == a.host \in {"1", "2"}
Ref == {"n1", "n2"}

Plain ==
    [literals |-> TRUE, name |-> "ok", type |-> "daily",
     times |-> <<Window(Absent, Clock(1), Clock(2))>>,
     interfaces |-> <<Address("1", TRUE)>>, nodes |-> <<>>, selectors |-> <<>>,
     polling |-> Absent, thresholds |-> Absent, collection |-> Absent, notifications |-> TRUE]
Hms(h, f) == [Clock(h) EXCEPT !.clock[1] = f]
Specific(b, e) == [Plain EXCEPT !.type = "specific", !.times = <<Window(Absent, b, e)>>]
Every(type, day) == [Plain EXCEPT !.type = type, !.times[1].day = day]
Written ==
    {Plain, [Plain EXCEPT !.literals = FALSE], [Plain EXCEPT !.name = "blank"],
     [Plain EXCEPT !.times = <<>>], [Plain EXCEPT !.times[1].ends = Clock(1)],
     [Plain EXCEPT !.times[1].ends.clock = SubSeq(@, 1, 2)],
     Specific(Clock(1), Clock(2))}
        \cup {[Plain EXCEPT !.times = <<Window(Absent, Clock(3), Clock(4))>> \o @ \o s] : s \in {<<>>, Plain.times}}
        \cup {[Plain EXCEPT !.times[1].begins = Hms(1, Spelled(1, f))] : f \in {"short", "signed", "word"}}
        \cup {[Plain EXCEPT !.times[1].ends = Clock(h)] : h \in {23, 24}}
        \cup {Specific(On(d, m, u, 1), On(31, 12, FALSE, h)) :
                 d \in {0, 31, 32}, m \in {2, 12, 13}, u \in BOOLEAN, h \in {0, 2}}
        \cup {Every(t, d) : t \in {"specific", "daily", "weekly", "monthly"},
                            d \in {Absent, Weekday("monday", TRUE), Weekday("someday", FALSE)}
                                    \cup {DayOfMonth(Full(n)) : n \in {0, 1, 31, 32}}
                                    \cup {DayOfMonth(Spelled(1, f)) : f \in {"short", "word"}}}
        \cup {[Plain EXCEPT !.interfaces = is, !.nodes = ns, !.selectors = ss] :
                 is \in {<<>>, <<Address("1", FALSE)>>, <<Address("2", TRUE), Address("1", FALSE)>>,
                         <<MatchAny>>, <<MatchAny, Address("1", TRUE)>>, <<Address("no ip", TRUE)>>},
                 ns \in {<<>>, <<"n1">>, <<"n2", "n1", "n2">>, <<"blank">>},
                 ss \in {<<>>, <<"clean">>, <<"clean", "blank">>, <<"metachar">>}}
        \cup {[Plain EXCEPT !.polling = p, !.collection = c, !.notifications = n] :
                 p, c \in {Absent, <<>>, <<"p">>}, n \in BOOLEAN}

\* validate_devices: categories, locations and the two halves of an asset selector.
ValidSelector(s) == s \notin {"blank", "metachar"}
ValidDevices(d) ==
    /\ d.interfaces \o d.nodes \o d.selectors # <<>>
    /\ Contains(d.interfaces, MatchAny) => Len(d.interfaces) = 1 /\ d.nodes \o d.selectors = <<>>
    /\ \A i \in DOMAIN d.interfaces : d.interfaces[i] = MatchAny \/ IsIp(d.interfaces[i])
    /\ \A i \in DOMAIN d.nodes : d.nodes[i] # "blank"
    /\ \A i \in DOMAIN d.selectors : ValidSelector(d.selectors[i])

\* A daemon that is named names its packages.
ValidSuppress(d) ==
    LET daemons == {d.polling, d.thresholds, d.collection}
    IN (daemons # {Absent} \/ d.notifications) /\ <<>> \notin daemons

Valid(d) ==
    /\ d.literals /\ d.name # "blank"
    /\ d.times # <<>> /\ \A i \in DOMAIN d.times : ValidTime(d.type, d.times[i])
    /\ ValidDevices(d) /\ ValidSuppress(d)

-----------------------------------------------------------------------------
\* ---- requests.  A list is an array, one bare element, or neither (null).
OneOrMany(list) ==
    IF list.many # Absent THEN list.many ELSE IF list.one # Absent THEN <<list.one>> ELSE <<>>

\* An id is a number, as such or as text.
NodeId(value) == IF value.form = "word" THEN Absent ELSE value.id
ResolveNode(s, ref) == IF s.node[ref] = Absent THEN Absent ELSE NodeId(s.node[ref])

\* The union of all selectors is one search: nothing is a 204 (Absent), and fewer ids than
\* there are matches an error.
SearchNodeIds(s) ==
    IF s.matches = Absent THEN {}
    ELSE LET found == OneOrMany(s.matches.node)
             ids == {NodeId(found[i]) : i \in DOMAIN found}
         IN IF Absent \in ids \/ Len(found) < s.matches.total THEN Absent ELSE ids

\* plan_window: explicit references and matches, each id once.
Explicit(d, s) == {ResolveNode(s, d.nodes[i]) : i \in DOMAIN d.nodes}
Matched(d, s) == IF d.selectors = <<>> THEN {} ELSE SearchNodeIds(s)
NodeIds(d, s) == Explicit(d, s) \cup Matched(d, s)
Accepted(d, s) ==
    /\ Absent \notin Explicit(d, s) /\ Matched(d, s) # Absent
    /\ NodeIds(d, s) # {} \/ d.interfaces # <<>>

ToWire(d, ids) ==
    [type |-> [name |-> d.type, upper |-> FALSE], time |-> d.times,
     interface |-> d.interfaces, node |-> SetToSeq(ids)]

\* What the server gives of an outage that it was sent: it numbers the times, or writes
\* names and addresses in a spelling of its own and lists as JAXB does.
CanonicalIp(a) == IF IsIp(a) THEN [a EXCEPT !.canonical = TRUE] ELSE a
Recase(day) == IF day = Absent THEN Absent ELSE [day EXCEPT !.upper = TRUE]
RecaseTime(t) == IF t.date = Absent THEN t ELSE [t EXCEPT !.date.upper = TRUE]
Listed(jaxb, items) ==
    [many |-> IF jaxb /\ Len(items) < 2 THEN Absent ELSE items,
     one |-> IF jaxb /\ Len(items) = 1 THEN items[1] ELSE Absent]
Stored(jaxb, o) ==
    [type |-> [o.type EXCEPT !.upper = jaxb],
     time |-> Listed(jaxb, [i \in DOMAIN o.time |->
         IF jaxb THEN Window(Recase(o.time[i].day), RecaseTime(o.time[i].begins), RecaseTime(o.time[i].ends))
         ELSE [o.time[i] EXCEPT !.id = i]]),
     interface |-> Listed(jaxb, Reverse([i \in DOMAIN o.interface |->
         IF jaxb THEN CanonicalIp(o.interface[i]) ELSE o.interface[i]])), node |-> Listed(jaxb, o.node)]
Read(o) ==
    [type |-> o.type, time |-> OneOrMany(o.time), interface |-> OneOrMany(o.interface),
     node |-> OneOrMany(o.node)]

\* canonical: no cases, no ids of the server, addresses spelled one way, lists in no order.
Lower(day) == IF day = Absent THEN Absent ELSE [day EXCEPT !.upper = FALSE]
LowerTime(t) == IF t.date = Absent THEN t ELSE [t EXCEPT !.date.upper = FALSE]
Canonical(o) ==
    LET bag(s) == [x \in ToSet(s) |-> Quantify(DOMAIN s, LAMBDA i : s[i] = x)]
        time(t) == Window(Lower(t.day), LowerTime(t.begins), LowerTime(t.ends))
    IN [type |-> o.type.name, time |-> bag([i \in DOMAIN o.time |-> time(o.time[i])]),
        interface |-> bag([i \in DOMAIN o.interface |-> CanonicalIp(o.interface[i])]), node |-> bag(o.node)]

DefinitionUnchanged(desired, deployed) == Canonical(desired) = Canonical(deployed)

Unchanged(d, s) ==
    s.outage # Absent /\ DefinitionUnchanged(ToWire(d, NodeIds(d, s)), Read(s.outage))
Applied(d, s) == [s EXCEPT !.outage = Stored(s.jaxb, ToWire(d, NodeIds(d, s)))]

-----------------------------------------------------------------------------
\* ---- servers: their nodes, what the search finds, and the outage of the document's name.
Id(id, form) == [id |-> id, form |-> form]
Matches(ids, total) == [node |-> Listed(TRUE, ids), total |-> total]
World ==
    [jaxb |-> TRUE, node |-> [r \in Ref |-> IF r = "n1" THEN Id(1, "number") ELSE Id(2, "text")],
     matches |-> Matches(<<Id(2, "number")>>, 1), outage |-> Absent]
Outages ==
    LET other == ToWire(Plain, {2})
    IN {ToWire(d, {}) : d \in {e \in Written : Valid(e) /\ e.nodes \o e.selectors = <<>>}}
           \cup {[other EXCEPT !.node = n] : n \in {<<1>>, <<2, 1>>}}
           \cup {[other EXCEPT !.time[1].ends = Clock(5)], [other EXCEPT !.interface = <<>>]}
Fresh ==
    {World, [World EXCEPT !.jaxb = FALSE], [World EXCEPT !.node["n2"] = Absent],
     [World EXCEPT !.node["n2"] = Id(2, "word")]}
        \cup {[World EXCEPT !.matches = m] :
                 m \in {Absent, Matches(<<Id(1, "text"), Id(2, "number")>>, 2),
                        Matches(<<Id(1, "text")>>, 2), Matches(<<Id(1, "word")>>, 1)}}
Server == Fresh \cup {[World EXCEPT !.outage = Stored(j, o)] : j \in BOOLEAN, o \in Outages}

-----------------------------------------------------------------------------
\* The definition names the same times, hosts and nodes as the document.
Meaning(type, w) ==
    <<IF w.day = Absent THEN Absent
      ELSE IF w.day.name = "number" THEN w.day.field.n ELSE w.day.name,
      ParseTime(type, w.begins), ParseTime(type, w.ends)>>
Shows(d, s) ==
    LET o == Read(s.outage)
        hosts(addresses) == {addresses[i].host : i \in DOMAIN addresses}
    IN /\ s.outage # Absent /\ o.type.name = d.type
       /\ {Meaning(d.type, o.time[i]) : i \in DOMAIN o.time}
             = {Meaning(d.type, d.times[i]) : i \in DOMAIN d.times}
       /\ hosts(o.interface) = hosts(d.interfaces) /\ ToSet(o.node) = NodeIds(d, s)
=============================================================================
