------------------------ MODULE ThreshdPackageDocument ------------------------
(***************************************************************************)
(* `kind: ThreshdPackage` as a document (onmsctl-thresholding/src): the    *)
(* ranges, services and intervals of a package, the group that a service   *)
(* binds, what an update must leave to others, and when a document and a   *)
(* package count as the same.                                              *)
(***************************************************************************)
EXTENDS Integers, Sequences, SequencesExt, TLC

CONSTANTS Absent

\* Milliseconds of the units in which an interval may be given, longest first.
Units == <<86400000, 3600000, 60000, 1000>>

\* An interval: a number of a unit, or of milliseconds (unit 1).
Interval(n, unit) == [n |-> n, unit |-> unit]
Millis(interval) == interval.n * interval.unit

\* from_millis: the longest unit that divides it.
FromMillis_Shorter(ms) ==
    LET dividing == {i \in DOMAIN Units : ms > 0 /\ ms >= Units[i]}
    IN IF dividing = {} THEN Interval(ms, 1)
       ELSE LET unit == Units[CHOOSE i \in dividing : \A j \in dividing : i <= j]
            IN Interval(ms \div unit, unit)
FromMillis(ms) ==
    LET dividing == {i \in DOMAIN Units : ms > 0 /\ ms % Units[i] = 0}
    IN IF dividing = {} THEN Interval(ms, 1)
       ELSE LET unit == Units[CHOOSE i \in dividing : \A j \in dividing : i <= j]
            IN Interval(ms \div unit, unit)

\* An address is a number of a family, 4 or 6; a service binds a group by a parameter of a
\* name that is reserved for it.
Address(family, n) == [family |-> family, n |-> n]
Odd == Address(0, 0)
Range4(b, e) == [begin |-> Address(4, b), end |-> Address(4, e)]
GroupKey == "thresholding-group"
Service(name) ==
    [name |-> name, interval |-> Interval(300, 1000), status |-> "absent", group |-> "absent",
     parameters |-> <<>>]
Document(services) ==
    [name |-> "ok", filter |-> "set", specifics |-> <<>>, included |-> <<>>, excluded |-> <<>>,
     services |-> services]
One == Document(<<Service("icmp")>>)

A == <<"a", "one">>
B == <<"b", "two">>
Services ==
    {[Service("icmp") EXCEPT !.interval = i] :
        i \in {Interval(n, u) : n \in {1, 20}, u \in Range(Units) \cup {1}}
              \cup {Interval(90, 1000), Interval(1500, 1), Interval(60000, 1), Interval(0, 1), Interval(-1, 1), Interval(0, 1000)}}
    \cup {[Service("icmp") EXCEPT !.status = s] : s \in {"on", "off", "odd"}}
    \cup {[Service("icmp") EXCEPT !.group = g, !.parameters = ps] :
             g \in {"absent", "cpu", "disk", "blank"},
             ps \in {<<>>, <<A, B>>, <<B, A>>, <<<<GroupKey, "cpu">>>>}}
Ranges == {Range4(1, 2), Range4(1, 1), Range4(2, 1), [begin |-> Address(4, 1), end |-> Address(6, 2)],
           [begin |-> Odd, end |-> Address(4, 1)]}
Written ==
    {Document(<<s>>) : s \in Services}
        \cup {Document(<<Service(n), Service(m)>>) : n, m \in {"icmp", "snmp", "blank"}}
        \cup {[One EXCEPT !.included = <<r>>] : r \in Ranges} \cup {[One EXCEPT !.excluded = <<r>>] : r \in Ranges}
        \cup {[One EXCEPT !.included = <<r, q>>] : r, q \in {Range4(1, 1), Range4(1, 2)}}
        \cup {[One EXCEPT !.specifics = as] :
                 as \in {<<Address(4, 1), Address(4, 2)>>, <<Address(4, 2), Address(4, 1)>>, <<Odd>>}}
        \cup {[One EXCEPT !.name = "slash"], [One EXCEPT !.filter = "blank"]}

-----------------------------------------------------------------------------
\* Names of the form <definition>_<bug> are slips the code could have made.

\* check_range and validate.
ValidRange(r) ==
    /\ Odd \notin {r.begin, r.end}
    /\ r.begin.family = r.end.family /\ r.begin.n <= r.end.n
ValidService(s) ==
    /\ s.name # "blank" /\ Millis(s.interval) > 0
    /\ s.status # "odd" /\ s.group # "blank"
    /\ \A i \in DOMAIN s.parameters : s.parameters[i][1] # GroupKey
Valid(doc) ==
    /\ doc.name = "ok" /\ doc.filter = "set"
    /\ Odd \notin Range(doc.specifics)
    /\ \A r \in Range(doc.included) \cup Range(doc.excluded) : ValidRange(r)
    /\ \A s \in Range(doc.services) : ValidService(s)
    /\ \A i, j \in DOMAIN doc.services : doc.services[i].name = doc.services[j].name => i = j

\* package_to_wire: the group is a parameter; what documents have no say in is the live one's.
WireService(s, live) ==
    [name |-> s.name, interval |-> Millis(s.interval), status |-> s.status,
     parameters |-> (IF s.group = "absent" THEN <<>> ELSE <<<<GroupKey, s.group>>>>) \o s.parameters,
     userDefined |-> live # Absent
         /\ LET same == SelectSeq(live.services, LAMBDA x : x.name = s.name)
            IN same # <<>> /\ Head(same).userDefined]
Wire(doc, live) ==
    [doc EXCEPT !.services = [i \in DOMAIN @ |-> WireService(@[i], live)]]
        @@ [calendars |-> IF live = Absent THEN {} ELSE live.calendars]

\* canonical_package: lists without an order are compared sorted, services by name.
Sorted(s) == [x \in Range(s) |-> Len(SelectSeq(s, LAMBDA y : y = x))]
Canonical(p) ==
    [p EXCEPT !.specifics = Sorted(@), !.included = Sorted(@), !.excluded = Sorted(@),
              !.services = [n \in {s.name : s \in Range(@)} |->
                  LET same == SelectSeq(p.services, LAMBDA s : s.name = n)
                  IN [i \in DOMAIN same |-> [same[i] EXCEPT !.parameters = Sorted(@)]]]]

\* The server: packages that documents were applied to, or that have more than documents
\* can say, and the groups that it has.
Holds(package) == [package |-> package, groups |-> {"cpu"}]
Fresh == {Holds(Absent), [Holds(Absent) EXCEPT !.groups = {"cpu", "disk"}]}
Owned(p) == [p EXCEPT !.calendars = {"night"}, !.services = [i \in DOMAIN @ |-> [@[i] EXCEPT !.userDefined = TRUE]]]
Bound(p) == [p EXCEPT !.services[1].parameters = <<<<GroupKey, "cpu">>, <<GroupKey, "disk">>>>]
Server ==
    LET applied == {Wire(d, Absent) : d \in {x \in Written : Valid(x) \/ x.name = "slash"}}
    IN Fresh \cup {Holds(p) : p \in applied} \cup {Holds(Owned(p)) : p \in {Wire(One, Absent)}}
             \cup {Holds(Bound(Wire(One, Absent))), Holds([Wire(One, Absent) EXCEPT !.services = @ \o @])}

\* The gate of a plan: every group that is bound exists.
Accepted(doc, server) ==
    \A i \in DOMAIN doc.services : doc.services[i].group \in server.groups \cup {"absent"}

Unchanged(doc, server) ==
    /\ server.package # Absent
    /\ Canonical(server.package) = Canonical(Wire(doc, server.package))
Applied(doc, server) == [server EXCEPT !.package = Wire(doc, server.package)]

\* What --diff shows of a change: the filter, lists as sets, and services by name, the first
\* of a name and the first group that it binds.
SetDiff(before, after) == (Range(before) \ Range(after)) \cup (Range(after) \ Range(before))
GroupsOf(s) == SelectSeq(s.parameters, LAMBDA p : p[1] = GroupKey)
ServiceView(s) ==
    [interval |-> s.interval, status |-> s.status,
     group |-> IF GroupsOf(s) = <<>> THEN Absent ELSE Head(GroupsOf(s)),
     parameters |-> Sorted(SelectSeq(s.parameters, LAMBDA p : p[1] # GroupKey))]
View(p, n) ==
    LET same == SelectSeq(p.services, LAMBDA s : s.name = n)
    IN IF same = <<>> THEN Absent ELSE ServiceView(Head(same))
Preview(doc, server) ==
    LET after == Wire(doc, server.package)
        before == IF server.package = Absent THEN Wire([Document(<<>>) EXCEPT !.filter = ""], Absent)
                  ELSE server.package
    IN [filter |-> before.filter # after.filter,
        addresses |-> SetDiff(before.specifics, after.specifics)
                          \cup SetDiff(before.included, after.included)
                          \cup SetDiff(before.excluded, after.excluded),
        services |-> {n \in {s.name : s \in Range(before.services) \cup Range(after.services)} :
                         View(before, n) # View(after, n)}]

-----------------------------------------------------------------------------
\* package_from_wire: a service that binds several groups cannot be said.
LocalService(s) ==
    [name |-> s.name, interval |-> FromMillis(s.interval), status |-> s.status,
     group |-> IF GroupsOf(s) = <<>> THEN "absent" ELSE Head(GroupsOf(s))[2],
     parameters |-> SelectSeq(s.parameters, LAMBDA p : p[1] # GroupKey)]
Exported(server) ==
    LET p == server.package
    IN [Document([i \in DOMAIN p.services |-> LocalService(p.services[i])]) EXCEPT
           !.name = p.name, !.filter = p.filter, !.specifics = p.specifics,
           !.included = p.included, !.excluded = p.excluded]
Sayable(p) == \A s \in Range(p.services) : Len(GroupsOf(s)) <= 1
Exports(server) ==
    IF server.package = Absent THEN {} ELSE IF Sayable(server.package) THEN {Exported(server)} ELSE {}
ExportCode(server) == IF Exports(server) = {} THEN 2 ELSE 0

-----------------------------------------------------------------------------
\* The package selects and evaluates what the document says.
Shows(doc, server) ==
    LET p == server.package
        same(s, t) == Range(s) = Range(t) /\ Len(s) = Len(t)
    IN /\ p # Absent /\ p.filter = doc.filter
       /\ same(p.specifics, doc.specifics) /\ same(p.included, doc.included)
       /\ same(p.excluded, doc.excluded) /\ Len(p.services) = Len(doc.services)
       /\ \A d \in Range(doc.services) : \E s \in Range(p.services) :
             /\ s.name = d.name /\ s.interval = Millis(d.interval) /\ s.status = d.status
             /\ {x[2] : x \in Range(GroupsOf(s))} = {d.group} \ {"absent"}
             /\ Range(d.parameters) = {x \in Range(s.parameters) : x[1] # GroupKey}

\* An update keeps the outage calendars, and who defined each service that stays.
Spares(doc, before, after) ==
    before.package # Absent =>
        /\ after.package.calendars = before.package.calendars
        /\ \A s \in Range(before.package.services), t \in Range(after.package.services) :
              s.name = t.name => s.userDefined = t.userDefined

\* The preview of an update has a line for whatever the package then selects or evaluates
\* otherwise, if every service that it had is one of its name and binds one group.
Tells(doc, before, after) ==
    LET b == before.package  a == after.package  p == Preview(doc, before)
    IN b # Absent =>
        /\ b.filter # a.filter => p.filter
        /\ SetDiff(b.specifics, a.specifics) \cup SetDiff(b.included, a.included)
               \cup SetDiff(b.excluded, a.excluded) \subseteq p.addresses
        /\ \A s \in Range(b.services) :
              /\ Len(SelectSeq(b.services, LAMBDA t : t.name = s.name)) = 1
              /\ Len(GroupsOf(s)) <= 1
              /\ \A t \in Range(a.services) : t.name = s.name =>
                    [s EXCEPT !.parameters = Sorted(@)] # [t EXCEPT !.parameters = Sorted(@)]
              => s.name \in p.services
        /\ {t.name : t \in Range(a.services)} \ {s.name : s \in Range(b.services)} \subseteq p.services

\* What a document can say: one group for a service, one service of a name.
Carried(server) ==
    /\ server.package # Absent /\ server.package.name = "ok" /\ Sayable(server.package)
    /\ \A i, j \in DOMAIN server.package.services :
          server.package.services[i].name = server.package.services[j].name => i = j
Same(server, origin) ==
    [Canonical(server.package) EXCEPT !.calendars = {}, !.services = 0]
        = [Canonical(origin.package) EXCEPT !.calendars = {}, !.services = 0]
    /\ Len(server.package.services) = Len(origin.package.services)
    /\ \A s \in Range(server.package.services) : \E o \in Range(origin.package.services) :
          Sorted(s.parameters) = Sorted(o.parameters) /\ s.name = o.name /\ s.interval = o.interval
             /\ s.status = o.status
=============================================================================
