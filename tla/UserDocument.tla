---------------------------- MODULE UserDocument ----------------------------
(***************************************************************************)
(* `kind: User` as a document (onmsctl-iam/src): what parsing refuses, how *)
(* a user of the server is read back, what export gives, and the plan for  *)
(* one user: a create with the password that its reference resolves to, or *)
(* a form of the changed scalars and the exact difference of the roles.    *)
(***************************************************************************)
EXTENDS FiniteSets

CONSTANTS Role, Absent

\* The scalars of a user: "empty" is a text of no characters, which the server keeps apart
\* from none; "control" one that XML cannot hold.
Scalar == {"none", "empty", "one", "two"}
Field == {"fullName", "comments"}
Duty == {"none", "one", "two"}

\* A name that is all digits is also the number of another user.
User(name, scalars, duty, roles) ==
    [name |-> name, scalars |-> scalars, duty |-> duty, roles |-> roles,
     extras |-> TRUE, password |-> "old"]
One(x) == [f \in Field |-> IF f = "fullName" THEN x ELSE "one"]
Fresh == {Absent}
Server ==
    Fresh \cup {User("user", One(x), d, rs) : x \in Scalar, d \in Duty, rs \in SUBSET Role}
          \cup {User("1234", One("one"), "one", Role)}
File == {}

\* What a passwordRef leads to: a secret, or one of what the resolver refuses.
Refused == {"missing", "empty", "two lines", "symlink", "writable by others", "too long"}
Ref == {"none", "secret"} \cup Refused
Resolves(ref) == ref = "secret"

Document(name, scalars, duty, roles, ref) ==
    [name |-> name, scalars |-> scalars, duty |-> duty, roles |-> roles, ref |-> ref,
     refusal |-> "none"]
\* What the parser refuses besides such a name: a literal password, a role twice or empty.
Refusals == {"password", "role twice", "empty role"}
Written ==
    {Document("user", One(x), d, rs, r) :
        x \in Scalar \cup {"control"}, d \in Duty, rs \in SUBSET Role, r \in {"none", "secret"}}
    \cup {Document("user", One("one"), "none", Role, r) : r \in Ref}
    \cup {[Document("user", One("one"), "none", Role, "secret") EXCEPT !.refusal = x] : x \in Refusals}
    \cup {Document("1234", One("one"), "none", Role, "secret")}

\* deserialize_user_name, UserSpec::deserialize, deserialize_unique_roles.
Valid(doc) == doc.name # "1234" /\ doc.refusal = "none"

\* wire_to_local: an empty text is none.
FromWire(user) ==
    Document(user.name, [f \in Field |-> IF user.scalars[f] = "empty" THEN "none" ELSE user.scalars[f]],
             user.duty, user.roles, "none")

\* run_user_export.
Exported(server) == FromWire(server)
Exports(server) == IF server = Absent THEN {} ELSE {Exported(server)}
ExportCode(server) == IF server = Absent THEN 1 ELSE 0

-----------------------------------------------------------------------------
\* changed_scalar: the form holds what the document declares and the server has otherwise.
Form(doc, user) ==
    {f \in Field : doc.scalars[f] # "none" /\ doc.scalars[f] # FromWire(user).scalars[f]}

\* plan_user, and user_create_xml: a create needs a password (PR-IAM-005) that resolves, and
\* a body that XML can hold.
Accepted(doc, server) ==
    server = Absent =>
        /\ doc.ref # "none" /\ Resolves(doc.ref)
        /\ \A f \in Field : doc.scalars[f] # "control"

Unchanged(doc, server) ==
    /\ server # Absent
    /\ Form(doc, server) = {}
    /\ doc.roles = server.roles

\* The duty schedule and the password are those of the create.
Applied(doc, server) ==
    IF server = Absent
    THEN [User(doc.name, doc.scalars, doc.duty, doc.roles) EXCEPT !.extras = FALSE, !.password = "new"]
    ELSE [server EXCEPT
             !.scalars = [f \in Field |-> IF f \in Form(doc, server) THEN doc.scalars[f] ELSE @[f]],
             !.roles = doc.roles]

-----------------------------------------------------------------------------
\* A text of no characters is sent again by every apply, as the server has it as none.
Settles(doc) == \A f \in Field : doc.scalars[f] # "empty"

\* The server shows what the document declares.
Shows(doc, server) ==
    /\ server # Absent /\ server.roles = doc.roles
    /\ \A f \in Field :
          doc.scalars[f] # "none" => server.scalars[f] = doc.scalars[f]

\* An update leaves what it cannot send, and what the document does not declare.
Spares(doc, before, after) ==
    IF before = Absent THEN after.duty = doc.duty
    ELSE /\ after.duty = before.duty /\ after.password = before.password
         /\ after.extras = before.extras
         /\ \A f \in Field : doc.scalars[f] = "none" => after.scalars[f] = before.scalars[f]

Carried(origin) == origin # Absent /\ origin.name # "1234"
Same(server, origin) == server = origin
=============================================================================
