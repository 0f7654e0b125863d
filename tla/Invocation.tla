----------------------------- MODULE Invocation -----------------------------
(***************************************************************************)
(* What an invocation of onmsctl settles before its verb runs, and what it *)
(* makes of every answer: the configuration file, flags over environment   *)
(* over file, credentials, read-only (onmsctl-core/src/config.rs,          *)
(* context.rs), the client's reading of a response (client.rs) and the     *)
(* exit status of an error (error.rs).  Operators only.                    *)
(***************************************************************************)
EXTENDS Naturals, Sequences, FiniteSets

CONSTANT None           \* an Option that is None

-----------------------------------------------------------------------------
\* Names of the form <definition>_<bug> are broken variants: slips the code could have
\* made, kept to show that the properties of Session would notice them.

\* ---- the configuration file: None when there is none, or [whole, current, contexts];
\* a file cut short by a crash is not whole and does not parse.
Secrets == {"keyring", "file", "plain"}

ValidKeyring(auth) == "keyring" \in auth.secrets => auth.keyringNamed
ValidBasic(auth) == auth.username # "blank" /\ ValidKeyring(auth) /\ Cardinality(auth.secrets) <= 1
ValidBearer(auth) == ValidKeyring(auth) /\ Cardinality(auth.secrets) <= 1

\* AuthSpec::validate: exactly one scheme, itself valid.
ValidAuth(auth) ==
    /\ Cardinality(auth.schemes) = 1
    /\ "basic" \in auth.schemes => ValidBasic(auth)
    /\ "bearer" \in auth.schemes => ValidBearer(auth)

\* Roles are compared verbatim: blank and padded ones are refused.
ValidRoles(roles) == roles \cap {"blank", "padded"} = {}

Names(file) == {file.contexts[i].name : i \in DOMAIN file.contexts}
FindContext(file, n) == file.contexts[CHOOSE i \in DOMAIN file.contexts : file.contexts[i].name = n]

ValidFile(file) ==
    /\ Cardinality(Names(file)) = Len(file.contexts)
    /\ \A i \in DOMAIN file.contexts :
          ValidAuth(file.contexts[i].auth) /\ ValidRoles(file.contexts[i].roles)
    /\ file.current = None \/ file.current \in Names(file)

Loads(file) == file # None /\ file.whole /\ ValidFile(file)

-----------------------------------------------------------------------------
\* ---- flags and environment.  A variable set to the empty string is unset.
Var(raw) == IF raw = "" THEN None ELSE raw
Or(a, b) == IF a # None THEN a ELSE b

\* Read-only can be forced on, never off: falsy and unrecognised values are ignored.
EnvBool_Falsy(raw) == IF raw = "1" THEN TRUE ELSE IF raw = "0" THEN FALSE ELSE None
EnvBool(raw) == IF raw = "1" THEN TRUE ELSE None

FromEnv(env) ==
    [context |-> Var(env.context), url |-> Var(env.url),
     password |-> Var(env.password), token |-> Var(env.token), readOnly |-> EnvBool(env.readOnly)]

\* A flag wins over the variable; passwords and tokens have no flag.
WithFlags(env, flags) ==
    [context |-> Or(flags.context, env.context), url |-> Or(flags.url, env.url),
     password |-> env.password, token |-> env.token,
     readOnly |-> IF flags.readOnly THEN TRUE ELSE env.readOnly]

Overrides(shell) == WithFlags(FromEnv(shell.env), shell.flags)

-----------------------------------------------------------------------------
\* ---- Context::resolve
ActiveName(file, over) == Or(over.context, file.current)

ValidUrl(url) == url \notin {"garbage", "ftp"}

\* Where a secret is taken from: the environment, or the one source declared; None when
\* there is none or it cannot be read.  A valid file declares at most one.
SecretSource(fromEnv, auth, readable) ==
    IF fromEnv # None THEN "env"
    ELSE CHOOSE s \in (auth.secrets \cap (readable \cup {"plain"})) \cup {None} :
            auth.secrets \cap (readable \cup {"plain"}) # {} => s # None

\* The scheme is the context's: a token in the environment says nothing of basic auth.
ResolveCreds(auth, over, readable) ==
    IF "basic" \in auth.schemes THEN SecretSource(over.password, auth, readable)
    ELSE SecretSource(over.token, auth, readable)

\* The resolved context, or None when anything is amiss: every such error is exit 2.
Resolve(file, shell) ==
    LET over == Overrides(shell)
        name == ActiveName(file, over)
        context == FindContext(file, name)
        url == Or(over.url, context.url)
        secret == ResolveCreds(context.auth, over, shell.readable)
    IN IF name = None \/ name \notin Names(file) \/ ~ValidUrl(url) \/ secret = None
         THEN None
         ELSE [name |-> name, url |-> url, secret |-> secret,
               readOnly |-> IF over.readOnly # None THEN over.readOnly ELSE context.readOnly]

ResolveContext(file, shell) == IF Loads(file) THEN Resolve(file, shell) ELSE None

RefuseIfReadOnly(context, kind) == context.readOnly /\ kind = "Write"

-----------------------------------------------------------------------------
\* ---- answers.  What becomes of one request, by what the client sees.
\* Failures to connect: the server has seen nothing.
Unconnected == {"dns", "tls", "refused"}
\* The request may have been carried out although its answer is lost or an error.
Uncertain == {"timeout", "redirect", "cut", "5xx"}
\* Answered without being carried out.
Refusals == {"404", "401", "401-other", "4xx"}
\* Carried out: with the expected body, an empty one (204), one that does not decode, or
\* one above the cap on raw bodies.
Served == {"ok", "204", "undecodable", "huge"}
Answers == Unconnected \cup Uncertain \cup Refusals \cup Served

\* From<reqwest::Error>: by the causes of a failed connection, then by its own kind.
TransportError(a) ==
    CASE a = "dns" -> "Dns" [] a = "tls" -> "TlsHandshake" [] a = "refused" -> "ConnRefused"
      [] a = "timeout" -> "Timeout" [] a = "redirect" -> "Redirect" [] a = "cut" -> "Transport"

\* OnmsClient::send: the error of an answer, or None for any 2xx.
Sent(a) ==
    IF a \in Served THEN None
    ELSE IF a \in (Unconnected \cup Uncertain) \ {"5xx"} THEN TransportError(a)
    ELSE IF a = "401-other" THEN "UnsupportedAuthScheme"
    ELSE IF a = "404" THEN "NotFound" ELSE "HttpStatus"

\* Requests whose answer is parsed; a 204 is an error where a value is expected.
Decoded(a) ==
    IF a = "204" THEN "HttpStatus" ELSE IF a = "undecodable" THEN "Transport" ELSE Sent(a)

\* Requests whose answer is drained unread, with or without If-Match.
Drained(a) == Sent(a)

\* Downloads of raw bytes are capped.
Capped(a) == IF a = "huge" THEN "Config" ELSE Sent(a)

\* Listings in pages: a 204 is an empty page.
Paged(a) == IF a = "204" THEN None ELSE Decoded(a)

\* POST of event configuration: the body may list files that were refused.
Uploaded(a) == IF a = "ok" THEN {None, "PartialSuccess"} ELSE {Decoded(a)}

\* GET /users/whoami: a refusal and a body without a name are one error.
WhoamiErrors(a) ==
    IF a = "ok" THEN {None, "IamWhoamiUnavailable"}
    ELSE IF Decoded(a) \in {"HttpStatus", "NotFound"} THEN {"IamWhoamiUnavailable"} ELSE {Decoded(a)}

\* The errors a request may end with, by how the verb reads its answer.  The requests of
\* an apply end in rows: whatever they are answered, it is told in them.
ErrorsOf(a, body) ==
    CASE body = "decoded" -> {Decoded(a)} [] body = "drained" -> {Drained(a)}
      [] body = "raw" -> {Capped(a)} [] body = "page" -> {Paged(a)}
      [] body = "upload" -> Uploaded(a) [] body = "whoami" -> WhoamiErrors(a)
      [] body = "told" -> {IF Capped(a) = None THEN None ELSE "Config"}
      [] body = "rows" -> {None, "PartialSuccess"}

\* A request with an answer lost on the way may have been carried out or not.
MayBeServed(a) == IF a \in Served THEN {TRUE} ELSE IF a \in Uncertain THEN BOOLEAN ELSE {FALSE}

-----------------------------------------------------------------------------
\* ---- exit statuses
Dedicated ==
    [Dns |-> 4, ConnRefused |-> 5, Timeout |-> 6, TlsHandshake |-> 7, Redirect |-> 8,
     UnsupportedAuthScheme |-> 9, WaitTimeout |-> 10, AsyncOpFailed |-> 11,
     ReadOnlyRefused |-> 12, IamWhoamiUnavailable |-> 15]

\* The errors an invocation may end with.
Errors ==
    {"Config", "Usage", "HttpStatus", "NotFound", "PartialSuccess", "UserNotFound", "ApplyGate",
     "Transport"} \cup DOMAIN Dedicated

\* Error::exit_code, a 404 being an HttpStatus like any other; a conversion that is
\* misused ends with a status of its own.
ExitCode(error) ==
    IF error \in {"HttpStatus", "NotFound", "PartialSuccess", "UserNotFound", "ApplyGate"} THEN 1
    ELSE IF error = "Usage" THEN 3
    ELSE IF error \in DOMAIN Dedicated THEN Dedicated[error] ELSE 2
=============================================================================
