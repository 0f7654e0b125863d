---------------------------- MODULE SnmpConfigApply ----------------------------
(***************************************************************************)
(* `kind: SnmpConfig` (onmsctl-snmp/src): a singleton document with two    *)
(* halves, the agent configuration and the optional trap daemon's, written *)
(* one after the other without a transaction.  Each half is a whole        *)
(* replacement of what the server has.  Secrets are references that are    *)
(* resolved at apply time, written, never read back or compared; `snmp     *)
(* export` gives a document with a placeholder reference for each.         *)
(***************************************************************************)
EXTENDS Naturals, FiniteSets

CONSTANTS
    Member,     \* of each half: its profiles and definitions, or its v3 users
    Scope,      \* the name fragment of a tier, as sanitize and the index make it: labels that
                \* differ in case or punctuation only have the same
    Value, Secret,
    Default,    \* what the server gives a parameter that an upload leaves out
    Written,    \* documents that somebody wrote
    Elsewhere,  \* what other servers have that an export is applied to
    Scalars,    \* the tier that every configuration has (defaults; the daemon's settings)
    Nothing

Half == {"agent", "trapd"}
Tier(h) == {Scalars} \cup Member[h]
Tiers(h) == {{Scalars} \cup s : s \in SUBSET Member[h]}
EnvName == UNION {{<<h, Scope[t]>> : t \in Tier(h)} : h \in Half}

\* The server's side: one non-secret parameter and one secret stand for those of a tier.
Params == [plain : Value, secret : {Nothing} \cup Secret]
Config(h) ==
    {c \in UNION {[ts -> Params] : ts \in Tiers(h)} : h = "trapd" => c[Scalars].secret = Nothing}

\* The document's side: parameters may be left out, a secret is a reference.
LocalParams == [plain : {Nothing} \cup Value, secret : {Nothing} \cup EnvName]
Local(h) ==
    {d \in UNION {[ts -> LocalParams] : ts \in Tiers(h)} : h = "trapd" => d[Scalars].secret = Nothing}

\* What a server has: one without a trap daemon's configuration has Nothing of that half.
Servers == {[h \in Half |-> IF h = "agent" THEN a ELSE t] :
               a \in Config("agent"), t \in {Nothing} \cup Config("trapd")}

ASSUME SnmpAssumption ==
    /\ Member \in [Half -> SUBSET UNION {Member[h] : h \in Half}]
    /\ Default \in Value /\ Nothing \notin Value \cup Secret /\ Nothing \notin EnvName
    /\ \A h \in Half : Nothing \notin Config(h) \cup Local(h)
    /\ \A t \in UNION {Tier(h) : h \in Half} : t \in DOMAIN Scope
    /\ Scalars \notin UNION {Member[h] : h \in Half}
    /\ \A d \in Written : d["agent"] \in Local("agent") /\ d["trapd"] \in Local("trapd") \cup {Nothing}
    /\ Elsewhere \subseteq Servers

VARIABLES
    doc,        \* the document: of each half, its tiers; Nothing when it has no trapd block
    origin,     \* the configuration that the document was exported from, or Nothing
    env,        \* the value that each reference resolves to; Nothing when it does not
    force,      \* --force
    supports,   \* whether the server has the trap daemon's endpoint
    found,      \* the configuration that was on the server at first
    config,     \* the configuration on the server, of each half; Nothing when it has none
    stage,      \* "plan", the half being written, "done", "refused"
    sync,       \* of each half: "in sync", "write", or "no block"
    result,     \* of each half, when it was written: "ok" or "failed"
    row,
    replaced   \* another operator replaced the configuration

input == <<doc, origin, env, force, supports, found>>
snmpVars == <<input, config, stage, sync, result, row, replaced>>

NotYet == "not yet"
Halves == {h \in Half : doc[h] # Nothing}

-----------------------------------------------------------------------------
\* Names of the form <definition>_<bug> are slips the code could have made.

\* from_wire, config_to_params, trapd_from_wire: a placeholder per tier.
Placeholder_PerField(h, t) == <<h, Scope[Scalars]>>
Placeholder(h, t) == <<h, Scope[t]>>
Exported(h, c) ==
    [t \in DOMAIN c |-> [plain |-> c[t].plain,
                         secret |-> IF c[t].secret = Nothing THEN Nothing ELSE Placeholder(h, t)]]

\* inject_secrets: the secret that a document's tier resolves to.
Resolved(r) == IF r = Nothing THEN Nothing ELSE env[r]
Resolves_Always(h) == TRUE
Resolves(h) == \A t \in DOMAIN doc[h] : doc[h][t].secret # Nothing => Resolved(doc[h][t].secret) # Nothing

\* What the server makes of an upload.
Stored(h) ==
    [t \in DOMAIN doc[h] |->
        [plain |-> IF doc[h][t].plain = Nothing THEN Default ELSE doc[h][t].plain,
         secret |-> Resolved(doc[h][t].secret)]]

\* unchanged, trapd_unchanged: the same tiers, and every parameter that the document sets;
\* secrets are not compared.  A trap daemon without a configuration has none of its tiers
\* and an empty one: its scalars differ from any valid block, which sets required ones.
SameTier(d, c) == d.plain = Nothing \/ d.plain = c.plain
Agrees(d, c) ==
    /\ c # Nothing /\ DOMAIN d = DOMAIN c
    /\ \A t \in DOMAIN d : SameTier(d[t], c[t])
InSync(h) == Agrees(doc[h], config[h])

\* --force writes a half that is in sync.
Writes(h) == ~InSync(h) \/ force

\* One row for both halves: the worst of the two.
SnmpRow_Agent == IF result["agent"] = "failed" THEN "failed" ELSE "Updated"
SnmpRow ==
    IF \E h \in Half : result[h] = "failed" THEN "failed"
    ELSE IF \E h \in Half : sync[h] = "write" THEN "Updated" ELSE "Unchanged"

-----------------------------------------------------------------------------
\* A server without a trap daemon configuration, and one that was never configured.
Blank == [h \in Half |-> IF h = "agent" THEN [t \in {Scalars} |-> [plain |-> Default, secret |-> Nothing]]
                         ELSE Nothing]

Occurrence == UNION {{<<h, t>> : t \in Tier(h)} : h \in Half}
Carries(c, o) == o[2] \in DOMAIN c[o[1]] /\ c[o[1]][o[2]].secret # Nothing

\* The secrets that a placeholder of the export stands for: more than one when tiers share it.
Behind(n) ==
    {origin[o[1]][o[2]].secret :
        o \in {o \in Occurrence : /\ origin[o[1]] # Nothing /\ Carries(origin, o)
                                  /\ Placeholder(o[1], o[2]) = n}}

\* The document was exported from a server, with each placeholder then set to a secret it
\* stands for, and is applied to that server, to a blank one or to another.
FromExport ==
    /\ origin \in Servers
    /\ doc = [h \in Half |-> IF origin[h] = Nothing THEN Nothing ELSE Exported(h, origin[h])]
    /\ env \in [EnvName -> {Nothing} \cup Secret]
    /\ \A n \in EnvName : IF Behind(n) = {} THEN env[n] = Nothing ELSE env[n] \in Behind(n)
    /\ config \in {origin, Blank} \cup Elsewhere

\* Somebody wrote it; a reference may be unset, an old server may lack the endpoint.
FromHand ==
    /\ origin = Nothing /\ doc \in Written
    /\ env \in [EnvName -> {Nothing} \cup Secret]
    /\ \A n \in EnvName :
          (\A h \in Halves : \A t \in DOMAIN doc[h] : doc[h][t].secret # n) => env[n] = Nothing
    /\ config \in Servers

SnmpInit ==
    /\ FromExport \/ FromHand
    /\ found = config
    /\ supports \in BOOLEAN /\ (config["trapd"] # Nothing => supports)
    /\ force \in BOOLEAN
    /\ stage = "plan"
    /\ sync = [h \in Half |-> "no block"] /\ result = [h \in Half |-> "none"]
    /\ row = NotYet /\ replaced = FALSE

OtherOperator ==
    /\ ~replaced /\ stage \notin {"done", "refused"} /\ replaced' = TRUE
    /\ config' = Blank
    /\ UNCHANGED <<input, stage, sync, result, row>>

\* The agent half is always compared, the other only when the document has a trapd block.
Plan ==
    /\ stage = "plan" /\ stage' = "agent"
    /\ sync' = [h \in Half |-> IF h \notin Halves THEN "no block"
                               ELSE IF Writes(h) THEN "write" ELSE "in sync"]
    /\ UNCHANGED <<input, config, result, row, replaced>>

\* A read fails, or the answer to one is a refusal other than 404.
PlanFails ==
    /\ stage = "plan" /\ stage' = "refused"
    /\ UNCHANGED <<input, config, sync, result, row, replaced>>

After(h) == IF h = "agent" THEN "trapd" ELSE "report"

\* A secret of the agent half that does not resolve ends the whole kind, unwritten; one of
\* the trap daemon's fails its half.
Unresolved(h) ==
    /\ stage = h /\ sync[h] = "write" /\ ~Resolves(h)
    /\ \/ /\ h = "agent" /\ stage' = "done" /\ row' = "failed"
          /\ UNCHANGED result
       \/ /\ h = "trapd" /\ stage' = After(h)
          /\ result' = [result EXCEPT ![h] = "failed"] /\ UNCHANGED row
    /\ UNCHANGED <<input, config, sync, replaced>>

\* upload_config, update_config: served or refused, answered or not.  A 404 on the trap
\* daemon's PUT is an old server.
Upload(h) ==
    /\ stage = h /\ sync[h] = "write" /\ Resolves(h)
    /\ \/ /\ h = "trapd" => supports
          /\ config' = [config EXCEPT ![h] = Stored(h)]
          /\ \E r \in {"ok", "failed"} : result' = [result EXCEPT ![h] = r]
       \/ result' = [result EXCEPT ![h] = "failed"] /\ UNCHANGED config
    /\ stage' = After(h)
    /\ UNCHANGED <<input, sync, row, replaced>>

Leave(h) ==
    /\ stage = h /\ sync[h] # "write" /\ stage' = After(h)
    /\ UNCHANGED <<input, config, sync, result, row, replaced>>

Report ==
    /\ stage = "report" /\ stage' = "done" /\ row' = SnmpRow
    /\ UNCHANGED <<input, config, sync, result, replaced>>

SnmpNext ==
    \/ OtherOperator \/ Plan \/ PlanFails \/ Report
    \/ \E h \in Half : Unresolved(h) \/ Upload(h) \/ Leave(h)

SnmpSpec == SnmpInit /\ [][SnmpNext]_snmpVars

-----------------------------------------------------------------------------
\* Type invariant of an apply of the SNMP configuration.
SnmpTypeOK ==
    /\ \A h \in Half : config[h] = Nothing \/ config[h] \in Config(h)
    /\ \A h \in Halves :
          /\ DOMAIN doc[h] \in Tiers(h) /\ \A t \in DOMAIN doc[h] : doc[h][t] \in LocalParams
          /\ h = "trapd" => doc[h][Scalars].secret = Nothing
    /\ config["agent"] # Nothing /\ doc["agent"] # Nothing
    /\ env \in [EnvName -> {Nothing} \cup Secret]
    /\ stage \in Half \cup {"plan", "report", "done", "refused"}
    /\ sync \in [Half -> {"in sync", "write", "no block"}]
    /\ result \in [Half -> {"none", "ok", "failed"}]
    /\ row \in {NotYet, "Updated", "Unchanged", "failed"}

Applied == row \in {"Updated", "Unchanged"} /\ ~replaced

\* A success is one of both halves: each has exactly the declared tiers on the server with
\* the parameters that the document sets, and, when the apply was forced, its secrets.
RowIsTrue ==
    Applied => \A h \in Halves :
        /\ InSync(h)
        /\ force => \A t \in DOMAIN doc[h] : Resolved(doc[h][t].secret) = config[h][t].secret

\* An upload replaces the whole half: one that lacked a secret would erase a credential.
\* None is sent unless every reference of its half resolves, and no half is touched when
\* one of the agent's does not.
NoSecretIsErased ==
    [][\A h \in Half : config'[h] # config[h] /\ replaced' = replaced =>
          /\ \A t \in DOMAIN doc[h] : doc[h][t].secret # Nothing => config'[h][t].secret # Nothing
          /\ sync["agent"] = "write" =>
                \A t \in DOMAIN doc["agent"] :
                    doc["agent"][t].secret # Nothing => Resolved(doc["agent"][t].secret) # Nothing]_snmpVars

\* The secrets that may come back for a tier of the origin: its own, and those of the tiers
\* whose labels give the same placeholder.
Returns(h, t) ==
    IF origin[h][t].secret = Nothing THEN {Nothing}
    ELSE {origin[h][s].secret : s \in {s \in DOMAIN origin[h] : Scope[s] = Scope[t]}} \ {Nothing}

\* What a success on an exported document says of the server it is applied to, whichever
\* that is.  A half that has the origin's tiers and parameters is left as it was found
\* unless the apply is forced, whatever its secrets are or lack: they are not compared
\* (unchanged).  Every other half has the origin's tiers and parameters afterwards, and
\* every secret where it was; but tiers whose labels sanitize to one placeholder all get
\* the secret that it was set to, which is that of one of them.
ExportAppliesBack ==
    Applied /\ origin # Nothing =>
        /\ \A h \in Half \ Halves : config[h] = found[h]
        /\ \A h \in Halves :
              IF ~force /\ Agrees(origin[h], found[h]) THEN config[h] = found[h]
              ELSE /\ Agrees(origin[h], config[h])
                   /\ \A t \in DOMAIN origin[h] : config[h][t].secret \in Returns(h, t)

\* Applied to the server that it came from, an exported document changes nothing unless it
\* is forced.
ExportIsInSync ==
    stage = "agent" /\ ~replaced /\ ~force /\ origin # Nothing /\ config = origin =>
        \A h \in Half : sync[h] # "write"

\* The state is well typed, a success is one of both halves, and an export is in sync with
\* the server it came from.
SnmpConfigInv == SnmpTypeOK /\ RowIsTrue /\ ExportIsInSync
=============================================================================
