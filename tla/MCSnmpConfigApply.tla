------------------------- MODULE MCSnmpConfigApply -------------------------
(* SnmpConfigApply with two profiles of the agent half and one v3 user of the trap      *)
(* daemon.  The labels of the profiles, core-1 and core.1, sanitize to one fragment.     *)
(* Documents written by hand leave a parameter out, or name a secret; two other servers  *)
(* have some of the exported tiers, with the same, other or no secrets.                  *)
EXTENDS SnmpConfigApply, TLC

CONSTANTS core, core2, user, scalars

MCMember == [h \in Half |-> IF h = "agent" THEN {core, core2} ELSE {user}]
MCScope == core :> "CORE_1" @@ core2 :> "CORE_1" @@ user :> "USER" @@ scalars :> "DEFAULTS"

Given(plain, secret) == [plain |-> plain, secret |-> secret]
Doc(agent, trapd) == [h \in Half |-> IF h = "agent" THEN agent ELSE trapd]

MCWritten == {
    Doc(scalars :> Given(1, <<"agent", "DEFAULTS">>), Nothing),
    Doc(scalars :> Given(Nothing, Nothing) @@ core :> Given(2, <<"agent", "CORE_1">>),
        scalars :> Given(2, Nothing) @@ user :> Given(Nothing, <<"trapd", "USER">>)) }

MCElsewhere == {
    Doc(scalars :> Given(1, Nothing) @@ core :> Given(1, Nothing) @@ core2 :> Given(1, 2),
        scalars :> Given(1, Nothing) @@ user :> Given(1, Nothing)),
    Doc(scalars :> Given(2, 1), Nothing) }
=============================================================================
