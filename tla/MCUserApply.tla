----------------------------- MODULE MCUserApply -----------------------------
(* UserApply on three users (the caller and two more, so that one can be created while *)
(* the other loses a role) and two roles: admin is protected, rest is not.             *)
EXTENDS UserApply, TLC

CONSTANTS alice, bob, carol, admin, rest

MCNameRank == alice :> 1 @@ bob :> 2 @@ carol :> 3

Doc(roles, profile, password) == [roles |-> roles, profile |-> profile, password |-> password]

MCDeclarable == {Doc({admin}, "any", TRUE), Doc({rest}, "new", TRUE), Doc({rest}, "any", FALSE)}

MCAccount == [roles : {{admin}, {rest}}, profile : {"old"}]
=============================================================================
