SPECIFICATION Spec
CONSTANTS
    alice = alice
    bob = bob
    carol = carol
    admin = admin
    rest = rest
    User = {alice, bob, carol}
    Role = {admin, rest}
    Protected = {admin}
    Self = alice
    NameRank <- MCNameRank
    Declarable <- MCDeclarable
    Account <- MCAccount
    Absent = Absent
    NoDoc = NoDoc
    NoRole = NoRole
    MaxOthers = 1
INVARIANTS
    UserInv
    ProtectedRoleKept
PROPERTIES
    SelfKeepsProtected
CHECK_DEADLOCK FALSE
