CONSTANTS
    Requests = {q1}
    Users = {u1}
    Pats = {p1}
    Repos = {alpha, beta}
    Namespaces = {n1}
    Owner <- OneOwner
    NamespaceOf <- OneNamespace
    Slots = {s1}
    Lifetime = 1
    RoleChoices = {"none", "writer"}
    PermChoices <- PullPermissions
    Kinds = {"access", "start", "token", "newpat", "revoke"}
    ApiActions = {"pull", "push"}
    MaxChanges = 1
    NoUser = NoUser
    NoPat = NoPat
    NoRepo = NoRepo
    NoSlot = NoSlot
    u1 = u1
    n1 = n1
SPECIFICATION Spec
SYMMETRY Symmetry
INVARIANTS TypeOK GrantsJustified
PROPERTIES ScopesAreEarned
CHECK_DEADLOCK FALSE
