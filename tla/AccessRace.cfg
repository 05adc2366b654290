CONSTANTS
    Requests = {q1, q2}
    Users = {u1}
    Pats = {p1}
    Repos = {alpha}
    Namespaces = {n1}
    Owner <- OneOwner
    NamespaceOf <- OneNamespace
    Slots = {s1}
    Lifetime = 1
    RoleChoices = {"none", "admin"}
    PermChoices <- PullPermissions
    Kinds = {"access", "create", "visibility", "newpat"}
    ApiActions = {"pull"}
    MaxChanges = 1
    NoUser = NoUser
    NoPat = NoPat
    NoRepo = NoRepo
    NoSlot = NoSlot
    u1 = u1
    n1 = n1
SPECIFICATION Spec
SYMMETRY Symmetry
INVARIANTS DenialsJustified
PROPERTIES VisibilityOnlyByAdmin
CHECK_DEADLOCK FALSE
