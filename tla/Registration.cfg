CONSTANTS
    Requests = {q1, q2}
    Accounts = {g1, g2}
    Emails = {e1, e2}
    Names = {n1, n2}
    AdminEmail = e1
    e1 = e1
    FirstModes = {"allowlist"}
    Modes = {"closed", "allowlist", "open"}
    States = {s1}
    Slots = {b1}
    MaxTickets = 1
    MaxUsers = 2
    MaxEntries = 2
    MaxChanges = 2
    Nobody = Nobody
SPECIFICATION Spec
SYMMETRY Symmetry
INVARIANTS TypeOK ClaimsAgree AccountsRegisterOnce
PROPERTIES RegistrationAllowed
CHECK_DEADLOCK FALSE
