CONSTANTS
    Accounts = {x, y}
    Roles = {"SUPER_ADMIN", "VIEWER"}
    Passwords = {p, q}
    Managers = {m1, m2}
    Logins = {l1}
    MaxVersion = 2
    NoAccount = NoAccount
SPECIFICATION Spec
SYMMETRY Interchangeable
CONSTRAINT RowsApart
INVARIANTS TypeOK TokenRoleAgrees
PROPERTIES ChangeRevokes RevokedStaysRevoked
