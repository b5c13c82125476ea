SPECIFICATION Spec
CONSTANTS
    adm = adm
    usr = usr
    p1 = p1
    p2 = p2
    l1 = l1
    Emails = {adm, usr}
    Admin = adm
    Passwords = {p1, p2}
    AdminPasswords = {p1}
    Links = {l1}
    Requests = {q1, q2}
    RegistrationEnabled = TRUE
    Operations <- MCOperations
    None = None
SYMMETRY Symmetry
INVARIANTS
    TypeOK
    OneWinnerPerEmail
    AuditTellsTheState
    OnlyAdminsChange
    
CHECK_DEADLOCK FALSE
