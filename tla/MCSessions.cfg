SPECIFICATION Spec
CONSTANTS
    Usernames = {n1, n2}
    Emails = {e1, e2}
    Passwords = {p1, p2}
    Nobody = Nobody
    Tokens = {t1}
    NoToken = NoToken
    Requests = {r1, r2}
    SessionTicks = 1
    MaxClock = 2
    MaxFaults = 1
SYMMETRY Symmetry
INVARIANTS
    AccountsTypeOK
    NoRevival
    ActsAsItself
    RegistrationLasts
