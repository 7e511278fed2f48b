CONSTANTS
    Proc = {p1, p2}
    Logins = {m1, m2}
    Password = m1
    Passkeys = {k1}
    NTotp = 2
    Tickets = {t1}
    MaxAttempts = 1
    None = None
SPECIFICATION Spec
INVARIANT LoginMethodKept
SYMMETRY Symmetry
