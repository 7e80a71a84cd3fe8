\* Four requests of any kind, which is a registration, two completions and a
\* login, or two registrations of one address with two completions.
CONSTANTS
    ann = ann
    Ann = Ann
    bob = bob
    nobody = nobody
    Requests = {q1, q2, q3, q4}
    Spellings = {ann, Ann, bob, nobody}
    Emails = {ann, bob}
    Normalise <- NormalForm
    Codes = {c1, c2}
    Passwords = {p1, p2}
    NoEmail = NoEmail
    NoCode = NoCode
    NoPassword = NoPassword
SPECIFICATION Spec
SYMMETRY Symmetry
INVARIANTS
    OneAccountPerEmail
    CodeIsSpent
    AccountProvesMailbox
    RegisteredCanLogin
\* Every request is answered in the end.
CHECK_DEADLOCK FALSE
