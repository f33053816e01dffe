\* Two tabs, a Google user and one with a password, four sign-ins, one fault.
\* All sign-ins are used up, or time, and then nothing happens any more.
SPECIFICATION Spec
CONSTANTS
    GoogleUsers = {g}
    PasswordUsers = {p}
    Tabs = {t1, t2}
    MaxAge = 2
    MaxTime = 3
    MaxSignIns = 4
    MaxFaults = 1
    None = None
SYMMETRY Symmetry
INVARIANTS
    TypeOK
    CookieNamesUser
    SessionIsRegistered
    RegistrationsBounded
PROPERTIES
    SessionSlides
CHECK_DEADLOCK FALSE
