CONSTANTS
    Box = 1
    Rows = {2, 3}
    Valued = {2}
    Forms <- MCForms
    MaxCommits = 2
    MaxEvents = 1
SPECIFICATION Spec
INVARIANTS
    RegistrationsAreBindings
    OnceIsSpentByAcceptance
    EventReachesItsHandler
    PolicyIsHonoured
CHECK_DEADLOCK FALSE
