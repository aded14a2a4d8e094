SPECIFICATION Spec
CONSTANTS
    MaxToggles = 2
    Requests = {r1}
INVARIANT SettledRoute
