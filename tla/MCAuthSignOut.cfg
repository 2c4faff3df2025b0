SPECIFICATION Spec
CONSTANTS
    Callers = {c1, c2}
    Accounts = {x}
    None = None
    MaxGeneration = 2
    MaxChallenges = 1
SYMMETRY Symmetry
INVARIANT SignOutRevokes
