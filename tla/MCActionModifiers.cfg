CONSTANTS
    Words = {"public", "private", "system", "owner", "view", "bogus"}
    MaxMods = 3
SPECIFICATION Spec
INVARIANT FromASTMatchesReference
