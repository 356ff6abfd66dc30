SPECIFICATION Spec
CONSTANTS
    Emails = {root, bob}
    Passwords = {p}
    Projects = {web}
    Levels = {{"read"}, {"read", "write"}}
    Websockets = {w1, w2}
    Root = root
    RootPass = p
    NoOne = NoOne
    MaxUsers = 3
    MaxTokens = 2
    MaxKeys = 1
SYMMETRY Interchangeable
INVARIANT TypeOK
INVARIANT ShownIsEnforced
INVARIANT NoOrphans
INVARIANT ContextsAreTrue
PROPERTY OnlyByRight
