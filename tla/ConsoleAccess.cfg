CONSTANTS
    Requests = {r1, r2}
    Codes = {c1}
    MaxUsers = 2
    MaxTokens = 2
    CodeTTL = 1
    UserTTL = 2
    AdminTTL = 1
SYMMETRY MCSymmetry
SPECIFICATION Spec
INVARIANTS CodeWorksOnce SessionIsEarned AdminRemains
PROPERTY RevokedForGood
