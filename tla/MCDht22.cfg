SPECIFICATION Spec
CONSTANTS
    Period = 4
    Wrap = 14
    Gap = 3
INVARIANT TypeOK
INVARIANT AgeBounded
PROPERTY RateLimit
