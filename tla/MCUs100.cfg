SPECIFICATION Spec
CONSTANTS
    Distances <- MCDistances
    Noise <- MCNoise
    Buffer = 4
INVARIANTS TypeOK Resynchronised NearIsHeard WarningsAgree
