SPECIFICATION Spec
CONSTANTS
    Freighter = f
    Demo = {d1}
    Job = {j1, j2}
    CHALLENGE_TTL_S = 1
    SESSION_TTL_S = 3
    EXPIRY_MARGIN_S = 1
    None = None
    MaxRestarts = 1
INVARIANT TypeOK
INVARIANT OnlyAfterSigning
INVARIANT StoredOrderOpens
INVARIANT AccessEnds
SYMMETRY JobSymmetry
