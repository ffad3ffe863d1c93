SPECIFICATION Spec
CONSTANTS
    Vouchers = {v1}
    Users = {u1, u2}
    Tills = {d1, d2}
    Faces = {2}
    MaxUses = {2}
    Orders = {1, 2}
    Lives = {1}
    HoldTtl = 1
    GraceHours = 1
    AutoGrace <- GraceByFace
    Attempts = 2
    LastTime = 2
    Nobody = Nobody
SYMMETRY TillSymmetry
INVARIANTS
    PaidOutOnce
    HoldersAgree
    GraceOnce
PROPERTIES
    EndIsFinal
CHECK_DEADLOCK FALSE
