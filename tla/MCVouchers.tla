----------------------------- MODULE MCVouchers -----------------------------
EXTENDS Vouchers, TLC

\* A voucher worth a day's grace and one worth none.
GraceByFace == [f \in Faces |-> IF f >= 2 THEN 1 ELSE 0]
TillSymmetry == Permutations(Tills) \cup Permutations(Users)
=============================================================================
