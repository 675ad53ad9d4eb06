----------------------------- MODULE MCDiskQuota -----------------------------
(***************************************************************************)
(* DiskQuota for TLC: blocks of 2 bytes, one volume of 2 bytes under every *)
(* image and another one that comes and goes.                              *)
(***************************************************************************)
EXTENDS DiskQuota, TLC

CONSTANTS v1, v2

MCVol == {v1, v2}
MCTarSize == [v \in MCVol |-> IF v = v1 THEN 2 ELSE 1]
MCDuSize == [v \in MCVol |-> IF v = v1 THEN 3 ELSE 1]
Spec1(limit_, exclusive_) == [limit |-> limit_, exclusive |-> exclusive_, base |-> {v1}]
\* no limit; one of 3 bytes, rounded down; one the volume fits exactly,
\* raised to the minimum, until its size is generated anew and does not fit
MCDiskSpec == {Spec1(0, FALSE), Spec1(3, TRUE), Spec1(2, FALSE)}
MCSymmetry == Permutations(Creators) \cup Permutations(Id)
==============================================================================
