------------------------------ MODULE Locksmith ------------------------------
(***************************************************************************)
(* Advisory file locks of a store (store/locksmith/filesystem.go).  A lock *)
(* is flock(2) on <store>/locks/<key>.lock, taken shared or exclusive      *)
(* according to the locksmith it was requested from.  Every Lock opens the *)
(* file anew, so a process conflicts with itself as with any other, and    *)
(* the kernel drops the locks of a process that exits.                     *)
(*                                                                         *)
(* The operators are the pieces other modules build their actions from;    *)
(* each one constrains all of lockVars.                                    *)
(***************************************************************************)
EXTENDS Environment

VARIABLES
  shared,    \* shared[k]: the processes that hold k's lock file LOCK_SH
  exclusive  \* exclusive[k]: those that hold it LOCK_EX

lockVars == <<shared, exclusive>>

LockInit ==
  /\ shared = [k \in LockKey |-> {}]
  /\ exclusive = [k \in LockKey |-> {}]

LockTypeOK ==
  /\ shared \in [LockKey -> SUBSET Process]
  /\ exclusive \in [LockKey -> SUBSET Process]

\* Mutant of LockShared: granted beside an exclusive holder.
LockSharedAnyway(p, k) ==
  /\ shared' = [shared EXCEPT ![k] = @ \cup {p}]
  /\ UNCHANGED exclusive

\* Lock on a locksmith made by NewSharedFileSystem; blocks until granted.
LockShared(p, k) ==
  /\ exclusive[k] = {}
  /\ shared' = [shared EXCEPT ![k] = @ \cup {p}]
  /\ UNCHANGED exclusive

\* Lock on a locksmith made by NewExclusiveFileSystem; blocks until granted.
LockExclusive(p, k) ==
  /\ shared[k] = {}
  /\ exclusive[k] = {}
  /\ exclusive' = [exclusive EXCEPT ![k] = {p}]
  /\ UNCHANGED shared

\* Unlock of every lock process p holds on the keys K.
Unlock(p, K) ==
  /\ shared' = [k \in LockKey |-> IF k \in K THEN shared[k] \ {p} ELSE shared[k]]
  /\ exclusive' =
       [k \in LockKey |-> IF k \in K THEN exclusive[k] \ {p} ELSE exclusive[k]]

\* The kernel closes the lock files of a process that ends, however it ends.
ReleaseAll(p) == Unlock(p, LockKey)
==============================================================================
