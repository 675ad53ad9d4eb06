---------------------------- MODULE MCStoreManager ----------------------------
(***************************************************************************)
(* StoreManager for TLC.  Commands and images are interchangeable.         *)
(***************************************************************************)
EXTENDS StoreManager, TLC

CONSTANTS m1, m2

\* The second list maps root only within a range.
MCMappingList ==
  [m \in Mapping |->
     IF m = m1 THEN <<[NamespaceID |-> 1, HostID |-> 5, Size |-> 4], [NamespaceID |-> 0, HostID |-> 9, Size |-> 1]>>
               ELSE <<[NamespaceID |-> 0, HostID |-> 5, Size |-> 4]>>]

MCModes == {[sized |-> TRUE, direct |-> TRUE], [sized |-> FALSE, direct |-> FALSE]}

\* What the code makes, and less of it where every order of RemoveAll, or every
\* interruption of two init-store commands, is tried on it.
MCStoreFolders == <<"images", "volumes", "meta", "locks", "tmp", "dependencies">>
MCFewFolders == <<"images", "volumes", "meta", "dependencies">>
MCDriverItems == <<"whiteout_dev", "l", "projectids">>
MCFewItems == <<"l">>
MCInitFolders == <<"images", "meta">>
MCInitItems == <<"whiteout_dev">>

Symmetry == Permutations(Inits) \cup Permutations(Image)
===============================================================================
