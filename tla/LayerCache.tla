----------------------------- MODULE LayerCache ------------------------------
(***************************************************************************)
(* What a store promises, without its files, locks and processes: a cache  *)
(* of layers shared by root filesystems.  A root filesystem appears only   *)
(* on layers that are cached, all at once, and a layer is evicted only     *)
(* while no root filesystem is stacked on it.                              *)
(***************************************************************************)
EXTENDS Sequences

CONSTANTS
  Id,      \* image ids
  Chain,   \* layers
  Image    \* base images: sequences of layers

VARIABLES
  cached,  \* the layers an image can be stacked on
  rootfs   \* rootfs[i]: the layers under image i, {} if there is no image i

cacheVars == <<cached, rootfs>>

CacheInit ==
  /\ cached = {}
  /\ rootfs = [i \in Id |-> {}]

Publish(c) ==
  /\ c \notin cached
  /\ cached' = cached \cup {c}
  /\ UNCHANGED rootfs

Commit(i, image) ==
  LET layers == {image[k] : k \in DOMAIN image}
  IN  /\ rootfs[i] = {}
      /\ layers \subseteq cached
      /\ rootfs' = [rootfs EXCEPT ![i] = layers]
      /\ UNCHANGED cached

Remove(i) ==
  /\ rootfs[i] # {}
  /\ rootfs' = [rootfs EXCEPT ![i] = {}]
  /\ UNCHANGED cached

Evict(c) ==
  /\ c \in cached
  /\ \A i \in Id : c \notin rootfs[i]
  /\ cached' = cached \ {c}
  /\ UNCHANGED rootfs

CacheNext ==
  \/ \E c \in Chain : Publish(c) \/ Evict(c)
  \/ \E i \in Id : Remove(i) \/ \E image \in Image : Commit(i, image)

CacheSpec == CacheInit /\ [][CacheNext]_cacheVars
==============================================================================
