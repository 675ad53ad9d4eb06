----------------------------- MODULE Environment -----------------------------
(***************************************************************************)
(* What the other modules share: the processes, base images and names of a *)
(* model, and the budget that keeps a behaviour finite.  A grootfs         *)
(* process runs one command and exits; Creators, Cleaners and Deleters are *)
(* the slots in which create, clean and delete commands run, one after     *)
(* another, and several at a time.                                         *)
(***************************************************************************)
EXTENDS Naturals, Sequences, FiniteSets

CONSTANTS
  Creators, Cleaners, Deleters,
  Id,             \* image ids a client uses
  Chain,          \* chain ids of layers
  Image,          \* base images: sequences of chain ids, bottom layer first
  Token,          \* random suffixes and short ids
  None,
  GlobalLockKey,  \* groot.GlobalLockKey
  GCLockKey,      \* groot.GCLockKey
  Budgets         \* bounds, one of which a behaviour has: how many commands
                  \* are started, system or network calls fail, processes are
                  \* killed, cleans outlast their cleaning timeout, how many
                  \* creates run at a time, if two of them may be for one id,
                  \* and which base images they are for

Process == Creators \cup Cleaners \cup Deleters
LockKey == Chain \cup {GlobalLockKey, GCLockKey}

Layers(image) == {image[i] : i \in DOMAIN image}

ASSUME ProcessAssumption ==
  /\ Creators \cap Cleaners = {}
  /\ Creators \cap Deleters = {}
  /\ Cleaners \cap Deleters = {}

ASSUME KeyAssumption ==
  /\ GlobalLockKey # GCLockKey
  /\ GlobalLockKey \notin Chain
  /\ GCLockKey \notin Chain

\* A chain id hashes the diff ids of a layer and of all layers below it
\* (layer_fetcher.chainID), so it determines its position and ancestors.
ASSUME ImageAssumption ==
  /\ Id # {} /\ Image # {} /\ Token # {}
  /\ \A image \in Image : image \in Seq(Chain) /\ Len(image) > 0
  /\ \A s, t \in Image : \A i \in DOMAIN s, j \in DOMAIN t :
        s[i] = t[j] => i = j /\ \A k \in 1 .. i : s[k] = t[k]

ASSUME BudgetAssumption ==
  Budgets \subseteq [ops: Nat, fails: Nat, crashes: Nat, timeouts: Nat,
                    creates: Nat, sameId: BOOLEAN, images: SUBSET Image]

VARIABLE spent  \* the budget, and how much of it is used

BudgetInit ==
  \E b \in Budgets : spent = [budget |-> b, ops |-> 0, fails |-> 0, crashes |-> 0, timeouts |-> 0]

BudgetTypeOK == spent \in [budget: Budgets, ops: Nat, fails: Nat, crashes: Nat, timeouts: Nat]

StartCommand == spent.ops < spent.budget.ops /\ spent' = [spent EXCEPT !.ops = @ + 1]
CallFails == spent.fails < spent.budget.fails /\ spent' = [spent EXCEPT !.fails = @ + 1]
Killed == spent.crashes < spent.budget.crashes /\ spent' = [spent EXCEPT !.crashes = @ + 1]
TimedOut == spent.timeouts < spent.budget.timeouts /\ spent' = [spent EXCEPT !.timeouts = @ + 1]
==============================================================================
