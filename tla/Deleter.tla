------------------------------ MODULE Deleter --------------------------------
(***************************************************************************)
(* grootfs delete: commands/delete.go, groot/deleter.go.  It takes no      *)
(* lock: the image goes first, then its dependency file.                   *)
(***************************************************************************)
EXTENDS Locksmith, OverlayXFS, ImageStore

VARIABLES
  dpc,    \* the next call of the process
  victim  \* the image it deletes

deleterVars == <<dpc, victim>>

DeleterPC == {"idle", "unmount", "remove", "deregister"}

NoVictim == CHOOSE i \in Id : TRUE

DeleterInit ==
  /\ dpc = [d \in Deleters |-> "idle"]
  /\ victim = [d \in Deleters |-> NoVictim]

DeleterTypeOK ==
  /\ dpc \in [Deleters -> DeleterPC]
  /\ victim \in [Deleters -> Id]

Leave(d) ==
  /\ dpc' = [dpc EXCEPT ![d] = "idle"]
  /\ victim' = [victim EXCEPT ![d] = NoVictim]

\* FindID: the command skips an image that is not there.
StartDelete(d, i) ==
  /\ dpc[d] = "idle"
  /\ ImageExists(i)
  /\ dpc' = [dpc EXCEPT ![d] = "unmount"]
  /\ victim' = [victim EXCEPT ![d] = i]
  /\ StartCommand
  /\ UNCHANGED <<lockVars, volVars, imgVars>>

\* ImageManager.Destroy; an image that is gone by now is an error.
DestroyImage(d) ==
  /\ dpc[d] = "unmount"
  /\ IF ImageExists(victim[d])
     THEN /\ dpc' = [dpc EXCEPT ![d] = "remove"]
          /\ UnmountImage(victim[d])
          /\ UNCHANGED victim
     ELSE Leave(d) /\ UNCHANGED imgVars
  /\ UNCHANGED <<lockVars, volVars, spent>>

RemoveImage(d) ==
  /\ dpc[d] = "remove"
  /\ dpc' = [dpc EXCEPT ![d] = "deregister"]
  /\ RemoveImageDir(victim[d])
  /\ UNCHANGED <<victim, lockVars, volVars, spent>>

Deregister(d) ==
  /\ dpc[d] = "deregister"
  /\ Leave(d)
  /\ RemoveDepFile(victim[d])
  /\ UNCHANGED <<lockVars, volVars, spent>>

\* Unmount, RemoveAll or the removal of the dependency file fails: the command
\* fails, and leaves the rest as it is.
DeleteFails(d) ==
  /\ dpc[d] \in {"unmount", "remove", "deregister"}
  /\ Leave(d)
  /\ CallFails
  /\ UNCHANGED <<lockVars, volVars, imgVars>>

KillDelete(d) ==
  /\ dpc[d] # "idle"
  /\ Leave(d)
  /\ Killed
  /\ UNCHANGED <<lockVars, volVars, imgVars>>

DeleteStep(d) == DestroyImage(d) \/ RemoveImage(d) \/ Deregister(d)
DeleteFault(d) == DeleteFails(d) \/ KillDelete(d)
==============================================================================
