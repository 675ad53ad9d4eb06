---------------------------- MODULE SandboxProofs ----------------------------
(***************************************************************************)
(* What is proved of Sandbox, for every set of base images, every way to   *)
(* run, and any number of failing calls and kills: its types, that nothing *)
(* of a call acts after the call has returned, that a create which a       *)
(* failing call ends leaves no image, that an image in use is never removed, and that a      *)
(* command which ends well has taken every step of every layer.  Which     *)
(* tree those steps make is left to the model checker: it is a fold over   *)
(* the layers.                                                             *)
(***************************************************************************)
EXTENDS Sandbox, SequenceTheorems, WellFoundedInduction, TLAPS

------------------------------------------------------------------------------
(* The inductive invariant *)

Cmds == {"unpack", "ensure-base", "destroy-volume", "destroy-image"}
RunType ==
  [cmd: Cmds, ctl: {"open", "byte", "closed"}, ids: SUBSET {"uid", "gid"},
   wrapper: {"none", "waiting", "running", "ok", "failed"},
   action: {"none", "starting", "acting", "ok", "failed"},
   sent: Nat, taken: Nat, stdin: {"open", "end", "cut", "torn"}, broken: BOOLEAN]

\* Where the parent is before it makes the image, while it makes it, while it
\* is in Reexec, and after that.
Working == {"layer", "opaque", "image", "mount", "info", "own"}
Preparing == {"start", "mapuids", "mapgids", "signal"}
Calling == Preparing \cup {"wait", "returned"}
PC == Working \cup Calling \cup {"destroy", "destroyed", "end", "exited"}

IsSeq(s) == \E S : s \in Seq(S)

Types ==
  /\ mode \in Modes /\ stack \in Stacks \cup {<<>>} /\ pc \in PC
  /\ res \in {"ok", "failed", "disowned"} /\ image \in {"none", "made", "mounted", "busy"}
  /\ faults \in 0 .. MaxFaults
  /\ IsSeq(vols) /\ IsSeq(opaque) /\ Len(opaque) = Len(vols) /\ Len(vols) =< Len(stack)
  /\ runs \in Seq(RunType) /\ \A r \in DOMAIN runs : runs[r].taken =< runs[r].sent

\* A process acts, or is about to without any further word of the parent.
Live(x) == x.action \in {"starting", "acting"} \/ (x.wrapper = "waiting" /\ x.ctl = "byte")

\* The byte is sent once the ids are mapped, and an action in a user
\* namespace is started by the byte.
Sent(x) ==
  /\ x.ctl = "byte" => x.ids = {"uid", "gid"}
  /\ Clone /\ x.action # "none" => x.ctl = "byte"

RunInv(r) ==
  /\ Sent(runs[r])
  /\ Live(runs[r]) => pc = "exited" \/ (pc = "wait" /\ r = Cur)

\* The call the parent is in.
CallInv ==
  /\ pc \in Calling => Cur > 0
  /\ pc \in Preparing => runs[Cur].ctl = "open"
  /\ pc = "mapgids" => "uid" \in runs[Cur].ids
  /\ pc = "signal" => runs[Cur].ids = {"uid", "gid"}
  /\ pc \in Calling /\ runs[Cur].cmd = "destroy-image" => Clone /\ stack = <<>>

\* At most two calls for a layer, and one at the end.
CountInv ==
  /\ Len(runs) =< 2 * Len(vols) + 1
  /\ pc \in Working \cup {"destroy"} => Len(runs) =< 2 * Len(vols)
  /\ pc \in Calling /\ runs[Cur].cmd = "unpack" => Len(runs) =< 2 * Len(vols)
  /\ pc \in Calling /\ runs[Cur].cmd = "ensure-base" => Len(runs) < 2 * Len(vols)

\* The image of a create.
ImageInv ==
  stack # <<>> =>
    /\ image # "busy"
    /\ pc \in Working => res = "ok"
    /\ pc \in {"layer", "opaque", "image"} => image = "none"
    /\ pc \in Calling => image = "none"
    /\ pc \in {"destroy", "destroyed"} => faults >= 1
    /\ pc = "destroyed" /\ faults =< 1 => image \in {"none", "made"}
    /\ pc = "end" /\ res = "failed" /\ faults =< 1 => image = "none"

Inv == Types /\ (\A r \in DOMAIN runs : RunInv(r)) /\ CallInv /\ CountInv /\ ImageInv

------------------------------------------------------------------------------
(* Sequences *)

LEMMA SeqKept ==
  ASSUME NEW s, IsSeq(s), NEW k, NEW x
  PROVE  IsSeq([s EXCEPT ![k] = x]) /\ Len([s EXCEPT ![k] = x]) = Len(s)
<1> DEFINE t == [s EXCEPT ![k] = x]
<1>1. PICK S : s \in Seq(S)
  BY DEF IsSeq
<1>2. Len(s) \in Nat /\ s \in [1 .. Len(s) -> S]
  BY <1>1, LenProperties
<1>3. t \in [1 .. Len(s) -> S \cup {x}]
  BY <1>2
<1> HIDE DEF t
<1>4. t \in Seq(S \cup {x})
  BY <1>2, <1>3, SeqDef
<1>5. DOMAIN t = 1 .. Len(s) /\ DOMAIN t = 1 .. Len(t) /\ Len(t) \in Nat
  BY <1>3, <1>4, LenProperties
<1>6. Len(t) = Len(s)
  BY <1>2, <1>5
<1> QED
  BY <1>4, <1>6 DEF IsSeq, t

LEMMA SeqGrows ==
  ASSUME NEW s, IsSeq(s), NEW x
  PROVE  IsSeq(Append(s, x)) /\ Len(Append(s, x)) = Len(s) + 1 /\ Len(s) \in Nat
<1>1. PICK S : s \in Seq(S)
  BY DEF IsSeq
<1>2. s \in Seq(S \cup {x})
  BY <1>1, SeqMonotonic
<1>3. Append(s, x) \in Seq(S \cup {x}) /\ Len(Append(s, x)) = Len(s) + 1 /\ Len(s) \in Nat
  BY <1>2
<1> QED
  BY <1>3 DEF IsSeq

LEMMA Lengths ==
  ASSUME Types
  PROVE  /\ Len(vols) \in Nat /\ Len(stack) \in Nat /\ Len(runs) \in Nat /\ DOMAIN runs = 1 .. Len(runs)
         /\ \A r \in DOMAIN runs : runs[r] \in RunType
<1>1. Len(vols) \in Nat
  BY SeqGrows DEF Types
<1>2. Len(stack) \in Nat
  <2>1. CASE stack = <<>>
    BY <2>1
  <2>2. CASE stack \in Stacks
    BY <2>2, SandboxAssumption, LenProperties
  <2> QED
    BY <2>1, <2>2 DEF Types
<1>3. Len(runs) \in Nat /\ DOMAIN runs = 1 .. Len(runs) /\ \A r \in DOMAIN runs : runs[r] \in RunType
  BY LenProperties DEF Types
<1> QED
  BY <1>1, <1>2, <1>3

\* One call goes on.
LEMMA RunStep ==
  ASSUME Types, NEW r \in DOMAIN runs, NEW x \in RunType, SetRun(r, x)
  PROVE  /\ runs' \in Seq(RunType) /\ Len(runs') = Len(runs) /\ DOMAIN runs' = DOMAIN runs
         /\ runs'[r] = x /\ \A q \in DOMAIN runs : q # r => runs'[q] = runs[q]
<1>1. runs \in Seq(RunType) /\ r \in 1 .. Len(runs) /\ DOMAIN runs = 1 .. Len(runs)
  BY Lengths DEF Types
<1>2. runs' = [runs EXCEPT ![r] = x]
  BY DEF SetRun
<1>3. runs' \in Seq(RunType) /\ Len(runs') = Len(runs)
  BY <1>1, <1>2, ExceptSeq
<1>4. DOMAIN runs' = DOMAIN runs
  BY <1>1, <1>3, LenProperties
<1> QED
  BY <1>1, <1>2, <1>3, <1>4

\* A new call.
LEMMA ReexecStep ==
  ASSUME Types, NEW cmd \in Cmds, Reexec(cmd)
  PROVE  /\ runs' \in Seq(RunType) /\ Len(runs') = Len(runs) + 1 /\ runs'[Len(runs) + 1] = NewRun(cmd)
         /\ \A q \in DOMAIN runs : runs'[q] = runs[q]
         /\ DOMAIN runs' = DOMAIN runs \cup {Len(runs) + 1} /\ Len(runs) + 1 \notin DOMAIN runs
<1> DEFINE x == NewRun(cmd)
<1>1. x \in RunType
  BY DEF NewRun, RunType
<1>2. runs \in Seq(RunType) /\ Len(runs) \in Nat /\ DOMAIN runs = 1 .. Len(runs)
  BY Lengths DEF Types
<1>3. runs' = Append(runs, x)
  BY DEF Reexec
<1> HIDE DEF x
<1>4. /\ runs' \in Seq(RunType) /\ Len(runs') = Len(runs) + 1 /\ runs'[Len(runs) + 1] = x
      /\ \A q \in 1 .. Len(runs) : runs'[q] = runs[q]
  BY <1>1, <1>2, <1>3
<1>5. DOMAIN runs' = 1 .. Len(runs) + 1
  BY <1>4, LenProperties
<1> QED
  BY <1>2, <1>4, <1>5 DEF x

------------------------------------------------------------------------------
(* The processes of a call *)

\* What a wrapper, an action or the copying does: it never begins to act by
\* itself, nor does it map ids or write into the control pipe.
LEMMA RunFrame ==
  ASSUME Inv, NEW r \in DOMAIN runs, NEW x \in RunType, SetRun(r, x),
         x.taken =< x.sent, x.cmd = runs[r].cmd, x.ctl = runs[r].ctl, x.ids = runs[r].ids,
         Live(x) => Live(runs[r]),
         x.action = "none" \/ runs[r].action # "none" \/ x.ctl = "byte",
         UNCHANGED <<mode, stack, pc, res, opaque>>, image' \in {image, "none"},
         IsSeq(vols'), Len(vols') = Len(vols), faults' \in 0 .. MaxFaults /\ faults =< faults'
  PROVE  Inv'
<1>1. /\ runs' \in Seq(RunType) /\ Len(runs') = Len(runs) /\ DOMAIN runs' = DOMAIN runs
      /\ runs'[r] = x /\ \A q \in DOMAIN runs : q # r => runs'[q] = runs[q]
  BY RunStep DEF Inv
<1>2. Types'
  BY <1>1 DEF Inv, Types
<1>3. Cur' = Cur /\ (Clone <=> Clone')
  BY <1>1 DEF Cur, Clone
<1>4. ASSUME NEW q \in DOMAIN runs PROVE RunInv(q)'
  <2>1. RunInv(q)
    BY DEF Inv
  <2>2. CASE q # r
    <3>1. runs'[q] = runs[q]
      BY <1>1, <2>2
    <3> QED
      BY <1>3, <2>1, <3>1 DEF RunInv, Sent, Live
  <2>3. CASE q = r
    <3>1. runs'[q] = x
      BY <1>1, <2>3
    <3>2. Sent(runs[q])'
      BY <1>3, <2>1, <2>3, <3>1 DEF RunInv, Sent
    <3>3. Live(x) => pc' = "exited" \/ (pc' = "wait" /\ q = Cur')
      BY <1>3, <2>1, <2>3 DEF RunInv
    <3>4. Live(runs[q])' <=> Live(x)
      BY <3>1 DEF Live
    <3> QED
      BY <3>2, <3>3, <3>4 DEF RunInv
  <2> QED
    BY <2>2, <2>3
<1>5. pc \in Calling => /\ Cur \in DOMAIN runs /\ runs'[Cur].cmd = runs[Cur].cmd
                        /\ runs'[Cur].ctl = runs[Cur].ctl /\ runs'[Cur].ids = runs[Cur].ids
  <2>1. pc \in Calling => Cur \in DOMAIN runs
    BY Lengths DEF Inv, CallInv, Cur
  <2> QED
    BY <1>1, <2>1
<1>6. Preparing \subseteq Calling /\ {"mapgids", "signal"} \subseteq Calling
  BY DEF Preparing, Calling
<1>7. CallInv'
  BY <1>3, <1>5, <1>6 DEF Inv, CallInv
<1>8. CountInv'
  BY <1>1, <1>3, <1>5 DEF Inv, CountInv
<1>9. ImageInv'
  <2>1. faults \in Nat /\ faults' \in Nat /\ faults =< faults'
    BY SandboxAssumption DEF Inv, Types
  <2>2. (faults >= 1 => faults' >= 1) /\ (faults' =< 1 => faults =< 1)
    BY <2>1
  <2> QED
    BY <1>3, <1>5, <2>2 DEF Inv, ImageInv
<1> QED
  BY <1>1, <1>2, <1>4, <1>7, <1>8, <1>9 DEF Inv

LEMMA ProcessSteps ==
  ASSUME Inv, NEW r \in DOMAIN runs, Copy(r) \/ Wrapper(r) \/ Action(r) \/ Breaks(r)
  PROVE  Inv'
<1> DEFINE y == runs[r]
<1>0. /\ y \in RunType /\ y.taken =< y.sent /\ y.sent \in Nat /\ y.taken \in Nat
      /\ IsSeq(vols) /\ faults \in 0 .. MaxFaults /\ faults =< faults /\ Sent(y)
  BY Lengths, SandboxAssumption DEF Inv, Types, RunType, RunInv
<1>f. Fault => faults' \in 0 .. MaxFaults /\ faults =< faults'
  BY <1>0, SandboxAssumption DEF Fault
<1>s. SetRun(r, y) <=> SetRun(r, runs[r])
  OBVIOUS
<1> HIDE DEF y
<1>1. ASSUME NEW x \in RunType, SetRun(r, x),
             x.taken =< x.sent, x.cmd = y.cmd, x.ctl = y.ctl, x.ids = y.ids,
             Live(x) => Live(y), x.action = "none" \/ y.action # "none" \/ x.ctl = "byte",
             UNCHANGED <<mode, stack, pc, res, opaque>>, image' \in {image, "none"},
             IsSeq(vols'), Len(vols') = Len(vols), faults' \in 0 .. MaxFaults /\ faults =< faults'
      PROVE  Inv'
  BY <1>1, RunFrame DEF y
<1>2. CASE CopyEntry(r)
  <2> DEFINE x == [y EXCEPT !.sent = y.sent + 1]
  <2>1. /\ x \in RunType /\ x.taken =< x.sent /\ x.cmd = y.cmd /\ x.ctl = y.ctl /\ x.ids = y.ids
        /\ x.action = y.action /\ x.wrapper = y.wrapper
    BY <1>0 DEF RunType
  <2>2. SetRun(r, x)
    BY <1>2 DEF CopyEntry, y
  <2>3. UNCHANGED <<mode, stack, pc, res, opaque, image, vols, faults>>
    BY <1>2 DEF CopyEntry
  <2> HIDE DEF x
  <2> QED
    BY <1>0, <1>1, <2>1, <2>2, <2>3 DEF Live
<1>3. ASSUME NEW s \in {"end", "cut", "torn"}, NEW b \in BOOLEAN, SetRun(r, [y EXCEPT !.stdin = s, !.broken = b]),
             UNCHANGED <<mode, stack, pc, res, opaque, image, vols>>, faults' \in 0 .. MaxFaults /\ faults =< faults'
      PROVE  Inv'
  <2> DEFINE x == [y EXCEPT !.stdin = s, !.broken = b]
  <2>1. /\ x \in RunType /\ x.taken =< x.sent /\ x.cmd = y.cmd /\ x.ctl = y.ctl /\ x.ids = y.ids
        /\ x.action = y.action /\ x.wrapper = y.wrapper
    BY <1>0 DEF RunType
  <2>2. SetRun(r, x)
    BY <1>3
  <2> HIDE DEF x
  <2> QED
    BY <1>0, <1>1, <1>3, <2>1, <2>2 DEF Live
<1>4. CASE CopyEnds(r)
  <2>1. [y EXCEPT !.stdin = "end"] = [y EXCEPT !.stdin = "end", !.broken = y.broken] /\ y.broken \in BOOLEAN
    BY <1>0 DEF RunType
  <2>2. SetRun(r, [y EXCEPT !.stdin = "end"])
    BY <1>4 DEF CopyEnds, y
  <2>3. UNCHANGED <<mode, stack, pc, res, opaque, image, vols, faults>>
    BY <1>4 DEF CopyEnds
  <2> QED
    BY <1>0, <1>3, <2>1, <2>2, <2>3
<1>5. CASE CopyBreaks(r)
  <2>1. PICK how \in {"cut", "torn"} : SetRun(r, [y EXCEPT !.stdin = how, !.broken = TRUE])
    BY <1>5 DEF CopyBreaks, y
  <2>2. UNCHANGED <<mode, stack, pc, res, opaque, image, vols>> /\ Fault
    BY <1>5 DEF CopyBreaks
  <2> QED
    BY <1>3, <1>f, <2>1, <2>2
<1>6. ASSUME NEW w \in {"running", "ok", "failed"}, NEW a \in {"starting", "ok", "failed", "none", "acting"},
             SetRun(r, [y EXCEPT !.wrapper = w, !.action = a]),
             a = y.action \/ (a = "starting" /\ y.wrapper = "waiting" /\ y.ctl = "byte"),
             UNCHANGED <<mode, stack, pc, res, opaque, image, vols>>, faults' \in 0 .. MaxFaults /\ faults =< faults'
      PROVE  Inv'
  <2> DEFINE x == [y EXCEPT !.wrapper = w, !.action = a]
  <2>1. /\ x \in RunType /\ x.taken =< x.sent /\ x.cmd = y.cmd /\ x.ctl = y.ctl /\ x.ids = y.ids
        /\ x.action = a /\ x.wrapper = w
    BY <1>0 DEF RunType
  <2>2. SetRun(r, x)
    BY <1>6
  <2> HIDE DEF x
  <2>3. Live(x) => Live(y)
    BY <1>6, <2>1 DEF Live
  <2> QED
    BY <1>0, <1>1, <1>6, <2>1, <2>2, <2>3
<1>7. ASSUME NEW w \in {"running", "ok", "failed"}
      PROVE  /\ [y EXCEPT !.wrapper = w] = [y EXCEPT !.wrapper = w, !.action = y.action]
             /\ y.action \in {"starting", "ok", "failed", "none", "acting"}
  BY <1>0 DEF RunType
<1>8. CASE WaitForIDMappings(r)
  <2>0. UNCHANGED <<mode, stack, pc, res, opaque, image, vols, faults>> /\ y.wrapper = "waiting"
    BY <1>8 DEF WaitForIDMappings, y
  <2>1. CASE y.ctl = "byte" /\ SetRun(r, [y EXCEPT !.wrapper = "running", !.action = "starting"])
    BY <1>0, <1>6, <2>0, <2>1
  <2>2. CASE SetRun(r, [y EXCEPT !.wrapper = "failed"])
    BY <1>0, <1>6, <1>7, <2>0, <2>2
  <2> QED
    BY <1>8, <2>1, <2>2 DEF WaitForIDMappings, y
<1>9. CASE WrapperEnds(r)
  <2>0. UNCHANGED <<mode, stack, pc, res, opaque, image, vols, faults>> /\ y.action \in {"ok", "failed"}
    BY <1>9 DEF WrapperEnds, y, Ended
  <2>1. SetRun(r, [y EXCEPT !.wrapper = y.action])
    BY <1>9 DEF WrapperEnds, y
  <2> QED
    BY <1>0, <1>6, <1>7, <2>0, <2>1
<1>10. CASE KillWrapper(r)
  <2>0. UNCHANGED <<mode, stack, pc, res, opaque, image, vols>> /\ Fault
    BY <1>10 DEF KillWrapper
  <2>1. SetRun(r, [y EXCEPT !.wrapper = "failed"])
    BY <1>10 DEF KillWrapper, y
  <2> QED
    BY <1>f, <1>6, <1>7, <2>0, <2>1
<1>11. ASSUME NEW a \in {"acting", "ok", "failed"}, EndAction(r, a), y.action \in {"starting", "acting"},
              UNCHANGED <<mode, stack, pc, res, opaque>>, image' \in {image, "none"},
              IsSeq(vols'), Len(vols') = Len(vols), faults' \in 0 .. MaxFaults /\ faults =< faults'
       PROVE  Inv'
  <2> DEFINE x == [y EXCEPT !.action = a]
  <2>1. /\ x \in RunType /\ x.taken =< x.sent /\ x.cmd = y.cmd /\ x.ctl = y.ctl /\ x.ids = y.ids
        /\ x.action = a /\ x.wrapper = y.wrapper
    BY <1>0 DEF RunType
  <2>2. SetRun(r, x)
    BY <1>11 DEF EndAction, y
  <2> HIDE DEF x
  <2>3. Live(x) => Live(y)
    BY <1>11, <2>1 DEF Live
  <2> QED
    BY <1>1, <1>11, <2>1, <2>2, <2>3
<1>12. CASE ActionStarts(r) \/ UnpackEnds(r)
  <2>1. UNCHANGED <<mode, stack, pc, res, opaque, image, vols, faults>> /\ y.action \in {"starting", "acting"}
    BY <1>12 DEF ActionStarts, UnpackEnds, Acting, y
  <2>2. \E a \in {"acting", "ok", "failed"} : EndAction(r, a)
    BY <1>12 DEF ActionStarts, UnpackEnds
  <2> QED
    BY <1>0, <1>11, <2>1, <2>2
<1>13. CASE ActionFails(r)
  <2>1. UNCHANGED <<mode, stack, pc, res, opaque, image, vols>> /\ y.action \in {"starting", "acting"} /\ Fault
    BY <1>13 DEF ActionFails, y
  <2>2. EndAction(r, "failed")
    BY <1>13 DEF ActionFails
  <2> QED
    BY <1>0, <1>f, <1>11, <2>1, <2>2
<1>14. CASE Destroy(r)
  <2>1. UNCHANGED <<mode, stack, pc, res, opaque, vols, faults>> /\ y.action \in {"starting", "acting"}
    BY <1>14 DEF Destroy, Acting, y
  <2>2. (\E a \in {"ok", "failed"} : EndAction(r, a)) /\ image' \in {image, "none"}
    BY <1>14 DEF Destroy
  <2> QED
    BY <1>0, <1>11, <2>1, <2>2
<1>15. CASE EnsureBaseDirectoryExists(r)
  <2>1. UNCHANGED <<mode, stack, pc, res, opaque, image, faults>> /\ y.action \in {"starting", "acting"}
    BY <1>15 DEF EnsureBaseDirectoryExists, Acting, y
  <2>2. (\E a \in {"ok", "failed"} : EndAction(r, a)) /\ (UNCHANGED vols \/ \E v : vols' = [vols EXCEPT ![Len(vols)] = v])
    <3>1. PICK parent : parent = IF Len(vols) = 1 THEN <<>> ELSE vols[Len(vols) - 1]
      OBVIOUS
    <3>2. PICK can, v :
            can \in BOOLEAN /\ can = CanEnsureBase(Volume, parent, Layer.base) /\ v = EnsureBase(vols[Len(vols)], parent, Layer.base)
      BY DEF CanEnsureBase
    <3>3. /\ vols' = IF can THEN [vols EXCEPT ![Len(vols)] = v] ELSE vols
          /\ EndAction(r, IF can THEN "ok" ELSE "failed")
      BY <1>15, <3>1, <3>2 DEF EnsureBaseDirectoryExists
    <3> QED
      BY <3>3
  <2>3. IsSeq(vols') /\ Len(vols') = Len(vols)
    <3>1. ASSUME NEW v, vols' = [vols EXCEPT ![Len(vols)] = v]
          PROVE  IsSeq(vols') /\ Len(vols') = Len(vols)
      BY <1>0, <3>1, SeqKept, Zenon
    <3> QED
      BY <1>0, <2>2, <3>1
  <2> QED
    BY <1>0, <1>11, <2>1, <2>2, <2>3
<1>16. CASE UnpackNext(r)
  <2>1. /\ UNCHANGED <<mode, stack, pc, res, opaque, image, faults>> /\ y.action \in {"starting", "acting"}
        /\ y.taken < y.sent
    BY <1>16 DEF UnpackNext, Acting, y
  <2>2. CASE EndAction(r, "failed") /\ UNCHANGED vols
    BY <1>0, <1>11, <2>1, <2>2
  <2>3. CASE SetRun(r, [y EXCEPT !.taken = y.taken + 1]) /\ \E v : vols' = [vols EXCEPT ![Len(vols)] = v]
    <3> DEFINE x == [y EXCEPT !.taken = y.taken + 1]
    <3>1. /\ x \in RunType /\ x.taken =< x.sent /\ x.cmd = y.cmd /\ x.ctl = y.ctl /\ x.ids = y.ids
          /\ x.action = y.action /\ x.wrapper = y.wrapper
      <4>1. y.taken + 1 \in Nat /\ y.taken + 1 =< y.sent
        BY <1>0, <2>1
      <4> QED
        BY <1>0, <4>1 DEF RunType
    <3>2. SetRun(r, x)
      BY <2>3
    <3>3. PICK v : vols' = [vols EXCEPT ![Len(vols)] = v]
      BY <2>3
    <3>4. IsSeq(vols') /\ Len(vols') = Len(vols)
      BY <1>0, <3>3, SeqKept, Zenon
    <3> HIDE DEF x
    <3> QED
      BY <1>0, <1>1, <2>1, <3>1, <3>2, <3>4 DEF Live
  <2> QED
    BY <1>16, <2>2, <2>3 DEF UnpackNext, y
<1> QED
  BY <1>2, <1>4, <1>5, <1>8, <1>9, <1>10, <1>12, <1>13, <1>14, <1>15, <1>16
     DEF Copy, Wrapper, Action, Unpack, Breaks

------------------------------------------------------------------------------
(* The parent *)

NoLive == \A r \in DOMAIN runs : ~Live(runs[r])

LEMMA Quiet ==
  ASSUME Inv, pc # "exited", pc = "wait" => Over(Cur)
  PROVE  NoLive
<1>1. \A r \in DOMAIN runs : RunInv(r)
  BY DEF Inv
<1>2. pc = "wait" => ~Live(runs[Cur])
  BY DEF Over, Live
<1> QED
  BY <1>1, <1>2 DEF NoLive, RunInv

LEMMA Facts ==
  ASSUME Inv
  PROVE  /\ Types /\ CallInv /\ CountInv /\ ImageInv
         /\ Len(vols) \in Nat /\ Len(runs) \in Nat /\ Cur = Len(runs)
         /\ pc \in Calling => Cur \in DOMAIN runs /\ runs[Cur] \in RunType /\ runs[Cur].cmd \in Cmds
         /\ Clone => ~mode.mount
         /\ faults \in Nat /\ (Fault => faults' \in 0 .. MaxFaults /\ faults' = faults + 1)
<1>1. Types /\ CallInv /\ CountInv /\ ImageInv
  BY DEF Inv
<1>2. Len(vols) \in Nat /\ Len(runs) \in Nat /\ Cur = Len(runs)
  BY <1>1, Lengths DEF Cur
<1>3. pc \in Calling => Cur \in DOMAIN runs /\ runs[Cur] \in RunType
  BY <1>1, <1>2, Lengths DEF CallInv
<1>4. Clone => ~mode.mount
  BY <1>1, SandboxAssumption DEF Clone, CloneUserns, Types
<1>5. faults \in Nat /\ (Fault => faults' \in 0 .. MaxFaults /\ faults' = faults + 1)
  BY <1>1, SandboxAssumption DEF Types, Fault
<1> QED
  BY <1>1, <1>2, <1>3, <1>4, <1>5 DEF RunType

\* The parent goes on, and leaves the calls alone.
LEMMA MoveFrame ==
  ASSUME Inv, NoLive, UNCHANGED <<mode, stack, vols, runs>>, pc' \in PC,
         res' \in {"ok", "failed", "disowned"}, image' \in {"none", "made", "mounted", "busy"},
         faults' \in 0 .. MaxFaults /\ faults =< faults', IsSeq(opaque'), Len(opaque') = Len(opaque),
         CallInv', CountInv', ImageInv'
  PROVE  Inv'
<1>1. Types'
  BY DEF Inv, Types
<1>2. ASSUME NEW r \in DOMAIN runs PROVE RunInv(r)'
  <2>1. RunInv(r) /\ ~Live(runs[r])
    BY DEF Inv, NoLive
  <2>2. (Clone <=> Clone') /\ runs'[r] = runs[r]
    BY DEF Clone
  <2> QED
    BY <2>1, <2>2 DEF RunInv, Sent, Live
<1> QED
  BY <1>1, <1>2 DEF Inv

\* A call that returns.
LEMMA ReturnSteps ==
  ASSUME Inv, StartFails \/ SignalFails \/ Wait
  PROVE  Inv'
<1>0. /\ Types /\ CallInv /\ CountInv /\ ImageInv /\ pc \in Calling /\ pc # "exited"
      /\ pc = "wait" => Over(Cur)
  BY Facts DEF StartFails, SignalFails, Wait, Calling, Preparing
<1>1. NoLive
  BY <1>0, Quiet
<1>2. UNCHANGED <<mode, stack, image, vols, opaque, runs>>
  BY DEF StartFails, SignalFails, Wait
<1>3. pc' = "returned" /\ res' \in {"ok", "failed"}
  BY DEF StartFails, SignalFails, Wait, Return
<1>4. faults' \in 0 .. MaxFaults /\ faults =< faults'
  BY Facts DEF StartFails, SignalFails, Wait, Types
<1>5. (Clone <=> Clone') /\ Cur' = Cur
  BY <1>2 DEF Clone, Cur
<1>6. CallInv'
  BY <1>0, <1>2, <1>3, <1>5 DEF CallInv, Calling, Preparing
<1>7. CountInv'
  BY <1>0, <1>2, <1>3, <1>5 DEF CountInv, Calling, Preparing, Working
<1>8. ImageInv'
  BY <1>0, <1>2, <1>3, <1>5 DEF ImageInv, Calling, Preparing, Working
<1>9. pc' \in PC /\ IsSeq(opaque')
  BY <1>0, <1>2, <1>3 DEF PC, Calling, Types
<1> QED
  BY <1>0, <1>1, <1>2, <1>3, <1>4, <1>6, <1>7, <1>8, <1>9, MoveFrame DEF Types

\* The steps of a create or a delete between calls.
LEMMA CommandSteps ==
  ASSUME Inv,
         \/ PullDone \/ HandleOpaqueWhiteouts \/ HandleOpaqueWhiteoutsFails
         \/ CreateImage \/ MountImage \/ WriteImageInfo \/ SetOwnership \/ SetOwnershipFails \/ CreateImageFails
         \/ Unmount \/ UnmountGivesUp \/ (DestroyImage /\ InProcess) \/ DestroyImageFails \/ Destroyed \/ RemoveFails
  PROVE  Inv'
<1>0. /\ Types /\ CallInv /\ CountInv /\ ImageInv /\ pc \notin Calling /\ pc # "exited"
      /\ UNCHANGED <<mode, stack, vols, runs>>
  BY Facts DEF PullDone, HandleOpaqueWhiteouts, HandleOpaqueWhiteoutsFails, CreateImage, MountImage, WriteImageInfo,
     SetOwnership, SetOwnershipFails, CreateImageFails, Unmount, UnmountGivesUp, DestroyImage, DestroyImageFails, Destroyed, RemoveFails, Calling, Preparing
<1>1. NoLive
  BY <1>0, Quiet DEF Calling
<1>2. (Clone <=> Clone') /\ Cur' = Cur
  BY <1>0 DEF Clone, Cur
<1>3. faults' \in 0 .. MaxFaults /\ faults =< faults'
  BY Facts DEF PullDone, HandleOpaqueWhiteouts, HandleOpaqueWhiteoutsFails, CreateImage, MountImage, WriteImageInfo,
     SetOwnership, SetOwnershipFails, CreateImageFails, Unmount, UnmountGivesUp, DestroyImage, DestroyImageFails, Destroyed, RemoveFails, Types
<1>4. IsSeq(opaque') /\ Len(opaque') = Len(opaque)
  <2>0. IsSeq(opaque)
    BY <1>0 DEF Types
  <2>1. CASE UNCHANGED opaque
    BY <2>0, <2>1
  <2>2. ASSUME NEW d, opaque' = [opaque EXCEPT ![Len(vols)] = d]
        PROVE  IsSeq(opaque') /\ Len(opaque') = Len(opaque)
    BY <2>0, <2>2, SeqKept, Zenon
  <2>3. UNCHANGED opaque \/ \E d : opaque' = [opaque EXCEPT ![Len(vols)] = d]
    BY DEF PullDone, HandleOpaqueWhiteouts, HandleOpaqueWhiteoutsFails, CreateImage, MountImage, WriteImageInfo,
     SetOwnership, SetOwnershipFails, CreateImageFails, Unmount, UnmountGivesUp, DestroyImage, DestroyImageFails, Destroyed, RemoveFails
  <2> QED
    BY <2>0, <2>2, <2>3
\* Where it goes from where, and with what.
<1>5. \/ pc' \in Working /\ pc \in Working /\ UNCHANGED res
      \/ pc' = "destroy" /\ pc \in Working \cup {"destroy"} /\ res' \in {res, "failed"}
      \/ pc' \in {"destroyed", "end"} /\ res' \in {"ok", "failed", "disowned"}
  BY <1>0 DEF PullDone, HandleOpaqueWhiteouts, HandleOpaqueWhiteoutsFails, CreateImage, MountImage, WriteImageInfo,
     SetOwnership, SetOwnershipFails, CreateImageFails, Unmount, UnmountGivesUp, DestroyImage, DestroyImageFails, Destroyed, RemoveFails, Working, Types
<1>6. image' \in {"none", "made", "mounted", "busy"}
  BY <1>0 DEF PullDone, HandleOpaqueWhiteouts, HandleOpaqueWhiteoutsFails, CreateImage, MountImage, WriteImageInfo,
     SetOwnership, SetOwnershipFails, CreateImageFails, Unmount, UnmountGivesUp, DestroyImage, DestroyImageFails, Destroyed, RemoveFails, Types
<1>7. pc' \in PC /\ pc' \notin Calling /\ res' \in {"ok", "failed", "disowned"}
  BY <1>0, <1>5 DEF PC, Calling, Preparing, Working, Types
<1>8. CallInv'
  BY <1>7 DEF CallInv, Calling, Preparing
<1>9. CountInv'
  BY <1>0, <1>5, <1>7 DEF CountInv, Working
<1>10. ImageInv'
  <2> SUFFICES ASSUME stack # <<>>
               PROVE  /\ image' # "busy"
                      /\ pc' \in Working => res' = "ok"
                      /\ pc' \in {"layer", "opaque", "image"} => image' = "none"
                      /\ pc' \in {"destroy", "destroyed"} => faults' >= 1
                      /\ pc' = "destroyed" /\ faults' =< 1 => image' \in {"none", "made"}
                      /\ pc' = "end" /\ res' = "failed" /\ faults' =< 1 => image' = "none"
    BY <1>0, <1>2, <1>7 DEF ImageInv
  <2>1. /\ image # "busy" /\ (pc \in Working => res = "ok")
        /\ pc \in {"layer", "opaque", "image"} => image = "none"
        /\ pc \in {"destroy", "destroyed"} => faults >= 1
        /\ pc = "destroyed" /\ faults =< 1 => image \in {"none", "made"}
        /\ faults \in Nat /\ (Fault => faults' = faults + 1)
    BY <1>0, Facts DEF ImageInv
  <2>2. CASE PullDone \/ HandleOpaqueWhiteouts \/ HandleOpaqueWhiteoutsFails
    BY <2>1, <2>2 DEF PullDone, HandleOpaqueWhiteouts, HandleOpaqueWhiteoutsFails, Working
  <2>3. CASE CreateImage \/ MountImage \/ WriteImageInfo
    BY <2>1, <2>3 DEF CreateImage, MountImage, WriteImageInfo, Working
  <2>4. CASE SetOwnership \/ SetOwnershipFails \/ CreateImageFails
    BY <2>1, <2>4 DEF SetOwnership, SetOwnershipFails, CreateImageFails, Working
  <2>5. CASE Unmount \/ UnmountGivesUp \/ (DestroyImage /\ InProcess) \/ DestroyImageFails \/ Destroyed \/ RemoveFails
    BY <2>1, <2>5 DEF Unmount, UnmountGivesUp, DestroyImage, DestroyImageFails, Destroyed, RemoveFails, Working
  <2> QED
    BY <2>2, <2>3, <2>4, <2>5
<1> QED
  BY <1>0, <1>1, <1>3, <1>4, <1>6, <1>7, <1>8, <1>9, <1>10, MoveFrame

\* A call that is prepared: the new state of the call, and where the parent is.
LEMMA PrepareFrame ==
  ASSUME Inv, pc \in Preparing, NEW x \in RunType, SetRun(Cur, x), pc' \in Calling \ {"start"}, x.cmd = runs[Cur].cmd,
         x.taken =< x.sent,
         Sent(x), Live(x) => pc' = "wait", pc' \in Preparing => x.ctl = "open",
         pc' = "mapgids" => "uid" \in x.ids, pc' = "signal" => x.ids = {"uid", "gid"},
         UNCHANGED <<mode, stack, image, vols, opaque>>, res' \in {"ok", "failed", "disowned"},
         faults' \in 0 .. MaxFaults /\ faults =< faults'
  PROVE  Inv'
<1>0. /\ Types /\ CallInv /\ CountInv /\ ImageInv /\ pc \in Calling /\ pc \notin {"exited", "wait"}
      /\ Cur \in DOMAIN runs /\ Cur = Len(runs)
  BY Facts DEF Calling, Preparing
<1>1. /\ runs' \in Seq(RunType) /\ Len(runs') = Len(runs) /\ DOMAIN runs' = DOMAIN runs
      /\ runs'[Cur] = x /\ \A q \in DOMAIN runs : q # Cur => runs'[q] = runs[q]
  BY <1>0, RunStep
<1>2. NoLive
  BY <1>0, Quiet
<1>3. (Clone <=> Clone') /\ Cur' = Cur
  BY <1>0, <1>1 DEF Clone, Cur
<1>a. PICK c : c = Cur
  OBVIOUS
<1>4. Types'
  BY <1>0, <1>1 DEF Types, PC
<1>5. ASSUME NEW r \in DOMAIN runs PROVE RunInv(r)'
  <2>1. CASE r # Cur
    <3>1. runs'[r] = runs[r] /\ RunInv(r) /\ ~Live(runs[r])
      BY <1>1, <1>2, <2>1 DEF NoLive, Inv
    <3> QED
      BY <1>3, <3>1 DEF RunInv, Sent, Live
  <2>2. CASE r = Cur
    <3>1. runs'[r] = x
      BY <1>1, <2>2
    <3>2. Sent(runs[r])' /\ (Live(runs[r])' <=> Live(x))
      BY <1>3, <3>1 DEF Sent, Live
    <3> QED
      BY <1>3, <2>2, <3>2 DEF RunInv
  <2> QED
    BY <2>1, <2>2
<1>6. CallInv'
  BY <1>0, <1>1, <1>3 DEF CallInv, Calling
<1>7. CountInv'
  BY <1>0, <1>1, <1>3 DEF CountInv, Calling, Preparing, Working
<1>8. ImageInv'
  BY <1>0, <1>1, <1>3 DEF ImageInv, Calling, Preparing, Working
<1> QED
  BY <1>1, <1>4, <1>5, <1>6, <1>7, <1>8 DEF Inv

LEMMA PrepareSteps ==
  ASSUME Inv, Start \/ SetIDMappings \/ Signal
  PROVE  Inv'
<1>0. /\ pc \in Preparing /\ Types /\ CallInv /\ Cur \in DOMAIN runs /\ runs[Cur] \in RunType
      /\ runs[Cur].ctl = "open" /\ runs[Cur].taken =< runs[Cur].sent
      /\ Sent(runs[Cur]) /\ ~Live(runs[Cur]) /\ UNCHANGED <<mode, stack, image, vols, opaque>>
  <2>1. pc \in Preparing /\ pc \in Calling
    BY DEF Start, SetIDMappings, MapUIDs, MapGIDs, SetIDMappingsFails, Signal, Preparing, Calling
  <2>2. Types /\ CallInv /\ Cur \in DOMAIN runs /\ runs[Cur] \in RunType
    BY <2>1, Facts
  <2>3. runs[Cur].ctl = "open" /\ runs[Cur].taken =< runs[Cur].sent
    BY <2>1, <2>2 DEF CallInv, Types
  <2>4. NoLive /\ RunInv(Cur)
    BY <2>1, <2>2, Quiet DEF Preparing, Inv
  <2> QED
    BY <2>1, <2>2, <2>3, <2>4 DEF NoLive, RunInv, Start, SetIDMappings, MapUIDs, MapGIDs, SetIDMappingsFails, Signal
<1> DEFINE y == runs[Cur]
<1>1. CASE Start
  <2>0. UNCHANGED <<res, faults>>
    BY <1>1 DEF Start
  <2>1. CASE Clone
    <3> DEFINE x == [y EXCEPT !.wrapper = "waiting"]
    <3>1. /\ x \in RunType /\ x.cmd = y.cmd /\ x.ctl = y.ctl /\ x.ids = y.ids /\ x.taken = y.taken /\ x.sent = y.sent
          /\ x.action = y.action
      BY <1>0 DEF RunType
    <3>2. SetRun(Cur, x) /\ pc' = "mapuids"
      BY <1>1, <2>1 DEF Start
    <3> HIDE DEF x
    <3>3. Sent(x) /\ ~Live(x)
      BY <1>0, <3>1 DEF Sent, Live
    <3>4. res' \in {"ok", "failed", "disowned"} /\ faults' \in 0 .. MaxFaults /\ faults =< faults'
      BY <1>0, <2>0 DEF Types
    <3>5. pc' \in Calling \ {"start"} /\ x.taken =< x.sent
      BY <1>0, <3>1, <3>2 DEF Calling, Preparing
    <3> QED
      BY <1>0, <3>1, <3>2, <3>3, <3>4, <3>5, PrepareFrame
  <2>2. CASE ~Clone
    <3> DEFINE x == [y EXCEPT !.action = "starting"]
    <3>1. /\ x \in RunType /\ x.cmd = y.cmd /\ x.ctl = y.ctl /\ x.ids = y.ids /\ x.taken = y.taken /\ x.sent = y.sent
      BY <1>0 DEF RunType
    <3>2. SetRun(Cur, x) /\ pc' = "wait"
      BY <1>1, <2>2 DEF Start
    <3> HIDE DEF x
    <3>3. Sent(x)
      BY <1>0, <2>2, <3>1 DEF Sent
    <3>4. res' \in {"ok", "failed", "disowned"} /\ faults' \in 0 .. MaxFaults /\ faults =< faults'
      BY <1>0, <2>0 DEF Types
    <3>5. pc' \in Calling \ {"start"} /\ pc' \notin Preparing /\ x.taken =< x.sent
      BY <1>0, <3>1, <3>2 DEF Calling, Preparing
    <3> QED
      BY <1>0, <3>1, <3>2, <3>3, <3>4, <3>5, PrepareFrame
  <2> QED
    BY <2>1, <2>2
<1>2. CASE MapUIDs \/ MapGIDs
  <2>1. PICK id \in {"uid", "gid"}, to \in {"mapgids", "signal"} :
          /\ SetRun(Cur, [y EXCEPT !.ids = y.ids \cup {id}]) /\ pc' = to
          /\ to = "mapgids" => id = "uid"
          /\ to = "signal" => id = "gid" /\ pc = "mapgids"
    BY <1>2 DEF MapUIDs, MapGIDs
  <2> DEFINE x == [y EXCEPT !.ids = y.ids \cup {id}]
  <2>3. /\ x \in RunType /\ x.cmd = y.cmd /\ x.ctl = y.ctl /\ x.ids = y.ids \cup {id} /\ x.taken = y.taken
        /\ x.sent = y.sent /\ x.action = y.action /\ x.wrapper = y.wrapper
    BY <1>0 DEF RunType
  <2>4. SetRun(Cur, x)
    BY <2>1
  <2>5. y.ids \subseteq {"uid", "gid"} /\ (pc = "mapgids" => "uid" \in y.ids)
    BY <1>0 DEF RunType, CallInv
  <2> HIDE DEF x
  <2>6. Sent(x) /\ ~Live(x)
    BY <1>0, <2>3 DEF Sent, Live
  <2>7. (to = "mapgids" => "uid" \in x.ids) /\ (to = "signal" => x.ids = {"uid", "gid"})
    BY <2>1, <2>3, <2>5
  <2>8. UNCHANGED <<res, faults>>
    BY <1>2 DEF MapUIDs, MapGIDs
  <2>9. res' \in {"ok", "failed", "disowned"} /\ faults' \in 0 .. MaxFaults /\ faults =< faults'
    BY <1>0, <2>8 DEF Types
  <2>10. pc' \in Calling \ {"start"} /\ x.taken =< x.sent
    BY <1>0, <2>1, <2>3 DEF Calling, Preparing
  <2> QED
    BY <1>0, <2>1, <2>3, <2>4, <2>6, <2>7, <2>9, <2>10, PrepareFrame
<1>3. CASE SetIDMappingsFails
  <2> DEFINE x == [y EXCEPT !.ctl = "closed"]
  <2>1. /\ x \in RunType /\ x.cmd = y.cmd /\ x.ctl = "closed" /\ x.ids = y.ids /\ x.taken = y.taken
        /\ x.sent = y.sent /\ x.action = y.action
    BY <1>0 DEF RunType
  <2>2. SetRun(Cur, x) /\ pc' = "returned" /\ res' = "failed"
    BY <1>3 DEF SetIDMappingsFails, Return
  <2> HIDE DEF x
  <2>3. Sent(x) /\ ~Live(x)
    BY <1>0, <2>1 DEF Sent, Live
  <2>4. faults' \in 0 .. MaxFaults /\ faults =< faults'
    BY <1>0, <1>3, Facts DEF SetIDMappingsFails, Types
  <2>5. pc' \in Calling \ {"start"} /\ pc' \notin Preparing /\ x.taken =< x.sent
    BY <1>0, <2>1, <2>2 DEF Calling, Preparing
  <2> QED
    BY <1>0, <2>1, <2>2, <2>3, <2>4, <2>5, PrepareFrame
<1>4. CASE Signal
  <2> DEFINE x == [y EXCEPT !.ctl = "byte"]
  <2>1. /\ x \in RunType /\ x.cmd = y.cmd /\ x.ctl = "byte" /\ x.ids = y.ids /\ x.taken = y.taken
        /\ x.sent = y.sent
    BY <1>0 DEF RunType
  <2>2. SetRun(Cur, x) /\ pc' = "wait" /\ UNCHANGED <<res, faults>> /\ pc = "signal"
    BY <1>4 DEF Signal
  <2> HIDE DEF x
  <2>3. Sent(x)
    BY <1>0, <2>1, <2>2 DEF Sent, CallInv
  <2>4. res' \in {"ok", "failed", "disowned"} /\ faults' \in 0 .. MaxFaults /\ faults =< faults'
    BY <1>0, <2>2 DEF Types
  <2>5. pc' \in Calling \ {"start"} /\ pc' \notin Preparing /\ x.taken =< x.sent
    BY <1>0, <2>1, <2>2 DEF Calling, Preparing
  <2> QED
    BY <1>0, <2>1, <2>2, <2>3, <2>4, <2>5, PrepareFrame
<1> QED
  BY <1>1, <1>2, <1>3, <1>4 DEF SetIDMappings

\* A new call begins.
LEMMA ReexecFrame ==
  ASSUME Inv, pc \notin {"exited", "wait"}, NEW cmd \in Cmds, Reexec(cmd),
         UNCHANGED <<mode, stack, res, image, faults>>, cmd = "destroy-image" => Clone /\ stack = <<>>,
         IsSeq(vols'), IsSeq(opaque'), Len(opaque') = Len(vols'), Len(vols') \in Nat, Len(vols') =< Len(stack),
         Len(runs) + 1 =< 2 * Len(vols') + 1,
         cmd = "unpack" => Len(runs) + 1 =< 2 * Len(vols'),
         cmd = "ensure-base" => Len(runs) + 1 < 2 * Len(vols'),
         stack # <<>> => image = "none"
  PROVE  Inv'
<1>0. Types /\ ImageInv /\ Len(runs) \in Nat /\ Cur = Len(runs)
  BY Facts
<1>1. /\ runs' \in Seq(RunType) /\ Len(runs') = Len(runs) + 1 /\ runs'[Len(runs) + 1] = NewRun(cmd)
      /\ \A q \in DOMAIN runs : runs'[q] = runs[q]
      /\ DOMAIN runs' = DOMAIN runs \cup {Len(runs) + 1} /\ Len(runs) + 1 \notin DOMAIN runs
  BY <1>0, ReexecStep
<1>2. NoLive
  BY Quiet
<1>3. (Clone <=> Clone') /\ Cur' = Len(runs) + 1 /\ pc' = "start"
  BY <1>1 DEF Clone, Cur, Reexec
<1>a. PICK x, n : x = NewRun(cmd) /\ n = Len(runs) + 1
  OBVIOUS
<1>4. x.cmd = cmd /\ x.ctl = "open" /\ x.action = "none" /\ x.taken = 0 /\ x.sent = 0
  BY <1>a DEF NewRun
<1>5. Types'
  BY <1>0, <1>1, <1>3, <1>4, <1>a DEF Types, PC, Calling, Preparing
<1>6. ASSUME NEW r \in DOMAIN runs' PROVE RunInv(r)'
  <2>1. CASE r \in DOMAIN runs
    <3>1. runs'[r] = runs[r] /\ RunInv(r) /\ ~Live(runs[r])
      BY <1>1, <1>2, <2>1 DEF NoLive, Inv
    <3> QED
      BY <1>3, <3>1 DEF RunInv, Sent, Live
  <2>2. CASE r = n
    <3>1. runs'[r] = x
      BY <1>1, <1>a, <2>2
    <3> QED
      BY <1>4, <3>1 DEF RunInv, Sent, Live
  <2> QED
    BY <1>1, <1>a, <2>1, <2>2
<1>7. runs'[Cur'] = x /\ Cur' > 0
  BY <1>0, <1>1, <1>3, <1>a
<1>8. CallInv'
  BY <1>3, <1>4, <1>7 DEF CallInv
<1>9. CountInv'
  BY <1>1, <1>3, <1>4, <1>7 DEF CountInv, Working
<1>10. ImageInv'
  BY <1>0, <1>3, <1>4, <1>7 DEF ImageInv, Working
<1> QED
  BY <1>5, <1>6, <1>8, <1>9, <1>10 DEF Inv

LEMMA CallSteps ==
  ASSUME Inv, CreateVolume \/ (DestroyImage /\ ~InProcess)
  PROVE  Inv'
<1>0. Types /\ ImageInv /\ CountInv /\ Len(runs) \in Nat /\ Len(vols) \in Nat /\ Len(stack) \in Nat
  BY Facts, Lengths
<1>1. CASE CreateVolume
  <2>0. pc = "layer" /\ Len(vols) < Len(stack) /\ UNCHANGED <<mode, stack, res, image, faults>>
    BY <1>1 DEF CreateVolume
  <2>a. PICK cmd \in {"unpack", "ensure-base"} :
          cmd = IF stack[Len(vols) + 1].base # <<>> THEN "ensure-base" ELSE "unpack"
    OBVIOUS
  <2>1. /\ vols' = Append(vols, Root :> Node("dir", ParseOwner(mode), Root, {}))
        /\ opaque' = Append(opaque, {}) /\ Reexec(cmd)
    BY <1>1, <2>a DEF CreateVolume
  <2>2. IsSeq(vols) /\ IsSeq(opaque) /\ Len(opaque) = Len(vols)
    BY <1>0 DEF Types
  <2>3. IsSeq(vols') /\ Len(vols') = Len(vols) + 1
    BY <2>1, <2>2, SeqGrows
  <2>4. IsSeq(opaque') /\ Len(opaque') = Len(vols) + 1
    BY <2>1, <2>2, SeqGrows
  <2>5. Len(runs) =< 2 * Len(vols) /\ (stack # <<>> => image = "none")
    BY <1>0, <2>0 DEF CountInv, ImageInv, Working
  <2>6. cmd \in Cmds /\ cmd # "destroy-image"
    BY DEF Cmds
  <2>7. Len(vols') \in Nat /\ Len(vols') =< Len(stack) /\ Len(runs) + 1 < 2 * Len(vols')
    BY <1>0, <2>0, <2>3, <2>5
  <2>8. Len(runs) + 1 =< 2 * Len(vols') /\ Len(runs) + 1 =< 2 * Len(vols') + 1
    BY <1>0, <2>7
  <2> QED
    BY <2>0, <2>1, <2>3, <2>4, <2>5, <2>6, <2>7, <2>8, ReexecFrame
<1>2. CASE DestroyImage /\ ~InProcess
  <2>1. pc = "destroy" /\ UNCHANGED <<mode, stack, res, image, vols, opaque, faults>> /\ Reexec("destroy-image")
        /\ Clone /\ stack = <<>>
    BY <1>2 DEF DestroyImage, InProcess
  <2>2. Len(runs) + 1 =< 2 * Len(vols) + 1
    BY <1>0, <2>1 DEF CountInv
  <2>3. IsSeq(vols) /\ IsSeq(opaque) /\ Len(opaque) = Len(vols) /\ Len(vols) =< Len(stack) /\ "destroy-image" \in Cmds
    BY <1>0 DEF Types, Cmds
  <2> QED
    BY <1>0, <2>1, <2>2, <2>3, ReexecFrame
<1> QED
  BY <1>1, <1>2

LEMMA ReturnedSteps ==
  ASSUME Inv, Returned
  PROVE  Inv'
<1>0. /\ Types /\ CallInv /\ ImageInv /\ CountInv /\ Len(runs) \in Nat /\ Len(vols) \in Nat /\ pc = "returned"
      /\ UNCHANGED <<mode, stack, image, vols, opaque, faults>> /\ pc \in Calling
  BY Facts DEF Returned, Calling
<1>1. ASSUME NEW cmd \in {"unpack", "destroy-volume"}, Reexec(cmd), UNCHANGED res,
             cmd = "unpack" => runs[Cur].cmd = "ensure-base",
             cmd = "destroy-volume" => runs[Cur].cmd = "unpack"
      PROVE  Inv'
  <2>1. cmd \in Cmds /\ cmd # "destroy-image" /\ cmd # "ensure-base"
    BY DEF Cmds
  <2>2. (stack # <<>> => image = "none") /\ Len(runs) + 1 =< 2 * Len(vols) + 1
        /\ (cmd = "unpack" => Len(runs) + 1 =< 2 * Len(vols))
    BY <1>0, <1>1 DEF ImageInv, CountInv
  <2>3. IsSeq(vols) /\ IsSeq(opaque) /\ Len(opaque) = Len(vols) /\ Len(vols) =< Len(stack)
    BY <1>0 DEF Types
  <2> QED
    BY <1>0, <1>1, <2>1, <2>2, <2>3, ReexecFrame
<1>2. ASSUME UNCHANGED runs, pc' \in {"opaque", "end", "destroyed"},
             res' \in {res, "failed"}, pc' = "opaque" => runs[Cur].cmd = "unpack" /\ res' = "ok",
             pc' = "end" => runs[Cur].cmd # "destroy-image",
             pc' = "destroyed" => runs[Cur].cmd = "destroy-image"
      PROVE  Inv'
  <2>1. NoLive
    BY <1>0, Quiet
  <2>2. (Clone <=> Clone') /\ Cur' = Cur
    BY <1>0, <1>2 DEF Clone, Cur
  <2>3. pc' \in PC /\ pc' \notin Calling /\ res' \in {"ok", "failed", "disowned"} /\ IsSeq(opaque')
    BY <1>0, <1>2 DEF PC, Calling, Preparing, Working, Types
  <2>4. CallInv'
    BY <2>3 DEF CallInv, Calling, Preparing
  <2>5. CountInv'
    BY <1>0, <1>2, <2>3 DEF CountInv, Working
  <2>6. ImageInv'
    <3> SUFFICES ASSUME stack # <<>>
                 PROVE  /\ image # "busy"
                        /\ pc' \in Working => res' = "ok"
                        /\ image = "none" /\ pc' \notin {"destroy", "destroyed"}
      BY <1>0, <2>3 DEF ImageInv
    <3>1. image = "none" /\ runs[Cur].cmd # "destroy-image"
      BY <1>0 DEF ImageInv, CallInv
    <3> QED
      BY <1>2, <3>1 DEF Working
  <2>7. faults' \in 0 .. MaxFaults /\ faults =< faults' /\ image' \in {"none", "made", "mounted", "busy"}
    BY <1>0 DEF Types
  <2> QED
    BY <1>0, <1>2, <2>1, <2>3, <2>4, <2>5, <2>6, <2>7, MoveFrame
<1> QED
  BY <1>1, <1>2 DEF Returned

\* The parent is gone: nobody waits, and what acts may go on.
LEMMA DieSteps ==
  ASSUME Inv, Exit \/ Kill
  PROVE  Inv'
<1>0. Types /\ CountInv /\ ImageInv
  BY Facts
<1>1. PICK how \in {"cut", "torn"} : Die(how)
  BY DEF Exit, Kill
<1>2. /\ pc' = "exited" /\ UNCHANGED <<mode, stack, image, vols, opaque>> /\ res' \in {"ok", "failed", "disowned"}
      /\ faults' \in 0 .. MaxFaults /\ faults =< faults'
  BY <1>0, Facts DEF Exit, Kill, Types
<1>3. ASSUME NEW r \in DOMAIN runs
      PROVE  /\ runs'[r] \in RunType /\ runs'[r].taken = runs[r].taken /\ runs'[r].sent = runs[r].sent
             /\ runs'[r].ids = runs[r].ids /\ runs'[r].action = runs[r].action
             /\ runs'[r].ctl = "byte" <=> runs[r].ctl = "byte"
  <2>a. PICK c, s : /\ c = IF runs[r].ctl = "open" THEN "closed" ELSE runs[r].ctl
                    /\ s = IF runs[r].stdin = "open" THEN how ELSE runs[r].stdin
    OBVIOUS
  <2>1. runs'[r] = [runs[r] EXCEPT !.ctl = c, !.stdin = s]
    BY <1>1, <2>a DEF Die
  <2>2. runs[r] \in RunType
    BY <1>0, Lengths
  <2>3. /\ c \in {"open", "byte", "closed"} /\ s \in {"open", "end", "cut", "torn"}
        /\ c = "byte" <=> runs[r].ctl = "byte"
    BY <2>a, <2>2 DEF RunType
  <2> QED
    BY <2>1, <2>2, <2>3 DEF RunType
<1>4. runs' \in Seq(RunType) /\ Len(runs') = Len(runs) /\ DOMAIN runs' = DOMAIN runs
  <2>1. Len(runs) \in Nat /\ DOMAIN runs = 1 .. Len(runs)
    BY <1>0, Lengths
  <2>2. runs' \in [1 .. Len(runs) -> RunType]
    <3>1. runs' = [k \in DOMAIN runs |-> runs'[k]] /\ DOMAIN runs' = DOMAIN runs
      BY <1>1 DEF Die
    <3> QED
      BY <1>3, <2>1, <3>1
  <2>3. runs' \in Seq(RunType)
    BY <2>1, <2>2, SeqDef
  <2>4. DOMAIN runs' = 1 .. Len(runs') /\ Len(runs') \in Nat
    BY <2>3, LenProperties
  <2>5. DOMAIN runs' = 1 .. Len(runs)
    BY <2>2
  <2>6. Len(runs') = Len(runs)
    <3>1. PICK m \in Nat, n \in Nat : m = Len(runs) /\ n = Len(runs')
      BY <2>1, <2>4
    <3>2. 1 .. m = 1 .. n
      BY <2>4, <2>5, <3>1
    <3>3. m = n
      BY <3>2
    <3> QED
      BY <3>1, <3>3
  <2> QED
    BY <2>1, <2>3, <2>5, <2>6
<1>5. Types'
  BY <1>0, <1>2, <1>3, <1>4 DEF Types, PC
<1>6. ASSUME NEW r \in DOMAIN runs PROVE RunInv(r)'
  <2>1. RunInv(r) /\ (Clone <=> Clone')
    BY <1>2 DEF Inv, Clone
  <2>2. Sent(runs[r])'
    BY <1>3, <2>1 DEF RunInv, Sent
  <2> QED
    BY <1>2, <2>2 DEF RunInv
<1>7. CallInv' /\ CountInv' /\ ImageInv'
  <2>1. Clone <=> Clone'
    BY <1>2 DEF Clone
  <2> QED
    BY <1>0, <1>2, <1>4, <2>1 DEF CallInv, CountInv, ImageInv, Calling, Preparing, Working
<1> QED
  BY <1>4, <1>5, <1>6, <1>7 DEF Inv

LEMMA ContainerSteps ==
  ASSUME Inv, ContainerEnds
  PROVE  Inv'
<1>0. Types /\ CallInv /\ CountInv /\ ImageInv
  BY Facts
<1>1. image = "busy" /\ image' \in {"mounted", "made"} /\ UNCHANGED <<mode, stack, pc, res, vols, opaque, runs, faults>>
  BY DEF ContainerEnds
<1>2. (Clone <=> Clone') /\ Cur' = Cur
  BY <1>1 DEF Clone, Cur
<1>3. Types'
  BY <1>0, <1>1 DEF Types
<1>4. \A r \in DOMAIN runs : RunInv(r)'
  BY <1>1, <1>2 DEF Inv, RunInv, Sent, Live
<1>5. CallInv' /\ CountInv'
  BY <1>0, <1>1, <1>2 DEF CallInv, CountInv
<1>6. ImageInv'
  BY <1>0, <1>1 DEF ImageInv
<1> QED
  BY <1>1, <1>3, <1>4, <1>5, <1>6 DEF Inv

LEMMA NextInv == Inv /\ [Next]_vars => Inv'
<1> SUFFICES ASSUME Inv, [Next]_vars PROVE Inv'
  OBVIOUS
<1>1. CASE UNCHANGED vars
  <2>1. UNCHANGED <<mode, stack, pc, res, image, vols, opaque, runs, faults>>
    BY <1>1 DEF vars
  <2> QED
    BY <2>1 DEF Inv, Types, RunInv, Sent, Live, CallInv, CountInv, ImageInv, Clone, Cur
<1>2. CASE Parent
  BY <1>2, ReturnSteps, CommandSteps, PrepareSteps, CallSteps, ReturnedSteps, DieSteps DEF Parent
<1>3. CASE Kill \/ ContainerEnds
  BY <1>3, DieSteps, ContainerSteps
<1>4. CASE \E r \in DOMAIN runs : Copy(r) \/ Wrapper(r) \/ Action(r) \/ Breaks(r)
  BY <1>4, ProcessSteps
<1> QED
  BY <1>1, <1>2, <1>3, <1>4 DEF Next

LEMMA InitInv == Init => Inv
<1> SUFFICES ASSUME Init PROVE Inv
  OBVIOUS
<1>1. runs = <<>> /\ vols = <<>> /\ opaque = <<>> /\ Len(runs) = 0 /\ Len(vols) = 0 /\ DOMAIN runs = {}
  BY DEF Init
<1>2. IsSeq(vols) /\ IsSeq(opaque) /\ runs \in Seq(RunType)
  BY <1>1, EmptySeq DEF IsSeq
<1>3. Len(stack) \in Nat
  <2>1. CASE stack = <<>>
    BY <2>1
  <2>2. CASE stack \in Stacks
    BY <2>2, SandboxAssumption, LenProperties
  <2> QED
    BY <2>1, <2>2 DEF Init
<1>4. Types
  BY <1>1, <1>2, <1>3, SandboxAssumption DEF Init, Types, PC, Working, Calling, Preparing
<1>5. CallInv /\ CountInv
  BY <1>1 DEF Init, CallInv, CountInv, Calling, Preparing, Working
<1>6. ImageInv
  BY <1>1 DEF Init, ImageInv, Calling, Preparing, Working
<1> QED
  BY <1>1, <1>4, <1>5, <1>6 DEF Inv

LEMMA AlwaysInv == Spec => []Inv
<1> QED
  BY InitInv, NextInv, PTL DEF Spec

------------------------------------------------------------------------------
(* The stages of a volume *)

\* A set of naturals that is not empty has a least element.
LEMMA LeastNat ==
  ASSUME NEW S \in SUBSET Nat, S # {}
  PROVE  \E x \in S : \A y \in S : x =< y
<1>1. PICK x \in S : \A y \in S : ~ (<<y, x>> \in OpToRel(<, Nat))
  BY WFMin, NatLessThanWellFounded
<1>2. \A y \in S : ~ (y < x)
  BY <1>1, Zenon DEF OpToRel
<1> QED
  BY <1>2

\* h goes through the first N entries of layer l, from volume v.
Staged(h, m, v, l, N) ==
  h = [n \in 0 .. N |-> IF n = 0 THEN v ELSE UnpackEntry(m, h[n - 1], l.base, l.entries[n])]

LEMMA StagedExists ==
  ASSUME NEW m, NEW v, NEW l, NEW N \in Nat
  PROVE  \E h : Staged(h, m, v, l, N)
<1> DEFINE T == {n \in Nat : ~ \E h : Staged(h, m, v, l, n)}
<1> SUFFICES ASSUME N \in T PROVE FALSE
  OBVIOUS
<1>1. PICK x \in T : \A y \in T : x =< y
  BY LeastNat
<1>2. x # 0
  <2> DEFINE h == [n \in 0 .. 0 |-> v]
  <2>1. \A n \in 0 .. 0 : n = 0
    OBVIOUS
  <2>2. Staged(h, m, v, l, 0)
    BY <2>1 DEF Staged
  <2> QED
    BY <1>1, <2>2
<1>3. x - 1 \in Nat /\ x - 1 \notin T
  BY <1>1, <1>2
<1>4. PICK g : Staged(g, m, v, l, x - 1)
  BY <1>3
<1> DEFINE h == [n \in 0 .. x |-> IF n = 0 THEN v ELSE UnpackEntry(m, g[n - 1], l.base, l.entries[n])]
<1>5. ASSUME NEW n \in 0 .. x - 1 PROVE h[n] = g[n]
  <2>1. g[n] = IF n = 0 THEN v ELSE UnpackEntry(m, g[n - 1], l.base, l.entries[n])
    BY <1>4 DEF Staged
  <2>2. n \in 0 .. x
    BY <1>1
  <2> QED
    BY <2>1, <2>2
<1>6. ASSUME NEW n \in 0 .. x
      PROVE  h[n] = IF n = 0 THEN v ELSE UnpackEntry(m, h[n - 1], l.base, l.entries[n])
  <2>1. CASE n = 0
    BY <2>1
  <2>2. CASE n # 0
    <3>1. n - 1 \in 0 .. x - 1
      BY <1>1, <2>2
    <3>2. h[n - 1] = g[n - 1]
      BY <1>5, <3>1
    <3> QED
      BY <2>2, <3>2
  <2> QED
    BY <2>1, <2>2
<1>7. h = [n \in 0 .. x |-> h[n]]
  OBVIOUS
<1> HIDE DEF h
<1>8. Staged(h, m, v, l, x)
  BY <1>6, <1>7 DEF Staged
<1> QED
  BY <1>1, <1>8

\* Every entry that is unpacked makes the next stage out of the last.
LEMMA NextStage ==
  ASSUME NEW m, NEW v, NEW l, Len(l.entries) \in Nat
  PROVE  /\ Stages(m, v, l)[0] = v
         /\ \A n \in 0 .. Len(l.entries) - 1 :
              Stages(m, v, l)[n + 1] = UnpackEntry(m, Stages(m, v, l)[n], l.base, l.entries[n + 1])
<1>1. PICK N \in Nat : N = Len(l.entries)
  OBVIOUS
<1> DEFINE h == Stages(m, v, l)
<1>2. h = CHOOSE f : f = [n \in 0 .. N |-> IF n = 0 THEN v ELSE UnpackEntry(m, f[n - 1], l.base, l.entries[n])]
  BY <1>1, Zenon DEF Stages
<1>3. \E f : f = [n \in 0 .. N |-> IF n = 0 THEN v ELSE UnpackEntry(m, f[n - 1], l.base, l.entries[n])]
  BY StagedExists DEF Staged
<1>4. h = [n \in 0 .. N |-> IF n = 0 THEN v ELSE UnpackEntry(m, h[n - 1], l.base, l.entries[n])]
  BY <1>2, <1>3, Zenon
<1> HIDE DEF h
<1>5. h[0] = v
  <2>1. 0 \in 0 .. N
    OBVIOUS
  <2> QED
    BY <1>4, <2>1
<1>6. ASSUME NEW n \in 0 .. N - 1 PROVE h[n + 1] = UnpackEntry(m, h[n], l.base, l.entries[n + 1])
  <2>1. n + 1 \in 0 .. N /\ n + 1 # 0 /\ (n + 1) - 1 = n
    OBVIOUS
  <2>2. PICK k : k = n + 1
    OBVIOUS
  <2>3. k \in 0 .. N /\ k # 0 /\ k - 1 = n
    BY <2>1, <2>2
  <2>4. h[k] = UnpackEntry(m, h[k - 1], l.base, l.entries[k])
    BY <1>4, <2>3
  <2> QED
    BY <2>2, <2>3, <2>4
<1> QED
  BY <1>1, <1>5, <1>6 DEF h

------------------------------------------------------------------------------
(* How far the command has come *)

\* Layer k has its volume, and the volume is as it should be.
Whole(k) == vols[k] = Unpacked(k) /\ opaque[k] = OpaqueWhiteouts(stack[k])

\* The volume of layer k as far as the process x of the call has worked on it.
Worked(x, k) ==
  /\ x.wrapper = "ok" => x.action = "ok"
  /\ x.wrapper = "waiting" => x.action = "none"
  /\ x.cmd = "ensure-base" =>
       /\ stack[k].base # <<>> /\ x.sent = 0
       /\ x.action \in {"none", "starting", "acting"} => vols[k] = Bare
       /\ x.action = "ok" => vols[k] = Prepared(k)
  /\ x.cmd = "unpack" =>
       /\ x.sent =< Len(stack[k].entries)
       /\ vols[k] = Stages(mode, Prepared(k), stack[k])[x.taken]
       /\ x.stdin = "end" => x.sent = Len(stack[k].entries)
       /\ x.stdin \in {"cut", "torn"} => x.broken
       /\ x.action = "ok" => x.taken = x.sent /\ x.stdin # "open"

\* The call has come back without an error.
Back(x) ==
  /\ x.wrapper \in {"none", "ok", "failed"} /\ x.action = "ok"
  /\ x.cmd = "unpack" => x.stdin # "open" /\ ~x.broken

InCall == pc \in Calling \cup {"opaque"}

\* Nothing has failed: what res says, but for the calls that clean up.
Cleanup == pc \in Calling /\ runs[Cur].cmd \in {"destroy-volume", "destroy-image"}
Fine == res = "ok" /\ pc # "destroyed" /\ ~(pc = "returned" /\ Cleanup)

\* Of a create in which nothing has failed.
CreateInv ==
  /\ pc # "destroy"
  /\ pc \in {"image", "mount", "info", "own", "end", "exited"} => Len(vols) = Len(stack)
  /\ pc = "mount" => image = "made"
  /\ pc \in {"info", "own", "end", "exited"} => image = IF mode.mount THEN "mounted" ELSE "made"
  /\ InCall => Len(vols) > 0
  /\ \A k \in DOMAIN vols : k < Len(vols) \/ ~InCall => Whole(k)
  /\ pc = "opaque" => vols[Len(vols)] = Unpacked(Len(vols))
  /\ pc \in Calling => runs[Cur].cmd \in {"unpack", "ensure-base"} /\ Worked(runs[Cur], Len(vols))
  /\ pc = "start" => runs[Cur].wrapper = "none" /\ runs[Cur].action = "none"
  /\ pc = "returned" => Back(runs[Cur])

\* Of a delete.
DeleteInv ==
  /\ pc \notin Working
  /\ pc \in Calling => runs[Cur].cmd = "destroy-image"
  /\ pc \in {"end", "exited"} /\ res = "ok" => image = "none"

Progress ==
  /\ pc = "exited" /\ res # "failed" => NoLive
  /\ stack = <<>> => DeleteInv
  /\ stack # <<>> /\ Fine => CreateInv
  /\ stack # <<>> /\ pc \in Calling \ {"returned"} /\ ~Cleanup => res = "ok"

LEMMA VolumeFacts ==
  ASSUME Inv
  PROVE  /\ Len(vols) \in Nat /\ DOMAIN vols = 1 .. Len(vols) /\ DOMAIN opaque = 1 .. Len(vols)
         /\ \A k \in 1 .. Len(vols) : Len(stack[k].entries) \in Nat
<1>1. Types /\ Len(vols) \in Nat /\ Len(stack) \in Nat
  BY Lengths DEF Inv
<1>2. PICK S, T : vols \in Seq(S) /\ opaque \in Seq(T)
  BY <1>1 DEF Types, IsSeq
<1>3. DOMAIN vols = 1 .. Len(vols) /\ DOMAIN opaque = 1 .. Len(vols)
  BY <1>1, <1>2, LenProperties DEF Types
<1>4. ASSUME NEW k \in 1 .. Len(vols) PROVE Len(stack[k].entries) \in Nat
  <2>1. Len(stack) > 0
    BY <1>1 DEF Types
  <2>2. stack \in Stacks
    BY <1>1, <2>1 DEF Types
  <2>3. k \in DOMAIN stack
    <3>1. stack \in Seq(Range(stack))
      BY <2>2, SandboxAssumption
    <3>2. DOMAIN stack = 1 .. Len(stack)
      BY <3>1, LenProperties
    <3> QED
      BY <1>1, <3>2 DEF Types
  <2>4. stack[k].entries \in Seq(Range(stack[k].entries))
    BY <2>2, <2>3, SandboxAssumption
  <2> QED
    BY <2>4, LenProperties
<1> QED
  BY <1>1, <1>3, <1>4

\* What a volume should be depends on the one beneath it only.
LEMMA SameLayer ==
  ASSUME NEW k, UNCHANGED <<mode, stack>>, k = 1 \/ vols'[k - 1] = vols[k - 1]
  PROVE  /\ Bare' = Bare /\ Prepared(k)' = Prepared(k) /\ Unpacked(k)' = Unpacked(k)
         /\ Stages(mode, Prepared(k), stack[k])' = Stages(mode, Prepared(k), stack[k])
<1>1. Bare' = Bare
  BY DEF Bare
<1>2. Beneath(k)' = Beneath(k)
  BY DEF Beneath
<1>3. Prepared(k)' = Prepared(k)
  BY <1>1, <1>2 DEF Prepared
<1> QED
  BY <1>1, <1>3 DEF Unpacked

LEMMA WholeKept ==
  ASSUME NEW k, UNCHANGED <<mode, stack>>, k = 1 \/ vols'[k - 1] = vols[k - 1],
         vols'[k] = vols[k], opaque'[k] = opaque[k], Whole(k)
  PROVE  Whole(k)'
BY SameLayer DEF Whole

\* What a step of a process of call r makes of its record y.
KeepCopy(x, y) == x.sent = y.sent /\ x.stdin = y.stdin /\ x.broken = y.broken
KeepWork(x, y) == x.taken = y.taken /\ x.wrapper = y.wrapper /\ x.action = y.action
Early == {"none", "starting", "acting"}

Moved(r, x, y) ==
  \/ /\ CopyEntry(r) /\ x.sent = y.sent + 1 /\ x.stdin = y.stdin /\ x.broken = y.broken /\ KeepWork(x, y)
  \/ /\ CopyEnds(r) /\ x.sent = y.sent /\ x.stdin = "end" /\ x.broken = y.broken /\ KeepWork(x, y)
  \/ /\ CopyBreaks(r) /\ x.sent = y.sent /\ x.stdin \in {"cut", "torn"} /\ x.broken /\ KeepWork(x, y)
  \/ /\ UnpackNext(r) /\ x.taken = y.taken + 1 /\ x.wrapper = y.wrapper /\ x.action = y.action /\ KeepCopy(x, y)
     /\ vols' = [vols EXCEPT ![Len(vols)] = UnpackEntry(mode, vols[Len(vols)], Layer.base, Layer.entries[y.taken + 1])]
  \/ /\ EnsureBaseDirectoryExists(r) /\ x.taken = y.taken /\ x.wrapper = y.wrapper /\ x.action = "ok" /\ KeepCopy(x, y)
     /\ vols' = [vols EXCEPT ![Len(vols)] = EnsureBase(vols[Len(vols)], Beneath(Len(vols)), Layer.base)]
  \/ /\ UnpackEnds(r) /\ x.taken = y.taken /\ x.wrapper = y.wrapper /\ x.action \in {"ok", "failed"} /\ KeepCopy(x, y)
  \/ /\ KeepCopy(x, y) /\ x.taken = y.taken /\ UNCHANGED vols
     /\ x.wrapper = "ok" => y.wrapper = "ok" \/ (y.action = "ok" /\ x.action = "ok")
     /\ x.action = "ok" => y.action = "ok" \/ y.cmd \in {"destroy-volume", "destroy-image"}
     /\ x.action \in Early => y.action \in Early \/ y.wrapper = "waiting"
     /\ \/ x.wrapper \in {y.wrapper, "ok", "failed"} /\ x.action = y.action
        \/ y.wrapper = "waiting" /\ y.ctl = "byte" /\ x.wrapper = "running"
        \/ y.action \in {"starting", "acting"} /\ x.wrapper = y.wrapper

LEMMA ProcessMoves ==
  ASSUME Inv, NEW r \in DOMAIN runs, Copy(r) \/ Wrapper(r) \/ Action(r) \/ Breaks(r)
  PROVE  \E x \in RunType : SetRun(r, x) /\ x.cmd = runs[r].cmd /\ x.ctl = runs[r].ctl /\ Moved(r, x, runs[r])
<1>0. PICK y \in RunType : y = runs[r]
  BY Lengths DEF Inv
<1>a. y.taken \in Nat /\ y.sent \in Nat /\ y.broken \in BOOLEAN
      /\ y.action \in {"none", "starting", "acting", "ok", "failed"}
  BY <1>0 DEF RunType
<1> SUFFICES \E x \in RunType : SetRun(r, x) /\ x.cmd = y.cmd /\ x.ctl = y.ctl /\ Moved(r, x, y)
  BY <1>0
<1>1. CASE CopyEntry(r)
  <2> DEFINE x == [y EXCEPT !.sent = y.sent + 1]
  <2>1. x \in RunType /\ x.cmd = y.cmd /\ x.ctl = y.ctl /\ x.sent = y.sent + 1 /\ x.stdin = y.stdin
        /\ x.broken = y.broken /\ KeepWork(x, y)
    BY <1>a DEF RunType, KeepWork
  <2>2. SetRun(r, x)
    BY <1>0, <1>1 DEF CopyEntry
  <2> HIDE DEF x
  <2> QED
    BY <1>1, <2>1, <2>2 DEF Moved
<1>2. CASE CopyEnds(r)
  <2> DEFINE x == [y EXCEPT !.stdin = "end"]
  <2>1. x \in RunType /\ x.cmd = y.cmd /\ x.ctl = y.ctl /\ x.sent = y.sent /\ x.stdin = "end"
        /\ x.broken = y.broken /\ KeepWork(x, y)
    BY <1>a DEF RunType, KeepWork
  <2>2. SetRun(r, x)
    BY <1>0, <1>2 DEF CopyEnds
  <2> HIDE DEF x
  <2> QED
    BY <1>2, <2>1, <2>2 DEF Moved
<1>3. CASE CopyBreaks(r)
  <2>0. PICK how \in {"cut", "torn"} : SetRun(r, [y EXCEPT !.stdin = how, !.broken = TRUE])
    BY <1>0, <1>3 DEF CopyBreaks
  <2> DEFINE x == [y EXCEPT !.stdin = how, !.broken = TRUE]
  <2>1. x \in RunType /\ x.cmd = y.cmd /\ x.ctl = y.ctl /\ x.sent = y.sent /\ x.stdin = how
        /\ x.broken /\ KeepWork(x, y)
    BY <1>a DEF RunType, KeepWork
  <2>2. SetRun(r, x)
    BY <2>0
  <2> HIDE DEF x
  <2> QED
    BY <1>3, <2>1, <2>2 DEF Moved
<1>5. ASSUME NEW w \in {"waiting", "running", "ok", "failed", "none"}
      PROVE  [y EXCEPT !.wrapper = w] = [y EXCEPT !.wrapper = w, !.action = y.action]
  BY <1>a, <1>5 DEF RunType
<1>6. ASSUME NEW a \in {"none", "starting", "acting", "ok", "failed"}
      PROVE  [y EXCEPT !.action = a] = [y EXCEPT !.wrapper = y.wrapper, !.action = a]
             /\ y.wrapper \in {"waiting", "running", "ok", "failed", "none"}
  BY <1>a, <1>6 DEF RunType
<1>7. CASE Wrapper(r) \/ KillWrapper(r)
  <2>0. UNCHANGED vols
    BY <1>7 DEF Wrapper, WaitForIDMappings, WrapperEnds, KillWrapper
  <2>1. PICK w \in {"waiting", "running", "ok", "failed", "none"}, a \in {"none", "starting", "acting", "ok", "failed"} :
          /\ SetRun(r, [y EXCEPT !.wrapper = w, !.action = a])
          /\ \/ w = "running" /\ a = "starting" /\ y.wrapper = "waiting" /\ y.ctl = "byte"
             \/ w = y.action /\ a = y.action /\ w \in {"ok", "failed"}
             \/ w = "failed" /\ a = y.action
    <3>1. CASE WaitForIDMappings(r)
      BY <1>0, <1>5, <1>a, <3>1 DEF WaitForIDMappings
    <3>2. CASE WrapperEnds(r)
      BY <1>0, <1>5, <1>a, <3>2 DEF WrapperEnds, Ended
    <3>3. CASE KillWrapper(r)
      BY <1>0, <1>5, <1>a, <3>3 DEF KillWrapper
    <3> QED
      BY <1>7, <3>1, <3>2, <3>3 DEF Wrapper
  <2>2. PICK x : x = [y EXCEPT !.wrapper = w, !.action = a]
    OBVIOUS
  <2>3. x \in RunType /\ x.cmd = y.cmd /\ x.ctl = y.ctl /\ KeepCopy(x, y) /\ x.taken = y.taken
        /\ x.wrapper = w /\ x.action = a
    BY <1>a, <2>2 DEF RunType, KeepCopy
  <2>4. Moved(r, x, y)
    BY <1>a, <2>0, <2>1, <2>3 DEF Moved, Early
  <2> QED
    BY <2>1, <2>2, <2>3, <2>4
<1>8. ASSUME NEW a \in {"acting", "ok", "failed"}, EndAction(r, a)
      PROVE  \E x \in RunType : /\ SetRun(r, x) /\ x.cmd = y.cmd /\ x.ctl = y.ctl /\ KeepCopy(x, y) /\ x.taken = y.taken
                                /\ x.wrapper = y.wrapper /\ x.action = a
  <2>1. PICK x : x = [y EXCEPT !.wrapper = y.wrapper, !.action = a]
    OBVIOUS
  <2>2. x \in RunType /\ x.cmd = y.cmd /\ x.ctl = y.ctl /\ KeepCopy(x, y) /\ x.taken = y.taken
        /\ x.wrapper = y.wrapper /\ x.action = a
    BY <1>a, <2>1 DEF RunType, KeepCopy
  <2>3. SetRun(r, x)
    BY <1>0, <1>6, <1>8, <2>1 DEF EndAction
  <2> QED
    BY <2>2, <2>3
<1>9. CASE ActionStarts(r) \/ ActionFails(r) \/ Destroy(r)
  <2>1. UNCHANGED vols /\ y.action \in {"starting", "acting"}
    BY <1>0, <1>9 DEF ActionStarts, ActionFails, Destroy, Acting
  <2>2. PICK a \in {"acting", "ok", "failed"} :
          EndAction(r, a) /\ (a = "ok" => y.cmd \in {"destroy-volume", "destroy-image"})
    BY <1>0, <1>9 DEF ActionStarts, ActionFails, Destroy
  <2> QED
    BY <1>8, <2>1, <2>2 DEF Moved, Early
<1>10. CASE UnpackEnds(r)
  <2>1. PICK a \in {"ok", "failed"} : EndAction(r, a)
    BY <1>10 DEF UnpackEnds
  <2> QED
    BY <1>8, <1>10, <2>1 DEF Moved
<1>11. CASE EnsureBaseDirectoryExists(r)
  <2>0. y.action = "acting"
    BY <1>0, <1>11 DEF EnsureBaseDirectoryExists, Acting
  <2>1. PICK n, parent : n = Len(vols) /\ parent = Beneath(n)
    OBVIOUS
  <2>2. PICK can, v :
          can \in BOOLEAN /\ can = CanEnsureBase(Volume, parent, Layer.base) /\ v = EnsureBase(vols[n], parent, Layer.base)
    BY DEF CanEnsureBase
  <2>3. /\ vols' = IF can THEN [vols EXCEPT ![n] = v] ELSE vols
        /\ EndAction(r, IF can THEN "ok" ELSE "failed")
    BY <1>11, <2>1, <2>2 DEF EnsureBaseDirectoryExists, Beneath
  <2>4. CASE can
    <3>1. vols' = [vols EXCEPT ![Len(vols)] = EnsureBase(vols[Len(vols)], Beneath(Len(vols)), Layer.base)] /\ EndAction(r, "ok")
      BY <2>1, <2>2, <2>3, <2>4
    <3> QED
      BY <1>8, <1>11, <3>1 DEF Moved
  <2>5. CASE ~can
    BY <1>8, <2>0, <2>3, <2>5 DEF Moved, Early
  <2> QED
    BY <2>2, <2>4, <2>5
<1>12. CASE UnpackNext(r)
  <2>0. y.action = "acting"
    BY <1>0, <1>12 DEF UnpackNext, Acting
  <2>1. PICK n, e, v : n = Len(vols) /\ e = Layer.entries[y.taken + 1] /\ v = UnpackEntry(mode, vols[n], Layer.base, e)
    OBVIOUS
  <2>2. CASE EndAction(r, "failed") /\ UNCHANGED vols
    BY <1>8, <2>0, <2>2 DEF Moved, Early
  <2>3. CASE vols' = [vols EXCEPT ![n] = v] /\ SetRun(r, [y EXCEPT !.taken = y.taken + 1])
    <3> DEFINE x == [y EXCEPT !.taken = y.taken + 1]
    <3>1. x \in RunType /\ x.cmd = y.cmd /\ x.ctl = y.ctl /\ x.taken = y.taken + 1 /\ x.wrapper = y.wrapper
          /\ x.action = y.action /\ KeepCopy(x, y)
      BY <1>a DEF RunType, KeepCopy
    <3>2. SetRun(r, x)
      BY <2>3
    <3>3. vols' = [vols EXCEPT ![Len(vols)] = UnpackEntry(mode, vols[Len(vols)], Layer.base, Layer.entries[y.taken + 1])]
      BY <2>1, <2>3
    <3> HIDE DEF x
    <3> QED
      BY <1>12, <3>1, <3>2, <3>3 DEF Moved
  <2> QED
    BY <1>0, <1>12, <2>1, <2>2, <2>3 DEF UnpackNext
<1> QED
  BY <1>1, <1>2, <1>3, <1>7, <1>9, <1>10, <1>11, <1>12 DEF Copy, Action, Unpack, Breaks

LEMMA WholeSame ==
  ASSUME UNCHANGED <<mode, stack, vols, opaque>>
  PROVE  \A k : (Whole(k)' <=> Whole(k)) /\ Unpacked(k)' = Unpacked(k)
<1>1. ASSUME NEW k PROVE (Whole(k)' <=> Whole(k)) /\ Unpacked(k)' = Unpacked(k)
  <2>1. Unpacked(k)' = Unpacked(k)
    BY SameLayer
  <2> QED
    BY <2>1 DEF Whole
<1> QED
  BY <1>1

\* Nothing of what a create has done changes.
LEMMA CreateFrame ==
  ASSUME CreateInv, UNCHANGED <<mode, stack, pc, image, vols, opaque>>, Cur' = Cur,
         pc \in Calling => runs'[Cur] = runs[Cur]
  PROVE  CreateInv'
<1>1. \A k : (Whole(k)' <=> Whole(k)) /\ Unpacked(k)' = Unpacked(k)
  BY WholeSame
<1>2. ASSUME pc \in Calling PROVE Worked(runs[Cur], Len(vols))' <=> Worked(runs[Cur], Len(vols))
  <2>1. PICK n : n = Len(vols)
    OBVIOUS
  <2>2. /\ Bare' = Bare /\ Prepared(n)' = Prepared(n)
        /\ Stages(mode, Prepared(n), stack[n])' = Stages(mode, Prepared(n), stack[n])
    BY SameLayer
  <2> QED
    BY <1>2, <2>1, <2>2 DEF Worked
<1>3. pc = "returned" => (Back(runs[Cur])' <=> Back(runs[Cur]))
  BY DEF Back, Calling
<1>4. {"start", "returned"} \subseteq Calling
  BY DEF Calling, Preparing
<1>5. InCall' <=> InCall
  BY DEF InCall
<1> QED
  BY <1>1, <1>2, <1>3, <1>4, <1>5 DEF CreateInv

\* A process that acts is not started by its own steps, and one that does not
\* act leaves volumes and images alone.
LEMMA ProcessQuiet ==
  ASSUME Inv, NEW r \in DOMAIN runs, Copy(r) \/ Wrapper(r) \/ Action(r) \/ Breaks(r)
  PROVE  /\ UNCHANGED <<mode, stack, pc, res, opaque>> /\ Len(vols') = Len(vols)
         /\ ~Live(runs[r]) => UNCHANGED <<image, vols>>
         /\ UNCHANGED image \/ (image' = "none" /\ runs[r].cmd = "destroy-image")
         /\ DOMAIN runs' = DOMAIN runs /\ Len(runs') = Len(runs) /\ \A q \in DOMAIN runs : q # r => runs'[q] = runs[q]
         /\ runs'[r].cmd = runs[r].cmd
         /\ \A q \in DOMAIN runs : Live(runs'[q]) => Live(runs[q])
<1>1. PICK x \in RunType : SetRun(r, x) /\ x.cmd = runs[r].cmd /\ x.ctl = runs[r].ctl /\ Moved(r, x, runs[r])
  BY ProcessMoves
<1>2. UNCHANGED <<mode, stack, pc, res, opaque>>
  BY DEF Copy, CopyEntry, CopyEnds, Wrapper, WaitForIDMappings, WrapperEnds, Action, ActionStarts,
     EnsureBaseDirectoryExists, Unpack, UnpackNext, UnpackEnds, Destroy, Breaks, CopyBreaks,
     ActionFails, KillWrapper
<1>3. ~Live(runs[r]) => UNCHANGED <<image, vols>>
  BY DEF Live, Acting, Copy, CopyEntry, CopyEnds, Wrapper, WaitForIDMappings, WrapperEnds, Action, ActionStarts,
     EnsureBaseDirectoryExists, Unpack, UnpackNext, UnpackEnds, Destroy, Breaks, CopyBreaks,
     ActionFails, KillWrapper
<1>4. UNCHANGED image \/ (image' = "none" /\ runs[r].cmd = "destroy-image")
  BY DEF Copy, CopyEntry, CopyEnds, Wrapper, WaitForIDMappings, WrapperEnds, Action, ActionStarts,
     EnsureBaseDirectoryExists, Unpack, UnpackNext, UnpackEnds, Destroy, Breaks, CopyBreaks,
     ActionFails, KillWrapper
<1>5. /\ DOMAIN runs' = DOMAIN runs /\ Len(runs') = Len(runs) /\ runs'[r] = x
      /\ \A q \in DOMAIN runs : q # r => runs'[q] = runs[q]
  BY <1>1, RunStep DEF Inv
<1>6. Live(x) => Live(runs[r])
  <2>1. UnpackNext(r) \/ EnsureBaseDirectoryExists(r) \/ UnpackEnds(r) => Live(runs[r])
    BY DEF UnpackNext, EnsureBaseDirectoryExists, UnpackEnds, Acting, Live
  <2> QED
    BY <1>1, <2>1 DEF Moved, Live, KeepWork
<1>7. Len(vols') = Len(vols)
  <2>0. IsSeq(vols)
    BY DEF Inv, Types
  <2>1. ASSUME NEW v, vols' = [vols EXCEPT ![Len(vols)] = v]
        PROVE  Len(vols') = Len(vols)
    BY <2>0, <2>1, SeqKept, Zenon
  <2>2. UNCHANGED vols \/ \E v : vols' = [vols EXCEPT ![Len(vols)] = v]
    BY <1>1 DEF Moved, CopyEntry, CopyEnds, CopyBreaks, UnpackEnds
  <2> QED
    BY <2>1, <2>2
<1> QED
  BY <1>1, <1>2, <1>3, <1>4, <1>5, <1>6, <1>7

\* Of the call the parent is in: the volume is as far as the process is.
LEMMA WorkedStep ==
  ASSUME Inv, NEW r \in DOMAIN runs, Copy(r) \/ Wrapper(r) \/ Action(r) \/ Breaks(r),
         NEW n, n = Len(vols), n > 0, Worked(runs[r], n), runs[r].cmd \in {"unpack", "ensure-base"}
  PROVE  /\ Worked(runs[r], n)'
         /\ \A k \in 1 .. n : k # n => vols'[k] = vols[k]
<1>1. PICK x \in RunType : SetRun(r, x) /\ x.cmd = runs[r].cmd /\ x.ctl = runs[r].ctl /\ Moved(r, x, runs[r])
  BY ProcessMoves
<1>2. PICK y \in RunType : y = runs[r]
  BY Lengths DEF Inv
<1>3. runs'[r] = x /\ UNCHANGED <<mode, stack>>
  BY <1>1, RunStep, ProcessQuiet DEF Inv
<1>4. /\ n \in Nat /\ DOMAIN vols = 1 .. n /\ Len(stack[n].entries) \in Nat /\ Layer = stack[n]
  BY VolumeFacts DEF Layer
<1>5. \A k \in 1 .. n : k # n => vols'[k] = vols[k]
  BY <1>1, <1>4 DEF Moved, CopyEntry, CopyEnds, CopyBreaks, UnpackEnds
<1>6. n = 1 \/ vols'[n - 1] = vols[n - 1]
  BY <1>4, <1>5
<1>7. /\ Bare' = Bare /\ Prepared(n)' = Prepared(n)
      /\ Stages(mode, Prepared(n), stack[n])' = Stages(mode, Prepared(n), stack[n])
  BY <1>3, <1>6, SameLayer
<1>8. PICK S : S = Stages(mode, Prepared(n), stack[n])
  OBVIOUS
<1>e. PICK E \in Nat : E = Len(stack[n].entries)
  BY <1>4
\* The same, with names that do not change.
<1>9. PICK b, p : b = Bare /\ p = Prepared(n)
  OBVIOUS
<1> DEFINE W(z, v) ==
      /\ z.wrapper = "ok" => z.action = "ok"
      /\ z.wrapper = "waiting" => z.action = "none"
      /\ z.cmd = "ensure-base" =>
           /\ stack[n].base # <<>> /\ z.sent = 0
           /\ z.action \in {"none", "starting", "acting"} => v = b
           /\ z.action = "ok" => v = p
      /\ z.cmd = "unpack" =>
           /\ z.sent =< E
           /\ v = S[z.taken]
           /\ z.stdin = "end" => z.sent = E
           /\ z.stdin \in {"cut", "torn"} => z.broken
           /\ z.action = "ok" => z.taken = z.sent /\ z.stdin # "open"
<1>10. W(y, vols[n])
  BY <1>2, <1>8, <1>e, <1>9 DEF Worked
<1>11. W(x, vols'[n]) => Worked(runs[r], n)'
  BY <1>3, <1>7, <1>8, <1>e, <1>9 DEF Worked
<1>12. /\ y.cmd \in {"unpack", "ensure-base"} /\ x.cmd = y.cmd /\ y.sent \in Nat /\ y.taken \in Nat /\ y.taken =< y.sent
       /\ y.stdin \in {"open", "end", "cut", "torn"} /\ Moved(r, x, y) /\ y.action \in {"none", "starting", "acting", "ok", "failed"}
  BY <1>1, <1>2 DEF RunType, Inv, Types
<1>13. CASE CopyEntry(r) /\ x.sent = y.sent + 1 /\ x.stdin = y.stdin /\ x.broken = y.broken /\ KeepWork(x, y)
  <2>1. y.stdin = "open" /\ UNCHANGED vols /\ y.sent < Len(Entries(r))
    BY <1>2, <1>13 DEF CopyEntry
  <2>2. y.cmd = "unpack" /\ y.sent < E
    <3>1. y.cmd = "unpack" \/ Len(Entries(r)) = 0
      BY <1>2 DEF Entries
    <3>2. y.cmd = "unpack"
      BY <1>12, <2>1, <3>1
    <3> QED
      BY <1>2, <1>4, <1>8, <1>e, <2>1, <3>2 DEF Entries
  <2>3. W(x, vols'[n])
    BY <1>10, <1>12, <1>13, <2>1, <2>2 DEF KeepWork
  <2> QED
    BY <1>5, <1>11, <2>3
<1>14. CASE CopyEnds(r) /\ x.sent = y.sent /\ x.stdin = "end" /\ x.broken = y.broken /\ KeepWork(x, y)
  <2>1. y.cmd = "unpack" /\ UNCHANGED vols /\ y.sent = Len(Entries(r)) /\ y.stdin = "open"
    BY <1>2, <1>14 DEF CopyEnds
  <2>2. y.sent = E
    BY <1>2, <1>4, <1>8, <1>e, <2>1 DEF Entries
  <2>3. W(x, vols'[n])
    BY <1>10, <1>12, <1>14, <2>1, <2>2 DEF KeepWork
  <2> QED
    BY <1>5, <1>11, <2>3
<1>15. CASE CopyBreaks(r) /\ x.sent = y.sent /\ x.stdin \in {"cut", "torn"} /\ x.broken /\ KeepWork(x, y)
  <2>1. UNCHANGED vols /\ y.stdin = "open"
    BY <1>2, <1>15 DEF CopyBreaks
  <2>3. W(x, vols'[n])
    BY <1>10, <1>12, <1>15, <2>1 DEF KeepWork
  <2> QED
    BY <1>5, <1>11, <2>3
<1>16. CASE /\ UnpackNext(r) /\ x.taken = y.taken + 1 /\ x.wrapper = y.wrapper /\ x.action = y.action /\ KeepCopy(x, y)
            /\ vols' = [vols EXCEPT ![Len(vols)] = UnpackEntry(mode, vols[Len(vols)], Layer.base, Layer.entries[y.taken + 1])]
  <2>1. y.action = "acting" /\ y.taken < y.sent
    BY <1>2, <1>16 DEF UnpackNext, Acting
  <2>2. y.cmd = "unpack"
    BY <1>10, <1>12, <2>1
  <2>3. vols'[n] = UnpackEntry(mode, vols[n], stack[n].base, stack[n].entries[y.taken + 1])
    BY <1>4, <1>16
  <2>4. y.taken \in 0 .. E - 1 /\ vols[n] = S[y.taken]
    BY <1>8, <1>e, <1>10, <1>12, <2>1, <2>2
  <2>5. S[y.taken + 1] = UnpackEntry(mode, S[y.taken], stack[n].base, stack[n].entries[y.taken + 1])
    BY <1>4, <1>8, <1>e, <2>4, NextStage
  <2>6. vols'[n] = S[x.taken]
    BY <1>16, <2>3, <2>4, <2>5
  <2>7. W(x, vols'[n])
    BY <1>10, <1>12, <1>16, <2>1, <2>2, <2>6 DEF KeepCopy
  <2> QED
    BY <1>5, <1>11, <2>7
<1>17. CASE /\ EnsureBaseDirectoryExists(r) /\ x.taken = y.taken /\ x.wrapper = y.wrapper /\ x.action = "ok" /\ KeepCopy(x, y)
            /\ vols' = [vols EXCEPT ![Len(vols)] = EnsureBase(vols[Len(vols)], Beneath(Len(vols)), Layer.base)]
  <2>1. y.action = "acting" /\ y.cmd = "ensure-base"
    BY <1>2, <1>17 DEF EnsureBaseDirectoryExists, Acting
  <2>2. vols'[n] = EnsureBase(vols[n], Beneath(n), stack[n].base)
    BY <1>4, <1>17
  <2>3. vols[n] = Bare /\ stack[n].base # <<>>
    BY <1>9, <1>10, <2>1
  <2>4. vols'[n] = p
    BY <1>9, <2>2, <2>3 DEF Prepared
  <2>5. W(x, vols'[n])
    BY <1>10, <1>12, <1>17, <2>1, <2>4 DEF KeepCopy
  <2> QED
    BY <1>5, <1>11, <2>5
<1>18. CASE UnpackEnds(r) /\ x.taken = y.taken /\ x.wrapper = y.wrapper /\ x.action \in {"ok", "failed"} /\ KeepCopy(x, y)
  <2>1. y.action = "acting" /\ y.cmd = "unpack" /\ y.taken = y.sent /\ y.stdin # "open" /\ UNCHANGED vols
    BY <1>2, <1>18 DEF UnpackEnds, Acting
  <2>2. W(x, vols'[n])
    BY <1>10, <1>12, <1>18, <2>1 DEF KeepCopy
  <2> QED
    BY <1>5, <1>11, <2>2
<1>19. CASE /\ KeepCopy(x, y) /\ x.taken = y.taken /\ UNCHANGED vols
            /\ x.wrapper = "ok" => y.wrapper = "ok" \/ (y.action = "ok" /\ x.action = "ok")
            /\ x.action = "ok" => y.action = "ok" \/ y.cmd \in {"destroy-volume", "destroy-image"}
            /\ x.action \in Early => y.action \in Early \/ y.wrapper = "waiting"
            /\ \/ x.wrapper \in {y.wrapper, "ok", "failed"} /\ x.action = y.action
               \/ y.wrapper = "waiting" /\ y.ctl = "byte" /\ x.wrapper = "running"
               \/ y.action \in {"starting", "acting"} /\ x.wrapper = y.wrapper
  <2>2. W(x, vols'[n])
    BY <1>10, <1>12, <1>19 DEF KeepCopy, Early
  <2> QED
    BY <1>5, <1>11, <2>2
<1> QED
  BY <1>12, <1>13, <1>14, <1>15, <1>16, <1>17, <1>18, <1>19 DEF Moved

LEMMA ProgressProcess ==
  ASSUME Inv, Progress, NEW r \in DOMAIN runs, Copy(r) \/ Wrapper(r) \/ Action(r) \/ Breaks(r)
  PROVE  Progress'
<1>0. /\ UNCHANGED <<mode, stack, pc, res, opaque>> /\ Len(vols') = Len(vols)
      /\ ~Live(runs[r]) => UNCHANGED <<image, vols>>
      /\ UNCHANGED image \/ (image' = "none" /\ runs[r].cmd = "destroy-image")
      /\ DOMAIN runs' = DOMAIN runs /\ Cur' = Cur /\ \A q \in DOMAIN runs : q # r => runs'[q] = runs[q]
      /\ runs'[r].cmd = runs[r].cmd
      /\ \A q \in DOMAIN runs : Live(runs'[q]) => Live(runs[q])
  BY ProcessQuiet DEF Cur
<1>1. pc = "exited" /\ res # "failed" => NoLive'
  <2>1. NoLive' <=> \A q \in DOMAIN runs' : ~Live(runs'[q])
    BY DEF NoLive, Live
  <2> QED
    BY <1>0, <2>1 DEF Progress, NoLive
<1>2. pc \in Calling => Cur \in DOMAIN runs /\ runs'[Cur].cmd = runs[Cur].cmd
  BY <1>0, Facts
<1>3. stack = <<>> => DeleteInv'
  BY <1>0, <1>2 DEF Progress, DeleteInv
<1>c. (Fine' <=> Fine) /\ (Cleanup' <=> Cleanup)
  <2>1. Cleanup' <=> Cleanup
    BY <1>0, <1>2 DEF Cleanup
  <2> QED
    BY <1>0, <2>1 DEF Fine
<1>4. ASSUME stack # <<>>, Fine PROVE CreateInv'
  <2>0. CreateInv /\ res = "ok"
    BY <1>4 DEF Progress, Fine
  <2>1. Live(runs[r]) => pc = "wait" /\ r = Cur
    <3>1. RunInv(r)
      BY DEF Inv
    <3> QED
      BY <2>0, <3>1 DEF Progress, NoLive, RunInv
  <2>2. CASE pc \in Calling /\ r = Cur
    <3>1. /\ Len(vols) > 0 /\ runs[r].cmd \in {"unpack", "ensure-base"} /\ Worked(runs[r], Len(vols))
      BY <2>0, <2>2 DEF CreateInv, InCall
    <3>a. PICK n : n = Len(vols)
      OBVIOUS
    <3>2. Worked(runs[r], n)' /\ \A k \in 1 .. n : k # n => vols'[k] = vols[k]
      BY <3>1, <3>a, WorkedStep
    <3>3. n \in Nat /\ DOMAIN vols = 1 .. n /\ DOMAIN vols' = 1 .. n
      <4>1. Inv'
        BY ProcessSteps
      <4>2. DOMAIN vols' = 1 .. Len(vols')
        BY <4>1, VolumeFacts
      <4> QED
        BY <1>0, <3>a, <4>2, VolumeFacts
    <3>4. ASSUME NEW k \in 1 .. n, k < n PROVE Whole(k)'
      <4>1. Whole(k)
        BY <2>0, <3>3, <3>4, <3>a DEF CreateInv
      <4>2. k = 1 \/ vols'[k - 1] = vols[k - 1]
        BY <3>2, <3>3, <3>4
      <4>3. vols'[k] = vols[k]
        BY <3>2, <3>3, <3>4
      <4> QED
        BY <1>0, <4>1, <4>2, <4>3, WholeKept
    <3>5. pc \notin {"start", "returned"}
      <4>1. pc = "returned" => Over(r)
        BY <2>0, <2>2 DEF CreateInv, Back, Over
      <4>2. pc = "start" => Over(r)
        BY <2>0, <2>2 DEF CreateInv, Over
      <4>3. ~Over(r)
        BY DEF Over, Copy, CopyEntry, CopyEnds, Wrapper, WaitForIDMappings, WrapperEnds, Action, ActionStarts,
           EnsureBaseDirectoryExists, Unpack, UnpackNext, UnpackEnds, Destroy, Breaks, CopyBreaks,
           ActionFails, KillWrapper, Acting
      <4> QED
        BY <4>1, <4>2, <4>3
    <3>7. pc \notin {"image", "mount", "info", "own", "end", "exited", "destroy", "destroyed", "opaque"} /\ InCall /\ (InCall <=> InCall')
      BY <1>0, <2>2 DEF Calling, Preparing, InCall
    <3>8. Worked(runs[Cur], Len(vols))'
      BY <1>0, <2>2, <3>2, <3>a DEF Worked
    <3> QED
      BY <1>0, <1>2, <2>0, <3>1, <3>3, <3>4, <3>5, <3>7, <3>8, <3>a DEF CreateInv
  <2>3. CASE ~(pc \in Calling /\ r = Cur)
    <3>1. ~Live(runs[r]) /\ UNCHANGED <<image, vols>>
      BY <1>0, <2>1, <2>3 DEF Calling
    <3>2. pc \in Calling => runs'[Cur] = runs[Cur]
      BY <1>0, <1>2, <2>3
    <3> QED
      BY <1>0, <2>0, <3>1, <3>2, CreateFrame
  <2> QED
    BY <2>2, <2>3
<1> QED
  BY <1>0, <1>1, <1>3, <1>4, <1>c DEF Progress

\* The parent fails, or is killed.
LEMMA ProgressFails ==
  ASSUME Inv, Progress,
         \/ StartFails \/ SetIDMappingsFails \/ SignalFails \/ HandleOpaqueWhiteoutsFails \/ SetOwnershipFails
         \/ CreateImageFails \/ Kill
  PROVE  Progress'
<1>1. /\ UNCHANGED stack /\ res' \in {"failed", "disowned"} /\ pc' \in {"returned", "end", "destroy", "exited"}
      /\ pc' = "exited" => res' = "failed"
  BY DEF StartFails, SetIDMappingsFails, SignalFails, HandleOpaqueWhiteoutsFails, SetOwnershipFails,
     CreateImageFails, Kill, Return
<1>2. ASSUME stack = <<>> PROVE DeleteInv'
  <2>1. DeleteInv
    BY <1>2 DEF Progress
  <2>2. pc' = "returned" => pc \in Preparing
    BY DEF StartFails, SetIDMappingsFails, SignalFails, HandleOpaqueWhiteoutsFails, SetOwnershipFails,
       CreateImageFails, Kill, Preparing
  <2>3. pc' = "returned" => runs'[Cur'].cmd = runs[Cur].cmd
    <3>1. CASE UNCHANGED runs
      BY <3>1 DEF Cur
    <3>2. CASE SetIDMappingsFails
      <4>1. pc \in Calling
        BY <3>2 DEF SetIDMappingsFails, Calling, Preparing
      <4>2. Cur \in DOMAIN runs /\ runs[Cur] \in RunType /\ Types
        BY <4>1, Facts
      <4> DEFINE x == [runs[Cur] EXCEPT !.ctl = "closed"]
      <4>3. x \in RunType /\ x.cmd = runs[Cur].cmd
        BY <4>2 DEF RunType
      <4>4. SetRun(Cur, x)
        BY <3>2 DEF SetIDMappingsFails
      <4> HIDE DEF x
      <4>5. runs'[Cur] = x /\ Len(runs') = Len(runs)
        BY <4>2, <4>3, <4>4, RunStep
      <4> QED
        BY <4>3, <4>5 DEF Cur
    <3> QED
      BY <3>1, <3>2 DEF StartFails, SignalFails, HandleOpaqueWhiteoutsFails, SetOwnershipFails, CreateImageFails, Kill
  <2>4. pc' \notin Working /\ (pc' \in Calling => pc' = "returned")
    BY <1>1 DEF Working, Calling, Preparing
  <2> QED
    BY <1>1, <2>1, <2>2, <2>3, <2>4 DEF DeleteInv, Calling
<1>3. pc' \notin Calling \ {"returned"}
  BY <1>1 DEF Calling, Preparing
<1> QED
  BY <1>1, <1>2, <1>3 DEF Progress, Fine

\* A call that is prepared changes nothing of the work.
LEMMA ProgressPrepare ==
  ASSUME Inv, Progress, Start \/ MapUIDs \/ MapGIDs \/ Signal
  PROVE  Progress'
<1>0. /\ pc \in Preparing /\ pc \in Calling /\ pc' \in {"mapuids", "mapgids", "signal", "wait"}
      /\ UNCHANGED <<mode, stack, res, image, vols, opaque>>
  BY DEF Start, MapUIDs, MapGIDs, Signal, Preparing, Calling
<1>1. Cur \in DOMAIN runs /\ runs[Cur] \in RunType /\ Types
  BY <1>0, Facts
<1>2. PICK y \in RunType : y = runs[Cur]
  BY <1>1
<1>3. PICK x \in RunType :
        /\ SetRun(Cur, x) /\ x.cmd = y.cmd /\ KeepCopy(x, y) /\ x.taken = y.taken
        /\ x.wrapper = "waiting" => y.wrapper = "waiting" \/ pc = "start"
        /\ x.wrapper = "ok" => y.wrapper = "ok"
        /\ x.action = y.action \/ (pc = "start" /\ x.action = "starting" /\ x.wrapper = y.wrapper)
  <2>1. CASE Start /\ Clone
    <3> DEFINE x == [y EXCEPT !.wrapper = "waiting"]
    <3>1. x \in RunType /\ x.cmd = y.cmd /\ KeepCopy(x, y) /\ x.taken = y.taken /\ x.wrapper = "waiting" /\ x.action = y.action
      BY DEF RunType, KeepCopy
    <3>2. SetRun(Cur, x) /\ pc = "start"
      BY <1>2, <2>1 DEF Start
    <3> HIDE DEF x
    <3> QED
      BY <3>1, <3>2
  <2>2. CASE Start /\ ~Clone
    <3> DEFINE x == [y EXCEPT !.action = "starting"]
    <3>1. x \in RunType /\ x.cmd = y.cmd /\ KeepCopy(x, y) /\ x.taken = y.taken /\ x.wrapper = y.wrapper /\ x.action = "starting"
      BY DEF RunType, KeepCopy
    <3>2. SetRun(Cur, x) /\ pc = "start"
      BY <1>2, <2>2 DEF Start
    <3> HIDE DEF x
    <3> QED
      BY <3>1, <3>2
  <2>3. CASE MapUIDs \/ MapGIDs
    <3>0. PICK id \in {"uid", "gid"} : SetRun(Cur, [y EXCEPT !.ids = y.ids \cup {id}])
      BY <1>2, <2>3 DEF MapUIDs, MapGIDs
    <3> DEFINE x == [y EXCEPT !.ids = y.ids \cup {id}]
    <3>1. x \in RunType /\ x.cmd = y.cmd /\ KeepCopy(x, y) /\ x.taken = y.taken /\ x.wrapper = y.wrapper /\ x.action = y.action
      BY DEF RunType, KeepCopy
    <3>2. SetRun(Cur, x)
      BY <3>0
    <3> HIDE DEF x
    <3> QED
      BY <3>1, <3>2
  <2>4. CASE Signal
    <3> DEFINE x == [y EXCEPT !.ctl = "byte"]
    <3>1. x \in RunType /\ x.cmd = y.cmd /\ KeepCopy(x, y) /\ x.taken = y.taken /\ x.wrapper = y.wrapper /\ x.action = y.action
      BY DEF RunType, KeepCopy
    <3>2. SetRun(Cur, x)
      BY <1>2, <2>4 DEF Signal
    <3> HIDE DEF x
    <3> QED
      BY <3>1, <3>2
  <2> QED
    BY <2>1, <2>2, <2>3, <2>4
<1>4. runs'[Cur] = x /\ Cur' = Cur
  BY <1>1, <1>3, RunStep DEF Cur
<1>5. pc' \in Calling /\ pc' \notin Working /\ pc' \notin {"start", "returned", "end", "exited"}
  BY <1>0 DEF Calling, Preparing, Working
<1>6. stack = <<>> => DeleteInv'
  BY <1>0, <1>2, <1>3, <1>4, <1>5 DEF Progress, DeleteInv
<1>c. pc \notin {"returned", "destroyed"} /\ (Cleanup' <=> Cleanup)
  BY <1>0, <1>2, <1>3, <1>4, <1>5 DEF Cleanup, Preparing
<1>7. ASSUME stack # <<>>, res = "ok" PROVE CreateInv'
  <2>0. CreateInv
    BY <1>7, <1>c DEF Progress, Fine
  <2>1. PICK n : n = Len(vols)
    OBVIOUS
  <2>2. Worked(y, n) /\ (pc = "start" => y.wrapper = "none" /\ y.action = "none") /\ n > 0 /\ y.cmd \in {"unpack", "ensure-base"}
    BY <1>0, <1>2, <2>0, <2>1 DEF CreateInv, InCall
  <2>3. /\ Bare' = Bare /\ Prepared(n)' = Prepared(n)
        /\ Stages(mode, Prepared(n), stack[n])' = Stages(mode, Prepared(n), stack[n])
    BY <1>0, SameLayer
  <2>4. Worked(x, n)
    BY <1>3, <2>2 DEF Worked, KeepCopy
  <2>5. Worked(runs[Cur], Len(vols))'
    BY <1>0, <1>4, <2>1, <2>3, <2>4 DEF Worked
  <2>6. \A k : Whole(k)' <=> Whole(k)
    BY <1>0, WholeSame
  <2>7. InCall /\ InCall' /\ pc' \notin {"image", "mount", "info", "own", "end", "exited", "destroy", "destroyed", "opaque", "start", "returned"}
    BY <1>0, <1>5 DEF InCall
  <2> QED
    BY <1>0, <1>2, <1>3, <1>4, <2>0, <2>1, <2>2, <2>5, <2>6, <2>7 DEF CreateInv
<1>8. pc \in Calling \ {"returned"}
  BY <1>0, <1>c
<1> QED
  BY <1>0, <1>5, <1>6, <1>7, <1>8, <1>c DEF Progress, Fine

\* Wait comes back without an error only if the process and the copying have
\* ended without one.
LEMMA ProgressWait ==
  ASSUME Inv, Progress, Wait
  PROVE  Progress'
<1>0. /\ pc = "wait" /\ pc' = "returned" /\ pc \in Calling /\ Over(Cur) /\ UNCHANGED <<mode, stack, image, vols, opaque, runs>>
      /\ Cur' = Cur
  BY DEF Wait, Return, Calling, Cur
<1>1. PICK y \in RunType : y = runs[Cur]
  BY <1>0, Facts
<1>2. res' = "ok" => (y.wrapper = "ok" \/ y.action = "ok") /\ ~y.broken
  BY <1>1 DEF Wait, Return
<1>3. stack = <<>> => DeleteInv'
  BY <1>0 DEF Progress, DeleteInv, Calling, Working, Preparing
<1>c. (Cleanup' <=> Cleanup) /\ pc \in Calling \ {"returned"} /\ pc' \in Calling
  BY <1>0 DEF Cleanup, Calling
<1>4. ASSUME stack # <<>>, Fine' PROVE CreateInv'
  <2>0. res' = "ok" /\ ~Cleanup
    BY <1>0, <1>4, <1>c DEF Fine
  <2>1. res = "ok" /\ pc # "destroyed"
    BY <1>0, <1>4, <1>c, <2>0 DEF Progress
  <2>2. CreateInv
    BY <1>0, <1>4, <2>1 DEF Progress, Fine
  <2>3. PICK n : n = Len(vols)
    OBVIOUS
  <2>4. Worked(y, n) /\ n > 0 /\ y.cmd \in {"unpack", "ensure-base"}
    BY <1>0, <1>1, <2>2, <2>3 DEF CreateInv, InCall
  <2>5. y.action = "ok" /\ y.wrapper \in {"none", "ok", "failed"}
    BY <1>0, <1>1, <1>2, <2>0, <2>4 DEF Worked, Over
  <2>6. Back(y)
    BY <1>2, <2>0, <2>4, <2>5 DEF Back, Worked
  <2>7. Back(runs[Cur])'
    BY <1>0, <1>1, <2>6 DEF Back
  <2>8. \A k : Whole(k)' <=> Whole(k)
    BY <1>0, WholeSame
  <2>9. Worked(runs[Cur], Len(vols))'
    <3>1. /\ Bare' = Bare /\ Prepared(n)' = Prepared(n)
          /\ Stages(mode, Prepared(n), stack[n])' = Stages(mode, Prepared(n), stack[n])
      BY <1>0, SameLayer
    <3> QED
      BY <1>0, <1>1, <2>3, <2>4, <3>1 DEF Worked
  <2>10. InCall /\ InCall'
    BY <1>0, <1>c DEF InCall
  <2> QED
    BY <1>0, <1>1, <2>2, <2>3, <2>4, <2>7, <2>8, <2>9, <2>10 DEF CreateInv
<1> QED
  BY <1>0, <1>3, <1>4 DEF Progress

\* A new call starts with the volume as it is.
LEMMA ProgressCall ==
  ASSUME Inv, Progress, CreateVolume
  PROVE  Progress'
<1>0. /\ pc = "layer" /\ Len(vols) < Len(stack) /\ UNCHANGED <<mode, stack, res, image, faults>> /\ pc' = "start"
      /\ vols' = Append(vols, Bare) /\ opaque' = Append(opaque, {})
  BY DEF CreateVolume, Reexec, Bare
<1>1. PICK cmd \in {"unpack", "ensure-base"} :
        cmd = IF stack[Len(vols) + 1].base # <<>> THEN "ensure-base" ELSE "unpack"
  OBVIOUS
<1>2. Types /\ ImageInv /\ Reexec(cmd) /\ cmd \in Cmds /\ Len(runs) \in Nat
  BY <1>1, Facts DEF CreateVolume, Cmds
<1>3. runs'[Cur'] = NewRun(cmd)
  <2>1. Len(runs') = Len(runs) + 1 /\ runs'[Len(runs) + 1] = NewRun(cmd)
    BY <1>2, ReexecStep
  <2> QED
    BY <2>1 DEF Cur
<1>4. PICK x : x = NewRun(cmd)
  OBVIOUS
<1>5. /\ x.cmd = cmd /\ x.wrapper = "none" /\ x.action = "none" /\ x.sent = 0 /\ x.taken = 0 /\ x.stdin = "open"
      /\ x.cmd \in {"unpack", "ensure-base"}
  BY <1>4 DEF NewRun
<1>6. stack # <<>>
  <2>1. pc \in Working
    BY <1>0 DEF Working
  <2> QED
    BY <2>1 DEF Progress, DeleteInv
<1>7. res = "ok" /\ CreateInv
  BY <1>0, <1>2, <1>6 DEF ImageInv, Working, Progress, Fine
<1>8. PICK n \in Nat : n = Len(vols) + 1
  BY VolumeFacts
<1>9. /\ DOMAIN vols = 1 .. n - 1 /\ DOMAIN opaque = 1 .. n - 1 /\ DOMAIN vols' = 1 .. n /\ Len(vols') = n
      /\ \A k \in 1 .. n - 1 : vols'[k] = vols[k] /\ opaque'[k] = opaque[k]
      /\ vols'[n] = Bare
  <2>1. PICK S, T : vols \in Seq(S) /\ opaque \in Seq(T) /\ Len(opaque) = Len(vols)
    BY <1>2 DEF Types, IsSeq
  <2>2. vols \in Seq(S \cup {Bare}) /\ opaque \in Seq(T \cup {{}})
    BY <2>1, SeqMonotonic
  <2>3. /\ Append(vols, Bare) \in Seq(S \cup {Bare}) /\ Len(Append(vols, Bare)) = Len(vols) + 1
        /\ \A k \in 1 .. Len(vols) : Append(vols, Bare)[k] = vols[k]
        /\ Append(vols, Bare)[Len(vols) + 1] = Bare
    BY <2>2, AppendProperties
  <2>4. \A k \in 1 .. Len(opaque) : Append(opaque, {})[k] = opaque[k]
    BY <2>2, AppendProperties
  <2>5. DOMAIN vols' = 1 .. Len(vols')
    BY <1>0, <2>3, LenProperties
  <2> QED
    BY <1>0, <1>8, <2>1, <2>3, <2>4, <2>5, VolumeFacts
<1>10. ASSUME NEW k \in 1 .. n - 1 PROVE Whole(k)'
  <2>1. Whole(k)
    BY <1>0, <1>7, <1>9 DEF CreateInv, InCall, Calling, Preparing
  <2>2. vols'[k] = vols[k] /\ opaque'[k] = opaque[k]
    BY <1>9
  <2>3. k = 1 \/ vols'[k - 1] = vols[k - 1]
    BY <1>9
  <2> QED
    BY <1>0, <2>1, <2>2, <2>3, WholeKept
<1>11. Bare' = Bare /\ Prepared(n)' = IF stack[n].base = <<>> THEN Bare ELSE Prepared(n)'
  BY <1>0 DEF Bare, Prepared
<1>12. Inv'
  BY CallSteps
<1>13. Len(stack'[n].entries) \in Nat /\ n > 0
  <2>1. n \in 1 .. Len(vols')
    BY <1>8, <1>9, VolumeFacts
  <2> QED
    BY <1>12, <2>1, VolumeFacts
<1>14. Worked(x, n)'
  <2>1. CASE cmd = "ensure-base"
    <3>1. stack'[n].base # <<>>
      BY <1>0, <1>1, <1>8, <2>1
    <3> QED
      BY <1>5, <1>9, <1>11, <2>1, <3>1 DEF Worked
  <2>2. CASE cmd = "unpack"
    <3>1. Prepared(n)' = Bare
      BY <1>1, <1>8, <1>11, <2>2
    <3>2. Stages(mode', Prepared(n)', stack'[n])[0] = Prepared(n)'
      BY <1>13, NextStage
    <3> QED
      BY <1>5, <1>9, <1>13, <2>2, <3>1, <3>2 DEF Worked
  <2> QED
    BY <2>1, <2>2
<1>15. InCall' /\ ~Cleanup' /\ pc' \in Calling
  BY <1>0, <1>3, <1>4, <1>5 DEF InCall, Cleanup, Calling, Preparing
<1>16. CreateInv'
  <2>1. Worked(runs[Cur], Len(vols))'
    BY <1>3, <1>4, <1>9, <1>14 DEF Worked
  <2> QED
    BY <1>0, <1>3, <1>4, <1>5, <1>9, <1>10, <1>13, <1>15, <2>1 DEF CreateInv
<1> QED
  BY <1>0, <1>6, <1>7, <1>16 DEF Progress

\* The callers of Reexec: the layer is unpacked when both calls have come back.
LEMMA ProgressReturned ==
  ASSUME Inv, Progress, Returned
  PROVE  Progress'
<1>0. /\ pc = "returned" /\ pc \in Calling /\ UNCHANGED <<mode, stack, image, vols, opaque, faults>>
      /\ Types /\ CallInv /\ Len(runs) \in Nat
  BY Facts DEF Returned, Calling
<1>1. PICK y \in RunType : y = runs[Cur]
  BY <1>0, Facts
<1>2. ASSUME stack = <<>> PROVE Progress'
  <2>1. y.cmd = "destroy-image"
    BY <1>0, <1>1, <1>2 DEF Progress, DeleteInv
  <2>2. pc' = "destroyed"
    BY <1>1, <2>1 DEF Returned
  <2> QED
    BY <1>0, <1>2, <2>2 DEF Progress, DeleteInv, Working, Calling, Preparing
<1>3. ASSUME stack # <<>> PROVE Progress'
  <2>1. CASE y.cmd \in {"destroy-volume", "destroy-image"}
    <3>1. \/ pc' = "end" /\ res' = "failed"
          \/ pc' = "destroyed"
      BY <1>1, <2>1 DEF Returned
    <3> QED
      BY <1>0, <1>3, <3>1 DEF Progress, Fine, Calling, Preparing
  <2>2. CASE res # "ok" /\ ~(y.cmd \in {"destroy-volume", "destroy-image"})
    <3>1. CASE pc' = "end" /\ UNCHANGED res
      BY <1>0, <1>3, <2>2, <3>1 DEF Progress, Fine, Calling, Preparing
    <3>2. CASE Reexec("destroy-volume") /\ UNCHANGED res
      <4>1. Len(runs') = Len(runs) + 1 /\ runs'[Len(runs) + 1] = NewRun("destroy-volume")
        BY <1>0, <3>2, ReexecStep DEF Cmds
      <4>2. runs'[Cur'].cmd = "destroy-volume" /\ pc' = "start"
        BY <3>2, <4>1 DEF Cur, NewRun, Reexec
      <4>3. Cleanup'
        BY <4>2 DEF Cleanup, Calling, Preparing
      <4> QED
        BY <1>0, <1>3, <2>2, <3>2, <4>2, <4>3 DEF Progress, Fine
    <3> QED
      BY <1>1, <2>2, <3>1, <3>2 DEF Returned, RunType, Cmds
  <2>3. CASE res = "ok" /\ ~(y.cmd \in {"destroy-volume", "destroy-image"})
    <3>1. CreateInv
      BY <1>0, <1>1, <1>3, <2>3 DEF Progress, Fine, Cleanup
    <3>2. PICK n : n = Len(vols)
      OBVIOUS
    <3>3. Worked(y, n) /\ Back(y) /\ n > 0 /\ n \in Nat /\ Len(stack[n].entries) \in Nat
      <4>1. n > 0
        BY <1>0, <3>1, <3>2 DEF CreateInv, InCall
      <4>2. n \in 1 .. Len(vols)
        BY <3>2, <4>1, VolumeFacts
      <4> QED
        BY <1>0, <1>1, <3>1, <3>2, <4>1, <4>2, VolumeFacts DEF CreateInv
    <3>4. \A k : (Whole(k)' <=> Whole(k)) /\ Unpacked(k)' = Unpacked(k)
      BY <1>0, WholeSame
    <3>5. \A k \in DOMAIN vols : k < n => Whole(k)
      BY <3>1, <3>2 DEF CreateInv
    <3>6. CASE y.cmd = "ensure-base"
      <4>1. Reexec("unpack") /\ UNCHANGED res
        BY <1>1, <2>3, <3>6 DEF Returned
      <4>2. Len(runs') = Len(runs) + 1 /\ runs'[Len(runs) + 1] = NewRun("unpack")
        BY <1>0, <4>1, ReexecStep DEF Cmds
      <4>3. PICK x : x = NewRun("unpack")
        OBVIOUS
      <4>4. runs'[Cur'] = x /\ pc' = "start"
        BY <4>1, <4>2, <4>3 DEF Cur, Reexec
      <4>5. /\ x.cmd = "unpack" /\ x.wrapper = "none" /\ x.action = "none" /\ x.sent = 0 /\ x.taken = 0
            /\ x.stdin = "open"
        BY <4>3 DEF NewRun
      <4>6. vols[n] = Prepared(n)
        BY <3>3, <3>6 DEF Worked, Back
      <4>7. Stages(mode, Prepared(n), stack[n])[0] = Prepared(n)
        BY <3>3, NextStage
      <4>8. Worked(x, n)
        BY <3>3, <4>5, <4>6, <4>7 DEF Worked
      <4>9. Worked(runs[Cur], Len(vols))'
        <5>1. /\ Bare' = Bare /\ Prepared(n)' = Prepared(n)
              /\ Stages(mode, Prepared(n), stack[n])' = Stages(mode, Prepared(n), stack[n])
          BY <1>0, SameLayer
        <5> QED
          BY <1>0, <3>2, <4>4, <4>8, <5>1 DEF Worked
      <4>10. InCall' /\ ~Cleanup' /\ pc' \in Calling
        BY <4>4, <4>5 DEF InCall, Cleanup, Calling, Preparing
      <4>11. CreateInv'
        BY <1>0, <3>2, <3>3, <3>4, <3>5, <4>4, <4>5, <4>9, <4>10 DEF CreateInv
      <4> QED
        BY <1>0, <1>3, <2>3, <4>1, <4>4, <4>11 DEF Progress
    <3>7. CASE y.cmd = "unpack"
      <4>1. pc' = "opaque" /\ UNCHANGED res
        BY <1>1, <2>3, <3>7 DEF Returned
      <4>2. y.stdin = "end"
        <5>1. y.stdin \in {"open", "end", "cut", "torn"} /\ y.stdin # "open" /\ ~y.broken
          BY <3>3, <3>7 DEF RunType, Back
        <5> QED
          BY <3>3, <3>7, <5>1 DEF Worked
      <4>3. y.taken = Len(stack[n].entries)
        BY <3>3, <3>7, <4>2 DEF Worked, Back
      <4>4. vols[n] = Unpacked(n)
        BY <3>3, <3>7, <4>3 DEF Worked, Unpacked
      <4>5. InCall' /\ pc' \notin Calling
        BY <4>1 DEF InCall, Calling, Preparing
      <4>6. CreateInv'
        BY <1>0, <3>2, <3>3, <3>4, <3>5, <4>1, <4>4, <4>5 DEF CreateInv
      <4> QED
        BY <1>0, <1>3, <4>1, <4>5, <4>6 DEF Progress
    <3> QED
      BY <1>1, <2>3, <3>6, <3>7 DEF RunType, Cmds
  <2> QED
    BY <2>1, <2>2, <2>3
<1> QED
  BY <1>2, <1>3

\* The steps of a create between its calls and after them.
LEMMA ProgressCreate ==
  ASSUME Inv, Progress,
         PullDone \/ HandleOpaqueWhiteouts \/ CreateImage \/ MountImage \/ WriteImageInfo \/ SetOwnership
  PROVE  Progress'
<1>0. /\ pc \in Working /\ UNCHANGED <<mode, stack, vols, runs>> /\ Types /\ ImageInv
      /\ pc' \in {"image", "layer", "end", "mount", "info", "own"}
  BY Facts DEF PullDone, HandleOpaqueWhiteouts, CreateImage, MountImage, WriteImageInfo, SetOwnership, Working
<1>1. stack # <<>> /\ res = "ok"
  BY <1>0 DEF Progress, DeleteInv, ImageInv
<1>2. pc' \notin Calling /\ pc \notin Calling /\ ~InCall' /\ pc' # "exited" /\ (InCall <=> pc = "opaque")
  BY <1>0 DEF Calling, Preparing, InCall, Working
<1>3. CreateInv
  BY <1>0, <1>1, <1>2 DEF Progress, Fine, Calling, Working
<1>4. ASSUME res' = "ok" PROVE CreateInv'
  <2>1. CASE HandleOpaqueWhiteouts
    <3>1. PICK n, d : n = Len(vols) /\ d = OpaqueWhiteouts(stack[n])
      OBVIOUS
    <3>2. pc = "opaque" /\ opaque' = [opaque EXCEPT ![n] = d] /\ pc' = "layer" /\ UNCHANGED image
      BY <1>4, <2>1, <3>1 DEF HandleOpaqueWhiteouts, Layer
    <3>3. n \in Nat /\ n > 0 /\ DOMAIN vols = 1 .. n /\ DOMAIN opaque = 1 .. n
      BY <1>2, <1>3, <3>1, <3>2, VolumeFacts DEF CreateInv
    <3>4. vols[n] = Unpacked(n)
      BY <1>3, <3>1, <3>2 DEF CreateInv
    <3>5. ASSUME NEW k \in 1 .. n PROVE Whole(k)'
      <4>1. CASE k = n
        <5>1. opaque'[n] = d
          BY <3>2, <3>3
        <5>2. Unpacked(n)' = Unpacked(n)
          BY <1>0, SameLayer
        <5> QED
          BY <1>0, <3>1, <3>4, <4>1, <5>1, <5>2 DEF Whole
      <4>2. CASE k # n
        <5>1. Whole(k)
          BY <1>3, <3>1, <3>3, <4>2 DEF CreateInv
        <5>2. opaque'[k] = opaque[k]
          BY <3>2, <3>3, <4>2
        <5> QED
          BY <1>0, <5>1, <5>2, WholeKept
      <4> QED
        BY <4>1, <4>2
    <3> QED
      BY <1>0, <1>2, <3>2, <3>3, <3>5 DEF CreateInv
  <2>2. CASE ~HandleOpaqueWhiteouts
    <3>1. UNCHANGED opaque /\ pc # "opaque"
      BY <2>2 DEF PullDone, CreateImage, MountImage, WriteImageInfo, SetOwnership
    <3>2. \A k : Whole(k)' <=> Whole(k)
      BY <1>0, <3>1, WholeSame
    <3>3. \A k \in DOMAIN vols : Whole(k)
      BY <1>2, <1>3, <3>1 DEF CreateInv
    <3>4. /\ pc' \in {"image", "mount", "info", "own", "end"} /\ Len(vols) = Len(stack)
          /\ pc' = "mount" => image' = "made"
          /\ pc' \in {"info", "own", "end"} => image' = IF mode.mount THEN "mounted" ELSE "made"
      BY <1>3, <2>2 DEF PullDone, CreateImage, MountImage, WriteImageInfo, SetOwnership, CreateInv
    <3> QED
      BY <1>0, <1>2, <3>2, <3>3, <3>4 DEF CreateInv
  <2> QED
    BY <2>1, <2>2
<1> QED
  BY <1>0, <1>1, <1>2, <1>4 DEF Progress, Fine

\* The end of an image.
LEMMA ProgressDestroy ==
  ASSUME Inv, Progress,
         Unmount \/ UnmountGivesUp \/ DestroyImage \/ DestroyImageFails \/ Destroyed \/ RemoveFails
  PROVE  Progress'
<1>0. /\ pc \in {"destroy", "destroyed"} /\ UNCHANGED <<mode, stack>> /\ Types /\ Len(runs) \in Nat
      /\ pc' \in {"destroy", "destroyed", "start", "end"}
  BY Facts DEF Unmount, UnmountGivesUp, DestroyImage, DestroyImageFails, Destroyed, RemoveFails, Reexec
<1>1. pc' = "start" => runs'[Cur'].cmd = "destroy-image"
  <2>1. ASSUME pc' = "start" PROVE Reexec("destroy-image")
    BY <2>1 DEF Unmount, UnmountGivesUp, DestroyImage, DestroyImageFails, Destroyed, RemoveFails
  <2>2. ASSUME Reexec("destroy-image")
        PROVE  Len(runs') = Len(runs) + 1 /\ runs'[Len(runs) + 1] = NewRun("destroy-image")
    BY <1>0, <2>2, ReexecStep DEF Cmds
  <2> QED
    BY <2>1, <2>2 DEF Cur, NewRun
<1>2. pc' \notin Working /\ (pc' \in Calling => pc' = "start" /\ Cleanup')
  BY <1>0, <1>1 DEF Working, Calling, Preparing, Cleanup
<1>3. pc' = "end" => res' = IF stack = <<>> /\ image = "none" THEN "ok" ELSE "failed"
  BY <1>0 DEF Unmount, UnmountGivesUp, DestroyImage, DestroyImageFails, Destroyed, RemoveFails, Reexec
<1>4. stack = <<>> => DeleteInv'
  <2>1. stack = <<>> /\ pc' = "end" => image' = image
    BY DEF Unmount, UnmountGivesUp, DestroyImage, DestroyImageFails, Destroyed, RemoveFails, Reexec
  <2> QED
    BY <1>0, <1>1, <1>2, <1>3, <2>1 DEF DeleteInv
<1>5. ASSUME stack # <<>> PROVE ~Fine'
  <2>1. pc = "destroy" => res # "ok"
    BY <1>5 DEF Progress, Fine, CreateInv
  <2>2. pc' \in {"destroy", "start"} => pc = "destroy" /\ res' = res
    BY <1>0 DEF Unmount, UnmountGivesUp, DestroyImage, DestroyImageFails, Destroyed, RemoveFails, Reexec
  <2> QED
    BY <1>0, <1>3, <1>5, <2>1, <2>2 DEF Fine
<1> QED
  BY <1>0, <1>2, <1>4, <1>5 DEF Progress

\* The command is over: nothing of it acts.
LEMMA ProgressEnds ==
  ASSUME Inv, Progress, Exit \/ ContainerEnds
  PROVE  Progress'
<1>1. CASE Exit
  <2>0. pc = "end" /\ pc' = "exited" /\ UNCHANGED <<mode, stack, res, image, vols, opaque>> /\ Die("cut")
    BY <1>1 DEF Exit
  <2>1. NoLive
    BY <2>0, Quiet
  <2>2. NoLive'
    <3>1. ASSUME NEW r \in DOMAIN runs PROVE ~Live(runs'[r])
      <4>a. PICK c, s : /\ c = IF runs[r].ctl = "open" THEN "closed" ELSE runs[r].ctl
                        /\ s = IF runs[r].stdin = "open" THEN "cut" ELSE runs[r].stdin
        OBVIOUS
      <4>1. runs'[r] = [runs[r] EXCEPT !.ctl = c, !.stdin = s]
        BY <2>0, <4>a DEF Die
      <4>2. runs[r] \in RunType
        BY Lengths DEF Inv
      <4>3. runs'[r].action = runs[r].action /\ runs'[r].wrapper = runs[r].wrapper /\ runs'[r].ctl = c
        BY <4>1, <4>2 DEF RunType
      <4> QED
        BY <2>1, <4>3, <4>a DEF NoLive, Live
    <3>2. DOMAIN runs' = DOMAIN runs
      BY <2>0 DEF Die
    <3> QED
      BY <3>1, <3>2 DEF NoLive, Live
  <2>3. pc \notin Calling /\ pc' \notin Calling /\ pc' \notin Working /\ ~InCall /\ ~InCall'
    BY <2>0 DEF Calling, Preparing, Working, InCall
  <2>4. stack = <<>> => DeleteInv'
    BY <2>0, <2>3 DEF Progress, DeleteInv
  <2>5. ASSUME stack # <<>>, res = "ok" PROVE CreateInv'
    <3>1. CreateInv
      BY <2>0, <2>3, <2>5 DEF Progress, Fine
    <3>2. \A k : Whole(k)' <=> Whole(k)
      BY <2>0, WholeSame
    <3> QED
      BY <2>0, <2>3, <3>1, <3>2 DEF CreateInv
  <2> QED
    BY <2>0, <2>2, <2>3, <2>4, <2>5 DEF Progress, Fine
<1>2. CASE ContainerEnds
  <2>0. image = "busy" /\ UNCHANGED <<mode, stack, pc, res, vols, opaque, runs, faults>> /\ ImageInv
    BY <1>2, Facts DEF ContainerEnds
  <2>1. stack = <<>>
    BY <2>0 DEF ImageInv
  <2>2. NoLive' <=> NoLive
    BY <2>0 DEF NoLive, Live
  <2>3. DeleteInv'
    BY <2>0, <2>1 DEF Progress, DeleteInv, Cur
  <2> QED
    BY <2>0, <2>1, <2>2, <2>3 DEF Progress
<1> QED
  BY <1>1, <1>2

LEMMA NextProgress == Inv /\ Progress /\ [Next]_vars => Progress'
<1> SUFFICES ASSUME Inv, Progress, [Next]_vars PROVE Progress'
  OBVIOUS
<1>1. CASE UNCHANGED vars
  <2>1. UNCHANGED <<mode, stack, pc, res, image, vols, opaque, runs>> /\ Cur' = Cur
    BY <1>1 DEF vars, Cur
  <2>2. (NoLive' <=> NoLive) /\ (Fine' <=> Fine) /\ (Cleanup' <=> Cleanup) /\ (DeleteInv' <=> DeleteInv)
    BY <2>1 DEF NoLive, Live, Fine, Cleanup, DeleteInv
  <2>3. CreateInv => CreateInv'
    BY <2>1, CreateFrame
  <2> QED
    BY <2>1, <2>2, <2>3 DEF Progress
<1>2. CASE Parent
  BY <1>2, ProgressFails, ProgressPrepare, ProgressWait, ProgressCall, ProgressReturned, ProgressCreate,
     ProgressDestroy, ProgressEnds DEF Parent, SetIDMappings
<1>3. CASE Kill \/ ContainerEnds
  BY <1>3, ProgressFails, ProgressEnds
<1>4. CASE \E r \in DOMAIN runs : Copy(r) \/ Wrapper(r) \/ Action(r) \/ Breaks(r)
  BY <1>4, ProgressProcess
<1> QED
  BY <1>1, <1>2, <1>3, <1>4 DEF Next

LEMMA InitProgress == Init => Progress
<1> SUFFICES ASSUME Init PROVE Progress
  OBVIOUS
<1>1. vols = <<>> /\ DOMAIN vols = {} /\ res = "ok" /\ pc = IF stack = <<>> THEN "destroy" ELSE "layer"
  BY DEF Init
<1>2. pc \notin Calling /\ pc # "exited" /\ ~InCall /\ (stack = <<>> => pc \notin Working)
  BY <1>1 DEF Calling, Preparing, InCall, Working
<1> QED
  BY <1>1, <1>2 DEF Progress, DeleteInv, CreateInv

LEMMA AlwaysProgress == Spec => []Progress
<1> QED
  BY InitProgress, NextProgress, AlwaysInv, PTL DEF Spec

------------------------------------------------------------------------------
(* The theorems *)

\* A longest base image bounds the calls of Reexec: at most two for a layer
\* and one to destroy what failed.
LEMMA RunsBounded ==
  ASSUME Types, CountInv
  PROVE  Len(runs) <= MaxRuns
<1> DEFINE N == {Len(s) : s \in Stacks}
<1>0. Len(runs) \in Nat /\ Len(vols) \in Nat /\ Len(stack) \in Nat
  BY Lengths
<1>1. \A s \in Stacks : Len(s) \in Nat
  BY SandboxAssumption, LenProperties
<1>2. PICK n \in N : \A k \in N : k <= n
  BY SandboxAssumption
<1>3. n \in Nat /\ \A k \in N : k \in Nat
  BY <1>1, <1>2
<1>4. \E x \in N : \A y \in N : x >= y
  BY <1>2, <1>3
<1>5. Max(N) \in N /\ \A y \in N : Max(N) >= y
  BY <1>4, Zenon DEF Max
<1>6. Len(stack) <= Max(N) /\ Max(N) \in Nat
  <2>1. CASE stack \in Stacks
    BY <1>0, <1>3, <1>5, <2>1
  <2>2. CASE stack = <<>>
    BY <1>3, <1>5, <2>2
  <2> QED
    BY <2>1, <2>2 DEF Types
<1>7. MaxRuns = 2 * Max(N) + 1
  BY DEF MaxRuns
<1> HIDE DEF N
<1>8. Len(runs) =< 2 * Len(vols) + 1 /\ Len(vols) =< Len(stack)
  BY DEF CountInv, Types
<1> QED
  BY <1>0, <1>6, <1>7, <1>8

\* The variables of the processes grootfs starts (reexecer_linux.go) keep
\* their types for every base image and every mode, and Reexec is called at
\* most twice for a layer and once more.
THEOREM SandboxTypes == Spec => []TypeOK
<1>1. Inv => TypeOK
  <2> SUFFICES ASSUME Inv PROVE TypeOK
    OBVIOUS
  <2>1. Types /\ Len(runs) <= MaxRuns
    BY RunsBounded DEF Inv
  <2>2. DOMAIN opaque = DOMAIN vols
    <3>1. PICK S, T : vols \in Seq(S) /\ opaque \in Seq(T)
      BY <2>1 DEF Types, IsSeq
    <3>2. DOMAIN vols = 1 .. Len(vols) /\ DOMAIN opaque = 1 .. Len(opaque)
      BY <3>1, LenProperties
    <3> QED
      BY <2>1, <3>2 DEF Types
  <2>3. \A r \in DOMAIN runs : runs[r] \in RunType
    BY <2>1, Lengths
  <2> QED
    BY <2>1, <2>2, <2>3 DEF TypeOK, Types, RunType, Cmds
<1> QED
  BY <1>1, AlwaysInv, PTL

\* Whatever Reexec returns, and whatever of its processes was killed, nothing
\* of it works on the store once it has returned, for as long as its parent
\* lives; and in a user namespace nothing is done before both maps are set
\* (reexecer_linux.go: the pipe, Wait).
THEOREM ReturnedMeansOver == Spec => []NothingAfterReturn
<1>1. Inv => NothingAfterReturn
  BY DEF Inv, RunInv, Sent, Live, NothingAfterReturn
<1> QED
  BY <1>1, AlwaysInv, PTL

\* A command that ends well has taken every step of its work, for every base
\* image and every way to run: Wait returns the errors of the process and of
\* the copying of its standard input, so that a stream which breaks off where
\* the archive might end (tar.go, the loop of Unpack) does not pass for a whole
\* layer, and nothing is left acting on the volumes when the parent goes on
\* (reexecer_linux.go, unpacker.go, base_image_puller.go: unpackLayer).
THEOREM UnpackedWhole == Spec => []StepsTaken
<1>1. Inv /\ Progress => StepsTaken
  <2> SUFFICES ASSUME Inv, Progress, pc \in {"end", "exited"}, res = "ok"
               PROVE  IF stack = <<>> THEN image = "none"
                      ELSE /\ image = IF Mounts = <<>> THEN "mounted" ELSE "made"
                           /\ Len(vols) = Len(stack)
                           /\ \A k \in DOMAIN vols : vols[k] = Unpacked(k) /\ opaque[k] = OpaqueWhiteouts(stack[k])
    BY DEF StepsTaken
  <2>1. CASE stack = <<>>
    BY <2>1 DEF Progress, DeleteInv
  <2>2. CASE stack # <<>>
    <3>1. CreateInv /\ ~InCall
      BY <2>2 DEF Progress, Fine, InCall, Calling, Preparing
    <3>2. Mounts = <<>> <=> mode.mount
      <4>1. PICK f : f = FormatMountData(vols, opaque)
        OBVIOUS
      <4>2. <<f>> # <<>>
        OBVIOUS
      <4> QED
        BY <4>1, <4>2 DEF Mounts
    <3> QED
      BY <2>2, <3>1, <3>2 DEF CreateInv, Whole
  <2> QED
    BY <2>1, <2>2
<1> QED
  BY <1>1, AlwaysInv, AlwaysProgress, PTL

\* A create in which one call fails leaves no image (image_manager.go, the
\* deferred cleanup), whether or not it may unmount.
THEOREM FailedLeavesNone == Spec => []NoImageLeft
<1>1. Inv => NoImageLeft
  BY DEF Inv, ImageInv, NoImageLeft
<1> QED
  BY <1>1, AlwaysInv, PTL

\* An image whose mounted rootfs a container uses is never removed
\* (rootful_unmounter.go, rootless_unmounter.go and their callers).
THEOREM InUseStays == Spec => ContainerUndisturbed
<1>1. ASSUME [Next]_vars, image = "busy" PROVE image' # "none"
  <2>1. CASE UNCHANGED vars
    BY <1>1, <2>1 DEF vars
  <2>2. CASE Parent
    <3>1. CASE CreateImage \/ MountImage \/ Unmount \/ DestroyImage \/ Destroyed
      BY <1>1, <3>1 DEF CreateImage, MountImage, Unmount, DestroyImage, Destroyed
    <3>2. CASE ~(CreateImage \/ MountImage \/ Unmount \/ DestroyImage \/ Destroyed)
      BY <1>1, <2>2, <3>2 DEF Parent, Start, StartFails, SetIDMappings, MapUIDs, MapGIDs, SetIDMappingsFails,
         Signal, SignalFails, Wait, CreateVolume, PullDone, Returned, HandleOpaqueWhiteouts,
         HandleOpaqueWhiteoutsFails, WriteImageInfo, SetOwnership, SetOwnershipFails, CreateImageFails,
         UnmountGivesUp, DestroyImageFails, RemoveFails, Exit
    <3> QED
      BY <3>1, <3>2
  <2>3. CASE Kill \/ ContainerEnds
    BY <1>1, <2>3 DEF Kill, ContainerEnds
  <2>4. ASSUME NEW r \in DOMAIN runs, Copy(r) \/ Wrapper(r) \/ Action(r) \/ Breaks(r)
        PROVE  image' # "none"
    BY <1>1, <2>4 DEF Copy, CopyEntry, CopyEnds, Wrapper, WaitForIDMappings, WrapperEnds, Action, ActionStarts,
       EnsureBaseDirectoryExists, Unpack, UnpackNext, UnpackEnds, Destroy, RootlessUnmount, Breaks, CopyBreaks,
       ActionFails, KillWrapper
  <2> QED
    BY <1>1, <2>1, <2>2, <2>3, <2>4 DEF Next
<1> QED
  BY <1>1, PTL DEF Spec, ContainerUndisturbed
==============================================================================
