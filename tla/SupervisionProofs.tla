-------------------------- MODULE SupervisionProofs --------------------------
(***************************************************************************)
(* Proofs about the two programs that keep a process of somebody else's    *)
(* running: ManagedService (the runtime and its sidecar), for any number   *)
(* of plugins, queued operations, rotations and any quarantine threshold,  *)
(* and RuntimeUpdate (the desktop app and a server's container), for any   *)
(* number of versions, backups kept, updates, failures and crashes.        *)
(***************************************************************************)
EXTENDS ManagedService, RuntimeUpdate, SequenceTheorems, TLAPS

-----------------------------------------------------------------------------
(* ManagedService: the state that claim() decides from, the sidecar, and   *)
(* service against claims.                                                 *)

Op == {"claim", "release", "shutdown", "restart"}

\* The place of the first operation that has not begun.
Next1 == IF hook = "none" THEN 1 ELSE 2

\* One of the operations of a set has not begun.
Waits(kinds) == \E i \in Next1..Len(ops) : ops[i] \in kinds

\* Which operation a hook runs for.
HookOfHead ==
    /\ hook = "stop" => Head(ops) \in {"release", "shutdown", "restart"}
    /\ hook \in {"start", "probe"} => Head(ops) \in {"claim", "restart"}

\* What the service is on its way to, unless an operation that waits
\* changes it.
Rising ==
    \/ state \in {"starting", "running"}
    \/ state = "stopping" /\ Head(ops) = "restart"

\* A service that is up or coming up with nobody to claim it will be stopped.
StopWaits == Rising /\ claimers = {} => Waits({"release", "shutdown"})

\* A claimed service that is down without a reason will be started.
StartWaits ==
    claimers # {} /\ fault = "none" =>
        \/ Rising
        \/ state = "stopping" /\ Head(ops) = "shutdown"
        \/ Waits({"claim"})

\* Where the reason is known: nothing went wrong with a service that is up
\* or is stopped for want of claims, and a quarantined one has failed.
FaultFits ==
    /\ state = "running" => fault = "none"
    /\ state = "stopping" /\ Head(ops) = "release" => fault = "none"
    /\ state = "quarantined" => fault # "none"

IInv ==
    /\ TypeOK /\ StateShowsHook /\ NoStraySidecar /\ HookOfHead
    /\ StopWaits /\ StartWaits /\ FaultFits

-----------------------------------------------------------------------------
(* The queue.                                                              *)

\* Appending an operation keeps those before it and their places.
LEMMA QueuedFacts ==
    ASSUME TypeOK, NEW op \in Op, Queued(op)
    PROVE  /\ ops' \in Seq(Op) /\ Len(ops') = Len(ops) + 1
           /\ Len(ops) \in Nat /\ Len(ops') <= MaxOps
           /\ \A i \in 1..Len(ops) : ops'[i] = ops[i]
           /\ ops'[Len(ops) + 1] = op
           /\ ops # <<>> => Head(ops') = Head(ops)
<1>1. ops \in Seq(Op) /\ Len(ops) <= MaxOps /\ ops' = Append(ops, op)
  BY DEF TypeOK, Op, Queued
<1>2. /\ ops' \in Seq(Op) /\ Len(ops') = Len(ops) + 1 /\ Len(ops) \in Nat
      /\ \A i \in 1..Len(ops) : ops'[i] = ops[i]
      /\ ops'[Len(ops) + 1] = op
  BY <1>1, AppendProperties, LenProperties
<1>3. Len(ops') <= MaxOps
  BY <1>2, ServiceAssumption DEF Queued
<1>4. ops # <<>> => Head(ops') = Head(ops)
  BY <1>1, <1>2
<1> QED BY <1>2, <1>3, <1>4

\* The operation at the head goes when it is done; the others move up.
LEMMA DoneFacts ==
    ASSUME TypeOK, ops # <<>>, Done
    PROVE  /\ ops' \in Seq(Op) /\ Len(ops') = Len(ops) - 1
           /\ Len(ops) \in Nat \ {0} /\ Len(ops') <= MaxOps
           /\ \A i \in 2..Len(ops) : ops'[i - 1] = ops[i]
           /\ hook' = "none"
<1>1. ops \in Seq(Op) /\ Len(ops) <= MaxOps /\ ops' = Tail(ops) /\ hook' = "none"
  BY DEF TypeOK, Op, Done
<1>2. /\ ops' \in Seq(Op) /\ Len(ops') = Len(ops) - 1
      /\ \A i \in 1..Len(ops') : ops'[i] = ops[i + 1]
      /\ Len(ops) \in Nat \ {0}
  BY <1>1, HeadTailProperties, LenProperties, EmptySeq
<1>3. \A i \in 2..Len(ops) : ops'[i - 1] = ops[i]
  <2> TAKE i \in 2..Len(ops)
  <2>1. i - 1 \in 1..Len(ops') /\ (i - 1) + 1 = i
    BY <1>2
  <2> QED BY <1>2, <2>1
<1>4. Len(ops') <= MaxOps
  BY <1>1, <1>2, ServiceAssumption
<1> QED BY <1>1, <1>2, <1>3, <1>4

\* What waits goes on waiting when another operation is queued.
LEMMA WaitsWhenQueued ==
    ASSUME TypeOK, NEW op \in Op, Queued(op), hook' = hook, NEW kinds
    PROVE  /\ Waits(kinds) => Waits(kinds)'
           /\ op \in kinds /\ (hook # "none" => ops # <<>>) => Waits(kinds)'
<1> USE QueuedFacts
<1>1. Waits(kinds) => Waits(kinds)'
  BY DEF Waits, Next1
<1>2. ASSUME op \in kinds, hook # "none" => ops # <<>> PROVE Waits(kinds)'
  <2>1. Len(ops) + 1 \in Next1..(Len(ops) + 1)
    <3>1. hook # "none" => Len(ops) # 0
      BY <1>2, EmptySeq DEF TypeOK
    <3> QED BY <3>1 DEF Next1
  <2> QED BY <1>2, <2>1 DEF Waits, Next1
<1> QED BY <1>1, <1>2

\* What waits behind the head goes on waiting when the head is done.
LEMMA WaitsWhenDone ==
    ASSUME TypeOK, ops # <<>>, Done, NEW kinds,
           hook # "none" \/ Head(ops) \notin kinds, Waits(kinds)
    PROVE  Waits(kinds)'
<1>1. PICK i \in Next1..Len(ops) : ops[i] \in kinds
  BY DEF Waits
<1>2. Head(ops) = ops[1]
  BY DEF TypeOK
<1>3. i \in 2..Len(ops)
  BY <1>1, <1>2, DoneFacts DEF Next1
<1>4. i - 1 \in 1..Len(ops')
  BY <1>3, DoneFacts
<1>5. ops'[i - 1] \in kinds
  BY <1>1, <1>3, DoneFacts
<1> QED BY <1>4, <1>5, DoneFacts DEF Waits, Next1

\* What waits behind the head goes on waiting when the head's hook begins.
LEMMA WaitsWhenEntered ==
    ASSUME TypeOK, ops # <<>>, UNCHANGED ops, NEW kinds, hook' # "none",
           hook # "none" \/ Head(ops) \notin kinds, Waits(kinds)
    PROVE  Waits(kinds)'
<1>1. PICK i \in Next1..Len(ops) : ops[i] \in kinds
  BY DEF Waits
<1>2. Head(ops) = ops[1] /\ Len(ops) \in Nat
  BY DEF TypeOK
<1>3. i \in 2..Len(ops)
  BY <1>1, <1>2 DEF Next1
<1> QED BY <1>1, <1>3 DEF Waits, Next1

-----------------------------------------------------------------------------
(* The calls.                                                              *)

\* A call that leaves the state alone and may queue one operation keeps the
\* invariant if what it does to the claims is met by what waits.
LEMMA CallKeeps ==
    ASSUME IInv,
           UNCHANGED <<state, hook, sidecar, leftover, fault>>,
           UNCHANGED ops \/ \E op \in Op : Queued(op),
           claimers' \subseteq Plugin, failures' \in 0..QuarantineThreshold,
           stored' \in 0..MaxRotations,
           claimers' = {} =>
               claimers = {} \/ ~Rising \/ Waits({"release", "shutdown"})',
           claimers' # {} =>
               claimers # {} \/ Rising \/ state = "quarantined" \/ Waits({"claim"})'
    PROVE  IInv'
<1> USE DEF IInv
<1>1. /\ ops' \in Seq(Op) /\ Len(ops') <= MaxOps
      /\ ops # <<>> => ops' # <<>> /\ Head(ops') = Head(ops)
  <2>1. CASE UNCHANGED ops
    BY <2>1 DEF TypeOK, Op
  <2>2. CASE \E op \in Op : Queued(op)
    <3>1. PICK op \in Op : Queued(op)
      BY <2>2
    <3>2. ops' # <<>>
      BY <3>1, QueuedFacts, EmptySeq
    <3> QED BY <3>1, <3>2, QueuedFacts
  <2> QED BY <2>1, <2>2
<1>2. TypeOK'
  BY <1>1 DEF TypeOK, Op
<1>3. StateShowsHook' /\ NoStraySidecar' /\ HookOfHead'
  BY <1>1 DEF StateShowsHook, NoStraySidecar, HookOfHead
<1>4. Rising' <=> Rising
  BY <1>1 DEF Rising, StateShowsHook, TypeOK
<1>5. ASSUME NEW kinds, Waits(kinds) PROVE Waits(kinds)'
  <2>1. CASE UNCHANGED ops
    BY <1>5, <2>1 DEF Waits, Next1
  <2>2. CASE \E op \in Op : Queued(op)
    BY <1>5, <2>2, WaitsWhenQueued
  <2> QED BY <2>1, <2>2
<1>6. StopWaits'
  BY <1>4, <1>5 DEF StopWaits
<1>7. FaultFits'
  BY <1>1 DEF FaultFits, StateShowsHook, TypeOK
<1>8. StartWaits'
  <2> SUFFICES ASSUME claimers' # {}, fault = "none", ~Rising',
                      ~(state = "stopping" /\ Head(ops) = "shutdown")
               PROVE  Waits({"claim"})'
    BY <1>1 DEF StartWaits, StateShowsHook, TypeOK
  <2>1. state # "quarantined"
    BY DEF FaultFits
  <2>2. CASE claimers # {}
    BY <1>4, <1>5, <2>2 DEF StartWaits
  <2>3. CASE claimers = {}
    BY <1>4, <2>1, <2>3
  <2> QED BY <2>2, <2>3
<1> QED BY <1>2, <1>3, <1>6, <1>7, <1>8

\* A call queued in this state finds its operation waiting.
LEMMA QueuedWaits ==
    ASSUME IInv, NEW op \in Op, Queued(op), UNCHANGED hook, NEW kinds, op \in kinds
    PROVE  Waits(kinds)'
BY WaitsWhenQueued DEF IInv, StateShowsHook

LEMMA ClaimKeeps ==
    ASSUME IInv, NEW p \in Plugin, Claim(p) PROVE IInv'
<1>1. claimers' # {} /\ claimers' \subseteq Plugin
  BY DEF IInv, TypeOK, Claim
<1>2. UNCHANGED ops \/ \E op \in Op : Queued(op)
  BY DEF Claim, Op
<1>3. Rising \/ state = "quarantined" \/ Waits({"claim"})'
  <2>1. CASE Queued("claim")
    BY <2>1, QueuedWaits DEF Op, Claim
  <2>2. CASE state \in {"quarantined", "running", "starting"}
    BY <2>2 DEF Rising
  <2> QED BY <2>1, <2>2 DEF Claim
<1>4. failures' \in 0..QuarantineThreshold /\ stored' \in 0..MaxRotations
  BY DEF IInv, TypeOK, Claim
<1> QED BY <1>1, <1>2, <1>3, <1>4, CallKeeps DEF Claim

LEMMA ReleaseKeeps ==
    ASSUME IInv, NEW p \in Plugin, Release(p) PROVE IInv'
<1>1. claimers' \subseteq Plugin /\ claimers # {}
  BY DEF IInv, TypeOK, Release
<1>2. UNCHANGED ops \/ \E op \in Op : Queued(op)
  BY DEF Release, Op
<1>3. claimers' = {} => Waits({"release", "shutdown"})'
  BY QueuedWaits DEF Op, Release
<1>4. failures' \in 0..QuarantineThreshold /\ stored' \in 0..MaxRotations
  BY DEF IInv, TypeOK, Release
<1> QED BY <1>1, <1>2, <1>3, <1>4, CallKeeps DEF Release

LEMMA ShutdownKeeps ==
    ASSUME IInv, Shutdown PROVE IInv'
<1>1. CASE state \in {"stopped", "quarantined"}
  <2>1. TypeOK'
    BY <1>1, ServiceAssumption DEF IInv, TypeOK, Shutdown
  <2>2. StateShowsHook' /\ NoStraySidecar' /\ HookOfHead'
    BY <1>1 DEF IInv, StateShowsHook, NoStraySidecar, HookOfHead, Shutdown
  <2>3. StopWaits' /\ StartWaits' /\ FaultFits'
    BY <1>1 DEF StopWaits, StartWaits, FaultFits, Rising, Shutdown
  <2> QED BY <2>1, <2>2, <2>3 DEF IInv
<1>2. CASE state \notin {"stopped", "quarantined"}
  <2>1. Queued("shutdown") /\ UNCHANGED <<state, fault>>
    BY <1>2 DEF Shutdown
  <2>2. Waits({"release", "shutdown"})'
    BY <2>1, QueuedWaits DEF Op, Shutdown
  <2>3. failures' \in 0..QuarantineThreshold /\ stored' \in 0..MaxRotations
    BY ServiceAssumption DEF IInv, TypeOK, Shutdown
  <2> QED BY <2>1, <2>2, <2>3, CallKeeps DEF Op, Shutdown
<1> QED BY <1>1, <1>2

LEMMA RestartKeeps ==
    ASSUME IInv, Restart \/ RotateSecret PROVE IInv'
<1>1. UNCHANGED ops \/ \E op \in Op : Queued(op)
  BY DEF Restart, RotateSecret, Op
<1>2. stored' \in 0..MaxRotations
  BY ServiceAssumption DEF IInv, TypeOK, Restart, RotateSecret
<1>3. /\ UNCHANGED <<state, claimers, failures, hook, sidecar, leftover, fault>>
      /\ claimers \subseteq Plugin /\ failures \in 0..QuarantineThreshold
  BY DEF IInv, TypeOK, Restart, RotateSecret
<1> QED BY <1>1, <1>2, <1>3, CallKeeps

-----------------------------------------------------------------------------
(* The operations.                                                         *)

\* An operation that finds nothing to do is done and changes nothing else.
LEMMA NothingToDo ==
    ASSUME IInv, ops # <<>>, hook = "none", Done,
           UNCHANGED <<state, claimers, failures, sidecar, leftover, stored, fault>>,
           Head(ops) = "claim" => claimers = {} \/ state = "running",
           Head(ops) \in {"release", "shutdown"} =>
               claimers # {} \/ state \in {"stopped", "quarantined"}
    PROVE  IInv'
<1>1. TypeOK'
  BY DoneFacts DEF IInv, TypeOK, Op
<1>2. hook' = "none"
  BY DEF Done
<1>3. StateShowsHook' /\ NoStraySidecar' /\ HookOfHead' /\ FaultFits'
  BY <1>2 DEF IInv, TypeOK, StateShowsHook, NoStraySidecar, HookOfHead, FaultFits
<1>4. state \notin {"starting", "stopping"}
  BY DEF IInv, StateShowsHook
<1>5. StopWaits'
  BY <1>4, WaitsWhenDone DEF IInv, StopWaits, Rising
<1>6. StartWaits'
  BY <1>4, WaitsWhenDone DEF IInv, StartWaits, Rising
<1> QED BY <1>1, <1>3, <1>5, <1>6 DEF IInv

\* An operation calls doStop() on a service that is up and not wanted, is to
\* be restarted or is to be shut down.
LEMMA StopEnters ==
    ASSUME IInv, ops # <<>>, hook = "none", EnterStop,
           Head(ops) \in {"release", "shutdown", "restart"},
           UNCHANGED <<claimers, failures, sidecar, leftover, stored, fault>>,
           Head(ops) = "release" => claimers = {} /\ state = "running",
           Head(ops) = "restart" => state = "running"
    PROVE  IInv'
<1>1. TypeOK' /\ StateShowsHook' /\ NoStraySidecar' /\ HookOfHead'
  BY DEF IInv, TypeOK, StateShowsHook, NoStraySidecar, HookOfHead, EnterStop
<1>2. FaultFits'
  BY DEF IInv, FaultFits, EnterStop
<1>3. StopWaits'
  <2> SUFFICES ASSUME Head(ops) = "restart", claimers = {}
               PROVE  Waits({"release", "shutdown"})'
    BY DEF StopWaits, Rising, EnterStop
  <2>1. Waits({"release", "shutdown"})
    BY DEF IInv, StopWaits, Rising
  <2> QED BY <2>1, WaitsWhenEntered DEF IInv, EnterStop
<1>4. StartWaits'
  BY DEF StartWaits, Rising, EnterStop
<1> QED BY <1>1, <1>2, <1>3, <1>4 DEF IInv

LEMMA BeginClaimKeeps ==
    ASSUME IInv, BeginClaim PROVE IInv'
<1>1. CASE claimers = {} \/ state = "running"
  BY <1>1, NothingToDo DEF BeginClaim, AtHead
<1>2. CASE ~(claimers = {} \/ state = "running")
  <2>1. ops # <<>> /\ Head(ops) = "claim" /\ hook = "none" /\ EnterStart(sidecar)
    BY <1>2 DEF BeginClaim, AtHead
  <2>2. state \in {"stopped", "quarantined"} /\ sidecar.proc = "none"
    BY <1>2, <2>1 DEF IInv, TypeOK, StateShowsHook, NoStraySidecar
  <2>3. TypeOK' /\ StateShowsHook' /\ NoStraySidecar' /\ HookOfHead' /\ FaultFits'
    BY <2>1, <2>2 DEF IInv, TypeOK, StateShowsHook, NoStraySidecar, HookOfHead,
                      FaultFits, BeginClaim, EnterStart
  <2>4. StopWaits' /\ StartWaits'
    BY <1>2, <2>1 DEF StopWaits, StartWaits, Rising, BeginClaim, EnterStart
  <2> QED BY <2>3, <2>4 DEF IInv
<1> QED BY <1>1, <1>2

LEMMA BeginOthersKeep ==
    ASSUME IInv, BeginRelease \/ BeginShutdown \/ BeginRestart PROVE IInv'
<1>1. state \in {"stopped", "running", "quarantined"} \/ hook # "none"
  BY DEF IInv, TypeOK, StateShowsHook
<1>2. CASE BeginRelease
  BY <1>1, <1>2, NothingToDo, StopEnters DEF BeginRelease, AtHead
<1>3. CASE BeginShutdown
  BY <1>1, <1>3, StopEnters DEF BeginShutdown, AtHead
<1>4. CASE BeginRestart
  BY <1>1, <1>4, NothingToDo, StopEnters DEF BeginRestart, AtHead
<1> QED BY <1>2, <1>3, <1>4

\* What waits while a hook runs waits when its operation is done.
LEMMA HookDone ==
    ASSUME IInv, hook # "none", Done
    PROVE  /\ ops # <<>> /\ ops' \in Seq(Op) /\ Len(ops') <= MaxOps /\ hook' = "none"
           /\ \A kinds : Waits(kinds) => Waits(kinds)'
BY DoneFacts, WaitsWhenDone DEF IInv, StateShowsHook

LEMMA StopReturnsKeeps ==
    ASSUME IInv, NEW exited \in BOOLEAN, StopReturns(exited) PROVE IInv'
<1>1. hook = "stop" /\ state = "stopping" /\ ops # <<>>
      /\ Head(ops) \in {"release", "shutdown", "restart"}
  BY DEF IInv, StateShowsHook, HookOfHead, StopReturns
<1>2. CASE Head(ops) = "restart"
  <2>1. EnterStart(NoSidecar) /\ UNCHANGED <<claimers, failures, stored, fault>>
        /\ leftover' = (leftover \/ ~exited)
    BY <1>2 DEF StopReturns
  <2>2. TypeOK'
    BY <2>1 DEF IInv, TypeOK, EnterStart, NoSidecar
  <2>3. StateShowsHook' /\ NoStraySidecar' /\ HookOfHead' /\ FaultFits'
    BY <1>1, <1>2, <2>1 DEF IInv, TypeOK, StateShowsHook, NoStraySidecar, HookOfHead,
                      FaultFits, EnterStart, NoSidecar
  <2>4. StopWaits' /\ StartWaits'
    BY <1>1, <1>2, <2>1 DEF IInv, StopWaits, StartWaits, Rising, Waits, Next1, EnterStart
  <2> QED BY <2>2, <2>3, <2>4 DEF IInv
<1>3. CASE Head(ops) # "restart"
  <2>1. /\ state' = "stopped" /\ Done /\ sidecar' = NoSidecar
        /\ fault' = (IF Head(ops) = "shutdown" THEN "shutdown" ELSE "none")
        /\ UNCHANGED <<claimers, failures, stored>>
        /\ leftover' = (leftover \/ ~exited)
    BY <1>3 DEF StopReturns
  <2>2. TypeOK'
    BY <1>1, <2>1, HookDone, ServiceAssumption DEF IInv, TypeOK, NoSidecar, Op
  <2>3. StateShowsHook' /\ NoStraySidecar' /\ HookOfHead' /\ FaultFits' /\ StopWaits'
    BY <1>1, <2>1, HookDone DEF StateShowsHook, NoStraySidecar, HookOfHead, FaultFits,
                           StopWaits, Rising, NoSidecar
  <2>4. CASE Head(ops) = "shutdown"
    <3>1. fault' = "shutdown"
      BY <2>1, <2>4
    <3>2. StartWaits'
      BY <3>1 DEF StartWaits
    <3> QED BY <2>2, <2>3, <3>2 DEF IInv
  <2>5. CASE Head(ops) = "release"
    <3>1. fault = "none"
      BY <1>1, <2>5 DEF IInv, FaultFits
    <3>2. claimers # {} => Waits({"claim"})
      BY <1>1, <2>5, <3>1 DEF IInv, StartWaits, Rising
    <3>3. claimers' # {} => Waits({"claim"})'
      BY <1>1, <2>1, <3>2, HookDone
    <3>4. StartWaits'
      BY <3>3 DEF StartWaits
    <3> QED BY <2>2, <2>3, <3>4 DEF IInv
  <2> QED BY <1>1, <1>3, <2>4, <2>5
<1> QED BY <1>2, <1>3

LEMMA SpawnKeeps ==
    ASSUME IInv, Spawn PROVE IInv'
<1>1. TypeOK' /\ StateShowsHook' /\ NoStraySidecar' /\ HookOfHead' /\ FaultFits'
  BY DEF IInv, TypeOK, StateShowsHook, NoStraySidecar, HookOfHead, FaultFits, Spawn
<1>2. StopWaits' /\ StartWaits'
  BY DEF IInv, StopWaits, StartWaits, Rising, Waits, Next1, Spawn
<1> QED BY <1>1, <1>2 DEF IInv

LEMMA ProbeSucceedsKeeps ==
    ASSUME IInv, ProbeSucceeds PROVE IInv'
<1>1. hook = "probe" /\ state = "starting" /\ Done
  BY DEF IInv, StateShowsHook, ProbeSucceeds
<1>2. TypeOK'
  BY <1>1, HookDone, ServiceAssumption DEF IInv, TypeOK, Op, ProbeSucceeds
<1>3. StateShowsHook' /\ NoStraySidecar' /\ HookOfHead' /\ FaultFits'
  BY <1>1, HookDone DEF StateShowsHook, NoStraySidecar, HookOfHead, FaultFits, ProbeSucceeds
<1>4. StopWaits' /\ StartWaits'
  BY <1>1, HookDone DEF IInv, StopWaits, StartWaits, Rising, ProbeSucceeds
<1> QED BY <1>2, <1>3, <1>4 DEF IInv

LEMMA StartFailedKeeps ==
    ASSUME IInv, hook \in {"start", "probe"}, StartFailed,
           UNCHANGED <<claimers, stored>>, sidecar' = NoSidecar \/ UNCHANGED sidecar,
           hook = "probe" => sidecar' = NoSidecar, leftover' \in BOOLEAN
    PROVE  IInv'
<1>1. state = "starting" /\ Done /\ fault' = "failed"
  BY DEF IInv, StateShowsHook, StartFailed
<1>2. failures' \in 0..QuarantineThreshold /\ state' \in {"stopped", "quarantined"}
  BY ServiceAssumption DEF IInv, TypeOK, StartFailed
<1>3. TypeOK'
  BY <1>1, <1>2, HookDone, ServiceAssumption DEF IInv, TypeOK, Op, NoSidecar
<1>4. sidecar'.proc = "none"
  BY DEF IInv, NoStraySidecar, NoSidecar
<1>5. StateShowsHook' /\ NoStraySidecar' /\ HookOfHead' /\ FaultFits'
  BY <1>1, <1>2, <1>4, HookDone DEF StateShowsHook, NoStraySidecar, HookOfHead, FaultFits
<1>6. StopWaits' /\ StartWaits'
  BY <1>1, <1>2 DEF StopWaits, StartWaits, Rising
<1> QED BY <1>3, <1>5, <1>6 DEF IInv

LEMMA StartFailsKeeps ==
    ASSUME IInv, SpawnFails \/ ProbeTimesOut PROVE IInv'
<1>1. CASE SpawnFails
  <2>1. leftover' \in BOOLEAN
    BY <1>1 DEF IInv, TypeOK, SpawnFails
  <2> QED BY <1>1, <2>1, StartFailedKeeps DEF SpawnFails
<1>2. CASE ProbeTimesOut
  <2>1. leftover' \in BOOLEAN
    BY <1>2 DEF IInv, TypeOK, ProbeTimesOut
  <2> QED BY <1>2, <2>1, StartFailedKeeps DEF ProbeTimesOut
<1> QED BY <1>1, <1>2

\* The processes and time change nothing the operations look at but failures.
LEMMA WorldKeeps ==
    ASSUME IInv, SidecarDies \/ LeftoverExits \/ FailureAges PROVE IInv'
<1>1. UNCHANGED <<state, claimers, ops, hook, stored, fault>>
  BY DEF SidecarDies, LeftoverExits, FailureAges
<1>2. sidecar' = sidecar \/ sidecar.proc = "alive"
  BY DEF SidecarDies, LeftoverExits, FailureAges
<1>3. TypeOK'
  <2>1. failures' \in 0..QuarantineThreshold
    BY ServiceAssumption DEF IInv, TypeOK, SidecarDies, LeftoverExits, FailureAges
  <2>2. sidecar' \in [proc : {"none", "alive", "dead"}, secret : 0..MaxRotations]
    BY DEF IInv, TypeOK, SidecarDies, LeftoverExits, FailureAges
  <2>3. leftover' \in BOOLEAN
    BY DEF IInv, TypeOK, SidecarDies, LeftoverExits, FailureAges
  <2>4. hook' = hook
    BY DEF SidecarDies, LeftoverExits, FailureAges
  <2> QED BY <1>1, <2>1, <2>2, <2>3, <2>4 DEF IInv, TypeOK
<1>4. StateShowsHook' /\ NoStraySidecar' /\ HookOfHead' /\ FaultFits'
  BY <1>1, <1>2 DEF IInv, TypeOK, StateShowsHook, NoStraySidecar, HookOfHead, FaultFits
<1>5. StopWaits' /\ StartWaits'
  BY <1>1 DEF IInv, StopWaits, StartWaits, Rising, Waits, Next1
<1> QED BY <1>3, <1>4, <1>5 DEF IInv

-----------------------------------------------------------------------------
(* The theorems.                                                           *)

LEMMA InitIInv == Init => IInv
<1> SUFFICES ASSUME Init PROVE IInv
  OBVIOUS
<1>1. TypeOK
  <2>1. ops \in Seq(Op) /\ Len(ops) <= MaxOps
    BY EmptySeq, ServiceAssumption DEF Init
  <2>2. sidecar \in [proc : {"none", "alive", "dead"}, secret : 0..MaxRotations]
    BY ServiceAssumption DEF Init, NoSidecar
  <2>3. failures \in 0..QuarantineThreshold /\ stored \in 0..MaxRotations
    BY ServiceAssumption DEF Init
  <2> QED BY <2>1, <2>2, <2>3 DEF Init, TypeOK, Op
<1>2. StateShowsHook /\ NoStraySidecar /\ HookOfHead /\ FaultFits
  BY DEF Init, StateShowsHook, NoStraySidecar, HookOfHead, FaultFits, NoSidecar
<1>3. StopWaits /\ StartWaits
  BY DEF Init, StopWaits, StartWaits, Rising
<1> QED BY <1>1, <1>2, <1>3 DEF IInv

LEMMA NextIInv == IInv /\ [Next]_vars => IInv'
<1> SUFFICES ASSUME IInv, [Next]_vars PROVE IInv'
  OBVIOUS
<1>1. CASE UNCHANGED vars
  BY <1>1 DEF IInv, vars, TypeOK, StateShowsHook, NoStraySidecar, HookOfHead, FaultFits,
              StopWaits, StartWaits, Rising, Waits, Next1
<1>2. CASE Next
  BY <1>2, ClaimKeeps, ReleaseKeeps, ShutdownKeeps, RestartKeeps, BeginClaimKeeps,
     BeginOthersKeep, StopReturnsKeeps, SpawnKeeps, ProbeSucceedsKeeps,
     StartFailsKeeps, WorldKeeps DEF Next
<1> QED BY <1>1, <1>2

\* When nothing is queued nothing waits, so the service is as its claims say.
LEMMA IInvServes == IInv => ServedIffClaimed
<1> SUFFICES ASSUME IInv, ops = <<>> PROVE ServedIffClaimed
  BY DEF ServedIffClaimed, RunningIsClaimed, ClaimedIsServed
<1>1. \A kinds : ~Waits(kinds)
  BY EmptySeq DEF Waits, Next1
<1>2. state \notin {"starting", "stopping"}
  BY DEF IInv, StateShowsHook
<1>3. RunningIsClaimed
  BY <1>1 DEF IInv, StopWaits, Rising, RunningIsClaimed
<1>4. ClaimedIsServed
  BY <1>1, <1>2 DEF IInv, StartWaits, Rising, ClaimedIsServed
<1> QED BY <1>3, <1>4 DEF ServedIffClaimed

\* The inductive invariant holds of every behaviour.
THEOREM IInvHolds == Spec => []IInv
<1> QED BY InitIInv, NextIInv, PTL DEF Spec

\* The state that claim() and release() decide from (managed-services/
\* supervisor.ts) shows which hook is running, however calls interleave.
THEOREM StateShowsHookHolds == Spec => []StateShowsHook
<1>1. IInv => StateShowsHook
  BY DEF IInv
<1> QED BY <1>1, IInvHolds, PTL

\* doStart() never finds a process of an earlier start in its hands, and a
\* service that is down has none (voice/supervisor.ts).
THEOREM NoStraySidecarHolds == Spec => []NoStraySidecar
<1>1. IInv => NoStraySidecar
  BY DEF IInv
<1> QED BY <1>1, IInvHolds, PTL

\* Once the operations queued by claim(), release(), shutdown() and restart()
\* are done, the service runs exactly for those who claim it, or its last
\* start failed or it was shut down.
THEOREM ServedIffClaimedHolds == Spec => []ServedIffClaimed
BY IInvServes, IInvHolds, PTL

-----------------------------------------------------------------------------
(* RuntimeUpdate: the steps of an update, field by field.                  *)

ForwardSteps == {"stashData", "stashConfig", "beginData", "copyData",
                 "copyConfig", "moveBackups", "dropData", "dropConfig"}

UndoSteps == {"clearData", "clearConfig", "unstashData", "unstashConfig"}

\* The steps before an update has moved a tag, and of a rebuild.
Untagged == {"idle", "rebuild", "rebuildRun", "backup", "pull", "gate", "stop",
             "anchor"}

Upward == {"swap", "clear", "run", "poll", "rotate"}
Downward == {"retag", "reclear", "rerun", "repoll", "failed"}

Step == ForwardSteps \cup UndoSteps \cup Untagged \cup Upward \cup Downward
          \cup {"tearDown", "register"}

Backups == [no : Int, data : Int]

Dirs == [data : Int, config : SUBSET Backups,
         dataStash : Int, configStash : SUBSET Backups]

Container == [id : Nat, image : Nat, running : BOOLEAN]

Job == [pc : Step, from : Nat, target : Nat, old : Nat, new : Nat,
        backup : Int, rollback : BOOLEAN]

UpdateTypes ==
    /\ tag \in [latest : Nat, previous : Nat]
    /\ ctr \in Container /\ ids \in Nat
    /\ registered \in Nat
    /\ disk \in Dirs /\ before \in Dirs
    /\ kept \subseteq Int
    /\ app \in {"up", "quitting", "down"}
    /\ job \in Job
    /\ launch \in {"done", "pending", "run"}
    /\ left \in [updates : Int, faults : Int, crashes : Int]
    /\ anchored \in BOOLEAN /\ overtaken \in BOOLEAN
    /\ broken \subseteq ForwardSteps \cup UndoSteps

LEMMA JobMoves ==
    ASSUME job \in Job, NEW pc \in Step, Goto(pc)
    PROVE  /\ job' \in Job /\ job'.pc = pc
           /\ job'.from = job.from /\ job'.target = job.target
           /\ job'.old = job.old /\ job'.new = job.new
           /\ job'.backup = job.backup /\ job'.rollback = job.rollback
BY DEF Goto, Job

LEMMA JobFields ==
    ASSUME job \in Job
    PROVE  /\ job.pc \in Step /\ job.from \in Nat /\ job.target \in Nat
           /\ job.old \in Nat /\ job.new \in Nat /\ job.backup \in Int
           /\ job.rollback \in BOOLEAN
BY DEF Job

LEMMA NoJobIsJob ==
    /\ NoJob \in Job /\ NoJob.pc = "idle" /\ NoJob.new = 0 /\ ~NoJob.rollback
    /\ NoJob.from = 0 /\ NoJob.target = 0 /\ NoJob.old = 0 /\ NoJob.backup = 0
BY DEF NoJob, Job, Step, Untagged

LEMMA FaultIsLeft ==
    ASSUME left \in [updates : Int, faults : Int, crashes : Int], Fault
    PROVE  left' \in [updates : Int, faults : Int, crashes : Int]
BY DEF Fault

\* A container that starts on a volume: the data stays whole if it was.
LEMMA OpenedDirs ==
    ASSUME NEW d \in Dirs, NEW v \in Nat
    PROVE  /\ Opened(d, v) \in Dirs
           /\ Opened(d, v).dataStash = d.dataStash
           /\ Opened(d, v).configStash = d.configStash
           /\ Opened(d, v).config = IF d.config = NoDir THEN {} ELSE d.config
           /\ Opened(d, v).data = CASE d.data = Missing -> Fresh
                                    [] d.data = Torn -> Spoiled
                                    [] Whole(d.data) /\ d.data < v -> v
                                    [] OTHER -> d.data
           /\ Whole(d.data) => Whole(Opened(d, v).data)
<1> DEFINE x == CASE d.data = Missing -> Fresh
                  [] d.data = Torn -> Spoiled
                  [] Whole(d.data) /\ d.data < v -> v
                  [] OTHER -> d.data
           y == IF d.config = NoDir THEN {} ELSE d.config
<1>1. Opened(d, v) = [d EXCEPT !.data = x, !.config = y]
  BY DEF Opened
<1>2. d.data \in Int /\ d.config \subseteq Backups
  BY DEF Dirs
<1>3. x \in Int /\ (Whole(d.data) => Whole(x))
  BY <1>2 DEF Missing, Torn, Fresh, Spoiled, Whole
<1>4. y \subseteq Backups
  BY <1>2
<1> HIDE DEF x, y
<1>5. /\ Opened(d, v) \in Dirs
      /\ Opened(d, v).dataStash = d.dataStash
      /\ Opened(d, v).configStash = d.configStash
      /\ Opened(d, v).config = y /\ Opened(d, v).data = x
  BY <1>1, <1>3, <1>4 DEF Dirs
<1> QED BY <1>3, <1>5 DEF x, y

Left == [updates : Int, faults : Int, crashes : Int]

LEMMA RunFacts ==
    ASSUME UpdateTypes, NEW v \in Nat, Run(v)
    PROVE  /\ ctr.id = 0 /\ ids' = ids + 1 /\ ids' \in Nat
           /\ ctr' \in Container /\ ctr'.id = ids' /\ ctr'.image = v
           /\ tag' = tag /\ left' = left
           /\ disk' = Opened(disk, v) /\ disk' \in Dirs
<1>1. ids \in Nat /\ disk \in Dirs
  BY DEF UpdateTypes
<1>2. Opened(disk, v) \in Dirs
  BY <1>1, OpenedDirs
<1>3. ids + 1 \in Nat
  BY <1>1
<1> QED BY <1>1, <1>2, <1>3 DEF Run, Taken, Container

LEMMA RunFailsFacts ==
    ASSUME UpdateTypes, NEW v \in Nat, RunFails(v)
    PROVE  /\ tag' = tag /\ disk' = disk /\ left' \in Left
           /\ ids' \in Nat /\ ctr' \in Container
           /\ \/ ctr' = ctr /\ ids' = ids
              \/ ctr.id = 0 /\ ids' = ids + 1 /\ ctr'.id = ids'
<1>1. ids \in Nat /\ ctr \in Container /\ left \in Left
  BY DEF UpdateTypes, Left
<1>2. ids + 1 \in Nat
  BY <1>1
<1>3. Fault => left' \in Left
  BY <1>1, FaultIsLeft DEF Left
<1>4. ids' \in Nat /\ left' \in Left
  BY <1>1, <1>2, <1>3 DEF RunFails
<1> DEFINE c == [id |-> ids + 1, image |-> v, running |-> FALSE]
<1>5. c \in Container /\ c.id = ids + 1
  BY <1>2 DEF Container
<1>6. /\ tag' = tag /\ disk' = disk
      /\ \/ ctr' = ctr /\ ids' = ids
         \/ ctr.id = 0 /\ ids' = ids + 1 /\ ctr' = c
  BY DEF RunFails, Taken
<1> HIDE DEF c
<1> QED BY <1>1, <1>4, <1>5, <1>6

LEMMA RemoveFacts ==
    ASSUME UpdateTypes, NEW i \in Nat, RemoveIfExists(i)
    PROVE  /\ tag' = tag /\ disk' = disk /\ ids' = ids /\ left' \in Left
           /\ ctr' \in Container
           /\ ctr' = ctr \/ (ctr.id = i /\ ctr' = NoContainer)
<1>1. ctr \in Container /\ left \in Left
  BY DEF UpdateTypes, Left
<1>2. NoContainer \in Container
  BY DEF NoContainer, Container
<1>3. Fault => left' \in Left
  BY <1>1, FaultIsLeft DEF Left
<1> QED BY <1>1, <1>2, <1>3 DEF RemoveIfExists

\* The container an update has made is stopped, removed, both or neither.
LEMMA TearDownFacts ==
    ASSUME UpdateTypes, TearDown
    PROVE  /\ tag' = tag /\ disk' = disk /\ ids' = ids /\ left' \in Left
           /\ ctr' \in Container /\ ctr'.id \in {ctr.id, 0}
<1>1. ctr \in Container /\ left \in Left /\ job.new \in Nat
  BY JobFields DEF UpdateTypes, Left
<1>2. Fault => left' \in Left
  BY <1>1, FaultIsLeft DEF Left
<1>3. CASE job.new = 0 /\ UNCHANGED <<docker, disk, left>>
  BY <1>1, <1>3 DEF docker
<1>4. CASE RemoveIfExists(job.new)
  BY <1>1, <1>4, RemoveFacts DEF NoContainer
<1>5. CASE /\ Fault /\ ctr' = [ctr EXCEPT !.running = FALSE]
           /\ UNCHANGED <<tag, ids, disk>>
  BY <1>1, <1>2, <1>5 DEF Container
<1> QED BY <1>3, <1>4, <1>5 DEF TearDown

\* A volume, field by field.
Volume(d, data, config, dataStash, configStash) ==
    /\ d \in Dirs /\ d.data = data /\ d.config = config
    /\ d.dataStash = dataStash /\ d.configStash = configStash

LEMMA DirsWith ==
    ASSUME NEW d \in Dirs, NEW x \in Int, NEW y \in SUBSET Backups
    PROVE  /\ Volume([d EXCEPT !.data = x], x, d.config, d.dataStash, d.configStash)
           /\ Volume([d EXCEPT !.config = y], d.data, y, d.dataStash, d.configStash)
           /\ Volume([d EXCEPT !.dataStash = x], d.data, d.config, x, d.configStash)
           /\ Volume([d EXCEPT !.configStash = y], d.data, d.config, d.dataStash, y)
BY DEF Dirs, Volume

LEMMA DirsWithTwo ==
    ASSUME NEW d \in Dirs, NEW x \in Int, NEW y \in SUBSET Backups,
           NEW u \in Int, NEW w \in SUBSET Backups
    PROVE  /\ Volume([d EXCEPT !.dataStash = u, !.data = x],
                     x, d.config, u, d.configStash)
           /\ Volume([d EXCEPT !.data = x, !.dataStash = u],
                     x, d.config, u, d.configStash)
           /\ Volume([d EXCEPT !.configStash = w, !.config = y],
                     d.data, y, d.dataStash, w)
           /\ Volume([d EXCEPT !.config = y, !.configStash = w],
                     d.data, y, d.dataStash, w)
           /\ Volume([d EXCEPT !.dataStash = u, !.configStash = w],
                     d.data, d.config, u, w)
BY DEF Dirs, Volume

LEMMA DirsFields ==
    ASSUME NEW d \in Dirs
    PROVE  /\ d.data \in Int /\ d.dataStash \in Int
           /\ d.config \in SUBSET Backups /\ d.configStash \in SUBSET Backups
           /\ Volume(d, d.data, d.config, d.dataStash, d.configStash)
BY DEF Dirs, Volume

LEMMA Contents ==
    /\ Missing \in Int /\ Torn \in Int /\ Spoiled \in Int /\ Fresh \in Int
    /\ Missing # Torn
    /\ ~Whole(Missing) /\ ~Whole(Torn) /\ ~Whole(Spoiled) /\ ~Whole(Fresh)
    /\ NoDir \in SUBSET Backups /\ {} \in SUBSET Backups
    /\ NoDir # {} /\ \A b \in NoDir : b.no = 0
BY DEF Missing, Torn, Spoiled, Fresh, Whole, NoDir, Backups

\* The volume after a step of a restore.
LEMMA AfterForward ==
    ASSUME disk \in Dirs
    PROVE  LET d == disk IN
           /\ Volume(After("stashData"), Missing, d.config, d.data, d.configStash)
           /\ Volume(After("stashConfig"), d.data, NoDir, d.dataStash, d.config)
           /\ d.data = Missing =>
                Volume(After("beginData"), Torn, d.config, d.dataStash, d.configStash)
           /\ \E x \in {Torn, Spoiled} :
                Volume(After("beginData"), x, d.config, d.dataStash, d.configStash)
           /\ Volume(After("copyConfig"), d.data,
                     IF d.config = NoDir THEN {} ELSE d.config,
                     d.dataStash, d.configStash)
           /\ Volume(After("moveBackups"), d.data, d.configStash, d.dataStash, {})
           /\ Volume(After("dropData"), d.data, d.config, Missing, d.configStash)
           /\ Volume(After("dropConfig"), d.data, d.config, d.dataStash, NoDir)
<1>1. /\ disk.data \in Int /\ disk.dataStash \in Int
      /\ disk.config \in SUBSET Backups /\ disk.configStash \in SUBSET Backups
  BY DirsFields
<1>2. /\ After("stashData") = [disk EXCEPT !.dataStash = disk.data, !.data = Missing]
      /\ After("stashConfig") =
           [disk EXCEPT !.configStash = disk.config, !.config = NoDir]
  BY DEF After
<1>3. /\ After("beginData") =
           [disk EXCEPT !.data = IF disk.data = Missing THEN Torn ELSE Spoiled]
      /\ After("copyConfig") =
           [disk EXCEPT !.config = IF disk.config = NoDir THEN {} ELSE disk.config]
  BY DEF After
<1>4. After("moveBackups") =
           [disk EXCEPT !.config = disk.configStash, !.configStash = {}]
  BY DEF After
<1>5. /\ After("dropData") = [disk EXCEPT !.dataStash = Missing]
      /\ After("dropConfig") = [disk EXCEPT !.configStash = NoDir]
  BY DEF After
<1>6. /\ Volume(After("stashData"), Missing, disk.config, disk.data, disk.configStash)
      /\ Volume(After("stashConfig"), disk.data, NoDir, disk.dataStash, disk.config)
      /\ Volume(After("moveBackups"), disk.data, disk.configStash, disk.dataStash, {})
  <2>1. Volume([disk EXCEPT !.dataStash = disk.data, !.data = Missing],
               Missing, disk.config, disk.data, disk.configStash)
    BY <1>1, DirsWithTwo, Contents
  <2>2. Volume([disk EXCEPT !.configStash = disk.config, !.config = NoDir],
               disk.data, NoDir, disk.dataStash, disk.config)
    BY <1>1, DirsWithTwo, Contents
  <2>3. Volume([disk EXCEPT !.config = disk.configStash, !.configStash = {}],
               disk.data, disk.configStash, disk.dataStash, {})
    BY <1>1, DirsWithTwo, Contents
  <2> QED BY <1>2, <1>4, <2>1, <2>2, <2>3
<1>7. /\ Volume(After("dropData"), disk.data, disk.config, Missing, disk.configStash)
      /\ Volume(After("dropConfig"), disk.data, disk.config, disk.dataStash, NoDir)
  BY <1>1, <1>5, DirsWith, Contents
<1> DEFINE x == IF disk.data = Missing THEN Torn ELSE Spoiled
           y == IF disk.config = NoDir THEN {} ELSE disk.config
<1>8. x \in Int /\ y \in SUBSET Backups /\ x \in {Torn, Spoiled}
  BY <1>1, Contents
<1>9. disk.data = Missing => x = Torn
  OBVIOUS
<1>10. After("beginData") = [disk EXCEPT !.data = x]
  BY <1>3
<1>11. After("copyConfig") = [disk EXCEPT !.config = y]
  BY <1>3
<1>12. y = IF disk.config = NoDir THEN {} ELSE disk.config
  OBVIOUS
<1> HIDE DEF x, y
<1>13. /\ Volume(After("beginData"), x, disk.config, disk.dataStash, disk.configStash)
       /\ Volume(After("copyConfig"), disk.data, y, disk.dataStash, disk.configStash)
  BY <1>8, <1>10, <1>11, DirsWith
<1> QED BY <1>6, <1>7, <1>8, <1>9, <1>12, <1>13

LEMMA AfterCopy ==
    ASSUME disk \in Dirs, \E b \in disk.configStash : b.no = job.backup
    PROVE  /\ Snapshot \in disk.configStash /\ Snapshot.no = job.backup
           /\ \E x \in Int :
                /\ disk.data = Torn => x = Snapshot.data
                /\ Volume(After("copyData"), x, disk.config, disk.dataStash,
                          disk.configStash)
<1>1. Snapshot \in disk.configStash /\ Snapshot.no = job.backup
  BY DEF Snapshot
<1>2. Snapshot.data \in Int
  BY <1>1, DirsFields DEF Backups
<1> DEFINE x == IF disk.data = Torn THEN Snapshot.data ELSE Spoiled
<1>3. x \in Int /\ (disk.data = Torn => x = Snapshot.data)
  BY <1>2, Contents
<1>4. After("copyData") = [disk EXCEPT !.data = x]
  BY DEF After
<1> HIDE DEF x
<1>5. Volume(After("copyData"), x, disk.config, disk.dataStash, disk.configStash)
  BY <1>3, <1>4, DirsWith
<1> QED BY <1>1, <1>3, <1>5

\* The volume after a step of the catch block.
LEMMA AfterUndo ==
    ASSUME disk \in Dirs
    PROVE  LET d == disk IN
           /\ Volume(After("clearData"), Missing, d.config, d.dataStash, d.configStash)
           /\ Volume(After("clearConfig"), d.data, NoDir, d.dataStash, d.configStash)
           /\ IF d.dataStash = Missing THEN After("unstashData") = d
              ELSE Volume(After("unstashData"), d.dataStash, d.config, Missing,
                          d.configStash)
           /\ IF d.configStash = NoDir THEN After("unstashConfig") = d
              ELSE Volume(After("unstashConfig"), d.data, d.configStash,
                          d.dataStash, NoDir)
<1>1. /\ disk.data \in Int /\ disk.dataStash \in Int
      /\ disk.config \in SUBSET Backups /\ disk.configStash \in SUBSET Backups
  BY DirsFields
<1>2. /\ After("clearData") = [disk EXCEPT !.data = Missing]
      /\ After("clearConfig") = [disk EXCEPT !.config = NoDir]
  BY DEF After
<1>3. After("unstashData") =
        IF disk.dataStash = Missing THEN disk
        ELSE [disk EXCEPT !.data = disk.dataStash, !.dataStash = Missing]
  BY DEF After
<1>4. After("unstashConfig") =
        IF disk.configStash = NoDir THEN disk
        ELSE [disk EXCEPT !.config = disk.configStash, !.configStash = NoDir]
  BY DEF After
<1>5. /\ Volume([disk EXCEPT !.data = Missing], Missing, disk.config, disk.dataStash,
                disk.configStash)
      /\ Volume([disk EXCEPT !.config = NoDir], disk.data, NoDir, disk.dataStash,
                disk.configStash)
  BY <1>1, DirsWith, Contents
<1>6. /\ Volume([disk EXCEPT !.data = disk.dataStash, !.dataStash = Missing],
                disk.dataStash, disk.config, Missing, disk.configStash)
      /\ Volume([disk EXCEPT !.config = disk.configStash, !.configStash = NoDir],
                disk.data, disk.configStash, disk.dataStash, NoDir)
  BY <1>1, DirsWithTwo, Contents
<1> QED BY <1>2, <1>3, <1>4, <1>5, <1>6

LEMMA BrokenIsDirs ==
    ASSUME disk \in Dirs, NEW step
    PROVE  Broken(step) \in Dirs
<1>1. /\ disk.data \in Int /\ disk.dataStash \in Int
      /\ disk.config \in SUBSET Backups /\ disk.configStash \in SUBSET Backups
  BY DirsFields
<1> DEFINE x == IF disk.data = Missing THEN Torn ELSE Spoiled
<1>2. \/ Broken(step) = [disk EXCEPT !.data = x]
      \/ Broken(step) = [disk EXCEPT !.dataStash = Torn]
      \/ Broken(step) = [disk EXCEPT !.data = Torn]
      \/ Broken(step) = [disk EXCEPT !.config = {}]
      \/ Broken(step) = [disk EXCEPT !.configStash = {}]
      \/ Broken(step) = disk
  BY DEF Broken
<1>3. x \in Int
  BY Contents
<1> HIDE DEF x
<1>4. /\ [disk EXCEPT !.data = x] \in Dirs /\ [disk EXCEPT !.data = Torn] \in Dirs
      /\ [disk EXCEPT !.dataStash = Torn] \in Dirs
      /\ [disk EXCEPT !.config = {}] \in Dirs
      /\ [disk EXCEPT !.configStash = {}] \in Dirs
  BY <1>3, DirsWith, Contents DEF Volume
<1> QED BY <1>2, <1>4

-----------------------------------------------------------------------------
(* The steps of a restore, one after another.                              *)

Follows(step, next) ==
    \/ step = "stashData" /\ next = "stashConfig"
    \/ step = "stashConfig" /\ next = "beginData"
    \/ step = "beginData" /\ next = "copyData"
    \/ step = "copyData" /\ next = "copyConfig"
    \/ step = "copyConfig" /\ next = "moveBackups"
    \/ step = "moveBackups" /\ next = "dropData"
    \/ step = "dropData" /\ next = "dropConfig"
    \/ step = "dropConfig" /\ next = "reclear"

Undoes(step, next) ==
    \/ step = "clearData" /\ next = "clearConfig"
    \/ step = "clearConfig" /\ next = "unstashData"
    \/ step = "unstashData" /\ next = "unstashConfig"
    \/ step = "unstashConfig" /\ next = "failed"

Copies == {"beginData", "copyData", "copyConfig"}

LEMMA ForwardTable ==
    /\ DOMAIN RestoreStep = ForwardSteps
    /\ \A step \in ForwardSteps :
          /\ Follows(step, RestoreStep[step])
          /\ step \in Unsafe \cup Stashed \/ step = "stashConfig"
BY DEF RestoreStep, ForwardSteps, Follows, Unsafe, Stashed

LEMMA UndoTable ==
    /\ DOMAIN UndoStep = UndoSteps
    /\ \A step \in UndoSteps :
          Undoes(step, UndoStep[step]) /\ step \notin Unsafe \cup Stashed
BY DEF UndoStep, UndoSteps, Undoes, Unsafe, Stashed

\* The job goes on at another step.
Continues(pc) ==
    /\ job' \in Job /\ job'.pc = pc
    /\ job'.from = job.from /\ job'.target = job.target
    /\ job'.old = job.old /\ job'.new = job.new
    /\ job'.backup = job.backup /\ job'.rollback = job.rollback

LEMMA RestoreMoves ==
    ASSUME UpdateTypes, Restore
    PROVE  /\ job.pc \in ForwardSteps /\ left' \in Left
           /\ \/ /\ disk' = After(job.pc) /\ broken' = broken
                 /\ \E next \in Step : Follows(job.pc, next) /\ Continues(next)
              \/ /\ disk' = Broken(job.pc) /\ Continues("clearData")
                 /\ broken' = broken \cup {job.pc}
<1>1. job \in Job /\ left \in Left
  BY DEF UpdateTypes, Left
<1>2. job.pc \in ForwardSteps
  BY ForwardTable DEF Restore
<1>3. \A next \in Step : Goto(next) => Continues(next)
  BY <1>1, JobMoves DEF Continues
<1>4. \A step, next : Follows(step, next) => next \in Step
  BY DEF Follows, Step, ForwardSteps, Downward
<1>5. "clearData" \in Step
  BY DEF Step, UndoSteps
<1>6. Fault => left' \in Left
  BY <1>1, FaultIsLeft DEF Left
<1>7. \/ /\ disk' = After(job.pc) /\ left' = left /\ broken' = broken
         /\ Goto(RestoreStep[job.pc])
      \/ /\ Fault /\ disk' = Broken(job.pc) /\ Goto("clearData")
         /\ broken' = broken \cup {job.pc}
  BY DEF Restore
<1>8. Follows(job.pc, RestoreStep[job.pc])
  BY <1>2, ForwardTable
<1> QED BY <1>1, <1>2, <1>3, <1>4, <1>5, <1>6, <1>7, <1>8

LEMMA UndoMoves ==
    ASSUME UpdateTypes, Undo
    PROVE  /\ job.pc \in UndoSteps /\ left' \in Left
           /\ \/ /\ disk' = After(job.pc) /\ ~Blocked(job.pc) /\ broken' = broken
                 /\ \E next \in Step : Undoes(job.pc, next) /\ Continues(next)
              \/ /\ disk' = disk /\ Blocked(job.pc) /\ broken' = broken
                 /\ Continues("failed")
              \/ /\ disk' = Broken(job.pc) /\ broken' = broken \cup {job.pc}
                 /\ Continues("failed")
<1>1. job \in Job /\ left \in Left
  BY DEF UpdateTypes, Left
<1>2. job.pc \in UndoSteps
  BY UndoTable DEF Undo
<1>3. \A next \in Step : Goto(next) => Continues(next)
  BY <1>1, JobMoves DEF Continues
<1>4. \A step, next : Undoes(step, next) => next \in Step
  BY DEF Undoes, Step, UndoSteps, Downward
<1>5. "failed" \in Step
  BY DEF Step, Downward
<1>6. Fault => left' \in Left
  BY <1>1, FaultIsLeft DEF Left
<1>7. \/ /\ disk' = After(job.pc) /\ left' = left /\ ~Blocked(job.pc)
         /\ broken' = broken /\ Goto(UndoStep[job.pc])
      \/ /\ disk' = disk /\ left' = left /\ Blocked(job.pc)
         /\ broken' = broken /\ Goto("failed")
      \/ /\ Fault /\ disk' = Broken(job.pc) /\ Goto("failed")
         /\ broken' = broken \cup {job.pc}
  BY DEF Undo
<1>8. Undoes(job.pc, UndoStep[job.pc])
  BY <1>2, UndoTable
<1> QED BY <1>1, <1>2, <1>3, <1>4, <1>5, <1>6, <1>7, <1>8

-----------------------------------------------------------------------------
(* Types.                                                                  *)

\* A directory that holds the backup to return to.
Holds(dirs) == \E b \in dirs : b.no = job.backup

\* The backup to return to is there while the restore needs it.
Held ==
    /\ job.pc \in ForwardSteps => job.backup # 0
    /\ job.pc \in {"stashData", "stashConfig"} => Holds(disk.config)
    /\ job.pc \in {"beginData", "copyData", "copyConfig", "moveBackups"} =>
          Holds(disk.configStash)

LEMMA UpdateFields ==
    ASSUME UpdateTypes
    PROVE  /\ tag.latest \in Nat /\ tag.previous \in Nat
           /\ ctr.id \in Nat /\ ctr.image \in Nat /\ ctr.running \in BOOLEAN
           /\ left \in Left /\ left.updates \in Int /\ ids \in Nat
           /\ registered \in Nat /\ disk \in Dirs /\ before \in Dirs
           /\ job \in Job /\ job.pc \in Step /\ job.from \in Nat
           /\ job.target \in Nat /\ job.old \in Nat /\ job.new \in Nat
           /\ job.backup \in Int /\ job.rollback \in BOOLEAN
           /\ tag \in [latest : Nat, previous : Nat]
           /\ ctr \in Container /\ kept \subseteq Int
BY JobFields DEF UpdateTypes, Left, Container

LEMMA InitUpdateTypes == UpdateInit => UpdateTypes
<1> SUFFICES ASSUME NEW v \in Version, NEW older \in 0..(v - 1),
                    tag = [latest |-> v, previous |-> older],
                    ctr = [id |-> 1, image |-> v, running |-> TRUE], ids = 1,
                    registered = 1,
                    disk = [data |-> v, config |-> {},
                            dataStash |-> Missing, configStash |-> NoDir],
                    kept = {}, app = "up", job = NoJob, launch = "done",
                    left = [updates |-> MaxUpdates, faults |-> MaxFaults,
                            crashes |-> MaxCrashes],
                    anchored = FALSE, before = disk, broken = {},
                    overtaken = FALSE
             PROVE  UpdateTypes
  BY DEF UpdateInit
<1>1. v \in Nat /\ older \in Nat /\ v \in Int
  BY VersionAssumption DEF Version
<1>2. disk \in Dirs
  BY <1>1, Contents DEF Dirs
<1>3. left \in Left
  BY BoundAssumption DEF Left
<1> QED BY <1>1, <1>2, <1>3, NoJobIsJob DEF UpdateTypes, Container, Left

\* What no lifecycle step of the app touches.
LEMMA SweptDirs ==
    ASSUME disk \in Dirs
    PROVE  /\ Volume(Swept(disk), disk.data, disk.config, Missing, NoDir)
           /\ InStashes \subseteq Int
<1>1. InStashes \subseteq Int
  BY DirsFields DEF InStashes, Backups
<1>2. Volume([disk EXCEPT !.dataStash = Missing, !.configStash = NoDir],
             disk.data, disk.config, Missing, NoDir)
  BY Contents, DirsFields, DirsWithTwo
<1> QED BY <1>1, <1>2 DEF Swept

LEMMA TypesByDocker ==
    ASSUME UpdateTypes, NEW v \in Nat, NEW i \in Nat,
           Run(v) \/ RunFails(v) \/ RemoveIfExists(i)
    PROVE  /\ tag' = tag /\ ctr' \in Container /\ ids' \in Nat
           /\ disk' \in Dirs /\ left' \in Left
<1>1. disk \in Dirs /\ ids \in Nat /\ left \in Left
  BY UpdateFields
<1>2. CASE Run(v)
  BY <1>1, <1>2, RunFacts
<1>3. CASE RunFails(v)
  BY <1>1, <1>3, RunFailsFacts
<1>4. CASE RemoveIfExists(i)
  BY <1>1, <1>4, RemoveFacts
<1> QED BY <1>2, <1>3, <1>4

LEMMA JobEnds == \A how : End(how) => job' = NoJob
BY DEF End

LEMMA GotoContinues ==
    ASSUME UpdateTypes, NEW pc \in Step, Goto(pc)
    PROVE  Continues(pc)
BY JobMoves DEF UpdateTypes, Continues

\* The names of the steps.
LEMMA StepNames ==
    /\ {"idle", "rebuild", "rebuildRun", "backup", "pull", "gate", "stop", "anchor",
        "swap", "clear", "run", "poll", "rotate"} \subseteq Step
    /\ {"retag", "reclear", "rerun", "repoll", "failed", "tearDown", "register",
        "stashData"} \subseteq Step
BY DEF Step, Untagged, Upward, Downward, ForwardSteps

LEMMA StepUpdateTypes ==
    ASSUME UpdateTypes, Held, [UpdateNext]_updateVars
    PROVE  UpdateTypes'
<1> USE StepNames
<1>1. ASSUME NEW v \in Nat, NEW b \in BOOLEAN, Begin(v, b) PROVE UpdateTypes'
  <2>1. job' \in Job
    BY <1>1, UpdateFields, NoJobIsJob DEF Begin, Job
  <2>2. left' \in Left
    BY <1>1, UpdateFields DEF Begin, Left
  <2> QED BY <1>1, <2>1, <2>2 DEF Begin, UpdateTypes, docker, Left
<1>2. CASE Backup
  <2>1. MaxUpdates - left.updates \in Int /\ disk.data \in Int
    BY UpdateFields, BoundAssumption DEF Dirs
  <2>2. disk.config \cup {[no |-> MaxUpdates - left.updates, data |-> disk.data]}
          \in SUBSET Backups
    BY <2>1, UpdateFields, DirsFields DEF Backups
  <2>3. disk' \in Dirs
    <3>1. [disk EXCEPT !.config =
             disk.config \cup {[no |-> MaxUpdates - left.updates, data |-> disk.data]}]
            \in Dirs
      BY <2>2, UpdateFields, DirsWith DEF Volume
    <3> QED BY <1>2, <3>1, UpdateFields DEF Backup
  <2>4. job' \in Job
    BY ZenonT(60), <1>2, <2>1, UpdateFields, NoJobIsJob DEF Backup, Job, End
  <2>5. left' \in Left
    BY <1>2, UpdateFields, FaultIsLeft DEF Backup, Left
  <2> QED BY <1>2, <2>3, <2>4, <2>5 DEF Backup, UpdateTypes, docker, Left
<1>3. CASE Pull
  <2>1. job' \in Job
    BY <1>3, GotoContinues, NoJobIsJob DEF Pull, End, Continues
  <2>2. left' \in Left
    BY <1>3, UpdateFields, FaultIsLeft DEF Pull, Left
  <2> QED BY <1>3, <2>1, <2>2 DEF Pull, UpdateTypes, docker, Left
<1>4. CASE Confirm
  <2>1. job' \in Job
    BY <1>4, GotoContinues DEF Confirm, Continues
  <2> QED BY <1>4, <2>1 DEF Confirm, UpdateTypes, docker, history
<1>5. CASE Stop
  <2>1. job' \in Job
    BY <1>5, GotoContinues DEF Stop, Continues
  <2>2. left' \in Left
    BY <1>5, UpdateFields, FaultIsLeft DEF Stop, Left
  <2>3. ctr' \in Container
    BY <1>5, UpdateFields DEF Stop, Container
  <2> QED BY <1>5, <2>1, <2>2, <2>3 DEF Stop, UpdateTypes, history, Left
<1>6. CASE Anchor
  <2>1. job' \in Job
    BY <1>6, GotoContinues DEF Anchor, Continues
  <2>2. left' \in Left
    BY <1>6, UpdateFields, FaultIsLeft DEF Anchor, Left
  <2>3. tag' \in [latest : Nat, previous : Nat] /\ anchored' \in BOOLEAN
    BY <1>6, UpdateFields DEF Anchor, UpdateTypes
  <2> QED BY <1>6, <2>1, <2>2, <2>3 DEF Anchor, UpdateTypes, Left
<1>7. CASE Swap
  <2>1. job' \in Job
    BY <1>7, GotoContinues DEF Swap, Continues
  <2>2. left' \in Left
    BY <1>7, UpdateFields, FaultIsLeft DEF Swap, Left
  <2>3. tag' \in [latest : Nat, previous : Nat]
    BY <1>7, UpdateFields DEF Swap
  <2> QED BY <1>7, <2>1, <2>2, <2>3 DEF Swap, UpdateTypes, history, Left
<1>8. CASE Clear
  <2>1. job' \in Job
    BY <1>8, GotoContinues DEF Clear, Continues
  <2>2. /\ tag' = tag /\ ctr' \in Container /\ ids' \in Nat /\ disk' \in Dirs
        /\ left' \in Left
    BY <1>8, UpdateFields, TypesByDocker DEF Clear
  <2> QED BY <1>8, <2>1, <2>2 DEF Clear, UpdateTypes, history, Left
<1>9. CASE Recreate
  <2>1. ids + 1 \in Nat
    BY UpdateFields
  <2>2. job' \in Job
    BY <1>9, <2>1, UpdateFields DEF Recreate, Job
  <2>3. /\ tag' = tag /\ ctr' \in Container /\ ids' \in Nat /\ disk' \in Dirs
        /\ left' \in Left
    BY <1>9, UpdateFields, TypesByDocker DEF Recreate
  <2> QED BY <1>9, <2>2, <2>3 DEF Recreate, UpdateTypes, history, Left
<1>10. CASE Poll
  <2>1. job' \in Job
    BY <1>10, GotoContinues DEF Poll, Continues
  <2>2. left' \in Left
    BY <1>10, UpdateFields, FaultIsLeft DEF Poll, Left
  <2> QED BY <1>10, <2>1, <2>2 DEF Poll, UpdateTypes, docker, history, Left
<1>11. CASE Rotate
  <2>1. job' \in Job
    BY <1>11, GotoContinues DEF Rotate, Continues
  <2>2. left' \in Left
    BY <1>11, UpdateFields, FaultIsLeft DEF Rotate, Left
  <2>3. \/ disk' = disk
        \/ \E y \in SUBSET Backups : disk' = [disk EXCEPT !.config = y]
    <3> DEFINE stale == {b \in disk.config :
                 Cardinality({c \in disk.config : c.no > b.no}) >= Retention}
    <3>1. disk' = disk \/ disk' = [disk EXCEPT !.config = disk.config \ stale]
      BY <1>11 DEF Rotate
    <3>2. disk.config \ stale \in SUBSET Backups
      BY UpdateFields, DirsFields
    <3> HIDE DEF stale
    <3> QED BY <3>1, <3>2
  <2>4. disk' \in Dirs
    <3>1. \A y \in SUBSET Backups : [disk EXCEPT !.config = y] \in Dirs
      BY UpdateFields DEF Dirs
    <3> QED BY <2>3, <3>1, UpdateFields
  <2> QED BY <1>11, <2>1, <2>2, <2>4 DEF Rotate, UpdateTypes, docker, history, Left
<1>12. CASE Register
  <2>1. job' \in Job /\ registered' \in Nat
    BY <1>12, NoJobIsJob, UpdateFields DEF Register, End
  <2> QED BY <1>12, <2>1 DEF Register, UpdateTypes, docker
<1>13. CASE TearDown
  <2>1. [job EXCEPT !.pc = "retag", !.rollback = TRUE] \in Job
    BY UpdateFields DEF Job
  <2>2. /\ tag' = tag /\ ctr' \in Container /\ ids' \in Nat /\ disk' \in Dirs
        /\ left' \in Left
    BY <1>13, UpdateFields, TearDownFacts
  <2> QED BY <1>13, <2>1, <2>2 DEF TearDown, UpdateTypes, history, Left
<1>14. CASE Retag
  <2>1. \/ job' = job
        \/ \E pc \in {"reclear", "stashData", "failed"} : Goto(pc)
    BY <1>14 DEF Retag
  <2>2. job' \in Job
    BY <2>1, UpdateFields, GotoContinues DEF Continues
  <2>3. left' \in Left
    BY <1>14, UpdateFields, FaultIsLeft DEF Retag, Left
  <2>4. tag' \in [latest : Nat, previous : Nat]
    BY <1>14, UpdateFields DEF Retag
  <2>5. broken' \subseteq ForwardSteps \cup UndoSteps
    BY <1>14 DEF Retag, UpdateTypes
  <2> QED BY <1>14, <2>2, <2>3, <2>4, <2>5 DEF Retag, UpdateTypes, Left
<1>15. CASE Restore
  <2>1. job' \in Job /\ left' \in Left /\ job.pc \in ForwardSteps
    BY <1>15, RestoreMoves DEF Continues
  <2>2. After(job.pc) \in Dirs
    <3>1. CASE job.pc = "copyData"
      BY <3>1, UpdateFields, AfterCopy DEF Held, Holds, Volume
    <3>2. CASE job.pc # "copyData"
      BY <2>1, <3>2, UpdateFields, AfterForward DEF ForwardSteps, Volume
    <3> QED BY <3>1, <3>2
  <2>3. disk' \in Dirs
    BY <1>15, <2>2, RestoreMoves, UpdateFields, BrokenIsDirs
  <2>4. broken' \subseteq ForwardSteps \cup UndoSteps
    BY <1>15, <2>1, RestoreMoves DEF UpdateTypes
  <2> QED BY <1>15, <2>1, <2>3, <2>4 DEF Restore, UpdateTypes, docker, history, Left
<1>16. CASE Undo
  <2>1. job' \in Job /\ left' \in Left /\ job.pc \in UndoSteps
    BY <1>16, UndoMoves DEF Continues
  <2>2. After(job.pc) \in Dirs
    BY <2>1, UpdateFields, AfterUndo DEF UndoSteps, Volume
  <2>3. disk' \in Dirs
    BY <1>16, <2>2, UndoMoves, UpdateFields, BrokenIsDirs
  <2>4. broken' \subseteq ForwardSteps \cup UndoSteps
    BY <1>16, <2>1, UndoMoves DEF UpdateTypes
  <2> QED BY <1>16, <2>1, <2>3, <2>4 DEF Undo, UpdateTypes, docker, history, Left
<1>17. CASE RollbackFails
  <2>1. Swept(disk) \in Dirs /\ InStashes \subseteq Int
    BY UpdateFields, SweptDirs DEF Volume
  <2> QED BY <1>17, <2>1, NoJobIsJob DEF RollbackFails, UpdateTypes, docker, End
<1>18. CASE BeginRebuild
  <2>1. [NoJob EXCEPT !.pc = "rebuild", !.old = registered] \in Job
    BY UpdateFields, NoJobIsJob DEF Job
  <2>2. left' \in Left
    BY <1>18, UpdateFields DEF BeginRebuild, Left
  <2> QED BY <1>18, <2>1, <2>2 DEF BeginRebuild, UpdateTypes, docker, history, Left
<1>19. CASE RebuildClears
  <2>1. job' \in Job
    BY <1>19, GotoContinues DEF RebuildClears, Continues
  <2>2. /\ tag' = tag /\ ctr' \in Container /\ ids' \in Nat /\ disk' \in Dirs
        /\ left' \in Left
    BY <1>19, UpdateFields, TypesByDocker DEF RebuildClears
  <2> QED BY <1>19, <2>1, <2>2 DEF RebuildClears, UpdateTypes, history, Left
<1>20. CASE RebuildRuns
  <2>1. /\ tag' = tag /\ ctr' \in Container /\ ids' \in Nat /\ disk' \in Dirs
        /\ left' \in Left
    BY <1>20, UpdateFields, TypesByDocker DEF RebuildRuns
  <2>2. registered' \in Nat
    BY <1>20, UpdateFields DEF RebuildRuns
  <2> QED BY <1>20, <2>1, <2>2, NoJobIsJob DEF RebuildRuns, UpdateTypes, history, Left
<1>21. CASE LaunchClears
  <2>1. /\ tag' = tag /\ ctr' \in Container /\ ids' \in Nat /\ disk' \in Dirs
        /\ left' \in Left
    BY <1>21, UpdateFields, TypesByDocker DEF LaunchClears
  <2> QED BY <1>21, <2>1 DEF LaunchClears, UpdateTypes, history, Left
<1>22. CASE LaunchRuns
  <2>1. /\ tag' = tag /\ ctr' \in Container /\ ids' \in Nat /\ disk' \in Dirs
        /\ left' \in Left
    BY <1>22, UpdateFields, TypesByDocker DEF LaunchRuns
  <2>2. registered' \in Nat /\ overtaken' \in BOOLEAN
    BY <1>22, UpdateFields DEF LaunchRuns
  <2> QED BY <1>22, <2>1, <2>2 DEF LaunchRuns, UpdateTypes, Left
<1>23. CASE Start
  BY <1>23 DEF Start, UpdateTypes, docker, history
<1>24. ASSUME Exits PROVE job' \in Job /\ disk' \in Dirs /\ kept' \subseteq Int
  BY <1>24, UpdateFields, SweptDirs, NoJobIsJob DEF Exits, Volume
<1>25. CASE Crash
  <2>1. left' \in Left
    BY <1>25, UpdateFields DEF Crash, Left
  <2> QED BY <1>24, <1>25, <2>1 DEF Crash, Exits, UpdateTypes, docker, history, Left
<1>26. CASE Quit
  <2>1. left' \in Left
    BY <1>26, UpdateFields DEF Quit, Left
  <2> QED BY <1>26, <2>1, NoJobIsJob DEF Quit, End, UpdateTypes, docker, Left
<1>27. CASE QuitStops
  <2>1. left' \in Left
    BY <1>27, UpdateFields, FaultIsLeft DEF QuitStops, Left
  <2>2. ctr' \in Container
    BY <1>27, UpdateFields DEF QuitStops, Container
  <2> QED BY <1>24, <1>27, <2>1, <2>2 DEF QuitStops, Exits, UpdateTypes, history, Left
<1>28. CASE UNCHANGED updateVars
  BY <1>28 DEF updateVars, UpdateTypes, docker, history
<1>29. CASE UpdateStep
  BY <1>29, <1>2, <1>3, <1>5, <1>6, <1>7, <1>8, <1>9, <1>10, <1>11, <1>12, <1>13,
     <1>14, <1>15, <1>16, <1>17 DEF UpdateStep
<1>30. CASE UpdateNext
  <2>1. \A v \in Version : v \in Nat
    BY DEF Version
  <2> QED BY <2>1, <1>1, <1>4, <1>18, <1>19, <1>20, <1>21, <1>22, <1>23, <1>25,
             <1>26, <1>27, <1>29, <1>30 DEF UpdateNext
<1> QED BY <1>28, <1>30

-----------------------------------------------------------------------------
(* Containers: the one the update has made holds the name until the end.   *)

Committing == {"poll", "repoll", "rotate", "register"}

IdsInv ==
    /\ ctr.id <= ids /\ registered <= ids /\ job.new <= ids /\ job.old <= ids
    /\ job.pc \in Committing =>
          ctr.id = job.new /\ job.new # 0 /\ registered # job.new

\* Docker runs nothing while the name is taken, and removes what it is told to.
LEMMA IdsByDocker ==
    ASSUME UpdateTypes, ctr.id <= ids, NEW v \in Nat, NEW i \in Nat,
           Run(v) \/ RunFails(v) \/ RemoveIfExists(i)
    PROVE  /\ ids <= ids' /\ ctr'.id <= ids'
           /\ ctr.id # 0 /\ (ctr.id = i => ~RemoveIfExists(i)) => ctr'.id = ctr.id
<1>1. ids \in Nat /\ ctr.id \in Nat
  BY UpdateFields
<1>2. CASE Run(v)
  BY <1>1, <1>2, RunFacts
<1>3. CASE RunFails(v)
  BY <1>1, <1>3, RunFailsFacts
<1>4. CASE RemoveIfExists(i)
  BY <1>1, <1>4, RemoveFacts DEF NoContainer
<1> QED BY <1>2, <1>3, <1>4

LEMMA StepIds ==
    ASSUME UpdateTypes, IdsInv, [UpdateNext]_updateVars
    PROVE  IdsInv'
<1> USE DEF IdsInv, Committing
<1>0. /\ ids \in Nat /\ ctr.id \in Nat /\ registered \in Nat
      /\ job.new \in Nat /\ job.old \in Nat /\ ctr.id <= ids
  BY UpdateFields
<1>1. ASSUME NEW v \in Nat, NEW b \in BOOLEAN, Begin(v, b) PROVE IdsInv'
  <2>1. /\ job'.new = 0 /\ job'.pc \in {"backup", "pull"}
        /\ job'.old = registered
    BY <1>1, NoJobIsJob, UpdateFields DEF Begin, NoJob
  <2> QED BY <1>0, <1>1, <2>1 DEF Begin, docker
<1>2. ASSUME job' = NoJob, ctr' = ctr, ids' = ids, registered' = registered
      PROVE  IdsInv'
  BY <1>0, <1>2, NoJobIsJob
<1>3. ASSUME NEW pc \in Step \ Committing, Goto(pc), ctr' = ctr, ids' = ids,
             registered' = registered
      PROVE  IdsInv'
  BY <1>0, <1>3, UpdateFields, JobMoves
<1>4. CASE Backup
  <2>1. CASE job' = [job EXCEPT !.pc = "pull", !.backup = MaxUpdates - left.updates]
    <3>1. job'.pc = "pull" /\ job'.new = job.new /\ job'.old = job.old
      BY <2>1, UpdateFields DEF Job
    <3> QED BY <1>0, <1>4, <3>1 DEF Backup, docker
  <2>2. CASE End("failed")
    BY <1>2, <1>4, <2>2, JobEnds DEF Backup, docker
  <2> QED BY <1>4, <2>1, <2>2 DEF Backup
<1>5. CASE Pull
  BY <1>2, <1>3, <1>5, JobEnds, StepNames DEF Pull, docker
<1>6. CASE Confirm
  BY <1>3, <1>6, StepNames DEF Confirm, docker
<1>7. CASE Stop
  <2>1. ctr'.id = ctr.id /\ ids' = ids /\ registered' = registered
    BY <1>7, UpdateFields DEF Stop, Container
  <2>2. job'.new = job.new /\ job'.old = job.old /\ job'.pc \notin Committing
    BY <1>7, UpdateFields, JobMoves, StepNames DEF Stop
  <2> QED BY <1>0, <2>1, <2>2
<1>8. CASE Anchor
  BY <1>3, <1>8, StepNames DEF Anchor
<1>9. CASE Swap
  BY <1>3, <1>9, StepNames DEF Swap
<1>10. CASE Clear
  <2>1. job'.new = job.new /\ job'.old = job.old /\ job'.pc \notin Committing
    BY <1>10, UpdateFields, JobMoves, StepNames DEF Clear
  <2>2. ctr'.id <= ids' /\ ids <= ids' /\ ids' \in Nat /\ registered' = registered
    BY <1>0, <1>10, UpdateFields, IdsByDocker, TypesByDocker DEF Clear
  <2> QED BY <1>0, <2>1, <2>2
<1>11. CASE Recreate
  <2>1. CASE Run(tag.latest) /\
             job' = [job EXCEPT !.pc = IF @ = "run" THEN "poll" ELSE "repoll",
                                !.new = ids + 1]
    <3>2. job'.new = ids + 1 /\ job'.old = job.old
      BY <2>1, UpdateFields DEF Job
    <3>3. ids' = ids + 1 /\ ctr'.id = ids' /\ registered' = registered
      BY <1>11, <2>1, UpdateFields, RunFacts DEF Recreate
    <3> QED BY <1>0, <3>2, <3>3
  <2>2. CASE RunFails(tag.latest) /\
             job' = [job EXCEPT !.pc = IF @ = "run" THEN "tearDown" ELSE "failed"]
    <3>1. job'.new = job.new /\ job'.old = job.old /\ job'.pc \notin Committing
      BY <2>2, UpdateFields DEF Job
    <3>2. ids <= ids' /\ ctr'.id <= ids' /\ ids' \in Nat /\ registered' = registered
      BY <1>0, <1>11, <2>2, UpdateFields, IdsByDocker, TypesByDocker DEF Recreate
    <3> QED BY <1>0, <3>1, <3>2
  <2> QED BY <1>11, <2>1, <2>2 DEF Recreate
<1>12. CASE Poll
  <2>1. job'.new = job.new /\ job'.old = job.old /\ job.pc \in Committing
    BY <1>12, UpdateFields, JobMoves, StepNames DEF Poll
  <2> QED BY <1>0, <1>12, <2>1 DEF Poll, docker
<1>13. CASE Rotate
  <2>1. job'.new = job.new /\ job'.old = job.old /\ job.pc \in Committing
    BY <1>13, UpdateFields, JobMoves, StepNames DEF Rotate
  <2> QED BY <1>0, <1>13, <2>1 DEF Rotate, docker
<1>14. CASE Register
  BY <1>0, <1>14, NoJobIsJob DEF Register, End, docker
<1>15. CASE TearDown
  <2>1. job'.new = job.new /\ job'.old = job.old /\ job'.pc \notin Committing
    BY <1>15, UpdateFields DEF TearDown, Job
  <2>2. ctr'.id <= ids' /\ ids <= ids' /\ ids' \in Nat /\ registered' = registered
    BY <1>0, <1>15, TearDownFacts DEF TearDown
  <2> QED BY <1>0, <2>1, <2>2
<1>16. CASE Retag
  <2>1. \E pc \in {"reclear", "stashData", "failed"} : Goto(pc)
    BY <1>16 DEF Retag
  <2> QED BY <1>3, <1>16, <2>1, StepNames DEF Retag
<1>17. CASE Restore
  <2>1. job'.new = job.new /\ job'.old = job.old /\ job'.pc \notin Committing
    BY <1>17, RestoreMoves DEF Continues, Follows
  <2> QED BY <1>0, <1>17, <2>1 DEF Restore, docker
<1>18. CASE Undo
  <2>1. job'.new = job.new /\ job'.old = job.old /\ job'.pc \notin Committing
    BY <1>18, UndoMoves DEF Continues, Undoes
  <2> QED BY <1>0, <1>18, <2>1 DEF Undo, docker
<1>19. CASE RollbackFails
  BY <1>2, <1>19, JobEnds DEF RollbackFails, docker
<1>20. CASE BeginRebuild
  <2>1. job'.new = 0 /\ job'.pc = "rebuild" /\ job'.old = registered
    BY <1>20 DEF BeginRebuild, NoJob
  <2> QED BY <1>0, <1>20, <2>1 DEF BeginRebuild, docker
<1>21. CASE RebuildClears
  <2>1. job'.new = job.new /\ job'.old = job.old /\ job'.pc \notin Committing
    BY <1>21, UpdateFields, JobMoves, StepNames DEF RebuildClears
  <2>2. ctr'.id <= ids' /\ ids <= ids' /\ ids' \in Nat /\ registered' = registered
    BY <1>0, <1>21, UpdateFields, IdsByDocker, TypesByDocker DEF RebuildClears
  <2> QED BY <1>0, <2>1, <2>2
<1>22. CASE RebuildRuns
  <2>1. ctr'.id <= ids' /\ ids <= ids' /\ ids' \in Nat
    BY <1>0, <1>22, UpdateFields, IdsByDocker, TypesByDocker DEF RebuildRuns
  <2>2. registered' = registered \/ (registered' = ids + 1 /\ ids' = ids + 1)
    BY <1>22, UpdateFields, RunFacts DEF RebuildRuns
  <2> QED BY <1>0, <1>22, <2>1, <2>2, NoJobIsJob DEF RebuildRuns
<1>23. CASE LaunchClears
  <2>1. /\ ctr'.id <= ids' /\ ids <= ids' /\ ids' \in Nat /\ registered' = registered
        /\ ctr.id # 0 /\ ctr.id # registered => ctr'.id = ctr.id
    BY <1>0, <1>23, UpdateFields, IdsByDocker, TypesByDocker DEF LaunchClears
  <2> QED BY <1>0, <1>23, <2>1 DEF LaunchClears
<1>24. CASE LaunchRuns
  <2>1. CASE Run(tag.latest) /\ registered' = ids + 1
    <3>1. ids' = ids + 1 /\ ctr'.id = ids' /\ ctr.id = 0
      BY <2>1, UpdateFields, RunFacts
    <3> QED BY <1>0, <1>24, <2>1, <3>1 DEF LaunchRuns
  <2>2. CASE RunFails(tag.latest) /\ registered' = registered
    <3>1. /\ ctr'.id <= ids' /\ ids <= ids' /\ ids' \in Nat
          /\ ctr.id # 0 => ctr'.id = ctr.id
      BY <1>0, <2>2, UpdateFields, RunFailsFacts
    <3> QED BY <1>0, <1>24, <2>2, <3>1 DEF LaunchRuns
  <2> QED BY <1>24, <2>1, <2>2 DEF LaunchRuns
<1>25. CASE Start
  BY <1>0, <1>25 DEF Start, docker
<1>26. CASE Crash
  BY <1>2, <1>26 DEF Crash, Exits, docker
<1>27. CASE Quit
  <2>1. CASE End("failed")
    BY <1>2, <1>27, <2>1, JobEnds DEF Quit, docker
  <2>2. CASE job' = job
    BY <1>0, <1>27, <2>2 DEF Quit, docker
  <2> QED BY <1>27, <2>1, <2>2 DEF Quit
<1>28. CASE QuitStops
  <2>1. ctr'.id = ctr.id
    BY <1>28, UpdateFields DEF QuitStops, Container
  <2> QED BY <1>0, <1>28, <2>1, NoJobIsJob DEF QuitStops, Exits
<1>29. CASE UNCHANGED updateVars
  BY <1>0, <1>29 DEF updateVars, docker
<1>30. CASE UpdateStep
  BY <1>30, <1>4, <1>5, <1>7, <1>8, <1>9, <1>10, <1>11, <1>12, <1>13, <1>14, <1>15,
     <1>16, <1>17, <1>18, <1>19 DEF UpdateStep
<1>31. CASE UpdateNext
  <2>1. \A v \in Version : v \in Nat
    BY DEF Version
  <2> QED BY <2>1, <1>1, <1>6, <1>20, <1>21, <1>22, <1>23, <1>24, <1>25,
             <1>26, <1>27, <1>28, <1>30, <1>31 DEF UpdateNext
<1> QED BY <1>29, <1>31

-----------------------------------------------------------------------------
(* Images: what is tagged and what runs, on the way up and on the way down. *)

VersionsInv ==
    /\ job.pc \in Upward \cup Untagged => ~job.rollback
    /\ job.pc \in Downward \cup ForwardSteps \cup UndoSteps => job.rollback
    /\ job.pc \in {"clear", "run"} => tag.latest = job.target
    /\ job.pc \in {"poll", "rotate", "register"} /\ ~job.rollback =>
          ctr.image = job.target
    /\ job.pc \in {"backup", "pull", "gate", "stop", "anchor"} => ~anchored
    /\ job.pc \notin Untagged /\ anchored => tag.previous = job.from
    /\ job.pc \in {"reclear", "rerun"} \cup ForwardSteps /\ anchored =>
          tag.latest = job.from
    /\ job.pc \in {"repoll", "register"} /\ job.rollback /\ anchored =>
          ctr.image = job.from

\* What others do to the container that an update has made: nothing.
LEMMA CommittedStays ==
    ASSUME UpdateTypes, IdsInv, job.pc \in Committing, LaunchClears \/ LaunchRuns
    PROVE  ctr' = ctr /\ ids' = ids /\ disk' = disk
<1>1. ctr.id # 0 /\ ctr.id # registered
  BY DEF IdsInv
<1>2. CASE LaunchClears
  BY <1>1, <1>2, UpdateFields, RemoveFacts DEF LaunchClears
<1>3. CASE LaunchRuns
  BY <1>1, <1>3, UpdateFields, RunFacts, RunFailsFacts DEF LaunchRuns
<1> QED BY <1>2, <1>3

LEMMA StepVersions ==
    ASSUME UpdateTypes, IdsInv, VersionsInv, [UpdateNext]_updateVars
    PROVE  VersionsInv'
<1> USE DEF VersionsInv, Upward, Untagged, Downward, ForwardSteps, UndoSteps
<1>0. /\ tag \in [latest : Nat, previous : Nat] /\ job \in Job /\ ctr \in Container
      /\ anchored \in BOOLEAN
  BY UpdateFields DEF UpdateTypes
<1>1. ASSUME NEW v \in Nat, NEW b \in BOOLEAN, Begin(v, b) PROVE VersionsInv'
  <2>1. ~job'.rollback /\ job'.pc \in {"backup", "pull"} /\ ~anchored'
    BY <1>1 DEF Begin, NoJob
  <2> QED BY <2>1
<1>2. ASSUME job' = NoJob PROVE VersionsInv'
  BY <1>2, NoJobIsJob
<1>3. CASE Backup
  <2>1. CASE job' = [job EXCEPT !.pc = "pull", !.backup = MaxUpdates - left.updates]
    <3>1. job'.pc = "pull" /\ job'.rollback = job.rollback
      BY <1>0, <2>1 DEF Job
    <3> QED BY <1>3, <3>1 DEF Backup
  <2> QED BY <1>2, <1>3, <2>1, JobEnds DEF Backup
<1>4. CASE Pull
  <2>1. CASE Goto("gate")
    BY <1>0, <1>4, <2>1, JobMoves, StepNames DEF Pull
  <2> QED BY <1>2, <1>4, <2>1, JobEnds DEF Pull
<1>5. CASE Confirm
  BY <1>0, <1>5, JobMoves, StepNames DEF Confirm, history
<1>6. CASE Stop
  <2>1. /\ job'.rollback = job.rollback
        /\ job'.pc \in {"anchor", "tearDown"}
    BY <1>0, <1>6, JobMoves, StepNames DEF Stop
  <2> QED BY <1>6, <2>1 DEF Stop, history
<1>7. CASE Anchor
  <2>1. /\ job'.rollback = job.rollback /\ job'.from = job.from
        /\ job'.pc \in {"swap", "tearDown"}
    BY <1>0, <1>7, JobMoves, StepNames DEF Anchor
  <2>2. anchored' => tag'.previous = job.from
    BY <1>0, <1>7 DEF Anchor
  <2> QED BY <1>7, <2>1, <2>2 DEF Anchor
<1>8. CASE Swap
  <2>1. /\ job'.rollback = job.rollback /\ job'.from = job.from
        /\ job'.target = job.target /\ anchored' = anchored
        /\ tag'.previous = tag.previous
        /\ \/ job'.pc = "clear" /\ tag'.latest = job.target
           \/ job'.pc = "tearDown"
    BY <1>0, <1>8, JobMoves, StepNames DEF Swap, history
  <2> QED BY <1>8, <2>1 DEF Swap
<1>9. CASE Clear
  <2>1. /\ job'.rollback = job.rollback /\ job'.from = job.from
        /\ job'.target = job.target /\ tag' = tag /\ anchored' = anchored
        /\ \/ job.pc = "clear" /\ job'.pc = "run"
           \/ job.pc = "reclear" /\ job'.pc = "rerun"
    BY <1>0, <1>9, UpdateFields, JobMoves, StepNames, RemoveFacts DEF Clear, history
  <2> QED BY <2>1
<1>10. CASE Recreate
  <2>1. CASE Run(tag.latest) /\
             job' = [job EXCEPT !.pc = IF @ = "run" THEN "poll" ELSE "repoll",
                                !.new = ids + 1]
    <3>1. /\ job'.rollback = job.rollback /\ job'.from = job.from
          /\ job'.target = job.target
          /\ job'.pc = IF job.pc = "run" THEN "poll" ELSE "repoll"
      BY <1>0, <2>1 DEF Job
    <3>2. ctr'.image = tag.latest /\ tag' = tag /\ anchored' = anchored
          /\ job.pc \in {"run", "rerun"}
      BY <1>10, <2>1, UpdateFields, RunFacts DEF Recreate, history
    <3> QED BY <3>1, <3>2
  <2>2. CASE RunFails(tag.latest) /\
             job' = [job EXCEPT !.pc = IF @ = "run" THEN "tearDown" ELSE "failed"]
    <3>1. /\ job'.rollback = job.rollback /\ job'.from = job.from
          /\ job'.pc = IF job.pc = "run" THEN "tearDown" ELSE "failed"
      BY <1>0, <2>2 DEF Job
    <3>2. tag' = tag /\ anchored' = anchored /\ job.pc \in {"run", "rerun"}
      BY <1>10, <2>2 DEF Recreate, history, RunFails
    <3> QED BY <3>1, <3>2
  <2> QED BY <1>10, <2>1, <2>2 DEF Recreate
<1>11. CASE Poll
  <2>1. /\ job'.rollback = job.rollback /\ job'.from = job.from
        /\ job'.target = job.target
        /\ \/ job.pc = "poll" /\ job'.pc \in {"rotate", "tearDown"}
           \/ job.pc = "repoll" /\ job'.pc \in {"register", "failed"}
    BY <1>0, <1>11, JobMoves, StepNames DEF Poll
  <2>2. tag' = tag /\ ctr' = ctr /\ anchored' = anchored
    BY <1>11 DEF Poll, docker, history
  <2> QED BY <2>1, <2>2
<1>12. CASE Rotate
  <2>1. /\ job'.rollback = job.rollback /\ job'.from = job.from
        /\ job'.target = job.target /\ job.pc = "rotate" /\ job'.pc = "register"
    BY <1>0, <1>12, JobMoves, StepNames DEF Rotate
  <2> QED BY <1>12, <2>1 DEF Rotate, docker, history
<1>13. CASE Register
  BY <1>2, <1>13, JobEnds DEF Register
<1>14. CASE TearDown
  <2>1. /\ job'.rollback /\ job'.from = job.from /\ job'.pc = "retag"
        /\ job.pc = "tearDown"
    BY <1>0, <1>14 DEF TearDown, Job
  <2>2. tag' = tag /\ anchored' = anchored
    BY <1>14, TearDownFacts DEF TearDown, history
  <2> QED BY <2>1, <2>2
<1>15. CASE Retag
  <2>1. /\ job'.rollback = job.rollback /\ job'.from = job.from
        /\ job.pc = "retag" /\ anchored' = anchored
        /\ tag'.previous = tag.previous
        /\ \/ job'.pc \in {"reclear", "stashData"} /\ tag'.latest = tag.previous
           \/ job'.pc = "failed"
    BY <1>0, <1>15, JobMoves, StepNames DEF Retag
  <2> QED BY <2>1
<1>16. CASE Restore
  <2>1. /\ job'.rollback = job.rollback /\ job'.from = job.from
        /\ job.pc \in ForwardSteps
        /\ job'.pc \in ForwardSteps \cup {"reclear", "clearData"}
    BY <1>16, RestoreMoves DEF Continues, Follows
  <2> QED BY <1>16, <2>1 DEF Restore, docker, history
<1>17. CASE Undo
  <2>1. /\ job'.rollback = job.rollback /\ job'.from = job.from
        /\ job.pc \in UndoSteps
        /\ job'.pc \in UndoSteps \cup {"failed"}
    BY <1>17, UndoMoves DEF Continues, Undoes
  <2> QED BY <1>17, <2>1 DEF Undo, docker, history
<1>18. CASE RollbackFails
  BY <1>2, <1>18, JobEnds DEF RollbackFails
<1>19. CASE BeginRebuild
  <2>1. ~job'.rollback /\ job'.pc = "rebuild"
    BY <1>19 DEF BeginRebuild, NoJob
  <2> QED BY <2>1
<1>20. CASE RebuildClears
  <2>1. /\ job'.rollback = job.rollback /\ job.pc = "rebuild"
        /\ job'.pc = "rebuildRun"
    BY <1>0, <1>20, JobMoves, StepNames DEF RebuildClears
  <2> QED BY <2>1
<1>21. CASE RebuildRuns
  BY <1>2, <1>21 DEF RebuildRuns
<1>22. CASE LaunchClears \/ LaunchRuns
  <2>1. tag' = tag /\ job' = job /\ anchored' = anchored
    BY <1>22, UpdateFields, RemoveFacts, RunFacts, RunFailsFacts
       DEF LaunchClears, LaunchRuns, history
  <2>2. job.pc \in Committing => ctr' = ctr
    BY <1>22, CommittedStays
  <2> QED BY <2>1, <2>2 DEF Committing
<1>23. CASE Start
  BY <1>23 DEF Start, docker, history
<1>24. CASE Crash \/ QuitStops
  BY <1>2, <1>24 DEF Crash, QuitStops, Exits
<1>25. CASE Quit
  <2>1. CASE job' = job
    BY <1>25, <2>1 DEF Quit, docker
  <2> QED BY <1>2, <1>25, <2>1, JobEnds DEF Quit
<1>26. CASE UNCHANGED updateVars
  BY <1>26 DEF updateVars, docker, history
<1>27. CASE UpdateStep
  BY <1>27, <1>3, <1>4, <1>6, <1>7, <1>8, <1>9, <1>10, <1>11, <1>12, <1>13, <1>14,
     <1>15, <1>16, <1>17, <1>18 DEF UpdateStep
<1>28. CASE UpdateNext
  <2>1. \A v \in Version : v \in Nat
    BY DEF Version
  <2> QED BY <2>1, <1>1, <1>5, <1>19, <1>20, <1>21, <1>22, <1>23, <1>24, <1>25,
             <1>27, <1>28 DEF UpdateNext
<1> QED BY <1>26, <1>28

-----------------------------------------------------------------------------
(* The restore: what the volume holds at each of its steps, unless a launch *)
(* runs a container on it.                                                 *)

\* The app that is down does nothing.
DownInv == app = "down" => job.pc = "idle"

\* From the first step of a restore until the outcome is known.
Rolling == ForwardSteps \cup UndoSteps
             \cup {"reclear", "rerun", "repoll", "register"}

volumeVars == <<job, ctr, disk, launch, before, broken, overtaken>>

\* The steps that lead into the rollback or on in it, and those that leave its
\* variables alone. Whatever else happens, the job is elsewhere afterwards.
LEMMA RollbackSteps ==
    ASSUME UpdateTypes, VersionsInv, DownInv, [UpdateNext]_updateVars
    PROVE  \/ Retag \/ Restore \/ Undo
           \/ Clear /\ job.pc = "reclear"
           \/ Recreate /\ job.pc = "rerun"
           \/ Poll /\ job.pc = "repoll"
           \/ LaunchClears \/ LaunchRuns
           \/ job'.pc \in Rolling /\ UNCHANGED volumeVars
           \/ job'.pc = "register" /\ ~job'.rollback
           \/ job'.pc \notin Rolling
<1> USE DEF Rolling, ForwardSteps, UndoSteps
<1>0. job \in Job
  BY UpdateFields
<1>1. ASSUME NEW v \in Nat, NEW b \in BOOLEAN, Begin(v, b) PROVE job'.pc \notin Rolling
  BY <1>1 DEF Begin, NoJob
<1>2. ASSUME job' = NoJob PROVE job'.pc \notin Rolling
  BY <1>2, NoJobIsJob
<1>3. CASE Backup
  <2>1. CASE job' = [job EXCEPT !.pc = "pull", !.backup = MaxUpdates - left.updates]
    BY <1>0, <2>1 DEF Job
  <2> QED BY <1>2, <1>3, <2>1, JobEnds DEF Backup
<1>4. CASE Pull \/ Confirm \/ Stop \/ Anchor \/ Swap
  <2>1. \/ \E pc \in {"gate", "stop", "anchor", "tearDown", "swap", "clear"} : Goto(pc)
        \/ End("failed")
    BY <1>4 DEF Pull, Confirm, Stop, Anchor, Swap
  <2> QED BY <1>0, <1>2, <2>1, JobEnds, JobMoves, StepNames
<1>5. CASE Clear /\ job.pc # "reclear"
  BY <1>0, <1>5, JobMoves, StepNames DEF Clear
<1>6. CASE Recreate /\ job.pc # "rerun"
  <2>1. job.pc = "run"
    BY <1>6 DEF Recreate
  <2>2. CASE job' = [job EXCEPT !.pc = IF @ = "run" THEN "poll" ELSE "repoll",
                                !.new = ids + 1]
    <3>1. job'.pc = IF job.pc = "run" THEN "poll" ELSE "repoll"
      BY <1>0, <2>2 DEF Job
    <3> QED BY <2>1, <3>1
  <2>3. CASE job' = [job EXCEPT !.pc = IF @ = "run" THEN "tearDown" ELSE "failed"]
    <3>1. job'.pc = IF job.pc = "run" THEN "tearDown" ELSE "failed"
      BY <1>0, <2>3 DEF Job
    <3> QED BY <2>1, <3>1
  <2> QED BY <1>6, <2>2, <2>3 DEF Recreate
<1>7. CASE Poll /\ job.pc # "repoll"
  BY <1>0, <1>7, JobMoves, StepNames DEF Poll
<1>8. CASE Rotate
  <2>1. job'.pc = "register" /\ job'.rollback = job.rollback /\ job.pc = "rotate"
    BY <1>0, <1>8, JobMoves, StepNames DEF Rotate
  <2> QED BY <2>1 DEF VersionsInv, Upward
<1>9. CASE Register \/ RollbackFails \/ RebuildRuns
  BY <1>2, <1>9, JobEnds DEF Register, RollbackFails, RebuildRuns
<1>10. CASE TearDown
  BY <1>0, <1>10 DEF TearDown, Job
<1>11. CASE BeginRebuild
  BY <1>11 DEF BeginRebuild, NoJob
<1>12. CASE RebuildClears
  BY <1>0, <1>12, JobMoves, StepNames DEF RebuildClears
<1>13. CASE Start
  BY <1>13 DEF Start, DownInv
<1>14. CASE Crash \/ QuitStops
  BY <1>2, <1>14 DEF Crash, QuitStops, Exits
<1>15. CASE Quit
  BY <1>2, <1>15, JobEnds DEF Quit, docker, volumeVars
<1>16. CASE UNCHANGED updateVars
  BY <1>16 DEF updateVars, docker, history, volumeVars
<1>17. CASE UpdateStep
  BY <1>17, <1>3, <1>4, <1>5, <1>6, <1>7, <1>8, <1>9, <1>10 DEF UpdateStep
<1>18. CASE UpdateNext
  <2>1. \A v \in Version : v \in Nat
    BY DEF Version
  <2> QED BY <2>1, <1>1, <1>4, <1>9, <1>11, <1>12, <1>13, <1>14, <1>15, <1>17, <1>18
          DEF UpdateNext
<1> QED BY <1>16, <1>18

LEMMA StepDown ==
    ASSUME UpdateTypes, DownInv, [UpdateNext]_updateVars
    PROVE  DownInv'
<1> USE DEF DownInv
<1>1. CASE app' = "down" /\ app # "down"
  BY <1>1, NoJobIsJob DEF UpdateNext, UpdateStep, Begin, Confirm, Backup, Pull, Stop,
     Anchor, Swap, Clear, Recreate, Poll, Rotate, Register, TearDown, Retag, Restore,
     Undo, RollbackFails, BeginRebuild, RebuildClears, RebuildRuns, LaunchClears,
     LaunchRuns, Start, Crash, Quit, QuitStops, Exits, updateVars
<1>2. CASE app = "down" /\ app' = "down"
  <2>1. job.pc \notin ForwardSteps \cup UndoSteps
    BY <1>2 DEF ForwardSteps, UndoSteps
  <2>2. ~Restore /\ ~Undo
    BY <2>1, RestoreMoves, UndoMoves
  <2>3. job' = job \/ job' = NoJob
    BY <1>2, <2>2 DEF UpdateNext, UpdateStep, Begin, Confirm, Backup, Pull, Stop,
       Anchor, Swap, Clear, Recreate, Poll, Rotate, Register, TearDown, Retag,
       RollbackFails, BeginRebuild, RebuildClears, RebuildRuns, LaunchClears,
       LaunchRuns, Start, Crash, Quit, QuitStops, Exits, updateVars
  <2> QED BY <1>2, <2>3, NoJobIsJob
<1>3. CASE app' # "down"
  BY <1>3
<1> QED BY <1>1, <1>2, <1>3

\* A launch on the volume: it leaves it alone, or it runs a container on it.
LEMMA LaunchFacts ==
    ASSUME UpdateTypes, LaunchClears \/ LaunchRuns
    PROVE  /\ UNCHANGED <<job, tag, before, broken, kept, anchored, outcome>>
           /\ overtaken => overtaken'
           /\ \/ /\ UNCHANGED <<disk, ids, overtaken>>
                 /\ \/ ctr' = ctr
                    \/ launch = "pending" /\ ctr.id = registered /\ ctr'.id = 0
              \/ /\ launch' = "done" /\ ctr.id = 0 /\ ids' = ids + 1 /\ ctr'.id = ids'
                 /\ disk' = disk \/ disk' = Opened(disk, tag.latest)
                 /\ overtaken' <=>
                      (overtaken \/ job.pc \in ForwardSteps \cup UndoSteps)
<1>1. /\ ids \in Nat /\ tag.latest \in Nat /\ registered \in Nat
      /\ overtaken \in BOOLEAN
  BY UpdateFields DEF UpdateTypes
<1>2. Restoring <=> job.pc \in ForwardSteps \cup UndoSteps
  BY ForwardTable, UndoTable DEF Restoring
<1>3. CASE LaunchClears
  BY <1>1, <1>3, RemoveFacts DEF LaunchClears, history, NoContainer
<1>4. CASE LaunchRuns
  <2>1. /\ UNCHANGED <<job, before, broken, kept, anchored, outcome>>
        /\ launch' = "done"
        /\ overtaken' = (overtaken \/ (ids' # ids /\ Restoring))
        /\ Run(tag.latest) \/ RunFails(tag.latest)
    BY <1>4 DEF LaunchRuns
  <2>2. ids + 1 # ids
    BY <1>1
  <2>3. (ids' # ids) => (overtaken' <=> (overtaken \/ Restoring))
    BY <1>1, <2>1, Zenon
  <2>4. (ids' = ids) => (overtaken' <=> overtaken)
    BY <1>1, <2>1, Zenon
  <2>5. overtaken => overtaken'
    BY <2>1, Zenon
  <2>6. overtaken' \in BOOLEAN
    BY <1>1, <2>1
  <2>7. \/ /\ ctr.id = 0 /\ ids' = ids + 1 /\ ctr'.id = ids'
           /\ disk' = disk \/ disk' = Opened(disk, tag.latest)
        \/ ctr' = ctr /\ ids' = ids /\ disk' = disk
    BY <1>1, <2>1, RunFacts, RunFailsFacts
  <2>8. tag' = tag
    BY <1>1, <2>1, RunFacts, RunFailsFacts
  <2>9. CASE ids' = ids + 1
    <3>1. overtaken' <=> (overtaken \/ job.pc \in ForwardSteps \cup UndoSteps)
      BY <1>2, <2>2, <2>3, <2>9
    <3> QED BY <2>1, <2>2, <2>5, <2>7, <2>8, <2>9, <3>1
  <2>10. CASE ids' = ids
    <3>1. overtaken' = overtaken
      BY <1>1, <2>4, <2>6, <2>10
    <3> QED BY <2>1, <2>2, <2>5, <2>7, <2>8, <2>10, <3>1
  <2> QED BY <2>7, <2>9, <2>10
<1> QED BY <1>3, <1>4

\* A container that starts finds the backups where they were.
LEMMA LaunchKeepsBackups ==
    ASSUME UpdateTypes, LaunchClears \/ LaunchRuns, job.backup # 0
    PROVE  /\ Holds(disk.config) => Holds(disk.config)'
           /\ Holds(disk.configStash) => Holds(disk.configStash)'
<1>1. job' = job /\ (disk' = disk \/ disk' = Opened(disk, tag.latest))
  BY LaunchFacts
<1>2. CASE disk' = Opened(disk, tag.latest)
  <2>1. /\ disk'.configStash = disk.configStash
        /\ disk'.config = disk.config \/ disk.config = NoDir
    BY <1>2, UpdateFields, OpenedDirs
  <2>2. Holds(disk.config) => disk.config # NoDir
    BY Contents DEF Holds
  <2> QED BY <1>1, <2>1, <2>2 DEF Holds
<1> QED BY <1>1, <1>2 DEF Holds

RestoreBreaks ==
    /\ job'.pc = "clearData" /\ broken' = broken \cup {job.pc}
    /\ disk'.config = disk.config
    /\ disk'.configStash = disk.configStash \/ disk'.configStash = {}
    /\ job.pc \notin Unsafe =>
         Volume(disk', disk'.data, disk.config, disk.dataStash, disk.configStash)

LEMMA BrokenForward ==
    ASSUME disk \in Dirs, job.pc \in ForwardSteps, disk' = Broken(job.pc),
           job'.pc = "clearData", broken' = broken \cup {job.pc}
    PROVE  RestoreBreaks
<1>1. CASE job.pc \in Copies
  <2> DEFINE x == IF disk.data = Missing THEN Torn ELSE Spoiled
  <2>1. disk' = disk \/ disk' = [disk EXCEPT !.data = x]
    BY <1>1 DEF Broken, Copies
  <2>2. x \in Int
    BY Contents
  <2> HIDE DEF x
  <2>3. Volume([disk EXCEPT !.data = x], x, disk.config, disk.dataStash,
               disk.configStash)
    BY <2>2, DirsWith, DirsFields
  <2>4. Volume(disk', disk'.data, disk.config, disk.dataStash, disk.configStash)
    BY <2>1, <2>3, DirsFields DEF Volume
  <2> QED BY <2>4 DEF Volume, RestoreBreaks
<1>2. CASE job.pc \in {"stashData", "stashConfig", "moveBackups"}
  <2>1. disk' = disk
    BY <1>2 DEF Broken
  <2>2. Volume(disk', disk'.data, disk.config, disk.dataStash, disk.configStash)
    BY <2>1, DirsFields
  <2> QED BY <2>2 DEF Volume, RestoreBreaks
<1>3. CASE job.pc \in {"dropData", "dropConfig"}
  <2>1. \/ disk' = [disk EXCEPT !.dataStash = Torn]
        \/ disk' = [disk EXCEPT !.configStash = {}]
    BY <1>3 DEF Broken
  <2>2. /\ Volume([disk EXCEPT !.dataStash = Torn], disk.data, disk.config, Torn,
                  disk.configStash)
        /\ Volume([disk EXCEPT !.configStash = {}], disk.data, disk.config,
                  disk.dataStash, {})
    BY Contents, DirsWith
  <2>3. /\ disk'.config = disk.config
        /\ disk'.configStash = disk.configStash \/ disk'.configStash = {}
    BY <2>1, <2>2 DEF Volume
  <2> QED BY <1>3, <2>3 DEF Unsafe, RestoreBreaks
<1> QED BY <1>1, <1>2, <1>3 DEF ForwardSteps, Copies

\* A step of a restore, in full. One that fails leaves what it copied to, or the
\* stash it was to remove, incomplete, and nothing else changed.
LEMMA RestoreEffects ==
    ASSUME UpdateTypes, Held, Restore
    PROVE  /\ job.pc \in ForwardSteps /\ Continues(job'.pc)
           /\ UNCHANGED <<tag, ctr, ids, kept, launch, before, overtaken, anchored>>
           /\ \/ /\ job.pc = "stashData" /\ job'.pc = "stashConfig"
                 /\ Volume(disk', Missing, disk.config, disk.data, disk.configStash)
              \/ /\ job.pc = "stashConfig" /\ job'.pc = "beginData"
                 /\ Volume(disk', disk.data, NoDir, disk.dataStash, disk.config)
              \/ /\ job.pc = "beginData" /\ job'.pc = "copyData"
                 /\ disk.data = Missing => disk'.data = Torn
                 /\ Volume(disk', disk'.data, disk.config, disk.dataStash,
                           disk.configStash)
              \/ /\ job.pc = "copyData" /\ job'.pc = "copyConfig"
                 /\ disk.data = Torn =>
                      \E b \in disk.configStash :
                         b.no = job.backup /\ disk'.data = b.data
                 /\ Volume(disk', disk'.data, disk.config, disk.dataStash,
                           disk.configStash)
              \/ /\ job.pc = "copyConfig" /\ job'.pc = "moveBackups"
                 /\ Volume(disk', disk.data,
                           IF disk.config = NoDir THEN {} ELSE disk.config,
                           disk.dataStash, disk.configStash)
              \/ /\ job.pc = "moveBackups" /\ job'.pc = "dropData"
                 /\ Volume(disk', disk.data, disk.configStash, disk.dataStash, {})
              \/ /\ job.pc = "dropData" /\ job'.pc = "dropConfig"
                 /\ Volume(disk', disk.data, disk.config, Missing, disk.configStash)
              \/ /\ job.pc = "dropConfig" /\ job'.pc = "reclear"
                 /\ Volume(disk', disk.data, disk.config, disk.dataStash, NoDir)
              \/ RestoreBreaks
           /\ broken' = broken \/ RestoreBreaks
<1>1. job.pc \in ForwardSteps
  BY RestoreMoves
<1>2. UNCHANGED <<tag, ctr, ids, kept, launch, before, overtaken, anchored>>
  BY DEF Restore, docker, history
<1>3. disk \in Dirs
  BY UpdateFields
<1>4. CASE /\ disk' = Broken(job.pc) /\ Continues("clearData")
           /\ broken' = broken \cup {job.pc}
  <2>1. job'.pc = "clearData" /\ Continues(job'.pc)
    BY <1>4 DEF Continues
  <2>2. RestoreBreaks
    BY <1>1, <1>3, <1>4, <2>1, BrokenForward
  <2> QED BY <1>1, <1>2, <2>1, <2>2
<1>5. ASSUME NEW next \in Step, Follows(job.pc, next), Continues(next),
             disk' = After(job.pc)
      PROVE  /\ job'.pc = next
             /\ \/ /\ job.pc = "stashData" /\ next = "stashConfig"
                   /\ Volume(disk', Missing, disk.config, disk.data,
                             disk.configStash)
                \/ /\ job.pc = "stashConfig" /\ next = "beginData"
                   /\ Volume(disk', disk.data, NoDir, disk.dataStash, disk.config)
                \/ /\ job.pc = "beginData" /\ next = "copyData"
                   /\ disk.data = Missing => disk'.data = Torn
                   /\ Volume(disk', disk'.data, disk.config, disk.dataStash,
                             disk.configStash)
                \/ /\ job.pc = "copyData" /\ next = "copyConfig"
                   /\ disk.data = Torn =>
                        \E b \in disk.configStash :
                           b.no = job.backup /\ disk'.data = b.data
                   /\ Volume(disk', disk'.data, disk.config, disk.dataStash,
                             disk.configStash)
                \/ /\ job.pc = "copyConfig" /\ next = "moveBackups"
                   /\ Volume(disk', disk.data,
                             IF disk.config = NoDir THEN {} ELSE disk.config,
                             disk.dataStash, disk.configStash)
                \/ /\ job.pc = "moveBackups" /\ next = "dropData"
                   /\ Volume(disk', disk.data, disk.configStash, disk.dataStash, {})
                \/ /\ job.pc = "dropData" /\ next = "dropConfig"
                   /\ Volume(disk', disk.data, disk.config, Missing,
                             disk.configStash)
                \/ /\ job.pc = "dropConfig" /\ next = "reclear"
                   /\ Volume(disk', disk.data, disk.config, disk.dataStash, NoDir)
  <2>1. job'.pc = next
    BY <1>5 DEF Continues
  <2>2. CASE job.pc = "beginData"
    <3>1. PICK x \in {Torn, Spoiled} :
             Volume(disk', x, disk.config, disk.dataStash, disk.configStash)
      BY <1>3, <1>5, <2>2, AfterForward
    <3>2. disk.data = Missing =>
             Volume(disk', Torn, disk.config, disk.dataStash, disk.configStash)
      BY <1>3, <1>5, <2>2, AfterForward
    <3> QED BY <1>5, <2>1, <2>2, <3>1, <3>2 DEF Volume, Follows
  <2>3. CASE job.pc = "copyData"
    <3>1. \E b \in disk.configStash : b.no = job.backup
      BY <2>3 DEF Held, Holds
    <3>2. PICK x \in Int :
             /\ disk.data = Torn => x = Snapshot.data
             /\ Volume(disk', x, disk.config, disk.dataStash, disk.configStash)
      BY <1>3, <1>5, <2>3, <3>1, AfterCopy
    <3>3. Snapshot \in disk.configStash /\ Snapshot.no = job.backup
      BY <1>3, <3>1, AfterCopy
    <3> QED BY <1>5, <2>1, <2>3, <3>2, <3>3 DEF Volume, Follows
  <2>4. CASE job.pc = "copyConfig"
    <3>1. Volume(disk', disk.data,
                 IF disk.config = NoDir THEN {} ELSE disk.config,
                 disk.dataStash, disk.configStash)
      BY <1>3, <1>5, <2>4, AfterForward
    <3> QED BY <1>5, <2>1, <2>4, <3>1 DEF Follows
  <2>5. CASE job.pc \in {"stashData", "stashConfig", "moveBackups", "dropData",
                         "dropConfig"}
    <3>1. /\ Volume(After("stashData"), Missing, disk.config, disk.data,
                    disk.configStash)
          /\ Volume(After("stashConfig"), disk.data, NoDir, disk.dataStash,
                    disk.config)
          /\ Volume(After("moveBackups"), disk.data, disk.configStash,
                    disk.dataStash, {})
          /\ Volume(After("dropData"), disk.data, disk.config, Missing,
                    disk.configStash)
          /\ Volume(After("dropConfig"), disk.data, disk.config, disk.dataStash,
                    NoDir)
      BY <1>3, AfterForward
    <3> QED BY <1>5, <2>1, <2>5, <3>1 DEF Follows
  <2> QED BY <1>1, <2>2, <2>3, <2>4, <2>5 DEF ForwardSteps
<1>6. CASE disk' = After(job.pc) /\ broken' = broken /\
             \E next \in Step : Follows(job.pc, next) /\ Continues(next)
  <2>1. PICK next \in Step : Follows(job.pc, next) /\ Continues(next)
    BY <1>6
  <2>2. Continues(job'.pc)
    BY <2>1 DEF Continues
  <2> QED BY <1>1, <1>2, <1>5, <1>6, <2>1, <2>2
<1>7. \/ /\ disk' = Broken(job.pc) /\ Continues("clearData")
         /\ broken' = broken \cup {job.pc}
      \/ /\ disk' = After(job.pc) /\ broken' = broken
         /\ \E next \in Step : Follows(job.pc, next) /\ Continues(next)
  BY RestoreMoves
<1> QED BY <1>4, <1>6, <1>7

\* The way back from a restore to a container of the prior version.
LEMMA BackSteps ==
    ASSUME UpdateTypes,
           \/ Clear /\ job.pc = "reclear"
           \/ Recreate /\ job.pc = "rerun"
           \/ Poll /\ job.pc = "repoll"
    PROVE  job'.pc \in {"rerun", "repoll", "failed", "register"}
<1>1. CASE Clear /\ job.pc = "reclear"
  BY <1>1, GotoContinues, StepNames DEF Clear, Continues
<1>2. CASE Recreate /\ job.pc = "rerun"
  <2>1. job \in Job
    BY UpdateFields
  <2>2. CASE job' = [job EXCEPT !.pc = IF @ = "run" THEN "poll" ELSE "repoll",
                                !.new = ids + 1]
    <3>1. job'.pc = IF job.pc = "run" THEN "poll" ELSE "repoll"
      BY <2>1, <2>2 DEF Job
    <3> QED BY <1>2, <3>1
  <2>3. CASE job' = [job EXCEPT !.pc = IF @ = "run" THEN "tearDown" ELSE "failed"]
    <3>1. job'.pc = IF job.pc = "run" THEN "tearDown" ELSE "failed"
      BY <2>1, <2>3 DEF Job
    <3> QED BY <1>2, <3>1
  <2> QED BY <1>2, <2>2, <2>3 DEF Recreate
<1>3. CASE Poll /\ job.pc = "repoll"
  BY <1>3, GotoContinues, StepNames DEF Poll, Continues
<1> QED BY <1>1, <1>2, <1>3

LEMMA StepHeld ==
    ASSUME UpdateTypes, VersionsInv, DownInv, Held, [UpdateNext]_updateVars
    PROVE  Held'
<1> USE DEF Held
<1>1. ASSUME job'.pc \notin ForwardSteps PROVE Held'
  BY <1>1 DEF ForwardSteps
<1>2. CASE Retag
  <2>1. CASE Goto("stashData") /\ job.backup # 0 /\ Holds(disk.config)
    <3>1. Continues("stashData") /\ disk' = disk
      BY <1>2, <2>1, GotoContinues, StepNames DEF Retag
    <3> QED BY <2>1, <3>1 DEF Continues, Holds
  <2>2. CASE Goto("reclear") \/ Goto("failed")
    <3>1. job'.pc \in {"reclear", "failed"}
      BY <2>2, GotoContinues, StepNames DEF Continues
    <3> QED BY <1>1, <3>1 DEF ForwardSteps
  <2> QED BY <1>2, <2>1, <2>2 DEF Retag, Holds
<1>3. CASE Restore
  <2>1. job'.backup = job.backup /\ job.backup # 0
    BY <1>3, RestoreEffects DEF Continues, RestoreBreaks
  <2>2. CASE job'.pc = "stashConfig"
    <3>1. disk'.config = disk.config /\ job.pc = "stashData"
      BY <1>3, <2>2, RestoreEffects DEF Volume, RestoreBreaks
    <3> QED BY <2>1, <2>2, <3>1 DEF Holds
  <2>3. CASE job'.pc = "beginData"
    <3>1. disk'.configStash = disk.config /\ job.pc = "stashConfig"
      BY <1>3, <2>3, RestoreEffects DEF Volume, RestoreBreaks
    <3> QED BY <2>1, <2>3, <3>1 DEF Holds
  <2>4. CASE job'.pc \in {"copyData", "copyConfig", "moveBackups"}
    <3>1. /\ disk'.configStash = disk.configStash
          /\ job.pc \in {"beginData", "copyData", "copyConfig"}
      BY <1>3, <2>4, RestoreEffects DEF Volume, RestoreBreaks
    <3> QED BY <2>1, <2>4, <3>1 DEF Holds
  <2>5. job'.pc # "stashData"
    BY <1>3, RestoreEffects DEF RestoreBreaks
  <2> QED BY <2>1, <2>2, <2>3, <2>4, <2>5
<1>4. CASE Undo
  <2>1. job'.pc \in UndoSteps \cup {"failed"}
    BY <1>4, UndoMoves DEF Continues, Undoes, UndoSteps
  <2> QED BY <1>1, <2>1 DEF UndoSteps, ForwardSteps
<1>5. CASE \/ Clear /\ job.pc = "reclear"
           \/ Recreate /\ job.pc = "rerun"
           \/ Poll /\ job.pc = "repoll"
  <2>1. job'.pc \in {"rerun", "repoll", "failed", "register"}
    BY <1>5, BackSteps
  <2> QED BY <1>1, <2>1 DEF ForwardSteps
<1>6. CASE LaunchClears \/ LaunchRuns
  <2>1. job' = job
    BY <1>6, LaunchFacts
  <2>2. CASE job.pc \in ForwardSteps
    <3>1. job.backup # 0
      BY <2>2
    <3> QED BY <1>6, <2>1, <3>1, LaunchKeepsBackups
  <2> QED BY <1>1, <2>1, <2>2
<1>7. CASE job'.pc \in Rolling /\ UNCHANGED volumeVars
  BY <1>7 DEF Holds, volumeVars
<1>8. CASE \/ job'.pc = "register" /\ ~job'.rollback
           \/ job'.pc \notin Rolling
  BY <1>1, <1>8 DEF Rolling, ForwardSteps
<1> QED BY <1>2, <1>3, <1>4, <1>5, <1>6, <1>7, <1>8, RollbackSteps

\* What a container that starts makes of the data.
OpenedData(data, version) ==
    CASE data = Missing -> Fresh
      [] data = Torn -> Spoiled
      [] Whole(data) /\ data < version -> version
      [] OTHER -> data

Copied(dirs) == \E b \in dirs : b.no = job.backup /\ disk.data = b.data

\* A container has taken the name that the update wants to use.
InTheWay == launch = "done" /\ Taken /\ ctr.id # job.old

\* From the stash to the container of the prior version: what the data
\* directory holds.
CopyInv ==
    ~overtaken =>
        /\ job.pc \in {"stashConfig", "beginData"} => disk.data = Missing
        /\ job.pc = "copyData" => disk.data = Torn
        /\ job.pc \in {"copyConfig", "moveBackups"} => Copied(disk.configStash)
        /\ job.pc \in {"dropData", "dropConfig"} => Copied(disk.config)
        /\ job.pc \in {"reclear", "rerun"} /\ job.backup # 0 =>
              Copied(disk.config) \/ InTheWay
        /\ job.pc \in {"repoll", "register"} /\ job.rollback /\ job.backup # 0 =>
              \E b \in disk.config :
                 b.no = job.backup /\ disk.data = OpenedData(b.data, ctr.image)

LEMMA StepCopy ==
    ASSUME UpdateTypes, IdsInv, VersionsInv, DownInv, Held, CopyInv,
           [UpdateNext]_updateVars
    PROVE  CopyInv'
<1> USE DEF CopyInv
<1>0. job \in Job /\ disk \in Dirs /\ ids \in Nat /\ tag.latest \in Nat
      /\ ctr.id \in Nat /\ job.old \in Nat
  BY UpdateFields
<1>1. ASSUME job'.pc \in {"stashData", "failed", "clearData", "clearConfig",
                          "unstashData", "unstashConfig"}
      PROVE  CopyInv'
  BY <1>1
<1>2. CASE Retag
  <2>1. CASE Goto("reclear") /\ job.backup = 0
    <3>1. Continues("reclear")
      BY <2>1, GotoContinues, StepNames
    <3> QED BY <2>1, <3>1 DEF Continues
  <2>2. CASE Goto("stashData") \/ Goto("failed")
    <3>1. job'.pc \in {"stashData", "failed"}
      BY <2>2, GotoContinues, StepNames DEF Continues
    <3> QED BY <1>1, <3>1
  <2> QED BY <1>2, <2>1, <2>2 DEF Retag
<1>3. CASE Restore
  <2>1. job'.backup = job.backup /\ job.backup # 0 /\ overtaken' = overtaken
    BY <1>3, RestoreEffects DEF Continues, Held, RestoreBreaks
  <2>2. CASE job'.pc \in {"stashConfig", "beginData"}
    <3>1. ~overtaken => disk'.data = Missing
      BY <1>3, <2>2, RestoreEffects DEF Volume, RestoreBreaks
    <3> QED BY <2>1, <2>2, <3>1
  <2>3. CASE job'.pc = "copyData"
    <3>1. ~overtaken => disk'.data = Torn
      BY <1>3, <2>3, RestoreEffects DEF RestoreBreaks
    <3> QED BY <2>1, <2>3, <3>1
  <2>4. CASE job'.pc = "copyConfig"
    <3>1. /\ disk'.configStash = disk.configStash
          /\ ~overtaken => \E b \in disk.configStash :
                              b.no = job.backup /\ disk'.data = b.data
      BY <1>3, <2>4, RestoreEffects DEF Volume, RestoreBreaks
    <3> QED BY <2>1, <2>4, <3>1 DEF Copied
  <2>5. CASE job'.pc = "moveBackups"
    <3>1. /\ disk'.configStash = disk.configStash /\ disk'.data = disk.data
          /\ job.pc = "copyConfig"
      BY <1>3, <2>5, RestoreEffects DEF Volume, RestoreBreaks
    <3> QED BY <2>1, <2>5, <3>1 DEF Copied
  <2>6. CASE job'.pc = "dropData"
    <3>1. /\ disk'.config = disk.configStash /\ disk'.data = disk.data
          /\ job.pc = "moveBackups"
      BY <1>3, <2>6, RestoreEffects DEF Volume, RestoreBreaks
    <3> QED BY <2>1, <2>6, <3>1 DEF Copied
  <2>7. CASE job'.pc \in {"dropConfig", "reclear"}
    <3>1. /\ disk'.config = disk.config /\ disk'.data = disk.data
          /\ job.pc \in {"dropData", "dropConfig"}
      BY <1>3, <2>7, RestoreEffects DEF Volume, RestoreBreaks
    <3> QED BY <2>1, <2>7, <3>1 DEF Copied
  <2>8. CASE job'.pc = "clearData"
    BY <1>1, <2>8
  <2> QED BY <1>3, <2>2, <2>3, <2>4, <2>5, <2>6, <2>7, <2>8, RestoreEffects
          DEF RestoreBreaks
<1>4. CASE Undo
  <2>1. job'.pc \in UndoSteps \cup {"failed"}
    BY <1>4, UndoMoves DEF Continues, Undoes, UndoSteps
  <2> QED BY <1>1, <2>1 DEF UndoSteps
<1>5. CASE Clear /\ job.pc = "reclear"
  <2>1. Continues("rerun")
    BY <1>5, GotoContinues, StepNames DEF Clear
  <2>2. /\ disk' = disk /\ (ctr' = ctr \/ ctr.id = job.old)
        /\ launch' = launch /\ overtaken' = overtaken
    <3>1. RemoveIfExists(job.old)
      BY <1>5 DEF Clear
    <3>2. disk' = disk /\ (ctr' = ctr \/ ctr.id = job.old)
      BY <1>0, <3>1, RemoveFacts
    <3> QED BY <1>5, <3>2 DEF Clear, history
  <2>3. Copied(disk.config) => Copied(disk.config)'
    BY <2>1, <2>2 DEF Copied, Continues
  <2>4. InTheWay => InTheWay'
    BY <2>1, <2>2 DEF InTheWay, Taken, Continues
  <2> QED BY <1>5, <2>1, <2>2, <2>3, <2>4 DEF Continues
<1>6. CASE Recreate /\ job.pc = "rerun"
  <2>1. CASE Run(tag.latest) /\
             job' = [job EXCEPT !.pc = IF @ = "run" THEN "poll" ELSE "repoll",
                                !.new = ids + 1]
    <3>1. /\ job'.pc = (IF job.pc = "run" THEN "poll" ELSE "repoll")
          /\ job'.backup = job.backup
      BY <1>0, <2>1 DEF Job
    <3>2. /\ ctr.id = 0 /\ ctr'.image = tag.latest
          /\ disk' = Opened(disk, tag.latest) /\ overtaken' = overtaken
      BY <1>0, <1>6, <2>1, RunFacts DEF Recreate, history
    <3>3. ASSUME ~overtaken, job.backup # 0
          PROVE  \E b \in disk'.config :
                    b.no = job.backup /\ disk'.data = OpenedData(b.data, ctr'.image)
      <4>1. PICK b \in disk.config : b.no = job.backup /\ disk.data = b.data
        BY <1>6, <3>2, <3>3 DEF Copied, InTheWay, Taken
      <4>2. disk.config # NoDir
        BY <3>3, <4>1, Contents
      <4>3. disk'.config = disk.config
        BY <1>0, <3>2, <4>2, OpenedDirs
      <4>4. disk'.data = OpenedData(disk.data, tag.latest)
        BY <1>0, <3>2, OpenedDirs DEF OpenedData
      <4> QED BY <3>2, <4>1, <4>3, <4>4
    <3> QED BY <1>6, <3>1, <3>2, <3>3
  <2>2. CASE job' = [job EXCEPT !.pc = IF @ = "run" THEN "tearDown" ELSE "failed"]
    <3>1. job'.pc = IF job.pc = "run" THEN "tearDown" ELSE "failed"
      BY <1>0, <2>2 DEF Job
    <3> QED BY <1>1, <1>6, <3>1
  <2> QED BY <1>6, <2>1, <2>2 DEF Recreate
<1>7. CASE Poll /\ job.pc = "repoll"
  <2>1. CASE Goto("register")
    <3>1. Continues("register")
      BY <2>1, GotoContinues, StepNames
    <3>2. disk' = disk /\ ctr' = ctr /\ overtaken' = overtaken
      BY <1>7 DEF Poll, docker, history
    <3> QED BY <1>7, <3>1, <3>2 DEF Continues
  <2>2. CASE Goto("failed")
    BY <1>1, <2>2, GotoContinues, StepNames DEF Continues
  <2> QED BY <1>7, <2>1, <2>2 DEF Poll
<1>8. CASE LaunchClears \/ LaunchRuns
  <2>1. job' = job /\ (overtaken => overtaken')
    BY <1>8, LaunchFacts
  <2>2. ASSUME ~overtaken', job.pc \in ForwardSteps PROVE disk' = disk
    BY <1>8, <2>2, LaunchFacts
  <2>3. CASE job.pc \in ForwardSteps
    BY <2>1, <2>2, <2>3 DEF ForwardSteps, Copied
  <2>4. CASE job.pc \in {"reclear", "rerun"}
    <3>1. CASE ctr' = ctr \/ launch = "pending"
      <4>1. CASE UNCHANGED <<disk, ids, overtaken>>
        <5>1. Copied(disk.config) => Copied(disk.config)'
          BY <2>1, <4>1 DEF Copied
        <5>2. InTheWay => ctr' = ctr /\ launch' = launch
          BY <1>8, <3>1 DEF InTheWay, LaunchClears, LaunchRuns
        <5>3. InTheWay => InTheWay'
          BY <2>1, <5>2 DEF InTheWay, Taken
        <5> QED BY <2>1, <2>4, <4>1, <5>1, <5>3
      <4>2. CASE launch' = "done" /\ ctr.id = 0 /\ ids' = ids + 1 /\ ctr'.id = ids'
        <5>1. ctr'.id # 0 /\ ctr'.id # job.old
          BY <1>0, <4>2 DEF IdsInv
        <5>2. InTheWay'
          BY <2>1, <4>2, <5>1 DEF InTheWay, Taken
        <5> QED BY <2>1, <2>4, <5>2
      <4> QED BY <1>8, <4>1, <4>2, LaunchFacts
    <3>2. CASE launch' = "done" /\ ctr.id = 0 /\ ids' = ids + 1 /\ ctr'.id = ids'
      <4>1. ctr'.id # 0 /\ ctr'.id # job.old
        BY <1>0, <3>2 DEF IdsInv
      <4>2. InTheWay'
        BY <2>1, <3>2, <4>1 DEF InTheWay, Taken
      <4> QED BY <2>1, <2>4, <4>2
    <3> QED BY <1>8, <3>1, <3>2, LaunchFacts
  <2>5. CASE job.pc \in {"repoll", "register"}
    <3>1. ctr' = ctr /\ disk' = disk
      BY <1>8, <2>5, CommittedStays DEF Committing
    <3> QED BY <2>1, <2>5, <3>1
  <2>6. CASE job.pc \notin ForwardSteps \cup {"reclear", "rerun", "repoll", "register"}
    BY <2>1, <2>6 DEF ForwardSteps
  <2> QED BY <2>3, <2>4, <2>5, <2>6
<1>9. CASE job'.pc \in Rolling /\ UNCHANGED volumeVars
  BY <1>9 DEF Copied, InTheWay, Taken, volumeVars
<1>10. CASE \/ job'.pc = "register" /\ ~job'.rollback
            \/ job'.pc \notin Rolling
  BY <1>10 DEF Rolling, ForwardSteps
<1> QED BY <1>2, <1>3, <1>4, <1>5, <1>6, <1>7, <1>8, <1>9, <1>10, RollbackSteps

UndoBreaks ==
    /\ job'.pc = "failed" /\ broken' = broken \cup {job.pc}
    /\ disk'.config = disk.config \/ disk'.config = {}
    /\ disk'.configStash = disk.configStash
    /\ disk'.dataStash = disk.dataStash
    /\ job.pc \in {"unstashData", "unstashConfig"} => disk' = disk

\* A step of the catch block, in full.
LEMMA UndoEffects ==
    ASSUME UpdateTypes, Undo
    PROVE  /\ job.pc \in UndoSteps /\ Continues(job'.pc)
           /\ UNCHANGED <<tag, ctr, ids, kept, launch, before, overtaken, anchored>>
           /\ \/ /\ job.pc = "clearData" /\ job'.pc = "clearConfig"
                 /\ Volume(disk', Missing, disk.config, disk.dataStash,
                           disk.configStash)
              \/ /\ job.pc = "clearConfig" /\ job'.pc = "unstashData"
                 /\ Volume(disk', disk.data, NoDir, disk.dataStash,
                           disk.configStash)
              \/ /\ job.pc = "unstashData" /\ job'.pc = "unstashConfig"
                 /\ IF disk.dataStash = Missing THEN disk' = disk
                    ELSE Volume(disk', disk.dataStash, disk.config, Missing,
                                disk.configStash)
              \/ /\ job.pc = "unstashConfig" /\ job'.pc = "failed"
                 /\ IF disk.configStash = NoDir THEN disk' = disk
                    ELSE Volume(disk', disk.data, disk.configStash,
                                disk.dataStash, NoDir)
              \/ disk' = disk /\ Blocked(job.pc) /\ job'.pc = "failed"
              \/ UndoBreaks
           /\ broken' = broken \/ UndoBreaks
<1>1. UNCHANGED <<tag, ctr, ids, kept, launch, before, overtaken, anchored>>
  BY DEF Undo, docker, history
<1>2. disk \in Dirs
  BY UpdateFields
<1>3. job.pc \in UndoSteps
  BY UndoMoves
<1>4. CASE /\ disk' = disk /\ Blocked(job.pc) /\ broken' = broken
           /\ Continues("failed")
  BY <1>1, <1>3, <1>4 DEF Continues
<1>5. CASE disk' = After(job.pc) /\ broken' = broken /\
             \E next \in Step : Undoes(job.pc, next) /\ Continues(next)
  <2>1. PICK next \in Step : Undoes(job.pc, next) /\ Continues(next)
    BY <1>5
  <2>2. Continues(job'.pc) /\ job'.pc = next
    BY <2>1 DEF Continues
  <2>3. /\ Volume(After("clearData"), Missing, disk.config, disk.dataStash,
                  disk.configStash)
        /\ Volume(After("clearConfig"), disk.data, NoDir, disk.dataStash,
                  disk.configStash)
        /\ IF disk.dataStash = Missing THEN After("unstashData") = disk
           ELSE Volume(After("unstashData"), disk.dataStash, disk.config, Missing,
                       disk.configStash)
        /\ IF disk.configStash = NoDir THEN After("unstashConfig") = disk
           ELSE Volume(After("unstashConfig"), disk.data, disk.configStash,
                       disk.dataStash, NoDir)
    BY <1>2, AfterUndo
  <2>4. CASE job.pc \in {"clearData", "clearConfig"}
    BY <1>1, <1>3, <1>5, <2>1, <2>2, <2>3, <2>4 DEF Undoes
  <2>5. CASE job.pc = "unstashData"
    <3>1. next = "unstashConfig" /\ disk' = After("unstashData")
      BY <1>5, <2>1, <2>5 DEF Undoes
    <3> QED BY <1>1, <1>3, <1>5, <2>2, <2>3, <2>5, <3>1
  <2>6. CASE job.pc = "unstashConfig"
    <3>1. next = "failed" /\ disk' = After("unstashConfig")
      BY <1>5, <2>1, <2>6 DEF Undoes
    <3> QED BY <1>1, <1>3, <1>5, <2>2, <2>3, <2>6, <3>1
  <2> QED BY <1>3, <2>4, <2>5, <2>6 DEF UndoSteps
<1>6. CASE /\ disk' = Broken(job.pc) /\ broken' = broken \cup {job.pc}
           /\ Continues("failed")
  <2>1. job'.pc = "failed" /\ Continues(job'.pc)
    BY <1>6 DEF Continues
  <2>2. \/ /\ job.pc = "clearData" /\ disk' = [disk EXCEPT !.data = Torn]
        \/ /\ job.pc = "clearConfig" /\ disk' = [disk EXCEPT !.config = {}]
        \/ /\ job.pc \in {"unstashData", "unstashConfig"} /\ disk' = disk
    BY <1>3, <1>6 DEF Broken, UndoSteps
  <2>3. /\ Volume([disk EXCEPT !.data = Torn], Torn, disk.config, disk.dataStash,
                  disk.configStash)
        /\ Volume([disk EXCEPT !.config = {}], disk.data, {}, disk.dataStash,
                  disk.configStash)
    BY <1>2, DirsWith, Contents
  <2>4. /\ disk'.config = disk.config \/ disk'.config = {}
        /\ disk'.configStash = disk.configStash
        /\ disk'.dataStash = disk.dataStash
    BY <2>2, <2>3 DEF Volume
  <2>5. UndoBreaks
    BY <1>6, <2>1, <2>2, <2>4 DEF UndoBreaks
  <2> QED BY <1>1, <1>3, <2>1, <2>5
<1> QED BY <1>4, <1>5, <1>6, UndoMoves

\* No step has failed that makes the catch block remove what it should keep.
Safe == broken \cap Unsafe = {}

LEMMA FailedSteps ==
    ASSUME NEW step, broken' = broken \cup {step}
    PROVE  /\ Safe' => Safe /\ step \notin Unsafe
           /\ broken' \subseteq Stashed => broken \subseteq Stashed /\ step \in Stashed
           /\ broken' \subseteq Stashed => Safe'
BY DEF Safe, Stashed, Unsafe

\* The stashes hold what the restore found, until it is done or undone.
StashInv ==
    ~overtaken =>
        /\ job.pc = "stashData" =>
              disk.data = before.data /\ disk.config = before.config
        /\ job.pc = "stashConfig" =>
              disk.dataStash = before.data /\ disk.config = before.config
        /\ job.pc \in Stashed =>
              disk.dataStash = before.data /\ disk.configStash = before.config
        /\ job.pc \in Copies \cup {"unstashData", "unstashConfig"} =>
              disk.config = NoDir
        /\ job.pc \in {"clearConfig", "unstashData"} => disk.data = Missing
        /\ job.pc \in {"clearData", "clearConfig", "unstashData"} /\ Safe =>
              disk.dataStash = before.data
        /\ job.pc = "unstashConfig" /\ Safe => disk.data = before.data
        /\ job.pc \in UndoSteps /\ broken \subseteq Stashed =>
              disk.configStash = before.config

LEMMA StepStash ==
    ASSUME UpdateTypes, VersionsInv, DownInv, Held, StashInv,
           [UpdateNext]_updateVars
    PROVE  StashInv'
<1> USE DEF StashInv, Copies, Stashed
<1>1. ASSUME job'.pc \notin ForwardSteps \cup UndoSteps PROVE StashInv'
  BY <1>1 DEF ForwardSteps, UndoSteps
<1>2. CASE Retag
  <2>1. \E pc \in {"stashData", "reclear", "failed"} : Goto(pc)
    BY <1>2 DEF Retag
  <2>2. job'.pc \in {"stashData", "reclear", "failed"}
    BY <2>1, GotoContinues, StepNames DEF Continues
  <2>3. before' = disk /\ disk' = disk
    BY <1>2 DEF Retag
  <2> QED BY <2>2, <2>3 DEF UndoSteps
<1>3. CASE Restore
  <2>0. before' = before /\ overtaken' = overtaken
    BY <1>3, RestoreEffects DEF RestoreBreaks
  <2>1. CASE job'.pc = "stashConfig"
    <3>1. job.pc = "stashData" /\
          Volume(disk', Missing, disk.config, disk.data, disk.configStash)
      BY <1>3, <2>1, RestoreEffects DEF RestoreBreaks
    <3> QED BY <2>0, <2>1, <3>1 DEF Volume, UndoSteps
  <2>2. CASE job'.pc = "beginData"
    <3>1. job.pc = "stashConfig" /\
          Volume(disk', disk.data, NoDir, disk.dataStash, disk.config)
      BY <1>3, <2>2, RestoreEffects DEF RestoreBreaks
    <3> QED BY <2>0, <2>2, <3>1 DEF Volume, UndoSteps
  <2>3. CASE job'.pc \in {"copyData", "copyConfig"}
    <3>1. job.pc \in {"beginData", "copyData"} /\
          Volume(disk', disk'.data, disk.config, disk.dataStash, disk.configStash)
      BY <1>3, <2>3, RestoreEffects DEF RestoreBreaks
    <3> QED BY <2>0, <2>3, <3>1 DEF Volume, UndoSteps
  <2>4. CASE job'.pc = "moveBackups"
    <3>1. /\ job.pc = "copyConfig" /\ disk'.dataStash = disk.dataStash
          /\ disk'.configStash = disk.configStash
      BY <1>3, <2>4, RestoreEffects DEF Volume, RestoreBreaks
    <3> QED BY <2>0, <2>4, <3>1 DEF UndoSteps
  <2>5. CASE job'.pc = "clearData"
    <3>1. /\ job.pc \in ForwardSteps /\ broken' = broken \cup {job.pc}
          /\ job.pc \notin Unsafe =>
               /\ disk'.dataStash = disk.dataStash
               /\ disk'.configStash = disk.configStash
      BY <1>3, <2>5, RestoreEffects DEF Volume, RestoreBreaks
    <3>2. Safe' => job.pc \notin Unsafe
      BY <3>1, FailedSteps
    <3>3. broken' \subseteq Stashed => job.pc \in Stashed /\ job.pc \notin Unsafe
      BY <3>1, FailedSteps DEF Unsafe
    <3>4. ~overtaken /\ job.pc \notin Unsafe => disk.dataStash = before.data
      BY <3>1 DEF ForwardSteps, Unsafe
    <3> QED BY <2>0, <2>5, <3>1, <3>2, <3>3, <3>4
  <2>6. CASE job'.pc \in {"dropData", "dropConfig", "reclear"}
    BY <2>6 DEF UndoSteps
  <2> QED BY <1>3, <2>1, <2>2, <2>3, <2>4, <2>5, <2>6, RestoreEffects DEF RestoreBreaks
<1>4. CASE Undo
  <2>0. /\ before' = before /\ overtaken' = overtaken /\ job.pc \in UndoSteps
        /\ broken' \subseteq Stashed => broken \subseteq Stashed
        /\ Safe' => Safe
    BY <1>4, UndoEffects, FailedSteps DEF Safe, UndoBreaks
  <2>1. CASE job'.pc = "clearConfig"
    <3>1. job.pc = "clearData" /\
          Volume(disk', Missing, disk.config, disk.dataStash, disk.configStash)
      BY <1>4, <2>1, UndoEffects DEF UndoBreaks
    <3> QED BY <2>0, <2>1, <3>1 DEF Volume
  <2>2. CASE job'.pc = "unstashData"
    <3>1. job.pc = "clearConfig" /\
          Volume(disk', disk.data, NoDir, disk.dataStash, disk.configStash)
      BY <1>4, <2>2, UndoEffects DEF UndoBreaks
    <3> QED BY <2>0, <2>2, <3>1 DEF Volume
  <2>3. CASE job'.pc = "unstashConfig"
    <3>1. /\ job.pc = "unstashData"
          /\ IF disk.dataStash = Missing THEN disk' = disk
             ELSE Volume(disk', disk.dataStash, disk.config, Missing,
                         disk.configStash)
      BY <1>4, <2>3, UndoEffects DEF UndoBreaks
    <3>2. /\ disk'.config = disk.config /\ disk'.configStash = disk.configStash
          /\ disk'.data = disk.dataStash \/ disk'.data = disk.data
          /\ disk.data = Missing => disk'.data = disk.dataStash
      BY <3>1 DEF Volume
    <3> QED BY <2>0, <2>3, <3>1, <3>2
  <2>4. CASE job'.pc = "failed"
    BY <2>4 DEF UndoSteps
  <2> QED BY <1>4, <2>1, <2>2, <2>3, <2>4, UndoEffects DEF UndoBreaks
<1>5. CASE \/ Clear /\ job.pc = "reclear"
           \/ Recreate /\ job.pc = "rerun"
           \/ Poll /\ job.pc = "repoll"
  <2>1. job'.pc \notin ForwardSteps \cup UndoSteps
    BY <1>5, BackSteps DEF ForwardSteps, UndoSteps
  <2> QED BY <1>1, <2>1
<1>6. CASE LaunchClears \/ LaunchRuns
  <2>1. /\ job' = job /\ before' = before /\ (overtaken => overtaken')
        /\ broken' = broken
    BY <1>6, LaunchFacts
  <2>2. CASE job.pc \in ForwardSteps \cup UndoSteps
    <3>1. ~overtaken' => disk' = disk
      BY <1>6, <2>2, LaunchFacts
    <3> QED BY <2>1, <3>1 DEF Safe
  <2> QED BY <1>1, <2>1, <2>2
<1>7. CASE job'.pc \in Rolling /\ UNCHANGED volumeVars
  BY <1>7 DEF volumeVars, Safe
<1>8. CASE \/ job'.pc = "register" /\ ~job'.rollback
           \/ job'.pc \notin Rolling
  BY <1>1, <1>8 DEF Rolling, ForwardSteps, UndoSteps
<1> QED BY <1>2, <1>3, <1>4, <1>5, <1>6, <1>7, <1>8, RollbackSteps

-----------------------------------------------------------------------------
(* The data: where a whole copy of it is.                                  *)

\* Every backup in these directories is a copy of whole data.
AllWhole(dirs) == \A b \in dirs : b.no # 0 => Whole(b.data)

\* A step that is no part of a restore.
Quiet ==
    /\ ~Restoring /\ ~Restoring' /\ job.pc # "failed"
    /\ UNCHANGED <<kept, broken, overtaken>>
    /\ disk' \in Dirs /\ (Whole(disk.data) => Whole(disk'.data))
    /\ disk'.config \subseteq disk.config /\ disk'.configStash = disk.configStash

LEMMA RestoringSteps ==
    /\ Restoring <=> job.pc \in ForwardSteps \cup UndoSteps
    /\ Restoring' <=> job'.pc \in ForwardSteps \cup UndoSteps
BY ForwardTable, UndoTable DEF Restoring

LEMMA QuietByDocker ==
    ASSUME UpdateTypes, NEW v \in Nat, NEW i \in Nat,
           Run(v) \/ RunFails(v) \/ RemoveIfExists(i) \/ disk' = disk
    PROVE  /\ disk' \in Dirs /\ (Whole(disk.data) => Whole(disk'.data))
           /\ disk'.config \subseteq disk.config
           /\ disk'.configStash = disk.configStash
<1>1. disk \in Dirs
  BY UpdateFields
<1>2. CASE Run(v)
  <2>1. disk' = Opened(disk, v)
    BY <1>2, RunFacts
  <2> QED BY <1>1, <2>1, OpenedDirs
<1>3. CASE RunFails(v) \/ RemoveIfExists(i)
  BY <1>1, <1>3, RunFailsFacts, RemoveFacts
<1> QED BY <1>1, <1>2, <1>3

LEMMA QuietSteps ==
    ASSUME UpdateTypes, [UpdateNext]_updateVars
    PROVE  \/ Backup \/ Retag \/ Restore \/ Undo \/ RollbackFails
           \/ LaunchClears \/ LaunchRuns \/ Crash \/ QuitStops
           \/ Quiet
           \/ UNCHANGED <<job, disk, before, kept, broken, overtaken>>
<1> USE DEF ForwardSteps, UndoSteps
<1>0. job \in Job /\ disk \in Dirs /\ tag.latest \in Nat /\ job.old \in Nat
      /\ job.new \in Nat
  BY UpdateFields
<1>1. ASSUME NEW v \in Nat, NEW b \in BOOLEAN, Begin(v, b) PROVE Quiet
  <2>1. job'.pc \in {"backup", "pull"} /\ job.pc = "idle"
    BY <1>1, NoJobIsJob DEF Begin, NoJob
  <2> QED BY <1>0, <1>1, <2>1, RestoringSteps DEF Begin, Quiet, docker
<1>2. CASE Pull \/ Stop \/ Anchor \/ Swap \/ Poll
  <2>1. /\ job.pc \in {"pull", "stop", "anchor", "swap", "poll", "repoll"}
        /\ \/ \E pc \in {"gate", "anchor", "tearDown", "swap", "clear", "rotate",
                         "register", "failed"} : Goto(pc)
           \/ End("failed")
    BY <1>2 DEF Pull, Stop, Anchor, Swap, Poll
  <2>2. job'.pc \notin ForwardSteps \cup UndoSteps
    BY <1>0, <2>1, JobEnds, NoJobIsJob, JobMoves, StepNames
  <2>3. UNCHANGED <<disk, kept, broken, overtaken>>
    BY <1>2 DEF Pull, Stop, Anchor, Swap, Poll, history, docker
  <2> QED BY <1>0, <2>1, <2>2, <2>3, RestoringSteps DEF Quiet
<1>3. CASE Confirm
  <2>1. job.pc = "gate" /\ job'.pc = "stop"
    BY <1>0, <1>3, JobMoves, StepNames DEF Confirm
  <2> QED BY <1>0, <1>3, <2>1, RestoringSteps DEF Confirm, Quiet, history
<1>4. CASE Clear
  <2>1. /\ job.pc \in {"clear", "reclear"} /\ job'.pc \in {"run", "rerun"}
        /\ RemoveIfExists(job.old)
    BY <1>0, <1>4, JobMoves, StepNames DEF Clear
  <2>2. kept' = kept /\ broken' = broken /\ overtaken' = overtaken
    BY <1>4 DEF Clear, history
  <2> QED BY <1>0, <2>1, <2>2, RestoringSteps, QuietByDocker DEF Quiet
<1>5. CASE Recreate
  <2>1. job.pc \in {"run", "rerun"} /\ (Run(tag.latest) \/ RunFails(tag.latest))
    BY <1>5 DEF Recreate
  <2>2. job'.pc \in {"poll", "repoll", "tearDown", "failed"}
    <3>1. CASE job' = [job EXCEPT !.pc = IF @ = "run" THEN "poll" ELSE "repoll",
                                  !.new = ids + 1]
      BY <1>0, <3>1 DEF Job
    <3>2. CASE job' = [job EXCEPT !.pc = IF @ = "run" THEN "tearDown"
                                                      ELSE "failed"]
      BY <1>0, <3>2 DEF Job
    <3> QED BY <1>5, <3>1, <3>2 DEF Recreate
  <2>3. kept' = kept /\ broken' = broken /\ overtaken' = overtaken
    BY <1>5 DEF Recreate, history
  <2> QED BY <1>0, <2>1, <2>2, <2>3, RestoringSteps, QuietByDocker DEF Quiet
<1>6. CASE Rotate
  <2>1. job.pc = "rotate" /\ job'.pc = "register"
    BY <1>0, <1>6, JobMoves, StepNames DEF Rotate
  <2>2. kept' = kept /\ broken' = broken /\ overtaken' = overtaken
    BY <1>6 DEF Rotate, history
  <2>3. \/ disk' = disk
        \/ \E y \in SUBSET disk.config : disk' = [disk EXCEPT !.config = y]
    <3> DEFINE stale == {b \in disk.config :
                 Cardinality({c \in disk.config : c.no > b.no}) >= Retention}
    <3>1. disk' = disk \/ disk' = [disk EXCEPT !.config = disk.config \ stale]
      BY <1>6 DEF Rotate
    <3>2. disk.config \ stale \in SUBSET disk.config
      OBVIOUS
    <3> HIDE DEF stale
    <3> QED BY <3>1, <3>2
  <2>4. ASSUME NEW y \in SUBSET disk.config
        PROVE  Volume([disk EXCEPT !.config = y], disk.data, y, disk.dataStash,
                      disk.configStash)
    <3>1. y \in SUBSET Backups
      BY <1>0, DirsFields
    <3>2. disk.data \in Int
      BY <1>0, DirsFields
    <3> QED BY <1>0, <3>1, <3>2, DirsWith
  <2>5. /\ disk' \in Dirs /\ disk'.data = disk.data
        /\ disk'.config \subseteq disk.config
        /\ disk'.configStash = disk.configStash
    <3>1. CASE disk' = disk
      BY <1>0, <3>1
    <3>2. CASE \E y \in SUBSET disk.config : disk' = [disk EXCEPT !.config = y]
      <4>1. PICK y \in SUBSET disk.config : disk' = [disk EXCEPT !.config = y]
        BY <3>2
      <4>2. Volume(disk', disk.data, y, disk.dataStash, disk.configStash)
        BY <2>4, <4>1
      <4> QED BY <4>2 DEF Volume
    <3> QED BY <2>3, <3>1, <3>2
  <2> QED BY <2>1, <2>2, <2>5, RestoringSteps DEF Quiet
<1>7. CASE Register
  BY <1>0, <1>7, JobEnds, NoJobIsJob, RestoringSteps DEF Register, Quiet, docker
<1>8. CASE TearDown
  <2>1. job.pc = "tearDown" /\ job'.pc = "retag"
    BY <1>0, <1>8 DEF TearDown, Job
  <2>2. /\ kept' = kept /\ overtaken' = overtaken /\ broken' = broken
        /\ disk' = disk
    BY <1>8, TearDownFacts DEF TearDown, history
  <2> QED BY <1>0, <2>1, <2>2, RestoringSteps, QuietByDocker DEF Quiet
<1>9. CASE BeginRebuild
  <2>1. job'.pc = "rebuild" /\ job.pc = "idle"
    BY <1>9, NoJobIsJob DEF BeginRebuild, NoJob
  <2> QED BY <1>0, <1>9, <2>1, RestoringSteps DEF BeginRebuild, Quiet, history
<1>10. CASE RebuildClears
  <2>1. /\ job.pc = "rebuild" /\ job'.pc = "rebuildRun" /\ RemoveIfExists(job.old)
    BY <1>0, <1>10, JobMoves, StepNames DEF RebuildClears
  <2>2. kept' = kept /\ broken' = broken /\ overtaken' = overtaken
    BY <1>10 DEF RebuildClears, history
  <2> QED BY <1>0, <2>1, <2>2, RestoringSteps, QuietByDocker DEF Quiet
<1>11. CASE RebuildRuns
  <2>1. /\ job.pc = "rebuildRun" /\ job'.pc = "idle"
        /\ Run(tag.latest) \/ RunFails(tag.latest)
    BY <1>11, NoJobIsJob DEF RebuildRuns
  <2>2. kept' = kept /\ broken' = broken /\ overtaken' = overtaken
    BY <1>11 DEF RebuildRuns, history
  <2> QED BY <1>0, <2>1, <2>2, RestoringSteps, QuietByDocker DEF Quiet
<1>12. CASE Start
  BY <1>12 DEF Start, history
<1>13. CASE Quit
  <2>1. CASE job.pc = "gate"
    <3>1. job'.pc = "idle"
      BY <1>13, <2>1, JobEnds, NoJobIsJob DEF Quit
    <3> QED BY <1>0, <1>13, <2>1, <3>1, RestoringSteps DEF Quit, Quiet
  <2> QED BY <1>13, <2>1 DEF Quit
<1>14. CASE UNCHANGED updateVars
  BY <1>14 DEF updateVars, history
<1>15. CASE UpdateNext
  <2>1. \A v \in Version : v \in Nat
    BY DEF Version
  <2> QED BY <2>1, <1>1, <1>2, <1>3, <1>4, <1>5, <1>6, <1>7, <1>8, <1>9, <1>10,
             <1>11, <1>12, <1>13, <1>15 DEF UpdateNext, UpdateStep
<1> QED BY <1>14, <1>15

\* A restore that fails with its stashes whole: the catch block gets through.
LEMMA FailedRestoreData ==
    ASSUME UpdateTypes, StashInv, ~overtaken, Undo, job'.pc = "failed",
           broken' \subseteq Stashed
    PROVE  disk'.data = before.data /\ disk'.config = before.config
<1>1. /\ broken \subseteq Stashed /\ Safe /\ job.pc \in UndoSteps
      /\ broken' # broken \cup {job.pc}
  <2>1. job.pc \in UndoSteps /\ (broken' = broken \/ broken' = broken \cup {job.pc})
    BY UndoEffects DEF UndoBreaks
  <2>2. job.pc \notin Stashed
    BY <2>1 DEF UndoSteps, Stashed
  <2> QED BY <2>1, <2>2 DEF Safe, Stashed, Unsafe
<1>2. ~Blocked(job.pc)
  <2>1. CASE job.pc = "unstashData"
    BY <2>1 DEF Blocked, StashInv
  <2>2. CASE job.pc = "unstashConfig"
    BY <2>2 DEF Blocked, StashInv
  <2> QED BY <2>1, <2>2 DEF Blocked
<1>3. /\ job.pc = "unstashConfig"
      /\ IF disk.configStash = NoDir THEN disk' = disk
         ELSE Volume(disk', disk.data, disk.configStash, disk.dataStash, NoDir)
  BY <1>1, <1>2, UndoEffects DEF UndoBreaks
<1>4. disk'.data = disk.data /\ disk'.config = disk.configStash
  BY <1>3 DEF Volume, StashInv
<1> QED BY <1>1, <1>3, <1>4 DEF StashInv

DataInv ==
    \/ overtaken \/ ~Safe
    \/ \E c \in kept : Whole(c)
    \/ /\ AllWhole(disk.config) /\ AllWhole(disk.configStash)
       /\ Restoring => Whole(before.data)
       /\ ~Restoring =>
             (Whole(disk.data) \/ (job.pc = "failed" /\ Whole(disk.dataStash)))

\* Where the data is during a restore: in its directory or in the stash.
LEMMA RestoringKeepsData ==
    ASSUME Restoring, ~overtaken, Safe, Held, CopyInv, StashInv,
           AllWhole(disk.config), AllWhole(disk.configStash), Whole(before.data)
    PROVE  /\ Whole(disk.data) \/ Whole(disk.dataStash)
           /\ job.pc \in {"dropData", "dropConfig"} => Whole(disk.data)
<1>1. CASE job.pc \in {"stashData", "unstashConfig"}
  BY <1>1 DEF StashInv
<1>2. CASE job.pc \in {"stashConfig", "beginData", "copyData", "copyConfig",
                       "moveBackups", "clearData", "clearConfig", "unstashData"}
  BY <1>2 DEF StashInv, Stashed
<1>3. CASE job.pc \in {"dropData", "dropConfig"}
  <2>1. PICK b \in disk.config : b.no = job.backup /\ disk.data = b.data
    BY <1>3 DEF CopyInv, Copied
  <2>2. b.no # 0
    BY <1>3, <2>1 DEF Held, ForwardSteps
  <2> QED BY <2>1, <2>2 DEF AllWhole
<1> QED BY <1>1, <1>2, <1>3, RestoringSteps DEF ForwardSteps, UndoSteps

LEMMA StepData ==
    ASSUME UpdateTypes, Held, CopyInv, StashInv, DataInv,
           [UpdateNext]_updateVars
    PROVE  DataInv'
<1> USE DEF DataInv
<1>0. disk \in Dirs /\ before \in Dirs /\ tag.latest \in Nat
  BY UpdateFields
<1>1. (overtaken => overtaken') /\ kept \subseteq kept'
  BY LaunchFacts, QuietSteps DEF Backup, Retag, Restore, Undo, RollbackFails, Crash,
     QuitStops, Exits, Quiet, history
<1>13. Safe' => Safe
  <2>1. \/ broken' = broken \/ broken' = broken \cap Unsafe
        \/ broken' = broken \cup {job.pc}
    BY LaunchFacts, QuietSteps, RestoreMoves, UndoMoves DEF Backup, Retag,
       RollbackFails, Crash, QuitStops, Exits, Quiet, history
  <2> QED BY <2>1 DEF Safe
<1>2. SUFFICES ASSUME ~overtaken, Safe, \A c \in kept : ~Whole(c), ~overtaken', Safe'
               PROVE  DataInv'
  BY <1>1, <1>13
<1>3. /\ AllWhole(disk.config) /\ AllWhole(disk.configStash)
      /\ Restoring => Whole(before.data)
      /\ ~Restoring =>
            (Whole(disk.data) \/ (job.pc = "failed" /\ Whole(disk.dataStash)))
  BY <1>2
<1>4. AllWhole(NoDir) /\ AllWhole({})
  BY Contents DEF AllWhole
<1>5. CASE Backup
  <2>1. Whole(disk.data) /\ ~Restoring
    BY <1>3, <1>5, RestoringSteps DEF Backup, ForwardSteps, UndoSteps
  <2>2. job'.pc \in {"pull", "idle"}
    <3>1. CASE job' = [job EXCEPT !.pc = "pull",
                                  !.backup = MaxUpdates - left.updates]
      <4>1. job \in Job
        BY UpdateFields
      <4> QED BY <3>1, <4>1 DEF Job
    <3> QED BY <1>5, <3>1, JobEnds, NoJobIsJob DEF Backup
  <2>3. ~Restoring'
    BY <2>2, RestoringSteps DEF ForwardSteps, UndoSteps
  <2>4. Whole(disk'.data) /\ AllWhole(disk'.config) /\ AllWhole(disk'.configStash)
    <3> DEFINE b == [no |-> MaxUpdates - left.updates, data |-> disk.data]
               y == disk.config \cup {b}
    <3>1. b \in Backups /\ b.data = disk.data
      BY <1>0, UpdateFields, BoundAssumption, DirsFields DEF Backups
    <3>2. disk' = [disk EXCEPT !.config = y] \/ disk' = disk
      BY <1>5 DEF Backup
    <3> HIDE DEF b
    <3>3. y \in SUBSET Backups /\ AllWhole(y)
      BY <1>0, <1>3, <2>1, <3>1, DirsFields DEF AllWhole
    <3> HIDE DEF y
    <3>4. Volume([disk EXCEPT !.config = y], disk.data, y, disk.dataStash,
                 disk.configStash)
      <4>1. disk.data \in Int
        BY <1>0, DirsFields
      <4> QED BY <1>0, <3>3, <4>1, DirsWith
    <3> QED BY <1>3, <2>1, <3>2, <3>3, <3>4 DEF Volume
  <2> QED BY <2>3, <2>4
<1>6. CASE Retag
  <2>1. /\ ~Restoring /\ before' = disk /\ disk' = disk
        /\ job.pc # "failed"
    BY <1>6, RestoringSteps DEF Retag, ForwardSteps, UndoSteps
  <2> QED BY <1>3, <2>1
<1>7. CASE Restore
  <2>1. before' = before /\ Restoring
    BY <1>7, RestoreEffects, RestoringSteps DEF RestoreBreaks
  <2>2. AllWhole(disk'.config) /\ AllWhole(disk'.configStash)
    <3>1. /\ disk'.config \in {disk.config, disk.configStash, NoDir, {}}
          /\ disk'.configStash \in {disk.config, disk.configStash, NoDir, {}}
      BY <1>7, RestoreEffects DEF Volume, RestoreBreaks
    <3> QED BY <1>3, <1>4, <3>1
  <2>3. CASE job.pc = "dropConfig" /\ job'.pc = "reclear"
    <3>1. Whole(disk.data)
      BY <1>2, <1>3, <2>1, <2>3, RestoringKeepsData
    <3>2. disk'.data = disk.data
      BY <1>7, <2>3, RestoreEffects DEF Volume, RestoreBreaks
    <3>3. ~Restoring'
      BY <2>3, RestoringSteps DEF ForwardSteps, UndoSteps
    <3> QED BY <2>2, <3>1, <3>2, <3>3
  <2>4. CASE job'.pc \in ForwardSteps \cup UndoSteps
    BY <1>3, <2>1, <2>2, <2>4, RestoringSteps
  <2> QED BY <1>7, <2>3, <2>4, RestoreEffects DEF ForwardSteps, UndoSteps, RestoreBreaks
<1>8. CASE Undo
  <2>1. before' = before /\ Restoring
    BY <1>8, UndoEffects, RestoringSteps DEF UndoBreaks
  <2>2. AllWhole(disk'.config) /\ AllWhole(disk'.configStash)
    <3>1. /\ disk'.config \in {disk.config, disk.configStash, NoDir, {}}
          /\ disk'.configStash \in {disk.configStash, NoDir}
      BY <1>8, UndoEffects DEF Volume, UndoBreaks
    <3> QED BY <1>3, <1>4, <3>1
  <2>3. CASE job'.pc = "failed"
    <3>1. ~Restoring'
      BY <2>3, RestoringSteps DEF ForwardSteps, UndoSteps
    <3>2. Whole(disk'.data) \/ Whole(disk'.dataStash)
      <4>1. CASE job.pc \in {"clearData", "clearConfig"}
        <5>1. disk'.dataStash = disk.dataStash
          BY <1>8, <2>3, <4>1, UndoEffects DEF UndoBreaks
        <5> QED BY <1>2, <1>3, <2>1, <4>1, <5>1 DEF StashInv
      <4>2. CASE job.pc = "unstashData"
        <5>1. disk' = disk
          BY <1>8, <2>3, <4>2, UndoEffects DEF UndoBreaks
        <5> QED BY <1>2, <1>3, <2>1, <4>2, <5>1 DEF StashInv
      <4>3. CASE job.pc = "unstashConfig"
        <5>1. disk'.data = disk.data
          BY <1>8, <2>3, <4>3, UndoEffects DEF Volume, UndoBreaks
        <5> QED BY <1>2, <1>3, <2>1, <4>3, <5>1 DEF StashInv
      <4> QED BY <1>8, <4>1, <4>2, <4>3, UndoEffects DEF UndoSteps, UndoBreaks
    <3> QED BY <2>2, <2>3, <3>1, <3>2
  <2>4. CASE job'.pc \in ForwardSteps \cup UndoSteps
    BY <1>3, <2>1, <2>2, <2>4, RestoringSteps
  <2> QED BY <1>8, <2>3, <2>4, UndoEffects DEF ForwardSteps, UndoSteps, UndoBreaks
<1>9. CASE RollbackFails \/ Crash \/ QuitStops
  <2>1. /\ job' = NoJob /\ disk' = Swept(disk) /\ kept' = kept \cup InStashes
    BY <1>9, JobEnds DEF RollbackFails, Crash, QuitStops, Exits
  <2>2. ~Restoring'
    BY <2>1, NoJobIsJob, RestoringSteps DEF ForwardSteps, UndoSteps
  <2>3. Volume(disk', disk.data, disk.config, Missing, NoDir)
    BY <1>0, <2>1, SweptDirs
  <2>4. CASE Whole(disk.data)
    BY <1>3, <1>4, <2>2, <2>3, <2>4 DEF Volume
  <2>5. CASE Whole(disk.dataStash)
    <3>1. disk.dataStash \in kept'
      BY <2>1, <2>5 DEF InStashes
    <3> QED BY <2>5, <3>1
  <2> QED BY <1>2, <1>3, <2>4, <2>5, RestoringKeepsData
<1>10. CASE LaunchClears \/ LaunchRuns
  <2>1. job' = job /\ before' = before /\ (Restoring => disk' = disk)
    BY <1>2, <1>10, LaunchFacts, RestoringSteps
  <2>2. disk' = disk \/ disk' = Opened(disk, tag.latest)
    BY <1>10, LaunchFacts
  <2>3. Restoring' = Restoring
    BY <2>1 DEF Restoring
  <2>4. CASE disk' = disk
    BY <1>3, <2>1, <2>3, <2>4
  <2>5. CASE disk' = Opened(disk, tag.latest) /\ ~Restoring
    <3>1. /\ Whole(disk.data) => Whole(disk'.data)
          /\ disk'.dataStash = disk.dataStash
          /\ disk'.configStash = disk.configStash
          /\ disk'.config = IF disk.config = NoDir THEN {} ELSE disk.config
      BY <1>0, <1>3, <2>5, OpenedDirs
    <3> QED BY <1>3, <1>4, <2>1, <2>3, <2>5, <3>1
  <2> QED BY <2>1, <2>2, <2>4, <2>5
<1>11. CASE Quiet
  BY <1>3, <1>11 DEF Quiet, AllWhole
<1>12. CASE UNCHANGED <<job, disk, before, kept, broken, overtaken>>
  BY <1>3, <1>12 DEF Restoring
<1> QED BY <1>5, <1>6, <1>7, <1>8, <1>9, <1>10, <1>11, <1>12, QuietSteps

-----------------------------------------------------------------------------
(* The theorems.                                                           *)

UpdateInv == UpdateTypes /\ IdsInv /\ VersionsInv /\ DownInv /\ Held /\ CopyInv

LEMMA InitIdle ==
    ASSUME UpdateInit
    PROVE  /\ job = NoJob /\ ~Restoring /\ ctr.id = 1 /\ ids = 1 /\ registered = 1
           /\ ~anchored /\ disk = before /\ Whole(disk.data) /\ disk.config = {}
           /\ disk.configStash = NoDir
<1>1. job = NoJob
  BY DEF UpdateInit
<1>2. ~Restoring
  BY <1>1, NoJobIsJob, RestoringSteps DEF ForwardSteps, UndoSteps
<1> QED BY <1>1, <1>2, VersionAssumption DEF UpdateInit, Version, Whole

LEMMA InitUpdateInv == UpdateInit => UpdateInv
<1> SUFFICES ASSUME UpdateInit PROVE UpdateInv
  OBVIOUS
<1>1. job.pc = "idle" /\ ~job.rollback /\ job.new = 0 /\ job.old = 0
  BY InitIdle, NoJobIsJob
<1>2. IdsInv
  BY <1>1, InitIdle DEF IdsInv, Committing
<1>3. VersionsInv /\ DownInv /\ Held /\ CopyInv
  BY <1>1, InitIdle DEF VersionsInv, Upward, Untagged, Downward, ForwardSteps,
     UndoSteps, DownInv, Held, CopyInv
<1> QED BY <1>2, <1>3, InitUpdateTypes DEF UpdateInv

LEMMA StepUpdateInv ==
    ASSUME UpdateInv, [UpdateNext]_updateVars
    PROVE  UpdateInv'
BY StepUpdateTypes, StepIds, StepVersions, StepDown, StepHeld, StepCopy DEF UpdateInv

LEMMA UpdateInvariant == UpdateSpec => []UpdateInv
BY InitUpdateInv, StepUpdateInv, PTL DEF UpdateSpec

\* What the registry, docker, the volume and the update hold is of its type at
\* every point of an update, of a rollback and of the launches between them.
THEOREM UpdateTypesHold == UpdateSpec => []UpdateTypes
BY UpdateInvariant, PTL DEF UpdateInv

\* What an update reports is so, whichever operations of docker and of the disk
\* fail in it, and whatever a quit, a crash or a launch does meanwhile.
THEOREM OutcomeIsTrueHolds == UpdateSpec => []OutcomeIsTrue
<1>1. ASSUME UpdateInv PROVE OutcomeIsTrue
  <2>1. SUFFICES ASSUME job.pc = "register" PROVE OutcomeIsTrue
    BY DEF OutcomeIsTrue
  <2>2. /\ ctr.id = job.new
        /\ ~job.rollback => ctr.image = job.target
        /\ job.rollback /\ anchored => ctr.image = job.from
    BY <1>1, <2>1 DEF UpdateInv, IdsInv, Committing, VersionsInv
  <2>3. ASSUME job.rollback, job.backup # 0, ~overtaken
        PROVE  \E b \in disk.config :
                  /\ b.no = job.backup
                  /\ disk.data = Opened([disk EXCEPT !.data = b.data],
                                        ctr.image).data
    <3>1. PICK b \in disk.config :
             b.no = job.backup /\ disk.data = OpenedData(b.data, ctr.image)
      BY <1>1, <2>1, <2>3 DEF UpdateInv, CopyInv
    <3>2. /\ disk \in Dirs /\ ctr.image \in Nat /\ b.data \in Int
          /\ disk.config \in SUBSET Backups
      BY <1>1, <3>1, UpdateFields, DirsFields DEF UpdateInv, Backups
    <3>3. Volume([disk EXCEPT !.data = b.data], b.data, disk.config,
                 disk.dataStash, disk.configStash)
      BY <3>2, DirsWith
    <3>4. Opened([disk EXCEPT !.data = b.data], ctr.image).data =
            OpenedData(b.data, ctr.image)
      <4>1. ASSUME NEW d \in Dirs
            PROVE  Opened(d, ctr.image).data = OpenedData(d.data, ctr.image)
        BY <3>2, OpenedDirs DEF OpenedData
      <4> HIDE DEF OpenedData
      <4> QED BY <3>3, <4>1 DEF Volume
    <3> QED BY <3>1, <3>4
  <2> QED BY <2>1, <2>2, <2>3 DEF OutcomeIsTrue
<1> QED BY <1>1, UpdateInvariant, PTL

LEMMA RestoreInvariant == UpdateSpec => [](UpdateInv /\ StashInv /\ DataInv)
<1>1. UpdateInit => UpdateInv /\ StashInv /\ DataInv
  <2> SUFFICES ASSUME UpdateInit PROVE UpdateInv /\ StashInv /\ DataInv
    OBVIOUS
  <2>1. job.pc = "idle"
    BY InitIdle, NoJobIsJob
  <2>2. StashInv
    BY <2>1 DEF StashInv, Copies, Stashed, UndoSteps
  <2>3. AllWhole({}) /\ AllWhole(NoDir)
    BY Contents DEF AllWhole
  <2> QED BY <2>2, <2>3, InitIdle, InitUpdateInv DEF DataInv
<1>2. UpdateInv /\ StashInv /\ DataInv /\ [UpdateNext]_updateVars
        => (UpdateInv /\ StashInv /\ DataInv)'
  BY StepUpdateInv, StepStash, StepData DEF UpdateInv
<1> QED BY <1>1, <1>2, PTL DEF UpdateSpec

\* Whenever the app dies and whichever operations of docker and of the disk fail
\* but three steps of a restore, a whole copy of the user's data is left, unless a
\* launch has run a container on a volume under restore.
THEOREM DataSurvivesHolds == UpdateSpec => []DataSurvives
<1>1. ASSUME UpdateInv, StashInv, DataInv PROVE DataSurvives
  <2>1. SUFFICES ASSUME ~overtaken, Safe, \A c \in kept : ~Whole(c)
                 PROVE  DataSurvives
    BY DEF DataSurvives, Safe
  <2>2. Whole(disk.data) \/ Whole(disk.dataStash)
    BY <1>1, <2>1, RestoringKeepsData DEF UpdateInv, DataInv
  <2> QED BY <2>2 DEF DataSurvives
<1> QED BY <1>1, RestoreInvariant, PTL

\* A restore that fails while its stashes hold the whole volume, and whose catch
\* block gets through, leaves the volume as it found it, backups included.
THEOREM UndoneIfStashedHolds == UpdateSpec => UndoneIfStashed
<1>1. ASSUME UpdateInv, StashInv, [UpdateNext]_updateVars
      PROVE  Restoring /\ job'.pc = "failed" /\ ~overtaken
                       /\ broken' \subseteq Stashed =>
                disk'.data = before.data /\ disk'.config = before.config
  <2>1. SUFFICES ASSUME Restoring, job'.pc = "failed", ~overtaken,
                        broken' \subseteq Stashed
                 PROVE  disk'.data = before.data /\ disk'.config = before.config
    OBVIOUS
  <2>2. /\ UpdateTypes /\ Held
        /\ job.pc \in ForwardSteps \cup UndoSteps /\ job.pc # "failed"
    BY <1>1, <2>1, RestoringSteps DEF UpdateInv, ForwardSteps, UndoSteps
  <2>3. ~Backup /\ ~Retag /\ ~RollbackFails /\ ~Quiet /\ job' # job
    BY <2>1, <2>2 DEF Backup, Retag, RollbackFails, Quiet, ForwardSteps, UndoSteps
  <2>4. ~LaunchClears /\ ~LaunchRuns /\ ~Crash /\ ~QuitStops
    BY <2>1, <2>2, <2>3, LaunchFacts, NoJobIsJob DEF Crash, QuitStops, Exits
  <2>5. ~Restore
    BY <2>1, <2>2, RestoreEffects DEF RestoreBreaks
  <2>6. Undo
    BY <1>1, <2>2, <2>3, <2>4, <2>5, QuietSteps
  <2> QED BY <1>1, <2>1, <2>2, <2>6, FailedRestoreData
<1> QED BY <1>1, RestoreInvariant, PTL DEF UpdateSpec, UndoneIfStashed
=============================================================================
