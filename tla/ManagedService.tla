--------------------------- MODULE ManagedService ---------------------------
(***************************************************************************)
(* A managed service and its LiveKit sidecar: the reference-counting       *)
(* supervisor (runtime/src/managed-services/supervisor.ts) with the hooks  *)
(* of LiveKitSupervisor (runtime/src/voice/supervisor.ts).                 *)
(*                                                                         *)
(* claim(), release(), shutdown() and restart() decide at once from the    *)
(* state they see and append an operation to opChain, which runs one       *)
(* operation at a time; the hooks doStart() and doStop() take long, and    *)
(* further calls arrive meanwhile.                                         *)
(***************************************************************************)
EXTENDS Integers, Sequences, FiniteSets

CONSTANTS
    Plugin,                \* the plugins that may claim the service
    QuarantineThreshold,   \* QUARANTINE_THRESHOLD
    MaxOps,                \* bound of the model: operations in opChain
    MaxRotations           \* bound of the model: rotations of the secret

ASSUME ServiceAssumption ==
    /\ QuarantineThreshold \in Nat \ {0}
    /\ MaxOps \in Nat \ {0} /\ MaxRotations \in Nat

VARIABLES
    state,      \* currentState
    claimers,   \* plugins that hold a claim
    failures,   \* start failures in the quarantine window, up to the threshold
    ops,        \* opChain: the operation that runs and those behind it
    hook,       \* where the head operation is: "none", or in doStop ("stop")
                \* or doStart (before the spawn "start", polling "probe")
    sidecar,    \* the process the supervisor holds and the secret of its start
    leftover,   \* a process that was signalled and has not exited yet
    stored,     \* the secret in the database, counted by rotations
    fault       \* why the service is not up: "none", "failed", "shutdown"

vars == <<state, claimers, failures, ops, hook, sidecar, leftover, stored, fault>>

NoSidecar == [proc |-> "none", secret |-> 0]

Init ==
    /\ state = "stopped" /\ claimers = {} /\ failures = 0
    /\ ops = <<>> /\ hook = "none"
    /\ sidecar = NoSidecar /\ leftover = FALSE
    /\ stored = 0 /\ fault = "none"

Queued(op) == Len(ops) < MaxOps /\ ops' = Append(ops, op)

-----------------------------------------------------------------------------
(* The calls.                                                              *)

Claim(p) ==
    /\ claimers' = claimers \cup {p}
    /\ \/ state \in {"quarantined", "running", "starting"} /\ UNCHANGED ops
       \/ state \in {"stopped", "stopping"} /\ Queued("claim")
    /\ UNCHANGED <<state, failures, hook, sidecar, leftover, stored, fault>>

\* Variant of Release: only a running service is stopped.
ReleaseRunning(p) ==
    /\ p \in claimers
    /\ claimers' = claimers \ {p}
    /\ IF claimers' # {} \/ state # "running" THEN UNCHANGED ops
       ELSE Queued("release")
    /\ UNCHANGED <<state, failures, hook, sidecar, leftover, stored, fault>>

Release(p) ==
    /\ p \in claimers
    /\ claimers' = claimers \ {p}
    /\ IF claimers' # {} THEN UNCHANGED ops ELSE Queued("release")
    /\ UNCHANGED <<state, failures, hook, sidecar, leftover, stored, fault>>

\* Variant of Shutdown: the state is reset whatever is running.
ShutdownAtOnce ==
    /\ claimers' = {} /\ failures' = 0 /\ fault' = "shutdown"
    /\ state' = "stopped"
    /\ UNCHANGED <<ops, hook, sidecar, leftover, stored>>

Shutdown ==
    /\ claimers' = {} /\ failures' = 0
    /\ \/ /\ state \in {"stopped", "quarantined"}
          /\ state' = "stopped" /\ fault' = "shutdown"
          /\ UNCHANGED ops
       \/ /\ state \notin {"stopped", "quarantined"}
          /\ Queued("shutdown")
          /\ UNCHANGED <<state, fault>>
    /\ UNCHANGED <<hook, sidecar, leftover, stored>>

\* restart(), called by adminRestart().
Restart ==
    /\ state = "running"
    /\ Queued("restart")
    /\ UNCHANGED <<state, claimers, failures, hook, sidecar, leftover, stored, fault>>

\* rotateSecret(): new credentials are stored, then restart().
RotateSecret ==
    /\ stored < MaxRotations
    /\ stored' = stored + 1
    /\ IF state = "running" THEN Queued("restart") ELSE UNCHANGED ops
    /\ UNCHANGED <<state, claimers, failures, hook, sidecar, leftover, fault>>

-----------------------------------------------------------------------------
(* The operations, one at a time.                                          *)

Done == ops' = Tail(ops) /\ hook' = "none"

AtHead(op) == ops # <<>> /\ Head(ops) = op /\ hook = "none"

\* doStart() reads the secret before its first await.
EnterStart(s) ==
    /\ state' = "starting" /\ hook' = "start"
    /\ sidecar' = [s EXCEPT !.secret = stored]
    /\ UNCHANGED ops

EnterStop == state' = "stopping" /\ hook' = "stop" /\ UNCHANGED ops

BeginClaim ==
    /\ AtHead("claim")
    /\ IF claimers = {} \/ state = "running"
       THEN Done /\ UNCHANGED <<state, sidecar>>
       ELSE EnterStart(sidecar)
    /\ UNCHANGED <<claimers, failures, leftover, stored, fault>>

\* Variant of BeginRelease: the claimers are not looked at again.
BeginReleaseBlindly ==
    /\ AtHead("release")
    /\ IF state \in {"stopped", "quarantined"}
       THEN Done /\ UNCHANGED state
       ELSE EnterStop
    /\ UNCHANGED <<claimers, failures, sidecar, leftover, stored, fault>>

BeginRelease ==
    /\ AtHead("release")
    /\ IF claimers # {} \/ state \in {"stopped", "quarantined"}
       THEN Done /\ UNCHANGED state
       ELSE EnterStop
    /\ UNCHANGED <<claimers, failures, sidecar, leftover, stored, fault>>

BeginShutdown ==
    /\ AtHead("shutdown")
    /\ EnterStop
    /\ UNCHANGED <<claimers, failures, sidecar, leftover, stored, fault>>

BeginRestart ==
    /\ AtHead("restart")
    /\ IF state # "running" THEN Done /\ UNCHANGED state ELSE EnterStop
    /\ UNCHANGED <<claimers, failures, sidecar, leftover, stored, fault>>

\* doStop() returns: the process exited, or the grace period is over and it
\* was sent SIGKILL. A restart goes on to doStart().
StopReturns(exited) ==
    /\ hook = "stop"
    /\ sidecar.proc # "alive" => exited
    /\ leftover' = (leftover \/ ~exited)
    /\ IF Head(ops) = "restart"
       THEN EnterStart(NoSidecar) /\ UNCHANGED fault
       ELSE /\ state' = "stopped" /\ Done /\ sidecar' = NoSidecar
            /\ fault' = IF Head(ops) = "shutdown" THEN "shutdown" ELSE "none"
    /\ UNCHANGED <<claimers, failures, stored>>

\* doStart() writes the configuration with the secret it read, and spawns.
Spawn ==
    /\ hook = "start"
    /\ hook' = "probe"
    /\ sidecar' = [sidecar EXCEPT !.proc = "alive"]
    /\ UNCHANGED <<state, claimers, failures, ops, leftover, stored, fault>>

\* Something answers on the signalling port, the sidecar or its predecessor.
ProbeSucceeds ==
    /\ hook = "probe"
    /\ sidecar.proc = "alive" \/ leftover
    /\ state' = "running" /\ fault' = "none" /\ Done
    /\ failures' = IF Head(ops) = "claim" THEN 0 ELSE failures
    /\ UNCHANGED <<claimers, sidecar, leftover, stored>>

\* Variant of StartFailed: no quarantine.
StartFailedAgain ==
    /\ Done /\ fault' = "failed"
    /\ failures' = failures + 1 /\ state' = "stopped"

\* The catch of a claim counts towards quarantine, that of a restart does not.
StartFailed ==
    /\ Done /\ fault' = "failed"
    /\ IF Head(ops) = "claim"
       THEN /\ failures' = IF failures < QuarantineThreshold
                           THEN failures + 1 ELSE failures
            /\ state' = IF failures' >= QuarantineThreshold
                        THEN "quarantined" ELSE "stopped"
       ELSE state' = "stopped" /\ UNCHANGED failures

SpawnFails ==
    /\ hook = "start"
    /\ StartFailed
    /\ UNCHANGED <<claimers, sidecar, leftover, stored>>

\* Variants of ProbeTimesOut: the process is kept; there is no deadline.
ProbeKeepsProcess ==
    /\ hook = "probe"
    /\ StartFailed
    /\ UNCHANGED <<claimers, sidecar, leftover, stored>>

ProbeGoesOn == FALSE /\ UNCHANGED vars

\* The startup timeout: the process is killed and not waited for.
ProbeTimesOut ==
    /\ hook = "probe"
    /\ StartFailed
    /\ sidecar' = NoSidecar
    /\ leftover' = (leftover \/ sidecar.proc = "alive")
    /\ UNCHANGED <<claimers, stored>>

-----------------------------------------------------------------------------
(* The processes, and time.                                                *)

SidecarDies ==
    /\ sidecar.proc = "alive"
    /\ sidecar' = [sidecar EXCEPT !.proc = "dead"]
    /\ UNCHANGED <<state, claimers, failures, ops, hook, leftover, stored, fault>>

LeftoverExits ==
    /\ leftover /\ leftover' = FALSE
    /\ UNCHANGED <<state, claimers, failures, ops, hook, sidecar, stored, fault>>

FailureAges ==
    /\ failures > 0 /\ failures' = failures - 1
    /\ UNCHANGED <<state, claimers, ops, hook, sidecar, leftover, stored, fault>>

RunOp ==
    \/ BeginClaim \/ BeginRelease \/ BeginShutdown \/ BeginRestart
    \/ \E exited \in BOOLEAN : StopReturns(exited)
    \/ Spawn \/ ProbeSucceeds \/ SpawnFails \/ ProbeTimesOut

Next ==
    \/ \E p \in Plugin : Claim(p) \/ Release(p)
    \/ Shutdown \/ Restart \/ RotateSecret
    \/ BeginClaim \/ BeginRelease \/ BeginShutdown \/ BeginRestart
    \/ \E exited \in BOOLEAN : StopReturns(exited)
    \/ Spawn \/ ProbeSucceeds \/ SpawnFails \/ ProbeTimesOut
    \/ SidecarDies \/ LeftoverExits \/ FailureAges

Spec == Init /\ [][Next]_vars

\* Operations run, doStop() and doStart() have deadlines.
FairSpec == Spec /\ WF_vars(RunOp)

-----------------------------------------------------------------------------
TypeOK ==
    /\ state \in {"stopped", "starting", "running", "stopping", "quarantined"}
    /\ claimers \subseteq Plugin
    /\ failures \in 0..QuarantineThreshold
    /\ ops \in Seq({"claim", "release", "shutdown", "restart"})
    /\ Len(ops) <= MaxOps
    /\ hook \in {"none", "stop", "start", "probe"}
    /\ sidecar \in [proc : {"none", "alive", "dead"}, secret : 0..MaxRotations]
    /\ leftover \in BOOLEAN
    /\ stored \in 0..MaxRotations
    /\ fault \in {"none", "failed", "shutdown"}

\* The state that claim() decides from says which hook is running: "starting"
\* and "stopping" are seen exactly while doStart() and doStop() run.
StateShowsHook ==
    /\ hook = "stop" <=> state = "stopping"
    /\ hook \in {"start", "probe"} <=> state = "starting"
    /\ hook # "none" => ops # <<>>

\* No process is left behind by a service that is not up, and none is
\* overwritten by the next spawn.
NoStraySidecar ==
    state \in {"stopped", "quarantined"} \/ hook = "start"
        => sidecar.proc = "none"

\* Once all operations are done, a service nobody claims is not running.
RunningIsClaimed ==
    ops = <<>> /\ state = "running" => claimers # {}

\* Once all operations are done, a claimed service runs, unless its last start
\* failed or shutdown() stopped it.
ClaimedIsServed ==
    ops = <<>> /\ claimers # {} => state = "running" \/ fault # "none"

\* Once all operations are done the service runs for those who claim it.
ServedIffClaimed == RunningIsClaimed /\ ClaimedIsServed

\* The queue of operations never gets stuck behind a hook.
OpsMoveOn == []<>(hook = "none")

\* voice/supervisor.ts, rotateSecret(): LiveKit is restarted so that the new
\* secret takes effect.
\* Not kept by the code: see the README.
SecretTakesEffect ==
    ops = <<>> /\ state = "running" => sidecar.secret = stored
=============================================================================
