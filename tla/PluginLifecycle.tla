--------------------------- MODULE PluginLifecycle ---------------------------
(***************************************************************************)
(* The life of a plugin backend inside the runtime: SubprocessManager      *)
(* (runtime/src/subprocess.ts) spawns, stops, restarts and quarantines its *)
(* process, Watchdog (runtime/src/watchdog.ts) pings it, and boot()        *)
(* (runtime/src/main.ts) loads, registers and finally shuts it down.       *)
(*                                                                         *)
(* The runtime is one JavaScript event loop: an action is one callback     *)
(* together with the promise continuations that run right behind it, so    *)
(* interleavings happen only where the code really yields: the ready       *)
(* handshake, the respawn timer, the SIGTERM grace period, a process exit. *)
(***************************************************************************)
EXTENDS Integers, FiniteSets

CONSTANTS
    Plugin,               \* the installed plugins that have a backend
    QuarantineThreshold,  \* QUARANTINE_THRESHOLD, crashes in the window
    MaxMissedPings,       \* DEFAULT_MAX_MISSED_PINGS
    WithService,          \* plugins whose manifest names a managed service
    ServeOptIn            \* plugins that opted into the serve-ready handshake

ASSUME LifecycleAssumption ==
    /\ QuarantineThreshold \in Nat \ {0}
    /\ MaxMissedPings \in Nat \ {0}
    /\ WithService \subseteq Plugin
    /\ ServeOptIn \subseteq Plugin

VARIABLES
    phase,    \* "boot", "up", "stopping", "down" (stopAll done), "abandoned"
    proc,     \* SubprocessManager's entry of each plugin and its OS process
    watch,    \* Watchdog's entry of each plugin and the ping on its way
    host,     \* what the rest of the runtime holds on a plugin's behalf
    awaited,  \* the plugins whose stop() stopAll still awaits
    hist      \* what was asked and answered, for the properties

vars == <<phase, proc, watch, host, awaited, hist>>

Untracked == -1

ProcState == {"absent", "starting", "ready", "stopping", "stopped",
              "quarantined"}

-----------------------------------------------------------------------------
(* SubprocessManager, as functions on one plugin's record.                 *)

Spawnable(r) == r.state \in {"absent", "stopped"}

\* The synchronous part of spawn(); "by" says who awaits the handshake.
Spawned(r, by) ==
    [r EXCEPT !.state = "starting", !.os = "alive", !.spawner = by,
              !.hung = FALSE]

\* Variant of CountsAsCrash: shuttingDown is not looked at.
CountsInShutdown(r) == r.state \notin {"stopping", "stopped"}

CountsAsCrash(r) ==
    r.state \notin {"stopping", "stopped"} /\ phase \in {"boot", "up"}

\* Variant of HandleExit: a quarantine that leaves the timer.
HandleExitArmed(r) ==
    IF ~CountsAsCrash(r) THEN r
    ELSE [r EXCEPT !.crashes = @ + 1, !.timer = TRUE,
                   !.state = IF r.crashes + 1 >= QuarantineThreshold
                             THEN "quarantined" ELSE "stopped"]

\* handleExit(): the crash is recorded and ends in quarantine or in a timer.
HandleExit(r) ==
    IF ~CountsAsCrash(r) THEN r
    ELSE LET quarantine == r.crashes + 1 >= QuarantineThreshold
         IN  [r EXCEPT !.crashes = @ + 1,
                       !.state = IF quarantine THEN "quarantined" ELSE "stopped",
                       !.timer = ~quarantine]

\* spawn() resumes after a failed handshake.
SpawnFails(r) ==
    IF r.spawner = "none" THEN r
    ELSE [r EXCEPT !.state = "stopped", !.spawner = "none"]

\* stop() resumes once the process has exited.
StopEnds(r) ==
    IF r.stopWait = "none" THEN r
    ELSE [r EXCEPT !.state = "stopped", !.stopWait = "none"]

\* On an exit Bun calls onExit and resumes who awaits "exited", in an order the
\* code must not depend on: "callbackFirst" is either.
AfterExit(r, callbackFirst) ==
    LET gone == [r EXCEPT !.os = "none"]
    IN  StopEnds(IF callbackFirst THEN SpawnFails(HandleExit(gone))
                                  ELSE HandleExit(SpawnFails(gone)))

\* The record as handleExit() finds it.
AtExit(r, callbackFirst) == IF callbackFirst THEN r ELSE SpawnFails(r)

\* Variant of ExitUnloads: subscriptions are dropped by a graceful stop only.
UnloadsOnStop(r, callbackFirst) == r.stopWait # "none"

ExitUnloads(r, callbackFirst) ==
    r.stopWait # "none" \/ CountsAsCrash(AtExit(r, callbackFirst))

ReachesQuarantine(r, callbackFirst) ==
    CountsAsCrash(AtExit(r, callbackFirst)) /\ r.crashes + 1 >= QuarantineThreshold

\* The synchronous part of stop(). A second call while the first one waits
\* only repeats the signal, its continuation repeats that of the first.
StopIgnored(r) == r.state \in {"absent", "stopped", "stopping"}

StopBegins(r) ==
    IF StopIgnored(r) THEN r
    ELSE IF r.os = "none" THEN [r EXCEPT !.state = "stopped"]
    ELSE [r EXCEPT !.state = "stopping",
                   !.stopWait = IF @ = "none" THEN "term" ELSE @]

StopUnloads(r) == ~StopIgnored(r) /\ r.os = "none"

Killed(r) == IF r.os = "alive" THEN [r EXCEPT !.os = "killed"] ELSE r

-----------------------------------------------------------------------------
(* The listeners main.ts registers on the manager.                         *)

\* fireUnload(): drop subscriptions, presence and recorded service claims.
Unloaded(h, p) ==
    [h EXCEPT !.subs = "none",
              !.claim = @ /\ ~(h.boot = "loaded" /\ p \in WithService)]

UnloadedIf(h, p, b) == IF b THEN Unloaded(h, p) ELSE h

Registered(h, p) ==
    [h EXCEPT !.boot = "loaded",
              !.registry = IF p \in ServeOptIn THEN "greyed" ELSE "serving"]

\* Variant of Reclaimed: onRespawn does not claim the service again.
NotReclaimed(h, p) == h

\* onRespawn(): the service of a loaded plugin is claimed again.
Reclaimed(h, p) ==
    [h EXCEPT !.claim = @ \/ (h.boot = "loaded" /\ p \in WithService)]

\* A process starts anew: what the slug was subscribed to before is not its own.
Restarted(h) == [h EXCEPT !.subs = IF @ = "own" THEN "stale" ELSE @]

-----------------------------------------------------------------------------
Init ==
    /\ phase = "boot"
    /\ proc = [p \in Plugin |->
                 [state |-> "absent", os |-> "none", hung |-> FALSE,
                  spawner |-> "none", stopWait |-> "none", timer |-> FALSE,
                  crashes |-> 0]]
    /\ watch = [p \in Plugin |->
                  [missed |-> Untracked, ping |-> FALSE, silent |-> 0]]
    /\ host = [p \in Plugin |->
                 [boot |-> "waiting", registry |-> "none", subs |-> "none",
                  claim |-> FALSE]]
    /\ awaited = {}
    /\ hist = [p \in Plugin |->
                 [askedIn |-> "none", answered |-> FALSE, gotReady |-> FALSE,
                  signalled |-> FALSE, inherited |-> FALSE, quarantined |-> FALSE]]

FreshSession(p) ==
    /\ watch' = [watch EXCEPT ![p].ping = FALSE, ![p].silent = 0]
    /\ hist' = [hist EXCEPT ![p].signalled = FALSE, ![p].gotReady = FALSE,
                            ![p].inherited = watch[p].missed # Untracked]

(* boot(): plugins are loaded one after the other.                         *)

BootIdle == \A p \in Plugin :
                host[p].boot \in {"waiting", "loaded", "skipped"}

BootSpawn(p) ==
    /\ phase = "boot" /\ BootIdle /\ host[p].boot = "waiting"
    /\ \/ /\ proc' = [proc EXCEPT ![p] = Spawned(@, "boot")]
          /\ host' = [host EXCEPT ![p] = [Restarted(@) EXCEPT !.boot = "handshake"]]
          /\ FreshSession(p)
       \/ /\ host' = [host EXCEPT ![p].boot = "skipped"]   \* SPAWN_FAILED
          /\ UNCHANGED <<proc, watch, hist>>
    /\ UNCHANGED <<phase, awaited>>

\* The claim of a managed service is answered; a quarantined service unwinds
\* the load.
ClaimSettles(p) ==
    /\ host[p].boot = "claim"
    /\ \/ /\ host' = [host EXCEPT ![p] = Registered(@, p)]
          /\ UNCHANGED <<proc, watch>>
       \/ /\ proc' = [proc EXCEPT ![p] = StopBegins(@)]
          /\ LET waits == proc'[p].stopWait # "none" /\ ~StopIgnored(proc[p])
             IN  /\ host' = [host EXCEPT ![p] =
                       [UnloadedIf(@, p, StopUnloads(proc[p]))
                          EXCEPT !.boot = IF waits THEN "unwind" ELSE "skipped"]]
                 /\ watch' = IF waits THEN watch
                             ELSE [watch EXCEPT ![p].missed = Untracked]
    /\ UNCHANGED <<phase, awaited, hist>>

BootDone ==
    /\ phase = "boot"
    /\ \A p \in Plugin : host[p].boot \in {"loaded", "skipped"}
    /\ phase' = "up"
    /\ UNCHANGED <<proc, watch, host, awaited, hist>>

-----------------------------------------------------------------------------
(* The handshake.                                                          *)

\* "ready" arrives and spawn() resumes. Boot tracks the plugin and claims its
\* service; a respawn only claims again. Frames that came before "ready", or in
\* the same chunk, have had their handlers run.
PluginReady(p) ==
    /\ proc[p].spawner # "none" /\ proc[p].os # "none" /\ ~proc[p].hung
    /\ proc' = [proc EXCEPT ![p].state = "ready", ![p].spawner = "none"]
    /\ host' = [host EXCEPT ![p] =
          IF proc[p].spawner = "boot"
          THEN IF p \in WithService
               THEN [@ EXCEPT !.boot = "claim", !.claim = TRUE]
               ELSE Registered(@, p)
          ELSE Reclaimed(@, p)]
    /\ watch' = IF proc[p].spawner = "boot"
                THEN [watch EXCEPT ![p].missed = 0] ELSE watch
    /\ hist' = [hist EXCEPT ![p].gotReady = TRUE]
    /\ UNCHANGED <<phase, awaited>>

\* Variants of HandshakeTimeout: it schedules a retry; it kills nothing; it
\* is set for respawns only.
TimeoutRetries(p) ==
    /\ proc[p].spawner # "none"
    /\ proc' = [proc EXCEPT ![p] = [Killed(SpawnFails(@)) EXCEPT !.timer = TRUE]]
    /\ host' = IF proc[p].spawner = "boot"
               THEN [host EXCEPT ![p].boot = "skipped"] ELSE host
    /\ UNCHANGED <<phase, watch, awaited, hist>>

TimeoutKeepsProcess(p) ==
    /\ proc[p].spawner # "none"
    /\ proc' = [proc EXCEPT ![p] = SpawnFails(@)]
    /\ host' = IF proc[p].spawner = "boot"
               THEN [host EXCEPT ![p].boot = "skipped"] ELSE host
    /\ UNCHANGED <<phase, watch, awaited, hist>>

TimeoutOfRespawnOnly(p) ==
    /\ proc[p].spawner = "respawn"
    /\ proc' = [proc EXCEPT ![p] = Killed(SpawnFails(@))]
    /\ UNCHANGED <<phase, watch, host, awaited, hist>>

\* The handshake takes too long: spawn() kills the process and fails.
HandshakeTimeout(p) ==
    /\ proc[p].spawner # "none"
    /\ proc' = [proc EXCEPT ![p] = Killed(SpawnFails(@))]
    /\ host' = IF proc[p].spawner = "boot"
               THEN [host EXCEPT ![p].boot = "skipped"] ELSE host
    /\ UNCHANGED <<phase, watch, awaited, hist>>

-----------------------------------------------------------------------------
(* What the process does.                                                  *)

\* Frames are handled from the spawn on, before "ready" too, until the transport
\* is closed: when the process has exited, or its handshake has failed.
Talking(p) == proc[p].os # "none" /\ ~proc[p].hung /\ proc[p].state # "stopped"

Subscribe(p) ==
    /\ Talking(p) /\ host[p].subs = "none"
    /\ host' = [host EXCEPT ![p].subs = "own"]
    /\ UNCHANGED <<phase, proc, watch, awaited, hist>>

ServeReady(p) ==
    /\ Talking(p) /\ p \in ServeOptIn /\ ~hist[p].signalled
    /\ hist' = [hist EXCEPT ![p].signalled = TRUE]
    /\ host' = [host EXCEPT ![p].registry =
                  IF @ = "greyed" THEN "serving" ELSE @]
    /\ UNCHANGED <<phase, proc, watch, awaited>>

\* Variant of Pong: the count of missed pings is not reset.
PongKeepsCount(p) ==
    /\ Talking(p) /\ watch[p].ping
    /\ watch' = [watch EXCEPT ![p].ping = FALSE, ![p].silent = 0]
    /\ hist' = [hist EXCEPT ![p].inherited = FALSE]
    /\ UNCHANGED <<phase, proc, host, awaited>>

Pong(p) ==
    /\ Talking(p) /\ watch[p].ping
    /\ watch' = [watch EXCEPT ![p] =
                   [missed |-> 0, ping |-> FALSE, silent |-> 0]]
    /\ hist' = [hist EXCEPT ![p].inherited = FALSE]
    /\ UNCHANGED <<phase, proc, host, awaited>>

\* The process is not heard any more: it hangs, or its pipe is broken.
Hang(p) ==
    /\ proc[p].os = "alive" /\ ~proc[p].hung
    /\ proc' = [proc EXCEPT ![p].hung = TRUE]
    /\ UNCHANGED <<phase, watch, host, awaited, hist>>

\* An IPC line beyond the cap: the transport has the process killed, and reads
\* nothing more if the line came from the process.
IpcOverflow(p) ==
    /\ proc[p].os = "alive"
    /\ \E inbound \in BOOLEAN :
          proc' = [proc EXCEPT ![p].os = "killed", ![p].hung = @ \/ inbound]
    /\ UNCHANGED <<phase, watch, host, awaited, hist>>

\* The process exits; onExit, spawn() and stop() resume behind it.
ProcessExit(p, callbackFirst) ==
    /\ proc[p].os # "none"
    /\ proc' = [proc EXCEPT ![p] = AfterExit(@, callbackFirst)]
    /\ host' = [host EXCEPT ![p] =
         [UnloadedIf(@, p, ExitUnloads(proc[p], callbackFirst)) EXCEPT
            !.boot = IF \/ host[p].boot = "handshake" /\ proc[p].spawner = "boot"
                        \/ host[p].boot = "unwind"
                     THEN "skipped" ELSE host[p].boot]]
    /\ watch' = [watch EXCEPT ![p].missed =
                   IF host[p].boot = "unwind" THEN Untracked ELSE @]
    /\ hist' = [hist EXCEPT
                  ![p].quarantined =
                     @ \/ ReachesQuarantine(proc[p], callbackFirst),
                  ![p].answered = @ \/ hist[p].askedIn # "none"]
    /\ UNCHANGED <<phase, awaited>>

-----------------------------------------------------------------------------
(* Timers of the manager and of the watchdog.                              *)

RespawnFires(p) ==
    /\ proc[p].timer /\ phase \in {"boot", "up"}
    /\ Spawnable(proc[p])
    /\ \/ /\ proc' = [proc EXCEPT ![p] = [Spawned(@, "respawn") EXCEPT !.timer = FALSE]]
          /\ host' = [host EXCEPT ![p] = Restarted(@)]
          /\ FreshSession(p)
       \/ /\ proc' = [proc EXCEPT ![p].timer = FALSE]      \* SPAWN_FAILED
          /\ UNCHANGED <<host, watch, hist>>
    /\ UNCHANGED <<phase, awaited>>

\* Variant of GraceExpires: no SIGKILL follows the SIGTERM.
GraceWithoutKill(p) ==
    /\ proc[p].stopWait = "term"
    /\ proc' = [proc EXCEPT ![p].stopWait = "kill"]
    /\ UNCHANGED <<phase, watch, host, awaited, hist>>

\* stop() has waited long enough and sends SIGKILL.
GraceExpires(p) ==
    /\ proc[p].stopWait = "term"
    /\ proc' = [proc EXCEPT ![p] = [Killed(@) EXCEPT !.stopWait = "kill"]]
    /\ UNCHANGED <<phase, watch, host, awaited, hist>>

\* A crash leaves the ten-minute window.
CrashAges(p) ==
    /\ proc[p].crashes > 0
    /\ proc' = [proc EXCEPT ![p].crashes = @ - 1]
    /\ UNCHANGED <<phase, watch, host, awaited, hist>>

MissesTooMany(p) ==
    /\ watch[p].missed # Untracked /\ proc[p].state = "ready"
    /\ watch[p].missed + 1 >= MaxMissedPings

\* One tick over the tracked plugins: forget, kill, or count and ping again.
\* "silent" counts the ticks at which the process was ready and had not answered
\* since the tick before.
Tick ==
    /\ phase = "up"
    /\ watch' = [p \in Plugin |->
         IF watch[p].missed = Untracked THEN watch[p]
         ELSE IF proc[p].state # "ready" THEN [watch[p] EXCEPT !.missed = Untracked]
         ELSE IF MissesTooMany(p)
              THEN [watch[p] EXCEPT !.missed = Untracked, !.silent = @ + 1]
              ELSE [missed |-> watch[p].missed + 1, ping |-> TRUE,
                    silent |-> watch[p].silent + 1]]
    /\ proc' = [p \in Plugin |->
         IF MissesTooMany(p) THEN Killed(proc[p]) ELSE proc[p]]
    /\ UNCHANGED <<phase, host, awaited, hist>>

-----------------------------------------------------------------------------
(* Requests from outside.                                                  *)

\* An administrator disables the plugin, or Central revokes it: stop(slug).
AskStop(p) ==
    /\ phase = "up" /\ proc[p].state # "absent"
    /\ proc' = [proc EXCEPT ![p] = StopBegins(@)]
    /\ host' = [host EXCEPT ![p] = UnloadedIf(@, p, StopUnloads(proc[p]))]
    /\ hist' = [hist EXCEPT
                  ![p].askedIn = IF StopIgnored(proc[p]) /\ @ # "none"
                                 THEN @ ELSE proc[p].state,
                  ![p].answered = @ \/ proc'[p].stopWait = "none"
                                    \/ StopIgnored(proc[p])]
    /\ UNCHANGED <<phase, watch, awaited>>

\* shutdown(): the watchdog stops, stopAll() clears the timers and stops all.
Shutdown ==
    /\ phase = "up"
    /\ phase' = "stopping"
    /\ watch' = [p \in Plugin |-> [watch[p] EXCEPT !.missed = Untracked]]
    /\ proc' = [p \in Plugin |-> [StopBegins(proc[p]) EXCEPT !.timer = FALSE]]
    /\ host' = [p \in Plugin |->
                  UnloadedIf(host[p], p, StopUnloads(proc[p]))]
    /\ awaited' = {p \in Plugin : ~StopIgnored(proc[p])}
    /\ UNCHANGED hist

\* Variant of StopAllReturns: the exits are not awaited.
StopAllAtOnce ==
    /\ phase = "stopping"
    /\ phase' = "down"
    /\ UNCHANGED <<proc, watch, host, awaited, hist>>

\* Every stop() that stopAll() started has resolved.
StopAllReturns ==
    /\ phase = "stopping"
    /\ \A p \in awaited : proc[p].stopWait = "none"
    /\ phase' = "down"
    /\ UNCHANGED <<proc, watch, host, awaited, hist>>

\* withShutdownDeadline() gives the step up.
StopAllAbandoned ==
    /\ phase = "stopping"
    /\ phase' = "abandoned"
    /\ UNCHANGED <<proc, watch, host, awaited, hist>>

-----------------------------------------------------------------------------
Next ==
    \/ BootDone \/ Tick \/ Shutdown \/ StopAllReturns \/ StopAllAbandoned
    \/ \E p \in Plugin :
          \/ BootSpawn(p) \/ ClaimSettles(p)
          \/ PluginReady(p) \/ HandshakeTimeout(p)
          \/ Subscribe(p) \/ ServeReady(p) \/ Pong(p)
          \/ Hang(p) \/ IpcOverflow(p)
          \/ \E callbackFirst \in BOOLEAN : ProcessExit(p, callbackFirst)
          \/ RespawnFires(p) \/ GraceExpires(p) \/ CrashAges(p)
          \/ AskStop(p)

Spec == Init /\ [][Next]_vars

\* The event loop runs expired timers, and the kernel ends a killed process.
Fairness ==
    /\ WF_vars(BootDone) /\ WF_vars(Tick) /\ WF_vars(StopAllReturns)
    /\ \A p \in Plugin :
          /\ WF_vars(BootSpawn(p)) /\ WF_vars(ClaimSettles(p))
          /\ WF_vars(RespawnFires(p)) /\ WF_vars(GraceExpires(p))
          /\ WF_vars(HandshakeTimeout(p))
          /\ WF_vars(/\ proc[p].os = "killed"
                     /\ \E callbackFirst \in BOOLEAN : ProcessExit(p, callbackFirst))

FairSpec == Spec /\ Fairness

-----------------------------------------------------------------------------
Proc ==
    [state : ProcState, os : {"none", "alive", "killed"}, hung : BOOLEAN,
     spawner : {"none", "boot", "respawn"}, stopWait : {"none", "term", "kill"},
     timer : BOOLEAN, crashes : 0..QuarantineThreshold]

Watched ==
    [missed : Untracked..(MaxMissedPings - 1), ping : BOOLEAN, silent : Nat]

Hosted ==
    [boot : {"waiting", "handshake", "claim", "unwind", "loaded", "skipped"},
     registry : {"none", "greyed", "serving"},
     subs : {"none", "own", "stale"}, claim : BOOLEAN]

Recorded ==
    [askedIn : {"none"} \cup ProcState, answered : BOOLEAN, gotReady : BOOLEAN,
     signalled : BOOLEAN, inherited : BOOLEAN, quarantined : BOOLEAN]

TypeOK ==
    /\ phase \in {"boot", "up", "stopping", "down", "abandoned"}
    /\ proc \in [Plugin -> Proc]
    /\ watch \in [Plugin -> Watched]
    /\ host \in [Plugin -> Hosted]
    /\ awaited \subseteq Plugin
    /\ hist \in [Plugin -> Recorded]

(* The inductive invariant behind the safety properties below.             *)

\* What the fields of one plugin's entry say about each other: somebody awaits
\* the handshake of a process exactly while it is starting (or being stopped
\* meanwhile); an armed timer means that nothing runs and the budget is not
\* spent; what may still crash has crashes left.
Coherent(r) ==
    /\ r.spawner # "none" => /\ r.state \in {"starting", "stopping"}
                             /\ r.os # "none"
                             /\ r.crashes < QuarantineThreshold
    /\ r.state = "starting" => r.spawner # "none"
    /\ r.state \in {"absent", "quarantined"} => r.os = "none"
    /\ r.state = "absent" => r.crashes = 0
    /\ r.state = "stopped" => r.os # "alive"
    /\ r.state = "ready" => r.crashes < QuarantineThreshold
    /\ r.timer => /\ r.state = "stopped" /\ r.os = "none"
                  /\ r.crashes < QuarantineThreshold
    /\ r.stopWait # "none" => r.os # "none"

LifeInv ==
    /\ \A p \in Plugin : Coherent(proc[p])
    /\ \A p \in Plugin : host[p].boot = "waiting" => proc[p].state = "absent"
    /\ \A p \in Plugin : hist[p].quarantined =>
          proc[p].state \in {"quarantined", "stopped"} /\ ~proc[p].timer
    /\ phase \notin {"boot", "up"} => \A p \in Plugin : ~proc[p].timer
    /\ phase \in {"boot", "up"} => awaited = {}
    /\ \A p \in awaited : proc[p].os # "none" => proc[p].stopWait # "none"

\* What the runtime holds for a plugin agrees with the plugin's entry: nothing
\* is subscribed after the end of a process that had got ready, nor when another
\* is to be started; somebody awaits a process that is being stopped; and a
\* claim, once boot has made it, is missing only while a loaded plugin is not
\* ready.
Follows(p, r, h, t) ==
    /\ h.subs # "stale"
    /\ r.spawner # "none" => ~t.gotReady
    /\ r.state \in {"absent", "quarantined"} \/ r.timer => h.subs = "none"
    /\ r.state = "stopped" /\ t.gotReady => h.subs = "none"
    /\ r.state = "stopping" => r.stopWait # "none"
    /\ p \in WithService /\ h.boot = "claim" => h.claim
    /\ p \in WithService /\ h.boot = "loaded" /\ r.state = "ready" => h.claim

\* The watchdog's count is that of the ticks at which this process was silent,
\* once it has answered a ping.
CountIsOwn(p) ==
    watch[p].missed # Untracked =>
        watch[p].missed <= watch[p].silent \/ hist[p].inherited

HostInv == \A p \in Plugin : Follows(p, proc[p], host[p], hist[p]) /\ CountIsOwn(p)

(* What holds.                                                             *)

\* A slug never has two processes: nothing is spawned for it while its last
\* process, however it was given up, is still there.
NoOverlap ==
    [][\A p \in Plugin : proc[p].os # "none" /\ proc[p].spawner = "none"
                           => proc'[p].spawner = "none"]_vars

\* A process the manager no longer follows has been sent SIGKILL.
NoOrphan ==
    \A p \in Plugin :
        proc[p].os = "alive" => proc[p].state \in {"starting", "ready", "stopping"}

\* The crash that spends the budget is the last: the plugin is never started
\* again, whatever stop requests and timers follow.
QuarantineIsFinal ==
    \A p \in Plugin :
        hist[p].quarantined => proc[p].state \in {"quarantined", "stopped"}

\* stop() of a ready plugin is final, although its exit looks like a crash.
StopOfReadyIsFinal ==
    \A p \in Plugin :
        hist[p].askedIn = "ready" => proc[p].state \in {"stopping", "stopped"}

\* A subscription does not outlive a process that had got ready, and no process
\* meets one of an earlier process (ALREADY_SUBSCRIBED). One that was made before
\* "ready" outlives a handshake that fails; no process follows that one.
DeadSessionHoldsNothing ==
    \A p \in Plugin :
        /\ host[p].subs # "stale"
        /\ proc[p].state \in {"stopped", "quarantined"} /\ host[p].subs # "none" =>
              ~hist[p].gotReady /\ ~proc[p].timer

\* A loaded, running plugin holds its managed service, also after a respawn.
ReadyHoldsClaim ==
    \A p \in WithService :
        proc[p].state = "ready" /\ host[p].boot = "loaded" => host[p].claim

\* What the runtime keeps for a plugin follows its process: nothing when one that
\* had got ready is gone, and all of it again after a respawn.
HostFollowsProcess == DeadSessionHoldsNothing /\ ReadyHoldsClaim

\* Once the runtime shuts down no respawn is pending or can be armed.
ShutdownArmsNothing ==
    phase \notin {"boot", "up"} => \A p \in Plugin : ~proc[p].timer

\* stopAll() resolves only when every process it signalled has exited.
StopAllWaits ==
    phase = "down" => \A p \in awaited : proc[p].os = "none"

WatchdogKills(p) ==
    /\ proc[p].os = "alive" /\ proc'[p].os = "killed"
    /\ watch[p].missed # Untracked /\ watch'[p].missed = Untracked

\* The watchdog kills a process only at the last of MaxMissedPings ticks in a
\* row before which it had not answered; a respawned process that has not
\* answered yet may be killed earlier, by the count of the one before it. (Ticks
\* and not pings: see KilledAfterMissedPings.)
KilledOnlyIfSilent ==
    [][\A p \in Plugin : WatchdogKills(p) =>
          watch'[p].silent >= MaxMissedPings \/ hist[p].inherited]_vars

\* A stop comes to its end even if the process ignores SIGTERM.
StopTerminates ==
    \A p \in Plugin : proc[p].stopWait # "none" ~> proc[p].stopWait = "none"

\* A plugin that never gets ready does not keep the others from loading.
BootFinishes == <>(phase # "boot")

(* What the documentation says and the code does not do.                   *)

\* Every ready plugin is pinged, so a hung one is killed.
\* Not kept by the code: see the README.
HungPluginIsKilled ==
    \A p \in Plugin : proc[p].state = "ready" /\ proc[p].hung
                          ~> ~(proc[p].state = "ready" /\ proc[p].hung)

\* "If a plugin misses 3 consecutive pings (30 seconds), force-kill it"
\* (watchdog.ts, and the guide). Not kept by the code: the first tick counts a
\* miss before it has pinged, and so the last one kills after one ping less; and
\* a respawned process inherits a count.
KilledAfterMissedPings ==
    [][\A p \in Plugin : WatchdogKills(p) => watch[p].silent >= MaxMissedPings]_vars

\* Subscriptions are released "whenever it leaves a usable state" (main.ts).
\* Not kept by the code of a process that never got ready: see the README.
NothingOutlivesProcess ==
    \A p \in Plugin :
        proc[p].state \in {"stopped", "quarantined"} => host[p].subs = "none"

\* The administrator was told "stopped": the plugin does not come back.
\* Not kept by the code: see the README.
StoppedStaysStopped ==
    \A p \in Plugin : hist[p].answered => proc[p].state \notin {"starting", "ready"}

\* Once the plugin has signalled that it serves, it is not greyed out.
\* Not kept by the code: see the README.
ServeSignalNotLost ==
    \A p \in ServeOptIn : hist[p].signalled => host[p].registry # "greyed"
=============================================================================
