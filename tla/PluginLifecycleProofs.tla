----------------------- MODULE PluginLifecycleProofs -----------------------
(***************************************************************************)
(* Proofs about PluginLifecycle for every set of plugins, every crash      *)
(* budget and every ping limit.                                            *)
(*                                                                         *)
(* The safety properties are not inductive. LifeInv is: the fields of an   *)
(* entry agree (Coherent), and the other parts of the runtime agree with   *)
(* the entry. A first group of lemmas shows that every function on an      *)
(* entry keeps it coherent; StepOfOne lifts such a function to a step of   *)
(* one plugin; then there is one lemma per action that is not trivial.     *)
(***************************************************************************)
EXTENDS PluginLifecycle, TLAPS

-----------------------------------------------------------------------------
(* The functions on one entry.                                             *)

\* A process spawned for an entry without process or timer, and with crashes
\* left, leaves a coherent entry.
LEMMA SpawnedCoherent ==
    ASSUME NEW r \in Proc, Coherent(r), r.os = "none",
           r.crashes < QuarantineThreshold, NEW by \in {"boot", "respawn"}
    PROVE  LET s == [Spawned(r, by) EXCEPT !.timer = FALSE]
           IN  s \in Proc /\ Coherent(s) /\ s.os = "alive"
  BY DEF Proc, ProcState, Coherent, Spawned

\* Giving up a handshake and killing the process keeps the entry coherent and
\* arms nothing.
LEMMA TimedOutCoherent ==
    ASSUME NEW r \in Proc, Coherent(r), r.spawner # "none"
    PROVE  LET s == Killed(SpawnFails(r))
           IN  /\ s \in Proc /\ Coherent(s)
               /\ s.state = "stopped" /\ ~s.timer /\ s.stopWait = r.stopWait
  BY DEF Proc, ProcState, Coherent, Killed, SpawnFails

\* SIGKILL keeps the entry coherent and changes nothing but the process.
LEMMA KilledCoherent ==
    ASSUME NEW r \in Proc, Coherent(r)
    PROVE  LET s == Killed(r)
           IN  /\ s \in Proc /\ Coherent(s)
               /\ s.state = r.state /\ s.timer = r.timer
               /\ s.stopWait = r.stopWait /\ s.spawner = r.spawner
               /\ s.os = "none" <=> r.os = "none"
  BY DEF Proc, ProcState, Coherent, Killed

\* The synchronous part of stop() keeps the entry coherent; a process that
\* runs on is awaited unless the call was ignored.
LEMMA StopBeginsCoherent ==
    ASSUME NEW r \in Proc, Coherent(r)
    PROVE  LET s == StopBegins(r)
           IN  /\ s \in Proc /\ Coherent(s)
               /\ s.os = r.os /\ s.timer = r.timer /\ s.spawner = r.spawner
               /\ s.state = "absent" <=> r.state = "absent"
               /\ r.stopWait # "none" => s.stopWait # "none"
               /\ ~StopIgnored(r) /\ s.os # "none" => s.stopWait # "none"
               /\ r.state \in {"quarantined", "stopped"}
                    => s.state \in {"quarantined", "stopped"}
               /\ [s EXCEPT !.timer = FALSE] \in Proc
               /\ Coherent([s EXCEPT !.timer = FALSE])
  BY ZenonT(60) DEF Proc, ProcState, Coherent, StopBegins, StopIgnored

\* What handleExit() does to each field: a crash is counted, and either arms
\* the timer or is the last; any other exit changes nothing.
LEMMA HandleExitFields ==
    ASSUME NEW r \in Proc, CountsAsCrash(r) => r.crashes < QuarantineThreshold
    PROVE  LET s == HandleExit(r)
               last == r.crashes + 1 >= QuarantineThreshold
           IN  /\ s \in Proc
               /\ s.os = r.os /\ s.spawner = r.spawner /\ s.stopWait = r.stopWait
               /\ ~CountsAsCrash(r) => s = r
               /\ CountsAsCrash(r) =>
                     /\ s.crashes = r.crashes + 1
                     /\ last => s.state = "quarantined" /\ ~s.timer
                     /\ ~last => s.state = "stopped" /\ s.timer
<1>1. CASE ~CountsAsCrash(r)
  BY <1>1 DEF HandleExit
<1>2. CASE CountsAsCrash(r) /\ r.crashes + 1 >= QuarantineThreshold
  <2>1. HandleExit(r) = [r EXCEPT !.crashes = @ + 1, !.state = "quarantined",
                                !.timer = FALSE]
    BY <1>2 DEF HandleExit
  <2>2. r.crashes + 1 \in 0..QuarantineThreshold
    BY <1>2, LifecycleAssumption DEF Proc
  <2>3. HandleExit(r) \in Proc
    BY <2>1, <2>2 DEF Proc, ProcState
  <2>4. /\ HandleExit(r).os = r.os /\ HandleExit(r).spawner = r.spawner
        /\ HandleExit(r).stopWait = r.stopWait
        /\ HandleExit(r).crashes = r.crashes + 1
        /\ HandleExit(r).state = "quarantined" /\ ~HandleExit(r).timer
    BY <2>1 DEF Proc
  <2> QED
    BY <1>2, <2>3, <2>4
<1>3. CASE CountsAsCrash(r) /\ ~(r.crashes + 1 >= QuarantineThreshold)
  <2>1. HandleExit(r) = [r EXCEPT !.crashes = @ + 1, !.state = "stopped",
                                !.timer = TRUE]
    BY <1>3 DEF HandleExit
  <2>2. r.crashes + 1 \in 0..QuarantineThreshold
    BY <1>3, LifecycleAssumption DEF Proc
  <2>3. HandleExit(r) \in Proc
    BY <2>1, <2>2 DEF Proc, ProcState
  <2>4. /\ HandleExit(r).os = r.os /\ HandleExit(r).spawner = r.spawner
        /\ HandleExit(r).stopWait = r.stopWait
        /\ HandleExit(r).crashes = r.crashes + 1
        /\ HandleExit(r).state = "stopped" /\ HandleExit(r).timer
    BY <2>1 DEF Proc
  <2> QED
    BY <1>3, <2>3, <2>4
<1> QED
  BY <1>1, <1>2, <1>3

\* spawn() and stop() that resume on an exit settle on "stopped".
LEMMA ResumedFields ==
    ASSUME NEW r \in Proc
    PROVE  /\ LET s == SpawnFails(r)
              IN  /\ s \in Proc /\ s.spawner = "none"
                  /\ s.os = r.os /\ s.stopWait = r.stopWait
                  /\ s.timer = r.timer /\ s.crashes = r.crashes
                  /\ s.state = IF r.spawner = "none" THEN r.state ELSE "stopped"
           /\ LET s == StopEnds(r)
              IN  /\ s \in Proc /\ s.stopWait = "none"
                  /\ s.os = r.os /\ s.spawner = r.spawner
                  /\ s.timer = r.timer /\ s.crashes = r.crashes
                  /\ s.state = IF r.stopWait = "none" THEN r.state ELSE "stopped"
  BY DEF Proc, ProcState, SpawnFails, StopEnds

\* The exit of a process leaves a coherent entry without process; it is in
\* quarantine, or stopped, once the crash budget is spent; and outside of
\* "boot" and "up" it arms no timer.
LEMMA AfterExitCoherent ==
    ASSUME NEW r \in Proc, Coherent(r), r.os # "none",
           NEW callbackFirst \in BOOLEAN
    PROVE  LET s == AfterExit(r, callbackFirst)
           IN  /\ s \in Proc /\ Coherent(s)
               /\ s.os = "none" /\ s.spawner = "none" /\ s.state # "absent"
               /\ s.timer => phase \in {"boot", "up"}
               /\ ReachesQuarantine(r, callbackFirst) \/ r.state = "stopped"
                    => s.state \in {"quarantined", "stopped"} /\ ~s.timer
<1> DEFINE gone == [r EXCEPT !.os = "none"]
           s == AfterExit(r, callbackFirst)
<1>1. /\ gone \in Proc /\ gone.os = "none"
      /\ gone.state = r.state /\ gone.spawner = r.spawner
      /\ gone.stopWait = r.stopWait /\ gone.timer = r.timer
      /\ gone.crashes = r.crashes
  BY DEF Proc
<1>2. /\ r.state \in {"starting", "ready", "stopping", "stopped"}
      /\ ~r.timer /\ r.crashes \in 0..QuarantineThreshold
      /\ CountsAsCrash(r) <=> r.state \in {"starting", "ready"} /\ phase \in {"boot", "up"}
      /\ CountsAsCrash(r) => r.crashes < QuarantineThreshold
  BY DEF Proc, ProcState, Coherent, CountsAsCrash
<1> HIDE DEF gone
<1>3. CountsAsCrash(gone) <=> CountsAsCrash(r)
  BY <1>1 DEF CountsAsCrash
<1>4. CASE callbackFirst
  <2> DEFINE h == HandleExit(gone)
             f == SpawnFails(h)
  <2>1. s = StopEnds(f) /\ AtExit(r, callbackFirst) = r
    BY <1>4 DEF AfterExit, gone, AtExit
  <2>2. /\ h \in Proc
        /\ h.os = "none" /\ h.spawner = r.spawner /\ h.stopWait = r.stopWait
        /\ ~CountsAsCrash(r) => h = gone
        /\ CountsAsCrash(r) =>
             /\ h.crashes = r.crashes + 1
             /\ r.crashes + 1 >= QuarantineThreshold
                  => h.state = "quarantined" /\ ~h.timer
             /\ ~(r.crashes + 1 >= QuarantineThreshold)
                  => h.state = "stopped" /\ h.timer
    BY <1>1, <1>2, <1>3, HandleExitFields
  <2> HIDE DEF h
  <2>3. /\ f \in Proc /\ f.spawner = "none" /\ f.os = "none"
        /\ f.stopWait = h.stopWait /\ f.timer = h.timer /\ f.crashes = h.crashes
        /\ f.state = IF h.spawner = "none" THEN h.state ELSE "stopped"
    BY <2>2, ResumedFields
  <2> HIDE DEF f, s
  <2>4. /\ s \in Proc /\ s.spawner = "none" /\ s.os = "none"
        /\ s.stopWait = "none" /\ s.timer = f.timer /\ s.crashes = f.crashes
        /\ s.state = IF f.stopWait = "none" THEN f.state ELSE "stopped"
    BY <2>1, <2>3, ResumedFields
  <2>5. CASE CountsAsCrash(r)
    <3>1. r.state = "ready" \/ r.spawner # "none"
      BY <1>2, <2>5 DEF Coherent
    <3>2. /\ s.state \in {"quarantined", "stopped"}
          /\ s.timer => s.state = "stopped" /\ s.crashes < QuarantineThreshold
          /\ r.crashes + 1 >= QuarantineThreshold => ~s.timer
      BY <1>2, <2>2, <2>3, <2>4, <2>5, LifecycleAssumption
    <3> QED
      BY <1>2, <2>1, <2>4, <2>5, <3>2 DEF Coherent, ReachesQuarantine, s
  <2>6. CASE ~CountsAsCrash(r)
    <3>1. /\ ~s.timer /\ s.crashes = r.crashes
          /\ s.state = "ready" => r.state = "ready"
          /\ s.state \in {"ready", "stopping", "stopped"}
          /\ r.state = "stopped" => s.state = "stopped"
      BY <1>1, <1>2, <2>2, <2>3, <2>4, <2>6 DEF Coherent
    <3> QED
      BY <1>2, <2>1, <2>4, <2>6, <3>1 DEF Coherent, ReachesQuarantine, s
  <2> QED
    BY <2>5, <2>6
<1>5. CASE ~callbackFirst
  <2> DEFINE f == SpawnFails(gone)
             h == HandleExit(f)
  <2>1. s = StopEnds(h)
    BY <1>5 DEF AfterExit, gone
  <2>2. /\ f \in Proc /\ f.spawner = "none" /\ f.os = "none"
        /\ f.stopWait = r.stopWait /\ ~f.timer /\ f.crashes = r.crashes
        /\ f.state = IF r.spawner = "none" THEN r.state ELSE "stopped"
    BY <1>1, <1>2, ResumedFields
  <2>3. /\ CountsAsCrash(f) <=> CountsAsCrash(r) /\ r.spawner = "none"
        /\ CountsAsCrash(f) <=> CountsAsCrash(AtExit(r, callbackFirst))
    BY <1>2, <1>5, <2>2, ResumedFields DEF CountsAsCrash, AtExit
  <2> HIDE DEF f
  <2>4. /\ h \in Proc
        /\ h.os = "none" /\ h.spawner = "none" /\ h.stopWait = r.stopWait
        /\ ~CountsAsCrash(f) => h = f
        /\ CountsAsCrash(f) =>
             /\ h.crashes = r.crashes + 1
             /\ r.crashes + 1 >= QuarantineThreshold
                  => h.state = "quarantined" /\ ~h.timer
             /\ ~(r.crashes + 1 >= QuarantineThreshold)
                  => h.state = "stopped" /\ h.timer
    BY <1>2, <2>2, <2>3, HandleExitFields
  <2> HIDE DEF h, s
  <2>5. /\ s \in Proc /\ s.spawner = "none" /\ s.os = "none"
        /\ s.stopWait = "none" /\ s.timer = h.timer /\ s.crashes = h.crashes
        /\ s.state = IF h.stopWait = "none" THEN h.state ELSE "stopped"
    BY <2>1, <2>4, ResumedFields
  <2>6. CASE CountsAsCrash(f)
    <3>1. /\ s.state \in {"quarantined", "stopped"}
          /\ s.timer => s.state = "stopped" /\ s.crashes < QuarantineThreshold
          /\ r.crashes + 1 >= QuarantineThreshold => ~s.timer
      BY <1>2, <2>4, <2>5, <2>6, LifecycleAssumption
    <3> QED
      BY <1>2, <2>3, <2>5, <2>6, <3>1 DEF Coherent, ReachesQuarantine, s
  <2>7. CASE ~CountsAsCrash(f)
    <3>1. /\ ~s.timer /\ s.crashes = r.crashes
          /\ s.state = "ready" => r.state = "ready"
          /\ s.state \in {"ready", "stopping", "stopped"}
          /\ r.state = "stopped" => s.state = "stopped"
      BY <1>2, <2>2, <2>4, <2>5, <2>7 DEF Coherent
    <3> QED
      BY <1>2, <2>3, <2>5, <2>7, <3>1 DEF Coherent, ReachesQuarantine, s
  <2> QED
    BY <2>6, <2>7
<1> QED
  BY <1>4, <1>5

-----------------------------------------------------------------------------
(* Steps.                                                                  *)

\* The inductive invariant, with the types it needs.
IInv == TypeOK /\ LifeInv

\* A step that gives one plugin a coherent entry, and the rest of the runtime
\* what LifeInv wants beside it, keeps the invariant.
LEMMA StepOfOne ==
    ASSUME IInv, NEW p \in Plugin, NEW r \in Proc, Coherent(r),
           proc' = [proc EXCEPT ![p] = r],
           host' \in [Plugin -> Hosted], watch' \in [Plugin -> Watched],
           hist' \in [Plugin -> Recorded], UNCHANGED <<phase, awaited>>,
           \A q \in Plugin : host'[q].boot = "waiting" => host[q].boot = "waiting",
           host'[p].boot = "waiting" => r.state = "absent",
           \A q \in Plugin \ {p} : hist'[q].quarantined => hist[q].quarantined,
           hist'[p].quarantined => r.state \in {"quarantined", "stopped"} /\ ~r.timer,
           r.timer => phase \in {"boot", "up"},
           p \in awaited /\ r.os # "none" => r.stopWait # "none"
    PROVE  IInv'
<1>1. /\ proc'[p] = r
      /\ \A q \in Plugin \ {p} : proc'[q] = proc[q]
      /\ proc' \in [Plugin -> Proc]
  BY DEF IInv, TypeOK
<1>2. TypeOK'
  BY <1>1 DEF IInv, TypeOK
<1>3. \A q \in Plugin : Coherent(proc'[q])
  BY <1>1 DEF IInv, LifeInv
<1>4. \A q \in Plugin : host'[q].boot = "waiting" => proc'[q].state = "absent"
  BY <1>1 DEF IInv, LifeInv
<1>5. \A q \in Plugin : hist'[q].quarantined =>
         proc'[q].state \in {"quarantined", "stopped"} /\ ~proc'[q].timer
  BY <1>1 DEF IInv, LifeInv
<1>6. phase' \notin {"boot", "up"} => \A q \in Plugin : ~proc'[q].timer
  BY <1>1 DEF IInv, LifeInv
<1>7. \A q \in awaited' : proc'[q].os # "none" => proc'[q].stopWait # "none"
  BY <1>1 DEF IInv, LifeInv, TypeOK
<1> QED
  BY <1>2, <1>3, <1>4, <1>5, <1>6, <1>7 DEF IInv, LifeInv

\* A step that leaves the entries alone keeps the invariant.
LEMMA StepOfNone ==
    ASSUME IInv, UNCHANGED <<phase, proc, awaited>>,
           host' \in [Plugin -> Hosted], watch' \in [Plugin -> Watched],
           hist' \in [Plugin -> Recorded],
           \A q \in Plugin : host'[q].boot = "waiting" => host[q].boot = "waiting",
           \A q \in Plugin : hist'[q].quarantined => hist[q].quarantined
    PROVE  IInv'
<1>1. TypeOK'
  BY DEF IInv, TypeOK
<1>2. LifeInv'
  BY DEF IInv, LifeInv
<1> QED
  BY <1>1, <1>2 DEF IInv

\* What LifeInv says of one plugin.
LEMMA OnePlugin ==
    ASSUME IInv, NEW p \in Plugin
    PROVE  /\ proc[p] \in Proc /\ Coherent(proc[p])
           /\ watch[p] \in Watched /\ host[p] \in Hosted /\ hist[p] \in Recorded
           /\ host[p].boot = "waiting" => proc[p].state = "absent"
           /\ hist[p].quarantined =>
                proc[p].state \in {"quarantined", "stopped"} /\ ~proc[p].timer
           /\ proc[p].timer => phase \in {"boot", "up"}
           /\ p \in awaited /\ proc[p].os # "none" => proc[p].stopWait # "none"
           /\ p \in awaited => phase \notin {"boot", "up"}
  BY DEF IInv, TypeOK, LifeInv

\* The functions on what the rest of the runtime holds for a plugin.
LEMMA HostedFunctions ==
    ASSUME NEW h \in Hosted, NEW p \in Plugin
    PROVE  /\ Registered(h, p) \in Hosted /\ Registered(h, p).boot = "loaded"
           /\ Reclaimed(h, p) \in Hosted /\ Reclaimed(h, p).boot = h.boot
           /\ Restarted(h) \in Hosted /\ Restarted(h).boot = h.boot
<1>1. Registered(h, p) \in Hosted /\ Registered(h, p).boot = "loaded"
  BY DEF Hosted, Registered
<1>2. Reclaimed(h, p) \in Hosted /\ Reclaimed(h, p).boot = h.boot
  BY DEF Hosted, Reclaimed
<1>3. Restarted(h) \in Hosted /\ Restarted(h).boot = h.boot
  BY DEF Hosted, Restarted
<1> QED
  BY <1>1, <1>2, <1>3

\* Unloading drops holdings and does not touch the progress of boot.
LEMMA UnloadedHosted ==
    ASSUME NEW h \in Hosted, NEW p \in Plugin, NEW b
    PROVE  UnloadedIf(h, p, b) \in Hosted /\ UnloadedIf(h, p, b).boot = h.boot
  BY DEF Hosted, UnloadedIf, Unloaded

\* What the watchdog keeps stays in range when it is reset or forgotten.
LEMMA WatchedResets ==
    ASSUME NEW w \in Watched
    PROVE  /\ [w EXCEPT !.missed = 0] \in Watched
           /\ [w EXCEPT !.missed = Untracked] \in Watched
           /\ [w EXCEPT !.ping = FALSE, !.silent = 0] \in Watched
           /\ [missed |-> 0, ping |-> FALSE, silent |-> 0] \in Watched
<1>1. 0 \in Untracked..(MaxMissedPings - 1) /\ Untracked \in Untracked..(MaxMissedPings - 1)
  BY LifecycleAssumption DEF Untracked
<1>2. [w EXCEPT !.missed = 0] \in Watched
  BY <1>1 DEF Watched
<1>3. [w EXCEPT !.missed = Untracked] \in Watched
  BY <1>1 DEF Watched
<1>4. [w EXCEPT !.ping = FALSE, !.silent = 0] \in Watched
  BY DEF Watched
<1>5. [missed |-> 0, ping |-> FALSE, silent |-> 0] \in Watched
  BY <1>1 DEF Watched
<1> QED
  BY <1>2, <1>3, <1>4, <1>5

\* A fresh session keeps the types, has not got ready, and forgets neither a
\* quarantine nor a stop that was asked for.
LEMMA FreshSessionTypes ==
    ASSUME IInv, NEW p \in Plugin, FreshSession(p)
    PROVE  /\ watch' \in [Plugin -> Watched] /\ hist' \in [Plugin -> Recorded]
           /\ \A q \in Plugin : hist'[q].quarantined = hist[q].quarantined
           /\ \A q \in Plugin : hist'[q].askedIn = hist[q].askedIn
           /\ ~hist'[p].gotReady
<1>1. [watch[p] EXCEPT !.ping = FALSE, !.silent = 0] \in Watched
  BY OnePlugin, WatchedResets
<1>2. watch' \in [Plugin -> Watched]
  BY <1>1 DEF FreshSession, IInv, TypeOK
<1>3. /\ hist' \in [Plugin -> Recorded]
      /\ \A q \in Plugin : hist'[q].quarantined = hist[q].quarantined
      /\ \A q \in Plugin : hist'[q].askedIn = hist[q].askedIn
      /\ ~hist'[p].gotReady
  <2>1. PICK m \in BOOLEAN : m = (watch[p].missed # Untracked)
    OBVIOUS
  <2> DEFINE t == [hist[p] EXCEPT !.signalled = FALSE, !.gotReady = FALSE,
                                  !.inherited = m]
  <2>2. hist' = [hist EXCEPT ![p] = t]
    BY <2>1 DEF FreshSession, IInv, TypeOK, Recorded
  <2>3. /\ t \in Recorded /\ ~t.gotReady
        /\ t.quarantined = hist[p].quarantined /\ t.askedIn = hist[p].askedIn
    BY OnePlugin DEF Recorded
  <2> HIDE DEF t
  <2> QED
    BY <2>2, <2>3 DEF IInv, TypeOK
<1> QED
  BY <1>2, <1>3

\* The plugin was never spawned, so a fresh entry is coherent.
LEMMA BootSpawnStep ==
    ASSUME IInv, NEW p \in Plugin, BootSpawn(p)
    PROVE  IInv'
<1> USE OnePlugin
<1>1. CASE proc' = [proc EXCEPT ![p] = Spawned(@, "boot")] /\ FreshSession(p)
           /\ host' = [host EXCEPT ![p] = [Restarted(@) EXCEPT !.boot = "handshake"]]
  <2> DEFINE r == Spawned(proc[p], "boot")
  <2>1. /\ proc[p].state = "absent" /\ proc[p].os = "none" /\ ~proc[p].timer
        /\ proc[p].crashes < QuarantineThreshold
    BY LifecycleAssumption DEF BootSpawn, Coherent
  <2>2. /\ r \in Proc /\ Coherent(r) /\ ~r.timer /\ r.os = "alive"
        /\ r.stopWait = proc[p].stopWait
    BY <2>1 DEF Proc, ProcState, Coherent, Spawned
  <2>3. host' \in [Plugin -> Hosted] /\ host'[p].boot = "handshake"
    <3>1. Restarted(host[p]) \in Hosted
      BY HostedFunctions
    <3>2. [Restarted(host[p]) EXCEPT !.boot = "handshake"] \in Hosted
      BY <3>1 DEF Hosted
    <3> QED
      BY <1>1, <3>1, <3>2 DEF IInv, TypeOK, Hosted
  <2>4. watch' \in [Plugin -> Watched] /\ hist' \in [Plugin -> Recorded]
        /\ \A q \in Plugin : hist'[q].quarantined = hist[q].quarantined
    BY <1>1, FreshSessionTypes
  <2>5. ~hist[p].quarantined /\ p \notin awaited
    BY <2>1 DEF BootSpawn
  <2>6. \A q \in Plugin : host'[q].boot = "waiting" => host[q].boot = "waiting"
    BY <1>1, <2>3 DEF IInv, TypeOK
  <2>7. proc' = [proc EXCEPT ![p] = r] /\ UNCHANGED <<phase, awaited>>
    BY <1>1 DEF BootSpawn
  <2> HIDE DEF r
  <2> QED
    BY <2>2, <2>3, <2>4, <2>5, <2>6, <2>7, StepOfOne
<1>2. CASE host' = [host EXCEPT ![p].boot = "skipped"] /\ UNCHANGED <<proc, watch, hist>>
  <2>1. host' \in [Plugin -> Hosted]
        /\ \A q \in Plugin : host'[q].boot = "waiting" => host[q].boot = "waiting"
    BY <1>2 DEF IInv, TypeOK, Hosted
  <2> QED
    BY <1>2, <2>1, StepOfNone DEF BootSpawn, IInv, TypeOK
<1> QED
  BY <1>1, <1>2 DEF BootSpawn

\* The service is claimed, or the load is unwound by a stop().
LEMMA ClaimSettlesStep ==
    ASSUME IInv, NEW p \in Plugin, ClaimSettles(p)
    PROVE  IInv'
<1>1. CASE host' = [host EXCEPT ![p] = Registered(@, p)] /\ UNCHANGED <<proc, watch>>
  <2>1. host' \in [Plugin -> Hosted]
        /\ \A q \in Plugin : host'[q].boot = "waiting" => host[q].boot = "waiting"
    BY <1>1, HostedFunctions DEF IInv, TypeOK
  <2> QED
    BY <1>1, <2>1, StepOfNone DEF ClaimSettles, IInv, TypeOK
<1>2. ASSUME NEW waits \in BOOLEAN,
             proc' = [proc EXCEPT ![p] = StopBegins(@)],
             host' = [host EXCEPT ![p] =
                       [UnloadedIf(@, p, StopUnloads(proc[p]))
                          EXCEPT !.boot = IF waits THEN "unwind" ELSE "skipped"]],
             watch' = IF waits THEN watch
                      ELSE [watch EXCEPT ![p].missed = Untracked]
      PROVE  IInv'
  <2> DEFINE r == StopBegins(proc[p])
  <2>1. /\ r \in Proc /\ Coherent(r) /\ r.os = proc[p].os /\ r.timer = proc[p].timer
        /\ proc[p].stopWait # "none" => r.stopWait # "none"
        /\ proc[p].state \in {"quarantined", "stopped"}
             => r.state \in {"quarantined", "stopped"}
    BY StopBeginsCoherent, OnePlugin
  <2>3. UnloadedIf(host[p], p, StopUnloads(proc[p])) \in Hosted
    BY UnloadedHosted, OnePlugin
  <2>4. host' \in [Plugin -> Hosted] /\ host'[p].boot # "waiting"
    BY <1>2, <2>3 DEF IInv, TypeOK, Hosted
  <2>5. \A q \in Plugin : host'[q].boot = "waiting" => host[q].boot = "waiting"
    BY <1>2, <2>4 DEF IInv, TypeOK
  <2>6. watch' \in [Plugin -> Watched]
    BY <1>2, WatchedResets DEF IInv, TypeOK
  <2>7. hist' \in [Plugin -> Recorded] /\ UNCHANGED <<phase, awaited, hist>>
    BY DEF IInv, TypeOK, ClaimSettles
  <2>8. proc' = [proc EXCEPT ![p] = r]
    BY <1>2
  <2> HIDE DEF r
  <2> QED
    BY <2>1, <2>4, <2>5, <2>6, <2>7, <2>8, OnePlugin, StepOfOne
<1> QED
  BY <1>1, <1>2 DEF ClaimSettles

\* The process that got ready had somebody who awaited it, so it has crashes
\* left and no timer.
LEMMA PluginReadyStep ==
    ASSUME IInv, NEW p \in Plugin, PluginReady(p)
    PROVE  IInv'
<1> DEFINE r == [proc[p] EXCEPT !.state = "ready", !.spawner = "none"]
<1>1. /\ r \in Proc /\ Coherent(r) /\ r.os = proc[p].os /\ ~r.timer
      /\ r.stopWait = proc[p].stopWait
      /\ proc[p].state \in {"starting", "stopping"}
  BY OnePlugin DEF PluginReady, Coherent, Proc, ProcState
<1>2. [host[p] EXCEPT !.boot = "claim", !.claim = TRUE] \in Hosted
  BY OnePlugin DEF Hosted
<1>3. host' \in [Plugin -> Hosted]
      /\ \A q \in Plugin : host'[q].boot = "waiting" => host[q].boot = "waiting"
  <2>1. /\ Registered(host[p], p) \in Hosted
        /\ Registered(host[p], p).boot = "loaded"
        /\ Reclaimed(host[p], p) \in Hosted
        /\ Reclaimed(host[p], p).boot = host[p].boot
        /\ [host[p] EXCEPT !.boot = "claim", !.claim = TRUE].boot = "claim"
    BY OnePlugin, HostedFunctions DEF Hosted
  <2>2. PICK h \in {[host[p] EXCEPT !.boot = "claim", !.claim = TRUE],
                    Registered(host[p], p), Reclaimed(host[p], p)} :
           host' = [host EXCEPT ![p] = h]
    BY DEF PluginReady
  <2>3. h \in Hosted /\ (h.boot = "waiting" => host[p].boot = "waiting")
    BY <1>2, <2>1, <2>2
  <2> QED
    BY <2>2, <2>3 DEF IInv, TypeOK
<1>4. watch' \in [Plugin -> Watched]
  BY WatchedResets DEF PluginReady, IInv, TypeOK
<1>5. /\ hist' \in [Plugin -> Recorded]
      /\ \A q \in Plugin : hist'[q].quarantined = hist[q].quarantined
  BY DEF PluginReady, IInv, TypeOK, Recorded
<1>6. proc' = [proc EXCEPT ![p] = r] /\ UNCHANGED <<phase, awaited>>
  BY DEF PluginReady, IInv, TypeOK
<1> HIDE DEF r
<1> QED
  BY <1>1, <1>3, <1>4, <1>5, <1>6, OnePlugin, StepOfOne

\* The handshake times out: the process is killed and no timer is armed.
LEMMA HandshakeTimeoutStep ==
    ASSUME IInv, NEW p \in Plugin, HandshakeTimeout(p)
    PROVE  IInv'
<1> DEFINE r == Killed(SpawnFails(proc[p]))
<1>1. /\ r \in Proc /\ Coherent(r) /\ r.state = "stopped" /\ ~r.timer
      /\ r.stopWait = proc[p].stopWait
      /\ proc[p].os # "none" /\ proc[p].state \in {"starting", "stopping"}
  BY OnePlugin, TimedOutCoherent DEF HandshakeTimeout, Coherent
<1>2. host' \in [Plugin -> Hosted]
      /\ \A q \in Plugin : host'[q].boot = "waiting" => host[q].boot = "waiting"
  BY DEF HandshakeTimeout, IInv, TypeOK, Hosted
<1>3. host'[p].boot # "waiting"
  BY <1>1, <1>2, OnePlugin
<1>4. /\ watch' \in [Plugin -> Watched] /\ hist' \in [Plugin -> Recorded]
      /\ UNCHANGED <<phase, awaited, hist>> /\ proc' = [proc EXCEPT ![p] = r]
  BY DEF HandshakeTimeout, IInv, TypeOK
<1> HIDE DEF r
<1> QED
  BY <1>1, <1>2, <1>3, <1>4, OnePlugin, StepOfOne

\* What the process says or asks for changes no entry.
LEMMA FrameStep ==
    ASSUME IInv, NEW p \in Plugin, Subscribe(p) \/ ServeReady(p) \/ Pong(p)
    PROVE  IInv'
<1>1. CASE Subscribe(p)
  <2>1. host' \in [Plugin -> Hosted]
        /\ \A q \in Plugin : host'[q].boot = host[q].boot
    BY <1>1 DEF Subscribe, IInv, TypeOK, Hosted
  <2> QED
    BY <1>1, <2>1, StepOfNone DEF Subscribe, IInv, TypeOK
<1>2. CASE ServeReady(p)
  <2>1. host' \in [Plugin -> Hosted]
        /\ \A q \in Plugin : host'[q].boot = host[q].boot
    BY SMTT(30), <1>2 DEF ServeReady, IInv, TypeOK, Hosted
  <2>2. hist' \in [Plugin -> Recorded]
        /\ \A q \in Plugin : hist'[q].quarantined = hist[q].quarantined
    BY <1>2 DEF ServeReady, IInv, TypeOK, Recorded
  <2> QED
    BY <1>2, <2>1, <2>2, StepOfNone DEF ServeReady, IInv, TypeOK
<1>3. CASE Pong(p)
  <2>1. watch' \in [Plugin -> Watched]
    BY <1>3, WatchedResets, OnePlugin DEF Pong, IInv, TypeOK
  <2>2. hist' \in [Plugin -> Recorded]
        /\ \A q \in Plugin : hist'[q].quarantined = hist[q].quarantined
    BY <1>3 DEF Pong, IInv, TypeOK, Recorded
  <2> QED
    BY <1>3, <2>1, <2>2, StepOfNone DEF Pong, IInv, TypeOK
<1> QED
  BY <1>1, <1>2, <1>3

\* An entry that changes only in whether its process hangs, was killed, waits
\* for SIGKILL or has one crash less to remember stays coherent.
LEMMA EntryStep ==
    ASSUME IInv, NEW p \in Plugin,
           Hang(p) \/ IpcOverflow(p) \/ GraceExpires(p) \/ CrashAges(p)
    PROVE  IInv'
<1>1. PICK r \in Proc :
         /\ Coherent(r) /\ proc' = [proc EXCEPT ![p] = r]
         /\ r.state = proc[p].state /\ r.timer = proc[p].timer
         /\ r.os = "none" <=> proc[p].os = "none"
         /\ r.stopWait = "none" <=> proc[p].stopWait = "none"
  <2>1. CASE Hang(p)
    <3> DEFINE r == [proc[p] EXCEPT !.hung = TRUE]
    <3>1. r \in Proc /\ Coherent(r)
      BY OnePlugin DEF Proc, Coherent
    <3> QED
      BY <2>1, <3>1, OnePlugin DEF Hang, Proc
  <2>2. CASE IpcOverflow(p)
    <3>1. PICK inbound \in BOOLEAN :
             proc' = [proc EXCEPT ![p].os = "killed", ![p].hung = @ \/ inbound]
      BY <2>2 DEF IpcOverflow
    <3>2. PICK m \in BOOLEAN : m = (proc[p].hung \/ inbound)
      OBVIOUS
    <3> DEFINE r == [proc[p] EXCEPT !.os = "killed", !.hung = m]
    <3>3. proc' = [proc EXCEPT ![p] = r]
      BY <3>1, <3>2 DEF IInv, TypeOK
    <3>4. r \in Proc /\ Coherent(r)
      BY <2>2, OnePlugin DEF IpcOverflow, Proc, Coherent
    <3>5. /\ r.state = proc[p].state /\ r.timer = proc[p].timer
          /\ r.os = "killed" /\ proc[p].os = "alive"
          /\ r.stopWait = proc[p].stopWait
      BY <2>2, OnePlugin DEF IpcOverflow, Proc
    <3> HIDE DEF r
    <3> QED
      BY <3>3, <3>4, <3>5
  <2>3. CASE GraceExpires(p)
    <3> DEFINE k == Killed(proc[p])
               r == [k EXCEPT !.stopWait = "kill"]
    <3>1. /\ k \in Proc /\ Coherent(k) /\ k.state = proc[p].state
          /\ k.timer = proc[p].timer /\ k.stopWait = proc[p].stopWait
          /\ k.os = "none" <=> proc[p].os = "none"
      BY OnePlugin, KilledCoherent
    <3>2. proc[p].stopWait = "term" /\ proc' = [proc EXCEPT ![p] = r]
      BY <2>3 DEF GraceExpires
    <3> HIDE DEF k
    <3>3. r \in Proc /\ r.state = k.state /\ r.timer = k.timer /\ r.crashes = k.crashes
          /\ r.spawner = k.spawner /\ r.os = k.os /\ r.stopWait = "kill"
      BY <3>1 DEF Proc
    <3>4. k.os # "none"
      BY <3>1, <3>2 DEF Coherent
    <3> HIDE DEF r
    <3>5. Coherent(r)
      BY <3>1, <3>3, <3>4 DEF Coherent
    <3> QED
      BY <3>1, <3>2, <3>3, <3>4, <3>5
  <2>4. CASE CrashAges(p)
    <3> DEFINE r == [proc[p] EXCEPT !.crashes = proc[p].crashes - 1]
    <3>1. proc[p].crashes - 1 \in 0..QuarantineThreshold
      BY <2>4, OnePlugin, LifecycleAssumption DEF CrashAges, Proc
    <3>2. r \in Proc /\ Coherent(r)
      BY <2>4, <3>1, OnePlugin, LifecycleAssumption DEF CrashAges, Proc, Coherent
    <3> QED
      BY <2>4, <3>2, OnePlugin DEF CrashAges, Proc
  <2> QED
    BY <2>1, <2>2, <2>3, <2>4
<1>2. /\ UNCHANGED <<phase, host, watch, hist, awaited>>
      /\ host' \in [Plugin -> Hosted] /\ watch' \in [Plugin -> Watched]
      /\ hist' \in [Plugin -> Recorded]
  BY DEF Hang, IpcOverflow, GraceExpires, CrashAges, IInv, TypeOK
<1> QED
  BY <1>1, <1>2, OnePlugin, StepOfOne

\* A process exits: whoever awaited it resumes, and a crash is counted.
LEMMA ProcessExitStep ==
    ASSUME IInv, NEW p \in Plugin, NEW callbackFirst \in BOOLEAN,
           ProcessExit(p, callbackFirst)
    PROVE  IInv'
<1> DEFINE r == AfterExit(proc[p], callbackFirst)
           h == UnloadedIf(host[p], p, ExitUnloads(proc[p], callbackFirst))
<1>1. /\ r \in Proc /\ Coherent(r) /\ r.os = "none" /\ r.state # "absent"
      /\ r.timer => phase \in {"boot", "up"}
      /\ ReachesQuarantine(proc[p], callbackFirst) \/ proc[p].state = "stopped"
           => r.state \in {"quarantined", "stopped"} /\ ~r.timer
  BY OnePlugin, AfterExitCoherent DEF ProcessExit
<1>2. proc[p].os # "none" /\ proc[p].state \notin {"absent", "quarantined"}
  BY OnePlugin DEF ProcessExit, Coherent
<1>3. h \in Hosted /\ h.boot = host[p].boot
  BY UnloadedHosted, OnePlugin
<1> HIDE DEF h
<1>4. PICK b \in {"skipped", host[p].boot} :
         host' = [host EXCEPT ![p] = [h EXCEPT !.boot = b]]
  BY DEF ProcessExit, h
<1>5. [h EXCEPT !.boot = b] \in Hosted /\ [h EXCEPT !.boot = b].boot = b
  BY <1>3, <1>4 DEF Hosted
<1>6. host' \in [Plugin -> Hosted] /\ host'[p].boot = b
  BY <1>4, <1>5 DEF IInv, TypeOK
<1>7. /\ \A q \in Plugin : host'[q].boot = "waiting" => host[q].boot = "waiting"
      /\ host'[p].boot # "waiting"
  BY <1>2, <1>3, <1>4, <1>6, OnePlugin DEF IInv, TypeOK
<1>8. watch' \in [Plugin -> Watched]
  <2>1. PICK w \in Watched : watch' = [watch EXCEPT ![p] = w]
    BY WatchedResets, OnePlugin DEF ProcessExit, Watched
  <2> QED
    BY <2>1 DEF IInv, TypeOK
<1>9. /\ hist' \in [Plugin -> Recorded]
      /\ \A q \in Plugin \ {p} : hist'[q].quarantined = hist[q].quarantined
      /\ hist'[p].quarantined =>
           hist[p].quarantined \/ ReachesQuarantine(proc[p], callbackFirst)
  <2>1. PICK x \in BOOLEAN :
          x = (hist[p].quarantined \/ ReachesQuarantine(proc[p], callbackFirst))
    OBVIOUS
  <2>2. PICK y \in BOOLEAN : y = (hist[p].answered \/ hist[p].askedIn # "none")
    OBVIOUS
  <2>3. hist' = [hist EXCEPT ![p].quarantined = x, ![p].answered = y]
    BY <2>1, <2>2 DEF ProcessExit
  <2>4. /\ hist' \in [Plugin -> Recorded] /\ hist'[p].quarantined = x
        /\ \A q \in Plugin \ {p} : hist'[q].quarantined = hist[q].quarantined
    BY ZenonT(60), <2>3 DEF IInv, TypeOK, Recorded
  <2> QED
    BY <2>1, <2>4
<1>10. proc' = [proc EXCEPT ![p] = r] /\ UNCHANGED <<phase, awaited>>
  BY DEF ProcessExit
<1>11. hist[p].quarantined => proc[p].state = "stopped"
  BY <1>2, OnePlugin
<1> HIDE DEF r
<1> QED
  BY <1>1, <1>2, <1>6, <1>7, <1>8, <1>9, <1>10, <1>11, OnePlugin, StepOfOne

\* The respawn timer fires: an armed timer means nothing runs.
LEMMA RespawnFiresStep ==
    ASSUME IInv, NEW p \in Plugin, RespawnFires(p)
    PROVE  IInv'
<1> DEFINE spawned == [Spawned(proc[p], "respawn") EXCEPT !.timer = FALSE]
           failed == [proc[p] EXCEPT !.timer = FALSE]
<1>1. /\ proc[p].timer /\ proc[p].os = "none" /\ proc[p].state = "stopped"
      /\ proc[p].crashes < QuarantineThreshold /\ phase \in {"boot", "up"}
  BY OnePlugin DEF RespawnFires, Coherent
<1>2. spawned \in Proc /\ Coherent(spawned) /\ ~spawned.timer
  BY <1>1, OnePlugin, SpawnedCoherent DEF Proc, Spawned
<1>3. failed \in Proc /\ Coherent(failed) /\ ~failed.timer
  BY <1>1, OnePlugin DEF Proc, Coherent
<1>4. host' \in [Plugin -> Hosted] /\ \A q \in Plugin : host'[q].boot = host[q].boot
  BY HostedFunctions, OnePlugin DEF RespawnFires, IInv, TypeOK
<1>5. /\ watch' \in [Plugin -> Watched] /\ hist' \in [Plugin -> Recorded]
      /\ \A q \in Plugin : hist'[q].quarantined = hist[q].quarantined
  BY FreshSessionTypes DEF RespawnFires, IInv, TypeOK
<1>6. PICK r \in {spawned, failed} : proc' = [proc EXCEPT ![p] = r]
  BY DEF RespawnFires, IInv, TypeOK
<1>7. UNCHANGED <<phase, awaited>>
  BY DEF RespawnFires
<1>8. ~hist[p].quarantined /\ p \notin awaited /\ host[p].boot # "waiting"
  BY <1>1, OnePlugin
<1> HIDE DEF spawned, failed
<1>9. r \in Proc /\ Coherent(r) /\ ~r.timer
  BY <1>2, <1>3, <1>6
<1> QED
  BY <1>4, <1>5, <1>6, <1>7, <1>8, <1>9, StepOfOne

\* stop() of one plugin.
LEMMA AskStopStep ==
    ASSUME IInv, NEW p \in Plugin, AskStop(p)
    PROVE  IInv'
<1> DEFINE r == StopBegins(proc[p])
<1>1. /\ r \in Proc /\ Coherent(r) /\ r.os = proc[p].os /\ r.timer = proc[p].timer
      /\ r.state = "absent" <=> proc[p].state = "absent"
      /\ proc[p].state \in {"quarantined", "stopped"}
           => r.state \in {"quarantined", "stopped"}
  BY StopBeginsCoherent, OnePlugin
<1>2. p \notin awaited /\ proc[p].state # "absent" /\ host[p].boot # "waiting"
  BY OnePlugin DEF AskStop
<1>3. host' \in [Plugin -> Hosted] /\ \A q \in Plugin : host'[q].boot = host[q].boot
  BY UnloadedHosted, OnePlugin DEF AskStop, IInv, TypeOK
<1>4. hist' \in [Plugin -> Recorded]
      /\ \A q \in Plugin : hist'[q].quarantined = hist[q].quarantined
  <2>1. PICK x \in {"none"} \cup ProcState :
          x = IF StopIgnored(proc[p]) /\ hist[p].askedIn # "none"
              THEN hist[p].askedIn ELSE proc[p].state
    BY OnePlugin DEF Recorded, Proc
  <2>2. PICK y \in BOOLEAN :
          y = (hist[p].answered \/ proc'[p].stopWait = "none" \/ StopIgnored(proc[p]))
    OBVIOUS
  <2>3. hist' = [hist EXCEPT ![p].askedIn = x, ![p].answered = y]
    BY <2>1, <2>2 DEF AskStop
  <2> QED
    BY <2>3 DEF IInv, TypeOK, Recorded
<1>5. /\ proc' = [proc EXCEPT ![p] = r] /\ UNCHANGED <<phase, watch, awaited>>
      /\ watch' \in [Plugin -> Watched]
  BY DEF AskStop, IInv, TypeOK
<1> HIDE DEF r
<1> QED
  BY <1>1, <1>2, <1>3, <1>4, <1>5, OnePlugin, StepOfOne

\* A tick of the watchdog kills processes and changes no entry otherwise.
LEMMA TickStep ==
    ASSUME IInv, Tick
    PROVE  IInv'
<1>1. \A q \in Plugin :
        /\ proc'[q] \in Proc /\ Coherent(proc'[q])
        /\ proc'[q].state = proc[q].state /\ proc'[q].timer = proc[q].timer
  <2> SUFFICES ASSUME NEW q \in Plugin
               PROVE  /\ proc'[q] \in Proc /\ Coherent(proc'[q])
                      /\ proc'[q].state = proc[q].state
                      /\ proc'[q].timer = proc[q].timer
    OBVIOUS
  <2>1. proc'[q] = Killed(proc[q]) \/ proc'[q] = proc[q]
    BY DEF Tick
  <2> QED
    BY <2>1, OnePlugin, KilledCoherent
<1>2. proc' \in [Plugin -> Proc]
  BY <1>1 DEF Tick
<1>3. watch' \in [Plugin -> Watched]
  <2> SUFFICES ASSUME NEW q \in Plugin PROVE watch'[q] \in Watched
    BY DEF Tick
  <2> DEFINE counted == [missed |-> watch[q].missed + 1, ping |-> TRUE,
                         silent |-> watch[q].silent + 1]
  <2>1. [watch[q] EXCEPT !.missed = Untracked] \in Watched /\ watch[q] \in Watched
    BY WatchedResets, OnePlugin
  <2> DEFINE killed == [watch[q] EXCEPT !.missed = Untracked, !.silent = @ + 1]
  <2>4. killed \in Watched
    <3>1. /\ Untracked \in Untracked..(MaxMissedPings - 1)
          /\ watch[q].silent + 1 \in Nat
      BY <2>1, LifecycleAssumption DEF Watched, Untracked
    <3> QED
      BY <2>1, <3>1 DEF Watched
  <2>2. CASE watch[q].missed # Untracked /\ proc[q].state = "ready" /\ ~MissesTooMany(q)
    <3>1. watch[q].missed \in Untracked..(MaxMissedPings - 1) /\ watch[q].silent \in Nat
      BY <2>1 DEF Watched
    <3>2. watch[q].missed + 1 \in Untracked..(MaxMissedPings - 1)
      BY <2>2, <3>1, LifecycleAssumption DEF MissesTooMany, Untracked
    <3>3. counted \in Watched
      BY <3>1, <3>2 DEF Watched
    <3>4. watch'[q] = counted
      BY <2>2 DEF Tick
    <3> QED
      BY <3>3, <3>4
  <2>3. CASE ~(watch[q].missed # Untracked /\ proc[q].state = "ready" /\ ~MissesTooMany(q))
    BY <2>1, <2>3, <2>4 DEF Tick
  <2> QED
    BY <2>2, <2>3
<1>4. TypeOK'
  BY <1>2, <1>3 DEF Tick, IInv, TypeOK
<1>5. awaited' = {} /\ phase' = "up"
  BY DEF Tick, IInv, LifeInv
<1>6. LifeInv'
  BY <1>1, <1>5 DEF Tick, IInv, LifeInv
<1> QED
  BY <1>4, <1>6 DEF IInv

\* shutdown() starts to stop every plugin and clears the timers.
LEMMA ShutdownStep ==
    ASSUME IInv, Shutdown
    PROVE  IInv'
<1>1. \A q \in Plugin :
        /\ proc'[q] \in Proc /\ Coherent(proc'[q]) /\ ~proc'[q].timer
        /\ proc'[q].state = "absent" <=> proc[q].state = "absent"
        /\ proc[q].state \in {"quarantined", "stopped"}
             => proc'[q].state \in {"quarantined", "stopped"}
        /\ ~StopIgnored(proc[q]) /\ proc'[q].os # "none"
             => proc'[q].stopWait # "none"
  <2> TAKE q \in Plugin
  <2> DEFINE s == StopBegins(proc[q])
             r == [s EXCEPT !.timer = FALSE]
  <2>1. /\ s \in Proc /\ r \in Proc /\ Coherent(r)
        /\ s.state = "absent" <=> proc[q].state = "absent"
        /\ proc[q].state \in {"quarantined", "stopped"}
             => s.state \in {"quarantined", "stopped"}
        /\ ~StopIgnored(proc[q]) /\ s.os # "none" => s.stopWait # "none"
    BY OnePlugin, StopBeginsCoherent
  <2>2. proc'[q] = r
    BY DEF Shutdown
  <2> HIDE DEF s
  <2>3. r.state = s.state /\ r.os = s.os /\ r.stopWait = s.stopWait /\ ~r.timer
    BY <2>1 DEF Proc
  <2> HIDE DEF r
  <2> QED
    BY <2>1, <2>2, <2>3
<1>2. proc' \in [Plugin -> Proc]
  BY <1>1 DEF Shutdown
<1>3. watch' \in [Plugin -> Watched]
  BY WatchedResets, OnePlugin DEF Shutdown
<1>4. host' \in [Plugin -> Hosted] /\ \A q \in Plugin : host'[q].boot = host[q].boot
  BY UnloadedHosted, OnePlugin DEF Shutdown
<1>5. TypeOK'
  BY <1>2, <1>3, <1>4 DEF Shutdown, IInv, TypeOK
<1>6. \A q \in awaited' : q \in Plugin /\ ~StopIgnored(proc[q])
  BY DEF Shutdown
<1>7. phase' = "stopping" /\ hist' = hist
  BY DEF Shutdown
<1>8. LifeInv'
  BY <1>1, <1>4, <1>6, <1>7 DEF IInv, LifeInv
<1> QED
  BY <1>5, <1>8 DEF IInv

\* The end of boot and of stopAll() change the phase only.
LEMMA PhaseStep ==
    ASSUME IInv, BootDone \/ StopAllReturns \/ StopAllAbandoned
    PROVE  IInv'
<1>1. /\ UNCHANGED <<proc, watch, host, awaited, hist>>
      /\ \/ phase = "boot" /\ phase' = "up"
         \/ phase = "stopping" /\ phase' \in {"down", "abandoned"}
  BY DEF BootDone, StopAllReturns, StopAllAbandoned
<1>2. TypeOK'
  BY <1>1 DEF IInv, TypeOK
<1>3. LifeInv'
  BY <1>1 DEF IInv, LifeInv
<1> QED
  BY <1>2, <1>3 DEF IInv

\* The invariant holds initially.
LEMMA InitIInv == Init => IInv
<1> SUFFICES ASSUME Init PROVE IInv
  OBVIOUS
<1>1. 0 \in 0..QuarantineThreshold /\ Untracked \in Untracked..(MaxMissedPings - 1)
  BY LifecycleAssumption DEF Untracked
<1>2. TypeOK
  BY <1>1 DEF Init, TypeOK, Proc, ProcState, Watched, Hosted, Recorded
<1>3. LifeInv
  BY DEF Init, LifeInv, Coherent
<1> QED
  BY <1>2, <1>3 DEF IInv

\* Every step keeps the invariant.
LEMMA NextIInv == IInv /\ [Next]_vars => IInv'
<1> SUFFICES ASSUME IInv, [Next]_vars PROVE IInv'
  OBVIOUS
<1>1. CASE UNCHANGED vars
  BY <1>1 DEF vars, IInv, TypeOK, LifeInv
<1>2. CASE BootDone \/ StopAllReturns \/ StopAllAbandoned
  BY <1>2, PhaseStep
<1>3. CASE Tick
  BY <1>3, TickStep
<1>4. CASE Shutdown
  BY <1>4, ShutdownStep
<1>5. ASSUME NEW p \in Plugin, BootSpawn(p) \/ ClaimSettles(p)
      PROVE  IInv'
  BY <1>5, BootSpawnStep, ClaimSettlesStep
<1>6. ASSUME NEW p \in Plugin, PluginReady(p)
      PROVE  IInv'
  BY <1>6, PluginReadyStep
<1>7. ASSUME NEW p \in Plugin, HandshakeTimeout(p) \/ RespawnFires(p) \/ AskStop(p)
      PROVE  IInv'
  BY <1>7, HandshakeTimeoutStep, RespawnFiresStep, AskStopStep
<1>8. ASSUME NEW p \in Plugin, Subscribe(p) \/ ServeReady(p) \/ Pong(p)
      PROVE  IInv'
  BY <1>8, FrameStep
<1>9. ASSUME NEW p \in Plugin,
             Hang(p) \/ IpcOverflow(p) \/ GraceExpires(p) \/ CrashAges(p)
      PROVE  IInv'
  BY <1>9, EntryStep
<1>10. ASSUME NEW p \in Plugin, \E first \in BOOLEAN : ProcessExit(p, first)
       PROVE  IInv'
  BY <1>10, ProcessExitStep
<1> QED
  BY <1>1, <1>2, <1>3, <1>4, <1>5, <1>6, <1>7, <1>8, <1>9, <1>10 DEF Next

\* The inductive invariant holds in every reachable state.
LEMMA InvariantHolds == Spec => []IInv
  BY InitIInv, NextIInv, PTL DEF Spec

-----------------------------------------------------------------------------
(* What a step may do to an entry.                                         *)

\* Nobody awaits a handshake, no timer is armed and a stop has begun.
Retired(r) == r.state \in {"stopping", "stopped"} /\ ~r.timer /\ r.spawner = "none"

\* From entry r to entry s, no process is spawned beside another or during
\* shutdown, and a retired entry stays retired.
OrderlyChange(r, s) ==
    /\ r.os # "none" /\ r.spawner = "none" => s.spawner = "none"
    /\ r.os = "none" /\ phase \notin {"boot", "up"} => s.os = "none"
    /\ Retired(r) => Retired(s)

\* The functions on an entry that spawn nothing change it orderly.
LEMMA OrderlyFunctions ==
    ASSUME NEW r \in Proc, Coherent(r), NEW callbackFirst \in BOOLEAN
    PROVE  /\ OrderlyChange(r, r)
           /\ OrderlyChange(r, Killed(r))
           /\ OrderlyChange(r, StopBegins(r))
           /\ OrderlyChange(r, [StopBegins(r) EXCEPT !.timer = FALSE])
           /\ r.os # "none" => OrderlyChange(r, AfterExit(r, callbackFirst))
<1>1. OrderlyChange(r, r)
  BY DEF OrderlyChange
<1>2. OrderlyChange(r, Killed(r))
  BY KilledCoherent DEF OrderlyChange, Retired
<1>3. r.state \in {"stopping", "stopped"} => StopBegins(r) = r
  BY DEF StopBegins, StopIgnored
<1>4. StopBegins(r).os = r.os /\ StopBegins(r).spawner = r.spawner
  BY StopBeginsCoherent
<1>5. OrderlyChange(r, StopBegins(r))
  BY <1>3, <1>4 DEF OrderlyChange, Retired
<1>6. OrderlyChange(r, [StopBegins(r) EXCEPT !.timer = FALSE])
  <2> DEFINE s == StopBegins(r)
             c == [s EXCEPT !.timer = FALSE]
  <2>1. s \in Proc
    BY StopBeginsCoherent
  <2> HIDE DEF s
  <2>2. c.os = s.os /\ c.spawner = s.spawner /\ c.state = s.state /\ ~c.timer
    BY <2>1 DEF Proc
  <2> QED
    BY <1>5, <2>2 DEF OrderlyChange, Retired, s
<1>7. ASSUME r.os # "none"
      PROVE  OrderlyChange(r, AfterExit(r, callbackFirst))
  <2> DEFINE s == AfterExit(r, callbackFirst)
  <2>1. s \in Proc /\ s.os = "none" /\ s.spawner = "none"
    BY <1>7, AfterExitCoherent
  <2>2. ASSUME Retired(r) PROVE s.state \in {"stopping", "stopped"} /\ ~s.timer
    <3> DEFINE gone == [r EXCEPT !.os = "none"]
    <3>1. /\ gone \in Proc /\ gone.state = r.state /\ gone.spawner = "none"
          /\ gone.timer = r.timer
      BY <2>2 DEF Proc, Retired
    <3>2. HandleExit(gone) = gone /\ SpawnFails(gone) = gone
      BY <2>2, <3>1 DEF Retired, HandleExit, CountsAsCrash, SpawnFails
    <3>3. s = StopEnds(gone)
      BY <3>2 DEF AfterExit
    <3> HIDE DEF gone, s
    <3> QED
      BY <2>2, <3>1, <3>3, ResumedFields DEF Retired
  <2> HIDE DEF s
  <2>3. Retired(r) => Retired(s)
    BY <2>1, <2>2 DEF Retired
  <2>4. OrderlyChange(r, s)
    BY <1>7, <2>1, <2>3 DEF OrderlyChange
  <2> QED
    BY <2>4 DEF s
<1> QED
  BY <1>1, <1>2, <1>5, <1>6, <1>7

\* Every step changes every entry orderly.
LEMMA EveryStepIsOrderly ==
    ASSUME IInv, [Next]_vars, NEW q \in Plugin
    PROVE  OrderlyChange(proc[q], proc'[q])
<1> USE OnePlugin
<1>1. CASE UNCHANGED proc
  BY <1>1, OrderlyFunctions
<1>2. CASE Tick
  BY <1>2, OrderlyFunctions DEF Tick
<1>3. CASE Shutdown
  BY <1>3, OrderlyFunctions DEF Shutdown
<1>4. ASSUME NEW p \in Plugin, BootSpawn(p)
      PROVE  OrderlyChange(proc[q], proc'[q])
  <2>1. proc[p].state = "absent" /\ proc[p].os = "none" /\ phase = "boot"
    BY <1>4 DEF BootSpawn, Coherent
  <2>2. proc[q] = proc'[q] \/ q = p
    BY <1>4 DEF BootSpawn, IInv, TypeOK
  <2> QED
    BY <2>1, <2>2, OrderlyFunctions DEF OrderlyChange, Retired
<1>5. ASSUME NEW p \in Plugin, RespawnFires(p)
      PROVE  OrderlyChange(proc[q], proc'[q])
  <2>1. proc[p].timer /\ proc[p].os = "none" /\ phase \in {"boot", "up"}
    BY <1>5 DEF RespawnFires, Coherent
  <2>2. CASE proc' = [proc EXCEPT ![p] = [Spawned(@, "respawn") EXCEPT !.timer = FALSE]]
    <3>1. proc[q] = proc'[q] \/ q = p
      BY <2>2 DEF IInv, TypeOK
    <3> QED
      BY <2>1, <3>1, OrderlyFunctions DEF OrderlyChange, Retired
  <2>3. CASE proc' = [proc EXCEPT ![p].timer = FALSE]
    <3>1. /\ proc'[q].os = proc[q].os /\ proc'[q].spawner = proc[q].spawner
          /\ proc'[q].state = proc[q].state
          /\ proc'[q].timer => proc[q].timer
      BY <2>3 DEF IInv, TypeOK, Proc
    <3> QED
      BY <3>1 DEF OrderlyChange, Retired
  <2> QED
    BY <1>5, <2>2, <2>3 DEF RespawnFires
<1>6. ASSUME NEW p \in Plugin, ClaimSettles(p) \/ AskStop(p)
      PROVE  OrderlyChange(proc[q], proc'[q])
  <2>1. proc'[q] = proc[q] \/ proc'[q] = StopBegins(proc[q])
    BY <1>6 DEF ClaimSettles, AskStop, IInv, TypeOK
  <2> QED
    BY <2>1, OrderlyFunctions
<1>7. ASSUME NEW p \in Plugin, PluginReady(p)
      PROVE  OrderlyChange(proc[q], proc'[q])
  <2>1. CASE q = p
    <3>1. proc[p].os # "none" /\ proc[p].spawner # "none"
      BY <1>7 DEF PluginReady
    <3>2. proc'[p].os = proc[p].os /\ proc'[p].spawner = "none"
      BY <1>7 DEF PluginReady, IInv, TypeOK, Proc
    <3> QED
      BY <2>1, <3>1, <3>2 DEF OrderlyChange, Retired
  <2>2. CASE q # p
    BY <1>7, <2>2, OrderlyFunctions DEF PluginReady, IInv, TypeOK
  <2> QED
    BY <2>1, <2>2
<1>8. ASSUME NEW p \in Plugin, HandshakeTimeout(p)
      PROVE  OrderlyChange(proc[q], proc'[q])
  <2>1. proc[p].spawner # "none" /\ proc[p].os # "none"
    BY <1>8 DEF HandshakeTimeout, Coherent
  <2>2. CASE q = p
    <3>1. SpawnFails(proc[p]) \in Proc /\ SpawnFails(proc[p]).spawner = "none"
      BY ResumedFields
    <3>2. Killed(SpawnFails(proc[p])).spawner = "none"
      BY <3>1 DEF Killed, Proc
    <3>3. proc'[p] = Killed(SpawnFails(proc[p]))
      BY <1>8 DEF HandshakeTimeout, IInv, TypeOK
    <3> QED
      BY <2>1, <2>2, <3>2, <3>3 DEF OrderlyChange, Retired
  <2>3. CASE q # p
    BY <1>8, <2>3, OrderlyFunctions DEF HandshakeTimeout, IInv, TypeOK
  <2> QED
    BY <2>2, <2>3
<1>9. ASSUME NEW p \in Plugin,
             Hang(p) \/ IpcOverflow(p) \/ GraceExpires(p) \/ CrashAges(p)
      PROVE  OrderlyChange(proc[q], proc'[q])
  <2>1. /\ proc'[q].spawner = proc[q].spawner /\ proc'[q].state = proc[q].state
        /\ proc'[q].timer = proc[q].timer
        /\ proc[q].os = "none" => proc'[q].os = "none"
    <3>1. CASE Hang(p)
      BY <3>1 DEF Hang, IInv, TypeOK, Proc
    <3>2. CASE IpcOverflow(p)
      BY <3>2 DEF IpcOverflow, IInv, TypeOK, Proc
    <3>3. CASE GraceExpires(p)
      BY <3>3 DEF GraceExpires, Killed, IInv, TypeOK, Proc
    <3>4. CASE CrashAges(p)
      BY <3>4 DEF CrashAges, IInv, TypeOK, Proc
    <3> QED
      BY <1>9, <3>1, <3>2, <3>3, <3>4
  <2> QED
    BY <2>1 DEF OrderlyChange, Retired
<1>10. ASSUME NEW p \in Plugin, NEW first \in BOOLEAN, ProcessExit(p, first)
       PROVE  OrderlyChange(proc[q], proc'[q])
  <2>1. proc[p].os # "none"
    BY <1>10 DEF ProcessExit
  <2>2. proc'[q] = proc[q] \/ (q = p /\ proc'[q] = AfterExit(proc[q], first))
    BY <1>10 DEF ProcessExit, IInv, TypeOK
  <2> QED
    BY <2>1, <2>2, OrderlyFunctions
<1>11. CASE BootDone \/ StopAllReturns \/ StopAllAbandoned
  BY <1>1, <1>11 DEF BootDone, StopAllReturns, StopAllAbandoned
<1>12. ASSUME NEW p \in Plugin, Subscribe(p) \/ ServeReady(p) \/ Pong(p)
       PROVE  OrderlyChange(proc[q], proc'[q])
  BY <1>1, <1>12 DEF Subscribe, ServeReady, Pong
<1> QED
  BY <1>1, <1>2, <1>3, <1>4, <1>5, <1>6, <1>7, <1>8, <1>9, <1>10, <1>11, <1>12
  DEF Next, vars

-----------------------------------------------------------------------------
(* What the runtime holds for a plugin agrees with the plugin's entry.     *)

\* Follows looks at a few fields of the entry and may be weakened by its end:
\* once boot has given the plugin up, less is asked of the claim.
LEMMA FollowsFields ==
    ASSUME NEW p \in Plugin, NEW r, NEW s, NEW h, NEW g, NEW t, NEW u,
           Follows(p, r, h, t),
           s.state = r.state, s.spawner = r.spawner, s.timer => r.timer,
           r.stopWait # "none" => s.stopWait # "none",
           g.subs = h.subs, h.claim => g.claim,
           g.boot = h.boot \/ g.boot \in {"skipped", "unwind"},
           u.gotReady = t.gotReady
    PROVE  Follows(p, s, g, u)
  BY DEF Follows

\* What fireUnload() leaves: no subscription, and the claim of a plugin that
\* is still being loaded.
LEMMA UnloadedFields ==
    ASSUME NEW h \in Hosted, NEW p \in Plugin
    PROVE  LET u == Unloaded(h, p)
           IN  /\ u \in Hosted /\ u.subs = "none" /\ u.boot = h.boot
               /\ h.claim /\ h.boot # "loaded" => u.claim
  BY DEF Unloaded, Hosted

\* An entry that ended, with everything unloaded, is followed.
LEMMA EndedFollows ==
    ASSUME NEW p \in Plugin, NEW r, NEW s, NEW h \in Hosted, NEW g,
           NEW t, NEW u, Follows(p, r, h, t),
           s.state \in {"stopped", "quarantined"}, s.spawner = "none",
           g.subs = "none", h.claim /\ h.boot # "loaded" => g.claim,
           g.boot = h.boot \/ g.boot \in {"skipped", "unwind"}
    PROVE  Follows(p, s, g, u)
  BY DEF Follows

\* stop() unloads at once exactly what it will not await.
LEMMA StopFollows ==
    ASSUME NEW p \in Plugin, NEW r \in Proc, NEW h \in Hosted, Coherent(r),
           NEW t, NEW w, w.gotReady = t.gotReady,
           Follows(p, r, h, t), NEW s, NEW g,
           s.state = StopBegins(r).state, s.spawner = StopBegins(r).spawner,
           s.stopWait = StopBegins(r).stopWait, s.timer => StopBegins(r).timer,
           g.subs = UnloadedIf(h, p, StopUnloads(r)).subs,
           g.claim = UnloadedIf(h, p, StopUnloads(r)).claim,
           g.boot = h.boot \/ g.boot \in {"skipped", "unwind"}
    PROVE  Follows(p, s, g, w)
<1>1. CASE StopIgnored(r)
  <2>1. StopBegins(r) = r /\ UnloadedIf(h, p, StopUnloads(r)) = h
    BY <1>1 DEF StopBegins, UnloadedIf, StopUnloads
  <2> QED
    BY <2>1, FollowsFields
<1>2. CASE ~StopIgnored(r) /\ r.os = "none"
  <2>1. UnloadedIf(h, p, StopUnloads(r)) = Unloaded(h, p)
    BY <1>2 DEF UnloadedIf, StopUnloads
  <2>2. StopBegins(r).state = "stopped" /\ StopBegins(r).spawner = "none"
    BY <1>2 DEF StopBegins, Proc, Coherent
  <2> QED
    BY <2>1, <2>2, UnloadedFields, EndedFollows
<1>3. CASE ~StopIgnored(r) /\ r.os # "none"
  <2>1. UnloadedIf(h, p, StopUnloads(r)) = h
    BY <1>3 DEF UnloadedIf, StopUnloads
  <2>2. /\ StopBegins(r).state = "stopping" /\ StopBegins(r).stopWait # "none"
        /\ StopBegins(r).spawner = r.spawner /\ ~StopBegins(r).timer
    BY <1>3 DEF StopBegins, Proc, Coherent
  <2> QED
    BY <2>1, <2>2 DEF Follows
<1> QED
  BY <1>1, <1>2, <1>3

\* The state an exit leaves: an end if it unloads, "stopped" without a timer if
\* somebody awaited the handshake, and otherwise the state before.
LEMMA AfterExitState ==
    ASSUME NEW r \in Proc, Coherent(r), r.os # "none",
           NEW callbackFirst \in BOOLEAN
    PROVE  LET s == AfterExit(r, callbackFirst)
           IN  IF ExitUnloads(r, callbackFirst)
               THEN s.state \in {"stopped", "quarantined"}
               ELSE /\ ~s.timer /\ r.stopWait = "none"
                    /\ s.state = IF r.spawner = "none" THEN r.state ELSE "stopped"
<1> DEFINE gone == [r EXCEPT !.os = "none"]
           s == AfterExit(r, callbackFirst)
<1>1. /\ gone \in Proc /\ gone.state = r.state /\ gone.spawner = r.spawner
      /\ gone.stopWait = r.stopWait /\ gone.crashes = r.crashes /\ ~gone.timer
  BY DEF Proc, Coherent
<1>2. /\ CountsAsCrash(r) <=> r.state \in {"starting", "ready"} /\ phase \in {"boot", "up"}
      /\ CountsAsCrash(r) => r.crashes < QuarantineThreshold
  BY DEF Proc, ProcState, Coherent, CountsAsCrash
<1> HIDE DEF gone
<1>3. CountsAsCrash(gone) <=> CountsAsCrash(r)
  BY <1>1 DEF CountsAsCrash
<1>4. CASE callbackFirst
  <2> DEFINE h == HandleExit(gone)
             f == SpawnFails(h)
  <2>1. s = StopEnds(f) /\ AtExit(r, callbackFirst) = r
    BY <1>4 DEF AfterExit, gone, AtExit
  <2>2. /\ h \in Proc /\ h.spawner = r.spawner /\ h.stopWait = r.stopWait
        /\ h.state = r.state \/ h.state \in {"stopped", "quarantined"}
        /\ CountsAsCrash(r) => h.state \in {"stopped", "quarantined"}
        /\ ~CountsAsCrash(r) => h.state = r.state /\ ~h.timer
    BY <1>1, <1>2, <1>3, HandleExitFields
  <2> HIDE DEF h
  <2>3. /\ f \in Proc /\ f.stopWait = r.stopWait /\ f.timer = h.timer
        /\ f.state = IF r.spawner = "none" THEN h.state ELSE "stopped"
    BY <2>2, ResumedFields
  <2> HIDE DEF f, s
  <2>4. /\ s.state = IF r.stopWait = "none" THEN f.state ELSE "stopped"
        /\ s.timer = f.timer
    BY <2>1, <2>3, ResumedFields
  <2>5. ExitUnloads(r, callbackFirst) <=> r.stopWait # "none" \/ CountsAsCrash(r)
    BY <2>1 DEF ExitUnloads
  <2>6. IF ExitUnloads(r, callbackFirst)
        THEN s.state \in {"stopped", "quarantined"}
        ELSE /\ ~s.timer /\ r.stopWait = "none"
             /\ s.state = IF r.spawner = "none" THEN r.state ELSE "stopped"
    BY <2>2, <2>3, <2>4, <2>5
  <2> QED
    BY <2>6 DEF s
<1>5. CASE ~callbackFirst
  <2> DEFINE f == SpawnFails(gone)
             h == HandleExit(f)
  <2>1. s = StopEnds(h)
    BY <1>5 DEF AfterExit, gone
  <2>2. /\ f \in Proc /\ f.spawner = "none"
        /\ f.stopWait = r.stopWait /\ f.crashes = r.crashes /\ ~f.timer
        /\ f.state = IF r.spawner = "none" THEN r.state ELSE "stopped"
    BY <1>1, ResumedFields
  <2>3. /\ CountsAsCrash(f) <=> CountsAsCrash(r) /\ r.spawner = "none"
        /\ CountsAsCrash(f) <=> CountsAsCrash(AtExit(r, callbackFirst))
    BY <1>2, <1>5, <2>2, ResumedFields DEF CountsAsCrash, AtExit
  <2> HIDE DEF f
  <2>4. /\ h \in Proc /\ h.stopWait = r.stopWait
        /\ CountsAsCrash(f) => h.state \in {"stopped", "quarantined"}
        /\ ~CountsAsCrash(f) => h.state = f.state /\ ~h.timer
    BY <1>2, <2>2, <2>3, HandleExitFields
  <2> HIDE DEF h, s
  <2>5. /\ s.state = IF r.stopWait = "none" THEN h.state ELSE "stopped"
        /\ s.timer = h.timer
    BY <2>1, <2>4, ResumedFields
  <2>6. ExitUnloads(r, callbackFirst) <=> r.stopWait # "none" \/ CountsAsCrash(f)
    BY <2>3 DEF ExitUnloads
  <2>7. IF ExitUnloads(r, callbackFirst)
        THEN s.state \in {"stopped", "quarantined"}
        ELSE /\ ~s.timer /\ r.stopWait = "none"
             /\ s.state = IF r.spawner = "none" THEN r.state ELSE "stopped"
    BY <2>2, <2>3, <2>4, <2>5, <2>6
  <2> QED
    BY <2>7 DEF s
<1> QED
  BY <1>4, <1>5

\* An exit with its listeners keeps what is held in agreement.
LEMMA ExitFollows ==
    ASSUME IInv, NEW p \in Plugin, NEW callbackFirst \in BOOLEAN,
           Follows(p, proc[p], host[p], hist[p]), ProcessExit(p, callbackFirst)
    PROVE  Follows(p, proc'[p], host'[p], hist'[p])
<1> DEFINE b == ExitUnloads(proc[p], callbackFirst)
           u == UnloadedIf(host[p], p, b)
<1> USE OnePlugin
<1>1. /\ proc[p].os # "none" /\ proc'[p] = AfterExit(proc[p], callbackFirst)
  BY DEF ProcessExit, IInv, TypeOK
<1>2. /\ proc'[p] \in Proc /\ proc'[p].spawner = "none"
      /\ IF b THEN proc'[p].state \in {"stopped", "quarantined"}
         ELSE /\ ~proc'[p].timer /\ proc[p].stopWait = "none"
              /\ proc'[p].state = IF proc[p].spawner = "none" THEN proc[p].state
                                 ELSE "stopped"
      /\ hist'[p].gotReady = hist[p].gotReady
  <2>1. hist'[p].gotReady = hist[p].gotReady
    BY DEF ProcessExit, IInv, TypeOK, Recorded
  <2> QED
    BY <1>1, <2>1, AfterExitCoherent, AfterExitState
<1>3. u \in Hosted
  BY UnloadedHosted
<1> HIDE DEF u, b
<1>4. PICK k \in {"skipped", host[p].boot} :
         host' = [host EXCEPT ![p] = [u EXCEPT !.boot = k]]
  BY DEF ProcessExit, u, b
<1>5. /\ host'[p].subs = u.subs /\ host'[p].claim = u.claim /\ host'[p].boot = k
  BY <1>3, <1>4 DEF IInv, TypeOK, Hosted
<1>6. CASE b
  <2>1. u = Unloaded(host[p], p)
    BY <1>6 DEF u, UnloadedIf
  <2> QED
    BY ZenonT(60), <1>2, <1>4, <1>5, <1>6, <2>1, UnloadedFields, EndedFollows
<1>7. CASE ~b /\ proc[p].spawner # "none"
  <2>1. u = host[p] /\ ~hist[p].gotReady
    BY <1>7 DEF u, UnloadedIf, Follows
  <2> QED
    BY <1>2, <1>4, <1>5, <1>7, <2>1 DEF Follows
<1>8. CASE ~b /\ proc[p].spawner = "none"
  <2>1. u = host[p]
    BY <1>8 DEF u, UnloadedIf
  <2> QED
    BY <1>2, <1>4, <1>5, <1>8, <2>1, FollowsFields
<1> QED
  BY <1>6, <1>7, <1>8

\* A spawn finds nothing subscribed by an earlier process: what could outlive
\* one belonged to a process that never got ready, and none is started then.
LEMMA SpawnFollows ==
    ASSUME IInv, NEW p \in Plugin, Follows(p, proc[p], host[p], hist[p]),
           BootSpawn(p) \/ RespawnFires(p)
    PROVE  Follows(p, proc'[p], host'[p], hist'[p])
<1> USE OnePlugin
<1>1. host[p].subs = "none" /\ proc[p].stopWait = "none"
  BY DEF BootSpawn, RespawnFires, Follows, Coherent
<1>2. Restarted(host[p]) = host[p]
  BY <1>1 DEF Restarted, Hosted
<1>3. CASE BootSpawn(p)
  <2>1. CASE /\ proc' = [proc EXCEPT ![p] = Spawned(@, "boot")] /\ FreshSession(p)
             /\ host' = [host EXCEPT ![p] = [Restarted(@) EXCEPT !.boot = "handshake"]]
    <3>1. proc'[p].state = "starting"
      BY <2>1 DEF Spawned, IInv, TypeOK, Proc
    <3>2. host'[p].subs = "none" /\ host'[p].boot = "handshake"
      BY <1>1, <1>2, <2>1 DEF IInv, TypeOK, Hosted
    <3>3. ~hist'[p].gotReady
      BY <2>1, FreshSessionTypes
    <3> QED
      BY <3>1, <3>2, <3>3 DEF Follows
  <2>2. CASE UNCHANGED <<proc, hist>> /\ host' = [host EXCEPT ![p].boot = "skipped"]
    <3>1. /\ host'[p].subs = host[p].subs /\ host'[p].claim = host[p].claim
          /\ host'[p].boot = "skipped"
      BY <2>2 DEF IInv, TypeOK, Hosted
    <3> QED
      BY <2>2, <3>1, FollowsFields
  <2> QED
    BY <1>3, <2>1, <2>2 DEF BootSpawn
<1>4. CASE RespawnFires(p)
  <2>1. CASE /\ proc' = [proc EXCEPT ![p] =
                            [Spawned(@, "respawn") EXCEPT !.timer = FALSE]]
             /\ host' = [host EXCEPT ![p] = Restarted(@)] /\ FreshSession(p)
    <3>1. proc'[p].state = "starting"
      BY <2>1 DEF Spawned, IInv, TypeOK, Proc
    <3>2. host'[p] = host[p]
      BY <1>2, <2>1 DEF IInv, TypeOK
    <3>3. ~hist'[p].gotReady
      BY <2>1, FreshSessionTypes
    <3> QED
      BY <1>1, <3>1, <3>2, <3>3 DEF Follows
  <2>2. CASE proc' = [proc EXCEPT ![p].timer = FALSE] /\ UNCHANGED <<host, hist>>
    <3>1. /\ proc'[p].state = proc[p].state /\ proc'[p].spawner = proc[p].spawner
          /\ proc'[p].stopWait = proc[p].stopWait /\ ~proc'[p].timer
      BY <2>2 DEF IInv, TypeOK, Proc
    <3> QED
      BY <2>2, <3>1, FollowsFields
  <2> QED
    BY <1>4, <2>1, <2>2 DEF RespawnFires
<1> QED
  BY <1>3, <1>4

\* The service of a plugin that gets ready is claimed, by boot or by onRespawn,
\* and what it has subscribed to is its own.
LEMMA ReadyFollows ==
    ASSUME IInv, NEW p \in Plugin, Follows(p, proc[p], host[p], hist[p]),
           PluginReady(p)
    PROVE  Follows(p, proc'[p], host'[p], hist'[p])
<1> USE OnePlugin
<1>1. /\ proc'[p].state = "ready" /\ proc'[p].spawner = "none" /\ ~proc'[p].timer
      /\ proc[p].spawner # "none"
  BY DEF PluginReady, Coherent, IInv, TypeOK, Proc
<1>2. host[p].subs # "stale"
  BY DEF Follows
<1>3. host'[p] = IF proc[p].spawner = "boot"
                 THEN IF p \in WithService
                      THEN [host[p] EXCEPT !.boot = "claim", !.claim = TRUE]
                      ELSE Registered(host[p], p)
                 ELSE Reclaimed(host[p], p)
  BY DEF PluginReady, IInv, TypeOK
<1>4. CASE proc[p].spawner = "boot" /\ p \in WithService
  BY <1>1, <1>2, <1>3, <1>4 DEF Follows, Hosted
<1>5. CASE proc[p].spawner = "boot" /\ p \notin WithService
  BY <1>1, <1>2, <1>3, <1>5 DEF Follows, Registered, Hosted
<1>6. CASE proc[p].spawner # "boot"
  <2>1. /\ host'[p].subs = host[p].subs /\ host'[p].boot = host[p].boot
        /\ host[p].claim => host'[p].claim
        /\ host[p].boot = "loaded" /\ p \in WithService => host'[p].claim
    BY <1>3, <1>6 DEF Reclaimed, Hosted
  <2> QED
    BY <1>1, <1>2, <2>1 DEF Follows
<1> QED
  BY <1>4, <1>5, <1>6

\* The answer to a claim registers the plugin or begins to stop it.
LEMMA ClaimFollows ==
    ASSUME IInv, NEW p \in Plugin, Follows(p, proc[p], host[p], hist[p]), ClaimSettles(p)
    PROVE  Follows(p, proc'[p], host'[p], hist'[p])
<1> USE OnePlugin
<1>3. hist' = hist
  BY DEF ClaimSettles
<1>1. CASE host' = [host EXCEPT ![p] = Registered(@, p)] /\ proc' = proc
  <2>1. /\ host'[p].subs = host[p].subs /\ host'[p].claim = host[p].claim
        /\ host'[p].boot = "loaded" /\ host[p].boot = "claim"
    BY <1>1 DEF ClaimSettles, Registered, IInv, TypeOK, Hosted
  <2> QED
    BY <1>1, <1>3, <2>1 DEF Follows
<1>2. ASSUME NEW waits \in BOOLEAN,
             proc' = [proc EXCEPT ![p] = StopBegins(@)],
             host' = [host EXCEPT ![p] =
                       [UnloadedIf(@, p, StopUnloads(proc[p]))
                          EXCEPT !.boot = IF waits THEN "unwind" ELSE "skipped"]]
      PROVE  Follows(p, proc'[p], host'[p], hist'[p])
  <2> DEFINE u == UnloadedIf(host[p], p, StopUnloads(proc[p]))
  <2>1. u \in Hosted
    BY UnloadedHosted
  <2>2. proc'[p] = StopBegins(proc[p])
    BY <1>2 DEF IInv, TypeOK
  <2>3. host'[p] = [u EXCEPT !.boot = IF waits THEN "unwind" ELSE "skipped"]
    BY <1>2 DEF IInv, TypeOK
  <2> HIDE DEF u
  <2>4. /\ host'[p].subs = u.subs /\ host'[p].claim = u.claim
        /\ host'[p].boot \in {"unwind", "skipped"}
    BY <2>1, <2>3 DEF Hosted
  <2> QED
    BY <1>3, <2>2, <2>4, StopFollows DEF u
<1> QED
  BY <1>1, <1>2 DEF ClaimSettles

\* Every step keeps what is held in agreement with the entry.
LEMMA EveryStepFollows ==
    ASSUME IInv, [Next]_vars, NEW q \in Plugin, Follows(q, proc[q], host[q], hist[q])
    PROVE  Follows(q, proc'[q], host'[q], hist'[q])
<1> USE OnePlugin
<1>1. CASE UNCHANGED <<proc, host>> /\ hist'[q].gotReady = hist[q].gotReady
  BY <1>1, FollowsFields
<1>2. CASE Tick
  <2>1. UNCHANGED <<host, hist>> /\ (proc'[q] = proc[q] \/ proc'[q] = Killed(proc[q]))
    BY <1>2 DEF Tick
  <2> QED
    BY <2>1, KilledCoherent, FollowsFields
<1>3. CASE Shutdown
  <2> DEFINE s == StopBegins(proc[q])
  <2>1. s \in Proc
    BY StopBeginsCoherent
  <2>2. /\ proc'[q] = [s EXCEPT !.timer = FALSE]
        /\ host'[q] = UnloadedIf(host[q], q, StopUnloads(proc[q]))
    BY <1>3 DEF Shutdown
  <2>3. host'[q].boot = host[q].boot
    BY <2>2, UnloadedHosted
  <2> HIDE DEF s
  <2>4. /\ proc'[q].state = s.state /\ proc'[q].spawner = s.spawner
        /\ proc'[q].stopWait = s.stopWait /\ ~proc'[q].timer
    BY <2>1, <2>2 DEF Proc
  <2>5. /\ proc'[q].state = StopBegins(proc[q]).state
        /\ proc'[q].spawner = StopBegins(proc[q]).spawner
        /\ proc'[q].stopWait = StopBegins(proc[q]).stopWait /\ ~proc'[q].timer
    BY <2>4 DEF s
  <2>6. /\ host'[q].subs = UnloadedIf(host[q], q, StopUnloads(proc[q])).subs
        /\ host'[q].claim = UnloadedIf(host[q], q, StopUnloads(proc[q])).claim
    BY <2>2
  <2>7. /\ proc[q] \in Proc /\ host[q] \in Hosted /\ Coherent(proc[q])
        /\ hist' = hist
    BY <1>3 DEF Shutdown
  <2> QED
    BY <2>3, <2>5, <2>6, <2>7, StopFollows
<1>4. ASSUME NEW p \in Plugin, BootSpawn(p) \/ RespawnFires(p)
      PROVE  Follows(q, proc'[q], host'[q], hist'[q])
  <2>1. q # p => proc'[q] = proc[q] /\ host'[q] = host[q] /\ hist'[q] = hist[q]
    BY <1>4 DEF BootSpawn, RespawnFires, FreshSession, IInv, TypeOK
  <2> QED
    BY <1>4, <2>1, SpawnFollows
<1>5. ASSUME NEW p \in Plugin, ClaimSettles(p)
      PROVE  Follows(q, proc'[q], host'[q], hist'[q])
  <2>1. q # p => proc'[q] = proc[q] /\ host'[q] = host[q] /\ hist'[q] = hist[q]
    BY <1>5 DEF ClaimSettles, IInv, TypeOK
  <2> QED
    BY <1>5, <2>1, ClaimFollows
<1>6. ASSUME NEW p \in Plugin, PluginReady(p)
      PROVE  Follows(q, proc'[q], host'[q], hist'[q])
  <2>1. q # p => proc'[q] = proc[q] /\ host'[q] = host[q] /\ hist'[q] = hist[q]
    BY <1>6 DEF PluginReady, IInv, TypeOK
  <2> QED
    BY <1>6, <2>1, ReadyFollows
<1>7. ASSUME NEW p \in Plugin, NEW first \in BOOLEAN, ProcessExit(p, first)
      PROVE  Follows(q, proc'[q], host'[q], hist'[q])
  <2>1. q # p => proc'[q] = proc[q] /\ host'[q] = host[q] /\ hist'[q] = hist[q]
    BY <1>7 DEF ProcessExit, IInv, TypeOK
  <2> QED
    BY <1>7, <2>1, ExitFollows
<1>8. ASSUME NEW p \in Plugin, HandshakeTimeout(p)
      PROVE  Follows(q, proc'[q], host'[q], hist'[q])
  <2>1. CASE q # p
    <3>1. proc'[q] = proc[q] /\ host'[q] = host[q] /\ hist'[q] = hist[q]
      BY <1>8, <2>1 DEF HandshakeTimeout, IInv, TypeOK
    <3> QED
      BY <3>1
  <2>2. CASE q = p
    <3>1. proc'[p] = Killed(SpawnFails(proc[p])) /\ proc[p].spawner # "none"
      BY <1>8 DEF HandshakeTimeout, IInv, TypeOK
    <3>2. proc'[p].state = "stopped" /\ ~proc'[p].timer /\ proc'[p].spawner = "none"
      <4>1. SpawnFails(proc[p]) \in Proc /\ SpawnFails(proc[p]).spawner = "none"
        BY ResumedFields
      <4>2. Killed(SpawnFails(proc[p])).spawner = "none"
        BY <4>1 DEF Killed, Proc
      <4> QED
        BY <3>1, <4>2, TimedOutCoherent
    <3>3. /\ host'[p].subs = host[p].subs /\ host'[p].claim = host[p].claim
          /\ host'[p].boot = host[p].boot \/ host'[p].boot = "skipped"
      BY <1>8 DEF HandshakeTimeout, IInv, TypeOK, Hosted
    <3>4. /\ hist' = hist /\ ~hist[p].gotReady /\ host[p].subs # "stale"
      BY <1>8, <2>2, <3>1 DEF HandshakeTimeout, Follows
    <3> QED
      BY <2>2, <3>2, <3>3, <3>4 DEF Follows
  <2> QED
    BY <2>1, <2>2
<1>9. ASSUME NEW p \in Plugin, AskStop(p)
      PROVE  Follows(q, proc'[q], host'[q], hist'[q])
  <2>1. CASE q # p
    <3>1. proc'[q] = proc[q] /\ host'[q] = host[q] /\ hist'[q] = hist[q]
      BY <1>9, <2>1 DEF AskStop, IInv, TypeOK
    <3> QED
      BY <3>1
  <2>2. CASE q = p
    <3>1. /\ proc'[p] = StopBegins(proc[p])
          /\ host'[p] = UnloadedIf(host[p], p, StopUnloads(proc[p]))
      BY <1>9 DEF AskStop, IInv, TypeOK
    <3>2. host'[p].boot = host[p].boot
      BY <3>1, UnloadedHosted
    <3>3. hist'[p].gotReady = hist[p].gotReady
      <4>1. PICK x, y : hist' = [hist EXCEPT ![p].askedIn = x, ![p].answered = y]
        BY <1>9 DEF AskStop
      <4> QED
        BY <4>1 DEF IInv, TypeOK, Recorded
    <3> QED
      BY <2>2, <3>1, <3>2, <3>3, StopFollows
  <2> QED
    BY <2>1, <2>2
<1>10. ASSUME NEW p \in Plugin,
              Hang(p) \/ IpcOverflow(p) \/ GraceExpires(p) \/ CrashAges(p)
       PROVE  Follows(q, proc'[q], host'[q], hist'[q])
  <2>1. /\ proc'[q].spawner = proc[q].spawner /\ proc'[q].state = proc[q].state
        /\ proc'[q].timer = proc[q].timer
        /\ proc[q].stopWait # "none" => proc'[q].stopWait # "none"
    <3>1. CASE Hang(p)
      BY <3>1 DEF Hang, IInv, TypeOK, Proc
    <3>2. CASE IpcOverflow(p)
      BY <3>2 DEF IpcOverflow, IInv, TypeOK, Proc
    <3>3. CASE GraceExpires(p)
      BY <3>3 DEF GraceExpires, Killed, IInv, TypeOK, Proc
    <3>4. CASE CrashAges(p)
      BY <3>4 DEF CrashAges, IInv, TypeOK, Proc
    <3> QED
      BY <1>10, <3>1, <3>2, <3>3, <3>4
  <2>2. UNCHANGED <<host, hist>>
    BY <1>10 DEF Hang, IpcOverflow, GraceExpires, CrashAges
  <2> QED
    BY <2>1, <2>2, FollowsFields
<1>11. ASSUME NEW p \in Plugin, Subscribe(p)
       PROVE  Follows(q, proc'[q], host'[q], hist'[q])
  <2>1. CASE q # p
    <3>1. proc'[q] = proc[q] /\ host'[q] = host[q] /\ hist'[q] = hist[q]
      BY <1>11, <2>1 DEF Subscribe, IInv, TypeOK
    <3> QED
      BY <3>1
  <2>2. CASE q = p
    <3>1. /\ UNCHANGED <<proc, hist>> /\ ~proc[p].timer
          /\ proc[p].state \in {"starting", "ready", "stopping"}
          /\ host'[p].subs = "own" /\ host'[p].claim = host[p].claim
          /\ host'[p].boot = host[p].boot
      BY <1>11 DEF Subscribe, Talking, Coherent, IInv, TypeOK, Hosted, Proc, ProcState
    <3> QED
      BY <2>2, <3>1 DEF Follows
  <2> QED
    BY <2>1, <2>2
<1>12. ASSUME NEW p \in Plugin, ServeReady(p)
       PROVE  Follows(q, proc'[q], host'[q], hist'[q])
  <2>1. /\ proc' = proc /\ host'[q].subs = host[q].subs
        /\ host'[q].claim = host[q].claim /\ host'[q].boot = host[q].boot
        /\ hist'[q].gotReady = hist[q].gotReady
    BY <1>12 DEF ServeReady, IInv, TypeOK, Hosted, Recorded
  <2> QED
    BY <2>1, FollowsFields
<1>13. CASE BootDone \/ StopAllReturns \/ StopAllAbandoned
  BY <1>1, <1>13 DEF BootDone, StopAllReturns, StopAllAbandoned
<1>14. ASSUME NEW p \in Plugin, Pong(p)
       PROVE  Follows(q, proc'[q], host'[q], hist'[q])
  <2>1. hist'[q].gotReady = hist[q].gotReady
    BY <1>14 DEF Pong, IInv, TypeOK, Recorded
  <2> QED
    BY <1>1, <1>14, <2>1 DEF Pong
<1> QED
  BY <1>1, <1>2, <1>3, <1>4, <1>5, <1>6, <1>7, <1>8, <1>9, <1>10, <1>11, <1>12,
     <1>13, <1>14 DEF Next, vars

\* Every step keeps the watchdog's count below the ticks of silence.
LEMMA EveryStepCounts ==
    ASSUME IInv, [Next]_vars, NEW q \in Plugin, CountIsOwn(q)
    PROVE  CountIsOwn(q)'
<1> USE OnePlugin
<1>1. ASSUME hist'[q].inherited = hist[q].inherited,
             \/ watch'[q].missed = Untracked
             \/ watch'[q].missed = 0 /\ watch'[q].silent \in Nat
             \/ /\ watch'[q].missed = watch[q].missed
                /\ watch'[q].silent = watch[q].silent
      PROVE  CountIsOwn(q)'
  BY <1>1 DEF CountIsOwn
<1>2. CASE UNCHANGED <<watch, hist>>
  BY <1>1, <1>2
<1>3. CASE Tick
  <2>1. \/ watch'[q].missed = Untracked
        \/ watch'[q] = watch[q]
        \/ /\ watch[q].missed # Untracked
           /\ watch'[q].missed = watch[q].missed + 1
           /\ watch'[q].silent = watch[q].silent + 1
    BY <1>3 DEF Tick, Watched
  <2>2. hist' = hist
    BY <1>3 DEF Tick
  <2> QED
    BY <2>1, <2>2 DEF CountIsOwn, Watched, Untracked
<1>4. CASE Shutdown
  BY <1>1, <1>4 DEF Shutdown, Watched
<1>5. ASSUME NEW p \in Plugin, FreshSession(p)
      PROVE  CountIsOwn(q)'
  <2>1. CASE q # p
    <3>1. watch'[q] = watch[q] /\ hist'[q] = hist[q]
      BY <1>5, <2>1 DEF FreshSession, IInv, TypeOK
    <3> QED
      BY <1>1, <3>1
  <2>2. CASE q = p
    <3>1. watch'[p].missed = watch[p].missed
      BY <1>5 DEF FreshSession, IInv, TypeOK, Watched
    <3>2. hist'[p].inherited = (watch[p].missed # Untracked)
      BY <1>5 DEF FreshSession, IInv, TypeOK, Recorded
    <3> QED
      BY <2>2, <3>1, <3>2 DEF CountIsOwn
  <2> QED
    BY <2>1, <2>2
<1>6. ASSUME NEW p \in Plugin, PluginReady(p)
      PROVE  CountIsOwn(q)'
  <2>1. hist'[q].inherited = hist[q].inherited
    BY <1>6 DEF PluginReady, IInv, TypeOK, Recorded
  <2>2. \/ watch'[q] = watch[q]
        \/ watch'[q].missed = 0 /\ watch'[q].silent = watch[q].silent
    BY <1>6 DEF PluginReady, IInv, TypeOK, Watched
  <2> QED
    BY <1>1, <2>1, <2>2 DEF Watched
<1>7. ASSUME NEW p \in Plugin, Pong(p)
      PROVE  CountIsOwn(q)'
  <2>1. CASE q = p
    <3>1. watch'[q].missed = 0 /\ watch'[q].silent = 0
      BY <1>7, <2>1 DEF Pong, IInv, TypeOK
    <3> QED
      BY <3>1 DEF CountIsOwn
  <2>2. CASE q # p
    BY <1>1, <1>7, <2>2 DEF Pong, IInv, TypeOK
  <2> QED
    BY <2>1, <2>2
<1>8. ASSUME NEW p \in Plugin, NEW first \in BOOLEAN, ProcessExit(p, first)
      PROVE  CountIsOwn(q)'
  <2>1. hist'[q].inherited = hist[q].inherited
    BY <1>8 DEF ProcessExit, IInv, TypeOK, Recorded
  <2>2. watch'[q] = watch[q] \/ watch'[q].missed = Untracked
    <3>1. CASE q # p
      BY <1>8, <3>1 DEF ProcessExit, IInv, TypeOK
    <3>2. CASE q = p /\ host[p].boot = "unwind"
      BY <1>8, <3>2 DEF ProcessExit, IInv, TypeOK, Watched
    <3>3. CASE q = p /\ host[p].boot # "unwind"
      BY <1>8, <3>3 DEF ProcessExit, IInv, TypeOK, Watched
    <3> QED
      BY <3>1, <3>2, <3>3
  <2> QED
    BY <1>1, <2>1, <2>2
<1>9. ASSUME NEW p \in Plugin, ServeReady(p) \/ AskStop(p)
      PROVE  CountIsOwn(q)'
  <2>1. watch' = watch /\ hist'[q].inherited = hist[q].inherited
    BY <1>9 DEF ServeReady, AskStop, IInv, TypeOK, Recorded
  <2> QED
    BY <1>1, <2>1
<1>10. ASSUME NEW p \in Plugin, ClaimSettles(p)
       PROVE  CountIsOwn(q)'
  <2>1. hist' = hist /\ (watch'[q] = watch[q] \/ watch'[q].missed = Untracked)
    BY <1>10 DEF ClaimSettles, IInv, TypeOK, Watched
  <2> QED
    BY <1>1, <2>1
<1>11. ASSUME NEW p \in Plugin, BootSpawn(p) \/ RespawnFires(p)
       PROVE  CountIsOwn(q)'
  <2>1. FreshSession(p) \/ UNCHANGED <<watch, hist>>
    BY <1>11 DEF BootSpawn, RespawnFires
  <2> QED
    BY <1>2, <1>5, <2>1
<1>12. ASSUME NEW p \in Plugin,
              \/ HandshakeTimeout(p) \/ Subscribe(p) \/ Hang(p)
              \/ IpcOverflow(p) \/ GraceExpires(p) \/ CrashAges(p)
       PROVE  CountIsOwn(q)'
  BY <1>2, <1>12 DEF HandshakeTimeout, Subscribe, Hang, IpcOverflow,
                     GraceExpires, CrashAges
<1>13. CASE BootDone \/ StopAllReturns \/ StopAllAbandoned
  BY <1>2, <1>13 DEF BootDone, StopAllReturns, StopAllAbandoned
<1> QED
  BY <1>2, <1>3, <1>4, <1>6, <1>7, <1>8, <1>9, <1>10, <1>11, <1>12, <1>13
  DEF Next, vars

\* What is held for a plugin agrees with its entry in every reachable state.
LEMMA HostInvHolds == Spec => []HostInv
<1>1. Init => HostInv
  BY DEF Init, HostInv, Follows, CountIsOwn
<1>2. IInv /\ HostInv /\ [Next]_vars => HostInv'
  BY EveryStepFollows, EveryStepCounts DEF HostInv
<1> QED
  BY <1>1, <1>2, InvariantHolds, PTL DEF Spec

-----------------------------------------------------------------------------
(* The theorems.                                                           *)

\* Types, for SubprocessManager, Watchdog and boot() together: the crash count
\* never exceeds the budget and the count of missed pings stays below the limit.
THEOREM TypeCorrect == Spec => []TypeOK
<1>1. IInv => TypeOK
  BY DEF IInv
<1> QED
  BY <1>1, InvariantHolds, PTL

\* LifeInv, the invariant all others follow from, holds.
THEOREM LifeInvHolds == Spec => []LifeInv
<1>1. IInv => LifeInv
  BY DEF IInv
<1> QED
  BY <1>1, InvariantHolds, PTL

\* A live process is one the manager still follows (or has sent SIGKILL to):
\* spawn() and stop() lose no process on any path.
THEOREM NoProcessIsOrphaned == Spec => []NoOrphan
<1>1. IInv => NoOrphan
  BY DEF IInv, LifeInv, TypeOK, NoOrphan, Coherent, Proc, ProcState
<1> QED
  BY <1>1, InvariantHolds, PTL

\* The crash that spends the budget in handleExit() is the last one.
THEOREM QuarantineHolds == Spec => []QuarantineIsFinal
<1>1. IInv => QuarantineIsFinal
  BY DEF IInv, LifeInv, QuarantineIsFinal
<1> QED
  BY <1>1, InvariantHolds, PTL

\* stopAll() leaves no respawn timer behind and none is armed after it.
THEOREM ShutdownIsQuiet == Spec => []ShutdownArmsNothing
<1>1. IInv => ShutdownArmsNothing
  BY DEF IInv, LifeInv, ShutdownArmsNothing
<1> QED
  BY <1>1, InvariantHolds, PTL

\* stopAll() resolves only after every process it signalled has exited.
THEOREM StopAllIsComplete == Spec => []StopAllWaits
<1>1. Init => StopAllWaits
  BY DEF Init, StopAllWaits
<1>2. IInv /\ StopAllWaits /\ [Next]_vars => StopAllWaits'
  <2> SUFFICES ASSUME IInv, StopAllWaits, [Next]_vars, phase' = "down",
                      NEW q \in awaited'
               PROVE  proc'[q].os = "none"
    BY DEF StopAllWaits
  <2>1. CASE phase = "down"
    <3>1. awaited' = awaited
      BY ZenonT(60), <2>1 DEF Next, vars, BootDone, Tick, Shutdown, StopAllReturns,
                  StopAllAbandoned, BootSpawn, ClaimSettles, PluginReady,
                  HandshakeTimeout, Subscribe, ServeReady, Pong, Hang,
                  IpcOverflow, ProcessExit, RespawnFires, GraceExpires,
                  CrashAges, AskStop
    <3>2. q \in Plugin /\ proc[q].os = "none"
      BY <2>1, <3>1 DEF IInv, TypeOK, StopAllWaits
    <3> QED
      BY <2>1, <3>2, EveryStepIsOrderly DEF OrderlyChange
  <2>2. CASE phase # "down"
    <3>1. StopAllReturns
      BY <2>2 DEF Next, vars, BootDone, Tick, Shutdown, StopAllReturns,
                  StopAllAbandoned, BootSpawn, ClaimSettles, PluginReady,
                  HandshakeTimeout, Subscribe, ServeReady, Pong, Hang,
                  IpcOverflow, ProcessExit, RespawnFires, GraceExpires,
                  CrashAges, AskStop
    <3> QED
      BY <3>1 DEF StopAllReturns, IInv, LifeInv
  <2> QED
    BY <2>1, <2>2
<1> QED
  BY <1>1, <1>2, InvariantHolds, PTL DEF Spec

\* A slug never has two processes: an action property of every step.
THEOREM ProcessesDoNotOverlap == Spec => NoOverlap
<1>1. IInv /\ [Next]_vars =>
        [\A p \in Plugin : proc[p].os # "none" /\ proc[p].spawner = "none"
                             => proc'[p].spawner = "none"]_vars
  BY EveryStepIsOrderly DEF OrderlyChange
<1> QED
  BY <1>1, InvariantHolds, PTL DEF Spec, NoOverlap

\* stop() of a ready plugin is final, although handleExit() runs for its exit
\* and stop() may be called again.
THEOREM StopOfReadyHolds == Spec => []StopOfReadyIsFinal
<1> DEFINE Kept == \A p \in Plugin : hist[p].askedIn = "ready" => Retired(proc[p])
<1>1. Init => Kept
  BY DEF Init
<1>2. IInv /\ Kept /\ [Next]_vars => Kept'
  <2> SUFFICES ASSUME IInv, Kept, [Next]_vars, NEW q \in Plugin,
                      hist'[q].askedIn = "ready"
               PROVE  Retired(proc'[q])
    BY DEF Retired
  <2>1. CASE hist[q].askedIn = "ready"
    BY <2>1, EveryStepIsOrderly DEF OrderlyChange
  <2>2. CASE hist[q].askedIn # "ready"
    <3>1. PICK p \in Plugin : AskStop(p)
      <4> SUFFICES ASSUME \A p \in Plugin : ~AskStop(p) PROVE FALSE
        OBVIOUS
      <4>1. hist' # hist
        BY <2>2
      <4>2. PICK p \in Plugin :
              \/ FreshSession(p) \/ ServeReady(p) \/ Pong(p) \/ PluginReady(p)
              \/ \E first \in BOOLEAN : ProcessExit(p, first)
        BY <4>1 DEF Next, vars, BootDone, Tick, Shutdown, StopAllReturns,
                    StopAllAbandoned, BootSpawn, ClaimSettles, HandshakeTimeout,
                    Subscribe, Hang, IpcOverflow, RespawnFires, GraceExpires,
                    CrashAges
      <4>3. hist'[q].askedIn = hist[q].askedIn
        <5>1. CASE FreshSession(p)
          BY <5>1, FreshSessionTypes
        <5>2. CASE ServeReady(p)
          BY <5>2 DEF ServeReady, IInv, TypeOK, Recorded
        <5>3. CASE PluginReady(p)
          BY <5>3 DEF PluginReady, IInv, TypeOK, Recorded
        <5>4. CASE Pong(p)
          BY <5>4 DEF Pong, IInv, TypeOK, Recorded
        <5>5. ASSUME NEW first \in BOOLEAN, ProcessExit(p, first)
              PROVE  hist'[q].askedIn = hist[q].askedIn
          BY <5>5 DEF ProcessExit, IInv, TypeOK, Recorded
        <5> QED
          BY <4>2, <5>1, <5>2, <5>3, <5>4, <5>5
      <4> QED
        BY <2>2, <4>3
    <3>2. q = p /\ proc[q].state = "ready"
      BY <2>2, <3>1 DEF AskStop, IInv, TypeOK, Recorded
    <3>3. /\ proc'[q] = StopBegins(proc[q])
          /\ proc[q].spawner = "none" /\ ~proc[q].timer
      BY <3>1, <3>2, OnePlugin DEF AskStop, IInv, TypeOK, Coherent
    <3>4. proc'[q].state \in {"stopping", "stopped"}
      BY <3>2, <3>3, OnePlugin DEF StopBegins, StopIgnored, Proc
    <3>5. /\ StopBegins(proc[q]).timer = proc[q].timer
          /\ StopBegins(proc[q]).spawner = proc[q].spawner
      BY StopBeginsCoherent, OnePlugin
    <3>6. /\ proc'[q].spawner = "none" /\ ~proc'[q].timer
      BY <3>3, <3>5
    <3> QED
      BY <3>4, <3>6 DEF Retired
  <2> QED
    BY <2>1, <2>2
<1>3. Kept => StopOfReadyIsFinal
  BY DEF StopOfReadyIsFinal, Retired
<1> HIDE DEF Kept
<1> QED
  BY <1>1, <1>2, <1>3, InvariantHolds, PTL DEF Spec

\* A subscription does not outlive a process that had got ready, whichever of
\* onExit, spawn() and stop() resumes first; one made before "ready" may outlive
\* a handshake that fails, and then nothing is about to run for the plugin that
\* could meet it. A loaded plugin that runs, also after a respawn, holds its
\* managed service.
THEOREM HostFollows == Spec => []HostFollowsProcess
<1>1. IInv /\ HostInv => HostFollowsProcess
  <2> SUFFICES ASSUME IInv, HostInv
               PROVE  DeadSessionHoldsNothing /\ ReadyHoldsClaim
    BY DEF HostFollowsProcess
  <2>1. DeadSessionHoldsNothing
    BY DEF HostInv, Follows, DeadSessionHoldsNothing
  <2>2. ReadyHoldsClaim
    BY LifecycleAssumption DEF HostInv, Follows, ReadyHoldsClaim
  <2> QED
    BY <2>1, <2>2
<1> QED
  BY <1>1, HostInvHolds, InvariantHolds, PTL

\* The watchdog kills a process only at the last of MaxMissedPings ticks in a row
\* before which it had not answered; only a respawned process that has not yet
\* answered a ping can be killed by the count of its predecessor.
THEOREM WatchdogIsFair == Spec => KilledOnlyIfSilent
<1>1. IInv /\ HostInv /\ [Next]_vars =>
        [\A p \in Plugin : WatchdogKills(p) =>
            watch'[p].silent >= MaxMissedPings \/ hist[p].inherited]_vars
  <2> SUFFICES ASSUME IInv, HostInv, [Next]_vars, NEW q \in Plugin,
                      WatchdogKills(q)
               PROVE  \/ watch'[q].silent >= MaxMissedPings
                      \/ hist[q].inherited
    OBVIOUS
  <2>1. /\ proc[q].os = "alive" /\ proc'[q].os = "killed"
        /\ watch[q].missed # Untracked /\ watch'[q].missed = Untracked
    BY DEF WatchdogKills
  <2>2. CASE Tick
    <3>1. MissesTooMany(q)
      BY <2>1, <2>2 DEF Tick
    <3>2. watch'[q].silent = watch[q].silent + 1
      BY <2>2, <3>1, OnePlugin DEF Tick, MissesTooMany, Watched
    <3> QED
      BY <2>1, <3>1, <3>2, OnePlugin, LifecycleAssumption
      DEF MissesTooMany, HostInv, CountIsOwn, Watched
  <2>3. CASE ~Tick
    <3>1. watch' # watch /\ proc' # proc
      BY <2>1
    <3>2. ~Shutdown
      <4> SUFFICES ASSUME Shutdown PROVE FALSE
        OBVIOUS
      <4>1. StopBegins(proc[q]) \in Proc /\ StopBegins(proc[q]).os = "alive"
        BY <2>1, OnePlugin, StopBeginsCoherent
      <4>2. proc'[q] = [StopBegins(proc[q]) EXCEPT !.timer = FALSE]
        BY DEF Shutdown
      <4>3. proc'[q].os = "alive"
        BY <4>1, <4>2 DEF Proc
      <4> QED
        BY <2>1, <4>3
    <3>3. PICK p \in Plugin :
            \/ BootSpawn(p) \/ ClaimSettles(p) \/ RespawnFires(p)
            \/ PluginReady(p)
            \/ \E first \in BOOLEAN : ProcessExit(p, first)
      BY <2>3, <3>1, <3>2 DEF Next, vars, BootDone, StopAllReturns,
           StopAllAbandoned, HandshakeTimeout, Subscribe, ServeReady, Pong,
           Hang, IpcOverflow, GraceExpires, CrashAges, AskStop
    <3>4. q = p
      BY <2>1, <3>3 DEF BootSpawn, ClaimSettles, RespawnFires, PluginReady,
                        ProcessExit, IInv, TypeOK
    <3>5. CASE BootSpawn(p) \/ RespawnFires(p)
      BY <2>1, <3>4, <3>5, OnePlugin DEF BootSpawn, RespawnFires, Coherent
    <3>6. CASE ClaimSettles(p)
      <4>1. proc'[p] = proc[p] \/ proc'[p] = StopBegins(proc[p])
        BY <3>6 DEF ClaimSettles, IInv, TypeOK
      <4>2. StopBegins(proc[p]).os = proc[p].os
        BY OnePlugin, StopBeginsCoherent
      <4> QED
        BY <2>1, <3>4, <4>1, <4>2
    <3>7. ASSUME PluginReady(p) PROVE FALSE
      BY <2>1, <3>4, <3>7 DEF PluginReady, IInv, TypeOK, Proc
    <3>8. ASSUME NEW first \in BOOLEAN, ProcessExit(p, first) PROVE FALSE
      <4>1. proc'[p] = AfterExit(proc[p], first)
        BY <3>8 DEF ProcessExit, IInv, TypeOK
      <4> QED
        BY <2>1, <3>4, <4>1, OnePlugin, AfterExitCoherent
    <3> QED
      BY <3>3, <3>5, <3>6, <3>7, <3>8
  <2> QED
    BY <2>2, <2>3
<1> QED
  BY <1>1, InvariantHolds, HostInvHolds, PTL DEF Spec, KilledOnlyIfSilent
=============================================================================
