# A TLA+ model of UnCorded

UnCorded is a self-hosted community platform: a *runtime* (Bun/TypeScript) that
runs one community server and its plugins, *Central* (a Postgres-backed API)
that knows accounts, servers and memberships, a *desktop* application
(Electron) that provisions and updates runtimes, and a *website* client. This
directory holds TLA+ specifications of the parts whose correctness depends on
the order in which things happen, the TLC configurations that check them on
small instances, and TLAPS proofs of the properties that matter most.

Paths below are relative to the repository; `runtime`, `central`, `desktop` and
`website` abbreviate `src/runtime/src`, `src/apps/central/src`,
`src/apps/desktop/src` and `src/apps/website/src`.

| Files | What they hold |
|---|---|
| `PluginLifecycle`, `PL_all.cfg`; `PluginLifecycleProofs` | plugin processes, watchdog, boot and shutdown |
| `EventBus`, `MCEventBus`, `EB_all.cfg`; `EventChannel`; `EventBusProofs` | the event bus, refining the abstract specification of its subscriptions |
| `ManagedService`, `MCManagedService`, `MS_all.cfg`; `SupervisionProofs` | claims, the operation queue and the LiveKit sidecar |
| `UploadSession`, `MCUploadSession`, `US_all.cfg`; `SessionLock`; `UploadSessionProofs` | one resumable upload, refining the abstract specification of its lock |
| `CoViewSession`, `MCCoViewSession`, `CV_all.cfg`; `CoViewProofs` | Co-View sessions: registry, presence, membership, kicks |
| `CoViewState`, `CS_all.cfg`; `CoViewMirror`; `CoViewProofs` | the state channel from the host's browser to a viewer's, refining what a viewer is promised |
| `ServerLink`, `WL_all.cfg`; `ServerLinkProofs` | the connection between a browser tab and a server, both ends |
| `KeySync`, `MCKeySync`, `KS_*.cfg`; `KeySyncProofs` | Central's signing keys and how a runtime learns them |
| `CentralMembership`, `MCCentralMembership`, `CM_all.cfg`; `CentralMembershipProofs` | servers, members, invitations, requests, transfers in Central |
| `RuntimeUpdate`, `RU_*.cfg`; `SupervisionProofs` | update, rollback, backup, restore and launch of a container by the desktop |
| `PROJECT.json` | components, runs, mutants, the map to the source, hazards, findings, theorems |

To check a module: `tlc -workers 2 -config KS_all.cfg MCKeySync` (a module
without an `MC` module is checked itself: `tlc -config PL_all.cfg
PluginLifecycle`); to check proofs: `tlapm PluginLifecycleProofs.tla`.

## 1. Inventory

### Runtime (`runtime`), one JavaScript event loop per community server

| Component | State | Operations | Hard behaviour | Correct means | Module |
|---|---|---|---|---|---|
| Subprocess manager `subprocess.ts` | per slug: state, process, crash times, respawn timer | spawn, stop, stopAll, handleExit | a stop during the handshake or the back-off, exits that race the code awaiting them, SIGTERM ignored | one process per slug, none orphaned, quarantine final, shutdown waits | `PluginLifecycle` |
| Watchdog `watchdog.ts` | per slug: missed pings | track, untrack, tick, pong | late pongs, respawned processes | kills what is hung and nothing else | `PluginLifecycle` |
| Boot and shutdown `main.ts`, `shutdown.ts` | loaded plugins, registry, claims, subscriptions | boot loop, state-change hook, stopAll under a deadline | a crash or a `serve_ready` while boot awaits | what a process held goes with it; boot ends | `PluginLifecycle` |
| Event bus `events/` | subscriptions, queues, retry timers, dead letters | publish, subscribe, unsubscribe, retry, unload | re-entrant publication, retry against new events, a full queue | order, no loss without a record, no stuck backlog | `EventBus` |
| Managed services `managed-services/`, `voice/` | state, claimers, operation chain, sidecar | claim, release, shutdown, restart, rotate | decisions from a state that changes before the queued operation runs | runs iff claimed; no stray process | `ManagedService` |
| Resumable uploads `http/upload-session.ts` | session directory (data, meta.json), lock map | init, PATCH, finalize, cancel, sweep | retried chunks, torn bodies, a sweep without the lock, restarts | what is finalized is what was sent | `UploadSession` |
| Co-View sessions `co-view/`, presence `presence/` | sessions, three indexes, presence scopes, grace timers | start, update, end, join, leave, kick, list, close | an update refused half-way, kicks against leaves, a host whose connection closes | indexes agree, nobody inside whom the lists exclude, clients know where they are | `CoViewSession` |
| Co-View state channel `co-view/state-handlers.ts` | last snapshot and number, pause flag | diff, snapshot request and answer | gaps, late answers, frames too large | see the website | `CoViewState` |
| Connections `ws/server.ts`, `ws/router.ts`, `auth/` | registry, replay map, ban table | authenticate, put out, close | a socket that closes or a ban that arrives during the await | no banned user registered | `ServerLink` |
| Heartbeat `heartbeat/`, boot | sync version, public keys, server.json | poll, force a refresh, apply, persist | overlapping polls, late answers, restarts | the keys that sign live tokens are held | `KeySync` |
| Drain `drain.ts` | ACTIVE, DRAINING, STOPPED | begin, admit, tick | requests admitted while draining | nothing admitted is cut off in the grace window | |
| Message dispatch `ws/router.ts`, IPC `ipc/` | pending requests | request, response, timeout | an answer after the time-out, a flood | one answer per request | |
| Roles, capabilities, core, plugin resources | SQLite rows | grant, revoke, query | permission algorithms | agreement with a reference definition | |
| Tunnel, proxy, voice tokens, signing, db, migrations, `update-state/` | little | | mostly I/O | | |

The components meet in `main.ts`: the subprocess manager reports every state
change to a hook that drops the plugin's subscriptions, presence and claims
(calls and callbacks in one event loop, shared maps); the event bus asks the
subprocess manager for a transport at each delivery; the upload handlers
publish to the owning plugin; the router's close callback runs the presence
registry's eviction and then the Co-View handlers'; the heartbeat client's
deltas put users out through the router; shutdown runs `stopAll`, the managed
services' `shutdown`, the last heartbeat and the tunnel in that order.

### Central (`central`), several instances on one Postgres database

| Component | State | Operations | Hard behaviour | Correct means | Module |
|---|---|---|---|---|---|
| Servers, membership, transfers `routes/servers.ts`, `members.ts`, `server-transfer.ts` | rows of six tables | create, two-phase delete, invite, request, kick, ban, transfer | a check in one statement, a write in another, concurrent requests | quotas, bans, consent, owner rows | `CentralMembership` |
| Signing keys, server tokens, heartbeats `crypto.ts`, `routes/server-token.ts`, `routes/heartbeat.ts` | keys with a state, versions and deltas per server, a key cache per instance | rotate, ensure a key, mint, answer a poll | caches of other instances, several reads per answer, crashes | every live token has a key its server knows | `KeySync` |
| Accounts, sessions, OAuth | accounts, sessions, codes | login, refresh, verify | sliding sessions, one-time codes | a code is used once | |
| Plugin registry, reports, probes | plugins, versions | publish | | | |

### Desktop (`desktop`) and website (`website`)

| Component | State | Operations | Hard behaviour | Correct means | Module |
|---|---|---|---|---|---|
| Runtime update `runtime-update.ts`, `runtime-backup.ts`, `runtime-orchestrator.ts`, parts of `main.ts` | image tags, container, registry, volume; a lifecycle lock in memory | update, rollback, backup, restore, launch, rebuild, quit | docker calls and disk operations that fail, crashes of the application between steps, launches that take no lock | the user's data survives; the reported outcome is true | `RuntimeUpdate` |
| Server lifecycle `server-lifecycle.ts` and its IPC | registry, containers | provision, reconcile, delete, archive | crashes, two-phase delete | a slot is freed after the purge | |
| Connection client `lib/ws.ts`, `lib/tokens.ts`, `lib/server-purge.ts`, `stores/auth.ts` | one connection, one open in flight, a token, two timers per server | connect, reconnect, refresh, log out, purge | timers, opens and closes that cross | one live socket; a wanted server is reconnected | `ServerLink` |
| Co-View client `co-view/` | the host's numbered snapshots and ring, a viewer's picture | produce, answer, join, apply | gaps, late answers, pauses | a viewer shows what the host has shown | `CoViewState` |
| Voice manager, components, stores | | | sequential glue and rendering | | |

Packages hold message types, validators and SDKs; the bundled plugins are
users of the runtime. `PROJECT.json` lists every part with its status and the
reason.

## 2. The modules

In every module an action is one uninterrupted run of the code between two
points where it yields: for the runtime, the website and the desktop one
callback with the promise continuations that run right behind it, for Central
one SQL statement or transaction, between two machines the sending and the
taking of a frame. A definition whose comment starts with "Mutant" (or "Variant
of") is a broken version of another that no specification uses; it documents
what a plausible mistake would be and which property notices it
(`PROJECT.json`, "mutants"). Variables called "history" in their comment are
read by no guard.

Some properties are stated in a module and checked by no run, since TLC refutes
them: the code does not keep them although somebody reading it might rely on
them. They stay where they were found, and this section names them under "Not
kept". Two of them, the findings of `PROJECT.json`, have runs.

### PluginLifecycle

`proc[p]` is the entry of the subprocess manager with its OS process (`os`),
who awaits the handshake (`spawner`), how far a `stop()` is (`stopWait`), the
respawn timer and the crashes in the window. The manager's methods are
functions on that record (`Spawned`, `HandleExit`, `StopBegins`, ...), the
actions place them in the event loop. `watch[p]` is the watchdog's entry and
the ping on its way, `host[p]` what boot and the rest of the runtime hold for
the plugin, `phase` and `awaited` the runtime's boot and shutdown.

On an exit Bun calls `onExit` and resumes who awaits `exited` in an order that
is not documented; `callbackFirst` is either. Time is abstract: a timer that is
armed may fire, a crash may leave the window at any moment. A hung process
answers nothing and ignores SIGTERM. The plugin's own code is the environment:
it gets ready or not, subscribes, signals, crashes, floods. The transport
dispatches every frame from the spawn on (`ipc/transport.ts:185-213`), so a plugin
may subscribe before it is ready and while it is being stopped. An unbounded
number of restarts is possible since crashes age.

`KilledOnlyIfSilent` counts ticks and not pings, and excepts a process that has
inherited its predecessor's count and not answered since: its first pong ends
the exception. Whoever reads "three consecutive missed pings" in
`watchdog.ts:2` and `src/docs/site/guide/lifecycle.md:80` expects
`KilledAfterMissedPings`, which TLC refutes: a tick counts a miss before it sends
its own ping, so the first one counts where nothing was asked, and the third
kills after two unanswered pings.

Not kept besides: `NothingOutlivesProcess` (a plugin that subscribes before "ready" and
then misses the handshake leaves its subscription behind, since that path unloads
nothing, against the comment on the hook in `main.ts`; what `HostFollowsProcess` says
instead is that it never outlives a process that had got ready, and that no later
process of the slug meets it); `HungPluginIsKilled` (a plugin that hangs after a respawn is never
killed, against `src/docs/site/guide/lifecycle.md:80`); `StoppedStaysStopped` (a plugin
reported as stopped starts again); `ServeSignalNotLost` (a `serve_ready` that
comes before boot looks for it is dropped and the plugin stays greyed out).
Met besides: a respawned process inherits the count of its predecessor; a spawn the
operating system refuses (SPAWN_FAILED) and a crash before the handshake leave "stopped", never a quarantine; a clean exit counts as a crash;
a respawn whose handshake times out is not tried again; a crash while boot
awaits the claim leaks the claim; `stopAll` returns at once for a plugin that is
already being stopped.

### EventBus and EventChannel

`EventChannel` says what each subscription (a pattern and a plugin) promises:
accepted events are handed over once and in order; one leaves without that only
by displacement, failure or the end of the subscription. `EventBus` is the
code: `publish()` routes an event to the subscriptions in order and re-enters
itself when a queue overflows, which the call stack `calls` makes explicit: a
`Route` frame holds the event and the subscriptions it has yet to reach, a `Kick`
frame a queue to look at, an `Emit` frame a notice to publish; nothing from
outside runs before the stack is empty. The subscriptions are the set `live`, and
`before` is the order of the map and of its lists in which routing visits them.
`fate[s]` records what became of each event. `ImplementsChannel` is the refinement,
for every subscription at once, with `Status(s)`, the queue and the events handed
over as the mapping.

Not modelled: the contents of the dead-letter log and its file, the rate of
coalesced notices beyond "first in the window or not", wildcard matching
(`Covers` is a constant), a `queue_size` below one (the constructor throws
inside the IPC read loop), and an event sent into a transport that is closed
but not yet removed, which the bus counts as delivered. Not kept:
`UnhealthyKeepsNothing` (a subscription marked unhealthy during a retry keeps
events that nobody looks at again).

### ManagedService

`claim()`, `release()`, `restart()` and `shutdown()` decide from `state` at once
and append to `ops`; the head of `ops` runs a hook (`doStart`, `doStop`) that
takes long. `sidecar` is the process LiveKitSupervisor holds with the secret it
was started with, `leftover` one that was signalled and is not awaited any
more, `stored` the secret in the database.

Not kept: `SecretTakesEffect` (a rotation during a start does not take effect).
Met besides: a claim queued while the service is "stopping" does not look again
for quarantine and can start a quarantined service; a sidecar that dies while
the service runs is noticed by nobody; a leftover may answer its successor's
probe.

### SessionLock and UploadSession

`SessionLock` is the promise chain of `withSessionLock()`: each arrival replaces
the map's gate by its own and waits for the one before. `UploadSession` extends
it with the session directory and the handlers of one upload id. A unit of
data is its place in the file, so `session.bytes` shows what was appended where.
A PATCH reads meta.json, appends while the body arrives, and renames the new
meta.json at the end; it may break off in between (cut back by `truncate`), a
restart may stop it anywhere (not cut back: `torn`). The sweep decides and
removes in two steps and takes no lock. Requests ask for any offset and length.

Left out: GET, authentication, ownership and MIME checks (they change nothing
here), and the branch for a body longer than declared (HTTP bounds the body by
Content-Length). Not kept: `CorruptedIsRejected` (after a restart in mid-chunk and
a later interrupted chunk, finalize accepts a file that is not the source).

### CoViewSession

The Co-View handlers of the runtime over their registry, with the part of the
presence module and of the router they call. Every handler is synchronous, so
an action is one frame, one closing connection or one grace timer, and the
module is about the agreement of state that many handlers touch: the registry's
three indexes, the presence scopes, the visible set that each list subscription
was sent (`sees`), and what the frames have told each client (`inside`,
`roster`). Requests that are refused change nothing and are left out, except
the update that is refused half-way (`unapplied`) and a leave that the presence
rate limiter refuses. A member that joins again is acked without
anything happening, unless the session is full: the gates come before the look at the
members (`handlers.ts:417-431`), so it gets "session_full" where the comment at
428 has re-joining idempotent. The runtime keeps it inside and the website only logs
the refusal, so `Rejoin` changes nothing of what either knows.

Not kept: `NarrowedViewersAreKicked` (an update refused after it stored the new
lists leaves viewers inside whom they exclude). Met besides: a kick removes only one connection
of an account that has several inside; a refused leave leaves a presence entry
without a member; owners who watch are kicked when a session is narrowed
although they may join it.

### CoViewState and CoViewMirror

`CoViewMirror` promises a viewer that after an opening picture its screen shows
states the host has had, each whole, and never an older one than before.
`CoViewState` is the channel: the host's producer (number, cumulative snapshot,
ring of diffs), the runtime's snapshot for those who join, and a viewer's
consumer with its gap detection, connected by FIFO queues. The value of a key
is the number of the edit that wrote it, so a snapshot tells which edits it
has. An answer of diffs carries a set of them: their numbers give the order in
which the consumer applies those it has not seen, so that in the end each key has
the value of the newest diff that sets it (`Patched`). `ImplementsMirror` is the refinement, with `hist`, what the host gave each
number to, as the mirror's history. A viewer that leaves and joins again on the
same connection may take the answer to its former self's request (`astray`):
the mirror promises nothing until it closes.

Not kept: `GapIsFilled` (the host's pause gate drops the answer, and the viewer
waits); `PutOutIsTakenDown` (a kicked viewer keeps showing the session). Met
besides: the snapshot a viewer joins with may be a mixture the host never had;
viewers stay behind after a resume until the next change; the answer to a
snapshot request passes a paused runtime; toggling while an update waits for
its acknowledgement leaves the host's and the runtime's pause flags different.
Cursors, strokes, navigation and the render tree are left out; so is the
closing of connections, which is in CoViewSession.

### ServerLink

One account, one tab, one server. `sock` holds both ends of each socket
(`ready`, `dead`, `authed` are the browser's, `live`, `handler`, `member` the
runtime's; `line` is the path between them, which may break without either
noticing), the other variables are the maps of `ws.ts` and `tokens.ts` at this
server's key, and the runtime's replay map and ban table. `opening` is the one
open in flight: it waits for the mint or for the socket's events; teardown does
not stop it. Names of sockets and tokens are used again when nobody holds them.
A mint for a banned user may be granted or refused, since Central learns of a
runtime's ban by another way. `expired` is the tunnel_state the list poll last
stored; what the runtime is doing meanwhile is `TunnelMoves` and `Breaks`.

Three opens end without a socket, a timer or a purge, and `forgotten` records that
the last one did, until the next: the gate for expired tunnels (no mint, no dial),
a server without an address, and an open that was torn down before a `connect()`
joined it. In the first two the code counts on a store to call `connect()` again; the
third is an accident. `NothingIsForgotten` and `LinkSettles` except exactly these.

Not kept: `RegistryIsLive` (a socket that closes during the await of the token's
validation is registered for good); `SignedOutIsClosed` (a mint or timer that was
under way at logout dials afterwards); `SpentIsNotSent` (a token whose
auth.result was lost is dialed with again and refused with 4001 until it
expires). Met besides: a transfer of ownership closes the former owner's
connections with 4003, on which the browser purges the server from its list; so
does an expired token, or a ban lookup that throws; nothing dials by itself when
an expired tunnel comes back, since none of the keys the stores' effects watch
has the tunnel's state; the replay map forgets a token
at its expiry while the validator tolerates 30 seconds more. Connection and
rate limits, drain, proxied sockets and what is sent over an authenticated
socket are left out.

### KeySync

Three parties: the key table with each server's version and deltas; the
instances of Central (`pod`), each with a cache of the advertised keys; and one
runtime with its polls, the pair of version and keys it holds, and the same pair in
server.json. Keys are numbered as they are made. `TimePasses` is a minute (the
age of caches and of a pending key), ten minutes (the life of a token and of a
retiring key) or a day (the life of a delta): what takes less than a minute or ten
must be over before. A poll's answer is put together from three reads
(`Receive`, `ReadDeltas`, `ReadKeys`), any of which other steps may separate, and
is applied whatever the runtime holds by then. `cut` records that no answer
came for a day or that one was not written before a crash, and each poll
records it as it is sent (`gap`), since two polls that overlap after one such day
put the users out twice; of a full snapshot only whether it came without a gap is
kept (`needless`).

Assumed: instances start one after another; the secret changes only while no
instance runs; a handler ends within a minute and a call within ten; minting is
atomic. Queries of
other servers' heartbeats fill a cache in one step (`KeysCached`); that a query
ends after a rotation is left to the polls of this server. The throttle of
`forceRefresh` is abstracted to "at any time".

`LiveTokensVerify` has an exception, the keys in `late`: those of `ensureSigningKey`,
from the insert until an announcement that finds them in every warm cache and in
what every query under way will store. The code leaves two gaps there, and both
occur in `KS_all`. An instance that dies between the insert and `bumpSyncForKeyChange`
leaves an active key that no version tells of; and one that announces its key
while another has a cache up to 60 seconds old lets that one answer with the new
version and without the new key. Either way the runtime refuses the key's tokens
until the next change of the version (a refresh that is forced asks with the version it
holds, and is told "clean").

Not kept: `CacheHasSigner`, against the comment at `src/apps/central/src/crypto.ts:249`
(`KS_v_cache`: a change of the secret, a rotation that promotes the old secret's pending
key, and the start of a second instance, which cannot read it and makes a new active
one beside the first one's cache); `NextSignerIsKnown` (a cache
that was filled before a rotation answers with the version after it; the pending
key is then unknown until the next rotation, against the comment on
`rotateSigningKey`); `CentralCanSign` (after a new secret the old secret's pending key
is promoted, and nothing can be signed until the next rotation). Met besides:
the deltas in the answer to boot's own poll are skipped, since their handlers are
wired later, yet the version advances; the throttle also counts refreshes that failed. The
server's row, key staleness, the count of 404s, the WAN address and the token's
own checks are left out.

### CentralMembership

Rows of `servers`, `server_members`, `server_invitations`,
`server_join_requests` and `server_transfers`. `handling[h]` is what a request
has read and is about to write: each handler has a check step and a write step
and anything may happen in between. A transaction is one step: accepts and
creates lock the account row `FOR UPDATE`, which the foreign keys of every other
insert for that account wait for; confirm and delete meet at the row of the
server.

Abstractions: an invitation, request or transfer past its time is taken for
ended at that moment (every reader treats it so before using it, the sweep only
lags); what a settled invitation or request says is forgotten; a settled
transfer is kept only for confirmations that have read it. Visibility is left
out: whether a join request is accepted for a public or refused for a private
server is a choice. Accounts are verified. Tokens, e-mails, rate limits, PATCH
and the read endpoints are left out.

Met while modelling: a ban or a leave that was checked before a
transfer completed and written after it removes the new owner's owner row,
against `src/apps/central/schema.sql:171-174`; a transfer declined between the read of a
confirmation and its transaction completes all the same; an accept overwrites
the status of an invitation revoked meanwhile; transfers pass both quotas;
requests at the same time pass the limit of pending invitations; an accept
after a delete leaves a member row until the purge.

### RuntimeUpdate

What survives the application (`tag`: the images called latest and previous,
`ctr`: the container under the server's name, `registered`, `disk`: the volume with
its data, its backups and a restore's stashes) and what dies with it: `job`, the
holder of the server's lifecycle lock with the step it is at, and `launch`,
which takes no lock. `performUpdate`, `runRollback`, backup and restore are one
action per docker call or disk operation, each of which may fail. The contents
of a data directory are a version, or what a cut-off copy, a container started
on one, or an empty volume make of it. `overtaken` records that a launch ran a
container on a volume under restore.

Assumed: a container migrates the data as it starts; a copy of a live
database is consistent (the code says so); one server per host. Any call of docker and any operation on the disk may fail,
those of the restore's catch block included; `broken` records which steps of the
restore did.

What a failed restore leaves depends on the step. While the stashes hold the
whole volume (`Stashed`) it is undone, unless the catch block fails in its turn
(`UndoneIfStashed`). At three steps (`Unsafe`) the catch block removes what no stash
holds: when the first rename fails, and when one of the two removals at the end does, by
which time the data stash is half or wholly removed and the backups are in the live
config directory. `DataSurvives` excepts these
and no other failure. They are the finding: a restore whose rename of the data
directory fails deletes the live directories it has not yet moved away
(`FailedRestoreIsUndone`, run `RU_v_restore`). The rename of the config directory is
in neither set: its failure loses the backups and brings the data back.

The rollback's removal of the new container may succeed, fail, or stop the container
and then not remove it (`TearDown`).

Not kept besides:
`LaunchKnowsTheContainer` (an application that dies between `docker run` and the
registry leaves a container that launch does not remove; every later launch
then fails on its name); `RolledBackIsPrior` (a stop that fails before :latest is
tagged :previous makes the rollback start what an earlier update left there,
and report success). Met besides: a failure to look an image up skips that tag;
a crash after the tags were swapped launches the target without the readiness
gate; a launch over a restore spoils the data, and a later rotation may then
delete the only whole backup; a crash inside a restore starts on empty data without a word.
Left out: checking for releases, the posts of the update state, plugin deploys
under the same lock, archives of deleted servers.

## 3. Runs

| Run | Instance | Shows |
|---|---|---|
| `PL_all` | one plugin with a service and the serve-ready opt-in, quarantine at 3 crashes, 3 ticks | every interleaving of one plugin's life: no orphan, final quarantine, nothing held for a process that had got ready and is gone, quiet shutdown that waits, no overlap, no kill of a process that answers; under fairness boot ends and a stop ends |
| `EB_all` | two plugins, three subscriptions with all policies, queues of 2, 3 events | conservation, the end of every backlog, and the refinement of EventChannel |
| `MS_all` | two claimers, 4 queued operations, one rotation, quarantine at 2 | no stray sidecar, runs iff claimed, the queue moves on |
| `US_all` | three units, two requests, one restart | exclusion, fidelity of the finalized file, acknowledged bytes, an answer to every request |
| `CV_all` | three connections of three accounts (two may host, one is an owner and moderator), two sessions, a cap of one viewer, one account that meets the limiter | the indexes agree, everybody inside is admitted, clients know where they are, lists are exact, and a session whose host is gone ends |
| `CS_all` | two keys of which one is too large for a frame, a ring of two, four edits, two visits, two clicks on Pause, one frame a way | viewers show the host's history, the refinement of CoViewMirror, and that a viewer catches up |
| `WL_all` | two sockets, three tokens, two troubles | one live socket, no banned user; but for three silent ends of an open nothing is forgotten and the link settles |
| `KS_all` | two instances of Central, three keys, two polls, one write at a time, one trouble | live tokens verify but for those of late keys, and nobody is put out without a day's gap |
| `KS_v_cache` | the same with one poll | violation: a warm cache omits a key that signs |
| `CM_all` | two accounts, two servers, two requests in flight, quotas of 1 | owner rows, bans, quotas, no change to a server that is being deleted |
| `RU_all` | three versions, one backup kept, two updates, two faults of any operation, two ends of the application | the user's data survives what is not an `Unsafe` step; a restore that fails with full stashes is undone; an outcome that is reported is true |
| `RU_v_restore` | the same with one update, no crash | violation: a restore whose first rename fails deletes the live directories and the backups in them |

Why the bounds are enough. One plugin's life depends on another's only through
boot order and `stopAll`, so one plugin with the full thresholds is checked; the
safety properties are proved for any number of them, the two liveness
properties are checked for one plugin only. Three events and queues of two are the smallest instance
in which a queue overflows while its head waits for a retry and a notice
overflows in its turn. Four queued operations hold one of each kind behind a
running one. Three units are the smallest file for a whole chunk, a part of one
and a repeated one; two requests make one wait and a third arrival (the first
one again) find the map as it was left. In CoViewSession the three connections
are a host, a viewer and one who may be both, two sessions let one outlive its
host while another starts, and a cap of one is full at once. Four edits with a
ring of two let an answer come from the ring, or miss it and be a whole
snapshot; two visits are one return. In ServerLink two sockets let a dying one
overlap its successor, and three tokens a held, a refreshed and a spent one;
two troubles combine any two of a ban, a restart, a broken line, a moved
or expired tunnel, a timeout and a logout. Three keys are an active one, its successor and
the successor's; two polls are what overlaps, a third would repeat one of them.
In CentralMembership one request can change what another has checked, and since
each write checks again or locks, more than two at a time reduce to sequences
of two; quotas of one are exceeded by two servers; only one invitation, one
request and one transfer row exist in a behaviour, so longer histories of those
are outside the instance. In RuntimeUpdate the second update meets what the
first left under "previous" and in the backups, and two faults make a rollback
fail in its turn.

`MaxEvents`, `MaxOps`, `MaxRotations`, `MaxRestarts`, `MaxEdits`, `MaxVisits`,
`MaxToggles`, `MaxQueue`, `MaxTroubles`, `MaxKey`, `MaxWrites`, `MaxUpdates`, `MaxFaults`,
`MaxCrashes`, `MaxVersion` and the id sets `Session`, `Conn`, `Invites`, `Requests`,
`Transfers` are bounds of the models and not of the code; each is named where it
is declared.

Symmetry is used in `CM_all` (accounts, servers and handlers) and `KS_all`
(instances and polls): nothing names one of them, and neither run has a liveness
property.

Deadlock. Checked in the EventBus, ManagedService and CentralMembership runs.
Elsewhere the system really stops: the runtime exits after shutdown, when the
last process has; an upload is over when its session is removed;
connection and session ids are used once; a server that was purged, an
application that was quit and a runtime that failed to boot stay so; or the
bounds on edits, troubles and keys are used up.

Fairness. Weak fairness only, on steps the code or its host performs by itself:
expired timers fire (the event loop), a process that was sent SIGKILL exits (the
kernel), the boot loop goes on, calls on the stack return, hooks end by their
deadlines, request bodies end (the HTTP server's idle time-out), file
operations return, sockets deliver what was sent,
calls to Central are answered or time out, dials end, both ends notice in time
that a line is dead (the runtime's pings, the browser's TCP time-outs), tokens
grow old. Nothing is assumed of plugins, clients, users or sidecars: they may
hang, and no request, edit or click has to come. The drain of a queue after a
restart is not assumed either. `KeySync` and `RuntimeUpdate` assume none: their
properties are safety properties.

## 4. Proofs

TLC checks small instances; the following hold for all values of the constants
under the named assumptions (thresholds and sizes are positive numbers, sets of
plugins or servers are what they say, the empty value is none of the others).

`PluginLifecycleProofs`. The properties are not inductive: that a quarantined
plugin is never started again depends on no timer being armed, which depends on
who awaits the handshake, and so on. `LifeInv` collects it: `Coherent` relates the
fields of one entry (somebody awaits the handshake exactly while the process is
starting or is stopped meanwhile; an armed timer means that nothing runs and
the budget is not spent; what may still crash has crashes left), the rest
relates it to boot, shutdown and the history. `IInv == TypeOK /\ LifeInv` is shown
inductive by a lemma per action; most go through `StepOfOne`, which says what a
step of a single plugin must keep. From it follow `NoProcessIsOrphaned`,
`QuarantineHolds`, `ShutdownIsQuiet`, `StopAllIsComplete`; `StopOfReadyHolds`
(stated by no run any more) needs one more invariant about stops;
`ProcessesDoNotOverlap` is an action property from `IInv`.
`HostFollows` and `WatchdogIsFair` need more: `HostInv` says what the runtime holds
beside an entry (`Follows`: nothing is subscribed after the end of a process that had
got ready, nor where a respawn is pending, somebody awaits whatever is "stopping", a
claim boot has made stays while the load goes on; `CountIsOwn`: missed pings are ticks
at which this process was silent, or it inherited the count and has not answered
yet). `AfterExitState` shows why it holds in both orders of an exit's continuations:
an exit that unloads nothing leaves the state it found, or ends a handshake, after
which nothing of that slug is started again.

`UploadSessionProofs`. First the lock alone: `GatesFollowLine` (each waiting request
waits for the gate of the one before it in line, and the map holds the last gate)
with the types is inductive and gives `LockIsExclusive`. `UploadImplementsLock`: every step of the upload handlers is
a step of `SessionLock` or leaves its variables alone, so the lock's invariants
hold for uploads. `IInv` adds to them where each request is and what it may rely
on (`CallOK`: while a PATCH writes, the session's received count is the one it
read; what it appended is the next piece of the source) and how data, meta.json,
the acknowledged count and the finalized file fit (`SessionOK`). It gives that the
received bytes are the source's, that acknowledged bytes are never lost, that a
finalized file has the announced size, and that it is the source unless a
restart tore a chunk: the exact limit of the code, beyond which
`CorruptedIsRejected` fails.

`EventBusProofs`. Publishing re-enters itself, so several events may be on their
way at once, and what a routing decided from must still be so when it goes on.
`FramesOK` says it: the routings on the stack are of different events, and no
subscription a routing has yet to reach has seen its event; `Books` says of each
subscription that what was routed to it is in exactly one of the queue, the events
handed over, the dead letters and those dropped. The lemmas say what a queue
operation does to the ids in it, `Reaches`, `Served` and `Announces` what one step of
the stack does to the subscription it is about; all others keep what they have.
From it follow `NothingEverVanishes`, `UnhealthyAreCounted` (the subscriptions are
finitely many at any time, whatever `Sub` is) and `ImplementsChannelHolds`: each step
of the bus moves each subscription by a step of `EventChannel` or leaves it alone.
Two more theorems state what no run lists any more. `InOrderHolds` rests on
`OrderInv`: plugins publish only onto an empty stack, so at most one routing on it is
of a plugin's event, and wherever that still has to go it is newer than all there
is. `BacklogIsRetriedHolds` rests on `RetryInv`: what waits at a healthy subscription
has a call on the stack that will look at it, or the timer.

`SupervisionProofs`, first part (ManagedService). The decisive part of the invariant relates the state to
the queue and the claims: the running hook is that of the queue's head
(`HookOfHead`), a service that is up or coming up without claims has a release or
a shutdown waiting (`StopWaits`), a claimed one that is down without a fault has a
claim waiting or is rising (`StartWaits`). From it follow `StateShowsHookHolds`,
`NoStraySidecarHolds` and `ServedIffClaimedHolds`.

`SupervisionProofs`, second part (RuntimeUpdate). `OutcomeIsTrueHolds` has no
assumption about what fails. Its parts: the container that an update has made
holds the server's name until the update is registered (`IdsInv`: its id is not in the
registry, so no launch removes it, and docker starts no other under the name);
what the tags name at each step on the way up and down (`VersionsInv`); the backup
to return to is where the restore looks for it (`Held`), and what the data directory
holds after each step of it (`CopyInv`), up to the container that opens it. A launch
that ran a container after the restore stands in the way of the update's own
(`InTheWay`), so that the rollback fails and says so.
`DataSurvivesHolds` and `UndoneIfStashedHolds` have none either: any operation may fail,
and what their statements except is the three `Unsafe` steps for the one and what is not
`Stashed` for the other. `StashInv` says at each step of the restore and of its catch
block which directory and which stash hold what the restore began with, as far as
the failures so far allow; `DataInv` that outside a restore the data directory and all
backups are whole, but for an update that failed and left the data in its stash; in a crash
the stash is what is left (`kept`). Both leave out a volume on which a launch has run a
container during the restore (`overtaken`).

`CentralMembershipProofs`. `IInv == TypeInv /\ OwnerRowIsOwner` is inductive;
`BanHoldsAlways`, `QuotasHoldAlways` and `DeletingIsFrozenHolds` are action properties,
by a lemma per kind of request over its check and its write, and so is
`OwnershipMovesByConsentHolds` (a transfer moves a server only after both have
confirmed it), which no run checks. The quotas need that the set of servers is finite.

`KeySyncProofs`. Nothing is assumed but the bounds. For `LiveTokensAlwaysVerify`:
every cache, whatever its age, has all keys that are advertised and neither young
nor late (`CachesKnow`), since a key is young for as long as a cache lives and is
late until every cache has it; a pair of version
and keys that was read, sent, held or written is *sound* (`Sound`: if its version is
Central's, its keys include all that are active or retiring and not late), since a version
is read before the keys and each change of the needed keys counts it up; and a key is
trusted for longer than its tokens live (`TokensTrusted`). For
`NobodyIsPutOutNeedlessly`: there is always a key to answer with (`KeysThere`: after the
first rotation a pending one, until then the one active key that every instance
could read), so no answer is taken for none; a version is *covered* if every later one has a delta
younger than a day; what Central answers, and what the runtime holds or has
written, stays covered until a day passes (`AnswersCovered`, `PairsCovered`), a poll
that was sent without a gap asks with a covered version (`NoSnapshot`), and boot,
which may start from an older pair, has one poll only (`BootPollsOnce`).

`ServerLinkProofs`. From NothingIsForgotten alone the next state does not follow: an
open in flight may be about to end. `IInv` says what it ends in: what is not torn
down is the entry's socket until its close event (`LiveIsCurrent`); while an open
mints there is no entry, and once it dials, its socket is the entry's unless it was
torn down (`OpeningFits`), so its close event sets the timer or asks for the purge
(`SomethingComes`), and an open that leaves nothing is recorded as such. Of a socket the argument uses only that it has the fields it
names, so it holds for any set of sockets. Assumed: socket, token and state names
are distinct.

`CoViewProofs`, first part (CoViewSession). All four invariants of the module, and with them the whole
state: `IInv` says of each connection and session separately that the three indexes
of the registry, the two of presence, what the client was told and the rosters
agree. Two facts are not in the properties: a session that is alive has its host
among its members and an id that was taken, and nobody has heard of a connection
that is not there yet. Each handler is taken apart into what it shares with others
(`MembersRemoved`, `PresenceLeft`, `ListChanged`, `ListRemoved`). Assumed: there are
finitely many connections, and the absent value is no record, list or set.

`CoViewProofs`, second part (CoViewState). `ChannelInv` says of every frame under way
that it is what the host's history says of its number (`FramesFit`), and how frames
lie to each other: no answer is older than what is ahead of it on either queue or
has arrived (`OrderFits`), so an answer never takes a picture back; what a consumer
asked for starts where its picture ends or before, so the answer's diffs leave no
hole (`RequestsFit`, `AnswersFit`); and as long as the first frame, or an answer made
before it, is under way to a picture, that picture is blank, since no snapshot has
been given for joining (`SeedsFit`). A whole picture follows from diffs in one step,
not by induction: the value of a key at the end of an interval of numbers is what
the last number that changed it gave, which exists because a bounded set of numbers
has a greatest one (`GreatestOne`, from the well-foundedness of the numbers).
From it follow `ViewerShowsHistoryHolds`, and `ImplementsMirrorHolds` by taking each
thing a viewer does with a frame to `Show`, `Open`, `Stray`, `Close` or a stutter; the
stutters need that an answer with the number already shown shows the same picture.

Only model-checked: every liveness property (`StopTerminates`, `BootFinishes`,
`BacklogEnds`, `OpsMoveOn`, `RequestsAreAnswered`, `HostLostEnds`,
`CatchesUp`, `LinkSettles`), since fairness and ENABLED are out of the prover's reach.
Every safety property of a passing run, and every refinement, has a theorem. What a recursive function computes for every input
would need induction over data, which the provers cannot instantiate.

## 5. What is not modelled, and the plan

Cryptography, I/O, rendering, schemas and sequential glue are left out for good.
That is most of the code by lines: the largest files are Electron's IPC glue
(`desktop/main.ts`), request routing (`http/handler.ts`) and views of the website,
where state changes are single assignments or single statements and an
interleaving has nothing to break. The website's voice manager was read for a
module and left out: its hazards come from one `await` in `disconnect()` (its
tail overwrites the state of a newer connect; a connect during it stays
"connecting"; a screen share continues after a change of room) and its state is
LiveKit's.

What remains, in the order in which it should be modelled:

1. `ServerLifecycle`: the desktop's provision, reconcile and delete under
   `server-lifecycle-lock.ts`, composed with the two-phase delete of
   CentralMembership; a slot is freed only after the purge.
2. `Drain` with the whole shutdown sequence of `main.ts`.
3. `RequestRouter` (ws and IPC requests with time-outs), the rate limiter,
   sliding sessions and OAuth codes.
4. Role and capability algorithms as functions against a reference definition.
5. Render transport and cursors of Co-View; presence joins over IPC.
6. KeySync with several servers and the row of each, and the composition with
   ServerLink: a token the link sends is one its runtime can check.

Proofs next: that a channel of `EventChannel`, a lock of `SessionLock` and a mirror of
`CoViewMirror` have the properties their users rely on, for the composed modules
above; the modules of this plan as they come.
