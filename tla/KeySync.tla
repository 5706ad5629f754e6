------------------------------ MODULE KeySync ------------------------------
\* How a server's runtime comes to know the keys that sign its users' tokens.
\*
\* Central keeps signing keys (apps/central/src/crypto.ts): a rotation makes a
\* key "pending", the next one makes it "active" and the former one "retiring".
\* Each change counts up a version per server and leaves a delta that lives for
\* a day. The runtime (runtime/src/heartbeat/client.ts) polls with the version
\* it holds; Central (routes/heartbeat.ts) answers "clean", or with its version,
\* the deltas and the keys, which each instance of Central caches for a minute.
\* Polls overlap and their answers come in any order; what they brought is
\* written to server.json, from which the runtime starts again.
\*
\* Keys are numbered in the order in which they are made. Time has three steps
\* (Span): a minute ages caches and pending keys, ten minutes a retiring key
\* and the tokens, a day the deltas. One server; its row is never deleted.
EXTENDS Integers, FiniteSets

CONSTANTS
    Pod,             \* instances of Central on one database
    Poll,            \* polls that the runtime can have under way at once
    MaxKey,          \* keys that are ever made
    MaxWrites,       \* writes of server.json under way at once
    MaxTroubles,     \* failed polls, crashes and changes of the secret; a crash
                     \* between a new key and its announcement is bounded by MaxKey
    None

ASSUME MaxKeyAssumption == MaxKey \in Nat \ {0}
ASSUME MaxWritesAssumption == MaxWrites \in Nat \ {0}
ASSUME MaxTroublesAssumption == MaxTroubles \in Nat

Key == 1..MaxKey
Span == {"minute", "ten", "day"}

VARIABLES
    keyState,   \* of each key: none, pending, active, retiring or expired
    young,      \* pending keys made less than a minute ago
    over,       \* retiring keys whose ten minutes are over
    readable,   \* keys that the present SIGNING_KEY_SECRET decrypts
    version,    \* server_sync.sync_version of the server
    deltas,     \* the versions that have a delta younger than a day
    pod,        \* of each instance: down, up, or a step of ensureSigningKey
    cache,      \* publicKeyCache of each instance: one set of keys, or none
    busting,    \* instances with a rotation committed and the cache not dropped
    minted,     \* keys of the tokens that have not expired and were not revoked
    poll,       \* the runtime's polls
    rt,         \* the runtime: down, booting or up
    held,       \* lastSyncVersion and publicKeys
    disk,       \* the same in server.json
    writes,     \* onDirtySync calls that have not written server.json
    late,       \* history: keys of ensureSigningKey that no announcement has made known
    cut,        \* history: no answer from Central for a day, or one that was not written
    kicked,     \* history: users were put out for a re-sync without such a gap
    troubles

central == <<keyState, young, over, readable, version, deltas>>
instances == <<pod, cache, busting>>
runtime == <<rt, held, disk, writes, cut, kicked>>
vars == <<central, instances, minted, poll, runtime, late, troubles>>

InState(s) == {k \in Key : keyState[k] = s}

\* What getPublicKeys selects.
Advertised == {k \in Key : keyState[k] \in {"pending", "active", "retiring"}}
Trusted == {k \in Key : keyState[k] \in {"active", "retiring"}}
Unused == InState("none")
NewKey == {k \in Unused : \A j \in Unused : k <= j}

\* getActiveSigningKey: the newest active key, if there is one.
Signer == {k \in InState("active") : \A j \in InState("active") : j <= k}

Idle == [stage |-> "idle", last |-> 0, gap |-> FALSE, pod |-> None,
         cur |-> 0, needless |-> FALSE, keys |-> {}]

Up == {p \in Pod : pod[p] = "up"}
Ensuring == {p \in Pod : pod[p] \in {"inserting", "announcing"}}
Handled == {q \in Poll : poll[q].stage \in {"dirty", "keys", "queried"}}
InFlight == {q \in Poll : poll[q].stage # "idle"}

Trouble == troubles < MaxTroubles /\ troubles' = troubles + 1

Pairs == [version : Nat, keys : SUBSET Key]

TypeOK ==
    /\ keyState \in [Key -> {"none", "pending", "active", "retiring", "expired"}]
    /\ young \subseteq InState("pending") /\ over \subseteq InState("retiring")
    /\ readable \subseteq Key /\ minted \subseteq Key /\ late \subseteq Key
    /\ version \in Nat /\ deltas \subseteq 1..version
    /\ pod \in [Pod -> {"down", "up", "inserting", "announcing"}]
    /\ cache \in [Pod -> {{}} \cup {{keys} : keys \in SUBSET Key}]
    /\ busting \subseteq Pod
    /\ poll \in [Poll -> [stage : {"idle", "sent", "dirty", "keys", "queried", "answered", "clean", "failed"},
                          last : Nat, gap : BOOLEAN,
                          pod : Pod \cup {None}, cur : Nat, needless : BOOLEAN, keys : SUBSET Key]]
    /\ rt \in {"down", "booting", "up"} /\ held \in Pairs /\ disk \in Pairs
    /\ writes \subseteq Pairs
    /\ cut \in BOOLEAN /\ kicked \in BOOLEAN
    /\ troubles \in 0..MaxTroubles

\* Central has booted once, and the server was just created: its version is 1,
\* with no delta, and server.json has no keys.
Init ==
    /\ keyState = [k \in Key |-> IF k = 1 THEN "active" ELSE "none"]
    /\ young = {} /\ over = {} /\ readable = {1}
    /\ version = 1 /\ deltas = {}
    /\ pod = [p \in Pod |-> "up"]
    /\ cache = [p \in Pod |-> {}] /\ busting = {}
    /\ minted = {} /\ late = {}
    /\ poll = [q \in Poll |-> Idle]
    /\ rt = "down" /\ held = [version |-> 0, keys |-> {}] /\ disk = held
    /\ writes = {} /\ cut = FALSE /\ kicked = FALSE
    /\ troubles = 0

----------------------------------------------------------------------------
\* Central: the keys.

\* bumpSyncForKeyChange. It makes known every key that is in all the warm
\* caches, and in what the queries under way will put there.
Bump ==
    /\ version' = version + 1 /\ deltas' = deltas \cup {version + 1}
    /\ late' = {k \in late :
                  \/ \E p \in Pod : \E keys \in cache[p] : k \notin keys
                  \/ \E q \in Poll : poll[q].stage = "queried" /\ k \notin poll[q].keys}

\* rotateSigningKey: one transaction, which promotes those keys. The cache is
\* dropped when its commit has been answered.
RotateWith(p, promoted) ==
    /\ p \in Up
    /\ \E new \in NewKey :
          /\ keyState' = [k \in Key |->
                CASE k \in over -> "expired"
                  [] k \in promoted -> "active"
                  [] keyState[k] = "active" /\ promoted # {} -> "retiring"
                  [] k = new -> "pending"
                  [] OTHER -> keyState[k]]
          /\ young' = (young \ promoted) \cup {new}
          /\ readable' = readable \cup {new}
    /\ over' = {}
    /\ busting' = busting \cup {p}
    /\ UNCHANGED <<pod, cache, minted, poll, runtime, troubles>>

\* Mutant: a pending key is promoted however young it is.
RotateEarly(p) == RotateWith(p, InState("pending")) /\ Bump

\* Mutant: the version is counted up without a delta.
RotateSilently(p) ==
    RotateWith(p, InState("pending") \ young) /\ version' = version + 1 /\ UNCHANGED <<deltas, late>>

Rotate(p) == RotateWith(p, InState("pending") \ young) /\ Bump

DropCache(p) ==
    /\ p \in busting /\ p \in Up
    /\ busting' = busting \ {p} /\ cache' = [cache EXCEPT ![p] = {}]
    /\ UNCHANGED <<central, pod, minted, poll, runtime, late, troubles>>

\* handleServerToken: a token signed by the newest active key, if the secret
\* decrypts it.
Mint ==
    /\ Up # {}
    /\ \E k \in (Signer \cap readable) \ minted : minted' = minted \cup {k}
    /\ UNCHANGED <<central, instances, poll, runtime, late, troubles>>

\* ensureSigningKey at the start of an instance: it is content with any active
\* key it can decrypt; if not, it expires the active keys, which revokes their
\* tokens, and makes a new one. Instances are started one after another.
PodStarts(p) ==
    /\ pod[p] = "down" /\ Ensuring = {}
    /\ InState("active") \cap readable # {}
    /\ pod' = [pod EXCEPT ![p] = "up"]
    /\ UNCHANGED <<central, cache, busting, minted, poll, runtime, late, troubles>>

NeedsKey(p) ==
    /\ pod[p] = "down" /\ Ensuring = {}
    /\ InState("active") = {} \/ InState("active") \ readable # {}
    /\ keyState' = [k \in Key |-> IF keyState[k] = "active" THEN "expired" ELSE keyState[k]]
    /\ minted' = minted \ InState("active")
    /\ pod' = [pod EXCEPT ![p] = "inserting"]
    /\ UNCHANGED <<young, over, readable, version, deltas, cache, busting, poll, runtime, late, troubles>>

KeyInserted(p) ==
    /\ pod[p] = "inserting"
    /\ \E new \in NewKey :
          /\ keyState' = [keyState EXCEPT ![new] = "active"]
          /\ readable' = readable \cup {new} /\ late' = late \cup {new}
    /\ pod' = [pod EXCEPT ![p] = "announcing"]
    /\ UNCHANGED <<young, over, version, deltas, cache, busting, minted, poll, runtime, troubles>>

\* bumpSyncForKeyChange; then the instance listens.
KeyAnnounced(p) ==
    /\ pod[p] = "announcing"
    /\ pod' = [pod EXCEPT ![p] = "up"] /\ Bump
    /\ UNCHANGED <<keyState, young, over, readable, cache, busting, minted, poll, runtime, troubles>>

\* Instances die, or are stopped; the polls they were answering fail.
Stop(pods) ==
    /\ pod' = [p \in Pod |-> IF p \in pods THEN "down" ELSE pod[p]]
    /\ cache' = [p \in Pod |-> IF p \in pods THEN {} ELSE cache[p]]
    /\ busting' = busting \ pods
    /\ poll' = [q \in Poll |-> IF q \in Handled /\ poll[q].pod \in pods
                               THEN [Idle EXCEPT !.stage = "failed"] ELSE poll[q]]
    /\ UNCHANGED <<keyState, young, over, version, deltas, minted, runtime, late>>

PodDies(p) ==
    /\ pod[p] # "down"
    /\ IF pod[p] = "announcing" THEN UNCHANGED troubles ELSE Trouble
    /\ Stop({p}) /\ UNCHANGED readable

\* A new secret is deployed while no instance runs.
NewSecret == Unused # {} /\ Trouble /\ Stop(Pod) /\ readable' = {}

----------------------------------------------------------------------------
\* Central: the heartbeat of the server. (What it writes to the server's row
\* is left out: nothing here reads it.)

\* The first reads of handleHeartbeat: who asks, and the version.
Receive(q, p) ==
    /\ poll[q].stage = "sent" /\ p \in Up
    /\ poll' = [poll EXCEPT ![q] =
          IF @.last > 0 /\ version <= @.last
            THEN [@ EXCEPT !.stage = "clean"]
            ELSE [@ EXCEPT !.stage = "dirty", !.pod = p, !.cur = version]]
    /\ UNCHANGED <<central, instances, minted, runtime, late, troubles>>

\* The deltas after the version of the runtime. None, although it is behind:
\* a full snapshot. What is recorded of it is whether it had such a gap to fill.
Lacking(q) == poll[q].cur > poll[q].last /\ \A d \in deltas : d <= poll[q].last

ReadDeltas(q) ==
    /\ poll[q].stage = "dirty"
    /\ poll' = [poll EXCEPT ![q].stage = "keys", ![q].last = 0, ![q].gap = FALSE,
                             ![q].needless = Lacking(q) /\ ~poll[q].gap]
    /\ UNCHANGED <<central, instances, minted, runtime, late, troubles>>

\* getPublicKeys, for this server's heartbeat: from the cache, or from the table,
\* and then the result goes into the cache whatever has become of the keys ...
ReadKeys(q) ==
    LET p == poll[q].pod IN
    /\ poll[q].stage = "keys"
    /\ poll' = [poll EXCEPT ![q] =
          IF cache[p] # {} THEN [@ EXCEPT !.stage = "answered", !.keys = UNION cache[p], !.pod = None]
                           ELSE [@ EXCEPT !.stage = "queried", !.keys = Advertised]]
    /\ UNCHANGED <<central, instances, minted, runtime, late, troubles>>

KeysRead(q) ==
    /\ poll[q].stage = "queried"
    /\ poll' = [poll EXCEPT ![q].stage = "answered", ![q].pod = None]
    /\ cache' = [cache EXCEPT ![poll[q].pod] = {poll[q].keys}]
    /\ UNCHANGED <<central, pod, busting, minted, runtime, late, troubles>>

\* ... and for those of other servers, in one step: that a query ends after a
\* rotation is left to the polls of this server.
KeysCached(p) ==
    /\ p \in Up /\ cache[p] = {}
    /\ cache' = [cache EXCEPT ![p] = {Advertised}]
    /\ UNCHANGED <<central, pod, busting, minted, poll, runtime, late, troubles>>

----------------------------------------------------------------------------
\* The runtime.

Send(q) ==
    /\ poll[q].stage = "idle"
    /\ poll' = [poll EXCEPT ![q] = [Idle EXCEPT !.stage = "sent", !.last = held.version, !.gap = cut]]
    /\ UNCHANGED <<central, instances, minted, runtime, late, troubles>>

\* boot starts from server.json and polls once before it goes on.
RuntimeStarts ==
    /\ rt = "down" /\ rt' = "booting" /\ held' = disk
    /\ UNCHANGED <<central, instances, minted, poll, disk, writes, cut, kicked, late, troubles>>

BootPoll(q) == rt = "booting" /\ InFlight = {} /\ Send(q)

\* The interval, which does not wait for the last poll, and forceRefresh, for a
\* token with an unknown key id: one at a time, and five seconds after the last,
\* which pass whenever they like.
Polls(q) == rt = "up" /\ Send(q)

\* The call fails, is refused (a limit, the secret) or its answer is lost.
PollFails(q) ==
    /\ poll[q].stage \notin {"idle", "failed"} /\ Trouble
    /\ poll' = [poll EXCEPT ![q] = [Idle EXCEPT !.stage = "failed"]]
    /\ UNCHANGED <<central, instances, minted, runtime, late>>

\* boot ends without keys, and goes on with cached ones.
Over(q) ==
    /\ poll' = [poll EXCEPT ![q] = Idle]
    /\ rt' = IF rt = "up" \/ held'.keys # {} THEN "up" ELSE "down"

\* The rest of pollOnce. A dirty answer is taken whatever the version held by
\* now; a full snapshot makes every connected user sign in again.
Applied(q) ==
    /\ poll[q].stage = "answered" /\ Cardinality(writes) < MaxWrites
    /\ held' = [version |-> poll[q].cur, keys |-> poll[q].keys]
    /\ writes' = writes \cup {held'}
    /\ kicked' = (kicked \/ (poll[q].needless /\ rt = "up"))
    /\ cut' = FALSE
    /\ Over(q)
    /\ UNCHANGED <<central, instances, minted, disk, late, troubles>>

NothingNew(q) ==
    /\ \/ poll[q].stage = "clean" /\ cut' = FALSE
       \/ poll[q].stage = "failed" /\ UNCHANGED cut
    /\ UNCHANGED held
    /\ Over(q)
    /\ UNCHANGED <<central, instances, minted, disk, writes, kicked, late, troubles>>

\* onDirtySync: concurrent calls read and write the file in any order.
Persisted ==
    /\ \E w \in writes : disk' = w /\ writes' = writes \ {w}
    /\ UNCHANGED <<central, instances, minted, poll, rt, held, cut, kicked, late, troubles>>

RuntimeDies ==
    /\ rt # "down" /\ Trouble
    /\ rt' = "down" /\ writes' = {}
    /\ poll' = [q \in Poll |-> Idle]
    /\ cut' = (cut \/ held # disk)
    /\ UNCHANGED <<central, instances, minted, held, disk, kicked, late>>

----------------------------------------------------------------------------
\* Time. Nothing that runs in a moment takes a minute, no call takes ten.

TimePasses(span) ==
    /\ Handled = {} /\ busting = {} /\ Ensuring = {}
    /\ span # "minute" => InFlight = {} /\ writes = {}
    /\ young' = {} /\ cache' = [p \in Pod |-> {}]
    /\ IF span = "minute" THEN UNCHANGED <<over, minted>>
                          ELSE over' = InState("retiring") /\ minted' = {}
    /\ IF span = "day" THEN deltas' = {} /\ cut' = TRUE ELSE UNCHANGED <<deltas, cut>>
    /\ UNCHANGED <<keyState, readable, version, pod, busting, poll>>
    /\ UNCHANGED <<rt, held, disk, writes, kicked, late, troubles>>

CentralStep(p) ==
    \/ Rotate(p) \/ DropCache(p) \/ PodStarts(p) \/ NeedsKey(p) \/ KeyInserted(p) \/ KeyAnnounced(p)
    \/ PodDies(p) \/ KeysCached(p)

PollStep(q) ==
    \/ \E p \in Pod : Receive(q, p)
    \/ ReadDeltas(q) \/ ReadKeys(q) \/ KeysRead(q)
    \/ BootPoll(q) \/ Polls(q)
    \/ PollFails(q) \/ Applied(q) \/ NothingNew(q)

Next ==
    \/ \E p \in Pod : CentralStep(p)
    \/ \E q \in Poll : PollStep(q)
    \/ Mint \/ NewSecret \/ RuntimeStarts \/ RuntimeDies \/ Persisted
    \/ \E span \in Span : TimePasses(span)

Spec == Init /\ [][Next]_vars

----------------------------------------------------------------------------
\* A runtime that holds Central's version, and so will be told "clean" until
\* the next change, can check every valid token, whatever the age of the cache
\* its keys came from and however its polls overlapped (rotateSigningKey's
\* pending step, the order of reads in heartbeat.ts). Not so for a key of
\* ensureSigningKey whose instance died before it announced it, or which was
\* announced while another instance had a cache without it: until a later
\* change makes it known, its tokens may be refused.
LiveTokensVerify == held.version = version => minted \ late \subseteq held.keys

\* Users are made to sign in again for a re-sync only after a day without an
\* answer from Central (the placeholder delta of bumpSyncForKeyChange).
NoNeedlessReauth == ~kicked

\* Not kept: "a 60s cache can never return a set that omits a currently-valid
\* signing key" (crypto.ts, the comment on the cache). The key that signs is in
\* every warm cache, but for a rotation's own that is being dropped.
CacheHasSigner == \A p \in Up \ busting : \A keys \in cache[p] : Signer \subseteq keys

\* Not kept: a key is known before it signs (crypto.ts, rotateSigningKey: "The
\* 60s wait gives runtimes time to fetch the new public key").
NextSignerIsKnown ==
    held.version = version => InState("pending") \ young \subseteq held.keys

\* Not kept: an instance of Central can sign. A change of the secret leaves the
\* pending key of the old one, and the next rotation makes it active.
CentralCanSign == Up # {} => Signer \cap readable # {}
=============================================================================
