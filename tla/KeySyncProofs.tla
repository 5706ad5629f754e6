--------------------------- MODULE KeySyncProofs ----------------------------
(***************************************************************************)
(* Proofs about KeySync, for any number of instances, polls, keys and      *)
(* writes: a runtime that holds Central's version can check every valid    *)
(* token, but those of a key that ensureSigningKey has not made known, and *)
(* users are made to sign in again only after a day without an answer from *)
(* Central.                                                                *)
(***************************************************************************)
EXTENDS KeySync, TLAPS

Stage == {"idle", "sent", "dirty", "keys", "queried", "answered", "clean", "failed"}
PollType == [stage : Stage, last : Nat, gap : BOOLEAN,
             pod : Pod \cup {None}, cur : Nat, needless : BOOLEAN, keys : SUBSET Key]

\* The part of the type invariant that the argument uses.
Typed ==
    /\ keyState \in [Key -> {"none", "pending", "active", "retiring", "expired"}]
    /\ young \subseteq InState("pending") /\ over \subseteq InState("retiring")
    /\ readable \subseteq Key /\ late \subseteq Key
    /\ version \in Nat
    /\ pod \in [Pod -> {"down", "up", "inserting", "announcing"}]
    /\ cache \in [Pod -> {{}} \cup {{keys} : keys \in SUBSET Key}]
    /\ poll \in [Poll -> PollType]
    /\ held \in Pairs /\ disk \in Pairs /\ writes \subseteq Pairs
    /\ cut \in BOOLEAN

\* The keys that every cache knows, whatever its age: all that are advertised,
\* but the young ones and those that ensureSigningKey has not made known.
Mature == Advertised \ (young \cup late)

CachesKnow ==
    /\ \A p \in Pod : \A keys \in cache[p] : Mature \subseteq keys
    /\ \A q \in Poll : poll[q].stage = "queried" => Mature \subseteq poll[q].keys

\* Only an instance that is up has a cache and answers polls.
OnlyUpServes ==
    /\ \A p \in Pod : pod[p] # "up" => cache[p] = {}
    /\ \A q \in Handled : poll[q].pod \in Up

\* What a runtime can need: the keys of tokens, and of those that Central has
\* made known.
Needed == Trusted \ late

\* A version and the keys that came with it.
Sound(v, keys) ==
    v <= version /\ (v = version => Needed \subseteq keys)

CarriersSound ==
    /\ Sound(held.version, held.keys) /\ Sound(disk.version, disk.keys)
    /\ \A w \in writes : Sound(w.version, w.keys)
    /\ \A q \in Poll : poll[q].stage = "answered" => Sound(poll[q].cur, poll[q].keys)
    /\ \A q \in Handled : poll[q].cur <= version

\* A key outlives its tokens.
TokensTrusted == minted \subseteq Trusted \ over

IInv == Typed /\ CachesKnow /\ OnlyUpServes /\ CarriersSound /\ TokensTrusted

-----------------------------------------------------------------------------
\* The invariant holds at the start.
LEMMA IInvInit == Init => IInv
<1> SUFFICES ASSUME Init PROVE IInv
  OBVIOUS
<1>1. 1 \in Key
  BY MaxKeyAssumption DEF Key
<1>2. Typed
  BY <1>1 DEF Init, Typed, PollType, Stage, Pairs, Idle, InState
<1>3. CachesKnow /\ OnlyUpServes
  BY DEF Init, CachesKnow, OnlyUpServes, Handled, Idle, Ensuring, Up
<1>4. CarriersSound
  BY DEF Init, CarriersSound, Sound, Handled, Idle
<1>5. TokensTrusted
  BY DEF Init, TokensTrusted
<1> QED BY <1>2, <1>3, <1>4, <1>5 DEF IInv

\* What is known of a pair stays so while the version stays and no key is
\* needed anew ...
LEMMA SoundStays ==
    ASSUME version' = version, Needed' \subseteq Needed,
           NEW v, NEW keys, Sound(v, keys)
    PROVE  Sound(v, keys)'
BY DEF Sound

\* ... and is not asked any more when the version is counted up.
LEMMA SoundBumped ==
    ASSUME version \in Nat, version' = version + 1,
           NEW v \in Nat, NEW keys, Sound(v, keys)
    PROVE  Sound(v, keys)'
BY DEF Sound

\* Steps that leave the carriers alone keep them sound in one of these ways.
LEMMA CarriersStay ==
    ASSUME Typed, CarriersSound, version' = version, Needed' \subseteq Needed,
           UNCHANGED <<poll, held, disk, writes>>
    PROVE  CarriersSound'
BY DEF CarriersSound, Sound, Handled

LEMMA CarriersBumped ==
    ASSUME Typed, CarriersSound, version' = version + 1,
           UNCHANGED <<poll, held, disk, writes>>
    PROVE  CarriersSound'
BY DEF CarriersSound, Sound, Handled, Typed, Pairs, PollType

\* An announcement makes known only what every cache knows.
LEMMA BumpKnows ==
    ASSUME CachesKnow, Bump, UNCHANGED <<cache, poll>>, Mature' \subseteq Mature \cup late
    PROVE  CachesKnow'
<1>1. ASSUME NEW k \in Mature', k \in late
      PROVE  /\ \A p \in Pod : \A keys \in cache[p] : k \in keys
             /\ \A q \in Poll : poll[q].stage = "queried" => k \in poll[q].keys
  BY <1>1 DEF Bump, Mature
<1>2. ASSUME NEW p \in Pod, NEW keys \in cache[p], NEW k \in Mature' PROVE k \in keys
  BY <1>1, <1>2 DEF CachesKnow
<1>3. ASSUME NEW q \in Poll, poll[q].stage = "queried", NEW k \in Mature' PROVE k \in poll[q].keys
  BY <1>1, <1>3 DEF CachesKnow
<1> QED BY <1>2, <1>3 DEF CachesKnow

-----------------------------------------------------------------------------
(* Central's steps.                                                        *)

\* A rotation promotes only keys that every cache knows, and its own is young.
LEMMA RotateKeeps == ASSUME IInv, NEW p \in Pod, Rotate(p) PROVE IInv'
<1> DEFINE promoted == InState("pending") \ young
<1> USE DEF IInv
<1>1. PICK new \in NewKey :
          /\ keyState' = [k \in Key |->
                CASE k \in over -> "expired"
                  [] k \in promoted -> "active"
                  [] keyState[k] = "active" /\ promoted # {} -> "retiring"
                  [] k = new -> "pending"
                  [] OTHER -> keyState[k]]
          /\ young' = (young \ promoted) \cup {new}
          /\ readable' = readable \cup {new}
  BY DEF Rotate, RotateWith
<1>2. /\ p \in Up /\ over' = {} /\ busting' = busting \cup {p} /\ version' = version + 1
      /\ UNCHANGED <<pod, cache, minted, poll, runtime>>
  BY DEF Rotate, RotateWith, Bump
<1>3. new \in Key /\ keyState[new] = "none"
  BY <1>1 DEF NewKey, Unused, InState
<1>4. keyState' \in [Key -> {"none", "pending", "active", "retiring", "expired"}]
  BY <1>1 DEF Typed
<1>5. \A k \in Key : keyState'[k] =
          CASE k \in over -> "expired"
            [] k \in promoted -> "active"
            [] keyState[k] = "active" /\ promoted # {} -> "retiring"
            [] k = new -> "pending"
            [] OTHER -> keyState[k]
  BY <1>1
<1>6. Typed'
  <2>1. young' \subseteq InState("pending")'
    BY <1>1, <1>3, <1>5 DEF Typed, InState
  <2>2. late' \subseteq Key /\ readable' \subseteq Key /\ over' \subseteq InState("retiring")' /\ version' \in Nat
    BY <1>1, <1>2, <1>3 DEF Typed, Rotate, Bump
  <2>3. UNCHANGED <<pod, cache, poll, held, disk, writes, cut>>
    BY <1>2 DEF runtime
  <2> QED BY <1>4, <2>1, <2>2, <2>3 DEF Typed
<1>7. Mature' \subseteq Mature \cup late
  BY <1>1, <1>3, <1>5 DEF Mature, Advertised, Typed, InState
<1>8. CachesKnow' /\ OnlyUpServes'
  BY <1>2, <1>7, BumpKnows DEF Rotate, OnlyUpServes, Handled, Up
<1>9. CarriersSound'
  BY <1>2, CarriersBumped DEF runtime
<1>10. TokensTrusted'
  BY <1>2, <1>3, <1>5 DEF TokensTrusted, Trusted, Typed, InState
<1> QED BY <1>6, <1>8, <1>9, <1>10

LEMMA DropCacheKeeps == ASSUME IInv, NEW p \in Pod, DropCache(p) PROVE IInv'
<1> USE DEF IInv, DropCache, central, runtime
<1>1. Typed'
  BY DEF Typed, InState
<1>2. CachesKnow' /\ OnlyUpServes'
  BY DEF CachesKnow, OnlyUpServes, Typed, Mature, Advertised, Handled, Up
<1>3. CarriersSound' /\ TokensTrusted'
  BY CarriersStay DEF Needed, Trusted, TokensTrusted
<1> QED BY <1>1, <1>2, <1>3

LEMMA MintKeeps == ASSUME IInv, Mint PROVE IInv'
<1> USE DEF IInv, central, instances, runtime
<1>1. Typed' /\ CachesKnow' /\ OnlyUpServes'
  BY DEF Mint, Typed, InState, CachesKnow, OnlyUpServes, Mature, Advertised, Handled, Up
<1>2. CarriersSound'
  BY CarriersStay DEF Mint, Needed, Trusted
<1>3. TokensTrusted'
  <2>1. PICK k \in Signer : minted' = minted \cup {k}
    BY DEF Mint
  <2>2. k \in Trusted \ over
    BY DEF Signer, InState, Trusted, Typed
  <2> QED BY <2>1, <2>2 DEF Mint, TokensTrusted, Trusted
<1> QED BY <1>1, <1>2, <1>3

LEMMA PodStartsKeeps == ASSUME IInv, NEW p \in Pod, PodStarts(p) PROVE IInv'
<1> USE DEF IInv, PodStarts, central, runtime
<1>1. Typed'
  BY DEF Typed, InState
<1>2. CachesKnow' /\ OnlyUpServes'
  BY DEF CachesKnow, OnlyUpServes, Typed, Mature, Advertised, Handled, Up
<1>3. CarriersSound' /\ TokensTrusted'
  BY CarriersStay DEF Typed, Needed, Trusted, TokensTrusted
<1> QED BY <1>1, <1>2, <1>3

LEMMA NeedsKeyKeeps == ASSUME IInv, NEW p \in Pod, NeedsKey(p) PROVE IInv'
<1> USE DEF IInv, NeedsKey, runtime
<1>1. Typed'
  BY DEF Typed, InState
<1>2. Mature' \subseteq Mature /\ Trusted' \subseteq Trusted
  BY DEF Mature, Advertised, Trusted, Typed
<1>3. CachesKnow' /\ OnlyUpServes'
  BY <1>2 DEF CachesKnow, OnlyUpServes, Typed, Handled, Up
<1>4. CarriersSound'
  BY <1>2, CarriersStay DEF Needed
<1>5. TokensTrusted'
  BY DEF TokensTrusted, Trusted, InState, Typed
<1> QED BY <1>1, <1>3, <1>4, <1>5

\* The new key is one that caches need not know.
LEMMA KeyInsertedKeeps == ASSUME IInv, NEW p \in Pod, KeyInserted(p) PROVE IInv'
<1> USE DEF IInv, runtime
<1>1. PICK new \in NewKey :
          /\ keyState' = [keyState EXCEPT ![new] = "active"]
          /\ readable' = readable \cup {new} /\ late' = late \cup {new}
  BY DEF KeyInserted
<1>2. new \in Key /\ keyState[new] = "none"
  BY <1>1 DEF NewKey, Unused, InState
<1>3. /\ pod[p] = "inserting" /\ pod' = [pod EXCEPT ![p] = "announcing"]
      /\ UNCHANGED <<young, over, version, cache, minted, poll, runtime>>
  BY DEF KeyInserted
<1>4. Mature' \subseteq Mature /\ Needed' \subseteq Needed
  BY <1>1, <1>2, <1>3 DEF Typed, Mature, Needed, Advertised, Trusted
<1>5. Typed'
  BY <1>1, <1>2, <1>3 DEF Typed, InState
<1>6. CachesKnow' /\ OnlyUpServes'
  BY <1>3, <1>4 DEF CachesKnow, OnlyUpServes, Typed, Handled, Up
<1>7. CarriersSound'
  BY <1>3, <1>4, CarriersStay
<1>8. TokensTrusted'
  BY <1>1, <1>2, <1>3 DEF TokensTrusted, Trusted, Typed
<1> QED BY <1>5, <1>6, <1>7, <1>8

LEMMA KeyAnnouncedKeeps == ASSUME IInv, NEW p \in Pod, KeyAnnounced(p) PROVE IInv'
<1> USE DEF IInv, KeyAnnounced, runtime
<1>1. Typed'
  <2>1. late' \subseteq Key /\ version' \in Nat /\ pod' \in [Pod -> {"down", "up", "inserting", "announcing"}]
    BY DEF Bump, Typed
  <2>2. UNCHANGED <<keyState, young, over, readable, cache, poll, held, disk, writes, cut>>
    OBVIOUS
  <2> QED BY <2>1, <2>2 DEF Typed, InState
<1>2. CachesKnow'
  BY BumpKnows DEF Mature, Advertised
<1>3. OnlyUpServes'
  BY DEF OnlyUpServes, Typed, Handled, Up
<1>4. CarriersSound' /\ TokensTrusted'
  BY CarriersBumped DEF Bump, TokensTrusted, Trusted
<1> QED BY <1>1, <1>2, <1>3, <1>4

\* Instances that stop take their caches and the polls they were answering.
LEMMA StopKeeps ==
    ASSUME IInv, NEW pods \in SUBSET Pod, Stop(pods), readable' \subseteq readable
    PROVE  IInv'
<1> USE DEF IInv
<1>1. /\ pod' = [p \in Pod |-> IF p \in pods THEN "down" ELSE pod[p]]
      /\ cache' = [p \in Pod |-> IF p \in pods THEN {} ELSE cache[p]]
      /\ UNCHANGED <<keyState, young, over, version, minted, held, disk, writes, cut, late>>
  BY DEF Stop, runtime
<1>2. poll' = [q \in Poll |-> IF q \in Handled /\ poll[q].pod \in pods
                              THEN [Idle EXCEPT !.stage = "failed"] ELSE poll[q]]
  BY DEF Stop
<1>3. [Idle EXCEPT !.stage = "failed"] \in PollType /\ [Idle EXCEPT !.stage = "failed"].stage = "failed"
  BY DEF Idle, PollType, Stage
<1>4. /\ poll' \in [Poll -> PollType]
      /\ \A q \in Poll : poll'[q] = poll[q] \/ poll'[q].stage = "failed"
      /\ \A q \in Handled' : q \in Handled /\ poll'[q] = poll[q] /\ poll[q].pod \notin pods
  BY <1>2, <1>3 DEF Typed, Handled
<1>5. Typed'
  BY <1>1, <1>4 DEF Typed, InState
<1>6. CachesKnow'
  BY <1>1, <1>4 DEF CachesKnow, Mature, Advertised
<1>7. OnlyUpServes'
  BY <1>1, <1>4 DEF OnlyUpServes, Typed, Up
<1>8. CarriersSound'
  BY <1>1, <1>4 DEF CarriersSound, Sound, Needed, Trusted
<1>9. TokensTrusted'
  BY <1>1 DEF TokensTrusted, Trusted
<1> QED BY <1>5, <1>6, <1>7, <1>8, <1>9

-----------------------------------------------------------------------------
(* The heartbeat and the runtime.                                          *)

\* Steps that change polls, and pairs of the runtime, only.
LEMMA PollStepKeeps ==
    ASSUME IInv, UNCHANGED <<central, instances, minted, late>>,
           poll' \in [Poll -> PollType], held' \in Pairs, disk' \in Pairs, writes' \subseteq Pairs, cut' \in BOOLEAN,
           \A q \in Poll : poll'[q].stage = "queried" => Mature \subseteq poll'[q].keys,
           \A q \in Handled' : poll'[q].pod \in Up /\ poll'[q].cur <= version,
           \A q \in Poll : poll'[q].stage = "answered" => Sound(poll'[q].cur, poll'[q].keys),
           Sound(held'.version, held'.keys), Sound(disk'.version, disk'.keys),
           \A w \in writes' : Sound(w.version, w.keys)
    PROVE  IInv'
<1> USE DEF IInv, central, instances
<1>1. Typed'
  BY DEF Typed, InState
<1>2. CachesKnow' /\ OnlyUpServes'
  BY DEF CachesKnow, OnlyUpServes, Mature, Advertised, Up
<1>3. CarriersSound'
  BY DEF CarriersSound, Sound, Needed, Trusted
<1>4. TokensTrusted'
  BY DEF TokensTrusted, Trusted
<1> QED BY <1>1, <1>2, <1>3, <1>4

\* The same with one poll only.
LEMMA OnePollKeeps ==
    ASSUME IInv, UNCHANGED <<central, instances, minted, runtime, late>>,
           NEW q \in Poll, NEW r \in PollType, poll' = [poll EXCEPT ![q] = r],
           r.stage = "queried" => Mature \subseteq r.keys,
           r.stage \in {"dirty", "keys", "queried"} => r.pod \in Up /\ r.cur <= version,
           r.stage = "answered" => Sound(r.cur, r.keys)
    PROVE  IInv'
<1>1. poll' \in [Poll -> PollType]
  BY DEF IInv, Typed
<1>2. \A o \in Poll : poll'[o] = IF o = q THEN r ELSE poll[o]
  BY DEF IInv, Typed
<1> QED BY <1>1, <1>2, PollStepKeeps DEF IInv, Typed, CachesKnow, OnlyUpServes, CarriersSound, Handled, runtime

LEMMA ReceiveKeeps == ASSUME IInv, NEW q \in Poll, NEW p \in Pod, Receive(q, p) PROVE IInv'
<1> DEFINE r1 == [poll[q] EXCEPT !.stage = "clean"]
           r2 == [poll[q] EXCEPT !.stage = "dirty", !.pod = p, !.cur = version]
<1>1. poll[q] \in PollType /\ version \in Nat
  BY DEF IInv, Typed
<1>2. p \in Up /\ UNCHANGED <<central, instances, minted, runtime, late>>
  BY DEF Receive
<1>3. r1 \in PollType /\ r1.stage = "clean"
  BY <1>1 DEF PollType, Stage
<1>4. r2 \in PollType /\ r2.stage = "dirty" /\ r2.pod = p /\ r2.cur = version
  BY <1>1 DEF PollType, Stage
<1>5. poll' = [poll EXCEPT ![q] = r1] \/ poll' = [poll EXCEPT ![q] = r2]
  BY DEF Receive
<1> HIDE DEF r1, r2
<1>6. CASE poll' = [poll EXCEPT ![q] = r1]
  BY <1>2, <1>3, <1>6, OnePollKeeps
<1>7. CASE poll' = [poll EXCEPT ![q] = r2]
  <2>1. r2.pod \in Up /\ r2.cur <= version /\ r2.stage \notin {"queried", "answered"}
    BY <1>1, <1>2, <1>4
  <2> QED BY <1>2, <1>4, <1>7, <2>1, OnePollKeeps
<1> QED BY <1>5, <1>6, <1>7

LEMMA ReadDeltasKeeps == ASSUME IInv, NEW q \in Poll, ReadDeltas(q) PROVE IInv'
<1> DEFINE r == [poll[q] EXCEPT !.stage = "keys", !.last = 0, !.gap = FALSE,
                            !.needless = Lacking(q) /\ ~poll[q].gap]
<1>1. poll[q] \in PollType /\ poll[q].pod \in Up /\ poll[q].cur <= version /\ Lacking(q) \in BOOLEAN
  BY DEF IInv, Typed, OnlyUpServes, CarriersSound, Handled, ReadDeltas, Lacking
<1>2. r \in PollType /\ r.stage = "keys" /\ r.pod \in Up /\ r.cur <= version
  BY <1>1 DEF PollType, Stage
<1>3. poll' = [poll EXCEPT ![q] = r] /\ UNCHANGED <<central, instances, minted, runtime, late>>
  BY DEF ReadDeltas
<1> HIDE DEF r
<1> QED BY <1>2, <1>3, OnePollKeeps

\* Keys that a cache knows are enough for the version read before them.
LEMMA KnownIsSound ==
    ASSUME IInv, NEW keys, Mature \subseteq keys, NEW v, v <= version PROVE Sound(v, keys)
<1>1. Needed \subseteq Mature
  BY DEF IInv, Typed, InState, Needed, Trusted, Mature, Advertised
<1> QED BY <1>1 DEF Sound

\* A cache that is not empty holds one set of keys, and all mature ones.
LEMMA CacheHolds ==
    ASSUME IInv, NEW p \in Pod, cache[p] # {}
    PROVE  \E keys \in SUBSET Key : cache[p] = {keys} /\ Mature \subseteq keys
<1>1. cache[p] \in {{}} \cup {{keys} : keys \in SUBSET Key}
  BY DEF IInv, Typed
<1>2. PICK keys \in SUBSET Key : cache[p] = {keys}
  BY <1>1
<1> QED BY <1>2 DEF IInv, CachesKnow

LEMMA ReadKeysKeeps == ASSUME IInv, NEW q \in Poll, ReadKeys(q) PROVE IInv'
<1> DEFINE p == poll[q].pod
           r == IF cache[p] # {} THEN [poll[q] EXCEPT !.stage = "answered", !.keys = UNION cache[p], !.pod = None]
                                 ELSE [poll[q] EXCEPT !.stage = "queried", !.keys = Advertised]
<1>1. poll[q] \in PollType /\ p \in Up /\ p \in Pod /\ poll[q].cur <= version
  BY DEF IInv, Typed, OnlyUpServes, CarriersSound, Handled, ReadKeys, Up
<1>2. poll' = [poll EXCEPT ![q] = r] /\ UNCHANGED <<central, instances, minted, runtime, late>>
  BY DEF ReadKeys
<1>3. Advertised \in SUBSET Key /\ Mature \subseteq Advertised
  BY DEF Advertised, Mature
<1>4. CASE cache[p] = {}
  <2>1. r \in PollType /\ r.stage = "queried" /\ r.keys = Advertised /\ r.pod = p /\ r.cur = poll[q].cur
    BY <1>1, <1>3, <1>4 DEF PollType, Stage
  <2> HIDE DEF r
  <2> QED BY <1>1, <1>2, <1>3, <2>1, OnePollKeeps
<1>5. CASE cache[p] # {}
  <2>1. PICK keys \in SUBSET Key : cache[p] = {keys} /\ Mature \subseteq keys
    BY <1>1, <1>5, CacheHolds
  <2>2. UNION cache[p] = keys
    BY <2>1
  <2>3. r \in PollType /\ r.stage = "answered" /\ r.keys = keys /\ r.cur = poll[q].cur
    BY <1>1, <1>5, <2>2 DEF PollType, Stage
  <2>4. Sound(r.cur, r.keys)
    BY <1>1, <2>1, <2>3, KnownIsSound
  <2> HIDE DEF r
  <2> QED BY <1>2, <2>3, <2>4, OnePollKeeps
<1> QED BY <1>4, <1>5

LEMMA KeysReadKeeps == ASSUME IInv, NEW q \in Poll, KeysRead(q) PROVE IInv'
<1> DEFINE p == poll[q].pod
           r == [poll[q] EXCEPT !.stage = "answered", !.pod = None]
<1>1. /\ poll[q] \in PollType /\ p \in Up /\ p \in Pod /\ poll[q].cur <= version
      /\ Mature \subseteq poll[q].keys /\ poll[q].keys \in SUBSET Key
  BY DEF IInv, Typed, PollType, OnlyUpServes, CachesKnow, CarriersSound, Handled, KeysRead, Up
<1>2. /\ poll' = [poll EXCEPT ![q] = r] /\ cache' = [cache EXCEPT ![p] = {poll[q].keys}]
      /\ UNCHANGED <<central, pod, busting, minted, runtime, late>>
  BY DEF KeysRead
<1>3. r \in PollType /\ r.stage = "answered" /\ r.keys = poll[q].keys /\ r.cur = poll[q].cur
  BY <1>1 DEF PollType, Stage
<1>4. Sound(r.cur, r.keys)
  BY <1>1, <1>3, KnownIsSound
<1> HIDE DEF r
<1>5. /\ poll' \in [Poll -> PollType]
      /\ \A o \in Poll : poll'[o] = IF o = q THEN r ELSE poll[o]
  BY <1>2, <1>3 DEF IInv, Typed
<1>6. Typed'
  BY <1>1, <1>2, <1>5 DEF IInv, Typed, central, runtime, InState
<1>7. CachesKnow'
  BY <1>1, <1>2, <1>3, <1>5 DEF IInv, Typed, CachesKnow, central, Mature, Advertised
<1>8. OnlyUpServes'
  BY <1>1, <1>2, <1>3, <1>5 DEF IInv, Typed, OnlyUpServes, Handled, Up
<1>9. CarriersSound'
  BY <1>2, <1>3, <1>4, <1>5 DEF IInv, CarriersSound, Sound, Handled, Needed, Trusted, central, runtime
<1>10. TokensTrusted'
  BY <1>2 DEF IInv, TokensTrusted, Trusted, central
<1> QED BY <1>6, <1>7, <1>8, <1>9, <1>10 DEF IInv

LEMMA KeysCachedKeeps == ASSUME IInv, NEW p \in Pod, KeysCached(p) PROVE IInv'
<1> USE DEF IInv, KeysCached, central, runtime
<1>1. Advertised \in SUBSET Key /\ Mature \subseteq Advertised
  BY DEF Advertised, Mature
<1>2. Typed'
  BY <1>1 DEF Typed, InState
<1>3. Mature' = Mature
  BY DEF Mature, Advertised
<1>4. CachesKnow'
  BY <1>1, <1>3 DEF CachesKnow, Typed
<1>5. OnlyUpServes'
  BY DEF OnlyUpServes, Typed, Handled, Up
<1>6. CarriersSound' /\ TokensTrusted'
  BY CarriersStay DEF Needed, Trusted, TokensTrusted
<1> QED BY <1>2, <1>4, <1>5, <1>6

LEMMA SendKeeps == ASSUME IInv, NEW q \in Poll, Send(q) PROVE IInv'
<1> DEFINE r == [Idle EXCEPT !.stage = "sent", !.last = held.version, !.gap = cut]
<1>1. r \in PollType /\ r.stage = "sent"
  BY DEF IInv, Typed, Pairs, PollType, Stage, Idle
<1>2. poll' = [poll EXCEPT ![q] = r] /\ UNCHANGED <<central, instances, minted, runtime, late>>
  BY DEF Send
<1> HIDE DEF r
<1> QED BY <1>1, <1>2, OnePollKeeps

LEMMA PollFailsKeeps == ASSUME IInv, NEW q \in Poll, PollFails(q) PROVE IInv'
<1> DEFINE r == [Idle EXCEPT !.stage = "failed"]
<1>1. r \in PollType /\ r.stage = "failed"
  BY DEF PollType, Stage, Idle
<1>2. poll' = [poll EXCEPT ![q] = r] /\ UNCHANGED <<central, instances, minted, runtime, late>>
  BY DEF PollFails
<1> HIDE DEF r
<1> QED BY <1>1, <1>2, OnePollKeeps

\* A poll that ends leaves nothing behind but what it brought.
LEMMA IdleFacts ==
    ASSUME Typed, NEW q \in Poll, poll' = [poll EXCEPT ![q] = Idle]
    PROVE  /\ poll' \in [Poll -> PollType]
           /\ \A o \in Poll : poll'[o] = poll[o] \/ poll'[o].stage = "idle"
<1>1. Idle \in PollType /\ Idle.stage = "idle"
  BY DEF PollType, Stage, Idle
<1> QED BY <1>1 DEF Typed

LEMMA AppliedKeeps == ASSUME IInv, NEW q \in Poll, Applied(q) PROVE IInv'
<1>1. /\ poll[q].stage = "answered" /\ poll' = [poll EXCEPT ![q] = Idle]
      /\ held' = [version |-> poll[q].cur, keys |-> poll[q].keys]
      /\ writes' = writes \cup {held'} /\ cut' = FALSE
      /\ UNCHANGED <<central, instances, minted, disk, late>>
  BY DEF Applied, Over
<1>2. held' \in Pairs /\ Sound(held'.version, held'.keys)
  BY <1>1 DEF IInv, Typed, PollType, Pairs, CarriersSound
<1>3. /\ poll' \in [Poll -> PollType]
      /\ \A o \in Poll : poll'[o] = poll[o] \/ poll'[o].stage = "idle"
  BY <1>1, IdleFacts DEF IInv
<1>4. \A w \in writes' : Sound(w.version, w.keys)
  BY <1>1, <1>2 DEF IInv, CarriersSound
<1>5. writes' \subseteq Pairs /\ disk' \in Pairs /\ Sound(disk'.version, disk'.keys)
  BY <1>1, <1>2 DEF IInv, Typed, CarriersSound
<1>6. \A o \in Poll : poll'[o].stage = "queried" => Mature \subseteq poll'[o].keys
  BY <1>3 DEF IInv, CachesKnow
<1>7. \A o \in Handled' : poll'[o].pod \in Up /\ poll'[o].cur <= version
  BY <1>3 DEF IInv, OnlyUpServes, CarriersSound, Handled
<1>8. \A o \in Poll : poll'[o].stage = "answered" => Sound(poll'[o].cur, poll'[o].keys)
  BY <1>3 DEF IInv, CarriersSound
<1> QED BY <1>1, <1>2, <1>3, <1>4, <1>5, <1>6, <1>7, <1>8, PollStepKeeps

\* Steps in which polls only end, and the runtime holds or writes a pair that
\* it had.
LEMMA OldPairsKeep ==
    ASSUME IInv, UNCHANGED <<central, instances, minted, late>>,
           poll' \in [Poll -> PollType], cut' \in BOOLEAN,
           \A o \in Poll : poll'[o] = poll[o] \/ poll'[o].stage = "idle",
           held' = held \/ held' = disk, disk' = disk \/ disk' \in writes, writes' \subseteq writes
    PROVE  IInv'
<1>1. held' \in Pairs /\ disk' \in Pairs /\ writes' \subseteq Pairs
  BY DEF IInv, Typed
<1>2. /\ Sound(held'.version, held'.keys) /\ Sound(disk'.version, disk'.keys)
      /\ \A w \in writes' : Sound(w.version, w.keys)
  BY DEF IInv, CarriersSound
<1>3. \A o \in Poll : poll'[o].stage = "queried" => Mature \subseteq poll'[o].keys
  BY DEF IInv, CachesKnow
<1>4. \A o \in Handled' : poll'[o].pod \in Up /\ poll'[o].cur <= version
  BY DEF IInv, OnlyUpServes, CarriersSound, Handled
<1>5. \A o \in Poll : poll'[o].stage = "answered" => Sound(poll'[o].cur, poll'[o].keys)
  BY DEF IInv, CarriersSound
<1> QED BY <1>1, <1>2, <1>3, <1>4, <1>5, PollStepKeeps

LEMMA NothingNewKeeps == ASSUME IInv, NEW q \in Poll, NothingNew(q) PROVE IInv'
<1>1. /\ poll' = [poll EXCEPT ![q] = Idle]
      /\ UNCHANGED <<central, instances, minted, held, disk, writes, late>>
  BY DEF NothingNew, Over
<1>2. cut' \in BOOLEAN
  BY DEF NothingNew, IInv, Typed
<1>3. /\ poll' \in [Poll -> PollType]
      /\ \A o \in Poll : poll'[o] = poll[o] \/ poll'[o].stage = "idle"
  BY <1>1, IdleFacts DEF IInv
<1> QED BY <1>1, <1>2, <1>3, OldPairsKeep

LEMMA RuntimeKeeps == ASSUME IInv, RuntimeStarts \/ Persisted \/ RuntimeDies PROVE IInv'
<1>1. poll \in [Poll -> PollType] /\ cut \in BOOLEAN
  BY DEF IInv, Typed
<1>2. CASE RuntimeStarts
  BY <1>1, <1>2, OldPairsKeep DEF RuntimeStarts
<1>3. CASE Persisted
  BY <1>1, <1>3, OldPairsKeep DEF Persisted
<1>4. CASE RuntimeDies
  <2>1. Idle \in PollType /\ Idle.stage = "idle"
    BY DEF PollType, Stage, Idle
  <2>2. poll' = [q \in Poll |-> Idle] /\ cut' \in BOOLEAN /\ writes' = {}
        /\ UNCHANGED <<central, instances, minted, held, disk, late>>
    BY <1>1, <1>4 DEF RuntimeDies
  <2> QED BY <2>1, <2>2, OldPairsKeep
<1> QED BY <1>2, <1>3, <1>4

-----------------------------------------------------------------------------
\* Time makes the young keys mature, when the caches that may lack them are
\* gone and no query is under way.
LEMMA TimePassesKeeps == ASSUME IInv, NEW span \in Span, TimePasses(span) PROVE IInv'
<1>1. /\ Handled = {} /\ young' = {} /\ cache' = [p \in Pod |-> {}]
      /\ \/ over' = over /\ minted' = minted
         \/ over' = InState("retiring") /\ minted' = {}
      /\ UNCHANGED <<keyState, readable, version, pod, poll, held, disk, writes, late>>
  BY DEF TimePasses
<1>2. cut' \in BOOLEAN
  BY DEF TimePasses, IInv, Typed
<1>3. Typed'
  BY <1>1, <1>2 DEF IInv, Typed, InState
<1>4. CachesKnow' /\ OnlyUpServes'
  BY <1>1 DEF IInv, CachesKnow, OnlyUpServes, Handled, Up
<1>5. CarriersSound'
  BY <1>1 DEF IInv, CarriersSound, Sound, Handled, Needed, Trusted
<1>6. TokensTrusted'
  BY <1>1 DEF IInv, TokensTrusted, Trusted
<1> QED BY <1>3, <1>4, <1>5, <1>6 DEF IInv

\* Every step keeps the invariant.
LEMMA IInvStep == ASSUME IInv, [Next]_vars PROVE IInv'
<1>1. ASSUME NEW p \in Pod, CentralStep(p) PROVE IInv'
  <2>1. CASE PodDies(p)
    <3>1. Stop({p}) /\ readable' \subseteq readable
      BY <2>1 DEF PodDies
    <3> QED BY <3>1, StopKeeps
  <2> QED BY <1>1, <2>1, RotateKeeps, DropCacheKeeps, PodStartsKeeps, NeedsKeyKeeps,
             KeyInsertedKeeps, KeyAnnouncedKeeps, KeysCachedKeeps DEF CentralStep
<1>2. ASSUME NEW q \in Poll, PollStep(q) PROVE IInv'
  BY <1>2, ReceiveKeeps, ReadDeltasKeeps, ReadKeysKeeps, KeysReadKeeps, SendKeeps,
     PollFailsKeeps, AppliedKeeps, NothingNewKeeps DEF PollStep, BootPoll, Polls
<1>3. CASE NewSecret
  BY <1>3, StopKeeps DEF NewSecret
<1>4. CASE UNCHANGED vars
  BY SMTT(30), <1>4 DEF vars, central, instances, runtime, IInv, Typed, InState, CachesKnow, OnlyUpServes,
     CarriersSound, Sound, TokensTrusted, Mature, Advertised, Needed, Trusted, Handled, Up
<1> QED BY <1>1, <1>2, <1>3, <1>4, MintKeeps, RuntimeKeeps, TimePassesKeeps DEF Next

\* A runtime that holds Central's version can check every valid token
\* (crypto.ts, heartbeat.ts, client.ts), for any number of instances of Central
\* and any overlap of polls; but for those of a key of ensureSigningKey that no
\* announcement has made known.
THEOREM LiveTokensAlwaysVerify == Spec => []LiveTokensVerify
<1>1. Init => IInv
  BY IInvInit
<1>2. IInv /\ [Next]_vars => IInv'
  BY IInvStep
<1>3. IInv => LiveTokensVerify
  BY DEF IInv, TokensTrusted, CarriersSound, Sound, Needed, LiveTokensVerify
<1> QED BY <1>1, <1>2, <1>3, PTL DEF Spec

-----------------------------------------------------------------------------
(* No needless sign-in.                                                    *)

\* Every version after v has a delta younger than a day.
Covered(v) == \A n \in (v + 1)..version : n \in deltas

\* Until the first rotation, after which there is always a pending key, there
\* is one active key at most, and any instance that has it, or announces it,
\* can read it.
FirstKey ==
    InState("pending") = {} =>
        /\ \A j, k \in InState("active") : j = k
        /\ \A p \in Pod :
              /\ pod[p] \in {"up", "announcing"} => InState("active") # {} /\ InState("active") \subseteq readable
              /\ pod[p] = "inserting" => InState("active") = {}

CachesFilled == \A p \in Pod : \A keys \in cache[p] : keys # {}

\* There are always keys to answer with; one instance makes one at a time.
KeysThere == FirstKey /\ CachesFilled /\ \A p, r \in Ensuring : p = r

\* What comes back from Central: keys, and a version with nothing but young
\* deltas after it.
AnswersCovered ==
    \A q \in Poll :
        /\ poll[q].stage \in {"queried", "answered"} => poll[q].keys # {}
        /\ poll[q].stage \in {"dirty", "keys", "queried", "answered"} => Covered(poll[q].cur)
        /\ poll[q].stage = "clean" => poll[q].last > 0 /\ Covered(poll[q].last)
        /\ poll[q].stage \in {"sent", "dirty", "clean"} => held.version = poll[q].last \/ Covered(held.version)

\* boot has one poll, sent with the version it still holds.
BootPollsOnce ==
    /\ rt = "down" => InFlight = {}
    /\ rt # "up" => \A q, r \in InFlight :
          q = r /\ (poll[q].stage \in {"sent", "dirty", "clean"} => poll[q].last = held.version)

\* What the runtime holds, has written or is writing. Only a new server has no
\* keys.
PairsCovered ==
    /\ \A w \in writes : w.keys # {} /\ Covered(w.version)
    /\ held.keys = {} => held.version = 0
    /\ disk.keys = {} => disk.version = 0
    /\ ~cut /\ rt = "up" => Covered(held.version)
    /\ ~cut /\ rt # "up" => /\ held.keys # {} => Covered(held.version)
                            /\ disk.keys # {} => Covered(disk.version)

\* A poll that was not sent after a gap is not answered by a full snapshot.
NoSnapshot ==
    rt = "up" => \A q \in Poll :
        /\ poll[q].stage \in {"sent", "dirty"} => poll[q].gap \/ Covered(poll[q].last)
        /\ poll[q].stage \in {"keys", "queried", "answered"} => ~poll[q].needless

CInv == IInv /\ KeysThere /\ AnswersCovered /\ BootPollsOnce /\ PairsCovered /\ NoSnapshot /\ ~kicked

LEMMA CInvInit == Init => CInv
<1> SUFFICES ASSUME Init PROVE CInv
  OBVIOUS
<1>1. 1 \in Key /\ IInv
  BY MaxKeyAssumption, IInvInit DEF Key
<1>2. InState("active") = {1} /\ readable = {1}
  BY <1>1 DEF Init, InState
<1>3. KeysThere
  BY <1>2 DEF Init, KeysThere, FirstKey, CachesFilled, Ensuring
<1>4. AnswersCovered /\ BootPollsOnce /\ PairsCovered /\ NoSnapshot /\ ~kicked
  BY DEF Init, AnswersCovered, BootPollsOnce, PairsCovered, NoSnapshot, InFlight, Idle
<1> QED BY <1>1, <1>3, <1>4 DEF CInv

\* Nothing but the keys, the instances and the caches bears on it.
LEMMA KeysStay ==
    ASSUME KeysThere, UNCHANGED <<keyState, readable, pod>>, UNCHANGED cache \/ CachesFilled'
    PROVE  KeysThere'
BY DEF KeysThere, FirstKey, CachesFilled, InState, Ensuring

\* An instance that is up has keys to answer with.
LEMMA UpHasKeys == ASSUME KeysThere, Up # {} PROVE Advertised # {}
<1>1. InState("pending") # {} \/ InState("active") # {}
  BY DEF KeysThere, FirstKey, Up
<1> QED BY <1>1 DEF InState, Advertised

\* A change of the version leaves a delta.
LEMMA CoveredStays ==
    ASSUME version \in Nat, NEW v \in Nat, Covered(v),
           \/ Bump
           \/ UNCHANGED <<version, deltas>>
    PROVE  \A n \in (v + 1)..version' : n \in deltas'
BY DEF Covered, Bump

\* What is covered stays so, as long as no day passes.
LEMMA StillCovered ==
    ASSUME IInv, Bump \/ UNCHANGED <<version, deltas>>
    PROVE  \A v \in Nat : Covered(v) => \A n \in (v + 1)..version' : n \in deltas'
BY CoveredStays DEF IInv, Typed

LEMMA TypeFacts ==
    ASSUME IInv
    PROVE  /\ version \in Nat /\ held \in Pairs /\ disk \in Pairs
           /\ held.version \in Nat /\ disk.version \in Nat /\ \A w \in writes : w.version \in Nat
           /\ \A q \in Poll : poll[q] \in PollType /\ poll[q].cur \in Nat /\ poll[q].last \in Nat
BY DEF IInv, Typed, Pairs, PollType

\* Steps of Central that leave the polls alone, or end some.
LEMMA CentralKeepsCovered ==
    ASSUME CInv, IInv', KeysThere', Bump \/ UNCHANGED <<version, deltas>>, UNCHANGED runtime,
           \A q \in Poll : \/ poll'[q] = poll[q]
                           \/ poll'[q].stage = "failed" /\ q \in InFlight
    PROVE  CInv'
<1>1. \A v \in Nat : Covered(v) => \A n \in (v + 1)..version' : n \in deltas'
  BY StillCovered DEF CInv
<1>2. UNCHANGED <<rt, held, disk, writes, cut, kicked>>
  BY DEF runtime
<1>3. PairsCovered'
  BY <1>1, <1>2, TypeFacts DEF CInv, PairsCovered, Covered
<1>4. AnswersCovered'
  <2> SUFFICES ASSUME NEW q \in Poll
               PROVE  /\ poll'[q].stage \in {"queried", "answered"} => poll'[q].keys # {}
                      /\ poll'[q].stage \in {"dirty", "keys", "queried", "answered"} => Covered(poll[q].cur)'
                      /\ poll'[q].stage = "clean" => poll'[q].last > 0 /\ Covered(poll[q].last)'
                      /\ poll'[q].stage \in {"sent", "dirty", "clean"} =>
                            held'.version = poll'[q].last \/ Covered(held.version)'
    BY DEF AnswersCovered
  <2>1. CASE poll'[q].stage = "failed"
    BY <2>1
  <2>2. CASE poll'[q] = poll[q]
    BY <1>1, <1>2, <2>2, TypeFacts DEF CInv, AnswersCovered, Covered
  <2> QED BY <2>1, <2>2
<1>5. InFlight' \subseteq InFlight
  BY DEF InFlight
<1>6. BootPollsOnce'
  BY <1>2, <1>5 DEF CInv, BootPollsOnce, InFlight
<1>7. NoSnapshot'
  BY <1>1, <1>2, TypeFacts DEF CInv, NoSnapshot, Covered
<1> QED BY <1>2, <1>3, <1>4, <1>6, <1>7 DEF CInv

\* A rotation leaves a pending key.
LEMMA RotateCovers == ASSUME CInv, NEW p \in Pod, Rotate(p), IInv' PROVE CInv'
<1> DEFINE promoted == InState("pending") \ young
<1>1. PICK new \in NewKey :
          keyState' = [k \in Key |->
              CASE k \in over -> "expired"
                [] k \in promoted -> "active"
                [] keyState[k] = "active" /\ promoted # {} -> "retiring"
                [] k = new -> "pending"
                [] OTHER -> keyState[k]]
  BY DEF Rotate, RotateWith
<1>2. over \subseteq InState("retiring") /\ new \in InState("none")
  BY <1>1 DEF CInv, IInv, Typed, NewKey, Unused
<1>3. keyState'[new] = "pending" /\ new \in Key
  BY <1>1, <1>2 DEF InState
<1>4. KeysThere'
  BY <1>3 DEF CInv, KeysThere, FirstKey, CachesFilled, InState, Ensuring, Rotate, RotateWith
<1> QED BY <1>4, CentralKeepsCovered DEF Rotate, RotateWith

\* Before the first rotation a key is made only when no instance is up.
LEMMA PodStepCovers ==
    ASSUME CInv, NEW p \in Pod, IInv',
           DropCache(p) \/ PodStarts(p) \/ NeedsKey(p) \/ KeyInserted(p) \/ KeyAnnounced(p) \/ KeysCached(p)
    PROVE  CInv'
<1>1. /\ UNCHANGED <<poll, runtime>>
      /\ Bump \/ UNCHANGED <<version, deltas>>
  BY DEF DropCache, PodStarts, NeedsKey, KeyInserted, KeyAnnounced, KeysCached, central
<1>2. KeysThere'
  <2>1. /\ pod \in [Pod -> {"down", "up", "inserting", "announcing"}] /\ KeysThere
        /\ cache \in [Pod -> {{}} \cup {{keys} : keys \in SUBSET Key}]
    BY DEF CInv, IInv, Typed
  <2>2. CASE DropCache(p)
    <3>1. CachesFilled'
      BY <2>1, <2>2 DEF DropCache, KeysThere, CachesFilled
    <3> QED BY <2>1, <2>2, <3>1, KeysStay DEF DropCache, central
  <2>3. CASE KeysCached(p)
    <3>1. Advertised # {}
      BY <2>1, <2>3, UpHasKeys DEF KeysCached
    <3>2. CachesFilled'
      BY <2>1, <2>3, <3>1 DEF KeysCached, KeysThere, CachesFilled
    <3> QED BY <2>1, <2>3, <3>2, KeysStay DEF KeysCached, central
  <2>4. CASE PodStarts(p)
    BY <2>1, <2>4 DEF PodStarts, central, KeysThere, FirstKey, CachesFilled, InState, Ensuring
  <2>5. CASE NeedsKey(p)
    <3>1. /\ InState("active")' = {} /\ InState("pending")' = InState("pending")
          /\ UNCHANGED cache
      BY <2>5 DEF NeedsKey, InState
    <3>2. pod' = [pod EXCEPT ![p] = "inserting"] /\ Ensuring' = {p}
      BY <2>1, <2>5 DEF NeedsKey, Ensuring
    <3>3. InState("pending") = {} => \A r \in Pod : pod[r] = "down"
      BY <2>1, <2>5 DEF NeedsKey, KeysThere, FirstKey, Ensuring
    <3>4. FirstKey'
      BY <2>1, <3>1, <3>2, <3>3 DEF FirstKey
    <3> QED BY <2>1, <3>1, <3>2, <3>4 DEF KeysThere, CachesFilled
  <2>6. CASE KeyInserted(p)
    <3>1. PICK new \in NewKey : keyState' = [keyState EXCEPT ![new] = "active"] /\ readable' = readable \cup {new}
      BY <2>6 DEF KeyInserted
    <3>2. new \in Key /\ keyState[new] = "none"
      BY <3>1 DEF NewKey, Unused, InState
    <3>3. InState("active")' = InState("active") \cup {new} /\ InState("pending")' = InState("pending")
      BY <3>1, <3>2 DEF CInv, IInv, Typed, InState
    <3>4. /\ pod[p] = "inserting" /\ pod' = [pod EXCEPT ![p] = "announcing"] /\ UNCHANGED cache
      BY <2>6 DEF KeyInserted
    <3>5. Ensuring' = Ensuring
      BY <2>1, <3>4 DEF Ensuring
    <3>6. InState("pending") = {} => InState("active") = {}
      BY <2>1, <3>4 DEF KeysThere, FirstKey
    <3>7. FirstKey'
      <4>1. ASSUME NEW r \in Pod, pod'[r] = "inserting" PROVE FALSE
        BY <2>1, <3>4, <4>1 DEF KeysThere, Ensuring
      <4> QED BY <3>1, <3>3, <3>6, <4>1 DEF FirstKey
    <3> QED BY <2>1, <3>4, <3>5, <3>7 DEF KeysThere, CachesFilled
  <2>7. CASE KeyAnnounced(p)
    BY <2>1, <2>7 DEF KeyAnnounced, KeysThere, FirstKey, CachesFilled, InState, Ensuring
  <2> QED BY <2>2, <2>3, <2>4, <2>5, <2>6, <2>7
<1> QED BY <1>1, <1>2, CentralKeepsCovered

\* A new secret makes keys unreadable, with every instance down.
LEMMA StopCovers ==
    ASSUME CInv, NEW pods \in SUBSET Pod, Stop(pods), pods = Pod \/ UNCHANGED readable, IInv' PROVE CInv'
<1>1. /\ pod' = [p \in Pod |-> IF p \in pods THEN "down" ELSE pod[p]]
      /\ cache' = [p \in Pod |-> IF p \in pods THEN {} ELSE cache[p]]
      /\ UNCHANGED <<keyState, version, deltas, runtime>>
  BY DEF Stop
<1>2. KeysThere'
  BY <1>1 DEF CInv, KeysThere, FirstKey, CachesFilled, InState, Ensuring
<1>3. \A q \in Poll : poll'[q] = poll[q] \/ (poll'[q].stage = "failed" /\ q \in InFlight)
  BY DEF Stop, Idle, Handled, InFlight
<1> QED BY <1>1, <1>2, <1>3, CentralKeepsCovered

-----------------------------------------------------------------------------
\* A poll that goes on.
LEMMA PollGoesOn ==
    ASSUME CInv, IInv', UNCHANGED <<version, deltas, keyState, readable, pod, runtime>>,
           UNCHANGED cache \/ CachesFilled',
           NEW q \in Poll, NEW r \in PollType, poll' = [poll EXCEPT ![q] = r],
           poll[q].stage # "idle", r.stage # "idle",
           r.stage \in {"dirty", "clean"} =>
              r.last = poll[q].last /\ poll[q].stage \in {"sent", "dirty", "clean"},
           r.stage \in {"queried", "answered"} => r.keys # {},
           r.stage \in {"dirty", "keys", "queried", "answered"} => Covered(r.cur),
           r.stage = "clean" => r.last > 0 /\ Covered(r.last),
           r.stage # "sent",
           rt = "up" =>
              /\ r.stage = "dirty" => r.gap \/ Covered(r.last)
              /\ r.stage \in {"keys", "queried", "answered"} => ~r.needless
    PROVE  CInv'
<1>1. \A o \in Poll : poll'[o] = IF o = q THEN r ELSE poll[o]
  BY DEF CInv, IInv, Typed
<1>2. UNCHANGED <<rt, held, disk, writes, cut, kicked>>
  BY DEF runtime
<1>3. InFlight' = InFlight
  BY <1>1 DEF InFlight
<1>4. AnswersCovered'
  BY <1>1, <1>2 DEF CInv, AnswersCovered, Covered
<1>5. BootPollsOnce'
  BY <1>1, <1>2, <1>3 DEF CInv, BootPollsOnce
<1>6. NoSnapshot'
  BY <1>1, <1>2 DEF CInv, NoSnapshot, Covered
<1>7. KeysThere' /\ PairsCovered'
  BY <1>2, KeysStay DEF CInv, PairsCovered, Covered
<1> QED BY <1>2, <1>4, <1>5, <1>6, <1>7 DEF CInv

LEMMA ReceiveCovers == ASSUME CInv, NEW q \in Poll, NEW p \in Pod, Receive(q, p), IInv' PROVE CInv'
<1> DEFINE r1 == [poll[q] EXCEPT !.stage = "clean"]
           r2 == [poll[q] EXCEPT !.stage = "dirty", !.pod = p, !.cur = version]
<1>1. poll[q] \in PollType /\ version \in Nat /\ poll[q].last \in Nat
  BY TypeFacts DEF CInv
<1>2. p \in Up /\ UNCHANGED <<central, instances, minted, runtime, late>> /\ poll[q].stage = "sent"
  BY DEF Receive
<1>3. r1 \in PollType /\ r1.stage = "clean" /\ r1.last = poll[q].last /\ r1.gap = poll[q].gap
  BY <1>1 DEF PollType, Stage
<1>4. /\ r2 \in PollType /\ r2.stage = "dirty" /\ r2.last = poll[q].last /\ r2.gap = poll[q].gap
      /\ r2.cur = version
  BY <1>1, <1>2 DEF PollType, Stage, Up
<1>5. \/ poll' = [poll EXCEPT ![q] = r1] /\ poll[q].last > 0 /\ version <= poll[q].last
      \/ poll' = [poll EXCEPT ![q] = r2]
  BY DEF Receive
<1>6. UNCHANGED <<version, deltas, keyState, readable, pod, cache, runtime>>
  BY <1>2 DEF central, instances
<1> HIDE DEF r1, r2
<1>7. CASE poll' = [poll EXCEPT ![q] = r1] /\ poll[q].last > 0 /\ version <= poll[q].last
  <2>1. Covered(r1.last)
    BY <1>1, <1>3, <1>7 DEF Covered
  <2> QED BY <1>2, <1>3, <1>6, <1>7, <2>1, PollGoesOn
<1>8. CASE poll' = [poll EXCEPT ![q] = r2]
  <2>1. Covered(r2.cur)
    BY <1>1, <1>4 DEF Covered
  <2>2. rt = "up" /\ ~r2.gap => Covered(r2.last)
    BY <1>2, <1>4 DEF CInv, NoSnapshot
  <2> QED BY <1>2, <1>4, <1>6, <1>8, <2>1, <2>2, PollGoesOn
<1> QED BY <1>5, <1>7, <1>8

\* The version that the poll was sent with has a delta after it.
LEMMA ReadDeltasCovers == ASSUME CInv, NEW q \in Poll, ReadDeltas(q), IInv' PROVE CInv'
<1> DEFINE r == [poll[q] EXCEPT !.stage = "keys", !.last = 0, !.gap = FALSE,
                            !.needless = Lacking(q) /\ ~poll[q].gap]
<1>1. /\ poll[q] \in PollType /\ poll[q].stage = "dirty" /\ version \in Nat
      /\ poll[q].last \in Nat /\ poll[q].cur \in Nat /\ poll[q].cur <= version
  BY TypeFacts DEF CInv, IInv, CarriersSound, Handled, ReadDeltas
<1>2. Lacking(q) \in BOOLEAN
  BY DEF Lacking
<1>3. /\ r \in PollType /\ r.stage = "keys"
      /\ r.cur = poll[q].cur /\ r.needless = (Lacking(q) /\ ~poll[q].gap)
  BY <1>1, <1>2 DEF PollType, Stage
<1>4. poll' = [poll EXCEPT ![q] = r] /\ UNCHANGED <<version, deltas, keyState, readable, pod, cache, runtime>>
  BY DEF ReadDeltas, central, instances
<1>5. Covered(poll[q].cur)
  BY <1>1 DEF CInv, AnswersCovered
<1>6. rt = "up" /\ ~poll[q].gap => ~Lacking(q)
  <2> SUFFICES ASSUME rt = "up", ~poll[q].gap, poll[q].cur > poll[q].last
               PROVE  \E d \in deltas : ~(d <= poll[q].last)
    BY DEF Lacking
  <2>1. Covered(poll[q].last)
    BY <1>1 DEF CInv, NoSnapshot
  <2>2. poll[q].last + 1 \in deltas
    BY <1>1, <2>1 DEF Covered
  <2> QED BY <1>1, <2>2
<1> HIDE DEF r
<1>7. rt = "up" => ~r.needless
  BY <1>3, <1>6
<1> QED BY <1>1, <1>3, <1>4, <1>5, <1>7, PollGoesOn

LEMMA ReadKeysCovers == ASSUME CInv, NEW q \in Poll, ReadKeys(q), IInv' PROVE CInv'
<1> DEFINE p == poll[q].pod
           r == IF cache[p] # {} THEN [poll[q] EXCEPT !.stage = "answered", !.keys = UNION cache[p], !.pod = None]
                                 ELSE [poll[q] EXCEPT !.stage = "queried", !.keys = Advertised]
<1>1. poll[q] \in PollType /\ p \in Up /\ p \in Pod /\ poll[q].stage = "keys"
  BY DEF CInv, IInv, Typed, OnlyUpServes, Handled, ReadKeys, Up
<1>2. poll' = [poll EXCEPT ![q] = r] /\ UNCHANGED <<version, deltas, keyState, readable, pod, cache, runtime>>
  BY DEF ReadKeys, central, instances
<1>3. Advertised # {} /\ Advertised \in SUBSET Key
  BY <1>1, UpHasKeys DEF CInv, Advertised
<1>4. Covered(poll[q].cur) /\ (rt = "up" => ~poll[q].needless)
  BY <1>1 DEF CInv, AnswersCovered, NoSnapshot
<1>5. CASE cache[p] = {}
  <2>1. /\ r \in PollType /\ r.stage = "queried" /\ r.keys = Advertised
        /\ r.last = poll[q].last /\ r.cur = poll[q].cur /\ r.needless = poll[q].needless
    BY <1>1, <1>3, <1>5 DEF PollType, Stage
  <2> HIDE DEF r
  <2> QED BY <1>1, <1>2, <1>3, <1>4, <2>1, PollGoesOn
<1>6. CASE cache[p] # {}
  <2>1. PICK keys \in SUBSET Key : cache[p] = {keys} /\ keys # {}
    BY <1>1, <1>6, CacheHolds DEF CInv, KeysThere, CachesFilled
  <2>2. UNION cache[p] = keys
    BY <2>1
  <2>3. /\ r \in PollType /\ r.stage = "answered" /\ r.keys = keys
        /\ r.last = poll[q].last /\ r.cur = poll[q].cur /\ r.needless = poll[q].needless
    BY <1>1, <1>6, <2>2 DEF PollType, Stage
  <2> HIDE DEF r
  <2> QED BY <1>1, <1>2, <1>3, <1>4, <2>1, <2>3, PollGoesOn
<1> QED BY <1>5, <1>6

LEMMA KeysReadCovers == ASSUME CInv, NEW q \in Poll, KeysRead(q), IInv' PROVE CInv'
<1> DEFINE r == [poll[q] EXCEPT !.stage = "answered", !.pod = None]
<1>1. poll[q] \in PollType /\ poll[q].stage = "queried" /\ poll[q].keys # {}
  BY DEF CInv, IInv, Typed, AnswersCovered, KeysRead
<1>2. poll' = [poll EXCEPT ![q] = r] /\ UNCHANGED <<version, deltas, keyState, readable, pod, runtime>>
  BY DEF KeysRead, central
<1>5. CachesFilled'
  BY <1>1 DEF CInv, IInv, Typed, KeysThere, CachesFilled, KeysRead
<1>3. Covered(poll[q].cur) /\ (rt = "up" => ~poll[q].needless)
  BY <1>1 DEF CInv, AnswersCovered, NoSnapshot
<1>4. /\ r \in PollType /\ r.stage = "answered" /\ r.keys = poll[q].keys
      /\ r.last = poll[q].last /\ r.cur = poll[q].cur /\ r.needless = poll[q].needless
  BY <1>1 DEF PollType, Stage
<1> HIDE DEF r
<1> QED BY <1>1, <1>2, <1>3, <1>4, <1>5, PollGoesOn

LEMMA PollFailsCovers == ASSUME CInv, NEW q \in Poll, PollFails(q), IInv' PROVE CInv'
<1> DEFINE r == [Idle EXCEPT !.stage = "failed"]
<1>1. r \in PollType /\ r.stage = "failed"
  BY DEF PollType, Stage, Idle
<1>2. /\ poll' = [poll EXCEPT ![q] = r] /\ poll[q].stage # "idle"
      /\ UNCHANGED <<version, deltas, keyState, readable, pod, cache, runtime>>
  BY DEF PollFails, central, instances
<1> HIDE DEF r
<1> QED BY <1>1, <1>2, PollGoesOn

LEMMA SendCovers ==
    ASSUME CInv, NEW q \in Poll, BootPoll(q) \/ Polls(q), IInv' PROVE CInv'
<1> DEFINE r == [Idle EXCEPT !.stage = "sent", !.last = held.version, !.gap = cut]
<1>1. /\ r.stage = "sent" /\ r.last = held.version /\ r.gap = cut
  BY DEF Idle
<1>2. /\ poll' = [poll EXCEPT ![q] = r] /\ UNCHANGED <<version, deltas, keyState, readable, pod, cache>>
      /\ UNCHANGED <<rt, held, disk, writes, cut, kicked>>
      /\ rt = "up" \/ (rt = "booting" /\ InFlight = {})
  BY DEF BootPoll, Polls, Send, central, instances, runtime
<1> HIDE DEF r
<1>3. \A o \in Poll : poll'[o] = IF o = q THEN r ELSE poll[o]
  BY <1>2 DEF CInv, IInv, Typed
<1>4. InFlight' = InFlight \cup {q}
  BY <1>1, <1>3 DEF InFlight
<1>5. AnswersCovered'
  BY <1>1, <1>2, <1>3 DEF CInv, AnswersCovered, Covered
<1>6. BootPollsOnce'
  BY <1>1, <1>2, <1>3, <1>4 DEF CInv, BootPollsOnce
<1>7. NoSnapshot'
  BY <1>1, <1>2, <1>3 DEF CInv, NoSnapshot, PairsCovered, Covered
<1>8. KeysThere' /\ PairsCovered'
  BY <1>2, KeysStay DEF CInv, PairsCovered, Covered
<1> QED BY <1>2, <1>5, <1>6, <1>7, <1>8 DEF CInv


\* What an answered poll brings is covered; while the runtime boots, it is the
\* only one.
LEMMA LastPoll ==
    ASSUME CInv, NEW q \in Poll, q \in InFlight, rt # "up"
    PROVE  \A o \in Poll : o # q => poll[o].stage = "idle"
BY DEF CInv, BootPollsOnce, InFlight

LEMMA AppliedCovers == ASSUME CInv, NEW q \in Poll, Applied(q), IInv' PROVE CInv'
<1> DEFINE h == [version |-> poll[q].cur, keys |-> poll[q].keys]
<1>1. /\ poll[q].stage = "answered" /\ held' = h /\ writes' = writes \cup {h} /\ cut' = FALSE
      /\ kicked' = (kicked \/ (poll[q].needless /\ rt = "up"))
      /\ poll' = [poll EXCEPT ![q] = Idle]
      /\ UNCHANGED <<version, deltas, keyState, readable, pod, cache, disk>>
  BY DEF Applied, Over, central, instances
<1>2. /\ h.version = poll[q].cur /\ h.keys # {} /\ Covered(h.version)
  BY <1>1 DEF CInv, AnswersCovered
<1>3. rt' = "up"
  BY <1>1, <1>2 DEF Applied, Over
<1> HIDE DEF h
<1>4. \A o \in Poll : poll'[o] = IF o = q THEN Idle ELSE poll[o]
  BY <1>1 DEF CInv, IInv, Typed
<1>5. q \in InFlight /\ Idle.stage = "idle"
  BY <1>1 DEF InFlight, Idle
<1>6. ~kicked'
  BY <1>1 DEF CInv, NoSnapshot
<1>7. AnswersCovered'
  BY <1>1, <1>2, <1>4, <1>5 DEF CInv, AnswersCovered, Covered
<1>8. BootPollsOnce'
  BY <1>3 DEF BootPollsOnce
<1>9. PairsCovered'
  BY <1>1, <1>2, <1>3 DEF CInv, PairsCovered, Covered
<1>10. NoSnapshot'
  <2>1. CASE rt = "up"
    BY <1>1, <1>4, <1>5, <2>1 DEF CInv, NoSnapshot, Covered
  <2>2. CASE rt # "up"
    BY <1>4, <1>5, <2>2, LastPoll DEF NoSnapshot
  <2> QED BY <2>1, <2>2
<1>11. KeysThere'
  BY <1>1, KeysStay DEF CInv
<1> QED BY <1>6, <1>7, <1>8, <1>9, <1>10, <1>11 DEF CInv

LEMMA NothingNewCovers == ASSUME CInv, NEW q \in Poll, NothingNew(q), IInv' PROVE CInv'
<1>1. /\ poll' = [poll EXCEPT ![q] = Idle]
      /\ UNCHANGED <<version, deltas, keyState, readable, pod, cache, held, disk, writes, kicked>>
      /\ rt' = IF rt = "up" \/ held.keys # {} THEN "up" ELSE "down"
      /\ \/ poll[q].stage = "clean" /\ cut' = FALSE
         \/ poll[q].stage = "failed" /\ UNCHANGED cut
  BY DEF NothingNew, Over, central, instances
<1>2. \A o \in Poll : poll'[o] = IF o = q THEN Idle ELSE poll[o]
  BY <1>1 DEF CInv, IInv, Typed
<1>3. q \in InFlight /\ Idle.stage = "idle" /\ held.version \in Nat
  BY <1>1, TypeFacts DEF InFlight, Idle, CInv
<1>4. AnswersCovered'
  BY <1>1, <1>2, <1>3 DEF CInv, AnswersCovered, Covered
<1>5. BootPollsOnce'
  BY <1>1, <1>2, <1>3, LastPoll DEF BootPollsOnce, InFlight
<1>6. NoSnapshot'
  <2>1. CASE rt = "up"
    BY <1>1, <1>2, <1>3, <2>1 DEF CInv, NoSnapshot, Covered
  <2>2. CASE rt # "up"
    BY <1>2, <1>3, <2>2, LastPoll DEF NoSnapshot
  <2> QED BY <2>1, <2>2
<1>7. PairsCovered'
  <2>1. /\ \A w \in writes' : w.keys # {} /\ Covered(w.version)
        /\ held.keys = {} => held.version = 0
        /\ disk.keys = {} => disk.version = 0
    BY <1>1 DEF CInv, PairsCovered
  <2>2. ~cut' /\ rt' = "up" => Covered(held.version)
    <3>1. CASE poll[q].stage = "clean"
      BY <3>1 DEF CInv, AnswersCovered
    <3>2. CASE poll[q].stage = "failed"
      BY <1>1, <3>2 DEF CInv, PairsCovered
    <3> QED BY <1>1, <3>1, <3>2
  <2>3. rt' # "up" => held.keys = {} /\ rt # "up"
    BY <1>1
  <2>4. ~cut' /\ rt' # "up" => (disk.keys # {} => Covered(disk.version))
    <3>1. CASE poll[q].stage = "clean"
      <4> SUFFICES ASSUME rt' # "up" PROVE FALSE
        OBVIOUS
      <4>1. poll[q].last = held.version
        BY <1>3, <2>3, <3>1, LastPoll DEF CInv, BootPollsOnce
      <4>2. poll[q].last > 0
        BY <3>1 DEF CInv, AnswersCovered
      <4> QED BY <1>3, <2>1, <2>3, <4>1, <4>2
    <3>2. CASE poll[q].stage = "failed"
      BY <1>1, <2>3, <3>2 DEF CInv, PairsCovered
    <3> QED BY <1>1, <3>1, <3>2
  <2> QED BY <1>1, <2>1, <2>2, <2>3, <2>4 DEF PairsCovered, Covered
<1>8. KeysThere'
  BY <1>1, KeysStay DEF CInv
<1> QED BY <1>1, <1>4, <1>5, <1>6, <1>7, <1>8 DEF CInv

\* The runtime starts from what it has written, and dies with what it has not.
LEMMA RuntimeCovers ==
    ASSUME CInv, RuntimeStarts \/ Persisted \/ RuntimeDies, IInv' PROVE CInv'
<1>1. UNCHANGED <<version, deltas, keyState, readable, pod, cache, kicked>>
  BY DEF RuntimeStarts, Persisted, RuntimeDies, central, instances
<1>2. KeysThere' /\ ~kicked'
  BY <1>1, KeysStay DEF CInv
<1>3. CASE RuntimeStarts
  <2>1. /\ rt = "down" /\ rt' = "booting" /\ held' = disk
        /\ UNCHANGED <<poll, disk, writes, cut>>
    BY <1>3 DEF RuntimeStarts
  <2>2. InFlight = {} /\ InFlight' = {}
    BY <2>1 DEF CInv, BootPollsOnce, InFlight
  <2>3. AnswersCovered' /\ BootPollsOnce' /\ NoSnapshot'
    BY <2>1, <2>2 DEF AnswersCovered, BootPollsOnce, NoSnapshot, InFlight
  <2>4. PairsCovered'
    BY <1>1, <2>1 DEF CInv, PairsCovered, Covered
  <2> QED BY <1>2, <2>3, <2>4 DEF CInv
<1>4. CASE Persisted
  <2>1. PICK w \in writes : disk' = w /\ writes' = writes \ {w}
    BY <1>4 DEF Persisted
  <2>2. UNCHANGED <<poll, rt, held, cut>>
    BY <1>4 DEF Persisted
  <2>3. AnswersCovered' /\ BootPollsOnce' /\ NoSnapshot'
    BY <1>1, <2>2 DEF CInv, AnswersCovered, BootPollsOnce, NoSnapshot, InFlight, Covered
  <2>4. PairsCovered'
    BY <1>1, <2>1, <2>2 DEF CInv, PairsCovered, Covered
  <2> QED BY <1>2, <2>3, <2>4 DEF CInv
<1>5. CASE RuntimeDies
  <2>1. /\ rt # "down" /\ rt' = "down" /\ writes' = {} /\ UNCHANGED <<held, disk>>
        /\ poll' = [q \in Poll |-> Idle] /\ cut' = (cut \/ held # disk)
    BY <1>5 DEF RuntimeDies
  <2>2. \A q \in Poll : poll'[q].stage = "idle"
    BY <2>1 DEF Idle
  <2>3. AnswersCovered' /\ BootPollsOnce' /\ NoSnapshot'
    BY <2>1, <2>2 DEF AnswersCovered, BootPollsOnce, NoSnapshot, InFlight
  <2>4. PairsCovered'
    BY <1>1, <2>1 DEF CInv, PairsCovered, Covered
  <2> QED BY <1>2, <2>3, <2>4 DEF CInv
<1> QED BY <1>3, <1>4, <1>5

\* A day takes the deltas, and is a gap.
LEMMA TimeCovers == ASSUME CInv, NEW span \in Span, TimePasses(span), IInv' PROVE CInv'
<1>1. /\ UNCHANGED <<keyState, readable, version, pod, poll, rt, held, disk, writes, kicked>>
      /\ cache' = [p \in Pod |-> {}]
      /\ \/ UNCHANGED <<deltas, cut>>
         \/ InFlight = {} /\ writes = {} /\ cut' = TRUE
  BY DEF TimePasses
<1>2. KeysThere'
  BY <1>1, KeysStay DEF CInv, CachesFilled
<1>3. CASE UNCHANGED <<deltas, cut>>
  BY <1>1, <1>2, <1>3, CentralKeepsCovered DEF runtime
<1>4. CASE InFlight = {} /\ writes = {} /\ cut' = TRUE
  <2>1. AnswersCovered' /\ BootPollsOnce' /\ NoSnapshot'
    BY <1>1, <1>4 DEF AnswersCovered, BootPollsOnce, NoSnapshot, InFlight
  <2>2. PairsCovered'
    BY <1>1, <1>4 DEF CInv, PairsCovered
  <2> QED BY <1>1, <1>2, <2>1, <2>2 DEF CInv
<1> QED BY <1>1, <1>3, <1>4

LEMMA CInvStep == ASSUME CInv, [Next]_vars PROVE CInv'
<1>1. IInv'
  BY IInvStep DEF CInv
<1>2. ASSUME NEW p \in Pod, CentralStep(p) PROVE CInv'
  <2>1. CASE PodDies(p)
    <3>1. Stop({p}) /\ UNCHANGED readable
      BY <2>1 DEF PodDies
    <3> QED BY <1>1, <3>1, StopCovers
  <2> QED BY <1>1, <1>2, <2>1, RotateCovers, PodStepCovers DEF CentralStep
<1>3. ASSUME NEW q \in Poll, PollStep(q) PROVE CInv'
  BY <1>1, <1>3, ReceiveCovers, ReadDeltasCovers, ReadKeysCovers, KeysReadCovers, SendCovers,
     PollFailsCovers, AppliedCovers, NothingNewCovers DEF PollStep
<1>4. CASE Mint
  <2>1. UNCHANGED <<central, instances, poll, runtime>>
    BY <1>4 DEF Mint
  <2>2. KeysThere'
    BY <2>1, KeysStay DEF central, instances, CInv
  <2> QED BY <1>1, <2>1, <2>2, CentralKeepsCovered DEF central
<1>5. CASE NewSecret
  BY <1>1, <1>5, StopCovers DEF NewSecret
<1>6. CASE UNCHANGED vars
  <2>1. UNCHANGED <<central, instances, poll, runtime>>
    BY <1>6 DEF vars
  <2>2. KeysThere'
    BY <2>1, KeysStay DEF central, instances, CInv
  <2> QED BY <1>1, <2>1, <2>2, CentralKeepsCovered DEF central
<1> QED BY <1>1, <1>2, <1>3, <1>4, <1>5, <1>6, RuntimeCovers, TimeCovers DEF Next

\* Nobody is put out for a re-sync unless the runtime had no answer from
\* Central for a day (bumpSyncForKeyChange, handleHeartbeat, pollOnce).
THEOREM NobodyIsPutOutNeedlessly == Spec => []NoNeedlessReauth
<1>1. Init => CInv
  BY CInvInit
<1>2. CInv /\ [Next]_vars => CInv'
  BY CInvStep
<1>3. CInv => NoNeedlessReauth
  BY DEF CInv, NoNeedlessReauth
<1> QED BY <1>1, <1>2, <1>3, PTL DEF Spec

=============================================================================
