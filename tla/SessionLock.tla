---------------------------- MODULE SessionLock ----------------------------
(***************************************************************************)
(* The per-upload mutex of the upload endpoints: withSessionLock() in      *)
(* runtime/src/http/upload-session.ts, for one upload id.                  *)
(*                                                                         *)
(* The map "locks" holds the gate of the request that came last. A request *)
(* takes the gate it finds there as its predecessor's, puts its own in,    *)
(* and runs once the predecessor's gate is released; when it is done it    *)
(* releases its own and removes it from the map if it is still the last.   *)
(***************************************************************************)
EXTENDS Naturals, Sequences

CONSTANTS
    Request,   \* the requests for one upload id that are under way at a time
    NoGate     \* the map has no entry, a request has nothing to wait for

ASSUME NoGateAssumption == NoGate \notin Request

VARIABLES
    stage,     \* of each request: "idle", "waiting" or "inside" fn()
    last,      \* locks.get(uploadId), as the request whose gate it is
    prev,      \* whose gate a request waits for
    line       \* history: the requests that have not left, in order of arrival

lockVars == <<stage, last, prev, line>>

LockInit ==
    /\ stage = [r \in Request |-> "idle"]
    /\ last = NoGate
    /\ prev = [r \in Request |-> NoGate]
    /\ line = <<>>

Arrive(r) ==
    /\ stage[r] = "idle"
    /\ stage' = [stage EXCEPT ![r] = "waiting"]
    /\ prev' = [prev EXCEPT ![r] = last]
    /\ last' = r
    /\ line' = Append(line, r)

Enter(r) ==
    /\ stage[r] = "waiting" /\ prev[r] = NoGate
    /\ stage' = [stage EXCEPT ![r] = "inside"]
    /\ UNCHANGED <<last, prev, line>>

\* Variants of Leave: the entry of the map is removed whoever put it there;
\* the gate is not released.
LeaveAndForget(r) ==
    /\ stage[r] = "inside"
    /\ stage' = [stage EXCEPT ![r] = "idle"]
    /\ prev' = [q \in Request |-> IF prev[q] = r THEN NoGate ELSE prev[q]]
    /\ last' = NoGate
    /\ line' = Tail(line)

LeaveSilently(r) ==
    /\ stage[r] = "inside"
    /\ stage' = [stage EXCEPT ![r] = "idle"]
    /\ UNCHANGED <<prev, last>>
    /\ line' = Tail(line)

Leave(r) ==
    /\ stage[r] = "inside"
    /\ stage' = [stage EXCEPT ![r] = "idle"]
    /\ prev' = [q \in Request |-> IF prev[q] = r THEN NoGate ELSE prev[q]]
    /\ last' = IF last = r THEN NoGate ELSE last
    /\ line' = Tail(line)

\* The process restarts: the map and everything that waited is gone.
Forget ==
    /\ stage' = [r \in Request |-> "idle"]
    /\ last' = NoGate
    /\ prev' = [r \in Request |-> NoGate]
    /\ line' = <<>>

LockNext ==
    \/ \E r \in Request : Arrive(r) \/ Enter(r) \/ Leave(r)
    \/ Forget

LockSpec == LockInit /\ [][LockNext]_lockVars

-----------------------------------------------------------------------------
LockTypeOK ==
    /\ stage \in [Request -> {"idle", "waiting", "inside"}]
    /\ last \in Request \cup {NoGate}
    /\ prev \in [Request -> Request \cup {NoGate}]
    /\ line \in Seq(Request)

\* The gates form one chain, in order of arrival: the first request in line
\* waits for nobody, every other one for the one before it, and the map holds
\* the gate of the last.
GatesFollowLine ==
    /\ \A i, j \in 1..Len(line) : line[i] = line[j] => i = j
    /\ \A r \in Request : stage[r] # "idle" <=> \E i \in 1..Len(line) : line[i] = r
    /\ \A i \in 1..Len(line) : prev[line[i]] = IF i = 1 THEN NoGate ELSE line[i - 1]
    /\ \A i \in 2..Len(line) : stage[line[i]] = "waiting"
    /\ last = IF line = <<>> THEN NoGate ELSE line[Len(line)]

\* At most one request is inside fn(), whatever the others do meanwhile.
OneInside ==
    \A q, r \in Request : stage[q] = "inside" /\ stage[r] = "inside" => q = r
=============================================================================
