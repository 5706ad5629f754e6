------------------------ MODULE UploadSessionProofs ------------------------
(***************************************************************************)
(* Proofs about one resumable upload, for any size of the file, any number *)
(* of requests and any number of restarts.                                 *)
(*                                                                         *)
(* First the lock by itself: its gates follow the line of arrival, so only *)
(* the first of the line is let in. Then the upload.                       *)
(*                                                                         *)
(* The session lock lets one request at a time work on the session, so     *)
(* while a chunk is written nobody else moves the end of the file: it is   *)
(* where the session says, plus what the chunk has written so far. CallOK  *)
(* and SessionOK state this from the side of a request and of the session. *)
(***************************************************************************)
EXTENDS UploadSession, SequenceTheorems, TLAPS

LockInv == LockTypeOK /\ GatesFollowLine

\* A request enters only at the head of the line.
LEMMA HeadEnters ==
    ASSUME LockInv, NEW r \in Request, stage[r] # "idle",
           prev[r] = NoGate \/ stage[r] = "inside"
    PROVE  line # <<>> /\ line[1] = r
<1>1. PICK i \in 1..Len(line) : line[i] = r
  BY DEF LockInv, GatesFollowLine
<1>2. ASSUME i # 1 PROVE FALSE
  <2>1. i \in 2..Len(line) /\ i - 1 \in 1..Len(line)
    BY <1>2 DEF LockInv, LockTypeOK
  <2>2. stage[r] = "waiting" /\ prev[r] = line[i - 1]
    BY <1>1, <1>2, <2>1 DEF LockInv, GatesFollowLine
  <2>3. line[i - 1] \in Request
    BY <2>1 DEF LockInv, LockTypeOK
  <2> QED BY <2>2, <2>3, NoGateAssumption
<1> QED BY <1>1, <1>2 DEF LockInv, LockTypeOK

\* Arriving keeps the chain: the newcomer waits for the one that was last.
LEMMA ArriveKeeps ==
    ASSUME LockInv, NEW r \in Request, Arrive(r)
    PROVE  LockInv'
<1> DEFINE n == Len(line)
<1>1. /\ line \in Seq(Request) /\ n \in Nat
      /\ line' = Append(line, r) /\ line' \in Seq(Request)
      /\ Len(line') = n + 1
      /\ \A i \in 1..n : line'[i] = line[i]
      /\ line'[n + 1] = r
  BY DEF LockInv, LockTypeOK, Arrive
<1>2. \A i \in 1..n : line[i] # r /\ line[i] \in Request
  BY DEF LockInv, LockTypeOK, GatesFollowLine, Arrive
<1>3. LockTypeOK'
  BY <1>1 DEF LockInv, LockTypeOK, Arrive
<1>4. (\A i, j \in 1..Len(line) : line[i] = line[j] => i = j)'
  BY <1>1, <1>2 DEF LockInv, GatesFollowLine
<1>5. (\A q \in Request : stage[q] # "idle" <=> \E i \in 1..Len(line) : line[i] = q)'
  <2> TAKE q \in Request
  <2>1. CASE q = r
    BY <1>1, <2>1 DEF LockInv, LockTypeOK, Arrive
  <2>2. CASE q # r
    <3>1. stage'[q] = stage[q]
      BY <2>2 DEF LockInv, LockTypeOK, Arrive
    <3>2. stage[q] # "idle" <=> \E i \in 1..n : line[i] = q
      BY DEF LockInv, GatesFollowLine
    <3> QED BY <1>1, <2>2, <3>1, <3>2
  <2> QED BY <2>1, <2>2
<1>6. (\A i \in 1..Len(line) : prev[line[i]] = IF i = 1 THEN NoGate ELSE line[i - 1])'
  <2> TAKE i \in 1..Len(line')
  <2>1. CASE i \in 1..n
    <3>1. prev'[line[i]] = prev[line[i]]
      BY <1>2, <2>1 DEF LockInv, LockTypeOK, Arrive
    <3>2. prev[line[i]] = IF i = 1 THEN NoGate ELSE line[i - 1]
      BY <2>1 DEF LockInv, GatesFollowLine
    <3> QED BY <1>1, <2>1, <3>1, <3>2
  <2>2. CASE i = n + 1
    <3>1. prev'[r] = last
      BY DEF LockInv, LockTypeOK, Arrive
    <3>2. last = IF n = 0 THEN NoGate ELSE line[n]
      BY <1>1 DEF LockInv, GatesFollowLine
    <3> QED BY <1>1, <2>2, <3>1, <3>2
  <2> QED BY <1>1, <2>1, <2>2
<1>7. (\A i \in 2..Len(line) : stage[line[i]] = "waiting")'
  <2> TAKE i \in 2..Len(line')
  <2>1. CASE i \in 2..n
    <3>1. stage'[line[i]] = stage[line[i]] /\ stage[line[i]] = "waiting"
      BY <1>2, <2>1 DEF LockInv, LockTypeOK, GatesFollowLine, Arrive
    <3> QED BY <1>1, <2>1, <3>1
  <2>2. CASE i = n + 1
    BY <1>1, <2>2 DEF LockInv, LockTypeOK, Arrive
  <2> QED BY <1>1, <2>1, <2>2
<1>8. (last = IF line = <<>> THEN NoGate ELSE line[Len(line)])'
  BY <1>1 DEF Arrive
<1> QED BY <1>3, <1>4, <1>5, <1>6, <1>7, <1>8 DEF LockInv, GatesFollowLine

\* Only the head of the line is let in, and it alone may be inside.
LEMMA EnterKeeps ==
    ASSUME LockInv, NEW r \in Request, Enter(r)
    PROVE  LockInv'
<1>1. line # <<>> /\ line[1] = r
  BY HeadEnters DEF Enter
<1>2. LockTypeOK'
  BY DEF LockInv, LockTypeOK, Enter
<1>3. \A q \in Request : stage'[q] # "idle" <=> stage[q] # "idle"
  BY DEF LockInv, LockTypeOK, Enter
<1>4. ASSUME NEW i \in 2..Len(line) PROVE stage'[line[i]] = "waiting"
  <2>1. line[i] # r /\ line[i] \in Request
    BY <1>1 DEF LockInv, LockTypeOK, GatesFollowLine
  <2>2. stage[line[i]] = "waiting"
    BY DEF LockInv, GatesFollowLine
  <2> QED BY <2>1, <2>2 DEF LockInv, LockTypeOK, Enter
<1> QED BY <1>2, <1>3, <1>4 DEF LockInv, GatesFollowLine, Enter

\* The head leaves, and the one behind it has nothing to wait for any more.
LEMMA LeaveKeeps ==
    ASSUME LockInv, NEW r \in Request, Leave(r)
    PROVE  LockInv'
<1> DEFINE n == Len(line)
<1>1. line # <<>> /\ line[1] = r
  BY HeadEnters DEF Leave
<1>2. /\ line \in Seq(Request) /\ n \in Nat /\ n >= 1
      /\ line' = Tail(line) /\ line' \in Seq(Request)
      /\ Len(line') = n - 1
      /\ \A i \in 1..(n - 1) : line'[i] = line[i + 1]
  BY <1>1 DEF LockInv, LockTypeOK, Leave
<1>3. \A i \in 2..n : line[i] # r /\ line[i] \in Request
  BY <1>1, <1>2 DEF LockInv, GatesFollowLine
<1>4. LockTypeOK'
  BY <1>2 DEF LockInv, LockTypeOK, Leave
<1>5. (\A i, j \in 1..Len(line) : line[i] = line[j] => i = j)'
  <2> TAKE i, j \in 1..Len(line')
  <2>1. i + 1 \in 1..n /\ j + 1 \in 1..n /\ i \in Nat /\ j \in Nat
    BY <1>2
  <2>2. line[i + 1] = line[j + 1] => i + 1 = j + 1
    BY <2>1 DEF LockInv, GatesFollowLine
  <2> QED BY <1>2, <2>1, <2>2
<1>6. (\A q \in Request : stage[q] # "idle" <=> \E i \in 1..Len(line) : line[i] = q)'
  <2> TAKE q \in Request
  <2>1. CASE q = r
    <3>1. stage'[q] = "idle"
      BY <2>1 DEF LockInv, LockTypeOK, Leave
    <3>2. ASSUME NEW i \in 1..Len(line') PROVE line'[i] # q
      BY <1>2, <1>3, <2>1
    <3> QED BY <3>1, <3>2
  <2>2. CASE q # r
    <3>1. stage'[q] = stage[q]
      BY <2>2 DEF LockInv, LockTypeOK, Leave
    <3>2. stage[q] # "idle" <=> \E i \in 1..n : line[i] = q
      BY DEF LockInv, GatesFollowLine
    <3>3. ASSUME NEW i \in 1..n, line[i] = q
          PROVE  \E k \in 1..Len(line') : line'[k] = q
      <4>1. i - 1 \in 1..(n - 1) /\ (i - 1) + 1 = i
        BY <1>1, <1>2, <2>2, <3>3
      <4> QED BY <1>2, <3>3, <4>1
    <3>4. ASSUME NEW i \in 1..Len(line'), line'[i] = q
          PROVE  \E k \in 1..n : line[k] = q
      BY <1>2, <3>4
    <3> QED BY <3>1, <3>2, <3>3, <3>4
  <2> QED BY <2>1, <2>2
<1>7. (\A i \in 1..Len(line) : prev[line[i]] = IF i = 1 THEN NoGate ELSE line[i - 1])'
  <2> TAKE i \in 1..Len(line')
  <2> DEFINE q == line[i + 1]
  <2>1. line'[i] = q /\ i + 1 \in 2..n /\ q \in Request /\ i \in 1..(n - 1)
    BY <1>2, <1>3
  <2>2. prev[q] = line[i]
    <3>1. prev[line[i + 1]] = IF i + 1 = 1 THEN NoGate ELSE line[(i + 1) - 1]
      BY <1>2, <2>1 DEF LockInv, GatesFollowLine
    <3>2. i + 1 # 1 /\ (i + 1) - 1 = i
      BY <2>1
    <3> QED BY <3>1, <3>2
  <2>3. prev'[q] = IF prev[q] = r THEN NoGate ELSE prev[q]
    BY <2>1 DEF Leave
  <2>4. CASE i = 1
    BY <1>1, <2>1, <2>2, <2>3, <2>4
  <2>5. CASE i # 1
    <3>1. i \in 2..n /\ i - 1 \in 1..(n - 1) /\ (i - 1) + 1 = i
      BY <2>1, <2>5
    <3>2. line[i] # r /\ line'[i - 1] = line[i]
      BY <1>2, <1>3, <3>1
    <3> QED BY <2>1, <2>2, <2>3, <2>5, <3>2
  <2> QED BY <2>4, <2>5
<1>8. (\A i \in 2..Len(line) : stage[line[i]] = "waiting")'
  <2> TAKE i \in 2..Len(line')
  <2>1. i + 1 \in 2..n /\ line'[i] = line[i + 1]
    BY <1>2
  <2>2. stage[line[i + 1]] = "waiting"
    BY <2>1 DEF LockInv, GatesFollowLine
  <2>3. stage'[line[i + 1]] = stage[line[i + 1]]
    BY <1>3, <2>1 DEF LockInv, LockTypeOK, Leave
  <2> QED BY <2>1, <2>2, <2>3
<1>9. (last = IF line = <<>> THEN NoGate ELSE line[Len(line)])'
  <2>1. last = line[n]
    BY <1>1 DEF LockInv, GatesFollowLine
  <2>2. CASE n = 1
    BY <1>1, <1>2, <2>1, <2>2 DEF Leave
  <2>3. CASE n # 1
    <3>1. n \in 2..n /\ n - 1 \in 1..(n - 1) /\ (n - 1) + 1 = n
      BY <1>2, <2>3
    <3>2. last # r /\ line'[n - 1] = line[n]
      BY <1>2, <1>3, <2>1, <3>1
    <3>3. Len(line') # 0 /\ Len(line') = n - 1
      BY <1>2, <3>1
    <3>4. line' # <<>>
      BY <3>3
    <3>5. last' = last
      BY <3>2 DEF Leave
    <3> QED BY <2>1, <3>2, <3>3, <3>4, <3>5
  <2> QED BY <2>2, <2>3
<1> QED BY <1>4, <1>5, <1>6, <1>7, <1>8, <1>9 DEF LockInv, GatesFollowLine

LEMMA ForgetKeeps ==
    ASSUME Forget
    PROVE  LockInv'
BY DEF Forget, LockInv, LockTypeOK, GatesFollowLine

LEMMA LockInitHolds == LockInit => LockInv
BY DEF LockInit, LockInv, LockTypeOK, GatesFollowLine

LEMMA LockStepKeeps ==
    ASSUME LockInv, [LockNext]_lockVars
    PROVE  LockInv'
<1>1. CASE LockNext
  BY <1>1, ArriveKeeps, EnterKeeps, LeaveKeeps, ForgetKeeps DEF LockNext
<1>2. CASE UNCHANGED lockVars
  BY <1>2 DEF lockVars, LockInv, LockTypeOK, GatesFollowLine
<1> QED BY <1>1, <1>2

LEMMA ExclusionFollows == LockInv => OneInside
BY HeadEnters DEF OneInside

\* withSessionLock() keeps its gates in one chain, in order of arrival, however
\* many requests come and go.
THEOREM GatesAlwaysFollowLine == LockSpec => []GatesFollowLine
<1>1. LockInv /\ [LockNext]_lockVars => LockInv'
  BY LockStepKeeps
<1>2. LockInv => GatesFollowLine
  BY DEF LockInv
<1> QED BY <1>1, <1>2, LockInitHolds, PTL DEF LockSpec

\* Never two requests for one upload inside withSessionLock().
THEOREM LockIsExclusive == LockSpec => []OneInside
<1>1. LockInv /\ [LockNext]_lockVars => LockInv'
  BY LockStepKeeps
<1> QED BY <1>1, ExclusionFollows, LockInitHolds, PTL DEF LockSpec

-----------------------------------------------------------------------------
\* What cutting back a file leaves.
LEMMA CutBack ==
    ASSUME NEW S, NEW s \in Seq(S), NEW n \in 0..Len(s)
    PROVE  /\ SubSeq(s, 1, n) \in Seq(S)
           /\ Len(SubSeq(s, 1, n)) = n
           /\ \A i \in 1..n : SubSeq(s, 1, n)[i] = s[i]
<1>1. n \in Int /\ 1 \in Int /\ \A i \in 1..n : s[i] \in S
  OBVIOUS
<1>2. /\ SubSeq(s, 1, n) \in Seq(S)
      /\ Len(SubSeq(s, 1, n)) = IF 1 <= n THEN n - 1 + 1 ELSE 0
      /\ \A i \in 1..(n - 1 + 1) : SubSeq(s, 1, n)[i] = s[1 + i - 1]
  BY <1>1, SubSeqProperties
<1>3. n - 1 + 1 = n /\ \A i \in 1..n : 1 + i - 1 = i
  OBVIOUS
<1> QED BY <1>2, <1>3

\* Where a request is, and what it may rely on there.
CallOK(r) ==
    /\ stage[r] # "idle" => init = "done"
    /\ req[r].at # "start" => stage[r] = "inside"
    /\ req[r].at # "writing" => req[r].written = 0
    /\ req[r].at = "writing" =>
          /\ req[r].offset = req[r].base
          /\ req[r].offset + req[r].declared <= Total
          /\ req[r].written <= req[r].declared
          /\ session.dir => session.received = req[r].base
          /\ session.file => Len(session.bytes) >= req[r].base + req[r].written
          /\ session.file /\ ~torn =>
                Len(session.bytes) = req[r].base + req[r].written
    /\ req[r].at = "committing" /\ session.file => Len(session.bytes) = Total

\* How data, meta.json and what clients were told fit together.
SessionOK ==
    /\ session.file => session.dir
    /\ session.received # NoMeta => session.dir /\ acked <= session.received
    /\ session.file /\ session.received # NoMeta =>
          Len(session.bytes) >= session.received
    /\ session.file /\ ~torn =>
          \A i \in 1..Len(session.bytes) : session.bytes[i] = i
    /\ session.file /\ ~torn /\ (\A r \in Request : req[r].at # "writing") =>
          Len(session.bytes) = IF session.received = NoMeta THEN 0
                               ELSE session.received
    /\ init # "done" => acked = 0
    /\ init = "dir" => session.received = NoMeta
    /\ UploadHasSize /\ UploadIsSource

IInv == LockInv /\ TypeOK /\ (\A r \in Request : CallOK(r)) /\ SessionOK

-----------------------------------------------------------------------------
(* The lock.                                                               *)

\* Every step of the upload is a step of its lock or leaves it alone.
LEMMA StepsUseLock == [Next]_vars => [LockNext]_lockVars
<1> USE DEF LockNext, lockVars
<1>1. CASE UNCHANGED vars
  BY <1>1 DEF vars
<1>2. CASE MakeSession \/ AnswerInit \/ Expire \/ SweepLooks \/ SweepRemoves \/ Restart
  BY <1>2 DEF MakeSession, AnswerInit, Expire, SweepLooks, SweepRemoves, Restart
<1>3. ASSUME NEW r \in Request, Patch(r) \/ Finalize(r) \/ Cancel(r)
      PROVE  [LockNext]_lockVars
  BY <1>3 DEF Patch, Finalize, Cancel, Asked
<1>4. ASSUME NEW r \in Request, Step(r)
      PROVE  [LockNext]_lockVars
  BY <1>4 DEF Step, GetsLock, PatchBegins, PatchRefused, PatchWrites, PatchFails,
              PatchCommits, FinalizeBegins, FinalizeRefused, FinalizeRenames,
              FinalizeCleans, CancelRuns, Answered
<1> QED BY <1>1, <1>2, <1>3, <1>4 DEF Next

\* The uploads go through withSessionLock(): the composition implements the lock.
THEOREM UploadImplementsLock == Spec => LockSpec
<1>1. Init => LockInit
  BY DEF Init
<1> QED BY <1>1, StepsUseLock, PTL DEF Spec, LockSpec

\* At most one request for an upload works on its session.
THEOREM UploadsAreExclusive == Spec => []OneInside
BY UploadImplementsLock, LockIsExclusive, PTL

-----------------------------------------------------------------------------
(* What the steps have in common.                                          *)

\* While a request works on the session, every other one is still at its start.
LEMMA OthersStart ==
    ASSUME IInv, NEW r \in Request, stage[r] = "inside", NEW q \in Request, q # r
    PROVE  stage[q] # "inside" /\ req[q].at = "start" /\ req[q].written = 0
<1>1. stage[q] # "inside"
  BY ExclusionFollows DEF IInv, OneInside
<1>2. CallOK(q)
  BY DEF IInv
<1> QED BY <1>1, <1>2 DEF CallOK

LEMMA OtherCalls ==
    ASSUME IInv, NEW r \in Request, stage[r] = "inside", NEW q \in Request, q # r,
           init' = init, req'[q] = req[q], stage'[q] = stage[q]
    PROVE  CallOK(q)' /\ req'[q].at # "writing"
<1>1. stage[q] # "inside" /\ req[q].at = "start" /\ req[q].written = 0
  BY OthersStart
<1>2. stage[q] # "idle" => init = "done"
  BY DEF IInv, CallOK
<1> QED BY <1>1, <1>2 DEF CallOK

\* An answered request is out of the lock and asks for nothing.
LEMMA AnsweredEffect ==
    ASSUME TypeOK, NEW r \in Request, Answered(r)
    PROVE  /\ req' \in [Request -> Requests]
           /\ stage'[r] = "idle" /\ req'[r] = NoRequest
           /\ CallOK(r)' /\ req'[r].at # "writing"
           /\ \A q \in Request : q # r => req'[q] = req[q] /\ stage'[q] = stage[q]
<1>1. NoRequest \in Requests /\ NoRequest.at = "start" /\ NoRequest.written = 0
  BY UploadAssumption DEF NoRequest, Call, Requests
<1>2. stage'[r] = "idle" /\ req'[r] = NoRequest
  BY DEF Answered, Leave, TypeOK, LockTypeOK
<1>3. CallOK(r)'
  BY <1>1, <1>2 DEF CallOK
<1> QED BY <1>1, <1>2, <1>3 DEF Answered, Leave, TypeOK, LockTypeOK

\* What is left of a session that was removed.
LEMMA GoneIsOK ==
    /\ Gone \in Sessions
    /\ Gone.dir = FALSE /\ Gone.file = FALSE /\ Gone.received = NoMeta
    /\ Gone.bytes = <<>>
BY UploadAssumption DEF Gone, Sessions, NoMeta

\* A step that answers r and keeps the rest keeps the invariant.
LEMMA AnsweredKeeps ==
    ASSUME IInv, NEW r \in Request, stage[r] = "inside", req[r].at # "writing",
           Answered(r), LockInv',
           UNCHANGED <<session, uploads, acked>>, Keep
    PROVE  IInv'
<1>1. TypeOK
  BY DEF IInv
<1>2. TypeOK'
  BY <1>1, AnsweredEffect DEF TypeOK, LockInv, Keep
<1>3. \A q \in Request : CallOK(q)' /\ req'[q].at # "writing"
  BY <1>1, AnsweredEffect, OtherCalls DEF Keep
<1>4. \A q \in Request : req[q].at # "writing"
  BY OthersStart
<1>5. SessionOK'
  BY <1>3, <1>4 DEF IInv, SessionOK, UploadHasSize, UploadIsSource, Keep
<1> QED BY <1>2, <1>3, <1>5 DEF IInv

-----------------------------------------------------------------------------
(* One lemma per action.                                                   *)

LEMMA MakeSessionKeeps ==
    ASSUME IInv, MakeSession, LockInv'
    PROVE  IInv'
<1>1. /\ session' \in Sessions
      /\ session'.dir = TRUE /\ session'.file = TRUE
      /\ session'.bytes = <<>> /\ session'.received = NoMeta
  <2>1. session' = [dir |-> TRUE, file |-> TRUE, bytes |-> <<>>,
                    received |-> NoMeta, fresh |-> TRUE]
    BY DEF MakeSession, Gone
  <2> QED BY <2>1, UploadAssumption DEF Sessions, NoMeta
<1>2. TypeOK'
  BY <1>1 DEF IInv, TypeOK, LockInv, MakeSession
<1>3. ASSUME NEW q \in Request PROVE CallOK(q)' /\ req[q].at = "start"
  <2>1. stage[q] = "idle" /\ req[q].at = "start" /\ req[q].written = 0
    BY DEF IInv, CallOK, MakeSession, TypeOK, LockTypeOK
  <2> QED BY <2>1 DEF CallOK, MakeSession, lockVars
<1>4. SessionOK'
  BY <1>1 DEF IInv, SessionOK, UploadHasSize, UploadIsSource, MakeSession
<1> QED BY <1>2, <1>3, <1>4 DEF IInv

LEMMA AnswerInitKeeps ==
    ASSUME IInv, AnswerInit, LockInv'
    PROVE  IInv'
<1>1. /\ session' \in Sessions
      /\ session'.dir = session.dir /\ session'.file = session.file
      /\ session'.bytes = session.bytes
      /\ session.dir => session'.received = 0
      /\ ~session.dir => session' = session /\ init' = "lost"
      /\ init' \in {"done", "lost"}
  <2>1. session \in Sessions
    BY DEF IInv, TypeOK
  <2>2. CASE session.dir
    <3>1. session' = [session EXCEPT !.received = 0, !.fresh = TRUE] /\ init' = "done"
      BY <2>2 DEF AnswerInit
    <3>2. 0 \in NoMeta..Total
      BY UploadAssumption DEF NoMeta
    <3> QED BY <2>1, <2>2, <3>1, <3>2 DEF Sessions
  <2>3. CASE ~session.dir
    BY <2>1, <2>3 DEF AnswerInit
  <2> QED BY <2>2, <2>3
<1>2. TypeOK'
  BY <1>1 DEF IInv, TypeOK, LockInv, AnswerInit
<1>3. ASSUME NEW q \in Request PROVE CallOK(q)' /\ req[q].at = "start"
  <2>1. stage[q] = "idle" /\ req[q].at = "start" /\ req[q].written = 0
    BY DEF IInv, CallOK, AnswerInit, TypeOK, LockTypeOK
  <2> QED BY <2>1 DEF CallOK, AnswerInit, lockVars
<1>4. acked = 0 /\ acked' = 0
  BY DEF IInv, SessionOK, AnswerInit
<1>5. session.file => session.dir
  BY DEF IInv, SessionOK
<1>6. session.received # NoMeta => session.dir
  BY DEF IInv, SessionOK
<1>7. CASE session.dir
  <2>1. session'.received = 0 /\ NoMeta # 0
    BY <1>1, <1>7 DEF NoMeta
  <2>2. Len(session.bytes) \in Nat
    BY DEF IInv, TypeOK, Sessions
  <2>3. session.file /\ ~torn => Len(session.bytes) = 0
    BY <1>3 DEF IInv, SessionOK, AnswerInit
  <2> QED BY <1>1, <1>2, <1>3, <1>4, <1>7, <2>1, <2>2, <2>3
          DEF IInv, SessionOK, UploadHasSize, UploadIsSource, AnswerInit
<1>8. CASE ~session.dir
  <2>1. ~session.file /\ session.received = NoMeta /\ session' = session
    BY <1>1, <1>5, <1>6, <1>8
  <2> QED BY <1>2, <1>3, <1>4, <2>1
          DEF IInv, SessionOK, UploadHasSize, UploadIsSource, AnswerInit
<1> QED BY <1>7, <1>8

LEMMA AskedKeeps ==
    ASSUME IInv, NEW r \in Request, LockInv',
           NEW op \in {"patch", "finalize", "cancel"},
           NEW offset \in 0..Total, NEW declared \in 0..Total,
           Asked(r, op, offset, declared)
    PROVE  IInv'
<1> DEFINE call == Call(op, offset, declared)
<1>1. call \in Requests /\ call.at = "start" /\ call.written = 0
  BY UploadAssumption DEF Call, Requests
<1>2. req' = [req EXCEPT ![r] = call] /\ UNCHANGED <<session, uploads, init, sweeping,
                                                   acked, torn, restarts>>
  BY DEF Asked
<1> HIDE DEF call
<1>3. TypeOK'
  BY <1>1, <1>2 DEF IInv, TypeOK, LockInv
<1>4. req[r].at # "writing"
  BY DEF IInv, CallOK, Asked, Arrive
<1>5. ASSUME NEW q \in Request
      PROVE  CallOK(q)' /\ (req'[q].at = "writing" <=> req[q].at = "writing")
  <2>1. CASE q = r
    <3>1. req'[r] = call
      BY <1>2 DEF IInv, TypeOK
    <3>2. init' = "done"
      BY <1>2 DEF Asked
    <3> QED BY <1>1, <1>4, <2>1, <3>1, <3>2 DEF CallOK
  <2>2. CASE q # r
    <3>1. req'[q] = req[q]
      BY <1>2, <2>2 DEF IInv, TypeOK
    <3>2. stage'[q] = stage[q]
      BY <2>2 DEF IInv, LockInv, LockTypeOK, Asked, Arrive
    <3>3. CallOK(q)
      BY DEF IInv
    <3> QED BY <1>2, <3>1, <3>2, <3>3 DEF CallOK
  <2> QED BY <2>1, <2>2
<1>6. SessionOK'
  BY <1>2, <1>5 DEF IInv, SessionOK, UploadHasSize, UploadIsSource
<1> QED BY <1>3, <1>5, <1>6 DEF IInv

LEMMA GetsLockKeeps ==
    ASSUME IInv, NEW r \in Request, GetsLock(r), LockInv'
    PROVE  IInv'
<1>1. TypeOK'
  BY DEF IInv, TypeOK, LockInv, GetsLock
<1>2. ASSUME NEW q \in Request PROVE CallOK(q)'
  <2>1. (stage'[q] # "idle" <=> stage[q] # "idle") /\ (stage[q] = "inside" => stage'[q] = "inside")
    BY DEF IInv, LockInv, LockTypeOK, GetsLock, Enter
  <2>2. CallOK(q)
    BY DEF IInv
  <2> QED BY <2>1, <2>2 DEF CallOK, GetsLock
<1>3. SessionOK'
  BY DEF IInv, SessionOK, UploadHasSize, UploadIsSource, GetsLock
<1> QED BY <1>1, <1>2, <1>3 DEF IInv

LEMMA PatchBeginsKeeps ==
    ASSUME IInv, NEW r \in Request, PatchBegins(r), LockInv'
    PROVE  IInv'
<1>1. /\ stage[r] = "inside" /\ req[r].at = "start" /\ req[r].written = 0
      /\ session.received \in 0..Total
      /\ req[r].offset = session.received
      /\ req[r].declared <= Total - session.received
      /\ session.received # NoMeta
  BY DEF PatchBegins, At, Appendable, IInv, CallOK, TypeOK, Sessions, NoMeta
<1>2. /\ UNCHANGED <<stage, last, prev, line>>
      /\ UNCHANGED <<session, uploads, acked, init, sweeping, torn, restarts>>
  BY DEF PatchBegins, Keep, lockVars
<1>3. /\ req' \in [Request -> Requests]
      /\ req'[r].at = "writing" /\ req'[r].base = session.received
      /\ req'[r].offset = req[r].offset /\ req'[r].declared = req[r].declared
      /\ req'[r].written = 0
      /\ \A q \in Request : q # r => req'[q] = req[q]
  <2>1. req \in [Request -> Requests] /\ session.received \in 0..Total
    BY <1>1 DEF IInv, TypeOK
  <2>2. req' = [req EXCEPT ![r] = [req[r] EXCEPT !.at = "writing",
                                                 !.base = session.received]]
    BY <2>1 DEF PatchBegins
  <2> DEFINE call == [req[r] EXCEPT !.at = "writing", !.base = session.received]
  <2>3. /\ call \in Requests
        /\ call.at = "writing" /\ call.base = session.received
        /\ call.offset = req[r].offset /\ call.declared = req[r].declared
        /\ call.written = req[r].written
    BY <2>1 DEF Requests
  <2>4. req' = [req EXCEPT ![r] = call]
    BY <2>2
  <2> HIDE DEF call
  <2> QED BY <1>1, <2>1, <2>3, <2>4
<1>4. TypeOK'
  BY <1>2, <1>3 DEF IInv, TypeOK, LockInv, LockTypeOK
<1>5. ASSUME NEW q \in Request, q # r PROVE CallOK(q)' /\ req'[q].at # "writing"
  <2>1. stage'[q] = stage[q] /\ req'[q] = req[q] /\ init' = init
    BY <1>2, <1>3, <1>5
  <2> QED BY <1>1, <1>5, <2>1, OtherCalls
<1>6. CallOK(r)'
  <2>1. session.file => Len(session.bytes) >= session.received
    BY <1>1 DEF IInv, SessionOK
  <2>2. \A q \in Request : req[q].at # "writing"
    BY <1>1, OthersStart
  <2>3. session.file /\ ~torn => Len(session.bytes) = session.received
    BY <1>1, <2>2 DEF IInv, SessionOK
  <2>4. req'[r].offset + req'[r].declared <= Total
    BY <1>1, <1>3, UploadAssumption DEF IInv, TypeOK, Requests
  <2>5. init = "done"
    BY <1>1 DEF IInv, CallOK
  <2>6. req'[r].declared >= 0
    BY <1>3 DEF Requests
  <2> QED BY <1>1, <1>2, <1>3, <2>1, <2>3, <2>4, <2>5, <2>6 DEF CallOK
<1>7. SessionOK'
  BY <1>2, <1>3 DEF IInv, SessionOK, UploadHasSize, UploadIsSource
<1> QED BY <1>4, <1>5, <1>6, <1>7 DEF IInv

LEMMA PatchRefusedKeeps ==
    ASSUME IInv, NEW r \in Request, PatchRefused(r), LockInv'
    PROVE  IInv'
BY AnsweredKeeps DEF PatchRefused, At

\* The file grows by one unit, and so does what the chunk has written.
LEMMA PatchWritesKeeps ==
    ASSUME IInv, NEW r \in Request, PatchWrites(r), LockInv'
    PROVE  IInv'
<1>1. /\ stage[r] = "inside" /\ req[r].at = "writing"
      /\ req[r].written < req[r].declared
  BY DEF PatchWrites, At
<1>2. /\ UNCHANGED <<stage, last, prev, line>>
      /\ UNCHANGED <<uploads, acked, init, sweeping, torn, restarts>>
  BY DEF PatchWrites, Keep, lockVars
<1>3. /\ req[r] \in Requests /\ session \in Sessions
      /\ req[r].offset = req[r].base
      /\ req[r].offset + req[r].declared <= Total
      /\ req[r].written \in Nat /\ req[r].declared \in Nat /\ req[r].offset \in Nat
  BY <1>1, UploadAssumption DEF IInv, TypeOK, CallOK, Requests
<1>4. /\ req' \in [Request -> Requests]
      /\ req'[r].at = "writing" /\ req'[r].base = req[r].base
      /\ req'[r].offset = req[r].offset /\ req'[r].declared = req[r].declared
      /\ req'[r].written = req[r].written + 1
      /\ \A q \in Request : q # r => req'[q] = req[q]
  <2> DEFINE call == [req[r] EXCEPT !.written = req[r].written + 1]
  <2>1. req' = [req EXCEPT ![r] = call] /\ req \in [Request -> Requests]
    BY DEF PatchWrites, IInv, TypeOK
  <2>2. req[r].written + 1 \in 0..Total
    BY <1>1, <1>3, UploadAssumption
  <2>3. /\ call \in Requests
        /\ call.at = req[r].at /\ call.base = req[r].base
        /\ call.offset = req[r].offset /\ call.declared = req[r].declared
        /\ call.written = req[r].written + 1
    BY <1>3, <2>2 DEF Requests
  <2> HIDE DEF call
  <2> QED BY <1>1, <2>1, <2>3
<1> DEFINE unit == req[r].offset + req[r].written + 1
<1>5. unit \in 1..Total
  BY <1>1, <1>3, UploadAssumption
<1>6. /\ session' \in Sessions
      /\ session'.dir = session.dir /\ session'.file = session.file
      /\ session'.received = session.received
      /\ session.file => session'.bytes = Append(session.bytes, unit)
      /\ ~session.file => session' = session
  <2>1. CASE session.file
    <3>1. session' = [session EXCEPT !.bytes = Append(session.bytes, unit)]
      BY <2>1 DEF PatchWrites
    <3>2. Append(session.bytes, unit) \in Seq(1..Total)
      BY <1>3, <1>5 DEF Sessions
    <3> HIDE DEF unit
    <3> QED BY <1>3, <2>1, <3>1, <3>2 DEF Sessions
  <2>2. CASE ~session.file
    BY <1>3, <2>2 DEF PatchWrites
  <2> QED BY <2>1, <2>2
<1>7. ASSUME session.file
      PROVE  /\ Len(session.bytes) \in Nat /\ Len(session'.bytes) = Len(session.bytes) + 1
             /\ \A i \in 1..Len(session.bytes) : session'.bytes[i] = session.bytes[i]
             /\ session'.bytes[Len(session.bytes) + 1] = unit
  <2>1. session.bytes \in Seq(1..Total) /\ session'.bytes = Append(session.bytes, unit)
    BY <1>3, <1>6, <1>7 DEF Sessions
  <2> HIDE DEF unit
  <2> QED BY <1>5, <2>1
<1>8. TypeOK'
  BY <1>2, <1>4, <1>6 DEF IInv, TypeOK, LockInv, LockTypeOK
<1>9. ASSUME NEW q \in Request, q # r PROVE CallOK(q)'
  <2>1. stage'[q] = stage[q] /\ req'[q] = req[q] /\ init' = init
    BY <1>2, <1>4, <1>9
  <2> QED BY <1>1, <1>9, <2>1, OtherCalls
<1>10. CallOK(r)'
  <2>1. /\ init = "done"
        /\ session.dir => session.received = req[r].base
        /\ session.file => Len(session.bytes) >= req[r].base + req[r].written
        /\ session.file /\ ~torn =>
              Len(session.bytes) = req[r].base + req[r].written
    BY <1>1 DEF IInv, CallOK
  <2>2. session'.file => Len(session'.bytes) >= req'[r].base + req'[r].written
    BY SMTT(30), <1>3, <1>4, <1>6, <1>7, <2>1
  <2>3. session'.file /\ ~torn' => Len(session'.bytes) = req'[r].base + req'[r].written
    <3>1. ASSUME session.file, ~torn
          PROVE  Len(session'.bytes) = req'[r].base + req'[r].written
      <4>1. Len(session.bytes) = req[r].base + req[r].written
        BY <2>1, <3>1
      <4>2. Len(session'.bytes) = Len(session.bytes) + 1
        BY <1>7, <3>1
      <4>3. req[r].base \in Nat /\ req[r].written \in Nat
        BY <1>3
      <4>4. req'[r].base = req[r].base /\ req'[r].written = req[r].written + 1
        BY <1>4
      <4> QED BY <4>1, <4>2, <4>3, <4>4
    <3> QED BY <1>2, <1>6, <3>1
  <2>4. session'.dir => session'.received = req'[r].base
    BY <1>4, <1>6, <2>1
  <2>5. req'[r].written <= req'[r].declared
    BY <1>1, <1>3, <1>4
  <2> HIDE DEF unit
  <2> QED BY <1>1, <1>2, <1>3, <1>4, <2>1, <2>2, <2>3, <2>4, <2>5 DEF CallOK
<1>11. SessionOK'
  <2>1. session.file /\ session.received # NoMeta =>
           Len(session'.bytes) >= session'.received
    BY <1>3, <1>6, <1>7 DEF IInv, SessionOK, Sessions, NoMeta
  <2>2. ASSUME session.file, ~torn, NEW i \in 1..Len(session'.bytes)
        PROVE  session'.bytes[i] = i
    <3>1. Len(session.bytes) = req[r].base + req[r].written
      BY <1>1, <2>2 DEF IInv, CallOK
    <3>2. unit = Len(session.bytes) + 1
      BY <1>3, <3>1
    <3>3. CASE i \in 1..Len(session.bytes)
      BY <1>7, <2>2, <3>3 DEF IInv, SessionOK
    <3>4. CASE i = Len(session.bytes) + 1
      BY <1>7, <2>2, <3>2, <3>4
    <3> QED BY <1>7, <2>2, <3>3, <3>4
  <2> HIDE DEF unit
  <2> QED BY <1>2, <1>4, <1>6, <2>1, <2>2
          DEF IInv, SessionOK, UploadHasSize, UploadIsSource
<1> QED BY <1>8, <1>9, <1>10, <1>11 DEF IInv

\* The file is cut back to where the session says it ends.
LEMMA PatchFailsKeeps ==
    ASSUME IInv, NEW r \in Request, PatchFails(r), LockInv'
    PROVE  IInv'
<1> DEFINE cut == SubSeq(session.bytes, 1, req[r].base)
<1>1. /\ stage[r] = "inside" /\ req[r].at = "writing" /\ Answered(r)
      /\ UNCHANGED <<uploads, acked, init, sweeping, torn, restarts>>
  BY DEF PatchFails, At, Keep
<1>2. /\ session \in Sessions /\ req[r] \in Requests
      /\ session.bytes \in Seq(1..Total) /\ req[r].base \in Nat
      /\ req[r].written \in Nat
  BY UploadAssumption DEF IInv, TypeOK, Requests, Sessions
<1>3. session.file => Len(session.bytes) >= req[r].base
  <2>1. session.file => Len(session.bytes) >= req[r].base + req[r].written
    BY <1>1 DEF IInv, CallOK
  <2>2. Len(session.bytes) \in Nat
    BY <1>2
  <2> QED BY <1>2, <2>1, <2>2
<1>4. session.file => /\ cut \in Seq(1..Total) /\ Len(cut) = req[r].base
                      /\ \A i \in 1..req[r].base : cut[i] = session.bytes[i]
  <2>1. session.file => req[r].base \in 0..Len(session.bytes)
    BY <1>2, <1>3
  <2> QED BY <1>2, <2>1, CutBack
<1>5. /\ session' \in Sessions
      /\ session'.dir = session.dir /\ session'.file = session.file
      /\ session'.received = session.received
      /\ session.file => session'.bytes = cut
      /\ ~session.file => session' = session
  <2>1. CASE session.file
    <3>1. session' = [session EXCEPT !.bytes = cut]
      BY <2>1 DEF PatchFails
    <3> HIDE DEF cut
    <3> QED BY <1>2, <1>4, <2>1, <3>1 DEF Sessions
  <2>2. CASE ~session.file
    BY <1>2, <2>2 DEF PatchFails
  <2> QED BY <2>1, <2>2
<1> HIDE DEF cut
<1>6. TypeOK'
  BY <1>1, <1>5, AnsweredEffect DEF IInv, TypeOK, LockInv
<1>7. \A q \in Request : CallOK(q)' /\ req'[q].at # "writing"
  <2>1. TypeOK
    BY DEF IInv
  <2> QED BY <1>1, <2>1, AnsweredEffect, OtherCalls
<1>8. SessionOK'
  <2>1. session.file => session.dir /\ session.received = req[r].base
    BY <1>1 DEF IInv, SessionOK, CallOK
  <2>2. session.file => /\ Len(session'.bytes) = session'.received
                        /\ session'.received \in Nat
    BY <1>2, <1>4, <1>5, <2>1
  <2>3. session.file /\ ~torn => \A i \in 1..Len(session'.bytes) : session'.bytes[i] = i
    <3>1. ASSUME session.file, ~torn, NEW i \in 1..req[r].base
          PROVE  session.bytes[i] = i
      <4>1. i \in 1..Len(session.bytes)
        BY <1>2, <1>3, <3>1
      <4> QED BY <3>1, <4>1 DEF IInv, SessionOK
    <3> QED BY <1>4, <1>5, <3>1
  <2> QED BY <1>1, <1>5, <2>1, <2>2, <2>3
          DEF IInv, SessionOK, UploadHasSize, UploadIsSource, NoMeta
<1> QED BY <1>6, <1>7, <1>8 DEF IInv

\* The chunk is all there: meta.json catches up with the file.
LEMMA PatchCommitsKeeps ==
    ASSUME IInv, NEW r \in Request, PatchCommits(r), LockInv'
    PROVE  IInv'
<1> DEFINE received == req[r].base + req[r].written
<1>1. /\ stage[r] = "inside" /\ req[r].at = "writing" /\ Answered(r)
      /\ req[r].written = req[r].declared
      /\ UNCHANGED <<uploads, init, sweeping, torn, restarts>>
  BY DEF PatchCommits, At, Keep
<1>2. /\ session \in Sessions /\ received \in 0..Total /\ acked \in 0..Total
      /\ Len(session.bytes) \in Nat
      /\ received >= req[r].base
  <2>1. req[r].offset = req[r].base /\ req[r].offset + req[r].declared <= Total
    BY <1>1 DEF IInv, CallOK
  <2>2. req[r] \in Requests /\ session \in Sessions /\ acked \in 0..Total
    BY DEF IInv, TypeOK
  <2>3. req[r].base \in Nat /\ req[r].written \in Nat
    BY <2>2, UploadAssumption DEF Requests
  <2> QED BY <1>1, <2>1, <2>2, <2>3, UploadAssumption DEF Sessions
<1>3. CASE session.dir
  <2>1. /\ session' = [session EXCEPT !.received = received, !.fresh = TRUE]
        /\ acked' = IF received > acked THEN received ELSE acked
    BY <1>3 DEF PatchCommits
  <2>2. received \in NoMeta..Total /\ received # NoMeta
    BY <1>2, UploadAssumption DEF NoMeta
  <2> HIDE DEF received
  <2>3. /\ session' \in Sessions
        /\ session'.dir = session.dir /\ session'.file = session.file
        /\ session'.bytes = session.bytes /\ session'.received = received
    BY <1>2, <2>1, <2>2 DEF Sessions
  <2>4. acked' \in 0..Total
    BY <1>2, <2>1
  <2>5. TypeOK'
    BY <1>1, <2>3, <2>4, AnsweredEffect DEF IInv, TypeOK, LockInv
  <2>6. \A q \in Request : CallOK(q)' /\ req'[q].at # "writing"
    <3>1. TypeOK
      BY DEF IInv
    <3> QED BY <1>1, <3>1, AnsweredEffect, OtherCalls
  <2>7. acked' <= received
    <3>1. session.received = req[r].base /\ session.received # NoMeta
      BY <1>1, <1>3, UploadAssumption DEF IInv, CallOK, TypeOK, Requests, NoMeta
    <3>2. acked <= session.received
      BY <3>1 DEF IInv, SessionOK
    <3>3. req[r].base \in 0..Total
      BY DEF IInv, TypeOK, Requests
    <3> QED BY <1>2, <2>1, <3>1, <3>2, <3>3
  <2>8. /\ session.file => Len(session.bytes) >= received
        /\ session.file /\ ~torn => Len(session.bytes) = received
    BY <1>1 DEF IInv, CallOK, received
  <2>9. init = "done"
    BY <1>1 DEF IInv, CallOK
  <2>10. SessionOK'
    BY <1>1, <1>3, <2>2, <2>3, <2>7, <2>8, <2>9
       DEF IInv, SessionOK, UploadHasSize, UploadIsSource
  <2> QED BY <2>5, <2>6, <2>10 DEF IInv
<1>4. CASE ~session.dir
  <2>1. session' = session /\ acked' = acked
    BY <1>4 DEF PatchCommits
  <2>2. TypeOK'
    BY <1>1, <2>1, AnsweredEffect DEF IInv, TypeOK, LockInv
  <2>3. \A q \in Request : CallOK(q)' /\ req'[q].at # "writing"
    <3>1. TypeOK
      BY DEF IInv
    <3> QED BY <1>1, <3>1, AnsweredEffect, OtherCalls
  <2>4. ~session.file /\ session.received = NoMeta
    BY <1>4 DEF IInv, SessionOK
  <2>5. SessionOK'
    BY <1>1, <2>1, <2>4 DEF IInv, SessionOK, UploadHasSize, UploadIsSource
  <2> QED BY <2>2, <2>3, <2>5 DEF IInv
<1> QED BY <1>3, <1>4

LEMMA FinalizeBeginsKeeps ==
    ASSUME IInv, NEW r \in Request, FinalizeBegins(r), LockInv'
    PROVE  IInv'
<1>1. /\ stage[r] = "inside" /\ req[r].at = "start" /\ req[r].written = 0
      /\ session.file /\ Len(session.bytes) = Total
      /\ UNCHANGED <<stage, last, prev, line>>
      /\ UNCHANGED <<session, uploads, acked, init, sweeping, torn, restarts>>
  BY DEF FinalizeBegins, At, Complete, Keep, lockVars, IInv, CallOK
<1>2. /\ req' \in [Request -> Requests]
      /\ req'[r].at = "committing" /\ req'[r].written = 0
      /\ \A q \in Request : q # r => req'[q] = req[q]
  <2> DEFINE call == [req[r] EXCEPT !.at = "committing"]
  <2>1. req' = [req EXCEPT ![r] = call] /\ req \in [Request -> Requests]
    BY DEF FinalizeBegins, IInv, TypeOK
  <2>2. call \in Requests /\ call.at = "committing" /\ call.written = req[r].written
    BY <2>1 DEF Requests
  <2> HIDE DEF call
  <2> QED BY <1>1, <2>1, <2>2
<1>3. TypeOK'
  BY <1>1, <1>2 DEF IInv, TypeOK, LockInv, LockTypeOK
<1>4. ASSUME NEW q \in Request, q # r PROVE CallOK(q)' /\ req'[q].at # "writing"
  <2>1. stage'[q] = stage[q] /\ req'[q] = req[q] /\ init' = init
    BY <1>1, <1>2, <1>4
  <2> QED BY <1>1, <1>4, <2>1, OtherCalls
<1>5. CallOK(r)'
  BY <1>1, <1>2 DEF IInv, CallOK
<1>6. \A q \in Request : req[q].at # "writing"
  BY <1>1, OthersStart
<1>7. SessionOK'
  BY <1>1, <1>6 DEF IInv, SessionOK, UploadHasSize, UploadIsSource
<1> QED BY <1>3, <1>4, <1>5, <1>7 DEF IInv

LEMMA FinalizeRefusedKeeps ==
    ASSUME IInv, NEW r \in Request, FinalizeRefused(r), LockInv'
    PROVE  IInv'
BY AnsweredKeeps DEF FinalizeRefused, At

\* The file that was measured is the one that is renamed.
LEMMA FinalizeRenamesKeeps ==
    ASSUME IInv, NEW r \in Request, FinalizeRenames(r), LockInv'
    PROVE  IInv'
<1>1. stage[r] = "inside" /\ req[r].at = "committing" /\ Keep /\ acked' = acked
  BY DEF FinalizeRenames, At
<1>2. CASE ~session.file
  BY <1>1, <1>2, AnsweredKeeps DEF FinalizeRenames
<1>3. CASE session.file
  <2>1. /\ uploads' = session.bytes
        /\ session' = [session EXCEPT !.file = FALSE, !.bytes = <<>>]
        /\ UNCHANGED <<stage, last, prev, line>>
        /\ UNCHANGED <<acked, init, sweeping, torn, restarts>>
    BY <1>1, <1>3 DEF FinalizeRenames, Keep, lockVars
  <2>2. /\ session \in Sessions /\ session.bytes \in Seq(1..Total)
        /\ session' \in Sessions
        /\ session'.dir = session.dir /\ session'.file = FALSE
        /\ session'.received = session.received
    <3>1. session \in Sessions
      BY DEF IInv, TypeOK
    <3>2. <<>> \in Seq(1..Total)
      OBVIOUS
    <3> QED BY <2>1, <3>1, <3>2 DEF Sessions
  <2>3. /\ req' \in [Request -> Requests]
        /\ req'[r].at = "cleaning" /\ req'[r].written = 0
        /\ \A q \in Request : q # r => req'[q] = req[q]
    <3> DEFINE call == [req[r] EXCEPT !.at = "cleaning"]
    <3>1. req' = [req EXCEPT ![r] = call] /\ req \in [Request -> Requests]
      BY <1>3 DEF FinalizeRenames, IInv, TypeOK
    <3>2. call \in Requests /\ call.at = "cleaning" /\ call.written = req[r].written
      BY <3>1 DEF Requests
    <3>3. req[r].written = 0
      BY <1>1 DEF IInv, CallOK
    <3> HIDE DEF call
    <3> QED BY <3>1, <3>2, <3>3
  <2>4. TypeOK'
    BY <2>1, <2>2, <2>3 DEF IInv, TypeOK, LockInv, LockTypeOK
  <2>5. ASSUME NEW q \in Request, q # r PROVE CallOK(q)'
    <3>1. stage'[q] = stage[q] /\ req'[q] = req[q] /\ init' = init
      BY <2>1, <2>3, <2>5
    <3> QED BY <1>1, <2>5, <3>1, OtherCalls
  <2>6. CallOK(r)'
    BY <1>1, <2>1, <2>2, <2>3 DEF IInv, CallOK
  <2>7. Len(uploads') = Total
    BY <1>1, <1>3, <2>1 DEF IInv, CallOK
  <2>8. ~torn => uploads' = Source
    <3>1. ~torn => \A i \in 1..Total : session.bytes[i] = i
      BY <1>3, <2>1, <2>7 DEF IInv, SessionOK
    <3> QED BY <2>1, <2>2, <2>7, <3>1, UploadAssumption DEF Source
  <2>9. SessionOK'
    BY <2>1, <2>2, <2>7, <2>8 DEF IInv, SessionOK, UploadHasSize, UploadIsSource
  <2> QED BY <2>4, <2>5, <2>6, <2>9 DEF IInv
<1> QED BY <1>2, <1>3

\* Removing the session, whoever does it: there is nothing left to be wrong about.
LEMMA RemovalKeeps ==
    ASSUME IInv, LockInv', session' = Gone, req' \in [Request -> Requests],
           UNCHANGED <<uploads, init, acked, torn, restarts>>, sweeping' \in BOOLEAN,
           \A q \in Request : CallOK(q)'
    PROVE  IInv'
<1>1. TypeOK'
  BY GoneIsOK DEF IInv, TypeOK, LockInv
<1>2. SessionOK'
  BY GoneIsOK DEF IInv, SessionOK, UploadHasSize, UploadIsSource
<1> QED BY <1>1, <1>2 DEF IInv

LEMMA FinalizeCleansKeeps ==
    ASSUME IInv, NEW r \in Request, FinalizeCleans(r), LockInv'
    PROVE  IInv'
<1>1. /\ stage[r] = "inside" /\ Answered(r) /\ session' = Gone
      /\ UNCHANGED <<uploads, acked, init, sweeping, torn, restarts>>
  BY DEF FinalizeCleans, At, Keep
<1>2. TypeOK
  BY DEF IInv
<1>3. \A q \in Request : CallOK(q)'
  BY <1>1, <1>2, AnsweredEffect, OtherCalls
<1>4. sweeping' \in BOOLEAN
  BY <1>1, <1>2 DEF TypeOK
<1>5. req' \in [Request -> Requests]
  BY <1>1, <1>2, AnsweredEffect
<1> QED BY <1>1, <1>3, <1>4, <1>5, RemovalKeeps

LEMMA CancelRunsKeeps ==
    ASSUME IInv, NEW r \in Request, CancelRuns(r), LockInv'
    PROVE  IInv'
<1>1. /\ stage[r] = "inside" /\ req[r].at = "start" /\ Answered(r) /\ Keep
      /\ UNCHANGED <<uploads, acked, init, sweeping, torn, restarts>>
  BY DEF CancelRuns, At, Keep
<1>2. TypeOK
  BY DEF IInv
<1>3. CASE session.received = NoMeta
  BY <1>1, <1>3, AnsweredKeeps DEF CancelRuns
<1>4. CASE session.received # NoMeta
  <2>1. session' = Gone
    BY <1>4 DEF CancelRuns
  <2>2. \A q \in Request : CallOK(q)'
    BY <1>1, <1>2, AnsweredEffect, OtherCalls
  <2>3. sweeping' \in BOOLEAN
    BY <1>1, <1>2 DEF TypeOK
  <2>4. req' \in [Request -> Requests]
    BY <1>1, <1>2, AnsweredEffect
  <2> QED BY <1>1, <2>1, <2>2, <2>3, <2>4, RemovalKeeps
<1> QED BY <1>3, <1>4

LEMMA ExpireKeeps ==
    ASSUME IInv, Expire, LockInv'
    PROVE  IInv'
<1>1. /\ session' \in Sessions
      /\ session'.dir = session.dir /\ session'.file = session.file
      /\ session'.bytes = session.bytes /\ session'.received = session.received
  BY DEF Expire, IInv, TypeOK, Sessions
<1>2. /\ UNCHANGED <<stage, last, prev, line>>
      /\ UNCHANGED <<uploads, req, init, sweeping, acked, torn, restarts>>
  BY DEF Expire, lockVars
<1>3. TypeOK'
  BY <1>1, <1>2 DEF IInv, TypeOK, LockInv, LockTypeOK
<1>4. ASSUME NEW q \in Request PROVE CallOK(q)'
  BY <1>1, <1>2 DEF IInv, CallOK
<1>5. SessionOK'
  BY <1>1, <1>2 DEF IInv, SessionOK, UploadHasSize, UploadIsSource
<1> QED BY <1>3, <1>4, <1>5 DEF IInv

LEMMA SweepLooksKeeps ==
    ASSUME IInv, SweepLooks, LockInv'
    PROVE  IInv'
<1>1. /\ UNCHANGED <<stage, last, prev, line>> /\ sweeping' \in BOOLEAN
      /\ UNCHANGED <<session, uploads, req, init, acked, torn, restarts>>
  BY DEF SweepLooks, lockVars
<1>2. TypeOK'
  BY <1>1 DEF IInv, TypeOK, LockInv, LockTypeOK
<1>3. ASSUME NEW q \in Request PROVE CallOK(q)'
  BY <1>1 DEF IInv, CallOK
<1>4. SessionOK'
  BY <1>1 DEF IInv, SessionOK, UploadHasSize, UploadIsSource
<1> QED BY <1>2, <1>3, <1>4 DEF IInv

\* The sweep may come between any two steps of a request that is under way.
LEMMA SweepRemovesKeeps ==
    ASSUME IInv, SweepRemoves, LockInv'
    PROVE  IInv'
<1>1. /\ session' = Gone /\ sweeping' \in BOOLEAN /\ stage' = stage /\ req' = req
      /\ UNCHANGED <<uploads, init, acked, torn, restarts>>
  BY DEF SweepRemoves, lockVars
<1>2. ASSUME NEW q \in Request PROVE CallOK(q)'
  BY <1>1, GoneIsOK DEF IInv, CallOK
<1>3. req' \in [Request -> Requests]
  BY <1>1 DEF IInv, TypeOK
<1> QED BY <1>1, <1>2, <1>3, RemovalKeeps

\* Without a torn chunk the file ends where the session says, before and after.
LEMMA RestartKeeps ==
    ASSUME IInv, Restart, LockInv'
    PROVE  IInv'
<1>1. /\ UNCHANGED <<session, uploads, acked>>
      /\ init' \in {"no", "done", "lost"} /\ (init' = "done" <=> init = "done")
      /\ sweeping' \in BOOLEAN
      /\ restarts' \in 0..MaxRestarts
      /\ \A q \in Request : stage'[q] = "idle" /\ req'[q] = NoRequest
  <2>1. restarts' \in 0..MaxRestarts
    BY UploadAssumption DEF Restart, IInv, TypeOK
  <2>2. init' \in {"no", "done", "lost"} /\ (init' = "done" <=> init = "done")
    BY DEF Restart, IInv, TypeOK
  <2>3. sweeping' \in BOOLEAN
    BY DEF Restart
  <2> QED BY <2>1, <2>2, <2>3 DEF Restart, Forget
<1>2. NoRequest \in Requests /\ NoRequest.at = "start" /\ NoRequest.written = 0
  BY UploadAssumption DEF NoRequest, Call, Requests
<1>3. torn' \in BOOLEAN /\ (~torn' => ~torn /\ \A q \in Request : ~(req[q].written > 0))
  BY DEF Restart, IInv, TypeOK
<1>4. req' \in [Request -> Requests]
  BY <1>2 DEF Restart
<1>5. TypeOK'
  BY <1>1, <1>3, <1>4 DEF IInv, TypeOK, LockInv
<1>6. \A q \in Request : CallOK(q)'
  BY <1>1, <1>2 DEF CallOK
<1>7. ASSUME session.file, ~torn'
      PROVE  Len(session.bytes) = IF session.received = NoMeta THEN 0
                                  ELSE session.received
  <2>1. CASE \E q \in Request : req[q].at = "writing"
    <3>1. PICK q \in Request : req[q].at = "writing"
      BY <2>1
    <3>2. req[q].written \in Nat /\ req[q].base \in Nat
      BY UploadAssumption DEF IInv, TypeOK, Requests
    <3>3. req[q].written = 0
      BY <1>3, <1>7, <3>2
    <3>4. Len(session.bytes) = req[q].base + req[q].written
      BY <1>3, <1>7, <3>1 DEF IInv, CallOK
    <3>5. session.received = req[q].base
      BY <1>7, <3>1 DEF IInv, CallOK, SessionOK
    <3> QED BY <3>2, <3>3, <3>4, <3>5 DEF NoMeta
  <2>2. CASE \A q \in Request : req[q].at # "writing"
    BY <1>3, <1>7, <2>2 DEF IInv, SessionOK
  <2> QED BY <2>1, <2>2
<1>8. SessionOK'
  BY <1>1, <1>3, <1>7 DEF IInv, SessionOK, UploadHasSize, UploadIsSource
<1> QED BY <1>5, <1>6, <1>8 DEF IInv

LEMMA StutterKeeps ==
    ASSUME IInv, UNCHANGED vars
    PROVE  IInv'
<1>1. /\ UNCHANGED <<stage, last, prev, line>>
      /\ UNCHANGED <<session, uploads, req, init, sweeping, acked, torn, restarts>>
  BY DEF vars, lockVars
<1>2. LockInv' /\ TypeOK'
  BY <1>1 DEF IInv, LockInv, TypeOK, LockTypeOK, GatesFollowLine
<1>3. \A q \in Request : CallOK(q)'
  BY <1>1 DEF IInv, CallOK
<1>4. SessionOK'
  BY <1>1 DEF IInv, SessionOK, UploadHasSize, UploadIsSource
<1> QED BY <1>2, <1>3, <1>4 DEF IInv

-----------------------------------------------------------------------------
(* The theorems.                                                           *)

LEMMA InitHolds == Init => IInv
<1> SUFFICES ASSUME Init PROVE IInv
  OBVIOUS
<1>1. LockInv /\ LockTypeOK
  BY LockInitHolds DEF Init, LockInv
<1>2. NoRequest \in Requests /\ NoRequest.at = "start" /\ NoRequest.written = 0
  BY UploadAssumption DEF NoRequest, Call, Requests
<1>3. TypeOK
  <2>1. req \in [Request -> Requests]
    BY <1>2 DEF Init
  <2>2. 0 \in 0..Total /\ 0 \in 0..MaxRestarts
    BY UploadAssumption
  <2>3. sweeping \in BOOLEAN /\ torn \in BOOLEAN
    BY DEF Init
  <2> QED BY <1>1, <2>1, <2>2, <2>3, GoneIsOK DEF Init, TypeOK
<1>4. ASSUME NEW r \in Request PROVE CallOK(r)
  <2>1. stage[r] = "idle" /\ req[r] = NoRequest
    BY DEF Init, LockInit
  <2> QED BY <1>2, <2>1 DEF CallOK
<1>5. SessionOK
  BY GoneIsOK DEF Init, SessionOK, UploadHasSize, UploadIsSource
<1> QED BY <1>1, <1>3, <1>4, <1>5 DEF IInv

LEMMA StepKeeps == IInv /\ [Next]_vars => IInv'
<1> SUFFICES ASSUME IInv, [Next]_vars PROVE IInv'
  OBVIOUS
<1>1. LockInv'
  BY StepsUseLock, LockStepKeeps DEF IInv
<1>2. CASE UNCHANGED vars
  BY <1>2, StutterKeeps
<1>3. CASE MakeSession \/ AnswerInit
  BY <1>1, <1>3, MakeSessionKeeps, AnswerInitKeeps
<1>4. ASSUME NEW r \in Request, Patch(r)
      PROVE  IInv'
  <2>1. PICK offset \in 0..(Total - 1), declared \in 1..Total :
            Asked(r, "patch", offset, declared)
    BY <1>4 DEF Patch
  <2>2. offset \in 0..Total /\ declared \in 0..Total
    BY UploadAssumption
  <2> QED BY <1>1, <2>1, <2>2, AskedKeeps
<1>5. ASSUME NEW r \in Request, Finalize(r) \/ Cancel(r)
      PROVE  IInv'
  <2>1. 0 \in 0..Total
    BY UploadAssumption
  <2> QED BY <1>1, <1>5, <2>1, AskedKeeps DEF Finalize, Cancel
<1>6. ASSUME NEW r \in Request, Step(r)
      PROVE  IInv'
  BY <1>1, <1>6, GetsLockKeeps, PatchBeginsKeeps, PatchRefusedKeeps, PatchWritesKeeps,
     PatchFailsKeeps, PatchCommitsKeeps, FinalizeBeginsKeeps, FinalizeRefusedKeeps,
     FinalizeRenamesKeeps, FinalizeCleansKeeps, CancelRunsKeeps DEF Step
<1>7. CASE Expire \/ SweepLooks \/ SweepRemoves \/ Restart
  BY <1>1, <1>7, ExpireKeeps, SweepLooksKeeps, SweepRemovesKeeps, RestartKeeps
<1> QED BY <1>2, <1>3, <1>4, <1>5, <1>6, <1>7 DEF Next

LEMMA UploadInvariant == Spec => []IInv
BY InitHolds, StepKeeps, PTL DEF Spec

\* The variables of the upload handlers keep their types.
THEOREM TypeCorrect == Spec => []TypeOK
<1>1. IInv => TypeOK
  BY DEF IInv
<1> QED BY <1>1, UploadInvariant, PTL

\* Whatever requests, interruptions and sweeps do, the first received_bytes of
\* the data file are the first bytes of the source, as long as no restart tore
\* a chunk.
THEOREM ReceivedIsOnDiskHolds == Spec => []ReceivedIsOnDisk
<1>1. IInv => ReceivedIsOnDisk
  <2> SUFFICES ASSUME IInv, session.file, session.received # NoMeta, ~torn
               PROVE  /\ Len(session.bytes) >= session.received
                      /\ SubSeq(session.bytes, 1, session.received)
                           = SubSeq(Source, 1, session.received)
    BY DEF ReceivedIsOnDisk
  <2> DEFINE n == session.received
  <2>1. /\ session.bytes \in Seq(1..Total) /\ Len(session.bytes) >= n
        /\ n \in 0..Total /\ n <= Total
    BY UploadAssumption DEF IInv, TypeOK, SessionOK, Sessions, NoMeta
  <2>2. Source \in Seq(1..Total) /\ Len(Source) = Total
    BY UploadAssumption DEF Source
  <2>3. n \in 0..Len(session.bytes) /\ n \in 0..Len(Source)
    BY <2>1, <2>2
  <2>4. \A i \in 1..n : session.bytes[i] = i /\ Source[i] = i
    <3>1. ASSUME NEW i \in 1..n PROVE session.bytes[i] = i /\ Source[i] = i
      <4>1. i \in 1..Len(session.bytes) /\ i \in 1..Total
        <5>1. Len(session.bytes) \in Nat /\ Total \in Nat
          BY <2>1, UploadAssumption
        <5> HIDE DEF n
        <5> QED BY <2>1, <3>1, <5>1
      <4> QED BY <4>1 DEF IInv, SessionOK, Source
    <3> QED BY <3>1
  <2> HIDE DEF n
  <2>5. /\ SubSeq(session.bytes, 1, n) \in Seq(1..Total)
        /\ Len(SubSeq(session.bytes, 1, n)) = n
        /\ \A i \in 1..n : SubSeq(session.bytes, 1, n)[i] = session.bytes[i]
    BY <2>1, <2>3, CutBack
  <2>6. /\ SubSeq(Source, 1, n) \in Seq(1..Total)
        /\ Len(SubSeq(Source, 1, n)) = n
        /\ \A i \in 1..n : SubSeq(Source, 1, n)[i] = Source[i]
    BY <2>2, <2>3, CutBack
  <2>7. SubSeq(session.bytes, 1, n) = SubSeq(Source, 1, n)
    BY <2>4, <2>5, <2>6
  <2> QED BY <2>1, <2>7 DEF n
<1> QED BY <1>1, UploadInvariant, PTL

\* No session forgets bytes a client was told it has, restarts included.
THEOREM AckedIsReceivedHolds == Spec => []AckedIsReceived
<1>1. IInv => AckedIsReceived
  BY DEF IInv, SessionOK, AckedIsReceived, TypeOK, Sessions, NoMeta
<1> QED BY <1>1, UploadInvariant, PTL

\* What a client was told is received is on disk and stays there (PATCH).
THEOREM AckedIsOnDiskHolds == Spec => []AckedIsOnDisk
<1>1. ReceivedIsOnDisk /\ AckedIsReceived => AckedIsOnDisk
  BY DEF AckedIsOnDisk
<1> QED BY <1>1, ReceivedIsOnDiskHolds, AckedIsReceivedHolds, PTL

\* finalize never publishes a file of another size than announced.
THEOREM UploadHasSizeHolds == Spec => []UploadHasSize
<1>1. IInv => UploadHasSize
  BY DEF IInv, SessionOK
<1> QED BY <1>1, UploadInvariant, PTL

\* finalize publishes the file the client sent, unless a restart tore a chunk.
THEOREM UploadIsSourceHolds == Spec => []UploadIsSource
<1>1. IInv => UploadIsSource
  BY DEF IInv, SessionOK
<1> QED BY <1>1, UploadInvariant, PTL

\* finalize publishes a file of the announced size and the client's content.
THEOREM UploadIsWholeHolds == Spec => []UploadIsWhole
<1>1. UploadHasSize /\ UploadIsSource => UploadIsWhole
  BY DEF UploadIsWhole
<1> QED BY <1>1, UploadHasSizeHolds, UploadIsSourceHolds, PTL
=============================================================================
