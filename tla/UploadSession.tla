--------------------------- MODULE UploadSession ---------------------------
(***************************************************************************)
(* One resumable upload (runtime/src/http/upload-session.ts): its session  *)
(* directory with data and meta.json, the requests that append, finalize   *)
(* and cancel under the session lock, the sweep that does not take the     *)
(* lock, and restarts of the runtime between any two awaits.               *)
(*                                                                         *)
(* The file to upload is <<1, ..., Total>>: a unit of data is the place it *)
(* has in that file, so the content on disk shows what was appended where. *)
(***************************************************************************)
EXTENDS SessionLock, Integers

CONSTANTS
    Total,         \* total_bytes, in units
    MaxRestarts    \* bound of the model: restarts of the runtime

ASSUME UploadAssumption == Total \in Nat \ {0} /\ MaxRestarts \in Nat

VARIABLES
    session,    \* uploads.in_progress/<id>: what is on disk
    uploads,    \* the content under uploads/, or None
    req,        \* what each request asks for and how far it is
    init,       \* "no", "dir" (made), "done" (answered) or "lost"
    sweeping,   \* the sweep decided to remove the session
    acked,      \* history: the highest received_bytes a client was told
    torn,       \* history: a restart left part of a chunk behind
    restarts

vars == <<lockVars, session, uploads, req, init, sweeping, acked, torn, restarts>>

None == <<-1>>          \* no file
NoMeta == -1            \* no meta.json

Source == [i \in 1..Total |-> i]

\* dir and file say what exists, fresh that expires_at is not yet past.
Gone == [dir |-> FALSE, file |-> FALSE, bytes |-> <<>>, received |-> NoMeta,
         fresh |-> FALSE]

Call(op, offset, declared) ==
    [op |-> op, offset |-> offset, declared |-> declared, base |-> 0,
     written |-> 0, at |-> "start"]

NoRequest == Call("none", 0, 0)

Init ==
    /\ LockInit
    /\ session = Gone /\ uploads = None
    /\ req = [r \in Request |-> NoRequest]
    /\ init = "no" /\ sweeping = FALSE
    /\ acked = 0 /\ torn = FALSE /\ restarts = 0

-----------------------------------------------------------------------------
(* POST /upload/init                                                       *)

MakeSession ==
    /\ init = "no" /\ init' = "dir"
    /\ session' = [Gone EXCEPT !.dir = TRUE, !.file = TRUE, !.fresh = TRUE]
    /\ UNCHANGED <<lockVars, uploads, req, sweeping, acked, torn, restarts>>

AnswerInit ==
    /\ init = "dir"
    /\ IF session.dir
       THEN /\ session' = [session EXCEPT !.received = 0, !.fresh = TRUE]
            /\ init' = "done"
       ELSE init' = "lost" /\ UNCHANGED session
    /\ UNCHANGED <<lockVars, uploads, req, sweeping, acked, torn, restarts>>

-----------------------------------------------------------------------------
(* Requests that take the lock.                                            *)

Asked(r, op, offset, declared) ==
    /\ init = "done"
    /\ Arrive(r)
    /\ req' = [req EXCEPT ![r] = Call(op, offset, declared)]
    /\ UNCHANGED <<session, uploads, init, sweeping, acked, torn, restarts>>

\* Any offset and any length, the client's idea of them may be out of date; the
\* data is the part of the file that belongs there.
Patch(r) ==
    \E offset \in 0..(Total - 1), declared \in 1..Total :
        Asked(r, "patch", offset, declared)

Finalize(r) == Asked(r, "finalize", 0, 0)
Cancel(r) == Asked(r, "cancel", 0, 0)

GetsLock(r) ==
    /\ Enter(r)
    /\ UNCHANGED <<session, uploads, req, init, sweeping, acked, torn, restarts>>

At(r, op, at) == stage[r] = "inside" /\ req[r].op = op /\ req[r].at = at

Answered(r) == Leave(r) /\ req' = [req EXCEPT ![r] = NoRequest]

Keep == UNCHANGED <<init, sweeping, torn, restarts>>

\* Variant of Appendable: any offset will do.
AppendableAnywhere(r) ==
    /\ session.received # NoMeta /\ session.fresh
    /\ req[r].declared <= Total - session.received

\* Another: the chunk may be longer than what is missing.
AppendableBeyond(r) ==
    /\ session.received # NoMeta /\ session.fresh
    /\ req[r].offset = session.received

\* The chunk fits where the session ends; otherwise 404, 410, 409, 416 or 400.
Appendable(r) ==
    /\ session.received # NoMeta /\ session.fresh
    /\ req[r].offset = session.received
    /\ req[r].declared <= Total - session.received

PatchBegins(r) ==
    /\ At(r, "patch", "start") /\ Appendable(r)
    /\ req' = [req EXCEPT ![r].at = "writing", ![r].base = session.received]
    /\ UNCHANGED <<lockVars, session, uploads, acked>> /\ Keep

PatchRefused(r) ==
    /\ At(r, "patch", "start") /\ ~Appendable(r)
    /\ Answered(r)
    /\ UNCHANGED <<session, uploads, acked>> /\ Keep

\* One more unit of the body is appended to the file, wherever it ends; a file
\* that was swept away takes it to its grave.
PatchWrites(r) ==
    /\ At(r, "patch", "writing") /\ req[r].written < req[r].declared
    /\ req' = [req EXCEPT ![r].written = @ + 1]
    /\ session' = IF session.file
                  THEN [session EXCEPT !.bytes =
                          Append(@, req[r].offset + req[r].written + 1)]
                  ELSE session
    /\ UNCHANGED <<lockVars, uploads, acked>> /\ Keep

\* Variant of PatchFails: what was written stays.
PatchFailsLeaving(r) ==
    /\ At(r, "patch", "writing")
    /\ Answered(r)
    /\ UNCHANGED <<session, uploads, acked>> /\ Keep

\* The body ends early or the stream fails: the file is cut back.
PatchFails(r) ==
    /\ At(r, "patch", "writing")
    /\ session' = IF session.file
                  THEN [session EXCEPT !.bytes = SubSeq(@, 1, req[r].base)]
                  ELSE session
    /\ Answered(r)
    /\ UNCHANGED <<uploads, acked>> /\ Keep

\* All is written: the new meta.json replaces the old one, unless its directory
\* is gone, and the client is told.
PatchCommits(r) ==
    /\ At(r, "patch", "writing") /\ req[r].written = req[r].declared
    /\ LET received == req[r].base + req[r].written
       IN  IF session.dir
           THEN /\ session' = [session EXCEPT !.received = received, !.fresh = TRUE]
                /\ acked' = IF received > acked THEN received ELSE acked
           ELSE UNCHANGED <<session, acked>>
    /\ Answered(r)
    /\ UNCHANGED uploads /\ Keep

\* Variant of Complete: the size on disk is not looked at.
CompleteByMeta == session.received = Total /\ session.fresh /\ session.file

Complete ==
    /\ session.received = Total /\ session.fresh
    /\ session.file /\ Len(session.bytes) = Total

FinalizeBegins(r) ==
    /\ At(r, "finalize", "start") /\ Complete
    /\ req' = [req EXCEPT ![r].at = "committing"]
    /\ UNCHANGED <<lockVars, session, uploads, acked>> /\ Keep

FinalizeRefused(r) ==
    /\ At(r, "finalize", "start") /\ ~Complete
    /\ Answered(r)
    /\ UNCHANGED <<session, uploads, acked>> /\ Keep

\* rename(), which fails if the session was swept.
FinalizeRenames(r) ==
    /\ At(r, "finalize", "committing")
    /\ IF session.file
       THEN /\ uploads' = session.bytes
            /\ session' = [session EXCEPT !.file = FALSE, !.bytes = <<>>]
            /\ req' = [req EXCEPT ![r].at = "cleaning"]
            /\ UNCHANGED lockVars
       ELSE Answered(r) /\ UNCHANGED <<session, uploads>>
    /\ UNCHANGED acked /\ Keep

\* The directory is removed and the plugin notified.
FinalizeCleans(r) ==
    /\ At(r, "finalize", "cleaning")
    /\ session' = Gone
    /\ Answered(r)
    /\ UNCHANGED <<uploads, acked>> /\ Keep

CancelRuns(r) ==
    /\ At(r, "cancel", "start")
    /\ session' = IF session.received = NoMeta THEN session ELSE Gone
    /\ Answered(r)
    /\ UNCHANGED <<uploads, acked>> /\ Keep

-----------------------------------------------------------------------------
(* Time, the sweep and restarts.                                           *)

Expire ==
    /\ session.fresh
    /\ session' = [session EXCEPT !.fresh = FALSE]
    /\ UNCHANGED <<lockVars, uploads, req, init, sweeping, acked, torn, restarts>>

\* The sweep reads meta.json (or, without it, the age of the directory) ...
SweepLooks ==
    /\ session.dir /\ ~session.fresh /\ ~sweeping
    /\ sweeping' = TRUE
    /\ UNCHANGED <<lockVars, session, uploads, req, init, acked, torn, restarts>>

\* ... and removes the directory, whatever has happened since.
SweepRemoves ==
    /\ sweeping /\ sweeping' = FALSE
    /\ session' = Gone
    /\ UNCHANGED <<lockVars, uploads, req, init, acked, torn, restarts>>

Restart ==
    /\ restarts < MaxRestarts /\ restarts' = restarts + 1
    /\ Forget
    /\ req' = [r \in Request |-> NoRequest]
    /\ init' = IF init = "dir" THEN "lost" ELSE init
    /\ sweeping' = FALSE
    /\ torn' = (torn \/ \E r \in Request : req[r].written > 0)
    /\ UNCHANGED <<session, uploads, acked>>

-----------------------------------------------------------------------------
Step(r) ==
    \/ GetsLock(r)
    \/ PatchBegins(r) \/ PatchRefused(r) \/ PatchWrites(r) \/ PatchFails(r)
    \/ PatchCommits(r)
    \/ FinalizeBegins(r) \/ FinalizeRefused(r) \/ FinalizeRenames(r)
    \/ FinalizeCleans(r)
    \/ CancelRuns(r)

Next ==
    \/ MakeSession \/ AnswerInit
    \/ \E r \in Request : Patch(r) \/ Finalize(r) \/ Cancel(r) \/ Step(r)
    \/ Expire \/ SweepLooks \/ SweepRemoves \/ Restart

Spec == Init /\ [][Next]_vars

\* Request bodies end and file operations return.
FairSpec ==
    /\ Spec
    /\ \A r \in Request : WF_vars(Step(r))

-----------------------------------------------------------------------------
Sessions == [dir : BOOLEAN, file : BOOLEAN, bytes : Seq(1..Total),
             received : NoMeta..Total, fresh : BOOLEAN]

Requests == [op : {"none", "patch", "finalize", "cancel"},
             offset : 0..Total, declared : 0..Total, base : 0..Total,
             written : 0..Total,
             at : {"start", "writing", "committing", "cleaning"}]

TypeOK ==
    /\ LockTypeOK
    /\ session \in Sessions
    /\ uploads = None \/ uploads \in Seq(1..Total)
    /\ req \in [Request -> Requests]
    /\ init \in {"no", "dir", "done", "lost"}
    /\ sweeping \in BOOLEAN /\ torn \in BOOLEAN
    /\ acked \in 0..Total /\ restarts \in 0..MaxRestarts

\* What meta.json counts as received is on disk, in order and without a gap,
\* also while chunks are written, cut back, repeated and raced.
ReceivedIsOnDisk ==
    session.file /\ session.received # NoMeta /\ ~torn =>
        /\ Len(session.bytes) >= session.received
        /\ SubSeq(session.bytes, 1, session.received)
             = SubSeq(Source, 1, session.received)

\* A session that was not cancelled, swept or finalized still has every byte a
\* client was told it has, also after a restart.
AckedIsReceived ==
    session.received # NoMeta => session.received >= acked

\* A client may rely on every acknowledgement.
AckedIsOnDisk == ReceivedIsOnDisk /\ AckedIsReceived

\* A finalized file has the size that was announced, even after a restart.
UploadHasSize == uploads # None => Len(uploads) = Total

\* A finalized file is the file the client sent.
UploadIsSource == uploads # None /\ ~torn => uploads = Source

\* What is published is what was announced and sent.
UploadIsWhole == UploadHasSize /\ UploadIsSource

\* A request that waits for the lock is answered.
RequestsAreAnswered ==
    \A r \in Request : stage[r] # "idle" ~> stage[r] = "idle"

\* upload-session.ts, finalize: the size on disk is verified as a defense
\* against a corrupted append.
\* Not kept by the code: see the README.
CorruptedIsRejected == uploads # None => uploads = Source
=============================================================================
