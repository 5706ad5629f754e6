---------------------------- MODULE CoViewState ----------------------------
(***************************************************************************)
(* The state channel of a Co-View session: the host's browser sends diffs  *)
(* of its shell state, the runtime folds them into a snapshot for those    *)
(* who join and passes them on, and a viewer's browser applies them,       *)
(* notices gaps and asks the host for what it missed.                      *)
(*                                                                         *)
(*   website/co-view/producer.ts, ring-buffer.ts, host-shell-runner.tsx,   *)
(*   co-view-sheet.tsx   the host;  runtime/co-view/state-handlers.ts;     *)
(*   website/co-view/consumer.ts, viewer-session.tsx   a viewer.           *)
(*                                                                         *)
(* One viewer: the runtime and the host keep nothing for one viewer that   *)
(* another could see. Each WebSocket direction is a FIFO queue. The value  *)
(* of a key is the number of the edit that wrote it, 0 while it is unset,  *)
(* so a snapshot tells exactly which edits it has. The connections of both *)
(* stay open; what their closing does is in CoViewSession.                 *)
(***************************************************************************)
EXTENDS Integers, Sequences, SequencesExt

CONSTANTS
    Key,            \* CO_VIEW_SHELL_STATE_KEYS
    Big,            \* keys whose value exceeds STATE_DIFF_BYTES_MAX
    RingCapacity,   \* RING_BUFFER_CAPACITY
    MaxEdits,       \* bound: changes of the shell state
    MaxVisits,      \* bound: joins of the viewer
    MaxToggles,     \* bound: clicks on Pause and Resume
    MaxQueue        \* bound: frames between the host and the runtime, a way

ASSUME KeyAssumption == Big \subseteq Key
ASSUME SizeAssumption ==
    RingCapacity \in Nat \ {0} /\ MaxEdits \in Nat
    /\ MaxVisits \in Nat /\ MaxToggles \in Nat /\ MaxQueue \in Nat

VARIABLES
    shell,      \* getShellState()
    edits,      \* the number of the last edit
    producer,   \* seq, cumulative snapshot and ring buffer
    paused,     \* the host's own pause flag
    toggles,    \* the clicks on it
    busy,       \* an update.req of the host waits for its ack
    feed,       \* frames from the host to the runtime
    down,       \* frames from the runtime to the host
    rt,         \* the runtime's record of the session
    out,        \* frames from the runtime to the viewer
    in,         \* frames from the viewer to the runtime
    view,       \* the viewer: ViewerSession and its consumer
    visit,      \* history: the number of the viewer's last join
    hist,       \* history: hist[n + 1] is the snapshot the host gave seq n
    withheld,   \* history: the answer this consumer waits for was not sent
    astray      \* history: this consumer took the answer to another's request

host == <<shell, edits, producer, paused, toggles, busy, hist>>
watch == <<view, visit, withheld, astray>>
stateVars == <<host, feed, down, rt, out, in, watch>>

Snapshot == [Key -> 0..MaxEdits]
Blank == [k \in Key |-> 0]

StateInit ==
    /\ shell = Blank /\ edits = 0
    /\ producer = [seq |-> -1, snapshot |-> Blank, ring |-> <<>>]
    /\ paused = FALSE /\ toggles = 0 /\ busy = FALSE
    /\ feed = <<>> /\ down = <<>> /\ out = <<>> /\ in = <<>>
    /\ rt = [paused |-> FALSE, lastSeq |-> -1, snapshot |-> Blank,
             member |-> FALSE]
    /\ view = [mode |-> "out", snapshot |-> Blank, lastSeq |-> -1,
               awaiting |-> FALSE]
    /\ visit = 0 /\ hist = <<>> /\ withheld = FALSE /\ astray = FALSE

----------------------------------------------------------------------------
\* Frames and merge patches.

\* diffMergePatch: what leads from one snapshot to the other.
Diff(from, to) == [k \in {j \in Key : from[j] # to[j]} |-> to[k]]

\* applyMergePatch: what the diff has, and for the other keys what was there.
Merge(snapshot, diff) ==
    [k \in Key |-> IF k \in DOMAIN diff THEN diff[k] ELSE snapshot[k]]

Oversized(diff) == DOMAIN diff \cap Big # {}

StateFrame(seq, diff) == [type |-> "state", seq |-> seq, diff |-> diff]

\* push: the oldest entry makes room.
Pushed(ring, entry) ==
    IF Len(ring) < RingCapacity THEN Append(ring, entry)
                                ELSE Append(Tail(ring), entry)

\* Mutant: the ring is believed to hold one diff more than it does.
ResolveOffByOne(req) ==
    IF \/ req.since < 0 \/ producer.ring = <<>>
       \/ req.since + 2 < Head(producer.ring).seq
      THEN [type |-> "full", visit |-> req.visit, seq |-> producer.seq,
            state |-> producer.snapshot]
      ELSE [type |-> "diffs", visit |-> req.visit, seq |-> producer.seq,
            diffs |-> {e \in ToSet(producer.ring) : e.seq > req.since}]

\* resolve: the diffs after "since", or everything when the ring has lost one.
\* A frame's "visit" is a history field; no code reads it.
Resolve(req) ==
    IF \/ req.since < 0 \/ producer.ring = <<>>
       \/ req.since + 1 < Head(producer.ring).seq
      THEN [type |-> "full", visit |-> req.visit, seq |-> producer.seq,
            state |-> producer.snapshot]
      ELSE [type |-> "diffs", visit |-> req.visit, seq |-> producer.seq,
            diffs |-> {e \in ToSet(producer.ring) : e.seq > req.since}]

----------------------------------------------------------------------------
\* The host.

\* A change of the shell state while the host is not paused is flushed in the
\* same microtask, whatever changed unnoticed during a pause with it.
Change(key) ==
    LET next == [shell EXCEPT ![key] = edits + 1]
        frame == StateFrame(producer.seq + 1, Diff(producer.snapshot, next))
    IN
    /\ edits < MaxEdits /\ Len(feed) < MaxQueue
    /\ ~paused
    /\ shell' = next /\ edits' = edits + 1
    /\ producer' = [seq |-> frame.seq, snapshot |-> next,
                    ring |-> Pushed(producer.ring, frame)]
    /\ hist' = Append(hist, next)
    /\ feed' = Append(feed, frame)
    /\ UNCHANGED <<paused, toggles, busy, down, rt, out, in, watch>>

\* A change during a pause is not notified, then or later.
ChangeUnnoticed(key) ==
    /\ edits < MaxEdits /\ paused
    /\ shell' = [shell EXCEPT ![key] = edits + 1]
    /\ edits' = edits + 1
    /\ UNCHANGED <<producer, paused, toggles, busy, hist, feed, down, rt, out, in, watch>>

\* togglePause: the own flag first, then the patch, which a busy sheet skips.
TogglePause ==
    /\ toggles < MaxToggles /\ toggles' = toggles + 1
    /\ paused' = ~paused
    /\ \/ busy /\ UNCHANGED <<busy, feed>>
       \/ /\ ~busy /\ Len(feed) < MaxQueue
          /\ busy' = TRUE
          /\ feed' = Append(feed, [type |-> "update", paused |-> ~paused])
    /\ UNCHANGED <<shell, edits, producer, hist, down, rt, out, in, watch>>

HostTakesAck ==
    /\ down # <<>> /\ Head(down).type = "ack"
    /\ down' = Tail(down) /\ busy' = FALSE
    /\ UNCHANGED <<shell, edits, producer, paused, toggles, hist, feed, rt, out, in,
                   watch>>

\* handleSnapshotReq, its answer passing the pause gate of the runner.
HostAnswers ==
    /\ down # <<>> /\ Head(down).type = "req"
    /\ down' = Tail(down)
    /\ \/ /\ ~paused /\ feed' = Append(feed, Resolve(Head(down)))
          /\ UNCHANGED withheld
       \/ /\ paused /\ UNCHANGED feed
          /\ withheld' = (withheld \/ Head(down).visit = visit)
    /\ UNCHANGED <<host, rt, out, in, view, visit, astray>>

----------------------------------------------------------------------------
\* The runtime.

\* Frames for a connection that is no member are not sent.
Sent(frame) == out' = IF rt.member THEN Append(out, frame) ELSE out

\* handleState, after which the frame is folded and broadcast.
Accepts(frame) ==
    ~rt.paused /\ frame.seq > rt.lastSeq /\ ~Oversized(frame.diff)

TakeState ==
    /\ feed # <<>> /\ Head(feed).type = "state"
    /\ feed' = Tail(feed)
    /\ \/ /\ Accepts(Head(feed))
          /\ rt' = [rt EXCEPT !.lastSeq = Head(feed).seq,
                              !.snapshot = Merge(@, Head(feed).diff)]
          /\ Sent(Head(feed))
       \/ ~Accepts(Head(feed)) /\ UNCHANGED <<rt, out>>
    /\ UNCHANGED <<host, down, in, watch>>

\* handleUpdate with "paused", and its ack.
TakeUpdate ==
    /\ feed # <<>> /\ Head(feed).type = "update"
    /\ feed' = Tail(feed)
    /\ rt' = [rt EXCEPT !.paused = Head(feed).paused]
    /\ down' = Append(down, [type |-> "ack"])
    /\ UNCHANGED <<host, out, in, watch>>

\* Mutant: a paused runtime drops answers as it drops states.
TakeAnswerUnlessPaused ==
    /\ feed # <<>> /\ Head(feed).type \in {"full", "diffs"}
    /\ feed' = Tail(feed)
    /\ \/ rt.paused /\ UNCHANGED out
       \/ ~rt.paused /\ Sent(Head(feed))
    /\ UNCHANGED <<host, down, rt, in, watch>>

\* handleSnapshotRes: to the viewer if it is still a member, paused or not.
TakeAnswer ==
    /\ feed # <<>> /\ Head(feed).type \in {"full", "diffs"}
    /\ feed' = Tail(feed)
    /\ Sent(Head(feed))
    /\ UNCHANGED <<host, down, rt, in, watch>>

\* handleSnapshotReq: a member's request goes to the host.
TakeRequest ==
    /\ in # <<>> /\ Head(in).type = "req"
    /\ in' = Tail(in)
    /\ down' = IF rt.member THEN Append(down, Head(in)) ELSE down
    /\ UNCHANGED <<host, feed, rt, out, watch>>

\* handleJoin: the ack carries the snapshot unless no frame has come yet.
TakeJoin ==
    /\ in # <<>> /\ Head(in).type = "join"
    /\ in' = Tail(in)
    /\ rt' = [rt EXCEPT !.member = TRUE]
    /\ out' = Append(out, [type |-> "joined",
                           seed |-> IF rt.lastSeq < 0 THEN Blank
                                                      ELSE rt.snapshot])
    /\ UNCHANGED <<host, feed, down, watch>>

\* handleLeave: only a member is answered.
TakeLeave ==
    /\ in # <<>> /\ Head(in).type = "leave"
    /\ in' = Tail(in)
    /\ rt' = [rt EXCEPT !.member = FALSE]
    /\ Sent([type |-> "left"])
    /\ UNCHANGED <<host, feed, down, watch>>

\* A kick, or a narrowed session: the viewer is told.
PutOut ==
    /\ rt.member
    /\ rt' = [rt EXCEPT !.member = FALSE]
    /\ out' = Append(out, [type |-> "kicked"])
    /\ UNCHANGED <<host, feed, down, in, watch>>

----------------------------------------------------------------------------
\* The viewer.

Mounted == view.mode \in {"in", "leaving"}

AskToJoin ==
    /\ view.mode = "out" /\ visit < MaxVisits
    /\ view' = [view EXCEPT !.mode = "joining"]
    /\ visit' = visit + 1
    /\ in' = Append(in, [type |-> "join"])
    /\ UNCHANGED <<host, feed, down, rt, out, withheld, astray>>

AskToLeave ==
    /\ view.mode = "in"
    /\ view' = [view EXCEPT !.mode = "leaving"]
    /\ in' = Append(in, [type |-> "leave"])
    /\ UNCHANGED <<host, feed, down, rt, out, visit, withheld, astray>>

Unmounted ==
    [mode |-> "out", snapshot |-> Blank, lastSeq |-> -1, awaiting |-> FALSE]

\* handleLeaveClick unmounts whether or not an answer comes.
LeaveTimesOut ==
    /\ view.mode = "leaving"
    /\ view' = Unmounted /\ withheld' = FALSE /\ astray' = FALSE
    /\ UNCHANGED <<host, feed, down, rt, out, in, visit>>

\* requestSnapshotFor: nothing while an earlier request is open.
Request ==
    IF view.awaiting THEN UNCHANGED <<view, in>>
    ELSE /\ view' = [view EXCEPT !.awaiting = TRUE]
         /\ in' = Append(in, [type |-> "req", visit |-> visit,
                                since |-> view.lastSeq])

\* Mutant: every newer frame is applied.
ApplyStateThroughGaps(frame) ==
    /\ frame.seq > view.lastSeq
    /\ view' = [view EXCEPT !.lastSeq = frame.seq,
                            !.snapshot = Merge(@, frame.diff)]
    /\ UNCHANGED in

\* applyStateFrame: the next frame is applied, an old one ignored, and one
\* after a gap is not applied but makes the consumer ask.
ApplyState(frame) ==
    \/ /\ frame.seq <= view.lastSeq
       /\ UNCHANGED <<view, in>>
    \/ /\ frame.seq = view.lastSeq + 1
       /\ view' = [view EXCEPT !.lastSeq = frame.seq,
                               !.snapshot = Merge(@, frame.diff)]
       /\ UNCHANGED in
    \/ /\ frame.seq > view.lastSeq + 1
       /\ Request

\* The last of some state frames.
Newest(entries) == CHOOSE e \in entries : \A x \in entries : x.seq <= e.seq

\* Diffs applied one after another: a key is what the newest that has it says.
Patched(snapshot, entries) ==
    [k \in Key |->
        LET setters == {e \in entries : k \in DOMAIN e.diff}
        IN  IF setters = {} THEN snapshot[k] ELSE Newest(setters).diff[k]]

\* applySnapshotRes: the whole state, or the diffs not seen yet in order.
ApplyAnswer(frame) ==
    /\ \/ /\ frame.type = "full"
          /\ view' = [view EXCEPT !.snapshot = frame.state,
                                  !.lastSeq = frame.seq, !.awaiting = FALSE]
       \/ /\ frame.type = "diffs"
          /\ LET fresh == {e \in frame.diffs : e.seq > view.lastSeq} IN
             view' = [view EXCEPT
                        !.snapshot = Patched(@, fresh),
                        !.lastSeq = IF fresh = {} THEN @ ELSE Newest(fresh).seq,
                        !.awaiting = FALSE]
    /\ UNCHANGED in

\* observeCoViewSession's switch; nothing observes unless mounted.
ViewerTakes ==
    /\ out # <<>>
    /\ out' = Tail(out)
    /\ LET frame == Head(out) IN
       \/ /\ frame.type = "joined" /\ view.mode = "joining"
          /\ view' = [Unmounted EXCEPT !.mode = "in",
                                       !.snapshot = frame.seed]
          /\ UNCHANGED in
       \/ /\ frame.type = "left" /\ view.mode = "leaving"
          /\ view' = Unmounted /\ UNCHANGED in
       \/ frame.type = "state" /\ Mounted /\ ApplyState(frame)
       \/ frame.type \in {"full", "diffs"} /\ Mounted /\ ApplyAnswer(frame)
       \/ frame.type = "kicked" /\ UNCHANGED <<view, in>>
       \/ /\ frame.type \in {"state", "full", "diffs", "left"}
          /\ view.mode \in {"out", "joining"}
          /\ UNCHANGED <<view, in>>
    /\ withheld' = (withheld /\ view.awaiting /\ view'.awaiting)
    /\ astray' = /\ view'.mode \in {"in", "leaving"}
                 /\ \/ astray
                    \/ /\ Head(out).type \in {"full", "diffs"}
                       /\ Head(out).visit # visit
    /\ UNCHANGED <<host, feed, down, rt, visit>>

----------------------------------------------------------------------------

Deliver ==
    \/ HostTakesAck \/ HostAnswers
    \/ TakeState \/ TakeUpdate \/ TakeAnswer
    \/ TakeRequest \/ TakeJoin \/ TakeLeave
    \/ ViewerTakes

StateNext ==
    \/ \E key \in Key : Change(key) \/ ChangeUnnoticed(key)
    \/ TogglePause \/ PutOut
    \/ AskToJoin \/ AskToLeave \/ LeaveTimesOut
    \/ Deliver

StateSpec == StateInit /\ [][StateNext]_stateVars

\* The sockets deliver and the handlers run; nobody has to edit, join or leave.
Fairness ==
    /\ WF_stateVars(HostTakesAck) /\ WF_stateVars(HostAnswers)
    /\ WF_stateVars(TakeState) /\ WF_stateVars(TakeUpdate) /\ WF_stateVars(TakeAnswer)
    /\ WF_stateVars(TakeRequest) /\ WF_stateVars(TakeJoin) /\ WF_stateVars(TakeLeave)
    /\ WF_stateVars(ViewerTakes)

FairSpec == StateSpec /\ Fairness

----------------------------------------------------------------------------

\* What a viewer shows once it has applied a frame is what the host's state
\* was when it gave that frame its number: gaps, answers and frames that the
\* runtime dropped leave no mixture of two states on the screen.
ViewerShowsHistory ==
    view.lastSeq >= 0 /\ ~astray => view.snapshot = hist[view.lastSeq + 1]

\* A viewer that shows a numbered state catches up with what the runtime has
\* accepted since, unless it goes, is put out, or the host withheld its answer.
CatchesUp ==
    LET behind == view.lastSeq \in 0..rt.lastSeq - 1
    IN  behind ~> \/ ~behind \/ withheld
                  \/ view.mode # "in" \/ ~rt.member

\* The channel implements the mirror that CoViewMirror promises.
MirrorMode ==
    IF ~Mounted THEN "dark" ELSE IF astray THEN "astray" ELSE "open"

Mirror == INSTANCE CoViewMirror WITH
    State <- Snapshot,
    history <- hist,
    mode <- MirrorMode,
    version <- IF MirrorMode = "open" THEN view.lastSeq + 1 ELSE 0,
    screen <- IF MirrorMode = "open" THEN view.snapshot ELSE Blank

ImplementsMirror == Mirror!Spec

\* A viewer that noticed a gap gets an answer, unless it goes or is put out:
\* what the pause gate of the host drops would not reach it anyway.
\* Not kept by the code: see the README.
GapIsFilled == view.awaiting ~> ~view.awaiting \/ ~rt.member

\* A viewer that is put out and told so stops showing the session.
\* Not kept by the code: see the README.
PutOutIsTakenDown ==
    Mounted /\ ~rt.member /\ out = <<>> /\ in = <<>> ~> ~Mounted
=============================================================================
