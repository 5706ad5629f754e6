--------------------------- MODULE CoViewSession ---------------------------
(***************************************************************************)
(* Co-View sessions in the runtime: runtime/src/co-view/handlers.ts over   *)
(* co-view/registry.ts, with the part of presence/ and of ws/router.ts     *)
(* they call. A connection starts a session and hosts it; others join,     *)
(* leave, are kicked or drop out when the session is narrowed; a host      *)
(* whose connection closes leaves a session that a grace timer ends.       *)
(*                                                                         *)
(* Every handler is synchronous: an action is one frame, one close or one  *)
(* timer. A connection id is a fresh UUID, so a connection that is gone    *)
(* never returns. Requests that are refused change nothing and are left    *)
(* out, except the update that is refused half-way. "inside" and "roster"  *)
(* are what the frames sent so far have told a client.                     *)
(***************************************************************************)
EXTENDS Naturals, FiniteSets

CONSTANTS
    Conn,           \* connections, each used once
    User, UserOf,   \* the account behind a connection
    Owners,         \* accounts connected with the role "owner"
    Hosts,          \* accounts with the permission to host
    Moderators,     \* accounts with the permission to moderate
    Session,        \* session ids, each used once
    WhiteLists, BlackLists,   \* the lists a host may send
    HardCap,        \* HARD_VIEWER_CAP
    Throttled,      \* accounts that may meet the presence rate limiter
    Nothing         \* an absent map entry, record or optional field

ASSUME ConnAssumption ==
    /\ UserOf \in [Conn -> User]
    /\ Nothing \notin Conn \cup Session
ASSUME ListAssumption ==
    /\ WhiteLists \subseteq SUBSET User /\ BlackLists \subseteq SUBSET User
    /\ Nothing \notin WhiteLists \cup BlackLists
ASSUME CapAssumption == HardCap \in Nat \ {0} /\ IsFiniteSet(Conn)

VARIABLES
    up,             \* connections the router knows: "new", "up" or "gone"
    unused,         \* session ids that generateSessionId() has not given yet
    session,        \* byId
    hostedBy,       \* byHostConnection
    linked,         \* bySessionConnection
    entries,        \* presence byScope: connections under session.<id>
    scopes,         \* presence byScope_session
    sees,           \* listSubscribers: the visible set of each subscription
    inside,         \* the sessions a client was told it takes part in
    roster,         \* the sessions a client was told of by list frames
    unapplied       \* history: sessions changed by an update that was refused

registry == <<unused, session, hostedBy, linked>>
presence == <<entries, scopes>>
vars == <<up, registry, presence, sees, inside, roster, unapplied>>

Visibility == {"public", "private"}

\* CoViewSessionInternal, without what only the state channel reads.
Record ==
    [host : Conn, visibility : Visibility, white : WhiteLists,
     black : BlackLists, members : SUBSET Conn, timer : BOOLEAN]

ASSUME NothingAssumption ==
    /\ Nothing \notin Visibility /\ Nothing \notin Record
    /\ \A S \in SUBSET Session : Nothing # S

Live(s) == session[s] # Nothing
Members(s) == IF Live(s) THEN session[s].members ELSE {}
Viewers(r) == r.members \ {r.host}
Connected == {c \in Conn : up[c] = "up"}

Init ==
    /\ up = [c \in Conn |-> "new"]
    /\ unused = Session
    /\ session = [s \in Session |-> Nothing]
    /\ hostedBy = [c \in Conn |-> Nothing]
    /\ linked = [c \in Conn |-> {}]
    /\ entries = [s \in Session |-> {}]
    /\ scopes = [c \in Conn |-> {}]
    /\ sees = [c \in Conn |-> Nothing]
    /\ inside = [c \in Conn |-> {}]
    /\ roster = [c \in Conn |-> {}]
    /\ unapplied = {}

\* isVisibleToUser(): the owner sees everything.
VisibleTo(r, u) ==
    \/ u \in Owners
    \/ r.visibility = "public" /\ u \notin r.black
    \/ r.visibility = "private" /\ u \in r.white

-----------------------------------------------------------------------------
(* Presence: the scope session.<id> of the runtime's own slug. join() and  *)
(* leave() are refused for a connection that is not active and by the rate *)
(* limiter; the handlers ignore a refused leave().                         *)

PresenceJoin(c, s) ==
    /\ entries' = [entries EXCEPT ![s] = @ \cup {c}]
    /\ scopes' = [scopes EXCEPT ![c] = @ \cup {s}]

PresenceDrop(C, s) ==
    /\ entries' = [entries EXCEPT ![s] = @ \ C]
    /\ scopes' = [c \in Conn |-> IF c \in C THEN scopes[c] \ {s} ELSE scopes[c]]

\* leave() for the connections of C; the limiter may refuse some of them.
PresenceLeave(C, s) ==
    LET limited == {c \in C \cap entries[s] : UserOf[c] \in Throttled}
    IN  \E refused \in SUBSET limited : PresenceDrop(C \ refused, s)

\* Variant of PresenceEvict: the entries of the scope index are forgotten.
PresenceForget(c) ==
    /\ scopes' = [scopes EXCEPT ![c] = {}]
    /\ UNCHANGED entries

\* evictSession(): whatever scopes the closing connection is in.
PresenceEvict(c) ==
    /\ entries' = [s \in Session |->
           IF s \in scopes[c] THEN entries[s] \ {c} ELSE entries[s]]
    /\ scopes' = [scopes EXCEPT ![c] = {}]

-----------------------------------------------------------------------------
(* The list of sessions: what each subscriber may see and what it is sent. *)

\* broadcastListChange() for session s with record r.
ListChange(s, r) ==
    LET shown(c) == c \in Connected /\ sees[c] # Nothing /\ VisibleTo(r, UserOf[c])
        lost(c)  == /\ c \in Connected /\ sees[c] # Nothing /\ s \in sees[c]
                    /\ ~VisibleTo(r, UserOf[c])
        after(set, c) == IF shown(c) THEN set \cup {s}
                         ELSE IF lost(c) THEN set \ {s} ELSE set
    IN  /\ sees' = [c \in Conn |-> after(sees[c], c)]
        /\ roster' = [c \in Conn |-> after(roster[c], c)]

\* Variant of ListRemoval: only those who can see the session are told.
ListRemovalIfVisible(s) ==
    LET told == {c \in Conn : /\ sees[c] # Nothing /\ s \in sees[c]
                              /\ VisibleTo(session[s], UserOf[c])}
    IN  /\ sees' = [c \in Conn |-> IF c \in told THEN sees[c] \ {s} ELSE sees[c]]
        /\ roster' = [c \in Conn |-> IF c \in told THEN roster[c] \ {s} ELSE roster[c]]

\* broadcastListRemoval(): only those who were shown the session are told.
ListRemoval(s) ==
    LET told == {c \in Conn : sees[c] # Nothing /\ s \in sees[c]}
    IN  /\ sees' = [c \in Conn |-> IF c \in told THEN sees[c] \ {s} ELSE sees[c]]
        /\ roster' = [c \in Conn |-> IF c \in told THEN roster[c] \ {s} ELSE roster[c]]

-----------------------------------------------------------------------------
(* What the handlers share.                                                *)

\* removeMember() for the viewers C of session s, whose record becomes r.
Drops(s, r, C) ==
    /\ session' = [session EXCEPT ![s] = [r EXCEPT !.members = @ \ C]]
    /\ linked' = [c \in Conn |-> IF c \in C THEN linked[c] \ {s} ELSE linked[c]]
    /\ UNCHANGED <<unused, hostedBy>>

\* The frames that take the clients of C out of s: "left", "ended" or an ack.
TellOut(C, s) ==
    inside' = [c \in Conn |-> IF c \in C THEN inside[c] \ {s} ELSE inside[c]]

\* Variant of RemoveMembers: those who stay are told, those who go are not.
RemoveMembersSilently(s, r, C) ==
    /\ Drops(s, r, C)
    /\ PresenceLeave(C, s)
    /\ UNCHANGED inside

\* removeMemberAndBroadcast() for one or, after an update, several viewers.
RemoveMembers(s, r, C) ==
    /\ Drops(s, r, C)
    /\ PresenceLeave(C, s)
    /\ TellOut(C, s)

\* Variant of Deleted: only the host is unlinked.
DeletedForHost(s) ==
    /\ session' = [session EXCEPT ![s] = Nothing]
    /\ hostedBy' = [hostedBy EXCEPT ![session[s].host] = Nothing]
    /\ linked' = [linked EXCEPT ![session[s].host] = @ \ {s}]
    /\ UNCHANGED unused

\* deleteSession(): the indexes of the host and of every member.
Deleted(s) ==
    /\ session' = [session EXCEPT ![s] = Nothing]
    /\ hostedBy' = [hostedBy EXCEPT ![session[s].host] = Nothing]
    /\ linked' = [c \in Conn |->
           IF c \in Members(s) THEN linked[c] \ {s} ELSE linked[c]]
    /\ UNCHANGED unused

\* endSession(), which also clears the grace timer (it is in the record).
EndSession(s) ==
    /\ PresenceLeave(Members(s), s)
    /\ Deleted(s)
    /\ TellOut(Members(s), s)
    /\ ListRemoval(s)
    /\ unapplied' = unapplied \ {s}
    /\ UNCHANGED up

\* Variant of Stale: the whitelist is not looked at again.
StaleBlacklisted(r) ==
    {c \in Viewers(r) : r.visibility = "public" /\ UserOf[c] \in r.black}

\* autoKickStaleMembers(): it makes no exception for owners.
Stale(r) ==
    {c \in Viewers(r) : \/ r.visibility = "public" /\ UserOf[c] \in r.black
                        \/ r.visibility = "private" /\ UserOf[c] \notin r.white}

-----------------------------------------------------------------------------
(* Frames.                                                                 *)

\* registerConnection()
Connect(c) ==
    /\ up[c] = "new"
    /\ up' = [up EXCEPT ![c] = "up"]
    /\ UNCHANGED <<registry, presence, sees, inside, roster, unapplied>>

\* handleStart(). A refused presence join takes the record out again.
Start(c, s, v, w, b) ==
    LET r == [host |-> c, visibility |-> v, white |-> w, black |-> b,
              members |-> {c}, timer |-> FALSE]
    IN  /\ up[c] = "up" /\ UserOf[c] \in Hosts
        /\ hostedBy[c] = Nothing
        /\ unused # {} /\ s = CHOOSE id \in unused : TRUE
        /\ unused' = unused \ {s}
        /\ session' = [session EXCEPT ![s] = r]
        /\ hostedBy' = [hostedBy EXCEPT ![c] = s]
        /\ linked' = [linked EXCEPT ![c] = @ \cup {s}]
        /\ PresenceJoin(c, s)
        /\ inside' = [inside EXCEPT ![c] = @ \cup {s}]
        /\ ListChange(s, r)
        /\ UNCHANGED <<up, unapplied>>

\* The fields of an update, in the order in which they are applied.
Updated(r, v, w, b) ==
    [r EXCEPT !.visibility = IF v = Nothing THEN @ ELSE v,
              !.white = IF w = Nothing THEN @ ELSE w,
              !.black = IF b = Nothing THEN @ ELSE b]

IsHost(c, s) == up[c] = "up" /\ Live(s) /\ session[s].host = c

\* handleUpdate(), accepted; "others" says that some other field changed.
Update(c, s, v, w, b, others) ==
    LET r == Updated(session[s], v, w, b)
        narrows == <<v, w, b>> # <<Nothing, Nothing, Nothing>>
        kicked == IF narrows THEN Stale(r) ELSE {}
        listed == \/ others \/ w # Nothing \/ b # Nothing \/ kicked # {}
                  \/ r.visibility # session[s].visibility
    IN  /\ IsHost(c, s)
        /\ RemoveMembers(s, r, kicked)
        /\ IF listed THEN ListChange(s, r) ELSE UNCHANGED <<sees, roster>>
        /\ unapplied' = IF narrows /\ listed THEN unapplied \ {s} ELSE unapplied
        /\ UNCHANGED up

\* handleUpdate(), refused for its redactions, which are validated after the
\* visibility and the lists have been assigned.
UpdateRefused(c, s, v, w, b) ==
    /\ IsHost(c, s)
    /\ session' = [session EXCEPT ![s] = Updated(@, v, w, b)]
    /\ session' # session
    /\ unapplied' = unapplied \cup {s}
    /\ UNCHANGED <<up, unused, hostedBy, linked, presence, sees, inside, roster>>

\* handleEnd(), and handleLeave() by the host.
End(c, s) == IsHost(c, s) /\ EndSession(s)

\* The gates of handleJoin() for a connection that is not the host's.
Admits(c, s) ==
    /\ VisibleTo(session[s], UserOf[c])
    /\ Cardinality(Viewers(session[s])) < HardCap

\* handleJoin(): addMember(), presence, ack. A refused presence join takes
\* the member out again.
Join(c, s) ==
    LET r == [session[s] EXCEPT !.members = @ \cup {c}]
    IN  /\ up[c] = "up" /\ Live(s)
        /\ c \notin Members(s)
        /\ Admits(c, s)
        /\ session' = [session EXCEPT ![s] = r]
        /\ linked' = [linked EXCEPT ![c] = @ \cup {s}]
        /\ PresenceJoin(c, s)
        /\ inside' = [inside EXCEPT ![c] = @ \cup {s}]
        /\ ListChange(s, r)
        /\ UNCHANGED <<up, unused, hostedBy, unapplied>>

\* handleJoin() by a member. The host is acked at once; a viewer meets the
\* gates before the runtime finds that it is in, so that in a full session it
\* is refused. The refusal takes nobody out, and the client (co-view/client.ts,
\* joinCoView) goes on showing what it showed: an ack alone tells it anything.
Rejoin(c, s) ==
    LET acked == c = session[s].host \/ Admits(c, s)
    IN  /\ up[c] = "up" /\ Live(s)
        /\ c \in Members(s)
        /\ inside' = IF acked THEN [inside EXCEPT ![c] = @ \cup {s}] ELSE inside
        /\ UNCHANGED <<up, registry, presence, sees, roster, unapplied>>

\* A viewer of s leaves it, whoever asked for it.
ViewerGoes(c, s) ==
    /\ RemoveMembers(s, session[s], {c})
    /\ ListChange(s, session[s])
    /\ UNCHANGED <<up, unapplied>>

\* handleLeave() by a viewer.
Leave(c, s) ==
    /\ up[c] = "up" /\ Live(s)
    /\ c \in Viewers(session[s])
    /\ ViewerGoes(c, s)

\* handleKick(): one connection of the target account, the host's if it is
\* the host's account, for the host was the first member.
Kick(c, s, target) ==
    /\ up[c] = "up" /\ Live(s)
    /\ session[s].host = c \/ UserOf[c] \in Moderators
    /\ target \in Members(s)
    /\ UserOf[target] = UserOf[session[s].host] => target = session[s].host
    /\ IF target = session[s].host THEN EndSession(s) ELSE ViewerGoes(target, s)

\* handleList(): the snapshot replaces the visible set.
List(c) ==
    LET shown == {s \in Session : Live(s) /\ VisibleTo(session[s], UserOf[c])}
    IN  /\ up[c] = "up"
        /\ sees' = [sees EXCEPT ![c] = shown]
        /\ roster' = [roster EXCEPT ![c] = shown]
        /\ UNCHANGED <<up, registry, presence, inside, unapplied>>

-----------------------------------------------------------------------------
(* The end of a connection.                                                *)

\* Variant of CloseRecord: the timer is armed only when viewers are there.
CloseRecordIfWatched(r, c) ==
    IF c = r.host THEN [r EXCEPT !.timer = Viewers(r) # {}]
    ELSE [r EXCEPT !.members = @ \ {c}]

\* handleConnectionClose() for one session: a host arms the grace timer.
CloseRecord(r, c) ==
    IF c = r.host THEN [r EXCEPT !.timer = TRUE]
    ELSE [r EXCEPT !.members = @ \ {c}]

\* removeConnection(): presence first, then the sessions of the connection.
\* The others are sent the roster of a session that lost a viewer.
Close(c) ==
    LET hosted == {s \in linked[c] : session[s].host = c}
        left == linked[c] \ hosted
        after(set, d) ==
            (set \cup {s \in left : VisibleTo(session[s], UserOf[d])})
                \ {s \in left : ~VisibleTo(session[s], UserOf[d])}
        listens(d) == d \in Connected \ {c} /\ sees[d] # Nothing
    IN  /\ up[c] = "up"
        /\ up' = [up EXCEPT ![c] = "gone"]
        /\ PresenceEvict(c)
        /\ session' = [s \in Session |->
               IF s \in linked[c] THEN CloseRecord(session[s], c) ELSE session[s]]
        /\ linked' = [linked EXCEPT ![c] = hosted]
        /\ sees' = [d \in Conn |-> IF d = c THEN Nothing
                    ELSE IF listens(d) THEN after(sees[d], d) ELSE sees[d]]
        /\ roster' = [d \in Conn |-> IF d = c THEN {}
                      ELSE IF listens(d) THEN after(roster[d], d) ELSE roster[d]]
        /\ inside' = [inside EXCEPT ![c] = {}]
        /\ UNCHANGED <<unused, hostedBy, unapplied>>

\* The grace timer: endSession() with the reason "host_lost".
GraceExpires(s) == Live(s) /\ session[s].timer /\ EndSession(s)

Field(S) == S \cup {Nothing}

Next ==
    \/ \E c \in Conn : Connect(c) \/ List(c) \/ Close(c)
    \/ \E c \in Conn, s \in Session : End(c, s) \/ Leave(c, s)
                                  \/ Join(c, s) \/ Rejoin(c, s)
    \/ \E c, target \in Conn, s \in Session : Kick(c, s, target)
    \/ \E c \in Conn, s \in Session, v \in Visibility,
           w \in WhiteLists, b \in BlackLists : Start(c, s, v, w, b)
    \/ \E c \in Conn, s \in Session, v \in Field(Visibility),
           w \in Field(WhiteLists), b \in Field(BlackLists) :
           \/ \E others \in BOOLEAN : Update(c, s, v, w, b, others)
           \/ UpdateRefused(c, s, v, w, b)
    \/ \E s \in Session : GraceExpires(s)

\* Fairness: the event loop fires an armed timer.
Spec == Init /\ [][Next]_vars /\ \A s \in Session : WF_vars(GraceExpires(s))

-----------------------------------------------------------------------------
(* Properties.                                                             *)

\* The variables have their types.
TypeOK ==
    /\ up \in [Conn -> {"new", "up", "gone"}]
    /\ unused \in SUBSET Session
    /\ session \in [Session -> Record \cup {Nothing}]
    /\ hostedBy \in [Conn -> Session \cup {Nothing}]
    /\ linked \in [Conn -> SUBSET Session]
    /\ entries \in [Session -> SUBSET Conn]
    /\ scopes \in [Conn -> SUBSET Session]
    /\ sees \in [Conn -> {Nothing} \cup SUBSET Session]
    /\ inside \in [Conn -> SUBSET Session]
    /\ roster \in [Conn -> SUBSET Session]
    /\ unapplied \in SUBSET Session

\* The three indexes of the registry speak of the same sessions: a connection
\* is found under exactly the sessions it is a member of, and hosts the one
\* whose record names it (co-view/registry.ts keeps them by hand).
IndexesAgree ==
    \A c \in Conn :
        /\ linked[c] = {s \in Session : c \in Members(s)}
        /\ \A s \in Session : hostedBy[c] = s <=> Live(s) /\ session[s].host = c

\* The presence scope of a session shows every connected member, shows nobody
\* whose connection is gone, and is found again from the connection; a leave
\* that the limiter refused may leave an entry until the connection closes.
PresenceFollowsMembers ==
    /\ \A s \in Session : Members(s) \cap Connected \subseteq entries[s]
    /\ \A s \in Session, c \in Conn : c \in entries[s] <=> s \in scopes[c]
    /\ \A s \in Session : entries[s] \subseteq Connected

\* Five indexes that are kept by hand speak of the same members.
RegistriesAgree == IndexesAgree /\ PresenceFollowsMembers

\* Whoever watches a session may see it, and at most HardCap do, however the
\* host has narrowed it since they joined; a refused update is excepted.
ViewersAreAdmitted ==
    \A s \in Session : Live(s) =>
        /\ Cardinality(Viewers(session[s])) <= HardCap
        /\ s \notin unapplied =>
              \A c \in Viewers(session[s]) : VisibleTo(session[s], UserOf[c])

\* A connected client was told to be in exactly the sessions it is in.
ClientsKnowWhereTheyAre ==
    \A c \in Connected : inside[c] = {s \in Session : c \in Members(s)}

\* What a subscriber was told by list frames is what the runtime believes it
\* was told, and is exactly the sessions it may see now.
RosterIsExact ==
    \A c \in Connected : sees[c] # Nothing =>
        /\ roster[c] = sees[c]
        /\ \A s \in Session \ unapplied :
              s \in roster[c] <=> Live(s) /\ VisibleTo(session[s], UserOf[c])

\* A session whose host is gone comes to an end (host_lost), unless somebody
\* ended it before.
HostLostEnds ==
    \A s \in Session :
        (Live(s) /\ session[s].host \notin Connected) ~> ~Live(s)

\* What the comment in handleUpdate() says of the viewers of a session: any
\* current member who no longer matches the visibility set is kicked.
\* Not kept by the code: see the README.
NarrowedViewersAreKicked ==
    \A s \in Session : Live(s) =>
        \A c \in Viewers(session[s]) : VisibleTo(session[s], UserOf[c])
=============================================================================
