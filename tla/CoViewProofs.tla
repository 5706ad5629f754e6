---------------------------- MODULE CoViewProofs ----------------------------
(***************************************************************************)
(* Proofs about Co-View. First about CoViewSession, for any connections,   *)
(* accounts, sessions and lists: its indexes agree, its viewers are        *)
(* admitted, its clients know where they are, and the rosters they were    *)
(* sent are exact. Then about CoViewState, for any keys, ring capacity and *)
(* bounds: what a viewer shows under a number is what the host had under   *)
(* it, and the channel implements the mirror.                              *)
(***************************************************************************)
EXTENDS CoViewSession, CoViewState, FiniteSetTheorems, SequenceTheorems,
        WellFoundedInduction, TLAPS

\* A session that is alive has its host among its members, and a new id.
RecordsFit ==
    \A s \in Session : Live(s) => s \notin unused /\ session[s].host \in session[s].members

\* Nobody has heard of a connection before it is there.
NewIsOutside ==
    \A c \in Conn : up[c] = "new" => /\ \A s \in Session : c \notin Members(s)
                                     /\ inside[c] = {} /\ sees[c] = Nothing

\* The properties, for one connection and one session at a time.
LinkedFits == \A c \in Conn, s \in Session : s \in linked[c] <=> c \in Members(s)

HostFits ==
    \A c \in Conn, s \in Session : hostedBy[c] = s <=> Live(s) /\ session[s].host = c

PresenceFits ==
    /\ \A c \in Conn, s \in Session : up[c] = "up" /\ c \in Members(s) => c \in entries[s]
    /\ \A c \in Conn, s \in Session : c \in entries[s] <=> s \in scopes[c]
    /\ \A c \in Conn, s \in Session : c \in entries[s] => up[c] = "up"

InsideFits ==
    \A c \in Conn, s \in Session : up[c] = "up" => (s \in inside[c] <=> c \in Members(s))

CapFits == \A s \in Session : Live(s) => Cardinality(Viewers(session[s])) <= HardCap

ViewersFit ==
    \A s \in Session \ unapplied : Live(s) =>
        \A c \in Viewers(session[s]) : VisibleTo(session[s], UserOf[c])

Shown(c, s) == Live(s) /\ VisibleTo(session[s], UserOf[c])

RosterFits ==
    \A c \in Conn : up[c] = "up" /\ sees[c] # Nothing =>
        roster[c] = sees[c] /\ \A s \in Session \ unapplied : s \in sees[c] <=> Shown(c, s)

Registry == RecordsFit /\ LinkedFits /\ HostFits
Clients == NewIsOutside /\ InsideFits /\ RosterFits
Viewing == CapFits /\ ViewersFit

IInv == TypeOK /\ Registry /\ PresenceFits /\ Clients /\ Viewing

-----------------------------------------------------------------------------
(* Records.                                                                *)

LEMMA RecordFacts ==
    ASSUME NEW r \in Record
    PROVE  /\ r.host \in Conn /\ r.members \in SUBSET Conn /\ r # Nothing
           /\ r.visibility \in Visibility /\ r.timer \in BOOLEAN
           /\ r.white \in WhiteLists /\ r.black \in BlackLists
BY NothingAssumption DEF Record

\* What VisibleTo() and autoKickStaleMembers() look at.
SameLists(r, q) ==
    r.visibility = q.visibility /\ r.white = q.white /\ r.black = q.black

LEMMA SameVisible ==
    ASSUME NEW r, NEW q, SameLists(r, q), NEW u PROVE VisibleTo(r, u) <=> VisibleTo(q, u)
BY DEF SameLists, VisibleTo

LEMMA MembersSet ==
    ASSUME NEW r \in Record, NEW M \in SUBSET Conn
    PROVE  LET q == [r EXCEPT !.members = M]
           IN  q \in Record /\ q.host = r.host /\ q.members = M /\ SameLists(q, r)
BY DEF Record, SameLists

LEMMA TimerSet ==
    ASSUME NEW r \in Record
    PROVE  LET q == [r EXCEPT !.timer = TRUE]
           IN  q \in Record /\ q.host = r.host /\ q.members = r.members /\ SameLists(q, r)
BY DEF Record, SameLists

LEMMA UpdatedFacts ==
    ASSUME NEW r \in Record, NEW v \in Field(Visibility), NEW w \in Field(WhiteLists),
           NEW b \in Field(BlackLists)
    PROVE  /\ Updated(r, v, w, b) \in Record
           /\ Updated(r, v, w, b).host = r.host
           /\ Updated(r, v, w, b).members = r.members
           /\ Updated(r, v, w, b).visibility = IF v = Nothing THEN r.visibility ELSE v
           /\ Updated(r, v, w, b).white = IF w = Nothing THEN r.white ELSE w
           /\ Updated(r, v, w, b).black = IF b = Nothing THEN r.black ELSE b
BY DEF Updated, Record, Field

\* Who is still there after an update may see the session.
LEMMA NotStale ==
    ASSUME NEW r \in Record, NEW c \in Viewers(r) \ Stale(r) PROVE VisibleTo(r, UserOf[c])
BY DEF Record, Visibility, Stale, VisibleTo

LEMMA CapOfFewer ==
    ASSUME NEW r \in Record, NEW q \in Record, Viewers(q) \subseteq Viewers(r),
           Cardinality(Viewers(r)) <= HardCap
    PROVE  Cardinality(Viewers(q)) <= HardCap
<1>1. IsFiniteSet(Viewers(r))
  BY FS_Subset, CapAssumption, RecordFacts DEF Viewers
<1>2. IsFiniteSet(Viewers(q)) /\ Cardinality(Viewers(q)) <= Cardinality(Viewers(r))
  BY <1>1, FS_Subset
<1>3. Cardinality(Viewers(q)) \in Nat /\ Cardinality(Viewers(r)) \in Nat /\ HardCap \in Nat
  BY <1>1, <1>2, FS_CardinalityType, CapAssumption
<1> QED BY <1>2, <1>3

LEMMA CapOfOneMore ==
    ASSUME NEW r \in Record, NEW q \in Record, NEW c \in Conn,
           q.host = r.host, q.members = r.members \cup {c},
           Cardinality(Viewers(r)) < HardCap
    PROVE  Cardinality(Viewers(q)) <= HardCap
<1>1. IsFiniteSet(Viewers(r))
  BY FS_Subset, CapAssumption, RecordFacts DEF Viewers
<1>2. Viewers(q) = Viewers(r) \/ Viewers(q) = Viewers(r) \cup {c}
  BY DEF Viewers
<1>3. Cardinality(Viewers(r) \cup {c}) \in {Cardinality(Viewers(r)), Cardinality(Viewers(r)) + 1}
  BY <1>1, FS_AddElement
<1>4. Cardinality(Viewers(r)) \in Nat /\ HardCap \in Nat
  BY <1>1, FS_CardinalityType, CapAssumption
<1> QED BY <1>2, <1>3, <1>4

-----------------------------------------------------------------------------
LEMMA InitIInv == Init => IInv
<1> SUFFICES ASSUME Init PROVE IInv
  OBVIOUS
<1>1. \A s \in Session : ~Live(s) /\ Members(s) = {}
  BY DEF Init, Live, Members
<1>2. TypeOK
  BY DEF Init, TypeOK
<1>3. Registry
  BY <1>1, ConnAssumption DEF Init, Registry, RecordsFit, LinkedFits, HostFits
<1>4. PresenceFits
  BY <1>1 DEF Init, PresenceFits
<1>5. Clients
  BY <1>1 DEF Init, Clients, NewIsOutside, InsideFits, RosterFits
<1>6. Viewing
  BY <1>1 DEF Viewing, CapFits, ViewersFit
<1> QED BY <1>2, <1>3, <1>4, <1>5, <1>6 DEF IInv

-----------------------------------------------------------------------------
(* What the handlers share.                                                *)

LEMMA OneRecord ==
    ASSUME TypeOK, NEW s \in Session, NEW r \in Record, session' = [session EXCEPT ![s] = r]
    PROVE  /\ session' \in [Session -> Record \cup {Nothing}]
           /\ session'[s] = r /\ Live(s)' /\ Members(s)' = r.members
           /\ \A t \in Session : t # s => /\ session'[t] = session[t]
                                          /\ Members(t)' = Members(t) /\ Live(t)' = Live(t)
BY RecordFacts DEF TypeOK, Live, Members

\* The record of a session changes, and the index of its members with it.
LEMMA RegistryKept ==
    ASSUME IInv, NEW s \in Session, NEW r \in Record, session' = [session EXCEPT ![s] = r],
           Live(s), r.host = session[s].host, r.host \in r.members,
           UNCHANGED <<unused, hostedBy>>,
           \A c \in Conn, t \in Session :
               t \in linked'[c] <=> IF t = s THEN c \in r.members ELSE t \in linked[c]
    PROVE  Registry'
<1>1. TypeOK /\ RecordsFit /\ LinkedFits /\ HostFits
  BY DEF IInv, Registry
<1>2. /\ session'[s] = r /\ Live(s)' /\ Members(s)' = r.members
      /\ \A t \in Session : t # s => /\ session'[t] = session[t]
                                     /\ Members(t)' = Members(t) /\ Live(t)' = Live(t)
  BY <1>1, OneRecord
<1>3. RecordsFit'
  BY <1>1, <1>2 DEF RecordsFit
<1>4. LinkedFits'
  BY <1>1, <1>2 DEF LinkedFits
<1>5. HostFits'
  BY <1>1, <1>2 DEF HostFits
<1> QED BY <1>3, <1>4, <1>5 DEF Registry

\* Members who go leave the presence scope, unless the limiter refuses.
LEMMA PresenceLeft ==
    ASSUME TypeOK, PresenceFits, NEW s \in Session, NEW C \in SUBSET Conn, PresenceLeave(C, s),
           up' = up,
           \A c \in Conn, t \in Session : c \in Members(t)' =>
               c \in Members(t) /\ ~(t = s /\ c \in C)
    PROVE  /\ PresenceFits'
           /\ entries' \in [Session -> SUBSET Conn] /\ scopes' \in [Conn -> SUBSET Session]
<1>1. PICK D \in SUBSET C : PresenceDrop(D, s)
  BY DEF PresenceLeave
<1>2. entries' \in [Session -> SUBSET Conn] /\ scopes' \in [Conn -> SUBSET Session]
  BY <1>1 DEF PresenceDrop, TypeOK
<1>3. \A c \in Conn, t \in Session :
          /\ c \in entries'[t] <=> c \in entries[t] /\ ~(t = s /\ c \in D)
          /\ t \in scopes'[c] <=> t \in scopes[c] /\ ~(t = s /\ c \in D)
  BY <1>1 DEF PresenceDrop, TypeOK
<1>4. PresenceFits'
  BY <1>3 DEF PresenceFits
<1> QED BY <1>2, <1>4

LEMMA PresenceJoined ==
    ASSUME TypeOK, PresenceFits, NEW s \in Session, NEW c \in Conn, PresenceJoin(c, s),
           up' = up, up[c] = "up",
           \A d \in Conn, t \in Session : d \in Members(t)' =>
               d \in Members(t) \/ (t = s /\ d = c)
    PROVE  /\ PresenceFits'
           /\ entries' \in [Session -> SUBSET Conn] /\ scopes' \in [Conn -> SUBSET Session]
<1>1. entries' \in [Session -> SUBSET Conn] /\ scopes' \in [Conn -> SUBSET Session]
  BY DEF PresenceJoin, TypeOK
<1>2. \A d \in Conn, t \in Session :
          /\ d \in entries'[t] <=> d \in entries[t] \/ (t = s /\ d = c)
          /\ t \in scopes'[d] <=> t \in scopes[d] \/ (t = s /\ d = c)
  BY DEF PresenceJoin, TypeOK
<1>3. PresenceFits'
  BY <1>2 DEF PresenceFits
<1> QED BY <1>1, <1>3

\* The list frames of a session make every roster right for it.
LEMMA ListChanged ==
    ASSUME TypeOK, RosterFits, NEW s \in Session, NEW r \in Record, NEW q, SameLists(q, r),
           ListChange(s, r), up' = up, session' = [session EXCEPT ![s] = q], q \in Record,
           unapplied \subseteq unapplied' \cup {s}
    PROVE  /\ RosterFits'
           /\ sees' \in [Conn -> {Nothing} \cup SUBSET Session]
           /\ roster' \in [Conn -> SUBSET Session]
           /\ \A c \in Conn : up[c] # "up" => sees'[c] = sees[c]
<1>1. \A c \in Conn :
        /\ up[c] # "up" \/ sees[c] = Nothing => sees'[c] = sees[c] /\ roster'[c] = roster[c]
        /\ up[c] = "up" /\ sees[c] # Nothing /\ VisibleTo(r, UserOf[c]) =>
              sees'[c] = sees[c] \cup {s} /\ roster'[c] = roster[c] \cup {s}
        /\ up[c] = "up" /\ sees[c] # Nothing /\ ~VisibleTo(r, UserOf[c]) /\ s \in sees[c] =>
              sees'[c] = sees[c] \ {s} /\ roster'[c] = roster[c] \ {s}
        /\ up[c] = "up" /\ sees[c] # Nothing /\ ~VisibleTo(r, UserOf[c]) /\ s \notin sees[c] =>
              sees'[c] = sees[c] /\ roster'[c] = roster[c]
  BY DEF ListChange, Connected
<1>2. DOMAIN sees' = Conn /\ DOMAIN roster' = Conn
  BY DEF ListChange
<1>3. /\ sees' \in [Conn -> {Nothing} \cup SUBSET Session]
      /\ roster' \in [Conn -> SUBSET Session]
  <2>1. \A c \in Conn : sees'[c] \in {Nothing} \cup SUBSET Session /\ roster'[c] \in SUBSET Session
    BY <1>1 DEF TypeOK
  <2> QED BY <1>2, <2>1 DEF ListChange
<1>4. /\ session'[s] = q /\ Live(s)'
      /\ \A t \in Session : t # s => session'[t] = session[t] /\ Live(t)' = Live(t)
  BY OneRecord
<1>5. ASSUME NEW c \in Conn, up'[c] = "up", sees'[c] # Nothing
      PROVE  roster'[c] = sees'[c] /\ \A t \in Session \ unapplied' : t \in sees'[c] <=> Shown(c, t)'
  <2>1. sees[c] # Nothing /\ sees[c] \in SUBSET Session
    BY <1>1, <1>5 DEF TypeOK
  <2>2. /\ roster[c] = sees[c]
        /\ \A t \in Session \ unapplied : t \in sees[c] <=> Shown(c, t)
    BY <1>5, <2>1 DEF RosterFits
  <2>3. roster'[c] = sees'[c] /\ (s \in sees'[c] <=> VisibleTo(r, UserOf[c]))
        /\ \A t \in Session : t # s => (t \in sees'[c] <=> t \in sees[c])
    BY <1>1, <1>5, <2>1, <2>2
  <2>4. Shown(c, s)' <=> VisibleTo(r, UserOf[c])
    BY <1>4, SameVisible DEF Shown
  <2>5. \A t \in Session : t # s => (Shown(c, t)' <=> Shown(c, t))
    BY <1>4 DEF Shown
  <2> QED BY <2>2, <2>3, <2>4, <2>5
<1> QED BY <1>1, <1>3, <1>5 DEF RosterFits

\* The lists of the sessions that count stay as they are, and so do the rosters.
LEMMA RosterKept ==
    ASSUME RosterFits, UNCHANGED <<sees, roster>>,
           \A c \in Conn : up'[c] = "up" => up[c] = "up" \/ sees[c] = Nothing,
           \A t \in Session \ unapplied' :
               /\ t \notin unapplied /\ (Live(t)' <=> Live(t))
               /\ Live(t) => SameLists(session'[t], session[t])
    PROVE  RosterFits'
<1>1. \A c \in Conn, t \in Session \ unapplied' : Shown(c, t)' <=> Shown(c, t)
  BY SameVisible DEF Shown
<1> QED BY <1>1 DEF RosterFits

\* Who was shown a session hears of its end.
LEMMA ListRemoved ==
    ASSUME TypeOK, RosterFits, NEW s \in Session, ListRemoval(s), up' = up,
           session' = [session EXCEPT ![s] = Nothing], unapplied' = unapplied \ {s}
    PROVE  /\ RosterFits'
           /\ sees' \in [Conn -> {Nothing} \cup SUBSET Session]
           /\ roster' \in [Conn -> SUBSET Session]
           /\ \A c \in Conn : sees[c] = Nothing => sees'[c] = Nothing
<1>1. \A c \in Conn :
        /\ sees[c] # Nothing /\ s \in sees[c] =>
              sees'[c] = sees[c] \ {s} /\ roster'[c] = roster[c] \ {s}
        /\ sees[c] = Nothing \/ s \notin sees[c] => sees'[c] = sees[c] /\ roster'[c] = roster[c]
  BY DEF ListRemoval
<1>2. /\ sees' \in [Conn -> {Nothing} \cup SUBSET Session]
      /\ roster' \in [Conn -> SUBSET Session]
  <2>1. \A c \in Conn : sees'[c] \in {Nothing} \cup SUBSET Session /\ roster'[c] \in SUBSET Session
    BY <1>1 DEF TypeOK
  <2> QED BY <2>1 DEF ListRemoval
<1>3. ~Live(s)' /\ \A t \in Session : t # s => session'[t] = session[t] /\ Live(t)' = Live(t)
  BY DEF TypeOK, Live
<1>4. ASSUME NEW c \in Conn, up'[c] = "up", sees'[c] # Nothing
      PROVE  roster'[c] = sees'[c] /\ \A t \in Session \ unapplied' : t \in sees'[c] <=> Shown(c, t)'
  <2>1. sees[c] # Nothing /\ sees[c] \in SUBSET Session
    BY <1>1, <1>4 DEF TypeOK
  <2>2. /\ roster[c] = sees[c]
        /\ \A t \in Session \ unapplied : t \in sees[c] <=> Shown(c, t)
    BY <1>4, <2>1 DEF RosterFits
  <2>3. roster'[c] = sees'[c] /\ s \notin sees'[c]
        /\ \A t \in Session : t # s => (t \in sees'[c] <=> t \in sees[c])
    BY <1>1, <2>1, <2>2
  <2>4. ~Shown(c, s)' /\ \A t \in Session : t # s => (Shown(c, t)' <=> Shown(c, t))
    BY <1>3 DEF Shown
  <2> QED BY <2>2, <2>3, <2>4
<1> QED BY <1>1, <1>2, <1>4 DEF RosterFits

\* Who watches what, when one record changes and nobody new watches.
LEMMA ViewingKept ==
    ASSUME TypeOK, Viewing, NEW s \in Session, NEW r \in Record,
           session' = [session EXCEPT ![s] = r],
           Cardinality(Viewers(r)) <= HardCap, unapplied \subseteq unapplied' \cup {s},
           s \notin unapplied' => \A c \in Viewers(r) : VisibleTo(r, UserOf[c])
    PROVE  Viewing'
<1>1. /\ session'[s] = r
      /\ \A t \in Session : t # s => session'[t] = session[t] /\ Live(t)' = Live(t)
  BY OneRecord
<1>2. CapFits'
  BY <1>1 DEF Viewing, CapFits
<1>3. ViewersFit'
  BY <1>1 DEF Viewing, ViewersFit
<1> QED BY <1>2, <1>3 DEF Viewing

-----------------------------------------------------------------------------
(* The actions.                                                            *)

LEMMA ConnectKeeps == ASSUME IInv, NEW c \in Conn, Connect(c) PROVE IInv'
<1>1. /\ up[c] = "new" /\ up' = [up EXCEPT ![c] = "up"]
      /\ UNCHANGED <<unused, session, hostedBy, linked, entries, scopes, sees, inside, roster, unapplied>>
  BY DEF Connect, registry, presence
<1>2. TypeOK'
  BY <1>1 DEF IInv, TypeOK
<1>3. up'[c] = "up" /\ \A d \in Conn : d # c => up'[d] = up[d]
  BY <1>1 DEF IInv, TypeOK
<1>4. Registry'
  BY <1>1 DEF IInv, Registry, RecordsFit, LinkedFits, HostFits, Live, Members
<1>5. /\ inside[c] = {} /\ sees[c] = Nothing
      /\ \A s \in Session : c \notin Members(s) /\ Members(s)' = Members(s) /\ Live(s)' = Live(s)
  BY <1>1 DEF IInv, Clients, NewIsOutside, Live, Members
<1>6. PresenceFits'
  BY <1>1, <1>3, <1>5 DEF IInv, PresenceFits
<1>7. NewIsOutside' /\ InsideFits'
  BY <1>1, <1>3, <1>5 DEF IInv, Clients, NewIsOutside, InsideFits
<1>8. RosterFits'
  <2>1. \A d \in Conn : up'[d] = "up" => up[d] = "up" \/ sees[d] = Nothing
    BY <1>3, <1>5
  <2>2. \A t \in Session \ unapplied' :
            /\ t \notin unapplied /\ (Live(t)' <=> Live(t))
            /\ Live(t) => SameLists(session'[t], session[t])
    BY <1>1, <1>5 DEF SameLists
  <2> QED BY <1>1, <2>1, <2>2, RosterKept DEF IInv, Clients
<1>9. Viewing'
  BY <1>1 DEF IInv, Viewing, CapFits, ViewersFit, Live
<1> QED BY <1>2, <1>4, <1>6, <1>7, <1>8, <1>9 DEF IInv, Clients

LEMMA ListKeeps == ASSUME IInv, NEW c \in Conn, List(c) PROVE IInv'
<1> DEFINE shown == {s \in Session : Live(s) /\ VisibleTo(session[s], UserOf[c])}
<1>1. /\ up[c] = "up" /\ sees' = [sees EXCEPT ![c] = shown] /\ roster' = [roster EXCEPT ![c] = shown]
      /\ UNCHANGED <<up, unused, session, hostedBy, linked, entries, scopes, inside, unapplied>>
  BY DEF List, registry, presence
<1>2. TypeOK'
  BY <1>1 DEF IInv, TypeOK
<1>3. \A s \in Session : Members(s)' = Members(s) /\ Live(s)' = Live(s)
  BY <1>1 DEF Live, Members
<1>4. Registry'
  BY <1>1, <1>3 DEF IInv, Registry, RecordsFit, LinkedFits, HostFits
<1>5. PresenceFits'
  BY <1>1, <1>3 DEF IInv, PresenceFits
<1>6. /\ sees'[c] = shown /\ roster'[c] = shown
      /\ \A d \in Conn : d # c => sees'[d] = sees[d] /\ roster'[d] = roster[d]
  BY <1>1 DEF IInv, TypeOK
<1>7. NewIsOutside' /\ InsideFits'
  BY <1>1, <1>3, <1>6 DEF IInv, Clients, NewIsOutside, InsideFits
<1>8. \A d \in Conn, s \in Session : Shown(d, s)' <=> Shown(d, s)
  BY <1>1 DEF Shown, Live
<1>9. \A s \in Session : s \in shown <=> Shown(c, s)
  BY DEF Shown
<1>10. RosterFits'
  BY <1>1, <1>6, <1>8, <1>9 DEF IInv, Clients, RosterFits
<1>11. Viewing'
  BY <1>1 DEF IInv, Viewing, CapFits, ViewersFit, Live
<1> QED BY <1>2, <1>4, <1>5, <1>7, <1>10, <1>11 DEF IInv, Clients

\* The members of s change in one step with what the clients were told.
LEMMA ClientsKept ==
    ASSUME TypeOK, NewIsOutside, InsideFits, up' = up, NEW s \in Session,
           \A c \in Conn, t \in Session : t # s => /\ c \in Members(t)' <=> c \in Members(t)
                                                   /\ t \in inside'[c] <=> t \in inside[c],
           inside' \in [Conn -> SUBSET Session],
           \A c \in Conn : \/ /\ s \in inside'[c] <=> s \in inside[c]
                              /\ c \in Members(s)' <=> c \in Members(s)
                           \/ up[c] # "new" /\ (s \in inside'[c] <=> c \in Members(s)')
                           \/ s \notin inside'[c] /\ c \notin Members(s)',
           \A c \in Conn : up[c] # "up" /\ sees[c] = Nothing => sees'[c] = Nothing
    PROVE  NewIsOutside' /\ InsideFits'
<1>1. InsideFits'
  BY DEF InsideFits
<1>2. ASSUME NEW c \in Conn, up'[c] = "new"
      PROVE  (\A t \in Session : c \notin Members(t)') /\ inside'[c] = {} /\ sees'[c] = Nothing
  <2>1. (\A t \in Session : c \notin Members(t)) /\ inside[c] = {} /\ sees[c] = Nothing
    BY <1>2 DEF NewIsOutside
  <2>2. \A t \in Session : c \notin Members(t)' /\ t \notin inside'[c]
    BY <1>2, <2>1
  <2> QED BY <1>2, <2>1, <2>2
<1>3. NewIsOutside'
  BY <1>2 DEF NewIsOutside
<1> QED BY <1>1, <1>3

LEMMA StartKeeps ==
    ASSUME IInv, NEW c \in Conn, NEW s \in Session, NEW v \in Visibility,
           NEW w \in WhiteLists, NEW b \in BlackLists, Start(c, s, v, w, b)
    PROVE  IInv'
<1> DEFINE r == [host |-> c, visibility |-> v, white |-> w, black |-> b,
                 members |-> {c}, timer |-> FALSE]
<1>0. TypeOK /\ Registry /\ PresenceFits /\ Clients /\ Viewing
  BY DEF IInv
<1>1. r \in Record /\ r.host = c /\ r.members = {c} /\ SameLists(r, r)
  BY DEF Record, SameLists
<1>2. /\ up[c] = "up" /\ hostedBy[c] = Nothing /\ s \in unused /\ unused' = unused \ {s}
      /\ session' = [session EXCEPT ![s] = r]
      /\ hostedBy' = [hostedBy EXCEPT ![c] = s] /\ linked' = [linked EXCEPT ![c] = @ \cup {s}]
      /\ PresenceJoin(c, s) /\ inside' = [inside EXCEPT ![c] = @ \cup {s}] /\ ListChange(s, r)
      /\ UNCHANGED <<up, unapplied>>
  BY DEF Start
<1> HIDE DEF r
<1>3. /\ session' \in [Session -> Record \cup {Nothing}]
      /\ session'[s] = r /\ Live(s)' /\ Members(s)' = {c}
      /\ \A t \in Session : t # s => /\ session'[t] = session[t]
                                     /\ Members(t)' = Members(t) /\ Live(t)' = Live(t)
  BY <1>0, <1>1, <1>2, OneRecord
<1>4. ~Live(s) /\ Members(s) = {}
  BY <1>0, <1>2 DEF Registry, RecordsFit, Members
<1>5. /\ unused' \in SUBSET Session /\ hostedBy' \in [Conn -> Session \cup {Nothing}]
      /\ linked' \in [Conn -> SUBSET Session] /\ inside' \in [Conn -> SUBSET Session]
  BY <1>0, <1>2 DEF TypeOK
<1>6. /\ hostedBy'[c] = s /\ linked'[c] = linked[c] \cup {s} /\ inside'[c] = inside[c] \cup {s}
      /\ \A d \in Conn : d # c => /\ hostedBy'[d] = hostedBy[d] /\ linked'[d] = linked[d]
                                  /\ inside'[d] = inside[d]
  BY <1>0, <1>2 DEF TypeOK
<1>7. RecordsFit'
  BY <1>0, <1>1, <1>2, <1>3 DEF Registry, RecordsFit
<1>8. LinkedFits'
  BY <1>0, <1>3, <1>4, <1>6 DEF Registry, LinkedFits
<1>9. HostFits'
  <2>1. \A t \in Session : t # Nothing
    BY ConnAssumption
  <2>2. \A t \in Session : Live(t) => session[t].host # c
    BY <1>0, <1>2, <2>1 DEF Registry, HostFits
  <2> QED BY <1>0, <1>1, <1>3, <1>4, <1>6, <2>2 DEF Registry, HostFits
<1>10. PresenceFits' /\ entries' \in [Session -> SUBSET Conn] /\ scopes' \in [Conn -> SUBSET Session]
  BY <1>0, <1>2, <1>3, PresenceJoined
<1>11. /\ RosterFits' /\ sees' \in [Conn -> {Nothing} \cup SUBSET Session]
       /\ roster' \in [Conn -> SUBSET Session]
       /\ \A d \in Conn : up[d] # "up" => sees'[d] = sees[d]
  BY <1>0, <1>1, <1>2, ListChanged DEF Clients
<1>12. NewIsOutside' /\ InsideFits'
  BY <1>0, <1>2, <1>3, <1>4, <1>5, <1>6, <1>11, ClientsKept DEF Clients
<1>13. Viewing'
  <2>1. Viewers(r) = {}
    BY <1>1 DEF Viewers
  <2>2. Cardinality(Viewers(r)) <= HardCap
    BY <2>1, FS_EmptySet, CapAssumption
  <2> QED BY <1>0, <1>1, <1>2, <2>1, <2>2, ViewingKept
<1>14. TypeOK'
  BY <1>0, <1>2, <1>3, <1>5, <1>10, <1>11 DEF TypeOK
<1> QED BY <1>7, <1>8, <1>9, <1>10, <1>11, <1>12, <1>13, <1>14 DEF IInv, Registry, Clients

LEMMA JoinKeeps ==
    ASSUME IInv, NEW c \in Conn, NEW s \in Session, Join(c, s) PROVE IInv'
<1> DEFINE r == [session[s] EXCEPT !.members = @ \cup {c}]
<1>0. TypeOK /\ Registry /\ PresenceFits /\ Clients /\ Viewing
  BY DEF IInv
<1>1. /\ up[c] = "up" /\ Live(s) /\ Admits(c, s)
      /\ session' = [session EXCEPT ![s] = r] /\ linked' = [linked EXCEPT ![c] = @ \cup {s}]
      /\ PresenceJoin(c, s) /\ inside' = [inside EXCEPT ![c] = @ \cup {s}] /\ ListChange(s, r)
      /\ UNCHANGED <<up, unused, hostedBy, unapplied>>
  BY DEF Join
<1>2. session[s] \in Record /\ Members(s) = session[s].members /\ session[s].members \in SUBSET Conn
  BY <1>0, <1>1, RecordFacts DEF TypeOK, Live, Members
<1>3. /\ r \in Record /\ r.host = session[s].host /\ r.members = session[s].members \cup {c}
      /\ SameLists(r, session[s]) /\ SameLists(r, r)
  BY <1>2, MembersSet DEF SameLists
<1> HIDE DEF r
<1>4. /\ session' \in [Session -> Record \cup {Nothing}]
      /\ session'[s] = r /\ Live(s)' /\ Members(s)' = r.members
      /\ \A t \in Session : t # s => /\ session'[t] = session[t]
                                     /\ Members(t)' = Members(t) /\ Live(t)' = Live(t)
  BY <1>0, <1>1, <1>3, OneRecord
<1>5. linked' \in [Conn -> SUBSET Session] /\ inside' \in [Conn -> SUBSET Session]
  BY <1>0, <1>1 DEF TypeOK
<1>6. /\ linked'[c] = linked[c] \cup {s} /\ inside'[c] = inside[c] \cup {s}
      /\ \A d \in Conn : d # c => linked'[d] = linked[d] /\ inside'[d] = inside[d]
  BY <1>0, <1>1 DEF TypeOK
<1>7. Registry'
  <2>1. r.host \in r.members
    BY <1>0, <1>1, <1>3 DEF Registry, RecordsFit
  <2>2. \A d \in Conn, t \in Session :
            t \in linked'[d] <=> IF t = s THEN d \in r.members ELSE t \in linked[d]
    BY <1>0, <1>2, <1>3, <1>6 DEF Registry, LinkedFits
  <2> QED BY <1>1, <1>3, <2>1, <2>2, RegistryKept
<1>8. PresenceFits' /\ entries' \in [Session -> SUBSET Conn] /\ scopes' \in [Conn -> SUBSET Session]
  BY <1>0, <1>1, <1>2, <1>3, <1>4, PresenceJoined
<1>9. /\ RosterFits' /\ sees' \in [Conn -> {Nothing} \cup SUBSET Session]
      /\ roster' \in [Conn -> SUBSET Session]
      /\ \A d \in Conn : up[d] # "up" => sees'[d] = sees[d]
  BY <1>0, <1>1, <1>3, ListChanged DEF Clients
<1>10. NewIsOutside' /\ InsideFits'
  BY <1>0, <1>1, <1>2, <1>3, <1>4, <1>5, <1>6, <1>9, ClientsKept DEF Clients
<1>11. Viewing'
  <2>1. Cardinality(Viewers(r)) <= HardCap
    BY <1>1, <1>2, <1>3, CapOfOneMore DEF Admits
  <2>2. ASSUME s \notin unapplied, NEW d \in Viewers(r) PROVE VisibleTo(r, UserOf[d])
    <3>1. VisibleTo(session[s], UserOf[d])
      BY <1>0, <1>1, <1>3, <2>2 DEF Admits, Viewing, ViewersFit, Viewers
    <3> QED BY <1>3, <3>1, SameVisible
  <2> QED BY <1>0, <1>1, <1>3, <2>1, <2>2, ViewingKept
<1>12. TypeOK'
  BY <1>0, <1>1, <1>4, <1>5, <1>8, <1>9 DEF TypeOK
<1> QED BY <1>7, <1>8, <1>9, <1>10, <1>11, <1>12 DEF IInv, Clients

\* removeMemberAndBroadcast(), for viewers of a record that may have changed.
LEMMA MembersRemoved ==
    ASSUME TypeOK, Registry, PresenceFits, Clients, NEW s \in Session, Live(s), NEW r \in Record,
           r.host = session[s].host, r.members = session[s].members,
           NEW C \in SUBSET Viewers(r), RemoveMembers(s, r, C), up' = up,
           \A c \in Conn : up[c] # "up" /\ sees[c] = Nothing => sees'[c] = Nothing,
           IInv
    PROVE  /\ [r EXCEPT !.members = @ \ C] \in Record
           /\ SameLists([r EXCEPT !.members = @ \ C], r)
           /\ Viewers([r EXCEPT !.members = @ \ C]) = Viewers(r) \ C
           /\ session' = [session EXCEPT ![s] = [r EXCEPT !.members = @ \ C]]
           /\ Registry' /\ PresenceFits' /\ NewIsOutside' /\ InsideFits'
           /\ session' \in [Session -> Record \cup {Nothing}]
           /\ linked' \in [Conn -> SUBSET Session] /\ inside' \in [Conn -> SUBSET Session]
           /\ entries' \in [Session -> SUBSET Conn] /\ scopes' \in [Conn -> SUBSET Session]
           /\ UNCHANGED <<unused, hostedBy>>
<1> DEFINE q == [r EXCEPT !.members = @ \ C]
<1>0. r.members \in SUBSET Conn /\ C \subseteq r.members /\ r.host \notin C
  BY RecordFacts DEF Viewers
<1>1. q \in Record /\ q.host = r.host /\ q.members = r.members \ C /\ SameLists(q, r)
  BY <1>0, MembersSet
<1>2. Viewers(q) = Viewers(r) \ C
  BY <1>1 DEF Viewers
<1>3. /\ session' = [session EXCEPT ![s] = q]
      /\ linked' = [c \in Conn |-> IF c \in C THEN linked[c] \ {s} ELSE linked[c]]
      /\ inside' = [c \in Conn |-> IF c \in C THEN inside[c] \ {s} ELSE inside[c]]
      /\ PresenceLeave(C, s) /\ UNCHANGED <<unused, hostedBy>>
  BY DEF RemoveMembers, Drops, TellOut
<1> HIDE DEF q
<1>4. /\ session' \in [Session -> Record \cup {Nothing}]
      /\ session'[s] = q /\ Live(s)' /\ Members(s)' = r.members \ C
      /\ \A t \in Session : t # s => /\ session'[t] = session[t]
                                     /\ Members(t)' = Members(t) /\ Live(t)' = Live(t)
  BY <1>1, <1>3, OneRecord
<1>5. Members(s) = r.members
  BY DEF Members
<1>6. linked' \in [Conn -> SUBSET Session] /\ inside' \in [Conn -> SUBSET Session]
  BY <1>3 DEF TypeOK
<1>7. Registry'
  <2>1. q.host \in q.members
    BY <1>0, <1>1 DEF Registry, RecordsFit
  <2>2. \A c \in Conn, t \in Session :
            t \in linked'[c] <=> IF t = s THEN c \in q.members ELSE t \in linked[c]
    BY <1>0, <1>1, <1>3, <1>5 DEF Registry, LinkedFits
  <2> QED BY <1>1, <1>3, <2>1, <2>2, RegistryKept
<1>8. PresenceFits' /\ entries' \in [Session -> SUBSET Conn] /\ scopes' \in [Conn -> SUBSET Session]
  <2>1. C \in SUBSET Conn
    BY <1>0
  <2>2. \A c \in Conn, t \in Session : c \in Members(t)' => c \in Members(t) /\ ~(t = s /\ c \in C)
    BY <1>4, <1>5
  <2> QED BY <1>3, <2>1, <2>2, PresenceLeft
<1>9. NewIsOutside' /\ InsideFits'
  <2>1. \A c \in Conn, t \in Session : t # s => /\ c \in Members(t)' <=> c \in Members(t)
                                                /\ t \in inside'[c] <=> t \in inside[c]
    BY <1>3, <1>4
  <2>2. \A c \in Conn : \/ /\ s \in inside'[c] <=> s \in inside[c]
                           /\ c \in Members(s)' <=> c \in Members(s)
                        \/ s \notin inside'[c] /\ c \notin Members(s)'
    BY <1>3, <1>4, <1>5
  <2> QED BY <1>6, <2>1, <2>2, ClientsKept DEF Clients
<1> QED BY <1>1, <1>2, <1>3, <1>4, <1>6, <1>7, <1>8, <1>9 DEF q

LEMMA ViewerGoesKeeps ==
    ASSUME IInv, NEW s \in Session, Live(s), NEW c \in Viewers(session[s]), ViewerGoes(c, s)
    PROVE  IInv'
<1> DEFINE r == session[s]
           q == [r EXCEPT !.members = @ \ {c}]
<1>0. TypeOK /\ Registry /\ PresenceFits /\ Clients /\ Viewing /\ r \in Record
  BY DEF IInv, TypeOK, Live
<1>1. RemoveMembers(s, r, {c}) /\ ListChange(s, r) /\ UNCHANGED <<up, unapplied>>
  BY DEF ViewerGoes
<1>2. \A d \in Conn : up[d] # "up" /\ sees[d] = Nothing => sees'[d] = Nothing
  BY <1>1 DEF ListChange, Connected
<1>3. {c} \in SUBSET Viewers(r)
  OBVIOUS
<1>4. /\ q \in Record /\ SameLists(q, r) /\ Viewers(q) = Viewers(r) \ {c}
      /\ session' = [session EXCEPT ![s] = q]
      /\ Registry' /\ PresenceFits' /\ NewIsOutside' /\ InsideFits'
      /\ session' \in [Session -> Record \cup {Nothing}]
      /\ linked' \in [Conn -> SUBSET Session] /\ inside' \in [Conn -> SUBSET Session]
      /\ entries' \in [Session -> SUBSET Conn] /\ scopes' \in [Conn -> SUBSET Session]
      /\ UNCHANGED <<unused, hostedBy>>
  BY <1>0, <1>1, <1>2, <1>3, MembersRemoved
<1> HIDE DEF q
<1>5. /\ RosterFits' /\ sees' \in [Conn -> {Nothing} \cup SUBSET Session]
      /\ roster' \in [Conn -> SUBSET Session]
  BY <1>0, <1>1, <1>4, ListChanged DEF Clients
<1>6. Viewing'
  <2>1. Cardinality(Viewers(q)) <= HardCap
    BY <1>0, <1>4, CapOfFewer DEF Viewing, CapFits
  <2>2. ASSUME s \notin unapplied, NEW d \in Viewers(q) PROVE VisibleTo(q, UserOf[d])
    <3>1. VisibleTo(r, UserOf[d])
      BY <1>0, <1>4, <2>2 DEF Viewing, ViewersFit
    <3> QED BY <1>4, <3>1, SameVisible
  <2> QED BY <1>0, <1>1, <1>4, <2>1, <2>2, ViewingKept
<1>7. TypeOK'
  BY <1>0, <1>1, <1>4, <1>5 DEF TypeOK
<1> QED BY <1>4, <1>5, <1>6, <1>7 DEF IInv, Clients

LEMMA UpdateKeeps ==
    ASSUME IInv, NEW c \in Conn, NEW s \in Session, NEW v \in Field(Visibility),
           NEW w \in Field(WhiteLists), NEW b \in Field(BlackLists), NEW others \in BOOLEAN,
           Update(c, s, v, w, b, others)
    PROVE  IInv'
<1> DEFINE r == Updated(session[s], v, w, b)
           narrows == <<v, w, b>> # <<Nothing, Nothing, Nothing>>
           kicked == IF narrows THEN Stale(r) ELSE {}
           q == [r EXCEPT !.members = @ \ kicked]
           listed == \/ others \/ w # Nothing \/ b # Nothing \/ kicked # {}
                     \/ r.visibility # session[s].visibility
<1>0. TypeOK /\ Registry /\ PresenceFits /\ Clients /\ Viewing
  BY DEF IInv
<1>1. /\ IsHost(c, s) /\ RemoveMembers(s, r, kicked) /\ up' = up
      /\ IF listed THEN ListChange(s, r) ELSE UNCHANGED <<sees, roster>>
      /\ unapplied' = IF narrows /\ listed THEN unapplied \ {s} ELSE unapplied
  BY DEF Update
<1>2. Live(s) /\ session[s] \in Record
  BY <1>0, <1>1 DEF IsHost, Live, TypeOK
<1>3. /\ r \in Record /\ r.host = session[s].host /\ r.members = session[s].members
      /\ r.visibility = IF v = Nothing THEN session[s].visibility ELSE v
      /\ r.white = IF w = Nothing THEN session[s].white ELSE w
      /\ r.black = IF b = Nothing THEN session[s].black ELSE b
  BY <1>2, UpdatedFacts
<1>4. kicked \in SUBSET Viewers(r)
  BY DEF Stale
<1>5. ~narrows => SameLists(r, session[s]) /\ kicked = {}
  BY <1>3 DEF SameLists
<1>6. ~listed => SameLists(r, session[s])
  BY <1>3 DEF SameLists
<1>7. \A d \in Viewers(r) \ kicked : narrows => VisibleTo(r, UserOf[d])
  BY <1>3, NotStale
<1>8. unapplied' \in SUBSET Session /\ unapplied \subseteq unapplied' \cup {s}
  BY <1>0, <1>1 DEF TypeOK
<1>9. s \notin unapplied' => narrows \/ s \notin unapplied
  BY <1>1
<1>10. ~listed => unapplied' = unapplied
  BY <1>1
<1> HIDE DEF r, narrows, listed, kicked
<1>11. \A d \in Conn : up[d] # "up" /\ sees[d] = Nothing => sees'[d] = Nothing
  BY <1>1 DEF ListChange, Connected
<1>12. /\ q \in Record /\ SameLists(q, r) /\ Viewers(q) = Viewers(r) \ kicked
       /\ session' = [session EXCEPT ![s] = q]
       /\ Registry' /\ PresenceFits' /\ NewIsOutside' /\ InsideFits'
       /\ session' \in [Session -> Record \cup {Nothing}]
       /\ linked' \in [Conn -> SUBSET Session] /\ inside' \in [Conn -> SUBSET Session]
       /\ entries' \in [Session -> SUBSET Conn] /\ scopes' \in [Conn -> SUBSET Session]
       /\ UNCHANGED <<unused, hostedBy>>
  BY <1>0, <1>1, <1>2, <1>3, <1>4, <1>11, MembersRemoved
<1> HIDE DEF q
<1>13. /\ RosterFits' /\ sees' \in [Conn -> {Nothing} \cup SUBSET Session]
       /\ roster' \in [Conn -> SUBSET Session]
  <2>1. CASE listed
    BY <1>0, <1>1, <1>3, <1>8, <1>12, <2>1, ListChanged DEF Clients
  <2>2. CASE ~listed
    <3>1. SameLists(q, session[s]) /\ UNCHANGED <<sees, roster, unapplied>>
      BY <1>1, <1>6, <1>10, <1>12, <2>2 DEF SameLists
    <3>2. /\ session'[s] = q /\ Live(s)'
          /\ \A t \in Session : t # s => session'[t] = session[t] /\ Live(t)' = Live(t)
      BY <1>0, <1>12, OneRecord
    <3>3. \A t \in Session \ unapplied' :
              /\ t \notin unapplied /\ (Live(t)' <=> Live(t))
              /\ Live(t) => SameLists(session'[t], session[t])
      BY <1>2, <3>1, <3>2 DEF SameLists
    <3>4. \A d \in Conn : up'[d] = "up" => up[d] = "up" \/ sees[d] = Nothing
      BY <1>1
    <3> QED BY <1>0, <3>1, <3>3, <3>4, RosterKept DEF Clients, TypeOK
  <2> QED BY <2>1, <2>2
<1>14. Viewing'
  <2>1. Viewers(q) \subseteq Viewers(session[s])
    BY <1>3, <1>12 DEF Viewers
  <2>2. Cardinality(Viewers(q)) <= HardCap
    BY <1>0, <1>2, <1>12, <2>1, CapOfFewer DEF Viewing, CapFits
  <2>3. ASSUME s \notin unapplied', NEW d \in Viewers(q) PROVE VisibleTo(q, UserOf[d])
    <3>1. CASE narrows
      <4>1. VisibleTo(r, UserOf[d])
        BY <1>7, <1>12, <2>3, <3>1
      <4> QED BY <1>12, <4>1, SameVisible
    <3>2. CASE ~narrows
      <4>1. VisibleTo(session[s], UserOf[d])
        BY <1>0, <1>2, <1>9, <2>1, <2>3, <3>2 DEF Viewing, ViewersFit
      <4>2. SameLists(q, session[s])
        BY <1>5, <1>12, <3>2 DEF SameLists
      <4> QED BY <4>1, <4>2, SameVisible
    <3> QED BY <3>1, <3>2
  <2> QED BY <1>0, <1>8, <1>12, <2>2, <2>3, ViewingKept
<1>15. TypeOK'
  BY <1>0, <1>1, <1>8, <1>12, <1>13 DEF TypeOK
<1> QED BY <1>12, <1>13, <1>14, <1>15 DEF IInv, Clients

LEMMA UpdateRefusedKeeps ==
    ASSUME IInv, NEW c \in Conn, NEW s \in Session, NEW v \in Field(Visibility),
           NEW w \in Field(WhiteLists), NEW b \in Field(BlackLists),
           UpdateRefused(c, s, v, w, b)
    PROVE  IInv'
<1> DEFINE r == Updated(session[s], v, w, b)
<1>0. TypeOK /\ Registry /\ PresenceFits /\ Clients /\ Viewing
  BY DEF IInv
<1>1. /\ IsHost(c, s) /\ session' = [session EXCEPT ![s] = r] /\ unapplied' = unapplied \cup {s}
      /\ UNCHANGED <<up, unused, hostedBy, linked, entries, scopes, sees, inside, roster>>
  BY DEF UpdateRefused, presence
<1>2. Live(s) /\ session[s] \in Record /\ Members(s) = session[s].members
  BY <1>0, <1>1 DEF IsHost, Live, TypeOK, Members
<1>3. r \in Record /\ r.host = session[s].host /\ r.members = session[s].members
  BY <1>2, UpdatedFacts
<1> HIDE DEF r
<1>4. /\ session' \in [Session -> Record \cup {Nothing}]
      /\ session'[s] = r /\ Live(s)' /\ Members(s)' = r.members
      /\ \A t \in Session : t # s => /\ session'[t] = session[t]
                                     /\ Members(t)' = Members(t) /\ Live(t)' = Live(t)
  BY <1>0, <1>1, <1>3, OneRecord
<1>5. Registry'
  <2>1. r.host \in r.members
    BY <1>0, <1>2, <1>3 DEF Registry, RecordsFit
  <2>2. \A d \in Conn, t \in Session :
            t \in linked'[d] <=> IF t = s THEN d \in r.members ELSE t \in linked[d]
    BY <1>0, <1>1, <1>2, <1>3 DEF Registry, LinkedFits
  <2> QED BY <1>1, <1>2, <1>3, <2>1, <2>2, RegistryKept
<1>6. \A t \in Session : Members(t)' = Members(t)
  BY <1>2, <1>3, <1>4
<1>7. PresenceFits' /\ NewIsOutside' /\ InsideFits'
  BY <1>0, <1>1, <1>6 DEF PresenceFits, Clients, NewIsOutside, InsideFits
<1>8. RosterFits'
  <2>1. \A t \in Session \ unapplied' :
            /\ t \notin unapplied /\ (Live(t)' <=> Live(t))
            /\ Live(t) => SameLists(session'[t], session[t])
    BY <1>1, <1>4 DEF SameLists
  <2> QED BY <1>0, <1>1, <2>1, RosterKept DEF Clients
<1>9. Viewing'
  <2>1. Viewers(r) = Viewers(session[s])
    BY <1>3 DEF Viewers
  <2>2. Cardinality(Viewers(r)) <= HardCap
    BY <1>0, <1>2, <2>1 DEF Viewing, CapFits
  <2> QED BY <1>0, <1>1, <1>3, <2>2, ViewingKept
<1>10. TypeOK'
  BY <1>0, <1>1, <1>4 DEF TypeOK
<1> QED BY <1>5, <1>7, <1>8, <1>9, <1>10 DEF IInv, Clients

LEMMA EndKeeps == ASSUME IInv, NEW s \in Session, Live(s), EndSession(s) PROVE IInv'
<1> DEFINE h == session[s].host
           M == Members(s)
<1>0. TypeOK /\ Registry /\ PresenceFits /\ Clients /\ Viewing
  BY DEF IInv
<1>1. /\ PresenceLeave(M, s) /\ ListRemoval(s) /\ UNCHANGED <<up, unused>>
      /\ session' = [session EXCEPT ![s] = Nothing]
      /\ hostedBy' = [hostedBy EXCEPT ![h] = Nothing]
      /\ linked' = [c \in Conn |-> IF c \in M THEN linked[c] \ {s} ELSE linked[c]]
      /\ inside' = [c \in Conn |-> IF c \in M THEN inside[c] \ {s} ELSE inside[c]]
      /\ unapplied' = unapplied \ {s}
  BY DEF EndSession, Deleted, TellOut
<1>2. session[s] \in Record /\ h \in Conn /\ M \in SUBSET Conn
  BY <1>0, RecordFacts DEF TypeOK, Live, Members
<1>3. /\ session' \in [Session -> Record \cup {Nothing}]
      /\ ~Live(s)' /\ Members(s)' = {}
      /\ \A t \in Session : t # s => /\ session'[t] = session[t]
                                     /\ Members(t)' = Members(t) /\ Live(t)' = Live(t)
  BY <1>0, <1>1 DEF TypeOK, Live, Members
<1>4. /\ hostedBy' \in [Conn -> Session \cup {Nothing}] /\ linked' \in [Conn -> SUBSET Session]
      /\ inside' \in [Conn -> SUBSET Session] /\ unapplied' \in SUBSET Session
  BY <1>0, <1>1 DEF TypeOK
<1>5. RecordsFit'
  BY <1>0, <1>1, <1>3 DEF Registry, RecordsFit
<1>6. LinkedFits'
  BY <1>0, <1>1, <1>3 DEF Registry, LinkedFits
<1>7. HostFits'
  <2>1. hostedBy'[h] = Nothing /\ \A d \in Conn : d # h => hostedBy'[d] = hostedBy[d]
    BY <1>0, <1>1, <1>2 DEF TypeOK
  <2>2. hostedBy[h] = s /\ \A t \in Session : t # Nothing
    BY <1>0, <1>2, ConnAssumption DEF Registry, HostFits
  <2>3. \A t \in Session : t # s /\ Live(t) => session[t].host # h
    BY <1>0, <1>2, <2>2 DEF Registry, HostFits
  <2>4. \A d \in Conn : hostedBy[d] = s => d = h
    BY <1>0 DEF Registry, HostFits
  <2> QED BY <1>0, <1>3, <2>1, <2>2, <2>3, <2>4 DEF Registry, HostFits
<1>8. PresenceFits' /\ entries' \in [Session -> SUBSET Conn] /\ scopes' \in [Conn -> SUBSET Session]
  <2>1. \A c \in Conn, t \in Session : c \in Members(t)' => c \in Members(t) /\ ~(t = s /\ c \in M)
    BY <1>3
  <2> QED BY <1>0, <1>1, <1>2, <2>1, PresenceLeft
<1>9. /\ RosterFits' /\ sees' \in [Conn -> {Nothing} \cup SUBSET Session]
      /\ roster' \in [Conn -> SUBSET Session]
      /\ \A c \in Conn : sees[c] = Nothing => sees'[c] = Nothing
  BY <1>0, <1>1, ListRemoved DEF Clients
<1>10. NewIsOutside' /\ InsideFits'
  <2>1. \A c \in Conn, t \in Session : t # s => /\ c \in Members(t)' <=> c \in Members(t)
                                                /\ t \in inside'[c] <=> t \in inside[c]
    BY <1>1, <1>3
  <2>2. \A c \in Conn : \/ /\ s \in inside'[c] <=> s \in inside[c]
                           /\ c \in Members(s)' <=> c \in Members(s)
                        \/ s \notin inside'[c] /\ c \notin Members(s)'
    BY <1>1, <1>3
  <2> QED BY <1>0, <1>1, <1>4, <1>9, <2>1, <2>2, ClientsKept DEF Clients
<1>11. Viewing'
  BY <1>0, <1>1, <1>3 DEF Viewing, CapFits, ViewersFit
<1>12. TypeOK'
  BY <1>0, <1>1, <1>3, <1>4, <1>8, <1>9 DEF TypeOK
<1> QED BY <1>5, <1>6, <1>7, <1>8, <1>9, <1>10, <1>11, <1>12 DEF IInv, Registry, Clients

\* removeConnection(): a host stays in the sessions it hosts.
LEMMA CloseKeeps == ASSUME IInv, NEW c \in Conn, Close(c) PROVE IInv'
<1> DEFINE hosted == {s \in linked[c] : session[s].host = c}
           gone == linked[c] \ hosted
           visible(d) == {s \in gone : VisibleTo(session[s], UserOf[d])}
           hidden(d) == {s \in gone : ~VisibleTo(session[s], UserOf[d])}
           listens(d) == d \in Connected \ {c} /\ sees[d] # Nothing
<1>0. TypeOK /\ Registry /\ PresenceFits /\ Clients /\ Viewing
  BY DEF IInv
<1>1. /\ up[c] = "up" /\ up' = [up EXCEPT ![c] = "gone"] /\ PresenceEvict(c)
      /\ session' = [s \in Session |->
             IF s \in linked[c] THEN CloseRecord(session[s], c) ELSE session[s]]
      /\ linked' = [linked EXCEPT ![c] = hosted] /\ inside' = [inside EXCEPT ![c] = {}]
      /\ UNCHANGED <<unused, hostedBy, unapplied>>
  BY DEF Close
<1>2. /\ sees' = [d \in Conn |-> IF d = c THEN Nothing
                    ELSE IF listens(d) THEN (sees[d] \cup visible(d)) \ hidden(d) ELSE sees[d]]
      /\ roster' = [d \in Conn |-> IF d = c THEN {}
                    ELSE IF listens(d) THEN (roster[d] \cup visible(d)) \ hidden(d) ELSE roster[d]]
  BY DEF Close
<1>3. /\ linked[c] \in SUBSET Session
      /\ \A s \in Session : s \in linked[c] <=> c \in Members(s)
      /\ \A s \in Session : s \in gone <=> c \in Members(s) /\ session[s].host # c
  BY <1>0 DEF TypeOK, Registry, LinkedFits
<1>4. \A s \in linked[c] : Live(s) /\ session[s] \in Record
  BY <1>0, <1>3 DEF TypeOK, Live, Members
<1>5. ASSUME NEW s \in Session
      PROVE  /\ session'[s] \in Record \cup {Nothing} /\ Live(s)' = Live(s)
             /\ Live(s) => session'[s].host = session[s].host /\ SameLists(session'[s], session[s])
             /\ \A d \in Conn : d \in Members(s)' <=> d \in Members(s) /\ ~(d = c /\ s \in gone)
             /\ Live(s) => \A d \in Viewers(session'[s]) : d \in Viewers(session[s])
  <2>1. CASE s \notin linked[c]
    <3>1. session'[s] = session[s]
      BY <1>1, <2>1
    <3> QED BY <1>0, <2>1, <3>1 DEF TypeOK, Live, Members, SameLists
  <2>2. CASE s \in linked[c] /\ session[s].host = c
    <3>1. session'[s] = [session[s] EXCEPT !.timer = TRUE]
      BY <1>1, <2>2 DEF CloseRecord
    <3>2. /\ session'[s] \in Record /\ session'[s].host = session[s].host
          /\ session'[s].members = session[s].members /\ SameLists(session'[s], session[s])
      BY <1>4, <2>2, <3>1, TimerSet
    <3> QED BY <1>4, <2>2, <3>2, RecordFacts DEF Live, Members, Viewers
  <2>3. CASE s \in linked[c] /\ session[s].host # c
    <3>1. session'[s] = [session[s] EXCEPT !.members = session[s].members \ {c}]
      BY <1>1, <2>3 DEF CloseRecord
    <3>2. session[s].members \ {c} \in SUBSET Conn
      BY <1>4, <2>3, RecordFacts
    <3>3. /\ session'[s] \in Record /\ session'[s].host = session[s].host
          /\ session'[s].members = session[s].members \ {c} /\ SameLists(session'[s], session[s])
      BY <1>4, <2>3, <3>1, <3>2, MembersSet
    <3> QED BY <1>3, <1>4, <2>3, <3>3, RecordFacts DEF Live, Members, Viewers
  <2> QED BY <2>1, <2>2, <2>3
<1>6. up'[c] = "gone" /\ \A d \in Conn : d # c => up'[d] = up[d]
  BY <1>0, <1>1 DEF TypeOK
<1>7. RecordsFit'
  <2>1. ASSUME NEW s \in Session, Live(s) PROVE session'[s].host \in session'[s].members
    <3>1. session[s].host \in Members(s) /\ session[s].host \in Conn
      BY <1>0, <2>1, RecordFacts DEF Registry, RecordsFit, TypeOK, Live, Members
    <3>2. session[s].host \in Members(s)'
      BY <1>3, <1>5, <3>1
    <3> QED BY <1>5, <2>1, <3>2 DEF Members
  <2> QED BY <1>0, <1>1, <1>5, <2>1 DEF Registry, RecordsFit
<1>8. LinkedFits'
  <2>1. linked'[c] = hosted /\ \A d \in Conn : d # c => linked'[d] = linked[d]
    BY <1>0, <1>1 DEF TypeOK
  <2>2. \A s \in Session : s \in hosted <=> s \in linked[c] /\ s \notin gone
    OBVIOUS
  <2> QED BY <1>0, <1>3, <1>5, <2>1, <2>2 DEF Registry, LinkedFits
<1>9. HostFits'
  BY <1>0, <1>1, <1>5 DEF Registry, HostFits
<1>10. PresenceFits' /\ entries' \in [Session -> SUBSET Conn] /\ scopes' \in [Conn -> SUBSET Session]
  <2>1. entries' \in [Session -> SUBSET Conn] /\ scopes' \in [Conn -> SUBSET Session]
    BY <1>0, <1>1 DEF PresenceEvict, TypeOK
  <2>2. \A d \in Conn, t \in Session :
            /\ d \in entries'[t] <=> d \in entries[t] /\ d # c
            /\ t \in scopes'[d] <=> t \in scopes[d] /\ d # c
    BY <1>0, <1>1 DEF PresenceEvict, TypeOK, PresenceFits
  <2>3. PresenceFits'
    BY <1>0, <1>5, <1>6, <2>2 DEF PresenceFits
  <2> QED BY <2>1, <2>3
<1>11. inside'[c] = {} /\ sees'[c] = Nothing /\ \A d \in Conn : d # c => inside'[d] = inside[d]
  BY <1>0, <1>1, <1>2 DEF TypeOK
<1>12. \A d \in Conn : d # c => \/ listens(d) /\ sees[d] # Nothing /\ up[d] = "up"
                                   /\ sees'[d] = (sees[d] \cup visible(d)) \ hidden(d)
                                   /\ roster'[d] = (roster[d] \cup visible(d)) \ hidden(d)
                                \/ (up[d] # "up" \/ sees[d] = Nothing) /\ sees'[d] = sees[d]
                                   /\ roster'[d] = roster[d]
  BY <1>2 DEF Connected
<1>13. NewIsOutside' /\ InsideFits'
  <2>1. InsideFits'
    BY <1>0, <1>5, <1>6, <1>11 DEF Clients, InsideFits
  <2>2. NewIsOutside'
    <3> SUFFICES ASSUME NEW d \in Conn, up'[d] = "new"
                 PROVE  /\ \A s \in Session : d \notin Members(s)'
                        /\ inside'[d] = {} /\ sees'[d] = Nothing
      BY DEF NewIsOutside
    <3>1. d # c /\ up[d] = "new"
      BY <1>6
    <3>2. (\A s \in Session : d \notin Members(s)) /\ inside[d] = {} /\ sees[d] = Nothing
      BY <1>0, <3>1 DEF Clients, NewIsOutside
    <3> QED BY <1>5, <1>11, <1>12, <3>1, <3>2
  <2> QED BY <2>1, <2>2
<1>14. /\ sees' \in [Conn -> {Nothing} \cup SUBSET Session]
       /\ roster' \in [Conn -> SUBSET Session]
  <2>1. \A d \in Conn : sees[d] # Nothing => sees[d] \in SUBSET Session
    BY <1>0 DEF TypeOK
  <2>2. \A d \in Conn : visible(d) \in SUBSET Session
    BY <1>3
  <2> QED BY <1>0, <1>2, <2>1, <2>2 DEF TypeOK
<1>15. RosterFits'
  <2> SUFFICES ASSUME NEW d \in Conn, up'[d] = "up", sees'[d] # Nothing
               PROVE  /\ roster'[d] = sees'[d]
                      /\ \A t \in Session \ unapplied' : t \in sees'[d] <=> Shown(d, t)'
    BY DEF RosterFits
  <2>1. d # c /\ up[d] = "up"
    BY <1>6, <1>11
  <2>2. /\ sees[d] # Nothing
        /\ sees'[d] = (sees[d] \cup visible(d)) \ hidden(d)
        /\ roster'[d] = (roster[d] \cup visible(d)) \ hidden(d)
    BY <1>12, <2>1
  <2>3. roster[d] = sees[d] /\ \A t \in Session \ unapplied : t \in sees[d] <=> Shown(d, t)
    BY <1>0, <2>1, <2>2 DEF Clients, RosterFits
  <2>4. \A t \in Session : Shown(d, t)' <=> Shown(d, t)
    BY <1>5, SameVisible DEF Shown
  <2>5. \A t \in gone : Shown(d, t) <=> VisibleTo(session[t], UserOf[d])
    BY <1>4 DEF Shown
  <2> QED BY <1>1, <2>2, <2>3, <2>4, <2>5
<1>16. Viewing'
  <2>1. ASSUME NEW s \in Session, Live(s)'
        PROVE  /\ Cardinality(Viewers(session'[s])) <= HardCap
               /\ s \notin unapplied => \A d \in Viewers(session'[s]) : VisibleTo(session'[s], UserOf[d])
    <3>1. Live(s) /\ session[s] \in Record /\ session'[s] \in Record
      BY <1>0, <1>5, <2>1 DEF TypeOK, Live
    <3>2. Viewers(session'[s]) \subseteq Viewers(session[s])
      BY <1>5, <3>1
    <3>3. Cardinality(Viewers(session'[s])) <= HardCap
      BY <1>0, <3>1, <3>2, CapOfFewer DEF Viewing, CapFits
    <3>4. ASSUME s \notin unapplied, NEW d \in Viewers(session'[s])
          PROVE  VisibleTo(session'[s], UserOf[d])
      <4>1. VisibleTo(session[s], UserOf[d])
        BY <1>0, <3>1, <3>2, <3>4 DEF Viewing, ViewersFit
      <4>2. SameLists(session'[s], session[s])
        BY <1>5, <3>1
      <4> QED BY <4>1, <4>2, SameVisible
    <3> QED BY <3>3, <3>4
  <2> QED BY <1>1, <2>1 DEF Viewing, CapFits, ViewersFit
<1>17. TypeOK'
  <2>1. session' \in [Session -> Record \cup {Nothing}]
    BY <1>1, <1>5
  <2>2. up' \in [Conn -> {"new", "up", "gone"}] /\ inside' \in [Conn -> SUBSET Session]
    BY <1>0, <1>1 DEF TypeOK
  <2>3. linked' \in [Conn -> SUBSET Session]
    BY <1>0, <1>1, <1>3 DEF TypeOK
  <2> QED BY <1>0, <1>1, <1>10, <1>14, <2>1, <2>2, <2>3 DEF TypeOK
<1> QED BY <1>7, <1>8, <1>9, <1>10, <1>13, <1>15, <1>16, <1>17 DEF IInv, Registry, Clients

-----------------------------------------------------------------------------
\* A member that joins again is told nothing it has not been told before.
LEMMA RejoinIsIdle ==
    ASSUME IInv, NEW c \in Conn, NEW s \in Session, Rejoin(c, s) PROVE UNCHANGED vars
<1>1. s \in inside[c]
  BY DEF Rejoin, IInv, Clients, InsideFits
<1>2. [inside EXCEPT ![c] = @ \cup {s}] = inside
  BY <1>1 DEF IInv, TypeOK
<1> QED BY <1>2 DEF Rejoin, vars

LEMMA UnchangedKeeps == ASSUME IInv, UNCHANGED vars PROVE IInv'
<1>1. /\ UNCHANGED <<up, unused, session, hostedBy, linked, entries, scopes, sees, inside, roster,
                     unapplied>>
  BY DEF vars, registry, presence
<1>2. TypeOK' /\ Registry'
  BY <1>1 DEF IInv, TypeOK, Registry, RecordsFit, LinkedFits, HostFits, Live, Members
<1>3. PresenceFits'
  BY <1>1 DEF IInv, PresenceFits, Live, Members
<1>4. Clients'
  BY <1>1 DEF IInv, Clients, NewIsOutside, InsideFits, RosterFits, Shown, Live, Members
<1>5. Viewing'
  BY <1>1 DEF IInv, Viewing, CapFits, ViewersFit, Live
<1> QED BY <1>2, <1>3, <1>4, <1>5 DEF IInv

LEMMA NextIInv == ASSUME IInv, [Next]_vars PROVE IInv'
<1>1. ASSUME NEW c \in Conn, NEW s \in Session, End(c, s) PROVE IInv'
  BY <1>1, EndKeeps DEF End, IsHost
<1>2. ASSUME NEW c \in Conn, NEW s \in Session, Leave(c, s) PROVE IInv'
  BY <1>2, ViewerGoesKeeps DEF Leave
<1>3. ASSUME NEW c \in Conn, NEW target \in Conn, NEW s \in Session, Kick(c, s, target) PROVE IInv'
  <2>1. Live(s) /\ target \in Members(s)
    BY <1>3 DEF Kick
  <2>2. CASE target = session[s].host
    BY <1>3, <2>1, <2>2, EndKeeps DEF Kick
  <2>3. CASE target # session[s].host
    BY <1>3, <2>1, <2>3, ViewerGoesKeeps DEF Kick, Viewers, Members
  <2> QED BY <2>2, <2>3
<1>4. ASSUME NEW s \in Session, GraceExpires(s) PROVE IInv'
  BY <1>4, EndKeeps DEF GraceExpires
<1>5. ASSUME NEW c \in Conn, NEW s \in Session, Rejoin(c, s) PROVE IInv'
  BY <1>5, RejoinIsIdle, UnchangedKeeps
<1> QED BY <1>1, <1>2, <1>3, <1>4, <1>5, ConnectKeeps, ListKeeps, CloseKeeps, JoinKeeps, StartKeeps,
           UpdateKeeps, UpdateRefusedKeeps, UnchangedKeeps DEF Next

LEMMA SpecIInv == Spec => []IInv
<1>1. IInv /\ [Next]_vars => IInv'
  BY NextIInv
<1> QED BY <1>1, InitIInv, PTL DEF Spec

-----------------------------------------------------------------------------
\* The registry's three indexes and the two of presence speak of the same
\* members (co-view/registry.ts, presence/manager.ts).
THEOREM RegistriesAlwaysAgree == Spec => []RegistriesAgree
<1>1. IInv => IndexesAgree
  BY DEF IInv, TypeOK, Registry, LinkedFits, HostFits, IndexesAgree
<1>2. IInv => PresenceFollowsMembers
  <2>1. ASSUME IInv, NEW s \in Session PROVE Members(s) \in SUBSET Conn /\ entries[s] \in SUBSET Conn
    BY <2>1, RecordFacts DEF IInv, TypeOK, Live, Members
  <2> QED BY <2>1 DEF IInv, PresenceFits, PresenceFollowsMembers, Connected
<1> QED BY <1>1, <1>2, SpecIInv, PTL DEF RegistriesAgree

\* Whoever watches a session may see it, and no more than the cap do, however it
\* was narrowed since they joined (handlers.ts: handleJoin, autoKickStaleMembers).
THEOREM ViewersAreAlwaysAdmitted == Spec => []ViewersAreAdmitted
<1>1. IInv => ViewersAreAdmitted
  BY DEF IInv, Viewing, CapFits, ViewersFit, ViewersAreAdmitted
<1> QED BY <1>1, SpecIInv, PTL

\* A connected client was told to be in exactly the sessions it is in
\* (handlers.ts: handleJoin, removeMemberAndBroadcast, endSession).
THEOREM ClientsAlwaysKnow == Spec => []ClientsKnowWhereTheyAre
<1>1. IInv => ClientsKnowWhereTheyAre
  BY DEF IInv, TypeOK, Clients, InsideFits, Connected, ClientsKnowWhereTheyAre
<1> QED BY <1>1, SpecIInv, PTL

\* A subscriber's list shows exactly what it may see, and the runtime knows what
\* it was told (handlers.ts: broadcastListChange, broadcastListRemoval).
THEOREM RosterStaysExact == Spec => []RosterIsExact
<1>1. IInv => RosterIsExact
  BY DEF IInv, Clients, RosterFits, Shown, Connected, RosterIsExact
<1> QED BY <1>1, SpecIInv, PTL

-----------------------------------------------------------------------------
(* The state channel.                                                      *)

\* What the host's state was when it gave out the number n.
At(h, n) == IF n < 0 THEN Blank ELSE h[n + 1]

\* The frame with that number, and the frames numbered from a to b.
Entry(h, n) == StateFrame(n, Diff(At(h, n - 1), At(h, n)))

Entries(h, a, b) == {Entry(h, n) : n \in a..b}

\* The frame f is ahead of the frame g in the queue q.
Ahead(q, f, g) == \E i, j \in 1..Len(q) : i < j /\ q[i] = f /\ q[j] = g

\* From the host to the viewer there are two queues, o after q.
Leads(o, q, f, g) ==
    Ahead(o, f, g) \/ (f \in ToSet(o) /\ g \in ToSet(q)) \/ Ahead(q, f, g)

----------------------------------------------------------------------------
\* Numbers: a set of numbers has a least one, and a bounded one a greatest.

LEMMA LeastOne ==
    ASSUME NEW T, T \subseteq Nat, T # {}
    PROVE  \E x \in T : \A y \in T : x <= y
<1> DEFINE R == OpToRel(<, Nat)
<1>1. \A x, y \in Nat : y < x => <<y, x>> \in R
  BY DEF OpToRel
<1>2. IsWellFoundedOn(R, Nat)
  BY NatLessThanWellFounded
<1> HIDE DEF R
<1>3. PICK x \in T : \A y \in T : ~ (<<y, x>> \in R)
  BY <1>2, WFMin
<1>4. ASSUME NEW y \in T PROVE x <= y
  <2>1. x \in Nat /\ y \in Nat
    OBVIOUS
  <2>2. ~ (y < x)
    BY <1>1, <1>3, <2>1
  <2> QED
    BY <2>1, <2>2
<1> QED
  BY <1>4

LEMMA GreatestOne ==
    ASSUME NEW n \in Int, NEW T, T \subseteq Int, T # {}, \A y \in T : y <= n
    PROVE  \E x \in T : \A y \in T : y <= x
<1> DEFINE U == {n - y : y \in T}
<1>1. U \subseteq Nat /\ U # {}
  <2>1. \A y \in T : n - y \in Nat
    OBVIOUS
  <2>2. PICK y \in T : TRUE
    OBVIOUS
  <2>3. n - y \in U
    OBVIOUS
  <2> QED
    BY <2>1, <2>3
<1> HIDE DEF U
<1>2. PICK u \in U : \A v \in U : u <= v
  BY <1>1, LeastOne
<1>3. PICK x \in T : u = n - x
  BY <1>2 DEF U
<1>4. ASSUME NEW y \in T PROVE y <= x
  <2>1. n - y \in U
    BY DEF U
  <2>2. u <= n - y
    BY <1>2, <2>1
  <2> QED
    BY <1>3, <2>2
<1> QED
  BY <1>4

----------------------------------------------------------------------------
\* Merge patches.

LEMMA DiffFacts ==
    ASSUME NEW s \in Snapshot, NEW t \in Snapshot
    PROVE  /\ \A k : k \in DOMAIN Diff(s, t) <=> k \in Key /\ s[k] # t[k]
           /\ \A k \in Key : s[k] # t[k] => Diff(s, t)[k] = t[k]
  BY DEF Diff

LEMMA MergeOfDiff ==
    ASSUME NEW s \in Snapshot, NEW t \in Snapshot
    PROVE  Merge(s, Diff(s, t)) = t
<1>1. /\ s \in [Key -> 0..MaxEdits] /\ t \in [Key -> 0..MaxEdits]
  BY DEF Snapshot
<1>2. \A k \in Key : (IF k \in DOMAIN Diff(s, t) THEN Diff(s, t)[k] ELSE s[k]) = t[k]
  BY DiffFacts
<1>3. Merge(s, Diff(s, t)) = [k \in Key |-> t[k]]
  BY <1>2 DEF Merge
<1> QED
  BY <1>1, <1>3

\* A merge gives a snapshot, whichever snapshot is merged into.
LEMMA MergeType ==
    ASSUME NEW s \in Snapshot, NEW t \in Snapshot, NEW u \in Snapshot
    PROVE  Merge(u, Diff(s, t)) \in Snapshot
<1>1. /\ s \in [Key -> 0..MaxEdits] /\ t \in [Key -> 0..MaxEdits]
      /\ u \in [Key -> 0..MaxEdits]
  BY DEF Snapshot
<1>2. \A k \in Key : (IF k \in DOMAIN Diff(s, t) THEN Diff(s, t)[k] ELSE u[k]) \in 0..MaxEdits
  BY <1>1, DiffFacts
<1>3. Merge(u, Diff(s, t)) \in [Key -> 0..MaxEdits]
  BY <1>2 DEF Merge
<1> QED
  BY <1>3 DEF Snapshot
----------------------------------------------------------------------------
\* Histories, and the frames that lead from one state to a later one.

LEMMA BlankType == Blank \in Snapshot
  BY SizeAssumption DEF Blank, Snapshot

LEMMA AtType ==
    ASSUME NEW h \in Seq(Snapshot), NEW n \in Int, n <= Len(h) - 1
    PROVE  At(h, n) \in Snapshot
  BY BlankType DEF At

LEMMA EntryFields ==
    ASSUME NEW h, NEW n
    PROVE  /\ Entry(h, n).type = "state" /\ Entry(h, n).seq = n
           /\ Entry(h, n).diff = Diff(At(h, n - 1), At(h, n))
  BY DEF Entry, StateFrame

\* The entry leads from the state before it to its own.
LEMMA EntryLeads ==
    ASSUME NEW h \in Seq(Snapshot), NEW n \in 0..Len(h) - 1
    PROVE  /\ Merge(At(h, n - 1), Entry(h, n).diff) = At(h, n)
           /\ \A s \in Snapshot : Merge(s, Entry(h, n).diff) \in Snapshot
           /\ \A k : k \in DOMAIN Entry(h, n).diff <=> k \in Key /\ At(h, n - 1)[k] # At(h, n)[k]
           /\ \A k \in DOMAIN Entry(h, n).diff : Entry(h, n).diff[k] = At(h, n)[k]
<1>1. At(h, n - 1) \in Snapshot /\ At(h, n) \in Snapshot
  BY AtType
<1> HIDE DEF At
<1> QED
  BY <1>1, EntryFields, MergeOfDiff, MergeType, DiffFacts

\* What no frame from i + 1 to j writes is in the j-th state as in the i-th.
LEMMA Unwritten ==
    ASSUME NEW h \in Seq(Snapshot), NEW k \in Key, NEW i \in Int, NEW j \in Int,
           -1 <= i, i <= j, j <= Len(h) - 1,
           \A m \in i + 1..j : At(h, m - 1)[k] = At(h, m)[k]
    PROVE  At(h, i)[k] = At(h, j)[k]
<1> DEFINE T == {m \in i + 1..j : At(h, m)[k] # At(h, i)[k]}
<1>1. SUFFICES ASSUME T # {} PROVE FALSE
  <2>1. CASE i = j
    BY <2>1
  <2>2. CASE i # j
    <3>1. j \in i + 1..j
      BY <2>2
    <3> QED
      BY <3>1
  <2> QED
    BY <2>1, <2>2
<1>2. T \subseteq Nat
  OBVIOUS
<1> HIDE DEF T
<1>3. PICK m \in T : \A n \in T : m <= n
  BY <1>1, <1>2, LeastOne
<1>4. m \in i + 1..j /\ At(h, m)[k] # At(h, i)[k]
  BY <1>3 DEF T
<1>5. At(h, m - 1)[k] # At(h, i)[k]
  BY <1>4
<1>6. m - 1 \in i + 1..j
  <2>1. m - 1 # i
    BY <1>5
  <2> QED
    BY <1>4, <2>1
<1>7. m - 1 \in T
  BY <1>5, <1>6 DEF T
<1> QED
  BY <1>3, <1>4, <1>7

LEMMA NewestEntry ==
    ASSUME NEW h, NEW D, D \subseteq Int, NEW m \in D, \A d \in D : d <= m
    PROVE  Newest({Entry(h, d) : d \in D}) = Entry(h, m)
<1> DEFINE E == {Entry(h, d) : d \in D}
<1>1. Entry(h, m) \in E /\ \A x \in E : x.seq <= Entry(h, m).seq
  BY EntryFields
<1>2. ASSUME NEW e \in E, \A x \in E : x.seq <= e.seq PROVE e = Entry(h, m)
  <2>1. PICK d \in D : e = Entry(h, d)
    OBVIOUS
  <2>2. m <= d /\ d <= m
    BY <1>1, <1>2, <2>1, EntryFields
  <2> QED
    BY <2>1, <2>2
<1> QED
  BY <1>1, <1>2 DEF Newest

\* The frames after the v-th state, up to the n-th, patch the one to the other.
LEMMA PatchedUp ==
    ASSUME NEW h \in Seq(Snapshot), NEW v \in Int, NEW n \in Int,
           -1 <= v, v <= n, n <= Len(h) - 1
    PROVE  Patched(At(h, v), Entries(h, v + 1, n)) = At(h, n)
<1> DEFINE W(k) == {m \in v + 1..n : At(h, m - 1)[k] # At(h, m)[k]}
           S(k) == {e \in Entries(h, v + 1, n) : k \in DOMAIN e.diff}
<1>1. At(h, n) \in [Key -> 0..MaxEdits]
  BY AtType DEF Snapshot
<1>2. ASSUME NEW k \in Key
      PROVE  (IF S(k) = {} THEN At(h, v)[k] ELSE Newest(S(k)).diff[k]) = At(h, n)[k]
  <2>1. S(k) = {Entry(h, m) : m \in W(k)}
    <3>1. \A m \in v + 1..n : k \in DOMAIN Entry(h, m).diff <=> m \in W(k)
      <4>1. \A m \in v + 1..n : m \in 0..Len(h) - 1
        OBVIOUS
      <4> QED
        BY <4>1, EntryLeads
    <3> QED
      BY <3>1 DEF Entries
  <2>2. CASE W(k) = {}
    <3>1. S(k) = {}
      BY <2>1, <2>2
    <3>2. \A m \in v + 1..n : At(h, m - 1)[k] = At(h, m)[k]
      BY <2>2
    <3>3. At(h, v)[k] = At(h, n)[k]
      BY <3>2, Unwritten
    <3> QED
      BY <3>1, <3>3
  <2>3. CASE W(k) # {}
    <3>1. W(k) \subseteq Int /\ \A m \in W(k) : m <= n
      OBVIOUS
    <3>2. PICK m \in W(k) : \A d \in W(k) : d <= m
      <4> HIDE DEF W
      <4> QED
        BY <2>3, <3>1, GreatestOne
    <3>3. Newest(S(k)) = Entry(h, m) /\ S(k) # {}
      <4> HIDE DEF W, S
      <4> QED
        BY <2>1, <2>3, <3>1, <3>2, NewestEntry
    <3>4. m \in 0..Len(h) - 1 /\ m \in v + 1..n
      OBVIOUS
    <3>5. Entry(h, m).diff[k] = At(h, m)[k]
      BY <3>4, EntryLeads
    <3>6. \A d \in m + 1..n : At(h, d - 1)[k] = At(h, d)[k]
      BY <3>2
    <3>7. At(h, m)[k] = At(h, n)[k]
      BY <3>4, <3>6, Unwritten
    <3> QED
      BY <3>3, <3>5, <3>7
  <2> QED
    BY <2>2, <2>3
<1>3. Patched(At(h, v), Entries(h, v + 1, n)) = [k \in Key |-> At(h, n)[k]]
  BY <1>2 DEF Patched
<1> QED
  BY <1>1, <1>3

\* Any of a history's frames patch a snapshot to a snapshot.
LEMMA PatchedType ==
    ASSUME NEW h \in Seq(Snapshot), NEW s \in Snapshot, NEW D, D \subseteq 0..Len(h) - 1
    PROVE  Patched(s, {Entry(h, d) : d \in D}) \in Snapshot
<1> DEFINE S(k) == {e \in {Entry(h, d) : d \in D} : k \in DOMAIN e.diff}
<1>1. s \in [Key -> 0..MaxEdits]
  BY DEF Snapshot
<1>2. ASSUME NEW k \in Key, S(k) # {} PROVE Newest(S(k)).diff[k] \in 0..MaxEdits
  <2> DEFINE W == {d \in D : k \in DOMAIN Entry(h, d).diff}
  <2>1. S(k) = {Entry(h, d) : d \in W}
    OBVIOUS
  <2>2. W \subseteq Int /\ W # {} /\ \A d \in W : d <= Len(h) - 1
    <3>1. W # {}
      BY <1>2, <2>1
    <3>2. \A d \in D : d \in Int /\ d <= Len(h) - 1
      OBVIOUS
    <3> QED
      BY <3>1, <3>2
  <2>3. PICK m \in W : \A d \in W : d <= m
    <3> HIDE DEF W, S
    <3>1. Len(h) - 1 \in Int
      OBVIOUS
    <3> QED
      BY <2>2, <3>1, GreatestOne
  <2>4. Newest(S(k)) = Entry(h, m)
    <3> HIDE DEF W, S
    <3> QED
      BY <2>1, <2>2, <2>3, NewestEntry
  <2>5. m \in 0..Len(h) - 1 /\ k \in DOMAIN Entry(h, m).diff
    OBVIOUS
  <2>6. Entry(h, m).diff[k] = At(h, m)[k] /\ At(h, m) \in Snapshot
    BY <2>5, EntryLeads, AtType
  <2> QED
    BY <2>4, <2>6 DEF Snapshot
<1>3. Patched(s, {Entry(h, d) : d \in D})
        = [k \in Key |-> IF S(k) = {} THEN s[k] ELSE Newest(S(k)).diff[k]]
  BY DEF Patched
<1>4. \A k \in Key : (IF S(k) = {} THEN s[k] ELSE Newest(S(k)).diff[k]) \in 0..MaxEdits
  BY <1>1, <1>2
<1> HIDE DEF S
<1>5. Patched(s, {Entry(h, d) : d \in D}) \in [Key -> 0..MaxEdits]
  BY <1>3, <1>4
<1> QED
  BY <1>5 DEF Snapshot

\* A history that grows keeps its states and frames.
LEMMA HistoryGrows ==
    ASSUME NEW h \in Seq(Snapshot), NEW s \in Snapshot
    PROVE  /\ Append(h, s) \in Seq(Snapshot) /\ Len(Append(h, s)) = Len(h) + 1
           /\ \A n \in Int : n <= Len(h) - 1 =>
                 At(Append(h, s), n) = At(h, n) /\ Entry(Append(h, s), n) = Entry(h, n)
           /\ At(Append(h, s), Len(h)) = s
<1>1. /\ Append(h, s) \in Seq(Snapshot) /\ Len(Append(h, s)) = Len(h) + 1
      /\ \A i \in 1..Len(h) : Append(h, s)[i] = h[i]
      /\ Append(h, s)[Len(h) + 1] = s
  OBVIOUS
<1> DEFINE g == Append(h, s)
<1> HIDE DEF g
<1>2. ASSUME NEW n \in Int, n <= Len(h) - 1 PROVE At(g, n) = At(h, n)
  <2>1. CASE n < 0
    BY <2>1 DEF At
  <2>2. CASE n >= 0
    <3>1. n + 1 \in 1..Len(h)
      BY <1>2, <2>2
    <3> QED
      BY <1>1, <2>2, <3>1 DEF At, g
  <2> QED
    BY <2>1, <2>2
<1>3. ASSUME NEW n \in Int, n <= Len(h) - 1 PROVE Entry(g, n) = Entry(h, n)
  <2>1. At(g, n) = At(h, n)
    BY <1>2, <1>3
  <2>2. n - 1 \in Int /\ n - 1 <= Len(h) - 1
    BY <1>3
  <2>3. At(g, n - 1) = At(h, n - 1)
    BY <1>2, <2>2
  <2> QED
    BY <2>1, <2>3 DEF Entry
<1>4. At(g, Len(h)) = s
  BY <1>1 DEF At, g
<1> QED
  BY <1>1, <1>2, <1>3, <1>4 DEF g
----------------------------------------------------------------------------
\* Queues: what is in them and in which order, after an Append and a Tail.

LEMMA AppendedQueue ==
    ASSUME NEW S, NEW q \in Seq(S), NEW x \in S
    PROVE  /\ Append(q, x) \in Seq(S)
           /\ \A f : f \in ToSet(Append(q, x)) <=> f \in ToSet(q) \/ f = x
           /\ \A f, g : Ahead(Append(q, x), f, g) =>
                           Ahead(q, f, g) \/ (f \in ToSet(q) /\ g = x)
<1> DEFINE r == Append(q, x)
<1>1. /\ r \in Seq(S) /\ Len(r) = Len(q) + 1 /\ Len(q) \in Nat
      /\ \A i \in 1..Len(q) : r[i] = q[i]
      /\ r[Len(q) + 1] = x
  OBVIOUS
<1> HIDE DEF r
<1>2. /\ \A f : f \in ToSet(q) <=> \E i \in 1..Len(q) : f = q[i]
      /\ \A f : f \in ToSet(r) <=> \E i \in 1..Len(r) : f = r[i]
  BY <1>1 DEF ToSet
<1>3. ASSUME NEW f PROVE f \in ToSet(r) <=> f \in ToSet(q) \/ f = x
  <2>1. ASSUME f \in ToSet(r) PROVE f \in ToSet(q) \/ f = x
    <3>1. PICK i \in 1..Len(r) : f = r[i]
      BY <1>2, <2>1
    <3>2. i \in 1..Len(q) \/ i = Len(q) + 1
      BY <1>1
    <3> QED
      BY <1>1, <1>2, <3>1, <3>2
  <2>2. ASSUME f \in ToSet(q) PROVE f \in ToSet(r)
    <3>1. PICK i \in 1..Len(q) : f = q[i]
      BY <1>2, <2>2
    <3>2. i \in 1..Len(r) /\ r[i] = f
      BY <1>1, <3>1
    <3> QED
      BY <1>2, <3>2
  <2>3. x \in ToSet(r)
    <3>1. Len(q) + 1 \in 1..Len(r)
      BY <1>1
    <3> QED
      BY <1>1, <1>2, <3>1
  <2> QED
    BY <2>1, <2>2, <2>3
<1>4. ASSUME NEW f, NEW g, Ahead(r, f, g)
      PROVE  Ahead(q, f, g) \/ (f \in ToSet(q) /\ g = x)
  <2>1. PICK i, j \in 1..Len(r) : i < j /\ r[i] = f /\ r[j] = g
    BY <1>4 DEF Ahead
  <2>2. i \in 1..Len(q) /\ (j \in 1..Len(q) \/ j = Len(q) + 1)
    BY <1>1, <2>1
  <2>3. f = q[i] /\ f \in ToSet(q)
    BY <1>1, <1>2, <2>1, <2>2
  <2>4. CASE j \in 1..Len(q)
    <3>1. g = q[j]
      BY <1>1, <2>1, <2>4
    <3> QED
      BY <2>1, <2>2, <2>3, <2>4, <3>1 DEF Ahead
  <2>5. CASE j = Len(q) + 1
    BY <1>1, <2>1, <2>3, <2>5
  <2> QED
    BY <2>2, <2>4, <2>5
<1> QED
  BY <1>1, <1>3, <1>4 DEF r

LEMMA TailQueue ==
    ASSUME NEW S, NEW q \in Seq(S), q # <<>>
    PROVE  /\ Tail(q) \in Seq(S) /\ Head(q) \in S /\ Head(q) \in ToSet(q)
           /\ \A f \in ToSet(Tail(q)) : f \in ToSet(q) /\ Ahead(q, Head(q), f)
           /\ \A f, g : Ahead(Tail(q), f, g) => Ahead(q, f, g)
<1> DEFINE r == Tail(q)
<1>1. /\ r \in Seq(S) /\ Len(q) \in Nat /\ Len(q) # 0 /\ Len(r) = Len(q) - 1
      /\ \A i \in 1..Len(r) : r[i] = q[i + 1]
      /\ Head(q) = q[1] /\ q[1] \in S
  OBVIOUS
<1> HIDE DEF r
<1>2. /\ \A f : f \in ToSet(q) <=> \E i \in 1..Len(q) : f = q[i]
      /\ \A f : f \in ToSet(r) <=> \E i \in 1..Len(r) : f = r[i]
  BY <1>1 DEF ToSet
<1>3. q[1] \in ToSet(q)
  <2>1. 1 \in 1..Len(q)
    BY <1>1
  <2> QED
    BY <1>2, <2>1
<1>4. ASSUME NEW f \in ToSet(r) PROVE f \in ToSet(q) /\ Ahead(q, q[1], f)
  <2>1. PICK i \in 1..Len(r) : f = r[i]
    BY <1>2
  <2>2. i + 1 \in 1..Len(q) /\ 1 \in 1..Len(q) /\ 1 < i + 1 /\ f = q[i + 1]
    BY <1>1, <2>1
  <2> QED
    BY <1>2, <2>2 DEF Ahead
<1>5. ASSUME NEW f, NEW g, Ahead(r, f, g) PROVE Ahead(q, f, g)
  <2>1. PICK i, j \in 1..Len(r) : i < j /\ r[i] = f /\ r[j] = g
    BY <1>5 DEF Ahead
  <2>2. /\ i + 1 \in 1..Len(q) /\ j + 1 \in 1..Len(q) /\ i + 1 < j + 1
        /\ f = q[i + 1] /\ g = q[j + 1]
    BY <1>1, <2>1
  <2> QED
    BY <2>2 DEF Ahead
<1> QED
  BY <1>1, <1>3, <1>4, <1>5 DEF r

LEMMA AheadAreIn ==
    ASSUME NEW S, NEW q \in Seq(S), NEW f, NEW g, Ahead(q, f, g)
    PROVE  f \in ToSet(q) /\ g \in ToSet(q)
<1>1. DOMAIN q = 1..Len(q)
  OBVIOUS
<1> QED
  BY <1>1 DEF Ahead, ToSet

LEMMA EmptyQueue == ToSet(<<>>) = {} /\ \A f, g : ~Ahead(<<>>, f, g)
  BY DEF ToSet, Ahead

LEMMA LeadsBoth ==
    ASSUME NEW S, NEW T, NEW o \in Seq(S), NEW q \in Seq(T), NEW f, NEW g, Leads(o, q, f, g)
    PROVE  f \in ToSet(o) \cup ToSet(q) /\ g \in ToSet(o) \cup ToSet(q)
  BY AheadAreIn DEF Leads

\* The host sends x.
LEMMA LeadsAfterSend ==
    ASSUME NEW S, NEW q \in Seq(S), NEW x \in S, NEW o, NEW f, NEW g,
           Leads(o, Append(q, x), f, g)
    PROVE  Leads(o, q, f, g) \/ (f \in ToSet(o) \cup ToSet(q) /\ g = x)
  BY AppendedQueue DEF Leads

\* The runtime takes a frame from the host, and passes it on or not.
LEMMA LeadsAfterTake ==
    ASSUME NEW S, NEW q \in Seq(S), q # <<>>, NEW o, NEW f, NEW g,
           Leads(o, Tail(q), f, g)
    PROVE  Leads(o, q, f, g)
  BY TailQueue DEF Leads

LEMMA LeadsAfterPass ==
    ASSUME NEW S, NEW T, NEW q \in Seq(S), q # <<>>, NEW o \in Seq(T), Head(q) \in T,
           NEW f, NEW g, Leads(Append(o, Head(q)), Tail(q), f, g)
    PROVE  Leads(o, q, f, g)
  BY TailQueue, AppendedQueue DEF Leads

\* The runtime sends x of its own.
LEMMA LeadsAfterOwn ==
    ASSUME NEW T, NEW o \in Seq(T), NEW x \in T, NEW q, NEW f, NEW g,
           Leads(Append(o, x), q, f, g)
    PROVE  Leads(o, q, f, g) \/ f = x \/ g = x
  BY AppendedQueue DEF Leads

\* The viewer takes a frame.
LEMMA LeadsAfterView ==
    ASSUME NEW T, NEW o \in Seq(T), o # <<>>, NEW q
    PROVE  /\ \A f, g : Leads(Tail(o), q, f, g) => Leads(o, q, f, g)
           /\ \A f \in ToSet(Tail(o)) \cup ToSet(q) : Leads(o, q, Head(o), f)
  BY TailQueue DEF Leads
----------------------------------------------------------------------------
\* The invariant.

Patch == UNION {[D -> 0..MaxEdits] : D \in SUBSET Key}

StateFrames == [type : {"state"}, seq : Nat, diff : Patch]

Answers ==
    [type : {"full"}, visit : Nat, seq : Int, state : Snapshot]
      \cup [type : {"diffs"}, visit : Nat, seq : Int, diffs : SUBSET StateFrames]

Requests == [type : {"req"}, visit : Nat, since : Int]

FromHost == StateFrames \cup Answers \cup [type : {"update"}, paused : BOOLEAN]

ToViewer ==
    StateFrames \cup Answers
      \cup [type : {"joined"}, seed : Snapshot] \cup [type : {"left", "kicked"}]

ToHost == Requests \cup [type : {"ack"}]

FromViewer == Requests \cup [type : {"join", "leave"}]

ViewType ==
    [mode : {"out", "joining", "in", "leaving"}, snapshot : Snapshot,
     lastSeq : Int, awaiting : BOOLEAN]

ChannelTypes ==
    /\ shell \in Snapshot /\ edits \in 0..MaxEdits
    /\ producer \in [seq : Int, snapshot : Snapshot, ring : Seq(StateFrames)]
    /\ paused \in BOOLEAN /\ toggles \in Nat /\ busy \in BOOLEAN
    /\ feed \in Seq(FromHost) /\ down \in Seq(ToHost)
    /\ out \in Seq(ToViewer) /\ in \in Seq(FromViewer)
    /\ rt \in [paused : BOOLEAN, lastSeq : Int, snapshot : Snapshot, member : BOOLEAN]
    /\ view \in ViewType /\ visit \in Nat
    /\ hist \in Seq(Snapshot) /\ withheld \in BOOLEAN /\ astray \in BOOLEAN

Wire == ToSet(out) \cup ToSet(feed)

Asked == ToSet(in) \cup ToSet(down)

IsAnswer(f) == f.type = "full" \/ f.type = "diffs"

Numbered(f) == f.type = "state" \/ IsAnswer(f)

\* The frame with the number h gave it; an answer is true of some state of h.
FrameFits(h, f) ==
    /\ f.type = "state" => f.seq \in 0..Len(h) - 1 /\ f = Entry(h, f.seq)
    /\ IsAnswer(f) => f.seq \in -1..Len(h) - 1
    /\ f.type = "full" => f.state = At(h, f.seq)
    /\ f.type = "diffs" => f.diffs \subseteq Entries(h, 0, f.seq)

\* The ring holds the last frames without a hole.
HistoryFits ==
    /\ producer.seq = Len(hist) - 1 /\ producer.snapshot = At(hist, producer.seq)
    /\ Len(producer.ring) <= Len(hist)
    /\ \A i \in 1..Len(producer.ring) :
          producer.ring[i] = Entry(hist, producer.seq - Len(producer.ring) + i)

FramesFit == \A f \in Wire : FrameFits(hist, f)

\* No answer is older than what is ahead of it, or than what has arrived.
OrderFits ==
    /\ \A f, g \in Wire :
          Leads(out, feed, f, g) /\ Numbered(f) /\ IsAnswer(g) => f.seq <= g.seq
    /\ \A g \in Wire : IsAnswer(g) => view.lastSeq <= g.seq
    /\ \A g \in ToSet(feed) : IsAnswer(g) => rt.lastSeq <= g.seq
    /\ view.lastSeq \in -1..Len(hist) - 1 /\ rt.lastSeq \in -1..Len(hist) - 1

\* What this consumer asked for starts where its picture ends, or before: an
\* answer of diffs fills its gap.
RequestsFit ==
    \A r \in Asked : r.type = "req" =>
        /\ r.visit <= visit /\ (view.mode = "joining" => r.visit # visit)
        /\ Mounted /\ r.visit = visit => r.since <= view.lastSeq

AnswersFit ==
    \A f \in Wire : IsAnswer(f) =>
        /\ f.visit <= visit /\ (view.mode = "joining" => f.visit # visit)
        /\ f.type = "diffs" /\ Mounted /\ f.visit = visit =>
              /\ view.lastSeq >= 0
              /\ \A m \in view.lastSeq + 1..f.seq : Entry(hist, m) \in f.diffs

\* The first frame of all, and an answer that was made before it.
Early(f) ==
    \/ f.type = "state" /\ f.seq = 0
    \/ f.type = "full" /\ f.seq = -1

\* A picture that the first frame may still change, or that an answer from
\* before it may replace, is blank: no seed has been given since.
SeedsFit ==
    /\ \A f, g \in ToSet(out) : Ahead(out, f, g) /\ f.type = "joined" /\ Early(g)
                                   => f.seed = Blank
    /\ rt.lastSeq < 0 => \A f \in ToSet(out) : f.type = "joined" => f.seed = Blank
    /\ (rt.lastSeq < 0 \/ \E f \in ToSet(out) : Early(f)) /\ view.lastSeq = -1
          => view.snapshot = Blank

ViewFits ==
    /\ view.lastSeq >= 0 /\ ~astray => view.snapshot = At(hist, view.lastSeq)
    /\ ~Mounted => view.lastSeq = -1 /\ view.snapshot = Blank /\ ~astray

ChannelInv ==
    /\ ChannelTypes /\ HistoryFits /\ FramesFit /\ OrderFits
    /\ RequestsFit /\ AnswersFit /\ SeedsFit /\ ViewFits

LEMMA InitChannel == StateInit => ChannelInv
<1> SUFFICES ASSUME StateInit PROVE ChannelInv
  OBVIOUS
<1> USE DEF StateInit
<1>1. Blank \in Snapshot /\ 0 \in 0..MaxEdits
  BY BlankType, SizeAssumption
<1>2. view \in ViewType
  BY <1>1 DEF ViewType
<1>3. ChannelTypes
  <2>1. <<>> \in Seq(StateFrames) /\ <<>> \in Seq(FromHost) /\ <<>> \in Seq(ToHost)
        /\ <<>> \in Seq(ToViewer) /\ <<>> \in Seq(FromViewer) /\ <<>> \in Seq(Snapshot)
    OBVIOUS
  <2>2. producer \in [seq : Int, snapshot : Snapshot, ring : Seq(StateFrames)]
    BY <1>1, <2>1
  <2>3. rt \in [paused : BOOLEAN, lastSeq : Int, snapshot : Snapshot, member : BOOLEAN]
    BY <1>1
  <2>4. feed = <<>> /\ down = <<>> /\ out = <<>> /\ in = <<>> /\ hist = <<>>
    OBVIOUS
  <2>5. /\ shell \in Snapshot /\ edits \in 0..MaxEdits /\ paused \in BOOLEAN
        /\ toggles \in Nat /\ busy \in BOOLEAN /\ visit \in Nat
        /\ withheld \in BOOLEAN /\ astray \in BOOLEAN
    BY <1>1
  <2> QED
    BY <1>2, <2>1, <2>2, <2>3, <2>4, <2>5 DEF ChannelTypes
<1>4. ToSet(out) = {} /\ ToSet(feed) = {} /\ ToSet(in) = {} /\ ToSet(down) = {}
  BY EmptyQueue
<1>5. Len(hist) = 0 /\ producer.seq = -1 /\ Len(producer.ring) = 0 /\ view.lastSeq = -1
      /\ rt.lastSeq = -1 /\ view.snapshot = Blank /\ producer.snapshot = Blank
  OBVIOUS
<1>6. HistoryFits
  BY <1>5 DEF HistoryFits, At
<1>7. FramesFit /\ OrderFits /\ RequestsFit /\ AnswersFit /\ SeedsFit /\ ViewFits
  BY <1>4, <1>5 DEF FramesFit, OrderFits, RequestsFit, AnswersFit, SeedsFit, ViewFits,
                    Wire, Asked
<1> QED
  BY <1>3, <1>6, <1>7 DEF ChannelInv

----------------------------------------------------------------------------
\* What the steps do.

LEMMA EntryType ==
    ASSUME NEW h \in Seq(Snapshot), NEW n \in 0..Len(h) - 1
    PROVE  Entry(h, n) \in StateFrames
<1>1. At(h, n - 1) \in Snapshot /\ At(h, n) \in Snapshot
  BY AtType
<1>2. Diff(At(h, n - 1), At(h, n)) \in Patch
  <2> DEFINE D == {j \in Key : At(h, n - 1)[j] # At(h, n)[j]}
  <2>1. D \in SUBSET Key
    OBVIOUS
  <2>2. Diff(At(h, n - 1), At(h, n)) \in [D -> 0..MaxEdits]
    BY <1>1 DEF Diff, Snapshot
  <2> HIDE DEF D
  <2> QED
    BY <2>1, <2>2 DEF Patch
<1> HIDE DEF At, Diff
<1> QED
  BY <1>2 DEF Entry, StateFrame, StateFrames

LEMMA EntriesFacts ==
    ASSUME NEW h, NEW a \in Int, NEW b \in Int
    PROVE  /\ \A e \in Entries(h, a, b) : e.seq \in a..b /\ e = Entry(h, e.seq)
           /\ \A n \in a..b : Entry(h, n) \in Entries(h, a, b)
  BY EntryFields DEF Entries

\* An answer has the number of the host's last frame, and the diffs that lead
\* to it from what was asked for.
LEMMA ResolveFacts ==
    ASSUME ChannelTypes, HistoryFits, NEW req \in Requests
    PROVE  LET f == Resolve(req) IN
           /\ f \in Answers /\ f.seq = producer.seq /\ f.visit = req.visit
           /\ IsAnswer(f) /\ FrameFits(hist, f)
           /\ f.type = "diffs" => /\ req.since >= 0
                                  /\ \A m \in req.since + 1..f.seq : Entry(hist, m) \in f.diffs
<1> DEFINE f == Resolve(req)
           R == producer.ring
           full == req.since < 0 \/ R = <<>> \/ req.since + 1 < Head(R).seq
           D == {e \in ToSet(R) : e.seq > req.since}
<1>1. /\ R \in Seq(StateFrames) /\ producer.seq \in Int /\ producer.snapshot \in Snapshot
      /\ hist \in Seq(Snapshot) /\ Len(hist) \in Nat
      /\ req.visit \in Nat /\ req.since \in Int /\ producer.seq \in -1..Len(hist) - 1
  BY DEF ChannelTypes, Requests, HistoryFits
<1>2. CASE full
  <2>1. f = [type |-> "full", visit |-> req.visit, seq |-> producer.seq,
             state |-> producer.snapshot]
    BY <1>2 DEF Resolve
  <2>2. /\ f.type = "full" /\ f.seq = producer.seq /\ f.visit = req.visit
        /\ f.state = producer.snapshot
    BY <2>1
  <2>3. f \in Answers
    BY <1>1, <2>1 DEF Answers
  <2> HIDE DEF f
  <2> QED
    BY <1>1, <2>2, <2>3 DEF FrameFits, IsAnswer, HistoryFits, f
<1>3. CASE ~full
  <2>1. f = [type |-> "diffs", visit |-> req.visit, seq |-> producer.seq, diffs |-> D]
    BY <1>3 DEF Resolve
  <2>2. \A e \in ToSet(R) : \E i \in 1..Len(R) : e = R[i]
    BY <1>1 DEF ToSet
  <2>3. \A i \in 1..Len(R) : R[i] \in ToSet(R) /\ R[i] \in StateFrames
    BY <1>1 DEF ToSet
  <2>4. D \in SUBSET StateFrames
    BY <2>2, <2>3
  <2>5. /\ f.type = "diffs" /\ f.seq = producer.seq /\ f.visit = req.visit /\ f.diffs = D
    BY <2>1
  <2>6. f \in Answers
    <3> HIDE DEF D
    <3> QED
      BY <1>1, <2>1, <2>4 DEF Answers
  <2>7. D \subseteq Entries(hist, 0, producer.seq)
    <3>1. ASSUME NEW i \in 1..Len(R)
          PROVE  R[i] \in Entries(hist, 0, producer.seq)
      <4>1. R[i] = Entry(hist, producer.seq - Len(R) + i)
        BY DEF HistoryFits
      <4>2. producer.seq - Len(R) + i \in 0..producer.seq
        BY <1>1 DEF HistoryFits
      <4> QED
        BY <1>1, <4>1, <4>2, EntriesFacts
    <3> QED
      BY <2>2, <3>1
  <2>8. ASSUME NEW m \in req.since + 1..producer.seq PROVE Entry(hist, m) \in D
    <3>1. R # <<>> /\ Len(R) \in Nat /\ Len(R) >= 1 /\ Head(R) = R[1]
      BY <1>1, <1>3
    <3>2. R[1] = Entry(hist, producer.seq - Len(R) + 1)
      <4>1. 1 \in 1..Len(R)
        BY <3>1
      <4> QED
        BY <4>1 DEF HistoryFits
    <3>3. Head(R).seq = producer.seq - Len(R) + 1
      BY <3>1, <3>2, EntryFields
    <3> DEFINE i == m - producer.seq + Len(R)
    <3>4. i \in 1..Len(R)
      <4>1. ~(req.since + 1 < Head(R).seq)
        BY <1>3
      <4>2. m \in Int /\ m >= req.since + 1 /\ m <= producer.seq
        BY <1>1
      <4>3. ~(req.since + 1 < producer.seq - Len(R) + 1)
        BY <3>3, <4>1
      <4>4. producer.seq \in Int /\ req.since \in Int /\ Len(R) \in Nat
        BY <1>1, <3>1
      <4> DEFINE p == producer.seq
                 c == req.since
                 n == Len(R)
      <4>5. /\ p \in Int /\ c \in Int /\ n \in Nat /\ m \in Int
            /\ m >= c + 1 /\ m <= p /\ ~(c + 1 < p - n + 1)
        BY <4>2, <4>3, <4>4
      <4> HIDE DEF p, c, n
      <4>6. m - p + n \in 1..n
        BY <4>5
      <4> QED
        BY <4>6 DEF p, n
    <3>5. i \in Int /\ producer.seq - Len(R) + i = m
      <4>1. producer.seq \in Int /\ Len(R) \in Nat /\ m \in Int
        BY <1>1, <3>1
      <4> HIDE DEF R
      <4> QED
        BY <4>1
    <3> HIDE DEF i
    <3>6. R[i] = Entry(hist, m)
      <4>1. R[i] = Entry(hist, producer.seq - Len(R) + i)
        BY <3>4 DEF HistoryFits
      <4> QED
        BY <3>5, <4>1
    <3>7. R[i] \in ToSet(R) /\ Entry(hist, m).seq > req.since
      <4>1. m \in Int /\ m > req.since
        BY <1>1
      <4> QED
        BY <2>3, <3>4, <4>1, EntryFields
    <3> QED
      BY <3>6, <3>7
  <2>9. req.since >= 0
    BY <1>1, <1>3
  <2> HIDE DEF f, D
  <2> QED
    BY <1>1, <2>5, <2>6, <2>7, <2>8, <2>9 DEF FrameFits, IsAnswer, f
<1> QED
  BY <1>2, <1>3

----------------------------------------------------------------------------
\* What a viewer does with a frame, one case after another.
Steady == view'.mode = view.mode /\ view'.lastSeq = view.lastSeq
          /\ view'.snapshot = view.snapshot

Opens ==
    /\ Head(out).type = "joined" /\ view.mode = "joining" /\ in' = in
    /\ view'.mode = "in" /\ view'.snapshot = Head(out).seed /\ view'.lastSeq = -1
    /\ ~astray'

Closes ==
    /\ Mounted /\ in' = in
    /\ view'.mode = "out" /\ view'.snapshot = Blank /\ view'.lastSeq = -1
    /\ ~astray'

Ignores ==
    /\ view' = view /\ in' = in /\ (astray' <=> Mounted /\ astray)

Applies ==
    /\ Mounted /\ Head(out).type = "state" /\ Head(out).seq = view.lastSeq + 1
    /\ in' = in /\ (astray' <=> astray)
    /\ view'.mode = view.mode /\ view'.lastSeq = Head(out).seq
    /\ view'.snapshot = Merge(view.snapshot, Head(out).diff)

Asks ==
    /\ Mounted /\ Head(out).type = "state" /\ Steady /\ (astray' <=> astray)
    /\ \/ in' = in
       \/ in' = Append(in, [type |-> "req", visit |-> visit, since |-> view.lastSeq])

Replaces ==
    /\ Mounted /\ Head(out).type = "full" /\ in' = in
    /\ (astray' <=> astray \/ Head(out).visit # visit)
    /\ view'.mode = view.mode /\ view'.lastSeq = Head(out).seq
    /\ view'.snapshot = Head(out).state

Patches ==
    /\ Mounted /\ Head(out).type = "diffs" /\ in' = in
    /\ (astray' <=> astray \/ Head(out).visit # visit)
    /\ view'.mode = view.mode
    /\ LET fresh == {e \in Head(out).diffs : e.seq > view.lastSeq} IN
       /\ view'.snapshot = Patched(view.snapshot, fresh)
       /\ view'.lastSeq = IF fresh = {} THEN view.lastSeq ELSE Newest(fresh).seq

LEMMA ViewerCases ==
    ASSUME ChannelTypes, ViewFits, ViewerTakes
    PROVE  /\ out # <<>> /\ out' = Tail(out)
           /\ shell' = shell /\ edits' = edits /\ producer' = producer /\ paused' = paused
           /\ toggles' = toggles /\ busy' = busy /\ hist' = hist /\ feed' = feed
           /\ down' = down /\ rt' = rt /\ visit' = visit
           /\ withheld' \in BOOLEAN /\ astray' \in BOOLEAN
           /\ view'.mode \in {"out", "joining", "in", "leaving"}
           /\ view'.awaiting \in BOOLEAN
           /\ view' = [mode |-> view'.mode, snapshot |-> view'.snapshot,
                       lastSeq |-> view'.lastSeq, awaiting |-> view'.awaiting]
           /\ Opens \/ Closes \/ Ignores \/ Applies \/ Asks \/ Replaces \/ Patches
<1> DEFINE frame == Head(out)
           Fits == /\ view'.mode \in {"out", "joining", "in", "leaving"}
                   /\ view'.awaiting \in BOOLEAN
                   /\ view' = [mode |-> view'.mode, snapshot |-> view'.snapshot,
                               lastSeq |-> view'.lastSeq, awaiting |-> view'.awaiting]
<1>1. /\ view.mode \in {"out", "joining", "in", "leaving"} /\ view.awaiting \in BOOLEAN
      /\ view = [mode |-> view.mode, snapshot |-> view.snapshot,
                 lastSeq |-> view.lastSeq, awaiting |-> view.awaiting]
      /\ view \in ViewType /\ withheld \in BOOLEAN /\ astray \in BOOLEAN
  BY DEF ChannelTypes, ViewType
<1>2. /\ out # <<>> /\ out' = Tail(out)
      /\ shell' = shell /\ edits' = edits /\ producer' = producer /\ paused' = paused
      /\ toggles' = toggles /\ busy' = busy /\ hist' = hist /\ feed' = feed
      /\ down' = down /\ rt' = rt /\ visit' = visit
      /\ withheld' \in BOOLEAN /\ astray' \in BOOLEAN
  BY DEF ViewerTakes, host
<1>3. astray' <=> /\ view'.mode \in {"in", "leaving"}
                  /\ \/ astray
                     \/ frame.type \in {"full", "diffs"} /\ frame.visit # visit
  BY DEF ViewerTakes
<1>4. \/ /\ frame.type = "joined" /\ view.mode = "joining"
         /\ view' = [Unmounted EXCEPT !.mode = "in", !.snapshot = frame.seed]
         /\ UNCHANGED in
      \/ /\ frame.type = "left" /\ view.mode = "leaving"
         /\ view' = Unmounted /\ UNCHANGED in
      \/ frame.type = "state" /\ Mounted /\ ApplyState(frame)
      \/ frame.type \in {"full", "diffs"} /\ Mounted /\ ApplyAnswer(frame)
      \/ frame.type = "kicked" /\ UNCHANGED <<view, in>>
      \/ /\ frame.type \in {"state", "full", "diffs", "left"}
         /\ view.mode \in {"out", "joining"}
         /\ UNCHANGED <<view, in>>
  BY DEF ViewerTakes
<1> HIDE DEF frame
<1>5. CASE /\ frame.type = "joined" /\ view.mode = "joining"
           /\ view' = [Unmounted EXCEPT !.mode = "in", !.snapshot = frame.seed]
           /\ UNCHANGED in
  <2>1. view' = [mode |-> "in", snapshot |-> frame.seed, lastSeq |-> -1, awaiting |-> FALSE]
    BY <1>5 DEF Unmounted
  <2>2. ~astray
    BY <1>5 DEF ViewFits, Mounted
  <2>3. ~(frame.type \in {"full", "diffs"})
    BY <1>5
  <2>4. ~astray'
    BY <1>3, <2>2, <2>3
  <2>5. /\ view'.mode = "in" /\ view'.snapshot = frame.seed /\ view'.lastSeq = -1
        /\ view'.awaiting = FALSE
    BY <2>1
  <2>6. Opens
    BY <1>5, <2>4, <2>5 DEF Opens, frame
  <2>7. Fits
    BY <2>1, <2>5
  <2> QED
    BY <1>2, <2>6, <2>7
<1>6. CASE frame.type = "left" /\ view.mode = "leaving" /\ view' = Unmounted /\ UNCHANGED in
  <2>1. view' = [mode |-> "out", snapshot |-> Blank, lastSeq |-> -1, awaiting |-> FALSE]
    BY <1>6 DEF Unmounted
  <2> QED
    BY <1>2, <1>3, <1>6, <2>1 DEF Closes, Mounted
<1>7. CASE frame.type = "state" /\ Mounted /\ ApplyState(frame)
  <2>1. CASE frame.seq <= view.lastSeq /\ UNCHANGED <<view, in>>
    BY <1>1, <1>2, <1>3, <1>7, <2>1 DEF Ignores, Mounted
  <2>2. CASE /\ frame.seq = view.lastSeq + 1
             /\ view' = [view EXCEPT !.lastSeq = frame.seq,
                                     !.snapshot = Merge(@, frame.diff)]
             /\ UNCHANGED in
    <3>1. view' = [mode |-> view.mode, snapshot |-> Merge(view.snapshot, frame.diff),
                   lastSeq |-> frame.seq, awaiting |-> view.awaiting]
      BY <1>1, <2>2
    <3>2. Applies /\ Fits
      BY <1>1, <1>3, <1>7, <2>2, <3>1 DEF Applies, Mounted, frame
    <3> QED
      BY <1>2, <3>2
  <2>3. CASE frame.seq > view.lastSeq + 1 /\ Request
    <3>1. CASE view.awaiting
      <4>1. view' = view /\ in' = in
        BY <2>3, <3>1 DEF Request
      <4> QED
        BY <1>1, <1>2, <1>3, <1>7, <4>1 DEF Ignores, Mounted
    <3>2. CASE ~view.awaiting
      <4>1. /\ view' = [view EXCEPT !.awaiting = TRUE]
            /\ in' = Append(in, [type |-> "req", visit |-> visit, since |-> view.lastSeq])
        BY <2>3, <3>2 DEF Request
      <4>2. view' = [mode |-> view.mode, snapshot |-> view.snapshot,
                     lastSeq |-> view.lastSeq, awaiting |-> TRUE]
        BY <1>1, <4>1
      <4>3. Asks /\ Fits
        BY <1>1, <1>3, <1>7, <4>1, <4>2 DEF Asks, Steady, Mounted, frame
      <4> QED
        BY <1>2, <4>3
    <3> QED
      BY <3>1, <3>2
  <2> QED
    BY <1>7, <2>1, <2>2, <2>3 DEF ApplyState
<1>8. CASE frame.type \in {"full", "diffs"} /\ Mounted /\ ApplyAnswer(frame)
  <2>1. in' = in
    BY <1>8 DEF ApplyAnswer
  <2>2. CASE /\ frame.type = "full"
             /\ view' = [view EXCEPT !.snapshot = frame.state,
                                     !.lastSeq = frame.seq, !.awaiting = FALSE]
    <3>1. view' = [mode |-> view.mode, snapshot |-> frame.state,
                   lastSeq |-> frame.seq, awaiting |-> FALSE]
      BY <1>1, <2>2
    <3>2. Replaces /\ Fits
      BY <1>1, <1>3, <1>8, <2>1, <2>2, <3>1 DEF Replaces, Mounted, frame
    <3> QED
      BY <1>2, <3>2
  <2>3. CASE /\ frame.type = "diffs"
             /\ LET fresh == {e \in frame.diffs : e.seq > view.lastSeq} IN
                view' = [view EXCEPT
                           !.snapshot = Patched(@, fresh),
                           !.lastSeq = IF fresh = {} THEN @ ELSE Newest(fresh).seq,
                           !.awaiting = FALSE]
    <3> DEFINE fresh == {e \in frame.diffs : e.seq > view.lastSeq}
               p == Patched(view.snapshot, fresh)
               n == IF fresh = {} THEN view.lastSeq ELSE Newest(fresh).seq
    <3>0. view' = [view EXCEPT !.snapshot = p, !.lastSeq = n, !.awaiting = FALSE]
      BY <2>3
    <3>1. view' = [mode |-> view.mode, snapshot |-> p, lastSeq |-> n, awaiting |-> FALSE]
      <4> HIDE DEF p, n
      <4> QED
        BY <1>1, <3>0
    <3>2. /\ view'.mode = view.mode /\ view'.snapshot = p /\ view'.lastSeq = n /\ Fits
      <4> HIDE DEF p, n
      <4> QED
        BY <1>1, <3>1
    <3>3. astray' <=> astray \/ frame.visit # visit
      BY <1>3, <1>8, <2>3, <3>2 DEF Mounted
    <3>4. Patches
      BY <1>8, <2>1, <2>3, <3>2, <3>3 DEF Patches, frame
    <3> QED
      BY <1>2, <3>2, <3>4
  <2> QED
    BY <1>8, <2>2, <2>3 DEF ApplyAnswer
<1>9. CASE frame.type = "kicked" /\ UNCHANGED <<view, in>>
  BY <1>1, <1>2, <1>3, <1>9 DEF Ignores, Mounted
<1>10. CASE /\ frame.type \in {"state", "full", "diffs", "left"}
            /\ view.mode \in {"out", "joining"}
            /\ UNCHANGED <<view, in>>
  BY <1>1, <1>2, <1>3, <1>10 DEF Ignores, Mounted
<1> QED
  BY <1>4, <1>5, <1>6, <1>7, <1>8, <1>9, <1>10
----------------------------------------------------------------------------
\* Types.

\* A frame taken from a queue, by its type.
LEMMA FrameKinds ==
    /\ \A f \in FromHost : /\ f.type = "state" => f \in StateFrames
                           /\ IsAnswer(f) => f \in Answers
                           /\ f.type = "update" => f.paused \in BOOLEAN
    /\ \A f \in ToViewer : /\ f.type = "state" => f \in StateFrames
                           /\ IsAnswer(f) => f \in Answers
                           /\ f.type = "joined" => f.seed \in Snapshot
    /\ \A f \in ToHost : f.type = "req" => f \in Requests
    /\ \A f \in FromViewer : f.type = "req" => f \in Requests
    /\ \A f \in Answers : f.visit \in Nat /\ f.seq \in Int /\ IsAnswer(f)
    /\ \A f \in StateFrames : f.seq \in Nat /\ f.type = "state"
    /\ \A r \in Requests : r.visit \in Nat /\ r.since \in Int /\ r.type = "req"
  BY DEF FromHost, ToViewer, ToHost, FromViewer, StateFrames, Answers, Requests, IsAnswer

\* The frame of an edit is the entry of the number it gets.
LEMMA ChangeFacts ==
    ASSUME ChannelInv, NEW key \in Key, Change(key)
    PROVE  LET next == [shell EXCEPT ![key] = edits + 1]
               frame == Entry(hist', Len(hist))
           IN
           /\ next \in Snapshot /\ hist' = Append(hist, next) /\ shell' = next
           /\ hist' \in Seq(Snapshot) /\ Len(hist') = Len(hist) + 1 /\ Len(hist) \in Nat
           /\ frame \in StateFrames /\ feed' = Append(feed, frame)
           /\ producer' = [seq |-> Len(hist), snapshot |-> next,
                           ring |-> Pushed(producer.ring, frame)]
           /\ edits' = edits + 1 /\ edits' \in 0..MaxEdits
           /\ paused' = paused /\ toggles' = toggles /\ busy' = busy /\ down' = down
           /\ rt' = rt /\ out' = out /\ in' = in /\ view' = view /\ visit' = visit
           /\ withheld' = withheld /\ astray' = astray
<1> DEFINE next == [shell EXCEPT ![key] = edits + 1]
<1>1. shell \in [Key -> 0..MaxEdits] /\ edits \in 0..MaxEdits /\ edits < MaxEdits
      /\ MaxEdits \in Nat /\ hist \in Seq(Snapshot) /\ Len(hist) \in Nat
  BY SMTT(30), SizeAssumption DEF ChannelInv, ChannelTypes, Change, Snapshot
<1>2. next \in Snapshot
  <2>1. edits + 1 \in 0..MaxEdits
    BY <1>1
  <2> QED
    BY <1>1, <2>1 DEF Snapshot
<1>3. hist' = Append(hist, next) /\ shell' = next
  BY DEF Change
<1> HIDE DEF next
<1>4. /\ hist' \in Seq(Snapshot) /\ Len(hist') = Len(hist) + 1
      /\ At(hist', Len(hist)) = next
      /\ \A n \in Int : n <= Len(hist) - 1 => At(hist', n) = At(hist, n)
  BY <1>1, <1>2, <1>3, HistoryGrows
<1>5. producer.seq = Len(hist) - 1 /\ producer.snapshot = At(hist, Len(hist) - 1)
  BY DEF ChannelInv, HistoryFits
<1>6. StateFrame(producer.seq + 1, Diff(producer.snapshot, next)) = Entry(hist', Len(hist))
  <2>1. producer.seq + 1 = Len(hist) /\ At(hist', Len(hist) - 1) = producer.snapshot
    BY <1>1, <1>4, <1>5
  <2> QED
    BY <1>4, <2>1 DEF Entry
<1>7. Entry(hist', Len(hist)) \in StateFrames /\ Entry(hist', Len(hist)).seq = Len(hist)
  BY <1>1, <1>4, EntryType, EntryFields
<1>8. /\ feed' = Append(feed, Entry(hist', Len(hist)))
      /\ producer' = [seq |-> Len(hist), snapshot |-> next,
                      ring |-> Pushed(producer.ring, Entry(hist', Len(hist)))]
  BY <1>6, <1>7 DEF Change, next
<1>9. edits' = edits + 1 /\ edits' \in 0..MaxEdits
  BY <1>1 DEF Change
<1> QED
  BY <1>1, <1>2, <1>3, <1>4, <1>7, <1>8, <1>9 DEF next, Change, watch

\* What the runtime sends goes to the queue of the viewer, or nowhere.
LEMMA SentFacts ==
    ASSUME ChannelTypes, NEW f \in ToViewer, Sent(f)
    PROVE  out' \in Seq(ToViewer) /\ (out' = out \/ out' = Append(out, f))
  BY AppendedQueue DEF Sent, ChannelTypes

\* The diffs of an answer that are new to a picture of the number v.
Fresh(F, v) == {e \in F : e.seq > v}

LEMMA PatchedByNone == \A s \in Snapshot : Patched(s, {}) = s
<1> SUFFICES ASSUME NEW s \in Snapshot PROVE Patched(s, {}) = s
  OBVIOUS
<1>1. s \in [Key -> 0..MaxEdits]
  BY DEF Snapshot
<1>2. Patched(s, {}) = [k \in Key |-> s[k]]
  BY DEF Patched
<1> QED
  BY <1>1, <1>2

LEMMA FreshFacts ==
    ASSUME NEW h \in Seq(Snapshot), NEW v \in Int, -1 <= v, NEW n \in Int, n <= Len(h) - 1,
           NEW F, F \subseteq Entries(h, 0, n), NEW s \in Snapshot
    PROVE  /\ Patched(s, Fresh(F, v)) \in Snapshot
           /\ Fresh(F, v) # {} => Newest(Fresh(F, v)).seq \in v + 1..n
           /\ (\A m \in v + 1..n : Entry(h, m) \in F) =>
                 /\ Fresh(F, v) = Entries(h, v + 1, n)
                 /\ v < n => Fresh(F, v) # {} /\ Newest(Fresh(F, v)).seq = n
                 /\ v >= n => Fresh(F, v) = {}
<1> DEFINE fresh == Fresh(F, v)
           D == {m \in v + 1..n : Entry(h, m) \in F}
<1>0. \A e : e \in fresh <=> e \in F /\ e.seq > v
  BY DEF Fresh
<1> HIDE DEF fresh
<1>1. fresh = {Entry(h, m) : m \in D}
  <2>1. ASSUME NEW e \in fresh PROVE e.seq \in D /\ e = Entry(h, e.seq)
    <3>1. e \in Entries(h, 0, n) /\ e.seq > v /\ e \in F
      BY <1>0
    <3>2. e.seq \in 0..n /\ e = Entry(h, e.seq)
      BY <3>1, EntriesFacts
    <3> QED
      BY <3>1, <3>2
  <2>2. ASSUME NEW m \in D PROVE Entry(h, m) \in fresh
    BY <1>0, EntryFields
  <2> QED
    BY <2>1, <2>2
<1>2. D \subseteq 0..Len(h) - 1 /\ D \subseteq Int /\ \A m \in D : m \in v + 1..n /\ m <= n
  OBVIOUS
<1>3. Patched(s, fresh) \in Snapshot
  <2> HIDE DEF D
  <2> QED
    BY <1>1, <1>2, PatchedType
<1>4. ASSUME fresh # {} PROVE Newest(fresh).seq \in v + 1..n
  <2>1. D # {}
    BY <1>1, <1>4
  <2> HIDE DEF D
  <2>2. PICK m \in D : \A d \in D : d <= m
    BY <1>2, <2>1, GreatestOne
  <2>3. Newest(fresh) = Entry(h, m)
    BY <1>1, <1>2, <2>2, NewestEntry
  <2> QED
    BY <1>2, <2>3, EntryFields
<1>5. ASSUME \A m \in v + 1..n : Entry(h, m) \in F
      PROVE  /\ fresh = Entries(h, v + 1, n)
             /\ v < n => fresh # {} /\ Newest(fresh).seq = n
             /\ v >= n => fresh = {}
  <2>1. D = v + 1..n
    BY <1>5
  <2>2. fresh = Entries(h, v + 1, n)
    <3> HIDE DEF D
    <3> QED
      BY <1>1, <2>1 DEF Entries
  <2>3. ASSUME v < n PROVE fresh # {} /\ Newest(fresh).seq = n
    <3>1. n \in D /\ \A d \in D : d <= n
      BY <2>1, <2>3
    <3> HIDE DEF D
    <3>2. Newest(fresh) = Entry(h, n) /\ fresh # {}
      BY <1>1, <1>2, <3>1, NewestEntry
    <3> QED
      BY <3>2, EntryFields
  <2>4. ASSUME v >= n PROVE fresh = {}
    <3>1. D = {}
      BY <2>1, <2>4
    <3> HIDE DEF D
    <3> QED
      BY <1>1, <3>1
  <2> QED
    BY <2>2, <2>3, <2>4
<1> QED
  BY <1>3, <1>4, <1>5 DEF fresh

LEMMA PatchesType ==
    ASSUME hist \in Seq(Snapshot), Len(hist) \in Nat, view.snapshot \in Snapshot,
           view.lastSeq \in Int, view.lastSeq >= -1, FrameFits(hist, Head(out)), Patches
    PROVE  /\ view'.snapshot \in Snapshot /\ view'.lastSeq \in Int
           /\ view'.lastSeq >= view.lastSeq
           /\ view'.lastSeq <= Head(out).seq \/ view'.lastSeq = view.lastSeq
           /\ view'.lastSeq = view.lastSeq => view'.snapshot = view.snapshot
           /\ /\ view.lastSeq <= Head(out).seq
              /\ \A m \in view.lastSeq + 1..Head(out).seq : Entry(hist, m) \in Head(out).diffs
              => /\ view'.lastSeq = Head(out).seq
                 /\ view.lastSeq < Head(out).seq => view'.snapshot
                      = Patched(view.snapshot, Entries(hist, view.lastSeq + 1, Head(out).seq))
<1> DEFINE n == Head(out).seq
           F == Head(out).diffs
           fresh == {e \in F : e.seq > view.lastSeq}
<1>1. n \in Int /\ n <= Len(hist) - 1 /\ F \subseteq Entries(hist, 0, n)
  BY DEF Patches, FrameFits, IsAnswer
<1>2. /\ view'.snapshot = Patched(view.snapshot, fresh)
      /\ view'.lastSeq = IF fresh = {} THEN view.lastSeq ELSE Newest(fresh).seq
  BY DEF Patches
<1> HIDE DEF n, F
<1>0. fresh = Fresh(F, view.lastSeq)
  BY DEF Fresh
<1> HIDE DEF fresh
<1>3. /\ Patched(view.snapshot, fresh) \in Snapshot
      /\ fresh # {} => Newest(fresh).seq \in view.lastSeq + 1..n
  BY <1>0, <1>1, FreshFacts
<1>4. /\ view'.snapshot \in Snapshot /\ view'.lastSeq \in Int
      /\ view'.lastSeq >= view.lastSeq
      /\ view'.lastSeq <= n \/ view'.lastSeq = view.lastSeq
  BY <1>1, <1>2, <1>3
<1>5. ASSUME view'.lastSeq = view.lastSeq PROVE view'.snapshot = view.snapshot
  <2>1. fresh = {}
    BY <1>1, <1>2, <1>3, <1>5
  <2> QED
    BY <1>2, <2>1, PatchedByNone
<1>6. ASSUME view.lastSeq <= n, \A m \in view.lastSeq + 1..n : Entry(hist, m) \in F
      PROVE  /\ view'.lastSeq = n
             /\ view.lastSeq < n => view'.snapshot
                  = Patched(view.snapshot, Entries(hist, view.lastSeq + 1, n))
  <2>1. /\ Fresh(F, view.lastSeq) = Entries(hist, view.lastSeq + 1, n)
        /\ view.lastSeq < n => Fresh(F, view.lastSeq) # {} /\ Newest(Fresh(F, view.lastSeq)).seq = n
        /\ view.lastSeq >= n => Fresh(F, view.lastSeq) = {}
    BY <1>1, <1>6, FreshFacts
  <2>2. CASE view.lastSeq < n
    BY <1>0, <1>2, <2>1, <2>2
  <2>3. CASE view.lastSeq = n
    BY <1>0, <1>1, <1>2, <2>1, <2>3
  <2> QED
    BY <1>1, <1>6, <2>2, <2>3
<1> QED
  BY <1>4, <1>5, <1>6 DEF n, F

LEMMA StepTypes ==
    ASSUME ChannelInv, [StateNext]_stateVars
    PROVE  ChannelTypes'
<1> USE DEF ChannelTypes
<1>0. ChannelTypes
  BY DEF ChannelInv
<1>1. CASE \E key \in Key : Change(key)
  <2>1. PICK key \in Key : Change(key)
    BY <1>1
  <2> DEFINE frame == Entry(hist', Len(hist))
  <2>2. /\ frame \in StateFrames /\ feed' = Append(feed, frame)
        /\ shell' \in Snapshot /\ edits' \in 0..MaxEdits /\ hist' \in Seq(Snapshot)
        /\ producer' = [seq |-> Len(hist), snapshot |-> shell',
                        ring |-> Pushed(producer.ring, frame)]
        /\ Len(hist) \in Nat
        /\ paused' = paused /\ toggles' = toggles /\ busy' = busy /\ down' = down
        /\ rt' = rt /\ out' = out /\ in' = in /\ view' = view /\ visit' = visit
        /\ withheld' = withheld /\ astray' = astray
    BY <2>1, ChangeFacts
  <2> HIDE DEF frame
  <2>3. feed' \in Seq(FromHost)
    BY <1>0, <2>2, AppendedQueue DEF FromHost
  <2>4. Pushed(producer.ring, frame) \in Seq(StateFrames)
    <3>1. producer.ring \in Seq(StateFrames)
      BY <1>0
    <3>2. CASE Len(producer.ring) < RingCapacity
      BY <2>2, <3>1, <3>2 DEF Pushed
    <3>3. CASE ~(Len(producer.ring) < RingCapacity)
      <4>1. producer.ring # <<>>
        BY <3>3, SizeAssumption
      <4>2. Tail(producer.ring) \in Seq(StateFrames)
        BY <3>1, <4>1
      <4> QED
        BY <2>2, <3>3, <4>2 DEF Pushed
    <3> QED
      BY <3>2, <3>3
  <2>5. producer' \in [seq : Int, snapshot : Snapshot, ring : Seq(StateFrames)]
    BY <2>2, <2>4
  <2> QED
    BY <1>0, <2>2, <2>3, <2>5
<1>2. CASE \E key \in Key : ChangeUnnoticed(key)
  <2>1. PICK key \in Key : ChangeUnnoticed(key)
    BY <1>2
  <2>2. edits' \in 0..MaxEdits /\ edits + 1 \in 0..MaxEdits
    BY <1>0, <2>1, SizeAssumption DEF ChangeUnnoticed
  <2>3. shell' \in Snapshot
    BY <1>0, <2>1, <2>2 DEF ChangeUnnoticed, Snapshot
  <2> QED
    BY <1>0, <2>1, <2>2, <2>3 DEF ChangeUnnoticed, watch
<1>3. CASE TogglePause
  <2>1. [type |-> "update", paused |-> ~paused] \in FromHost
    BY <1>0 DEF FromHost
  <2>2. feed' \in Seq(FromHost) /\ busy' \in BOOLEAN
    <3>1. CASE busy /\ UNCHANGED <<busy, feed>>
      BY <1>0, <3>1
    <3>2. CASE busy' = TRUE /\ feed' = Append(feed, [type |-> "update", paused |-> ~paused])
      BY <1>0, <2>1, <3>2, AppendedQueue
    <3> QED
      BY <1>3, <3>1, <3>2 DEF TogglePause
  <2> QED
    BY <1>0, <1>3, <2>2 DEF TogglePause, watch
<1>4. CASE HostTakesAck
  <2>1. down' \in Seq(ToHost)
    BY <1>0, <1>4, TailQueue DEF HostTakesAck
  <2> QED
    BY <1>0, <1>4, <2>1 DEF HostTakesAck, watch
<1>5. CASE HostAnswers
  <2>1. down' \in Seq(ToHost) /\ Head(down) \in Requests
    BY <1>0, <1>5, TailQueue, FrameKinds DEF HostAnswers
  <2>2. Resolve(Head(down)) \in FromHost
    BY <2>1, ResolveFacts DEF ChannelInv, FromHost
  <2>3. feed' \in Seq(FromHost)
    <3>1. CASE feed' = Append(feed, Resolve(Head(down)))
      BY <1>0, <2>2, <3>1, AppendedQueue
    <3>2. CASE feed' = feed
      BY <1>0, <3>2
    <3> QED
      BY <1>5, <3>1, <3>2 DEF HostAnswers
  <2>4. withheld' \in BOOLEAN
    BY <1>0, <1>5 DEF HostAnswers
  <2> QED
    BY <1>0, <1>5, <2>1, <2>3, <2>4 DEF HostAnswers, host
<1>6. CASE TakeState
  <2>1. feed' \in Seq(FromHost) /\ Head(feed) \in StateFrames /\ Head(feed) \in Wire
    BY <1>0, <1>6, TailQueue, FrameKinds DEF TakeState, Wire
  <2>2. Head(feed) \in ToViewer /\ Head(feed).seq \in Nat
    BY <2>1, FrameKinds DEF ToViewer
  <2>3. Merge(rt.snapshot, Head(feed).diff) \in Snapshot
    <3>1. Head(feed).seq \in 0..Len(hist) - 1 /\ Head(feed) = Entry(hist, Head(feed).seq)
      BY <2>1, FrameKinds DEF ChannelInv, FramesFit, FrameFits
    <3>2. rt.snapshot \in Snapshot /\ hist \in Seq(Snapshot)
      BY <1>0
    <3> HIDE DEF ChannelTypes
    <3> QED
      BY <3>1, <3>2, EntryLeads
  <2>4. rt' \in [paused : BOOLEAN, lastSeq : Int, snapshot : Snapshot, member : BOOLEAN]
    <3> DEFINE n == Head(feed).seq
               m == Merge(rt.snapshot, Head(feed).diff)
    <3>1. CASE rt' = [rt EXCEPT !.lastSeq = n, !.snapshot = m]
      <4>1. n \in Int
        BY <2>2
      <4> HIDE DEF n, m
      <4> QED
        BY <1>0, <2>3, <3>1, <4>1 DEF m
    <3>2. CASE rt' = rt
      BY <1>0, <3>2
    <3> QED
      BY <1>6, <3>1, <3>2 DEF TakeState
  <2>5. out' \in Seq(ToViewer)
    BY <1>0, <1>6, <2>2, SentFacts DEF TakeState
  <2> QED
    BY <1>0, <1>6, <2>1, <2>4, <2>5 DEF TakeState, host, watch
<1>7. CASE TakeUpdate
  <2>1. feed' \in Seq(FromHost) /\ Head(feed).paused \in BOOLEAN
    BY <1>0, <1>7, TailQueue, FrameKinds DEF TakeUpdate
  <2>2. [type |-> "ack"] \in ToHost
    BY DEF ToHost
  <2>3. down' \in Seq(ToHost)
    BY <1>0, <1>7, <2>2, AppendedQueue DEF TakeUpdate
  <2>4. rt' \in [paused : BOOLEAN, lastSeq : Int, snapshot : Snapshot, member : BOOLEAN]
    BY <1>0, <1>7, <2>1 DEF TakeUpdate
  <2> QED
    BY <1>0, <1>7, <2>1, <2>3, <2>4 DEF TakeUpdate, host, watch
<1>8. CASE TakeAnswer
  <2>1. feed' \in Seq(FromHost) /\ Head(feed) \in Answers
    BY <1>0, <1>8, TailQueue, FrameKinds DEF TakeAnswer, IsAnswer
  <2>2. out' \in Seq(ToViewer)
    BY <1>0, <1>8, <2>1, SentFacts DEF TakeAnswer, ToViewer
  <2> QED
    BY <1>0, <1>8, <2>1, <2>2 DEF TakeAnswer, host, watch
<1>9. CASE TakeRequest
  <2>1. in' \in Seq(FromViewer) /\ Head(in) \in Requests
    BY <1>0, <1>9, TailQueue, FrameKinds DEF TakeRequest
  <2>2. down' \in Seq(ToHost)
    BY <1>0, <1>9, <2>1, AppendedQueue DEF TakeRequest, ToHost
  <2> QED
    BY <1>0, <1>9, <2>1, <2>2 DEF TakeRequest, host, watch
<1>10. CASE TakeJoin
  <2>1. in' \in Seq(FromViewer)
    BY <1>0, <1>10, TailQueue DEF TakeJoin
  <2> DEFINE seed == IF rt.lastSeq < 0 THEN Blank ELSE rt.snapshot
  <2>2. seed \in Snapshot
    BY <1>0, BlankType
  <2>3. out' = Append(out, [type |-> "joined", seed |-> seed])
    BY <1>10 DEF TakeJoin
  <2> HIDE DEF seed
  <2>4. [type |-> "joined", seed |-> seed] \in ToViewer
    BY <2>2 DEF ToViewer
  <2>5. out' \in Seq(ToViewer)
    BY <1>0, <2>3, <2>4, AppendedQueue
  <2>6. rt' \in [paused : BOOLEAN, lastSeq : Int, snapshot : Snapshot, member : BOOLEAN]
    BY <1>0, <1>10 DEF TakeJoin
  <2> QED
    BY <1>0, <1>10, <2>1, <2>5, <2>6 DEF TakeJoin, host, watch
<1>11. CASE TakeLeave
  <2>1. in' \in Seq(FromViewer)
    BY <1>0, <1>11, TailQueue DEF TakeLeave
  <2>2. [type |-> "left"] \in ToViewer
    BY DEF ToViewer
  <2>3. out' \in Seq(ToViewer)
    BY <1>0, <1>11, <2>2, SentFacts DEF TakeLeave
  <2>4. rt' \in [paused : BOOLEAN, lastSeq : Int, snapshot : Snapshot, member : BOOLEAN]
    BY <1>0, <1>11 DEF TakeLeave
  <2> QED
    BY <1>0, <1>11, <2>1, <2>3, <2>4 DEF TakeLeave, host, watch
<1>12. CASE PutOut
  <2>1. [type |-> "kicked"] \in ToViewer
    BY DEF ToViewer
  <2>2. out' \in Seq(ToViewer)
    BY <1>0, <1>12, <2>1, AppendedQueue DEF PutOut
  <2>3. rt' \in [paused : BOOLEAN, lastSeq : Int, snapshot : Snapshot, member : BOOLEAN]
    BY <1>0, <1>12 DEF PutOut
  <2> QED
    BY <1>0, <1>12, <2>2, <2>3 DEF PutOut, host, watch
<1>13. CASE AskToJoin
  <2>1. [type |-> "join"] \in FromViewer
    BY DEF FromViewer
  <2>2. in' \in Seq(FromViewer)
    BY <1>0, <1>13, <2>1, AppendedQueue DEF AskToJoin
  <2>3. view' \in ViewType
    BY <1>0, <1>13 DEF AskToJoin, ViewType
  <2>4. visit' \in Nat
    BY <1>0, <1>13 DEF AskToJoin
  <2> QED
    BY <1>0, <1>13, <2>2, <2>3, <2>4 DEF AskToJoin, host
<1>14. CASE AskToLeave
  <2>1. [type |-> "leave"] \in FromViewer
    BY DEF FromViewer
  <2>2. in' \in Seq(FromViewer)
    BY <1>0, <1>14, <2>1, AppendedQueue DEF AskToLeave
  <2>3. view' \in ViewType
    BY <1>0, <1>14 DEF AskToLeave, ViewType
  <2> QED
    BY <1>0, <1>14, <2>2, <2>3 DEF AskToLeave, host
<1>15. CASE LeaveTimesOut
  <2>1. view' \in ViewType
    BY <1>15, BlankType DEF LeaveTimesOut, Unmounted, ViewType
  <2> QED
    BY <1>0, <1>15, <2>1 DEF LeaveTimesOut, host
<1>16. CASE ViewerTakes
  <2>1. /\ out # <<>> /\ out' = Tail(out)
        /\ shell' = shell /\ edits' = edits /\ producer' = producer /\ paused' = paused
        /\ toggles' = toggles /\ busy' = busy /\ hist' = hist /\ feed' = feed
        /\ down' = down /\ rt' = rt /\ visit' = visit
        /\ withheld' \in BOOLEAN /\ astray' \in BOOLEAN
        /\ view'.mode \in {"out", "joining", "in", "leaving"}
        /\ view'.awaiting \in BOOLEAN
        /\ view' = [mode |-> view'.mode, snapshot |-> view'.snapshot,
                    lastSeq |-> view'.lastSeq, awaiting |-> view'.awaiting]
        /\ Opens \/ Closes \/ Ignores \/ Applies \/ Asks \/ Replaces \/ Patches
    BY <1>16, ViewerCases DEF ChannelInv
  <2>2. /\ out' \in Seq(ToViewer) /\ Head(out) \in ToViewer /\ Head(out) \in Wire
        /\ FrameFits(hist, Head(out))
    BY <1>0, <2>1, TailQueue DEF Wire, ChannelInv, FramesFit
  <2>3. in' \in Seq(FromViewer) /\ view'.snapshot \in Snapshot /\ view'.lastSeq \in Int
    <3>1. /\ in \in Seq(FromViewer) /\ view.snapshot \in Snapshot /\ view.lastSeq \in Int
          /\ hist \in Seq(Snapshot) /\ Len(hist) \in Nat /\ visit \in Nat
      BY <1>0 DEF ViewType
    <3> HIDE DEF ChannelTypes
    <3>2. CASE Opens
      BY <2>2, <3>1, <3>2, FrameKinds DEF Opens
    <3>3. CASE Closes
      BY <3>1, <3>3, BlankType DEF Closes
    <3>4. CASE Ignores
      BY <3>1, <3>4 DEF Ignores
    <3>5. CASE Applies
      <4>1. Head(out).seq \in 0..Len(hist) - 1 /\ Head(out) = Entry(hist, Head(out).seq)
        BY <2>2, <3>5 DEF Applies, FrameFits
      <4>2. Merge(view.snapshot, Head(out).diff) \in Snapshot
        BY <3>1, <4>1, EntryLeads
      <4> QED
        BY <3>1, <3>5, <4>1, <4>2 DEF Applies
    <3>6. CASE Asks
      <4>1. [type |-> "req", visit |-> visit, since |-> view.lastSeq] \in FromViewer
        BY <3>1 DEF FromViewer, Requests
      <4>2. in' \in Seq(FromViewer)
        BY SMTT(30), <3>1, <3>6, <4>1, AppendedQueue DEF Asks
      <4> QED
        BY <3>1, <3>6, <4>2 DEF Asks, Steady
    <3>7. CASE Replaces
      <4>1. Head(out).seq \in -1..Len(hist) - 1 /\ Head(out).state = At(hist, Head(out).seq)
        BY <2>2, <3>7 DEF Replaces, FrameFits, IsAnswer
      <4>2. Head(out).state \in Snapshot /\ Head(out).seq \in Int
        BY <3>1, <4>1, AtType
      <4> QED
        BY <3>1, <3>7, <4>2 DEF Replaces
    <3>8. CASE Patches
      <4>1. view.lastSeq >= -1
        BY DEF ChannelInv, OrderFits
      <4> QED
        BY <2>2, <3>1, <3>8, <4>1, PatchesType DEF Patches
    <3> QED
      BY <2>1, <3>2, <3>3, <3>4, <3>5, <3>6, <3>7, <3>8
  <2>4. view' \in ViewType
    BY <2>1, <2>3 DEF ViewType
  <2> HIDE DEF ChannelTypes
  <2>5. ChannelTypes'
    BY <1>0, <2>1, <2>2, <2>3, <2>4 DEF ChannelTypes
  <2> QED
    BY <2>5
<1>17. CASE UNCHANGED stateVars
  BY <1>0, <1>17 DEF stateVars, host, watch
<1> QED
  BY <1>1, <1>2, <1>3, <1>4, <1>5, <1>6, <1>7, <1>8, <1>9, <1>10, <1>11, <1>12, <1>13,
     <1>14, <1>15, <1>16, <1>17 DEF StateNext, Deliver
----------------------------------------------------------------------------
\* What a step does to the queues, to the picture and to what it knows of both.

\* The answer the host gives in this step.
Answered(f) == HostAnswers /\ feed' = Append(feed, f) /\ f = Resolve(Head(down))

\* The request the viewer makes in this step.
NewRequest(r) ==
    r = [type |-> "req", visit |-> visit', since |-> view'.lastSeq] /\ Mounted'

LEMMA HistorySteps ==
    ASSUME ChannelInv, [StateNext]_stateVars
    PROVE  /\ hist' \in Seq(Snapshot) /\ Len(hist) \in Nat /\ Len(hist') \in Nat
           /\ Len(hist') >= Len(hist)
           /\ \A n \in Int : n <= Len(hist) - 1 =>
                 At(hist', n) = At(hist, n) /\ Entry(hist', n) = Entry(hist, n)
           /\ \/ producer' = producer /\ hist' = hist
              \/ \E key \in Key : Change(key)
<1>1. hist \in Seq(Snapshot) /\ Len(hist) \in Nat
  BY DEF ChannelInv, ChannelTypes
<1>2. CASE \E key \in Key : Change(key)
  <2>1. PICK key \in Key : Change(key)
    BY <1>2
  <2>2. PICK s \in Snapshot : hist' = Append(hist, s) /\ Len(hist') = Len(hist) + 1
                              /\ hist' \in Seq(Snapshot)
    BY <2>1, ChangeFacts
  <2> QED
    BY <1>1, <1>2, <2>2, HistoryGrows
<1>3. CASE ~\E key \in Key : Change(key)
  <2>1. producer' = producer /\ hist' = hist
    <3>1. CASE ViewerTakes
      BY <3>1 DEF ViewerTakes, host
    <3>2. CASE StateNext /\ ~ViewerTakes
      BY <1>3, <3>2 DEF StateNext, Deliver, ChangeUnnoticed, TogglePause, HostTakesAck,
         HostAnswers, TakeState, TakeUpdate, TakeAnswer, TakeRequest, TakeJoin, TakeLeave,
         PutOut, AskToJoin, AskToLeave, LeaveTimesOut, host
    <3>3. CASE UNCHANGED stateVars
      BY <3>3 DEF stateVars, host
    <3> QED
      BY <3>1, <3>2, <3>3
  <2> QED
    BY <1>1, <2>1
<1> QED
  BY <1>2, <1>3

LEMMA StepHistory ==
    ASSUME ChannelInv, [StateNext]_stateVars
    PROVE  HistoryFits'
<1>1. HistoryFits
  BY DEF ChannelInv
<1>2. CASE producer' = producer /\ hist' = hist
  BY <1>1, <1>2 DEF HistoryFits
<1>3. CASE \E key \in Key : Change(key)
  <2>1. PICK key \in Key : Change(key)
    BY <1>3
  <2> DEFINE frame == Entry(hist', Len(hist))
             R == producer.ring
             N == Pushed(R, frame)
  <2>2. /\ hist \in Seq(Snapshot) /\ shell' \in Snapshot /\ hist' = Append(hist, shell')
        /\ Len(hist') = Len(hist) + 1 /\ Len(hist) \in Nat /\ frame \in StateFrames
        /\ producer' = [seq |-> Len(hist), snapshot |-> shell', ring |-> N]
        /\ R \in Seq(StateFrames)
    BY <2>1, ChangeFacts DEF ChannelInv, ChannelTypes
  <2>3. /\ At(hist', Len(hist)) = shell'
        /\ \A n \in Int : n <= Len(hist) - 1 => Entry(hist', n) = Entry(hist, n)
    BY <2>2, HistoryGrows
  <2>4. /\ Len(R) <= Len(hist) /\ Len(R) \in Nat
        /\ \A i \in 1..Len(R) : R[i] = Entry(hist, Len(hist) - 1 - Len(R) + i)
    <3>1. producer.seq = Len(hist) - 1
      BY <1>1 DEF HistoryFits
    <3>2. \A i \in 1..Len(R) : R[i] = Entry(hist, producer.seq - Len(R) + i)
      BY <1>1 DEF HistoryFits
    <3>3. Len(R) <= Len(hist) /\ Len(R) \in Nat
      BY <1>1, <2>2 DEF HistoryFits
    <3> HIDE DEF R
    <3> QED
      BY <3>1, <3>2, <3>3
  <2>5. /\ Len(N) \in Nat /\ Len(N) <= Len(hist) + 1
        /\ \A i \in 1..Len(N) : N[i] = Entry(hist', Len(hist) - Len(N) + i)
    <3> HIDE DEF frame
    <3>1. CASE Len(R) < RingCapacity
      <4>1. N = Append(R, frame)
        BY <3>1 DEF Pushed
      <4>2. /\ Len(N) = Len(R) + 1
            /\ \A i \in 1..Len(R) : N[i] = R[i]
            /\ N[Len(R) + 1] = frame
        BY <2>2, <4>1
      <4> HIDE DEF N, R
      <4>3. ASSUME NEW i \in 1..Len(R) PROVE N[i] = Entry(hist', Len(hist) - Len(N) + i)
        <5>1. /\ Len(hist) - 1 - Len(R) + i \in Int
              /\ Len(hist) - 1 - Len(R) + i <= Len(hist) - 1
              /\ Len(hist) - Len(N) + i = Len(hist) - 1 - Len(R) + i
          BY <2>2, <2>4, <4>2
        <5> QED
          BY <2>3, <2>4, <4>2, <5>1
      <4>4. N[Len(N)] = Entry(hist', Len(hist) - Len(N) + Len(N))
        <5>1. Len(hist) - Len(N) + Len(N) = Len(hist)
          BY <2>2, <2>4, <4>2
        <5> QED
          BY <2>4, <4>2, <5>1 DEF frame
      <4>5. \A i \in 1..Len(N) : i \in 1..Len(R) \/ i = Len(N)
        BY <2>4, <4>2
      <4>6. ASSUME NEW i \in 1..Len(N) PROVE N[i] = Entry(hist', Len(hist) - Len(N) + i)
        <5>1. CASE i \in 1..Len(R)
          BY <4>3, <5>1
        <5>2. CASE i = Len(N)
          BY <4>4, <5>2
        <5> QED
          BY <4>5, <5>1, <5>2
      <4>7. Len(N) \in Nat /\ Len(N) <= Len(hist) + 1
        BY <2>2, <2>4, <4>2
      <4> QED
        BY <4>6, <4>7
    <3>2. CASE ~(Len(R) < RingCapacity)
      <4>1. R # <<>> /\ Len(R) >= 1
        BY <2>2, <2>4, <3>2, SizeAssumption
      <4>2. N = Append(Tail(R), frame)
        BY <3>2 DEF Pushed
      <4> DEFINE T == Tail(R)
      <4>3. /\ T \in Seq(StateFrames) /\ Len(T) = Len(R) - 1
            /\ \A i \in 1..Len(T) : T[i] = R[i + 1]
        BY <2>2, <4>1
      <4> HIDE DEF T
      <4>4. N = Append(T, frame)
        BY <4>2 DEF T
      <4>5. /\ Len(N) = Len(R)
            /\ \A i \in 1..Len(T) : N[i] = T[i]
            /\ N[Len(R)] = frame
        BY <2>2, <2>4, <4>3, <4>4
      <4> HIDE DEF N, R
      <4>6. ASSUME NEW i \in 1..Len(T) PROVE N[i] = Entry(hist', Len(hist) - Len(N) + i)
        <5>1. /\ i + 1 \in 1..Len(R)
              /\ Len(hist) - 1 - Len(R) + (i + 1) \in Int
              /\ Len(hist) - 1 - Len(R) + (i + 1) <= Len(hist) - 1
              /\ Len(hist) - Len(N) + i = Len(hist) - 1 - Len(R) + (i + 1)
          BY <2>2, <2>4, <4>3, <4>5
        <5> QED
          BY <2>3, <2>4, <4>3, <4>5, <5>1
      <4>7. N[Len(N)] = Entry(hist', Len(hist) - Len(N) + Len(N))
        <5>1. Len(hist) - Len(N) + Len(N) = Len(hist)
          BY <2>2, <2>4, <4>5
        <5> QED
          BY <4>5, <5>1 DEF frame
      <4>8. \A i \in 1..Len(N) : i \in 1..Len(T) \/ i = Len(N)
        BY <2>4, <4>3, <4>5
      <4>9. ASSUME NEW i \in 1..Len(N) PROVE N[i] = Entry(hist', Len(hist) - Len(N) + i)
        <5>1. CASE i \in 1..Len(T)
          BY <4>6, <5>1
        <5>2. CASE i = Len(N)
          BY <4>7, <5>2
        <5> QED
          BY <4>8, <5>1, <5>2
      <4> QED
        BY <2>2, <2>4, <4>5, <4>9
    <3> QED
      BY <3>1, <3>2
  <2> HIDE DEF N, frame
  <2>6. producer'.seq = Len(hist) /\ producer'.snapshot = shell' /\ producer'.ring = N
    BY <2>2
  <2> HIDE DEF R
  <2> QED
    BY <2>2, <2>3, <2>5, <2>6 DEF HistoryFits
<1> QED
  BY <1>2, <1>3, HistorySteps
\* Every frame on the wire was there, or is of one of three new sorts.
WireGrows ==
    \A f \in Wire' : \/ f \in Wire
                     \/ ~Numbered(f) /\ (f.type = "joined" => f.seed \in Snapshot)
                     \/ f = Entry(hist', Len(hist)) /\ Len(hist') = Len(hist) + 1
                     \/ Answered(f)

FeedGrows == \A g \in ToSet(feed') : IsAnswer(g) => g \in ToSet(feed) \/ Answered(g)

\* Only the host's answer gets behind frames that it was not behind.
WireOrders ==
    \A f, g \in Wire' :
        Leads(out', feed', f, g) /\ Numbered(f) /\ IsAnswer(g) =>
            /\ f \in Wire
            /\ (g \in Wire /\ Leads(out, feed, f, g)) \/ Answered(g)

LEMMA WireSteps ==
    ASSUME ChannelInv, [StateNext]_stateVars
    PROVE  WireGrows /\ FeedGrows /\ WireOrders
<1> DEFINE Goal == WireGrows /\ FeedGrows /\ WireOrders
<1>0. /\ feed \in Seq(FromHost) /\ out \in Seq(ToViewer) /\ rt.snapshot \in Snapshot
      /\ Blank \in Snapshot
  BY BlankType DEF ChannelInv, ChannelTypes
<1>1. \A f, g : Leads(out, feed, f, g) => f \in Wire /\ g \in Wire
  BY <1>0, LeadsBoth DEF Wire
<1>2. ASSUME NEW x \in FromHost, feed' = Append(feed, x), out' = out,
             \/ x.type = "update"
             \/ x = Entry(hist', Len(hist)) /\ Len(hist') = Len(hist) + 1 /\ ~IsAnswer(x)
             \/ Answered(x)
      PROVE  Goal
  <2>1. \A f : f \in ToSet(feed') <=> f \in ToSet(feed) \/ f = x
    BY <1>0, <1>2, AppendedQueue
  <2>2. \A f, g : Leads(out', feed', f, g)
                     => Leads(out, feed, f, g) \/ (f \in Wire /\ g = x)
    BY <1>0, <1>2, LeadsAfterSend DEF Wire
  <2>3. x.type = "update" => ~Numbered(x) /\ ~IsAnswer(x) /\ x.type # "joined"
    BY DEF Numbered, IsAnswer
  <2>4. WireGrows
    BY <1>2, <2>1, <2>3 DEF Wire, WireGrows
  <2>5. FeedGrows
    BY <1>2, <2>1, <2>3 DEF FeedGrows
  <2>6. WireOrders
    BY <1>1, <1>2, <2>2, <2>3 DEF WireOrders
  <2> QED
    BY <2>4, <2>5, <2>6
<1>3. ASSUME feed # <<>>, feed' = Tail(feed), out' = out
      PROVE  Goal
  <2>1. \A f \in ToSet(feed') : f \in ToSet(feed)
    BY <1>0, <1>3, TailQueue
  <2>2. \A f, g : Leads(out', feed', f, g) => Leads(out, feed, f, g)
    BY <1>0, <1>3, LeadsAfterTake
  <2> QED
    BY <1>1, <1>3, <2>1, <2>2 DEF Wire, WireGrows, FeedGrows, WireOrders
<1>4. ASSUME feed # <<>>, feed' = Tail(feed), Head(feed) \in ToViewer,
             out' = Append(out, Head(feed))
      PROVE  Goal
  <2>1. Head(feed) \in ToSet(feed) /\ \A f \in ToSet(feed') : f \in ToSet(feed)
    BY <1>0, <1>4, TailQueue
  <2>2. \A f \in ToSet(out') : f \in ToSet(out) \/ f = Head(feed)
    BY <1>0, <1>4, AppendedQueue
  <2>3. \A f, g : Leads(out', feed', f, g) => Leads(out, feed, f, g)
    BY <1>0, <1>4, LeadsAfterPass
  <2> QED
    BY <1>1, <2>1, <2>2, <2>3 DEF Wire, WireGrows, FeedGrows, WireOrders
<1>5. ASSUME NEW x \in ToViewer, feed' = feed, out' = Append(out, x),
             ~Numbered(x), x.type = "joined" => x.seed \in Snapshot
      PROVE  Goal
  <2>1. \A f \in ToSet(out') : f \in ToSet(out) \/ f = x
    BY <1>0, <1>5, AppendedQueue
  <2>2. \A f, g : Leads(out', feed', f, g) => Leads(out, feed, f, g) \/ f = x \/ g = x
    BY <1>0, <1>5, LeadsAfterOwn
  <2>3. ~IsAnswer(x)
    BY <1>5 DEF Numbered
  <2> QED
    BY <1>1, <1>5, <2>1, <2>2, <2>3 DEF Wire, WireGrows, FeedGrows, WireOrders
<1>6. ASSUME out # <<>>, feed' = feed, out' = Tail(out)
      PROVE  Goal
  <2>1. \A f \in ToSet(out') : f \in ToSet(out)
    BY <1>0, <1>6, TailQueue
  <2>2. \A f, g : Leads(out', feed', f, g) => Leads(out, feed, f, g)
    BY <1>0, <1>6, LeadsAfterView
  <2> QED
    BY <1>1, <1>6, <2>1, <2>2 DEF Wire, WireGrows, FeedGrows, WireOrders
<1>7. ASSUME feed' = feed, out' = out
      PROVE  Goal
  BY <1>1, <1>7 DEF Wire, WireGrows, FeedGrows, WireOrders
<1> HIDE DEF Goal
<1> SUFFICES Goal
  BY DEF Goal
<1>8. CASE \E key \in Key : Change(key)
  <2>1. PICK key \in Key : Change(key)
    BY <1>8
  <2>2. /\ Entry(hist', Len(hist)) \in StateFrames /\ Len(hist') = Len(hist) + 1
        /\ feed' = Append(feed, Entry(hist', Len(hist))) /\ out' = out
    BY <2>1, ChangeFacts
  <2>3. Entry(hist', Len(hist)) \in FromHost /\ ~IsAnswer(Entry(hist', Len(hist)))
    BY <2>2, EntryFields DEF FromHost, IsAnswer
  <2> QED
    BY <1>2, <2>2, <2>3
<1>9. CASE TogglePause
  <2>1. [type |-> "update", paused |-> ~paused] \in FromHost
    BY DEF FromHost
  <2>2. out' = out /\ (feed' = feed \/ feed' = Append(feed, [type |-> "update", paused |-> ~paused]))
    BY <1>9 DEF TogglePause
  <2> QED
    BY <1>2, <1>7, <2>1, <2>2
<1>10. CASE HostAnswers
  <2>1. out' = out /\ (feed' = feed \/ feed' = Append(feed, Resolve(Head(down))))
    BY <1>10 DEF HostAnswers
  <2>2. Head(down) \in Requests
    BY <1>10, TailQueue, FrameKinds DEF HostAnswers, ChannelInv, ChannelTypes
  <2>3. Resolve(Head(down)) \in FromHost
    BY <2>2, ResolveFacts DEF ChannelInv, FromHost
  <2>4. CASE feed' = Append(feed, Resolve(Head(down)))
    <3>1. Answered(Resolve(Head(down)))
      BY <1>10, <2>4 DEF Answered
    <3> QED
      BY <1>2, <2>1, <2>3, <2>4, <3>1
  <2> QED
    BY <1>7, <2>1, <2>4
<1>11. CASE TakeState
  <2>1. feed # <<>> /\ feed' = Tail(feed) /\ (out' = out \/ out' = Append(out, Head(feed)))
        /\ Head(feed).type = "state"
    BY <1>11 DEF TakeState, Sent
  <2>2. Head(feed) \in ToViewer
    BY <1>0, <2>1, TailQueue, FrameKinds DEF ToViewer
  <2> QED
    BY <1>3, <1>4, <2>1, <2>2
<1>12. CASE TakeAnswer
  <2>1. feed # <<>> /\ feed' = Tail(feed) /\ (out' = out \/ out' = Append(out, Head(feed)))
        /\ IsAnswer(Head(feed))
    BY <1>12 DEF TakeAnswer, Sent, IsAnswer
  <2>2. Head(feed) \in ToViewer
    BY <1>0, <2>1, TailQueue, FrameKinds DEF ToViewer
  <2> QED
    BY <1>3, <1>4, <2>1, <2>2
<1>13. CASE TakeUpdate
  BY <1>3, <1>13 DEF TakeUpdate
<1>14. CASE TakeJoin
  <2> DEFINE seed == IF rt.lastSeq < 0 THEN Blank ELSE rt.snapshot
             x == [type |-> "joined", seed |-> seed]
  <2>1. seed \in Snapshot
    BY <1>0
  <2>2. feed' = feed /\ out' = Append(out, x)
    BY <1>14 DEF TakeJoin
  <2> HIDE DEF seed
  <2>3. x \in ToViewer /\ ~Numbered(x) /\ x.seed \in Snapshot
    BY <2>1 DEF ToViewer, Numbered, IsAnswer
  <2> HIDE DEF x
  <2> QED
    BY <1>5, <2>2, <2>3
<1>15. CASE TakeLeave
  <2>1. [type |-> "left"] \in ToViewer /\ ~Numbered([type |-> "left"])
        /\ [type |-> "left"].type # "joined"
    BY DEF ToViewer, Numbered, IsAnswer
  <2>2. feed' = feed /\ (out' = out \/ out' = Append(out, [type |-> "left"]))
    BY <1>15 DEF TakeLeave, Sent
  <2> QED
    BY <1>5, <1>7, <2>1, <2>2
<1>16. CASE PutOut
  <2>1. [type |-> "kicked"] \in ToViewer /\ ~Numbered([type |-> "kicked"])
        /\ [type |-> "kicked"].type # "joined"
    BY DEF ToViewer, Numbered, IsAnswer
  <2>2. feed' = feed /\ out' = Append(out, [type |-> "kicked"])
    BY <1>16 DEF PutOut
  <2> QED
    BY <1>5, <2>1, <2>2
<1>17. CASE ViewerTakes
  BY <1>6, <1>17 DEF ViewerTakes
<1>18. CASE \/ \E key \in Key : ChangeUnnoticed(key)
            \/ HostTakesAck \/ TakeRequest \/ AskToJoin \/ AskToLeave \/ LeaveTimesOut
            \/ UNCHANGED stateVars
  <2>1. feed' = feed /\ out' = out
    BY <1>18 DEF ChangeUnnoticed, HostTakesAck, TakeRequest, AskToJoin, AskToLeave,
       LeaveTimesOut, stateVars
  <2> QED
    BY <1>7, <2>1
<1> QED
  BY <1>8, <1>9, <1>10, <1>11, <1>12, <1>13, <1>14, <1>15, <1>16, <1>17, <1>18
     DEF StateNext, Deliver
LEMMA QueuedKinds ==
    ASSUME ChannelTypes
    PROVE  /\ \A f \in Wire : /\ f \in FromHost \cup ToViewer
                              /\ IsAnswer(f) => f \in Answers
                              /\ f.type = "state" => f \in StateFrames
           /\ \A r \in Asked : r.type = "req" => r \in Requests
<1>1. \A S : \A q \in Seq(S) : \A f \in ToSet(q) : f \in S
  <2>1. ASSUME NEW S, NEW q \in Seq(S), NEW f \in ToSet(q) PROVE f \in S
    <3>1. DOMAIN q = 1..Len(q)
      OBVIOUS
    <3> QED
      BY <3>1 DEF ToSet
  <2> QED
    BY <2>1
<1>2. /\ \A f \in ToSet(out) : f \in ToViewer
      /\ \A f \in ToSet(feed) : f \in FromHost
      /\ \A r \in ToSet(in) : r \in FromViewer
      /\ \A r \in ToSet(down) : r \in ToHost
  BY <1>1 DEF ChannelTypes
<1> QED
  BY <1>2, FrameKinds DEF Wire, Asked

\* A frame that fits the history fits it when it has grown.
LEMMA FitsOn ==
    ASSUME NEW h \in Seq(Snapshot), NEW g \in Seq(Snapshot), Len(g) >= Len(h),
           \A n \in Int : n <= Len(h) - 1 => At(g, n) = At(h, n) /\ Entry(g, n) = Entry(h, n),
           NEW f, FrameFits(h, f)
    PROVE  FrameFits(g, f)
<1>1. Len(h) \in Nat /\ Len(g) \in Nat
  OBVIOUS
<1>2. f.type = "state" => f.seq \in 0..Len(g) - 1 /\ f = Entry(g, f.seq)
  BY <1>1 DEF FrameFits
<1>3. IsAnswer(f) => f.seq \in -1..Len(g) - 1 /\ f.seq <= Len(h) - 1 /\ f.seq \in Int
  BY <1>1 DEF FrameFits
<1>4. f.type = "full" => f.state = At(g, f.seq)
  BY <1>3 DEF FrameFits, IsAnswer
<1>5. f.type = "diffs" => f.diffs \subseteq Entries(g, 0, f.seq)
  <2>1. SUFFICES ASSUME f.type = "diffs" PROVE Entries(h, 0, f.seq) \subseteq Entries(g, 0, f.seq)
    BY DEF FrameFits
  <2>2. \A n \in 0..f.seq : Entry(g, n) = Entry(h, n)
    BY <1>1, <1>3, <2>1 DEF IsAnswer
  <2> QED
    BY <2>2 DEF Entries
<1> QED
  BY <1>2, <1>3, <1>4, <1>5 DEF FrameFits

LEMMA AnsweredFacts ==
    ASSUME ChannelInv, NEW f, Answered(f)
    PROVE  /\ f \in Answers /\ IsAnswer(f) /\ FrameFits(hist, f) /\ f.seq = producer.seq
           /\ \E r \in Asked : /\ r.type = "req" /\ r \in Requests /\ f.visit = r.visit
                               /\ f.type = "diffs" =>
                                     /\ r.since >= 0
                                     /\ \A m \in r.since + 1..f.seq : Entry(hist, m) \in f.diffs
           /\ hist' = hist /\ view' = view /\ visit' = visit /\ rt' = rt /\ in' = in
<1>1. down # <<>> /\ Head(down).type = "req" /\ down \in Seq(ToHost)
  BY DEF Answered, HostAnswers, ChannelInv, ChannelTypes
<1>2. Head(down) \in Requests /\ Head(down) \in Asked
  BY <1>1, TailQueue, FrameKinds DEF Asked
<1>3. /\ f \in Answers /\ f.seq = producer.seq /\ f.visit = Head(down).visit
      /\ IsAnswer(f) /\ FrameFits(hist, f)
      /\ f.type = "diffs" =>
            /\ Head(down).since >= 0
            /\ \A m \in Head(down).since + 1..f.seq : Entry(hist, m) \in f.diffs
  BY <1>2, ResolveFacts DEF Answered, ChannelInv
<1>4. hist' = hist /\ view' = view /\ visit' = visit /\ rt' = rt /\ in' = in
  BY DEF Answered, HostAnswers, host
<1> QED
  BY <1>1, <1>2, <1>3, <1>4

LEMMA StepFrames ==
    ASSUME ChannelInv, [StateNext]_stateVars
    PROVE  FramesFit'
<1>1. /\ hist \in Seq(Snapshot) /\ hist' \in Seq(Snapshot)
      /\ Len(hist') \in Nat /\ Len(hist) \in Nat /\ Len(hist') >= Len(hist)
      /\ \A n \in Int : n <= Len(hist) - 1 =>
            At(hist', n) = At(hist, n) /\ Entry(hist', n) = Entry(hist, n)
  BY HistorySteps DEF ChannelInv, ChannelTypes
<1>2. ASSUME NEW f \in Wire' PROVE FrameFits(hist', f)
  <2>1. CASE f \in Wire
    <3>1. FrameFits(hist, f)
      BY <2>1 DEF ChannelInv, FramesFit
    <3> QED
      BY <1>1, <3>1, FitsOn
  <2>2. CASE ~Numbered(f) /\ (f.type = "joined" => f.seed \in Snapshot)
    BY <2>2 DEF FrameFits, Numbered, IsAnswer
  <2>3. CASE f = Entry(hist', Len(hist)) /\ Len(hist') = Len(hist) + 1
    <3>1. f.type = "state" /\ f.seq = Len(hist)
      BY <2>3, EntryFields
    <3> QED
      BY <1>1, <2>3, <3>1 DEF FrameFits, IsAnswer
  <2>4. CASE Answered(f)
    BY <2>4, AnsweredFacts
  <2> QED
    BY <1>2, <2>1, <2>2, <2>3, <2>4, WireSteps DEF WireGrows
<1> QED
  BY <1>2 DEF FramesFit

\* What becomes of the picture's number and of the visit.
Watches == visit' = visit /\ Mounted /\ Mounted' /\ view'.lastSeq >= view.lastSeq
Enters == visit' = visit /\ view.mode = "joining" /\ view'.mode = "in" /\ view'.lastSeq = -1
Goes == visit' = visit /\ view'.mode = "out" /\ view'.lastSeq = -1
Waits == visit' = visit /\ view' = view
Comes == visit' = visit + 1 /\ ~Mounted /\ view'.mode = "joining" /\ view'.lastSeq = view.lastSeq

LEMMA ModeFacts ==
    /\ Mounted => view.mode # "joining" /\ view.mode # "out"
    /\ Mounted' => view'.mode # "joining" /\ view'.mode # "out"
    /\ view.mode = "in" => Mounted
    /\ view'.mode = view.mode => (Mounted' <=> Mounted)
  BY DEF Mounted

LEMMA ViewSteps ==
    ASSUME ChannelInv, [StateNext]_stateVars
    PROVE  Watches \/ Enters \/ Goes \/ Waits \/ Comes
<1>1. CASE ViewerTakes
  <2>1. /\ visit' = visit /\ out # <<>>
        /\ Opens \/ Closes \/ Ignores \/ Applies \/ Asks \/ Replaces \/ Patches
    BY <1>1, ViewerCases DEF ChannelInv
  <2>2. Head(out) \in Wire /\ FrameFits(hist, Head(out))
    BY <2>1, TailQueue DEF ChannelInv, ChannelTypes, FramesFit, Wire
  <2>3. /\ view.lastSeq \in Int /\ view.lastSeq >= -1 /\ view.snapshot \in Snapshot
        /\ hist \in Seq(Snapshot) /\ Len(hist) \in Nat
    BY DEF ChannelInv, ChannelTypes, OrderFits, ViewType
  <2>4. CASE Opens
    BY <2>1, <2>4 DEF Opens, Enters
  <2>5. CASE Closes
    BY <2>1, <2>5 DEF Closes, Goes
  <2>6. CASE Ignores
    BY <2>1, <2>6 DEF Ignores, Waits
  <2>7. CASE Applies
    BY <2>1, <2>3, <2>7, ModeFacts DEF Applies, Watches
  <2>8. CASE Asks
    BY <2>1, <2>3, <2>8, ModeFacts DEF Asks, Steady, Watches
  <2>9. CASE Replaces
    <3>1. Head(out).seq >= view.lastSeq
      BY <2>2, <2>9 DEF Replaces, ChannelInv, OrderFits, IsAnswer
    <3> QED
      BY <2>1, <2>3, <2>9, <3>1, ModeFacts DEF Replaces, Watches
  <2>10. CASE Patches
    <3>1. view'.lastSeq >= view.lastSeq
      BY <2>2, <2>3, <2>10, PatchesType
    <3> QED
      BY <2>1, <2>10, <3>1, ModeFacts DEF Patches, Watches
  <2> QED
    BY <2>1, <2>4, <2>5, <2>6, <2>7, <2>8, <2>9, <2>10
<1>2. CASE AskToJoin
  <2>1. view' = [view EXCEPT !.mode = "joining"] /\ visit' = visit + 1 /\ view.mode = "out"
    BY <1>2 DEF AskToJoin
  <2>2. view'.mode = "joining" /\ view'.lastSeq = view.lastSeq
    BY <2>1 DEF ChannelInv, ChannelTypes, ViewType
  <2> QED
    BY <2>1, <2>2 DEF Comes, Mounted
<1>3. CASE AskToLeave
  <2>1. view' = [view EXCEPT !.mode = "leaving"] /\ visit' = visit /\ view.mode = "in"
    BY <1>3 DEF AskToLeave
  <2>2. view'.mode = "leaving" /\ view'.lastSeq = view.lastSeq /\ view.lastSeq \in Int
    BY <2>1 DEF ChannelInv, ChannelTypes, ViewType
  <2> QED
    BY <2>1, <2>2 DEF Watches, Mounted
<1>4. CASE LeaveTimesOut
  BY <1>4 DEF LeaveTimesOut, Unmounted, Goes
<1>5. CASE \E key \in Key : Change(key) \/ ChangeUnnoticed(key)
  BY <1>5 DEF Change, ChangeUnnoticed, watch, Waits
<1>6. CASE \/ TogglePause \/ PutOut \/ HostTakesAck \/ HostAnswers
           \/ TakeState \/ TakeUpdate \/ TakeAnswer \/ TakeRequest \/ TakeJoin \/ TakeLeave
  BY <1>6 DEF TogglePause, PutOut, HostTakesAck, HostAnswers, TakeState, TakeUpdate,
     TakeAnswer, TakeRequest, TakeJoin, TakeLeave, watch, Waits
<1>7. CASE UNCHANGED stateVars
  BY <1>7 DEF stateVars, watch, Waits
<1> QED
  BY <1>1, <1>2, <1>3, <1>4, <1>5, <1>6, <1>7 DEF StateNext, Deliver

LEMMA StepAnswers ==
    ASSUME ChannelInv, [StateNext]_stateVars
    PROVE  AnswersFit'
<1>0. /\ ChannelTypes /\ visit \in Nat /\ view.lastSeq \in Int
      /\ OrderFits /\ HistoryFits /\ AnswersFit /\ RequestsFit
  BY DEF ChannelInv, ChannelTypes, ViewType
<1>1. ASSUME NEW f \in Wire', IsAnswer(f)
      PROVE  /\ f.visit <= visit' /\ (view'.mode = "joining" => f.visit # visit')
             /\ f.type = "diffs" /\ Mounted' /\ f.visit = visit' =>
                   /\ view'.lastSeq >= 0
                   /\ \A m \in view'.lastSeq + 1..f.seq : Entry(hist', m) \in f.diffs
  <2>1. CASE Answered(f)
    <3>1. /\ f \in Answers /\ hist' = hist /\ view' = view /\ visit' = visit
      BY <2>1, AnsweredFacts
    <3>2. PICK r \in Asked : /\ r.type = "req" /\ r \in Requests /\ f.visit = r.visit
                             /\ f.type = "diffs" =>
                                   /\ r.since >= 0
                                   /\ \A m \in r.since + 1..f.seq : Entry(hist, m) \in f.diffs
      BY <2>1, AnsweredFacts
    <3>3. /\ r.visit <= visit /\ (view.mode = "joining" => r.visit # visit)
          /\ Mounted /\ r.visit = visit => r.since <= view.lastSeq
      BY <1>0, <3>2 DEF RequestsFit
    <3>4. r.since \in Int /\ f.seq \in Int
      BY <3>1, <3>2, FrameKinds
    <3>5. Mounted' <=> Mounted
      BY <3>1 DEF Mounted
    <3>6. ASSUME f.type = "diffs", Mounted, f.visit = visit
          PROVE  /\ view.lastSeq >= 0
                 /\ \A m \in view.lastSeq + 1..f.seq : Entry(hist, m) \in f.diffs
      <4>1. r.since >= 0 /\ r.since <= view.lastSeq
        BY <3>2, <3>3, <3>6
      <4>2. \A m \in view.lastSeq + 1..f.seq : m \in r.since + 1..f.seq
        BY <1>0, <3>4, <4>1
      <4> QED
        BY <1>0, <3>2, <3>4, <3>6, <4>1, <4>2
    <3> QED
      BY <3>1, <3>2, <3>3, <3>5, <3>6
  <2>2. CASE f \in Wire
    <3>1. f \in Answers /\ f.visit \in Nat /\ f.seq \in Int
      BY <1>0, <1>1, <2>2, FrameKinds, QueuedKinds DEF ChannelTypes
    <3>2. /\ f.visit <= visit /\ (view.mode = "joining" => f.visit # visit)
          /\ f.type = "diffs" /\ Mounted /\ f.visit = visit =>
                /\ view.lastSeq >= 0
                /\ \A m \in view.lastSeq + 1..f.seq : Entry(hist, m) \in f.diffs
      BY <1>0, <1>1, <2>2 DEF AnswersFit
    <3>3. f.seq <= Len(hist) - 1 /\ Len(hist) \in Nat
      BY <1>1, <2>2 DEF ChannelInv, ChannelTypes, FramesFit, FrameFits
    <3>4. \A m \in Int : m <= f.seq => Entry(hist', m) = Entry(hist, m)
      <4>1. \A m \in Int : m <= f.seq => m <= Len(hist) - 1
        BY <3>1, <3>3
      <4> QED
        BY <4>1, HistorySteps
    <3>5. CASE Waits
      <4>1. Mounted' <=> Mounted
        BY <3>5 DEF Waits, Mounted
      <4> QED
        BY <1>0, <3>1, <3>2, <3>4, <3>5, <4>1 DEF Waits
    <3>6. CASE Watches
      <4>1. view'.mode # "joining"
        BY <3>6, ModeFacts DEF Watches
      <4>2. ASSUME f.type = "diffs", f.visit = visit
            PROVE  /\ view'.lastSeq >= 0
                   /\ \A m \in view'.lastSeq + 1..f.seq : Entry(hist', m) \in f.diffs
        <5>1. view.lastSeq >= 0 /\ view'.lastSeq >= view.lastSeq /\ view'.lastSeq \in Int
          BY <3>2, <3>6, <4>2, StepTypes DEF Watches, ChannelTypes, ViewType
        <5>2. \A m \in view'.lastSeq + 1..f.seq : m \in view.lastSeq + 1..f.seq /\ m <= f.seq /\ m \in Int
          BY <1>0, <3>1, <5>1
        <5> QED
          BY <1>0, <3>2, <3>4, <3>6, <4>2, <5>1, <5>2 DEF Watches
      <4> QED
        BY <3>2, <3>6, <4>1, <4>2 DEF Watches
    <3>7. CASE Enters
      BY <3>2, <3>7 DEF Enters
    <3>8. CASE Goes
      BY <3>2, <3>8, ModeFacts DEF Goes
    <3>9. CASE Comes
      BY <1>0, <3>1, <3>2, <3>9, ModeFacts DEF Comes
    <3> QED
      BY <3>5, <3>6, <3>7, <3>8, <3>9, ViewSteps
  <2>3. CASE ~Numbered(f)
    BY <1>1, <2>3 DEF Numbered
  <2>4. CASE f = Entry(hist', Len(hist))
    BY <1>1, <2>4, EntryFields DEF IsAnswer
  <2> QED
    BY <1>1, <2>1, <2>2, <2>3, <2>4, WireSteps DEF WireGrows
<1> QED
  BY <1>1 DEF AnswersFit
\* Whatever is asked for is asked for already, or by the viewer just now.
LEMMA AskedSteps ==
    ASSUME ChannelInv, [StateNext]_stateVars
    PROVE  \A r \in Asked' : r.type = "req" => r \in Asked \/ NewRequest(r)
<1>0. in \in Seq(FromViewer) /\ down \in Seq(ToHost)
  BY DEF ChannelInv, ChannelTypes
<1> DEFINE Goal == \A r \in Asked' : r.type = "req" => r \in Asked \/ NewRequest(r)
<1>1. ASSUME \A r \in ToSet(in') : r.type = "req" => r \in Asked \/ NewRequest(r),
             \A r \in ToSet(down') : r.type = "req" => r \in Asked
      PROVE  Goal
  BY <1>1 DEF Asked
<1>2. ASSUME in' = in, \A r \in ToSet(down') : r.type = "req" => r \in Asked PROVE Goal
  BY <1>1, <1>2 DEF Asked
<1>3. ASSUME in' = in, down' = down PROVE Goal
  BY <1>2, <1>3 DEF Asked
<1>4. CASE \E key \in Key : Change(key) \/ ChangeUnnoticed(key)
  BY <1>3, <1>4 DEF Change, ChangeUnnoticed
<1>5. CASE TogglePause \/ PutOut \/ TakeState \/ TakeAnswer \/ LeaveTimesOut
  BY <1>3, <1>5 DEF TogglePause, PutOut, TakeState, TakeAnswer, LeaveTimesOut
<1>6. CASE HostTakesAck \/ HostAnswers
  <2>1. down # <<>> /\ down' = Tail(down) /\ in' = in
    BY <1>6 DEF HostTakesAck, HostAnswers
  <2> QED
    BY <1>0, <1>2, <2>1, TailQueue DEF Asked
<1>7. CASE TakeUpdate
  <2>1. down' = Append(down, [type |-> "ack"]) /\ in' = in /\ [type |-> "ack"] \in ToHost
    BY <1>7 DEF TakeUpdate, ToHost
  <2>2. \A r \in ToSet(down') : r \in ToSet(down) \/ r = [type |-> "ack"]
    BY <1>0, <2>1, AppendedQueue
  <2>3. \A r \in ToSet(down') : r.type = "req" => r \in Asked
    BY <2>2 DEF Asked
  <2> QED
    BY <1>2, <2>1, <2>3
<1>8. CASE TakeRequest
  <2>1. /\ in # <<>> /\ in' = Tail(in) /\ Head(in).type = "req"
        /\ down' = down \/ down' = Append(down, Head(in))
    BY <1>8 DEF TakeRequest
  <2>2. Head(in) \in ToSet(in) /\ Head(in) \in ToHost /\ \A r \in ToSet(in') : r \in ToSet(in)
    BY <1>0, <2>1, TailQueue, FrameKinds DEF ToHost
  <2>3. \A r \in ToSet(down') : r \in ToSet(down) \/ r = Head(in)
    BY <1>0, <2>1, <2>2, AppendedQueue
  <2> QED
    BY <1>1, <2>2, <2>3 DEF Asked
<1>9. CASE TakeJoin \/ TakeLeave
  <2>1. in # <<>> /\ in' = Tail(in) /\ down' = down
    BY <1>9 DEF TakeJoin, TakeLeave
  <2>2. \A r \in ToSet(in') : r \in ToSet(in)
    BY <1>0, <2>1, TailQueue
  <2> QED
    BY <1>1, <2>1, <2>2 DEF Asked
<1>10. CASE AskToJoin \/ AskToLeave
  <2>1. PICK x \in FromViewer : in' = Append(in, x) /\ x.type # "req" /\ down' = down
    BY <1>10 DEF AskToJoin, AskToLeave, FromViewer
  <2>2. \A r \in ToSet(in') : r \in ToSet(in) \/ r = x
    BY <1>0, <2>1, AppendedQueue
  <2> QED
    BY <1>1, <2>1, <2>2 DEF Asked
<1>11. CASE ViewerTakes
  <2>1. /\ down' = down /\ visit' = visit
        /\ Opens \/ Closes \/ Ignores \/ Applies \/ Asks \/ Replaces \/ Patches
    BY <1>11, ViewerCases DEF ChannelInv
  <2>2. CASE in' = in
    BY <1>3, <2>1, <2>2
  <2>3. CASE Asks /\ in' # in
    <3> DEFINE x == [type |-> "req", visit |-> visit, since |-> view.lastSeq]
    <3>1. in' = Append(in, x) /\ Mounted /\ view'.mode = view.mode
          /\ view'.lastSeq = view.lastSeq
      BY <2>3 DEF Asks, Steady
    <3>2. x \in FromViewer
      BY DEF FromViewer, Requests, ChannelInv, ChannelTypes, ViewType
    <3>3. NewRequest(x)
      BY <2>1, <3>1, ModeFacts DEF NewRequest
    <3> HIDE DEF x
    <3>4. \A r \in ToSet(in') : r \in ToSet(in) \/ r = x
      BY <1>0, <3>1, <3>2, AppendedQueue
    <3> QED
      BY <1>1, <2>1, <3>3, <3>4 DEF Asked
  <2> QED
    BY <2>1, <2>2, <2>3 DEF Opens, Closes, Ignores, Applies, Replaces, Patches
<1>12. CASE UNCHANGED stateVars
  BY <1>3, <1>12 DEF stateVars
<1> QED
  BY <1>4, <1>5, <1>6, <1>7, <1>8, <1>9, <1>10, <1>11, <1>12 DEF StateNext, Deliver

LEMMA StepRequests ==
    ASSUME ChannelInv, [StateNext]_stateVars
    PROVE  RequestsFit'
<1>0. /\ ChannelTypes /\ visit \in Nat /\ view.lastSeq \in Int /\ RequestsFit
      /\ visit' \in Nat /\ view'.lastSeq \in Int
  BY StepTypes DEF ChannelInv, ChannelTypes, ViewType
<1>1. ASSUME NEW r \in Asked', r.type = "req"
      PROVE  /\ r.visit <= visit' /\ (view'.mode = "joining" => r.visit # visit')
             /\ Mounted' /\ r.visit = visit' => r.since <= view'.lastSeq
  <2>1. CASE NewRequest(r)
    <3>1. r.visit = visit' /\ r.since = view'.lastSeq /\ view'.mode # "joining"
      BY <2>1, ModeFacts DEF NewRequest
    <3> QED
      BY <1>0, <3>1
  <2>2. CASE r \in Asked
    <3>1. r.visit \in Nat /\ r.since \in Int
      BY <1>0, <1>1, <2>2, QueuedKinds, FrameKinds
    <3>2. /\ r.visit <= visit /\ (view.mode = "joining" => r.visit # visit)
          /\ Mounted /\ r.visit = visit => r.since <= view.lastSeq
      BY <1>0, <1>1, <2>2 DEF RequestsFit
    <3>3. CASE Waits
      <4>1. Mounted' <=> Mounted
        BY <3>3 DEF Waits, Mounted
      <4> QED
        BY <3>2, <3>3, <4>1 DEF Waits
    <3>4. CASE Watches
      BY <1>0, <3>1, <3>2, <3>4, ModeFacts DEF Watches
    <3>5. CASE Enters
      BY <3>2, <3>5 DEF Enters
    <3>6. CASE Goes
      BY <3>2, <3>6, ModeFacts DEF Goes
    <3>7. CASE Comes
      BY <1>0, <3>1, <3>2, <3>7, ModeFacts DEF Comes
    <3> QED
      BY <3>3, <3>4, <3>5, <3>6, <3>7, ViewSteps
  <2> QED
    BY <1>1, <2>1, <2>2, AskedSteps
<1> QED
  BY <1>1 DEF RequestsFit

\* The runtime's number moves only to that of a frame it takes and accepts.
LEMMA RuntimeSteps ==
    ASSUME ChannelInv, [StateNext]_stateVars
    PROVE  \/ rt'.lastSeq = rt.lastSeq
           \/ /\ TakeState /\ feed # <<>> /\ Head(feed) \in StateFrames
              /\ Head(feed).seq > rt.lastSeq /\ rt'.lastSeq = Head(feed).seq
              /\ feed' = Tail(feed) /\ view' = view /\ hist' = hist
<1>0. /\ rt \in [paused : BOOLEAN, lastSeq : Int, snapshot : Snapshot, member : BOOLEAN]
      /\ feed \in Seq(FromHost)
  BY DEF ChannelInv, ChannelTypes
<1>1. CASE TakeState
  <2>1. feed # <<>> /\ Head(feed).type = "state" /\ feed' = Tail(feed) /\ view' = view
        /\ hist' = hist
    BY <1>1 DEF TakeState, host, watch
  <2>2. Head(feed) \in StateFrames
    BY <1>0, <2>1, TailQueue, FrameKinds
  <2>3. CASE Accepts(Head(feed)) /\ rt' = [rt EXCEPT !.lastSeq = Head(feed).seq,
                              !.snapshot = Merge(@, Head(feed).diff)]
    <3>1. rt'.lastSeq = Head(feed).seq
      BY <1>0, <2>3
    <3>2. Head(feed).seq > rt.lastSeq
      BY <2>3 DEF Accepts
    <3> QED
      BY <1>1, <2>1, <2>2, <3>1, <3>2
  <2>4. CASE rt' = rt
    BY <2>4
  <2> QED
    BY <1>1, <2>3, <2>4 DEF TakeState
<1>2. CASE TakeUpdate
  BY <1>0, <1>2 DEF TakeUpdate
<1>3. CASE TakeJoin \/ TakeLeave \/ PutOut
  BY <1>0, <1>3 DEF TakeJoin, TakeLeave, PutOut
<1>4. CASE \E key \in Key : Change(key) \/ ChangeUnnoticed(key)
  BY <1>4 DEF Change, ChangeUnnoticed
<1>5. CASE \/ TogglePause \/ HostTakesAck \/ HostAnswers \/ TakeAnswer \/ TakeRequest
           \/ AskToJoin \/ AskToLeave \/ LeaveTimesOut \/ ViewerTakes \/ UNCHANGED stateVars
  BY <1>5 DEF TogglePause, HostTakesAck, HostAnswers, TakeAnswer, TakeRequest,
     AskToJoin, AskToLeave, LeaveTimesOut, ViewerTakes, stateVars
<1> QED
  BY <1>1, <1>2, <1>3, <1>4, <1>5 DEF StateNext, Deliver

\* Only what the viewer takes changes its picture, unless it goes.
LEMMA ViewKept ==
    ASSUME ChannelTypes, [StateNext]_stateVars, ~ViewerTakes
    PROVE  /\ \/ view'.lastSeq = view.lastSeq /\ view'.snapshot = view.snapshot
              \/ view'.lastSeq = -1 /\ view'.snapshot = Blank
           /\ \/ view' = view /\ astray' = astray
              \/ AskToJoin /\ view'.mode = "joining" /\ view.mode = "out"
              \/ AskToLeave /\ view'.mode = "leaving" /\ view.mode = "in"
              \/ LeaveTimesOut /\ view'.mode = "out" /\ ~astray' /\ view.mode = "leaving"
           /\ view' # view => hist' = hist /\ out' = out /\ rt' = rt
           /\ AskToJoin \/ AskToLeave => /\ view'.lastSeq = view.lastSeq
                                         /\ view'.snapshot = view.snapshot /\ astray' = astray
           /\ LeaveTimesOut => view'.lastSeq = -1 /\ view'.snapshot = Blank
<1>0. view \in ViewType
  BY DEF ChannelTypes
<1>1. CASE AskToJoin
  <2>1. view' = [view EXCEPT !.mode = "joining"] /\ view.mode = "out"
        /\ hist' = hist /\ out' = out /\ rt' = rt /\ astray' = astray
    BY <1>1 DEF AskToJoin, host
  <2>2. view'.mode = "joining" /\ view'.lastSeq = view.lastSeq /\ view'.snapshot = view.snapshot
    BY <1>0, <2>1 DEF ViewType
  <2>3. ~LeaveTimesOut
    BY <2>1 DEF LeaveTimesOut
  <2> QED
    BY <1>1, <2>1, <2>2, <2>3
<1>2. CASE AskToLeave
  <2>1. view' = [view EXCEPT !.mode = "leaving"] /\ view.mode = "in"
        /\ hist' = hist /\ out' = out /\ rt' = rt /\ astray' = astray
    BY <1>2 DEF AskToLeave, host
  <2>2. view'.mode = "leaving" /\ view'.lastSeq = view.lastSeq /\ view'.snapshot = view.snapshot
    BY <1>0, <2>1 DEF ViewType
  <2>3. ~LeaveTimesOut
    BY <2>1 DEF LeaveTimesOut
  <2> QED
    BY <1>2, <2>1, <2>2, <2>3
<1>3. CASE LeaveTimesOut
  <2>1. /\ view'.mode = "out" /\ view'.lastSeq = -1 /\ view'.snapshot = Blank
        /\ view.mode = "leaving" /\ ~astray' /\ hist' = hist /\ out' = out /\ rt' = rt
    BY <1>3 DEF LeaveTimesOut, Unmounted, host
  <2>2. ~AskToJoin /\ ~AskToLeave
    BY <2>1 DEF AskToJoin, AskToLeave
  <2> QED
    BY <1>3, <2>1, <2>2
<1>4. CASE ~AskToJoin /\ ~AskToLeave /\ ~LeaveTimesOut
  <2>1. view' = view /\ astray' = astray
    <3>1. CASE \E key \in Key : Change(key) \/ ChangeUnnoticed(key)
      BY <3>1 DEF Change, ChangeUnnoticed, watch
    <3>2. CASE \/ TogglePause \/ PutOut \/ HostTakesAck \/ HostAnswers
               \/ TakeState \/ TakeUpdate \/ TakeAnswer \/ TakeRequest \/ TakeJoin \/ TakeLeave
      BY <3>2 DEF TogglePause, PutOut, HostTakesAck, HostAnswers, TakeState, TakeUpdate,
         TakeAnswer, TakeRequest, TakeJoin, TakeLeave, watch
    <3>3. CASE UNCHANGED stateVars
      BY <3>3 DEF stateVars, watch
    <3> QED
      BY <1>4, <3>1, <3>2, <3>3 DEF StateNext, Deliver
  <2> QED
    BY <1>4, <2>1
<1> QED
  BY <1>1, <1>2, <1>3, <1>4

LEMMA StepOrder ==
    ASSUME ChannelInv, [StateNext]_stateVars
    PROVE  OrderFits'
<1>0. /\ ChannelTypes /\ OrderFits /\ HistoryFits /\ FramesFit
      /\ view.lastSeq \in Int /\ rt.lastSeq \in Int /\ Len(hist) \in Nat
      /\ Len(hist') \in Nat /\ Len(hist') >= Len(hist)
      /\ producer.seq = Len(hist) - 1
  BY HistorySteps DEF ChannelInv, ChannelTypes, ViewType, HistoryFits
<1>1. \A f \in Wire : Numbered(f) => f.seq \in -1..Len(hist) - 1
  BY <1>0 DEF FramesFit, FrameFits, Numbered
<1>2. \A g : Answered(g) => /\ g.seq = Len(hist) - 1 /\ IsAnswer(g) /\ view' = view
                            /\ rt' = rt /\ hist' = hist
  BY <1>0, AnsweredFacts
<1>3. ASSUME NEW f \in Wire', NEW g \in Wire', Leads(out', feed', f, g), Numbered(f), IsAnswer(g)
      PROVE  f.seq <= g.seq
  <2>1. f \in Wire /\ ((g \in Wire /\ Leads(out, feed, f, g)) \/ Answered(g))
    BY <1>3, WireSteps DEF WireOrders
  <2>2. CASE g \in Wire /\ Leads(out, feed, f, g)
    BY <1>0, <1>3, <2>1, <2>2 DEF OrderFits
  <2>3. CASE Answered(g)
    BY <1>0, <1>1, <1>2, <1>3, <2>1, <2>3
  <2> QED
    BY <2>1, <2>2, <2>3
<1>4. ASSUME NEW g \in Wire', IsAnswer(g) PROVE g \in Wire \/ Answered(g)
  <2>1. g # Entry(hist', Len(hist)) /\ Numbered(g)
    BY <1>4, EntryFields DEF Numbered, IsAnswer
  <2> QED
    BY <2>1, WireSteps DEF WireGrows
<1>5. CASE ViewerTakes
  <2>1. /\ out # <<>> /\ out' = Tail(out) /\ feed' = feed /\ hist' = hist /\ rt' = rt
        /\ Opens \/ Closes \/ Ignores \/ Applies \/ Asks \/ Replaces \/ Patches
    BY <1>5, ViewerCases DEF ChannelInv
  <2>2. Head(out) \in Wire /\ FrameFits(hist, Head(out))
    BY <1>0, <2>1, TailQueue DEF ChannelTypes, FramesFit, Wire
  <2>3. \A g \in Wire' : g \in Wire /\ Leads(out, feed, Head(out), g)
    BY <1>0, <2>1, LeadsAfterView, TailQueue DEF ChannelTypes, Wire
  <2>4. \/ view'.lastSeq = view.lastSeq
        \/ view'.lastSeq = -1
        \/ /\ Numbered(Head(out)) /\ view'.lastSeq \in Int
           /\ view'.lastSeq >= -1 /\ view'.lastSeq <= Head(out).seq
    <3>1. CASE Applies
      BY <2>2, <3>1 DEF Applies, FrameFits, Numbered
    <3>2. CASE Replaces
      BY <2>2, <3>2 DEF Replaces, FrameFits, Numbered, IsAnswer
    <3>3. CASE Patches
      <4>1. view.lastSeq >= -1
        BY <1>0 DEF OrderFits
      <4>2. /\ view'.lastSeq \in Int /\ view'.lastSeq >= view.lastSeq
            /\ view'.lastSeq <= Head(out).seq \/ view'.lastSeq = view.lastSeq
        BY <1>0, <2>2, <3>3, <4>1, PatchesType DEF ChannelTypes, ViewType
      <4>3. Numbered(Head(out))
        BY <3>3 DEF Patches, Numbered, IsAnswer
      <4> QED
        BY <1>0, <4>1, <4>2, <4>3
    <3>4. CASE Opens \/ Closes \/ Ignores \/ Asks
      BY <3>4 DEF Opens, Closes, Ignores, Asks, Steady
    <3> QED
      BY <2>1, <3>1, <3>2, <3>3, <3>4
  <2>5. ASSUME NEW g \in Wire', IsAnswer(g) PROVE view'.lastSeq <= g.seq
    <3>1. g \in Wire /\ g.seq \in -1..Len(hist) - 1 /\ view.lastSeq <= g.seq
      BY <1>0, <1>1, <2>3, <2>5 DEF OrderFits, Numbered
    <3>2. Numbered(Head(out)) => Head(out).seq <= g.seq /\ Head(out).seq \in Int
      BY <1>0, <1>1, <2>2, <2>3, <2>5 DEF OrderFits
    <3> QED
      BY <1>0, <2>4, <3>1, <3>2
  <2>6. view'.lastSeq \in -1..Len(hist) - 1
    BY <1>0, <1>1, <2>2, <2>4 DEF OrderFits
  <2>7. \A g \in ToSet(feed') : IsAnswer(g) => rt'.lastSeq <= g.seq
    BY <1>0, <2>1 DEF OrderFits
  <2> QED
    BY <1>0, <1>3, <2>1, <2>5, <2>6, <2>7 DEF OrderFits
<1>6. CASE ~ViewerTakes
  <2>1. view'.lastSeq = view.lastSeq \/ view'.lastSeq = -1
    BY <1>0, <1>6, ViewKept
  <2>2. ASSUME NEW g \in Wire', IsAnswer(g) PROVE view'.lastSeq <= g.seq
    <3>1. CASE Answered(g)
      BY <1>0, <1>2, <3>1 DEF OrderFits
    <3>2. CASE g \in Wire
      BY <1>0, <1>1, <2>1, <2>2, <3>2 DEF OrderFits, Numbered
    <3> QED
      BY <1>4, <2>2, <3>1, <3>2
  <2>3. view'.lastSeq \in -1..Len(hist') - 1
    BY <1>0, <2>1 DEF OrderFits
  <2>4. /\ rt'.lastSeq \in -1..Len(hist') - 1
        /\ \A g \in ToSet(feed') : IsAnswer(g) => rt'.lastSeq <= g.seq
    <3>1. CASE rt'.lastSeq = rt.lastSeq
      <4>1. ASSUME NEW g \in ToSet(feed'), IsAnswer(g) PROVE rt.lastSeq <= g.seq
        <5>1. CASE g \in ToSet(feed)
          BY <1>0, <4>1, <5>1 DEF OrderFits
        <5>2. CASE Answered(g)
          BY <1>0, <1>2, <5>2 DEF OrderFits
        <5> QED
          BY <4>1, <5>1, <5>2, WireSteps DEF FeedGrows
      <4> QED
        BY <1>0, <3>1, <4>1 DEF OrderFits
    <3>2. CASE rt'.lastSeq # rt.lastSeq
      <4>1. /\ feed # <<>> /\ Head(feed) \in StateFrames /\ rt'.lastSeq = Head(feed).seq
            /\ feed' = Tail(feed) /\ hist' = hist
        BY <3>2, RuntimeSteps
      <4>2. /\ Head(feed) \in Wire /\ Numbered(Head(feed))
            /\ \A g \in ToSet(feed') : g \in Wire /\ Leads(out, feed, Head(feed), g)
        BY <1>0, <4>1, TailQueue, FrameKinds DEF ChannelTypes, Wire, Numbered, Leads
      <4>3. Head(feed).seq \in -1..Len(hist) - 1
        BY <1>1, <4>2
      <4>4. \A g \in ToSet(feed') : IsAnswer(g) => Head(feed).seq <= g.seq
        BY <1>0, <4>2 DEF OrderFits
      <4> QED
        BY <4>1, <4>3, <4>4
    <3> QED
      BY <3>1, <3>2
  <2> QED
    BY <1>3, <2>2, <2>3, <2>4 DEF OrderFits
<1> QED
  BY <1>5, <1>6
----------------------------------------------------------------------------
\* What the runtime sends: an early frame only before it has seen any, and a
\* seed that is blank until then.
LEMMA OutSteps ==
    ASSUME ChannelInv, [StateNext]_stateVars, ~ViewerTakes
    PROVE  \/ out' = out
           \/ \E x \in ToViewer :
                 /\ out' = Append(out, x)
                 /\ Early(x) => rt.lastSeq < 0
                 /\ x.type = "joined" => rt'.lastSeq = rt.lastSeq
                                         /\ (rt.lastSeq < 0 => x.seed = Blank)
<1>0. /\ feed \in Seq(FromHost) /\ out \in Seq(ToViewer) /\ rt.lastSeq \in Int
      /\ rt \in [paused : BOOLEAN, lastSeq : Int, snapshot : Snapshot, member : BOOLEAN]
      /\ Blank \in Snapshot
  BY BlankType DEF ChannelInv, ChannelTypes
<1>1. CASE TakeState
  <2>1. feed # <<>> /\ Head(feed).type = "state"
        /\ (out' = out \/ (out' = Append(out, Head(feed)) /\ Accepts(Head(feed))))
    BY <1>1 DEF TakeState, Sent
  <2>2. Head(feed) \in ToViewer /\ Head(feed).seq \in Nat
    BY <1>0, <2>1, TailQueue, FrameKinds DEF ToViewer
  <2>3. CASE out' = Append(out, Head(feed)) /\ Accepts(Head(feed))
    <3>1. Early(Head(feed)) => rt.lastSeq < 0
      BY <1>0, <2>1, <2>2, <2>3 DEF Early, Accepts
    <3> QED
      BY <2>1, <2>2, <2>3, <3>1
  <2> QED
    BY <2>1, <2>3
<1>2. CASE TakeAnswer
  <2>1. feed # <<>> /\ IsAnswer(Head(feed)) /\ (out' = out \/ out' = Append(out, Head(feed)))
    BY <1>2 DEF TakeAnswer, Sent, IsAnswer
  <2>2. Head(feed) \in ToViewer /\ Head(feed).seq \in Int /\ Head(feed).type # "joined"
    BY <1>0, <2>1, TailQueue, FrameKinds DEF ToViewer, IsAnswer
  <2>3. rt.lastSeq <= Head(feed).seq
    BY <1>0, <2>1, TailQueue DEF ChannelInv, OrderFits
  <2>4. Early(Head(feed)) => rt.lastSeq < 0
    BY <1>0, <2>1, <2>2, <2>3 DEF Early, IsAnswer
  <2> QED
    BY <2>1, <2>2, <2>4
<1>3. CASE TakeJoin
  <2> DEFINE seed == IF rt.lastSeq < 0 THEN Blank ELSE rt.snapshot
             x == [type |-> "joined", seed |-> seed]
  <2>1. seed \in Snapshot /\ (rt.lastSeq < 0 => seed = Blank)
    BY <1>0
  <2>2. out' = Append(out, x) /\ rt' = [rt EXCEPT !.member = TRUE]
    BY <1>3 DEF TakeJoin
  <2> HIDE DEF seed
  <2>3. x \in ToViewer /\ x.seed = seed /\ ~Early(x)
    BY <2>1 DEF ToViewer, Early
  <2>4. rt'.lastSeq = rt.lastSeq
    BY <1>0, <2>2
  <2> HIDE DEF x
  <2> QED
    BY <2>1, <2>2, <2>3, <2>4
<1>4. CASE TakeLeave \/ PutOut
  <2>1. PICK t \in {"left", "kicked"} : out' = out \/ out' = Append(out, [type |-> t])
    BY <1>4 DEF TakeLeave, PutOut, Sent
  <2>2. [type |-> t] \in ToViewer /\ ~Early([type |-> t]) /\ [type |-> t].type # "joined"
    BY DEF ToViewer, Early
  <2> QED
    BY <2>1, <2>2
<1>5. CASE \E key \in Key : Change(key) \/ ChangeUnnoticed(key)
  BY <1>5 DEF Change, ChangeUnnoticed
<1>6. CASE \/ TogglePause \/ HostTakesAck \/ HostAnswers \/ TakeUpdate \/ TakeRequest
           \/ AskToJoin \/ AskToLeave \/ LeaveTimesOut \/ UNCHANGED stateVars
  BY <1>6 DEF TogglePause, HostTakesAck, HostAnswers, TakeUpdate, TakeRequest,
     AskToJoin, AskToLeave, LeaveTimesOut, stateVars
<1> QED
  BY <1>1, <1>2, <1>3, <1>4, <1>5, <1>6 DEF StateNext, Deliver

LEMMA StepSeeds ==
    ASSUME ChannelInv, [StateNext]_stateVars
    PROVE  SeedsFit'
<1>0. /\ ChannelTypes /\ SeedsFit /\ OrderFits /\ FramesFit /\ out \in Seq(ToViewer)
      /\ rt.lastSeq \in Int /\ view.lastSeq \in Int /\ rt'.lastSeq \in Int
      /\ view'.lastSeq \in Int
  BY StepTypes DEF ChannelInv, ChannelTypes, ViewType
<1>1. rt'.lastSeq < 0 => rt.lastSeq < 0
  BY <1>0, RuntimeSteps, FrameKinds
<1>2. CASE ViewerTakes
  <2>1. /\ out # <<>> /\ out' = Tail(out) /\ feed' = feed /\ hist' = hist /\ rt' = rt
        /\ Opens \/ Closes \/ Ignores \/ Applies \/ Asks \/ Replaces \/ Patches
    BY <1>2, ViewerCases DEF ChannelInv
  <2>2. /\ Head(out) \in ToSet(out) /\ Head(out) \in Wire /\ FrameFits(hist, Head(out))
        /\ \A f \in ToSet(out') : f \in ToSet(out) /\ Ahead(out, Head(out), f)
        /\ \A f, g : Ahead(out', f, g) => Ahead(out, f, g)
    BY <1>0, <2>1, TailQueue DEF FramesFit, Wire
  <2>3. ASSUME rt.lastSeq < 0 \/ \E f \in ToSet(out') : Early(f), view'.lastSeq = -1
        PROVE  view'.snapshot = Blank
    <3>1. CASE Opens
      <4>1. Head(out).type = "joined" /\ view'.snapshot = Head(out).seed
        BY <3>1 DEF Opens
      <4> QED
        BY <1>0, <2>2, <2>3, <4>1 DEF SeedsFit
    <3>2. CASE Closes
      BY <3>2 DEF Closes
    <3>3. CASE Ignores \/ Asks
      <4>1. view'.snapshot = view.snapshot /\ view'.lastSeq = view.lastSeq
        BY <3>3 DEF Ignores, Asks, Steady
      <4> QED
        BY <1>0, <2>2, <2>3, <4>1 DEF SeedsFit
    <3>4. CASE Applies
      <4>1. view'.lastSeq >= 0
        BY <2>2, <3>4 DEF Applies, FrameFits
      <4> QED
        BY <2>3, <4>1
    <3>5. CASE Replaces
      <4>1. view'.snapshot = At(hist, -1)
        BY <2>2, <2>3, <3>5 DEF Replaces, FrameFits
      <4> QED
        BY <4>1 DEF At
    <3>6. CASE Patches
      <4>1. /\ hist \in Seq(Snapshot) /\ Len(hist) \in Nat /\ view.snapshot \in Snapshot
            /\ view.lastSeq \in Int /\ view.lastSeq >= -1
        BY <1>0 DEF ChannelTypes, ViewType, OrderFits
      <4>2. /\ view'.lastSeq >= view.lastSeq
            /\ view'.lastSeq = view.lastSeq => view'.snapshot = view.snapshot
        BY <2>2, <3>6, <4>1, PatchesType
      <4>3. view'.lastSeq = view.lastSeq /\ view'.snapshot = view.snapshot
        BY <2>3, <4>1, <4>2
      <4> QED
        BY <1>0, <2>2, <2>3, <4>3 DEF SeedsFit
    <3> QED
      BY <2>1, <3>1, <3>2, <3>3, <3>4, <3>5, <3>6
  <2> QED
    BY <1>0, <2>1, <2>2, <2>3 DEF SeedsFit
<1>3. CASE ~ViewerTakes
  <2>1. \/ view'.lastSeq = view.lastSeq /\ view'.snapshot = view.snapshot
        \/ view'.lastSeq = -1 /\ view'.snapshot = Blank
    BY <1>0, <1>3, ViewKept
  <2>2. CASE out' = out
    BY <1>0, <1>1, <2>1, <2>2 DEF SeedsFit
  <2>3. CASE \E x \in ToViewer : /\ out' = Append(out, x)
                                 /\ Early(x) => rt.lastSeq < 0
                                 /\ x.type = "joined" => rt'.lastSeq = rt.lastSeq
                                       /\ (rt.lastSeq < 0 => x.seed = Blank)
    <3>1. PICK x \in ToViewer : /\ out' = Append(out, x)
                                /\ Early(x) => rt.lastSeq < 0
                                /\ x.type = "joined" => rt'.lastSeq = rt.lastSeq
                                      /\ (rt.lastSeq < 0 => x.seed = Blank)
      BY <2>3
    <3>2. /\ \A f \in ToSet(out') : f \in ToSet(out) \/ f = x
          /\ \A f, g : Ahead(out', f, g) => Ahead(out, f, g) \/ (f \in ToSet(out) /\ g = x)
      BY <1>0, <3>1, AppendedQueue
    <3>3. \A f, g : Ahead(out, f, g) => f \in ToSet(out) /\ g \in ToSet(out)
      BY <1>0, AheadAreIn
    <3>4. \A f, g \in ToSet(out') : Ahead(out', f, g) /\ f.type = "joined" /\ Early(g)
                                       => f.seed = Blank
      BY <1>0, <3>1, <3>2, <3>3 DEF SeedsFit
    <3>5. rt'.lastSeq < 0 => \A f \in ToSet(out') : f.type = "joined" => f.seed = Blank
      BY <1>0, <1>1, <3>1, <3>2 DEF SeedsFit
    <3>6. rt'.lastSeq < 0 \/ (\E f \in ToSet(out') : Early(f))
             => rt.lastSeq < 0 \/ (\E f \in ToSet(out) : Early(f))
      BY <1>1, <3>1, <3>2
    <3> QED
      BY <1>0, <2>1, <3>4, <3>5, <3>6 DEF SeedsFit
  <2> QED
    BY <1>3, <2>2, <2>3, OutSteps
<1> QED
  BY <1>2, <1>3

LEMMA StepView ==
    ASSUME ChannelInv, [StateNext]_stateVars
    PROVE  ViewFits'
<1>0. /\ ChannelTypes /\ ViewFits /\ OrderFits /\ FramesFit /\ AnswersFit /\ SeedsFit
      /\ hist \in Seq(Snapshot) /\ Len(hist) \in Nat /\ view.snapshot \in Snapshot
      /\ view.lastSeq \in Int /\ view.lastSeq >= -1 /\ view.lastSeq <= Len(hist) - 1
      /\ view'.lastSeq \in Int
  <2>1. ChannelTypes /\ ViewFits /\ OrderFits /\ FramesFit /\ AnswersFit /\ SeedsFit
    BY DEF ChannelInv
  <2>2. /\ hist \in Seq(Snapshot) /\ Len(hist) \in Nat /\ view.snapshot \in Snapshot
        /\ view.lastSeq \in Int
    BY <2>1 DEF ChannelTypes, ViewType
  <2>3. view.lastSeq >= -1 /\ view.lastSeq <= Len(hist) - 1
    BY <2>1, <2>2 DEF OrderFits
  <2>4. view'.lastSeq \in Int
    BY StepTypes DEF ChannelTypes, ViewType
  <2> QED
    BY <2>1, <2>2, <2>3, <2>4
<1>1. CASE ViewerTakes
  <2>1. /\ out # <<>> /\ hist' = hist /\ visit' = visit
        /\ Opens \/ Closes \/ Ignores \/ Applies \/ Asks \/ Replaces \/ Patches
    BY <1>1, ViewerCases DEF ChannelInv
  <2>2. Head(out) \in ToSet(out) /\ Head(out) \in Wire /\ FrameFits(hist, Head(out))
    BY <1>0, <2>1, TailQueue DEF FramesFit, Wire, ChannelTypes
  <2>3. CASE Opens
    BY <2>3 DEF Opens, ViewFits, Mounted
  <2>4. CASE Closes
    BY <2>4 DEF Closes, ViewFits
  <2>5. CASE Ignores
    <3>1. Mounted' <=> Mounted
      BY <2>5 DEF Ignores, Mounted
    <3> QED
      BY <1>0, <2>1, <2>5, <3>1 DEF Ignores, ViewFits
  <2>6. CASE Asks
    <3>1. Mounted'
      BY <2>6, ModeFacts DEF Asks, Steady
    <3> QED
      BY <1>0, <2>1, <2>6, <3>1 DEF Asks, Steady, ViewFits
  <2>7. CASE Applies
    <3> DEFINE n == Head(out).seq
    <3>1. /\ n \in 0..Len(hist) - 1 /\ Head(out) = Entry(hist, n) /\ n - 1 = view.lastSeq
          /\ view'.lastSeq = n /\ Mounted' /\ (astray' <=> astray)
          /\ view'.snapshot = Merge(view.snapshot, Head(out).diff)
      BY <1>0, <2>2, <2>7, ModeFacts DEF Applies, FrameFits
    <3>2. ASSUME ~astray PROVE view.snapshot = At(hist, n - 1)
      <4>1. CASE view.lastSeq >= 0
        BY <1>0, <3>1, <3>2, <4>1 DEF ViewFits
      <4>2. CASE view.lastSeq < 0
        <5>1. view.lastSeq = -1 /\ Head(out).seq = 0 /\ Head(out).type = "state"
          BY <1>0, <2>7, <3>1, <4>2 DEF Applies
        <5>2. view.snapshot = Blank
          BY <1>0, <2>2, <5>1 DEF SeedsFit, Early
        <5> QED
          BY <3>1, <4>2, <5>2 DEF At
      <4> QED
        BY <1>0, <4>1, <4>2
    <3>3. Merge(At(hist, n - 1), Entry(hist, n).diff) = At(hist, n)
      BY <1>0, <3>1, EntryLeads
    <3>4. ~astray' => view'.snapshot = At(hist, n)
      BY <3>1, <3>2, <3>3
    <3> QED
      BY <2>1, <3>1, <3>4 DEF ViewFits
  <2>8. CASE Replaces
    <3>1. view'.snapshot = At(hist, view'.lastSeq) /\ Mounted'
      BY <2>2, <2>8, ModeFacts DEF Replaces, FrameFits
    <3> QED
      BY <2>1, <3>1 DEF ViewFits
  <2>9. CASE Patches
    <3> DEFINE n == Head(out).seq
    <3>1. n \in Int /\ n <= Len(hist) - 1 /\ view.lastSeq <= n
      BY <1>0, <2>2, <2>9 DEF Patches, FrameFits, IsAnswer, OrderFits
    <3>2. Mounted' /\ (astray' <=> astray \/ Head(out).visit # visit)
      BY <2>9, ModeFacts DEF Patches
    <3>3. ASSUME ~astray'
          PROVE  view'.snapshot = At(hist, view'.lastSeq)
      <4>1. /\ ~astray /\ view.lastSeq >= 0
            /\ \A m \in view.lastSeq + 1..n : Entry(hist, m) \in Head(out).diffs
        BY <1>0, <2>2, <2>9, <3>2, <3>3 DEF Patches, AnswersFit, IsAnswer
      <4>2. /\ view'.lastSeq = n
            /\ view.lastSeq < n => view'.snapshot
                 = Patched(view.snapshot, Entries(hist, view.lastSeq + 1, n))
            /\ view'.lastSeq = view.lastSeq => view'.snapshot = view.snapshot
        BY <1>0, <2>2, <2>9, <3>1, <4>1, PatchesType
      <4>3. view.snapshot = At(hist, view.lastSeq)
        BY <1>0, <4>1 DEF ViewFits
      <4> HIDE DEF n
      <4>4. CASE view.lastSeq < n
        <5>1. Patched(At(hist, view.lastSeq), Entries(hist, view.lastSeq + 1, n)) = At(hist, n)
          BY <1>0, <3>1, PatchedUp
        <5> QED
          BY <4>2, <4>3, <4>4, <5>1
      <4>5. CASE view.lastSeq = n
        BY <4>2, <4>3, <4>5
      <4> QED
        BY <1>0, <3>1, <4>4, <4>5
    <3> QED
      BY <2>1, <3>2, <3>3 DEF ViewFits
  <2> QED
    BY <2>1, <2>3, <2>4, <2>5, <2>6, <2>7, <2>8, <2>9
<1>2. CASE ~ViewerTakes
  <2>1. view.lastSeq >= 0 => At(hist', view.lastSeq) = At(hist, view.lastSeq)
    BY <1>0, HistorySteps
  <2>2. CASE view' = view /\ astray' = astray
    <3>1. Mounted' <=> Mounted
      BY <2>2 DEF Mounted
    <3> QED
      BY <1>0, <2>1, <2>2, <3>1 DEF ViewFits
  <2>3. CASE AskToJoin /\ view'.mode = "joining" /\ view.mode = "out"
    <3>1. /\ view'.lastSeq = view.lastSeq /\ view'.snapshot = view.snapshot
          /\ (astray' <=> astray) /\ ~Mounted
      BY <1>0, <1>2, <2>3, ViewKept DEF Mounted
    <3> QED
      BY <1>0, <2>1, <3>1 DEF ViewFits
  <2>4. CASE AskToLeave /\ view'.mode = "leaving" /\ view.mode = "in"
    <3>1. /\ view'.lastSeq = view.lastSeq /\ view'.snapshot = view.snapshot
          /\ (astray' <=> astray) /\ Mounted'
      BY <1>0, <1>2, <2>4, ViewKept DEF Mounted
    <3> QED
      BY <1>0, <2>1, <3>1 DEF ViewFits
  <2>5. CASE LeaveTimesOut /\ view'.mode = "out" /\ ~astray'
    <3>1. view'.lastSeq = -1 /\ view'.snapshot = Blank
      BY <1>0, <1>2, <2>5, ViewKept
    <3> QED
      BY <2>5, <3>1 DEF ViewFits
  <2> QED
    BY <1>0, <1>2, <2>2, <2>3, <2>4, <2>5, ViewKept
<1> QED
  BY <1>1, <1>2

----------------------------------------------------------------------------
\* The theorems.

LEMMA ChannelInvariance == StateSpec => []ChannelInv
<1>1. StateInit => ChannelInv
  BY InitChannel
<1>2. ChannelInv /\ [StateNext]_stateVars => ChannelInv'
  <2> SUFFICES ASSUME ChannelInv, [StateNext]_stateVars PROVE ChannelInv'
    OBVIOUS
  <2> QED
    BY StepTypes, StepHistory, StepFrames, StepOrder, StepRequests, StepAnswers, StepSeeds,
       StepView DEF ChannelInv
<1> QED
  BY <1>1, <1>2, PTL DEF StateSpec

\* The host, the runtime and the viewer's browser hold what their types say:
\* every picture is a whole snapshot, whatever diffs made it.
THEOREM ChannelTypesHold == StateSpec => []ChannelTypes
<1>1. ChannelInv => ChannelTypes
  BY DEF ChannelInv
<1> QED
  BY <1>1, ChannelInvariance, PTL

\* What a viewer shows under a number is what the host's state was when it gave
\* that number, however frames were dropped, asked for again and answered late.
THEOREM ViewerShowsHistoryHolds == StateSpec => []ViewerShowsHistory
<1>1. ChannelInv => ViewerShowsHistory
  <2>1. ASSUME ChannelInv, view.lastSeq >= 0, ~astray
        PROVE  view.snapshot = hist[view.lastSeq + 1]
    <3>1. view.snapshot = At(hist, view.lastSeq) /\ view.lastSeq \in Int
      BY <2>1 DEF ChannelInv, ViewFits, ChannelTypes, ViewType
    <3> QED
      BY <2>1, <3>1 DEF At
  <2> QED
    BY <2>1 DEF ViewerShowsHistory
<1> QED
  BY <1>1, ChannelInvariance, PTL
----------------------------------------------------------------------------
\* The mirror.

LEMMA FrontOfAppended ==
    ASSUME NEW S, NEW q \in Seq(S), NEW e \in S
    PROVE  Append(q, e) # <<>> /\ Front(Append(q, e)) = q
<1> DEFINE a == Append(q, e)
<1>1. /\ a \in Seq(S) /\ a # <<>> /\ Len(a) = Len(q) + 1 /\ Len(q) \in Nat
      /\ \A i \in 1..Len(q) : a[i] = q[i]
  BY AppendProperties, LenProperties
<1> HIDE DEF a
<1>2. /\ SubSeq(a, 1, Len(q)) \in Seq(S) /\ Len(SubSeq(a, 1, Len(q))) = Len(q)
      /\ \A i \in 1..Len(q) : SubSeq(a, 1, Len(q))[i] = a[i]
  BY <1>1
<1>3. SubSeq(a, 1, Len(q)) = q
  BY <1>1, <1>2, SeqEqual
<1>4. Len(a) - 1 = Len(q)
  BY <1>1
<1>5. a # <<>> /\ Front(a) = q
  BY <1>1, <1>3, <1>4 DEF Front
<1> QED BY <1>5 DEF a

\* What of the viewer the mirror can tell.
Position == IF MirrorMode = "open" THEN view.lastSeq + 1 ELSE 0
Picture == IF MirrorMode = "open" THEN view.snapshot ELSE Blank

MirrorStays == MirrorMode' = MirrorMode /\ Position' = Position /\ Picture' = Picture

\* The steps of the mirror, told of the channel.
LEMMA MirrorSteps ==
    /\ hist' # <<>> /\ Front(hist') = hist /\ MirrorStays => Mirror!Produce
    /\ hist' = hist /\ MirrorStays => UNCHANGED Mirror!mirror
    /\ /\ MirrorMode = "dark" /\ MirrorMode' = "open" /\ Position' = 0
       /\ Picture' \in Snapshot /\ hist' = hist
       => Mirror!Open
    /\ /\ MirrorMode = "open" /\ MirrorMode' = "open" /\ hist' = hist
       /\ Position' \in Position + 1..Len(hist) /\ Picture' = hist[Position']
       => Mirror!Show
    /\ /\ MirrorMode = "open" /\ MirrorMode' = "astray" /\ Position' = 0
       /\ Picture' \in Snapshot /\ hist' = hist
       => Mirror!Stray
    /\ /\ MirrorMode # "dark" /\ MirrorMode' = "dark" /\ Position' = 0
       /\ Picture' \in Snapshot /\ hist' = hist
       => Mirror!Close
<1>1. hist' # <<>> /\ Front(hist') = hist /\ MirrorStays => Mirror!Produce
  BY DEF MirrorStays, Position, Picture, Mirror!Produce, Mirror!Front, Front
<1>2. hist' = hist /\ MirrorStays => UNCHANGED Mirror!mirror
  BY DEF MirrorStays, Position, Picture, Mirror!mirror
<1>3. /\ MirrorMode = "dark" /\ MirrorMode' = "open" /\ Position' = 0
      /\ Picture' \in Snapshot /\ hist' = hist
      => Mirror!Open
  BY DEF Position, Picture, Mirror!Open
<1>4. /\ MirrorMode = "open" /\ MirrorMode' = "open" /\ hist' = hist
      /\ Position' \in Position + 1..Len(hist) /\ Picture' = hist[Position']
      => Mirror!Show
  BY DEF Position, Picture, Mirror!Show
<1>5. /\ MirrorMode = "open" /\ MirrorMode' = "astray" /\ Position' = 0
      /\ Picture' \in Snapshot /\ hist' = hist
      => Mirror!Stray
  BY DEF Position, Picture, Mirror!Stray
<1>6. /\ MirrorMode # "dark" /\ MirrorMode' = "dark" /\ Position' = 0
      /\ Picture' \in Snapshot /\ hist' = hist
      => Mirror!Close
  BY DEF Position, Picture, Mirror!Close
<1> QED
  BY <1>1, <1>2, <1>3, <1>4, <1>5, <1>6

\* What the modes are, and what the mirror has in each.
LEMMA MirrorModes ==
    /\ MirrorMode = "dark" <=> ~Mounted
    /\ MirrorMode = "astray" <=> Mounted /\ astray
    /\ MirrorMode = "open" <=> Mounted /\ ~astray
    /\ MirrorMode # "open" => Position = 0 /\ Picture = Blank
    /\ MirrorMode = "open" => Position = view.lastSeq + 1 /\ Picture = view.snapshot
    /\ MirrorMode' = "dark" <=> ~Mounted'
    /\ MirrorMode' = "astray" <=> Mounted' /\ astray'
    /\ MirrorMode' = "open" <=> Mounted' /\ ~astray'
    /\ MirrorMode' # "open" => Position' = 0 /\ Picture' = Blank
    /\ MirrorMode' = "open" => Position' = view'.lastSeq + 1 /\ Picture' = view'.snapshot
<1>1. /\ MirrorMode = "dark" <=> ~Mounted
      /\ MirrorMode = "astray" <=> Mounted /\ astray
      /\ MirrorMode = "open" <=> Mounted /\ ~astray
  BY DEF MirrorMode
<1>2. /\ MirrorMode' = "dark" <=> ~Mounted'
      /\ MirrorMode' = "astray" <=> Mounted' /\ astray'
      /\ MirrorMode' = "open" <=> Mounted' /\ ~astray'
  BY DEF MirrorMode
<1>3. /\ MirrorMode # "open" => Position = 0 /\ Picture = Blank
      /\ MirrorMode = "open" => Position = view.lastSeq + 1 /\ Picture = view.snapshot
  BY DEF Position, Picture
<1>4. Blank' = Blank
  BY DEF Blank
<1>5. /\ MirrorMode' # "open" => Position' = 0 /\ Picture' = Blank
      /\ MirrorMode' = "open" => Position' = view'.lastSeq + 1 /\ Picture' = view'.snapshot
  BY <1>4 DEF Position, Picture
<1> QED
  BY <1>1, <1>2, <1>3, <1>5

\* A viewer whose mode and picture a step leaves alone is the same mirror.
LEMMA MirrorRests ==
    ASSUME Mounted' <=> Mounted, Mounted => (astray' <=> astray),
           Mounted => view'.lastSeq = view.lastSeq /\ view'.snapshot = view.snapshot
    PROVE  MirrorStays
<1>1. MirrorMode' = MirrorMode
  BY DEF MirrorMode
<1> QED
  BY <1>1, MirrorModes DEF MirrorStays

\* A viewer that took a frame without going astray shows a later state, or what
\* it showed before.
LEMMA MirrorFollows ==
    ASSUME ViewFits, ViewFits', hist' = hist, hist \in Seq(Snapshot), Len(hist) \in Nat,
           view.lastSeq \in Int, view.lastSeq >= -1,
           view'.lastSeq \in Int, view'.lastSeq <= Len(hist) - 1,
           view'.lastSeq >= view.lastSeq,
           ~astray /\ view'.lastSeq = view.lastSeq => view'.snapshot = view.snapshot,
           Mounted, Mounted', astray => astray', view.snapshot \in Snapshot
    PROVE  Mirror!Next \/ UNCHANGED Mirror!mirror
<1>1. CASE astray
  <2>1. MirrorStays
    BY <1>1, MirrorModes DEF MirrorStays
  <2> QED
    BY <2>1, MirrorSteps
<1>2. CASE ~astray /\ astray'
  <2>1. /\ MirrorMode = "open" /\ MirrorMode' = "astray" /\ Position' = 0 /\ Picture' = Blank
    BY <1>2, MirrorModes
  <2>2. Picture' \in Snapshot
    BY <2>1, BlankType
  <2>3. Mirror!Stray
    BY <2>1, <2>2, MirrorSteps
  <2> QED
    BY <2>3 DEF Mirror!Next
<1>3. CASE ~astray /\ ~astray'
  <2>1. /\ MirrorMode = "open" /\ MirrorMode' = "open"
        /\ Position = view.lastSeq + 1 /\ Picture = view.snapshot
        /\ Position' = view'.lastSeq + 1 /\ Picture' = view'.snapshot
    BY <1>3, MirrorModes
  <2>2. CASE view'.lastSeq = view.lastSeq
    <3>1. MirrorStays
      BY <1>3, <2>1, <2>2 DEF MirrorStays
    <3> QED
      BY <3>1, MirrorSteps
  <2>3. CASE view'.lastSeq > view.lastSeq
    <3>1. view'.lastSeq >= 0 /\ view'.lastSeq + 1 \in view.lastSeq + 2..Len(hist)
      BY <2>3
    <3>2. view'.snapshot = At(hist, view'.lastSeq)
      BY <1>3, <3>1 DEF ViewFits
    <3>3. view'.snapshot = hist[view'.lastSeq + 1]
      BY <3>1, <3>2 DEF At
    <3>4. Position + 1 = view.lastSeq + 2
      BY <2>1
    <3>5. Position' \in Position + 1..Len(hist) /\ Picture' = hist[Position']
      BY <2>1, <3>1, <3>3, <3>4
    <3>6. Mirror!Show
      BY <2>1, <3>5, MirrorSteps
    <3> QED
      BY <3>6 DEF Mirror!Next
  <2> QED
    BY <2>2, <2>3
<1> QED
  BY <1>1, <1>2, <1>3

LEMMA InitMirror == StateInit => Mirror!Init
<1> SUFFICES ASSUME StateInit PROVE Mirror!Init
  OBVIOUS
<1>1. view.mode = "out" /\ hist = <<>>
  BY DEF StateInit
<1>2. MirrorMode = "dark"
  BY <1>1 DEF MirrorMode, Mounted
<1> QED
  BY <1>1, <1>2, BlankType DEF Mirror!Init

LEMMA StepMirror ==
    ASSUME ChannelInv, [StateNext]_stateVars
    PROVE  Mirror!Next \/ UNCHANGED Mirror!mirror
<1>0. /\ ChannelTypes /\ ViewFits /\ ViewFits' /\ FramesFit /\ OrderFits /\ OrderFits'
      /\ hist \in Seq(Snapshot) /\ Len(hist) \in Nat /\ view.snapshot \in Snapshot
      /\ view.lastSeq \in Int /\ view.lastSeq >= -1 /\ view.lastSeq <= Len(hist) - 1
      /\ view'.lastSeq \in Int /\ view'.lastSeq <= Len(hist') - 1
  <2>1. ChannelTypes /\ ViewFits /\ FramesFit /\ OrderFits
    BY DEF ChannelInv
  <2>2. ViewFits' /\ OrderFits' /\ ChannelTypes'
    BY StepView, StepOrder, StepTypes
  <2>3. /\ hist \in Seq(Snapshot) /\ Len(hist) \in Nat /\ view.snapshot \in Snapshot
        /\ view.lastSeq \in Int
    BY <2>1 DEF ChannelTypes, ViewType
  <2>4. view'.lastSeq \in Int /\ Len(hist') \in Nat
    BY <2>2 DEF ChannelTypes, ViewType
  <2>5. view.lastSeq >= -1 /\ view.lastSeq <= Len(hist) - 1
    BY <2>1, <2>3 DEF OrderFits
  <2>6. view'.lastSeq <= Len(hist') - 1
    BY <2>2, <2>4 DEF OrderFits
  <2> QED
    BY <2>1, <2>2, <2>3, <2>4, <2>5, <2>6
<1>1. CASE ViewerTakes
  <2>1. /\ out # <<>> /\ hist' = hist
        /\ Opens \/ Closes \/ Ignores \/ Applies \/ Asks \/ Replaces \/ Patches
    BY <1>0, <1>1, ViewerCases
  <2>2. Head(out) \in ToSet(out) /\ Head(out) \in Wire /\ FrameFits(hist, Head(out))
    BY <1>0, <2>1, TailQueue DEF FramesFit, Wire, ChannelTypes
  <2>3. CASE Opens
    <3>1. ~Mounted /\ Mounted' /\ ~astray' /\ view'.lastSeq = -1
      BY <2>3 DEF Opens, Mounted
    <3>2. view'.snapshot \in Snapshot
      <4>1. Head(out) \in ToViewer
        BY <1>0, <2>1 DEF ChannelTypes
      <4> QED
        BY <2>3, <4>1, FrameKinds DEF Opens
    <3>3. /\ MirrorMode = "dark" /\ MirrorMode' = "open" /\ Position' = 0
          /\ Picture' \in Snapshot
      BY <3>1, <3>2, MirrorModes
    <3>4. Mirror!Open
      BY <2>1, <3>3, MirrorSteps
    <3> QED
      BY <3>4 DEF Mirror!Next
  <2>4. CASE Closes
    <3>1. Mounted /\ ~Mounted'
      BY <2>4 DEF Closes, Mounted
    <3>2. /\ MirrorMode # "dark" /\ MirrorMode' = "dark" /\ Position' = 0
          /\ Picture' \in Snapshot
      BY <3>1, BlankType, MirrorModes
    <3>3. Mirror!Close
      BY <2>1, <3>2, MirrorSteps
    <3> QED
      BY <3>3 DEF Mirror!Next
  <2>5. CASE Ignores
    <3>1. (Mounted' <=> Mounted) /\ (Mounted => (astray' <=> astray)) /\ view' = view
      BY <2>5 DEF Ignores, Mounted
    <3>2. MirrorStays
      BY <3>1, MirrorRests
    <3> QED
      BY <2>1, <3>2, MirrorSteps
  <2>6. CASE Asks
    <3>1. /\ (Mounted' <=> Mounted) /\ (Mounted => (astray' <=> astray))
          /\ view'.lastSeq = view.lastSeq /\ view'.snapshot = view.snapshot
      BY <2>6, ModeFacts DEF Asks, Steady
    <3>2. MirrorStays
      BY <3>1, MirrorRests
    <3> QED
      BY <2>1, <3>2, MirrorSteps
  <2>7. CASE Applies
    <3>1. /\ Mounted /\ Mounted' /\ (astray => astray') /\ view'.lastSeq = view.lastSeq + 1
      BY <2>7, ModeFacts DEF Applies
    <3>2. view'.lastSeq >= view.lastSeq /\ view'.lastSeq # view.lastSeq
      BY <1>0, <3>1
    <3> QED
      BY <1>0, <2>1, <3>1, <3>2, MirrorFollows
  <2>8. CASE Replaces
    <3>1. /\ Mounted /\ Mounted' /\ (astray => astray')
          /\ view'.lastSeq = Head(out).seq /\ view'.snapshot = At(hist, view'.lastSeq)
      BY <2>2, <2>8, ModeFacts DEF Replaces, FrameFits
    <3>2. view'.lastSeq >= view.lastSeq
      BY <1>0, <2>2, <2>8, <3>1 DEF Replaces, OrderFits, IsAnswer
    <3>4. ASSUME ~astray, view'.lastSeq = view.lastSeq
          PROVE  view'.snapshot = view.snapshot
      <4>1. CASE view.lastSeq >= 0
        BY <1>0, <3>1, <3>4, <4>1 DEF ViewFits
      <4>2. CASE view.lastSeq = -1
        <5>1. Early(Head(out))
          BY <2>8, <3>1, <3>4, <4>2 DEF Replaces, Early
        <5>2. view.snapshot = Blank
          BY <2>2, <4>2, <5>1 DEF ChannelInv, SeedsFit
        <5> QED
          BY <3>1, <3>4, <4>2, <5>2 DEF At
      <4> QED
        BY <1>0, <4>1, <4>2
    <3> QED
      BY <1>0, <2>1, <3>1, <3>2, <3>4, MirrorFollows
  <2>9. CASE Patches
    <3>1. Mounted /\ Mounted' /\ (astray => astray')
      BY <2>9, ModeFacts DEF Patches
    <3>2. /\ view'.lastSeq >= view.lastSeq
          /\ view'.lastSeq = view.lastSeq => view'.snapshot = view.snapshot
      BY <1>0, <2>2, <2>9, PatchesType
    <3> QED
      BY <1>0, <2>1, <3>1, <3>2, MirrorFollows
  <2> QED
    BY <2>1, <2>3, <2>4, <2>5, <2>6, <2>7, <2>8, <2>9
<1>2. CASE ~ViewerTakes
  <2>1. CASE view' = view /\ astray' = astray
    <3>1. Mounted' <=> Mounted
      BY <2>1 DEF Mounted
    <3>2. MirrorStays
      BY <2>1, <3>1, MirrorRests
    <3>3. CASE hist' = hist
      BY <3>2, <3>3, MirrorSteps
    <3>4. CASE \E key \in Key : Change(key)
      <4>1. PICK s \in Snapshot : hist' = Append(hist, s)
        BY <3>4, ChangeFacts
      <4>2. hist' # <<>> /\ Front(hist') = hist
        BY <1>0, <4>1, FrontOfAppended
      <4>3. Mirror!Produce
        BY <3>2, <4>2, MirrorSteps
      <4> QED
        BY <4>3 DEF Mirror!Next
    <3> QED
      BY <3>3, <3>4, HistorySteps
  <2>2. ASSUME view' # view PROVE hist' = hist
    BY <1>0, <1>2, <2>2, ViewKept
  <2>3. CASE AskToJoin /\ view'.mode = "joining" /\ view.mode = "out"
    <3>1. ~Mounted /\ ~Mounted' /\ hist' = hist
      BY <2>2, <2>3 DEF Mounted
    <3>2. MirrorStays
      BY <3>1, MirrorRests
    <3> QED
      BY <3>1, <3>2, MirrorSteps
  <2>4. CASE AskToLeave /\ view'.mode = "leaving" /\ view.mode = "in"
    <3>1. /\ view'.lastSeq = view.lastSeq /\ view'.snapshot = view.snapshot
          /\ (astray' <=> astray) /\ Mounted' /\ Mounted /\ hist' = hist
      BY <1>0, <1>2, <2>2, <2>4, ViewKept DEF Mounted
    <3>2. MirrorStays
      BY <3>1, MirrorRests
    <3> QED
      BY <3>1, <3>2, MirrorSteps
  <2>5. CASE LeaveTimesOut /\ view'.mode = "out" /\ view.mode = "leaving"
    <3>1. Mounted /\ ~Mounted' /\ hist' = hist
      BY <2>2, <2>5 DEF Mounted
    <3>2. /\ MirrorMode # "dark" /\ MirrorMode' = "dark" /\ Position' = 0
          /\ Picture' \in Snapshot
      BY <3>1, BlankType, MirrorModes
    <3>3. Mirror!Close
      BY <3>1, <3>2, MirrorSteps
    <3> QED
      BY <3>3 DEF Mirror!Next
  <2> QED
    BY <1>0, <1>2, <2>1, <2>3, <2>4, <2>5, ViewKept
<1> QED
  BY <1>1, <1>2

\* The channel implements the mirror: after its opening picture a viewer's screen
\* shows whole states the host has had, never an older one than before.
THEOREM ImplementsMirrorHolds == StateSpec => ImplementsMirror
<1>1. StateInit => Mirror!Init
  BY InitMirror
<1>2. ChannelInv /\ [StateNext]_stateVars => [Mirror!Next]_(Mirror!mirror)
  BY StepMirror
<1> QED
  BY <1>1, <1>2, ChannelInvariance, PTL DEF StateSpec, ImplementsMirror, Mirror!Spec
=============================================================================
