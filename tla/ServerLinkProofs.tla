-------------------------- MODULE ServerLinkProofs --------------------------
(***************************************************************************)
(* Proofs about ServerLink, for any number of sockets, tokens and          *)
(* troubles: one live socket, no banned user in the registry, and a tab    *)
(* that wants the server always has something under way.                   *)
(***************************************************************************)
EXTENDS ServerLink, TLAPS

\* What the argument looks at in a socket.
IsSock(r) == {"ready", "dead", "member", "token"} \subseteq DOMAIN r
Sockets(socks) == DOMAIN socks = Socket /\ \A s \in Socket : IsSock(socks[s])

\* What an open waits for before there is a socket.
Minting == {"asked", "refused"} \cup Token

\* The part of the type invariant that the argument uses.
Typed ==
    /\ Sockets(sock)
    /\ current \in Socket \cup {None}
    /\ opening \in {"none"} \cup Minting \cup Socket
    /\ cache \in Token \cup {None}
    /\ timer \in BOOLEAN /\ purge \in BOOLEAN
    /\ banned \in BOOLEAN /\ ghost \in BOOLEAN /\ expired \in BOOLEAN
    /\ wanted \in BOOLEAN /\ forgotten \in BOOLEAN

\* Whatever is not torn down is the entry's socket, until its close event.
Alive(r) == r.ready # "none" /\ ~r.dead
LiveIsCurrent == \A s \in Socket : Alive(sock[s]) => s = current

\* While an open mints there is no entry; when it dials, its socket is the
\* entry's, unless that was torn down.
OpeningFits ==
    /\ opening \in Minting => current = None
    /\ opening \in Socket => /\ current \in {None, opening}
                             /\ wanted /\ ~forgotten => current = opening

\* NothingIsForgotten, where an open counts only before it has a socket.
SomethingComes ==
    wanted /\ current = None /\ ~forgotten => timer \/ purge \/ opening \in Minting

IInv == Typed /\ BannedIsOut /\ LiveIsCurrent /\ OpeningFits /\ SomethingComes

LEMMA InitIInv == Init => IInv
<1> SUFFICES ASSUME Init PROVE IInv
  OBVIOUS
<1>1. IsSock(Closed) /\ Closed.ready = "none" /\ ~Closed.member
  BY DEF Closed, IsSock
<1>2. Sockets(sock) /\ \A s \in Socket : sock[s].ready = "none" /\ ~sock[s].member
  BY <1>1 DEF Init, Sockets
<1>3. Typed
  BY <1>2 DEF Init, Typed
<1>4. BannedIsOut /\ LiveIsCurrent
  BY <1>2 DEF Init, BannedIsOut, LiveIsCurrent, Alive
<1>5. OpeningFits /\ SomethingComes
  BY NamesAssumption DEF Init, OpeningFits, SomethingComes, Minting
<1> QED BY <1>3, <1>4, <1>5 DEF IInv

-----------------------------------------------------------------------------
(* Sockets.                                                                *)

\* Settled() forgets nothing that these facts name.
LEMMA SettledFacts ==
    ASSUME NEW r, IsSock(r)
    PROVE  /\ IsSock(Settled(r)) /\ Settled(r).member = r.member
           /\ Settled(r).ready = r.ready /\ Settled(r).dead = r.dead
BY DEF IsSock, Settled

LEMMA SetSockFacts ==
    ASSUME Sockets(sock), NEW s \in Socket, NEW r, IsSock(r), SetSock(s, r)
    PROVE  /\ Sockets(sock')
           /\ \A x \in Socket : x # s => sock'[x] = sock[x]
           /\ sock'[s].ready = r.ready /\ sock'[s].dead = r.dead /\ sock'[s].member = r.member
BY SettledFacts DEF Sockets, SetSock

\* A step that leaves the browser's maps alone and revives no socket.
LEMMA MapsKept ==
    ASSUME IInv, UNCHANGED <<browser, histories>>, Sockets(sock'),
           \A s \in Socket : Alive(sock'[s]) => Alive(sock[s]),
           banned' \in BOOLEAN, ghost' \in BOOLEAN, expired' \in BOOLEAN,
           banned' => ~ghost' /\ \A s \in Socket : ~sock'[s].member
    PROVE  IInv'
<1>1. Typed'
  BY DEF IInv, Typed, browser, histories, Sockets
<1>2. BannedIsOut'
  BY DEF BannedIsOut
<1>3. LiveIsCurrent' /\ OpeningFits' /\ SomethingComes'
  BY DEF IInv, LiveIsCurrent, OpeningFits, SomethingComes, browser, histories
<1> QED BY <1>1, <1>2, <1>3 DEF IInv

\* Such a step of one socket.
LEMMA SocketKept ==
    ASSUME IInv, NEW s \in Socket, NEW r, IsSock(r), SetSock(s, r),
           UNCHANGED <<browser, histories, expired, banned>>, ghost' \in BOOLEAN,
           Alive(r) => Alive(sock[s]), banned => ~ghost' /\ ~r.member
    PROVE  IInv'
<1>1. /\ Sockets(sock')
      /\ \A x \in Socket : x # s => sock'[x] = sock[x]
      /\ sock'[s].ready = r.ready /\ sock'[s].dead = r.dead /\ sock'[s].member = r.member
  BY SetSockFacts DEF IInv, Typed
<1>2. \A x \in Socket : Alive(sock'[x]) => Alive(sock[x])
  BY <1>1 DEF Alive
<1>3. /\ banned' \in BOOLEAN /\ expired' \in BOOLEAN
      /\ (banned' => ~ghost' /\ \A x \in Socket : ~sock'[x].member)
  BY <1>1 DEF IInv, Typed, BannedIsOut
<1> QED BY <1>1, <1>2, <1>3, MapsKept

LEMMA HandshakeKeeps ==
    ASSUME IInv, NEW s \in Socket, AuthArrives(s) \/ AuthTimeout(s) \/ AuthResult(s)
                                   \/ CloseFrame(s) \/ PeerCloses(s) \/ Breaks(s)
    PROVE  IInv'
<1>1. IsSock(sock[s]) /\ ghost \in BOOLEAN /\ (banned => ~ghost /\ ~sock[s].member)
  BY DEF IInv, Typed, Sockets, BannedIsOut
<1>2. UNCHANGED <<browser, histories, expired, banned, ghost>>
  BY DEF AuthArrives, AuthTimeout, AuthResult, CloseFrame, PeerCloses, Breaks, world
<1>3. PICK r : /\ SetSock(s, r) /\ IsSock(r) /\ r.dead = sock[s].dead
               /\ r.ready = sock[s].ready \/ sock[s].ready = "open"
               /\ r.member => sock[s].member
  <2>1. CASE AuthArrives(s)
    <3> DEFINE r == [sock[s] EXCEPT !.handler = "validating"]
    <3>1. IsSock(r) /\ r.dead = sock[s].dead /\ r.ready = sock[s].ready /\ r.member = sock[s].member
      BY <1>1 DEF IsSock
    <3>2. SetSock(s, r)
      BY <2>1 DEF AuthArrives
    <3> HIDE DEF r
    <3> QED BY <3>1, <3>2
  <2>2. CASE AuthTimeout(s)
    <3> DEFINE r == [sock[s] EXCEPT !.live = FALSE, !.code = 4001]
    <3>1. IsSock(r) /\ r.dead = sock[s].dead /\ r.ready = sock[s].ready /\ r.member = sock[s].member
      BY <1>1 DEF IsSock
    <3>2. SetSock(s, r)
      BY <2>2 DEF AuthTimeout
    <3> HIDE DEF r
    <3> QED BY <3>1, <3>2
  <2>3. CASE AuthResult(s)
    <3> DEFINE r == [sock[s] EXCEPT !.reply = FALSE, !.authed = TRUE]
    <3>1. IsSock(r) /\ r.dead = sock[s].dead /\ r.ready = sock[s].ready /\ r.member = sock[s].member
      BY <1>1 DEF IsSock
    <3>2. SetSock(s, r)
      BY <2>3 DEF AuthResult
    <3> HIDE DEF r
    <3> QED BY <3>1, <3>2
  <2>4. CASE CloseFrame(s)
    <3> DEFINE r == [sock[s] EXCEPT !.ready = "closing"]
    <3>1. IsSock(r) /\ r.dead = sock[s].dead /\ r.member = sock[s].member
      BY <1>1 DEF IsSock
    <3>2. SetSock(s, r) /\ sock[s].ready = "open"
      BY <2>4 DEF CloseFrame
    <3> HIDE DEF r
    <3> QED BY <3>1, <3>2
  <2>5. CASE PeerCloses(s)
    <3> DEFINE r == [sock[s] EXCEPT !.live = FALSE, !.member = FALSE]
    <3>1. IsSock(r) /\ r.dead = sock[s].dead /\ r.ready = sock[s].ready /\ ~r.member
      BY <1>1 DEF IsSock
    <3>2. SetSock(s, r)
      BY <2>5 DEF PeerCloses
    <3> HIDE DEF r
    <3> QED BY <3>1, <3>2
  <2>6. CASE Breaks(s)
    <3> DEFINE r == [sock[s] EXCEPT !.line = FALSE]
    <3>1. IsSock(r) /\ r.dead = sock[s].dead /\ r.ready = sock[s].ready /\ r.member = sock[s].member
      BY <1>1 DEF IsSock
    <3>2. SetSock(s, r)
      BY <2>6 DEF Breaks
    <3> HIDE DEF r
    <3> QED BY <3>1, <3>2
  <2> QED BY <2>1, <2>2, <2>3, <2>4, <2>5, <2>6
<1> QED BY <1>1, <1>2, <1>3, SocketKept DEF Alive

\* The verdict registers nobody who is banned at that moment.
LEMMA ValidatedKeeps == ASSUME IInv, NEW s \in Socket, Validated(s) PROVE IInv'
<1>1. IsSock(sock[s]) /\ ghost \in BOOLEAN /\ (banned => ~ghost /\ ~sock[s].member)
  BY DEF IInv, Typed, Sockets, BannedIsOut
<1>2. UNCHANGED <<browser, histories, expired, banned>>
  BY DEF Validated, ValidatedWith, Admit, world
<1>3. ASSUME NEW code, Refuse(s, code), UNCHANGED world PROVE IInv'
  <2> DEFINE r1 == [sock[s] EXCEPT !.handler = "done", !.live = FALSE, !.code = code]
             r2 == [sock[s] EXCEPT !.handler = "done"]
             r == IF sock[s].live THEN r1 ELSE r2
  <2>1. IsSock(r1) /\ r1.dead = sock[s].dead /\ r1.ready = sock[s].ready /\ r1.member = sock[s].member
    BY <1>1 DEF IsSock
  <2>2. IsSock(r2) /\ r2.dead = sock[s].dead /\ r2.ready = sock[s].ready /\ r2.member = sock[s].member
    BY <1>1 DEF IsSock
  <2>3. SetSock(s, r)
    BY <1>3 DEF Refuse
  <2> HIDE DEF r1, r2
  <2>4. IsSock(r) /\ r.dead = sock[s].dead /\ r.ready = sock[s].ready /\ r.member = sock[s].member
    BY <2>1, <2>2
  <2> HIDE DEF r
  <2>5. ghost' = ghost
    BY <1>3 DEF world
  <2> QED BY <1>1, <1>2, <2>3, <2>4, <2>5, SocketKept DEF Alive
<1>4. ASSUME Admit(s), ~banned PROVE IInv'
  <2> DEFINE r == [sock[s] EXCEPT !.handler = "done", !.member = sock[s].live, !.reply = sock[s].live]
  <2>1. IsSock(r) /\ r.dead = sock[s].dead /\ r.ready = sock[s].ready
    BY <1>1 DEF IsSock
  <2>2. SetSock(s, r) /\ ghost' \in BOOLEAN
    BY <1>4 DEF Admit
  <2> HIDE DEF r
  <2> QED BY <1>1, <1>2, <1>4, <2>1, <2>2, SocketKept DEF Alive
<1>5. \/ (Refuse(s, 4001) \/ Refuse(s, 4003) \/ Refuse(s, 4004)) /\ UNCHANGED world
      \/ Admit(s) /\ ~banned
  BY DEF Validated, ValidatedWith
<1> QED BY <1>3, <1>4, <1>5

\* What the runtime and the world do to all sockets at once.
LEMMA WorldKeeps == ASSUME IInv, Ban \/ Order \/ TunnelMoves \/ Restarts PROVE IInv'
<1>1. Sockets(sock) /\ ghost \in BOOLEAN /\ banned \in BOOLEAN /\ expired \in BOOLEAN
  BY DEF IInv, Typed
<1>2. UNCHANGED <<browser, histories, expired>>
  <2>1. CASE Ban
    BY <2>1 DEF Ban
  <2>2. CASE Order
    BY <2>2 DEF Order
  <2>3. CASE TunnelMoves
    BY <2>3 DEF TunnelMoves
  <2>4. CASE Restarts
    BY <2>4 DEF Restarts
  <2> QED BY <2>1, <2>2, <2>3, <2>4
<1>3. ASSUME NEW code, PutOut(code), banned' \in BOOLEAN PROVE IInv'
  <2>1. \A s \in Socket : /\ IsSock(sock'[s]) /\ ~sock'[s].member
                          /\ sock'[s].ready = sock[s].ready /\ sock'[s].dead = sock[s].dead
    <3> TAKE s \in Socket
    <3>1. CASE sock[s].member
      <4> DEFINE r == [sock[s] EXCEPT !.live = FALSE, !.member = FALSE, !.code = code]
      <4>1. IsSock(r) /\ ~r.member /\ r.ready = sock[s].ready /\ r.dead = sock[s].dead
        BY <1>1 DEF Sockets, IsSock
      <4>2. sock'[s] = Settled(r)
        BY <1>3, <3>1 DEF PutOut
      <4> HIDE DEF r
      <4> QED BY <4>1, <4>2, SettledFacts
    <3>2. CASE ~sock[s].member
      BY <1>1, <1>3, <3>2 DEF PutOut, Sockets
    <3> QED BY <3>1, <3>2
  <2>2. Sockets(sock')
    BY <1>3, <2>1 DEF PutOut, Sockets
  <2>3. ghost' = FALSE /\ expired' \in BOOLEAN
    BY <1>1, <1>2, <1>3 DEF PutOut
  <2> QED BY <1>2, <1>3, <2>1, <2>2, <2>3, MapsKept DEF Alive
<1>4. CASE Ban \/ Order
  <2>1. PutOut(4001) \/ PutOut(4003)
    BY <1>4 DEF Ban, Order
  <2>2. CASE Ban
    <3>1. banned' = TRUE
      BY <2>2 DEF Ban
    <3> QED BY <1>3, <2>1, <3>1
  <2>3. CASE Order
    <3>1. banned' = banned
      BY <2>3 DEF Order
    <3> QED BY <1>1, <1>3, <2>1, <3>1
  <2> QED BY <1>4, <2>2, <2>3
<1>5. ASSUME NEW f, Sockets(f), sock' = [s \in Socket |-> Settled(f[s])],
             \A s \in Socket : /\ f[s].ready = sock[s].ready /\ f[s].dead = sock[s].dead
                               /\ f[s].member => sock[s].member,
             UNCHANGED banned, ghost' = FALSE \/ UNCHANGED ghost
      PROVE  IInv'
  <2>1. \A s \in Socket : /\ IsSock(sock'[s]) /\ sock'[s].member = f[s].member
                          /\ sock'[s].ready = sock[s].ready /\ sock'[s].dead = sock[s].dead
    BY <1>5, SettledFacts DEF Sockets
  <2>2. Sockets(sock')
    BY <1>5, <2>1 DEF Sockets
  <2>3. banned' => ~ghost' /\ \A s \in Socket : ~sock'[s].member
    BY <1>5, <2>1 DEF IInv, BannedIsOut
  <2> QED BY <1>1, <1>2, <1>5, <2>1, <2>2, <2>3, MapsKept DEF Alive
<1>6. CASE TunnelMoves
  <2> DEFINE f == [s \in Socket |-> [sock[s] EXCEPT !.line = FALSE]]
  <2>1. /\ Sockets(f)
        /\ \A s \in Socket : /\ f[s].ready = sock[s].ready /\ f[s].dead = sock[s].dead
                             /\ f[s].member => sock[s].member
    BY <1>1 DEF Sockets, IsSock
  <2>2. sock' = [s \in Socket |-> Settled(f[s])] /\ UNCHANGED <<banned, ghost>>
    BY <1>6 DEF TunnelMoves
  <2> HIDE DEF f
  <2> QED BY <1>5, <2>1, <2>2
<1>7. CASE Restarts
  <2> DEFINE f == [s \in Socket |-> [sock[s] EXCEPT !.line = FALSE, !.live = FALSE,
                                                    !.member = FALSE, !.handler = "none"]]
  <2>1. /\ Sockets(f)
        /\ \A s \in Socket : /\ f[s].ready = sock[s].ready /\ f[s].dead = sock[s].dead
                             /\ f[s].member => sock[s].member
    BY <1>1 DEF Sockets, IsSock
  <2>2. sock' = [s \in Socket |-> Settled(f[s])] /\ UNCHANGED banned /\ ghost' = FALSE
    BY <1>7 DEF Restarts
  <2> HIDE DEF f
  <2> QED BY <1>5, <2>1, <2>2
<1> QED BY <1>4, <1>6, <1>7

-----------------------------------------------------------------------------
(* Opens.                                                                  *)

LEMMA NotANoun ==
    /\ "none" \notin Minting \cup Socket /\ {"asked", "refused"} \cap Socket = {}
    /\ Socket \cap Minting = {} /\ None \notin Socket
BY NamesAssumption, NoneAssumption DEF Minting

\* A dial, when nothing else is alive.
LEMMA DialKeeps ==
    ASSUME IInv, NEW socks, Sockets(socks), NEW token \in Token, Dial(socks, token),
           \A s \in Socket : ~Alive(socks[s]) /\ (socks[s].member => sock[s].member),
           UNCHANGED <<banned, ghost, expired>>, timer' \in BOOLEAN, purge' \in BOOLEAN,
           wanted' \in BOOLEAN, forgotten' \in BOOLEAN
    PROVE  IInv'
<1> DEFINE dialed == [Closed EXCEPT !.ready = "connecting", !.token = token]
<1>1. IsSock(dialed) /\ ~dialed.member
  BY DEF IsSock, Closed
<1>2. PICK s \in Socket : /\ sock' = [socks EXCEPT ![s] = dialed]
                          /\ current' = s /\ opening' = s /\ cache' = token
  BY DEF Dial
<1> HIDE DEF dialed
<1>3. /\ Sockets(sock') /\ sock'[s] = dialed
      /\ \A x \in Socket : x # s => sock'[x] = socks[x]
  BY <1>1, <1>2 DEF Sockets
<1>4. Typed'
  BY <1>2, <1>3 DEF IInv, Typed, Sockets
<1>5. BannedIsOut'
  BY <1>1, <1>3 DEF IInv, BannedIsOut
<1>6. LiveIsCurrent'
  BY <1>2, <1>3 DEF LiveIsCurrent
<1>7. OpeningFits' /\ SomethingComes'
  BY <1>2, NotANoun DEF OpeningFits, SomethingComes
<1> QED BY <1>4, <1>5, <1>6, <1>7 DEF IInv

\* openConnection, when nothing is alive and the caller has taken note of an
\* open that was torn down and of an expired tunnel.
LEMMA OpenKeeps ==
    ASSUME IInv, NEW socks, Sockets(socks), Open(socks),
           \A s \in Socket : ~Alive(socks[s]) /\ (socks[s].member => sock[s].member),
           UNCHANGED <<banned, ghost, expired, purge>>, timer' \in BOOLEAN,
           wanted' \in BOOLEAN, forgotten' \in BOOLEAN,
           opening \in Socket \/ (opening = "none" /\ expired) => ~wanted' \/ forgotten'
    PROVE  IInv'
<1>1. purge' \in BOOLEAN
  BY DEF IInv, Typed
<1>2. CASE opening = "none" /\ Usable /\ Dial(socks, cache)
  <2>1. cache \in Token
    BY <1>2 DEF Usable, IInv, Typed
  <2> QED BY <1>1, <1>2, <2>1, DialKeeps
<1>3. ASSUME sock' = socks, current' = None, cache' \in Token \cup {None},
             opening' \in {"asked"} \/ (opening' = opening /\ (opening # "none" \/ expired))
      PROVE  IInv'
  <2>1. opening' \in {"none"} \cup Minting \cup Socket
    BY <1>3 DEF IInv, Typed, Minting
  <2>2. Typed'
    BY <1>1, <1>3, <2>1 DEF IInv, Typed, Sockets
  <2>3. BannedIsOut' /\ LiveIsCurrent'
    BY <1>3 DEF IInv, BannedIsOut, LiveIsCurrent
  <2>4. opening' \notin Minting => ~wanted' \/ forgotten'
    BY <1>3, NotANoun DEF IInv, Typed, Minting
  <2>5. OpeningFits' /\ SomethingComes'
    BY <1>3, <2>1, <2>4, NotANoun DEF OpeningFits, SomethingComes
  <2> QED BY <2>2, <2>3, <2>5 DEF IInv
<1>4. \/ opening = "none" /\ Usable /\ Dial(socks, cache)
      \/ /\ sock' = socks /\ current' = None /\ cache' \in Token \cup {None}
         /\ opening' \in {"asked"} \/ (opening' = opening /\ (opening # "none" \/ expired))
  BY DEF Open, IInv, Typed
<1> QED BY <1>2, <1>3, <1>4

LEMMA ConnectKeeps == ASSUME IInv, NEW force \in BOOLEAN, Connect(force) PROVE IInv'
<1>1. /\ wanted' = TRUE /\ timer' = (timer /\ ~force) /\ UNCHANGED <<purge, banned, ghost, expired>>
  BY DEF Connect, world
<1>2. timer' \in BOOLEAN /\ wanted' \in BOOLEAN /\ Sockets(sock) /\ current \in Socket \cup {None}
  BY <1>1 DEF IInv, Typed
<1>3. CASE InUse
  <2>1. current \in Socket /\ UNCHANGED <<sock, current, opening, cache, forgotten>>
    BY <1>2, <1>3 DEF Connect, InUse
  <2>2. Typed' /\ BannedIsOut' /\ LiveIsCurrent'
    BY <1>1, <1>2, <2>1 DEF IInv, Typed, BannedIsOut, LiveIsCurrent
  <2>3. OpeningFits' /\ SomethingComes'
    BY <1>1, <2>1, NotANoun DEF IInv, OpeningFits, SomethingComes
  <2> QED BY <2>2, <2>3 DEF IInv
<1>4. CASE ~InUse
  <2> DEFINE socks == IF current = None THEN sock
                      ELSE [sock EXCEPT ![current] = Settled([@ EXCEPT !.dead = TRUE])]
             r == [sock[current] EXCEPT !.dead = TRUE]
  <2>1. /\ Open(socks)
        /\ forgotten' = IF opening = "none" THEN expired ELSE forgotten \/ opening \in Socket
    BY <1>4 DEF Connect
  <2>2. /\ forgotten' \in BOOLEAN
        /\ opening \in Socket \/ (opening = "none" /\ expired) => forgotten'
    BY <2>1, NotANoun DEF IInv, Typed
  <2>3. Sockets(socks) /\ \A s \in Socket : ~Alive(socks[s]) /\ (socks[s].member => sock[s].member)
    <3>1. CASE current = None
      <4>1. \A s \in Socket : ~Alive(sock[s])
        BY <3>1, NotANoun DEF IInv, LiveIsCurrent
      <4> QED BY <1>2, <3>1, <4>1
    <3>2. CASE current # None
      <4>1. IsSock(r) /\ r.dead /\ r.member = sock[current].member
        BY <1>2, <3>2 DEF Sockets, IsSock
      <4>2. socks = [sock EXCEPT ![current] = Settled(r)]
        BY <3>2
      <4> HIDE DEF r, socks
      <4>3. IsSock(Settled(r)) /\ ~Alive(Settled(r)) /\ Settled(r).member = sock[current].member
        BY <4>1, SettledFacts DEF Alive
      <4>4. /\ DOMAIN socks = Socket /\ socks[current] = Settled(r)
            /\ \A s \in Socket : s # current => socks[s] = sock[s]
        BY <1>2, <3>2, <4>2 DEF Sockets
      <4> QED BY <1>2, <4>3, <4>4 DEF Sockets, IInv, LiveIsCurrent
    <3> QED BY <3>1, <3>2
  <2> HIDE DEF socks
  <2> QED BY <1>1, <1>2, <2>1, <2>2, <2>3, OpenKeeps
<1> QED BY <1>3, <1>4

LEMMA TimerFiresKeeps == ASSUME IInv, TimerFires PROVE IInv'
<1>1. timer' = FALSE /\ UNCHANGED <<purge, banned, ghost, expired, wanted>>
  BY DEF TimerFires, world
<1>2. /\ Sockets(sock) /\ wanted' \in BOOLEAN /\ current \in Socket \cup {None}
      /\ forgotten \in BOOLEAN /\ expired \in BOOLEAN
  BY <1>1 DEF IInv, Typed
<1>3. CASE current # None
  <2>1. UNCHANGED <<sock, current, opening, cache, forgotten>>
    BY <1>3 DEF TimerFires
  <2>2. Typed' /\ BannedIsOut' /\ LiveIsCurrent'
    BY <1>1, <2>1 DEF IInv, Typed, BannedIsOut, LiveIsCurrent
  <2>3. OpeningFits' /\ SomethingComes'
    BY <1>1, <1>3, <2>1 DEF IInv, OpeningFits, SomethingComes
  <2> QED BY <2>2, <2>3 DEF IInv
<1>4. CASE current = None
  <2>1. Open(sock) /\ forgotten' = IF opening = "none" THEN expired ELSE forgotten
    BY <1>4 DEF TimerFires
  <2>2. \A s \in Socket : ~Alive(sock[s])
    BY <1>4, NotANoun DEF IInv, LiveIsCurrent
  <2>3. /\ forgotten' \in BOOLEAN
        /\ opening \in Socket \/ (opening = "none" /\ expired) => ~wanted' \/ forgotten'
    BY <1>1, <1>2, <1>4, <2>1, NotANoun DEF IInv, OpeningFits
  <2> QED BY <1>1, <1>2, <2>1, <2>2, <2>3, OpenKeeps
<1> QED BY <1>3, <1>4

\* Steps of the browser that touch no socket.
LEMMA BrowserKept ==
    ASSUME IInv, UNCHANGED <<sock, current, banned, ghost, wanted, expired>>,
           cache' \in Token \cup {None}, timer' \in BOOLEAN, purge' \in BOOLEAN,
           forgotten' \in BOOLEAN, forgotten => forgotten',
           \/ /\ opening' = opening
              /\ timer => timer'
              /\ purge => purge'
           \/ /\ opening' \in Minting \/ (opening' = "none" /\ (timer' \/ purge' \/ forgotten'))
              /\ current = None
    PROVE  IInv'
<1>1. opening' \in {"none"} \cup Minting \cup Socket
  BY DEF IInv, Typed
<1>2. Typed' /\ BannedIsOut' /\ LiveIsCurrent'
  BY <1>1 DEF IInv, Typed, BannedIsOut, LiveIsCurrent
<1>3. OpeningFits' /\ SomethingComes'
  BY NotANoun DEF IInv, OpeningFits, SomethingComes
<1> QED BY <1>2, <1>3 DEF IInv

LEMMA MintKeeps ==
    ASSUME IInv, MintAnswered \/ MintArrives \/ NoAddress \/ MintRefused PROVE IInv'
<1>1. /\ cache \in Token \cup {None} /\ timer \in BOOLEAN /\ purge \in BOOLEAN
      /\ wanted \in BOOLEAN /\ forgotten \in BOOLEAN /\ Sockets(sock)
  BY DEF IInv, Typed
<1>2. opening \in Minting => current = None
  BY DEF IInv, OpeningFits
<1>3. CASE MintAnswered
  <2>1. /\ UNCHANGED <<sock, current, cache, expired, banned, ghost, purge, wanted, forgotten>>
        /\ opening = "asked" /\ timer' \in {timer, TRUE}
    BY <1>3 DEF MintAnswered, histories
  <2>2. opening' \in Minting \/ (opening' = "none" /\ timer' = TRUE)
    BY <1>3 DEF MintAnswered, Minting
  <2>3. current = None
    BY <1>2, <2>1 DEF Minting
  <2> QED BY <1>1, <2>1, <2>2, <2>3, BrowserKept
<1>4. CASE MintArrives
  <2>1. /\ Dial(sock, opening) /\ opening \in Token
        /\ UNCHANGED <<expired, banned, ghost, timer, purge, wanted, forgotten>>
    BY <1>4 DEF MintArrives, world, histories
  <2>2. \A s \in Socket : ~Alive(sock[s])
    BY <1>2, <2>1, NotANoun DEF IInv, LiveIsCurrent, Minting
  <2> QED BY <1>1, <2>1, <2>2, DialKeeps
<1>5. CASE NoAddress
  <2>1. /\ UNCHANGED <<sock, current, expired, banned, ghost, timer, purge, wanted>>
        /\ opening \in Token /\ opening' = "none" /\ cache' = None /\ forgotten' = TRUE
    BY <1>5 DEF NoAddress, world
  <2> QED BY <1>1, <1>2, <2>1, BrowserKept DEF Minting
<1>6. CASE MintRefused
  <2>1. /\ UNCHANGED <<sock, current, cache, expired, banned, ghost, timer, wanted, forgotten>>
        /\ opening = "refused" /\ opening' = "none" /\ purge' = TRUE
    BY <1>6 DEF MintRefused, world, histories
  <2> QED BY <1>1, <1>2, <2>1, BrowserKept DEF Minting
<1> QED BY <1>3, <1>4, <1>5, <1>6

-----------------------------------------------------------------------------
(* Teardown and refresh.                                                   *)

\* disconnect, by a purge or a logout: nobody wants the server any more.
LEMMA TornDown ==
    ASSUME IInv, UNCHANGED <<opening, expired, banned, ghost, forgotten>>, wanted' = FALSE,
           current' = None, cache' \in Token \cup {None}, timer' \in BOOLEAN, purge' \in BOOLEAN,
           IF current = None THEN UNCHANGED sock
           ELSE SetSock(current, [sock[current] EXCEPT !.dead = TRUE, !.ready = "closing"])
    PROVE  IInv'
<1>1. Sockets(sock) /\ current \in Socket \cup {None}
  BY DEF IInv, Typed
<1>2. /\ Sockets(sock')
      /\ \A s \in Socket : /\ Alive(sock'[s]) => Alive(sock[s]) /\ s # current
                           /\ sock'[s].member => sock[s].member
  <2>1. CASE current = None
    BY <1>1, <2>1, NotANoun
  <2>2. CASE current # None
    <3> DEFINE r == [sock[current] EXCEPT !.dead = TRUE, !.ready = "closing"]
    <3>1. IsSock(r) /\ r.dead = TRUE /\ r.member = sock[current].member
      BY <1>1, <2>2 DEF Sockets, IsSock
    <3>2. SetSock(current, r)
      BY <2>2
    <3> HIDE DEF r
    <3>3. /\ Sockets(sock')
          /\ \A x \in Socket : x # current => sock'[x] = sock[x]
          /\ sock'[current].dead = r.dead /\ sock'[current].member = r.member
      BY <1>1, <2>2, <3>1, <3>2, SetSockFacts
    <3>4. sock'[current].dead = TRUE /\ sock'[current].member = sock[current].member
      BY <3>1, <3>3
    <3>5. ~Alive(sock'[current])
      BY <3>4 DEF Alive
    <3> QED
      <4> SUFFICES ASSUME NEW s \in Socket
                   PROVE  /\ Alive(sock'[s]) => Alive(sock[s]) /\ s # current
                          /\ sock'[s].member => sock[s].member
        BY <3>3
      <4>1. CASE s = current
        BY <3>4, <3>5, <4>1
      <4>2. CASE s # current
        BY <3>3, <4>2
      <4> QED BY <4>1, <4>2
  <2> QED BY <2>1, <2>2
<1>3. Typed'
  BY <1>2 DEF IInv, Typed, Sockets
<1>4. BannedIsOut' /\ LiveIsCurrent'
  BY <1>2 DEF IInv, BannedIsOut, LiveIsCurrent
<1>5. OpeningFits' /\ SomethingComes'
  BY DEF OpeningFits, SomethingComes
<1> QED BY <1>3, <1>4, <1>5 DEF IInv

LEMMA TeardownKeeps == ASSUME IInv, Purge \/ Logout PROVE IInv'
<1>1. /\ cache \in Token \cup {None} /\ timer \in BOOLEAN /\ purge \in BOOLEAN
  BY DEF IInv, Typed
<1>2. CASE Purge
  <2>1. /\ UNCHANGED <<opening, expired, banned, ghost, forgotten>> /\ wanted' = FALSE
        /\ timer' = FALSE /\ purge' = FALSE
    BY <1>2 DEF Purge, world
  <2>2. /\ current' = None /\ cache' \in Token \cup {None}
        /\ IF current = None THEN UNCHANGED sock
           ELSE SetSock(current, [sock[current] EXCEPT !.dead = TRUE, !.ready = "closing"])
    BY <1>1, <1>2 DEF Purge, Disconnect
  <2> QED BY <2>1, <2>2, TornDown
<1>3. CASE Logout
  <2>1. /\ UNCHANGED <<opening, expired, banned, ghost, forgotten, purge>> /\ LeaveAll
    BY <1>3 DEF Logout, world
  <2> QED BY <1>1, <2>1, TornDown DEF LeaveAll
<1> QED BY <1>2, <1>3

LEMMA RefreshKeeps ==
    ASSUME IInv, SignIn \/ RefreshDue \/ RefreshAnswered \/ RefreshArrives \/ \E t \in Token : Ages(t)
    PROVE  IInv'
<1>1. /\ cache \in Token \cup {None} /\ timer \in BOOLEAN /\ purge \in BOOLEAN /\ wanted \in BOOLEAN
  BY DEF IInv, Typed
<1>2. ASSUME UNCHANGED <<sock, current, opening, timer, expired, banned, ghost, wanted, forgotten>>,
             cache' \in Token \cup {None}, purge' \in {purge, TRUE}
      PROVE  IInv'
  <2>1. wanted' \in BOOLEAN /\ timer' \in BOOLEAN /\ (timer => timer')
    BY <1>1, <1>2
  <2>2. purge' \in BOOLEAN /\ (purge => purge')
    <3>1. CASE purge' = purge
      BY <1>1, <3>1
    <3>2. CASE purge' = TRUE
      BY <3>2
    <3> QED BY <1>2, <3>1, <3>2
  <2>3. /\ UNCHANGED <<sock, current, expired, banned, ghost, wanted>> /\ opening' = opening
        /\ forgotten' \in BOOLEAN /\ (forgotten => forgotten')
    BY <1>2 DEF IInv, Typed
  <2> QED BY <1>2, <2>1, <2>2, <2>3, BrowserKept
<1>3. CASE SignIn
  BY <1>1, <1>2, <1>3 DEF SignIn, world, histories
<1>4. CASE RefreshDue
  BY <1>1, <1>2, <1>4 DEF RefreshDue, world, histories
<1>5. CASE RefreshArrives
  <2>1. UNCHANGED <<sock, current, opening, timer, expired, banned, ghost, wanted, forgotten>>
    BY <1>5 DEF RefreshArrives, world, histories
  <2>2. cache' \in Token \cup {None} /\ purge' \in {purge, TRUE}
    BY <1>1, <1>5 DEF RefreshArrives
  <2> QED BY <1>2, <2>1, <2>2
<1>6. CASE RefreshAnswered
  <2>1. UNCHANGED <<opening, purge, expired, banned, ghost, forgotten>>
    BY <1>6 DEF RefreshAnswered
  <2>2. LeaveAll \/ UNCHANGED <<sock, current, cache, timer, wanted>>
    BY <1>6 DEF RefreshAnswered
  <2>3. CASE LeaveAll
    BY <1>1, <2>1, <2>3, TornDown DEF LeaveAll
  <2>4. CASE UNCHANGED <<sock, current, cache, timer, wanted>>
    BY <1>1, <1>2, <2>1, <2>4
  <2> QED BY <2>2, <2>3, <2>4
<1>7. CASE \E t \in Token : Ages(t)
  <2>1. UNCHANGED <<sock, browser, world, histories>>
    BY <1>7 DEF Ages
  <2> QED BY <1>1, <1>2, <2>1 DEF browser, world, histories
<1> QED BY <1>3, <1>4, <1>5, <1>6, <1>7

-----------------------------------------------------------------------------
(* Opening and closing of sockets.                                         *)

LEMMA OpensKeeps == ASSUME IInv, NEW s \in Socket, Opens(s) PROVE IInv'
<1> DEFINE r == [sock[s] EXCEPT !.ready = "open", !.opened = TRUE, !.line = TRUE,
                                !.live = TRUE, !.handler = "waiting"]
<1>1. Sockets(sock)
  BY DEF IInv, Typed
<1>2. IsSock(r) /\ r.dead = sock[s].dead /\ r.member = sock[s].member
  BY <1>1 DEF Sockets, IsSock
<1>3. /\ SetSock(s, r) /\ sock[s].ready = "connecting" /\ opening' = Over(s)
      /\ UNCHANGED <<current, cache, timer, purge, world, histories>>
  BY DEF Opens
<1> HIDE DEF r
<1>4. /\ Sockets(sock')
      /\ \A x \in Socket : x # s => sock'[x] = sock[x]
      /\ sock'[s].dead = r.dead /\ sock'[s].member = r.member
  BY <1>1, <1>2, <1>3, SetSockFacts
<1>5. \A x \in Socket : (Alive(sock'[x]) => Alive(sock[x])) /\ (sock'[x].member => sock[x].member)
  BY <1>2, <1>3, <1>4 DEF Alive
<1>6. Typed'
  BY <1>3, <1>4 DEF IInv, Typed, Sockets, world, histories, Over
<1>7. BannedIsOut' /\ LiveIsCurrent'
  BY <1>3, <1>5 DEF IInv, BannedIsOut, LiveIsCurrent, world
<1>8. OpeningFits'
  BY <1>3, NotANoun DEF IInv, OpeningFits, histories, Over
<1>9. SomethingComes'
  BY <1>3, NotANoun DEF IInv, OpeningFits, SomethingComes, histories, Over
<1> QED BY <1>6, <1>7, <1>8, <1>9 DEF IInv

\* A close of the entry's socket ends in the timer or a purge.
LEMMA CloseKeeps ==
    ASSUME IInv, NEW s \in Socket, NEW code, OnClose(s, code), sock[s].ready # "none" PROVE IInv'
<1> DEFINE r == [sock[s] EXCEPT !.ready = "none", !.dead = FALSE, !.authed = FALSE,
                                !.opened = FALSE, !.line = FALSE, !.reply = FALSE, !.code = 0]
<1>1. Sockets(sock) /\ timer \in BOOLEAN /\ purge \in BOOLEAN
  BY DEF IInv, Typed
<1>2. IsSock(r) /\ r.ready = "none" /\ r.member = sock[s].member
  BY <1>1 DEF Sockets, IsSock
<1>3. SetSock(s, r) /\ opening' = Over(s) /\ UNCHANGED <<world, histories>>
  BY DEF OnClose, CloseWith
<1>4. \/ sock[s].dead /\ UNCHANGED <<current, cache, timer, purge>>
      \/ /\ ~sock[s].dead /\ current' = None /\ cache' \in {None, cache}
         /\ purge' = (purge \/ code = 4003) /\ timer' = (timer \/ code # 4003)
  BY DEF OnClose, CloseWith
<1> HIDE DEF r
<1>5. /\ Sockets(sock')
      /\ \A x \in Socket : x # s => sock'[x] = sock[x]
      /\ sock'[s].ready = "none" /\ sock'[s].member = sock[s].member
  BY <1>1, <1>2, <1>3, SetSockFacts
<1>6. \A x \in Socket : /\ Alive(sock'[x]) => Alive(sock[x]) /\ x # s
                        /\ sock'[x].member => sock[x].member
  BY <1>5 DEF Alive
<1>7. ~sock[s].dead => s = current
  BY DEF IInv, LiveIsCurrent, Alive
<1>8. Typed'
  <2>1. timer' \in BOOLEAN /\ purge' \in BOOLEAN
    <3>1. CASE UNCHANGED <<timer, purge>>
      BY <1>1, <3>1
    <3>2. CASE purge' = (purge \/ code = 4003) /\ timer' = (timer \/ code # 4003)
      BY <3>2
    <3> QED BY <1>4, <3>1, <3>2
  <2>2. cache' \in Token \cup {None} /\ current' \in Socket \cup {None}
    BY <1>4 DEF IInv, Typed
  <2>3. opening' \in {"none"} \cup Minting \cup Socket
    BY <1>3 DEF IInv, Typed, Over
  <2> QED BY <1>3, <1>5, <2>1, <2>2, <2>3 DEF IInv, Typed, world, histories
<1>9. BannedIsOut' /\ LiveIsCurrent'
  BY <1>3, <1>4, <1>6, <1>7 DEF IInv, BannedIsOut, LiveIsCurrent, world
<1>10. OpeningFits'
  BY <1>3, <1>4, <1>7, NotANoun DEF IInv, OpeningFits, histories, Over
<1>11. SomethingComes'
  <2>1. opening \in Minting => opening' = opening
    BY <1>3, NotANoun DEF Over
  <2>2. CASE timer' \/ purge'
    BY <2>2 DEF SomethingComes
  <2>3. CASE UNCHANGED <<current, timer, purge>>
    BY <1>3, <2>1, <2>3 DEF IInv, SomethingComes, histories
  <2>4. CASE purge' = (purge \/ code = 4003) /\ timer' = (timer \/ code # 4003)
    <3>1. CASE code = 4003
      BY <2>2, <2>4, <3>1
    <3>2. CASE code # 4003
      <4>1. timer' = (timer \/ code # 4003)
        BY <2>4
      <4>2. (timer \/ code # 4003) = TRUE
        BY <3>2, SMT
      <4>3. timer' = TRUE
        BY <4>1, <4>2, Zenon
      <4> QED BY <2>2, <4>3
    <3> QED BY <3>1, <3>2
  <2> QED BY <1>4, <2>3, <2>4
<1> QED BY <1>8, <1>9, <1>10, <1>11 DEF IInv

LEMMA NextIInv == ASSUME IInv, [Next]_vars PROVE IInv'
<1>1. ASSUME NEW s \in Socket, SocketStep(s) PROVE IInv'
  <2>1. CASE DialFails(s) \/ Closes(s) \/ LineFoundDead(s)
    <3>1. sock[s].ready # "none"
      BY <2>1 DEF DialFails, Closes, LineFoundDead
    <3>2. OnClose(s, 1006) \/ OnClose(s, sock[s].code)
      BY <2>1 DEF DialFails, Closes, LineFoundDead
    <3> QED BY <3>1, <3>2, CloseKeeps
  <2> QED BY <1>1, <2>1, HandshakeKeeps, ValidatedKeeps, OpensKeeps DEF SocketStep
<1>2. CASE UNCHANGED vars
  <2>1. UNCHANGED <<sock, browser, world, histories>>
    BY <1>2 DEF vars
  <2>2. Typed /\ BannedIsOut
    BY DEF IInv
  <2> QED BY <2>1, <2>2, MapsKept DEF Typed, BannedIsOut, world
<1>3. CASE TunnelStatePolled
  <2>1. UNCHANGED <<sock, browser, banned, ghost, histories>> /\ expired' \in BOOLEAN
    BY <1>3 DEF TunnelStatePolled
  <2>2. Typed /\ BannedIsOut
    BY DEF IInv
  <2> QED BY <2>1, <2>2, MapsKept DEF Typed, BannedIsOut
<1> QED BY <1>1, <1>2, <1>3, ConnectKeeps, TimerFiresKeeps, MintKeeps, TeardownKeeps, RefreshKeeps,
           WorldKeeps DEF Next

-----------------------------------------------------------------------------
LEMMA SpecIInv == Spec => []IInv
<1>1. IInv /\ [Next]_vars => IInv'
  BY NextIInv
<1> QED BY <1>1, InitIInv, PTL DEF Spec

\* One live socket per tab and server, whatever connects, timers and closes
\* cross (ws.ts: connect, openConnection, onclose).
THEOREM OneSocketLives == Spec => []OneLiveSocket
<1>1. IInv => OneLiveSocket
  BY DEF IInv, LiveIsCurrent, Alive, OneLiveSocket
<1> QED BY <1>1, SpecIInv, PTL

\* A banned user has no socket in the registry, whatever handshake was under
\* way (ws/server.ts: message; router.ts: disconnectUser).
THEOREM BannedStaysOut == Spec => []BannedIsOut
<1>1. IInv => BannedIsOut
  BY DEF IInv
<1> QED BY <1>1, SpecIInv, PTL

\* A tab that wants the server and has no socket has an open, a timer or a purge
\* under way, unless the last open ended at the gate for expired tunnels, found
\* no address or had been torn down when a connect() joined it (ws.ts:
\* scheduleReconnect, openInFlight, openConnectionInner).
THEOREM NothingIsEverForgotten == Spec => []NothingIsForgotten
<1>1. IInv => NothingIsForgotten
  BY NotANoun DEF IInv, SomethingComes, NothingIsForgotten
<1> QED BY <1>1, SpecIInv, PTL

=============================================================================
