----------------------------- MODULE ServerLink -----------------------------
(***************************************************************************)
(* The WebSocket between one browser tab and one server: the client that   *)
(* mints a token at Central, dials, authenticates, reconnects and purges,  *)
(* and the runtime's end that validates tokens, keeps the replay map and   *)
(* the registry of connections, and puts users out.                        *)
(*                                                                         *)
(*   website/lib/ws.ts, tokens.ts, server-purge.ts, stores/auth.ts         *)
(*   runtime/ws/server.ts, router.ts (connections), main.ts (deltas)       *)
(*                                                                         *)
(* One account, one server. A socket's name is used again when both ends   *)
(* have let it go, a token's when nobody holds it. The two ends notice a   *)
(* broken line at different times; frames of one direction stay in order.  *)
(* What is sent over an authenticated socket is in other modules.          *)
(***************************************************************************)
EXTENDS Integers

CONSTANTS
    Socket,         \* names of sockets
    Token,          \* names of server tokens (their JTI)
    None,           \* no socket, no token
    MaxTroubles     \* bound: failures, timeouts and orders of the runtime

ASSUME NoneAssumption == None \notin Socket \cup Token
ASSUME NamesAssumption ==
    Socket \cap Token = {} /\ {"none", "asked", "refused"} \cap (Socket \cup Token) = {}
ASSUME TroublesAssumption == MaxTroubles \in Nat

VARIABLES
    sock,       \* the sockets, both ends of each
    current,    \* connections.get(id): the socket of the entry
    opening,    \* openInFlight.get(id): what the open waits for
    cache,      \* the token cache's entry
    due,        \* that entry's refresh timer is set
    refresh,    \* a refreshToken in flight
    timer,      \* reconnectTimers.has(id)
    purge,      \* purgeServer(id) is about to run
    listed,     \* the server is in the local list
    signed,     \* an account is signed in
    stale,      \* the stored tunnel_url is not the server's
    expired,    \* the stored tunnel_state is "expired"
    used,       \* seenJtis
    old,        \* 1 for a token past its exp, else 0
    banned,     \* the runtime's ban table has the user
    ghost,      \* the registry has a connection whose socket is closed
    wanted,     \* history: connect() was called and nothing undid it
    forgotten,  \* history: the last open asked for ended with nothing left behind
    troubles    \* bound: counts them

browser == <<current, opening, cache, due, refresh, timer, purge, listed, signed>>
histories == <<wanted, forgotten>>
world == <<stale, expired, banned, ghost>>
vars == <<sock, browser, used, old, world, histories, troubles>>

Closed ==
    [ready |-> "none", dead |-> FALSE, authed |-> FALSE, opened |-> FALSE,
     token |-> None, line |-> FALSE, live |-> FALSE, handler |-> "none",
     member |-> FALSE, reply |-> FALSE, code |-> 0]

Init ==
    /\ sock = [s \in Socket |-> Closed]
    /\ current = None /\ opening = "none" /\ cache = None
    /\ due = FALSE /\ refresh = "none" /\ timer = FALSE /\ purge = FALSE
    /\ listed = TRUE /\ signed = TRUE /\ stale = TRUE /\ expired = FALSE
    /\ used = {} /\ old = [t \in Token |-> 0]
    /\ banned = FALSE /\ ghost = FALSE
    /\ wanted = FALSE /\ forgotten = FALSE /\ troubles = 0

Trouble == troubles < MaxTroubles /\ troubles' = troubles + 1

----------------------------------------------------------------------------
\* Names.

\* Neither end knows the socket any more.
Free(s) ==
    sock[s].ready = "none" /\ ~sock[s].live /\ sock[s].handler # "validating"

Held == {cache, opening, refresh} \cup {sock[s].token : s \in Socket}

\* What is kept about tokens: nothing about those nobody holds.
Tokens(seen, ages) ==
    /\ used' = seen \cap Held'
    /\ old' = [t \in Token |-> IF t \in Held' THEN ages[t] ELSE 0]

KeepTokens == Tokens(used, old)

\* The socket without what nobody will look at again.
Settled(r) ==
    LET busy == r.handler = "validating" \/ (r.live /\ r.handler = "waiting") IN
    [r EXCEPT !.handler = IF r.live \/ busy THEN @ ELSE "none",
              !.token = IF busy \/ r.ready = "connecting" THEN @ ELSE None,
              !.line = @ /\ (r.live \/ r.ready = "open"),
              !.reply = @ /\ r.line /\ r.ready = "open",
              !.code = IF r.dead \/ (~r.line /\ r.ready = "open") THEN 0 ELSE @,
              !.authed = @ /\ ~r.dead,
              !.opened = @ /\ ~r.dead]

SetSock(s, r) == sock' = [sock EXCEPT ![s] = Settled(r)]

----------------------------------------------------------------------------
\* Opening a connection.

\* The cached token as openConnectionInner sees it.
Usable == cache # None /\ old[cache] = 0

Dial(socks, token) ==
    /\ \E s \in Socket : Free(s)
    /\ LET s == CHOOSE s \in Socket : Free(s) IN
       /\ sock' = [socks EXCEPT ![s] =
                     [Closed EXCEPT !.ready = "connecting", !.token = token]]
       /\ current' = s /\ opening' = s
    /\ cache' = token /\ due' = TRUE

\* openConnection: one at a time, and none to an expired tunnel, which leaves
\* no timer either; the cached token, or a mint.
Open(socks) ==
    \/ /\ opening # "none" \/ expired
       /\ sock' = socks /\ current' = None
       /\ UNCHANGED <<opening, cache, due>>
    \/ opening = "none" /\ ~expired /\ Usable /\ Dial(socks, cache)
    \/ /\ opening = "none" /\ ~expired /\ ~Usable
       /\ opening' = "asked" /\ cache' = None /\ due' = FALSE
       /\ sock' = socks /\ current' = None

InUse == current # None /\ sock[current].ready \in {"connecting", "open"}

\* connect, and forceReconnect, which drops the timer too. A CLOSING entry is
\* torn down and takes its close event with it. (A call while the server is
\* wanted already counts as a trouble: that is a bound.)
Connect(force) ==
    /\ signed /\ listed
    /\ wanted' = TRUE
    /\ \/ ~wanted /\ UNCHANGED troubles
       \/ wanted /\ Trouble
    /\ timer' = (timer /\ ~force)
    /\ \/ /\ InUse
          /\ UNCHANGED <<sock, current, opening, cache, due, forgotten>>
       \/ /\ ~InUse
          /\ Open(IF current = None THEN sock
                                    ELSE [sock EXCEPT ![current] = Settled([@ EXCEPT !.dead = TRUE])])
          /\ forgotten' = IF opening = "none" THEN expired ELSE forgotten \/ opening \in Socket
    /\ UNCHANGED <<refresh, purge, listed, signed, world>>
    /\ KeepTokens

\* Mutant: the timer does not look whether there is a connection.
TimerFiresBlindly ==
    /\ timer /\ timer' = FALSE
    /\ Open(sock)
    /\ UNCHANGED <<refresh, purge, listed, signed, world, histories, troubles>>
    /\ KeepTokens

\* The timer of scheduleReconnect.
TimerFires ==
    /\ timer /\ timer' = FALSE
    /\ \/ /\ current # None
          /\ UNCHANGED <<sock, current, opening, cache, due, forgotten>>
       \/ /\ current = None /\ Open(sock)
          /\ forgotten' = IF opening = "none" THEN expired ELSE forgotten
    /\ UNCHANGED <<refresh, purge, listed, signed, world, wanted, troubles>>
    /\ KeepTokens

\* Central answers a mint, with the address it knows. Without a session, or when
\* the call fails, the client tries again later.
MintAnswered ==
    /\ opening = "asked"
    /\ \/ /\ signed
          /\ \E t \in Token : t \notin Held
          /\ opening' = CHOOSE t \in Token : t \notin Held
          /\ stale' = FALSE
          /\ UNCHANGED <<timer, troubles>>
       \/ /\ signed /\ banned /\ opening' = "refused"
          /\ UNCHANGED <<timer, stale, troubles>>
       \/ /\ ~signed /\ opening' = "none" /\ timer' = TRUE
          /\ UNCHANGED <<stale, troubles>>
       \/ /\ Trouble /\ opening' = "none" /\ timer' = TRUE
          /\ UNCHANGED stale
    /\ UNCHANGED <<sock, current, cache, due, refresh, purge, listed, signed>>
    /\ UNCHANGED <<expired, banned, ghost, histories>>
    /\ KeepTokens

\* The mint's token reaches the client, which dials whatever became of the
\* wish to connect.
MintArrives ==
    /\ opening \in Token
    /\ Dial(sock, opening)
    /\ UNCHANGED <<refresh, timer, purge, listed, signed, world, histories, troubles>>
    /\ KeepTokens

\* A server without an address: no dial and no timer. The client counts on a
\* store to call connect() again.
NoAddress ==
    /\ opening \in Token /\ Trouble
    /\ opening' = "none" /\ cache' = None /\ due' = FALSE
    /\ forgotten' = TRUE
    /\ UNCHANGED <<sock, current, refresh, timer, purge, listed, signed, world, wanted>>
    /\ KeepTokens

\* 403 or 404: a purge, and no further attempt.
MintRefused ==
    /\ opening = "refused" /\ opening' = "none" /\ purge' = TRUE
    /\ UNCHANGED <<sock, current, cache, due, refresh, timer, listed, signed, world, histories, troubles>>
    /\ KeepTokens

----------------------------------------------------------------------------
\* Teardown.

\* disconnect: what it does to the entry, if there is one. An open without a
\* socket yet goes on.
Disconnect ==
    IF current = None
      THEN UNCHANGED <<sock, current, cache, due>>
      ELSE /\ SetSock(current, [sock[current] EXCEPT !.dead = TRUE, !.ready = "closing"])
           /\ current' = None /\ cache' = None /\ due' = FALSE

\* purgeServer, a dynamic import after it was asked for.
Purge ==
    /\ purge /\ purge' = FALSE
    /\ timer' = FALSE /\ listed' = FALSE /\ wanted' = FALSE
    /\ Disconnect
    /\ UNCHANGED <<opening, refresh, signed, world, forgotten, troubles>>
    /\ KeepTokens

\* disconnectAll, which visits the servers that have an entry, and
\* clearAllTokens.
LeaveAll ==
    /\ timer' = (timer /\ current = None)
    /\ IF current = None
         THEN UNCHANGED sock
         ELSE SetSock(current, [sock[current] EXCEPT !.dead = TRUE, !.ready = "closing"])
    /\ current' = None /\ cache' = None /\ due' = FALSE
    /\ signed' = FALSE /\ wanted' = FALSE

Logout ==
    /\ signed /\ Trouble
    /\ LeaveAll
    /\ UNCHANGED <<opening, refresh, purge, listed, world, forgotten>>
    /\ KeepTokens

SignIn ==
    /\ ~signed /\ signed' = TRUE
    /\ UNCHANGED <<sock, current, opening, cache, due, refresh, timer, purge, listed>>
    /\ UNCHANGED <<used, old, world, histories, troubles>>

----------------------------------------------------------------------------
\* The token's refresh, a minute before it expires.

RefreshDue ==
    /\ due /\ refresh = "none" /\ due' = FALSE
    /\ refresh' = IF current = None THEN "none" ELSE "asked"
    /\ UNCHANGED <<sock, current, opening, cache, timer, purge, listed, signed>>
    /\ UNCHANGED <<used, old, world, histories, troubles>>

RefreshAnswered ==
    /\ refresh = "asked"
    /\ \/ /\ signed
          /\ \E t \in Token : t \notin Held
          /\ refresh' = CHOOSE t \in Token : t \notin Held
          /\ stale' = FALSE
          /\ UNCHANGED <<sock, current, cache, due, timer, signed, wanted, troubles>>
       \/ /\ signed /\ banned /\ refresh' = "refused"
          /\ UNCHANGED <<sock, current, cache, due, timer, signed, wanted, stale, troubles>>
       \/ \* 401: sessionExpired
          /\ ~signed /\ refresh' = "none"
          /\ LeaveAll
          /\ UNCHANGED <<stale, troubles>>
       \/ /\ Trouble /\ refresh' = "none"
          /\ UNCHANGED <<sock, current, cache, due, timer, signed, wanted, stale>>
    /\ UNCHANGED <<opening, purge, listed, expired, banned, ghost, forgotten>>
    /\ KeepTokens

\* storeToken, whether or not the connection is still there; or a purge.
RefreshArrives ==
    /\ refresh \in Token \cup {"refused"}
    /\ refresh' = "none"
    /\ IF refresh = "refused"
         THEN purge' = TRUE /\ UNCHANGED <<cache, due>>
         ELSE cache' = refresh /\ due' = TRUE /\ UNCHANGED purge
    /\ UNCHANGED <<sock, current, opening, timer, listed, signed, world, histories, troubles>>
    /\ KeepTokens

----------------------------------------------------------------------------
\* The handshake.

\* The open is over when the socket is.
Over(s) == IF opening = s THEN "none" ELSE opening

\* The dial succeeds; onopen sends the auth frame at once.
Opens(s) ==
    /\ sock[s].ready = "connecting" /\ ~stale
    /\ SetSock(s, [sock[s] EXCEPT !.ready = "open", !.opened = TRUE, !.line = TRUE,
                                  !.live = TRUE, !.handler = "waiting"])
    /\ opening' = Over(s)
    /\ UNCHANGED <<current, cache, due, refresh, timer, purge, listed, signed>>
    /\ UNCHANGED <<world, histories, troubles>>
    /\ KeepTokens

AuthArrives(s) ==
    /\ sock[s].live /\ sock[s].line /\ sock[s].handler = "waiting"
    /\ SetSock(s, [sock[s] EXCEPT !.handler = "validating"])
    /\ UNCHANGED <<browser, used, old, world, histories, troubles>>

\* The auth timer, or a refusal on the way to the handler's verdict.
AuthTimeout(s) ==
    /\ sock[s].live /\ sock[s].handler \in {"waiting", "validating"}
    /\ Trouble
    /\ SetSock(s, [sock[s] EXCEPT !.live = FALSE, !.code = 4001])
    /\ UNCHANGED <<browser, world, histories>>
    /\ KeepTokens

\* ws.close(code) and ws.send() reach only a socket that is open.
Refuse(s, code) ==
    SetSock(s, IF sock[s].live
                 THEN [sock[s] EXCEPT !.handler = "done", !.live = FALSE, !.code = code]
                 ELSE [sock[s] EXCEPT !.handler = "done"])

\* pruneSeenJtis
Seen == {t \in used : old[t] = 0}

\* registerConnection, and the answer. Nothing looks at whether the socket was
\* closed during the await.
Admit(s) ==
    /\ SetSock(s, [sock[s] EXCEPT !.handler = "done", !.member = sock[s].live,
                                  !.reply = sock[s].live])
    /\ ghost' = (ghost \/ ~sock[s].live)
    /\ UNCHANGED <<stale, expired, banned>>

\* After the await: signature and expiry, then the replay map, then the ban
\* table. A lookup that throws refuses the user.
ValidatedWith(s, failOpen) ==
    LET token == sock[s].token
        fresh == old[token] = 0 /\ token \notin Seen
    IN
    /\ sock[s].handler = "validating"
    /\ \/ \* UNKNOWN_KEY, SERVER_NOT_READY
          /\ Trouble /\ Refuse(s, 4004) /\ UNCHANGED world
          /\ UNCHANGED <<browser, histories>> /\ KeepTokens
       \/ /\ old[token] = 1 /\ Refuse(s, 4003) /\ UNCHANGED world
          /\ UNCHANGED <<browser, histories, troubles>> /\ KeepTokens
       \/ /\ token \in Seen /\ Refuse(s, 4001) /\ UNCHANGED world
          /\ UNCHANGED <<browser, histories, troubles>> /\ Tokens(Seen, old)
       \/ \* banChecker threw
          /\ fresh /\ Trouble
          /\ IF failOpen THEN Admit(s) ELSE Refuse(s, 4003) /\ UNCHANGED world
          /\ UNCHANGED <<browser, histories>> /\ Tokens(Seen \cup {token}, old)
       \/ /\ fresh /\ banned /\ Refuse(s, 4003) /\ UNCHANGED world
          /\ UNCHANGED <<browser, histories, troubles>> /\ Tokens(Seen \cup {token}, old)
       \/ /\ fresh /\ ~banned /\ Admit(s)
          /\ UNCHANGED <<browser, histories, troubles>> /\ Tokens(Seen \cup {token}, old)

\* Mutant: who cannot be looked up is let in.
ValidatedFailOpen(s) == ValidatedWith(s, TRUE)

Validated(s) == ValidatedWith(s, FALSE)

\* auth.result, ok.
AuthResult(s) ==
    /\ sock[s].reply /\ sock[s].line /\ sock[s].ready = "open"
    /\ SetSock(s, [sock[s] EXCEPT !.reply = FALSE, !.authed = TRUE])
    /\ UNCHANGED <<browser, used, old, world, histories, troubles>>

----------------------------------------------------------------------------
\* Closing.

\* The server's close frame, behind what it sent before.
CloseFrame(s) ==
    /\ sock[s].ready = "open" /\ sock[s].line
    /\ sock[s].code # 0 /\ ~sock[s].reply
    /\ SetSock(s, [sock[s] EXCEPT !.ready = "closing"])
    /\ UNCHANGED <<browser, used, old, world, histories, troubles>>

\* onclose. A torn-down socket only tells the subscribers.
CloseWith(s, code, open, again) ==
    LET r == sock[s]
        drop == r.authed \/ ~r.opened \/ code = 4004
    IN
    /\ SetSock(s, [r EXCEPT !.ready = "none", !.dead = FALSE, !.authed = FALSE,
                            !.opened = FALSE, !.line = FALSE, !.reply = FALSE,
                            !.code = 0])
    /\ opening' = open
    /\ IF r.dead
         THEN UNCHANGED <<current, cache, due, timer, purge>>
         ELSE /\ current' = None
              /\ cache' = IF drop THEN None ELSE cache
              /\ due' = (due /\ ~drop)
              /\ purge' = (purge \/ code = 4003)
              /\ timer' = (timer \/ again)
    /\ UNCHANGED <<refresh, listed, signed, world, histories>>
    /\ KeepTokens

\* Mutant: a close with 4001 is taken for an answer that needs no reconnect.
OnCloseFinal(s, code) == CloseWith(s, code, Over(s), code \notin {4001, 4003})

\* Mutant: the open in flight is settled by the open event only.
OnCloseInFlight(s, code) == CloseWith(s, code, opening, code # 4003)

OnClose(s, code) == CloseWith(s, code, Over(s), code # 4003)

\* The close event: of a dial that failed, of a closing handshake that is
\* over, or of a line found broken.
DialFails(s) ==
    /\ sock[s].ready = "connecting"
    /\ \/ stale /\ UNCHANGED troubles
       \/ Trouble
    /\ OnClose(s, 1006)

Closes(s) ==
    /\ sock[s].ready = "closing"
    /\ OnClose(s, sock[s].code)
    /\ UNCHANGED troubles

LineFoundDead(s) ==
    /\ sock[s].ready = "open" /\ ~sock[s].line
    /\ OnClose(s, 1006)
    /\ UNCHANGED troubles

\* The runtime's close callback, for a socket the client closed or whose line
\* is dead: removeConnection.
PeerCloses(s) ==
    /\ sock[s].live
    /\ ~sock[s].line \/ sock[s].ready = "closing"
    /\ SetSock(s, [sock[s] EXCEPT !.live = FALSE, !.member = FALSE])
    /\ UNCHANGED <<browser, world, histories, troubles>>
    /\ KeepTokens

----------------------------------------------------------------------------
\* What the runtime and the world do to the sockets.

\* disconnectUser, disconnectAllUsers, disconnectFormerOwner: the registered
\* sockets are closed and leave the registry.
PutOut(code) ==
    /\ sock' = [s \in Socket |->
                  IF sock[s].member
                    THEN Settled([sock[s] EXCEPT !.live = FALSE, !.member = FALSE,
                                                 !.code = code])
                    ELSE sock[s]]
    /\ ghost' = FALSE

\* The delta user.banned, or a ban by a moderator.
Ban ==
    /\ ~banned /\ Trouble
    /\ banned' = TRUE
    /\ PutOut(4003)
    /\ UNCHANGED <<browser, stale, expired, histories>>
    /\ KeepTokens

\* moderation.user.kicked and ownership.transferred close with 4003, a full
\* snapshot with 4001.
Order ==
    /\ Trouble
    /\ \E code \in {4001, 4003} : PutOut(code)
    /\ UNCHANGED <<browser, stale, expired, banned, histories>>
    /\ KeepTokens

Breaks(s) ==
    /\ sock[s].line /\ Trouble
    /\ SetSock(s, [sock[s] EXCEPT !.line = FALSE])
    /\ UNCHANGED <<browser, used, old, world, histories>>

\* The quick tunnel comes back under another address.
TunnelMoves ==
    /\ Trouble
    /\ stale' = TRUE
    /\ sock' = [s \in Socket |-> Settled([sock[s] EXCEPT !.line = FALSE])]
    /\ UNCHANGED <<browser, used, old, expired, banned, ghost, histories>>

\* The list poll brings another tunnel_state: a demo tunnel is killed after a
\* day, and comes back when its desktop app is restarted.
TunnelStatePolled ==
    /\ expired' = ~expired
    /\ \/ expired /\ UNCHANGED troubles
       \/ ~expired /\ Trouble
    /\ UNCHANGED <<sock, browser, used, old, stale, banned, ghost, histories>>

\* The runtime's process starts anew, with empty maps.
Restarts ==
    /\ Trouble
    /\ sock' = [s \in Socket |->
                  Settled([sock[s] EXCEPT !.line = FALSE, !.live = FALSE,
                                          !.member = FALSE, !.handler = "none"])]
    /\ ghost' = FALSE
    /\ UNCHANGED <<browser, stale, expired, banned, histories>>
    /\ Tokens({}, old)

Ages(t) ==
    /\ t = cache /\ old[t] = 0
    /\ UNCHANGED <<sock, browser, world, histories, troubles>>
    /\ Tokens(used, [old EXCEPT ![t] = @ + 1])

SocketStep(s) ==
    \/ Opens(s) \/ AuthArrives(s) \/ AuthTimeout(s) \/ Validated(s) \/ AuthResult(s)
    \/ CloseFrame(s) \/ DialFails(s) \/ Closes(s) \/ LineFoundDead(s)
    \/ PeerCloses(s) \/ Breaks(s)

Next ==
    \/ \E force \in BOOLEAN : Connect(force)
    \/ TimerFires \/ MintAnswered \/ MintArrives \/ NoAddress \/ MintRefused
    \/ Purge \/ Logout \/ SignIn
    \/ RefreshDue \/ RefreshAnswered \/ RefreshArrives
    \/ \E s \in Socket : SocketStep(s)
    \/ Ban \/ Order \/ TunnelMoves \/ TunnelStatePolled \/ Restarts
    \/ \E t \in Token : Ages(t)

\* Timers fire, calls are answered, dials end, handlers run, both ends notice
\* in time that a line is dead (the runtime's pings every minute), tokens age.
Fairness ==
    /\ WF_vars(TimerFires) /\ WF_vars(MintAnswered) /\ WF_vars(MintArrives)
    /\ WF_vars(MintRefused) /\ WF_vars(Purge)
    /\ \A s \in Socket :
         /\ WF_vars(Opens(s) \/ DialFails(s)) /\ WF_vars(AuthArrives(s))
         /\ WF_vars(Validated(s)) /\ WF_vars(AuthResult(s))
         /\ WF_vars(CloseFrame(s)) /\ WF_vars(Closes(s))
         /\ WF_vars(LineFoundDead(s)) /\ WF_vars(PeerCloses(s))
    /\ \A t \in Token : WF_vars(Ages(t))

Spec == Init /\ [][Next]_vars /\ Fairness

----------------------------------------------------------------------------
\* Properties.

\* The values of the variables.
TypeOK ==
    /\ sock \in [Socket -> [ready : {"none", "connecting", "open", "closing"},
                            dead : BOOLEAN, authed : BOOLEAN, opened : BOOLEAN,
                            token : Token \cup {None}, line : BOOLEAN, live : BOOLEAN,
                            handler : {"none", "waiting", "validating", "done"},
                            member : BOOLEAN, reply : BOOLEAN,
                            code : {0, 4001, 4003, 4004}]]
    /\ current \in Socket \cup {None}
    /\ opening \in {"none", "asked", "refused"} \cup Token \cup Socket
    /\ cache \in Token \cup {None} /\ due \in BOOLEAN
    /\ refresh \in {"none", "asked", "refused"} \cup Token
    /\ timer \in BOOLEAN /\ purge \in BOOLEAN /\ listed \in BOOLEAN /\ signed \in BOOLEAN
    /\ used \subseteq Token /\ old \in [Token -> 0..1]
    /\ banned \in BOOLEAN /\ ghost \in BOOLEAN /\ stale \in BOOLEAN /\ expired \in BOOLEAN
    /\ wanted \in BOOLEAN /\ forgotten \in BOOLEAN /\ troubles \in 0..MaxTroubles

\* However connects, timers, refreshes, logouts and closes race, the tab has one
\* live socket to the server, the one its map knows: no open makes a second.
OneLiveSocket ==
    \A s \in Socket :
        sock[s].ready \in {"connecting", "open"} /\ ~sock[s].dead => s = current

\* From the ban on, the registry has no socket of the user, whatever handshake
\* was waiting for its token's validation when the ban came.
BannedIsOut == banned => ~ghost /\ \A s \in Socket : ~sock[s].member

\* A tab that wants the server and has no socket has something under way that
\* will end in one or in a purge. The code has three exceptions: an open that
\* ended at the gate for expired tunnels or found no address, and a connect()
\* that joined an open already torn down; they last until the next open.
NothingIsForgotten ==
    wanted /\ current = None /\ ~forgotten => opening # "none" \/ timer \/ purge

Up == current # None /\ sock[current].authed

\* Through broken lines, restarts, moved tunnels and refused tokens, a tab that
\* wants the server ends up authenticated, with the server purged, or at one of
\* the same three exceptions.
LinkSettles == wanted ~> Up \/ ~wanted \/ forgotten

\* Not kept by the code: see the README.

\* The registry has only sockets that are open.
RegistryIsLive == ~ghost

\* Who is signed out has no socket that is not being torn down.
SignedOutIsClosed ==
    ~signed => \A s \in Socket : sock[s].ready \in {"connecting", "open"} => sock[s].dead

\* The client never sends a token that the runtime has recorded.
SpentIsNotSent ==
    \A s \in Socket : sock[s].handler = "waiting" /\ sock[s].live => sock[s].token \notin Seen
=============================================================================
