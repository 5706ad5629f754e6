------------------------- MODULE CentralMembership -------------------------
(***************************************************************************)
(* Servers, their members, invitations, join requests and ownership        *)
(* transfers in Central's database (apps/central/src/routes/servers.ts,    *)
(* members.ts and server-transfer.ts).                                     *)
(*                                                                         *)
(* A handler first reads and checks, then writes in one statement or one   *)
(* transaction. The two are separate steps here: what was checked may have *)
(* changed when the write comes. A transaction is one step, the locks it   *)
(* takes (the account row FOR UPDATE, the rows it writes) make it so.      *)
(***************************************************************************)
EXTENDS Naturals, FiniteSets

CONSTANTS
    Account, Server,
    Nobody,          \* the owner of a server that does not exist
    Handler,         \* requests Central works on at the same time
    MaxOwned,        \* MAX_OWNED_SERVERS
    MaxJoined,       \* MAX_JOINED_SERVERS
    MaxPending,      \* MAX_ACTIVE_INVITES_PER_SERVER
    Invites, Requests, Transfers   \* row ids: bounds of the model

ASSUME CentralAssumption ==
    /\ Nobody \notin Account
    /\ IsFiniteSet(Server)
    /\ MaxOwned \in Nat /\ MaxJoined \in Nat /\ MaxPending \in Nat

VARIABLES
    servers,      \* rows: phase ("none" if there is no row, "live", "deleting")
                  \* and owner
    members,      \* rows by server and account; a "banned" row has role member
    invitations,  \* rows: server, account, status
    requests,     \* server_join_requests
    transfers,    \* server_transfers; ok is the set of sides that confirmed
    handling      \* what each handler has checked and is about to write

vars == <<servers, members, invitations, requests, transfers, handling>>

NoServer == [phase |-> "none", owner |-> Nobody]

NoRow == [status |-> "none"]

\* An invitation or a request that is accepted, declined, revoked, expired or
\* deleted with its server: nothing looks at what it says.
Settled == [status |-> "settled"]
Idle == [op |-> "none"]

Init ==
    /\ servers = [s \in Server |-> NoServer]
    /\ members = [s \in Server |-> [a \in Account |-> "none"]]
    /\ invitations = [i \in Invites |-> NoRow]
    /\ requests = [q \in Requests |-> NoRow]
    /\ transfers = [t \in Transfers |-> NoRow]
    /\ handling = [h \in Handler |-> Idle]

-----------------------------------------------------------------------------
Exists(s) == servers[s].phase \in {"live", "deleting"}
Live(s) == servers[s].phase = "live"

\* requireOwnedServer()
Owns(a, s) == Live(s) /\ servers[s].owner = a

Owned(a) == Cardinality({s \in Server : Exists(s) /\ servers[s].owner = a})
Joined(a) == Cardinality({s \in Server : members[s][a] = "member"})

Pending(rows, s, a) ==
    {i \in DOMAIN rows : rows[i].status = "pending" /\ rows[i].server = s
                         /\ rows[i].account = a}

PendingTransfer(s) ==
    {t \in Transfers : transfers[t].status = "pending" /\ transfers[t].server = s}

PendingOf(rows, s) == UNION {Pending(rows, s, a) : a \in Account}

\* UPDATE ... SET status, of some of the pending rows.
Settle(rows, ids) ==
    [i \in DOMAIN rows |-> IF i \in ids THEN Settled ELSE rows[i]]

\* A transfer with is_pending = false: it only matters to the confirmations
\* that have already read it.
Closed(t, row, handlers) ==
    IF \E h \in handlers : handling[h].op = "confirm" /\ handling[h].id = t
    THEN [row EXCEPT !.status = "settled"] ELSE Settled

\* The ids of a new row. An insert that finds none fails, as one that violates
\* a constraint of the schema does.
FreshIds(rows) == {i \in DOMAIN rows : rows[i] = NoRow}

HasRow(rows, i) == rows[i] \notin {NoRow, Settled}

FreshServer(s) ==
    /\ servers[s] = NoServer
    /\ \A h \in Handler :
          "server" \in DOMAIN handling[h] => handling[h].server # s

Checked(h, call) ==
    /\ handling[h] = Idle
    /\ handling' = [handling EXCEPT ![h] = call]

Handled(h) == handling' = [handling EXCEPT ![h] = Idle]
Handles(h, op) == handling[h].op = op

\* ON DELETE CASCADE
Cascade(s) ==
    /\ servers' = [servers EXCEPT ![s] = NoServer]
    /\ members' = [members EXCEPT ![s] = [a \in Account |-> "none"]]
    /\ invitations' = Settle(invitations, PendingOf(invitations, s))
    /\ requests' = Settle(requests, PendingOf(requests, s))
    /\ transfers' = [t \in Transfers |->
          IF HasRow(transfers, t) /\ transfers[t].server = s
          THEN Settled ELSE transfers[t]]
    /\ UNCHANGED handling

-----------------------------------------------------------------------------
(* Servers                                                                 *)

\* Variant of CreateServer: servers that are being deleted do not count.
CreateServerAgain(a, s) ==
    /\ FreshServer(s)
    /\ Cardinality({x \in Server : Owns(a, x)}) < MaxOwned
    /\ servers' = [servers EXCEPT ![s] = [phase |-> "live", owner |-> a]]
    /\ members' = [members EXCEPT ![s][a] = "owner"]
    /\ UNCHANGED <<invitations, requests, transfers, handling>>

CreateServer(a, s) ==
    /\ FreshServer(s)
    /\ Owned(a) < MaxOwned
    /\ servers' = [servers EXCEPT ![s] = [phase |-> "live", owner |-> a]]
    /\ members' = [members EXCEPT ![s][a] = "owner"]
    /\ UNCHANGED <<invitations, requests, transfers, handling>>

CheckDelete(h, a, s) ==
    /\ Owns(a, s)
    /\ Checked(h, [op |-> "delete", server |-> s])
    /\ UNCHANGED <<servers, members, invitations, requests, transfers>>

\* Every row of the server that says role = 'member' goes, bans included.
DeleteServer(h) ==
    /\ Handles(h, "delete") /\ Handled(h)
    /\ LET s == handling[h].server
       IN  /\ servers' = IF Live(s) THEN [servers EXCEPT ![s].phase = "deleting"]
                         ELSE servers
           /\ members' = [members EXCEPT ![s] = [a \in Account |->
                  IF members[s][a] = "owner" THEN "owner" ELSE "none"]]
           /\ invitations' = Settle(invitations, PendingOf(invitations, s))
           /\ requests' = Settle(requests, PendingOf(requests, s))
    /\ UNCHANGED transfers

\* handlePurgeConfirm() by the owner, or sweepAbandonedDeletes() after a week.
Purge(s) == servers[s].phase = "deleting" /\ Cascade(s)

-----------------------------------------------------------------------------
(* Invitations                                                             *)

CheckInvite(h, a, s, b) ==
    /\ Owns(a, s) /\ b # a /\ members[s][b] = "none"
    /\ Cardinality(PendingOf(invitations, s)) < MaxPending
    /\ Checked(h, [op |-> "invite", server |-> s, account |-> b])
    /\ UNCHANGED <<servers, members, invitations, requests, transfers>>

\* The unique index refuses a second pending row, the foreign key a server
\* that is gone.
CreateInvite(h) ==
    /\ Handles(h, "invite") /\ Handled(h)
    /\ LET s == handling[h].server  b == handling[h].account
       IN  IF Exists(s) /\ Pending(invitations, s, b) = {} /\ FreshIds(invitations) # {}
           THEN \E i \in FreshIds(invitations) :
                   invitations' = [invitations EXCEPT ![i] =
                         [server |-> s, account |-> b, status |-> "pending"]]
           ELSE UNCHANGED invitations
    /\ UNCHANGED <<servers, members, requests, transfers>>

CheckRevoke(h, a, i) ==
    /\ HasRow(invitations, i) /\ Owns(a, invitations[i].server)
    /\ Checked(h, [op |-> "revoke", id |-> i])
    /\ UNCHANGED <<servers, members, invitations, requests, transfers>>

RevokeInvite(h) ==
    /\ Handles(h, "revoke") /\ Handled(h)
    /\ LET i == handling[h].id
       IN  invitations' = IF invitations[i].status = "pending"
                          THEN [invitations EXCEPT ![i] = Settled]
                          ELSE invitations
    /\ UNCHANGED <<servers, members, requests, transfers>>

\* Declining, or the end of expires_at: the sweep, the next invite of the pair
\* and an accept mark the invitation before anything else comes of it.
EndInvite(i) ==
    /\ invitations[i].status = "pending"
    /\ invitations' = [invitations EXCEPT ![i] = Settled]
    /\ UNCHANGED <<servers, members, requests, transfers, handling>>

CheckAccept(h, i) ==
    /\ invitations[i].status = "pending"
    /\ Checked(h, [op |-> "accept", id |-> i, server |-> invitations[i].server,
                   account |-> invitations[i].account])
    /\ UNCHANGED <<servers, members, invitations, requests, transfers>>

\* Variants of MayJoin: the server is not looked at; the quota was looked at
\* before the transaction.
MayJoinGone(s, a) == members[s][a] # "banned" /\ Joined(a) < MaxJoined
MayJoinUncounted(s, a) == Exists(s) /\ members[s][a] # "banned"

\* The transaction of both accepts, under the lock of the account.
MayJoin(s, a) ==
    Exists(s) /\ members[s][a] # "banned" /\ Joined(a) < MaxJoined

\* INSERT ... ON CONFLICT DO NOTHING
WithMember(s, a) ==
    [members EXCEPT ![s][a] = IF members[s][a] = "none" THEN "member"
                              ELSE members[s][a]]

AcceptInvite(h) ==
    /\ Handles(h, "accept") /\ Handled(h)
    /\ LET c == handling[h]
       IN  IF MayJoin(c.server, c.account)
           THEN /\ members' = WithMember(c.server, c.account)
                /\ invitations' = [invitations EXCEPT ![c.id] = Settled]
           ELSE UNCHANGED <<members, invitations>>
    /\ UNCHANGED <<servers, requests, transfers>>

-----------------------------------------------------------------------------
(* Join requests. A private server refuses them; whether one is made is    *)
(* the environment's choice.                                               *)

CheckRequest(h, a, s) ==
    /\ Live(s) /\ members[s][a] = "none" /\ servers[s].owner # a
    /\ Checked(h, [op |-> "request", server |-> s, account |-> a])
    /\ UNCHANGED <<servers, members, invitations, requests, transfers>>

CreateRequest(h) ==
    /\ Handles(h, "request") /\ Handled(h)
    /\ LET s == handling[h].server  a == handling[h].account
       IN  IF Exists(s) /\ Pending(requests, s, a) = {} /\ FreshIds(requests) # {}
           THEN \E q \in FreshIds(requests) :
                   requests' = [requests EXCEPT ![q] =
                         [server |-> s, account |-> a, status |-> "pending"]]
           ELSE UNCHANGED requests
    /\ UNCHANGED <<servers, members, invitations, transfers>>

\* The owner answers a request; only an accept looks at its status first.
CheckAnswer(h, a, q, op) ==
    /\ HasRow(requests, q) /\ Owns(a, requests[q].server)
    /\ op = "acceptRequest" => requests[q].status = "pending"
    /\ Checked(h, [op |-> op, id |-> q, server |-> requests[q].server,
                   account |-> requests[q].account])
    /\ UNCHANGED <<servers, members, invitations, requests, transfers>>

AcceptRequest(h) ==
    /\ Handles(h, "acceptRequest") /\ Handled(h)
    /\ LET c == handling[h]
       IN  IF MayJoin(c.server, c.account)
           THEN /\ members' = WithMember(c.server, c.account)
                /\ requests' = [requests EXCEPT ![c.id] = Settled]
           ELSE UNCHANGED <<members, requests>>
    /\ UNCHANGED <<servers, invitations, transfers>>

DeclineRequest(h) ==
    /\ Handles(h, "declineRequest") /\ Handled(h)
    /\ LET q == handling[h].id
       IN  requests' = IF requests[q].status = "pending"
                       THEN [requests EXCEPT ![q] = Settled]
                       ELSE requests
    /\ UNCHANGED <<servers, members, invitations, transfers>>

-----------------------------------------------------------------------------
(* Members                                                                 *)

\* kick, ban and unban by the owner.
CheckMember(h, a, s, b, op) ==
    /\ Owns(a, s) /\ (op # "unban" => b # a)
    /\ Checked(h, [op |-> op, server |-> s, account |-> b])
    /\ UNCHANGED <<servers, members, invitations, requests, transfers>>

\* leave, by the member.
CheckLeave(h, a, s) ==
    /\ members[s][a] = "member"
    /\ Checked(h, [op |-> "leave", server |-> s, account |-> a])
    /\ UNCHANGED <<servers, members, invitations, requests, transfers>>

\* Variant of Deletes: leave deletes whatever row is there.
DeletesAnyRow(op, row) ==
    \/ op = "kick" /\ row = "member"
    \/ op = "unban" /\ row = "banned"
    \/ op = "leave"

\* Each deletes the row if it is of the right kind; leave only looks at status.
Deletes(op, row) ==
    \/ op = "kick" /\ row = "member"
    \/ op = "unban" /\ row = "banned"
    \/ op = "leave" /\ row \in {"member", "owner"}

DeleteMember(h) ==
    /\ handling[h].op \in {"kick", "unban", "leave"} /\ Handled(h)
    /\ LET c == handling[h]
       IN  members' = IF Deletes(c.op, members[c.server][c.account])
                      THEN [members EXCEPT ![c.server][c.account] = "none"]
                      ELSE members
    /\ UNCHANGED <<servers, invitations, requests, transfers>>

BanMember(h) ==
    /\ Handles(h, "ban") /\ Handled(h)
    /\ LET s == handling[h].server  b == handling[h].account
       IN  IF Exists(s)
           THEN /\ members' = [members EXCEPT ![s][b] = "banned"]
                /\ invitations' = Settle(invitations, Pending(invitations, s, b))
                /\ requests' = Settle(requests, Pending(requests, s, b))
           ELSE UNCHANGED <<members, invitations, requests>>
    /\ UNCHANGED <<servers, transfers>>

-----------------------------------------------------------------------------
(* Transfers                                                               *)

CheckTransfer(h, a, s, b) ==
    /\ Owns(a, s) /\ b # a
    /\ PendingTransfer(s) = {}
    /\ Checked(h, [op |-> "transfer", server |-> s, from |-> a, to |-> b])
    /\ UNCHANGED <<servers, members, invitations, requests, transfers>>

TransferServer(h) ==
    /\ Handles(h, "transfer") /\ Handled(h)
    /\ LET c == handling[h]
       IN  IF /\ Exists(c.server) /\ PendingTransfer(c.server) = {}
              /\ FreshIds(transfers) # {}
           THEN \E t \in FreshIds(transfers) :
                   transfers' = [transfers EXCEPT ![t] =
                         [server |-> c.server, from |-> c.from, to |-> c.to,
                          ok |-> {}, status |-> "pending"]]
           ELSE UNCHANGED transfers
    /\ UNCHANGED <<servers, members, invitations, requests>>

CheckConfirm(h, t, side) ==
    /\ transfers[t].status = "pending"
    /\ Checked(h, [op |-> "confirm", id |-> t, side |-> side])
    /\ UNCHANGED <<servers, members, invitations, requests, transfers>>

\* Variant of Moves: a deletion in between is not noticed.
MovesDeleted(row) == Exists(row.server) /\ servers[row.server].owner = row.from

\* UPDATE servers SET owner_id WHERE it is still the one who offered.
Moves(row) == Owns(row.from, row.server)

Confirmed(ok) == ok = {"from", "to"}

\* Variant of Handover: the old owner keeps the role.
HandoverKeeping(row) == [members EXCEPT ![row.server][row.to] = "owner"]

\* The recipient's row is upserted, the old owner's loses its role only.
Handover(row) ==
    [members EXCEPT ![row.server] = [a \in Account |->
        CASE a = row.to -> "owner"
          [] a = row.from /\ a # row.to /\ members[row.server][a] = "owner" -> "member"
          [] OTHER -> members[row.server][a]]]

\* The second confirmation moves the server and settles the transfer; a row
\* that was cascaded away fails the transaction.
ConfirmTransfer(h) ==
    /\ Handles(h, "confirm") /\ Handled(h)
    /\ LET t == handling[h].id
           row == transfers[t]
           ok == row.ok \cup {handling[h].side}    \* COALESCE(..., now())
       IN  IF ~HasRow(transfers, t)
           THEN UNCHANGED <<servers, members, transfers>>
           ELSE /\ transfers' = [transfers EXCEPT ![t] =
                      IF Confirmed(ok) \/ row.status = "settled"
                      THEN Closed(t, [row EXCEPT !.ok = ok], Handler \ {h})
                      ELSE [row EXCEPT !.ok = ok]]
                /\ IF Confirmed(ok) /\ Moves(row)
                   THEN /\ servers' = [servers EXCEPT ![row.server].owner = row.to]
                        /\ members' = Handover(row)
                   ELSE UNCHANGED <<servers, members>>
    /\ UNCHANGED <<invitations, requests>>

\* Declining, or the end of expires_at: then confirm refuses the transfer, and
\* the next initiate or the sweep clears is_pending before anything reads it.
EndTransfer(t) ==
    /\ transfers[t].status = "pending"
    /\ transfers' = [transfers EXCEPT ![t] = Closed(t, @, Handler)]
    /\ UNCHANGED <<servers, members, invitations, requests, handling>>

-----------------------------------------------------------------------------
Check(h) ==
    \/ \E a \in Account, s \in Server :
          \/ CheckDelete(h, a, s) \/ CheckRequest(h, a, s) \/ CheckLeave(h, a, s)
          \/ \E b \in Account :
                \/ CheckInvite(h, a, s, b) \/ CheckTransfer(h, a, s, b)
                \/ \E op \in {"kick", "ban", "unban"} : CheckMember(h, a, s, b, op)
    \/ \E a \in Account :
          \/ \E i \in Invites : CheckRevoke(h, a, i)
          \/ \E q \in Requests, op \in {"acceptRequest", "declineRequest"} :
                CheckAnswer(h, a, q, op)
    \/ \E i \in Invites : CheckAccept(h, i)
    \/ \E t \in Transfers, side \in {"from", "to"} : CheckConfirm(h, t, side)

Write(h) ==
    \/ DeleteServer(h)
    \/ CreateInvite(h) \/ RevokeInvite(h) \/ AcceptInvite(h)
    \/ CreateRequest(h) \/ AcceptRequest(h) \/ DeclineRequest(h)
    \/ DeleteMember(h) \/ BanMember(h)
    \/ TransferServer(h) \/ ConfirmTransfer(h)

Next ==
    \/ \E a \in Account, s \in Server : CreateServer(a, s)
    \/ \E s \in Server : Purge(s)
    \/ \E h \in Handler : Check(h) \/ Write(h)
    \/ \E i \in Invites : EndInvite(i)
    \/ \E t \in Transfers : EndTransfer(t)

Spec == Init /\ [][Next]_vars

-----------------------------------------------------------------------------
(* Properties                                                              *)

Rows(fields) == {NoRow, Settled} \cup fields

Call ==
    {Idle}
    \cup [op : {"delete"}, server : Server]
    \cup [op : {"invite", "request", "kick", "ban", "unban", "leave"},
          server : Server, account : Account]
    \cup [op : {"revoke"}, id : Invites]
    \cup [op : {"accept"}, id : Invites, server : Server, account : Account]
    \cup [op : {"acceptRequest", "declineRequest"}, id : Requests,
          server : Server, account : Account]
    \cup [op : {"transfer"}, server : Server, from : Account, to : Account]
    \cup [op : {"confirm"}, id : Transfers, side : {"from", "to"}]

\* The variables keep their types; a server has an owner as long as its row
\* exists, and no member, pending invitation or request outlives it, whatever
\* was under way when it was purged (the foreign keys of schema.sql).
TypeOK ==
    /\ servers \in [Server -> [phase : {"none", "live", "deleting"},
                              owner : Account \cup {Nobody}]]
    /\ \A s \in Server : Exists(s) <=> servers[s].owner # Nobody
    /\ members \in [Server -> [Account -> {"none", "member", "owner", "banned"}]]
    /\ invitations \in [Invites -> Rows([server : Server, account : Account,
           status : {"pending"}])]
    /\ requests \in [Requests -> Rows([server : Server, account : Account,
           status : {"pending"}])]
    /\ transfers \in [Transfers -> Rows([server : Server, from : Account,
           to : Account, ok : SUBSET {"from", "to"},
           status : {"pending", "settled"}])]
    /\ handling \in [Handler -> Call]
    /\ \A s \in Server, a \in Account : ~Exists(s) =>
          /\ members[s][a] = "none"
          /\ Pending(invitations, s, a) = {} /\ Pending(requests, s, a) = {}

\* A member row says "owner" for the owner of the server only: no account
\* keeps the role after a transfer, however transfers, bans, departures and
\* deletions interleave (server-transfer.ts keeps server_members in step).
OwnerRowIsOwner ==
    \A s \in Server, a \in Account :
        members[s][a] = "owner" => Exists(s) /\ servers[s].owner = a

\* A ban of a server in use is lifted by an unban, or by making the banned
\* account the owner; no invitation, request, departure or kick that was
\* already under way takes it back (schema.sql, "so a ban survives the member
\* leaving and re-requesting").
BanHolds ==
    [][\A s \in Server, a \in Account :
          members[s][a] = "banned" /\ Live(s)' =>
              \/ members'[s][a] \in {"banned", "owner"}
              \/ \E h \in Handler : /\ Handles(h, "unban") /\ handling'[h] = Idle
                                   /\ handling[h].server = s
                                   /\ handling[h].account = a]_vars

\* No account joins more servers than MaxJoined, whichever accepts run at the
\* same time; only handing over a server may leave it with more (members.ts,
\* "so concurrent accepts can't both pass the joined-quota count").
JoinsWithinQuota ==
    [][\A a \in Account :
          Joined(a)' > Joined(a) =>
              \/ Joined(a)' <= MaxJoined
              \/ \E s \in Server : servers[s].owner = a /\ servers'[s].owner # a]_vars

\* No account comes to own more servers than MaxOwned, servers it is deleting
\* included, unless one was transferred to it (servers.ts, "the owner's quota
\* slot stays held until the desktop confirms the local data purge").
OwnsWithinQuota ==
    [][\A a \in Account :
          Owned(a)' > Owned(a) =>
              \/ Owned(a)' <= MaxOwned
              \/ \E s \in Server : Exists(s) /\ servers[s].owner # a
                                  /\ servers'[s].owner = a]_vars

\* Neither quota is passed by operations that count at the same time.
QuotasHold == JoinsWithinQuota /\ OwnsWithinQuota

\* A server changes hands only by a transfer that its present owner offered
\* to its next one and both have confirmed (server-transfer.ts).
OwnershipMovesByConsent ==
    [][\A s \in Server :
          Exists(s) /\ Exists(s)' /\ servers'[s].owner # servers[s].owner =>
              \E h \in Handler, t \in Transfers :
                  /\ Handles(h, "confirm") /\ handling[h].id = t
                  /\ HasRow(transfers, t)
                  /\ transfers[t].server = s
                  /\ transfers[t].from = servers[s].owner
                  /\ transfers[t].to = servers'[s].owner
                  /\ transfers[t].ok \cup {handling[h].side} = {"from", "to"}]_vars

\* A server being deleted keeps its owner, whose quota it holds, until it is
\* gone, and never comes back (servers.ts, the two-phase delete).
DeletingIsFrozen ==
    [][\A s \in Server :
          servers[s].phase = "deleting" =>
              \/ servers'[s] = servers[s]
              \/ servers'[s] = NoServer]_vars
=============================================================================
