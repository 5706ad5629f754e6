----------------------- MODULE CentralMembershipProofs -----------------------
(***************************************************************************)
(* Proofs about CentralMembership, for any accounts, servers, quotas and   *)
(* number of requests at work: owner rows, bans, both quotas, consent and  *)
(* the frozen server.                                                      *)
(***************************************************************************)
EXTENDS CentralMembership, FiniteSetTheorems, TLAPS

\* A request that confirms names a transfer, one that offers a server and two
\* accounts. What the other requests are about is not relied on: a statement
\* about a row that is not there changes nothing.
CallOK(call) ==
    /\ call.op = "confirm" => call.id \in Transfers /\ call.side \in {"from", "to"}
    /\ call.op = "transfer" =>
          call.server \in Server /\ call.from \in Account /\ call.to \in Account

Transfer ==
    Rows([server : Server, from : Account, to : Account,
          ok : SUBSET {"from", "to"}, status : {"pending", "settled"}])

TypeInv ==
    /\ servers \in [Server -> [phase : {"none", "live", "deleting"},
                               owner : Account \cup {Nobody}]]
    /\ members \in [Server -> [Account -> {"none", "member", "owner", "banned"}]]
    /\ transfers \in [Transfers -> Transfer]
    /\ DOMAIN handling = Handler
    /\ \A h \in Handler : CallOK(handling[h])

IInv == TypeInv /\ OwnerRowIsOwner

\* The tables that the properties speak of.
Tables == <<servers, members>>

\* What the transaction of an accept does to them.
Joins(s, a) ==
    /\ MayJoin(s, a) /\ members' = WithMember(s, a)
    /\ UNCHANGED servers

-----------------------------------------------------------------------------
(* What the steps do to servers and members.                               *)

\* Checks and what comes of rows of their own leave both tables alone.
LEMMA QuietSteps ==
    ASSUME NEW h \in Handler,
           \/ Check(h) \/ CreateInvite(h) \/ RevokeInvite(h) \/ CreateRequest(h)
           \/ DeclineRequest(h) \/ TransferServer(h)
    PROVE  UNCHANGED Tables
BY ZenonT(60) DEF Tables, Check, CheckDelete, CheckRequest, CheckLeave, CheckInvite, CheckTransfer,
       CheckMember, CheckRevoke, CheckAnswer, CheckAccept, CheckConfirm,
       CreateInvite, RevokeInvite, CreateRequest, DeclineRequest, TransferServer

\* A check fills the slot of its request.
LEMMA CheckFills ==
    ASSUME NEW h \in Handler, Check(h)
    PROVE  /\ UNCHANGED transfers
           /\ \E call : Checked(h, call) /\ CallOK(call)
<1>1. CASE \E t \in Transfers, side \in {"from", "to"} : CheckConfirm(h, t, side)
  BY <1>1 DEF CheckConfirm, CallOK
<1>2. CASE \E a \in Account, s \in Server :
              \/ CheckDelete(h, a, s) \/ CheckRequest(h, a, s) \/ CheckLeave(h, a, s)
  BY <1>2 DEF CheckDelete, CheckRequest, CheckLeave, CallOK
<1>3. CASE \E a, b \in Account, s \in Server : CheckInvite(h, a, s, b) \/ CheckTransfer(h, a, s, b)
  BY <1>3 DEF CheckInvite, CheckTransfer, CallOK
<1>4. CASE \E a, b \in Account, s \in Server, op \in {"kick", "ban", "unban"} :
              CheckMember(h, a, s, b, op)
  BY <1>4 DEF CheckMember, CallOK
<1>5. CASE \E a \in Account, i \in Invites : CheckRevoke(h, a, i)
  BY <1>5 DEF CheckRevoke, CallOK
<1>6. CASE \E a \in Account, q \in Requests, op \in {"acceptRequest", "declineRequest"} :
              CheckAnswer(h, a, q, op)
  BY <1>6 DEF CheckAnswer, CallOK
<1>7. CASE \E i \in Invites : CheckAccept(h, i)
  BY <1>7 DEF CheckAccept, CallOK
<1> QED BY <1>1, <1>2, <1>3, <1>4, <1>5, <1>6, <1>7 DEF Check

\* Every write empties the slot of its request.
LEMMA WriteEmpties ==
    ASSUME NEW h \in Handler, Write(h)
    PROVE  Handled(h)
BY DEF Write, DeleteServer, CreateInvite, RevokeInvite, AcceptInvite, CreateRequest,
       AcceptRequest, DeclineRequest, DeleteMember, BanMember, TransferServer,
       ConfirmTransfer

\* A transfer that is closed keeps what it says or nothing.
LEMMA ClosedType ==
    ASSUME NEW t, NEW row \in Transfer, row.status = "pending" \/ row # NoRow,
           NEW handlers
    PROVE  Closed(t, row, handlers) \in Transfer
BY DEF Closed, Transfer, Rows, NoRow, Settled

LEMMA TransfersTyped ==
    ASSUME TypeInv, [Next]_vars
    PROVE  transfers' \in [Transfers -> Transfer]
<1>1. CASE UNCHANGED transfers
  BY <1>1 DEF TypeInv
<1>2. ASSUME NEW s \in Server, Purge(s)
      PROVE  transfers' \in [Transfers -> Transfer]
  BY <1>2 DEF TypeInv, Purge, Cascade, Transfer, Rows
<1>3. ASSUME NEW t \in Transfers, EndTransfer(t)
      PROVE  transfers' \in [Transfers -> Transfer]
  <2>1. Closed(t, transfers[t], Handler) \in Transfer
    BY <1>3, ClosedType DEF TypeInv, EndTransfer
  <2> QED BY <1>3, <2>1 DEF TypeInv, EndTransfer
<1>4. ASSUME NEW h \in Handler, TransferServer(h)
      PROVE  transfers' \in [Transfers -> Transfer]
  <2> DEFINE c == handling[h]
             row == [server |-> c.server, from |-> c.from, to |-> c.to,
                     ok |-> {}, status |-> "pending"]
  <2>1. row \in Transfer
    BY <1>4 DEF TypeInv, CallOK, TransferServer, Handles, Transfer, Rows
  <2>2. \/ UNCHANGED transfers
        \/ \E t \in Transfers : transfers' = [transfers EXCEPT ![t] = row]
    BY <1>4 DEF TypeInv, TransferServer, FreshIds
  <2> HIDE DEF row
  <2> QED BY <2>1, <2>2 DEF TypeInv
<1>5. ASSUME NEW h \in Handler, ConfirmTransfer(h)
      PROVE  transfers' \in [Transfers -> Transfer]
  <2> DEFINE t == handling[h].id
             row == transfers[t]
             ok == row.ok \cup {handling[h].side}
             more == [row EXCEPT !.ok = ok]
  <2> SUFFICES ASSUME HasRow(transfers, t)
               PROVE  transfers' \in [Transfers -> Transfer]
    BY <1>5 DEF TypeInv, ConfirmTransfer
  <2>1. t \in Transfers /\ handling[h].side \in {"from", "to"}
    BY <1>5 DEF TypeInv, CallOK, ConfirmTransfer, Handles
  <2>2. row \in [server : Server, from : Account, to : Account,
                 ok : SUBSET {"from", "to"}, status : {"pending", "settled"}]
    BY <2>1 DEF TypeInv, HasRow, Transfer, Rows
  <2>3. more \in [server : Server, from : Account, to : Account,
                  ok : SUBSET {"from", "to"}, status : {"pending", "settled"}]
    BY <2>1, <2>2
  <2>4. more \in Transfer /\ more # NoRow
    BY <2>3 DEF Transfer, Rows, NoRow
  <2>5. Closed(t, more, Handler \ {h}) \in Transfer
    BY <2>4, ClosedType
  <2>6. \/ transfers' = [transfers EXCEPT ![t] = Closed(t, more, Handler \ {h})]
        \/ transfers' = [transfers EXCEPT ![t] = more]
    BY <1>5 DEF ConfirmTransfer
  <2> QED BY <2>1, <2>4, <2>5, <2>6 DEF TypeInv
<1> QED BY <1>1, <1>2, <1>3, <1>4, <1>5, CheckFills DEF Next, vars, CreateServer,
      EndInvite, Write, DeleteServer, CreateInvite, RevokeInvite, AcceptInvite,
      CreateRequest, AcceptRequest, DeclineRequest, DeleteMember, BanMember

LEMMA CallsTyped ==
    ASSUME TypeInv, [Next]_vars
    PROVE  DOMAIN handling' = Handler /\ \A h \in Handler : CallOK(handling'[h])
<1>1. CASE UNCHANGED handling
  BY <1>1 DEF TypeInv
<1>2. ASSUME NEW h \in Handler, NEW call, Checked(h, call), CallOK(call)
      PROVE  DOMAIN handling' = Handler /\ \A g \in Handler : CallOK(handling'[g])
  BY <1>2 DEF TypeInv, Checked
<1>3. CallOK(Idle)
  BY DEF CallOK, Idle
<1>4. ASSUME NEW h \in Handler, Handled(h)
      PROVE  DOMAIN handling' = Handler /\ \A g \in Handler : CallOK(handling'[g])
  BY <1>3, <1>4 DEF TypeInv, Handled
<1> QED BY <1>1, <1>2, <1>4, CheckFills, WriteEmpties DEF Next, vars, CreateServer,
      Purge, Cascade, EndInvite, EndTransfer

\* A step leaves the tables alone or is one of seven kinds.
LEMMA StepKinds ==
    ASSUME [Next]_vars
    PROVE  \/ UNCHANGED Tables
           \/ \E a \in Account, s \in Server : CreateServer(a, s)
           \/ \E s \in Server : Purge(s)
           \/ \E h \in Handler : DeleteServer(h) \/ DeleteMember(h) \/ BanMember(h)
           \/ \E s, a : Joins(s, a)
           \/ \E h \in Handler : ConfirmTransfer(h)
<1>1. CASE UNCHANGED vars
  BY <1>1 DEF vars, Tables
<1>2. CASE \E i \in Invites : EndInvite(i)
  BY <1>2 DEF EndInvite, Tables
<1>3. CASE \E t \in Transfers : EndTransfer(t)
  BY <1>3 DEF EndTransfer, Tables
<1>4. CASE \E h \in Handler : Check(h)
  BY <1>4, QuietSteps
<1>5. ASSUME NEW h \in Handler, AcceptInvite(h) \/ AcceptRequest(h)
      PROVE  UNCHANGED Tables \/ \E s, a : Joins(s, a)
  BY <1>5 DEF AcceptInvite, AcceptRequest, Joins, Tables
<1>6. CASE \E h \in Handler : Write(h)
  BY <1>5, <1>6, QuietSteps DEF Write
<1> QED BY <1>1, <1>2, <1>3, <1>4, <1>6 DEF Next

\* What the rows of one server and account become, by the kind of step; the
\* statements of a request about another server or account do not reach them.
LEMMA CreateEffect ==
    ASSUME TypeInv, NEW a \in Account, NEW s \in Server, CreateServer(a, s),
           NEW x \in Server, NEW y \in Account
    PROVE  /\ servers[s] = NoServer /\ Owned(a) < MaxOwned
           /\ servers'[x] = IF x = s THEN [phase |-> "live", owner |-> a] ELSE servers[x]
           /\ members'[x][y] = IF x = s /\ y = a THEN "owner" ELSE members[x][y]
BY DEF TypeInv, CreateServer, FreshServer

LEMMA PurgeEffect ==
    ASSUME TypeInv, NEW s \in Server, Purge(s), NEW x \in Server, NEW y \in Account
    PROVE  /\ servers[s].phase = "deleting"
           /\ servers'[x] = IF x = s THEN NoServer ELSE servers[x]
           /\ members'[x][y] = IF x = s THEN "none" ELSE members[x][y]
BY DEF TypeInv, Purge, Cascade

LEMMA DeleteEffect ==
    ASSUME TypeInv, NEW h \in Handler, DeleteServer(h),
           NEW x \in Server, NEW y \in Account
    PROVE  /\ \/ servers'[x] = servers[x]
              \/ /\ Live(x)
                 /\ servers'[x] = [phase |-> "deleting", owner |-> servers[x].owner]
           /\ \/ members'[x][y] = members[x][y]
              \/ /\ members[x][y] # "owner" /\ members'[x][y] = "none"
                 /\ servers'[x].phase # "live"
BY DEF TypeInv, DeleteServer, Live

LEMMA MemberEffect ==
    ASSUME TypeInv, NEW h \in Handler, DeleteMember(h) \/ BanMember(h),
           NEW x \in Server, NEW y \in Account
    PROVE  /\ servers' = servers
           /\ \/ members'[x][y] = members[x][y]
              \/ members'[x][y] = "banned"
              \/ /\ members'[x][y] = "none" /\ handling[h].op \in {"kick", "unban", "leave"}
                 /\ handling[h].server = x /\ handling[h].account = y
                 /\ members[x][y] = "banned" => handling[h].op = "unban"
                 /\ handling'[h] = Idle
<1>1. CASE DeleteMember(h)
  BY <1>1 DEF TypeInv, DeleteMember, Deletes, Handled
<1>2. CASE BanMember(h)
  BY <1>2 DEF TypeInv, BanMember
<1> QED BY <1>1, <1>2

LEMMA JoinEffect ==
    ASSUME TypeInv, NEW s, NEW a, Joins(s, a), NEW x \in Server, NEW y \in Account
    PROVE  /\ servers' = servers
           /\ \/ members'[x][y] = members[x][y]
              \/ /\ x = s /\ y = a /\ members[x][y] = "none"
                 /\ members'[x][y] = "member" /\ Joined(y) < MaxJoined
BY DEF TypeInv, Joins, WithMember, MayJoin

\* The step that completes a transfer.
Completes(h) ==
    LET t == handling[h].id  row == transfers[t]
    IN  /\ Handles(h, "confirm") /\ HasRow(transfers, t)
        /\ Confirmed(row.ok \cup {handling[h].side})
        /\ Moves(row)
        /\ servers' = [servers EXCEPT ![row.server].owner = row.to]
        /\ members' = Handover(row)

LEMMA ConfirmKinds ==
    ASSUME NEW h \in Handler, ConfirmTransfer(h)
    PROVE  UNCHANGED Tables \/ Completes(h)
BY DEF ConfirmTransfer, Completes, Tables

\* It hands one server from one account to another.
Passes(s, from, to) ==
    \A x \in Server, y \in Account :
        /\ x # s => servers'[x] = servers[x] /\ members'[x][y] = members[x][y]
        /\ x = s =>
              /\ servers[x] = [phase |-> "live", owner |-> from]
              /\ servers'[x] = [phase |-> "live", owner |-> to]
              /\ y = to => members'[x][y] = "owner"
              /\ y # to => members'[x][y] =
                    IF y = from /\ members[x][y] = "owner" THEN "member"
                                                          ELSE members[x][y]

LEMMA CompleteEffect ==
    ASSUME TypeInv, NEW h \in Handler, Completes(h)
    PROVE  \E s, from, to : Passes(s, from, to)
<1> DEFINE row == transfers[handling[h].id]
<1>1. /\ servers' = [servers EXCEPT ![row.server].owner = row.to]
      /\ members' = Handover(row) /\ Moves(row)
  BY DEF Completes
<1> HIDE DEF row
<1>2. ASSUME NEW x \in Server, NEW y \in Account
      PROVE  /\ x # row.server => servers'[x] = servers[x] /\ members'[x][y] = members[x][y]
             /\ x = row.server =>
                   /\ servers[x] = [phase |-> "live", owner |-> row.from]
                   /\ servers'[x] = [phase |-> "live", owner |-> row.to]
                   /\ y = row.to => members'[x][y] = "owner"
                   /\ y # row.to => members'[x][y] =
                         IF y = row.from /\ members[x][y] = "owner" THEN "member"
                                                                   ELSE members[x][y]
  <2>1. x = row.server => servers[x] = [phase |-> "live", owner |-> row.from]
    BY <1>1 DEF TypeInv, Moves, Owns, Live
  <2>2. /\ x # row.server => servers'[x] = servers[x]
        /\ x = row.server => servers'[x] = [phase |-> "live", owner |-> row.to]
    BY <1>1, <2>1 DEF TypeInv
  <2>3. /\ x # row.server => members'[x][y] = members[x][y]
        /\ x = row.server /\ y = row.to => members'[x][y] = "owner"
        /\ x = row.server /\ y # row.to => members'[x][y] =
              IF y = row.from /\ members[x][y] = "owner" THEN "member" ELSE members[x][y]
    BY <1>1 DEF TypeInv, Handover
  <2> QED BY <2>1, <2>2, <2>3
<1>3. Passes(row.server, row.from, row.to)
  BY <1>2 DEF Passes
<1> QED BY <1>3

-----------------------------------------------------------------------------
(* The invariant.                                                          *)

LEMMA InitIInv == Init => IInv
<1> SUFFICES ASSUME Init PROVE IInv
  OBVIOUS
<1>1. TypeInv
  BY DEF Init, TypeInv, NoServer, Idle, CallOK, Transfer, Rows
<1>2. OwnerRowIsOwner
  BY DEF Init, OwnerRowIsOwner
<1> QED BY <1>1, <1>2 DEF IInv

ServerRow == [phase : {"none", "live", "deleting"}, owner : Account \cup {Nobody}]
MemberRow == {"none", "member", "owner", "banned"}

\* A row that is written with a value of its type leaves the table typed,
\* whether or not the row is in the table.
LEMMA MemberWritten ==
    ASSUME NEW table \in [Server -> [Account -> MemberRow]], NEW s, NEW a,
           NEW role \in MemberRow
    PROVE  [table EXCEPT ![s][a] = role] \in [Server -> [Account -> MemberRow]]
<1>1. CASE s \in Server
  <2>1. [table[s] EXCEPT ![a] = role] \in [Account -> MemberRow]
    BY <1>1
  <2> QED BY <1>1, <2>1
<1>2. CASE s \notin Server
  BY <1>2
<1> QED BY <1>1, <1>2

LEMMA TablesTyped ==
    ASSUME TypeInv, [Next]_vars
    PROVE  /\ servers' \in [Server -> ServerRow]
           /\ members' \in [Server -> [Account -> MemberRow]]
<1> DEFINE Typed == /\ servers' \in [Server -> ServerRow]
                   /\ members' \in [Server -> [Account -> MemberRow]]
<1>0. servers \in [Server -> ServerRow] /\ members \in [Server -> [Account -> MemberRow]]
  BY DEF TypeInv, ServerRow, MemberRow
<1>1. CASE UNCHANGED Tables
  BY <1>0, <1>1 DEF Tables
<1>2. ASSUME NEW a \in Account, NEW s \in Server, CreateServer(a, s) PROVE Typed
  <2>1. servers' \in [Server -> ServerRow]
    BY <1>0, <1>2 DEF CreateServer, ServerRow
  <2>2. members' \in [Server -> [Account -> MemberRow]]
    BY <1>0, <1>2, MemberWritten DEF CreateServer, MemberRow
  <2> QED BY <2>1, <2>2
<1>3. ASSUME NEW s \in Server, Purge(s) PROVE Typed
  <2>1. [a \in Account |-> "none"] \in [Account -> MemberRow]
    BY DEF MemberRow
  <2>2. servers' \in [Server -> ServerRow]
    BY <1>0, <1>3 DEF Purge, Cascade, NoServer, ServerRow
  <2>3. members' \in [Server -> [Account -> MemberRow]]
    BY <1>0, <1>3, <2>1 DEF Purge, Cascade
  <2> QED BY <2>2, <2>3
<1>4. ASSUME NEW h \in Handler, DeleteServer(h) PROVE Typed
  <2> DEFINE s == handling[h].server
             kept == [a \in Account |-> IF members[s][a] = "owner" THEN "owner" ELSE "none"]
  <2>1. servers' = servers \/ servers' = [servers EXCEPT ![s].phase = "deleting"]
    BY <1>4 DEF DeleteServer
  <2>2. members' = [members EXCEPT ![s] = kept]
    BY <1>4 DEF DeleteServer
  <2>3. kept \in [Account -> MemberRow]
    BY DEF MemberRow
  <2> HIDE DEF s, kept
  <2>4. servers' \in [Server -> ServerRow]
    <3>1. CASE s \in Server
      <4>1. [servers[s] EXCEPT !.phase = "deleting"] \in ServerRow
        BY <1>0, <3>1 DEF ServerRow
      <4> QED BY <1>0, <2>1, <3>1, <4>1
    <3>2. CASE s \notin Server
      BY <1>0, <2>1, <3>2
    <3> QED BY <3>1, <3>2
  <2> QED BY <1>0, <2>2, <2>3, <2>4
<1>5. ASSUME NEW h \in Handler, DeleteMember(h) \/ BanMember(h) PROVE Typed
  <2> DEFINE c == handling[h]
  <2>1. /\ UNCHANGED servers
        /\ \/ UNCHANGED members
           \/ members' = [members EXCEPT ![c.server][c.account] = "none"]
           \/ members' = [members EXCEPT ![c.server][c.account] = "banned"]
    BY <1>5 DEF DeleteMember, BanMember
  <2>2. "none" \in MemberRow /\ "banned" \in MemberRow
    BY DEF MemberRow
  <2> HIDE DEF c
  <2>3. \A role \in MemberRow :
            [members EXCEPT ![c.server][c.account] = role] \in [Server -> [Account -> MemberRow]]
    BY <1>0, MemberWritten
  <2>4. members' \in [Server -> [Account -> MemberRow]]
    BY <1>0, <2>1, <2>2, <2>3
  <2> QED BY <1>0, <2>1, <2>4
<1>6. ASSUME NEW s, NEW a, Joins(s, a) PROVE Typed
  <2>1. UNCHANGED servers /\ members' = WithMember(s, a)
    BY <1>6 DEF Joins
  <2>2. CASE members[s][a] = "none"
    BY <1>0, <2>1, <2>2, MemberWritten DEF WithMember, MemberRow
  <2>3. CASE members[s][a] # "none"
    <3>1. members' = [members EXCEPT ![s][a] = members[s][a]]
      BY <2>1, <2>3 DEF WithMember
    <3>2. members' = members
      BY <1>0, <3>1
    <3> QED BY <1>0, <2>1, <3>2
  <2> QED BY <2>2, <2>3
<1>7. ASSUME NEW h \in Handler, Completes(h) PROVE Typed
  <2> DEFINE row == transfers[handling[h].id]
  <2>1. row.to \in Account
    BY <1>7 DEF TypeInv, CallOK, Completes, Handles, HasRow, Transfer, Rows
  <2>2. servers' = [servers EXCEPT ![row.server].owner = row.to] /\ members' = Handover(row)
    BY <1>7 DEF Completes
  <2> HIDE DEF row
  <2>3. servers' \in [Server -> ServerRow]
    <3>1. CASE row.server \in Server
      <4>1. [servers[row.server] EXCEPT !.owner = row.to] \in ServerRow
        BY <1>0, <2>1, <3>1 DEF ServerRow
      <4> QED BY <1>0, <2>2, <3>1, <4>1
    <3>2. CASE row.server \notin Server
      BY <1>0, <2>2, <3>2
    <3> QED BY <3>1, <3>2
  <2>4. members' \in [Server -> [Account -> MemberRow]]
    BY <1>0, <2>2 DEF Handover, MemberRow
  <2> QED BY <2>3, <2>4
<1> QED BY <1>1, <1>2, <1>3, <1>4, <1>5, <1>6, <1>7, StepKinds, ConfirmKinds

LEMMA TypesKept ==
    ASSUME TypeInv, [Next]_vars PROVE TypeInv'
BY TablesTyped, TransfersTyped, CallsTyped DEF TypeInv, ServerRow, MemberRow

LEMMA OwnerRowsKept ==
    ASSUME IInv, [Next]_vars PROVE OwnerRowIsOwner'
<1> SUFFICES ASSUME NEW x \in Server, NEW y \in Account, members'[x][y] = "owner"
             PROVE  Exists(x)' /\ servers'[x].owner = y
  BY DEF OwnerRowIsOwner
<1> USE DEF IInv
<1>0. members[x][y] = "owner" => Exists(x) /\ servers[x].owner = y
  BY DEF OwnerRowIsOwner
<1>1. CASE UNCHANGED Tables
  BY <1>0, <1>1 DEF Tables, Exists
<1>2. ASSUME NEW a \in Account, NEW s \in Server, CreateServer(a, s)
      PROVE  Exists(x)' /\ servers'[x].owner = y
  <2>1. /\ servers[s] = NoServer
        /\ servers'[x] = IF x = s THEN [phase |-> "live", owner |-> a] ELSE servers[x]
        /\ members'[x][y] = IF x = s /\ y = a THEN "owner" ELSE members[x][y]
    BY <1>2, CreateEffect
  <2>2. CASE x = s
    <3>1. y = a
      BY <1>0, <2>1, <2>2 DEF Exists, NoServer
    <3> QED BY <2>1, <2>2, <3>1 DEF Exists
  <2>3. CASE x # s
    BY <1>0, <2>1, <2>3 DEF Exists
  <2> QED BY <2>2, <2>3
<1>3. ASSUME NEW s \in Server, Purge(s)
      PROVE  Exists(x)' /\ servers'[x].owner = y
  BY <1>0, <1>3, PurgeEffect DEF Exists
<1>4. ASSUME NEW h \in Handler, DeleteServer(h)
      PROVE  Exists(x)' /\ servers'[x].owner = y
  <2>1. /\ servers'[x] = servers[x]
           \/ servers'[x] = [phase |-> "deleting", owner |-> servers[x].owner]
        /\ members'[x][y] = members[x][y] \/ members'[x][y] = "none"
    BY <1>4, DeleteEffect
  <2> QED BY <1>0, <2>1 DEF Exists
<1>5. ASSUME NEW h \in Handler, DeleteMember(h) \/ BanMember(h)
      PROVE  Exists(x)' /\ servers'[x].owner = y
  BY <1>0, <1>5, MemberEffect DEF Exists
<1>6. ASSUME NEW s, NEW a, Joins(s, a)
      PROVE  Exists(x)' /\ servers'[x].owner = y
  BY <1>0, <1>6, JoinEffect DEF Exists
<1>7. ASSUME NEW h \in Handler, Completes(h)
      PROVE  Exists(x)' /\ servers'[x].owner = y
  <2>0. PICK s, from, to : Passes(s, from, to)
    BY <1>7, CompleteEffect
  <2>1. /\ x # s => servers'[x] = servers[x] /\ members'[x][y] = members[x][y]
        /\ x = s =>
              /\ servers[x] = [phase |-> "live", owner |-> from]
              /\ servers'[x] = [phase |-> "live", owner |-> to]
              /\ y = to => members'[x][y] = "owner"
              /\ y # to => members'[x][y] =
                    IF y = from /\ members[x][y] = "owner" THEN "member"
                                                          ELSE members[x][y]
    BY <2>0 DEF Passes
  <2>2. CASE x # s
    BY <1>0, <2>1, <2>2 DEF Exists
  <2>3. CASE x = s
    <3>1. y = to
      BY <1>0, <2>1, <2>3
    <3> QED BY <2>1, <2>3, <3>1 DEF Exists
  <2> QED BY <2>2, <2>3
<1> QED BY <1>1, <1>2, <1>3, <1>4, <1>5, <1>6, <1>7, StepKinds, ConfirmKinds

LEMMA NextIInv == IInv /\ [Next]_vars => IInv'
BY TypesKept, OwnerRowsKept DEF IInv

\* The inductive invariant holds of every behaviour.
THEOREM IInvHolds == Spec => []IInv
BY InitIInv, NextIInv, PTL DEF Spec

\* An account whose member row says "owner" owns the server, however
\* transfers, bans, departures and deletions interleave.
THEOREM OwnerRowIsOwnerHolds == Spec => []OwnerRowIsOwner
<1>1. IInv => OwnerRowIsOwner
  BY DEF IInv
<1> QED BY <1>1, IInvHolds, PTL

-----------------------------------------------------------------------------
(* What a step may do.                                                     *)

LEMMA StepFreezes ==
    ASSUME IInv, [Next]_vars, NEW x \in Server, servers[x].phase = "deleting"
    PROVE  servers'[x] = servers[x] \/ servers'[x] = NoServer
<1> USE DEF IInv
<1>1. CASE UNCHANGED Tables
  BY <1>1 DEF Tables
<1>2. ASSUME NEW a \in Account, NEW s \in Server, CreateServer(a, s)
      PROVE  servers'[x] = servers[x]
  BY <1>2 DEF TypeInv, CreateServer, FreshServer, NoServer
<1>3. ASSUME NEW s \in Server, Purge(s)
      PROVE  servers'[x] = servers[x] \/ servers'[x] = NoServer
  BY <1>3 DEF TypeInv, Purge, Cascade
<1>4. ASSUME NEW h \in Handler, DeleteServer(h)
      PROVE  servers'[x] = servers[x]
  BY <1>4 DEF TypeInv, DeleteServer, Live
<1>5. ASSUME NEW h \in Handler, DeleteMember(h) \/ BanMember(h)
      PROVE  servers'[x] = servers[x]
  BY <1>5 DEF DeleteMember, BanMember
<1>6. ASSUME NEW s, NEW a, Joins(s, a)
      PROVE  servers'[x] = servers[x]
  BY <1>6 DEF Joins
<1>7. ASSUME NEW h \in Handler, Completes(h)
      PROVE  servers'[x] = servers[x]
  BY <1>7 DEF TypeInv, Completes, Moves, Owns, Live
<1> QED BY <1>1, <1>2, <1>3, <1>4, <1>5, <1>6, <1>7, StepKinds, ConfirmKinds

\* A server being deleted keeps its owner until it is purged.
THEOREM DeletingIsFrozenHolds == Spec => DeletingIsFrozen
<1>1. IInv /\ [Next]_vars =>
          [\A s \in Server :
              servers[s].phase = "deleting" =>
                  \/ servers'[s] = servers[s]
                  \/ servers'[s] = NoServer]_vars
  BY StepFreezes
<1> QED BY <1>1, IInvHolds, PTL DEF Spec, DeletingIsFrozen

LEMMA StepKeepsBan ==
    ASSUME IInv, [Next]_vars, NEW x \in Server, NEW y \in Account,
           members[x][y] = "banned", Live(x)'
    PROVE  \/ members'[x][y] \in {"banned", "owner"}
           \/ \E h \in Handler : /\ Handles(h, "unban") /\ handling'[h] = Idle
                                /\ handling[h].server = x /\ handling[h].account = y
<1> USE DEF IInv
<1>1. CASE UNCHANGED Tables
  BY <1>1 DEF Tables
<1>2. CASE \E a \in Account, s \in Server : CreateServer(a, s)
  BY <1>2, CreateEffect
<1>3. CASE \E s \in Server : Purge(s)
  BY <1>3, PurgeEffect DEF Live, NoServer
<1>4. CASE \E h \in Handler : DeleteServer(h)
  BY <1>4, DeleteEffect DEF Live
<1>5. CASE \E h \in Handler : DeleteMember(h) \/ BanMember(h)
  BY <1>5, MemberEffect DEF Handles
<1>6. CASE \E s, a : Joins(s, a)
  BY <1>6, JoinEffect
<1>7. ASSUME NEW h \in Handler, Completes(h)
      PROVE  members'[x][y] \in {"banned", "owner"}
  <2>1. PICK s, from, to : Passes(s, from, to)
    BY <1>7, CompleteEffect
  <2>2. members'[x][y] = members[x][y] \/ members'[x][y] = "owner"
    BY <2>1 DEF Passes
  <2> QED BY <2>2
<1> QED BY <1>1, <1>2, <1>3, <1>4, <1>5, <1>6, <1>7, StepKinds, ConfirmKinds

\* A ban of a server in use ends only by an unban or by a transfer to the
\* banned account.
THEOREM BanHoldsAlways == Spec => BanHolds
<1>1. IInv /\ [Next]_vars =>
          [\A s \in Server, a \in Account :
              members[s][a] = "banned" /\ Live(s)' =>
                  \/ members'[s][a] \in {"banned", "owner"}
                  \/ \E h \in Handler : /\ Handles(h, "unban") /\ handling'[h] = Idle
                                       /\ handling[h].server = s
                                       /\ handling[h].account = a]_vars
  BY StepKeepsBan
<1> QED BY <1>1, IInvHolds, PTL DEF Spec, BanHolds

LEMMA StepHasConsent ==
    ASSUME IInv, [Next]_vars, NEW x \in Server,
           Exists(x), Exists(x)', servers'[x].owner # servers[x].owner
    PROVE  \E h \in Handler, t \in Transfers :
               /\ Handles(h, "confirm") /\ handling[h].id = t
               /\ HasRow(transfers, t)
               /\ transfers[t].server = x
               /\ transfers[t].from = servers[x].owner
               /\ transfers[t].to = servers'[x].owner
               /\ transfers[t].ok \cup {handling[h].side} = {"from", "to"}
<1> USE DEF IInv
<1>1. CASE UNCHANGED Tables
  BY <1>1 DEF Tables
<1>2. ASSUME NEW a \in Account, NEW s \in Server, CreateServer(a, s) PROVE FALSE
  BY <1>2 DEF TypeInv, CreateServer, FreshServer, Exists, NoServer
<1>3. ASSUME NEW s \in Server, Purge(s) PROVE FALSE
  BY <1>3 DEF TypeInv, Purge, Cascade, Exists, NoServer
<1>4. ASSUME NEW h \in Handler, DeleteServer(h) PROVE FALSE
  BY <1>4 DEF TypeInv, DeleteServer
<1>5. ASSUME NEW h \in Handler, DeleteMember(h) \/ BanMember(h) PROVE FALSE
  BY <1>5 DEF DeleteMember, BanMember
<1>6. ASSUME NEW s, NEW a, Joins(s, a) PROVE FALSE
  BY <1>6 DEF Joins
<1>7. ASSUME NEW h \in Handler, Completes(h)
      PROVE  \E t \in Transfers :
               /\ Handles(h, "confirm") /\ handling[h].id = t
               /\ HasRow(transfers, t)
               /\ transfers[t].server = x
               /\ transfers[t].from = servers[x].owner
               /\ transfers[t].to = servers'[x].owner
               /\ transfers[t].ok \cup {handling[h].side} = {"from", "to"}
  <2> DEFINE t == handling[h].id  row == transfers[t]
  <2>1. Handles(h, "confirm") /\ HasRow(transfers, t) /\ Confirmed(row.ok \cup {handling[h].side})
    BY <1>7 DEF Completes
  <2>2. t \in Transfers
    BY <2>1 DEF TypeInv, Handles, CallOK
  <2>3. /\ servers'[x] = servers[x] \/ x = row.server
        /\ x = row.server => servers[x].owner = row.from /\ servers'[x].owner = row.to
    <3>1. servers' = [servers EXCEPT ![row.server].owner = row.to] /\ Moves(row)
      BY <1>7 DEF Completes
    <3> QED BY <3>1 DEF TypeInv, Moves, Owns
  <2> QED BY <2>1, <2>2, <2>3 DEF Confirmed
<1> QED BY <1>1, <1>2, <1>3, <1>4, <1>5, <1>6, <1>7, StepKinds, ConfirmKinds

\* A server changes hands only by a transfer that its owner offered and both
\* sides have confirmed.
THEOREM OwnershipMovesByConsentHolds == Spec => OwnershipMovesByConsent
<1>1. IInv /\ [Next]_vars =>
          [\A s \in Server :
              Exists(s) /\ Exists(s)' /\ servers'[s].owner # servers[s].owner =>
                  \E h \in Handler, t \in Transfers :
                      /\ Handles(h, "confirm") /\ handling[h].id = t
                      /\ HasRow(transfers, t)
                      /\ transfers[t].server = s
                      /\ transfers[t].from = servers[s].owner
                      /\ transfers[t].to = servers'[s].owner
                      /\ transfers[t].ok \cup {handling[h].side} = {"from", "to"}]_vars
  BY StepHasConsent
<1> QED BY <1>1, IInvHolds, PTL DEF Spec, OwnershipMovesByConsent

-----------------------------------------------------------------------------
(* The quotas.                                                             *)

\* A count grows only if something comes in.
LEMMA GrowthHasReason ==
    ASSUME NEW Old \in SUBSET Server, NEW New \in SUBSET Server,
           Cardinality(New) > Cardinality(Old)
    PROVE  \E x \in New : x \notin Old
<1>1. IsFiniteSet(Old) /\ IsFiniteSet(New)
  BY CentralAssumption, FS_Subset
<1>2. Cardinality(Old) \in Nat /\ Cardinality(New) \in Nat
  BY <1>1, FS_CardinalityType
<1>3. New \subseteq Old => Cardinality(New) <= Cardinality(Old)
  BY <1>1, FS_Subset
<1> QED BY <1>2, <1>3

\* One more server keeps a count below its limit within it.
LEMMA OneMore ==
    ASSUME NEW Old \in SUBSET Server, NEW New \in SUBSET Server, NEW s,
           New \subseteq Old \cup {s}, NEW limit \in Nat, Cardinality(Old) < limit
    PROVE  Cardinality(New) <= limit
<1>1. IsFiniteSet(Old)
  BY CentralAssumption, FS_Subset
<1>2. /\ IsFiniteSet(Old \cup {s})
      /\ Cardinality(Old \cup {s}) = IF s \in Old THEN Cardinality(Old)
                                                  ELSE Cardinality(Old) + 1
  BY <1>1, FS_AddElement
<1>3. Cardinality(New) <= Cardinality(Old \cup {s}) /\ IsFiniteSet(New)
  BY <1>2, FS_Subset
<1>4. Cardinality(Old) \in Nat /\ Cardinality(New) \in Nat
  BY <1>1, <1>3, FS_CardinalityType
<1> QED BY <1>2, <1>3, <1>4

LEMMA StepJoins ==
    ASSUME IInv, [Next]_vars, NEW y \in Account, Joined(y)' > Joined(y)
    PROVE  \/ Joined(y)' <= MaxJoined
           \/ \E s \in Server : servers[s].owner = y /\ servers'[s].owner # y
<1> USE DEF IInv
<1> DEFINE Old == {s \in Server : members[s][y] = "member"}
           New == {s \in Server : members'[s][y] = "member"}
<1>1. Joined(y) = Cardinality(Old) /\ Joined(y)' = Cardinality(New)
  BY DEF Joined
<1>2. PICK x \in New : x \notin Old
  BY <1>1, GrowthHasReason
<1>3. x \in Server /\ members[x][y] # "member" /\ members'[x][y] = "member"
  BY <1>2
<1>4. CASE UNCHANGED Tables
  BY <1>3, <1>4 DEF Tables
<1>5. CASE \E a \in Account, s \in Server : CreateServer(a, s)
  BY <1>3, <1>5, CreateEffect
<1>6. CASE \E s \in Server : Purge(s)
  BY <1>3, <1>6, PurgeEffect
<1>7. CASE \E h \in Handler : DeleteServer(h)
  BY <1>3, <1>7, DeleteEffect
<1>8. CASE \E h \in Handler : DeleteMember(h) \/ BanMember(h)
  BY <1>3, <1>8, MemberEffect
<1>9. CASE \E s, a : Joins(s, a)
  <2>1. PICK s, a : Joins(s, a)
    BY <1>9
  <2>2. Joined(y) < MaxJoined /\ x = s
    BY <1>3, <2>1, JoinEffect
  <2>3. \A z \in Server : z # s => members'[z][y] = members[z][y]
    BY <2>1, JoinEffect
  <2>4. New \subseteq Old \cup {s}
    BY <2>3
  <2>5. Cardinality(New) <= MaxJoined
    <3> HIDE DEF Old, New
    <3>1. Old \in SUBSET Server /\ New \in SUBSET Server
      BY DEF Old, New
    <3> QED BY <1>1, <2>2, <2>4, <3>1, OneMore, CentralAssumption
  <2> QED BY <1>1, <2>5
<1>10. ASSUME NEW h \in Handler, Completes(h)
       PROVE  servers[x].owner = y /\ servers'[x].owner # y
  <2>1. PICK s, from, to : Passes(s, from, to)
    BY <1>10, CompleteEffect
  <2>2. x = s
    BY <1>3, <2>1 DEF Passes
  <2>3. y # to /\ y = from
    BY <1>3, <2>1, <2>2 DEF Passes
  <2>4. servers[x].owner = from /\ servers'[x].owner = to
    BY <1>3, <2>1, <2>2 DEF Passes
  <2> QED BY <2>3, <2>4
<1> QED BY <1>3, <1>4, <1>5, <1>6, <1>7, <1>8, <1>9, <1>10, StepKinds, ConfirmKinds

LEMMA StepOwns ==
    ASSUME IInv, [Next]_vars, NEW y \in Account, Owned(y)' > Owned(y)
    PROVE  \/ Owned(y)' <= MaxOwned
           \/ \E s \in Server : Exists(s) /\ servers[s].owner # y /\ servers'[s].owner = y
<1> USE DEF IInv
<1> DEFINE Old == {s \in Server : Exists(s) /\ servers[s].owner = y}
           New == {s \in Server : Exists(s)' /\ servers'[s].owner = y}
<1>1. Owned(y) = Cardinality(Old) /\ Owned(y)' = Cardinality(New)
  BY DEF Owned
<1>2. PICK x \in New : x \notin Old
  BY <1>1, GrowthHasReason
<1>3. /\ x \in Server /\ servers'[x].phase \in {"live", "deleting"}
      /\ servers'[x].owner = y /\ ~(Exists(x) /\ servers[x].owner = y)
  BY <1>2 DEF Exists
<1>4. CASE servers' = servers
  BY <1>3, <1>4 DEF Exists
<1>5. CASE \E a \in Account, s \in Server : CreateServer(a, s)
  <2>1. PICK a \in Account, s \in Server : CreateServer(a, s)
    BY <1>5
  <2>2. /\ Owned(a) < MaxOwned
        /\ \A z \in Server :
              servers'[z] = IF z = s THEN [phase |-> "live", owner |-> a] ELSE servers[z]
    BY <2>1 DEF TypeInv, CreateServer
  <2>3. x = s /\ a = y
    BY <1>3, <2>2 DEF Exists
  <2>4. New \subseteq Old \cup {s}
    BY <2>2 DEF Exists
  <2>5. Cardinality(New) <= MaxOwned
    <3> HIDE DEF Old, New
    <3>1. Old \in SUBSET Server /\ New \in SUBSET Server
      BY DEF Old, New
    <3> QED BY <1>1, <2>2, <2>3, <2>4, <3>1, OneMore, CentralAssumption
  <2> QED BY <1>1, <2>5
<1>6. CASE \E s \in Server : Purge(s)
  BY <1>3, <1>6 DEF TypeInv, Purge, Cascade, NoServer, Exists
<1>7. ASSUME NEW h \in Handler, DeleteServer(h) PROVE FALSE
  <2>0. x \in Server
    BY <1>3
  <2>1. CASE servers' = servers
    BY <1>3, <2>1 DEF Exists
  <2>2. CASE Live(handling[h].server)
             /\ servers' = [servers EXCEPT ![handling[h].server].phase = "deleting"]
    BY <1>3, <2>0, <2>2 DEF TypeInv, Exists, Live
  <2> QED BY <1>7, <2>1, <2>2 DEF DeleteServer
<1>8. CASE \E h \in Handler : DeleteMember(h) \/ BanMember(h)
  BY <1>4, <1>8 DEF DeleteMember, BanMember
<1>9. CASE \E s, a : Joins(s, a)
  BY <1>4, <1>9 DEF Joins
<1>10. ASSUME NEW h \in Handler, Completes(h)
       PROVE  Exists(x) /\ servers[x].owner # y
  <2>1. PICK s, from, to : Passes(s, from, to)
    BY <1>10, CompleteEffect
  <2>2. x # s => servers'[x] = servers[x]
    BY <1>3, <2>1 DEF Passes
  <2>3. x = s
    BY <1>3, <2>2 DEF Exists
  <2>4. servers[x].phase = "live"
    BY <1>3, <2>1, <2>3 DEF Passes
  <2> QED BY <1>3, <2>4 DEF Exists
<1> QED BY <1>3, <1>4, <1>5, <1>6, <1>7, <1>8, <1>9, <1>10, StepKinds, ConfirmKinds
      DEF Tables

\* Neither quota is passed by operations that count at the same time, however
\* many there are: each accept and each creation counts in its own step.
THEOREM QuotasHoldAlways == Spec => QuotasHold
<1>1. IInv /\ [Next]_vars =>
          [\A a \in Account :
              Joined(a)' > Joined(a) =>
                  \/ Joined(a)' <= MaxJoined
                  \/ \E s \in Server : servers[s].owner = a /\ servers'[s].owner # a]_vars
  BY StepJoins
<1>2. IInv /\ [Next]_vars =>
          [\A a \in Account :
              Owned(a)' > Owned(a) =>
                  \/ Owned(a)' <= MaxOwned
                  \/ \E s \in Server : Exists(s) /\ servers[s].owner # a
                                      /\ servers'[s].owner = a]_vars
  BY StepOwns
<1> QED BY <1>1, <1>2, IInvHolds, PTL DEF Spec, QuotasHold, JoinsWithinQuota, OwnsWithinQuota
=============================================================================
