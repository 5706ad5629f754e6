------------------------------ MODULE EventBus ------------------------------
(***************************************************************************)
(* The event bus of the runtime (runtime/src/events/bus.ts, queue.ts,      *)
(* dead-letter.ts): plugins publish, the bus routes to the subscriptions   *)
(* whose pattern covers the topic, each with a bounded queue, a delivery   *)
(* that is retried and an overflow policy.                                 *)
(*                                                                         *)
(* publish() is synchronous and re-enters itself: an overflow found while  *)
(* an event is being routed publishes a runtime event, which is routed     *)
(* before the first one goes on. "calls" holds what remains to be done, a  *)
(* call stack; a step runs the call on top, and nothing from outside runs  *)
(* before the stack is empty.                                              *)
(***************************************************************************)
EXTENDS Integers, Sequences, FiniteSets, SequencesExt

CONSTANTS
    Plugin,        \* plugins that publish and subscribe
    Topic,         \* topics plugins publish to
    Pattern,       \* topic patterns of subscriptions
    Covers,        \* Covers[r]: the topics that pattern r matches
    Asks,          \* Asks[s]: the overflow policies that subscription s, a
                   \* pattern and a plugin, may be made with
    Capacity,      \* queue size of a subscription
    MaxFailures,   \* maxConsecutiveFailures
    MaxEvents      \* bound of the model: nothing is published beyond it

Notice == {"subscriber.unhealthy", "subscriber.overflow", "dlq.overflow"}

Policy == {"mark_unhealthy", "drop_oldest", "drop_newest"}

ASSUME BusAssumption ==
    /\ Topic \cap Notice = {}     \* publish() refuses runtime topics
    /\ Covers \in [Pattern -> SUBSET (Topic \cup Notice)]
    /\ DOMAIN Asks \subseteq Pattern \X Plugin
    /\ \A s \in DOMAIN Asks : Asks[s] \subseteq Policy
    /\ Capacity \in Nat \ {0} /\ MaxFailures \in Nat \ {0} /\ MaxEvents \in Nat

Sub == DOMAIN Asks
Runtime == "__runtime__"

VARIABLES
    live,       \* the subscriptions there are
    before,     \* the order in which routing visits them
    sub,        \* SubscriberState of each subscription
    unhealthy,  \* stats.unhealthySubscriptions
    tracker,    \* overflowTrackers: "none", "fresh" (coalesce) or "old"
    calls,      \* the call stack
    link,       \* whether getTransport(plugin) answers a transport
    seq,        \* number of events published so far
    fate        \* what became of each subscription's events

vars == <<live, before, sub, unhealthy, tracker, calls, link, seq, fate>>

Idle == calls = <<>>

NewState(policy) ==
    [queue |-> <<>>, healthy |-> TRUE, failures |-> 0, retrying |-> FALSE,
     policy |-> policy]

NoFate == [routed |-> {}, handed |-> <<>>, dead |-> {}, dropped |-> {}]

Init ==
    /\ live = {} /\ before = {}
    /\ sub = [s \in Sub |-> NewState("mark_unhealthy")]
    /\ unhealthy = 0
    /\ tracker = [k \in Plugin \X Notice |-> "none"]
    /\ calls = <<>>
    /\ link = [p \in Plugin |-> FALSE]
    /\ seq = 0
    /\ fate = [s \in Sub |-> NoFate]

-----------------------------------------------------------------------------
(* The calls: an event on its way to the subscriptions in "to", a queue to *)
(* look at, a notice to publish.                                           *)

Route(e, to) == [do |-> "route", event |-> e, to |-> to]
Kick(s) == [do |-> "kick", s |-> s]
Emit(s, n) == [do |-> "emit", s |-> s, notice |-> n]

\* publishInternal(): the event goes to the subscriptions that cover its
\* topic, never to the publisher's own.
Routing(e, source) ==
    Route(e, {s \in live : e.topic \in Covers[s[1]] /\ s[2] # source})

\* Replace the call on top by the calls it makes.
Becomes(made) == calls' = made \o Tail(calls)

\* Variant of DeadLetter: the events are forgotten.
Discard(f, events) == f

DeadLetter(f, events) == [f EXCEPT !.dead = @ \cup {e.id : e \in events}]

\* BoundedQueue.enqueue() with drop_oldest.
Displaced(q, e) == Append(Tail(q), e)

\* enqueueEvent(): a healthy queue takes the event or overflows by its policy.
\* "rest" is the routing that goes on afterwards.
Enqueue(s, e, rest) ==
    LET r == sub[s]
        routed == [fate[s] EXCEPT !.routed = @ \cup {e.id}]
        full == Len(r.queue) = Capacity
    IN  \/ /\ ~r.healthy
           /\ fate' = [fate EXCEPT ![s] = DeadLetter(routed, {e})]
           /\ Becomes(<<rest>>)
           /\ UNCHANGED <<sub, unhealthy>>
        \/ /\ r.healthy /\ full /\ r.policy = "mark_unhealthy"
           /\ sub' = [sub EXCEPT ![s].healthy = FALSE]
           /\ unhealthy' = unhealthy + 1
           /\ fate' = [fate EXCEPT ![s] = DeadLetter(routed, {e})]
           /\ Becomes(<<Emit(s, "subscriber.unhealthy"), rest>>)
        \/ /\ r.healthy /\ full /\ r.policy = "drop_oldest"
           /\ sub' = [sub EXCEPT ![s].queue = Displaced(@, e)]
           /\ fate' = [fate EXCEPT ![s] =
                         [routed EXCEPT !.dropped = @ \cup {Head(r.queue).id}]]
           /\ Becomes(<<Emit(s, "subscriber.overflow"), Kick(s), rest>>)
           /\ UNCHANGED unhealthy
        \/ /\ r.healthy /\ full /\ r.policy = "drop_newest"
           /\ fate' = [fate EXCEPT ![s] =
                         [routed EXCEPT !.dropped = @ \cup {e.id}]]
           /\ Becomes(<<Emit(s, "subscriber.overflow"), Kick(s), rest>>)
           /\ UNCHANGED <<sub, unhealthy>>
        \/ /\ r.healthy /\ ~full
           /\ sub' = [sub EXCEPT ![s].queue = Append(@, e)]
           /\ fate' = [fate EXCEPT ![s] = routed]
           /\ Becomes(<<Kick(s), rest>>)
           /\ UNCHANGED unhealthy

\* The next subscription in routing order, or the end of the routing.
RouteStep ==
    /\ ~Idle /\ Head(calls).do = "route"
    /\ LET c == Head(calls) IN
       \/ /\ c.to = {}
          /\ Becomes(<<>>)
          /\ UNCHANGED <<sub, unhealthy, fate>>
       \/ \E s \in c.to :
             /\ \A x \in c.to : <<x, s>> \notin before
             /\ Enqueue(s, c.event, Route(c.event, c.to \ {s}))
    /\ UNCHANGED <<live, before, tracker, link, seq>>

\* Variants of the two tests below: health is not looked at; no limit.
StalledIfEmpty(r) == r.queue = <<>>
NeverGivesUp(r) == FALSE

Stalled(r) == ~r.healthy \/ r.queue = <<>>
GivesUp(r) == r.failures + 1 >= MaxFailures

\* processQueue(): the queue is sent until it is empty, or the first send
\* throws for want of a transport. A send into a closed transport is lost
\* without an error. "top" is what is left of the stack below the call.
Process(s, top) ==
    LET r == [sub[s] EXCEPT !.retrying = FALSE]
        reachable == link[s[2]]
    IN  \/ /\ Stalled(r)
           /\ sub' = [sub EXCEPT ![s] = r]
           /\ calls' = top
           /\ UNCHANGED <<unhealthy, fate>>
        \/ /\ ~Stalled(r) /\ reachable
           /\ sub' = [sub EXCEPT ![s] = [r EXCEPT !.queue = <<>>, !.failures = 0]]
           /\ fate' = [fate EXCEPT ![s].handed = @ \o r.queue]
           /\ calls' = top
           /\ UNCHANGED unhealthy
        \/ /\ ~Stalled(r) /\ ~reachable /\ ~GivesUp(r)
           /\ sub' = [sub EXCEPT ![s] =
                        [r EXCEPT !.failures = @ + 1, !.retrying = TRUE]]
           /\ calls' = top
           /\ UNCHANGED <<unhealthy, fate>>
        \/ /\ ~Stalled(r) /\ ~reachable /\ GivesUp(r)
           /\ sub' = [sub EXCEPT ![s] = [r EXCEPT !.failures = @ + 1,
                                           !.healthy = FALSE, !.queue = <<>>]]
           /\ unhealthy' = unhealthy + 1
           /\ fate' = [fate EXCEPT ![s] = DeadLetter(@, ToSet(r.queue))]
           /\ calls' = <<Emit(s, "dlq.overflow"),
                         Emit(s, "subscriber.unhealthy")>> \o top

KickStep ==
    /\ ~Idle /\ Head(calls).do = "kick"
    /\ IF sub[Head(calls).s].retrying
       THEN Becomes(<<>>) /\ UNCHANGED <<sub, unhealthy, fate>>
       ELSE Process(Head(calls).s, Tail(calls))
    /\ UNCHANGED <<live, before, tracker, link, seq>>

\* emitOverflow(): at most one notice per plugin and kind in the window.
EmitStep ==
    /\ ~Idle /\ Head(calls).do = "emit"
    /\ LET n == Head(calls).notice
           key == <<Head(calls).s[2], n>>
       IN  IF tracker[key] = "fresh"
           THEN Becomes(<<>>) /\ UNCHANGED <<tracker, seq>>
           ELSE /\ tracker' = [tracker EXCEPT ![key] = "fresh"]
                /\ seq' = seq + 1
                /\ Becomes(<<Routing([id |-> seq + 1, topic |-> n], Runtime)>>)
    /\ UNCHANGED <<live, before, sub, unhealthy, link, fate>>

-----------------------------------------------------------------------------
(* What comes from outside, one message or timer at a time.                *)

Publish(p, t) ==
    /\ Idle /\ seq < MaxEvents
    /\ seq' = seq + 1
    /\ calls' = <<Routing([id |-> seq + 1, topic |-> t], p)>>
    /\ UNCHANGED <<live, before, sub, unhealthy, tracker, link, fate>>

\* Variant of RetryFires: the timer's callback does not go on delivering.
RetryForgets(s) ==
    /\ Idle /\ sub[s].retrying
    /\ sub' = [sub EXCEPT ![s].retrying = FALSE]
    /\ UNCHANGED <<live, before, unhealthy, tracker, calls, link, seq, fate>>

RetryFires(s) ==
    /\ Idle /\ sub[s].retrying
    /\ Process(s, <<>>)
    /\ UNCHANGED <<live, before, tracker, link, seq>>

\* The subscriptions routed to before a new one: those to its pattern, and
\* the patterns before that one; all of them when its pattern is new.
Earlier(s) ==
    LET same == {x \in live : x[1] = s[1]}
    IN  IF same = {} THEN live
        ELSE same \cup {x \in live : \E y \in same : <<x, y>> \in before}

Subscribe(s, policy) ==
    /\ Idle /\ s \notin live
    /\ live' = live \cup {s}
    /\ before' = before \cup (Earlier(s) \X {s})
                         \cup ({s} \X (live \ Earlier(s)))
    /\ sub' = [sub EXCEPT ![s] = NewState(policy)]
    /\ fate' = [fate EXCEPT ![s] = NoFate]
    /\ UNCHANGED <<unhealthy, tracker, calls, link, seq>>

\* Variant of Forget: the unhealthy ones stay counted.
ForgetUncounted(gone) ==
    /\ live' = live \ gone
    /\ before' = before \ ((gone \X Sub) \cup (Sub \X gone))
    /\ sub' = [s \in Sub |-> IF s \in gone THEN NewState("mark_unhealthy")
                             ELSE sub[s]]
    /\ fate' = [s \in Sub |-> IF s \in gone THEN NoFate ELSE fate[s]]
    /\ UNCHANGED unhealthy

\* cleanupSubscriber() and the counters, for the subscriptions in gone.
Forget(gone) ==
    /\ live' = live \ gone
    /\ before' = before \ ((gone \X Sub) \cup (Sub \X gone))
    /\ sub' = [s \in Sub |-> IF s \in gone THEN NewState("mark_unhealthy")
                             ELSE sub[s]]
    /\ unhealthy' = unhealthy - Cardinality({s \in gone : ~sub[s].healthy})
    /\ fate' = [s \in Sub |-> IF s \in gone THEN NoFate ELSE fate[s]]

Unsubscribe(s) ==
    /\ Idle /\ s \in live
    /\ Forget({s})
    /\ UNCHANGED <<tracker, calls, link, seq>>

\* removePlugin(), called when the plugin has left "ready" for good.
RemovePlugin(p) ==
    /\ Idle
    /\ Forget({s \in live : s[2] = p})
    /\ link' = [link EXCEPT ![p] = FALSE]
    /\ UNCHANGED <<tracker, calls, seq>>

\* The plugin becomes ready, or leaves "ready" and is not unloaded yet.
LinkChanges(p) ==
    /\ Idle
    /\ link' = [link EXCEPT ![p] = ~@]
    /\ UNCHANGED <<live, before, sub, unhealthy, tracker, calls, seq, fate>>

\* overflowCoalesceMs have passed since the last notice.
WindowEnds(p, n) ==
    /\ Idle /\ tracker[<<p, n>>] = "fresh" /\ seq <= MaxEvents
    /\ tracker' = [tracker EXCEPT ![<<p, n>>] = "old"]
    /\ UNCHANGED <<live, before, sub, unhealthy, calls, link, seq, fate>>

-----------------------------------------------------------------------------
RunCall == RouteStep \/ KickStep \/ EmitStep

Next ==
    \/ RouteStep \/ KickStep \/ EmitStep
    \/ \E p \in Plugin :
          \/ \E t \in Topic : Publish(p, t)
          \/ RemovePlugin(p)
          \/ LinkChanges(p)
          \/ \E n \in Notice : WindowEnds(p, n)
    \/ \E s \in Sub :
          \/ \E policy \in Asks[s] : Subscribe(s, policy)
          \/ Unsubscribe(s) \/ RetryFires(s)

Spec == Init /\ [][Next]_vars

\* Calls run to their end, and retry timers fire.
FairSpec ==
    Spec /\ WF_vars(RunCall) /\ \A s \in Sub : WF_vars(RetryFires(s))

-----------------------------------------------------------------------------
Event == [id : Nat, topic : Topic \cup Notice]

State == [queue : Seq(Event), healthy : BOOLEAN, failures : Nat,
          retrying : BOOLEAN, policy : Policy]

Fate == [routed : SUBSET Nat, handed : Seq(Event), dead : SUBSET Nat,
         dropped : SUBSET Nat]

Call == [do : {"route"}, event : Event, to : SUBSET Sub]
          \cup [do : {"kick"}, s : Sub]
          \cup [do : {"emit"}, s : Sub, notice : Notice]

TypeOK ==
    /\ live \subseteq Sub /\ before \subseteq live \X live
    /\ sub \in [Sub -> State]
    /\ \A s \in Sub : Len(sub[s].queue) <= Capacity
    /\ unhealthy \in Int
    /\ tracker \in [Plugin \X Notice -> {"none", "fresh", "old"}]
    /\ calls \in Seq(Call)
    /\ link \in [Plugin -> BOOLEAN]
    /\ seq \in Nat
    /\ fate \in [Sub -> Fate]

Ids(q) == {e.id : e \in ToSet(q)}

\* Per topic and subscription, events are handed over in publishing order and
\* never twice, retries, overflows and nested notices notwithstanding.
InOrder ==
    \A s \in Sub : LET h == fate[s].handed \o sub[s].queue IN
        \A i, j \in DOMAIN h :
            i < j /\ h[i].topic = h[j].topic /\ h[i].topic \in Topic
              => h[i].id < h[j].id

\* Every event routed to a subscription is in exactly one place.
NothingVanishes ==
    \A s \in Sub :
        LET f == fate[s] IN
        /\ f.routed = Ids(f.handed) \cup Ids(sub[s].queue) \cup f.dead \cup f.dropped
        /\ Cardinality(f.routed) =
             Len(f.handed) + Len(sub[s].queue) + Cardinality(f.dead)
               + Cardinality(f.dropped)

\* The counter in the statistics is the number of unhealthy subscriptions.
UnhealthyCount ==
    unhealthy = Cardinality({s \in Sub : ~sub[s].healthy})

\* Between two callbacks a healthy subscription with a backlog has its retry
\* timer running: no backlog waits for the next publication.
BacklogIsRetried ==
    Idle => \A s \in Sub :
        sub[s].healthy /\ sub[s].queue # <<>> => sub[s].retrying

\* Every backlog is delivered or given up.
BacklogEnds ==
    \A s \in Sub : (sub[s].healthy /\ sub[s].queue # <<>>)
                     ~> (sub[s].queue = <<>> \/ ~sub[s].healthy)

\* Each subscription behaves as EventChannel says.
Status(s) == IF s \notin live THEN "off" ELSE IF sub[s].healthy THEN "live" ELSE "failed"

Channel == INSTANCE EventChannel WITH
    status <- [s \in Sub |-> Status(s)],
    pending <- [s \in Sub |-> sub[s].queue],
    received <- [s \in Sub |-> fate[s].handed]

ImplementsChannel == Channel!Spec

\* docs/site/guide/data-and-events.md: failures are loud, not silently dropped.
\* A subscription given up keeps no event that nobody will look at again.
\* Not kept by the code: see the README.
UnhealthyKeepsNothing ==
    Idle => \A s \in Sub : ~sub[s].healthy => sub[s].queue = <<>>
=============================================================================
