---------------------------- MODULE EventChannel ----------------------------
(***************************************************************************)
(* What the event bus promises for its subscriptions, a channel each:      *)
(* events are handed to the plugin once each and in the order in which     *)
(* they were accepted; an accepted event leaves the channel without being  *)
(* handed over only by displacement (drop_oldest), when the subscription   *)
(* fails, or when it ends. A failed subscription accepts and hands over    *)
(* nothing until it is made anew. The channels are independent: a step of  *)
(* the bus moves each of them by one of its steps, or leaves it alone.     *)
(***************************************************************************)
EXTENDS Integers, Sequences, SequencesExt

CONSTANTS
    Sub,          \* the subscriptions
    Capacity      \* their queue size

VARIABLES
    status,    \* "off", "live" or "failed"
    pending,   \* accepted, not yet handed over
    received   \* handed over since the subscription was made

chan == <<status, pending, received>>

Init ==
    \A s \in Sub : status[s] = "off" /\ pending[s] = <<>> /\ received[s] = <<>>

Open(s) ==
    /\ status[s] = "off" /\ status'[s] = "live"
    /\ pending'[s] = <<>> /\ received'[s] = <<>>

Close(s) ==
    /\ status[s] # "off" /\ status'[s] = "off"
    /\ pending'[s] = <<>> /\ received'[s] = <<>>

Accept(s) ==
    /\ status[s] = "live" /\ Len(pending[s]) < Capacity
    /\ pending'[s] # <<>> /\ Front(pending'[s]) = pending[s]
    /\ UNCHANGED <<status[s], received[s]>>

Displace(s) ==
    /\ status[s] = "live" /\ Len(pending[s]) = Capacity
    /\ pending'[s] # <<>> /\ Front(pending'[s]) = Tail(pending[s])
    /\ UNCHANGED <<status[s], received[s]>>

\* What is waiting is handed over, up to the first failure.
HandOver(s) ==
    /\ status[s] = "live" /\ pending[s] # <<>>
    /\ \E n \in 1..Len(pending[s]) :
          /\ received'[s] = received[s] \o SubSeq(pending[s], 1, n)
          /\ pending'[s] = SubSeq(pending[s], n + 1, Len(pending[s]))
    /\ UNCHANGED status[s]

Fail(s) ==
    /\ status[s] = "live" /\ status'[s] = "failed"
    /\ pending'[s] \in {pending[s], <<>>}
    /\ UNCHANGED received[s]

Stays(s) == UNCHANGED <<status[s], pending[s], received[s]>>

Next ==
    \A s \in Sub :
        \/ Open(s) \/ Close(s) \/ Accept(s) \/ Displace(s) \/ HandOver(s)
        \/ Fail(s) \/ Stays(s)

Spec == Init /\ [][Next]_chan
=============================================================================
