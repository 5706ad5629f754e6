---------------------------- MODULE CoViewMirror ----------------------------
(***************************************************************************)
(* What the state channel of a Co-View session promises a viewer: after    *)
(* an opening picture, which may be anything, the screen shows states the  *)
(* host has had, each whole, and never an older one than before. A viewer  *)
(* that came back while an answer to its earlier self was under way is     *)
(* promised nothing until it closes.                                       *)
(***************************************************************************)
EXTENDS Naturals, Sequences, SequencesExt

CONSTANT State

VARIABLES
    history,    \* the states the host has had
    mode,       \* "dark", "open" or "astray"
    version,    \* the position in history of what is shown, 0 at first
    screen

mirror == <<history, mode, version, screen>>

Init ==
    /\ history = <<>> /\ mode = "dark" /\ version = 0
    /\ screen \in State

Produce ==
    /\ history' # <<>> /\ Front(history') = history
    /\ UNCHANGED <<mode, version, screen>>

Open ==
    /\ mode = "dark" /\ mode' = "open"
    /\ version' = 0 /\ screen' \in State
    /\ UNCHANGED history

Show ==
    /\ mode = "open"
    /\ \E n \in version + 1 .. Len(history) :
          version' = n /\ screen' = history[n]
    /\ UNCHANGED <<history, mode>>

Stray ==
    /\ mode = "open" /\ mode' = "astray"
    /\ version' = 0 /\ screen' \in State
    /\ UNCHANGED history

Close ==
    /\ mode # "dark" /\ mode' = "dark"
    /\ version' = 0 /\ screen' \in State
    /\ UNCHANGED history

Next == Produce \/ Open \/ Show \/ Stray \/ Close

Spec == Init /\ [][Next]_mirror
=============================================================================
