---------------------------- MODULE TurnService ----------------------------
(***************************************************************************)
(* What the model worker's proxy promises its callers, seen from outside:  *)
(* they are served one at a time and in the order in which they came.  A   *)
(* caller may be turned away at once, and the one at the head of the line  *)
(* may leave without having been served (the client was terminated).       *)
(***************************************************************************)
EXTENDS Sequences

CONSTANT Callers

VARIABLES
    line,    \* callers that came and have not left, in order
    serving, \* whether the head of the line is being served
    gone     \* callers that have left

vars == <<line, serving, gone>>

InLine(c) == \E i \in DOMAIN line : line[i] = c

Init == line = <<>> /\ serving = FALSE /\ gone = {}

New(c) == ~InLine(c) /\ c \notin gone

Join(c) ==
    /\ New(c)
    /\ line' = Append(line, c)
    /\ UNCHANGED <<serving, gone>>

TurnAway(c) ==
    /\ New(c)
    /\ gone' = gone \cup {c}
    /\ UNCHANGED <<line, serving>>

Serve ==
    /\ line # <<>>
    /\ ~serving
    /\ serving' = TRUE
    /\ UNCHANGED <<line, gone>>

Leave ==
    /\ line # <<>>
    /\ gone' = gone \cup {Head(line)}
    /\ line' = Tail(line)
    /\ serving' = FALSE

Next == Serve \/ Leave \/ \E c \in Callers : Join(c) \/ TurnAway(c)

Spec == Init /\ [][Next]_vars
=============================================================================
