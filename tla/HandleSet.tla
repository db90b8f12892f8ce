----------------------------- MODULE HandleSet -----------------------------
(***************************************************************************)
(* What the handle tables promise, without slots: every context owns a set *)
(* of handles, each handle that it gives up is given up alone, and a       *)
(* context that is closed owns none and stays closed.                      *)
(***************************************************************************)
CONSTANTS Contexts, Handles

VARIABLES
    owned,   \* the handles that every context has to free
    closed   \* the contexts that have been disposed

vars == <<owned, closed>>

Init ==
    /\ owned = [c \in Contexts |-> {}]
    /\ closed = {}

Acquire(c, h) ==
    /\ c \notin closed
    /\ \A d \in Contexts : h \notin owned[d]
    /\ owned' = [owned EXCEPT ![c] = @ \cup {h}]
    /\ UNCHANGED closed

Release(c, h) ==
    /\ h \in owned[c]
    /\ owned' = [owned EXCEPT ![c] = @ \ {h}]
    /\ UNCHANGED closed

Close(c) ==
    /\ c \notin closed
    /\ owned[c] = {}
    /\ closed' = closed \cup {c}
    /\ UNCHANGED owned

Next ==
    \E c \in Contexts : Close(c) \/ \E h \in Handles : Acquire(c, h) \/ Release(c, h)

Spec == Init /\ [][Next]_vars

=============================================================================
