----------------------------- MODULE SingleFlight ------------------------------
(***************************************************************************)
(* What the callers of an operation are promised whose promise is kept     *)
(* under a key while it is pending, and no more: one of them does the work *)
(* of a key, those that come meanwhile wait for it, and when it settles    *)
(* nobody is left waiting.  authenticate() does so by connection, the      *)
(* token provider by window, and the inline provider for all its calls:    *)
(* what the work is, and how it ends or fails, is the matter of their own  *)
(* modules.                                                                *)
(***************************************************************************)
CONSTANTS
    Keys,   \* what the calls are shared by
    Calls   \* the calls

VARIABLES
    pending,  \* the keys a promise is kept under
    working,  \* working[k]: the calls that do the work of k
    waiting   \* waiting[k]: the calls that wait for it

Init ==
    /\ pending = {}
    /\ working = [k \in Keys |-> {}]
    /\ waiting = [k \in Keys |-> {}]

Same(k) ==
    /\ k \in pending' <=> k \in pending
    /\ working'[k] = working[k]
    /\ waiting'[k] = waiting[k]

\* c finds no promise, and does the work.
Begin(k, c) ==
    /\ k \notin pending /\ working[k] = {} /\ waiting[k] = {}
    /\ k \in pending' /\ working'[k] = {c} /\ waiting'[k] = {}

\* c finds one, and waits.
Join(k, c) ==
    /\ k \in pending /\ c \notin working[k]
    /\ k \in pending' /\ working'[k] = working[k]
    /\ waiting'[k] = waiting[k] \cup {c}

\* The work is done, has failed, or is lost with the window, for all of them.
Settle(k) ==
    /\ k \in pending
    /\ k \notin pending' /\ working'[k] = {} /\ waiting'[k] = {}

Step(k) == Same(k) \/ Settle(k) \/ \E c \in Calls : Begin(k, c) \/ Join(k, c)

Next == \A k \in Keys : Step(k)

Spec == Init /\ [][Next]_<<pending, working, waiting>>
=============================================================================
