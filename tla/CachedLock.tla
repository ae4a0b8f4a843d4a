------------------------------ MODULE CachedLock -------------------------------
(***************************************************************************)
(* What CachedResource promises its callers, and no more: of several calls *)
(* one at a time holds the lock, and the cached result changes only when a *)
(* holder leaves, and never back to an older one.  How the lock is kept,   *)
(* and that it is written over a storage without compare-and-set, is the   *)
(* matter of ResourceCache.                                                *)
(*                                                                         *)
(* The promise stands while nobody disturbs the entry from outside         *)
(* (orderly); once that has happened nothing is promised any more.         *)
(***************************************************************************)
EXTENDS Naturals

CONSTANT Calls     \* who may want the lock

VARIABLES
    orderly,  \* nobody has disturbed the entry yet
    holders,  \* the calls that hold the lock
    cached    \* the cached result, as the windows see it: numbers, newer ones greater

Init == orderly \in BOOLEAN /\ holders = {}

Take(c)  == holders = {} /\ holders' = {c} /\ UNCHANGED cached
\* The holder leaves, with a new result or without one.
Leave(c) ==
    /\ holders = {c} /\ holders' = {}
    /\ \A w \in DOMAIN cached : cached[w] <= cached'[w]

Disturb == ~orderly'

Next ==
    \/ Disturb
    \/ orderly /\ orderly' /\ \E c \in Calls : Take(c) \/ Leave(c)

Spec == Init /\ [][Next]_<<orderly, holders, cached>>
=============================================================================
