----------------------------- MODULE SweepLock ------------------------------
(***************************************************************************)
(* What the overlap guard of nd-rating-sync promises, without the record   *)
(* and without time: a lock that one sweep at a time holds over all its    *)
(* callbacks, while it works and while it waits for the next one.          *)
(***************************************************************************)
CONSTANT Chains

VARIABLES
    holder,      \* the sweep under way: at most one chain
    working      \* is one of its callbacks running?

lockVars == <<holder, working>>

Init == holder = {} /\ working = FALSE

\* A trigger takes up a sweep; only a free lock can be taken.
Acquire(c) == holder = {} /\ holder' = {c} /\ working' = TRUE

\* The callback hands over to a continuation and keeps the lock.
HandOver == working /\ working' = FALSE /\ UNCHANGED holder

Resume == holder # {} /\ ~working /\ working' = TRUE /\ UNCHANGED holder

\* The sweep completes, crashes or is given up.
Release == holder # {} /\ holder' = {} /\ working' = FALSE

Next == (\E c \in Chains : Acquire(c)) \/ HandOver \/ Resume \/ Release

Spec == Init /\ [][Next]_lockVars

=============================================================================
