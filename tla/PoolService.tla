---------------------------- MODULE PoolService ----------------------------
(***************************************************************************)
(* What a ServerPool of wsgi/prefork.py promises, without its processes    *)
(* and channels: connections wait in the listen queue; a connection is     *)
(* taken by a server only while the pool is open and fewer than limit are  *)
(* being served; a pool that discards on overload may refuse a waiting     *)
(* connection, one that stalls never does; and a pool that has closed      *)
(* takes nothing more and never opens again.                               *)
(***************************************************************************)
EXTENDS Naturals, FiniteSets

CONSTANTS
    Servers,  \* whoever may serve a connection
    limit,    \* how many connections are served at once
    stalls    \* TRUE if an overloaded pool leaves connections waiting

VARIABLES
    waiting,  \* number of connections in the listen queue
    serving,  \* the servers that hold a connection
    open      \* FALSE once the pool has begun to shut its servers down

vars == <<waiting, serving, open>>

Init == waiting = 0 /\ serving = {} /\ open = TRUE

Arrive == waiting' = waiting + 1 /\ UNCHANGED <<serving, open>>

TakeOne(s) ==
    /\ open /\ waiting > 0
    /\ s \notin serving /\ Cardinality(serving) < limit
    /\ waiting' = waiting - 1 /\ serving' = serving \cup {s}
    /\ UNCHANGED open

(* The connection of s is over, served or cut short. *)
Finish(s) ==
    /\ s \in serving
    /\ serving' = serving \ {s}
    /\ UNCHANGED <<waiting, open>>

Refuse ==
    /\ open /\ ~stalls /\ waiting > 0
    /\ waiting' = waiting - 1
    /\ UNCHANGED <<serving, open>>

Close == open /\ open' = FALSE /\ UNCHANGED <<waiting, serving>>

(* The end of the grace period: whoever still serves is stopped. *)
GiveUp == ~open /\ serving' = {} /\ UNCHANGED <<waiting, open>>

Next ==
    \/ Arrive \/ Refuse \/ Close \/ GiveUp
    \/ \E s \in Servers : TakeOne(s) \/ Finish(s)

Spec == Init /\ [][Next]_vars
=============================================================================
