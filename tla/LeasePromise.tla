------------------------------ MODULE LeasePromise ------------------------------
(***************************************************************************)
(* The state of the lease that RedisLease runs, and what the passes of the *)
(* dispatchers count on: that two containers are never in one together.    *)
(***************************************************************************)
EXTENDS Integers

CONSTANTS
    Instances,      \* the running containers of the bot
    Free, Orphan,   \* no lease; a lease whose pass is gone
    TTL,            \* LEASE_TTL_MS
    Period,         \* LEASE_HEARTBEAT_MS and the delay of one renewal
    ReplyWithin,    \* the longest time an answered SET is on its way
    MaxLost         \* renewals in a row that do not reach Redis

\* The values the code chooses leave room for MaxLost lost renewals; no
\* container is named like the two values of the model.
ASSUME LeaseAssumption ==
    /\ TTL \in Nat /\ Period \in Nat /\ ReplyWithin \in Nat /\ MaxLost \in Nat
    /\ Period > 0 /\ ReplyWithin > 0
    /\ TTL > ReplyWithin + (MaxLost + 1) * Period
    /\ Free \notin Instances /\ Orphan \notin Instances /\ Free # Orphan

VARIABLES
    owner,          \* the token under the key: Redis
    ttl,            \* what is left of it; 0 is no expiry: Redis
    pc,             \* where each instance is in runOnce
    wait,           \* time until its SET is answered or it renews at the latest
    lost            \* its renewals lost since the last that arrived

-----------------------------------------------------------------------------
\* An instance works only while its own token is under the key: no renewal
\* lost, answer delayed, crash elsewhere or late release of another pass
\* takes the lease from under it.
WorksUnderLease == \A i \in Instances : pc[i] = "working" => owner = i

\* The lease implements the lock that the passes rely on.
Lock == INSTANCE IterationLock WITH busy <- {i \in Instances : pc[i] = "working"}
ImplementsLock == Lock!Spec

-----------------------------------------------------------------------------
\* The inductive invariant behind both: the lease outlives what may be lost
\* of its renewals.
LeaseLasts ==
    \A i \in Instances :
        /\ pc[i] = "granted" =>
            /\ owner = i
            /\ wait[i] <= ReplyWithin
            /\ ttl >= TTL - ReplyWithin + wait[i]
        /\ pc[i] = "working" =>
            /\ owner = i
            /\ wait[i] <= Period
            /\ ttl >= TTL - ReplyWithin - (lost[i] + 1) * Period + wait[i]
        /\ pc[i] = "idle" => owner # i
==================================================================================
