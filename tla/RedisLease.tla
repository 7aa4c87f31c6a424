------------------------------- MODULE RedisLease -------------------------------
(***************************************************************************)
(* The lease that keeps the passes of two containers of the bot apart: one *)
(* protocol, written out in recruiting-command-dispatcher.ts,              *)
(* schedule-notification-dispatcher.ts, announcement-commands.ts and       *)
(* worker.ts.  A pass begins with SET key token PX ttl NX, renews the      *)
(* lease on a timer, and ends with a compare-and-delete.                   *)
(*                                                                         *)
(* A token is drawn anew for every pass (process.pid, Date.now, random),   *)
(* so the model names it by the instance while that pass lives and Orphan  *)
(* once nobody is left to renew or delete it.                              *)
(*                                                                         *)
(* Time is counted in steps that stand for the units of TTL and Period.    *)
(* ioredis queues a call while Redis is away and resends it after a        *)
(* reconnection (core/redis.ts, maxRetriesPerRequest: null): a renewal may *)
(* be lost or late, and the SET resent after a lost answer is refused by   *)
(* the lease it took itself.                                               *)
(***************************************************************************)
EXTENDS LeasePromise

vars == <<owner, ttl, pc, wait, lost>>

Timed == {"granted", "working"}     \* places where the passing of time matters

TypeOK ==
    /\ owner \in Instances \cup {Free, Orphan}
    /\ ttl \in 0..TTL
    /\ pc \in [Instances -> Timed \cup {"idle", "ending"}]
    /\ wait \in [Instances -> Nat]
    /\ lost \in [Instances -> 0..MaxLost]

Init ==
    /\ owner = Free
    /\ ttl = 0
    /\ pc = [i \in Instances |-> "idle"]
    /\ wait = [i \in Instances |-> 0]
    /\ lost = [i \in Instances |-> 0]

Goto(i, place, time) ==
    /\ pc' = [pc EXCEPT ![i] = place]
    /\ wait' = [wait EXCEPT ![i] = time]

\* Mutant: SET NX without PX.
TakeForever(i) == owner' = i /\ ttl' = 0

Take(i) == owner' = i /\ ttl' = TTL

\* A timer starts a pass of i unless its last one still runs
\* (iterationInProgress); Redis executes the SET NX.
Ask(i) ==
    /\ pc[i] = "idle"
    /\ \/ /\ owner = Free
          /\ Take(i)
          /\ Goto(i, "granted", ReplyWithin)
       \/ /\ owner # Free
          /\ Goto(i, "ending", 0)
          /\ UNCHANGED <<owner, ttl>>
    /\ UNCHANGED lost

\* The answer "OK" arrives: the timer of the renewals starts, then the work.
Begin(i) ==
    /\ pc[i] = "granted"
    /\ Goto(i, "working", Period)
    /\ lost' = [lost EXCEPT ![i] = 0]
    /\ UNCHANGED <<owner, ttl>>

\* The answer is lost; the SET sent again finds the key taken.
AnswerLost(i) ==
    /\ pc[i] = "granted"
    /\ Goto(i, "ending", 0)
    /\ UNCHANGED <<owner, ttl, lost>>

\* Mutant: a renewal that only compares.
RenewNothing(i) ==
    /\ pc[i] = "working"
    /\ wait' = [wait EXCEPT ![i] = Period]
    /\ lost' = [lost EXCEPT ![i] = 0]
    /\ UNCHANGED <<owner, ttl, pc>>

\* The timer renews: compare, then PEXPIRE.  The pass ignores the answer.
Renew(i) ==
    /\ pc[i] = "working"
    /\ ttl' = IF owner = i THEN TTL ELSE ttl
    /\ wait' = [wait EXCEPT ![i] = Period]
    /\ lost' = [lost EXCEPT ![i] = 0]
    /\ UNCHANGED <<owner, pc>>

\* The renewal does not reach Redis: an error that is only logged.
LoseRenewal(i) ==
    /\ pc[i] = "working"
    /\ lost[i] < MaxLost
    /\ wait' = [wait EXCEPT ![i] = Period]
    /\ lost' = [lost EXCEPT ![i] = @ + 1]
    /\ UNCHANGED <<owner, ttl, pc>>

\* The work is over or has thrown: the timer of the renewals stops.
Finish(i) ==
    /\ pc[i] = "working"
    /\ Goto(i, "ending", 0)
    /\ UNCHANGED <<owner, ttl, lost>>

\* Mutant: DEL without a comparison.
DeleteAlways(i) ==
    /\ pc[i] = "ending"
    /\ Goto(i, "idle", 0)
    /\ owner' = Free /\ ttl' = 0
    /\ UNCHANGED lost

\* Compare, then DEL, in one script.
Release(i) ==
    /\ pc[i] = "ending"
    /\ Goto(i, "idle", 0)
    /\ \/ owner = i /\ owner' = Free /\ ttl' = 0
       \/ owner # i /\ UNCHANGED <<owner, ttl>>
    /\ UNCHANGED lost

\* The next pass has another token.
Abandon(i) == owner' = IF owner = i THEN Orphan ELSE owner

\* The script does not reach Redis: an error that is only logged.
LoseRelease(i) ==
    /\ pc[i] = "ending"
    /\ Goto(i, "idle", 0)
    /\ Abandon(i)
    /\ UNCHANGED <<ttl, lost>>

\* The process dies anywhere in a pass and is started again.
Crash(i) ==
    /\ pc[i] # "idle"
    /\ Goto(i, "idle", 0)
    /\ Abandon(i)
    /\ UNCHANGED <<ttl, lost>>

\* Time passes; Redis drops the key when its time is over.
Tick ==
    /\ \A i \in Instances : pc[i] \in Timed => wait[i] > 0
    /\ wait' = [i \in Instances |-> IF pc[i] \in Timed THEN wait[i] - 1 ELSE wait[i]]
    /\ ttl' = IF ttl > 0 THEN ttl - 1 ELSE 0
    /\ owner' = IF ttl = 1 THEN Free ELSE owner
    /\ UNCHANGED <<pc, lost>>

Next ==
    \/ Tick
    \/ \E i \in Instances :
        \/ Ask(i) \/ Begin(i) \/ AnswerLost(i)
        \/ Renew(i) \/ LoseRenewal(i) \/ Finish(i)
        \/ Release(i) \/ LoseRelease(i) \/ Crash(i)

Spec == Init /\ [][Next]_vars

\* Time goes on, an answer comes or not, and the timer of a process that
\* lives fires.  Nothing is assumed of the work, the releases or new passes.
FairSpec ==
    /\ Spec
    /\ WF_vars(Tick)
    /\ \A i \in Instances :
        /\ WF_vars(Begin(i) \/ AnswerLost(i))
        /\ WF_vars(Renew(i) \/ LoseRenewal(i))

-----------------------------------------------------------------------------
\* A lease nobody is left to release is free again in the end, so that one
\* crash or lost release never stops the passes for good.
LeaseIsFreed == owner = Orphan ~> owner = Free
==================================================================================
