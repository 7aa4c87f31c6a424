------------------------------ MODULE IterationLock ------------------------------
(***************************************************************************)
(* What the Redis lease promises to the passes it guards: the comment of   *)
(* RecruitingCommandDispatcher (recruiting-command-dispatcher.ts:120-123)  *)
(* asks that two containers never run a pass together.                     *)
(***************************************************************************)
CONSTANT Instances      \* the running containers of the bot

VARIABLE busy           \* the instances inside a pass

Init == busy = {}

\* An instance begins a pass when no other is in one.
Enter(i) ==
    /\ busy = {}
    /\ busy' = {i}

\* Its pass ends, or its process does.
Leave(i) ==
    /\ busy = {i}
    /\ busy' = {}

Next == \E i \in Instances : Enter(i) \/ Leave(i)

Spec == Init /\ [][Next]_busy
==================================================================================
