------------------------------ MODULE DeliveryLedger ------------------------------
(***************************************************************************)
(* What an outbox of the web app promises whoever reads its messages,      *)
(* without passes, leases or lost calls: a row is told once, once more for *)
(* each excuse it has, and a row is delivered only after it was told.      *)
(***************************************************************************)
EXTENDS Integers

CONSTANT Rows       \* the rows of the outbox

VARIABLES
    silent,         \* the rows that count as delivered without a message
    status,         \* what the outbox says of each row
    sent,           \* how often a person was told of it
    excuses         \* how often telling her again could not be avoided
vars == <<silent, status, sent, excuses>>

Init ==
    /\ silent \subseteq Rows
    /\ status = [r \in Rows |-> "NONE"]
    /\ sent = [r \in Rows |-> 0]
    /\ excuses = [r \in Rows |-> 0]

\* One message tells of all rows of told; the rows of excused gain an excuse.
Tell(told, excused) ==
    /\ \A r \in told : sent[r] <= excuses[r]
    /\ sent' = [r \in Rows |-> IF r \in told THEN sent[r] + 1 ELSE sent[r]]
    /\ excuses' = [r \in Rows |-> IF r \in excused THEN excuses[r] + 1 ELSE excuses[r]]
    /\ UNCHANGED <<silent, status>>

\* A row is offered, offered again, given up or delivered; a delivered row
\* stays delivered.
Settle(r, outcome) ==
    /\ status[r] # "DELIVERED"
    /\ outcome = "DELIVERED" => sent[r] > 0 \/ r \in silent
    /\ status' = [status EXCEPT ![r] = outcome]
    /\ UNCHANGED <<silent, sent, excuses>>

Next ==
    \/ \E told, excused \in SUBSET Rows : Tell(told, excused)
    \/ \E r \in Rows : \E outcome \in {"PENDING", "FAILED", "DELIVERED"} : Settle(r, outcome)

Spec == Init /\ [][Next]_vars
=============================================================================
