------------------------------- MODULE MessageOutbox ------------------------------
(***************************************************************************)
(* The four outboxes of the web app that the bot empties into Telegram:    *)
(*   schedule      schedule-notification-dispatcher.ts                     *)
(*   replacement   replacement-notification-dispatcher.ts                  *)
(*   recruiting    recruiting-message-delivery.ts                          *)
(*   shoot         shoot-alert-dispatcher.ts                               *)
(* They share no state, so a behaviour is about one of them: box.          *)
(*                                                                         *)
(* A pass fetches the pending rows, sends, and reports each row.  A call   *)
(* of the web app may be lost, a send may reach the phone and still be     *)
(* answered by an error, and a container may die between two awaits.       *)
(* Passes of schedule and recruiting hold a lease (RedisLease: one pass at *)
(* a time), those of shoot a flag of their container, and those of         *)
(* replacement nothing: setInterval starts the next one all the same.      *)
(*                                                                         *)
(* The outbox rows are external.  It is assumed that a row is written with *)
(* the change it tells of, that a failed row may be offered again, that a  *)
(* delivered row stays delivered, and that fewer rows are pending than the *)
(* page of a fetch (50 or 100 rows).                                       *)
(***************************************************************************)
EXTENDS Integers, FiniteSets

CONSTANTS
    Rows, People,
    Batches, NoBatch,   \* changes that were saved together, and a row of none
    Passes,         \* places for an open pass, see MayStart
    MaxTrouble      \* lost calls, errors, crashes and second offers together

ASSUME OutboxAssumption == IsFiniteSet(Passes) /\ MaxTrouble \in Nat

VARIABLES
    box,            \* the outbox of this behaviour
    form,           \* what each row is
    to,             \* whom it is about
    batch,          \* with which other changes it was saved
    status,         \* the outbox: the web app
    at,             \* the number of the change that wrote the row: the web app
    month,          \* how many changes a person's month has seen: the web app
    pass,           \* the local variables of each pass
    shown,          \* the month as her last message about it lists it: her chat
    sent,           \* messages about a row: her chat
    excuses,        \* reasons to tell of a row once more (history)
    synced,         \* reverts whose request was brought up to date
    trouble
vars == <<box, form, to, batch, status, at, month, pass, shown, sent, excuses, synced, trouble>>
row == <<box, form, to, batch>>

Boxes == {"schedule", "replacement", "recruiting", "shoot"}
Leased == {"schedule", "recruiting"}

\* What a row of each outbox can be.  An echo repeats her own tap; an unlinked
\* row has nobody to send it to: a person without Telegram, or no admin at all.
Forms ==
    [schedule    |-> {"normal", "urgent", "echo", "invalid", "unlinked"},
     replacement |-> {"normal", "revert", "invalid", "unlinked"},
     recruiting  |-> {"normal", "invalid"},
     shoot       |-> {"normal", "invalid", "unlinked"}]
Malformed == {r \in Rows : form[r] = "invalid"}
Echoes == {r \in Rows : form[r] = "echo"}
Unlinked == {r \in Rows : form[r] = "unlinked"}

\* Only the batch of a normal row of the schedule is ever looked at, and all
\* shoot alerts go to the one admin of the configuration, or to nobody.
Coherent ==
    /\ \A r \in Rows : batch[r] # NoBatch => box = "schedule" /\ form[r] = "normal"
    /\ box = "shoot" => Unlinked \in {{}, Rows \ Malformed}

NoMonth == -1       \* loadMonthContext failed: the text names the changes only
Idle == [pc |-> "idle", todo |-> {}, group |-> {}, sees |-> NoMonth, acks |-> {}, verdict |-> "DELIVERED", sync |-> {}]

Locals ==
    [pc : {"idle", "work", "send"}, todo : SUBSET Rows, group : SUBSET Rows, sees : Nat \cup {NoMonth},
     acks : SUBSET Rows, verdict : {"DELIVERED", "FAILED"}, sync : SUBSET Rows]

TypeOK ==
    /\ box \in Boxes
    /\ form \in [Rows -> Forms[box]]
    /\ to \in [Rows -> People]
    /\ batch \in [Rows -> Batches \cup {NoBatch}]
    /\ status \in [Rows -> {"NONE", "PENDING", "FAILED", "DELIVERED"}]
    /\ at \in [Rows -> Nat]
    /\ month \in [People -> Nat]
    /\ pass \in [Passes -> Locals]
    /\ shown \in [People -> Nat \cup {NoMonth}]
    /\ sent \in [Rows -> Nat]
    /\ excuses \in [Rows -> Nat]
    /\ synced \subseteq Rows
    /\ trouble \in 0..MaxTrouble

Init ==
    /\ box \in Boxes
    /\ form \in [Rows -> Forms[box]]
    /\ to \in [Rows -> People]
    /\ batch \in [Rows -> Batches \cup {NoBatch}]
    /\ Coherent
    /\ status = [r \in Rows |-> "NONE"]
    /\ at = [r \in Rows |-> 0]
    /\ month = [e \in People |-> 0]
    /\ pass = [p \in Passes |-> Idle]
    /\ shown = [e \in People |-> NoMonth]
    /\ sent = [r \in Rows |-> 0]
    /\ excuses = [r \in Rows |-> 0]
    /\ synced = {}
    /\ trouble = 0

Trouble == trouble < MaxTrouble /\ trouble' = trouble + 1
Smoothly == UNCHANGED trouble
Excuse(R) == excuses' = [r \in Rows |-> IF r \in R THEN excuses[r] + 1 ELSE excuses[r]]

-----------------------------------------------------------------------------
(* The web app *)

\* A change writes its row.
Offer(r) ==
    /\ status[r] = "NONE"
    /\ month' = [month EXCEPT ![to[r]] = @ + 1]
    /\ at' = [at EXCEPT ![r] = month[to[r]] + 1]
    /\ status' = [status EXCEPT ![r] = "PENDING"]
    /\ UNCHANGED <<row, pass, shown, sent, excuses, synced, trouble>>

\* The web app offers a failed row again.
OfferAgain(r) ==
    /\ status[r] = "FAILED"
    /\ Trouble
    /\ status' = [status EXCEPT ![r] = "PENDING"]
    /\ UNCHANGED <<row, at, month, pass, shown, sent, excuses, synced>>

-----------------------------------------------------------------------------
(* A pass of the bot *)

Set(p, local) == pass' = [pass EXCEPT ![p] = local]

Open(p) == pass[p].pc # "idle"
Unsent(p) == pass[p].todo \cup pass[p].group
Telling(p) == Unsent(p) \cup (IF pass[p].verdict = "DELIVERED" THEN pass[p].acks ELSE {})

\* Mutant: a lease that any pass gets.
StartsAnyway(p) == ~Open(p)

\* Two open passes are passes of two containers, or for replacement also of
\* one whose last pass takes longer than the interval.
MayStart(p) ==
    /\ ~Open(p)
    /\ box \in Leased => \A q \in Passes : ~Open(q)

Pending == {r \in Rows : status[r] = "PENDING"}

\* The rows of a fetch that the pass goes on with: groupForDelivery drops the
\* rows of people without Telegram, and nothing is ever reported of those.
Fetched == IF box = "schedule" THEN Pending \ Unlinked ELSE Pending

\* The pending rows are read.  A row that another pass is still about to
\* tell, or has told and not yet reported, will be told twice.
Fetch(p) ==
    /\ MayStart(p)
    /\ Fetched # {}
    /\ Set(p, [Idle EXCEPT !.pc = "work", !.todo = Fetched])
    /\ Excuse(Fetched \cap UNION {Telling(q) : q \in Passes})
    /\ UNCHANGED <<row, status, at, month, shown, sent, synced, trouble>>

Between(p) == pass[p].pc = "work" /\ pass[p].acks = {}

ToReport(p, R, outcome) ==
    Set(p, [pass[p] EXCEPT !.todo = @ \ R, !.acks = R, !.verdict = outcome])

\* Malformed rows are reported before any delivery; the recruiter's messages
\* are judged one by one.
InvalidNext(R) == IF box = "recruiting" THEN {{r} : r \in R} ELSE {R} \ {{}}
RetireInvalid(p) ==
    /\ Between(p)
    /\ \E R \in InvalidNext(pass[p].todo \cap Malformed) : ToReport(p, R, "FAILED")
    /\ UNCHANGED <<row, status, at, month, shown, sent, excuses, synced, trouble>>

Retired(p) == box = "recruiting" \/ pass[p].todo \cap Malformed = {}

\* Mutant: whatever is urgent counts as an echo.
ReportUrgentAsEcho(p) ==
    /\ Between(p) /\ Retired(p)
    /\ pass[p].todo \cap {r \in Rows : form[r] \in {"echo", "urgent"}} # {}
    /\ ToReport(p, pass[p].todo \cap {r \in Rows : form[r] \in {"echo", "urgent"}}, "DELIVERED")
    /\ UNCHANGED <<row, status, at, month, shown, sent, excuses, synced, trouble>>

\* The echo of her own tap is delivered without a message.
ReportEchoes(p) ==
    /\ Between(p) /\ Retired(p)
    /\ pass[p].todo \cap Echoes # {}
    /\ ToReport(p, pass[p].todo \cap Echoes, "DELIVERED")
    /\ UNCHANGED <<row, status, at, month, shown, sent, excuses, synced, trouble>>

\* Mutants: such a row is skipped, as in the schedule; it counts as delivered.
SkipWithoutRecipient(p) ==
    /\ Between(p) /\ Retired(p)
    /\ \E r \in pass[p].todo \cap Unlinked : Set(p, [pass[p] EXCEPT !.todo = @ \ {r}])
    /\ UNCHANGED <<row, status, at, month, shown, sent, excuses, synced, trouble>>
DeliverWithoutRecipient(p) ==
    /\ Between(p) /\ Retired(p)
    /\ \E r \in pass[p].todo \cap Unlinked : ToReport(p, {r}, "DELIVERED")
    /\ UNCHANGED <<row, status, at, month, shown, sent, excuses, synced, trouble>>

\* A replacement row without a recipient fails, and so does a shoot alert when
\* no admin is configured.
NoRecipient(p) ==
    /\ Between(p) /\ Retired(p)
    /\ \E r \in pass[p].todo \cap Unlinked : ToReport(p, {r}, "FAILED")
    /\ UNCHANGED <<row, status, at, month, shown, sent, excuses, synced, trouble>>

\* groupForDelivery: the rows of todo that share a message with r, which are
\* the normal ones of her that were saved in the same batch.
GroupOf(r, todo) ==
    IF batch[r] = NoBatch
    THEN {r}
    ELSE {s \in todo : batch[s] = batch[r] /\ form[s] = form[r] /\ to[s] = to[r]}

\* Mutant: a month read before the change was written.
MonthBefore(e) == {month[e] - 1, NoMonth}

\* loadMonthContext reads her whole month right before the send; it may fail.
MonthNow(e) == {month[e], NoMonth}

\* Mutant: the rows that join a group stay rows of their own.
TakeGroupOnly(p) ==
    /\ Between(p) /\ Retired(p)
    /\ pass[p].todo \cap Echoes = {}
    /\ \E r \in pass[p].todo \ (Malformed \cup Unlinked) :
        Set(p, [pass[p] EXCEPT !.pc = "send", !.group = GroupOf(r, pass[p].todo), !.todo = @ \ {r}])
    /\ UNCHANGED <<row, status, at, month, shown, sent, excuses, synced, trouble>>

\* The next group is taken up and its month read.
TakeGroup(p) ==
    /\ Between(p) /\ Retired(p)
    /\ pass[p].todo \cap Echoes = {}
    /\ \E r \in pass[p].todo \ (Malformed \cup Unlinked) :
        \E m \in IF box = "schedule" /\ form[r] = "normal" THEN MonthNow(to[r]) ELSE {NoMonth} :
            Set(p, [pass[p] EXCEPT !.pc = "send", !.group = GroupOf(r, pass[p].todo),
                                 !.todo = @ \ GroupOf(r, pass[p].todo), !.sees = m])
    /\ UNCHANGED <<row, status, at, month, shown, sent, excuses, synced, trouble>>

\* The message is on her phone; unless the change is urgent it lists the month.
Reaches(p) ==
    /\ sent' = [r \in Rows |-> IF r \in pass[p].group THEN sent[r] + 1 ELSE sent[r]]
    /\ shown' = [e \in People |->
        IF \E r \in pass[p].group : to[r] = e /\ form[r] = "normal" THEN pass[p].sees ELSE shown[e]]
Reports(p, outcome) ==
    Set(p, [pass[p] EXCEPT !.pc = "work", !.group = {}, !.acks = pass[p].group, !.verdict = outcome,
        !.sync = IF outcome = "DELIVERED" THEN @ \cup {r \in pass[p].group : form[r] = "revert"} ELSE @])

Send(p) ==
    /\ pass[p].pc = "send"
    /\ Reaches(p)
    /\ Reports(p, "DELIVERED")
    /\ UNCHANGED <<row, status, at, month, excuses, synced, trouble>>

\* Telegram refuses, or its answer is lost: all rows of the group are failed.
SendFails(p) ==
    /\ pass[p].pc = "send"
    /\ Trouble
    /\ \/ UNCHANGED <<sent, shown, excuses>>
       \/ Reaches(p) /\ Excuse(pass[p].group)
    /\ Reports(p, "FAILED")
    /\ UNCHANGED <<row, status, at, month, synced>>

Mark(r, outcome) ==
    status' = [status EXCEPT ![r] = IF @ = "DELIVERED" THEN @ ELSE outcome]

\* One row is reported; a report that fails is not repeated.
Report(p) ==
    \E r \in pass[p].acks :
        /\ Set(p, [pass[p] EXCEPT !.acks = @ \ {r}])
        /\ \/ Mark(r, pass[p].verdict) /\ UNCHANGED <<excuses, trouble>>
           \/ /\ Trouble
              /\ Excuse(IF pass[p].verdict = "DELIVERED" THEN {r} ELSE {})
              /\ UNCHANGED status
        /\ UNCHANGED <<row, at, month, shown, sent, synced>>

\* After all messages: the requests of the reverted acceptances, one by one;
\* a failure is swallowed.  Then the pass is over.
Sync(p) ==
    /\ Between(p) /\ pass[p].todo = {}
    /\ \E r \in pass[p].sync :
        /\ Set(p, [pass[p] EXCEPT !.sync = @ \ {r}])
        /\ \/ synced' = synced \cup {r} /\ Smoothly
           \/ Trouble /\ UNCHANGED synced
    /\ UNCHANGED <<row, status, at, month, shown, sent, excuses>>
Finish(p) ==
    /\ Between(p) /\ pass[p].todo = {} /\ pass[p].sync = {}
    /\ Set(p, Idle)
    /\ UNCHANGED <<row, status, at, month, shown, sent, excuses, synced, trouble>>

\* The container of a pass dies: nobody reports what the pass has told.
Crash(p) ==
    /\ Open(p)
    /\ Trouble
    /\ Set(p, Idle)
    /\ Excuse(IF pass[p].verdict = "DELIVERED" THEN pass[p].acks ELSE {})
    /\ UNCHANGED <<row, status, at, month, shown, sent, synced>>

Next ==
    \/ \E r \in Rows : Offer(r) \/ OfferAgain(r)
    \/ \E p \in Passes :
        \/ Fetch(p) \/ RetireInvalid(p) \/ ReportEchoes(p) \/ NoRecipient(p) \/ TakeGroup(p)
        \/ Send(p) \/ SendFails(p) \/ Report(p) \/ Sync(p) \/ Finish(p) \/ Crash(p)

\* The intervals of worker.ts start passes again and again, and a pass that
\* lives goes on.
Fairness ==
    /\ WF_vars(\E p \in Passes : Fetch(p))
    /\ \A p \in Passes :
        WF_vars(\/ RetireInvalid(p) \/ ReportEchoes(p) \/ NoRecipient(p) \/ TakeGroup(p)
                \/ Send(p) \/ Report(p) \/ Sync(p) \/ Finish(p))

Spec == Init /\ [][Next]_vars /\ Fairness

-----------------------------------------------------------------------------
(* What the outboxes promise *)

\* Nobody is told twice without a reason: every further message about a row
\* answers a lost report, a send whose answer was lost, a crash between send
\* and report, or a fetch beside a pass that had the row
\* (schedule-notification-dispatcher.ts 739-742, shoot-alert-dispatcher.ts 94).
DoubleSendHasReason == \A r \in Rows : sent[r] <= 1 + excuses[r]

\* What overlapping passes cost: each tells of a row at most once before the
\* row is settled, and every mishap allows one message more, whatever the order
\* of fetches, sends and reports.  Under a lease no passes overlap, and without
\* a mishap a row is told once (worker.ts 683-693, where replacement passes
\* overlap; schedule-notification-dispatcher.ts 739-742).
OneMessagePerPass ==
    \A r \in Rows : sent[r] <= (IF box \in Leased THEN 1 ELSE Cardinality(Passes)) + trouble

\* A delivered row was told before, but for the echo of her own tap, and the
\* request of a reverted acceptance is synced after the person read of it
\* (replacement-notification-dispatcher.ts 330).
TellFirst ==
    \A r \in Rows : (status[r] = "DELIVERED" /\ r \notin Echoes) \/ r \in synced => sent[r] > 0

\* Her last message about the month that lists it shows every change that was
\* reported delivered: an older month never follows a newer one
\* (schedule-notification-dispatcher.ts 666).
MonthIsCurrent ==
    \A r \in Rows :
        box = "schedule" /\ form[r] = "normal" /\ status[r] = "DELIVERED" =>
            shown[to[r]] = NoMonth \/ shown[to[r]] >= at[r]

\* Every offered row is delivered or failed in the end, but for those of
\* people without Telegram in the schedule's outbox, which nobody reports.
EveryRowSettles ==
    \A r \in Rows :
        status[r] = "PENDING" /\ ~(box = "schedule" /\ form[r] = "unlinked")
            ~> status[r] \in {"DELIVERED", "FAILED"}

\* The outboxes keep the promise of DeliveryLedger.
Ledger == INSTANCE DeliveryLedger WITH silent <- Echoes
KeepsLedger == Ledger!Spec
=============================================================================
