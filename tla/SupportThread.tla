------------------------------ MODULE SupportThread ------------------------------
(***************************************************************************)
(* The permanent topic of one photographer in the support group.           *)
(*   "her"     support-relay-service.ts, her private chat                  *)
(*   "album"   the timer that copies an album of hers when it is complete  *)
(*   "sup"     the support account; "kuz" an owner who may be called       *)
(*   "panel"   a message to her from the admin menu of the bot             *)
(*   "worker"  the daily pass and the move of old conversations            *)
(* The bot handles one update of a person and chat at a time, so each of   *)
(* them makes one await after the other, and they interleave.  Everyone    *)
(* decides by the thread as read at the start of the handler.  One album   *)
(* is under way at a time.                                                 *)
(***************************************************************************)
EXTENDS Integers, FiniteSets

CONSTANTS
    Questions, Thanks,  \* her messages; thanks need no answer
    Albums,             \* the questions that are albums
    Reports,            \* of her tasks, which the bot posts into her topic
    Scenes,             \* the messages and events of a behaviour, to choose from
    MaxTurns,           \* acts of the team, topics deleted by hand
    MaxFailures,        \* attempts to move an old conversation
    MaxTrouble          \* unsure sends, lapsed locks, failed writes and crashes together

Letters == Questions \cup Thanks \cup Reports

ASSUME SupportThreadAssumption ==
    /\ IsFiniteSet(Letters) /\ Questions \cap Thanks = {} /\ Reports \cap (Questions \cup Thanks) = {}
    /\ Albums \subseteq Questions
    /\ MaxTurns \in Nat /\ MaxFailures \in Nat \ {0} /\ MaxTrouble \in Nat

VARIABLES
    may,        \* the events of this behaviour
    employed,   \* staffProfile.isActive
    thread,     \* the SupportThread row
    lock,       \* support:conversation-lock of her
    legacy,     \* her old conversations, the redis keys of their move
    run,        \* the local variables of each handler
    clock,      \* for the comparison of lastQuestionAt and lastSupportAt
    turns,
    topics,     \* topics created
    gone,       \* topics deleted by hand
    crossed,    \* topics made for one that her other handler had replaced (history)
    letter,     \* her messages: to come, being handled, in a topic, or refused
    copies,     \* how often a message was copied into a topic (history)
    open,       \* has she a question that nobody answered? (history)
    told,       \* how often the old topic was told of the new one (history)
    trouble     \* what went wrong (history)
vars == <<may, employed, thread, lock, legacy, run, clock, turns, topics, gone, crossed, letter, copies, open, told, trouble>>

Team == {"sup", "kuz"}
Writers == {"her", "album"}
Handlers == Team \cup Writers \cup {"panel", "worker"}
Statuses == {"ANSWERED", "WAITING", "ESCALATED", "ARCHIVED"}
NoThread == [made |-> FALSE, topic |-> 0, status |-> "ANSWERED", to |-> "nobody",
             away |-> FALSE, noticed |-> FALSE, asked |-> 0, answered |-> 0]
ThreadType == [made : BOOLEAN, topic : Nat, status : Statuses, to : {"nobody", "kuz"},
               away : BOOLEAN, noticed : BOOLEAN, asked : Nat, answered : Nat]
Idle == [pc |-> "idle", act |-> "none", on |-> "none", was |-> NoThread, topic |-> 0, now |-> 0, moved |-> FALSE]
Locals ==
    [pc : {"idle", "ensure", "lock", "again", "create", "insert", "card", "ready", "notice", "copy", "move",
           "status", "settle", "away", "notes", "noted", "carry", "close"},
     act : {"none", "ask", "thank", "report", "reply", "thumb", "call", "back", "archive", "reactivate", "move"},
     on : Letters \cup {"none"}, was : ThreadType, topic : Nat, now : Nat, moved : BOOLEAN]
Troubles == {"unsure", "lapse", "record", "crash"}

TypeOK ==
    /\ employed \in BOOLEAN
    /\ thread \in ThreadType
    /\ lock \in Handlers \cup {"free", "dead"}
    /\ legacy \in [open : BOOLEAN, waits : BOOLEAN, noted : BOOLEAN, done : BOOLEAN, failures : 0..MaxFailures]
    /\ run \in [Handlers -> Locals]
    /\ clock \in Nat /\ turns \in 0..MaxTurns
    /\ topics \in Nat /\ gone \subseteq 1..topics
    /\ letter \in [Letters -> {"none", "handled", "kept", "refused"}]
    /\ copies \in [Letters -> Nat]
    /\ open \in {"no", "yes", "excused"}
    /\ told \in Nat
    /\ crossed \in Nat
    /\ trouble \in [Troubles -> 0..MaxTrouble]

Init ==
    /\ may \in Scenes
    /\ employed = TRUE
    /\ thread = NoThread
    /\ lock = "free"
    /\ legacy \in {[open |-> "legacy" \in may, waits |-> w, noted |-> FALSE, done |-> FALSE, failures |-> 0] : w \in BOOLEAN}
    /\ run = [a \in Handlers |-> Idle]
    /\ clock = 0 /\ turns = 0
    /\ topics = 0 /\ gone = {} /\ crossed = 0
    /\ letter = [l \in Letters |-> "none"]
    /\ copies = [l \in Letters |-> 0]
    /\ open = "no" /\ told = 0
    /\ trouble = [k \in Troubles |-> 0]

At(a, pc) == run[a].pc = pc
Set(a, local) == run' = [run EXCEPT ![a] = local]
Goto(a, pc) == Set(a, [run[a] EXCEPT !.pc = pc])
\* A handler goes on with the thread it has, from what it was ready for.
Has(a, row, pc) == Set(a, [run[a] EXCEPT !.pc = pc, !.was = row])
Alive(t) == t \in 1..topics /\ t \notin gone
SoFar == trouble["unsure"] + trouble["lapse"] + trouble["record"] + trouble["crash"]
Trouble(k) == k \in may /\ SoFar < MaxTrouble /\ trouble' = [trouble EXCEPT ![k] = @ + 1]
Smoothly == UNCHANGED trouble
world == <<may, employed>>
records == <<clock, turns, told>>

-----------------------------------------------------------------------------
(* The status of a thread: nextStatus of support-thread-format.ts *)

State(status, to) == [status |-> status, to |-> to]

Same(s) == State(s.status, s.to)

\* Mutant: a question ends the call.
QuestionEndsCall(s) == State("WAITING", "nobody")

\* A question is the owner's as long as he is called.
AfterQuestion(s) == IF s.status = "ESCALATED" THEN Same(s) ELSE State("WAITING", "nobody")

\* An answer of somebody else leaves the call open.
AfterAnswer(s, who) ==
    IF s.status = "ARCHIVED" \/ (s.status = "ESCALATED" /\ s.to # who) THEN Same(s)
    ELSE State("ANSWERED", "nobody")

\* Mutant: a thread given back counts as answered.
BackIsAnswer(s) == State("ANSWERED", "nobody")

\* Given back by the owner: she waits if nobody has answered since.
AfterBack(s) == State(IF s.asked > s.answered THEN "WAITING" ELSE "ANSWERED", "nobody")

\* The status after the act of handler a, by the thread it has read.
NextStatus(a, s) ==
    LET act == run[a].act
    IN  CASE act \in {"ask", "move"} -> AfterQuestion(s)
          [] act \in {"thank", "report"} -> Same(s)
          [] act \in {"reply", "thumb"} -> AfterAnswer(s, IF a = "panel" THEN "sup" ELSE a)
          [] act = "call" -> State("ESCALATED", "kuz")
          [] act = "back" -> AfterBack(s)
          [] act = "archive" -> State("ARCHIVED", "nobody")
          [] act = "reactivate" -> IF s.status = "ARCHIVED" THEN State("ANSWERED", "nobody") ELSE Same(s)

\* applyStatus: nothing is written when nothing changes.
Applied(a) ==
    LET s == run[a].was
        next == NextStatus(a, s)
    IN  IF next = Same(s) THEN thread
        ELSE [thread EXCEPT !.status = next.status, !.to = next.to]

-----------------------------------------------------------------------------
(* The topic is created once: ensureThread *)

\* What the handler is to do once it has the thread.
Ready(a) ==
    CASE a \in Writers -> IF a = "album" \/ run[a].act = "report" THEN "copy" ELSE "notice"
      [] a = "worker" -> "notes"
      [] OTHER -> "ready"

\* Mutant: a failed move is not counted.
GiveUpUncounted(a) ==
    /\ Set(a, Idle)
    /\ letter' = IF a \in Writers THEN [letter EXCEPT ![run[a].on] = "refused"] ELSE letter
    /\ UNCHANGED legacy

\* The handler gives up: she is told so, or a failed move is counted.
GivesUp(a) ==
    /\ Set(a, Idle)
    /\ letter' = IF a \in Writers THEN [letter EXCEPT ![run[a].on] = "refused"] ELSE letter
    /\ legacy' = IF a = "worker" THEN [legacy EXCEPT !.failures = @ + 1] ELSE legacy

Release(a) == lock' = IF lock = a THEN "free" ELSE lock

EnsureThread(a) ==
    /\ At(a, "ensure")
    /\ IF thread.made THEN Has(a, thread, Ready(a)) ELSE Goto(a, "lock")
    /\ Smoothly
    /\ UNCHANGED <<world, thread, lock, legacy, records, topics, gone, crossed, letter, copies, open>>

TakeLock(a) ==
    /\ At(a, "lock") /\ lock = "free"
    /\ lock' = a
    /\ Goto(a, "again")
    /\ Smoothly
    /\ UNCHANGED <<world, thread, legacy, records, topics, gone, crossed, letter, copies, open>>

\* Somebody else creates it: its row is waited for, for a while.
FindCreated(a) ==
    /\ At(a, "lock") /\ lock # "free" /\ thread.made
    /\ Has(a, thread, Ready(a))
    /\ Smoothly
    /\ UNCHANGED <<world, thread, lock, legacy, records, topics, gone, crossed, letter, copies, open>>

StopWaiting(a) ==
    /\ At(a, "lock") /\ lock \notin {"free", a} /\ ~thread.made
    /\ GivesUp(a)
    /\ Smoothly
    /\ UNCHANGED <<world, thread, lock, records, topics, gone, crossed, copies, open>>

\* Mutant: the thread is not read again under the lock.
CreateUnseen(a) ==
    /\ At(a, "again")
    /\ Goto(a, "create") /\ UNCHANGED lock
    /\ Smoothly
    /\ UNCHANGED <<world, thread, legacy, records, topics, gone, crossed, letter, copies, open>>

LookAgain(a) ==
    /\ At(a, "again")
    /\ IF thread.made THEN Has(a, thread, Ready(a)) /\ Release(a) ELSE Goto(a, "create") /\ UNCHANGED lock
    /\ Smoothly
    /\ UNCHANGED <<world, thread, legacy, records, topics, gone, crossed, letter, copies, open>>

CreateTopic(a) ==
    /\ At(a, "create")
    /\ topics' = topics + 1
    /\ Set(a, [run[a] EXCEPT !.pc = "insert", !.topic = topics + 1])
    /\ Smoothly
    /\ UNCHANGED <<world, thread, lock, legacy, records, gone, crossed, letter, copies, open>>

CreateFails(a) ==
    /\ At(a, "create") \/ At(a, "card")
    /\ GivesUp(a) /\ Release(a)
    /\ Smoothly
    /\ UNCHANGED <<world, thread, records, topics, gone, crossed, copies, open>>

\* The row is unique for her.
InsertThread(a) ==
    /\ At(a, "insert")
    /\ IF thread.made THEN GivesUp(a) /\ Release(a) /\ UNCHANGED thread
         ELSE /\ thread' = [NoThread EXCEPT !.made = TRUE, !.topic = run[a].topic]
              /\ Goto(a, "card")
              /\ UNCHANGED <<lock, letter, legacy>>
    /\ Smoothly
    /\ UNCHANGED <<world, records, topics, gone, crossed, copies, open>>

PublishCard(a) ==
    /\ At(a, "card")
    /\ Has(a, thread, Ready(a)) /\ Release(a)
    /\ Smoothly
    /\ UNCHANGED <<world, thread, legacy, records, topics, gone, crossed, letter, copies, open>>

-----------------------------------------------------------------------------
(* Her message: relayStaffMessage *)

Others(w) == Handlers \ {w}
\* Whoever begins while a question of hers is being noted may lose it.
Busy == IF \E w \in Writers : run[w].pc \in {"status", "settle"} /\ open = "yes" THEN "excused" ELSE open

ActOf(l) == IF l \in Questions THEN "ask" ELSE IF l \in Thanks THEN "thank" ELSE "report"
Write(l) ==
    /\ At("her", "idle") /\ letter[l] = "none" /\ l \in may
    /\ letter' = [letter EXCEPT ![l] = "handled"]
    /\ Set("her", [Idle EXCEPT !.pc = "ensure", !.on = l, !.act = ActOf(l)])
    /\ open' = Busy
    /\ Smoothly
    /\ UNCHANGED <<world, thread, lock, legacy, records, topics, gone, crossed, copies>>

\* The first message of a day reads the thread anew as it stamps the day.
NoticeIfAway ==
    /\ At("her", "notice")
    /\ thread' = [thread EXCEPT !.noticed = TRUE]
    /\ Has("her", IF run["her"].was.noticed THEN run["her"].was ELSE thread', "copy")
    /\ Smoothly
    /\ UNCHANGED <<world, lock, legacy, records, topics, gone, crossed, letter, copies, open>>

\* An album is left to its timer, which reads the thread anew.
KeepForAlbum ==
    /\ At("her", "copy") /\ run["her"].on \in Albums /\ At("album", "idle")
    /\ run' = [run EXCEPT !["her"] = Idle,
                         !["album"] = [Idle EXCEPT !.pc = "ensure", !.on = run["her"].on, !.act = "ask"]]
    /\ Smoothly
    /\ UNCHANGED <<world, thread, lock, legacy, records, topics, gone, crossed, letter, copies, open>>

\* What she writes after an album waits until that is in the topic.
Copying(w) ==
    /\ At(w, "copy") /\ (run[w].on \in Albums <=> w = "album")
    /\ w = "her" /\ run[w].act # "report" => At("album", "idle")

\* A question that crosses somebody's handling of the thread may be lost on them.
CopyIntoTopic(w) ==
    LET l == run[w].on
        alone == (\A a \in Others(w) : At(a, "idle")) /\ run[w].was.status = thread.status
    IN  /\ Copying(w) /\ Alive(run[w].was.topic)
        /\ copies' = [copies EXCEPT ![l] = @ + 1]
        /\ letter' = [letter EXCEPT ![l] = "kept"]
        /\ open' = IF l \notin Questions THEN open ELSE IF alone THEN "yes" ELSE "excused"
        /\ Goto(w, "status")
        /\ Smoothly
        /\ UNCHANGED <<world, thread, lock, legacy, records, topics, gone, crossed>>

\* Mutant: she is told of a failure after the message has arrived.
FailAfterCopy(w) ==
    /\ Copying(w)
    /\ GivesUp(w)
    /\ copies' = [copies EXCEPT ![run[w].on] = @ + 1]
    /\ Smoothly
    /\ UNCHANGED <<world, thread, lock, records, topics, gone, crossed, open>>

CopyFails(w) ==
    /\ Copying(w)
    /\ GivesUp(w)
    /\ Smoothly
    /\ UNCHANGED <<world, thread, lock, records, topics, gone, crossed, copies, open>>

\* It arrived and failed: tried once more without the quote, or given up.
CopyUnsure(w) ==
    /\ Copying(w) /\ Alive(run[w].was.topic)
    /\ Trouble("unsure")
    /\ copies' = [copies EXCEPT ![run[w].on] = @ + 1]
    /\ \/ GivesUp(w)
       \/ UNCHANGED <<run, letter, legacy>>
    /\ UNCHANGED <<world, thread, lock, records, topics, gone, crossed, open>>

\* The topic was deleted by hand: a new one, once for her message and once for
\* what is posted before it.  Her other handler may have made one already.
RecreateTopic(w) ==
    LET me == run[w]
        replaced == me.was.topic # thread.topic \/ \E v \in Writers : At(v, "move")
    IN  /\ At(w, "copy") /\ ~Alive(me.was.topic) /\ ~me.moved
        /\ topics' = topics + 1
        /\ crossed' = IF replaced THEN crossed + 1 ELSE crossed
        /\ \E spent \in BOOLEAN :
              /\ IF spent THEN Copying(w) ELSE "context" \in may /\ w = "her"
              /\ Set(w, [me EXCEPT !.pc = "move", !.topic = topics + 1, !.moved = spent])
        /\ Smoothly
        /\ UNCHANGED <<world, thread, lock, legacy, records, gone, letter, copies, open>>

MoveThread(w) ==
    /\ At(w, "move")
    /\ thread' = [thread EXCEPT !.topic = run[w].topic]
    /\ Has(w, thread', "copy")
    /\ Smoothly
    /\ UNCHANGED <<world, lock, legacy, records, topics, gone, crossed, letter, copies, open>>

-----------------------------------------------------------------------------
(* The team: relaySupportMessage, relayReaction, the buttons of the card *)

MayAct(a) == At(a, "idle") /\ turns < MaxTurns
Acting == IF "call" \in may THEN Team ELSE {"sup"}
Begins(a, act, row, pc) ==
    /\ Set(a, [Idle EXCEPT !.pc = pc, !.act = act, !.was = row])
    /\ turns' = turns + 1
    /\ open' = Busy
    /\ Smoothly
    /\ UNCHANGED <<world, thread, lock, legacy, clock, told, topics, gone, crossed, letter, copies>>

\* A message in her topic, or in an old topic of hers.
Reply(a) == a \in Acting /\ MayAct(a) /\ thread.made /\ Alive(thread.topic) /\ Begins(a, "reply", thread, "ready")
ReplyInOldTopic(a) == a \in Acting /\ MayAct(a) /\ "legacy" \in may /\ Begins(a, "reply", NoThread, "ensure")
ThumbsUp(a) == a \in Acting /\ MayAct(a) /\ thread.made /\ (\E l \in Letters : copies[l] > 0) /\ Begins(a, "thumb", thread, "status")
Call == MayAct("sup") /\ "call" \in may /\ thread.made /\ Begins("sup", "call", thread, "status")
Back(a) == a \in Acting /\ MayAct(a) /\ "call" \in may /\ thread.status = "ESCALATED" /\ Begins(a, "back", thread, "status")
SendFromPanel == "panel" \in may /\ MayAct("panel") /\ Begins("panel", "reply", NoThread, "ensure")

\* The reply reaches her, or the team is told that it did not.
Deliver(a) ==
    /\ At(a, "ready")
    /\ open' = IF open = "yes" THEN "no" ELSE open
    /\ Goto(a, "status")
    /\ Smoothly
    /\ UNCHANGED <<world, thread, lock, legacy, records, topics, gone, crossed, letter, copies>>

DeliveryFails(a) ==
    /\ At(a, "ready")
    /\ Set(a, Idle)
    /\ Smoothly
    /\ UNCHANGED <<world, thread, lock, legacy, records, topics, gone, crossed, letter, copies, open>>

-----------------------------------------------------------------------------
(* After the delivery: applyStatus, afterStaffDelivery, afterSupportDelivery *)

\* now is read before the status of her message is written, and after that of
\* a reply.
ApplyStatus(a) ==
    /\ At(a, "status")
    /\ thread' = Applied(a)
    /\ IF run[a].act \in {"ask", "thank"}
         THEN clock' = clock + 1 /\ Set(a, [run[a] EXCEPT !.pc = "settle", !.now = clock + 1])
         ELSE /\ UNCHANGED clock
              /\ CASE run[a].act = "reply" -> Goto(a, "settle")
                   [] run[a].act = "archive" /\ ~run[a].was.away -> Goto(a, "away")
                   [] OTHER -> Set(a, Idle)
    /\ open' = IF run[a].act = "thumb" /\ open = "yes" THEN "no" ELSE open
    /\ Smoothly
    /\ UNCHANGED <<world, lock, legacy, turns, told, topics, gone, crossed, letter, copies>>

\* The database refuses what follows a copy or an answer that has arrived.
WriteFails(a) ==
    /\ At(a, "status") \/ At(a, "settle")
    /\ Trouble("record")
    /\ Set(a, Idle)
    /\ open' = IF a \in Writers THEN Busy ELSE open
    /\ UNCHANGED <<world, thread, lock, legacy, records, topics, gone, crossed, letter, copies>>

Settle(a) ==
    /\ At(a, "settle")
    /\ IF run[a].act = "reply"
         THEN clock' = clock + 1 /\ thread' = [thread EXCEPT !.answered = clock + 1]
         ELSE UNCHANGED clock /\ thread' = IF run[a].act = "ask" THEN [thread EXCEPT !.asked = run[a].now] ELSE thread
    /\ Set(a, Idle)
    /\ Smoothly
    /\ UNCHANGED <<world, lock, legacy, turns, told, topics, gone, crossed, letter, copies, open>>

-----------------------------------------------------------------------------
(* The worker: archiveInactive, migrateLegacyConversations *)

Works(local) ==
    /\ Set("worker", local)
    /\ open' = Busy
    /\ Smoothly
    /\ UNCHANGED <<world, lock, records, topics, gone, crossed, letter, copies>>

DailyPass ==
    LET does(act, pc) == Works([Idle EXCEPT !.pc = pc, !.act = act, !.was = thread])
    IN  /\ "leave" \in may /\ At("worker", "idle") /\ thread.made
        /\ UNCHANGED legacy
        /\ \/ /\ employed /\ (thread.away \/ thread.status = "ARCHIVED")
              /\ does("reactivate", "away")
              /\ UNCHANGED thread
           \/ /\ ~employed /\ thread.away /\ thread.status = "ANSWERED"
              /\ does("archive", "status")
              /\ UNCHANGED thread
           \* She waits for an answer: her question is not hidden.
           \/ /\ ~employed /\ ~thread.away /\ thread.status \in {"WAITING", "ESCALATED"}
              /\ does("archive", "away")
              /\ UNCHANGED thread
           \/ /\ ~employed /\ ~thread.away /\ thread.status \in {"ANSWERED", "ARCHIVED"}
              /\ does("archive", "status")
              /\ UNCHANGED thread

\* Her leaving is noted in the row; her return clears it, then the archive.
MarkAway ==
    LET back == run["worker"].act = "reactivate"
    IN  /\ At("worker", "away")
        /\ thread' = [thread EXCEPT !.away = ~back]
        /\ IF back THEN Has("worker", thread', "status") ELSE Set("worker", Idle)
        /\ Smoothly
        /\ UNCHANGED <<world, lock, legacy, records, topics, gone, crossed, letter, copies, open>>

\* Mutant: a move that fails is tried for ever.
MoveForEver ==
    /\ At("worker", "idle") /\ ~legacy.done
    /\ IF legacy.open
         THEN Works([Idle EXCEPT !.pc = "ensure", !.act = "move"]) /\ UNCHANGED legacy
         ELSE Works(Idle) /\ legacy' = [legacy EXCEPT !.done = TRUE]
    /\ UNCHANGED thread

\* Only conversations still open are moved; one that failed too often is left.
StartMove ==
    /\ At("worker", "idle") /\ ~legacy.done
    /\ IF legacy.open /\ legacy.failures < MaxFailures
         THEN Works([Idle EXCEPT !.pc = "ensure", !.act = "move"]) /\ UNCHANGED legacy
         ELSE Works(Idle) /\ legacy' = [legacy EXCEPT !.done = TRUE]
    /\ UNCHANGED thread

\* Mutant: the mark is not looked at.
SendNotesAgain ==
    /\ At("worker", "notes")
    /\ told' = told + 1
    /\ Goto("worker", "noted")
    /\ Smoothly
    /\ UNCHANGED <<world, thread, lock, legacy, clock, turns, topics, gone, crossed, letter, copies, open>>

\* Mutant: the mark stands for the whole move.
MarkedIsMoved ==
    /\ At("worker", "notes")
    /\ told' = told + (IF legacy.noted THEN 0 ELSE 1)
    /\ Goto("worker", IF legacy.noted THEN "close" ELSE "noted")
    /\ Smoothly
    /\ UNCHANGED <<world, thread, lock, legacy, clock, turns, topics, gone, crossed, letter, copies, open>>

\* The old topics are told of the new one, which is noted afterwards.
SendNotes ==
    /\ At("worker", "notes")
    /\ told' = told + (IF legacy.noted THEN 0 ELSE 1)
    /\ Goto("worker", IF legacy.noted THEN "carry" ELSE "noted")
    /\ Smoothly
    /\ UNCHANGED <<world, thread, lock, legacy, clock, turns, topics, gone, crossed, letter, copies, open>>

MarkNoted ==
    /\ At("worker", "noted")
    /\ legacy' = [legacy EXCEPT !.noted = TRUE]
    /\ Goto("worker", "carry")
    /\ Smoothly
    /\ UNCHANGED <<world, thread, lock, records, topics, gone, crossed, letter, copies, open>>

\* Whoever waited for an answer before waits in the new topic.
CarryWaiting ==
    /\ At("worker", "carry")
    /\ thread' = IF legacy.waits THEN Applied("worker") ELSE thread
    /\ Goto("worker", "close")
    /\ Smoothly
    /\ UNCHANGED <<world, lock, legacy, records, topics, gone, crossed, letter, copies, open>>

MoveFails ==
    /\ At("worker", "carry") \/ At("worker", "close")
    /\ GivesUp("worker")
    /\ Smoothly
    /\ UNCHANGED <<world, thread, lock, records, topics, gone, crossed, copies, open>>

CloseLegacy ==
    /\ At("worker", "close")
    /\ legacy' = [legacy EXCEPT !.open = FALSE]
    /\ Set("worker", Idle)
    /\ Smoothly
    /\ UNCHANGED <<world, thread, lock, records, topics, gone, crossed, letter, copies, open>>

-----------------------------------------------------------------------------
(* Other events *)

\* She is dismissed, or comes back.
Employment ==
    /\ "leave" \in may /\ turns < MaxTurns
    /\ employed' = ~employed
    /\ turns' = turns + 1
    /\ Smoothly
    /\ UNCHANGED <<may, thread, lock, legacy, run, clock, topics, gone, crossed, letter, copies, open, told>>

DeleteTopic ==
    /\ "delete" \in may /\ turns < MaxTurns
    /\ thread.made /\ Alive(thread.topic)
    /\ gone' = gone \cup {thread.topic}
    /\ turns' = turns + 1
    /\ Smoothly
    /\ UNCHANGED <<world, thread, lock, legacy, run, clock, topics, crossed, letter, copies, open, told>>

\* The lock expires under a holder that is slow.
LockExpires ==
    /\ lock \in Handlers
    /\ Trouble("lapse")
    /\ lock' = "free"
    /\ UNCHANGED <<world, thread, legacy, run, records, topics, gone, crossed, letter, copies, open>>

\* The process dies, and the lock of a dead handler expires in time.
Crash ==
    /\ Trouble("crash")
    /\ run' = [a \in Handlers |-> Idle]
    /\ lock' = IF lock = "free" THEN "free" ELSE "dead"
    /\ open' = Busy
    /\ UNCHANGED <<world, thread, legacy, records, topics, gone, crossed, letter, copies>>

DeadLockExpires ==
    /\ lock = "dead"
    /\ lock' = "free"
    /\ Smoothly
    /\ UNCHANGED <<world, thread, legacy, run, records, topics, gone, crossed, letter, copies, open>>

-----------------------------------------------------------------------------
(* The specification *)

Ensures(a) ==
    \/ EnsureThread(a) \/ TakeLock(a) \/ FindCreated(a) \/ StopWaiting(a) \/ LookAgain(a)
    \/ CreateTopic(a) \/ CreateFails(a) \/ InsertThread(a) \/ PublishCard(a)

Relays(w) ==
    \/ Ensures(w) \/ CopyIntoTopic(w) \/ CopyFails(w) \/ CopyUnsure(w) \/ RecreateTopic(w) \/ MoveThread(w)
    \/ ApplyStatus(w) \/ WriteFails(w) \/ Settle(w)

Her == Relays("her") \/ NoticeIfAway \/ KeepForAlbum

Acts(a) ==
    \/ Reply(a) \/ ReplyInOldTopic(a) \/ ThumbsUp(a) \/ Back(a)
    \/ Ensures(a) \/ Deliver(a) \/ DeliveryFails(a) \/ ApplyStatus(a) \/ WriteFails(a) \/ Settle(a)

Worker ==
    \/ DailyPass \/ MarkAway \/ ApplyStatus("worker") \/ WriteFails("worker")
    \/ StartMove \/ Ensures("worker") \/ SendNotes \/ MarkNoted \/ CarryWaiting \/ MoveFails \/ CloseLegacy

Next ==
    \/ \E l \in Letters : Write(l)
    \/ Her \/ Relays("album") \/ Worker \/ Call \/ SendFromPanel
    \/ \E a \in Team \cup {"panel"} : Acts(a)
    \/ Employment \/ DeleteTopic \/ LockExpires \/ Crash \/ DeadLockExpires

Spec == Init /\ [][Next]_vars

\* A handler that has begun goes on, the worker's tick comes again, and redis
\* drops the lock of a dead handler.
FairSpec ==
    /\ Spec
    /\ WF_vars(Her) /\ WF_vars(Relays("album")) /\ WF_vars(Worker) /\ WF_vars(DeadLockExpires)

-----------------------------------------------------------------------------
(* Properties *)

Quiet == \A a \in Handlers : At(a, "idle")

\* A question nobody has answered shows as waiting, or as an owner's, whatever
\* thanks, replies to earlier ones, calls, dismissals and moves came between;
\* excepted are questions that crossed another handler, or whose status could not
\* be written (nextStatus).
WaitingIsShown == Quiet /\ open = "yes" => thread.status \in {"WAITING", "ESCALATED"}

\* Her message is in the topic once, and she is told that it failed only when it
\* is not; but for a copy that arrived and failed (copyIntoTopic).
KeptOnce ==
    \A l \in Letters :
        /\ copies[l] <= 1 + trouble["unsure"]
        /\ letter[l] = "refused" => copies[l] <= trouble["unsure"]

\* She has one topic: another only after it was deleted by hand, the lock
\* expired or a crash lost the new one, or her handler and that of an album both
\* found the old one deleted (ensureThread, recreateTopic).
OneTopic == topics <= 1 + Cardinality(gone) + crossed + trouble["lapse"] + trouble["crash"]

\* A thread that an owner was called to is his until he answers or it is given
\* back: nobody who had seen it called ends that, be it a new question or
\* another's answer (nextStatus).
EscalationIsKept ==
    [][\A a \in Handlers :
        thread.status = "ESCALATED" /\ thread'.status # "ESCALATED"
            /\ run[a] # run'[a] /\ run[a].was.status = "ESCALATED"
        => a = "kuz" \/ run[a].act \in {"back", "archive"}]_vars

\* The old topics are told once where the conversation goes on, or once more
\* after a crash (migrateLegacyConversations).
MovedOnce == told <= 1 + trouble["crash"]

\* Whoever waited for an answer in an old conversation waits in the thread when
\* the old one is closed, unless the team has acted (migrateLegacyConversations).
WaitingIsCarried ==
    legacy.waits /\ "legacy" \in may /\ ~legacy.open /\ turns = 0 => thread.status \in {"WAITING", "ESCALATED"}

\* Old conversations are closed, or given up after some attempts.
LegacyIsSettled == <>[](~legacy.open \/ legacy.failures = MaxFailures)

\* A question stays open for the team until it is answered: by the status of the
\* thread, and from the old conversation to the new one.
QuestionsStayOpen == WaitingIsShown /\ WaitingIsCarried

\* Retries, races and crashes make nothing twice: no message, topic or note
\* without a cause outside the bot; and the rows keep their shape.
NothingTwice == TypeOK /\ KeptOnce /\ OneTopic /\ MovedOnce
=============================================================================
