------------------------------ MODULE Announcement ------------------------------
(***************************************************************************)
(* One announcement with buttons, to people in private, from the web       *)
(* app's command to the last reminder:                                     *)
(*   "dispatcher"  announcement-commands.ts, announcement-edit.ts          *)
(*   "job"         broadcast.ts, processBroadcast                          *)
(*   "pinger"      pinger.ts                                               *)
(*   "admin"       the bot's own menu, broadcast.ts                        *)
(* and the people, who confirm or decline.  All but the people make one    *)
(* await after the other on the same rows.                                 *)
(*                                                                         *)
(* A send may fail, and may reach the phone and fail all the same; an      *)
(* answer to the web app may be lost; the process may die between two      *)
(* awaits.  The rows of Postgres, the job in Redis and the web app's       *)
(* commands survive.                                                       *)
(***************************************************************************)
EXTENDS Integers, FiniteSets

CONSTANTS
    People, Nobody,
    Scenes,         \* what may happen, and to how many
    MaxTries,       \* tries of a command, and of a deferred reminder
    MaxTrouble      \* lost answers, unsure sends and crashes together

ASSUME AnnouncementAssumption ==
    /\ IsFiniteSet(People)
    /\ Nobody \notin People
    /\ \A scene \in Scenes : scene.to \subseteq People
    /\ MaxTries \in Nat \ {0}
    /\ MaxTrouble \in Nat

VARIABLES
    may,            \* the commands and events of this behaviour
    to,             \* the recipients
    post,           \* the Broadcast row
    delivery,       \* the BroadcastDelivery rows
    row,            \* a TrackedMessage with its PendingReply
    marks,          \* BroadcastReminderMark: <<action, person>>
    done,           \* BroadcastActionLog: closed actions
    known,          \* the messages in a chat whose id is in some row
    job,            \* the BullMQ job of the broadcast
    outbox,         \* the web app's commands
    tries,          \* tries of a command that failed: the web app
    run,            \* the local variables of each actor
    tap,            \* the button a person has pressed, until it is handled
    screen,         \* the messages in a chat
    keys,           \* those that have buttons
    told,           \* how often the announcement reached a person (history)
    pinged,         \* reminders for an action (history)
    asked,          \* prompts to confirm again (history)
    unsure,         \* sends to a person that arrived and failed (history)
    late,           \* reminders after the end of reminders, by actor (history)
    cleaned,        \* chats that a withdrawal reported as empty (history)
    bare,           \* texts edited by an edit that knew no row of the person (history)
    trouble
scene == <<may, to>>
rows == <<post, delivery, row, marks, done, known>>
chats == <<screen, keys, told, pinged, asked, unsure, late, cleaned, bare>>
vars == <<may, to, post, delivery, row, marks, done, known, job, outbox, tries, run, tap,
          screen, keys, told, pinged, asked, unsure, late, cleaned, bare, trouble>>

Actors == {"dispatcher", "job", "pinger", "admin"}
Reminds == {"REMIND", "REMIND2"}
Commands == {"SEND", "STOP", "WITHDRAW", "EDIT"} \cup Reminds
Messages == {"text", "part", "ping", "prompt", "stray"}
Replies == {"none", "pending", "confirmed", "declined"}
Times == {"never", "later", "due"}
RowType == [reply : Replies, next : Times]

\* The variables of an actor: the command; who is left and whose turn it is;
\* the rows read (seen: waiting for an answer, or cleaned so far; was and
\* found: rows and message ids; old: the deferred action; calm: reminders had
\* ended); and bad: a failure.
Idle ==
    [pc |-> "idle", cmd |-> "none", todo |-> {}, who |-> Nobody, seen |-> {},
     was |-> [c \in People |-> [reply |-> "none", next |-> "never"]],
     found |-> [c \in People |-> {}], old |-> "none", calm |-> FALSE, bad |-> FALSE]
Locals ==
    [pc : {"idle", "look", "enqueueNew", "enqueueOld", "next", "send", "track", "expect", "mark",
           "displace", "postpone", "remind", "state", "ping", "record", "clear", "quieten", "targets",
           "erase", "sent", "edit", "claim", "reset", "await", "prompt", "append", "ack"},
     cmd : Commands \cup {"none", "auto"}, todo : SUBSET People, who : People \cup {Nobody},
     seen : SUBSET People, was : [People -> RowType], found : [People -> SUBSET Messages],
     old : Reminds \cup {"none"}, calm : BOOLEAN, bad : BOOLEAN]

TypeOK ==
    /\ to \subseteq People
    /\ post \in [made : BOOLEAN, withdrawn : BOOLEAN, stopped : BOOLEAN, completed : BOOLEAN,
                 action : Reminds \cup {"none"}, at : Times, tries : 0..MaxTries]
    /\ delivery \in [People -> {"none", "PENDING", "SENDING", "SENT", "FAILED"}]
    /\ row \in [People -> RowType]
    /\ marks \subseteq (Reminds \cup {"EDIT"}) \X People
    /\ done \subseteq Commands
    /\ known \in [People -> SUBSET Messages]
    /\ job \in {"none", "waiting", "active", "failed", "done"}
    /\ outbox \in [Commands -> {"none", "offered", "accepted", "refused"}]
    /\ tries \in [Commands -> 0..MaxTries]
    /\ run \in [Actors -> Locals]
    /\ tap \in [People -> [to : Replies, on : Messages \cup {"none"}]]
    /\ screen \in [People -> SUBSET Messages]
    /\ keys \in [People -> SUBSET Messages]
    /\ told \in [People -> Nat]
    /\ pinged \in [Reminds \X People -> Nat]
    /\ asked \in [People -> Nat]
    /\ unsure \in [People -> Nat]
    /\ late \in [Actors -> Nat]
    /\ cleaned \subseteq People
    /\ bare \subseteq People
    /\ trouble \in 0..MaxTrouble

Untouched == [to |-> "none", on |-> "none"]

Init ==
    /\ \E s \in Scenes : may = s.may /\ to = s.to
    /\ post = [made |-> FALSE, withdrawn |-> FALSE, stopped |-> FALSE, completed |-> FALSE,
               action |-> "none", at |-> "never", tries |-> 0]
    /\ delivery = [c \in People |-> "none"]
    /\ row = [c \in People |-> [reply |-> "none", next |-> "never"]]
    /\ marks = {}
    /\ done = {}
    /\ known = [c \in People |-> {}]
    /\ job = "none"
    /\ outbox = [k \in Commands |-> IF k \in may \cup {"SEND"} THEN "offered" ELSE "none"]
    /\ tries = [k \in Commands |-> 0]
    /\ run = [a \in Actors |-> Idle]
    /\ tap = [c \in People |-> Untouched]
    /\ screen = [c \in People |-> {}]
    /\ keys = [c \in People |-> {}]
    /\ told = [c \in People |-> 0]
    /\ pinged = [ac \in Reminds \X People |-> 0]
    /\ asked = [c \in People |-> 0]
    /\ unsure = [c \in People |-> 0]
    /\ late = [a \in Actors |-> 0]
    /\ cleaned = {}
    /\ bare = {}
    /\ trouble = 0

Trouble(kind) == kind \in may /\ trouble < MaxTrouble /\ trouble' = trouble + 1
Smoothly == UNCHANGED trouble
At(a, pc) == run[a].pc = pc
Set(a, local) == run' = [run EXCEPT ![a] = local]
Goto(a, pc) == Set(a, [run[a] EXCEPT !.pc = pc])
\* Back to the list of people; on to the answer for the web app.
Resume(a, pc, bad) == Set(a, [run[a] EXCEPT !.pc = pc, !.who = Nobody, !.bad = bad])
Answers(a, ok) == Set(a, [Idle EXCEPT !.pc = "ack", !.cmd = run[a].cmd, !.bad = ~ok])
Closed == post.withdrawn \/ post.stopped
Waiting == {c \in People : row[c].reply = "pending"}
Answered(r) == r.reply \in {"confirmed", "declined"}

\* A message m reaches c, with or without buttons.
Shows(c, m) == screen' = [screen EXCEPT ![c] = @ \cup {m}] /\ keys' = [keys EXCEPT ![c] = @ \cup {m}]
Count(f, x) == [f EXCEPT ![x] = @ + 1]

-----------------------------------------------------------------------------
(* The web app's commands: announcement-commands.ts *)

\* The dispatcher takes a command; the others refer to an announcement that
\* the bot has accepted.
Take(k) ==
    /\ At("dispatcher", "idle") /\ outbox[k] = "offered"
    /\ k # "SEND" => outbox["SEND"] = "accepted"
    /\ Set("dispatcher", [Idle EXCEPT !.pc = "look", !.cmd = k])
    /\ Smoothly
    /\ UNCHANGED <<scene, rows, job, outbox, tries, tap, chats>>

\* The web app learns the outcome; a failed command is offered again.
Ack ==
    LET k == run["dispatcher"].cmd
        again == tries[k] + 1 < MaxTries
    IN  /\ At("dispatcher", "ack")
        /\ IF run["dispatcher"].bad
             THEN /\ tries' = Count(tries, k)
                  /\ outbox' = [outbox EXCEPT ![k] = IF again THEN "offered" ELSE "refused"]
             ELSE outbox' = [outbox EXCEPT ![k] = "accepted"] /\ UNCHANGED tries
        /\ Set("dispatcher", Idle)
        /\ Smoothly
        /\ UNCHANGED <<scene, rows, job, tap, chats>>

\* The answer is lost: the web app offers the command again.
LoseAck ==
    /\ At("dispatcher", "ack")
    /\ Trouble("ack")
    /\ Set("dispatcher", Idle)
    /\ UNCHANGED <<scene, rows, job, outbox, tries, tap, chats>>

\* Mutant: a row that exists is taken for an announcement that is queued.
KeepRow ==
    /\ At("dispatcher", "look") /\ run["dispatcher"].cmd = "SEND"
    /\ post' = [post EXCEPT !.made = TRUE]
    /\ IF post.made THEN Answers("dispatcher", TRUE) ELSE Goto("dispatcher", "enqueueNew")
    /\ Smoothly
    /\ UNCHANGED <<scene, delivery, row, marks, done, known, job, outbox, tries, tap, chats>>

\* SEND: the row is created unless there is one.
CreateRow ==
    /\ At("dispatcher", "look") /\ run["dispatcher"].cmd = "SEND"
    /\ post' = [post EXCEPT !.made = TRUE]
    /\ Goto("dispatcher", IF post.made THEN "enqueueOld" ELSE "enqueueNew")
    /\ Smoothly
    /\ UNCHANGED <<scene, delivery, row, marks, done, known, job, outbox, tries, tap, chats>>

\* BullMQ ignores a job whose id it has.
Enqueue ==
    /\ At("dispatcher", "enqueueNew") \/ At("dispatcher", "enqueueOld")
    /\ job' = IF job = "none" THEN "waiting" ELSE job
    /\ Answers("dispatcher", TRUE)
    /\ Smoothly
    /\ UNCHANGED <<scene, rows, outbox, tries, tap, chats>>

\* The queue is down: a new row is removed, lest the next try find it.
EnqueueFails ==
    /\ At("dispatcher", "enqueueNew") \/ At("dispatcher", "enqueueOld")
    /\ post' = [post EXCEPT !.made = At("dispatcher", "enqueueOld")]
    /\ Answers("dispatcher", FALSE)
    /\ Smoothly
    /\ UNCHANGED <<scene, delivery, row, marks, done, known, job, outbox, tries, tap, chats>>

\* The command has been carried out before, or there is nothing left to do.
AlreadyDone ==
    LET k == run["dispatcher"].cmd
    IN  /\ At("dispatcher", "look") /\ k # "SEND"
        /\ \/ k \in done
           \/ k \in Reminds /\ Closed
           \/ k = "STOP" /\ post.stopped
           \/ k = "EDIT" /\ post.withdrawn
        /\ done' = done \cup {k}
        /\ Answers("dispatcher", TRUE)
        /\ Smoothly
        /\ UNCHANGED <<scene, post, delivery, row, marks, known, job, outbox, tries, tap, chats>>

-----------------------------------------------------------------------------
(* The job: processBroadcast *)

StartJob ==
    /\ job = "waiting" /\ At("job", "idle")
    /\ job' = "active"
    /\ delivery' = [c \in People |-> IF c \in to /\ delivery[c] = "none" THEN "PENDING" ELSE delivery[c]]
    /\ Set("job", [Idle EXCEPT !.pc = "next", !.todo = to])
    /\ Smoothly
    /\ UNCHANGED <<scene, post, row, marks, done, known, outbox, tries, tap, chats>>

\* Mutant: a claim that takes up what another try had begun.
ClaimUnfinished(c) ==
    /\ At("job", "next") /\ c \in run["job"].todo
    /\ delivery[c] \in {"PENDING", "SENDING"}
    /\ delivery' = [delivery EXCEPT ![c] = "SENDING"]
    /\ Set("job", [run["job"] EXCEPT !.pc = "send", !.who = c, !.todo = @ \ {c}])
    /\ Smoothly
    /\ UNCHANGED <<scene, post, row, marks, done, known, job, outbox, tries, tap, chats>>

ClaimPending(c) ==
    /\ At("job", "next") /\ c \in run["job"].todo
    /\ delivery[c] = "PENDING"
    /\ delivery' = [delivery EXCEPT ![c] = "SENDING"]
    /\ Set("job", [run["job"] EXCEPT !.pc = "send", !.who = c, !.todo = @ \ {c}])
    /\ Smoothly
    /\ UNCHANGED <<scene, post, row, marks, done, known, job, outbox, tries, tap, chats>>

SendText ==
    LET c == run["job"].who
    IN  /\ At("job", "send")
        /\ Shows(c, "text")
        /\ told' = Count(told, c)
        /\ Goto("job", "track")
        /\ Smoothly
        /\ UNCHANGED <<scene, rows, job, outbox, tries, tap, pinged, asked, unsure, late, cleaned, bare>>

\* The text does not go out: nothing did, or the parts before it, whose ids
\* are kept; when the attachment is gone at the web app nobody else gets it.
SendFails(gone, partly) ==
    LET c == run["job"].who
        parts == IF partly THEN {"part"} ELSE {}
    IN  /\ At("job", "send")
        /\ delivery' = [x \in People |-> IF x = c \/ (gone /\ delivery[x] = "PENDING") THEN "FAILED" ELSE delivery[x]]
        /\ known' = [known EXCEPT ![c] = @ \cup parts]
        /\ screen' = [screen EXCEPT ![c] = @ \cup parts]
        /\ Resume("job", "next", FALSE)
        /\ Smoothly
        /\ UNCHANGED <<scene, post, row, marks, done, job, outbox, tries, tap, keys, told, pinged, asked, unsure, late, cleaned, bare>>

\* The text reached the phone and the call failed.
SendUnsure ==
    LET c == run["job"].who
    IN  /\ At("job", "send")
        /\ Trouble("unsure")
        /\ Shows(c, "text")
        /\ told' = Count(told, c)
        /\ unsure' = Count(unsure, c)
        /\ delivery' = [delivery EXCEPT ![c] = "FAILED"]
        /\ Resume("job", "next", FALSE)
        /\ UNCHANGED <<scene, post, row, marks, done, known, job, outbox, tries, tap, pinged, asked, late, cleaned, bare>>

\* The message is tracked, first reminder in some hours; then her reply is
\* awaited.
Track ==
    LET c == run["job"].who
    IN  /\ At("job", "track")
        /\ row' = [row EXCEPT ![c].next = "later"]
        /\ known' = [known EXCEPT ![c] = @ \cup {"text"}]
        /\ Goto("job", "expect")
        /\ Smoothly
        /\ UNCHANGED <<scene, post, delivery, marks, done, job, outbox, tries, tap, chats>>

AwaitReply ==
    LET c == run["job"].who
    IN  /\ At("job", "expect")
        /\ row' = [row EXCEPT ![c].reply = "pending"]
        /\ Goto("job", "mark")
        /\ Smoothly
        /\ UNCHANGED <<scene, post, delivery, marks, done, known, job, outbox, tries, tap, chats>>

MarkSent ==
    /\ At("job", "mark")
    /\ delivery' = [delivery EXCEPT ![run["job"].who] = "SENT"]
    /\ Resume("job", "next", FALSE)
    /\ Smoothly
    /\ UNCHANGED <<scene, post, row, marks, done, known, job, outbox, tries, tap, chats>>

\* Mutant: complete as soon as nobody is pending.
EndJobEarly ==
    /\ At("job", "next")
    /\ \A c \in run["job"].todo : delivery[c] # "PENDING"
    /\ LET all == \A c \in to : delivery[c] # "PENDING"
       IN  /\ job' = IF all THEN "done" ELSE "failed"
           /\ post' = [post EXCEPT !.completed = @ \/ all]
    /\ Set("job", Idle)
    /\ Smoothly
    /\ UNCHANGED <<scene, delivery, row, marks, done, known, outbox, tries, tap, chats>>

\* Only deliveries that are pending are tried again, so a further try of the
\* job ends as this one: "failed" stands for them.
EndJob ==
    /\ At("job", "next")
    /\ \A c \in run["job"].todo : delivery[c] # "PENDING"
    /\ LET all == \A c \in to : delivery[c] = "SENT"
       IN  /\ job' = IF all THEN "done" ELSE "failed"
           /\ post' = [post EXCEPT !.completed = @ \/ all]
    /\ Set("job", Idle)
    /\ Smoothly
    /\ UNCHANGED <<scene, delivery, row, marks, done, known, outbox, tries, tap, chats>>

-----------------------------------------------------------------------------
(* Reminders: remind of announcement-commands.ts, and pinger.ts *)

\* REMIND outside the hours, or before its time, is left to the pinger unless it
\* was before; an action that was left to it first is closed.
Defer ==
    LET k == run["dispatcher"].cmd
    IN  /\ At("dispatcher", "look") /\ k \in Reminds \ done /\ ~Closed
        /\ IF post.action = k THEN Answers("dispatcher", TRUE)
             ELSE Set("dispatcher", [run["dispatcher"] EXCEPT !.pc = "displace", !.old = post.action])
        /\ Smoothly
        /\ UNCHANGED <<scene, rows, job, outbox, tries, tap, chats>>

Displace ==
    /\ At("dispatcher", "displace")
    /\ done' = done \cup ({run["dispatcher"].old} \ {"none"})
    /\ Goto("dispatcher", "postpone")
    /\ Smoothly
    /\ UNCHANGED <<scene, post, delivery, row, marks, known, job, outbox, tries, tap, chats>>

\* Whatever has become of the announcement since.
Postpone ==
    LET k == run["dispatcher"].cmd
    IN  /\ At("dispatcher", "postpone")
        /\ post' = [post EXCEPT !.action = k, !.at = "later", !.tries = 0]
        /\ Answers("dispatcher", TRUE)
        /\ Smoothly
        /\ UNCHANGED <<scene, delivery, row, marks, done, known, job, outbox, tries, tap, chats>>

Remind(a, k) == Set(a, [Idle EXCEPT !.pc = "remind", !.cmd = k, !.todo = Waiting, !.seen = Waiting])

RemindNow ==
    LET k == run["dispatcher"].cmd
    IN  /\ At("dispatcher", "look") /\ k \in Reminds \ done /\ ~Closed
        /\ Remind("dispatcher", k)
        /\ Smoothly
        /\ UNCHANGED <<scene, rows, job, outbox, tries, tap, chats>>

\* A tick of the pinger with a deferred action.
RemindDeferred ==
    /\ At("pinger", "idle") /\ post.at = "due"
    /\ IF Closed \/ post.action \in done
         THEN /\ done' = done \cup {post.action}
              /\ Set("pinger", [Idle EXCEPT !.pc = "clear"])
         ELSE Remind("pinger", post.action) /\ UNCHANGED done
    /\ Smoothly
    /\ UNCHANGED <<scene, post, delivery, row, marks, known, job, outbox, tries, tap, chats>>

\* A tick with messages whose reminder is due.
RemindDue ==
    LET due == {c \in People : row[c].next = "due"}
    IN  /\ At("pinger", "idle") /\ due # {}
        /\ Set("pinger", [Idle EXCEPT !.pc = "remind", !.cmd = "auto", !.todo = due, !.seen = Waiting])
        /\ Smoothly
        /\ UNCHANGED <<scene, rows, job, outbox, tries, tap, chats>>

\* By night a reminder is put off to the morning.
PutOff(c) ==
    /\ At("pinger", "remind") /\ run["pinger"].cmd = "auto" /\ c \in run["pinger"].todo
    /\ row' = [row EXCEPT ![c].next = "later"]
    /\ Set("pinger", [run["pinger"] EXCEPT !.todo = @ \ {c}])
    /\ Smoothly
    /\ UNCHANGED <<scene, post, delivery, marks, done, known, job, outbox, tries, tap, chats>>

\* Whoever had answered when the tick began is reminded no more.
StopTracking(c) ==
    /\ At("pinger", "remind") /\ run["pinger"].cmd = "auto" /\ c \in run["pinger"].todo \ run["pinger"].seen
    /\ row' = [row EXCEPT ![c].next = "never"]
    /\ screen' = [screen EXCEPT ![c] = @ \ ({"ping"} \cap known[c])]
    /\ keys' = [keys EXCEPT ![c] = @ \ ({"ping"} \cap known[c])]
    /\ Set("pinger", [run["pinger"] EXCEPT !.todo = @ \ {c}])
    /\ Smoothly
    /\ UNCHANGED <<scene, post, delivery, marks, done, known, job, outbox, tries, tap, told, pinged, asked, unsure, late, cleaned, bare>>

\* Mutant: no mark is looked for.
RemindUnmarked(a, c) ==
    LET k == run[a].cmd
    IN  /\ At(a, "remind") /\ c \in run[a].todo \cap run[a].seen
        /\ IF FALSE
             THEN Set(a, [run[a] EXCEPT !.todo = @ \ {c}]) /\ UNCHANGED marks
             ELSE /\ Set(a, [run[a] EXCEPT !.pc = "state", !.who = c, !.todo = @ \ {c}])
                  /\ marks' = IF k = "auto" THEN marks ELSE marks \cup {<<k, c>>}
        /\ Smoothly
        /\ UNCHANGED <<scene, post, delivery, row, done, known, job, outbox, tries, tap, chats>>

\* An action reminds a chat that has no mark of it.
ClaimReminder(a, c) ==
    LET k == run[a].cmd
    IN  /\ At(a, "remind") /\ c \in run[a].todo \cap run[a].seen
        /\ IF <<k, c>> \in marks
             THEN Set(a, [run[a] EXCEPT !.todo = @ \ {c}]) /\ UNCHANGED marks
             ELSE /\ Set(a, [run[a] EXCEPT !.pc = "state", !.who = c, !.todo = @ \ {c}])
                  /\ marks' = IF k = "auto" THEN marks ELSE marks \cup {<<k, c>>}
        /\ Smoothly
        /\ UNCHANGED <<scene, post, delivery, row, done, known, job, outbox, tries, tap, chats>>

\* Mutant: the row is not read again before sending.
RemindUnread(a) ==
    LET mark == <<run[a].cmd, run[a].who>>
    IN  /\ At(a, "state")
        /\ IF FALSE THEN Resume(a, "remind", run[a].bad) /\ marks' = marks \ {mark}
             ELSE Goto(a, "ping") /\ UNCHANGED marks
        /\ Smoothly
        /\ UNCHANGED <<scene, post, delivery, row, done, known, job, outbox, tries, tap, chats>>

\* The last look at the row before sending.
ReadReminderState(a) ==
    LET mark == <<run[a].cmd, run[a].who>>
    IN  /\ At(a, "state")
        /\ IF Closed THEN Resume(a, "remind", run[a].bad) /\ marks' = marks \ {mark}
             ELSE Goto(a, "ping") /\ UNCHANGED marks
        /\ Smoothly
        /\ UNCHANGED <<scene, post, delivery, row, done, known, job, outbox, tries, tap, chats>>

\* The chat without its last reminder, if its id is known.
OldPing(c) == {"ping"} \cap known[c]

SendPing(a) ==
    LET c == run[a].who
        k == run[a].cmd
    IN  /\ At(a, "ping")
        /\ Shows(c, "ping")
        /\ known' = [known EXCEPT ![c] = @ \ {"ping"}]
        /\ pinged' = IF k = "auto" THEN pinged ELSE Count(pinged, <<k, c>>)
        /\ late' = IF Closed THEN Count(late, a) ELSE late
        /\ Goto(a, "record")
        /\ Smoothly
        /\ UNCHANGED <<scene, post, delivery, row, marks, done, job, outbox, tries, tap, told, asked, unsure, cleaned, bare>>

\* The reminder does not go out; the old one is gone.  Without the chat (403,
\* or the text deleted) reminders end; otherwise the action keeps no mark.
PingFails(a, ends) ==
    LET c == run[a].who
    IN  /\ At(a, "ping")
        /\ screen' = [screen EXCEPT ![c] = @ \ OldPing(c)]
        /\ keys' = [keys EXCEPT ![c] = @ \ OldPing(c)]
        /\ IF ends THEN /\ row' = [row EXCEPT ![c].next = "never"]
                        /\ Resume(a, "remind", run[a].bad) /\ UNCHANGED marks
             ELSE /\ marks' = marks \ {<<run[a].cmd, c>>}
                  /\ Resume(a, "remind", TRUE)
                  /\ UNCHANGED row
        /\ Smoothly
        /\ UNCHANGED <<scene, post, delivery, done, known, job, outbox, tries, tap, told, pinged, asked, unsure, late, cleaned, bare>>

\* The reminder reached the phone and the call failed.
PingUnsure(a) ==
    LET c == run[a].who
        k == run[a].cmd
    IN  /\ At(a, "ping")
        /\ Trouble("unsure")
        /\ screen' = [screen EXCEPT ![c] = (@ \ OldPing(c)) \cup {"stray"}]
        /\ keys' = [keys EXCEPT ![c] = (@ \ OldPing(c)) \cup {"stray"}]
        /\ pinged' = IF k = "auto" THEN pinged ELSE Count(pinged, <<k, c>>)
        /\ unsure' = Count(unsure, c)
        /\ late' = IF Closed THEN Count(late, a) ELSE late
        /\ marks' = marks \ {<<k, c>>}
        /\ Resume(a, "remind", TRUE)
        /\ UNCHANGED <<scene, post, delivery, row, done, known, job, outbox, tries, tap, told, asked, cleaned, bare>>

\* Its id is kept; the next one is planned, but not by an action.
RecordPing(a) ==
    LET c == run[a].who
    IN  /\ At(a, "record")
        /\ known' = [known EXCEPT ![c] = @ \cup {"ping"}]
        /\ row' = IF run[a].cmd = "auto" THEN [row EXCEPT ![c].next = "later"] ELSE row
        /\ Resume(a, "remind", run[a].bad)
        /\ Smoothly
        /\ UNCHANGED <<scene, post, delivery, marks, done, job, outbox, tries, tap, chats>>

\* Mutant: the pinger never gives up.
RetryForEver(a) ==
    LET k == run[a].cmd
        again == a = "pinger" /\ run[a].bad
    IN  /\ At(a, "remind") /\ run[a].todo = {}
        /\ IF a = "dispatcher" /\ run[a].bad THEN Answers(a, FALSE) /\ UNCHANGED <<post, done>>
             ELSE IF k = "auto" \/ again
               THEN /\ Set(a, Idle)
                    /\ post' = IF again /\ k # "auto" THEN [post EXCEPT !.tries = @ + 1] ELSE post
                    /\ UNCHANGED done
               ELSE /\ done' = done \cup {k}
                    /\ IF a = "dispatcher" THEN Answers(a, TRUE) ELSE Goto(a, "clear")
                    /\ UNCHANGED post
        /\ Smoothly
        /\ UNCHANGED <<scene, delivery, row, marks, known, job, outbox, tries, tap, chats>>

\* Mutant: an action given up is cleared and not closed.
GiveUpSilently(a) ==
    LET k == run[a].cmd
        again == a = "pinger" /\ run[a].bad /\ post.tries + 1 < MaxTries
    IN  /\ At(a, "remind") /\ run[a].todo = {}
        /\ IF a = "dispatcher" /\ run[a].bad THEN Answers(a, FALSE) /\ UNCHANGED <<post, done>>
             ELSE IF k = "auto" \/ again
               THEN /\ Set(a, Idle)
                    /\ post' = IF again /\ k # "auto" THEN [post EXCEPT !.tries = @ + 1] ELSE post
                    /\ UNCHANGED done
               ELSE /\ done' = IF a = "pinger" /\ run[a].bad THEN done ELSE done \cup {k}
                    /\ IF a = "dispatcher" THEN Answers(a, TRUE) ELSE Goto(a, "clear")
                    /\ UNCHANGED post
        /\ Smoothly
        /\ UNCHANGED <<scene, delivery, row, marks, known, job, outbox, tries, tap, chats>>

\* All have been reminded.  The web app tries a failed action again; so does
\* the pinger, a few times.
EndReminders(a) ==
    LET k == run[a].cmd
        again == a = "pinger" /\ run[a].bad /\ post.tries + 1 < MaxTries
    IN  /\ At(a, "remind") /\ run[a].todo = {}
        /\ IF a = "dispatcher" /\ run[a].bad THEN Answers(a, FALSE) /\ UNCHANGED <<post, done>>
             ELSE IF k = "auto" \/ again
               THEN /\ Set(a, Idle)
                    /\ post' = IF again /\ k # "auto" THEN [post EXCEPT !.tries = @ + 1] ELSE post
                    /\ UNCHANGED done
               ELSE /\ done' = done \cup {k}
                    /\ IF a = "dispatcher" THEN Answers(a, TRUE) ELSE Goto(a, "clear")
                    /\ UNCHANGED post
        /\ Smoothly
        /\ UNCHANGED <<scene, delivery, row, marks, known, job, outbox, tries, tap, chats>>

\* The deferred action is over, whichever it is by now.
ClearDeferred ==
    /\ At("pinger", "clear")
    /\ post' = [post EXCEPT !.action = "none", !.at = "never", !.tries = 0]
    /\ Set("pinger", Idle)
    /\ Smoothly
    /\ UNCHANGED <<scene, delivery, row, marks, done, known, job, outbox, tries, tap, chats>>

-----------------------------------------------------------------------------
(* STOP and WITHDRAW: stopPinging, withdrawBroadcast *)

\* Which of the two the actor does; the menu offers what has not been done.
Does(a, k) ==
    \/ a = "dispatcher" /\ At(a, "look") /\ run[a].cmd = k /\ k \notin done
    \/ /\ a = "admin" /\ At(a, "idle") /\ post.made
       /\ IF k = "STOP" THEN "halt" \in may ELSE "recall" \in may

Stop(a) ==
    /\ Does(a, "STOP") /\ ~post.stopped
    /\ post' = [post EXCEPT !.stopped = TRUE, !.action = "none", !.at = "never"]
    /\ Set(a, [Idle EXCEPT !.pc = "quieten", !.cmd = "STOP"])
    /\ Smoothly
    /\ UNCHANGED <<scene, delivery, row, marks, done, known, job, outbox, tries, tap, chats>>

\* The command sweeps even what has been withdrawn.
Withdraw(a) ==
    /\ Does(a, "WITHDRAW") /\ (a = "dispatcher" \/ ~post.withdrawn)
    /\ post' = [post EXCEPT !.withdrawn = TRUE, !.action = "none", !.at = "never"]
    /\ Set(a, [Idle EXCEPT !.pc = "quieten", !.cmd = "WITHDRAW"])
    /\ Smoothly
    /\ UNCHANGED <<scene, delivery, row, marks, done, known, job, outbox, tries, tap, chats>>

Quieten(a) ==
    LET k == run[a].cmd
        ends == k = "STOP"
    IN  /\ At(a, "quieten")
        /\ row' = [c \in People |-> [row[c] EXCEPT !.next = "never"]]
        /\ IF ~ends THEN Goto(a, "targets") /\ UNCHANGED done
             ELSE IF a = "admin" THEN Set(a, Idle) /\ UNCHANGED done
             ELSE Answers(a, TRUE) /\ done' = done \cup {k}
        /\ Smoothly
        /\ UNCHANGED <<scene, post, delivery, marks, known, job, outbox, tries, tap, chats>>

\* Mutant: prompts are forgotten, as they are in no row of their own.
ReadTargetsOfRows(a) ==
    /\ At(a, "targets")
    /\ Set(a, [run[a] EXCEPT !.pc = "erase", !.found = [c \in People |-> known[c] \ {"prompt"}], !.seen = {c \in People : known[c] # {}}])
    /\ Smoothly
    /\ UNCHANGED <<scene, rows, job, outbox, tries, tap, chats>>

ReadTargets(a) ==
    /\ At(a, "targets")
    /\ Set(a, [run[a] EXCEPT !.pc = "erase", !.found = known, !.seen = {c \in People : known[c] # {}}])
    /\ Smoothly
    /\ UNCHANGED <<scene, rows, job, outbox, tries, tap, chats>>

\* Telegram deletes a message, or does not (older than 48 hours): then the chat
\* does not count as emptied.
Erase(a, c, m, deletes) ==
    LET gone == IF deletes THEN {m} ELSE {}
    IN  /\ At(a, "erase") /\ m \in run[a].found[c]
        /\ screen' = [screen EXCEPT ![c] = @ \ gone]
        /\ keys' = [keys EXCEPT ![c] = @ \ gone]
        /\ Set(a, [run[a] EXCEPT !.found[c] = @ \ {m}, !.seen = IF deletes THEN @ ELSE @ \ {c}])
        /\ Smoothly
        /\ UNCHANGED <<scene, rows, job, outbox, tries, tap, told, pinged, asked, unsure, late, cleaned, bare>>

\* The command reports the chats it emptied.
EndWithdrawal(a) ==
    /\ At(a, "erase") /\ \A c \in People : run[a].found[c] = {}
    /\ IF a = "admin" THEN Set(a, Idle) /\ UNCHANGED <<done, cleaned>>
         ELSE /\ Answers(a, TRUE)
              /\ done' = done \cup {"WITHDRAW"}
              /\ cleaned' = run[a].seen
    /\ Smoothly
    /\ UNCHANGED <<scene, post, delivery, row, marks, known, job, outbox, tries, tap, screen, keys, told, pinged, asked, unsure, late, bare>>

-----------------------------------------------------------------------------
(* EDIT: the text is changed, and who has answered is asked again *)

Edits(pc) == At("dispatcher", pc)
Edit(local) == Set("dispatcher", local)

\* The announcement is read with its tracked messages and their replies; the
\* deliveries, and the marks that only this actor sets, later.
ReadForEdit ==
    /\ Edits("look") /\ run["dispatcher"].cmd = "EDIT"
    /\ "EDIT" \notin done /\ ~post.withdrawn
    /\ Edit([run["dispatcher"] EXCEPT !.pc = "sent", !.was = row, !.calm = Closed])
    /\ Smoothly
    /\ UNCHANGED <<scene, rows, job, outbox, tries, tap, chats>>

ReadDeliveries ==
    LET sent == {c \in People : delivery[c] = "SENT"}
    IN  /\ Edits("sent")
        /\ Edit([run["dispatcher"] EXCEPT !.pc = "edit", !.todo = sent, !.bad = sent # {},
                                          !.seen = {c \in People : <<"EDIT", c>> \in marks}])
        /\ Smoothly
        /\ UNCHANGED <<scene, rows, job, outbox, tries, tap, chats>>

\* Mutant: a text edited without buttons for those who have yet to answer.
EditTextBare(c) ==
    LET me == run["dispatcher"]
        again == Answered(me.was[c]) /\ c \notin me.seen
        buttons == IF again THEN {"text"} ELSE {}
    IN  /\ Edits("edit") /\ c \in me.todo
        /\ "text" \in screen[c]
        /\ keys' = [keys EXCEPT ![c] = (@ \ {"text"}) \cup buttons]
        /\ bare' = IF me.was[c].reply = "none" THEN bare \cup {c} ELSE bare
        /\ Edit(IF Answered(me.was[c])
                  THEN [me EXCEPT !.pc = "claim", !.who = c, !.todo = @ \ {c}, !.bad = FALSE]
                  ELSE [me EXCEPT !.todo = @ \ {c}, !.bad = FALSE])
        /\ Smoothly
        /\ UNCHANGED <<scene, rows, job, outbox, tries, tap, screen, told, pinged, asked, unsure, late, cleaned>>

\* Who had yet to answer, or is asked again, gets the buttons with the text; who
\* was tracked after the replies were read loses them.
EditText(c) ==
    LET me == run["dispatcher"]
        again == Answered(me.was[c]) /\ c \notin me.seen
        buttons == IF again \/ me.was[c].reply = "pending" THEN {"text"} ELSE {}
    IN  /\ Edits("edit") /\ c \in me.todo
        /\ "text" \in screen[c]
        /\ keys' = [keys EXCEPT ![c] = (@ \ {"text"}) \cup buttons]
        /\ bare' = IF me.was[c].reply = "none" THEN bare \cup {c} ELSE bare
        /\ Edit(IF Answered(me.was[c])
                  THEN [me EXCEPT !.pc = "claim", !.who = c, !.todo = @ \ {c}, !.bad = FALSE]
                  ELSE [me EXCEPT !.todo = @ \ {c}, !.bad = FALSE])
        /\ Smoothly
        /\ UNCHANGED <<scene, rows, job, outbox, tries, tap, screen, told, pinged, asked, unsure, late, cleaned>>

EditFails(c) ==
    /\ Edits("edit") /\ c \in run["dispatcher"].todo
    /\ Edit([run["dispatcher"] EXCEPT !.todo = @ \ {c}])
    /\ Smoothly
    /\ UNCHANGED <<scene, rows, job, outbox, tries, tap, chats>>

\* Mutant: no mark is looked for.
PromptUnmarked ==
    LET mark == <<"EDIT", run["dispatcher"].who>>
    IN  /\ Edits("claim")
        /\ Goto("dispatcher", "reset")
        /\ marks' = marks \cup {mark}
        /\ Smoothly
        /\ UNCHANGED <<scene, post, delivery, row, done, known, job, outbox, tries, tap, chats>>

\* Each chat is asked once per action.
ClaimPrompt ==
    LET mark == <<"EDIT", run["dispatcher"].who>>
    IN  /\ Edits("claim")
        /\ IF mark \in marks THEN Resume("dispatcher", "edit", FALSE) ELSE Goto("dispatcher", "reset")
        /\ marks' = marks \cup {mark}
        /\ Smoothly
        /\ UNCHANGED <<scene, post, delivery, row, done, known, job, outbox, tries, tap, chats>>

\* Reminders resume, unless they had ended; then the answer is waited for anew.
ResumeReminders ==
    /\ Edits("reset")
    /\ row' = IF run["dispatcher"].calm THEN row ELSE [row EXCEPT ![run["dispatcher"].who].next = "later"]
    /\ Goto("dispatcher", "await")
    /\ Smoothly
    /\ UNCHANGED <<scene, post, delivery, marks, done, known, job, outbox, tries, tap, chats>>

ResetReply ==
    LET c == run["dispatcher"].who
    IN  /\ Edits("await")
        /\ row' = [row EXCEPT ![c].reply = "pending"]
        /\ Goto("dispatcher", "prompt")
        /\ Smoothly
        /\ UNCHANGED <<scene, post, delivery, marks, done, known, job, outbox, tries, tap, chats>>

SendPrompt ==
    LET c == run["dispatcher"].who
    IN  /\ Edits("prompt")
        /\ Shows(c, "prompt")
        /\ asked' = Count(asked, c)
        /\ Goto("dispatcher", "append")
        /\ Smoothly
        /\ UNCHANGED <<scene, rows, job, outbox, tries, tap, told, pinged, unsure, late, cleaned, bare>>

\* The prompt fails: the row becomes what the command had read, the mark goes.
Restored(c) ==
    /\ row' = [row EXCEPT ![c] = [reply |-> run["dispatcher"].was[c].reply,
                                  next |-> IF run["dispatcher"].calm THEN @.next ELSE run["dispatcher"].was[c].next]]
    /\ marks' = marks \ {<<"EDIT", c>>}
    /\ Resume("dispatcher", "edit", FALSE)

PromptFails ==
    /\ Edits("prompt")
    /\ Restored(run["dispatcher"].who)
    /\ Smoothly
    /\ UNCHANGED <<scene, post, delivery, done, known, job, outbox, tries, tap, chats>>

PromptUnsure ==
    LET c == run["dispatcher"].who
    IN  /\ Edits("prompt")
        /\ Trouble("unsure")
        /\ Restored(c)
        /\ Shows(c, "stray")
        /\ asked' = Count(asked, c)
        /\ unsure' = Count(unsure, c)
        /\ UNCHANGED <<scene, post, delivery, done, known, job, outbox, tries, tap, told, pinged, late, cleaned, bare>>

AppendPrompt ==
    /\ Edits("append")
    /\ known' = [known EXCEPT ![run["dispatcher"].who] = @ \cup {"prompt"}]
    /\ Resume("dispatcher", "edit", FALSE)
    /\ Smoothly
    /\ UNCHANGED <<scene, post, delivery, row, marks, done, job, outbox, tries, tap, chats>>

\* Not one chat edited is a failure.
EndEdit ==
    /\ Edits("edit") /\ run["dispatcher"].todo = {}
    /\ done' = IF run["dispatcher"].bad THEN done ELSE done \cup {"EDIT"}
    /\ Answers("dispatcher", ~run["dispatcher"].bad)
    /\ Smoothly
    /\ UNCHANGED <<scene, post, delivery, row, marks, known, job, outbox, tries, tap, chats>>

-----------------------------------------------------------------------------
(* The people: confirmRead, confirmDecline *)

\* She presses a button; her row is read.  A refusal may become a
\* confirmation, not the reverse; a reminder has no button to refuse with.
Press(c, m, reply) ==
    /\ "tap" \in may /\ tap[c] = Untouched /\ m \in keys[c]
    /\ \/ reply = "confirmed" /\ row[c].reply \in {"pending", "declined"}
       \/ reply = "declined" /\ row[c].reply = "pending" /\ m \in {"text", "prompt"}
    /\ tap' = [tap EXCEPT ![c] = [to |-> reply, on |-> m]]
    /\ Smoothly
    /\ UNCHANGED <<scene, rows, job, outbox, tries, run, chats>>

Answer(c) ==
    /\ tap[c].to # "none"
    /\ row' = [row EXCEPT ![c].reply = tap[c].to]
    /\ tap' = [tap EXCEPT ![c].to = "none"]
    /\ Smoothly
    /\ UNCHANGED <<scene, post, delivery, marks, done, known, job, outbox, tries, run, chats>>

\* The message she pressed loses its buttons.
LoseButtons(c) ==
    LET m == tap[c].on
    IN  /\ tap[c].to = "none" /\ m # "none"
        /\ keys' = [keys EXCEPT ![c] = @ \ {m}]
        /\ tap' = [tap EXCEPT ![c] = Untouched]
        /\ Smoothly
        /\ UNCHANGED <<scene, rows, job, outbox, tries, run, screen, told, pinged, asked, unsure, late, cleaned, bare>>

-----------------------------------------------------------------------------
(* Time and crashes *)

ReminderDue(c) ==
    /\ "auto" \in may /\ row[c].next = "later"
    /\ row' = [row EXCEPT ![c].next = "due"]
    /\ Smoothly
    /\ UNCHANGED <<scene, post, delivery, marks, done, known, job, outbox, tries, run, tap, chats>>

DeferredDue ==
    /\ post.at = "later"
    /\ post' = [post EXCEPT !.at = "due"]
    /\ Smoothly
    /\ UNCHANGED <<scene, delivery, row, marks, done, known, job, outbox, tries, run, tap, chats>>

\* The process dies: calls in flight are lost, and a message whose id was not
\* kept yet belongs to no row any more.  BullMQ finds the job stalled.
Crash ==
    LET lost(c) == {m \in {"ping", "prompt"} : m \in screen[c] \ known[c]}
        stray(c) == IF lost(c) = {} THEN {} ELSE {"stray"}
    IN  /\ Trouble("crash")
        /\ run' = [a \in Actors |-> Idle]
        /\ tap' = [c \in People |-> Untouched]
        /\ job' = IF job = "active" THEN "waiting" ELSE job
        /\ screen' = [c \in People |-> (screen[c] \ lost(c)) \cup stray(c)]
        /\ keys' = [c \in People |-> (keys[c] \ lost(c)) \cup stray(c)]
        /\ UNCHANGED <<scene, rows, outbox, tries, told, pinged, asked, unsure, late, cleaned, bare>>

-----------------------------------------------------------------------------
(* The specification *)

Sends ==
    \/ StartJob \/ SendText \/ Track \/ AwaitReply \/ MarkSent \/ EndJob
    \/ \E c \in People : ClaimPending(c)
    \/ \E gone, partly \in BOOLEAN : SendFails(gone, partly)
    \/ SendUnsure

Reminders(a) ==
    \/ \E c \in People : ClaimReminder(a, c)
    \/ ReadReminderState(a) \/ SendPing(a) \/ RecordPing(a) \/ EndReminders(a)
    \/ \E ends \in BOOLEAN : PingFails(a, ends)
    \/ PingUnsure(a)

Ends(a) ==
    \/ Stop(a) \/ Withdraw(a) \/ Quieten(a) \/ ReadTargets(a) \/ EndWithdrawal(a)
    \/ \E c \in People, m \in Messages, deletes \in BOOLEAN : Erase(a, c, m, deletes)

Editing ==
    \/ ReadForEdit \/ ReadDeliveries \/ ClaimPrompt \/ ResumeReminders \/ ResetReply \/ SendPrompt \/ AppendPrompt \/ EndEdit
    \/ \E c \in People : EditText(c) \/ EditFails(c)
    \/ PromptFails \/ PromptUnsure

Dispatches ==
    \/ \E k \in Commands : Take(k)
    \/ Ack \/ LoseAck \/ CreateRow \/ Enqueue \/ EnqueueFails \/ AlreadyDone
    \/ Defer \/ Displace \/ Postpone \/ RemindNow
    \/ Reminders("dispatcher") \/ Ends("dispatcher") \/ Editing

Pings ==
    \/ RemindDeferred \/ RemindDue \/ ClearDeferred \/ Reminders("pinger")
    \/ \E c \in People : PutOff(c) \/ StopTracking(c)

Replying(c) ==
    \/ \E m \in Messages, reply \in {"confirmed", "declined"} : Press(c, m, reply)
    \/ Answer(c) \/ LoseButtons(c)

Next ==
    \/ Dispatches \/ Sends \/ Pings \/ Ends("admin")
    \/ \E c \in People : Replying(c) \/ ReminderDue(c)
    \/ DeferredDue \/ Crash

Spec == Init /\ [][Next]_vars

\* The pollers come back and their calls go on; a tick that finds a deferred
\* action due handles it, whatever other ticks find; time passes.
Fairness ==
    /\ WF_vars(Dispatches) /\ WF_vars(Sends) /\ WF_vars(Pings)
    /\ SF_vars(RemindDeferred) /\ WF_vars(DeferredDue)
FairSpec == Spec /\ Fairness

-----------------------------------------------------------------------------
(* Properties *)

\* Nobody gets the announcement twice, however often the command, the job or
\* the send is tried (processBroadcast claims a delivery before it sends).
AnnouncedOnce == \A c \in People : told[c] <= 1

\* A broadcast marked complete has reached everybody (processBroadcast).
CompletedReachedAll == post.completed => \A c \in to : told[c] = 1 /\ "text" \in known[c]

\* An action reminds a person once, be it tried again after a lost answer, left
\* to the pinger or both at once; again only for a send that arrived and failed
\* (remindBroadcast).
RemindedOncePerAction == \A k \in Reminds, c \in People : pinged[<<k, c>>] <= 1 + unsure[c]

\* Nobody is asked twice by one edit to confirm again (reconfirmChat).
AskedAgainOnce == \A c \in People : asked[c] <= 1 + unsure[c]

\* After reminders were stopped or the announcement withdrawn, a reminder is
\* only one that was past its last look at the row (sendReminder).
StoppedStaysQuiet == \A a \in Actors : late[a] <= 1

\* What the web app was told is empty holds nothing of the announcement but
\* reminders and messages whose ids were lost (withdrawBroadcast).
CleanedChatsAreClean == \A c \in cleaned : screen[c] \cap {"text", "part", "prompt"} = {}

\* Until the announcement is withdrawn, whoever is waited for has a button to
\* answer with, unless the question of the edit is claimed for her and has yet to
\* come, or a crash came before it, or the edit read the replies before she was
\* tracked and the deliveries after hers was marked: that edit takes the button
\* (applyAnnouncementEdit, announcement-edit.ts:70 and 79; the confirm handlers).
Unasked(c) == <<"EDIT", c>> \in marks /\ asked[c] <= unsure[c]
AskedCanAnswer ==
    \A c \in People :
        row[c].reply = "pending" /\ "text" \in screen[c] /\ ~post.withdrawn => keys[c] # {} \/ Unasked(c) \/ c \in bare

\* An accepted announcement is sent: nobody is left pending, and the job ends.
AnnouncementIsSent ==
    <>[](\/ outbox["SEND"] = "refused"
         \/ outbox["SEND"] = "accepted" /\ job \in {"done", "failed"} /\ \A c \in People : delivery[c] # "PENDING")

\* An accepted reminder is carried out or closed, not forgotten, unless
\* reminders have ended (remind, runManualReminders).
ReminderIsClosed == \A k \in Reminds : outbox[k] = "accepted" ~> k \in done \/ Closed

\* Everybody gets the announcement, and gets it once, and the rows keep their
\* shape on the way (processBroadcast).
EveryoneOnce == TypeOK /\ AnnouncedOnce /\ CompletedReachedAll

\* Nobody is asked the same thing twice, by a reminder or by an edit.
AskedOnce == RemindedOncePerAction /\ AskedAgainOnce

\* The end of an announcement holds: no reminder after it, and nothing left in a
\* chat that counts as cleaned.
EndIsKept == StoppedStaysQuiet /\ CleanedChatsAreClean

\* What the web app was told is accepted is carried out in the end.
CommandsAreCarriedOut == AnnouncementIsSent /\ ReminderIsClosed
=============================================================================
