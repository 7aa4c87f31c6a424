------------------------- MODULE RecruitingCommands -------------------------
(* One candidate under the recruiter's commands: the dispatcher of           *)
(* services/recruiting-command-dispatcher.ts takes them from the web app's   *)
(* outbox and applies each with the services the HR menu calls, while the    *)
(* candidate workflow worker and the candidate herself write the same row.   *)
(*                                                                           *)
(* A handler reads the row once and then makes its calls one by one, so it   *)
(* is modelled by the list of calls that reading leads to (its todo); every  *)
(* call is a step of its own, and the other actors step in between.          *)
EXTENDS CandidateFunnel, Integers, Sequences, FiniteSets

CONSTANTS
    Scenes,         \* what a behaviour is about, to choose from: see SceneType
    MaxMishaps      \* how many crashes and lost acks there may be

FaultKinds == {"delivery", "blocked", "ack", "slots", "crash"}
Ages == {"fits", "underage", "too old", "not a woman"}
KindNames ==
    {"INVITE_TO_INTERVIEW", "RESCHEDULE_INTERVIEW", "ACCEPT_AFTER_INTERVIEW",
     "REJECT_AFTER_INTERVIEW", "MARK_NO_SHOW", "REJECT", "APPROVE_REVIEW",
     "MARK_TRAINING_PASSED", "START_STAGING", "MARK_STAGING_PASSED",
     "CONFIRM_HIRE", "CHANGE_LOCATION"}
Phases == {"ahead", "on", "over", "long over"}
Actors == {"dispatcher", "worker", "candidate"}

SceneType(scene) ==
    /\ scene.kinds \in Seq(SUBSET KindNames)      \* the commands, in order: what each may be
    /\ scene.withText \subseteq DOMAIN scene.kinds \* those that ask for a polite text
    /\ scene.ages \subseteq Ages                  \* what the questionnaire may say of her
    /\ scene.rows \subseteq Snapshot              \* the rows she may start from
    /\ scene.phase \in [Slots -> Phases]          \* when each slot is, at the start
    /\ scene.faults \subseteq FaultKinds          \* what may go wrong
    /\ scene.booking \in BOOLEAN                  \* whether she uses her buttons
    /\ scene.attempts \in Nat \ {0}              \* after so many failures a command is buried
    /\ scene.overlap \in BOOLEAN                  \* whether one actor runs between another's calls

ASSUME ConstantsAssumption ==
    /\ Null \notin Slots \cup Nat \cup Status \cup Step \cup Decision   \* no value of a column, no command
    /\ \A scene \in Scenes : SceneType(scene)
    /\ MaxMishaps \in Nat

VARIABLES
    scene,      \* chosen at the start
    cand,       \* her row
    age,        \* what her birth date and gender make of her
    moved,      \* her row names the location a CHANGE_LOCATION asks for
    blocked,    \* User.botBlockedAt is set
    slots,      \* the local interview slots
    phase,      \* where each slot is in time
    web,        \* the slot the web app holds for her
    outbox,     \* the web app's commands
    batch,      \* what the dispatcher has fetched and not yet begun
    run,        \* what each actor is in the middle of
    sentMark,   \* redis: the commands whose polite text was sent
    chat,       \* what the bot has told her: letters, and the command each is of
    talked,     \* an interview she was booked for has begun
    touched,    \* the commands whose calls have changed her row or her booking
    mishaps     \* crashes and lost acks so far

state == <<cand, age, moved, blocked, slots, phase, web, outbox, batch, run, sentMark,
           chat, talked, touched, mishaps>>
vars == <<scene, state>>
Commands == DOMAIN scene.kinds

\* What a reading of the code leaves to do.
Idle == [doing |-> Null, todo |-> << >>, read |-> Null, result |-> "ok"]
Running(a) == run[a].doing # Null
Call(a) == run[a].todo[1]
AtCall(a, name) == Running(a) /\ run[a].todo # << >> /\ Call(a).op = name
MayBegin(a) ==
    /\ ~ Running(a)
    /\ \/ scene.overlap
       \/ \A b \in Actors : ~ Running(b)

Begun(a, what, todo) ==
    run' = [run EXCEPT ![a] = [doing |-> what, todo |-> todo, read |-> Null, result |-> "ok"]]
Leaves(a, todo, result) ==
    run' = [run EXCEPT ![a] = [doing |-> run[a].doing, todo |-> todo, read |-> Null, result |-> result]]
Went(a, more) == Leaves(a, more \o Tail(run[a].todo), run[a].result)
Goes(a) == Went(a, << >>)
Failed(a, why) == Leaves(a, << >>, why)

---------------------------------------------------------------------------
(* The calls.                                                              *)

Update(p) == [op |-> "update", patches |-> <<p>>, must |-> TRUE]
Transaction(ps) == [op |-> "update", patches |-> ps, must |-> TRUE]
Attempt(p) == [op |-> "update", patches |-> <<p>>, must |-> FALSE]
Check(p) == [op |-> "check", patch |-> p]
Send(letter, onBlocked, onFailure) ==
    [op |-> "send", letter |-> letter, onBlocked |-> onBlocked, onFailure |-> onFailure]
Release == [op |-> "release"]
Cancel(s, own) == [op |-> "cancel", slot |-> s, own |-> own]
Free(s) == [op |-> "free", slot |-> s]
Remind(s) == [op |-> "remind", slot |-> s]
Archive == [op |-> "archive"]
Mark == [op |-> "mark"]
Move == [op |-> "move"]
Refuse(why) == [op |-> "refuse", why |-> why]
TakeWebSlot(s) == [op |-> "take", slot |-> s]
\* ensureLocalMirrorSlot: a local mirror still booked is stale, and is emptied.
EmptyMirror(s) == Free(s)
Book(s, before) == [op |-> "book", slot |-> s, before |-> before]
Restore(s) == [op |-> "restore", slot |-> s]

\* Columns the guard does not read stay out of Snapshot: InvitationWaitlist keeps them.
Uninvited == [interviewInvitedAt |-> FALSE]
Queued(waits) == [interviewWaitlistReason |-> waits]
Invited ==
    With([notificationSent |-> TRUE, status |-> "SCREENING", isWaitlisted |-> FALSE,
          interviewInvitedAt |-> TRUE, interviewInviteReminderSentAt |-> FALSE], Queued(FALSE))
Looking(offered) ==
    With([status |-> "SCREENING", currentStep |-> "INTERVIEW", notificationSent |-> offered,
          isWaitlisted |-> FALSE, interviewInvitedAt |-> offered,
          interviewInviteReminderSentAt |-> FALSE],
         With(Queued(~ offered), IF offered THEN NoPatch ELSE [interviewWaitlistedAt |-> TRUE]))
Status1(s) == [status |-> s]
Closed(decision) == [status |-> "REJECTED", hrDecision |-> decision]

---------------------------------------------------------------------------
(* What each command leads to, from the row it reads.                      *)

ManualContour ==
    {"MENTOR_MANUAL", "DISCOVERY_SCHEDULED", "DISCOVERY_COMPLETED", "TRAINING_SCHEDULED",
     "TRAINING_COMPLETED", "NDA", "KNOWLEDGE_TEST", "STAGING_SETUP", "STAGING_ACTIVE",
     "OFFLINE_STAGING", "READY_FOR_HIRE", "AWAITING_FIRST_SHIFT"}

\* Mutant: the letter goes out unjudged; her age is not asked.
InviteUnjudged(c) == <<Send("invitation", "bar", "throw"), Update(Invited)>>
InviteAnyAge(c) == <<Check(Invited), Send("invitation", "bar", "throw"), Update(Invited)>>
inviteCandidate(c) ==
    CASE age = "not a woman" ->
            <<Update(With([status |-> "REJECTED", isWaitlisted |-> FALSE, notificationSent |-> FALSE],
                          With(Queued(FALSE), Uninvited))),
              Refuse("failed")>>
      [] age \in {"underage", "too old"} ->
            <<Update(With([status |-> "REJECTED", isWaitlisted |-> FALSE, notificationSent |-> FALSE,
                           hrDecision |-> IF age = "underage" THEN "REJECTED_SYSTEM_UNDERAGE"
                                                              ELSE "AGE_LIMIT"],
                          With(Queued(FALSE), Uninvited))),
              Refuse("failed")>>
      [] age = "fits" ->
            <<Check(Invited), Send("invitation", "bar", "throw"), Update(Invited)>>

isReschedulable(c) ==
    c.hrDecision = Null /\ c.status \in {"INTERVIEW_SCHEDULED", "INTERVIEW_COMPLETED"}
isAlreadyRescheduled(c) ==
    /\ c.status = "SCREENING"
    /\ c.hrDecision = Null
    /\ c.currentStep = "INTERVIEW"
    /\ c.interviewSlotId = Null

cancelIfBooked(c) ==
    IF c.interviewSlotId = Null THEN << >> ELSE <<Cancel(c.interviewSlotId, FALSE)>>

rescheduleInterviewByCommand(c, isRetry, offered) ==
    LET resume == isRetry /\ isAlreadyRescheduled(c)
        back == [status |-> "WAITLIST_HR", currentStep |-> "INTERVIEW",
                 interviewCompletedAt |-> FALSE]
        told == Send(IF offered THEN "slots" ELSE "no slots", "archive", "throw") IN
    CASE ~ isReschedulable(c) /\ ~ resume -> <<Refuse("state_conflict")>>
      [] resume -> <<Update(Looking(offered)), told>>
      [] OTHER -> <<Release>> \o cancelIfBooked(c)
                    \o <<Transaction(<<back, Looking(offered)>>), told>>

\* Mutant: the letter first, the row after it.
AcceptLetterFirst(c) ==
    <<Send("offer", "archive", "throw"),
      Update([status |-> "MENTOR_MANUAL", hrDecision |-> "ACCEPTED", notificationSent |-> TRUE,
              materialsSent |-> FALSE, isWaitlisted |-> FALSE])>>
acceptAfterInterview(c) ==
    LET already == c.status = "MENTOR_MANUAL" /\ c.hrDecision = "ACCEPTED"
        completed == [status |-> "INTERVIEW_COMPLETED", currentStep |-> "INTERVIEW",
                      interviewCompletedAt |-> TRUE]
        accepted == [status |-> "MENTOR_MANUAL", hrDecision |-> "ACCEPTED",
                     notificationSent |-> FALSE, materialsSent |-> FALSE,
                     isWaitlisted |-> FALSE]
        moves == CASE already -> << >>
                   [] c.status = "INTERVIEW_SCHEDULED" -> <<Update(completed), Update(accepted)>>
                   [] OTHER -> <<Update(accepted)>> IN
    IF already /\ c.notificationSent THEN << >>
    ELSE moves \o <<Send("offer", "archive", "throw"), Update([notificationSent |-> TRUE])>>

beforeMeeting(c) ==
    c.status = "INTERVIEW_SCHEDULED" /\ c.interviewSlotId # Null
        /\ phase[c.interviewSlotId] = "ahead"

rejectAfterInterview(c) ==
    LET already == c.status = "REJECTED" /\ c.hrDecision = "REJECTED"
        rejected == [status |-> "REJECTED", currentStep |-> "INTERVIEW",
                     hrDecision |-> "REJECTED", notificationSent |-> FALSE,
                     materialsSent |-> FALSE]
        freed == IF beforeMeeting(c) THEN <<Release>> \o cancelIfBooked(c) ELSE << >>
        moves == IF already THEN << >> ELSE freed \o <<Update(rejected)>>
        letter == IF beforeMeeting(c) THEN "rejection" ELSE "thanks for the talk, rejection" IN
    IF already /\ c.notificationSent THEN << >>
    ELSE moves \o <<Send(letter, "archive", "throw"), Update([notificationSent |-> TRUE])>>

markNoShow == <<Update(Closed("NOSHOW")), Send("no-show", "ignore", "ignore")>>

\* Mutant: a rejected candidate is rejected again.
RejectAgain(c, k) == <<Update(Closed("REJECTED")), Send("rejection", "ignore", "ignore")>>
Reject(c, k) ==
    LET polite == IF k \in scene.withText \ sentMark
                  THEN <<Send("training rejection", "ignore", "throw"), Mark>> ELSE << >> IN
    CASE c.status = "REJECTED" -> << >>
      [] c.status \in ManualContour -> polite \o <<Update(Closed("REJECTED"))>>
      [] OTHER -> <<Update(Closed("REJECTED")), Send("rejection", "ignore", "ignore")>>

approveTattoo == <<Update(Status1("SCREENING")), Send("approved", "ignore", "ignore")>>

\* Mutant: the staging is set up anew, whatever she has done of it.
StagingAnew(s) ==
    IF s \in {"STAGING_ACTIVE", "STAGING_SETUP", "OFFLINE_STAGING", "TRAINING_COMPLETED"}
    THEN <<"STAGING_SETUP", "STAGING_ACTIVE">>
    ELSE <<"TRAINING_COMPLETED", "STAGING_SETUP", "STAGING_ACTIVE">>
startStagingPath(s) ==
    CASE s \in {"STAGING_ACTIVE", "STAGING_SETUP", "OFFLINE_STAGING"} -> <<"STAGING_ACTIVE">>
      [] s = "TRAINING_COMPLETED" -> <<"STAGING_SETUP", "STAGING_ACTIVE">>
      [] OTHER -> <<"TRAINING_COMPLETED", "STAGING_SETUP", "STAGING_ACTIVE">>
stagingPassedPath(s) ==
    IF s = "STAGING_SETUP" THEN <<"STAGING_ACTIVE", "READY_FOR_HIRE">> ELSE <<"READY_FOR_HIRE">>
\* A status that she has is skipped; in these paths it can only be the first.
applySilentStatusPath(c, path) ==
    LET ahead == IF path[1] = c.status THEN Tail(path) ELSE path IN
    [i \in DOMAIN ahead |-> Update(Status1(ahead[i]))]

\* Mutant: a retry is quiet as well.
MoveQuietly(c, isRetry) ==
    IF moved THEN << >> ELSE <<Move, Send("location changed", "throw", "throw")>>
changeLocation(c, isRetry) ==
    LET told == Send("location changed", "throw", "throw") IN
    IF c.status \in {"REJECTED", "BLOCKER", "HIRED"} THEN <<Refuse("failed")>>
    ELSE IF ~ moved THEN <<Move, told>>
    ELSE IF isRetry THEN <<told>> ELSE << >>

\* execute: the calls a command leads to.
Todo(k, attempts, offered) ==
    LET c == cand
        kind == outbox[k].kind IN
    CASE kind = "INVITE_TO_INTERVIEW" -> inviteCandidate(c)
      [] kind = "RESCHEDULE_INTERVIEW" ->
            rescheduleInterviewByCommand(c, attempts > 0, offered)
      [] kind = "ACCEPT_AFTER_INTERVIEW" -> acceptAfterInterview(c)
      [] kind = "REJECT_AFTER_INTERVIEW" -> rejectAfterInterview(c)
      [] kind = "MARK_NO_SHOW" -> markNoShow
      [] kind = "REJECT" -> Reject(c, k)
      [] kind = "APPROVE_REVIEW" -> approveTattoo
      [] kind = "MARK_TRAINING_PASSED" -> applySilentStatusPath(c, <<"TRAINING_COMPLETED">>)
      [] kind = "START_STAGING" -> applySilentStatusPath(c, startStagingPath(c.status))
      [] kind = "MARK_STAGING_PASSED" -> applySilentStatusPath(c, stagingPassedPath(c.status))
      [] kind = "CONFIRM_HIRE" -> <<Update(Status1("HIRED"))>>
      [] kind = "CHANGE_LOCATION" -> changeLocation(c, attempts > 0)

---------------------------------------------------------------------------
(* How a call goes.                                                        *)

Touch(a) == touched' = IF a = "dispatcher" THEN touched \cup {run[a].doing[1]} ELSE touched

\* update, first half: the row is read and the patch judged by the guard.
ValidateUpdate(a) ==
    /\ AtCall(a, "update")
    /\ run[a].read = Null
    /\ IF Admits(cand, Call(a).patches[1])
       THEN run' = [run EXCEPT ![a].read = cand]
       ELSE IF Call(a).must THEN Failed(a, "failed") ELSE Goes(a)
    /\ UNCHANGED <<scene, cand, age, moved, blocked, slots, phase, web, outbox, batch, sentMark, chat,
                   talked, touched, mishaps>>

\* update, second half: the patch is written over the row of this moment.  A
\* second patch of one transaction is judged by the row the first one left.
WriteUpdate(a) ==
    LET ps == Call(a).patches
        first == Updated(cand, run[a].read, ps[1]) IN
    /\ AtCall(a, "update")
    /\ run[a].read # Null
    /\ IF Len(ps) = 1 \/ Admits(first, ps[Len(ps)])
       THEN /\ cand' = IF Len(ps) = 1 THEN first ELSE Updated(first, first, ps[2])
            /\ Goes(a)
            /\ Touch(a)
       ELSE /\ Failed(a, "failed")
            /\ UNCHANGED <<scene, cand, touched>>
    /\ UNCHANGED <<scene, age, moved, blocked, slots, phase, web, outbox, batch, sentMark, chat, talked,
                   mishaps>>

\* checkFunnelPatch before an invitation is sent.
CheckPatch(a) ==
    /\ AtCall(a, "check")
    /\ IF Admits(cand, Call(a).patch) THEN Goes(a) ELSE Failed(a, "state_conflict")
    /\ UNCHANGED <<scene, cand, age, moved, blocked, slots, phase, web, outbox, batch, sentMark, chat,
                   talked, touched, mishaps>>

Deliver(a) ==
    /\ AtCall(a, "send")
    /\ chat' = Append(chat, [letter |-> Call(a).letter, by |-> a,
                             of |-> IF a = "dispatcher" THEN run[a].doing[1] ELSE Null])
    /\ Goes(a)
    /\ UNCHANGED <<scene, cand, age, moved, blocked, slots, phase, web, outbox, batch, sentMark, talked,
                   touched, mishaps>>

SendFails(a) ==
    /\ "delivery" \in scene.faults
    /\ AtCall(a, "send")
    /\ IF Call(a).onFailure = "throw" THEN Failed(a, "failed") ELSE Goes(a)
    /\ UNCHANGED <<scene, cand, age, moved, blocked, slots, phase, web, outbox, batch, sentMark, chat,
                   talked, touched, mishaps>>

\* She has blocked the bot: handleBlockedCandidate, inviteCandidate's own
\* archive, or nothing.
SendIsBlocked(a) ==
    LET how == Call(a).onBlocked
        barred == With([status |-> "BLOCKER", notificationSent |-> FALSE, isWaitlisted |-> FALSE],
                       Uninvited) IN
    /\ "blocked" \in scene.faults
    /\ AtCall(a, "send")
    /\ CASE how = "archive" -> run' = [run EXCEPT ![a].todo = <<Archive>>]
         [] how = "bar" -> run' = [run EXCEPT ![a].todo = <<Attempt(barred), Refuse("failed")>>]
         [] how = "throw" -> Failed(a, "failed")
         [] how = "ignore" -> Goes(a)
    /\ blocked' = (blocked \/ how = "bar")
    /\ UNCHANGED <<scene, cand, age, moved, slots, phase, web, outbox, batch, sentMark, chat, talked,
                   touched, mishaps>>

Unbooked(c) == [c EXCEPT !.interviewSlotId = Null]
SlotFreed(s) == [slots EXCEPT ![s].booked = FALSE]

\* handleBlockedCandidate, archiveBlockedCandidate: one transaction.
ArchiveBlocked(a) ==
    LET s == cand.interviewSlotId
        p == [status |-> "BLOCKER", notificationSent |-> FALSE, isWaitlisted |-> FALSE,
              interviewSlotId |-> Null, discoverySlotId |-> FALSE, trainingSlotId |-> FALSE] IN
    /\ AtCall(a, "archive")
    /\ Goes(a)
    /\ IF cand.status = "BLOCKER" /\ blocked
       THEN UNCHANGED <<scene, cand, blocked, slots, touched>>
       ELSE /\ cand' = Updated(cand, cand, p)
            /\ blocked' = TRUE
            /\ slots' = IF s = Null THEN slots ELSE SlotFreed(s)
            /\ Touch(a)
    /\ UNCHANGED <<scene, age, moved, phase, web, outbox, batch, sentMark, chat, talked, mishaps>>

\* releaseCanonicalInterviewSlot: the web app lets go of whatever it holds for her.
ReleaseWebSlot(a) ==
    /\ AtCall(a, "release")
    /\ web' = Null
    /\ Goes(a)
    /\ Touch(a)
    /\ UNCHANGED <<scene, cand, age, moved, blocked, slots, phase, outbox, batch, sentMark, chat, talked,
                   mishaps>>

\* cancelInterviewSlot: a slot that is not hers any more is still freed, unless
\* she is the one who asks.
CancelSlot(a) ==
    LET s == Call(a).slot
        unlink == [currentStep |-> "INTERVIEW", interviewSlotId |-> Null] IN
    /\ AtCall(a, "cancel")
    /\ CASE cand.interviewSlotId = s -> Went(a, <<Update(unlink), Free(s)>>)
         [] cand.interviewSlotId # s /\ Call(a).own -> Failed(a, "failed")
         [] OTHER -> Went(a, <<Free(s)>>)
    /\ UNCHANGED <<scene, cand, age, moved, blocked, slots, phase, web, outbox, batch, sentMark, chat,
                   talked, touched, mishaps>>

FreeSlot(a) ==
    LET s == Call(a).slot IN
    /\ AtCall(a, "free")
    /\ slots' = SlotFreed(s)
    /\ cand' = IF cand.interviewSlotId = s THEN Unbooked(cand) ELSE cand
    /\ Goes(a)
    /\ Touch(a)
    /\ UNCHANGED <<scene, age, moved, blocked, phase, web, outbox, batch, sentMark, chat, talked, mishaps>>

RemindSlot(a) ==
    /\ AtCall(a, "remind")
    /\ slots' = [slots EXCEPT ![Call(a).slot].reminded = TRUE]
    /\ Goes(a)
    /\ UNCHANGED <<scene, cand, age, moved, blocked, phase, web, outbox, batch, sentMark, chat, talked,
                   touched, mishaps>>

MarkSent(a) ==
    /\ AtCall(a, "mark")
    /\ sentMark' = sentMark \cup {run[a].doing[1]}
    /\ Goes(a)
    /\ UNCHANGED <<scene, cand, age, moved, blocked, slots, phase, web, outbox, batch, chat, talked,
                   touched, mishaps>>

MoveLocation(a) ==
    /\ AtCall(a, "move")
    /\ moved' = TRUE
    /\ Goes(a)
    /\ Touch(a)
    /\ UNCHANGED <<scene, cand, age, blocked, slots, phase, web, outbox, batch, sentMark, chat, talked,
                   mishaps>>

RefuseCommand(a) ==
    /\ AtCall(a, "refuse")
    /\ Failed(a, Call(a).why)
    /\ UNCHANGED <<scene, cand, age, moved, blocked, slots, phase, web, outbox, batch, sentMark, chat,
                   talked, touched, mishaps>>

---------------------------------------------------------------------------
(* The dispatcher's iteration, under its lease: one at a time.             *)

Pending == {k \in Commands : outbox[k].status = "PENDING"}
Unissued == {k \in Commands : outbox[k].status = "none"}

\* The recruiter decides in the web app (external).
Issue(k) ==
    /\ k \in Unissued
    /\ \A j \in Unissued : k <= j
    /\ \E kind \in scene.kinds[k] :
        outbox' = [outbox EXCEPT ![k] =
                      [kind |-> kind, status |-> "PENDING", attempts |-> 0, reason |-> "ok"]]
    /\ UNCHANGED <<scene, cand, age, moved, blocked, slots, phase, web, batch, run, sentMark, chat,
                   talked, touched, mishaps>>

\* listPendingRecruitingCommands: the old ones first, each with its attempts.
Fetch ==
    /\ batch = << >>
    /\ ~ Running("dispatcher")
    /\ Pending # {}
    /\ \E order \in [1 .. Cardinality(Pending) -> Pending] :
          /\ \A i, j \in DOMAIN order : i < j => order[i] < order[j]
          /\ batch' = [i \in DOMAIN order |-> <<order[i], outbox[order[i]].attempts>>]
    /\ UNCHANGED <<scene, cand, age, moved, blocked, slots, phase, web, outbox, run, sentMark, chat,
                   talked, touched, mishaps>>

\* The commands whose first word goes to the web app: which slots are free, or that
\* hers is let go of.  If that fails, nothing has been changed.
AsksWebFirst(c, k, isRetry) ==
    \/ /\ outbox[k].kind = "RESCHEDULE_INTERVIEW"
       /\ isReschedulable(c) \/ (isRetry /\ isAlreadyRescheduled(c))
    \/ outbox[k].kind = "REJECT_AFTER_INTERVIEW" /\ beforeMeeting(c)

\* applyOne, execute: the row is read.  execute's own read only finds her where the
\* service reads her row again (an invitation, a reschedule, a verdict, a no-show);
\* for a rejection and the silent moves it is the one that decides.
BeginCommand ==
    LET k == batch[1][1]
        isRetry == batch[1][2] > 0 IN
    /\ batch # << >>
    /\ MayBegin("dispatcher")
    /\ batch' = Tail(batch)
    /\ \/ \E offered \in BOOLEAN :
            /\ offered \/ outbox[k].kind = "RESCHEDULE_INTERVIEW"
            /\ Begun("dispatcher", batch[1], Todo(k, batch[1][2], offered))
       \/ /\ "slots" \in scene.faults
          /\ AsksWebFirst(cand, k, isRetry)
          /\ Begun("dispatcher", batch[1], <<Refuse("failed")>>)
    /\ UNCHANGED <<scene, cand, age, moved, blocked, slots, phase, web, outbox, sentMark, chat, talked,
                   touched, mishaps>>

Ended(a) == Running(a) /\ run[a].todo = << >>
Resting(a) == run' = [run EXCEPT ![a] = Idle]

\* Mutant: no failure counts; no command is ever buried.
AckedUncounted(k, result) ==
    IF result = "ok" THEN [outbox EXCEPT ![k].status = "APPLIED"] ELSE outbox
AckedForever(k, result) ==
    IF result = "ok" THEN [outbox EXCEPT ![k].status = "APPLIED"]
                     ELSE [outbox EXCEPT ![k].attempts = @ + 1]

\* The web app's side of an ack (external): five failures, or a state
\* conflict, bury the command.
Acked(k, result) ==
    LET o == outbox[k] IN
    IF o.status # "PENDING" THEN outbox
    ELSE IF result = "ok" THEN [outbox EXCEPT ![k].status = "APPLIED"]
    ELSE [outbox EXCEPT ![k] =
            [kind |-> o.kind,
             status |-> IF result = "state_conflict" \/ o.attempts + 1 = scene.attempts
                        THEN "FAILED" ELSE "PENDING",
             attempts |-> o.attempts + 1, reason |-> result]]

\* applyOne's ack; a lost one is logged and forgotten.
Ack ==
    /\ Ended("dispatcher")
    /\ outbox' = Acked(run["dispatcher"].doing[1], run["dispatcher"].result)
    /\ Resting("dispatcher")
    /\ UNCHANGED <<scene, cand, age, moved, blocked, slots, phase, web, batch, sentMark, chat, talked,
                   touched, mishaps>>
LoseAck ==
    /\ "ack" \in scene.faults
    /\ mishaps < MaxMishaps
    /\ Ended("dispatcher")
    /\ Resting("dispatcher")
    /\ mishaps' = mishaps + 1
    /\ UNCHANGED <<scene, cand, age, moved, blocked, slots, phase, web, outbox, batch, sentMark, chat,
                   talked, touched>>

---------------------------------------------------------------------------
(* The candidate workflow worker: each pass fetches, then acts.            *)

Works(todo) ==
    /\ MayBegin("worker")
    /\ Begun("worker", "tick", todo)
    /\ UNCHANGED <<scene, cand, age, moved, blocked, slots, phase, web, outbox, batch, sentMark, chat,
                   talked, touched, mishaps>>

\* Step 1: a decision whose letter has not gone out six hours after the talk.
NotifyDecision ==
    /\ cand.status = "INTERVIEW_COMPLETED"
    /\ ~ cand.notificationSent
    /\ cand.interviewCompletedAt
    /\ \E s \in Slots : phase[s] = "long over"
    /\ \/ /\ cand.hrDecision = "ACCEPTED"
          /\ Works(<<Send("offer", "archive", "throw"),
                     Update([status |-> "MENTOR_MANUAL", notificationSent |-> TRUE])>>)
       \/ /\ cand.hrDecision = "REJECTED"
          /\ Works(<<Send("thanks for the talk, rejection", "archive", "throw"),
                     Update([status |-> "REJECTED", notificationSent |-> TRUE])>>)

Over(s) == phase[s] \in {"over", "long over"}
Completed == [status |-> "INTERVIEW_COMPLETED", interviewCompletedAt |-> TRUE]

\* findOverdueBooked.
OverdueBooking(s) ==
    /\ slots[s] = [booked |-> TRUE, reminded |-> FALSE]
    /\ Over(s)
    /\ cand.interviewSlotId = s
    /\ cand.status = "INTERVIEW_SCHEDULED"

\* autoCompleteOverdueInterviews; whether to thank her is settled by the
\* decision fetched, before the calls.
AutoComplete ==
    \E s \in Slots :
        /\ OverdueBooking(s)
        /\ Works(<<Update(Completed), Remind(s)>> \o
                 IF cand.hrDecision = Null THEN <<Send("thanks", "archive", "ignore")>>
                                           ELSE << >>)

\* Mutant: the query looks no further back than a few hours.
StaleSinceToday(s) ==
    /\ cand.status = "SCREENING"
    /\ cand.currentStep = "INTERVIEW"
    /\ cand.interviewSlotId = s
    /\ slots[s].booked
    /\ phase[s] = "over"

\* Who chooses a time and holds one that is over.
StaleBooking(s) ==
    /\ cand.status = "SCREENING"
    /\ cand.currentStep = "INTERVIEW"
    /\ cand.interviewSlotId = s
    /\ slots[s].booked
    /\ Over(s)

\* recoverStaleInterviewCandidates.
RecoverStale ==
    \E s \in Slots :
        /\ StaleBooking(s)
        /\ Works(<<Update(Completed), Remind(s)>>)

\* Mutant: only a no-show is repaired.
RepairNoShow ==
    /\ cand.status = "INTERVIEW_COMPLETED" /\ cand.hrDecision = "NOSHOW"
    /\ Works(<<Update(Status1("REJECTED"))>>)

\* repairRejectedInterviewCompletedStates.
RepairRejected ==
    /\ cand.status = "INTERVIEW_COMPLETED"
    /\ \/ cand.hrDecision = "NOSHOW"
       \/ cand.hrDecision = "REJECTED" /\ cand.notificationSent
    /\ Works(<<Update(Status1("REJECTED"))>>)

---------------------------------------------------------------------------
(* Her own buttons.                                                        *)

canScheduleInterview(c) ==
    /\ c.interviewSlotId = Null
    /\ \/ c.status = "SCREENING" /\ c.notificationSent
       \/ c.currentStep = "INTERVIEW" /\ c.status \in {"SCREENING", "WAITLIST_HR", "WAITLIST"}
canRescheduleInterview(c) ==
    /\ c.status = "INTERVIEW_SCHEDULED"
    /\ c.interviewSlotId # Null
    /\ phase[c.interviewSlotId] = "ahead"

Taps(todo) ==
    /\ scene.booking
    /\ MayBegin("candidate")
    /\ Begun("candidate", "tap", todo)
    /\ UNCHANGED <<scene, cand, age, moved, blocked, slots, phase, web, outbox, batch, sentMark, chat,
                   talked, touched, mishaps>>

\* book_slot_: the guard of the booking handlers, then bookInterviewSlot, which
\* remembers the booking it may have to restore.  Who does not fit is rejected by
\* the guard itself, which is left out: the runs with buttons have her fit.
TapSlot ==
    \E s \in Slots :
        /\ age = "fits"
        /\ canScheduleInterview(cand) \/ canRescheduleInterview(cand)
        /\ s # cand.interviewSlotId
        /\ phase[s] = "ahead"
        /\ Taps(<<TakeWebSlot(s), EmptyMirror(s), Book(s, cand.interviewSlotId)>>)

\* Mutant: the cancellation stays in the bot's tables.
TapCancelLocally ==
    /\ canRescheduleInterview(cand)
    /\ Taps(<<Cancel(cand.interviewSlotId, TRUE),
              Update([status |-> "WAITLIST_HR", currentStep |-> "INTERVIEW"])>>)

\* ccb: the confirmed cancellation.
TapCancel ==
    LET waiting == With([status |-> "WAITLIST_HR", currentStep |-> "INTERVIEW",
                         isWaitlisted |-> TRUE, notificationSent |-> FALSE,
                         interviewSlotId |-> Null, interviewWaitlistedAt |-> TRUE],
                        Queued(FALSE)) IN
    /\ canRescheduleInterview(cand)
    /\ Taps(<<Release, Cancel(cand.interviewSlotId, TRUE), Update(waiting)>>)

\* The web app books, letting go of her earlier slot.
TakeSlot(a) ==
    /\ AtCall(a, "take")
    /\ web' = Call(a).slot
    /\ Goes(a)
    /\ UNCHANGED <<scene, cand, age, moved, blocked, slots, phase, outbox, batch, sentMark, chat, talked,
                   touched, mishaps>>

\* bookInterviewSlot's transaction, first half: what it reads.  If it refuses,
\* the web booking is undone.
ValidateBooking(a) ==
    LET s == Call(a).slot
        before == Call(a).before
        undo == <<Release>> \o IF before \in {Null, s} THEN << >> ELSE <<Restore(before)>> IN
    /\ AtCall(a, "book")
    /\ run[a].read = Null
    /\ IF /\ ~ slots[s].booked
          /\ cand.status # "REJECTED"
          /\ cand.hrDecision \notin {"AGE_LIMIT", "REJECTED_SYSTEM_UNDERAGE"}
          /\ Admits(cand, Status1("INTERVIEW_SCHEDULED"))
       THEN run' = [run EXCEPT ![a].read = cand]
       ELSE Went(a, undo)
    /\ UNCHANGED <<scene, cand, age, moved, blocked, slots, phase, web, outbox, batch, sentMark, chat,
                   talked, touched, mishaps>>

\* Mutant: her row names the slot, the slot is not taken.
WriteBookingOnly(a) ==
    /\ AtCall(a, "book")
    /\ run[a].read # Null
    /\ cand' = [Updated(cand, run[a].read, Status1("INTERVIEW_SCHEDULED"))
                   EXCEPT !.interviewSlotId = Call(a).slot]
    /\ Goes(a)
    /\ UNCHANGED <<scene, age, moved, blocked, slots, phase, web, outbox, batch, sentMark, chat, talked,
                   touched, mishaps>>

\* Second half: its writes, which become visible together.
WriteBooking(a) ==
    LET s == Call(a).slot
        old == run[a].read.interviewSlotId
        scheduled == Updated(cand, run[a].read, Status1("INTERVIEW_SCHEDULED")) IN
    /\ AtCall(a, "book")
    /\ run[a].read # Null
    /\ cand' = [scheduled EXCEPT !.interviewSlotId = s]
    /\ slots' = [t \in Slots |-> CASE t = s -> [slots[t] EXCEPT !.booked = TRUE]
                                   [] t = old /\ t # s -> [slots[t] EXCEPT !.booked = FALSE]
                                   [] OTHER -> slots[t]]
    /\ Goes(a)
    /\ UNCHANGED <<scene, age, moved, blocked, phase, web, outbox, batch, sentMark, chat, talked, touched,
                   mishaps>>

RestoreWebSlot(a) ==
    /\ AtCall(a, "restore")
    /\ web' = Call(a).slot
    /\ Goes(a)
    /\ UNCHANGED <<scene, cand, age, moved, blocked, slots, phase, outbox, batch, sentMark, chat, talked,
                   touched, mishaps>>

---------------------------------------------------------------------------

Rest(a) ==
    /\ a # "dispatcher"
    /\ Ended(a)
    /\ Resting(a)
    /\ UNCHANGED <<scene, cand, age, moved, blocked, slots, phase, web, outbox, batch, sentMark, chat,
                   talked, touched, mishaps>>

\* A slot's time comes.
Pass(s) ==
    /\ phase[s] # "long over"
    /\ phase' = [phase EXCEPT ![s] = CASE @ = "ahead" -> "on" [] @ = "on" -> "over"
                                       [] @ = "over" -> "long over"]
    /\ talked' = (talked \/ (phase[s] = "ahead" /\ cand.interviewSlotId = s))
    /\ UNCHANGED <<scene, cand, age, moved, blocked, slots, web, outbox, batch, run, sentMark, chat,
                   touched, mishaps>>

\* The process dies: what it was doing and what it had fetched are gone.
Crash ==
    /\ "crash" \in scene.faults
    /\ mishaps < MaxMishaps
    /\ mishaps' = mishaps + 1
    /\ run' = [a \in Actors |-> Idle]
    /\ batch' = << >>
    /\ UNCHANGED <<scene, cand, age, moved, blocked, slots, phase, web, outbox, sentMark, chat, talked,
                   touched>>

Init ==
    /\ scene \in Scenes
    /\ cand \in scene.rows
    /\ age \in scene.ages
    /\ moved = FALSE
    /\ blocked = FALSE
    /\ slots = [s \in Slots |-> [booked |-> s = cand.interviewSlotId, reminded |-> FALSE]]
    /\ phase = scene.phase
    /\ web = cand.interviewSlotId
    /\ outbox = [k \in Commands |->
                    [kind |-> Null, status |-> "none", attempts |-> 0, reason |-> "ok"]]
    /\ batch = << >>
    /\ run = [a \in Actors |-> Idle]
    /\ sentMark = {}
    /\ chat = << >>
    /\ talked = FALSE
    /\ touched = {}
    /\ mishaps = 0

OtherCalls(a) ==
    \/ ValidateUpdate(a) \/ CheckPatch(a)
    \/ Deliver(a) \/ SendFails(a) \/ SendIsBlocked(a)
    \/ ReleaseWebSlot(a) \/ CancelSlot(a) \/ FreeSlot(a) \/ RemindSlot(a)
    \/ MarkSent(a) \/ MoveLocation(a) \/ RefuseCommand(a)
    \/ TakeSlot(a) \/ ValidateBooking(a) \/ RestoreWebSlot(a)
    \/ Rest(a)
Calls(a) ==
    \/ WriteUpdate(a) \/ ArchiveBlocked(a) \/ WriteBooking(a)
    \/ OtherCalls(a)
Dispatch == Fetch \/ BeginCommand \/ Ack \/ LoseAck
Work == NotifyDecision \/ AutoComplete \/ RecoverStale \/ RepairRejected
Tap == TapSlot \/ TapCancel

Next ==
    \/ \E k \in Commands : Issue(k)
    \/ Dispatch \/ Work \/ Tap \/ Crash
    \/ \E a \in Actors : Calls(a)
    \/ \E s \in Slots : Pass(s)

Spec == Init /\ [][Next]_vars

\* The event loop goes on, the ticks come back and time passes; a letter the
\* worker tries to send at every tick reaches Telegram in the end.
Fairness ==
    /\ WF_state(Fetch \/ BeginCommand \/ Ack \/ Calls("dispatcher"))
    /\ WF_state(Work \/ Calls("worker"))
    /\ WF_state(Calls("candidate"))
    /\ \A s \in Slots : WF_state(Pass(s))
    /\ SF_state(Deliver("worker"))
FairSpec == Spec /\ Fairness

---------------------------------------------------------------------------
(* Properties.                                                             *)

Row == Snapshot
\* The last line is of InvitationWaitlist.
Letters ==
    {"invitation", "slots", "no slots", "offer", "rejection", "thanks for the talk, rejection",
     "no-show", "training rejection", "approved", "location changed", "thanks",
     "invitation reminder", "invitation expired", "slots opened"}

\* The type invariant: the row stays a row of the table, and every letter is
\* one the bot knows.
TypeOK ==
    /\ cand \in Row /\ age \in Ages
    /\ moved \in BOOLEAN /\ blocked \in BOOLEAN /\ talked \in BOOLEAN
    /\ slots \in [Slots -> [booked : BOOLEAN, reminded : BOOLEAN]]
    /\ phase \in [Slots -> Phases]
    /\ web \in Slots \cup {Null}
    /\ outbox \in [Commands -> [kind : KindNames \cup {Null},
                                status : {"none", "PENDING", "APPLIED", "FAILED"},
                                attempts : 0 .. scene.attempts,
                                reason : {"ok", "failed", "state_conflict"}]]
    /\ sentMark \subseteq Commands /\ touched \subseteq Commands
    /\ \A i \in DOMAIN chat : chat[i].letter \in Letters
    /\ mishaps \in 0 .. MaxMishaps

LettersOf(k) == {i \in DOMAIN chat : chat[i].of = k}
Verdicts == {"ACCEPT_AFTER_INTERVIEW", "REJECT_AFTER_INTERVIEW", "REJECT"}
Quiet == \A a \in Actors : ~ Running(a)

\* A verdict is told once, however often its command is retried after a failed
\* send or offered again after a lost ack (the notificationSent flag, the
\* already-rejected check and the redis mark), as long as no other command has
\* written over the decision those checks read.
VerdictLetterOnce ==
    \A k \in Commands :
        outbox[k].kind \in Verdicts /\ touched \subseteq {k} => Cardinality(LettersOf(k)) <= 1

\* A rejected candidate is not brought back by a command decided earlier and
\* applied, or offered again, later: the guard lets nobody out of REJECTED. (It
\* judges a row read before: handlers that overlap can bring her back.)
RejectedStaysOut ==
    [][~scene.overlap /\ cand.status = "REJECTED" /\ cand.hrDecision # "REJECTED_SYSTEM_UNDERAGE"
            => cand'.status \in {"REJECTED", "BLOCKER"}]_vars

\* Nobody who has a booking is told to choose a time, even by a web app that
\* lags behind: the patch is judged before the letter goes out, and as long as one
\* handler runs at a time.
InvitedAreFree ==
    [][\A i \in DOMAIN chat' \ DOMAIN chat :
            ~scene.overlap /\ chat'[i].letter = "invitation" => cand.interviewSlotId = Null]_vars

\* What the web app holds for her and what the bot's tables say of it agree
\* whenever nothing is under way, as long as one handler runs at a time.
SlotsAgree ==
    Quiet /\ ~scene.overlap =>
        /\ web # Null => slots[web].booked /\ cand.interviewSlotId = web
        /\ cand.status = "INTERVIEW_SCHEDULED" => web = cand.interviewSlotId

\* Once she has been told no, nothing she is told says yes, whatever is retried
\* or offered again.
NoHopeAfterRejection ==
    \A i, j \in DOMAIN chat :
        i < j /\ chat[i].letter \in
                   {"rejection", "thanks for the talk, rejection", "training rejection", "no-show"}
            => chat[j].letter \notin {"invitation", "slots", "no slots", "offer", "approved",
                                     "location changed"}

\* A new place of work that was written by a command is not kept from her: the
\* command counts as applied when she has been told, as long as no answer to
\* the web app is lost and no other command has written to her row.
MovedAreTold ==
    \A k \in Commands :
        outbox[k].kind = "CHANGE_LOCATION" /\ outbox[k].status = "APPLIED"
            /\ touched = {k} /\ mishaps = 0
            => \E i \in DOMAIN chat : chat[i].letter = "location changed"

\* Who is too young, too old or not a woman hears of no interview, whatever has
\* reopened her row, and is turned away by the invitation, unless another command
\* reopens her row after it.
UnfitAreTurnedAway ==
    age # "fits" =>
        /\ \A i \in DOMAIN chat : chat[i].letter # "invitation"
        /\ \A k \in Commands :
              /\ outbox[k].kind = "INVITE_TO_INTERVIEW"
              /\ outbox[k].status = "FAILED"
              /\ touched \subseteq {k}
              => cand.status = "REJECTED"

\* No command, retried or offered again after others were applied, takes her
\* back to an earlier stage: she goes on, or out.
Stage(s) ==
    CASE s \in {"MENTOR_MANUAL", "NDA", "KNOWLEDGE_TEST"} -> 1
      [] s = "TRAINING_COMPLETED" -> 2
      [] s = "STAGING_SETUP" -> 3
      [] s \in {"STAGING_ACTIVE", "OFFLINE_STAGING"} -> 4
      [] s \in {"READY_FOR_HIRE", "AWAITING_FIRST_SHIFT"} -> 5
      [] s = "HIRED" -> 6
      [] OTHER -> 0
StagesGoForward ==
    [][cand'.status \in {"REJECTED", "BLOCKER"}
         \/ Stage(cand'.status) >= Stage(cand.status)]_vars

\* The slot her row names is taken in the bot's table, at every moment: nobody
\* else is offered it, whatever her booking overlaps with.
HersIsTaken == cand.interviewSlotId # Null => slots[cand.interviewSlotId].booked

\* What she reads is true, whatever is retried, offered again or crossed: one
\* verdict, no yes after a no, no move kept from her.
SheIsToldTheTruth == VerdictLetterOnce /\ NoHopeAfterRejection /\ MovedAreTold

\* The rows keep their shape, and her row, the bot's slots and the web app's fit
\* one another.
TablesAreSound == TypeOK /\ SlotsAgree /\ HersIsTaken

\* No command, late or repeated, leads back to an earlier stage or out of a
\* rejection.
NoWayBack == RejectedStaysOut /\ StagesGoForward

\* An invitation goes to whom it may: not to who is unfit, nor to who has a
\* booking.
InvitationsAreRight == []UnfitAreTurnedAway /\ InvitedAreFree

\* A command refused for good as not applied has changed nothing.
\* The code breaks it: see README.md.
RefusedChangedNothing ==
    \A k \in Commands : outbox[k].reason = "state_conflict" => k \notin touched

\* The retry of a command leaves alone a booking she made after its first try.
\* The code breaks it: see README.md.
RetryKeepsNewBooking ==
    [][AtCall("dispatcher", "release") /\ run["dispatcher"].doing[1] \in touched /\ web # Null
            => web' = web]_vars

\* Whoever is thanked for the talk has been invited to one that has begun.
\* The code breaks it: see README.md.
ThankedHaveTalked ==
    \A i \in DOMAIN chat : chat[i].letter = "thanks for the talk, rejection" => talked

\* The thanks that announce a decision do not follow it.
\* The code breaks it: see README.md.
ThanksComeBeforeTheVerdict ==
    \A i, j \in DOMAIN chat :
        i < j /\ chat[i].letter \in {"offer", "rejection", "thanks for the talk, rejection"}
            => chat[j].letter # "thanks"

\* A decision against her is her status as well.
RejectionHolds == cand.hrDecision \in {"REJECTED", "NOSHOW"} => cand.status \in {"REJECTED", "BLOCKER"}

\* Whatever overlaps with a rejection, the repairs of the worker let it stand.
\* EverythingSettles of InvitationWaitlist holds it where she uses no button; with
\* her buttons the code breaks it: see README.md.
RejectionStands == <>[]RejectionHolds

\* Whatever overlaps with an acceptance, she ends outside the interview stage.
\* The code breaks it: see README.md.
AcceptanceStands == <>[](cand.hrDecision = "ACCEPTED" => cand.status \notin InterviewTrack)

\* A booking is not forgotten: once every slot is over, whoever holds one is an
\* interviewed candidate, or one of the two queries of the worker finds her, though
\* an invitation was written over her booking as it was made.
BookedEndInterviewed ==
    /\ Quiet
    /\ \A s \in Slots : phase[s] = "long over"
    /\ cand.interviewSlotId # Null
    /\ ~ \E s \in Slots : OverdueBooking(s) \/ StaleBooking(s)
    => cand.interviewCompletedAt \/ cand.status \notin {"SCREENING", "INTERVIEW_SCHEDULED"}
=============================================================================
