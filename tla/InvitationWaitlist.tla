------------------------- MODULE InvitationWaitlist -------------------------
(* What happens to an invitation nobody answers, and to a candidate for whom *)
(* there is no time: workers/invite-reminder.ts reminds her after a day and  *)
(* takes the place back after two, services/interview-slot-waitlist.ts tells *)
(* who waits that new windows are there.  Both are passes of the tick that   *)
(* RecruitingCommands models, over the same row, and so are her buttons: the *)
(* module adds the columns they keep, the web app's windows and their memory.*)
EXTENDS RecruitingCommands

CONSTANTS
    MaxTaps,        \* how often she presses a button
    MaxChanges      \* how often a window is opened or goes to somebody else

ASSUME BoundsAssumption == MaxTaps \in Nat /\ MaxChanges \in Nat /\ IsFiniteSet(Slots)

VARIABLES
    invitation,     \* interviewInvitedAt, by its age, and interviewInviteReminderSentAt
    waitReason,     \* interviewWaitlistReason is set
    open,           \* the slots the recruiter has opened in the web app
    firstSeen,      \* the windows remembered by interview-slots-first-seen
    newer,          \* those of them first seen after interviewWaitlistedAt
    news,           \* how many windows were seen for the first time
    taps,           \* how often she has pressed a button
    changes         \* how often the windows have changed

waitlist == <<invitation, waitReason, open, firstSeen, newer, news, taps, changes>>
allVars == <<scene, state, waitlist>>

AtAges == {"none", "fresh", "day", "two days"}

\* findAvailableInterviewSlots: the web app's free windows ahead.
Available == {s \in open : phase[s] = "ahead" /\ web # s}

---------------------------------------------------------------------------
(* The columns, written with the row.                                      *)

InvitedAfter(p) ==
    [at |-> IF "interviewInvitedAt" \notin DOMAIN p THEN invitation.at
            ELSE IF p.interviewInvitedAt THEN "fresh" ELSE "none",
     reminded |-> Field(p, "interviewInviteReminderSentAt", invitation.reminded)]

\* CandidateRepository.update writes what the patch names; a waitlist date is
\* the present moment.
WriteRow(a) ==
    LET p == Call(a).patches[Len(Call(a).patches)]
        done == run'[a].result = "ok" IN
    /\ WriteUpdate(a)
    /\ invitation' = IF done THEN InvitedAfter(p) ELSE invitation
    /\ waitReason' = IF done THEN Field(p, "interviewWaitlistReason", waitReason) ELSE waitReason
    /\ newer' = IF done /\ "interviewWaitlistedAt" \in DOMAIN p THEN {} ELSE newer
    /\ UNCHANGED <<open, firstSeen, news, taps, changes>>

ArchiveRow(a) ==
    /\ ArchiveBlocked(a)
    /\ invitation' = IF cand' = cand THEN invitation ELSE [invitation EXCEPT !.at = "none"]
    /\ UNCHANGED <<waitReason, open, firstSeen, newer, news, taps, changes>>

BookRow(a) ==
    /\ WriteBooking(a)
    /\ waitReason' = FALSE
    /\ UNCHANGED <<invitation, open, firstSeen, newer, news, taps, changes>>

\* The letter of a reschedule follows the windows it has read.
BeginWithWindows ==
    /\ BeginCommand
    /\ \A i \in DOMAIN run'["dispatcher"].todo :
          LET c == run'["dispatcher"].todo[i] IN
          c.op = "send" => c.letter # (IF Available = {} THEN "slots" ELSE "no slots")
    /\ UNCHANGED waitlist

---------------------------------------------------------------------------
(* The passes of the tick.                                                 *)

\* processInviteReminders' query.
Pending24 ==
    /\ cand.status = "SCREENING"
    /\ cand.notificationSent
    /\ invitation.at # "none"
    /\ cand.interviewSlotId = Null

Expired ==
    With([status |-> "WAITLIST_HR", isWaitlisted |-> TRUE, currentStep |-> "INITIAL_TEST",
          notificationSent |-> FALSE, interviewInviteReminderSentAt |-> FALSE], Uninvited)

\* After two days the place goes back, whether or not the letter arrives.
ExpireInvitation ==
    /\ Pending24
    /\ invitation.at = "two days"
    /\ Works(<<Update(Expired), Send("invitation expired", "archive", "ignore")>>)
    /\ UNCHANGED waitlist

\* Mutant: nothing notes the reminder.
RemindUnmarked ==
    /\ Pending24
    /\ invitation.at = "day"
    /\ Works(<<Send("invitation reminder", "archive", "throw")>>)
    /\ UNCHANGED waitlist
\* After one day she is reminded, and the reminder noted when it has gone out.
RemindInvitation ==
    /\ Pending24
    /\ invitation.at = "day"
    /\ ~ invitation.reminded
    /\ Works(<<Send("invitation reminder", "archive", "throw"),
              Update([interviewInviteReminderSentAt |-> TRUE])>>)
    /\ UNCHANGED waitlist

\* notifyWaitlist's query, but for the date.
Waits ==
    /\ cand.status \in {"SCREENING", "WAITLIST_HR", "WAITLIST"}
    /\ age # "not a woman"
    /\ cand.currentStep = "INTERVIEW"
    /\ cand.interviewSlotId = Null
    /\ cand.isWaitlisted \/ (cand.status = "SCREENING" /\ waitReason)

\* Mutant: an earlier invitation goes on.
ToldStillInvited(c) ==
    With([status |-> "SCREENING", isWaitlisted |-> FALSE, notificationSent |-> TRUE,
          materialsSent |-> FALSE, interviewWaitlistedAt |-> TRUE], Queued(TRUE))
\* Mutant: she is told again at every tick.
ToldUndated(c) ==
    With([status |-> "SCREENING", isWaitlisted |-> FALSE, notificationSent |-> TRUE,
          materialsSent |-> FALSE, interviewInviteReminderSentAt |-> FALSE],
         With(Queued(TRUE), Uninvited))
TellPatch(c) ==
    With([status |-> "SCREENING", isWaitlisted |-> FALSE, notificationSent |-> TRUE,
          materialsSent |-> FALSE, interviewInviteReminderSentAt |-> FALSE,
          interviewWaitlistedAt |-> TRUE], With(Queued(TRUE), Uninvited))

\* mergeFirstSeen and newestFirstSeen: the windows that make the newest sighting
\* later than her waiting.  A window that has gone is forgotten.
NewForHer(seen) == (newer \cap seen) \cup (seen \ firstSeen)

\* Mutant: only a window of this very tick is news.
NewOfThisTick(seen) == seen \ firstSeen # {}
HasNews(seen) == NewForHer(seen) # {}

\* notifyWaitlistAboutNewSlots: the windows are remembered first, then whoever
\* has waited since before the newest of them is told.
TellOfWindows ==
    LET seen == Available IN
    /\ MayBegin("worker")
    /\ firstSeen' = seen
    /\ newer' = NewForHer(seen)
    /\ news' = news + Cardinality(seen \ firstSeen)
    /\ IF Waits /\ HasNews(seen)
       THEN Works(<<Check(TellPatch(cand)), Send("slots opened", "archive", "throw"),
                   Update(TellPatch(cand))>>)
       ELSE /\ seen # firstSeen
            /\ UNCHANGED <<scene, state>>
    /\ UNCHANGED <<invitation, waitReason, open, taps, changes>>

---------------------------------------------------------------------------
(* Her buttons.                                                            *)

Presses ==
    /\ taps < MaxTaps
    /\ taps' = taps + 1
    /\ UNCHANGED <<invitation, waitReason, open, firstSeen, newer, news, changes>>

TapWindow ==
    /\ TapSlot
    /\ run'["candidate"].todo[1].slot \in Available
    /\ Presses

\* buildInterviewSlotNeededPatch
SlotNeeded ==
    With([status |-> "SCREENING", isWaitlisted |-> FALSE, currentStep |-> "INTERVIEW",
          notificationSent |-> FALSE, interviewWaitlistedAt |-> TRUE], Queued(TRUE))

\* no_slots_fit, and start_scheduling when there is no window.
TapNoSlotsFit ==
    /\ age = "fits"
    /\ canScheduleInterview(cand)
    /\ Taps(<<Update(SlotNeeded)>>)
    /\ Presses

\* Mutant: an invitation is live as long as nothing is booked.
LiveUntilBooked(c) == c.status = "SCREENING" /\ c.notificationSent /\ c.interviewSlotId = Null
hasLiveInterviewInvitation(c) ==
    c.status = "SCREENING" /\ c.notificationSent /\ invitation.at # "none"
        /\ c.interviewSlotId = Null

\* decline_invite_confirm, of a live invitation only.
Declined == [status |-> "REJECTED", isWaitlisted |-> FALSE, notificationSent |-> TRUE]
TapDecline ==
    /\ age = "fits"
    /\ hasLiveInterviewInvitation(cand)
    /\ Taps(<<Update(Declined)>>)
    /\ Presses

\* cwi: she gives up the job, and the time she had with it.
TapWithdraw ==
    LET withdrawn == With([status |-> "REJECTED", notificationSent |-> TRUE, interviewSlotId |-> Null],
                          Queued(FALSE))
        none == cand.status = "INTERVIEW_SCHEDULED" /\ cand.interviewSlotId = Null IN
    /\ canRescheduleInterview(cand) \/ none
    /\ Taps((IF none THEN << >> ELSE <<Release, Cancel(cand.interviewSlotId, TRUE)>>)
                \o <<Update(withdrawn)>>)
    /\ Presses

---------------------------------------------------------------------------
(* The windows and the clock.                                              *)

ChangesWindows(windows) ==
    /\ changes < MaxChanges
    /\ changes' = changes + 1
    /\ open' = windows
    /\ UNCHANGED <<scene, state, invitation, waitReason, firstSeen, newer, news, taps>>

\* The recruiter opens a window; it goes to another candidate (external).
OpenWindow(s) == s \notin open /\ scene.booking /\ ChangesWindows(open \cup {s})
LoseWindow(s) == s \in Available /\ ~ Running("candidate") /\ ChangesWindows(open \ {s})

InvitationAges ==
    /\ invitation.at \in {"fresh", "day"}
    /\ invitation' = [invitation EXCEPT !.at = IF @ = "fresh" THEN "day" ELSE "two days"]
    /\ UNCHANGED <<scene, state, waitReason, open, firstSeen, newer, news, taps, changes>>

InitWaitlist ==
    /\ Init
    /\ invitation = [at |-> "none", reminded |-> FALSE]
    /\ waitReason = FALSE
    /\ open \in IF scene.booking THEN {{}, {s \in Slots : phase[s] = "ahead"}} ELSE {{}}
    /\ firstSeen = {} /\ newer = {} /\ news = 0
    /\ taps = 0 /\ changes = 0

InvitationPasses == ExpireInvitation \/ RemindInvitation \/ TellOfWindows
HerTaps ==
    \/ TapWindow \/ TapNoSlotsFit \/ TapDecline \/ TapWithdraw
    \/ TapCancel /\ Presses
AsBefore ==
    \/ \E k \in Commands : Issue(k)
    \/ Fetch \/ Ack \/ LoseAck
    \/ Work
    \/ Crash /\ (batch # << >> \/ ~ Quiet)
    \/ \E a \in Actors : OtherCalls(a)
    \/ \E s \in Slots : ~ scene.booking /\ Pass(s)

NextWaitlist ==
    \/ AsBefore /\ UNCHANGED waitlist
    \/ BeginWithWindows
    \/ \E a \in Actors : WriteRow(a) \/ ArchiveRow(a) \/ BookRow(a)
    \/ InvitationPasses
    \/ HerTaps
    \/ \E s \in Slots : OpenWindow(s) \/ LoseWindow(s)
    \/ InvitationAges

SpecWaitlist == InitWaitlist /\ [][NextWaitlist]_allVars

\* The process goes on with what is under way or due, and nothing else: she need
\* not press, nor the recruiter decide, nor an invitation grow old.  A letter the
\* tick tries to send again and again reaches Telegram in the end.
GoesOn(a) ==
    /\ Running(a)
    /\ \/ WriteRow(a) \/ ArchiveRow(a) \/ BookRow(a)
       \/ OtherCalls(a) /\ UNCHANGED waitlist
Proceeds ==
    \/ \E a \in Actors : GoesOn(a)
    \/ BeginWithWindows
    \/ (Fetch \/ Ack \/ Work) /\ UNCHANGED waitlist
    \/ InvitationPasses
    \/ \E s \in Slots : ~ scene.booking /\ Pass(s) /\ UNCHANGED waitlist
FairWaitlist == WF_allVars(Proceeds) /\ SF_state(Deliver("worker"))
FairSpecWaitlist == SpecWaitlist /\ FairWaitlist

---------------------------------------------------------------------------
(* Properties.                                                             *)

WaitlistTypeOK ==
    /\ invitation \in [at : AtAges, reminded : BOOLEAN]
    /\ waitReason \in BOOLEAN
    /\ open \subseteq Slots /\ firstSeen \subseteq Slots /\ newer \subseteq firstSeen
    /\ news \in Nat /\ taps \in 0 .. MaxTaps /\ changes \in 0 .. MaxChanges

Told(letters) == {i \in DOMAIN chat : chat[i].letter \in letters}
Offers == {"invitation", "slots"}
LastWord ==
    LET words == Told(Offers \cup {"slots opened", "no slots", "invitation expired"}) IN
    IF words = {} THEN Null ELSE chat[CHOOSE i \in words : \A j \in words : j <= i].letter
NowTold(letter) == \E i \in DOMAIN chat' \ DOMAIN chat : chat'[i].letter = letter

\* Nobody reads that her place went to another unless a place was hers: since
\* she was last told to wait for windows, or that there are some, she has been
\* invited.  As long as one handler runs at a time, she has not booked either.
PlacesAreNotTakenBack ==
    [][NowTold("invitation expired")
          => LastWord \in Offers /\ (scene.overlap \/ cand.interviewSlotId = Null)]_allVars

\* The red button under an old invitation closes no application: what she turns
\* down is the last thing she was told.
DeclinesAreMeant ==
    [][/\ AtCall("candidate", "update") /\ Call("candidate").patches = <<Declined>>
       /\ cand.status # "REJECTED" /\ cand'.status = "REJECTED"
       => LastWord \in Offers]_allVars

\* What she was told earlier binds nobody once she waits for windows.
OldWordsAreDead == PlacesAreNotTakenBack /\ DeclinesAreMeant

\* She is reminded once of an invitation; only a crash between the letter and
\* its mark repeats it.
RemindedOnce ==
    Cardinality(Told({"invitation reminder"})) <= Cardinality(Told(Offers)) + mishaps

\* Every letter about new windows is about a window that was not there at the
\* letter before; only a crash repeats one.
ToldOfNewWindows == Cardinality(Told({"slots opened"})) <= news + mishaps

\* The tick comes back every five minutes and repeats nothing by that.
TicksDoNotRepeat == WaitlistTypeOK /\ RemindedOnce /\ ToldOfNewWindows

\* A place she has booked meanwhile does not go to another.
\* The code breaks it when handlers overlap: see README.md.
BookedMeanwhileStays == [][NowTold("invitation expired") => cand.interviewSlotId = Null]_allVars

\* Whatever overlaps, fails or dies, everything settles once no button is pressed
\* and no command issued any more: commands are answered, rejections stand, no
\* place is held by an invitation two days old, and whoever waits has been told
\* of the windows there are.
EverythingSettles ==
    <>[](/\ Pending = {}
         /\ RejectionHolds
         /\ ~ (Pending24 /\ invitation.at = "two days")
         /\ ~ (Waits /\ NewForHer(Available) # {}))
=============================================================================
