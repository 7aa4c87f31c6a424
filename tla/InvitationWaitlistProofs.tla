------------------------ MODULE InvitationWaitlistProofs ------------------------
(* For any slots, rows, commands and faults. Of handlers that come one after *)
(* the other: the pass over invitations reminds her once of a date, the pass *)
(* over the slots tells her of a window once, and an old letter or an old    *)
(* button binds nobody. Of handlers that cross as they like: a booking is    *)
(* not forgotten.                                                            *)
EXTENDS InvitationWaitlist, RecruitingCommandsProofs

---------------------------------------------------------------------------
(* The passes over invitations and her buttons, of InvitationWaitlist.     *)

Noted == [interviewInviteReminderSentAt |-> TRUE]
Reminder == Send("invitation reminder", "archive", "throw")
Opened == Send("slots opened", "archive", "throw")
Expiry == Send("invitation expired", "archive", "ignore")
Withdrawn ==
    With([status |-> "REJECTED", notificationSent |-> TRUE, interviewSlotId |-> Null], Queued(FALSE))

\* What a pass or a button leads to.
PassCalls(t) ==
    \/ t = <<Update(Expired), Expiry>>
    \/ t = <<Reminder, Update(Noted)>>
    \/ t = <<Check(TellPatch(cand)), Opened, Update(TellPatch(cand))>>
HerCalls(t) ==
    LET s == cand.interviewSlotId IN
    \/ t \in {<<Update(SlotNeeded)>>, <<Update(Declined)>>, <<Update(Withdrawn)>>}
    \/ s \in Slots /\ t = <<Release, Cancel(s, TRUE), Update(Withdrawn)>>

LEMMA JoinedThree ==
    ASSUME NEW x, NEW y, NEW z
    PROVE  <<x, y>> \o <<z>> = <<x, y, z>>
<1>1. IsList(<<x>>) /\ IsList(<<y>>) /\ IsList(<<z>>)
  BY ShortLists
<1>2. <<x, y>> = <<x>> \o <<y>> /\ <<y, z>> = <<y>> \o <<z>>
  BY JoinedPair
<1>3. (<<x>> \o <<y>>) \o <<z>> = <<x>> \o (<<y>> \o <<z>>)
  BY <1>1, JoinedThrice
<1> DEFINE T == {x, y, z}
           one == <<x, y>> \o <<z>>
           all == <<x, y, z>>
<1>4. /\ <<x, y>> \in Seq(T) /\ <<z>> \in Seq(T) /\ Len(<<x, y>>) = 2 /\ Len(<<z>>) = 1
      /\ all \in Seq(T) /\ Len(all) = 3 /\ all[1] = x /\ all[2] = y /\ all[3] = z
  OBVIOUS
<1>5. /\ one \in Seq(T) /\ Len(one) = 3
      /\ \A i \in 1 .. 3 : one[i] = IF i <= 2 THEN <<x, y>>[i] ELSE <<z>>[i - 2]
  BY <1>4, ConcatProperties
<1>6. one[1] = x /\ one[2] = y /\ one[3] = z
  BY <1>5
<1> HIDE DEF one, all
<1>7. \A i \in 1 .. 3 : all[i] = one[i]
  BY <1>4, <1>6
<1> QED
  BY <1>4, <1>5, <1>7, SeqEqual DEF one, all

\* What a step leaves an actor to do.
LEMMA LeftCalls ==
    ASSUME LocalsOK, NEW a \in Actors, NEW t
    PROVE  /\ \A w : Leaves(a, t, w) => run'[a].todo = t
           /\ run' = [run EXCEPT ![a].todo = t] => run'[a].todo = t
           /\ \A c : run' = [run EXCEPT ![a].read = c] => run'[a].todo = run[a].todo
BY LocalAfter, ZenonT(40)

LEMMA PassLists ==
    ASSUME InvitationPasses
    PROVE  UNCHANGED <<scene, state>> \/ \E t : PassCalls(t) /\ Works(t)
BY DEF InvitationPasses, ExpireInvitation, RemindInvitation, TellOfWindows, PassCalls, Expiry, Reminder, Opened, Noted

LEMMA WithdrawLists ==
    ASSUME TapWithdraw, cand.interviewSlotId \in Slots \cup {Null}
    PROVE  \/ Taps(<<Update(Withdrawn)>>)
           \/ /\ cand.interviewSlotId \in Slots
              /\ Taps(<<Release, Cancel(cand.interviewSlotId, TRUE), Update(Withdrawn)>>)
<1> DEFINE s == cand.interviewSlotId
           none == cand.status = "INTERVIEW_SCHEDULED" /\ s = Null
           x == Cancel(s, TRUE)
           y == Update(Withdrawn)
           u == IF none THEN << >> ELSE <<Release, x>>
<1>1. canRescheduleInterview(cand) \/ none
  BY Zenon DEF TapWithdraw
<1>2. Taps(u \o <<y>>)
  BY Zenon DEF TapWithdraw, Withdrawn
<1>3. none \/ s \in Slots
  BY <1>1 DEF canRescheduleInterview
<1>4. (none => u = << >>) /\ (~ none => u = <<Release, x>>)
  OBVIOUS
<1> HIDE DEF u
<1>5. \/ none /\ Taps(<< >> \o <<y>>)
      \/ ~ none /\ Taps(<<Release, x>> \o <<y>>)
  BY <1>2, <1>4
<1> HIDE DEF x, y, none, s
<1>6. << >> \o <<y>> = <<y>> /\ <<Release, x>> \o <<y>> = <<Release, x, y>>
  BY JoinedThree, EmptyBefore, ShortLists
<1>7. Taps(<<y>>) \/ (s \in Slots /\ Taps(<<Release, x, y>>))
  BY <1>3, <1>5, <1>6
<1> QED
  BY <1>7 DEF s, x, y

LEMMA TapLists ==
    ASSUME HerTaps, cand.interviewSlotId \in Slots \cup {Null}
    PROVE  Tap \/ \E t : HerCalls(t) /\ Taps(t)
<1>1. CASE TapWindow \/ TapCancel
  BY <1>1 DEF TapWindow, Tap
<1>2. CASE TapNoSlotsFit
  BY <1>2 DEF TapNoSlotsFit, HerCalls
<1>3. CASE TapDecline
  BY <1>3 DEF TapDecline, HerCalls
<1>4. CASE TapWithdraw
  BY <1>4, WithdrawLists DEF HerCalls
<1> QED
  BY <1>1, <1>2, <1>3, <1>4 DEF HerTaps

\* A step is one of RecruitingCommands, or a pass or a button of this module.
LEMMA WaitlistSteps ==
    ASSUME [NextWaitlist]_allVars, cand.interviewSlotId \in Slots \cup {Null}
    PROVE  [Next]_vars \/ (\E t : PassCalls(t) /\ Works(t)) \/ (\E t : HerCalls(t) /\ Taps(t))
<1>1. CASE AsBefore
  BY <1>1 DEF AsBefore, Next, Dispatch, Calls
<1>2. CASE BeginWithWindows
  BY <1>2 DEF BeginWithWindows, Next, Dispatch
<1>3. CASE \E a \in Actors : WriteRow(a) \/ ArchiveRow(a) \/ BookRow(a)
  BY <1>3 DEF WriteRow, ArchiveRow, BookRow, Next, Calls
<1>4. CASE InvitationPasses
  BY <1>4, PassLists DEF vars
<1>5. CASE HerTaps
  BY <1>5, TapLists DEF Next
<1>6. CASE \E s \in Slots : OpenWindow(s) \/ LoseWindow(s)
  BY <1>6 DEF OpenWindow, LoseWindow, ChangesWindows, vars
<1>7. CASE InvitationAges
  BY <1>7 DEF InvitationAges, vars
<1>8. CASE UNCHANGED allVars
  BY <1>8 DEF allVars, vars
<1> QED
  BY <1>1, <1>2, <1>3, <1>4, <1>5, <1>6, <1>7, <1>8 DEF NextWaitlist

LEMMA WaitlistPatchesOK ==
    /\ PatchOK(Expired) /\ PatchOK(Noted) /\ PatchOK(SlotNeeded) /\ PatchOK(Declined)
    /\ PatchOK(Withdrawn) /\ \A c : PatchOK(TellPatch(c))
<1>1. PatchOK(Expired)
  <2> DEFINE p == [status |-> "WAITLIST_HR", isWaitlisted |-> TRUE, currentStep |-> "INITIAL_TEST",
                   notificationSent |-> FALSE, interviewInviteReminderSentAt |-> FALSE]
  <2>1. PatchOK(p)
    BY DEF PatchOK, PatchTyped, Status, Step, Writable
  <2> HIDE DEF p
  <2>2. PatchOK(With(p, Uninvited))
    BY <2>1, OtherColumns, WithOK
  <2> QED
    BY <2>2 DEF Expired, p
<1>2. PatchOK(Noted) /\ PatchOK(Declined)
  BY DEF Noted, Declined, PatchOK, PatchTyped, Status, Writable
<1>3. PatchOK(SlotNeeded)
  <2> DEFINE p == [status |-> "SCREENING", isWaitlisted |-> FALSE, currentStep |-> "INTERVIEW",
                   notificationSent |-> FALSE, interviewWaitlistedAt |-> TRUE]
  <2>1. PatchOK(p)
    BY DEF PatchOK, PatchTyped, Status, Step, Writable
  <2> HIDE DEF p
  <2>2. PatchOK(With(p, Queued(TRUE)))
    BY <2>1, OtherColumns, WithOK
  <2> QED
    BY <2>2 DEF SlotNeeded, p
<1>4. PatchOK(Withdrawn)
  <2> DEFINE p == [status |-> "REJECTED", notificationSent |-> TRUE, interviewSlotId |-> Null]
  <2>1. PatchOK(p)
    BY DEF PatchOK, PatchTyped, Status, Writable
  <2> HIDE DEF p
  <2>2. PatchOK(With(p, Queued(FALSE)))
    BY <2>1, OtherColumns, WithOK
  <2> QED
    BY <2>2 DEF Withdrawn, p
<1>5. ASSUME NEW c PROVE PatchOK(TellPatch(c))
  <2> DEFINE p == [status |-> "SCREENING", isWaitlisted |-> FALSE, notificationSent |-> TRUE,
                   materialsSent |-> FALSE, interviewInviteReminderSentAt |-> FALSE,
                   interviewWaitlistedAt |-> TRUE]
             q == With(Queued(TRUE), Uninvited)
  <2>1. PatchOK(p)
    BY DEF PatchOK, PatchTyped, Status, Writable
  <2>2. PatchOK(q)
    BY OtherColumns, WithOK
  <2> HIDE DEF p, q
  <2>3. PatchOK(With(p, q))
    BY <2>1, <2>2, WithOK
  <2> QED
    BY <2>3 DEF TellPatch, p, q
<1> QED
  BY <1>1, <1>2, <1>3, <1>4, <1>5

LEMMA WaitlistFine ==
    /\ \A t : PassCalls(t) => AllFine("worker", t)
    /\ \A t : HerCalls(t) => AllFine("candidate", t)
<1> DEFINE w == "worker"
           c == "candidate"
           p == TellPatch(cand)
<1>1. ASSUME NEW a
      PROVE  /\ Fine(a, Update(Expired)) /\ Fine(a, Update(Noted)) /\ Fine(a, Update(SlotNeeded))
             /\ Fine(a, Update(Declined)) /\ Fine(a, Update(Withdrawn)) /\ Fine(a, Update(p))
             /\ Fine(a, Check(p)) /\ Fine(a, Release)
             /\ Fine(a, Expiry) /\ Fine(a, Reminder) /\ Fine(a, Opened)
             /\ \A s \in Slots : Fine(a, Cancel(s, TRUE))
  BY CallsFine, WaitlistPatchesOK DEF Expiry, Reminder, Opened, Letters
<1> HIDE DEF p
<1>2. \A t : PassCalls(t) => AllFine(w, t)
  <2> DEFINE x == Update(Expired)
             y == Update(Noted)
             z == Update(p)
             j == Check(p)
  <2>1. Fine(w, x) /\ Fine(w, y) /\ Fine(w, z) /\ Fine(w, j) /\ Fine(w, Expiry) /\ Fine(w, Reminder) /\ Fine(w, Opened)
    BY <1>1
  <2> HIDE DEF x, y, z, j
  <2>2. AllFine(w, <<x, Expiry>>) /\ AllFine(w, <<Reminder, y>>) /\ AllFine(w, <<j, Opened, z>>)
    BY <2>1, FineShort
  <2> QED
    BY <2>2 DEF PassCalls, x, y, z, j, p
<1>3. \A t : HerCalls(t) => AllFine(c, t)
  <2> DEFINE x == Update(SlotNeeded)
             y == Update(Declined)
             z == Update(Withdrawn)
             l == Cancel(cand.interviewSlotId, TRUE)
  <2>1. Fine(c, x) /\ Fine(c, y) /\ Fine(c, z) /\ Fine(c, Release) /\ (cand.interviewSlotId \in Slots => Fine(c, l))
    BY <1>1
  <2> HIDE DEF x, y, z, l
  <2>2. /\ AllFine(c, <<x>>) /\ AllFine(c, <<y>>) /\ AllFine(c, <<z>>)
        /\ cand.interviewSlotId \in Slots => AllFine(c, <<Release, l, z>>)
    BY <2>1, FineShort
  <2> QED
    BY <2>2 DEF HerCalls, x, y, z, l
<1> QED
  BY <1>2, <1>3

LEMMA WaitlistBase ==
    ASSUME Base, [NextWaitlist]_allVars
    PROVE  Base'
<1>0. Tables /\ LocalsOK /\ BatchSound /\ cand.interviewSlotId \in Slots \cup {Null}
  BY DEF Base, Tables, TypeOK, Row, Snapshot
<1>1. CASE [Next]_vars
  BY <1>1, BaseNext
<1>2. ASSUME NEW a \in Actors, a # "dispatcher", NEW t, AllFine(a, t), NEW d, Begun(a, d, t), OnlyRun PROVE Base'
  <2>1. Tables' /\ Onward /\ BatchSound'
    BY <1>0, <1>2, TablesStill, BatchStill
  <2>2. LocalsOK'
    BY <1>0, <1>2, <2>1, BegunOK
  <2> QED
    BY <2>1, <2>2 DEF Base
<1>3. CASE \E t : PassCalls(t) /\ Works(t)
  BY <1>2, <1>3, WaitlistFine DEF Works, OnlyRun, Actors
<1>4. CASE \E t : HerCalls(t) /\ Taps(t)
  BY <1>2, <1>4, WaitlistFine DEF Taps, OnlyRun, Actors
<1> QED
  BY <1>0, <1>1, <1>3, <1>4, WaitlistSteps

---------------------------------------------------------------------------
(* What is written of an invitation.                                       *)

Dates == {"interviewInvitedAt", "interviewInviteReminderSentAt", "interviewWaitlistReason"}
Bools(p) == \A f \in Dates : f \in DOMAIN p => p[f] \in BOOLEAN

\* Patches that take an invitation back or leave it alone, and whose waiting date is
\* not that of a letter about windows.
Undated(p) ==
    /\ Bools(p)
    /\ "interviewInvitedAt" \in DOMAIN p => p["interviewInvitedAt"] = FALSE
    /\ "interviewInviteReminderSentAt" \in DOMAIN p => "interviewInvitedAt" \in DOMAIN p
    /\ "interviewWaitlistedAt" \in DOMAIN p => p["notificationSent"] = FALSE

\* The patch of that letter, which is the same for every row.
Tell == TellPatch(Null)
Waiting ==
    With([status |-> "WAITLIST_HR", currentStep |-> "INTERVIEW",
          isWaitlisted |-> TRUE, notificationSent |-> FALSE,
          interviewSlotId |-> Null, interviewWaitlistedAt |-> TRUE], Queued(FALSE))

LEMMA WithColumns ==
    ASSUME NEW p, NEW q
    PROVE  LET w == With(p, q) IN
           /\ \A f : f \in DOMAIN w <=> f \in DOMAIN p \/ f \in DOMAIN q
           /\ \A f \in DOMAIN p : w[f] = p[f]
           /\ \A f \in DOMAIN q : f \notin DOMAIN p => w[f] = q[f]
BY DEF With, Field

LEMMA UndatedWith ==
    ASSUME NEW p, NEW q, Bools(p), Bools(q)
    PROVE  LET w == With(p, q) IN
           /\ Bools(w)
           /\ /\ "interviewInvitedAt" \in DOMAIN p => p["interviewInvitedAt"] = FALSE
              /\ "interviewInvitedAt" \in DOMAIN q => q["interviewInvitedAt"] = FALSE
              /\ "interviewInviteReminderSentAt" \in DOMAIN p \cup DOMAIN q
                    => "interviewInvitedAt" \in DOMAIN p \cup DOMAIN q
              /\ "interviewWaitlistedAt" \in DOMAIN p \cup DOMAIN q
                    => "notificationSent" \in DOMAIN p /\ p["notificationSent"] = FALSE
              => Undated(w)
<1> DEFINE w == With(p, q)
<1>1. /\ \A f : f \in DOMAIN w <=> f \in DOMAIN p \/ f \in DOMAIN q
      /\ \A f \in DOMAIN p : w[f] = p[f]
      /\ \A f \in DOMAIN q : f \notin DOMAIN p => w[f] = q[f]
  BY WithColumns
<1> HIDE DEF w
<1>2. Bools(w)
  BY <1>1 DEF Bools
<1> QED
  BY <1>1, <1>2 DEF Undated, w

\* The small patches that the others are made of.
LEMMA SmallPatches ==
    /\ DOMAIN Uninvited = {"interviewInvitedAt"} /\ Uninvited["interviewInvitedAt"] = FALSE
    /\ \A b : DOMAIN Queued(b) = {"interviewWaitlistReason"} /\ Queued(b)["interviewWaitlistReason"] = b
    /\ DOMAIN NoPatch = {}
    /\ Bools(Uninvited) /\ Bools(Queued(TRUE)) /\ Bools(Queued(FALSE)) /\ Bools(NoPatch)
    /\ DOMAIN With(Queued(FALSE), Uninvited) = {"interviewInvitedAt", "interviewWaitlistReason"}
    /\ With(Queued(FALSE), Uninvited)["interviewInvitedAt"] = FALSE
    /\ DOMAIN With(Queued(TRUE), Uninvited) = {"interviewInvitedAt", "interviewWaitlistReason"}
    /\ With(Queued(TRUE), Uninvited)["interviewInvitedAt"] = FALSE
    /\ Bools(With(Queued(FALSE), Uninvited)) /\ Bools(With(Queued(TRUE), Uninvited))
<1>1. /\ DOMAIN Uninvited = {"interviewInvitedAt"} /\ Uninvited["interviewInvitedAt"] = FALSE
      /\ \A b : DOMAIN Queued(b) = {"interviewWaitlistReason"} /\ Queued(b)["interviewWaitlistReason"] = b
      /\ DOMAIN NoPatch = {}
  BY DEF Uninvited, Queued, NoPatch
<1>2. Bools(Uninvited) /\ Bools(Queued(TRUE)) /\ Bools(Queued(FALSE)) /\ Bools(NoPatch)
  BY <1>1 DEF Bools
<1>3. ASSUME NEW b \in BOOLEAN
      PROVE  /\ DOMAIN With(Queued(b), Uninvited) = {"interviewInvitedAt", "interviewWaitlistReason"}
             /\ With(Queued(b), Uninvited)["interviewInvitedAt"] = FALSE
             /\ Bools(With(Queued(b), Uninvited))
  <2> DEFINE p == Queued(b)
             q == Uninvited
             w == With(p, q)
  <2>1. /\ \A f : f \in DOMAIN w <=> f \in DOMAIN p \/ f \in DOMAIN q
        /\ \A f \in DOMAIN p : w[f] = p[f]
        /\ \A f \in DOMAIN q : f \notin DOMAIN p => w[f] = q[f]
    BY WithColumns
  <2>2. Bools(w)
    BY <1>2, UndatedWith
  <2> HIDE DEF w
  <2>3. DOMAIN w = {"interviewInvitedAt", "interviewWaitlistReason"} /\ w["interviewInvitedAt"] = FALSE
    BY <1>1, <2>1
  <2> QED
    BY <2>2, <2>3 DEF w
<1> QED
  BY <1>1, <1>2, <1>3

\* Patches of columns that the guard reads, and no others.
LEMMA BlankPatches ==
    /\ Undated(Unlink) /\ Undated([notificationSent |-> TRUE]) /\ Undated(Completed) /\ Undated(Back)
    /\ \A s : Undated(Status1(s))
    /\ \A d : Undated(Closed(d))
    /\ Undated([status |-> "INTERVIEW_COMPLETED", currentStep |-> "INTERVIEW", interviewCompletedAt |-> TRUE])
    /\ Undated([status |-> "MENTOR_MANUAL", hrDecision |-> "ACCEPTED", notificationSent |-> FALSE,
                materialsSent |-> FALSE, isWaitlisted |-> FALSE])
    /\ Undated([status |-> "REJECTED", currentStep |-> "INTERVIEW", hrDecision |-> "REJECTED",
                notificationSent |-> FALSE, materialsSent |-> FALSE])
    /\ Undated([status |-> "MENTOR_MANUAL", notificationSent |-> TRUE])
    /\ Undated([status |-> "REJECTED", notificationSent |-> TRUE])
    /\ Undated(Declined)
<1>1. Undated(Unlink) /\ Undated([notificationSent |-> TRUE]) /\ Undated(Completed) /\ Undated(Back)
  BY DEF Undated, Bools, Dates, Unlink, Completed, Back
<1>2. (\A s : Undated(Status1(s))) /\ (\A d : Undated(Closed(d)))
  BY DEF Undated, Bools, Dates, Status1, Closed
<1>3. Undated([status |-> "INTERVIEW_COMPLETED", currentStep |-> "INTERVIEW", interviewCompletedAt |-> TRUE])
  BY DEF Undated, Bools, Dates
<1>4. Undated([status |-> "MENTOR_MANUAL", hrDecision |-> "ACCEPTED", notificationSent |-> FALSE,
               materialsSent |-> FALSE, isWaitlisted |-> FALSE])
  BY DEF Undated, Bools, Dates
<1>5. Undated([status |-> "REJECTED", currentStep |-> "INTERVIEW", hrDecision |-> "REJECTED",
               notificationSent |-> FALSE, materialsSent |-> FALSE])
  BY DEF Undated, Bools, Dates
<1>6. Undated([status |-> "MENTOR_MANUAL", notificationSent |-> TRUE])
      /\ Undated([status |-> "REJECTED", notificationSent |-> TRUE]) /\ Undated(Declined)
  BY DEF Undated, Bools, Dates, Declined
<1> QED
  BY <1>1, <1>2, <1>3, <1>4, <1>5, <1>6

LEMMA MixedPatches ==
    /\ Undated(Bar) /\ Undated(Expired) /\ Undated(SlotNeeded) /\ Undated(Withdrawn) /\ Undated(Waiting)
    /\ Undated(With([status |-> "REJECTED", isWaitlisted |-> FALSE, notificationSent |-> FALSE],
                    With(Queued(FALSE), Uninvited)))
    /\ \A d : Undated(With([status |-> "REJECTED", isWaitlisted |-> FALSE, notificationSent |-> FALSE,
                            hrDecision |-> d], With(Queued(FALSE), Uninvited)))
<1> DEFINE both == With(Queued(FALSE), Uninvited)
           queued == Queued(FALSE)
           wanted == Queued(TRUE)
           alone == Uninvited
<1>0. /\ Bools(both) /\ Bools(queued) /\ Bools(wanted) /\ Bools(alone)
      /\ DOMAIN both = {"interviewInvitedAt", "interviewWaitlistReason"} /\ both["interviewInvitedAt"] = FALSE
      /\ DOMAIN queued = {"interviewWaitlistReason"} /\ DOMAIN wanted = {"interviewWaitlistReason"}
      /\ DOMAIN alone = {"interviewInvitedAt"} /\ alone["interviewInvitedAt"] = FALSE
  BY SmallPatches
<1> HIDE DEF both, queued, wanted, alone
<1>1. Undated(With([status |-> "BLOCKER", notificationSent |-> FALSE, isWaitlisted |-> FALSE], alone))
  <2> DEFINE p == [status |-> "BLOCKER", notificationSent |-> FALSE, isWaitlisted |-> FALSE]
  <2>1. Bools(p) /\ DOMAIN p = {"status", "notificationSent", "isWaitlisted"}
    BY DEF Bools, Dates
  <2> HIDE DEF p
  <2>2. Undated(With(p, alone))
    BY <1>0, <2>1, UndatedWith
  <2> QED
    BY <2>2 DEF p
<1>2. Undated(With([status |-> "WAITLIST_HR", isWaitlisted |-> TRUE, currentStep |-> "INITIAL_TEST",
                    notificationSent |-> FALSE, interviewInviteReminderSentAt |-> FALSE], alone))
  <2> DEFINE p == [status |-> "WAITLIST_HR", isWaitlisted |-> TRUE, currentStep |-> "INITIAL_TEST",
                   notificationSent |-> FALSE, interviewInviteReminderSentAt |-> FALSE]
  <2>1. /\ Bools(p)
        /\ DOMAIN p = {"status", "isWaitlisted", "currentStep", "notificationSent", "interviewInviteReminderSentAt"}
    BY DEF Bools, Dates
  <2> HIDE DEF p
  <2>2. Undated(With(p, alone))
    BY <1>0, <2>1, UndatedWith
  <2> QED
    BY <2>2 DEF p
<1>3. Undated(With([status |-> "SCREENING", isWaitlisted |-> FALSE, currentStep |-> "INTERVIEW",
                    notificationSent |-> FALSE, interviewWaitlistedAt |-> TRUE], wanted))
  <2> DEFINE p == [status |-> "SCREENING", isWaitlisted |-> FALSE, currentStep |-> "INTERVIEW",
                   notificationSent |-> FALSE, interviewWaitlistedAt |-> TRUE]
  <2>1. /\ Bools(p) /\ p["notificationSent"] = FALSE
        /\ DOMAIN p = {"status", "isWaitlisted", "currentStep", "notificationSent", "interviewWaitlistedAt"}
    BY DEF Bools, Dates
  <2> HIDE DEF p
  <2>2. Undated(With(p, wanted))
    BY <1>0, <2>1, UndatedWith
  <2> QED
    BY <2>2 DEF p
<1>4. Undated(With([status |-> "REJECTED", notificationSent |-> TRUE, interviewSlotId |-> Null], queued))
  <2> DEFINE p == [status |-> "REJECTED", notificationSent |-> TRUE, interviewSlotId |-> Null]
  <2>1. Bools(p) /\ DOMAIN p = {"status", "notificationSent", "interviewSlotId"}
    BY DEF Bools, Dates
  <2> HIDE DEF p
  <2>2. Undated(With(p, queued))
    BY <1>0, <2>1, UndatedWith
  <2> QED
    BY <2>2 DEF p
<1>5. Undated(With([status |-> "WAITLIST_HR", currentStep |-> "INTERVIEW", isWaitlisted |-> TRUE,
                    notificationSent |-> FALSE, interviewSlotId |-> Null, interviewWaitlistedAt |-> TRUE], queued))
  <2> DEFINE p == [status |-> "WAITLIST_HR", currentStep |-> "INTERVIEW", isWaitlisted |-> TRUE,
                   notificationSent |-> FALSE, interviewSlotId |-> Null, interviewWaitlistedAt |-> TRUE]
  <2>1. /\ Bools(p) /\ p["notificationSent"] = FALSE
        /\ DOMAIN p = {"status", "currentStep", "isWaitlisted", "notificationSent", "interviewSlotId",
                       "interviewWaitlistedAt"}
    BY DEF Bools, Dates
  <2> HIDE DEF p
  <2>2. Undated(With(p, queued))
    BY <1>0, <2>1, UndatedWith
  <2> QED
    BY <2>2 DEF p
<1>6. Undated(With([status |-> "REJECTED", isWaitlisted |-> FALSE, notificationSent |-> FALSE], both))
  <2> DEFINE p == [status |-> "REJECTED", isWaitlisted |-> FALSE, notificationSent |-> FALSE]
  <2>1. Bools(p) /\ DOMAIN p = {"status", "isWaitlisted", "notificationSent"}
    BY DEF Bools, Dates
  <2> HIDE DEF p
  <2>2. Undated(With(p, both))
    BY <1>0, <2>1, UndatedWith
  <2> QED
    BY <2>2 DEF p
<1>7. ASSUME NEW d
      PROVE  Undated(With([status |-> "REJECTED", isWaitlisted |-> FALSE, notificationSent |-> FALSE,
                           hrDecision |-> d], both))
  <2> DEFINE p == [status |-> "REJECTED", isWaitlisted |-> FALSE, notificationSent |-> FALSE, hrDecision |-> d]
  <2>1. Bools(p) /\ DOMAIN p = {"status", "isWaitlisted", "notificationSent", "hrDecision"}
    BY DEF Bools, Dates
  <2> HIDE DEF p
  <2>2. Undated(With(p, both))
    BY <1>0, <2>1, UndatedWith
  <2> QED
    BY <2>2 DEF p
<1> QED
  BY <1>1, <1>2, <1>3, <1>4, <1>5, <1>6, <1>7 DEF Bar, Expired, SlotNeeded, Withdrawn, Waiting, both, queued, wanted, alone

\* The patches that date an invitation, note a reminder or follow a letter about windows.
LEMMA DatedPatches ==
    /\ Undated(Looking(FALSE))
    /\ LET p == Looking(TRUE) IN
       /\ Bools(p) /\ "interviewInvitedAt" \in DOMAIN p /\ p["interviewInvitedAt"] = TRUE
       /\ "interviewWaitlistedAt" \notin DOMAIN p /\ "status" \in DOMAIN p /\ p["status"] = "SCREENING"
    /\ /\ Bools(Invited) /\ "interviewInvitedAt" \in DOMAIN Invited /\ Invited["interviewInvitedAt"] = TRUE
       /\ "interviewWaitlistedAt" \notin DOMAIN Invited
    /\ /\ Bools(Noted) /\ DOMAIN Noted = {"interviewInviteReminderSentAt"}
       /\ Noted["interviewInviteReminderSentAt"] = TRUE
    /\ /\ Bools(Tell) /\ "interviewInvitedAt" \in DOMAIN Tell /\ Tell["interviewInvitedAt"] = FALSE
       /\ "interviewWaitlistedAt" \in DOMAIN Tell /\ Tell["notificationSent"] = TRUE
    /\ ~ Undated(Looking(TRUE)) /\ ~ Undated(Invited) /\ ~ Undated(Noted) /\ ~ Undated(Tell)
    /\ Noted # Tell
    /\ \A c : TellPatch(c) = Tell
<1> DEFINE base(o) == [status |-> "SCREENING", currentStep |-> "INTERVIEW", notificationSent |-> o,
                       isWaitlisted |-> FALSE, interviewInvitedAt |-> o, interviewInviteReminderSentAt |-> FALSE]
<1>1. Undated(Looking(FALSE))
  <2> DEFINE p == base(FALSE)
             r == [interviewWaitlistedAt |-> TRUE]
             w == Queued(TRUE)
             q == With(w, r)
  <2>1. /\ Bools(p) /\ p["notificationSent"] = FALSE /\ p["interviewInvitedAt"] = FALSE
        /\ DOMAIN p = {"status", "currentStep", "notificationSent", "isWaitlisted", "interviewInvitedAt",
                       "interviewInviteReminderSentAt"}
    BY DEF Bools, Dates
  <2>2. Bools(r) /\ DOMAIN r = {"interviewWaitlistedAt"}
    BY DEF Bools, Dates
  <2>3. Bools(w) /\ DOMAIN w = {"interviewWaitlistReason"}
    BY SmallPatches
  <2> HIDE DEF p, r, w
  <2>4. Bools(q) /\ \A f : f \in DOMAIN q <=> f \in {"interviewWaitlistedAt", "interviewWaitlistReason"}
    <3>1. \A f : f \in DOMAIN q <=> f \in DOMAIN w \/ f \in DOMAIN r
      BY WithColumns
    <3>2. Bools(q)
      BY <2>2, <2>3, UndatedWith
    <3> QED
      BY <2>2, <2>3, <3>1, <3>2
  <2> HIDE DEF q
  <2>5. Undated(With(p, q))
    BY <2>1, <2>4, UndatedWith
  <2>6. Looking(FALSE) = With(p, q)
    BY DEF Looking, p, q, w, r
  <2> QED
    BY <2>5, <2>6
<1>2. LET p == Looking(TRUE) IN
      /\ Bools(p) /\ "interviewInvitedAt" \in DOMAIN p /\ p["interviewInvitedAt"] = TRUE
      /\ "interviewWaitlistedAt" \notin DOMAIN p /\ "status" \in DOMAIN p /\ p["status"] = "SCREENING"
  <2> DEFINE p == base(TRUE)
             w == Queued(FALSE)
             q == With(w, NoPatch)
             l == With(p, q)
  <2>1. /\ Bools(p) /\ p["interviewInvitedAt"] = TRUE /\ p["status"] = "SCREENING"
        /\ DOMAIN p = {"status", "currentStep", "notificationSent", "isWaitlisted", "interviewInvitedAt",
                       "interviewInviteReminderSentAt"}
    BY DEF Bools, Dates
  <2>2. Bools(w) /\ DOMAIN w = {"interviewWaitlistReason"} /\ Bools(NoPatch) /\ DOMAIN NoPatch = {}
    BY SmallPatches
  <2> HIDE DEF p, w
  <2>3. Bools(q) /\ \A f : f \in DOMAIN q <=> f = "interviewWaitlistReason"
    <3>1. \A f : f \in DOMAIN q <=> f \in DOMAIN w \/ f \in DOMAIN NoPatch
      BY WithColumns
    <3>2. Bools(q)
      BY <2>2, UndatedWith
    <3> QED
      BY <2>2, <3>1, <3>2
  <2> HIDE DEF q
  <2>4. /\ Bools(l) /\ \A f : f \in DOMAIN l <=> f \in DOMAIN p \/ f \in DOMAIN q
        /\ \A f \in DOMAIN p : l[f] = p[f]
    BY <2>1, <2>3, UndatedWith, WithColumns
  <2>5. Looking(TRUE) = l
    BY DEF Looking, p, q, w
  <2> HIDE DEF l
  <2>6. /\ Bools(l) /\ "interviewInvitedAt" \in DOMAIN l /\ l["interviewInvitedAt"] = TRUE
        /\ "interviewWaitlistedAt" \notin DOMAIN l /\ "status" \in DOMAIN l /\ l["status"] = "SCREENING"
    BY <2>1, <2>3, <2>4
  <2> QED
    BY <2>5, <2>6
<1>3. /\ Bools(Invited) /\ "interviewInvitedAt" \in DOMAIN Invited /\ Invited["interviewInvitedAt"] = TRUE
      /\ "interviewWaitlistedAt" \notin DOMAIN Invited
  <2> DEFINE p == [notificationSent |-> TRUE, status |-> "SCREENING", isWaitlisted |-> FALSE,
                   interviewInvitedAt |-> TRUE, interviewInviteReminderSentAt |-> FALSE]
             w == Queued(FALSE)
             l == With(p, w)
  <2>1. /\ Bools(p) /\ p["interviewInvitedAt"] = TRUE
        /\ DOMAIN p = {"notificationSent", "status", "isWaitlisted", "interviewInvitedAt",
                       "interviewInviteReminderSentAt"}
    BY DEF Bools, Dates
  <2>2. Bools(w) /\ DOMAIN w = {"interviewWaitlistReason"}
    BY SmallPatches
  <2> HIDE DEF p, w
  <2>3. /\ Bools(l) /\ \A f : f \in DOMAIN l <=> f \in DOMAIN p \/ f \in DOMAIN w
        /\ \A f \in DOMAIN p : l[f] = p[f]
    BY <2>1, <2>2, UndatedWith, WithColumns
  <2>4. Invited = l
    BY DEF Invited, p, w
  <2> HIDE DEF l
  <2> QED
    BY <2>1, <2>2, <2>3, <2>4
<1>4. /\ Bools(Noted) /\ DOMAIN Noted = {"interviewInviteReminderSentAt"}
      /\ Noted["interviewInviteReminderSentAt"] = TRUE
  BY DEF Noted, Bools, Dates
<1>5. /\ Bools(Tell) /\ "interviewInvitedAt" \in DOMAIN Tell /\ Tell["interviewInvitedAt"] = FALSE
      /\ "interviewWaitlistedAt" \in DOMAIN Tell /\ Tell["notificationSent"] = TRUE
  <2> DEFINE p == [status |-> "SCREENING", isWaitlisted |-> FALSE, notificationSent |-> TRUE,
                   materialsSent |-> FALSE, interviewInviteReminderSentAt |-> FALSE,
                   interviewWaitlistedAt |-> TRUE]
             q == With(Queued(TRUE), Uninvited)
             l == With(p, q)
  <2>1. /\ Bools(p) /\ p["notificationSent"] = TRUE
        /\ DOMAIN p = {"status", "isWaitlisted", "notificationSent", "materialsSent",
                       "interviewInviteReminderSentAt", "interviewWaitlistedAt"}
    BY DEF Bools, Dates
  <2>2. Bools(q) /\ DOMAIN q = {"interviewInvitedAt", "interviewWaitlistReason"} /\ q["interviewInvitedAt"] = FALSE
    BY SmallPatches
  <2> HIDE DEF p, q
  <2>3. /\ Bools(l) /\ \A f : f \in DOMAIN l <=> f \in DOMAIN p \/ f \in DOMAIN q
        /\ \A f \in DOMAIN p : l[f] = p[f]
        /\ \A f \in DOMAIN q : f \notin DOMAIN p => l[f] = q[f]
    BY <2>1, <2>2, UndatedWith, WithColumns
  <2>4. Tell = l
    BY DEF Tell, TellPatch, p, q
  <2> HIDE DEF l
  <2> QED
    BY <2>1, <2>2, <2>3, <2>4
<1>6. \A c : TellPatch(c) = Tell
  BY DEF Tell, TellPatch
<1> QED
  BY <1>1, <1>2, <1>3, <1>4, <1>5, <1>6 DEF Undated

---------------------------------------------------------------------------
(* Lists of calls that remind of nothing, date no invitation and leave the *)
(* last word of one as it is.                                              *)

Soft(x) ==
    /\ x.op = "update" => Undated(x.patches[Len(x.patches)])
    /\ x.op = "send" => x.letter \notin {"invitation reminder", "slots opened"}
Calm(x) == Soft(x) /\ (x.op = "send" => x.letter \notin {"no slots", "invitation expired"})
AllCalm(t) == \A i \in 1 .. Len(t) : Calm(t[i])

LEMMA CallsCalm ==
    /\ \A x : x.op \notin {"update", "send"} => Calm(x)
    /\ \A p : /\ Undated(p) => Calm(Update(p)) /\ Calm(Attempt(p))
              /\ Undated(p) => Calm(Transaction(<<Back, p>>))
              /\ Calm(Update(p)) => Undated(p)
    /\ \A l, b, f : l \notin {"invitation reminder", "slots opened", "no slots", "invitation expired"}
             => Calm(Send(l, b, f))
    /\ \A p : Calm(Check(p))
    /\ \A w : Calm(Refuse(w))
    /\ \A s : Calm(Remind(s)) /\ Calm(Free(s)) /\ Calm(TakeWebSlot(s)) /\ Calm(Restore(s))
    /\ \A s, w : Calm(Cancel(s, w)) /\ Calm(Book(s, w))
    /\ Calm(Release) /\ Calm(Archive) /\ Calm(Move) /\ Calm(Mark)
<1>1. \A x : x.op \notin {"update", "send"} => Calm(x)
  BY DEF Calm, Soft
<1>2. ASSUME NEW p
      PROVE  /\ Undated(p) => Calm(Update(p)) /\ Calm(Attempt(p))
             /\ Undated(p) => Calm(Transaction(<<Back, p>>))
             /\ Calm(Update(p)) => Undated(p)
  <2>1. Len(<<p>>) = 1 /\ <<p>>[1] = p /\ Len(<<Back, p>>) = 2 /\ <<Back, p>>[2] = p
    BY ShortLists, Tails
  <2> QED
    BY <2>1 DEF Calm, Soft, Update, Attempt, Transaction
<1>3. \A l, b, f : l \notin {"invitation reminder", "slots opened", "no slots", "invitation expired"}
         => Calm(Send(l, b, f))
  BY DEF Calm, Soft, Send
<1>4. /\ \A p : Calm(Check(p))
      /\ \A w : Calm(Refuse(w))
      /\ \A s : Calm(Remind(s)) /\ Calm(Free(s)) /\ Calm(TakeWebSlot(s)) /\ Calm(Restore(s))
      /\ \A s, w : Calm(Cancel(s, w)) /\ Calm(Book(s, w))
      /\ Calm(Release) /\ Calm(Archive) /\ Calm(Move) /\ Calm(Mark)
  BY DEF Calm, Soft, Check, Refuse, Remind, Free, TakeWebSlot, Restore, Cancel, Book, Release, Archive, Move, Mark
<1> QED
  BY <1>1, <1>2, <1>3, <1>4

LEMMA ShortCalm ==
    ASSUME NEW x, NEW y, NEW z
    PROVE  /\ AllCalm(<< >>)
           /\ Calm(x) <=> AllCalm(<<x>>)
           /\ Calm(x) /\ Calm(y) <=> AllCalm(<<x, y>>)
           /\ Calm(x) /\ Calm(y) /\ Calm(z) <=> AllCalm(<<x, y, z>>)
<1>1. Len(<< >>) = 0 /\ Len(<<x>>) = 1 /\ Len(<<x, y>>) = 2 /\ Len(<<x, y, z>>) = 3
  BY EmptyList, ShortLists
<1>2. /\ <<x>>[1] = x /\ <<x, y>>[1] = x /\ <<x, y>>[2] = y
      /\ <<x, y, z>>[1] = x /\ <<x, y, z>>[2] = y /\ <<x, y, z>>[3] = z
  BY Tails
<1>3. AllCalm(<< >>)
  BY <1>1 DEF AllCalm
<1>4. (Calm(x) <=> AllCalm(<<x>>)) /\ (Calm(x) /\ Calm(y) <=> AllCalm(<<x, y>>))
  BY <1>1, <1>2 DEF AllCalm
<1>5. Calm(x) /\ Calm(y) /\ Calm(z) <=> AllCalm(<<x, y, z>>)
  BY <1>1, <1>2 DEF AllCalm
<1> QED
  BY <1>3, <1>4, <1>5

LEMMA JoinedCalm ==
    ASSUME NEW s, NEW t, IsList(s), IsList(t), AllCalm(s), AllCalm(t)
    PROVE  IsList(s \o t) /\ AllCalm(s \o t)
<1> DEFINE u == s \o t
<1>1. /\ IsList(u) /\ Len(s) \in Nat /\ Len(t) \in Nat /\ Len(u) = Len(s) + Len(t)
      /\ \A i \in 1 .. Len(s) : u[i] = s[i]
      /\ \A i \in 1 .. Len(t) : u[Len(s) + i] = t[i]
  BY JoinedList
<1> HIDE DEF u
<1>2. ASSUME NEW i \in 1 .. Len(u) PROVE Calm(u[i])
  <2>1. CASE i <= Len(s)
    BY <1>1, <2>1 DEF AllCalm
  <2>2. CASE ~ (i <= Len(s))
    <3> DEFINE j == i - Len(s)
    <3>1. j \in 1 .. Len(t) /\ Len(s) + j = i
      BY <1>1, <2>2
    <3> HIDE DEF j
    <3> QED
      BY <1>1, <3>1 DEF AllCalm
  <2> QED
    BY <2>1, <2>2
<1> QED
  BY <1>1, <1>2 DEF AllCalm, u

---------------------------------------------------------------------------
(* Lists of calls that invite, remind and tell of windows.                 *)

InviteLetter == Send("invitation", "bar", "throw")
SlotsLetter == Send("slots", "archive", "throw")
NoSlots == Send("no slots", "archive", "throw")
Rescheduling == \E k \in Commands : "RESCHEDULE_INTERVIEW" \in scene.kinds[k]

\* The patch that counts: the second of a transaction.
LastPatch(x) == x.patches[Len(x.patches)]
Relooks(x, offered) ==
    x.op = "update" /\ x.must /\ Len(x.patches) \in {1, 2} /\ LastPatch(x) = Looking(offered)
WindowsLetter(offered) == IF offered THEN SlotsLetter ELSE NoSlots
Looks(t, offered) ==
    /\ Len(t) \in Nat \ {0, 1} /\ t[Len(t)] = WindowsLetter(offered) /\ Relooks(t[Len(t) - 1], offered)
    /\ \A i \in 1 .. Len(t) - 2 : t[i].op # "send" /\ Calm(t[i])
Invites3 == <<Check(Invited), InviteLetter, Update(Invited)>>
Invites2 == <<InviteLetter, Update(Invited)>>
Invites1 == <<Update(Invited)>>
Reminds2 == <<Reminder, Update(Noted)>>
Reminds1 == <<Update(Noted)>>
Tells3 == <<Check(Tell), Opened, Update(Tell)>>
Tells2 == <<Opened, Update(Tell)>>
Tells1 == <<Update(Tell)>>
Expires2 == <<Update(Expired), Expiry>>
Expires1 == <<Expiry>>
Withheld == <<NoSlots>>

\* What an actor who runs has left.
Worded(a, t) ==
    \/ AllCalm(t)
    \/ /\ a = "dispatcher"
       /\ \/ t \in {Invites3, Invites2, Invites1, Withheld}
          \/ Rescheduling /\ \E offered \in BOOLEAN : Looks(t, offered)
    \/ a = "worker" /\ t \in {Reminds2, Reminds1, Tells3, Tells2, Tells1, Expires2, Expires1}
OnList(a, t) == Running(a) /\ run[a].todo = t
WordsFit ==
    /\ \A a \in Actors : Running(a) =>
          Worded(a, run[a].todo) /\ (run[a].todo # << >> => run[a].result = "ok")
    /\ \A k \in Commands : outbox[k].status # "none" => outbox[k].kind \in scene.kinds[k]

\* A reminder is paid for by a letter of an invitation, or a death, of its own; a
\* letter about windows by a window. What is owed is noted, or told, in a moment.
RemindersTold == Cardinality(Told({"invitation reminder"}))
OffersTold == Cardinality(Told(Offers))
WindowsTold == Cardinality(Told({"slots opened"}))
Live == invitation.at # "none" /\ ~ invitation.reminded
Spare == RemindersTold < OffersTold + mishaps
Noting == OnList("worker", Reminds1)
Offering ==
    /\ Rescheduling /\ cand.status = "SCREENING"
    /\ OnList("dispatcher", <<SlotsLetter>>) \/ OnList("dispatcher", <<Archive>>)
Reminding == OnList("worker", Reminds2)
Inviting == OnList("dispatcher", Invites1)
RemindersFit ==
    /\ RemindersTold <= OffersTold + mishaps
    /\ Live => Spare \/ Noting \/ Offering
    /\ Inviting => Spare
    /\ Reminding => Live

Fresh == newer # {}
NewsLeft == WindowsTold < news + mishaps
ToTell == OnList("worker", Tells3) \/ OnList("worker", Tells2)
Dating == OnList("worker", Tells1)
Cleared == OnList("worker", Tells2) \/ OnList("worker", Tells1)
WindowsFit ==
    /\ WindowsTold <= news + mishaps
    /\ Fresh => NewsLeft \/ Dating
    /\ ToTell => Fresh
    /\ Cleared => Admits(cand, Tell)

TicksFit == WaitlistTypeOK /\ WordsFit /\ RemindersFit /\ WindowsFit

---------------------------------------------------------------------------
(* What each command, pass and button leads to.                            *)

LEMMA InviteWorded ==
    ASSUME NEW c, age \in Ages
    PROVE  AllCalm(inviteCandidate(c)) \/ inviteCandidate(c) = Invites3
<1> DEFINE t == inviteCandidate(c)
           v == With(Queued(FALSE), Uninvited)
           p == With([status |-> "REJECTED", isWaitlisted |-> FALSE, notificationSent |-> FALSE], v)
           q(d) == With([status |-> "REJECTED", isWaitlisted |-> FALSE, notificationSent |-> FALSE,
                         hrDecision |-> d], v)
           r == Refuse("failed")
<1>1. CASE age = "not a woman"
  <2>1. t = <<Update(p), r>>
    BY <1>1, Zenon DEF inviteCandidate
  <2>2. Calm(Update(p)) /\ Calm(r)
    BY MixedPatches, CallsCalm
  <2> DEFINE x == Update(p)
  <2> HIDE DEF x, r, t
  <2> QED
    BY <2>1, <2>2, ShortCalm DEF x, t
<1>2. CASE age \in {"underage", "too old"}
  <2> DEFINE d == IF age = "underage" THEN "REJECTED_SYSTEM_UNDERAGE" ELSE "AGE_LIMIT"
  <2>1. t = <<Update(q(d)), r>>
    BY <1>2, Zenon DEF inviteCandidate
  <2>2. Calm(Update(q(d))) /\ Calm(r)
    BY MixedPatches, CallsCalm
  <2> DEFINE x == Update(q(d))
  <2> HIDE DEF x, r, t
  <2> QED
    BY <2>1, <2>2, ShortCalm DEF x, t
<1>3. CASE age = "fits"
  BY <1>3, Zenon DEF inviteCandidate, Invites3, InviteLetter
<1> QED
  BY <1>1, <1>2, <1>3 DEF Ages

LEMMA TwoAfter ==
    ASSUME NEW s, NEW x, NEW y, IsList(s)
    PROVE  LET u == s \o <<x, y>> IN
           /\ IsList(u) /\ Len(s) \in Nat /\ Len(u) = Len(s) + 2
           /\ \A i \in 1 .. Len(s) : u[i] = s[i]
           /\ u[Len(s) + 1] = x /\ u[Len(s) + 2] = y
<1>1. IsList(<<x, y>>) /\ Len(<<x, y>>) = 2 /\ <<x, y>>[1] = x /\ <<x, y>>[2] = y
  BY ShortLists, Tails
<1> QED
  BY <1>1, JoinedList

LEMMA LooksAfter ==
    ASSUME NEW s, IsList(s), \A i \in 1 .. Len(s) : s[i].op # "send" /\ Calm(s[i]),
           NEW offered, NEW x, Relooks(x, offered)
    PROVE  Looks(s \o <<x, WindowsLetter(offered)>>, offered)
<1> DEFINE y == WindowsLetter(offered)
           u == s \o <<x, y>>
<1> HIDE DEF y
<1>1. /\ IsList(u) /\ Len(s) \in Nat /\ Len(u) = Len(s) + 2
      /\ \A i \in 1 .. Len(s) : u[i] = s[i]
      /\ u[Len(s) + 1] = x /\ u[Len(s) + 2] = y
  BY TwoAfter
<1> HIDE DEF u
<1>2. Len(u) - 1 = Len(s) + 1 /\ Len(u) - 2 = Len(s) /\ Len(u) \in Nat \ {0, 1}
  BY <1>1
<1>3. Looks(u, offered)
  BY <1>1, <1>2 DEF Looks, y
<1> QED
  BY <1>3 DEF u, y

LEMMA RescheduleWorded ==
    ASSUME NEW c, NEW again, NEW offered \in BOOLEAN
    PROVE  LET t == rescheduleInterviewByCommand(c, again, offered) IN AllCalm(t) \/ Looks(t, offered)
<1> DEFINE t == rescheduleInterviewByCommand(c, again, offered)
           y == WindowsLetter(offered)
           x == Update(Looking(offered))
           z == Transaction(<<Back, Looking(offered)>>)
           r == Refuse("state_conflict")
           letGo == <<Release>> \o cancelIfBooked(c)
<1>1. t = <<r>> \/ t = <<x, y>> \/ t = letGo \o <<z, y>>
  <2> DEFINE l == Send(IF offered THEN "slots" ELSE "no slots", "archive", "throw")
  <2>1. t = <<r>> \/ t = <<x, l>> \/ t = letGo \o <<z, l>>
    BY Zenon DEF rescheduleInterviewByCommand, Back
  <2>2. l = y
    BY DEF WindowsLetter, SlotsLetter, NoSlots
  <2> HIDE DEF l, y, x, z, r, letGo, t
  <2> QED
    BY <2>1, <2>2
<1>2. IsList(letGo) /\ (\A i \in 1 .. Len(letGo) : letGo[i].op # "send" /\ Calm(letGo[i]))
  <2> DEFINE q == Cancel(c.interviewSlotId, FALSE)
  <2>1. Calm(Release) /\ Calm(q) /\ Release.op # "send" /\ q.op # "send"
    BY CallsCalm DEF Release, Cancel
  <2>2. letGo = <<Release>> \o << >> \/ letGo = <<Release>> \o <<q>>
    BY Zenon DEF cancelIfBooked
  <2> HIDE DEF q, letGo
  <2>3. letGo = <<Release>> \/ letGo = <<Release, q>>
    BY <2>2, JoinedPair
  <2>4. /\ IsList(<<Release>>) /\ Len(<<Release>>) = 1 /\ <<Release>>[1] = Release
        /\ IsList(<<Release, q>>) /\ Len(<<Release, q>>) = 2
        /\ <<Release, q>>[1] = Release /\ <<Release, q>>[2] = q
    BY ShortLists, Tails
  <2>5. CASE letGo = <<Release>>
    BY <2>1, <2>4, <2>5
  <2>6. CASE letGo = <<Release, q>>
    BY <2>1, <2>4, <2>6
  <2> QED
    BY <2>3, <2>5, <2>6
<1>3. AllCalm(<<r>>)
  <2>1. Calm(r)
    BY CallsCalm
  <2> HIDE DEF r
  <2> QED
    BY <2>1, ShortCalm
<1>4. Relooks(x, offered) /\ Relooks(z, offered)
  <2> DEFINE p == Looking(offered)
  <2>1. Len(<<p>>) = 1 /\ <<p>>[1] = p /\ Len(<<Back, p>>) = 2 /\ <<Back, p>>[2] = p
    BY ShortLists, Tails
  <2> HIDE DEF p
  <2> QED
    BY <2>1 DEF Relooks, LastPatch, Update, Transaction, p
<1> HIDE DEF x, z, letGo, r
<1>5. Looks(letGo \o <<z, y>>, offered)
  BY <1>2, <1>4, LooksAfter
<1>6. Looks(<<x, y>>, offered)
  <2>1. IsList(<< >>) /\ (\A i \in 1 .. Len(<< >>) : << >>[i].op # "send" /\ Calm(<< >>[i]))
    BY EmptyList
  <2>2. Looks(<< >> \o <<x, y>>, offered)
    BY <1>4, <2>1, LooksAfter
  <2> HIDE DEF y
  <2>3. << >> \o <<x, y>> = <<x, y>>
    BY EmptyBefore, ShortLists
  <2> QED
    BY <2>2, <2>3 DEF y
<1> QED
  BY <1>1, <1>3, <1>5, <1>6

LEMMA AcceptCalm ==
    ASSUME NEW c
    PROVE  AllCalm(acceptAfterInterview(c))
<1> DEFINE t == acceptAfterInterview(c)
           completed == [status |-> "INTERVIEW_COMPLETED", currentStep |-> "INTERVIEW",
                         interviewCompletedAt |-> TRUE]
           accepted == [status |-> "MENTOR_MANUAL", hrDecision |-> "ACCEPTED",
                        notificationSent |-> FALSE, materialsSent |-> FALSE, isWaitlisted |-> FALSE]
           x == Update(completed)
           y == Update(accepted)
           l == Send("offer", "archive", "throw")
           last == <<l, NoteTold>>
<1>1. t = << >> \/ t = << >> \o last \/ t = <<x, y>> \o last \/ t = <<y>> \o last
  BY Zenon DEF acceptAfterInterview, NoteTold
<1>2. Calm(x) /\ Calm(y) /\ Calm(l) /\ Calm(NoteTold)
  BY BlankPatches, CallsCalm DEF NoteTold
<1> HIDE DEF t, x, y, l, NoteTold
<1>3. /\ IsList(last) /\ AllCalm(last) /\ IsList(<<x, y>>) /\ AllCalm(<<x, y>>)
      /\ IsList(<<y>>) /\ AllCalm(<<y>>) /\ AllCalm(<< >>)
  BY <1>2, ShortLists, ShortCalm
<1> HIDE DEF last
<1> QED
  BY <1>1, <1>3, EmptyBefore, JoinedCalm DEF t

LEMMA RejectAfterCalm ==
    ASSUME NEW c
    PROVE  AllCalm(rejectAfterInterview(c))
<1> DEFINE t == rejectAfterInterview(c)
           rejected == [status |-> "REJECTED", currentStep |-> "INTERVIEW", hrDecision |-> "REJECTED",
                        notificationSent |-> FALSE, materialsSent |-> FALSE]
           letter == IF beforeMeeting(c) THEN "rejection" ELSE "thanks for the talk, rejection"
           x == Update(rejected)
           l == Send(letter, "archive", "throw")
           last == <<l, NoteTold>>
           q == Cancel(c.interviewSlotId, FALSE)
           letGo == <<Release>> \o cancelIfBooked(c)
<1>1. \/ t = << >>
      \/ t = << >> \o last
      \/ t = (letGo \o <<x>>) \o last
      \/ t = (<< >> \o <<x>>) \o last
  BY Zenon DEF rejectAfterInterview, NoteTold
<1>2. Calm(x) /\ Calm(l) /\ Calm(NoteTold) /\ Calm(Release) /\ Calm(q)
  BY BlankPatches, CallsCalm DEF NoteTold
<1>3. letGo = <<Release>> \o << >> \/ letGo = <<Release>> \o <<q>>
  BY Zenon DEF cancelIfBooked
<1> HIDE DEF t, x, l, NoteTold, q, letGo
<1>4. IsList(letGo) /\ AllCalm(letGo)
  <2>1. <<Release>> \o << >> = <<Release>> /\ <<Release>> \o <<q>> = <<Release, q>>
    BY JoinedPair
  <2>2. AllCalm(<<Release>>) /\ AllCalm(<<Release, q>>)
    BY <1>2, ShortCalm
  <2>3. IsList(<<Release>>) /\ IsList(<<Release, q>>)
    BY ShortLists
  <2>4. letGo = <<Release>> \/ letGo = <<Release, q>>
    BY <1>3, <2>1, Zenon
  <2> QED
    BY <2>2, <2>3, <2>4, Zenon
<1>5. /\ IsList(last) /\ AllCalm(last) /\ IsList(<<x>>) /\ AllCalm(<<x>>)
      /\ IsList(<< >>) /\ AllCalm(<< >>)
  BY <1>2, EmptyList, ShortLists, ShortCalm
<1> HIDE DEF last
<1>6. \A f : IsList(f) /\ AllCalm(f) => AllCalm((f \o <<x>>) \o last)
  BY <1>5, JoinedCalm
<1> QED
  BY <1>1, <1>4, <1>5, <1>6, JoinedCalm DEF t

LEMMA PairCalm ==
    ASSUME NEW x, NEW y, Calm(x), Calm(y)
    PROVE  AllCalm(<<x>>) /\ AllCalm(<<x, y>>) /\ IsList(<<x>>) /\ IsList(<<x, y>>)
BY ShortCalm, ShortLists

LEMMA RejectCalm ==
    ASSUME NEW c, NEW k
    PROVE  AllCalm(Reject(c, k))
<1> DEFINE x == Send("training rejection", "ignore", "throw")
           y == Send("rejection", "ignore", "ignore")
           t == Reject(c, k)
<1>1. t = << >> \/ t = <<x, Mark>> \o <<Close>> \/ t = << >> \o <<Close>> \/ t = <<Close, y>>
  <2>1. CASE c.status = "REJECTED"
    BY Zenon, <2>1 DEF Reject, ManualContour
  <2>2. CASE c.status # "REJECTED" /\ c.status \in ManualContour
    BY Zenon, <2>2 DEF Reject, Close
  <2>3. CASE c.status # "REJECTED" /\ c.status \notin ManualContour
    BY Zenon, <2>3 DEF Reject, Close
  <2> QED
    BY <2>1, <2>2, <2>3
<1>2. Calm(x) /\ Calm(y) /\ Calm(Mark) /\ Calm(Close)
  BY BlankPatches, CallsCalm DEF Close
<1> HIDE DEF x, y, t, Close, Mark
<1>3. /\ AllCalm(<<x, Mark>>) /\ IsList(<<x, Mark>>) /\ AllCalm(<<Close>>) /\ IsList(<<Close>>)
      /\ AllCalm(<<Close, y>>) /\ AllCalm(<< >>)
  BY <1>2, PairCalm, ShortCalm
<1> QED
  BY <1>1, <1>3, JoinedCalm, EmptyBefore DEF t

LEMMA PathCalm ==
    ASSUME NEW c, NEW path \in Seq(Writable), path # << >>
    PROVE  AllCalm(applySilentStatusPath(c, path))
<1> DEFINE ahead == IF path[1] = c.status THEN Tail(path) ELSE path
           t == [i \in DOMAIN ahead |-> Update(Status1(ahead[i]))]
<1>1. ahead \in Seq(Writable)
  OBVIOUS
<1> HIDE DEF ahead
<1>2. t = [i \in 1 .. Len(ahead) |-> Update(Status1(ahead[i]))] /\ Len(ahead) \in Nat
  BY <1>1
<1>3. t \in Seq({Update(Status1(s)) : s \in Writable}) /\ Len(t) = Len(ahead)
  BY <1>1, <1>2
<1>4. \A i \in 1 .. Len(t) : t[i] = Update(Status1(ahead[i]))
  BY <1>2, <1>3
<1>5. \A s : Calm(Update(Status1(s)))
  BY BlankPatches, CallsCalm
<1>6. AllCalm(t)
  BY <1>4, <1>5 DEF AllCalm
<1> QED
  BY <1>6 DEF applySilentStatusPath, ahead

LEMMA MoveCalm ==
    ASSUME NEW c, NEW again
    PROVE  AllCalm(changeLocation(c, again))
<1> DEFINE t == changeLocation(c, again)
           r == Refuse("failed")
<1>1. t \in {<<r>>, << >>, <<Move, TellOfMove>>, <<TellOfMove>>}
  BY Zenon DEF changeLocation, TellOfMove
<1>2. Calm(r) /\ Calm(Move) /\ Calm(TellOfMove)
  BY CallsCalm DEF TellOfMove
<1> HIDE DEF t, r, Move, TellOfMove
<1> QED
  BY <1>1, <1>2, PairCalm, ShortCalm DEF t

\* What a command leads to, from any row.
LEMMA TodoWorded ==
    ASSUME TypeOK, NEW k \in Commands, outbox[k].kind \in KindNames, NEW n, NEW offered \in BOOLEAN
    PROVE  LET t == Todo(k, n, offered) IN
           \/ AllCalm(t)
           \/ t = Invites3
           \/ outbox[k].kind = "RESCHEDULE_INTERVIEW" /\ Looks(t, offered)
<1>1. age \in Ages
  BY DEF TypeOK
<1>2. /\ AllCalm(inviteCandidate(cand)) \/ inviteCandidate(cand) = Invites3
      /\ AllCalm(rescheduleInterviewByCommand(cand, n > 0, offered))
            \/ Looks(rescheduleInterviewByCommand(cand, n > 0, offered), offered)
      /\ AllCalm(acceptAfterInterview(cand))
      /\ AllCalm(rejectAfterInterview(cand))
      /\ AllCalm(Reject(cand, k))
      /\ AllCalm(changeLocation(cand, n > 0))
  BY <1>1, InviteWorded, RescheduleWorded, AcceptCalm, RejectAfterCalm, RejectCalm, MoveCalm, Zenon
<1>3. /\ AllCalm(applySilentStatusPath(cand, <<"TRAINING_COMPLETED">>))
      /\ AllCalm(applySilentStatusPath(cand, startStagingPath(cand.status)))
      /\ AllCalm(applySilentStatusPath(cand, stagingPassedPath(cand.status)))
  BY PathsAre, PathCalm
<1>4. AllCalm(markNoShow)
  <2> DEFINE x == Update(Closed("NOSHOW"))
             y == Send("no-show", "ignore", "ignore")
  <2>1. Calm(x) /\ Calm(y)
    BY BlankPatches, CallsCalm
  <2> HIDE DEF x, y
  <2>2. AllCalm(<<x, y>>)
    BY <2>1, PairCalm
  <2> QED
    BY <2>2 DEF markNoShow, x, y
<1>5. AllCalm(approveTattoo)
  <2> DEFINE x == Update(Status1("SCREENING"))
             y == Send("approved", "ignore", "ignore")
  <2>1. Calm(x) /\ Calm(y)
    BY BlankPatches, CallsCalm
  <2> HIDE DEF x, y
  <2>2. AllCalm(<<x, y>>)
    BY <2>1, PairCalm
  <2> QED
    BY <2>2 DEF approveTattoo, x, y
<1>6. AllCalm(<<Update(Status1("HIRED"))>>)
  <2> DEFINE x == Update(Status1("HIRED"))
  <2>1. Calm(x)
    BY BlankPatches, CallsCalm
  <2> HIDE DEF x
  <2> QED
    BY <2>1, PairCalm DEF x
<1> QED
  BY <1>2, <1>3, <1>4, <1>5, <1>6 DEF Todo, KindNames

\* The worker's first passes, date no invitation.
LEMMA WorkCalm ==
    ASSUME Work
    PROVE  \E t : AllCalm(t) /\ Works(t)
<1>1. CASE NotifyDecision
  <2> DEFINE x == Send("offer", "archive", "throw")
             y == Send("thanks for the talk, rejection", "archive", "throw")
             v == Update([status |-> "MENTOR_MANUAL", notificationSent |-> TRUE])
             w == Update([status |-> "REJECTED", notificationSent |-> TRUE])
  <2>1. Works(<<x, v>>) \/ Works(<<y, w>>)
    BY <1>1 DEF NotifyDecision
  <2>2. Calm(x) /\ Calm(y) /\ Calm(v) /\ Calm(w)
    BY BlankPatches, CallsCalm
  <2> HIDE DEF x, y, v, w
  <2> QED
    BY <2>1, <2>2, PairCalm
<1>2. CASE AutoComplete
  <2> DEFINE more == IF cand.hrDecision = Null THEN <<Send("thanks", "archive", "ignore")>> ELSE << >>
  <2>1. PICK s \in Slots : Works(<<Update(Completed), Remind(s)>> \o more)
    BY <1>2 DEF AutoComplete
  <2> DEFINE x == Update(Completed)
             y == Remind(s)
             z == Send("thanks", "archive", "ignore")
  <2>2. Calm(x) /\ Calm(y) /\ Calm(z) /\ more \in {<<z>>, << >>}
    BY BlankPatches, CallsCalm
  <2> HIDE DEF x, y, z, more
  <2>3. IsList(<<x, y>>) /\ AllCalm(<<x, y>>) /\ IsList(more) /\ AllCalm(more)
    BY <2>2, PairCalm, ShortCalm, EmptyList
  <2>4. AllCalm(<<x, y>> \o more)
    BY <2>3, JoinedCalm
  <2> QED
    BY <2>1, <2>4 DEF x, y
<1>3. CASE RecoverStale \/ RepairRejected
  <2> DEFINE x == Update(Completed)
             y == Update(Status1("REJECTED"))
  <2>1. (\E s \in Slots : Works(<<x, Remind(s)>>)) \/ Works(<<y>>)
    BY <1>3 DEF RecoverStale, RepairRejected
  <2>2. Calm(x) /\ Calm(y) /\ \A s : Calm(Remind(s))
    BY BlankPatches, CallsCalm
  <2> HIDE DEF x, y
  <2>3. AllCalm(<<y>>) /\ \A s : AllCalm(<<x, Remind(s)>>)
    BY <2>2, PairCalm
  <2> QED
    BY <2>1, <2>3
<1> QED
  BY <1>1, <1>2, <1>3 DEF Work

\* Lists that send nothing and turn no invitation down.
Sober(t) ==
    \A i \in 1 .. Len(t) :
        t[i].op # "send" /\ (t[i].op = "update" => t[i].patches # <<Declined>>)

LEMMA SoberCalls ==
    /\ \A s : TakeWebSlot(s).op = "take" /\ EmptyMirror(s).op = "free"
    /\ \A s, w : Book(s, w).op = "book" /\ Cancel(s, w).op = "cancel"
    /\ Release.op = "release"
    /\ \A p : Update(p).op = "update" /\ (Update(p).patches = <<Declined>> => p = Declined)
    /\ SlotNeeded # Declined /\ Withdrawn # Declined /\ Waiting # Declined /\ Unlink # Declined
<1>1. \A p : Update(p).op = "update" /\ (Update(p).patches = <<Declined>> => p = Declined)
  <2>1. ASSUME NEW p, <<p>> = <<Declined>> PROVE p = Declined
    <3>1. <<p>>[1] = p /\ <<Declined>>[1] = Declined
      BY Tails
    <3> QED
      BY <2>1, <3>1
  <2> QED
    BY <2>1 DEF Update
<1>2. DOMAIN Declined = {"status", "isWaitlisted", "notificationSent"}
  BY DEF Declined
<1>3. Unlink # Declined
  <2>1. "currentStep" \in DOMAIN Unlink
    BY DEF Unlink
  <2> QED
    BY <1>2, <2>1
<1>4. SlotNeeded # Declined
  <2> DEFINE p == [status |-> "SCREENING", isWaitlisted |-> FALSE, currentStep |-> "INTERVIEW",
                   notificationSent |-> FALSE, interviewWaitlistedAt |-> TRUE]
             q == Queued(TRUE)
  <2>1. "currentStep" \in DOMAIN p
    OBVIOUS
  <2>3. SlotNeeded = With(p, q)
    BY DEF SlotNeeded
  <2> HIDE DEF p, q
  <2>2. "currentStep" \in DOMAIN With(p, q)
    BY <2>1, WithColumns
  <2> QED
    BY <1>2, <2>2, <2>3
<1>5. Withdrawn # Declined
  <2> DEFINE p == [status |-> "REJECTED", notificationSent |-> TRUE, interviewSlotId |-> Null]
             q == Queued(FALSE)
  <2>1. "interviewSlotId" \in DOMAIN p
    OBVIOUS
  <2>3. Withdrawn = With(p, q)
    BY DEF Withdrawn
  <2> HIDE DEF p, q
  <2>2. "interviewSlotId" \in DOMAIN With(p, q)
    BY <2>1, WithColumns
  <2> QED
    BY <1>2, <2>2, <2>3
<1>6. Waiting # Declined
  <2> DEFINE p == [status |-> "WAITLIST_HR", currentStep |-> "INTERVIEW",
                   isWaitlisted |-> TRUE, notificationSent |-> FALSE,
                   interviewSlotId |-> Null, interviewWaitlistedAt |-> TRUE]
             q == Queued(FALSE)
  <2>1. "currentStep" \in DOMAIN p
    OBVIOUS
  <2>3. Waiting = With(p, q)
    BY DEF Waiting
  <2> HIDE DEF p, q
  <2>2. "currentStep" \in DOMAIN With(p, q)
    BY <2>1, WithColumns
  <2> QED
    BY <1>2, <2>2, <2>3
<1>7. /\ \A s : TakeWebSlot(s).op = "take" /\ EmptyMirror(s).op = "free"
      /\ \A s, w : Book(s, w).op = "book" /\ Cancel(s, w).op = "cancel"
      /\ Release.op = "release"
  BY DEF TakeWebSlot, EmptyMirror, Free, Book, Cancel, Release
<1> QED
  BY <1>1, <1>3, <1>4, <1>5, <1>6, <1>7

LEMMA ShortSober ==
    ASSUME NEW x, NEW y, NEW z
    PROVE  LET fine(c) == c.op # "send" /\ (c.op = "update" => c.patches # <<Declined>>) IN
           /\ Sober(<< >>)
           /\ fine(x) => Sober(<<x>>)
           /\ fine(x) /\ fine(y) => Sober(<<x, y>>)
           /\ fine(x) /\ fine(y) /\ fine(z) => Sober(<<x, y, z>>)
<1>1. Len(<< >>) = 0 /\ Len(<<x>>) = 1 /\ Len(<<x, y>>) = 2 /\ Len(<<x, y, z>>) = 3
  BY EmptyList, ShortLists
<1>2. /\ <<x>>[1] = x /\ <<x, y>>[1] = x /\ <<x, y>>[2] = y
      /\ <<x, y, z>>[1] = x /\ <<x, y, z>>[2] = y /\ <<x, y, z>>[3] = z
  BY Tails
<1> DEFINE fine(c) == c.op # "send" /\ (c.op = "update" => c.patches # <<Declined>>)
<1>3. \A t : (\A i \in 1 .. Len(t) : fine(t[i])) => Sober(t)
  BY DEF Sober
<1> HIDE DEF fine
<1>4. Sober(<< >>) /\ (fine(x) => Sober(<<x>>)) /\ (fine(x) /\ fine(y) => Sober(<<x, y>>))
  BY <1>1, <1>2, <1>3
<1>5. fine(x) /\ fine(y) /\ fine(z) => Sober(<<x, y, z>>)
  BY <1>1, <1>2, <1>3
<1> QED
  BY <1>4, <1>5 DEF fine

\* Nor do a booking and a cancellation.
LEMMA TapCalm ==
    ASSUME Tap
    PROVE  \E t : AllCalm(t) /\ Sober(t) /\ Taps(t)
<1>1. CASE TapSlot
  <2>1. PICK s \in Slots : Taps(<<TakeWebSlot(s), EmptyMirror(s), Book(s, cand.interviewSlotId)>>)
    BY <1>1 DEF TapSlot
  <2> DEFINE x == TakeWebSlot(s)
             y == EmptyMirror(s)
             z == Book(s, cand.interviewSlotId)
  <2>2. Calm(x) /\ Calm(y) /\ Calm(z) /\ x.op = "take" /\ y.op = "free" /\ z.op = "book"
    BY CallsCalm, SoberCalls DEF EmptyMirror
  <2>3. Taps(<<x, y, z>>)
    BY <2>1
  <2> HIDE DEF x, y, z
  <2>4. AllCalm(<<x, y, z>>) /\ Sober(<<x, y, z>>)
    BY <2>2, ShortCalm, ShortSober
  <2> QED
    BY <2>3, <2>4
<1>2. CASE TapCancel
  <2> DEFINE y == Cancel(cand.interviewSlotId, TRUE)
             z == Update(Waiting)
  <2>1. Taps(<<Release, y, z>>)
    BY <1>2, Zenon DEF TapCancel, Waiting
  <2>2. Calm(Release) /\ Calm(y) /\ Calm(z)
    BY MixedPatches, CallsCalm
  <2>3. Release.op = "release" /\ y.op = "cancel" /\ z.op = "update" /\ z.patches # <<Declined>>
    BY SoberCalls
  <2> HIDE DEF y, z
  <2>4. AllCalm(<<Release, y, z>>) /\ Sober(<<Release, y, z>>)
    BY <2>2, <2>3, ShortCalm, ShortSober
  <2> QED
    BY <2>1, <2>4
<1> QED
  BY <1>1, <1>2 DEF Tap

\* So do her other buttons; a pass expires an invitation, reminds or tells of windows.
LEMMA PassWorded ==
    ASSUME NEW t, PassCalls(t)
    PROVE  t \in {Expires2, Reminds2, Tells3}
<1>1. \A c : TellPatch(c) = Tell
  BY DatedPatches
<1> QED
  BY <1>1, Zenon DEF PassCalls, Reminds2, Tells3, Expires2

LEMMA HerCallsCalm ==
    ASSUME NEW t, HerCalls(t)
    PROVE  AllCalm(t)
<1> DEFINE x == Update(SlotNeeded)
           y == Update(Declined)
           z == Update(Withdrawn)
           l == Cancel(cand.interviewSlotId, TRUE)
<1>1. Calm(x) /\ Calm(y) /\ Calm(z) /\ Calm(l) /\ Calm(Release)
  BY BlankPatches, MixedPatches, CallsCalm
<1>2. t \in {<<x>>, <<y>>, <<z>>} \/ t = <<Release, l, z>>
  BY DEF HerCalls
<1> HIDE DEF x, y, z, l
<1> QED
  BY <1>1, <1>2, PairCalm, ShortCalm

---------------------------------------------------------------------------
(* What a call leaves of such a list.                                      *)

LEMMA TailCalm ==
    ASSUME NEW t, IsList(t), t # << >>, AllCalm(t)
    PROVE  AllCalm(Tail(t)) /\ Calm(t[1])
<1>1. /\ Len(t) \in Nat \ {0} /\ Len(Tail(t)) = Len(t) - 1
      /\ \A i \in 1 .. Len(t) - 1 : Tail(t)[i] = t[i + 1]
  BY TailList
<1>2. \A i \in 1 .. Len(t) - 1 : i + 1 \in 1 .. Len(t)
  BY <1>1
<1>3. 1 \in 1 .. Len(t)
  BY <1>1
<1> QED
  BY <1>1, <1>2, <1>3 DEF AllCalm

LEMMA LedCalm ==
    ASSUME NEW x, NEW t, Led(x, t), Calm(t[1])
    PROVE  Calm(x) /\ x.op # "send"
<1>1. Calm(Update(Unlink)) /\ (x.op \notin {"update", "send"} => Calm(x))
  BY BlankPatches, CallsCalm
<1> QED
  BY <1>1 DEF Led

LEMMA ShiftedCalm ==
    ASSUME NEW t, NEW u, NEW d, Shifted(t, u, d), AllCalm(t)
    PROVE  AllCalm(u)
<1>1. /\ d \in {-1, 0, 1} /\ Len(t) \in Nat \ {0} /\ Len(u) = Len(t) + d
      /\ \A i \in 2 .. Len(t) : u[i + d] = t[i]
      /\ \A i \in 1 .. d + 1 : Led(u[i], t)
  BY DEF Shifted
<1>2. Calm(t[1])
  BY <1>1 DEF AllCalm
<1>3. ASSUME NEW i \in 1 .. Len(u) PROVE Calm(u[i])
  <2>1. CASE i \in 1 .. d + 1
    BY <1>1, <1>2, <2>1, LedCalm
  <2>2. CASE i \notin 1 .. d + 1
    <3> DEFINE j == i - d
    <3>1. j \in 2 .. Len(t) /\ j + d = i /\ j \in 1 .. Len(t)
      BY <1>1, <2>2
    <3> HIDE DEF j
    <3> QED
      BY <1>1, <3>1 DEF AllCalm
  <2> QED
    BY <2>1, <2>2
<1> QED
  BY <1>3 DEF AllCalm

LEMMA SendCall ==
    ASSUME Base, NEW a \in Actors, Calls(a), run[a].todo # << >>, Call(a).op = "send"
    PROVE  /\ \/ Onwards(a)
              \/ chat' = chat /\ (Stops(a) \/ Becomes(a, <<Archive>>)
                                           \/ Becomes(a, <<Attempt(Bar), Refuse("failed")>>))
           /\ AllCalm(<< >>) /\ AllCalm(<<Archive>>) /\ AllCalm(<<Attempt(Bar), Refuse("failed")>>)
           /\ cand' = cand
<1>1. SendStep(a)
  BY CallStep
<1>2. \/ Onwards(a)
      \/ chat' = chat /\ (Stops(a) \/ Becomes(a, <<Archive>>)
                                   \/ Becomes(a, <<Attempt(Bar), Refuse("failed")>>))
  BY <1>1, Zenon DEF SendStep
<1>3. Calm(Archive) /\ Calm(Attempt(Bar)) /\ Calm(Refuse("failed"))
  BY MixedPatches, CallsCalm
<1>4. AllCalm(<< >>) /\ AllCalm(<<Archive>>) /\ AllCalm(<<Attempt(Bar), Refuse("failed")>>)
  <2> DEFINE x == Attempt(Bar)
             y == Refuse("failed")
  <2>1. Calm(x) /\ Calm(y)
    BY <1>3
  <2> HIDE DEF x, y
  <2> QED
    BY <1>3, <2>1, PairCalm, ShortCalm DEF x, y
<1> QED
  BY <1>1, <1>2, <1>4 DEF SendStep

LEMMA CalmCalls ==
    ASSUME Base, NEW a \in Actors, Calls(a), run[a].todo # << >>, AllCalm(run[a].todo)
    PROVE  AllCalm(run'[a].todo)
<1>1. IsList(run[a].todo) /\ AllCalm(<< >>)
  BY CallStep, ShortCalm
<1>2. CASE Call(a).op = "send"
  BY <1>1, <1>2, SendCall, TailCalm DEF Onwards, Stops, Becomes
<1>3. CASE Call(a).op # "send"
  BY <1>1, <1>3, NextList, ShiftedCalm
<1> QED
  BY <1>2, <1>3

\* An answer other than "ok" ends a list.
LEMMA ResultStays ==
    ASSUME Base, NEW a \in Actors, Calls(a), run[a].todo # << >>
    PROVE  run'[a].result = run[a].result \/ Stops(a)
<1>1. CASE Call(a).op = "book"
  <2>1. LocalsOK /\ (ValidateBooking(a) \/ WriteBooking(a))
    BY <1>1, ActionOf DEF Base
  <2>2. \/ run' = [run EXCEPT ![a].read = cand]
        \/ \E t : Leaves(a, t, run[a].result)
    BY <2>1, Zenon DEF ValidateBooking, WriteBooking, Goes, Went
  <2> QED
    BY <2>1, <2>2, LocalAfter
<1>2. CASE Call(a).op # "book"
  <2>1. Call(a).op \in Ops
    BY ActionOf
  <2>2. Onwards(a) \/ Stops(a) \/ \E t : Becomes(a, t)
    <3>1. CASE Call(a).op = "update"
      <4>1. UpdateStep(a)
        BY <3>1, CallStep
      <4> QED
        BY <4>1, Zenon DEF UpdateStep
    <3>2. CASE Call(a).op = "send"
      BY <3>2, SendCall
    <3>3. CASE Call(a).op = "cancel"
      <4>1. CancelStep(a)
        BY <3>3, CallStep
      <4> QED
        BY <4>1, Zenon DEF CancelStep
    <3>4. CASE Call(a).op \in {"check", "refuse"}
      BY <3>4, CallStep
    <3>5. CASE Call(a).op \in {"release", "free", "remind", "archive", "mark", "move", "take", "restore"}
      BY <3>5, CallStep
    <3> QED
      BY <1>2, <2>1, <3>1, <3>2, <3>3, <3>4, <3>5 DEF Ops
  <2> QED
    BY <2>2 DEF Onwards, Becomes
<1> QED
  BY <1>1, <1>2

LEMMA LooksCalls ==
    ASSUME Base, NEW a \in Actors, Calls(a), run[a].todo # << >>, NEW offered,
           Looks(run[a].todo, offered)
    PROVE  LET t == run[a].todo
               u == run'[a].todo IN
           /\ IsList(t)
           /\ \/ u = << >> \/ Looks(u, offered)
              \/ Len(t) = 2 /\ u = <<WindowsLetter(offered)>>
           /\ Len(t) = 2 => Relooks(Call(a), offered) /\ Tail(t) = <<WindowsLetter(offered)>>
           /\ Len(t) # 2 => Call(a).op # "send" /\ Calm(Call(a))
<1> DEFINE t == run[a].todo
           u == run'[a].todo
           n == Len(t)
           y == WindowsLetter(offered)
<1> HIDE DEF y
<1>1. /\ IsList(t) /\ n \in Nat \ {0, 1} /\ t[n] = y /\ Relooks(t[n - 1], offered)
      /\ \A i \in 1 .. n - 2 : t[i].op # "send" /\ Calm(t[i])
  BY CallStep DEF Looks, y
<1>2. CASE n = 2
  <2>1. Tail(t) = <<y>> /\ Relooks(t[1], offered)
    <3>1. Tail(t) = <<t[2]>>
      BY <1>1, <1>2, ShortIs
    <3> QED
      BY <1>1, <1>2, <3>1
  <2>2. Call(a).op = "update"
    BY <2>1 DEF Relooks, Call
  <2>3. UpdateStep(a)
    BY <2>2, CallStep
  <2>4. u = t \/ u = << >> \/ u = Tail(t)
    BY <2>3, Zenon DEF UpdateStep, Becomes, Stops, Onwards
  <2> QED
    BY <1>1, <1>2, <2>1, <2>4 DEF Call, y
<1>3. CASE n # 2
  <2>a. n \in Nat /\ n # 0 /\ n # 1 /\ n # 2
    BY <1>1, <1>3
  <2>0. 1 \in 1 .. n - 2
    <3> HIDE DEF n
    <3> QED
      BY <2>a
  <2>1. 1 \in 1 .. n - 2 /\ t[1].op # "send" /\ Calm(t[1])
    BY <1>1, <2>0
  <2>2. u = << >> \/ \E d \in {-1, 0, 1} : Shifted(t, u, d)
    BY <2>1, NextList DEF Call
  <2>3. ASSUME NEW d \in {-1, 0, 1}, Shifted(t, u, d) PROVE Looks(u, offered)
    <3> HIDE DEF t, u
    <3>1. /\ Len(u) = n + d
          /\ \A i \in 2 .. n : u[i + d] = t[i]
          /\ \A i \in 1 .. d + 1 : Led(u[i], t)
      BY <2>3 DEF Shifted
    <3> DEFINE m == Len(u)
    <3>2. m \in Nat \ {0, 1} /\ n \in 2 .. n /\ n - 1 \in 2 .. n /\ (n - 1) + d = m - 1 /\ n + d = m
      <4>1. m = n + d
        BY <3>1
      <4> HIDE DEF n, m
      <4> QED
        BY <2>a, <2>3, <4>1
    <3>3. u[m] = y /\ Relooks(u[m - 1], offered)
      <4>1. u[n + d] = t[n] /\ u[(n - 1) + d] = t[n - 1]
        BY <3>1, <3>2
      <4> QED
        BY <1>1, <3>2, <4>1
    <3>4. ASSUME NEW i \in 1 .. m - 2 PROVE u[i].op # "send" /\ Calm(u[i])
      <4>1. CASE i \in 1 .. d + 1
        BY <2>1, <3>1, <4>1, LedCalm
      <4>2. CASE i \notin 1 .. d + 1
        <5> DEFINE j == i - d
        <5>1. j \in 2 .. n /\ j + d = i /\ j \in 1 .. n - 2
          BY <1>1, <2>3, <3>1, <4>2
        <5> HIDE DEF j
        <5> QED
          BY <1>1, <3>1, <5>1
      <4> QED
        BY <4>1, <4>2
    <3> QED
      BY <3>2, <3>3, <3>4 DEF Looks, y
  <2> QED
    BY <1>1, <1>3, <2>1, <2>2, <2>3 DEF Call
<1> QED
  BY <1>2, <1>3

---------------------------------------------------------------------------
(* What a call does to the columns of an invitation.                       *)

CallsWaitlist(a) ==
    WriteRow(a) \/ ArchiveRow(a) \/ BookRow(a) \/ (OtherCalls(a) /\ UNCHANGED waitlist)

LEMMA CallsOfWaitlist ==
    ASSUME NEW a \in Actors, CallsWaitlist(a)
    PROVE  Calls(a) /\ UNCHANGED <<open, firstSeen, news, taps, changes>>
BY DEF CallsWaitlist, WriteRow, ArchiveRow, BookRow, Calls, waitlist

\* An update that is judged, refused or undone leaves them; one that is written dates them.
Judges(a) ==
    /\ cand' = cand /\ invitation' = invitation /\ newer' = newer /\ waitReason' = waitReason
    /\ \/ Becomes(a, run[a].todo)
       \/ Stops(a) /\ (Len(Call(a).patches) = 2 \/ ~ Admits(cand, Call(a).patches[1]))
       \/ Onwards(a) /\ ~ Call(a).must /\ ~ Admits(cand, Call(a).patches[1])
Writes(a) ==
    LET p == LastPatch(Call(a)) IN
    /\ Onwards(a)
    /\ invitation' = InvitedAfter(p)
    /\ newer' = IF "interviewWaitlistedAt" \in DOMAIN p THEN {} ELSE newer
    /\ waitReason' = Field(p, "interviewWaitlistReason", waitReason)
    /\ "status" \in DOMAIN p => cand'.status = p["status"]

LEMMA WaitUpdate ==
    ASSUME Base, NEW a \in Actors, CallsWaitlist(a), run[a].todo # << >>, run[a].result = "ok",
           Call(a).op = "update"
    PROVE  Judges(a) \/ Writes(a)
<1>1. Calls(a) /\ Fine(a, Call(a)) /\ UpdateStep(a) /\ AtCall(a, "update")
  BY CallsOfWaitlist, CallStep, ActionOf
<1>2. Len(Call(a).patches) \in {1, 2} /\ PatchTyped(Call(a).patches[1])
  BY <1>1 DEF Fine, PatchOK
<1>3. CASE WriteRow(a)
  <2>1. WriteUpdate(a) /\ run[a].read # Null
    BY <1>3 DEF WriteRow, WriteUpdate
  <2>2. CASE Onwards(a)
    <3>1. run'[a].result = "ok"
      BY <2>2 DEF Onwards
    <3>2. /\ invitation' = InvitedAfter(LastPatch(Call(a)))
          /\ newer' = IF "interviewWaitlistedAt" \in DOMAIN LastPatch(Call(a)) THEN {} ELSE newer
          /\ waitReason' = Field(LastPatch(Call(a)), "interviewWaitlistReason", waitReason)
      BY <1>3, <3>1, Zenon DEF WriteRow, LastPatch
    <3>3. "status" \in DOMAIN LastPatch(Call(a)) => cand'.status = LastPatch(Call(a))["status"]
      <4> DEFINE ps == Call(a).patches
                 read == run[a].read
                 first == Updated(cand, read, ps[1])
                 n == Len(ps)
      <4>0. ~ Stops(a)
        BY <3>1 DEF Stops
      <4>a. IF n = 1 THEN cand' = first ELSE cand' = Updated(first, first, ps[2])
        BY <1>1, <2>1, <4>0, Zenon DEF UpdateStep
      <4>1. (cand' = first /\ n = 1) \/ (cand' = Updated(first, first, ps[2]) /\ n = 2)
        BY <1>2, <4>a
      <4>2. cand \in Snapshot /\ read \in Snapshot
        BY <1>1, <2>1, AtHead DEF Base, Tables, TypeOK, Row
      <4>3. PatchTyped(ps[1]) /\ PatchTyped(ps[n])
        BY <1>1 DEF Fine, PatchOK
      <4>4. LastPatch(Call(a)) = ps[n]
        BY DEF LastPatch
      <4> HIDE DEF first, read, ps, n
      <4>5. first \in Snapshot /\ first.status = Field(ps[1], "status", cand.status)
        BY <4>2, <4>3, UpdatedRow DEF first
      <4>6. CASE n = 1
        BY <4>1, <4>4, <4>5, <4>6 DEF Field
      <4>7. CASE n = 2
        <5>1. PatchTyped(ps[2]) /\ cand' = Updated(first, first, ps[2])
          BY <4>1, <4>3, <4>7
        <5>2. cand'.status = Field(ps[2], "status", first.status)
          BY <4>5, <5>1, UpdatedRow
        <5> QED
          BY <4>4, <4>7, <5>2 DEF Field
      <4> QED
        BY <4>1, <4>6, <4>7
    <3> QED
      BY <1>2, <2>2, <3>2, <3>3 DEF Writes
  <2>3. CASE ~ Onwards(a)
    <3>1. Stops(a) /\ Len(Call(a).patches) = 2 /\ cand' = cand
      BY <1>1, <2>1, <2>3, Zenon DEF UpdateStep
    <3>2. run'[a].result # "ok"
      BY <3>1 DEF Stops
    <3>3. invitation' = invitation /\ newer' = newer /\ waitReason' = waitReason
      BY <1>3, <3>2, Zenon DEF WriteRow
    <3> QED
      BY <3>1, <3>3 DEF Judges
  <2> QED
    BY <2>2, <2>3
<1>4. CASE OtherCalls(a) /\ UNCHANGED waitlist
  <2>1. run[a].read = Null
    BY <1>1, <1>4
       DEF OtherCalls, AtCall, CheckPatch, Deliver, SendFails, SendIsBlocked, ReleaseWebSlot, CancelSlot,
           FreeSlot, RemindSlot, MarkSent, MoveLocation, RefuseCommand, ValidateUpdate, TakeSlot,
           ValidateBooking, RestoreWebSlot, Rest, Ended
  <2>2. /\ cand' = cand
        /\ \/ Becomes(a, run[a].todo)
           \/ ~ Admits(cand, Call(a).patches[1]) /\ (Stops(a) \/ (~ Call(a).must /\ Onwards(a)))
    BY <1>1, <2>1, Zenon DEF UpdateStep
  <2>3. invitation' = invitation /\ newer' = newer /\ waitReason' = waitReason
    BY <1>4 DEF waitlist
  <2> QED
    BY <2>2, <2>3 DEF Judges
<1>5. ~ ArchiveRow(a) /\ ~ BookRow(a)
  BY <1>1 DEF ArchiveRow, ArchiveBlocked, BookRow, WriteBooking, AtCall
<1> QED
  BY <1>3, <1>4, <1>5 DEF CallsWaitlist

LEMMA WaitOthers ==
    ASSUME Base, NEW a \in Actors, CallsWaitlist(a), run[a].todo # << >>, Call(a).op # "update"
    PROVE  /\ newer' = newer /\ waitReason' \in {waitReason, FALSE}
           /\ \/ invitation' = invitation /\ (Call(a).op = "archive" => cand' = cand)
              \/ Call(a).op = "archive" /\ invitation' = [invitation EXCEPT !.at = "none"]
<1>1. ~ WriteRow(a)
  BY DEF WriteRow, WriteUpdate, AtCall
<1>2. CASE ArchiveRow(a)
  <2>1. Call(a).op = "archive"
    BY <1>2 DEF ArchiveRow, ArchiveBlocked, AtCall
  <2> QED
    BY <1>2, <2>1, Zenon DEF ArchiveRow
<1>3. CASE BookRow(a)
  BY <1>3 DEF BookRow, WriteBooking, AtCall
<1>4. CASE OtherCalls(a) /\ UNCHANGED waitlist
  <2>1. Calls(a) /\ UNCHANGED waitlist
    BY <1>4 DEF Calls
  <2>2. Call(a).op # "archive"
    BY <1>4, <2>1, ActionOf
       DEF OtherCalls, AtCall, CheckPatch, Deliver, SendFails, SendIsBlocked, ReleaseWebSlot, CancelSlot,
           FreeSlot, RemindSlot, MarkSent, MoveLocation, RefuseCommand, ValidateUpdate, TakeSlot,
           ValidateBooking, RestoreWebSlot, Rest, Ended
  <2> QED
    BY <2>1, <2>2 DEF waitlist
<1> QED
  BY <1>1, <1>2, <1>3, <1>4 DEF CallsWaitlist

\* A letter more or none.
LEMMA ToldGrows ==
    ASSUME Base, NEW x, chat' = Append(chat, x), NEW L
    PROVE  LET after == {i \in DOMAIN chat' : chat'[i].letter \in L} IN
           /\ Cardinality(Told(L)) \in Nat
           /\ Cardinality(after) = Cardinality(Told(L)) + (IF x.letter \in L THEN 1 ELSE 0)
<1> DEFINE after == {i \in DOMAIN chat' : chat'[i].letter \in L}
           n == Len(chat')
<1>1. /\ Len(chat) \in Nat /\ n = Len(chat) + 1 /\ DOMAIN chat = 1 .. Len(chat) /\ DOMAIN chat' = 1 .. n
      /\ \A i \in 1 .. Len(chat) : chat'[i] = chat[i]
      /\ chat'[n] = x
  BY LetterAdded
<1> HIDE DEF n
<1>2. IsFiniteSet(Told(L)) /\ n \notin Told(L)
  <2>1. IsFiniteSet(DOMAIN chat)
    BY <1>1, FS_Interval
  <2>2. Told(L) \subseteq DOMAIN chat
    BY DEF Told
  <2>3. n \notin DOMAIN chat
    BY <1>1
  <2> QED
    BY <2>1, <2>2, <2>3, FS_Subset
<1>3. Cardinality(Told(L)) \in Nat
  BY <1>2, FS_CardinalityType
<1>4. \A i : i \in DOMAIN chat' <=> i \in DOMAIN chat \/ i = n
  BY <1>1
<1>5. after = IF x.letter \in L THEN Told(L) \cup {n} ELSE Told(L)
  BY <1>1, <1>4 DEF Told
<1> HIDE DEF after
<1>6. Cardinality(after) = Cardinality(Told(L)) + (IF x.letter \in L THEN 1 ELSE 0)
  <2>1. Cardinality(Told(L) \cup {n}) = Cardinality(Told(L)) + 1
    BY <1>2, FS_AddElement
  <2> QED
    BY <1>3, <1>5, <2>1
<1> QED
  BY <1>3, <1>6 DEF after

LEMMA CountsAre ==
    ASSUME Base
    PROVE  RemindersTold \in Nat /\ OffersTold \in Nat /\ WindowsTold \in Nat
<1>1. IsFiniteSet(DOMAIN chat)
  <2>1. \E n \in Nat : DOMAIN chat = 1 .. n
    BY DEF Base, Tables, ChatSound, IsList
  <2> QED
    BY <2>1, FS_Interval
<1>2. \A L : Told(L) \subseteq DOMAIN chat
  BY DEF Told
<1>3. \A L : Cardinality(Told(L)) \in Nat
  BY <1>1, <1>2, FS_Subset, FS_CardinalityType
<1> QED
  BY <1>3 DEF RemindersTold, OffersTold, WindowsTold

\* What the counts become.
LEMMA CountsStay ==
    ASSUME chat' = chat
    PROVE  RemindersTold' = RemindersTold /\ OffersTold' = OffersTold /\ WindowsTold' = WindowsTold
BY DEF RemindersTold, OffersTold, WindowsTold, Told, Offers

LEMMA CountsGrow ==
    ASSUME Base, NEW x, chat' = Append(chat, x)
    PROVE  /\ RemindersTold' = RemindersTold + (IF x.letter = "invitation reminder" THEN 1 ELSE 0)
           /\ OffersTold' = OffersTold + (IF x.letter \in Offers THEN 1 ELSE 0)
           /\ WindowsTold' = WindowsTold + (IF x.letter = "slots opened" THEN 1 ELSE 0)
<1>1. /\ RemindersTold' = RemindersTold + (IF x.letter \in {"invitation reminder"} THEN 1 ELSE 0)
      /\ WindowsTold' = WindowsTold + (IF x.letter \in {"slots opened"} THEN 1 ELSE 0)
  BY ToldGrows DEF RemindersTold, WindowsTold, Told
<1>2. OffersTold' = OffersTold + (IF x.letter \in {"invitation", "slots"} THEN 1 ELSE 0)
  BY ToldGrows DEF OffersTold, Told, Offers
<1> QED
  BY <1>1, <1>2, Zenon DEF Offers

---------------------------------------------------------------------------
(* Reminders and letters about windows, step by step.                      *)

\* What is to be shown of a step.
OnNext(a, t) == RunsNow(a) /\ run'[a].todo = t
SpareNext == RemindersTold' < OffersTold' + mishaps'
OfferingNext ==
    /\ Rescheduling /\ cand'.status = "SCREENING"
    /\ OnNext("dispatcher", <<SlotsLetter>>) \/ OnNext("dispatcher", <<Archive>>)
RemindersNext ==
    /\ RemindersTold' <= OffersTold' + mishaps'
    /\ Live' => SpareNext \/ OnNext("worker", Reminds1) \/ OfferingNext
    /\ OnNext("dispatcher", Invites1) => SpareNext
    /\ OnNext("worker", Reminds2) => Live'
NewsLeftNext == WindowsTold' < news' + mishaps'
WindowsNext ==
    /\ WindowsTold' <= news' + mishaps'
    /\ Fresh' => NewsLeftNext \/ OnNext("worker", Tells1)
    /\ OnNext("worker", Tells3) \/ OnNext("worker", Tells2) => Fresh'
    /\ OnNext("worker", Tells2) \/ OnNext("worker", Tells1) => Admits(cand', Tell)

LEMMA OnListNext ==
    ASSUME NEW a, NEW t
    PROVE  OnList(a, t)' <=> OnNext(a, t)
BY DEF OnList, OnNext, Running, RunsNow

LEMMA FitsNext ==
    ASSUME scene' = scene, RemindersNext, WindowsNext
    PROVE  RemindersFit' /\ WindowsFit'
<1>1. Rescheduling' <=> Rescheduling
  BY DEF Rescheduling, Commands
<1>2. (Spare' <=> SpareNext) /\ (NewsLeft' <=> NewsLeftNext)
  BY DEF Spare, SpareNext, NewsLeft, NewsLeftNext
<1>3. /\ Noting' <=> OnNext("worker", Reminds1)
      /\ Reminding' <=> OnNext("worker", Reminds2)
      /\ Inviting' <=> OnNext("dispatcher", Invites1)
  BY DEF Noting, Reminding, Inviting, OnList, OnNext, Running, RunsNow
<1>4. Offering' <=> OfferingNext
  BY <1>1 DEF Offering, OfferingNext, OnList, OnNext, Running, RunsNow
<1>5. /\ ToTell' <=> OnNext("worker", Tells3) \/ OnNext("worker", Tells2)
      /\ Dating' <=> OnNext("worker", Tells1)
      /\ Cleared' <=> OnNext("worker", Tells2) \/ OnNext("worker", Tells1)
  BY DEF ToTell, Dating, Cleared, OnList, OnNext, Running, RunsNow
<1>6. RemindersFit'
  BY <1>2, <1>3, <1>4, Zenon DEF RemindersFit, RemindersNext
<1>7. Admits(cand, Tell)' <=> Admits(cand', Tell)
  OBVIOUS
<1>8. WindowsFit'
  BY <1>2, <1>5, <1>7, Zenon DEF WindowsFit, WindowsNext
<1> QED
  BY <1>6, <1>8

\* The lists, told apart.
LEMMA ListsAre ==
    /\ Invites3[1] = Check(Invited) /\ Tail(Invites3) = Invites2 /\ Len(Invites3) = 3
    /\ Invites2[1] = InviteLetter /\ Tail(Invites2) = Invites1 /\ Len(Invites2) = 2
    /\ Invites1[1] = Update(Invited) /\ Tail(Invites1) = << >> /\ Len(Invites1) = 1
    /\ Reminds2[1] = Reminder /\ Tail(Reminds2) = Reminds1 /\ Len(Reminds2) = 2
    /\ Reminds1[1] = Update(Noted) /\ Tail(Reminds1) = << >> /\ Len(Reminds1) = 1
    /\ Tells3[1] = Check(Tell) /\ Tail(Tells3) = Tells2 /\ Len(Tells3) = 3
    /\ Tells2[1] = Opened /\ Tail(Tells2) = Tells1 /\ Len(Tells2) = 2
    /\ Tells1[1] = Update(Tell) /\ Tail(Tells1) = << >> /\ Len(Tells1) = 1
    /\ Expires2[1] = Update(Expired) /\ Tail(Expires2) = Expires1 /\ Len(Expires2) = 2
    /\ Expires1[1] = Expiry /\ Tail(Expires1) = << >> /\ Len(Expires1) = 1
    /\ Withheld[1] = NoSlots /\ Tail(Withheld) = << >> /\ Len(Withheld) = 1
    /\ Len(<<SlotsLetter>>) = 1 /\ Len(<<Archive>>) = 1 /\ Len(<< >>) = 0
    /\ <<SlotsLetter>>[1] = SlotsLetter /\ <<Archive>>[1] = Archive
    /\ Tail(<<SlotsLetter>>) = << >> /\ Tail(<<Archive>>) = << >>
<1> DEFINE i == Update(Invited)
           n == Update(Noted)
           t == Update(Tell)
           e == Update(Expired)
           ci == Check(Invited)
           ct == Check(Tell)
<1> HIDE DEF i, n, t, e, ci, ct, InviteLetter, Reminder, Opened, SlotsLetter, Archive, Expiry, NoSlots
<1>1. /\ <<ci, InviteLetter, i>>[1] = ci /\ Tail(<<ci, InviteLetter, i>>) = <<InviteLetter, i>>
      /\ Len(<<ci, InviteLetter, i>>) = 3
      /\ <<InviteLetter, i>>[1] = InviteLetter /\ Tail(<<InviteLetter, i>>) = <<i>> /\ Len(<<InviteLetter, i>>) = 2
      /\ <<i>>[1] = i /\ Tail(<<i>>) = << >> /\ Len(<<i>>) = 1
  BY Tails, ShortLists
<1>2. /\ <<Reminder, n>>[1] = Reminder /\ Tail(<<Reminder, n>>) = <<n>> /\ Len(<<Reminder, n>>) = 2
      /\ <<n>>[1] = n /\ Tail(<<n>>) = << >> /\ Len(<<n>>) = 1
  BY Tails, ShortLists
<1>3. /\ <<ct, Opened, t>>[1] = ct /\ Tail(<<ct, Opened, t>>) = <<Opened, t>> /\ Len(<<ct, Opened, t>>) = 3
      /\ <<Opened, t>>[1] = Opened /\ Tail(<<Opened, t>>) = <<t>> /\ Len(<<Opened, t>>) = 2
      /\ <<t>>[1] = t /\ Tail(<<t>>) = << >> /\ Len(<<t>>) = 1
  BY Tails, ShortLists
<1>4. /\ Len(<<SlotsLetter>>) = 1 /\ Len(<<Archive>>) = 1 /\ Len(<< >>) = 0
      /\ <<SlotsLetter>>[1] = SlotsLetter /\ <<Archive>>[1] = Archive
      /\ Tail(<<SlotsLetter>>) = << >> /\ Tail(<<Archive>>) = << >>
  BY Tails, ShortLists, EmptyList
<1>5. /\ <<e, Expiry>>[1] = e /\ Tail(<<e, Expiry>>) = <<Expiry>> /\ Len(<<e, Expiry>>) = 2
      /\ <<Expiry>>[1] = Expiry /\ Tail(<<Expiry>>) = << >> /\ Len(<<Expiry>>) = 1
      /\ <<NoSlots>>[1] = NoSlots /\ Tail(<<NoSlots>>) = << >> /\ Len(<<NoSlots>>) = 1
  BY Tails, ShortLists
<1> QED
  BY <1>1, <1>2, <1>3, <1>4, <1>5
     DEF Invites3, Invites2, Invites1, Reminds2, Reminds1, Tells3, Tells2, Tells1, Expires2, Expires1, Withheld,
         i, n, t, e, ci, ct

LEMMA ListLengths ==
    /\ Len(Invites3) = 3 /\ Len(Invites2) = 2 /\ Len(Invites1) = 1
    /\ Len(Reminds2) = 2 /\ Len(Reminds1) = 1
    /\ Len(Tells3) = 3 /\ Len(Tells2) = 2 /\ Len(Tells1) = 1
    /\ Len(Expires2) = 2 /\ Len(Expires1) = 1 /\ Len(Withheld) = 1
    /\ Len(<<SlotsLetter>>) = 1 /\ Len(<<Archive>>) = 1 /\ Len(<< >>) = 0
BY ListsAre

LEMMA HeadsAre ==
    /\ Invites3[1].op = "check" /\ Invites3[1].patch = Invited /\ Calm(Invites3[1])
    /\ Tells3[1].op = "check" /\ Tells3[1].patch = Tell /\ Calm(Tells3[1])
    /\ Invites1[1].op = "update" /\ LastPatch(Invites1[1]) = Invited
    /\ Reminds1[1].op = "update" /\ LastPatch(Reminds1[1]) = Noted
    /\ Tells1[1].op = "update" /\ LastPatch(Tells1[1]) = Tell
    /\ Expires2[1].op = "update" /\ LastPatch(Expires2[1]) = Expired /\ Expires2[1].must /\ Soft(Expires2[1])
    /\ \A x \in {Reminds1[1], Tells1[1]} : Len(x.patches) = 1 /\ x.patches[1] = LastPatch(x)
    /\ Expires1[1].op = "send" /\ Expires1[1].letter = "invitation expired" /\ Expires1[1].onFailure = "ignore"
    /\ Expires1[1].onBlocked = "archive" /\ Soft(Expires1[1])
    /\ Withheld[1].op = "send" /\ Withheld[1].letter = "no slots" /\ Soft(Withheld[1])
    /\ Invites2[1].op = "send" /\ Invites2[1].letter = "invitation" /\ Invites2[1].onFailure = "throw"
    /\ Invites2[1].onBlocked = "bar" /\ Calm(Invites2[1])
    /\ Reminds2[1].op = "send" /\ Reminds2[1].letter = "invitation reminder"
    /\ Tells2[1].op = "send" /\ Tells2[1].letter = "slots opened"
    /\ \A x \in {Reminds2[1], Tells2[1], Withheld[1]} : x.onFailure = "throw" /\ x.onBlocked = "archive"
<1>1. \A p : Check(p).op = "check" /\ Check(p).patch = p /\ Calm(Check(p))
  <2>1. \A p : Calm(Check(p))
    BY CallsCalm
  <2> QED
    BY <2>1 DEF Check
<1>2. \A p : /\ Update(p).op = "update" /\ Len(Update(p).patches) = 1 /\ Update(p).must
             /\ Update(p).patches[1] = p /\ LastPatch(Update(p)) = p
  <2>1. \A p : Len(<<p>>) = 1 /\ <<p>>[1] = p
    BY Tails, ShortLists
  <2> QED
    BY <2>1 DEF Update, LastPatch
<1>3. /\ InviteLetter.op = "send" /\ InviteLetter.letter = "invitation" /\ InviteLetter.onFailure = "throw"
      /\ InviteLetter.onBlocked = "bar" /\ Calm(InviteLetter)
      /\ Reminder.op = "send" /\ Reminder.letter = "invitation reminder" /\ Reminder.onFailure = "throw"
      /\ Reminder.onBlocked = "archive"
      /\ Opened.op = "send" /\ Opened.letter = "slots opened" /\ Opened.onFailure = "throw"
      /\ Opened.onBlocked = "archive"
  <2>1. Calm(InviteLetter)
    BY CallsCalm DEF InviteLetter
  <2> QED
    BY <2>1 DEF InviteLetter, Reminder, Opened, Send
<1>4. /\ Invites3[1] = Check(Invited) /\ Tells3[1] = Check(Tell) /\ Invites1[1] = Update(Invited)
      /\ Reminds1[1] = Update(Noted) /\ Tells1[1] = Update(Tell) /\ Invites2[1] = InviteLetter
      /\ Reminds2[1] = Reminder /\ Tells2[1] = Opened
      /\ Expires2[1] = Update(Expired) /\ Expires1[1] = Expiry /\ Withheld[1] = NoSlots
  BY ListsAre
<1>5. /\ Invites3[1].op = "check" /\ Invites3[1].patch = Invited /\ Calm(Invites3[1])
      /\ Tells3[1].op = "check" /\ Tells3[1].patch = Tell /\ Calm(Tells3[1])
  BY <1>1, <1>4
<1>6. /\ Invites1[1].op = "update" /\ LastPatch(Invites1[1]) = Invited
      /\ Reminds1[1].op = "update" /\ LastPatch(Reminds1[1]) = Noted
      /\ Tells1[1].op = "update" /\ LastPatch(Tells1[1]) = Tell
      /\ \A x \in {Reminds1[1], Tells1[1]} : Len(x.patches) = 1 /\ x.patches[1] = LastPatch(x)
  BY <1>2, <1>4
<1>7. Expires2[1].op = "update" /\ LastPatch(Expires2[1]) = Expired /\ Expires2[1].must /\ Soft(Expires2[1])
  <2>1. Calm(Update(Expired))
    BY MixedPatches, CallsCalm
  <2> QED
    BY <1>2, <1>4, <2>1 DEF Calm
<1>8. /\ Expiry.op = "send" /\ Expiry.letter = "invitation expired" /\ Expiry.onFailure = "ignore"
      /\ Expiry.onBlocked = "archive" /\ Soft(Expiry)
      /\ NoSlots.op = "send" /\ NoSlots.letter = "no slots" /\ NoSlots.onFailure = "throw"
      /\ NoSlots.onBlocked = "archive" /\ Soft(NoSlots)
  BY DEF Expiry, NoSlots, Send, Soft
<1>9. /\ Expires1[1].op = "send" /\ Expires1[1].letter = "invitation expired" /\ Expires1[1].onFailure = "ignore"
      /\ Expires1[1].onBlocked = "archive" /\ Soft(Expires1[1])
      /\ Withheld[1].op = "send" /\ Withheld[1].letter = "no slots" /\ Soft(Withheld[1])
      /\ Expires2[1].op = "update" /\ LastPatch(Expires2[1]) = Expired /\ Expires2[1].must /\ Soft(Expires2[1])
  BY <1>2, <1>4, <1>7, <1>8
<1>10. /\ Invites2[1].op = "send" /\ Invites2[1].letter = "invitation" /\ Invites2[1].onFailure = "throw"
       /\ Invites2[1].onBlocked = "bar" /\ Calm(Invites2[1])
       /\ Reminds2[1].op = "send" /\ Reminds2[1].letter = "invitation reminder"
       /\ Tells2[1].op = "send" /\ Tells2[1].letter = "slots opened"
       /\ \A x \in {Reminds2[1], Tells2[1], Withheld[1]} : x.onFailure = "throw" /\ x.onBlocked = "archive"
  <2>1. Invites2[1] = InviteLetter /\ Reminds2[1] = Reminder /\ Tells2[1] = Opened /\ Withheld[1] = NoSlots
    BY <1>4
  <2>2. /\ Reminder.onFailure = "throw" /\ Reminder.onBlocked = "archive"
        /\ Opened.onFailure = "throw" /\ Opened.onBlocked = "archive"
        /\ NoSlots.onFailure = "throw" /\ NoSlots.onBlocked = "archive"
    BY <1>3, <1>8, Zenon
  <2> QED
    BY <1>3, <2>1, <2>2, Zenon
<1> QED
  BY <1>5, <1>6, <1>9, <1>10, Zenon

LEMMA ListsDiffer ==
    /\ \A t : AllCalm(t) =>
          t \notin {Invites1, Reminds2, Reminds1, Tells3, Tells2, Tells1, Expires2, Expires1, Withheld}
    /\ AllCalm(<< >>) /\ AllCalm(<<SlotsLetter>>) /\ AllCalm(<<Archive>>)
    /\ \A t : \A offered : Looks(t, offered) => t \notin {Invites1, <<SlotsLetter>>, <<Archive>>, << >>, Withheld}
    /\ Reminds2 # Tells2 /\ Reminds1 # Tells1
    /\ << >> \notin {Invites1, Reminds2, Reminds1, Tells3, Tells2, Tells1}
    /\ Invites3 \notin {Invites1, Reminds1, Tells1} /\ Invites2 \notin {Invites1, Reminds1, Tells1}
    /\ Reminds2 \notin {Reminds1, Tells3, Tells1} /\ Reminds1 \notin {Tells3, Tells2}
    /\ Tells3 \notin {Tells2, Tells1} /\ Tells2 # Tells1
    /\ Expires2 \notin {Reminds2, Reminds1, Tells3, Tells2, Tells1, Expires1}
    /\ Expires1 \notin {Reminds2, Reminds1, Tells3, Tells2, Tells1}
    /\ Withheld \notin {Invites3, Invites2, Invites1, <<SlotsLetter>>, <<Archive>>}
    /\ << >> \notin {Expires2, Expires1, Withheld}
<1>1. ~ Calm(Update(Invited)) /\ ~ Calm(Update(Noted)) /\ ~ Calm(Update(Tell)) /\ ~ Calm(Expiry) /\ ~ Calm(NoSlots)
  <2>1. ~ Calm(Expiry) /\ ~ Calm(NoSlots)
    BY DEF Calm, Expiry, NoSlots, Send
  <2> QED
    BY <2>1, DatedPatches, CallsCalm
<1>2. ~ AllCalm(Invites1) /\ ~ AllCalm(Reminds2) /\ ~ AllCalm(Reminds1) /\ ~ AllCalm(Tells3) /\ ~ AllCalm(Tells2)
      /\ ~ AllCalm(Tells1) /\ ~ AllCalm(Expires2) /\ ~ AllCalm(Expires1) /\ ~ AllCalm(Withheld)
  <2> DEFINE i == Update(Invited)
             n == Update(Noted)
             t == Update(Tell)
             e == Update(Expired)
             ct == Check(Tell)
  <2> HIDE DEF i, n, t, e, ct, Reminder, Opened, Expiry, NoSlots
  <2>1. ~ Calm(i) /\ ~ Calm(n) /\ ~ Calm(t) /\ ~ Calm(Expiry) /\ ~ Calm(NoSlots)
    BY <1>1 DEF i, n, t
  <2>2. /\ ~ AllCalm(<<i>>) /\ ~ AllCalm(<<Reminder, n>>) /\ ~ AllCalm(<<n>>)
        /\ ~ AllCalm(<<ct, Opened, t>>) /\ ~ AllCalm(<<Opened, t>>) /\ ~ AllCalm(<<t>>)
        /\ ~ AllCalm(<<e, Expiry>>) /\ ~ AllCalm(<<Expiry>>) /\ ~ AllCalm(<<NoSlots>>)
    BY <2>1, ShortCalm
  <2> QED
    BY <2>2 DEF Invites1, Reminds2, Reminds1, Tells3, Tells2, Tells1, Expires2, Expires1, Withheld,
           i, n, t, e, ct
<1>3. AllCalm(<< >>) /\ AllCalm(<<SlotsLetter>>) /\ AllCalm(<<Archive>>)
  <2>1. Calm(SlotsLetter) /\ Calm(Archive)
    BY CallsCalm DEF SlotsLetter
  <2> QED
    BY <2>1, ShortCalm
<1>4. \A t : \A offered : Looks(t, offered) => t \notin {Invites1, <<SlotsLetter>>, <<Archive>>, << >>, Withheld}
  <2>1. \A t : \A offered : Looks(t, offered) => Len(t) # 0 /\ Len(t) # 1
    BY DEF Looks
  <2> QED
    BY <2>1, ListsAre
<1>5. Reminds2 # Tells2
  <2>1. Reminder.letter = "invitation reminder" /\ Opened.letter = "slots opened"
    BY DEF Reminder, Opened, Send
  <2> QED
    BY <2>1, ListsAre
<1>6. Reminds1 # Tells1
  <2>1. Update(Noted).patches[1] = Noted /\ Update(Tell).patches[1] = Tell
    BY Tails DEF Update
  <2>2. Update(Noted) # Update(Tell)
    BY <2>1, DatedPatches
  <2> QED
    BY <2>2, ListsAre
<1>7. /\ << >> \notin {Invites1, Reminds2, Reminds1, Tells3, Tells2, Tells1}
      /\ Invites3 \notin {Invites1, Reminds1, Tells1} /\ Invites2 \notin {Invites1, Reminds1, Tells1}
      /\ Reminds2 \notin {Reminds1, Tells3, Tells1} /\ Reminds1 \notin {Tells3, Tells2}
      /\ Tells3 \notin {Tells2, Tells1} /\ Tells2 # Tells1
  <2>1. /\ Len(Invites3) = 3 /\ Len(Invites2) = 2 /\ Len(Invites1) = 1
        /\ Len(Reminds2) = 2 /\ Len(Reminds1) = 1
        /\ Len(Tells3) = 3 /\ Len(Tells2) = 2 /\ Len(Tells1) = 1 /\ Len(<< >>) = 0
    BY ListLengths
  <2> QED
    BY <2>1
<1>8. /\ Expires2 \notin {Reminds2, Reminds1, Tells3, Tells2, Tells1, Expires1}
      /\ Expires1 \notin {Reminds2, Reminds1, Tells3, Tells2, Tells1}
      /\ << >> \notin {Expires2, Expires1, Withheld}
  <2>1. /\ Len(Reminds2) = 2 /\ Len(Reminds1) = 1 /\ Len(Tells3) = 3 /\ Len(Tells2) = 2 /\ Len(Tells1) = 1
        /\ Len(Expires2) = 2 /\ Len(Expires1) = 1 /\ Len(Withheld) = 1 /\ Len(<< >>) = 0
    BY ListLengths
  <2>2. /\ Expires2[1].op = "update" /\ Reminds2[1].op = "send" /\ Tells2[1].op = "send"
        /\ Expires1[1].op = "send" /\ Reminds1[1].op = "update" /\ Tells1[1].op = "update"
    BY HeadsAre
  <2>3. Expires2 \notin {Reminds2, Tells2} /\ Expires1 \notin {Reminds1, Tells1}
    BY <2>2, Zenon
  <2>4. /\ Expires2 \notin {Reminds1, Tells3, Tells1, Expires1}
        /\ Expires1 \notin {Reminds2, Tells3, Tells2}
        /\ << >> \notin {Expires2, Expires1, Withheld}
    <3>1. Expires2 \notin {Reminds1, Tells3, Tells1, Expires1}
      BY <2>1
    <3>2. Expires1 \notin {Reminds2, Tells3, Tells2}
      BY <2>1
    <3>3. << >> # Expires2 /\ << >> # Expires1 /\ << >> # Withheld
      BY <2>1
    <3> QED
      BY <3>1, <3>2, <3>3
  <2> QED
    BY <2>3, <2>4
<1>9. Withheld \notin {Invites3, Invites2, Invites1, <<SlotsLetter>>, <<Archive>>}
  <2>1. Len(Invites3) = 3 /\ Len(Invites2) = 2 /\ Len(Withheld) = 1
    BY ListLengths
  <2>2. Withheld[1].op = "send" /\ Withheld[1].letter = "no slots" /\ Invites1[1].op = "update"
    BY HeadsAre
  <2>3. SlotsLetter.letter = "slots" /\ Archive.op = "archive"
    BY DEF SlotsLetter, Send, Archive
  <2>4. <<SlotsLetter>>[1] = SlotsLetter /\ <<Archive>>[1] = Archive
    BY Tails
  <2>5. Withheld # <<SlotsLetter>>
    BY <2>2, <2>3, <2>4, Zenon
  <2>6. Withheld # <<Archive>> /\ Withheld # Invites1
    BY <2>2, <2>3, <2>4, Zenon
  <2>7. Withheld # Invites3 /\ Withheld # Invites2
    BY <2>1
  <2> QED
    BY <2>5, <2>6, <2>7
<1> QED
  BY <1>2, <1>3, <1>4, <1>5, <1>6, <1>7, <1>8, <1>9

\* While one handler runs at a time, the others rest.
Alone(a) ==
    /\ Running(a) /\ RunsNow(a)
    /\ \A b \in Actors \ {a} : ~ Running(b) /\ ~ RunsNow(b)
    /\ scene' = scene /\ mishaps' = mishaps /\ news' = news
LEMMA CallsAlone ==
    ASSUME Base, OneAtATime, NEW a \in Actors, CallsWaitlist(a), run[a].todo # << >>
    PROVE  Alone(a)
<1>1. Calls(a) /\ news' = news
  BY CallsOfWaitlist
<1>2. Running(a) /\ RunsNow(a) /\ \A b \in Actors \ {a} : run'[b] = run[b]
  BY <1>1, OwnCall, CallStep DEF RunsNow, Running
<1>3. \A b \in Actors \ {a} : ~ Running(b)
  BY <1>2 DEF OneAtATime
<1>4. scene' = scene /\ mishaps' = mishaps
  BY <1>1
     DEF Calls, WriteUpdate, ArchiveBlocked, WriteBooking, OtherCalls, CheckPatch, Deliver, SendFails,
         SendIsBlocked, ReleaseWebSlot, CancelSlot, FreeSlot, RemindSlot, MarkSent, MoveLocation,
         RefuseCommand, ValidateUpdate, TakeSlot, ValidateBooking, RestoreWebSlot, Rest
<1> QED
  BY <1>1, <1>2, <1>3, <1>4 DEF Alone, Running, RunsNow

LEMMA AtomsAlone ==
    ASSUME NEW a \in Actors, Alone(a)
    PROVE  \A t, b : b \in {"worker", "dispatcher"} =>
              /\ OnList(b, t) <=> a = b /\ run[a].todo = t
              /\ OnNext(b, t) <=> a = b /\ run'[a].todo = t
BY DEF Alone, OnList, OnNext, Actors

LEMMA LiveAfter ==
    ASSUME NEW p, Undated(p), invitation' = InvitedAfter(p)
    PROVE  Live' => Live
BY DEF Undated, InvitedAfter, Live, Field

LEMMA LetterOfCall ==
    ASSUME Base, NEW a \in Actors, Calls(a), run[a].todo # << >>
    PROVE  chat' = chat \/ (Call(a).op = "send" /\ \E x : chat' = Append(chat, x) /\ x.letter = Call(a).letter)
<1>1. CASE Call(a).op # "send"
  BY <1>1, CallStep
<1>2. CASE Call(a).op = "send"
  <2> DEFINE x == [letter |-> Call(a).letter, by |-> a,
                   of |-> IF a = "dispatcher" THEN run[a].doing[1] ELSE Null]
  <2>1. SendStep(a)
    BY <1>2, CallStep
  <2>2. chat' = chat \/ chat' = Append(chat, x)
    BY <2>1, Zenon DEF SendStep
  <2>3. x.letter = Call(a).letter
    OBVIOUS
  <2> QED
    BY <1>2, <2>2, <2>3
<1> QED
  BY <1>1, <1>2

\* A call of the calm kind tells of no window, reminds of nothing and makes no
\* invitation live.
LEMMA SoftCall ==
    ASSUME Base, NEW a \in Actors, CallsWaitlist(a), run[a].todo # << >>, run[a].result = "ok", Soft(Call(a))
    PROVE  /\ RemindersTold' = RemindersTold /\ WindowsTold' = WindowsTold
           /\ OffersTold' \in Nat /\ OffersTold <= OffersTold'
           /\ newer' \in {newer, {}}
           /\ Live' => Live
<1>1. Calls(a) /\ RemindersTold \in Nat /\ OffersTold \in Nat /\ WindowsTold \in Nat
  BY CallsOfWaitlist, CountsAre
<1>2. chat' = chat \/ (Call(a).op = "send" /\ \E x : chat' = Append(chat, x) /\ x.letter = Call(a).letter)
  BY <1>1, LetterOfCall
<1>3. /\ RemindersTold' = RemindersTold /\ WindowsTold' = WindowsTold
      /\ OffersTold' \in Nat /\ OffersTold <= OffersTold'
  <2>1. CASE chat' = chat
    BY <1>1, <2>1, CountsStay
  <2>2. CASE Call(a).op = "send" /\ \E x : chat' = Append(chat, x) /\ x.letter = Call(a).letter
    <3>1. PICK x : chat' = Append(chat, x) /\ x.letter = Call(a).letter
      BY <2>2
    <3>2. x.letter # "invitation reminder" /\ x.letter # "slots opened"
      BY <2>2, <3>1 DEF Soft
    <3>3. /\ RemindersTold' = RemindersTold + (IF x.letter = "invitation reminder" THEN 1 ELSE 0)
          /\ OffersTold' = OffersTold + (IF x.letter \in Offers THEN 1 ELSE 0)
          /\ WindowsTold' = WindowsTold + (IF x.letter = "slots opened" THEN 1 ELSE 0)
      BY <3>1, CountsGrow
    <3>4. RemindersTold' = RemindersTold + 0 /\ WindowsTold' = WindowsTold + 0
      BY <3>2, <3>3
    <3>5. OffersTold' = OffersTold + 0 \/ OffersTold' = OffersTold + 1
      BY <3>3
    <3> QED
      BY <1>1, <3>4, <3>5
  <2> QED
    BY <1>2, <2>1, <2>2
<1>4. newer' \in {newer, {}} /\ (Live' => Live)
  <2>1. CASE Call(a).op = "update"
    <3>1. CASE Judges(a)
      BY <3>1 DEF Judges, Live
    <3>2. CASE Writes(a)
      <4>1. Undated(LastPatch(Call(a)))
        BY <2>1 DEF Soft, LastPatch
      <4>2. Live' => Live
        BY <3>2, <4>1, LiveAfter DEF Writes
      <4>3. newer' \in {newer, {}}
        BY <3>2 DEF Writes
      <4> QED
        BY <4>2, <4>3
    <3> QED
      BY <2>1, <3>1, <3>2, WaitUpdate
  <2>2. CASE Call(a).op # "update"
    <3>1. /\ newer' = newer
          /\ invitation' = invitation \/ invitation' = [invitation EXCEPT !.at = "none"]
      BY <2>2, WaitOthers
    <3>2. CASE invitation' = invitation
      BY <3>1, <3>2 DEF Live
    <3>3. CASE invitation' = [invitation EXCEPT !.at = "none"]
      <4>1. invitation'.at = "none" \/ invitation' = invitation
        BY <3>3
      <4> QED
        BY <3>1, <4>1 DEF Live
    <3> QED
      BY <3>1, <3>2, <3>3
  <2> QED
    BY <2>1, <2>2
<1> QED
  BY <1>3, <1>4

\* No letter of a reschedule is lost on its way.
SlotsLetterArrives == "delivery" \in scene.faults => ~ Rescheduling

LEMMA Amounts ==
    ASSUME Base, WaitlistTypeOK
    PROVE  /\ mishaps \in Nat /\ news \in Nat
           /\ RemindersTold \in Nat /\ OffersTold \in Nat /\ WindowsTold \in Nat
BY CountsAre, SceneFacts DEF Base, Tables, TypeOK, WaitlistTypeOK, ConstantsAssumption

LEMMA Pays ==
    ASSUME NEW r \in Nat, NEW o \in Nat, NEW m \in Nat, NEW p \in Nat, o <= p
    PROVE  /\ r <= o + m => r <= p + m
           /\ r < o + m => r < p + m
           /\ r <= o + m /\ o < p => r < p + m
OBVIOUS

\* Before a call of a list that is no reminder and no letter about windows.
LEMMA SoftKeeps ==
    ASSUME Base, WaitlistTypeOK, RemindersFit, WindowsFit, NEW a \in Actors, CallsWaitlist(a), Alone(a),
           run[a].todo # << >>, run[a].result = "ok", Soft(Call(a)),
           run[a].todo \notin {Reminds1, Tells1}
    PROVE  /\ RemindersTold' <= OffersTold' + mishaps' /\ (Live' => SpareNext \/ Offering)
           /\ Spare => SpareNext
           /\ WindowsTold' <= news' + mishaps' /\ (Fresh' => NewsLeftNext)
<1>1. /\ RemindersTold' = RemindersTold /\ WindowsTold' = WindowsTold
      /\ OffersTold' \in Nat /\ OffersTold <= OffersTold'
      /\ newer' \in {newer, {}}
      /\ Live' => Live
  BY SoftCall
<1>2. /\ mishaps \in Nat /\ news \in Nat /\ mishaps' = mishaps /\ news' = news
      /\ RemindersTold \in Nat /\ OffersTold \in Nat /\ WindowsTold \in Nat
  BY Amounts DEF Alone
<1>3. ~ Noting /\ ~ Dating
  BY AtomsAlone DEF Noting, Dating
<1>a. RemindersTold <= OffersTold + mishaps /\ WindowsTold <= news + mishaps
  BY DEF RemindersFit, WindowsFit
<1>b. RemindersTold' = RemindersTold /\ OffersTold <= OffersTold' /\ OffersTold' \in Nat /\ mishaps' = mishaps
  BY <1>1, <1>2
<1>4. RemindersTold < OffersTold + mishaps => RemindersTold' < OffersTold' + mishaps'
  BY <1>2, <1>b, Pays
<1>4a. Spare => SpareNext
  BY <1>4 DEF Spare, SpareNext
<1>5. RemindersTold' <= OffersTold' + mishaps' /\ WindowsTold' <= news' + mishaps'
  <2>1. RemindersTold' <= OffersTold' + mishaps'
    BY <1>2, <1>a, <1>b, Pays
  <2> QED
    BY <1>1, <1>2, <1>a, <2>1
<1>6. Live' => SpareNext \/ Offering
  BY <1>1, <1>3, <1>4a DEF RemindersFit
<1>7. Fresh' => Fresh
  BY <1>1 DEF Fresh
<1>8. Fresh' => NewsLeftNext
  <2>1. Fresh' => NewsLeft
    BY <1>3, <1>7 DEF WindowsFit
  <2> QED
    BY <1>1, <1>2, <2>1 DEF NewsLeft, NewsLeftNext
<1> QED
  BY <1>4a, <1>5, <1>6, <1>8

\* What is left after it neither reminds nor tells.
Harmless1(a, u) ==
    /\ a = "worker" => u \notin {Reminds2, Tells3, Tells2, Tells1}
    /\ a = "dispatcher" => u # Invites1
LEMMA HarmlessNext ==
    ASSUME NEW a \in Actors, Alone(a), Harmless1(a, run'[a].todo),
           RemindersTold' <= OffersTold' + mishaps', Live' => SpareNext \/ OfferingNext,
           WindowsTold' <= news' + mishaps', Fresh' => NewsLeftNext
    PROVE  RemindersNext /\ WindowsNext
<1>1. /\ ~ OnNext("dispatcher", Invites1) /\ ~ OnNext("worker", Reminds2)
      /\ ~ OnNext("worker", Tells3) /\ ~ OnNext("worker", Tells2) /\ ~ OnNext("worker", Tells1)
  BY AtomsAlone DEF Harmless1
<1>2. RemindersNext
  BY <1>1 DEF RemindersNext
<1>3. WindowsNext
  BY <1>1 DEF WindowsNext
<1> QED
  BY <1>2, <1>3

\* The letter of a reschedule, or the archive it leads to, is the last to be paid for.
LEMMA OfferMoves ==
    ASSUME Base, WaitlistTypeOK, SlotsLetterArrives, NEW a \in Actors, CallsWaitlist(a), Alone(a),
           run[a].todo # << >>, Offering
    PROVE  \/ \E x : chat' = Append(chat, x) /\ x.letter = "slots"
           \/ OfferingNext
           \/ invitation'.at = "none"
<1>1. a = "dispatcher" /\ run[a].todo \in {<<SlotsLetter>>, <<Archive>>}
  BY AtomsAlone DEF Offering
<1>2. Calls(a) /\ cand.status = "SCREENING" /\ Rescheduling
  BY CallsOfWaitlist DEF Offering
<1>3. CASE run[a].todo = <<SlotsLetter>>
  <2>1. Call(a) = SlotsLetter /\ Call(a).op = "send" /\ Call(a).letter = "slots" /\ Call(a).onBlocked = "archive"
    BY <1>3, ListsAre DEF Call, SlotsLetter, Send
  <2>2. cand' = cand
    BY <1>2, <2>1, SendCall
  <2>3. CASE Deliver(a)
    <3> DEFINE x == [letter |-> Call(a).letter, by |-> a,
                     of |-> IF a = "dispatcher" THEN run[a].doing[1] ELSE Null]
    <3>1. chat' = Append(chat, x) /\ x.letter = "slots"
      BY <2>1, <2>3 DEF Deliver
    <3> HIDE DEF x
    <3> QED
      BY <3>1
  <2>4. CASE SendFails(a)
    BY <1>2, <2>4 DEF SendFails, SlotsLetterArrives
  <2>5. CASE SendIsBlocked(a)
    <3> DEFINE u == <<Archive>>
    <3>1. run' = [run EXCEPT ![a].todo = u] /\ LocalsOK
      BY <2>1, <2>5 DEF SendIsBlocked, Base
    <3> HIDE DEF u
    <3>2. run'[a].todo = u
      BY <3>1, LeftCalls, Zenon
    <3>3. OnNext("dispatcher", u)
      BY <1>1, <3>2, AtomsAlone
    <3> QED
      BY <1>2, <2>2, <3>3 DEF OfferingNext, u
  <2> QED
    BY <1>2, <2>1, <2>3, <2>4, <2>5, ActionOf
<1>4. CASE run[a].todo = <<Archive>>
  <2>1. Call(a) = Archive /\ Call(a).op = "archive"
    BY <1>4, ListsAre DEF Call, Archive
  <2>2. ArchiveBlocked(a)
    BY <1>2, <2>1, ActionOf
  <2>3. cand' # cand
    <3> DEFINE p == [status |-> "BLOCKER", notificationSent |-> FALSE, isWaitlisted |-> FALSE,
                     interviewSlotId |-> Null, discoverySlotId |-> FALSE, trainingSlotId |-> FALSE]
    <3>1. cand' = Updated(cand, cand, p)
      BY <1>2, <2>2 DEF ArchiveBlocked
    <3>2. PatchTyped(p) /\ p["status"] = "BLOCKER" /\ "status" \in DOMAIN p
      BY DEF PatchTyped, Status
    <3>3. cand \in Snapshot
      BY DEF Base, Tables, TypeOK, Row
    <3> HIDE DEF p
    <3>4. cand'.status = "BLOCKER"
      BY <3>1, <3>2, <3>3, UpdatedRow DEF Field
    <3> QED
      BY <1>2, <3>4
  <2>4. invitation' = [invitation EXCEPT !.at = "none"]
    BY <2>1, <2>3, WaitOthers
  <2>5. "at" \in DOMAIN invitation
    BY DEF WaitlistTypeOK
  <2> QED
    BY <2>4, <2>5
<1> QED
  BY <1>1, <1>3, <1>4

LEMMA OfferGoes ==
    ASSUME Base, RemindersFit, SlotsLetterArrives, NEW a \in Actors, CallsWaitlist(a), Alone(a),
           WaitlistTypeOK, run[a].todo # << >>, Offering
    PROVE  Live' => SpareNext \/ OfferingNext
<1>1. CASE \E x : chat' = Append(chat, x) /\ x.letter = "slots"
  <2>1. PICK x : chat' = Append(chat, x) /\ x.letter = "slots"
    BY <1>1
  <2>2. /\ RemindersTold' = RemindersTold + (IF x.letter = "invitation reminder" THEN 1 ELSE 0)
        /\ OffersTold' = OffersTold + (IF x.letter \in Offers THEN 1 ELSE 0)
    BY <2>1, CountsGrow
  <2>3. RemindersTold' = RemindersTold + 0 /\ OffersTold' = OffersTold + 1
    BY <2>1, <2>2 DEF Offers
  <2>4. /\ mishaps \in Nat /\ mishaps' = mishaps /\ RemindersTold \in Nat /\ OffersTold \in Nat
        /\ RemindersTold <= OffersTold + mishaps
    BY Amounts DEF Alone, RemindersFit
  <2>5. SpareNext
    BY <2>3, <2>4 DEF SpareNext
  <2> QED
    BY <2>5
<1>2. CASE OfferingNext \/ invitation'.at = "none"
  BY <1>2 DEF Live
<1> QED
  BY <1>1, <1>2, OfferMoves

LEMMA CalmFits ==
    ASSUME Base, WaitlistTypeOK, RemindersFit, WindowsFit, SlotsLetterArrives, NEW a \in Actors,
           CallsWaitlist(a), Alone(a), run[a].todo # << >>, run[a].result = "ok", AllCalm(run[a].todo)
    PROVE  RemindersNext /\ WindowsNext /\ AllCalm(run'[a].todo)
<1>1. Calls(a) /\ IsList(run[a].todo)
  BY CallsOfWaitlist, CallStep
<1>2. Calm(Call(a)) /\ AllCalm(run'[a].todo)
  BY <1>1, TailCalm, CalmCalls DEF Call
<1>3. run[a].todo \notin {Reminds1, Tells1} /\ Harmless1(a, run'[a].todo)
  BY <1>2, ListsDiffer DEF Harmless1
<1>4. /\ RemindersTold' <= OffersTold' + mishaps' /\ (Live' => SpareNext \/ Offering)
      /\ WindowsTold' <= news' + mishaps' /\ (Fresh' => NewsLeftNext)
  BY <1>2, <1>3, SoftKeeps DEF Calm
<1>5. Offering => (Live' => SpareNext \/ OfferingNext)
  BY OfferGoes
<1>6. Live' => SpareNext \/ OfferingNext
  BY <1>4, <1>5
<1> QED
  BY <1>2, <1>3, <1>4, <1>6, HarmlessNext

\* An update of any kind sends nothing.
LEMMA UpdateKeeps ==
    ASSUME Base, WaitlistTypeOK, RemindersFit, WindowsFit, NEW a \in Actors, CallsWaitlist(a), Alone(a),
           run[a].todo # << >>, run[a].result = "ok", Call(a).op = "update"
    PROVE  /\ RemindersTold' <= OffersTold' + mishaps' /\ (Spare => SpareNext)
           /\ WindowsTold' <= news' + mishaps' /\ (NewsLeft => NewsLeftNext)
           /\ newer' \in {newer, {}}
<1>1. chat' = chat
  BY CallsOfWaitlist, CallStep
<1>2. RemindersTold' = RemindersTold /\ OffersTold' = OffersTold /\ WindowsTold' = WindowsTold
  BY <1>1, CountsStay
<1>3. mishaps' = mishaps /\ news' = news
  BY DEF Alone
<1>4. newer' \in {newer, {}}
  BY WaitUpdate DEF Judges, Writes
<1> QED
  BY <1>2, <1>3, <1>4 DEF RemindersFit, WindowsFit, Spare, SpareNext, NewsLeft, NewsLeftNext

LEMMA LooksFits ==
    ASSUME Base, WaitlistTypeOK, RemindersFit, WindowsFit, NEW a \in Actors, a = "dispatcher",
           CallsWaitlist(a), Alone(a), run[a].todo # << >>, run[a].result = "ok",
           NEW offered \in BOOLEAN, Looks(run[a].todo, offered), Rescheduling
    PROVE  RemindersNext /\ WindowsNext /\ Worded(a, run'[a].todo)
<1> DEFINE t == run[a].todo
           u == run'[a].todo
           y == WindowsLetter(offered)
<1>1. /\ u = << >> \/ Looks(u, offered) \/ (Len(t) = 2 /\ u = <<y>>)
      /\ Len(t) = 2 => Relooks(Call(a), offered) /\ Tail(t) = <<y>>
      /\ Len(t) # 2 => Call(a).op # "send" /\ Calm(Call(a))
  BY CallsOfWaitlist, LooksCalls
<1>2. AllCalm(u) \/ Looks(u, offered) \/ u = Withheld
  BY <1>1, ListsDiffer DEF WindowsLetter, Withheld
<1>3. Harmless1(a, u) /\ Worded(a, u)
  BY <1>2, ListsDiffer DEF Harmless1, Worded
<1>4. ~ Noting /\ ~ Offering /\ ~ Dating
  BY AtomsAlone, ListsDiffer DEF Noting, Offering, Dating
<1>5. (Live => Spare) /\ (Fresh => NewsLeft)
  BY <1>4 DEF RemindersFit, WindowsFit
<1>6. /\ RemindersTold' <= OffersTold' + mishaps' /\ (Live' => SpareNext \/ OfferingNext)
      /\ WindowsTold' <= news' + mishaps' /\ (Fresh' => NewsLeftNext)
  <2>1. CASE Len(t) # 2
    <3>1. t \notin {Reminds1, Tells1}
      <4>1. Len(t) # 1
        BY DEF Looks
      <4> QED
        BY <4>1, ListsAre
    <3> QED
      BY <1>1, <1>4, <2>1, <3>1, SoftKeeps DEF Calm
  <2>2. CASE Len(t) = 2 /\ ~ offered
    <3>1. Soft(Call(a))
      BY <1>1, <2>2, DatedPatches DEF Relooks, Soft, LastPatch
    <3>2. t \notin {Reminds1, Tells1}
      BY <2>2, ListLengths
    <3> QED
      BY <1>4, <3>1, <3>2, SoftKeeps
  <2>3. CASE Len(t) = 2 /\ offered
    <3>1. Call(a).op = "update" /\ LastPatch(Call(a)) = Looking(TRUE) /\ Tail(t) = <<SlotsLetter>>
      BY <1>1, <2>3 DEF Relooks, WindowsLetter
    <3>2. /\ RemindersTold' <= OffersTold' + mishaps' /\ (Spare => SpareNext)
          /\ WindowsTold' <= news' + mishaps' /\ (NewsLeft => NewsLeftNext)
          /\ newer' \in {newer, {}}
      BY <3>1, UpdateKeeps
    <3>3. Fresh' => NewsLeftNext
      BY <1>5, <3>2 DEF Fresh
    <3>4. CASE Judges(a)
      BY <1>5, <3>2, <3>3, <3>4 DEF Judges, Live
    <3>5. CASE Writes(a)
      <4>1. u = <<SlotsLetter>>
        BY <3>1, <3>5 DEF Writes, Onwards
      <4>2. cand'.status = "SCREENING"
        BY <3>1, <3>5, DatedPatches DEF Writes
      <4>3. OnNext("dispatcher", <<SlotsLetter>>)
        BY <4>1, AtomsAlone
      <4>4. OfferingNext
        BY <4>2, <4>3 DEF OfferingNext
      <4> QED
        BY <3>2, <3>3, <4>4
    <3> QED
      BY <3>1, <3>4, <3>5, WaitUpdate
  <2> QED
    BY <2>1, <2>2, <2>3
<1> QED
  BY <1>3, <1>6, HarmlessNext

LEMMA InvitesFit ==
    ASSUME Base, WaitlistTypeOK, RemindersFit, WindowsFit, NEW a \in Actors, a = "dispatcher",
           CallsWaitlist(a), Alone(a), run[a].todo # << >>, run[a].result = "ok",
           run[a].todo \in {Invites3, Invites2, Invites1}
    PROVE  /\ RemindersNext /\ WindowsNext
           /\ AllCalm(run'[a].todo) \/ run'[a].todo \in {Invites2, Invites1}
<1> DEFINE t == run[a].todo
           u == run'[a].todo
<1>0. Calls(a)
  BY CallsOfWaitlist
<1>1. ~ Noting /\ ~ Offering /\ ~ Dating
  <2>1. Len(Invites3) # 1 /\ Len(Invites2) # 1 /\ Len(<<SlotsLetter>>) = 1 /\ Len(<<Archive>>) = 1
    BY ListLengths
  <2>2. Invites1 # <<SlotsLetter>> /\ Invites1 # <<Archive>>
    <3>1. Update(Invited).op = "update" /\ SlotsLetter.op = "send" /\ Archive.op = "archive"
      BY DEF Update, SlotsLetter, Send, Archive
    <3> QED
      BY <3>1, ListsAre
  <2>3. t \notin {<<SlotsLetter>>, <<Archive>>}
    BY <2>1, <2>2
  <2> QED
    BY <2>3, AtomsAlone DEF Noting, Offering, Dating
<1>2. (Live => Spare) /\ (Fresh => NewsLeft)
  BY <1>1 DEF RemindersFit, WindowsFit
<1>3. CASE t = Invites3
  <2>1. Tail(t) = Invites2 /\ Call(a).op = "check" /\ Calm(Call(a))
    <3>1. Call(a) = Invites3[1] /\ Tail(t) = Tail(Invites3)
      BY <1>3 DEF Call
    <3>2. Tail(Invites3) = Invites2
      BY ListsAre
    <3> QED
      BY <3>1, <3>2, HeadsAre
  <2>2. u = Invites2 \/ u = << >>
    BY <1>0, <2>1, CallStep DEF Onwards, Stops
  <2>3. t \notin {Reminds1, Tells1} /\ Harmless1(a, u)
    BY <1>3, <2>2, ListsDiffer DEF Harmless1
  <2>4. /\ RemindersTold' <= OffersTold' + mishaps' /\ (Live' => SpareNext \/ Offering)
        /\ WindowsTold' <= news' + mishaps' /\ (Fresh' => NewsLeftNext)
    BY <2>1, <2>3, SoftKeeps DEF Calm
  <2> QED
    BY <1>1, <2>2, <2>3, <2>4, HarmlessNext, ListsDiffer
<1>4. CASE t = Invites2
  <2>1. /\ Tail(t) = Invites1 /\ Call(a).op = "send" /\ Call(a).letter = "invitation"
        /\ Call(a).onFailure = "throw" /\ Call(a).onBlocked = "bar" /\ Calm(Call(a))
    <3>1. Call(a) = Invites2[1] /\ Tail(t) = Tail(Invites2)
      BY <1>4 DEF Call
    <3>2. Tail(Invites2) = Invites1
      BY ListsAre
    <3> QED
      BY <3>1, <3>2, HeadsAre
  <2>2. t \notin {Reminds1, Tells1}
    BY <1>4, ListsDiffer
  <2>3. /\ RemindersTold' <= OffersTold' + mishaps' /\ (Live' => SpareNext \/ Offering)
        /\ WindowsTold' <= news' + mishaps' /\ (Fresh' => NewsLeftNext)
    BY <2>1, <2>2, SoftKeeps DEF Calm
  <2> DEFINE x == [letter |-> Call(a).letter, by |-> a,
                   of |-> IF a = "dispatcher" THEN run[a].doing[1] ELSE Null]
             v == <<Attempt(Bar), Refuse("failed")>>
  <2>4. (Onwards(a) /\ chat' = Append(chat, x)) \/ Stops(a) \/ Becomes(a, v)
    <3>1. SendStep(a)
      BY <1>0, <2>1, CallStep
    <3>2. "throw" # "bar" /\ "archive" # "bar" /\ "ignore" # "bar"
      OBVIOUS
    <3> QED
      BY <2>1, <3>1, <3>2, Zenon DEF SendStep
  <2>5. AllCalm(v) /\ AllCalm(<< >>)
    BY <1>0, <2>1, SendCall
  <2>6. x.letter = "invitation"
    BY <2>1
  <2> HIDE DEF x, v
  <2>7. CASE Onwards(a) /\ chat' = Append(chat, x)
    <3>1. u = Invites1
      BY <2>1, <2>7 DEF Onwards
    <3>2. /\ RemindersTold' = RemindersTold + (IF x.letter = "invitation reminder" THEN 1 ELSE 0)
          /\ OffersTold' = OffersTold + (IF x.letter \in Offers THEN 1 ELSE 0)
      BY <2>7, CountsGrow
    <3>3. RemindersTold' = RemindersTold + 0 /\ OffersTold' = OffersTold + 1
      BY <2>6, <3>2 DEF Offers
    <3>4. /\ mishaps \in Nat /\ mishaps' = mishaps /\ RemindersTold \in Nat /\ OffersTold \in Nat
          /\ RemindersTold <= OffersTold + mishaps
      BY Amounts DEF Alone, RemindersFit
    <3>5. SpareNext
      BY <3>3, <3>4 DEF SpareNext
    <3>6. /\ ~ OnNext("worker", Reminds2) /\ ~ OnNext("worker", Tells3) /\ ~ OnNext("worker", Tells2)
          /\ ~ OnNext("worker", Tells1)
      BY AtomsAlone
    <3>7. RemindersNext /\ WindowsNext
      BY <2>3, <3>5, <3>6 DEF RemindersNext, WindowsNext
    <3> QED
      BY <3>1, <3>7
  <2>8. CASE Stops(a) \/ Becomes(a, v)
    <3>1. AllCalm(u)
      BY <2>5, <2>8 DEF Stops, Becomes
    <3>2. Harmless1(a, u)
      BY <3>1, ListsDiffer DEF Harmless1
    <3> QED
      BY <1>1, <2>3, <3>1, <3>2, HarmlessNext
  <2> QED
    BY <2>4, <2>7, <2>8
<1>5. CASE t = Invites1
  <2>1. Tail(t) = << >> /\ Call(a).op = "update"
    <3>1. Call(a) = Invites1[1] /\ Tail(t) = Tail(Invites1)
      BY <1>5 DEF Call
    <3>2. Tail(Invites1) = << >>
      BY ListsAre
    <3> QED
      BY <3>1, <3>2, HeadsAre
  <2>2. /\ RemindersTold' <= OffersTold' + mishaps' /\ (Spare => SpareNext)
        /\ WindowsTold' <= news' + mishaps' /\ (NewsLeft => NewsLeftNext)
        /\ newer' \in {newer, {}}
    BY <2>1, UpdateKeeps
  <2>3. u = Invites1 \/ u = << >>
    BY <1>5, <2>1, WaitUpdate DEF Judges, Writes, Onwards, Stops, Becomes
  <2>4. Spare
    BY <1>5, AtomsAlone DEF RemindersFit, Inviting
  <2>5. /\ ~ OnNext("worker", Reminds2) /\ ~ OnNext("worker", Tells3) /\ ~ OnNext("worker", Tells2)
        /\ ~ OnNext("worker", Tells1)
    BY AtomsAlone
  <2>6. Fresh' => NewsLeftNext
    BY <1>2, <2>2 DEF Fresh
  <2>7. RemindersNext /\ WindowsNext
    BY <2>2, <2>4, <2>5, <2>6 DEF RemindersNext, WindowsNext
  <2> QED
    BY <2>3, <2>7, ListsDiffer
<1> QED
  BY <1>3, <1>4, <1>5

\* The note of a reminder names no column of the row: the guard lets it pass.
LEMMA NotedAdmitted ==
    ASSUME NEW c \in Snapshot
    PROVE  Admits(c, Noted)
<1> DEFINE n == Normalized(c, Noted)
           w == Written(c, n)
           j == Judged(c, n)
<1>1. DOMAIN Noted = {"interviewInviteReminderSentAt"}
  BY DatedPatches
<1>2. \A f \in DOMAIN n : f \in DOMAIN Noted \/ f \in {"currentStep", "isWaitlisted"}
  BY NormalizedOf
<1>3. "currentStep" \notin DOMAIN n /\ "isWaitlisted" \notin DOMAIN n
  <2>1. n = [f \in DOMAIN Noted \cup DOMAIN NoPatch \cup DOMAIN NoPatch |->
                Field(NoPatch, f, Field(NoPatch, f, Field(Noted, f, Null)))]
    <3>1. Field(Noted, "status", Null) = Null
      BY <1>1 DEF Field
    <3>2. Null # "WAITLIST_MENTOR" /\ Null # "ACCEPTED"
      BY ConstantsAssumption
         DEF ConstantsAssumption, Status, InterviewTrack, TrainingTrack, FirstShiftTrack
    <3> QED
      BY <3>1, <3>2 DEF Normalized
  <2>2. DOMAIN NoPatch = {}
    BY DEF NoPatch
  <2> QED
    BY <1>1, <2>1, <2>2
<1>4. DOMAIN c = Columns /\ c = [f \in Columns |-> c[f]]
  BY RowColumns DEF Snapshot, Columns
<1>5. \A f \in Columns : f \notin DOMAIN n
  BY <1>1, <1>2, <1>3 DEF Columns
<1> HIDE DEF n
<1>6. w = c
  <2>1. w = [f \in Columns |-> c[f]]
    BY <1>4, <1>5 DEF Written, Field
  <2> QED
    BY <1>4, <2>1
<1>7. j = [c EXCEPT !.hrDecision = IF c.hrDecision = Null THEN c.hrDecision ELSE c.hrDecision,
                    !.interviewCompletedAt = c.interviewCompletedAt \/ c.interviewCompletedAt]
  BY <1>6 DEF Judged
<1>8. j = c
  <2>1. c.interviewCompletedAt \in BOOLEAN
    BY DEF Snapshot
  <2>2. (c.interviewCompletedAt \/ c.interviewCompletedAt) = c.interviewCompletedAt
    BY <2>1
  <2>3. (IF c.hrDecision = Null THEN c.hrDecision ELSE c.hrDecision) = c.hrDecision
    OBVIOUS
  <2>4. j = [c EXCEPT !.hrDecision = c.hrDecision, !.interviewCompletedAt = c.interviewCompletedAt]
    BY <1>7, <2>2, <2>3
  <2> HIDE DEF j
  <2> QED
    BY <2>4 DEF Snapshot
<1> QED
  BY <1>1, <1>8 DEF Admits, Unchanged, Field, n

\* A letter that stops its handler when it fails.
LEMMA LetterGoes ==
    ASSUME Base, NEW a \in Actors, Calls(a), run[a].todo # << >>, Call(a).op = "send",
           Call(a).onFailure = "throw", Call(a).onBlocked = "archive"
    PROVE  /\ cand' = cand
           /\ \/ Onwards(a) /\ \E x : chat' = Append(chat, x) /\ x.letter = Call(a).letter
              \/ chat' = chat /\ AllCalm(run'[a].todo)
<1> DEFINE x == [letter |-> Call(a).letter, by |-> a,
                 of |-> IF a = "dispatcher" THEN run[a].doing[1] ELSE Null]
           v == <<Archive>>
<1>1. (Onwards(a) /\ chat' = Append(chat, x)) \/ (chat' = chat /\ (Stops(a) \/ Becomes(a, v)))
  <2>1. SendStep(a)
    BY CallStep
  <2>2. "throw" # "archive" /\ "bar" # "archive" /\ "ignore" # "archive"
    OBVIOUS
  <2> QED
    BY <2>1, <2>2, Zenon DEF SendStep
<1>2. x.letter = Call(a).letter
  OBVIOUS
<1>3. AllCalm(v) /\ AllCalm(<< >>) /\ cand' = cand
  BY SendCall
<1> HIDE DEF x, v
<1>4. CASE Onwards(a) /\ chat' = Append(chat, x)
  BY <1>2, <1>3, <1>4
<1>5. CASE chat' = chat /\ (Stops(a) \/ Becomes(a, v))
  BY <1>3, <1>5 DEF Stops, Becomes
<1> QED
  BY <1>1, <1>4, <1>5

LEMMA RemindsFit ==
    ASSUME Base, WaitlistTypeOK, RemindersFit, WindowsFit, NEW a \in Actors, a = "worker",
           CallsWaitlist(a), Alone(a), run[a].todo # << >>, run[a].result = "ok",
           run[a].todo \in {Reminds2, Reminds1}
    PROVE  /\ RemindersNext /\ WindowsNext
           /\ AllCalm(run'[a].todo) \/ run'[a].todo = Reminds1
<1> DEFINE t == run[a].todo
           u == run'[a].todo
<1>0. Calls(a)
  BY CallsOfWaitlist
<1>1. ~ Offering /\ ~ Dating
  <2>1. t # Tells1
    BY ListsDiffer
  <2> QED
    BY <2>1, AtomsAlone DEF Offering, Dating
<1>2. Fresh => NewsLeft
  BY <1>1 DEF WindowsFit
<1>3. CASE t = Reminds2
  <2>1. /\ Tail(t) = Reminds1 /\ Call(a).op = "send" /\ Call(a).letter = "invitation reminder"
        /\ Call(a).onFailure = "throw" /\ Call(a).onBlocked = "archive"
    <3>1. Call(a) = Reminds2[1] /\ Tail(t) = Tail(Reminds2)
      BY <1>3 DEF Call
    <3>2. Tail(Reminds2) = Reminds1
      BY ListsAre
    <3> QED
      BY <3>1, <3>2, HeadsAre
  <2>2. Live /\ Spare
    <3>1. Reminding /\ ~ Noting
      BY <1>3, AtomsAlone, ListsDiffer DEF Reminding, Noting
    <3> QED
      BY <1>1, <3>1 DEF RemindersFit
  <2>3. newer' = newer /\ invitation' = invitation
    <3>1. Call(a).op # "update" /\ Call(a).op # "archive"
      BY <2>1
    <3> QED
      BY <3>1, WaitOthers
  <2>4. /\ mishaps \in Nat /\ news \in Nat /\ mishaps' = mishaps /\ news' = news
        /\ RemindersTold \in Nat /\ OffersTold \in Nat /\ WindowsTold \in Nat
    BY Amounts DEF Alone
  <2>5. /\ RemindersTold < OffersTold + mishaps /\ WindowsTold <= news + mishaps
        /\ Fresh' => WindowsTold < news + mishaps
    BY <1>2, <2>2, <2>3 DEF Spare, WindowsFit, NewsLeft, Fresh
  <2>6. CASE Onwards(a) /\ \E x : chat' = Append(chat, x) /\ x.letter = Call(a).letter
    <3>1. PICK x : chat' = Append(chat, x) /\ x.letter = "invitation reminder"
      BY <2>1, <2>6
    <3>2. /\ RemindersTold' = RemindersTold + (IF x.letter = "invitation reminder" THEN 1 ELSE 0)
          /\ OffersTold' = OffersTold + (IF x.letter \in Offers THEN 1 ELSE 0)
          /\ WindowsTold' = WindowsTold + (IF x.letter = "slots opened" THEN 1 ELSE 0)
      BY <3>1, CountsGrow
    <3>3. /\ RemindersTold' = RemindersTold + 1 /\ OffersTold' = OffersTold + 0
          /\ WindowsTold' = WindowsTold + 0
      BY <3>1, <3>2 DEF Offers
    <3>4. /\ RemindersTold' <= OffersTold' + mishaps' /\ WindowsTold' <= news' + mishaps'
          /\ Fresh' => NewsLeftNext
      BY <2>4, <2>5, <3>3 DEF NewsLeftNext
    <3>5. u = Reminds1
      BY <2>1, <2>6 DEF Onwards
    <3>6. /\ OnNext("worker", Reminds1) /\ ~ OnNext("worker", Reminds2)
          /\ ~ OnNext("dispatcher", Invites1)
          /\ ~ OnNext("worker", Tells3) /\ ~ OnNext("worker", Tells2) /\ ~ OnNext("worker", Tells1)
      BY <3>5, AtomsAlone, ListsDiffer
    <3> QED
      BY <3>4, <3>5, <3>6 DEF RemindersNext, WindowsNext
  <2>7. CASE chat' = chat /\ AllCalm(u)
    <3>1. /\ RemindersTold' = RemindersTold /\ OffersTold' = OffersTold
          /\ WindowsTold' = WindowsTold
      BY <2>7, CountsStay
    <3>2. /\ RemindersTold' <= OffersTold' + mishaps' /\ SpareNext /\ WindowsTold' <= news' + mishaps'
          /\ Fresh' => NewsLeftNext
      BY <2>4, <2>5, <3>1 DEF NewsLeftNext, SpareNext
    <3>3. Harmless1(a, u)
      BY <2>7, ListsDiffer DEF Harmless1
    <3> QED
      BY <2>7, <3>2, <3>3, HarmlessNext
  <2> QED
    BY <1>0, <2>1, <2>6, <2>7, LetterGoes
<1>4. CASE t = Reminds1
  <2>1. /\ Tail(t) = << >> /\ Call(a).op = "update" /\ LastPatch(Call(a)) = Noted
        /\ Len(Call(a).patches) = 1 /\ Call(a).patches[1] = Noted
    <3>1. Call(a) = Reminds1[1] /\ Tail(t) = Tail(Reminds1)
      BY <1>4 DEF Call
    <3>2. Tail(Reminds1) = << >>
      BY ListsAre
    <3> QED
      BY <3>1, <3>2, HeadsAre
  <2>2. /\ RemindersTold' <= OffersTold' + mishaps' /\ (Spare => SpareNext)
        /\ WindowsTold' <= news' + mishaps' /\ (NewsLeft => NewsLeftNext)
        /\ newer' \in {newer, {}}
    BY <2>1, UpdateKeeps
  <2>3. Fresh' => NewsLeftNext
    BY <1>2, <2>2 DEF Fresh
  <2>4. CASE Judges(a)
    <3>1. Admits(cand, Noted)
      BY NotedAdmitted DEF Base, Tables, TypeOK, Row
    <3>2. u = Reminds1
      <4>1. Admits(cand, Call(a).patches[1])
        BY <2>1, <3>1, Zenon
      <4>1a. Len(Call(a).patches) # 2
        <5>1. Len(Call(a).patches) = 1
          BY <2>1, Zenon
        <5> QED
          BY <5>1
      <4>2. Becomes(a, run[a].todo)
        BY <2>4, <4>1, <4>1a, Zenon DEF Judges
      <4> QED
        BY <1>4, <4>2 DEF Becomes
    <3>3. /\ OnNext("worker", Reminds1) /\ ~ OnNext("worker", Reminds2)
          /\ ~ OnNext("dispatcher", Invites1)
          /\ ~ OnNext("worker", Tells3) /\ ~ OnNext("worker", Tells2) /\ ~ OnNext("worker", Tells1)
      BY <3>2, AtomsAlone, ListsDiffer
    <3> QED
      BY <2>2, <2>3, <3>2, <3>3 DEF RemindersNext, WindowsNext
  <2>5. CASE Writes(a)
    <3>1. u = << >>
      BY <2>1, <2>5 DEF Writes, Onwards
    <3>2. ~ Live'
      <4>1. invitation' = InvitedAfter(Noted)
        BY <2>1, <2>5 DEF Writes
      <4>2. InvitedAfter(Noted).reminded = TRUE
        BY DatedPatches DEF InvitedAfter, Field
      <4> QED
        BY <4>1, <4>2 DEF Live
    <3>3. AllCalm(u) /\ Harmless1(a, u)
      BY <3>1, ListsDiffer DEF Harmless1
    <3> QED
      BY <2>2, <2>3, <3>2, <3>3, HarmlessNext
  <2> QED
    BY <2>1, <2>4, <2>5, WaitUpdate
<1> QED
  BY <1>3, <1>4

LEMMA TellsFit ==
    ASSUME Base, WaitlistTypeOK, RemindersFit, WindowsFit, NEW a \in Actors, a = "worker",
           CallsWaitlist(a), Alone(a), run[a].todo # << >>, run[a].result = "ok",
           run[a].todo \in {Tells3, Tells2, Tells1}
    PROVE  /\ RemindersNext /\ WindowsNext
           /\ AllCalm(run'[a].todo) \/ run'[a].todo \in {Tells2, Tells1}
<1> DEFINE t == run[a].todo
           u == run'[a].todo
<1>0. Calls(a)
  BY CallsOfWaitlist
<1>1. ~ Offering /\ ~ Noting
  <2>1. t # Reminds1
    BY ListsDiffer
  <2> QED
    BY <2>1, AtomsAlone DEF Offering, Noting
<1>2. Live => Spare
  BY <1>1 DEF RemindersFit
<1>3. CASE t = Tells3
  <2>1. Tail(t) = Tells2 /\ Call(a).op = "check" /\ Call(a).patch = Tell /\ Calm(Call(a))
    <3>1. Call(a) = Tells3[1] /\ Tail(t) = Tail(Tells3)
      BY <1>3 DEF Call
    <3>2. Tail(Tells3) = Tells2
      BY ListsAre
    <3> QED
      BY <3>1, <3>2, HeadsAre
  <2>2. /\ RemindersTold' <= OffersTold' + mishaps' /\ (Live' => SpareNext \/ Offering)
        /\ WindowsTold' <= news' + mishaps' /\ (Fresh' => NewsLeftNext)
    <3>1. t \notin {Reminds1, Tells1}
      BY <1>3, ListsDiffer
    <3> QED
      BY <2>1, <3>1, SoftKeeps DEF Calm
  <2>3. cand' = cand /\ newer' = newer
    <3>1. Call(a).op # "update"
      BY <2>1
    <3> QED
      BY <1>0, <2>1, <3>1, CallStep, WaitOthers
  <2>4. IF Admits(cand, Tell) THEN Onwards(a) ELSE Stops(a)
    BY <1>0, <2>1, CallStep
  <2>5. CASE Admits(cand, Tell)
    <3>1. u = Tells2
      BY <2>1, <2>4, <2>5 DEF Onwards
    <3>2. /\ ~ OnNext("worker", Reminds2) /\ ~ OnNext("dispatcher", Invites1)
          /\ ~ OnNext("worker", Tells3) /\ ~ OnNext("worker", Tells1)
      BY <3>1, AtomsAlone, ListsDiffer
    <3>3. Fresh'
      <4>1. ToTell
        BY <1>3, AtomsAlone DEF ToTell
      <4> QED
        BY <2>3, <4>1 DEF WindowsFit, Fresh
    <3>4. Admits(cand', Tell)
      BY <2>3, <2>5
    <3>5. RemindersNext
      BY <1>1, <2>2, <3>2 DEF RemindersNext
    <3>6. WindowsNext
      BY <2>2, <3>2, <3>3, <3>4 DEF WindowsNext
    <3> QED
      BY <3>1, <3>5, <3>6
  <2>6. CASE ~ Admits(cand, Tell)
    <3>1. u = << >>
      BY <2>4, <2>6 DEF Stops
    <3>2. AllCalm(u) /\ Harmless1(a, u)
      BY <3>1, ListsDiffer DEF Harmless1
    <3> QED
      BY <1>1, <2>2, <3>2, HarmlessNext
  <2> QED
    BY <2>5, <2>6
<1>4. CASE t = Tells2
  <2>1. /\ Tail(t) = Tells1 /\ Call(a).op = "send" /\ Call(a).letter = "slots opened"
        /\ Call(a).onFailure = "throw" /\ Call(a).onBlocked = "archive"
    <3>1. Call(a) = Tells2[1] /\ Tail(t) = Tail(Tells2)
      BY <1>4 DEF Call
    <3>2. Tail(Tells2) = Tells1
      BY ListsAre
    <3> QED
      BY <3>1, <3>2, HeadsAre
  <2>2. Admits(cand, Tell) /\ NewsLeft
    <3>1. ToTell /\ Cleared /\ ~ Dating
      BY <1>4, AtomsAlone, ListsDiffer DEF ToTell, Cleared, Dating
    <3> QED
      BY <3>1 DEF WindowsFit
  <2>3. newer' = newer /\ invitation' = invitation
    <3>1. Call(a).op # "update" /\ Call(a).op # "archive"
      BY <2>1
    <3> QED
      BY <3>1, WaitOthers
  <2>4. /\ mishaps \in Nat /\ news \in Nat /\ mishaps' = mishaps /\ news' = news
        /\ RemindersTold \in Nat /\ OffersTold \in Nat /\ WindowsTold \in Nat
    BY Amounts DEF Alone
  <2>5. /\ RemindersTold <= OffersTold + mishaps /\ WindowsTold < news + mishaps
        /\ Live' => RemindersTold < OffersTold + mishaps
    BY <1>2, <2>2, <2>3 DEF Spare, RemindersFit, NewsLeft, Live
  <2>6. CASE Onwards(a) /\ \E x : chat' = Append(chat, x) /\ x.letter = Call(a).letter
    <3>1. PICK x : chat' = Append(chat, x) /\ x.letter = "slots opened"
      BY <2>1, <2>6
    <3>2. /\ RemindersTold' = RemindersTold + (IF x.letter = "invitation reminder" THEN 1 ELSE 0)
          /\ OffersTold' = OffersTold + (IF x.letter \in Offers THEN 1 ELSE 0)
          /\ WindowsTold' = WindowsTold + (IF x.letter = "slots opened" THEN 1 ELSE 0)
      BY <3>1, CountsGrow
    <3>3. /\ RemindersTold' = RemindersTold + 0 /\ OffersTold' = OffersTold + 0
          /\ WindowsTold' = WindowsTold + 1
      BY <3>1, <3>2 DEF Offers
    <3>4. /\ RemindersTold' <= OffersTold' + mishaps' /\ WindowsTold' <= news' + mishaps'
          /\ Live' => SpareNext
      BY <2>4, <2>5, <3>3 DEF SpareNext
    <3>5. u = Tells1
      BY <2>1, <2>6 DEF Onwards
    <3>6. /\ OnNext("worker", Tells1) /\ ~ OnNext("worker", Reminds2)
          /\ ~ OnNext("dispatcher", Invites1)
          /\ ~ OnNext("worker", Tells3) /\ ~ OnNext("worker", Tells2)
      BY <3>5, AtomsAlone, ListsDiffer
    <3>7. Admits(cand', Tell)
      BY <1>0, <2>1, <2>2, LetterGoes
    <3> QED
      BY <3>4, <3>5, <3>6, <3>7 DEF RemindersNext, WindowsNext
  <2>7. CASE chat' = chat /\ AllCalm(u)
    <3>1. /\ RemindersTold' = RemindersTold /\ OffersTold' = OffersTold
          /\ WindowsTold' = WindowsTold
      BY <2>7, CountsStay
    <3>2. /\ RemindersTold' <= OffersTold' + mishaps' /\ WindowsTold' <= news' + mishaps' /\ NewsLeftNext
          /\ Live' => SpareNext
      BY <2>4, <2>5, <3>1 DEF NewsLeftNext, SpareNext
    <3>3. Harmless1(a, u)
      BY <2>7, ListsDiffer DEF Harmless1
    <3> QED
      BY <2>7, <3>2, <3>3, HarmlessNext
  <2> QED
    BY <1>0, <2>1, <2>6, <2>7, LetterGoes
<1>5. CASE t = Tells1
  <2>1. /\ Tail(t) = << >> /\ Call(a).op = "update" /\ LastPatch(Call(a)) = Tell
        /\ Len(Call(a).patches) = 1 /\ Call(a).patches[1] = Tell
    <3>1. Call(a) = Tells1[1] /\ Tail(t) = Tail(Tells1)
      BY <1>5 DEF Call
    <3>2. Tail(Tells1) = << >>
      BY ListsAre
    <3> QED
      BY <3>1, <3>2, HeadsAre
  <2>2. /\ RemindersTold' <= OffersTold' + mishaps' /\ (Spare => SpareNext)
        /\ WindowsTold' <= news' + mishaps'
    BY <2>1, UpdateKeeps
  <2>3. Admits(cand, Tell)
    <3>1. Cleared
      BY <1>5, AtomsAlone DEF Cleared
    <3> QED
      BY <3>1 DEF WindowsFit
  <2>4. CASE Judges(a)
    <3>1. u = Tells1 /\ cand' = cand /\ (Live' => Live)
      <4>1. Admits(cand, Call(a).patches[1])
        BY <2>1, <2>3, Zenon
      <4>1a. Len(Call(a).patches) # 2
        <5>1. Len(Call(a).patches) = 1
          BY <2>1, Zenon
        <5> QED
          BY <5>1
      <4>2. Becomes(a, run[a].todo) /\ cand' = cand /\ invitation' = invitation
        BY <2>4, <4>1, <4>1a, Zenon DEF Judges
      <4> QED
        BY <1>5, <4>2 DEF Becomes, Live
    <3>2. /\ OnNext("worker", Tells1) /\ ~ OnNext("worker", Reminds2)
          /\ ~ OnNext("dispatcher", Invites1)
          /\ ~ OnNext("worker", Tells3) /\ ~ OnNext("worker", Tells2)
      BY <3>1, AtomsAlone, ListsDiffer
    <3> QED
      BY <1>2, <2>2, <2>3, <3>1, <3>2 DEF RemindersNext, WindowsNext
  <2>5. CASE Writes(a)
    <3>1. u = << >>
      BY <2>1, <2>5 DEF Writes, Onwards
    <3>2. ~ Live' /\ ~ Fresh'
      <4>1. invitation' = InvitedAfter(Tell) /\ newer' = {}
        BY <2>1, <2>5, DatedPatches DEF Writes
      <4>2. InvitedAfter(Tell).at = "none"
        BY DatedPatches DEF InvitedAfter, Field
      <4> QED
        BY <4>1, <4>2 DEF Live, Fresh
    <3>3. AllCalm(u) /\ Harmless1(a, u)
      BY <3>1, ListsDiffer DEF Harmless1
    <3> QED
      BY <2>2, <3>2, <3>3, HarmlessNext
  <2> QED
    BY <2>1, <2>4, <2>5, WaitUpdate
<1> QED
  BY <1>3, <1>4, <1>5

\* An expiry, and the letter that there is no window, remind of nothing.
LEMMA LastWordFits ==
    ASSUME Base, WaitlistTypeOK, RemindersFit, WindowsFit, NEW a \in Actors, CallsWaitlist(a), Alone(a),
           run[a].todo # << >>, run[a].result = "ok",
           \/ a = "worker" /\ run[a].todo \in {Expires2, Expires1}
           \/ a = "dispatcher" /\ run[a].todo = Withheld
    PROVE  RemindersNext /\ WindowsNext /\ Worded(a, run'[a].todo)
<1> DEFINE t == run[a].todo
           u == run'[a].todo
<1>0. Calls(a)
  BY CallsOfWaitlist
<1>1. Soft(Call(a)) /\ t \notin {Reminds1, Tells1}
  <2>1. Call(a) = t[1] /\ (t = Expires2 \/ t = Expires1 \/ t = Withheld)
    BY Zenon DEF Call
  <2>2. Soft(Expires2[1]) /\ Soft(Expires1[1]) /\ Soft(Withheld[1])
    BY HeadsAre, Zenon
  <2>3. \A l \in {Expires2, Expires1, Withheld} : l \notin {Reminds1, Tells1}
    <3>1. Withheld[1].op = "send" /\ Reminds1[1].op = "update" /\ Tells1[1].op = "update"
      BY HeadsAre, Zenon
    <3>2. Withheld # Reminds1 /\ Withheld # Tells1
      BY <3>1
    <3>3. Expires2 \notin {Reminds1, Tells1} /\ Expires1 \notin {Reminds1, Tells1}
      BY ListsDiffer, Zenon
    <3> QED
      BY <3>2, <3>3
  <2> HIDE DEF t
  <2> QED
    BY <2>1, <2>2, <2>3, Zenon
<1>2. ~ Offering
  BY AtomsAlone, ListsDiffer DEF Offering
<1>3. AllCalm(u) \/ (a = "worker" /\ u \in {Expires2, Expires1})
  <2>1. AllCalm(<< >>)
    BY ListsDiffer
  <2>2. CASE t = Expires2
    <3>1. Call(a).op = "update" /\ Tail(t) = Expires1
      BY <2>2, HeadsAre, ListsAre DEF Call
    <3>2. UpdateStep(a)
      BY <1>0, <3>1, CallStep
    <3>3. u = t \/ u = << >> \/ u = Tail(t)
      BY <3>2, Zenon DEF UpdateStep, Becomes, Stops, Onwards
    <3>4. a = "worker"
      BY <2>2, ListLengths
    <3> QED
      BY <2>1, <2>2, <3>1, <3>3, <3>4
  <2>3. CASE t \in {Expires1, Withheld}
    <3>1. Call(a).op = "send" /\ Tail(t) = << >>
      <4>1. Expires1[1].op = "send" /\ Withheld[1].op = "send"
        BY HeadsAre
      <4>2. Tail(Expires1) = << >> /\ Tail(Withheld) = << >>
        BY ListsAre
      <4>3. t = Expires1 \/ t = Withheld
        BY <2>3
      <4> HIDE DEF t
      <4>4. t[1].op = "send" /\ Tail(t) = << >>
        BY <4>1, <4>2, <4>3, Zenon
      <4> QED
        BY <4>4 DEF Call, t
    <3> QED
      BY <1>0, <2>1, <3>1, SendCall DEF Onwards, Stops, Becomes
  <2> QED
    BY <2>2, <2>3
<1>4. Harmless1(a, u) /\ Worded(a, u)
  BY <1>3, ListsDiffer DEF Harmless1, Worded
<1> QED
  BY <1>1, <1>2, <1>4, SoftKeeps, HarmlessNext

LEMMA CallsFit ==
    ASSUME Base, OneAtATime, TicksFit, SlotsLetterArrives, NEW a \in Actors, CallsWaitlist(a),
           run[a].todo # << >>
    PROVE  /\ RemindersNext /\ WindowsNext /\ Alone(a)
           /\ Worded(a, run'[a].todo) /\ (run'[a].todo # << >> => run'[a].result = "ok")
<1> DEFINE t == run[a].todo
           u == run'[a].todo
<1>1. Alone(a) /\ Calls(a) /\ WaitlistTypeOK /\ RemindersFit /\ WindowsFit
  BY CallsAlone, CallsOfWaitlist DEF TicksFit
<1>2. Worded(a, t) /\ run[a].result = "ok"
  <2>1. Running(a) /\ WordsFit
    BY <1>1 DEF Alone, TicksFit
  <2> QED
    BY <2>1 DEF WordsFit
<1>3. u # << >> => run'[a].result = "ok"
  <2>1. run'[a].result = run[a].result \/ u = << >>
    BY <1>1, ResultStays DEF Stops
  <2> QED
    BY <1>2, <2>1
<1>4. RemindersNext /\ WindowsNext /\ Worded(a, u)
  <2>1. CASE AllCalm(t)
    <3>1. RemindersNext /\ WindowsNext /\ AllCalm(u)
      BY <1>1, <1>2, <2>1, CalmFits
    <3> QED
      BY <3>1 DEF Worded
  <2>2. CASE a = "dispatcher" /\ Rescheduling /\ \E offered \in BOOLEAN : Looks(t, offered)
    BY <1>1, <1>2, <2>2, LooksFits
  <2>3. CASE a = "dispatcher" /\ t \in {Invites3, Invites2, Invites1}
    <3>1. RemindersNext /\ WindowsNext /\ (AllCalm(u) \/ u \in {Invites2, Invites1})
      BY <1>1, <1>2, <2>3, InvitesFit
    <3> QED
      BY <2>3, <3>1 DEF Worded
  <2>4. CASE a = "worker" /\ t \in {Reminds2, Reminds1}
    <3>1. RemindersNext /\ WindowsNext /\ (AllCalm(u) \/ u = Reminds1)
      BY <1>1, <1>2, <2>4, RemindsFit
    <3> QED
      BY <2>4, <3>1 DEF Worded
  <2>5. CASE a = "worker" /\ t \in {Tells3, Tells2, Tells1}
    <3>1. RemindersNext /\ WindowsNext /\ (AllCalm(u) \/ u \in {Tells2, Tells1})
      BY <1>1, <1>2, <2>5, TellsFit
    <3> QED
      BY <2>5, <3>1 DEF Worded
  <2>6. CASE \/ a = "worker" /\ t \in {Expires2, Expires1}
             \/ a = "dispatcher" /\ t = Withheld
    BY <1>1, <1>2, <2>6, LastWordFits
  <2> QED
    BY <1>2, <2>1, <2>2, <2>3, <2>4, <2>5, <2>6 DEF Worded
<1> QED
  BY <1>1, <1>3, <1>4

\* What an actor who goes on has left, once a step is over.
WordsNow(a) ==
    RunsNow(a) => Worded(a, run'[a].todo) /\ (run'[a].todo # << >> => run'[a].result = "ok")

\* A step that ends handlers at most.
Quietens ==
    \A a \in Actors :
        /\ RunsNow(a) => Running(a) /\ run'[a] = run[a]
        /\ Running(a) /\ run[a].todo # << >> => RunsNow(a)

LEMMA StillFits ==
    ASSUME Base, TicksFit, Quietens, scene' = scene, cand' = cand, chat' = chat, newer' = newer, news' = news,
           Live' = Live, mishaps' = mishaps \/ mishaps' = mishaps + 1
    PROVE  RemindersNext /\ WindowsNext /\ \A a \in Actors : WordsNow(a)
<1>1. WaitlistTypeOK /\ RemindersFit /\ WindowsFit /\ WordsFit
  BY DEF TicksFit
<1>2. \A a \in {"worker", "dispatcher"} : \A t : t # << >> => (OnNext(a, t) <=> OnList(a, t))
  <2>1. ASSUME NEW a \in Actors, NEW t, t # << >> PROVE OnNext(a, t) <=> OnList(a, t)
    BY <2>1 DEF Quietens, OnNext, OnList
  <2> QED
    BY <2>1 DEF Actors
<1>3. /\ << >> \notin {Invites1, Reminds2, Reminds1, Tells3, Tells2, Tells1}
      /\ <<SlotsLetter>> # << >> /\ <<Archive>> # << >>
  BY ListsDiffer, ListLengths
<1>4. /\ OnNext("dispatcher", Invites1) <=> Inviting
      /\ OnNext("worker", Reminds2) <=> Reminding
      /\ OnNext("worker", Reminds1) <=> Noting
      /\ OfferingNext <=> Offering
  <2>1. /\ OnNext("dispatcher", <<SlotsLetter>>) <=> OnList("dispatcher", <<SlotsLetter>>)
        /\ OnNext("dispatcher", <<Archive>>) <=> OnList("dispatcher", <<Archive>>)
    BY <1>2, <1>3
  <2> QED
    BY <1>2, <1>3, <2>1 DEF Inviting, Reminding, Noting, OfferingNext, Offering
<1>5. /\ OnNext("worker", Tells3) \/ OnNext("worker", Tells2) <=> ToTell
      /\ OnNext("worker", Tells1) <=> Dating
      /\ OnNext("worker", Tells2) \/ OnNext("worker", Tells1) <=> Cleared
  BY <1>2, <1>3 DEF ToTell, Dating, Cleared
<1>6. /\ RemindersTold' = RemindersTold /\ OffersTold' = OffersTold /\ WindowsTold' = WindowsTold
      /\ mishaps \in Nat /\ news \in Nat
      /\ RemindersTold \in Nat /\ OffersTold \in Nat /\ WindowsTold \in Nat
  BY <1>1, Amounts, CountsStay
<1>7. /\ RemindersTold' <= OffersTold' + mishaps' /\ (Spare => SpareNext)
      /\ WindowsTold' <= news' + mishaps' /\ (NewsLeft => NewsLeftNext)
  BY <1>1, <1>6 DEF RemindersFit, WindowsFit, Spare, SpareNext, NewsLeft, NewsLeftNext
<1>8. RemindersNext
  BY <1>1, <1>4, <1>7, Zenon DEF RemindersFit, RemindersNext
<1>9. Fresh' <=> Fresh
  BY DEF Fresh
<1>10. Admits(cand', Tell) <=> Admits(cand, Tell)
  BY Zenon
<1>11. WindowsNext
  BY <1>1, <1>5, <1>7, <1>9, <1>10, Zenon DEF WindowsFit, WindowsNext
<1>12. ASSUME NEW a \in Actors PROVE WordsNow(a)
  <2>1. RunsNow(a) => Running(a) /\ run'[a] = run[a]
    BY <1>12 DEF Quietens
  <2> QED
    BY <1>1, <1>12, <2>1 DEF WordsFit, WordsNow
<1> QED
  BY <1>8, <1>11, <1>12

\* A death pays for whatever it leaves undone.
LEMMA DeathFits ==
    ASSUME Base, TicksFit, \A a \in Actors : ~ RunsNow(a), scene' = scene, chat' = chat, news' = news,
           mishaps' = mishaps + 1
    PROVE  RemindersNext /\ WindowsNext /\ \A a \in Actors : WordsNow(a)
<1>1. WaitlistTypeOK /\ RemindersFit /\ WindowsFit
  BY DEF TicksFit
<1>2. /\ RemindersTold' = RemindersTold /\ OffersTold' = OffersTold /\ WindowsTold' = WindowsTold
      /\ mishaps \in Nat /\ news \in Nat
      /\ RemindersTold \in Nat /\ OffersTold \in Nat /\ WindowsTold \in Nat
  BY <1>1, Amounts, CountsStay
<1>3. /\ RemindersTold' <= OffersTold' + mishaps' /\ SpareNext
      /\ WindowsTold' <= news' + mishaps' /\ NewsLeftNext
  BY <1>1, <1>2 DEF RemindersFit, WindowsFit, SpareNext, NewsLeftNext
<1>4. \A a \in {"worker", "dispatcher"} : \A t : ~ OnNext(a, t)
  BY DEF OnNext, Actors
<1> QED
  BY <1>3, <1>4 DEF RemindersNext, WindowsNext, WordsNow

\* What a handler may begin with while the others rest.
Beginning(a, t) ==
    \/ AllCalm(t)
    \/ a = "dispatcher" /\ (t = Invites3 \/ (Rescheduling /\ \E offered \in BOOLEAN : Looks(t, offered)))
    \/ a = "worker" /\ t = Expires2
    \/ a = "worker" /\ t = Reminds2 /\ Live
    \/ a = "worker" /\ t = Tells3 /\ newer' # {}

LEMMA BeginFits ==
    ASSUME Base, TicksFit, Quiet, scene' = scene, chat' = chat, invitation' = invitation, mishaps' = mishaps,
           \/ newer' = newer /\ news' = news
           \/ news' \in Nat /\ news <= news' /\ (newer' # {} => newer # {} \/ news < news'),
           \A a \in Actors : RunsNow(a) => run'[a].result = "ok" /\ Beginning(a, run'[a].todo)
    PROVE  RemindersNext /\ WindowsNext /\ \A a \in Actors : WordsNow(a)
<1>1. WaitlistTypeOK /\ RemindersFit /\ WindowsFit
  BY DEF TicksFit
<1>2. \A a \in {"worker", "dispatcher"} : \A t : ~ OnList(a, t)
  BY DEF OnList, Quiet, Actors
<1>3. (Live => Spare) /\ (Fresh => NewsLeft)
  BY <1>1, <1>2 DEF RemindersFit, WindowsFit, Noting, Offering, Dating
<1>4. /\ RemindersTold' = RemindersTold /\ OffersTold' = OffersTold /\ WindowsTold' = WindowsTold
      /\ mishaps \in Nat /\ news \in Nat
      /\ RemindersTold \in Nat /\ OffersTold \in Nat /\ WindowsTold \in Nat
  BY <1>1, Amounts, CountsStay
<1>5. news' \in Nat /\ news <= news' /\ (newer' # {} => newer # {} \/ news < news')
  BY <1>4
<1>6. RemindersTold' <= OffersTold' + mishaps' /\ (Live' => SpareNext)
  BY <1>1, <1>3, <1>4 DEF RemindersFit, Spare, SpareNext, Live
<1>7. WindowsTold' <= news' + mishaps' /\ (Fresh' => NewsLeftNext)
  <2>1. WindowsTold <= news + mishaps
    BY <1>1 DEF WindowsFit
  <2>2. newer # {} => WindowsTold < news + mishaps
    BY <1>3 DEF Fresh, NewsLeft
  <2>3. WindowsTold <= news' + mishaps /\ (newer' # {} => WindowsTold < news' + mishaps)
    BY <1>4, <1>5, <2>1, <2>2, Pays
  <2>4. WindowsTold' = WindowsTold /\ mishaps' = mishaps
    BY <1>4
  <2> QED
    BY <2>3, <2>4 DEF Fresh, NewsLeftNext
<1>8. /\ ~ OnNext("dispatcher", Invites1)
      /\ ~ OnNext("worker", Reminds1) /\ ~ OnNext("worker", Tells2) /\ ~ OnNext("worker", Tells1)
      /\ OnNext("worker", Reminds2) => Live
      /\ OnNext("worker", Tells3) => newer' # {}
  <2>1. \A a \in {"worker", "dispatcher"} : \A t : OnNext(a, t) => Beginning(a, t)
    BY DEF OnNext, Actors
  <2>2. ~ Beginning("dispatcher", Invites1)
    BY ListsDiffer DEF Beginning
  <2>3. ~ Beginning("worker", Reminds1) /\ ~ Beginning("worker", Tells2) /\ ~ Beginning("worker", Tells1)
    BY ListsDiffer DEF Beginning
  <2>4. (Beginning("worker", Reminds2) => Live) /\ (Beginning("worker", Tells3) => newer' # {})
    BY ListsDiffer DEF Beginning
  <2> QED
    BY <2>1, <2>2, <2>3, <2>4
<1>9. Live' <=> Live
  BY DEF Live
<1>10. RemindersNext /\ WindowsNext
  BY <1>6, <1>7, <1>8, <1>9 DEF RemindersNext, WindowsNext, Fresh
<1>11. \A a \in Actors : WordsNow(a)
  BY DEF WordsNow, Worded, Beginning
<1> QED
  BY <1>10, <1>11

---------------------------------------------------------------------------
(* Every step keeps the account.                                           *)

\* All that a step owes.
TicksNext ==
    /\ scene' = scene /\ RemindersNext /\ WindowsNext
    /\ \A a \in Actors : WordsNow(a)
    /\ \A a, b \in Actors : RunsNow(a) /\ RunsNow(b) => a = b
    /\ \A k \in Commands : outbox'[k].status # "none" => outbox'[k].kind \in scene.kinds[k]

LEMMA TicksOwe ==
    ASSUME TicksNext
    PROVE  WordsFit' /\ RemindersFit' /\ WindowsFit' /\ OneAtATime'
<1>1. RemindersFit' /\ WindowsFit'
  BY FitsNext DEF TicksNext
<1>2. \A a : Running(a)' <=> RunsNow(a)
  BY DEF Running, RunsNow
<1>3. OneAtATime'
  BY <1>2 DEF TicksNext, OneAtATime
<1>4. Commands' = Commands /\ (Rescheduling' <=> Rescheduling)
  BY DEF TicksNext, Commands, Rescheduling
<1>5. ASSUME NEW a \in Actors, Running(a)'
      PROVE  Worded(a, run[a].todo)' /\ (run'[a].todo # << >> => run'[a].result = "ok")
  <2>1. Worded(a, run'[a].todo) /\ (run'[a].todo # << >> => run'[a].result = "ok")
    BY <1>2, <1>5 DEF TicksNext, WordsNow
  <2>2. Worded(a, run[a].todo)' <=> Worded(a, run'[a].todo)
    BY <1>4 DEF Worded
  <2> QED
    BY <2>1, <2>2
<1>6. \A k \in Commands' : outbox'[k].status # "none" => outbox'[k].kind \in scene'.kinds[k]
  BY <1>4 DEF TicksNext
<1>7. WordsFit'
  BY <1>5, <1>6 DEF WordsFit
<1> QED
  BY <1>1, <1>3, <1>7

LEMMA KindsStay ==
    ASSUME TicksFit, outbox' = outbox
    PROVE  \A k \in Commands : outbox'[k].status # "none" => outbox'[k].kind \in scene.kinds[k]
BY DEF TicksFit, WordsFit

LEMMA StillNext ==
    ASSUME Base, TicksFit, OneAtATime, Quietens, scene' = scene, cand' = cand, chat' = chat,
           newer' = newer, news' = news, Live' = Live, mishaps' = mishaps \/ mishaps' = mishaps + 1,
           \A k \in Commands : outbox'[k].status # "none" => outbox'[k].kind \in scene.kinds[k]
    PROVE  TicksNext
<1>1. RemindersNext /\ WindowsNext /\ \A a \in Actors : WordsNow(a)
  BY StillFits
<1>2. \A a, b \in Actors : RunsNow(a) /\ RunsNow(b) => a = b
  BY DEF Quietens, OneAtATime
<1> QED
  BY <1>1, <1>2 DEF TicksNext

LEMMA RunStays ==
    ASSUME run' = run
    PROVE  Quietens
BY DEF Quietens, Running, RunsNow

\* A handler that ends leaves the others alone.
LEMMA EndsQuietens ==
    ASSUME NEW d \in Actors, run[d].todo = << >>, run'[d] = Idle, \A b \in Actors \ {d} : run'[b] = run[b]
    PROVE  Quietens
<1>1. ~ RunsNow(d)
  BY DEF RunsNow, Idle
<1> QED
  BY <1>1 DEF Quietens, Running, RunsNow

LEMMA CommandsNext ==
    ASSUME Base, TicksFit, OneAtATime, UNCHANGED waitlist, Fetch \/ Ack \/ LoseAck \/ \E k \in Commands : Issue(k)
    PROVE  TicksNext
<1>0. newer' = newer /\ news' = news /\ Live' = Live /\ WordsFit
  BY DEF waitlist, Live, TicksFit
<1>1. CASE Fetch
  <2>1. UNCHANGED <<scene, cand, chat, run, outbox, mishaps>>
    BY <1>1 DEF Fetch
  <2> QED
    BY <1>0, <2>1, RunStays, KindsStay, StillNext
<1>2. CASE Ack \/ LoseAck
  <2> DEFINE k == run["dispatcher"].doing[1]
  <2>1. /\ run["dispatcher"].todo = << >> /\ k \in Commands /\ run'["dispatcher"] = Idle
        /\ run'["worker"] = run["worker"] /\ run'["candidate"] = run["candidate"]
        /\ UNCHANGED <<scene, cand, chat>>
        /\ mishaps' = mishaps \/ mishaps' = mishaps + 1
        /\ \A j \in Commands \ {k} : outbox'[j] = outbox[j]
        /\ outbox'[k].kind = outbox[k].kind
        /\ outbox'[k] = outbox[k] \/ outbox[k].status = "PENDING"
    BY <1>2, CommandEnds
  <2> HIDE DEF k
  <2>2. "dispatcher" \in Actors /\ \A b \in Actors \ {"dispatcher"} : run'[b] = run[b]
    BY <2>1 DEF Actors
  <2>3. Quietens
    BY <2>1, <2>2, EndsQuietens
  <2>4. \A j \in Commands : outbox[j].status # "none" => outbox[j].kind \in scene.kinds[j]
    BY <1>0 DEF WordsFit
  <2>5. ASSUME NEW j \in Commands, outbox'[j].status # "none"
        PROVE  outbox'[j].kind \in scene.kinds[j]
    <3>1. CASE j # k
      BY <2>1, <2>4, <2>5, <3>1
    <3>2. CASE j = k
      <4>1. outbox[k].status # "none"
        BY <2>1, <2>5, <3>2
      <4> QED
        BY <2>1, <2>4, <3>2, <4>1
    <3> QED
      BY <3>1, <3>2
  <2> QED
    BY <1>0, <2>1, <2>3, <2>5, StillNext
<1>3. CASE \E k \in Commands : Issue(k)
  <2>1. PICK k \in Commands : Issue(k)
    BY <1>3
  <2>2. /\ UNCHANGED <<scene, cand, chat, run, mishaps>>
        /\ outbox'[k].kind \in scene.kinds[k]
        /\ \A i \in Commands \ {k} : outbox'[i] = outbox[i]
    BY <2>1, CommandIssued
  <2>3. \A j \in Commands : outbox[j].status # "none" => outbox[j].kind \in scene.kinds[j]
    BY <1>0 DEF WordsFit
  <2>4. \A j \in Commands : outbox'[j].status # "none" => outbox'[j].kind \in scene.kinds[j]
    BY <2>2, <2>3
  <2> QED
    BY <1>0, <2>2, <2>4, RunStays, StillNext
<1> QED
  BY <1>1, <1>2, <1>3

LEMMA CallsNext ==
    ASSUME Base, TicksFit, OneAtATime, SlotsLetterArrives, NEW a \in Actors, CallsWaitlist(a)
    PROVE  TicksNext
<1>0. Calls(a) /\ outbox' = outbox /\ \A b \in Actors \ {a} : run'[b] = run[b]
  BY CallsOfWaitlist, OwnCall
<1>1. CASE run[a].todo # << >>
  <2>1. /\ RemindersNext /\ WindowsNext /\ Alone(a)
        /\ Worded(a, run'[a].todo) /\ (run'[a].todo # << >> => run'[a].result = "ok")
    BY <1>1, CallsFit
  <2>2. scene' = scene /\ \A b \in Actors \ {a} : ~ RunsNow(b)
    BY <2>1 DEF Alone
  <2>3. \A b \in Actors : WordsNow(b)
    BY <2>1, <2>2 DEF WordsNow
  <2>4. \A b, c \in Actors : RunsNow(b) /\ RunsNow(c) => b = c
    BY <2>2
  <2> QED
    BY <1>0, <2>1, <2>2, <2>3, <2>4, KindsStay DEF TicksNext
<1>2. CASE run[a].todo = << >>
  <2>1. Rest(a)
    BY <1>0, <1>2, NothingLeft
  <2>2. UNCHANGED waitlist
    BY <1>2 DEF CallsWaitlist, WriteRow, WriteUpdate, ArchiveRow, ArchiveBlocked, BookRow, WriteBooking, AtCall
  <2>3. newer' = newer /\ news' = news /\ Live' = Live
    BY <2>2 DEF waitlist, Live
  <2>4. UNCHANGED <<scene, cand, chat, mishaps>> /\ run' = [run EXCEPT ![a] = Idle]
    BY <2>1 DEF Rest, Resting
  <2>5. run'[a] = Idle
    <3>1. run = [b \in Actors |-> run[b]]
      BY DEF Base, LocalsOK
    <3> QED
      BY <2>4, <3>1
  <2>6. Quietens
    BY <1>0, <1>2, <2>5, EndsQuietens
  <2> QED
    BY <1>0, <2>3, <2>4, <2>6, KindsStay, StillNext
<1> QED
  BY <1>1, <1>2

\* A handler begins while the others rest.
LEMMA BegunIs ==
    ASSUME Base, ~ scene.overlap, OnlyRun, NEW a \in Actors, NEW d, NEW t, MayBegin(a), Begun(a, d, t)
    PROVE  /\ Quiet /\ UNCHANGED <<scene, cand, chat, outbox, mishaps>>
           /\ run'[a].todo = t /\ run'[a].result = "ok" /\ \A b \in Actors \ {a} : ~ RunsNow(b)
<1>1. Quiet
  BY DEF MayBegin, Quiet
<1>2. UNCHANGED <<scene, cand, chat, outbox, mishaps>>
  BY DEF OnlyRun
<1>3. run'[a].todo = t /\ run'[a].result = "ok" /\ \A b \in Actors \ {a} : run'[b] = run[b]
  <2>1. run = [b \in Actors |-> run[b]]
    BY DEF Base, LocalsOK
  <2> DEFINE r == [doing |-> d, todo |-> t, read |-> Null, result |-> "ok"]
  <2>2. r.todo = t /\ r.result = "ok"
    OBVIOUS
  <2>3. run' = [run EXCEPT ![a] = r]
    BY DEF Begun
  <2> HIDE DEF r
  <2> QED
    BY <2>1, <2>2, <2>3
<1>4. \A b \in Actors \ {a} : ~ RunsNow(b)
  BY <1>1, <1>3 DEF Quiet, Running, RunsNow
<1> QED
  BY <1>1, <1>2, <1>3, <1>4

LEMMA BegunNext ==
    ASSUME Base, TicksFit, ~ scene.overlap, OnlyRun, NEW a \in Actors, NEW d, NEW t, MayBegin(a), Begun(a, d, t),
           Beginning(a, t), invitation' = invitation,
           \/ newer' = newer /\ news' = news
           \/ news' \in Nat /\ news <= news' /\ (newer' # {} => newer # {} \/ news < news')
    PROVE  TicksNext
<1>1. /\ Quiet /\ UNCHANGED <<scene, cand, chat, outbox, mishaps>>
      /\ run'[a].todo = t /\ run'[a].result = "ok" /\ \A b \in Actors \ {a} : ~ RunsNow(b)
  BY BegunIs
<1>2. \A b \in Actors : RunsNow(b) => run'[b].result = "ok" /\ Beginning(b, run'[b].todo)
  BY <1>1
<1>3. RemindersNext /\ WindowsNext /\ \A b \in Actors : WordsNow(b)
  BY <1>1, <1>2, BeginFits
<1>4. \A b, c \in Actors : RunsNow(b) /\ RunsNow(c) => b = c
  BY <1>1
<1> QED
  BY <1>1, <1>3, <1>4, KindsStay DEF TicksNext

LEMMA WorksNext ==
    ASSUME Base, TicksFit, ~ scene.overlap, NEW t, Works(t), Beginning("worker", t), invitation' = invitation,
           \/ newer' = newer /\ news' = news
           \/ news' \in Nat /\ news <= news' /\ (newer' # {} => newer # {} \/ news < news')
    PROVE  TicksNext
<1>1. "worker" \in Actors /\ MayBegin("worker") /\ Begun("worker", "tick", t) /\ OnlyRun
  BY DEF Works, OnlyRun, Actors
<1> QED
  BY <1>1, BegunNext

LEMMA TapsNext ==
    ASSUME Base, TicksFit, ~ scene.overlap, NEW t, Taps(t), AllCalm(t), invitation' = invitation,
           newer' = newer, news' = news
    PROVE  TicksNext
<1>1. "candidate" \in Actors /\ MayBegin("candidate") /\ Begun("candidate", "tap", t) /\ OnlyRun
  BY DEF Taps, OnlyRun, Actors
<1> QED
  BY <1>1, BegunNext DEF Beginning

LEMMA DispatchBegins ==
    ASSUME Base, TicksFit, ~ scene.overlap, BeginWithWindows
    PROVE  /\ Quiet /\ UNCHANGED <<scene, cand, outbox, chat, mishaps>>
           /\ invitation' = invitation /\ newer' = newer /\ news' = news
           /\ \A b \in Actors \ {"dispatcher"} : ~ RunsNow(b)
           /\ run'["dispatcher"].result = "ok" /\ Beginning("dispatcher", run'["dispatcher"].todo)
<1> DEFINE k == batch[1][1]
<1>1. /\ Entry(batch[1]) /\ run'["dispatcher"].result = "ok"
      /\ run'["worker"] = run["worker"] /\ run'["candidate"] = run["candidate"]
      /\ \/ \E offered \in BOOLEAN : run'["dispatcher"].todo = Todo(k, batch[1][2], offered)
         \/ AsksFirst(k) /\ run'["dispatcher"].todo = <<Refuse("failed")>>
      /\ UNCHANGED <<scene, cand, outbox, chat, mishaps>>
      /\ Quiet
  BY CommandBegins DEF BeginWithWindows
<1> HIDE DEF k
<1>2. k \in Commands /\ outbox[k].status # "none"
  BY <1>1 DEF Entry, k
<1>3. outbox[k].kind \in scene.kinds[k] /\ outbox[k].kind \in KindNames
  BY <1>2 DEF TicksFit, WordsFit, Base, Tables, OutboxSound
<1>4. Beginning("dispatcher", run'["dispatcher"].todo)
  <2>1. CASE \E offered \in BOOLEAN : run'["dispatcher"].todo = Todo(k, batch[1][2], offered)
    <3>1. PICK offered \in BOOLEAN : run'["dispatcher"].todo = Todo(k, batch[1][2], offered)
      BY <2>1
    <3> DEFINE t == Todo(k, batch[1][2], offered)
    <3>2. TypeOK
      BY DEF Base, Tables
    <3>3. AllCalm(t) \/ t = Invites3 \/ (outbox[k].kind = "RESCHEDULE_INTERVIEW" /\ Looks(t, offered))
      BY <1>2, <1>3, <3>2, TodoWorded
    <3> HIDE DEF t
    <3>4. outbox[k].kind = "RESCHEDULE_INTERVIEW" => Rescheduling
      BY <1>2, <1>3 DEF Rescheduling
    <3>5. run'["dispatcher"].todo = t
      BY <3>1 DEF t
    <3> QED
      BY <3>3, <3>4, <3>5 DEF Beginning
  <2>2. CASE run'["dispatcher"].todo = <<Refuse("failed")>>
    <3> DEFINE x == Refuse("failed")
    <3>1. Calm(x)
      BY CallsCalm
    <3> HIDE DEF x
    <3>2. AllCalm(<<x>>)
      BY <3>1, ShortCalm
    <3> QED
      BY <2>2, <3>2 DEF Beginning, x
  <2> QED
    BY <1>1, <2>1, <2>2
<1>5. \A b \in Actors \ {"dispatcher"} : ~ RunsNow(b)
  BY <1>1 DEF Quiet, Running, RunsNow, Actors
<1>6. invitation' = invitation /\ newer' = newer /\ news' = news
  BY DEF BeginWithWindows, waitlist
<1> QED
  BY <1>1, <1>4, <1>5, <1>6

LEMMA DispatchNext ==
    ASSUME Base, TicksFit, ~ scene.overlap, BeginWithWindows
    PROVE  TicksNext
<1>1. /\ Quiet /\ UNCHANGED <<scene, cand, outbox, chat, mishaps>>
      /\ invitation' = invitation /\ newer' = newer /\ news' = news
      /\ \A b \in Actors \ {"dispatcher"} : ~ RunsNow(b)
      /\ run'["dispatcher"].result = "ok" /\ Beginning("dispatcher", run'["dispatcher"].todo)
  BY DispatchBegins
<1>2. \A b \in Actors : RunsNow(b) => run'[b].result = "ok" /\ Beginning(b, run'[b].todo)
  BY <1>1
<1>3. RemindersNext /\ WindowsNext /\ \A b \in Actors : WordsNow(b)
  BY <1>1, <1>2, BeginFits
<1>4. \A b, c \in Actors : RunsNow(b) /\ RunsNow(c) => b = c
  BY <1>1
<1> QED
  BY <1>1, <1>3, <1>4, KindsStay DEF TicksNext

LEMMA PassesNext ==
    ASSUME Base, TicksFit, OneAtATime, ~ scene.overlap, InvitationPasses
    PROVE  TicksNext
<1>1. CASE ExpireInvitation
  <2>1. Works(Expires2) /\ invitation' = invitation /\ newer' = newer /\ news' = news
    BY <1>1 DEF ExpireInvitation, waitlist, Expires2, Expiry
  <2>2. Beginning("worker", Expires2)
    BY DEF Beginning
  <2> QED
    BY <2>1, <2>2, WorksNext
<1>2. CASE RemindInvitation
  <2>1. Works(Reminds2) /\ invitation' = invitation /\ newer' = newer /\ news' = news /\ Live
    BY <1>2 DEF RemindInvitation, waitlist, Reminds2, Reminder, Noted, Pending24, Live
  <2>2. Beginning("worker", Reminds2)
    BY <2>1 DEF Beginning
  <2> QED
    BY <2>1, <2>2, WorksNext
<1>3. CASE TellOfWindows
  <2> DEFINE seen == Available
             fresh == seen \ firstSeen
  <2>1. /\ newer' = (newer \cap seen) \cup fresh /\ news' = news + Cardinality(fresh)
        /\ invitation' = invitation
    BY <1>3 DEF TellOfWindows, NewForHer
  <2>2. fresh \subseteq Slots /\ IsFiniteSet(fresh)
    <3>1. fresh \subseteq Slots
      BY DEF Available, TicksFit, WaitlistTypeOK
    <3>2. IsFiniteSet(Slots)
      BY BoundsAssumption DEF BoundsAssumption
    <3> QED
      BY <3>1, <3>2, FS_Subset
  <2>3. Cardinality(fresh) \in Nat /\ (fresh # {} => Cardinality(fresh) # 0)
    BY <2>2, FS_CardinalityType, FS_EmptySet
  <2>4. news \in Nat
    BY DEF TicksFit, WaitlistTypeOK
  <2>5. news' \in Nat /\ news <= news' /\ (fresh # {} => news < news')
    BY <2>1, <2>3, <2>4
  <2>6. newer' # {} => newer # {} \/ news < news'
    BY <2>1, <2>5
  <2>7. CASE Works(<<Check(TellPatch(cand)), Send("slots opened", "archive", "throw"), Update(TellPatch(cand))>>)
                /\ HasNews(seen)
    <3>1. TellPatch(cand) = Tell
      BY DatedPatches
    <3>2. Works(Tells3)
      BY <2>7, <3>1 DEF Tells3, Opened
    <3>3. newer' # {}
      BY <2>1, <2>7 DEF HasNews, NewForHer
    <3> QED
      BY <2>1, <2>5, <2>6, <3>2, <3>3, WorksNext DEF Beginning
  <2>8. CASE UNCHANGED <<scene, state>>
    <3>1. Quiet
      BY <1>3 DEF TellOfWindows, MayBegin, Quiet
    <3>2. UNCHANGED <<scene, cand, chat, outbox, mishaps, run>>
      BY <2>8 DEF state
    <3>3. \A b \in Actors : ~ RunsNow(b)
      BY <3>1, <3>2 DEF Quiet, Running, RunsNow
    <3>4. RemindersNext /\ WindowsNext /\ \A b \in Actors : WordsNow(b)
      BY <2>1, <2>5, <2>6, <3>1, <3>2, <3>3, BeginFits
    <3> QED
      BY <3>2, <3>3, <3>4, KindsStay DEF TicksNext
  <2> QED
    BY <1>3, <2>7, <2>8, Zenon DEF TellOfWindows
<1> QED
  BY <1>1, <1>2, <1>3 DEF InvitationPasses

LEMMA TapsAreNext ==
    ASSUME Base, TicksFit, ~ scene.overlap, HerTaps
    PROVE  TicksNext
<1>1. invitation' = invitation /\ newer' = newer /\ news' = news
  BY DEF HerTaps, TapWindow, TapNoSlotsFit, TapDecline, TapWithdraw, Presses
<1>2. cand.interviewSlotId \in Slots \cup {Null}
  BY DEF Base, Tables, TypeOK, Row, Snapshot
<1>3. \E t : AllCalm(t) /\ Taps(t)
  <2>1. CASE Tap
    BY <2>1, TapCalm
  <2>2. CASE \E t : HerCalls(t) /\ Taps(t)
    BY <2>2, HerCallsCalm
  <2> QED
    BY <1>2, <2>1, <2>2, TapLists
<1> QED
  BY <1>1, <1>3, TapsNext

\* The columns of an invitation keep their types.
LEMMA WordedBools ==
    ASSUME NEW a, NEW t, IsList(t), t # << >>, Worded(a, t), t[1].op = "update"
    PROVE  Bools(LastPatch(t[1]))
<1>1. CASE AllCalm(t)
  <2>1. Undated(LastPatch(t[1]))
    BY <1>1, TailCalm DEF Calm, Soft, LastPatch
  <2> QED
    BY <2>1 DEF Undated
<1>2. /\ Bools(Invited) /\ Bools(Noted) /\ Bools(Tell) /\ Bools(Expired)
      /\ \A offered \in BOOLEAN : Bools(Looking(offered))
  BY DatedPatches, MixedPatches DEF Undated
<1>3. CASE t \in {Invites3, Invites2, Invites1}
  <2>1. Invites3[1].op # "update" /\ Invites2[1].op # "update" /\ LastPatch(Invites1[1]) = Invited
    BY HeadsAre
  <2> QED
    BY <1>2, <1>3, <2>1
<1>4. CASE t \in {Reminds2, Reminds1, Tells3, Tells2, Tells1, Expires2, Expires1, Withheld}
  <2>1. /\ Reminds2[1].op # "update" /\ Tells3[1].op # "update" /\ Tells2[1].op # "update"
        /\ Expires1[1].op # "update" /\ Withheld[1].op # "update" /\ LastPatch(Expires2[1]) = Expired
        /\ LastPatch(Reminds1[1]) = Noted /\ LastPatch(Tells1[1]) = Tell
    BY HeadsAre
  <2> QED
    BY <1>2, <1>4, <2>1
<1>5. ASSUME NEW offered \in BOOLEAN, Looks(t, offered) PROVE Bools(LastPatch(t[1]))
  <2>1. /\ Len(t) \in Nat \ {0, 1} /\ Relooks(t[Len(t) - 1], offered)
        /\ \A i \in 1 .. Len(t) - 2 : Calm(t[i])
    BY <1>5 DEF Looks
  <2>2. CASE Len(t) = 2
    <3>1. Relooks(t[1], offered)
      BY <2>1, <2>2
    <3> QED
      BY <1>2, <3>1 DEF Relooks
  <2>3. CASE Len(t) # 2
    <3>1. Calm(t[1])
      <4>1. 1 \in 1 .. Len(t) - 2
        <5>1. Len(t) \in Nat \ {0, 1} /\ Len(t) # 2
          BY <2>1, <2>3, Zenon
        <5> DEFINE n == Len(t)
        <5> HIDE DEF n
        <5>2. n \in Nat \ {0, 1} /\ n # 2
          BY <5>1 DEF n
        <5>3. 1 \in 1 .. n - 2
          BY <5>2
        <5> QED
          BY <5>3 DEF n
      <4> QED
        BY <2>1, <4>1
    <3>2. Undated(LastPatch(t[1]))
      BY <3>1 DEF Calm, Soft, LastPatch
    <3> QED
      BY <3>2 DEF Undated
  <2> QED
    BY <2>2, <2>3
<1> QED
  BY <1>1, <1>3, <1>4, <1>5 DEF Worded

LEMMA WaitlistTyped ==
    ASSUME Base, TicksFit, [NextWaitlist]_allVars
    PROVE  WaitlistTypeOK'
<1>1. WaitlistTypeOK /\ WordsFit
  BY DEF TicksFit
<1>2. CASE UNCHANGED waitlist
  BY <1>1, <1>2 DEF WaitlistTypeOK, waitlist
<1>3. ASSUME NEW a \in Actors, CallsWaitlist(a) PROVE WaitlistTypeOK'
  <2>1. Calls(a) /\ UNCHANGED <<open, firstSeen, news, taps, changes>>
    BY <1>3, CallsOfWaitlist
  <2>2. CASE run[a].todo = << >>
    <3>1. UNCHANGED waitlist
      BY <1>3, <2>2
         DEF CallsWaitlist, WriteRow, WriteUpdate, ArchiveRow, ArchiveBlocked, BookRow, WriteBooking, AtCall
    <3> QED
      BY <1>2, <3>1
  <2>3. CASE run[a].todo # << >>
    <3>1. Running(a) /\ IsList(run[a].todo)
      BY <1>3, <2>1, <2>3, CallStep
    <3>2. Worded(a, run[a].todo) /\ run[a].result = "ok"
      BY <1>1, <1>3, <2>3, <3>1 DEF WordsFit
    <3>3. invitation' \in [at : AtAges, reminded : BOOLEAN] /\ waitReason' \in BOOLEAN /\ newer' \in {newer, {}}
      <4>1. CASE Call(a).op # "update"
        <5>1. /\ newer' = newer /\ waitReason' \in {waitReason, FALSE}
              /\ invitation' = invitation \/ invitation' = [invitation EXCEPT !.at = "none"]
          BY <1>3, <2>3, <3>2, <4>1, WaitOthers
        <5> QED
          BY <1>1, <5>1 DEF WaitlistTypeOK, AtAges
      <4>2. CASE Call(a).op = "update"
        <5>1. Judges(a) \/ Writes(a)
          BY <1>3, <2>3, <3>2, <4>2, WaitUpdate
        <5>2. CASE Judges(a)
          BY <1>1, <5>2 DEF Judges, WaitlistTypeOK
        <5>3. CASE Writes(a)
          <6> DEFINE p == LastPatch(Call(a))
          <6>1. Bools(p)
            BY <2>3, <3>1, <3>2, <4>2, WordedBools DEF Call
          <6>2. /\ invitation' = InvitedAfter(p) /\ waitReason' = Field(p, "interviewWaitlistReason", waitReason)
                /\ newer' \in {newer, {}}
            BY <5>3 DEF Writes
          <6> HIDE DEF p
          <6>3. invitation \in [at : AtAges, reminded : BOOLEAN] /\ waitReason \in BOOLEAN
            BY <1>1 DEF WaitlistTypeOK
          <6>4. /\ Field(p, "interviewInviteReminderSentAt", invitation.reminded) \in BOOLEAN
                /\ Field(p, "interviewWaitlistReason", waitReason) \in BOOLEAN
            BY <6>1, <6>3 DEF Bools, Dates, Field
          <6>5. InvitedAfter(p).at \in AtAges
            BY <6>3 DEF InvitedAfter, AtAges
          <6> QED
            BY <6>2, <6>4, <6>5 DEF InvitedAfter
        <5> QED
          BY <5>1, <5>2, <5>3
      <4> QED
        BY <4>1, <4>2
    <3> QED
      BY <1>1, <2>1, <3>3 DEF WaitlistTypeOK
  <2> QED
    BY <2>2, <2>3
<1>4. CASE AsBefore /\ UNCHANGED waitlist
  BY <1>2, <1>4
<1>5. CASE BeginWithWindows
  BY <1>2, <1>5 DEF BeginWithWindows
<1>6. CASE \E a \in Actors : WriteRow(a) \/ ArchiveRow(a) \/ BookRow(a)
  BY <1>3, <1>6 DEF CallsWaitlist
<1>7. CASE InvitationPasses
  <2>1. CASE ExpireInvitation \/ RemindInvitation
    BY <1>2, <2>1 DEF ExpireInvitation, RemindInvitation
  <2>2. CASE TellOfWindows
    <3> DEFINE seen == Available
    <3>1. /\ firstSeen' = seen /\ newer' = (newer \cap seen) \cup (seen \ firstSeen)
          /\ news' = news + Cardinality(seen \ firstSeen)
          /\ UNCHANGED <<invitation, waitReason, open, taps, changes>>
      BY <2>2 DEF TellOfWindows, NewForHer
    <3>2. seen \subseteq Slots
      BY <1>1 DEF Available, WaitlistTypeOK
    <3>3. Cardinality(seen \ firstSeen) \in Nat
      <4>1. IsFiniteSet(Slots) /\ seen \ firstSeen \subseteq Slots
        BY <3>2, BoundsAssumption DEF BoundsAssumption
      <4> QED
        BY <4>1, FS_Subset, FS_CardinalityType
    <3>4. news' \in Nat
      BY <1>1, <3>1, <3>3 DEF WaitlistTypeOK
    <3> HIDE DEF seen
    <3> QED
      BY <1>1, <3>1, <3>2, <3>4 DEF WaitlistTypeOK
  <2> QED
    BY <1>7, <2>1, <2>2 DEF InvitationPasses
<1>8. CASE HerTaps
  <2>1. Presses
    BY <1>8 DEF HerTaps, TapWindow, TapNoSlotsFit, TapDecline, TapWithdraw
  <2>2. MaxTaps \in Nat
    BY BoundsAssumption DEF BoundsAssumption
  <2> QED
    BY <1>1, <2>1, <2>2 DEF Presses, WaitlistTypeOK
<1>9. CASE \E s \in Slots : OpenWindow(s) \/ LoseWindow(s)
  <2>1. PICK windows \in SUBSET Slots : ChangesWindows(windows)
    BY <1>1, <1>9 DEF OpenWindow, LoseWindow, WaitlistTypeOK
  <2>2. MaxChanges \in Nat
    BY BoundsAssumption DEF BoundsAssumption
  <2> QED
    BY <1>1, <2>1, <2>2 DEF ChangesWindows, WaitlistTypeOK
<1>10. CASE InvitationAges
  BY <1>1, <1>10 DEF InvitationAges, WaitlistTypeOK, AtAges
<1>11. CASE UNCHANGED allVars
  BY <1>2, <1>11 DEF allVars, waitlist
<1> QED
  BY <1>4, <1>5, <1>6, <1>7, <1>8, <1>9, <1>10, <1>11 DEF NextWaitlist

LEMMA TicksStep ==
    ASSUME Base, TicksFit, OneAtATime, ~ scene.overlap, SlotsLetterArrives, [NextWaitlist]_allVars
    PROVE  TicksFit' /\ OneAtATime' /\ scene' = scene
<1>1. CASE UNCHANGED <<scene, state>> /\ newer' = newer /\ news' = news /\ Live' = Live
  <2>1. UNCHANGED <<scene, cand, chat, outbox, mishaps, run>>
    BY <1>1 DEF state
  <2> QED
    BY <1>1, <2>1, RunStays, KindsStay, StillNext, TicksOwe, WaitlistTyped DEF TicksNext, TicksFit
<1>2. ASSUME TicksNext PROVE TicksFit' /\ OneAtATime' /\ scene' = scene
  BY <1>2, TicksOwe, WaitlistTyped DEF TicksNext, TicksFit
<1>3. CASE AsBefore /\ UNCHANGED waitlist
  <2>0. invitation' = invitation /\ newer' = newer /\ news' = news /\ Live' = Live
    BY <1>3 DEF waitlist, Live
  <2>1. CASE Fetch \/ Ack \/ LoseAck \/ \E k \in Commands : Issue(k)
    BY <1>2, <1>3, <2>1, CommandsNext
  <2>2. CASE Work
    <3>1. PICK t : AllCalm(t) /\ Works(t)
      BY <2>2, WorkCalm
    <3>2. TicksNext
      BY <2>0, <3>1, WorksNext DEF Beginning
    <3> QED
      BY <1>2, <3>2
  <2>3. CASE Crash
    <3>1. UNCHANGED <<scene, cand, chat, outbox>> /\ mishaps' = mishaps + 1 /\ \A a \in Actors : ~ RunsNow(a)
      BY <2>3 DEF Crash, RunsNow, Idle
    <3>2. RemindersNext /\ WindowsNext /\ \A a \in Actors : WordsNow(a)
      BY <2>0, <3>1, DeathFits
    <3>3. TicksNext
      BY <3>1, <3>2, KindsStay DEF TicksNext
    <3> QED
      BY <1>2, <3>3
  <2>4. CASE \E a \in Actors : OtherCalls(a)
    <3>1. TicksNext
      BY <1>3, <2>4, CallsNext DEF CallsWaitlist
    <3> QED
      BY <1>2, <3>1
  <2>5. CASE \E s \in Slots : Pass(s)
    <3>1. UNCHANGED <<scene, cand, chat, outbox, mishaps, run>>
      BY <2>5 DEF Pass
    <3>2. TicksNext
      BY <2>0, <3>1, RunStays, KindsStay, StillNext
    <3> QED
      BY <1>2, <3>2
  <2> QED
    BY <1>3, <2>1, <2>2, <2>3, <2>4, <2>5 DEF AsBefore
<1>4. CASE BeginWithWindows
  BY <1>2, <1>4, DispatchNext
<1>5. CASE \E a \in Actors : WriteRow(a) \/ ArchiveRow(a) \/ BookRow(a)
  <2>1. TicksNext
    BY <1>5, CallsNext DEF CallsWaitlist
  <2> QED
    BY <1>2, <2>1
<1>6. CASE InvitationPasses
  BY <1>2, <1>6, PassesNext
<1>7. CASE HerTaps
  BY <1>2, <1>7, TapsAreNext
<1>8. CASE \E s \in Slots : OpenWindow(s) \/ LoseWindow(s)
  <2>1. UNCHANGED <<scene, state>> /\ newer' = newer /\ news' = news /\ Live' = Live
    BY <1>8 DEF OpenWindow, LoseWindow, ChangesWindows, Live
  <2> QED
    BY <1>1, <2>1
<1>9. CASE InvitationAges
  <2>1. UNCHANGED <<scene, state>> /\ newer' = newer /\ news' = news
    BY <1>9 DEF InvitationAges
  <2>2. Live' = Live
    <3>1. invitation \in [at : AtAges, reminded : BOOLEAN]
      BY DEF TicksFit, WaitlistTypeOK
    <3>2. invitation.at # "none" /\ invitation'.at # "none" /\ invitation'.reminded = invitation.reminded
      BY <1>9, <3>1 DEF InvitationAges
    <3> QED
      BY <3>2 DEF Live
  <2> QED
    BY <1>1, <2>1, <2>2
<1>10. CASE UNCHANGED allVars
  <2>1. UNCHANGED <<scene, state>> /\ newer' = newer /\ news' = news /\ Live' = Live
    BY <1>10 DEF allVars, waitlist, Live
  <2> QED
    BY <1>1, <2>1
<1> QED
  BY <1>3, <1>4, <1>5, <1>6, <1>7, <1>8, <1>9, <1>10 DEF NextWaitlist

LEMMA FirstTicks == InitWaitlist => Base /\ TicksFit /\ OneAtATime
<1> SUFFICES ASSUME InitWaitlist PROVE Base /\ TicksFit /\ OneAtATime
  OBVIOUS
<1>1. Init /\ Base
  BY BaseInit DEF InitWaitlist
<1>2. \A a \in Actors : ~ Running(a)
  BY <1>1 DEF Init, Running, Idle
<1>3. WaitlistTypeOK
  <2>1. MaxTaps \in Nat /\ MaxChanges \in Nat
    BY BoundsAssumption DEF BoundsAssumption
  <2>2. open \subseteq Slots
    BY DEF InitWaitlist
  <2>3. invitation \in [at : AtAges, reminded : BOOLEAN] /\ waitReason \in BOOLEAN
    BY DEF InitWaitlist, AtAges
  <2>4. firstSeen = {} /\ newer = {} /\ news = 0 /\ taps = 0 /\ changes = 0
    BY DEF InitWaitlist
  <2> QED
    BY <2>1, <2>2, <2>3, <2>4 DEF WaitlistTypeOK
<1>4. RemindersTold = 0 /\ OffersTold = 0 /\ WindowsTold = 0
  <2>1. chat = << >>
    BY <1>1 DEF Init
  <2>2. \A L : Told(L) = {}
    BY <2>1 DEF Told
  <2> QED
    BY <2>2, FS_EmptySet DEF RemindersTold, OffersTold, WindowsTold
<1>5. mishaps = 0 /\ news = 0 /\ invitation.at = "none" /\ newer = {}
  BY <1>1 DEF Init, InitWaitlist
<1>6. \A a \in {"worker", "dispatcher"} : \A t : ~ OnList(a, t)
  BY <1>2 DEF OnList, Actors
<1>7. RemindersFit
  BY <1>4, <1>5, <1>6 DEF RemindersFit, Live, Inviting, Reminding
<1>8. WindowsFit
  BY <1>4, <1>5, <1>6 DEF WindowsFit, Fresh, ToTell, Cleared
<1>9. \A k \in Commands : outbox[k].status = "none"
  BY <1>1 DEF Init
<1>10. WordsFit
  BY <1>2, <1>9 DEF WordsFit
<1> QED
  BY <1>1, <1>2, <1>3, <1>7, <1>8, <1>10 DEF TicksFit, OneAtATime

\* As long as one handler runs at a time, whatever fails, is blocked or dies, and as
\* long as no letter of a reschedule is lost: she is reminded once of an invitation
\* and told once of a window, by passes that come back every five minutes.
THEOREM TicksDoNotRepeatAlways ==
    SpecWaitlist /\ ~ scene.overlap /\ SlotsLetterArrives => []TicksDoNotRepeat
<1> DEFINE Inv == Base /\ TicksFit /\ OneAtATime /\ ~ scene.overlap /\ SlotsLetterArrives
<1>1. InitWaitlist /\ ~ scene.overlap /\ SlotsLetterArrives => Inv
  BY FirstTicks
<1>2. Inv /\ [NextWaitlist]_allVars => Inv'
  <2> SUFFICES ASSUME Inv, [NextWaitlist]_allVars PROVE Inv'
    OBVIOUS
  <2>1. Base' /\ TicksFit' /\ OneAtATime' /\ scene' = scene
    BY TicksStep, WaitlistBase
  <2>2. SlotsLetterArrives' <=> SlotsLetterArrives
    BY <2>1 DEF SlotsLetterArrives, Rescheduling, Commands
  <2> QED
    BY <2>1, <2>2
<1>3. Inv => TicksDoNotRepeat
  BY DEF TicksFit, TicksDoNotRepeat, RemindersFit, WindowsFit, RemindedOnce, ToldOfNewWindows, RemindersTold,
         OffersTold, WindowsTold
<1> QED
  BY <1>1, <1>2, <1>3, PTL DEF SpecWaitlist

---------------------------------------------------------------------------
(* The last word she has had of an invitation.                             *)

\* The letters after which an invitation of before binds nobody.
Denials == {"slots opened", "no slots", "invitation expired"}
Words == Offers \cup Denials
Offered ==
    \E i \in DOMAIN chat :
        chat[i].letter \in Offers /\ \A j \in DOMAIN chat : chat[j].letter \in Words => j <= i
Dated == invitation.at # "none"

\* A date in her row is one she was told of last; who expires it finds her without
\* a time and has taken the date back before telling her; what she turns down was
\* offered.
OffersFit ==
    /\ Dated => Offered \/ Dating \/ Offering
    /\ Inviting => Offered
    /\ OnList("worker", Expires2) \/ OnList("worker", Expires1) => Offered /\ cand.interviewSlotId = Null
    /\ OnList("worker", Expires1) \/ OnList("dispatcher", Withheld) => ~ Dated
    /\ Running("candidate") => Offered \/ Sober(run["candidate"].todo)

\* What is to be shown of a step.
OffersNext ==
    /\ Dated' => Offered' \/ OnNext("worker", Tells1) \/ OfferingNext
    /\ OnNext("dispatcher", Invites1) => Offered'
    /\ OnNext("worker", Expires2) \/ OnNext("worker", Expires1) => Offered' /\ cand'.interviewSlotId = Null
    /\ OnNext("worker", Expires1) \/ OnNext("dispatcher", Withheld) => ~ Dated'
    /\ RunsNow("candidate") => Offered' \/ Sober(run'["candidate"].todo)

LEMMA OffersOwe ==
    ASSUME scene' = scene, OffersNext
    PROVE  OffersFit'
<1>1. Rescheduling' <=> Rescheduling
  BY DEF Rescheduling, Commands
<1>2. /\ Inviting' <=> OnNext("dispatcher", Invites1)
      /\ Dating' <=> OnNext("worker", Tells1)
      /\ OnList("worker", Expires2)' <=> OnNext("worker", Expires2)
      /\ OnList("worker", Expires1)' <=> OnNext("worker", Expires1)
      /\ OnList("dispatcher", Withheld)' <=> OnNext("dispatcher", Withheld)
  BY DEF Inviting, Dating, OnList, OnNext, Running, RunsNow
<1>3. Offering' <=> OfferingNext
  BY <1>1 DEF Offering, OfferingNext, OnList, OnNext, Running, RunsNow
<1>4. /\ Running("candidate")' <=> RunsNow("candidate")
      /\ Sober(run["candidate"].todo)' <=> Sober(run'["candidate"].todo)
      /\ cand.interviewSlotId' = cand'.interviewSlotId
  BY DEF Running, RunsNow
<1> QED
  BY <1>2, <1>3, <1>4, Zenon DEF OffersFit, OffersNext

LEMMA OfferedStays ==
    ASSUME chat' = chat
    PROVE  Offered' <=> Offered
BY DEF Offered

LEMMA WordAdded ==
    ASSUME Base, NEW x, chat' = Append(chat, x)
    PROVE  /\ x.letter \in Offers => Offered'
           /\ x.letter \notin Denials /\ Offered => Offered'
<1> DEFINE n == Len(chat')
<1>1. /\ Len(chat) \in Nat /\ n = Len(chat) + 1 /\ DOMAIN chat = 1 .. Len(chat) /\ DOMAIN chat' = 1 .. n
      /\ \A i \in 1 .. Len(chat) : chat'[i] = chat[i]
      /\ chat'[n] = x
  BY LetterAdded
<1> HIDE DEF n
<1>2. CASE x.letter \in Offers
  <2>1. n \in DOMAIN chat' /\ chat'[n].letter \in Offers /\ \A j \in DOMAIN chat' : j <= n
    BY <1>1, <1>2
  <2> QED
    BY <2>1 DEF Offered
<1>3. CASE x.letter \notin Words /\ Offered
  <2>1. PICK i \in DOMAIN chat :
           chat[i].letter \in Offers /\ \A j \in DOMAIN chat : chat[j].letter \in Words => j <= i
    BY <1>3 DEF Offered
  <2>2. i \in DOMAIN chat' /\ chat'[i].letter \in Offers
    BY <1>1, <2>1
  <2>3. ASSUME NEW j \in DOMAIN chat', chat'[j].letter \in Words PROVE j <= i
    <3>1. j # n
      BY <1>1, <1>3, <2>3
    <3>2. j \in DOMAIN chat /\ chat'[j] = chat[j]
      BY <1>1, <3>1
    <3> QED
      BY <2>1, <2>3, <3>2
  <2> QED
    BY <2>2, <2>3 DEF Offered
<1> QED
  BY <1>2, <1>3 DEF Words

LEMMA LastOffered ==
    ASSUME Base, Offered
    PROVE  LastWord \in Offers
<1> DEFINE words == Told(Words)
           last == CHOOSE i \in words : \A j \in words : j <= i
<1>1. DOMAIN chat \subseteq Nat
  BY DEF Base, Tables, ChatSound, IsList
<1>2. PICK i \in DOMAIN chat :
         chat[i].letter \in Offers /\ \A j \in DOMAIN chat : chat[j].letter \in Words => j <= i
  BY DEF Offered
<1>3. i \in words /\ \A j \in words : j <= i
  BY <1>2 DEF Told, Words
<1>4. words \subseteq Nat
  BY <1>1 DEF Told
<1>5. LastWord = IF words = {} THEN Null ELSE chat[last].letter
  BY DEF LastWord, Words, Denials
<1> HIDE DEF words
<1>6. last \in words /\ \A j \in words : j <= last
  BY <1>3
<1> HIDE DEF last
<1>7. last = i
  BY <1>3, <1>4, <1>6
<1> QED
  BY <1>2, <1>3, <1>5, <1>7

\* A call that neither denies an invitation nor dates one.
Gentle(x) ==
    /\ x.op = "update" => ("interviewInvitedAt" \in DOMAIN LastPatch(x) => ~ LastPatch(x)["interviewInvitedAt"])
    /\ x.op = "send" => x.letter \notin Denials

LEMMA CalmGentle ==
    ASSUME NEW x, Calm(x)
    PROVE  Gentle(x)
BY DEF Calm, Soft, Undated, Gentle, LastPatch, Denials

LEMMA GentleCall ==
    ASSUME Base, NEW a \in Actors, CallsWaitlist(a), run[a].todo # << >>, run[a].result = "ok", Gentle(Call(a))
    PROVE  (Offered => Offered') /\ (Dated' => Dated)
<1>1. Calls(a)
  BY CallsOfWaitlist
<1>2. Offered => Offered'
  <2>1. chat' = chat \/ (Call(a).op = "send" /\ \E x : chat' = Append(chat, x) /\ x.letter = Call(a).letter)
    BY <1>1, LetterOfCall
  <2>2. CASE chat' = chat
    BY <2>2, OfferedStays
  <2>3. CASE Call(a).op = "send" /\ \E x : chat' = Append(chat, x) /\ x.letter = Call(a).letter
    <3>1. PICK x : chat' = Append(chat, x) /\ x.letter = Call(a).letter
      BY <2>3
    <3>2. x.letter \notin Denials
      BY <2>3, <3>1 DEF Gentle
    <3> QED
      BY <3>1, <3>2, WordAdded
  <2> QED
    BY <2>1, <2>2, <2>3
<1>3. Dated' => Dated
  <2>1. CASE Call(a).op = "update"
    <3>1. CASE Judges(a)
      BY <3>1 DEF Judges, Dated
    <3>2. CASE Writes(a)
      <4> DEFINE p == LastPatch(Call(a))
      <4>1. invitation' = InvitedAfter(p) /\ ("interviewInvitedAt" \in DOMAIN p => ~ p["interviewInvitedAt"])
        BY <2>1, <3>2 DEF Writes, Gentle
      <4> HIDE DEF p
      <4>2. invitation'.at \in {invitation.at, "none"}
        BY <4>1 DEF InvitedAfter
      <4> QED
        BY <4>2 DEF Dated
    <3> QED
      BY <2>1, <3>1, <3>2, WaitUpdate
  <2>2. CASE Call(a).op # "update"
    <3>1. invitation' = invitation \/ invitation' = [invitation EXCEPT !.at = "none"]
      BY <2>2, WaitOthers
    <3>2. CASE invitation' = invitation
      BY <3>2 DEF Dated
    <3>3. CASE invitation' = [invitation EXCEPT !.at = "none"]
      <4>1. invitation'.at = "none" \/ invitation' = invitation
        BY <3>3
      <4> QED
        BY <4>1 DEF Dated
    <3> QED
      BY <3>1, <3>2, <3>3
  <2> QED
    BY <2>1, <2>2
<1> QED
  BY <1>2, <1>3

\* The patches that take a date back.
LEMMA TakenBack == InvitedAfter(Looking(FALSE)).at = "none" /\ InvitedAfter(Expired).at = "none"
<1>1. "interviewInviteReminderSentAt" \in DOMAIN Looking(FALSE)
  <2> DEFINE p == [status |-> "SCREENING", currentStep |-> "INTERVIEW", notificationSent |-> FALSE,
                   isWaitlisted |-> FALSE, interviewInvitedAt |-> FALSE, interviewInviteReminderSentAt |-> FALSE]
             q == With(Queued(TRUE), [interviewWaitlistedAt |-> TRUE])
  <2>1. "interviewInviteReminderSentAt" \in DOMAIN p
    OBVIOUS
  <2>2. Looking(FALSE) = With(p, q)
    BY DEF Looking
  <2> HIDE DEF p, q
  <2> QED
    BY <2>1, <2>2, WithColumns
<1>2. "interviewInviteReminderSentAt" \in DOMAIN Expired
  <2> DEFINE p == [status |-> "WAITLIST_HR", isWaitlisted |-> TRUE, currentStep |-> "INITIAL_TEST",
                   notificationSent |-> FALSE, interviewInviteReminderSentAt |-> FALSE]
  <2>1. "interviewInviteReminderSentAt" \in DOMAIN p
    OBVIOUS
  <2> HIDE DEF p
  <2> QED
    BY <2>1, WithColumns DEF Expired, p
<1>3. Undated(Looking(FALSE)) /\ Undated(Expired)
  BY DatedPatches, MixedPatches
<1>4. ASSUME NEW p, Undated(p), "interviewInviteReminderSentAt" \in DOMAIN p
      PROVE  InvitedAfter(p).at = "none"
  BY <1>4 DEF Undated, InvitedAfter
<1> QED
  BY <1>1, <1>2, <1>3, <1>4

LEMMA SoberNext ==
    ASSUME Base, NEW a \in Actors, Calls(a), run[a].todo # << >>, Sober(run[a].todo)
    PROVE  Sober(run'[a].todo)
<1> DEFINE t == run[a].todo
           u == run'[a].todo
<1>1. IsList(t)
  BY CallStep
<1>2. 1 \in 1 .. Len(t)
  BY <1>1, TailList
<1>3. t[1].op # "send" /\ (t[1].op = "update" => t[1].patches # <<Declined>>)
  BY <1>2 DEF Sober
<1>4. u = << >> \/ \E d \in {-1, 0, 1} : Shifted(t, u, d)
  BY <1>3, NextList DEF Call
<1>5. Update(Unlink).patches # <<Declined>>
  BY SoberCalls
<1>6. Sober(<< >>)
  BY ShortSober
<1>7. ASSUME NEW d \in {-1, 0, 1}, Shifted(t, u, d) PROVE Sober(u)
  <2> HIDE DEF t, u
  <2>1. /\ Len(t) \in Nat \ {0} /\ Len(u) = Len(t) + d
        /\ \A i \in 2 .. Len(t) : u[i + d] = t[i]
        /\ \A i \in 1 .. d + 1 : Led(u[i], t)
    BY <1>7 DEF Shifted
  <2>2. ASSUME NEW i \in 1 .. Len(u)
        PROVE  u[i].op # "send" /\ (u[i].op = "update" => u[i].patches # <<Declined>>)
    <3>1. CASE i \in 1 .. d + 1
      <4>1. Led(u[i], t)
        BY <2>1, <3>1
      <4>2. u[i].op # "send" /\ (u[i].op = "update" => u[i] = t[1] \/ u[i] = Update(Unlink))
        BY <4>1 DEF Led
      <4> QED
        BY <1>3, <1>5, <4>2
    <3>2. CASE i \notin 1 .. d + 1
      <4> DEFINE j == i - d
      <4>1. j \in 2 .. Len(t) /\ j + d = i /\ j \in 1 .. Len(t)
        BY <1>7, <2>1, <3>2
      <4> HIDE DEF j
      <4>2. u[i] = t[j]
        BY <2>1, <4>1
      <4> QED
        BY <4>1, <4>2 DEF Sober, t
    <3> QED
      BY <3>1, <3>2
  <2> QED
    BY <2>2 DEF Sober
<1> QED
  BY <1>4, <1>6, <1>7

---------------------------------------------------------------------------
(* What a call leaves of it.                                               *)

OffersAfter(a) ==
    LET u == run'[a].todo IN
    /\ Dated' => Offered' \/ (a = "worker" /\ u = Tells1) \/ OfferingNext
    /\ a = "dispatcher" => (u = Invites1 => Offered') /\ (u = Withheld => ~ Dated')
    /\ a = "worker" => /\ u \in {Expires2, Expires1} => Offered' /\ cand'.interviewSlotId = Null
                       /\ u = Expires1 => ~ Dated'
    /\ a = "candidate" => Offered' \/ Sober(u)

LEMMA AfterNext ==
    ASSUME NEW a \in Actors, Alone(a), OffersAfter(a)
    PROVE  OffersNext
<1>1. \A t : /\ OnNext("worker", t) <=> a = "worker" /\ run'[a].todo = t
             /\ OnNext("dispatcher", t) <=> a = "dispatcher" /\ run'[a].todo = t
  BY AtomsAlone
<1>2. RunsNow("candidate") => a = "candidate"
  BY DEF Alone, Actors
<1> QED
  BY <1>1, <1>2, Zenon DEF OffersNext, OffersAfter

LEMMA AfterCalm ==
    ASSUME NEW a \in Actors, AllCalm(run'[a].todo), Dated' => Offered' \/ OfferingNext,
           a = "candidate" => Offered' \/ Sober(run'[a].todo)
    PROVE  OffersAfter(a)
<1>1. run'[a].todo \notin {Invites1, Withheld, Expires2, Expires1}
  BY ListsDiffer
<1> QED
  BY <1>1 DEF OffersAfter

LEMMA CalmOffers ==
    ASSUME Base, WaitlistTypeOK, SlotsLetterArrives, OffersFit, NEW a \in Actors,
           CallsWaitlist(a), Alone(a), run[a].todo # << >>, run[a].result = "ok", AllCalm(run[a].todo)
    PROVE  OffersAfter(a)
<1>1. Calls(a) /\ IsList(run[a].todo) /\ Running(a)
  BY CallsOfWaitlist, CallStep
<1>2. Calm(Call(a)) /\ AllCalm(run'[a].todo)
  BY <1>1, TailCalm, CalmCalls DEF Call
<1>3. (Offered => Offered') /\ (Dated' => Dated)
  BY <1>2, CalmGentle, GentleCall
<1>4. ~ Dating
  BY AtomsAlone, ListsDiffer DEF Dating
<1>5. Dated' => Offered' \/ OfferingNext
  <2>1. CASE Offering
    <3>1. CASE \E x : chat' = Append(chat, x) /\ x.letter = "slots"
      BY <3>1, WordAdded DEF Offers
    <3>2. CASE OfferingNext \/ invitation'.at = "none"
      BY <3>2 DEF Dated
    <3> QED
      BY <2>1, <3>1, <3>2, OfferMoves
  <2>2. CASE ~ Offering
    BY <1>3, <1>4, <2>2 DEF OffersFit
  <2> QED
    BY <2>1, <2>2
<1>6. a = "candidate" => Offered' \/ Sober(run'[a].todo)
  <2>1. ASSUME a = "candidate" PROVE Offered \/ Sober(run[a].todo)
    BY <1>1, <2>1 DEF OffersFit
  <2>2. Sober(run[a].todo) => Sober(run'[a].todo)
    BY <1>1, SoberNext
  <2> QED
    BY <1>3, <2>1, <2>2
<1> QED
  BY <1>2, <1>5, <1>6, AfterCalm

LEMMA LooksOffers ==
    ASSUME Base, WaitlistTypeOK, OffersFit, NEW a \in Actors, a = "dispatcher",
           CallsWaitlist(a), Alone(a), run[a].todo # << >>, run[a].result = "ok",
           NEW offered \in BOOLEAN, Looks(run[a].todo, offered), Rescheduling
    PROVE  OffersAfter(a)
<1> DEFINE t == run[a].todo
           u == run'[a].todo
           y == WindowsLetter(offered)
<1>1. /\ u = << >> \/ Looks(u, offered) \/ (Len(t) = 2 /\ u = <<y>>)
      /\ Len(t) = 2 => Relooks(Call(a), offered) /\ Tail(t) = <<y>>
      /\ Len(t) # 2 => Call(a).op # "send" /\ Calm(Call(a))
  BY CallsOfWaitlist, LooksCalls
<1>2. Dated => Offered
  <2>1. ~ Offering /\ ~ Dating
    BY AtomsAlone, ListsDiffer DEF Offering, Dating
  <2> QED
    BY <2>1 DEF OffersFit
<1>3. \A v : v = << >> \/ Looks(v, offered) => v \notin {Invites1, Withheld}
  BY ListsDiffer
<1>4. CASE Len(t) # 2
  <2>1. (Offered => Offered') /\ (Dated' => Dated)
    BY <1>1, <1>4, CalmGentle, GentleCall
  <2>2. u \notin {Invites1, Withheld}
    BY <1>1, <1>3, <1>4
  <2> QED
    BY <1>2, <2>1, <2>2 DEF OffersAfter
<1>5. CASE Len(t) = 2
  <2>1. Call(a).op = "update" /\ Call(a).must /\ LastPatch(Call(a)) = Looking(offered) /\ Tail(t) = <<y>>
    BY <1>1, <1>5 DEF Relooks
  <2>2. Offered' <=> Offered
    BY <2>1, CallsOfWaitlist, CallStep, OfferedStays
  <2>3. CASE Judges(a)
    <3>1. u = t \/ u = << >>
      BY <2>1, <2>3 DEF Judges, Becomes, Stops
    <3>2. u \notin {Invites1, Withheld}
      BY <1>3, <3>1
    <3>3. Dated' <=> Dated
      BY <2>3 DEF Judges, Dated
    <3> QED
      BY <1>2, <2>2, <3>2, <3>3 DEF OffersAfter
  <2>4. CASE Writes(a) /\ offered
    <3>1. u = <<SlotsLetter>>
      BY <2>1, <2>4 DEF Writes, Onwards, WindowsLetter
    <3>2. cand'.status = "SCREENING"
      BY <2>1, <2>4, DatedPatches DEF Writes
    <3>3. OnNext("dispatcher", <<SlotsLetter>>)
      BY <3>1, AtomsAlone
    <3>4. OfferingNext
      BY <3>2, <3>3 DEF OfferingNext
    <3>5. u \notin {Invites1, Withheld}
      BY <3>1, ListsDiffer
    <3> QED
      BY <3>4, <3>5 DEF OffersAfter
  <2>5. CASE Writes(a) /\ ~ offered
    <3>1. u = Withheld
      BY <2>1, <2>5 DEF Writes, Onwards, WindowsLetter, Withheld
    <3>2. ~ Dated'
      BY <2>1, <2>5, TakenBack DEF Writes, Dated
    <3>3. u # Invites1
      BY <3>1, ListsDiffer
    <3> QED
      BY <3>2, <3>3 DEF OffersAfter
  <2> QED
    BY <2>1, <2>3, <2>4, <2>5, WaitUpdate
<1> QED
  BY <1>4, <1>5

LEMMA InvitesOffers ==
    ASSUME Base, WaitlistTypeOK, OffersFit, NEW a \in Actors, a = "dispatcher",
           CallsWaitlist(a), Alone(a), run[a].todo # << >>, run[a].result = "ok",
           run[a].todo \in {Invites3, Invites2, Invites1}
    PROVE  OffersAfter(a)
<1> DEFINE t == run[a].todo
           u == run'[a].todo
<1>0. Calls(a)
  BY CallsOfWaitlist
<1>1. << >> \notin {Invites1, Withheld} /\ Invites2 \notin {Invites1, Withheld} /\ Invites1 # Withheld
  BY ListsDiffer
<1>2. Dated => Offered
  <2>1. Len(Invites3) # 1 /\ Len(Invites2) # 1 /\ Len(<<SlotsLetter>>) = 1 /\ Len(<<Archive>>) = 1
    BY ListLengths
  <2>2. Invites1 # <<SlotsLetter>> /\ Invites1 # <<Archive>>
    BY ListsDiffer
  <2>3. t \notin {<<SlotsLetter>>, <<Archive>>}
    BY <2>1, <2>2
  <2>4. ~ Offering /\ ~ Dating
    BY <2>3, AtomsAlone DEF Offering, Dating
  <2> QED
    BY <2>4 DEF OffersFit
<1>3. CASE t = Invites3
  <2>1. Tail(t) = Invites2 /\ Call(a).op = "check" /\ Calm(Call(a))
    <3>1. Call(a) = Invites3[1] /\ Tail(t) = Tail(Invites3)
      BY <1>3 DEF Call
    <3>2. Tail(Invites3) = Invites2
      BY ListsAre
    <3> QED
      BY <3>1, <3>2, HeadsAre
  <2>2. u = Invites2 \/ u = << >>
    BY <1>0, <2>1, CallStep DEF Onwards, Stops
  <2>3. (Offered => Offered') /\ (Dated' => Dated)
    BY <2>1, CalmGentle, GentleCall
  <2>4. u \notin {Invites1, Withheld}
    BY <1>1, <2>2
  <2> QED
    BY <1>2, <2>3, <2>4 DEF OffersAfter
<1>4. CASE t = Invites2
  <2>1. /\ Tail(t) = Invites1 /\ Call(a).op = "send" /\ Call(a).letter = "invitation"
        /\ Call(a).onFailure = "throw" /\ Call(a).onBlocked = "bar" /\ Calm(Call(a))
    <3>1. Call(a) = Invites2[1] /\ Tail(t) = Tail(Invites2)
      BY <1>4 DEF Call
    <3>2. Tail(Invites2) = Invites1
      BY ListsAre
    <3> QED
      BY <3>1, <3>2, HeadsAre
  <2>2. (Offered => Offered') /\ (Dated' => Dated)
    BY <2>1, CalmGentle, GentleCall
  <2> DEFINE x == [letter |-> Call(a).letter, by |-> a,
                   of |-> IF a = "dispatcher" THEN run[a].doing[1] ELSE Null]
             v == <<Attempt(Bar), Refuse("failed")>>
  <2>3. (Onwards(a) /\ chat' = Append(chat, x)) \/ Stops(a) \/ Becomes(a, v)
    <3>1. SendStep(a)
      BY <1>0, <2>1, CallStep
    <3>2. "throw" # "bar" /\ "archive" # "bar" /\ "ignore" # "bar"
      OBVIOUS
    <3> QED
      BY <2>1, <3>1, <3>2, Zenon DEF SendStep
  <2>4. AllCalm(v) /\ AllCalm(<< >>)
    BY <1>0, <2>1, SendCall
  <2>5. x.letter \in Offers
    BY <2>1 DEF Offers
  <2> HIDE DEF x, v
  <2>6. CASE Onwards(a) /\ chat' = Append(chat, x)
    <3>1. u = Invites1 /\ Offered'
      BY <2>1, <2>5, <2>6, WordAdded DEF Onwards
    <3> QED
      BY <1>1, <3>1 DEF OffersAfter
  <2>7. CASE Stops(a) \/ Becomes(a, v)
    <3>1. AllCalm(u)
      BY <2>4, <2>7 DEF Stops, Becomes
    <3> QED
      BY <1>2, <2>2, <3>1, AfterCalm
  <2> QED
    BY <2>3, <2>6, <2>7
<1>5. CASE t = Invites1
  <2>1. Tail(t) = << >> /\ Call(a).op = "update"
    <3>1. Call(a) = Invites1[1] /\ Tail(t) = Tail(Invites1)
      BY <1>5 DEF Call
    <3>2. Tail(Invites1) = << >>
      BY ListsAre
    <3> QED
      BY <3>1, <3>2, HeadsAre
  <2>2. Offered
    BY <1>5, AtomsAlone DEF OffersFit, Inviting
  <2>3. Offered'
    BY <1>0, <2>1, <2>2, CallStep, OfferedStays
  <2>4. u = Invites1 \/ u = << >>
    BY <1>5, <2>1, WaitUpdate DEF Judges, Writes, Onwards, Stops, Becomes
  <2>5. u # Withheld
    BY <1>1, <2>4
  <2> QED
    BY <2>3, <2>5 DEF OffersAfter
<1> QED
  BY <1>3, <1>4, <1>5

LEMMA RemindsOffers ==
    ASSUME Base, WaitlistTypeOK, OffersFit, NEW a \in Actors, a = "worker",
           CallsWaitlist(a), Alone(a), run[a].todo # << >>, run[a].result = "ok",
           run[a].todo \in {Reminds2, Reminds1}
    PROVE  OffersAfter(a)
<1> DEFINE t == run[a].todo
           u == run'[a].todo
<1>0. Calls(a)
  BY CallsOfWaitlist
<1>1. Reminds1 \notin {Expires2, Expires1} /\ << >> \notin {Expires2, Expires1}
  BY ListsDiffer
<1>2. Dated => Offered
  <2>1. t # Tells1
    BY ListsDiffer
  <2>2. ~ Offering /\ ~ Dating
    BY <2>1, AtomsAlone DEF Offering, Dating
  <2> QED
    BY <2>2 DEF OffersFit
<1>3. Gentle(Call(a)) /\ (AllCalm(u) \/ u \in {Reminds1, << >>})
  <2>1. CASE t = Reminds2
    <3>1. /\ Tail(t) = Reminds1 /\ Call(a).op = "send" /\ Call(a).letter = "invitation reminder"
          /\ Call(a).onFailure = "throw" /\ Call(a).onBlocked = "archive"
      <4>1. Call(a) = Reminds2[1] /\ Tail(t) = Tail(Reminds2)
        BY <2>1 DEF Call
      <4>2. Tail(Reminds2) = Reminds1
        BY ListsAre
      <4> QED
        BY <4>1, <4>2, HeadsAre
    <3>2. Gentle(Call(a))
      BY <3>1 DEF Gentle, Denials
    <3>3. Onwards(a) \/ AllCalm(u)
      BY <1>0, <3>1, LetterGoes
    <3> QED
      BY <3>1, <3>2, <3>3 DEF Onwards
  <2>2. CASE t = Reminds1
    <3>1. Tail(t) = << >> /\ Call(a).op = "update" /\ LastPatch(Call(a)) = Noted
      <4>1. Call(a) = Reminds1[1] /\ Tail(t) = Tail(Reminds1)
        BY <2>2 DEF Call
      <4>2. Tail(Reminds1) = << >>
        BY ListsAre
      <4> QED
        BY <4>1, <4>2, HeadsAre
    <3>2. Gentle(Call(a))
      BY <3>1, DatedPatches DEF Gentle
    <3>3. u = Reminds1 \/ u = << >>
      BY <2>2, <3>1, WaitUpdate DEF Judges, Writes, Onwards, Stops, Becomes
    <3> QED
      BY <3>2, <3>3
  <2> QED
    BY <2>1, <2>2
<1>4. (Offered => Offered') /\ (Dated' => Dated)
  BY <1>3, GentleCall
<1>5. CASE AllCalm(u)
  BY <1>2, <1>4, <1>5, AfterCalm
<1>6. CASE u \in {Reminds1, << >>}
  <2>1. u \notin {Expires2, Expires1}
    BY <1>1, <1>6
  <2> QED
    BY <1>2, <1>4, <2>1 DEF OffersAfter
<1> QED
  BY <1>3, <1>5, <1>6

LEMMA TellsOffers ==
    ASSUME Base, WaitlistTypeOK, WindowsFit, OffersFit, NEW a \in Actors, a = "worker",
           CallsWaitlist(a), Alone(a), run[a].todo # << >>, run[a].result = "ok",
           run[a].todo \in {Tells3, Tells2, Tells1}
    PROVE  OffersAfter(a)
<1> DEFINE t == run[a].todo
           u == run'[a].todo
<1>0. Calls(a)
  BY CallsOfWaitlist
<1>1. /\ Tells2 \notin {Expires2, Expires1} /\ Tells1 \notin {Expires2, Expires1}
      /\ << >> \notin {Expires2, Expires1}
  BY ListsDiffer
<1>2. ~ Offering /\ (t # Tells1 => (Dated => Offered))
  <2>1. ~ Offering /\ (t # Tells1 => ~ Dating)
    BY AtomsAlone DEF Offering, Dating
  <2> QED
    BY <2>1 DEF OffersFit
<1>3. CASE t = Tells3
  <2>1. Tail(t) = Tells2 /\ Call(a).op = "check" /\ Calm(Call(a))
    <3>1. Call(a) = Tells3[1] /\ Tail(t) = Tail(Tells3)
      BY <1>3 DEF Call
    <3>2. Tail(Tells3) = Tells2
      BY ListsAre
    <3> QED
      BY <3>1, <3>2, HeadsAre
  <2>2. u = Tells2 \/ u = << >>
    BY <1>0, <2>1, CallStep DEF Onwards, Stops
  <2>3. (Offered => Offered') /\ (Dated' => Dated)
    BY <2>1, CalmGentle, GentleCall
  <2>4. u \notin {Expires2, Expires1} /\ t # Tells1
    BY <1>1, <1>3, <2>2, ListsDiffer
  <2> QED
    BY <1>2, <2>3, <2>4 DEF OffersAfter
<1>4. CASE t = Tells2
  <2>1. /\ Tail(t) = Tells1 /\ Call(a).op = "send" /\ Call(a).letter = "slots opened"
        /\ Call(a).onFailure = "throw" /\ Call(a).onBlocked = "archive"
    <3>1. Call(a) = Tells2[1] /\ Tail(t) = Tail(Tells2)
      BY <1>4 DEF Call
    <3>2. Tail(Tells2) = Tells1
      BY ListsAre
    <3> QED
      BY <3>1, <3>2, HeadsAre
  <2>2. invitation' = invitation
    <3>1. Call(a).op # "update" /\ Call(a).op # "archive"
      BY <2>1
    <3> QED
      BY <3>1, WaitOthers
  <2>3. t # Tells1
    BY <1>4, ListsDiffer
  <2>4. CASE Onwards(a)
    <3>1. u = Tells1
      BY <2>1, <2>4 DEF Onwards
    <3>2. u \notin {Expires2, Expires1}
      BY <1>1, <3>1
    <3> QED
      BY <3>1, <3>2 DEF OffersAfter
  <2>5. CASE chat' = chat /\ AllCalm(u)
    <3>1. (Offered' <=> Offered) /\ (Dated' <=> Dated)
      BY <2>2, <2>5, OfferedStays DEF Dated
    <3> QED
      BY <1>2, <2>3, <2>5, <3>1, AfterCalm
  <2> QED
    BY <1>0, <2>1, <2>4, <2>5, LetterGoes
<1>5. CASE t = Tells1
  <2>1. /\ Tail(t) = << >> /\ Call(a).op = "update" /\ LastPatch(Call(a)) = Tell
        /\ Len(Call(a).patches) = 1 /\ Call(a).patches[1] = Tell
    <3>1. Call(a) = Tells1[1] /\ Tail(t) = Tail(Tells1)
      BY <1>5 DEF Call
    <3>2. Tail(Tells1) = << >>
      BY ListsAre
    <3> QED
      BY <3>1, <3>2, HeadsAre
  <2>2. Admits(cand, Tell)
    <3>1. Cleared
      BY <1>5, AtomsAlone DEF Cleared
    <3> QED
      BY <3>1 DEF WindowsFit
  <2>3. CASE Judges(a)
    <3>1. u = Tells1
      <4>1. Admits(cand, Call(a).patches[1])
        BY <2>1, <2>2, Zenon
      <4>2. Len(Call(a).patches) # 2
        <5>1. Len(Call(a).patches) = 1
          BY <2>1, Zenon
        <5> QED
          BY <5>1, SMTT(60)
      <4>3. Becomes(a, run[a].todo)
        BY <2>3, <4>1, <4>2, Zenon DEF Judges
      <4> QED
        BY <1>5, <4>3 DEF Becomes
    <3>2. u \notin {Expires2, Expires1}
      BY <1>1, <3>1
    <3> QED
      BY <3>1, <3>2 DEF OffersAfter
  <2>4. CASE Writes(a)
    <3>1. u = << >>
      BY <2>1, <2>4 DEF Writes, Onwards
    <3>2. ~ Dated'
      <4>1. invitation' = InvitedAfter(Tell)
        BY <2>1, <2>4 DEF Writes
      <4>2. InvitedAfter(Tell).at = "none"
        BY DatedPatches DEF InvitedAfter, Field
      <4> QED
        BY <4>1, <4>2 DEF Dated
    <3>3. u \notin {Expires2, Expires1}
      BY <1>1, <3>1
    <3> QED
      BY <3>2, <3>3 DEF OffersAfter
  <2> QED
    BY <2>1, <2>3, <2>4, WaitUpdate
<1> QED
  BY <1>3, <1>4, <1>5

\* An expiry finds her without a time and takes the date back before it tells her;
\* the letter that there is no window follows a row without one.
LEMMA LastWordOffers ==
    ASSUME Base, WaitlistTypeOK, OffersFit, NEW a \in Actors, CallsWaitlist(a), Alone(a),
           run[a].todo # << >>, run[a].result = "ok",
           \/ a = "worker" /\ run[a].todo \in {Expires2, Expires1}
           \/ a = "dispatcher" /\ run[a].todo = Withheld
    PROVE  OffersAfter(a)
<1> DEFINE t == run[a].todo
           u == run'[a].todo
<1>0. Calls(a)
  BY CallsOfWaitlist
<1>1. CASE t = Expires2
  <2>1. a = "worker" /\ Offered /\ cand.interviewSlotId = Null
    <3>1. a = "worker"
      BY <1>1, ListLengths
    <3>2. OnList("worker", Expires2)
      BY <1>1, <3>1, AtomsAlone
    <3> QED
      BY <3>1, <3>2 DEF OffersFit
  <2>2. Call(a).op = "update" /\ LastPatch(Call(a)) = Expired /\ Tail(t) = Expires1 /\ Call(a).must
    <3>1. Call(a) = Expires2[1] /\ Tail(t) = Tail(Expires2)
      BY <1>1 DEF Call
    <3>2. Tail(Expires2) = Expires1
      BY ListsAre
    <3> QED
      BY <3>1, <3>2, HeadsAre
  <2>3. Offered'
    BY <1>0, <2>1, <2>2, CallStep, OfferedStays
  <2>4. cand'.interviewSlotId = Null
    <3> DEFINE ps == Call(a).patches
               read == run[a].read
               first == Updated(cand, read, ps[1])
    <3>1. Fine(a, Call(a)) /\ AtCall(a, "update") /\ UpdateStep(a)
      BY <1>0, <2>2, ActionOf, CallStep
    <3>2. \/ cand' = cand
          \/ read # Null /\ (cand' = first \/ (Len(ps) # 1 /\ cand' = Updated(first, first, ps[2])))
      BY <3>1, Zenon DEF UpdateStep
    <3>3. CASE cand' = cand
      BY <2>1, <3>3
    <3>4. CASE read # Null /\ (cand' = first \/ (Len(ps) # 1 /\ cand' = Updated(first, first, ps[2])))
      <4>1. cand \in Snapshot /\ read \in Snapshot
        BY <3>1, <3>4, AtHead DEF Base, Tables, TypeOK, Row
      <4>2. PatchTyped(ps[1]) /\ (Len(ps) # 1 => PatchTyped(ps[2]))
        <5>1. Len(ps) \in {1, 2} /\ PatchTyped(ps[1]) /\ PatchTyped(ps[Len(ps)])
          BY <2>2, <3>1 DEF Fine, PatchOK
        <5> QED
          BY <5>1
      <4> HIDE DEF first, read, ps
      <4>3. first \in Snapshot /\ first.interviewSlotId = Null
        <5> DEFINE p == ps[1]
        <5>1. cand \in Snapshot /\ read \in Snapshot /\ PatchTyped(p)
          BY <4>1, <4>2
        <5>2. cand.interviewSlotId = Null
          BY <2>1
        <5> HIDE DEF p
        <5>3. /\ Updated(cand, read, p) \in Snapshot
              /\ Updated(cand, read, p).interviewSlotId \in {Null, cand.interviewSlotId}
          BY <5>1, UpdatedRow, ZenonT(60)
        <5> QED
          BY <5>2, <5>3 DEF first, p
      <4>4. Len(ps) # 1 => Updated(first, first, ps[2]).interviewSlotId = Null
        BY <4>2, <4>3, UpdatedRow
      <4> QED
        BY <3>4, <4>3, <4>4
    <3> QED
      BY <3>2, <3>3, <3>4
  <2>5. u \in {Expires2, << >>} \/ (u = Expires1 /\ ~ Dated')
    <3>1. CASE Judges(a)
      BY <1>1, <2>2, <3>1 DEF Judges, Becomes, Stops
    <3>2. CASE Writes(a)
      BY <2>2, <3>2, TakenBack DEF Writes, Onwards, Dated
    <3> QED
      BY <2>2, <3>1, <3>2, WaitUpdate
  <2>6. Expires2 # Expires1 /\ << >> # Expires1
    BY ListsDiffer
  <2>7. u = Expires1 => ~ Dated'
    BY <2>5, <2>6
  <2> QED
    BY <2>1, <2>3, <2>4, <2>7 DEF OffersAfter
<1>2. CASE t \in {Expires1, Withheld}
  <2>1. ~ Dated
    <3>1. OnList("worker", Expires1) \/ OnList("dispatcher", Withheld)
      <4>1. CASE a = "worker" /\ t = Expires1
        BY <4>1, AtomsAlone
      <4>2. CASE a = "dispatcher" /\ t = Withheld
        BY <4>2, AtomsAlone
      <4>3. Expires2 # Expires1
        BY ListsDiffer
      <4>4. Expires2 # Withheld
        <5>1. Len(Expires2) = 2 /\ Len(Withheld) = 1
          BY ListLengths
        <5> QED
          BY <5>1
      <4> QED
        BY <1>2, <4>1, <4>2, <4>3, <4>4
    <3> QED
      BY <3>1 DEF OffersFit
  <2>2. Call(a).op = "send" /\ Tail(t) = << >>
    <3>1. Expires1[1].op = "send" /\ Withheld[1].op = "send"
      BY HeadsAre
    <3>2. Tail(Expires1) = << >> /\ Tail(Withheld) = << >>
      BY ListsAre
    <3>3. t = Expires1 \/ t = Withheld
      BY <1>2
    <3> HIDE DEF t
    <3>4. t[1].op = "send" /\ Tail(t) = << >>
      BY <3>1, <3>2, <3>3, Zenon
    <3> QED
      BY <3>4 DEF Call, t
  <2>3. AllCalm(u)
    BY <1>0, <2>2, SendCall DEF Onwards, Stops, Becomes
  <2>4. invitation' = invitation
    <3>1. Call(a).op # "update" /\ Call(a).op # "archive"
      BY <2>2
    <3> QED
      BY <3>1, WaitOthers
  <2>5. ~ Dated'
    BY <2>1, <2>4 DEF Dated
  <2> QED
    BY <2>3, <2>5, AfterCalm
<1> QED
  BY <1>1, <1>2

LEMMA CallsOffers ==
    ASSUME Base, OneAtATime, TicksFit, OffersFit, SlotsLetterArrives, NEW a \in Actors, CallsWaitlist(a),
           run[a].todo # << >>
    PROVE  OffersNext
<1> DEFINE t == run[a].todo
<1>1. Alone(a) /\ WaitlistTypeOK /\ WindowsFit
  BY CallsAlone DEF TicksFit
<1>2. Worded(a, t) /\ run[a].result = "ok"
  <2>1. Running(a) /\ WordsFit
    BY <1>1 DEF Alone, TicksFit
  <2> QED
    BY <2>1 DEF WordsFit
<1>3. OffersAfter(a)
  <2>1. CASE AllCalm(t)
    BY <1>1, <1>2, <2>1, CalmOffers
  <2>2. CASE a = "dispatcher" /\ Rescheduling /\ \E offered \in BOOLEAN : Looks(t, offered)
    BY <1>1, <1>2, <2>2, LooksOffers
  <2>3. CASE a = "dispatcher" /\ t \in {Invites3, Invites2, Invites1}
    BY <1>1, <1>2, <2>3, InvitesOffers
  <2>4. CASE a = "worker" /\ t \in {Reminds2, Reminds1}
    BY <1>1, <1>2, <2>4, RemindsOffers
  <2>5. CASE a = "worker" /\ t \in {Tells3, Tells2, Tells1}
    BY <1>1, <1>2, <2>5, TellsOffers
  <2>6. CASE \/ a = "worker" /\ t \in {Expires2, Expires1}
             \/ a = "dispatcher" /\ t = Withheld
    BY <1>1, <1>2, <2>6, LastWordOffers
  <2> QED
    BY <1>2, <2>1, <2>2, <2>3, <2>4, <2>5, <2>6 DEF Worded
<1> QED
  BY <1>1, <1>3, AfterNext

---------------------------------------------------------------------------
(* What the other steps leave of it.                                       *)

LEMMA OffersStill ==
    ASSUME OffersFit, Quietens, scene' = scene, cand' = cand, chat' = chat, Dated' <=> Dated
    PROVE  OffersNext
<1>1. \A a \in {"worker", "dispatcher"} : \A t : t # << >> => (OnNext(a, t) <=> OnList(a, t))
  <2>1. ASSUME NEW a \in Actors, NEW t, t # << >> PROVE OnNext(a, t) <=> OnList(a, t)
    BY <2>1 DEF Quietens, OnNext, OnList
  <2> QED
    BY <2>1 DEF Actors
<1>2. /\ << >> \notin {Invites1, Tells1} /\ << >> \notin {Expires2, Expires1, Withheld}
      /\ <<SlotsLetter>> # << >> /\ <<Archive>> # << >>
  BY ListsDiffer, ListLengths
<1>3. /\ OnNext("dispatcher", Invites1) <=> Inviting
      /\ OnNext("worker", Tells1) <=> Dating
      /\ OnNext("worker", Expires2) <=> OnList("worker", Expires2)
      /\ OnNext("worker", Expires1) <=> OnList("worker", Expires1)
      /\ OnNext("dispatcher", Withheld) <=> OnList("dispatcher", Withheld)
  BY <1>1, <1>2 DEF Inviting, Dating
<1>4. OfferingNext <=> Offering
  <2>1. /\ OnNext("dispatcher", <<SlotsLetter>>) <=> OnList("dispatcher", <<SlotsLetter>>)
        /\ OnNext("dispatcher", <<Archive>>) <=> OnList("dispatcher", <<Archive>>)
    BY <1>1, <1>2
  <2> QED
    BY <2>1 DEF OfferingNext, Offering
<1>5. RunsNow("candidate") => Running("candidate") /\ run'["candidate"] = run["candidate"]
  BY DEF Quietens, Actors
<1>6. Offered' <=> Offered
  BY OfferedStays
<1> QED
  BY <1>3, <1>4, <1>5, <1>6, Zenon DEF OffersFit, OffersNext

\* A handler begins while the others rest: an expiry reads a date and no time, and
\* only under a date can she turn down what she was offered.
LEMMA OffersBegin ==
    ASSUME OffersFit, Quiet, cand' = cand, chat' = chat, invitation' = invitation,
           NEW a \in Actors, \A b \in Actors \ {a} : ~ RunsNow(b),
           a = "dispatcher" => run'[a].todo \notin {Invites1, Withheld},
           a = "worker" => run'[a].todo # Expires1,
           a = "worker" /\ run'[a].todo = Expires2 => Dated /\ cand.interviewSlotId = Null,
           a = "candidate" => Dated \/ Sober(run'[a].todo)
    PROVE  OffersNext
<1>1. \A b \in Actors : ~ Running(b)
  BY DEF Quiet
<1>2. Dated => Offered
  <2>1. "worker" \in Actors /\ "dispatcher" \in Actors
    BY DEF Actors
  <2>2. ~ Offering /\ ~ Dating
    BY <1>1, <2>1 DEF Offering, Dating, OnList
  <2> QED
    BY <2>2 DEF OffersFit
<1>3. (Offered' <=> Offered) /\ (Dated' <=> Dated)
  BY OfferedStays DEF Dated
<1>4. \A b \in Actors : \A t : OnNext(b, t) => b = a /\ run'[a].todo = t
  BY DEF OnNext
<1>5. "worker" \in Actors /\ "dispatcher" \in Actors /\ "candidate" \in Actors
  BY DEF Actors
<1>6. ~ OnNext("dispatcher", Invites1) /\ ~ OnNext("dispatcher", Withheld) /\ ~ OnNext("worker", Expires1)
  BY <1>4, <1>5
<1>7. OnNext("worker", Expires2) => Dated /\ cand.interviewSlotId = Null
  BY <1>4, <1>5
<1>8. RunsNow("candidate") => Dated \/ Sober(run'["candidate"].todo)
  BY <1>5
<1>9. cand'.interviewSlotId = cand.interviewSlotId
  OBVIOUS
<1> QED
  BY <1>2, <1>3, <1>6, <1>7, <1>8, <1>9, Zenon DEF OffersNext

LEMMA WorksOffers ==
    ASSUME Base, ~ scene.overlap, OffersFit, NEW t, Works(t), invitation' = invitation, t # Expires1,
           t = Expires2 => Dated /\ cand.interviewSlotId = Null
    PROVE  OffersNext
<1>1. "worker" \in Actors /\ MayBegin("worker") /\ Begun("worker", "tick", t) /\ OnlyRun
  BY DEF Works, OnlyRun, Actors
<1>2. /\ Quiet /\ cand' = cand /\ chat' = chat
      /\ run'["worker"].todo = t /\ \A b \in Actors \ {"worker"} : ~ RunsNow(b)
  BY <1>1, BegunIs
<1> QED
  BY <1>1, <1>2, OffersBegin

LEMMA TapsOffers ==
    ASSUME Base, ~ scene.overlap, OffersFit, NEW t, Taps(t), invitation' = invitation, Dated \/ Sober(t)
    PROVE  OffersNext
<1>1. "candidate" \in Actors /\ MayBegin("candidate") /\ Begun("candidate", "tap", t) /\ OnlyRun
  BY DEF Taps, OnlyRun, Actors
<1>2. /\ Quiet /\ cand' = cand /\ chat' = chat
      /\ run'["candidate"].todo = t /\ \A b \in Actors \ {"candidate"} : ~ RunsNow(b)
  BY <1>1, BegunIs
<1> QED
  BY <1>1, <1>2, OffersBegin

\* Only the red button turns an invitation down, and only a live one.
LEMMA HerTapsFit ==
    ASSUME Base, HerTaps
    PROVE  \E t : Taps(t) /\ (Dated \/ Sober(t))
<1>1. CASE Tap
  BY <1>1, TapCalm
<1>2. CASE TapNoSlotsFit
  <2> DEFINE x == Update(SlotNeeded)
  <2>1. Taps(<<x>>)
    BY <1>2 DEF TapNoSlotsFit
  <2>2. x.op # "send" /\ (x.op = "update" => x.patches # <<Declined>>)
    BY SoberCalls
  <2> HIDE DEF x
  <2>3. Sober(<<x>>)
    BY <2>2, ShortSober
  <2> QED
    BY <2>1, <2>3
<1>3. CASE TapDecline
  <2>1. Dated /\ Taps(<<Update(Declined)>>)
    BY <1>3 DEF TapDecline, hasLiveInterviewInvitation, Dated
  <2> QED
    BY <2>1
<1>4. CASE TapWithdraw
  <2>1. cand.interviewSlotId \in Slots \cup {Null}
    BY DEF Base, Tables, TypeOK, Row, Snapshot
  <2> DEFINE y == Cancel(cand.interviewSlotId, TRUE)
             z == Update(Withdrawn)
  <2>2. Taps(<<z>>) \/ Taps(<<Release, y, z>>)
    BY <1>4, <2>1, WithdrawLists
  <2>3. /\ z.op # "send" /\ (z.op = "update" => z.patches # <<Declined>>)
        /\ Release.op = "release" /\ y.op = "cancel"
    BY SoberCalls
  <2> HIDE DEF y, z
  <2>4. Sober(<<z>>) /\ Sober(<<Release, y, z>>)
    BY <2>3, ShortSober
  <2> QED
    BY <2>2, <2>4
<1>5. TapWindow \/ TapCancel => Tap
  BY DEF TapWindow, Tap
<1> QED
  BY <1>1, <1>2, <1>3, <1>4, <1>5 DEF HerTaps

LEMMA CommandsOffers ==
    ASSUME Base, OffersFit, UNCHANGED waitlist, Fetch \/ Ack \/ LoseAck \/ \E k \in Commands : Issue(k)
    PROVE  OffersNext
<1>0. Dated' <=> Dated
  BY DEF waitlist, Dated
<1>1. CASE Fetch \/ \E k \in Commands : Issue(k)
  <2>1. UNCHANGED <<scene, cand, chat, run>>
    BY <1>1, CommandIssued DEF Fetch
  <2> QED
    BY <1>0, <2>1, RunStays, OffersStill
<1>2. CASE Ack \/ LoseAck
  <2>1. /\ run["dispatcher"].todo = << >> /\ run'["dispatcher"] = Idle
        /\ run'["worker"] = run["worker"] /\ run'["candidate"] = run["candidate"]
        /\ UNCHANGED <<scene, cand, chat>>
    BY <1>2, CommandEnds
  <2>2. "dispatcher" \in Actors /\ \A b \in Actors \ {"dispatcher"} : run'[b] = run[b]
    BY <2>1 DEF Actors
  <2>3. Quietens
    BY <2>1, <2>2, EndsQuietens
  <2> QED
    BY <1>0, <2>1, <2>3, OffersStill
<1> QED
  BY <1>1, <1>2

LEMMA EveryCallOffers ==
    ASSUME Base, OneAtATime, TicksFit, OffersFit, SlotsLetterArrives, NEW a \in Actors, CallsWaitlist(a)
    PROVE  OffersNext
<1>1. CASE run[a].todo # << >>
  BY <1>1, CallsOffers
<1>2. CASE run[a].todo = << >>
  <2>1. Calls(a) /\ \A b \in Actors \ {a} : run'[b] = run[b]
    BY CallsOfWaitlist, OwnCall
  <2>2. Rest(a)
    BY <1>2, <2>1, NothingLeft
  <2>3. UNCHANGED waitlist
    BY <1>2 DEF CallsWaitlist, WriteRow, WriteUpdate, ArchiveRow, ArchiveBlocked, BookRow, WriteBooking, AtCall
  <2>4. Dated' <=> Dated
    BY <2>3 DEF waitlist, Dated
  <2>5. UNCHANGED <<scene, cand, chat, mishaps>> /\ run' = [run EXCEPT ![a] = Idle]
    BY <2>2 DEF Rest, Resting
  <2>6. run'[a] = Idle
    <3>1. run = [b \in Actors |-> run[b]]
      BY DEF Base, LocalsOK
    <3> QED
      BY <2>5, <3>1
  <2>7. Quietens
    BY <1>2, <2>1, <2>6, EndsQuietens
  <2> QED
    BY <2>4, <2>5, <2>7, OffersStill
<1> QED
  BY <1>1, <1>2

LEMMA PassesOffer ==
    ASSUME Base, ~ scene.overlap, OffersFit, InvitationPasses
    PROVE  OffersNext
<1>0. Expires1 # Expires2 /\ Expires1 \notin {Reminds2, Tells3} /\ Expires2 \notin {Reminds2, Tells3}
  BY ListsDiffer
<1>1. CASE ExpireInvitation
  <2>1. Works(Expires2) /\ invitation' = invitation /\ Dated /\ cand.interviewSlotId = Null
    BY <1>1 DEF ExpireInvitation, waitlist, Expires2, Expiry, Pending24, Dated
  <2> QED
    BY <1>0, <2>1, WorksOffers
<1>2. CASE RemindInvitation
  <2>1. Works(Reminds2) /\ invitation' = invitation
    BY <1>2 DEF RemindInvitation, waitlist, Reminds2, Reminder, Noted
  <2> QED
    BY <1>0, <2>1, WorksOffers
<1>3. CASE TellOfWindows
  <2>1. invitation' = invitation
    BY <1>3 DEF TellOfWindows
  <2>2. CASE Works(<<Check(TellPatch(cand)), Send("slots opened", "archive", "throw"), Update(TellPatch(cand))>>)
    <3>1. TellPatch(cand) = Tell
      BY DatedPatches
    <3>2. Works(Tells3)
      BY <2>2, <3>1 DEF Tells3, Opened
    <3> QED
      BY <1>0, <2>1, <3>2, WorksOffers
  <2>3. CASE UNCHANGED <<scene, state>>
    <3>1. UNCHANGED <<scene, cand, chat, run>>
      BY <2>3 DEF state
    <3>2. Dated' <=> Dated
      BY <2>1 DEF Dated
    <3> QED
      BY <3>1, <3>2, RunStays, OffersStill
  <2> QED
    BY <1>3, <2>2, <2>3, Zenon DEF TellOfWindows
<1> QED
  BY <1>1, <1>2, <1>3 DEF InvitationPasses

LEMMA DispatchOffers ==
    ASSUME Base, TicksFit, ~ scene.overlap, OffersFit, BeginWithWindows
    PROVE  OffersNext
<1> DEFINE t == run'["dispatcher"].todo
<1>1. /\ Quiet /\ cand' = cand /\ chat' = chat /\ invitation' = invitation
      /\ \A b \in Actors \ {"dispatcher"} : ~ RunsNow(b)
      /\ Beginning("dispatcher", t)
  BY DispatchBegins
<1>2. "dispatcher" \in Actors /\ "dispatcher" # "worker" /\ "dispatcher" # "candidate"
  BY DEF Actors
<1>3. t \notin {Invites1, Withheld}
  <2>1. AllCalm(t) \/ t = Invites3 \/ \E offered \in BOOLEAN : Looks(t, offered)
    BY <1>1, <1>2 DEF Beginning
  <2>2. Invites3 \notin {Invites1, Withheld}
    BY ListsDiffer
  <2> QED
    BY <2>1, <2>2, ListsDiffer
<1> QED
  BY <1>1, <1>2, <1>3, OffersBegin

LEMMA BeforeOffers ==
    ASSUME Base, OneAtATime, TicksFit, OffersFit, SlotsLetterArrives, ~ scene.overlap,
           "crash" \notin scene.faults, AsBefore, UNCHANGED waitlist
    PROVE  OffersNext
<1>0. invitation' = invitation /\ (Dated' <=> Dated)
  BY DEF waitlist, Dated
<1>1. CASE Fetch \/ Ack \/ LoseAck \/ \E k \in Commands : Issue(k)
  BY <1>1, CommandsOffers
<1>2. CASE Work
  <2>1. PICK t : AllCalm(t) /\ Works(t)
    BY <1>2, WorkCalm
  <2>2. t # Expires2 /\ t # Expires1
    BY <2>1, ListsDiffer
  <2> QED
    BY <1>0, <2>1, <2>2, WorksOffers
<1>3. CASE Crash
  BY <1>3 DEF Crash
<1>4. CASE \E a \in Actors : OtherCalls(a)
  BY <1>4, EveryCallOffers DEF CallsWaitlist
<1>5. CASE \E s \in Slots : Pass(s)
  <2>1. UNCHANGED <<scene, cand, chat, run>>
    BY <1>5 DEF Pass
  <2> QED
    BY <1>0, <2>1, RunStays, OffersStill
<1> QED
  BY <1>1, <1>2, <1>3, <1>4, <1>5 DEF AsBefore

LEMMA OffersStep ==
    ASSUME Base, OneAtATime, TicksFit, OffersFit, SlotsLetterArrives, ~ scene.overlap,
           "crash" \notin scene.faults, [NextWaitlist]_allVars
    PROVE  OffersFit'
<1>1. scene' = scene
  BY TicksStep
<1>2. ASSUME UNCHANGED <<scene, state>>, Dated' <=> Dated PROVE OffersNext
  <2>1. UNCHANGED <<scene, cand, chat, run>>
    BY <1>2 DEF state
  <2> QED
    BY <1>2, <2>1, RunStays, OffersStill
<1>3. CASE AsBefore /\ UNCHANGED waitlist
  <2>1. OffersNext
    BY <1>3, BeforeOffers
  <2> QED
    BY <1>1, <2>1, OffersOwe
<1>4. CASE BeginWithWindows
  BY <1>1, <1>4, DispatchOffers, OffersOwe
<1>5. CASE \E a \in Actors : WriteRow(a) \/ ArchiveRow(a) \/ BookRow(a)
  <2>1. OffersNext
    BY <1>5, EveryCallOffers DEF CallsWaitlist
  <2> QED
    BY <1>1, <2>1, OffersOwe
<1>6. CASE InvitationPasses
  BY <1>1, <1>6, PassesOffer, OffersOwe
<1>7. CASE HerTaps
  <2>1. PICK t : Taps(t) /\ (Dated \/ Sober(t))
    BY <1>7, HerTapsFit
  <2>2. invitation' = invitation
    BY <1>7 DEF HerTaps, TapWindow, TapNoSlotsFit, TapDecline, TapWithdraw, Presses
  <2>3. OffersNext
    BY <2>1, <2>2, TapsOffers
  <2> QED
    BY <1>1, <2>3, OffersOwe
<1>8. CASE \E s \in Slots : OpenWindow(s) \/ LoseWindow(s)
  <2>1. UNCHANGED <<scene, state>> /\ (Dated' <=> Dated)
    BY <1>8 DEF OpenWindow, LoseWindow, ChangesWindows, Dated
  <2>2. OffersNext
    BY <1>2, <2>1
  <2> QED
    BY <1>1, <2>2, OffersOwe
<1>9. CASE InvitationAges
  <2>1. UNCHANGED <<scene, state>>
    BY <1>9 DEF InvitationAges
  <2>2. Dated' <=> Dated
    <3>1. invitation \in [at : AtAges, reminded : BOOLEAN]
      BY DEF TicksFit, WaitlistTypeOK
    <3>2. invitation.at # "none" /\ invitation'.at # "none"
      BY <1>9, <3>1 DEF InvitationAges
    <3> QED
      BY <3>2 DEF Dated
  <2>3. OffersNext
    BY <1>2, <2>1, <2>2
  <2> QED
    BY <1>1, <2>3, OffersOwe
<1>10. CASE UNCHANGED allVars
  <2>1. UNCHANGED <<scene, state>> /\ (Dated' <=> Dated)
    BY <1>10 DEF allVars, waitlist, Dated
  <2>2. OffersNext
    BY <1>2, <2>1
  <2> QED
    BY <1>1, <2>2, OffersOwe
<1> QED
  BY <1>3, <1>4, <1>5, <1>6, <1>7, <1>8, <1>9, <1>10 DEF NextWaitlist

LEMMA FirstOffers == InitWaitlist => OffersFit
<1> SUFFICES ASSUME InitWaitlist PROVE OffersFit
  OBVIOUS
<1>1. \A a \in Actors : ~ Running(a)
  BY DEF InitWaitlist, Init, Running, Idle
<1>2. ~ Dated
  BY DEF InitWaitlist, Dated
<1>3. "worker" \in Actors /\ "dispatcher" \in Actors /\ "candidate" \in Actors
  BY DEF Actors
<1>4. \A t : ~ OnList("worker", t) /\ ~ OnList("dispatcher", t)
  BY <1>1, <1>3 DEF OnList
<1> QED
  BY <1>1, <1>2, <1>3, <1>4 DEF OffersFit, Inviting

---------------------------------------------------------------------------
(* What it says of the letters and of the red button.                      *)

LEMMA OnlyCallsTell ==
    ASSUME [NextWaitlist]_allVars, Base, chat' # chat
    PROVE  \E a \in Actors : CallsWaitlist(a)
<1>1. CASE AsBefore /\ UNCHANGED waitlist
  <2>1. CASE Fetch \/ \E k \in Commands : Issue(k)
    BY <2>1, CommandIssued DEF Fetch
  <2>2. CASE Ack \/ LoseAck
    BY <2>2, CommandEnds
  <2>3. CASE Work
    <3>1. PICK t : Works(t)
      BY <2>3, WorkCalm
    <3> QED
      BY <3>1 DEF Works
  <2>4. CASE Crash
    BY <2>4 DEF Crash
  <2>5. CASE \E a \in Actors : OtherCalls(a)
    BY <1>1, <2>5 DEF CallsWaitlist
  <2>6. CASE \E s \in Slots : Pass(s)
    BY <2>6 DEF Pass
  <2> QED
    BY <1>1, <2>1, <2>2, <2>3, <2>4, <2>5, <2>6 DEF AsBefore
<1>2. CASE BeginWithWindows
  <2>1. chat' = chat
    BY <1>2 DEF BeginWithWindows, BeginCommand
  <2> QED
    BY <2>1
<1>3. CASE \E a \in Actors : WriteRow(a) \/ ArchiveRow(a) \/ BookRow(a)
  BY <1>3 DEF CallsWaitlist
<1>4. CASE InvitationPasses
  BY <1>4, PassLists DEF state, Works
<1>5. CASE HerTaps
  <2>1. PICK t : Taps(t)
    BY <1>5, HerTapsFit
  <2> QED
    BY <2>1 DEF Taps
<1>6. CASE \E s \in Slots : OpenWindow(s) \/ LoseWindow(s)
  BY <1>6 DEF OpenWindow, LoseWindow, ChangesWindows, state
<1>7. CASE InvitationAges
  BY <1>7 DEF InvitationAges, state
<1>8. CASE UNCHANGED allVars
  BY <1>8 DEF allVars, state
<1> QED
  BY <1>1, <1>2, <1>3, <1>4, <1>5, <1>6, <1>7, <1>8 DEF NextWaitlist

LEMMA Newest ==
    ASSUME NEW m \in Nat, NEW k, k = m + 1, NEW n, n \in 1 .. k, n \notin 1 .. m
    PROVE  n = k
OBVIOUS

\* The letter that a place went to another is the last call of an expiry.
LEMMA ExpiryTold ==
    ASSUME Base, TicksFit, [NextWaitlist]_allVars, NowTold("invitation expired")
    PROVE  OnList("worker", Expires1)
<1>1. PICK n \in DOMAIN chat' \ DOMAIN chat : chat'[n].letter = "invitation expired"
  BY DEF NowTold
<1>2. PICK a \in Actors : CallsWaitlist(a)
  <2>1. chat' # chat
    BY <1>1
  <2> QED
    BY <2>1, OnlyCallsTell
<1> DEFINE t == run[a].todo
<1>3. Calls(a)
  BY <1>2, CallsOfWaitlist
<1>4. t # << >>
  <2>1. ASSUME t = << >> PROVE FALSE
    <3>1. chat' = chat
      BY <1>3, <2>1, NothingLeft DEF Rest, Resting
    <3> QED
      BY <1>1, <3>1
  <2> QED
    BY <2>1
<1>5. Running(a) /\ IsList(t)
  BY <1>3, <1>4, CallStep
<1>6. Call(a).op = "send" /\ Call(a).letter = "invitation expired"
  <2>1. PICK x : chat' = Append(chat, x) /\ x.letter = Call(a).letter /\ Call(a).op = "send"
    <3>1. chat' # chat
      BY <1>1
    <3> QED
      BY <1>3, <1>4, <3>1, LetterOfCall
  <2>2. /\ DOMAIN chat = 1 .. Len(chat) /\ DOMAIN chat' = 1 .. Len(chat') /\ Len(chat') = Len(chat) + 1
        /\ Len(chat) \in Nat /\ chat'[Len(chat')] = x
    BY <2>1, LetterAdded
  <2>3. n = Len(chat')
    <3> DEFINE m == Len(chat)
               k == Len(chat')
    <3>1. n \in 1 .. k /\ n \notin 1 .. m
      <4>1. n \in DOMAIN chat' /\ n \notin DOMAIN chat
        BY <1>1
      <4> QED
        BY <2>2, <4>1, Zenon
    <3>2. m \in Nat /\ k = m + 1
      BY <2>2
    <3> HIDE DEF m, k
    <3>3. n = k
      BY <3>1, <3>2, Newest
    <3> QED
      BY <3>3 DEF k
  <2> QED
    BY <1>1, <2>1, <2>2, <2>3
<1>7. Worded(a, t)
  BY <1>5 DEF TicksFit, WordsFit
<1>8. ~ Gentle(Call(a))
  BY <1>6 DEF Gentle, Denials
<1>9. ~ AllCalm(t)
  <2>1. ASSUME AllCalm(t) PROVE FALSE
    <3>1. Calm(Call(a))
      BY <1>4, <1>5, <2>1, TailCalm DEF Call
    <3> QED
      BY <1>8, <3>1, CalmGentle
  <2> QED
    BY <2>1
<1>10. ASSUME NEW offered \in BOOLEAN, Looks(t, offered) PROVE FALSE
  BY <1>3, <1>4, <1>6, <1>10, LooksCalls DEF Relooks
<1>11. t \notin {Invites3, Invites2, Invites1, Withheld}
  <2>1. /\ Invites3[1].op # "send" /\ Invites2[1].letter = "invitation" /\ Invites1[1].op # "send"
        /\ Withheld[1].letter = "no slots"
    BY HeadsAre
  <2>2. Call(a) = t[1]
    BY DEF Call
  <2> QED
    BY <1>6, <2>1, <2>2
<1>12. t \notin {Reminds2, Reminds1, Tells3, Tells2, Tells1, Expires2}
  <2>1. /\ Reminds2[1].letter = "invitation reminder" /\ Reminds1[1].op # "send"
        /\ Tells3[1].op # "send" /\ Tells2[1].letter = "slots opened" /\ Tells1[1].op # "send"
        /\ Expires2[1].op # "send"
    BY HeadsAre
  <2>2. Call(a) = t[1]
    BY DEF Call
  <2> QED
    BY <1>6, <2>1, <2>2
<1>13. a = "worker" /\ t = Expires1
  <2>1. a = "worker" /\ t \in {Reminds2, Reminds1, Tells3, Tells2, Tells1, Expires2, Expires1}
    BY <1>7, <1>9, <1>10, <1>11 DEF Worded
  <2> QED
    BY <1>12, <2>1
<1> QED
  BY <1>5, <1>13 DEF OnList

LEMMA DeclineIsOffered ==
    ASSUME Base, OffersFit, AtCall("candidate", "update"), Call("candidate").patches = <<Declined>>
    PROVE  Offered
<1> DEFINE t == run["candidate"].todo
<1>1. Running("candidate") /\ t # << >> /\ t[1].op = "update" /\ t[1].patches = <<Declined>>
  BY DEF AtCall, Call
<1>2. IsList(t)
  BY DEF Base, LocalsOK, LocalOK, AllFine, Actors
<1>3. 1 \in 1 .. Len(t)
  BY <1>1, <1>2, TailList
<1>4. ~ Sober(t)
  BY <1>1, <1>3 DEF Sober
<1> QED
  BY <1>1, <1>4 DEF OffersFit

\* What she was told earlier binds nobody once she waits for windows (see
\* InvitationWaitlist.OldWordsAreDead): as long as one handler runs at a time, no
\* process dies and no letter of a reschedule is lost, nobody reads that her place
\* went to another unless the last she was told was an invitation and she holds no
\* time, and no red button closes an application but that of such an invitation.
THEOREM OldWordsAreDeadAlways ==
    SpecWaitlist /\ ~ scene.overlap /\ "crash" \notin scene.faults /\ SlotsLetterArrives => OldWordsAreDead
<1> DEFINE Inv == /\ Base /\ TicksFit /\ OneAtATime /\ OffersFit
                  /\ ~ scene.overlap /\ "crash" \notin scene.faults /\ SlotsLetterArrives
           Fair == NowTold("invitation expired")
                       => LastWord \in Offers /\ (scene.overlap \/ cand.interviewSlotId = Null)
           Meant == (/\ AtCall("candidate", "update") /\ Call("candidate").patches = <<Declined>>
                     /\ cand.status # "REJECTED" /\ cand'.status = "REJECTED")
                       => LastWord \in Offers
<1>1. InitWaitlist /\ ~ scene.overlap /\ "crash" \notin scene.faults /\ SlotsLetterArrives => Inv
  BY FirstTicks, FirstOffers
<1>2. Inv /\ [NextWaitlist]_allVars => Inv' /\ Fair /\ Meant
  <2> SUFFICES ASSUME Inv, [NextWaitlist]_allVars PROVE Inv' /\ Fair /\ Meant
    OBVIOUS
  <2>1. Base' /\ TicksFit' /\ OneAtATime' /\ scene' = scene
    BY TicksStep, WaitlistBase
  <2>2. SlotsLetterArrives' <=> SlotsLetterArrives
    BY <2>1 DEF SlotsLetterArrives, Rescheduling, Commands
  <2>3. OffersFit'
    BY OffersStep
  <2>4. Fair
    <3> SUFFICES ASSUME NowTold("invitation expired") PROVE LastWord \in Offers /\ cand.interviewSlotId = Null
      OBVIOUS
    <3>1. OnList("worker", Expires1)
      BY ExpiryTold
    <3> QED
      BY <3>1, LastOffered DEF OffersFit
  <2>5. Meant
    <3> SUFFICES ASSUME AtCall("candidate", "update"), Call("candidate").patches = <<Declined>>
                 PROVE  LastWord \in Offers
      OBVIOUS
    <3> QED
      BY DeclineIsOffered, LastOffered
  <2> QED
    BY <2>1, <2>2, <2>3, <2>4, <2>5
<1> QED
  BY <1>1, <1>2, PTL DEF SpecWaitlist, OldWordsAreDead, PlacesAreNotTakenBack, DeclinesAreMeant

---------------------------------------------------------------------------
(* A booking is not forgotten.                                             *)

\* Who is past the talk has a date of it, and who holds a slot is in the interview.
AfterTalk == {"INTERVIEW_COMPLETED", "DECISION_PENDING"} \cup TrainingTrack \cup FirstShiftTrack
KeptRow(c) ==
    /\ c.status \in AfterTalk => c.interviewCompletedAt
    /\ c.interviewSlotId # Null => c.interviewCompletedAt \/ c.currentStep = "INTERVIEW"
    /\ ~ LegacyMentorWaitlist(c) /\ ~ c.discoverySlotId /\ ~ c.trainingSlotId

\* A patch past the talk that brings no date of it needs the row's.
Advances(p) ==
    "status" \in DOMAIN p /\ p["status"] \in AfterTalk /\ "interviewCompletedAt" \notin DOMAIN p
Tidy(p) ==
    /\ "currentStep" \in DOMAIN p => p["currentStep"] = "INTERVIEW"
    /\ "interviewCompletedAt" \in DOMAIN p => p["interviewCompletedAt"] = TRUE
    /\ "status" \in DOMAIN p /\ p["status"] = "INTERVIEW_COMPLETED" => "interviewCompletedAt" \in DOMAIN p
Restarts(p) ==
    "status" \in DOMAIN p /\ p["status"] = "SCREENING" /\ "currentStep" \in DOMAIN p

\* What a handler may do, by what it read: the dispatcher decides, or starts the
\* interview anew while there is no decision; the others follow one, or wait.
Modes == {"decides", "restarts", "follows", "waits"}
Careful(x, m) ==
    /\ x.op \notin {"book", "remind"}
    /\ x.op = "update" =>
          LET p == LastPatch(x) IN
          /\ Tidy(p)
          /\ Len(x.patches) = 2 => m = "restarts" /\ Restarts(p)
          /\ "hrDecision" \in DOMAIN p => m = "decides"
          /\ Advances(p) => m \in {"decides", "follows"}
AllCareful(t, m) == \A i \in 1 .. Len(t) : Careful(t[i], m)
Suits(a, m) ==
    /\ m \in {"decides", "restarts"} => a = "dispatcher"
    /\ m = "restarts" => cand.hrDecision = Null
    /\ m = "follows" => cand.hrDecision # Null

Thanks == Send("thanks", "archive", "ignore")
Completion(t, s) == t \in {<<Update(Completed), Remind(s)>>, <<Update(Completed), Remind(s), Thanks>>}
Completion1(t, s) == t \in {<<Remind(s)>>, <<Remind(s), Thanks>>}
WillRemind(s) == Completion(run["worker"].todo, s) \/ Completion1(run["worker"].todo, s)
Books(t, s) ==
    \E b : t \in {<<TakeWebSlot(s), EmptyMirror(s), Book(s, b)>>, <<EmptyMirror(s), Book(s, b)>>,
                  <<Book(s, b)>>}
Due(s) == cand.status = "INTERVIEW_SCHEDULED" /\ cand.interviewSlotId = s

\* Which list an actor has: a careful one, a completion or a booking.
OnCourse(a) ==
    LET t == run[a].todo IN
    \/ \E m \in Modes : Suits(a, m) /\ AllCareful(t, m)
    \/ a = "worker" /\ \E s \in Slots : Over(s) /\ (Completion(t, s) \/ (Completion1(t, s) /\ ~ Due(s)))
    \/ /\ a = "candidate"
       /\ \E s \in Slots : /\ Books(t, s) /\ cand.interviewSlotId # s
                           /\ ~ slots[s].reminded /\ ~ WillRemind(s)
JudgedWell ==
    \A a \in Actors : AtCall(a, "update") /\ run[a].read # Null /\ Advances(LastPatch(Call(a)))
        => cand.interviewCompletedAt
RemindedIsOver == \A s \in Slots : slots[s].reminded => Over(s) /\ ~ Due(s)
BookingsKept ==
    /\ KeptRow(cand)
    /\ \A a \in Actors : OnCourse(a)
    /\ JudgedWell
    /\ RemindedIsOver

---------------------------------------------------------------------------
(* Rows.                                                                   *)

LEMMA UpdatedStep ==
    ASSUME NEW row \in Snapshot, NEW read \in Snapshot, NEW p, PatchTyped(p)
    PROVE  LET w == Updated(row, read, p) IN
           /\ w.interviewCompletedAt = Field(p, "interviewCompletedAt", row.interviewCompletedAt)
           /\ \/ "currentStep" \in DOMAIN p /\ w.currentStep = p["currentStep"]
              \/ "currentStep" \notin DOMAIN p /\ w.currentStep = row.currentStep
              \/ /\ "currentStep" \notin DOMAIN p /\ "status" \in DOMAIN p
                 /\ RequiredStep(p["status"]) # Null /\ w.currentStep = RequiredStep(p["status"])
<1> DEFINE n == Normalized(read, p)
           w == Updated(row, read, p)
<1>1. /\ \A f \in DOMAIN p : f \in DOMAIN n
      /\ \A f \in DOMAIN n : f \in DOMAIN p \/ f \in {"currentStep", "isWaitlisted"}
      /\ \A f \in DOMAIN p : n[f] = p[f]
      /\ "currentStep" \in DOMAIN n /\ "currentStep" \notin DOMAIN p =>
            /\ "status" \in DOMAIN p
            /\ n["currentStep"] = RequiredStep(p["status"]) /\ RequiredStep(p["status"]) # Null
  BY NormalizedOf
<1>2. w = [f \in Columns |-> IF f \in DOMAIN n THEN n[f] ELSE row[f]]
  BY RowColumns DEF Updated, Written, Field
<1>3. w \in Snapshot
  BY UpdatedRow
<1> HIDE DEF n, w
<1>4. /\ w["interviewCompletedAt"] = Field(p, "interviewCompletedAt", row["interviewCompletedAt"])
      /\ w["currentStep"] = IF "currentStep" \in DOMAIN n THEN n["currentStep"] ELSE row["currentStep"]
  BY <1>1, <1>2 DEF Columns, Field
<1>5. /\ w["interviewCompletedAt"] = w.interviewCompletedAt /\ w["currentStep"] = w.currentStep
      /\ row["interviewCompletedAt"] = row.interviewCompletedAt /\ row["currentStep"] = row.currentStep
  BY <1>3 DEF Snapshot
<1> QED
  BY <1>1, <1>4, <1>5 DEF w

LEMMA StepOfTrack ==
    \A s : s \notin AfterTalk /\ RequiredStep(s) # Null => RequiredStep(s) = "INTERVIEW"
BY DEF RequiredStep, AfterTalk, InterviewTrack

\* A tidy patch keeps the row whole, if it brings the date of the talk or finds it.
LEMMA TidyKeeps ==
    ASSUME NEW row \in Snapshot, NEW read \in Snapshot, NEW p, PatchOK(p), Tidy(p),
           KeptRow(row), Advances(p) => row.interviewCompletedAt
    PROVE  LET w == Updated(row, read, p) IN
           /\ w \in Snapshot /\ KeptRow(w) /\ (row.interviewCompletedAt => w.interviewCompletedAt)
           /\ w.hrDecision = Field(p, "hrDecision", row.hrDecision)
           /\ w.interviewSlotId \in {Null, row.interviewSlotId}
           /\ w.status = Field(p, "status", row.status)
<1> DEFINE w == Updated(row, read, p)
<1>1. PatchTyped(p) /\ ("status" \in DOMAIN p => p["status"] \in Writable)
  BY DEF PatchOK
<1>2. /\ w \in Snapshot
      /\ w.status = Field(p, "status", row.status)
      /\ w.hrDecision = Field(p, "hrDecision", row.hrDecision)
      /\ w.interviewSlotId \in {Null, row.interviewSlotId}
      /\ w.discoverySlotId => row.discoverySlotId
      /\ w.trainingSlotId => row.trainingSlotId
  BY <1>1, UpdatedRow
<1>3. /\ w.interviewCompletedAt = Field(p, "interviewCompletedAt", row.interviewCompletedAt)
      /\ \/ "currentStep" \in DOMAIN p /\ w.currentStep = p["currentStep"]
         \/ "currentStep" \notin DOMAIN p /\ w.currentStep = row.currentStep
         \/ /\ "currentStep" \notin DOMAIN p /\ "status" \in DOMAIN p
            /\ RequiredStep(p["status"]) # Null /\ w.currentStep = RequiredStep(p["status"])
  BY <1>1, UpdatedStep
<1> HIDE DEF w
<1>4. row.interviewCompletedAt => w.interviewCompletedAt
  BY <1>3 DEF Tidy, Field
<1>5. w.status \in AfterTalk => w.interviewCompletedAt
  BY <1>2, <1>3, <1>4 DEF KeptRow, Advances, Tidy, Field
<1>6. w.interviewSlotId # Null => w.interviewCompletedAt \/ w.currentStep = "INTERVIEW"
  <2> SUFFICES ASSUME w.interviewSlotId # Null, ~ w.interviewCompletedAt PROVE w.currentStep = "INTERVIEW"
    OBVIOUS
  <2>1. row.currentStep = "INTERVIEW"
    BY <1>2, <1>4 DEF KeptRow
  <2>2. CASE "currentStep" \in DOMAIN p
    BY <1>3, <2>2 DEF Tidy
  <2>3. CASE /\ "currentStep" \notin DOMAIN p /\ "status" \in DOMAIN p
             /\ RequiredStep(p["status"]) # Null /\ w.currentStep = RequiredStep(p["status"])
    <3>1. p["status"] \notin AfterTalk
      BY <1>2, <1>5, <2>3 DEF Field
    <3> QED
      BY <2>3, <3>1, StepOfTrack
  <2> QED
    BY <1>3, <2>1, <2>2, <2>3
<1>7. ~ LegacyMentorWaitlist(w)
  <2> SUFFICES ASSUME w.status = "WAITLIST", w.currentStep = "TRAINING" PROVE FALSE
    BY DEF LegacyMentorWaitlist
  <2>1. "status" \notin DOMAIN p /\ row.status = "WAITLIST"
    BY <1>1, <1>2 DEF Field, Writable
  <2>2. row.currentStep = "TRAINING"
    BY <1>3, <2>1 DEF Tidy
  <2> QED
    BY <2>1, <2>2 DEF KeptRow, LegacyMentorWaitlist
<1>8. KeptRow(w)
  BY <1>2, <1>5, <1>6, <1>7 DEF KeptRow
<1> QED
  BY <1>2, <1>4, <1>8 DEF w

\* The transaction of a reschedule leaves a row that looks for a slot.
LEMMA RestartKeeps ==
    ASSUME NEW row \in Snapshot, NEW read \in Snapshot, NEW p, PatchOK(p), Tidy(p), Restarts(p),
           "hrDecision" \notin DOMAIN p, KeptRow(row)
    PROVE  LET f == Updated(row, read, Back)
               w == Updated(f, f, p) IN
           /\ w \in Snapshot /\ KeptRow(w)
           /\ w.hrDecision = row.hrDecision
           /\ w.interviewSlotId \in {Null, row.interviewSlotId}
           /\ w.status = "SCREENING"
<1> DEFINE f == Updated(row, read, Back)
           w == Updated(f, f, p)
<1>1. PatchTyped(Back) /\ PatchTyped(p) /\ "hrDecision" \notin DOMAIN Back /\ "status" \in DOMAIN Back
  BY DEF PatchTyped, PatchOK, Back, Status, Step
<1>2. /\ f \in Snapshot /\ f.hrDecision = row.hrDecision
      /\ f.interviewSlotId \in {Null, row.interviewSlotId}
      /\ f.discoverySlotId => row.discoverySlotId
      /\ f.trainingSlotId => row.trainingSlotId
  BY <1>1, UpdatedRow DEF Field
<1> HIDE DEF f
<1>3. /\ w \in Snapshot /\ w.hrDecision = f.hrDecision /\ w.status = "SCREENING"
      /\ w.interviewSlotId \in {Null, f.interviewSlotId}
      /\ w.discoverySlotId => f.discoverySlotId
      /\ w.trainingSlotId => f.trainingSlotId
  BY <1>1, <1>2, UpdatedRow DEF Field, Restarts
<1>4. w.currentStep = "INTERVIEW"
  BY <1>1, <1>2, UpdatedStep DEF Restarts, Tidy
<1> HIDE DEF w
<1>5. "SCREENING" \notin AfterTalk
  BY DEF AfterTalk, TrainingTrack, FirstShiftTrack
<1> QED
  BY <1>2, <1>3, <1>4, <1>5 DEF KeptRow, LegacyMentorWaitlist, f, w

\* The row that is booked for a talk.
LEMMA BookingKeeps ==
    ASSUME NEW row \in Snapshot, NEW read \in Snapshot, NEW s \in Slots, KeptRow(row)
    PROVE  LET w == [Updated(row, read, Status1("INTERVIEW_SCHEDULED")) EXCEPT !.interviewSlotId = s] IN
           /\ w \in Snapshot /\ KeptRow(w)
           /\ w.interviewCompletedAt = row.interviewCompletedAt /\ w.hrDecision = row.hrDecision
           /\ w.interviewSlotId = s /\ w.status = "INTERVIEW_SCHEDULED"
<1> DEFINE p == Status1("INTERVIEW_SCHEDULED")
           v == Updated(row, read, p)
           w == [v EXCEPT !.interviewSlotId = s]
<1>0. RequiredStep("INTERVIEW_SCHEDULED") = "INTERVIEW"
  BY DEF InterviewTrack, TrainingTrack, FirstShiftTrack, RequiredStep
<1>1. PatchTyped(p) /\ DOMAIN p = {"status"} /\ p["status"] = "INTERVIEW_SCHEDULED"
  BY DEF PatchTyped, Status1, Status, InterviewTrack
<1> HIDE DEF p
<1>2. /\ v \in Snapshot /\ v.status = "INTERVIEW_SCHEDULED" /\ v.hrDecision = row.hrDecision
      /\ v.discoverySlotId => row.discoverySlotId
      /\ v.trainingSlotId => row.trainingSlotId
  BY <1>1, UpdatedRow DEF Field
<1>3. v.interviewCompletedAt = row.interviewCompletedAt
  BY <1>1, UpdatedStep DEF Field
<1>4. v.currentStep = "INTERVIEW"
  <2> DEFINE n == Normalized(read, p)
  <2>1. "currentStep" \in DOMAIN n /\ n["currentStep"] = "INTERVIEW"
    <3>1. "INTERVIEW_SCHEDULED" # Null /\ "INTERVIEW" # Null
      BY ConstantsAssumption DEF Status, InterviewTrack, Step
    <3>2. Field(p, "status", Null) = "INTERVIEW_SCHEDULED" /\ Field(p, "currentStep", "INTERVIEW") = "INTERVIEW"
      BY <1>1 DEF Field
    <3>3. n = [f \in DOMAIN p \cup DOMAIN [currentStep |-> "INTERVIEW"] \cup DOMAIN NoPatch |->
                  Field([currentStep |-> "INTERVIEW"], f, Field(NoPatch, f, Field(p, f, Null)))]
      BY <1>0, <3>1, <3>2, Zenon DEF Normalized
    <3> HIDE DEF n
    <3> QED
      BY <3>3 DEF Field
  <2>2. v = [f \in Columns |-> IF f \in DOMAIN n THEN n[f] ELSE row[f]]
    BY RowColumns DEF Updated, Written, Field
  <2> HIDE DEF n, v
  <2> QED
    BY <1>2, <2>1, <2>2 DEF Columns
<1> HIDE DEF v
<1>5. /\ w \in Snapshot /\ w.interviewSlotId = s /\ w.status = v.status /\ w.hrDecision = v.hrDecision
      /\ w.discoverySlotId = v.discoverySlotId /\ w.trainingSlotId = v.trainingSlotId
  BY <1>2, RowSlot
<1>6. w.currentStep = v.currentStep /\ w.interviewCompletedAt = v.interviewCompletedAt
  BY <1>2 DEF Snapshot
<1> HIDE DEF w
<1>7. "INTERVIEW_SCHEDULED" \notin AfterTalk
  BY DEF AfterTalk, TrainingTrack, FirstShiftTrack
<1> QED
  BY <1>2, <1>3, <1>4, <1>5, <1>6, <1>7 DEF KeptRow, LegacyMentorWaitlist, w, v, p

---------------------------------------------------------------------------
(* Careful lists.                                                          *)

LEMMA CallsCareful ==
    ASSUME NEW m
    PROVE  /\ \A x : x.op \notin {"update", "book", "remind"} => Careful(x, m)
           /\ \A p : Tidy(p) /\ "hrDecision" \notin DOMAIN p /\ ~ Advances(p)
                 => Careful(Update(p), m) /\ Careful(Attempt(p), m)
           /\ \A p : Tidy(p) /\ m = "decides" => Careful(Update(p), m)
           /\ \A p : Tidy(p) /\ "hrDecision" \notin DOMAIN p /\ m = "follows" => Careful(Update(p), m)
           /\ \A p : Tidy(p) /\ Restarts(p) /\ "hrDecision" \notin DOMAIN p /\ ~ Advances(p) /\ m = "restarts"
                 => Careful(Transaction(<<Back, p>>), m)
           /\ \A p : Careful(Check(p), m)
           /\ \A w : Careful(Refuse(w), m)
           /\ \A l, b, f : Careful(Send(l, b, f), m)
           /\ \A s : Careful(Free(s), m) /\ Careful(TakeWebSlot(s), m) /\ Careful(Restore(s), m)
           /\ \A s, w : Careful(Cancel(s, w), m)
           /\ Careful(Release, m) /\ Careful(Archive, m) /\ Careful(Move, m) /\ Careful(Mark, m)
<1>1. \A x : x.op \notin {"update", "book", "remind"} => Careful(x, m)
  BY DEF Careful
<1>2. ASSUME NEW p
      PROVE  /\ Tidy(p) /\ "hrDecision" \notin DOMAIN p /\ ~ Advances(p)
                   => Careful(Update(p), m) /\ Careful(Attempt(p), m)
             /\ Tidy(p) /\ m = "decides" => Careful(Update(p), m)
             /\ Tidy(p) /\ "hrDecision" \notin DOMAIN p /\ m = "follows" => Careful(Update(p), m)
             /\ Tidy(p) /\ Restarts(p) /\ "hrDecision" \notin DOMAIN p /\ ~ Advances(p) /\ m = "restarts"
                   => Careful(Transaction(<<Back, p>>), m)
  <2>1. Len(<<p>>) = 1 /\ <<p>>[1] = p /\ Len(<<Back, p>>) = 2 /\ <<Back, p>>[2] = p
    BY ShortLists, Tails
  <2>2. /\ LastPatch(Update(p)) = p /\ LastPatch(Attempt(p)) = p /\ LastPatch(Transaction(<<Back, p>>)) = p
        /\ Len(Update(p).patches) = 1 /\ Len(Attempt(p).patches) = 1
        /\ Update(p).op = "update" /\ Attempt(p).op = "update" /\ Transaction(<<Back, p>>).op = "update"
    BY <2>1 DEF LastPatch, Update, Attempt, Transaction
  <2> QED
    BY <2>2 DEF Careful
<1>3. /\ \A p : Check(p).op = "check"
      /\ \A w : Refuse(w).op = "refuse"
      /\ \A l, b, f : Send(l, b, f).op = "send"
      /\ \A s : Free(s).op = "free" /\ TakeWebSlot(s).op = "take" /\ Restore(s).op = "restore"
      /\ \A s, w : Cancel(s, w).op = "cancel"
      /\ Release.op = "release" /\ Archive.op = "archive" /\ Move.op = "move" /\ Mark.op = "mark"
  BY DEF Check, Refuse, Send, Free, TakeWebSlot, Restore, Cancel, Release, Archive, Move, Mark
<1> QED
  BY <1>1, <1>2, <1>3

LEMMA ShortCareful ==
    ASSUME NEW m, NEW x, NEW y, NEW z
    PROVE  /\ AllCareful(<< >>, m)
           /\ Careful(x, m) => AllCareful(<<x>>, m)
           /\ Careful(x, m) /\ Careful(y, m) => AllCareful(<<x, y>>, m)
           /\ Careful(x, m) /\ Careful(y, m) /\ Careful(z, m) => AllCareful(<<x, y, z>>, m)
<1>1. Len(<< >>) = 0 /\ Len(<<x>>) = 1 /\ Len(<<x, y>>) = 2 /\ Len(<<x, y, z>>) = 3
  BY EmptyList, ShortLists
<1>2. /\ <<x>>[1] = x /\ <<x, y>>[1] = x /\ <<x, y>>[2] = y
      /\ <<x, y, z>>[1] = x /\ <<x, y, z>>[2] = y /\ <<x, y, z>>[3] = z
  BY Tails
<1>3. AllCareful(<< >>, m)
  BY <1>1 DEF AllCareful
<1>4. /\ Careful(x, m) => AllCareful(<<x>>, m)
      /\ Careful(x, m) /\ Careful(y, m) => AllCareful(<<x, y>>, m)
  BY <1>1, <1>2 DEF AllCareful
<1>5. Careful(x, m) /\ Careful(y, m) /\ Careful(z, m) => AllCareful(<<x, y, z>>, m)
  BY <1>1, <1>2 DEF AllCareful
<1> QED
  BY <1>3, <1>4, <1>5

LEMMA JoinedCareful ==
    ASSUME NEW m, NEW s, NEW t, IsList(s), IsList(t), AllCareful(s, m), AllCareful(t, m)
    PROVE  IsList(s \o t) /\ AllCareful(s \o t, m)
<1> DEFINE u == s \o t
<1>1. /\ IsList(u) /\ Len(s) \in Nat /\ Len(t) \in Nat /\ Len(u) = Len(s) + Len(t)
      /\ \A i \in 1 .. Len(s) : u[i] = s[i]
      /\ \A i \in 1 .. Len(t) : u[Len(s) + i] = t[i]
  BY JoinedList
<1> HIDE DEF u
<1>2. ASSUME NEW i \in 1 .. Len(u) PROVE Careful(u[i], m)
  <2>1. CASE i <= Len(s)
    BY <1>1, <2>1 DEF AllCareful
  <2>2. CASE ~ (i <= Len(s))
    <3> DEFINE j == i - Len(s)
    <3>1. j \in 1 .. Len(t) /\ Len(s) + j = i
      BY <1>1, <2>2
    <3> HIDE DEF j
    <3> QED
      BY <1>1, <3>1 DEF AllCareful
  <2> QED
    BY <2>1, <2>2
<1> QED
  BY <1>1, <1>2 DEF AllCareful, u

LEMMA TailCareful ==
    ASSUME NEW m, NEW t, IsList(t), t # << >>, AllCareful(t, m)
    PROVE  AllCareful(Tail(t), m) /\ Careful(t[1], m)
<1>1. /\ Len(t) \in Nat \ {0} /\ Len(Tail(t)) = Len(t) - 1
      /\ \A i \in 1 .. Len(t) - 1 : Tail(t)[i] = t[i + 1]
  BY TailList
<1>2. ASSUME NEW i \in 1 .. Len(Tail(t)) PROVE Careful(Tail(t)[i], m)
  <2>1. i \in 1 .. Len(t) - 1 /\ i + 1 \in 1 .. Len(t)
    BY <1>1
  <2> QED
    BY <1>1, <2>1 DEF AllCareful
<1> QED
  BY <1>1, <1>2 DEF AllCareful

\* Who may wait may do anything else besides.
LEMMA WaitingIsCareful ==
    ASSUME NEW t, AllCareful(t, "waits"), NEW m
    PROVE  AllCareful(t, m)
BY DEF AllCareful, Careful

---------------------------------------------------------------------------
(* The patches of the handlers.                                            *)

\* Patches of no decision and no stage past the talk.
Humble(p) == Tidy(p) /\ "hrDecision" \notin DOMAIN p /\ ~ Advances(p)

\* Columns that none of this is about.
Aside(q) == \A f \in {"status", "currentStep", "interviewCompletedAt", "hrDecision"} : f \notin DOMAIN q

LEMMA PlainPatchesCareful ==
    /\ Humble(Unlink) /\ Humble([notificationSent |-> TRUE]) /\ Humble(Completed)
    /\ Humble([status |-> "INTERVIEW_COMPLETED", currentStep |-> "INTERVIEW", interviewCompletedAt |-> TRUE])
    /\ Humble([status |-> "REJECTED", notificationSent |-> TRUE])
    /\ \A s : /\ s # "INTERVIEW_COMPLETED" => Tidy(Status1(s))
              /\ s \notin AfterTalk => Humble(Status1(s))
    /\ \A d : Tidy(Closed(d))
    /\ Tidy([status |-> "MENTOR_MANUAL", hrDecision |-> "ACCEPTED", notificationSent |-> FALSE,
             materialsSent |-> FALSE, isWaitlisted |-> FALSE])
    /\ Tidy([status |-> "REJECTED", currentStep |-> "INTERVIEW", hrDecision |-> "REJECTED",
             notificationSent |-> FALSE, materialsSent |-> FALSE])
    /\ LET p == [status |-> "MENTOR_MANUAL", notificationSent |-> TRUE] IN
       Tidy(p) /\ "hrDecision" \notin DOMAIN p
<1>0. "REJECTED" \notin AfterTalk /\ "INTERVIEW_COMPLETED" \in AfterTalk
  BY DEF AfterTalk, TrainingTrack, FirstShiftTrack
<1>1. Humble(Unlink) /\ Humble([notificationSent |-> TRUE]) /\ Humble(Completed)
  BY <1>0 DEF Humble, Tidy, Advances, Unlink, Completed
<1>2. Humble([status |-> "INTERVIEW_COMPLETED", currentStep |-> "INTERVIEW", interviewCompletedAt |-> TRUE])
  BY <1>0 DEF Humble, Tidy, Advances
<1>3. Humble([status |-> "REJECTED", notificationSent |-> TRUE])
  BY <1>0 DEF Humble, Tidy, Advances
<1>4. \A s : /\ s # "INTERVIEW_COMPLETED" => Tidy(Status1(s))
             /\ s \notin AfterTalk => Humble(Status1(s))
  BY <1>0 DEF Humble, Tidy, Advances, Status1
<1>5. \A d : Tidy(Closed(d))
  BY DEF Tidy, Closed
<1>6. Tidy([status |-> "MENTOR_MANUAL", hrDecision |-> "ACCEPTED", notificationSent |-> FALSE,
            materialsSent |-> FALSE, isWaitlisted |-> FALSE])
  BY DEF Tidy
<1>7. Tidy([status |-> "REJECTED", currentStep |-> "INTERVIEW", hrDecision |-> "REJECTED",
            notificationSent |-> FALSE, materialsSent |-> FALSE])
  BY DEF Tidy
<1>8. LET p == [status |-> "MENTOR_MANUAL", notificationSent |-> TRUE] IN Tidy(p) /\ "hrDecision" \notin DOMAIN p
  BY DEF Tidy
<1> QED
  BY <1>1, <1>2, <1>3, <1>4, <1>5, <1>6, <1>7, <1>8

LEMMA WithCareful ==
    ASSUME NEW p, NEW q, Aside(q)
    PROVE  LET w == With(p, q) IN
           /\ Tidy(p) => Tidy(w)
           /\ Humble(p) => Humble(w)
           /\ Restarts(p) => Restarts(w)
           /\ Aside(p) => Aside(w)
<1> DEFINE w == With(p, q)
<1>1. /\ \A f : f \in DOMAIN w <=> f \in DOMAIN p \/ f \in DOMAIN q
      /\ \A f \in DOMAIN p : w[f] = p[f]
  BY WithColumns
<1> HIDE DEF w
<1>2. /\ "status" \in DOMAIN w <=> "status" \in DOMAIN p
      /\ "currentStep" \in DOMAIN w <=> "currentStep" \in DOMAIN p
      /\ "interviewCompletedAt" \in DOMAIN w <=> "interviewCompletedAt" \in DOMAIN p
      /\ "hrDecision" \in DOMAIN w <=> "hrDecision" \in DOMAIN p
      /\ "status" \in DOMAIN p => w["status"] = p["status"]
      /\ "currentStep" \in DOMAIN p => w["currentStep"] = p["currentStep"]
      /\ "interviewCompletedAt" \in DOMAIN p => w["interviewCompletedAt"] = p["interviewCompletedAt"]
  BY <1>1 DEF Aside
<1> QED
  BY <1>2 DEF Tidy, Humble, Advances, Restarts, Aside, w

LEMMA AsidePatches ==
    /\ \A b : Aside(Queued(b))
    /\ Aside(Uninvited) /\ Aside(NoPatch) /\ Aside([interviewWaitlistedAt |-> TRUE])
    /\ Aside(With(Queued(FALSE), Uninvited))
    /\ \A b : Aside(With(Queued(b), NoPatch)) /\ Aside(With(Queued(b), [interviewWaitlistedAt |-> TRUE]))
<1>1. /\ \A b : Aside(Queued(b))
      /\ Aside(Uninvited) /\ Aside(NoPatch) /\ Aside([interviewWaitlistedAt |-> TRUE])
  BY DEF Aside, Queued, Uninvited, NoPatch
<1> QED
  BY <1>1, WithCareful

LEMMA MixedPatchesCareful ==
    /\ Humble(Bar) /\ Humble(Waiting) /\ Humble(Invited)
    /\ \A o \in BOOLEAN : Humble(Looking(o)) /\ Restarts(Looking(o))
    /\ Tidy(With([status |-> "REJECTED", isWaitlisted |-> FALSE, notificationSent |-> FALSE],
                 With(Queued(FALSE), Uninvited)))
    /\ \A d : Tidy(With([status |-> "REJECTED", isWaitlisted |-> FALSE, notificationSent |-> FALSE,
                         hrDecision |-> d], With(Queued(FALSE), Uninvited)))
<1>0. {"BLOCKER", "WAITLIST_HR", "SCREENING"} \cap AfterTalk = {}
  BY DEF AfterTalk, TrainingTrack, FirstShiftTrack
<1>1. Humble(Bar)
  <2> DEFINE p == [status |-> "BLOCKER", notificationSent |-> FALSE, isWaitlisted |-> FALSE]
  <2>1. Humble(p)
    BY <1>0 DEF Humble, Tidy, Advances
  <2> HIDE DEF p
  <2> QED
    BY <2>1, AsidePatches, WithCareful DEF Bar, p
<1>2. Humble(Waiting)
  <2> DEFINE p == [status |-> "WAITLIST_HR", currentStep |-> "INTERVIEW", isWaitlisted |-> TRUE,
                   notificationSent |-> FALSE, interviewSlotId |-> Null, interviewWaitlistedAt |-> TRUE]
  <2>1. Humble(p)
    BY <1>0 DEF Humble, Tidy, Advances
  <2> HIDE DEF p
  <2> QED
    BY <2>1, AsidePatches, WithCareful DEF Waiting, p
<1>3. Humble(Invited)
  <2> DEFINE p == [notificationSent |-> TRUE, status |-> "SCREENING", isWaitlisted |-> FALSE,
                   interviewInvitedAt |-> TRUE, interviewInviteReminderSentAt |-> FALSE]
  <2>1. Humble(p)
    BY <1>0 DEF Humble, Tidy, Advances
  <2> HIDE DEF p
  <2> QED
    BY <2>1, AsidePatches, WithCareful DEF Invited, p
<1>4. ASSUME NEW o \in BOOLEAN PROVE Humble(Looking(o)) /\ Restarts(Looking(o))
  <2> DEFINE p == [status |-> "SCREENING", currentStep |-> "INTERVIEW", notificationSent |-> o,
                   isWaitlisted |-> FALSE, interviewInvitedAt |-> o, interviewInviteReminderSentAt |-> FALSE]
             q == IF o THEN NoPatch ELSE [interviewWaitlistedAt |-> TRUE]
             r == With(Queued(~ o), q)
  <2>1. Humble(p) /\ Restarts(p)
    BY <1>0 DEF Humble, Tidy, Advances, Restarts
  <2>2. Aside(q) /\ Aside(Queued(~ o))
    BY AsidePatches
  <2>3. Looking(o) = With(p, r)
    BY DEF Looking
  <2> HIDE DEF p, q
  <2>4. Aside(r)
    BY <2>2, WithCareful
  <2> HIDE DEF r
  <2> QED
    BY <2>1, <2>3, <2>4, WithCareful
<1>5. Tidy(With([status |-> "REJECTED", isWaitlisted |-> FALSE, notificationSent |-> FALSE],
                With(Queued(FALSE), Uninvited)))
  <2> DEFINE p == [status |-> "REJECTED", isWaitlisted |-> FALSE, notificationSent |-> FALSE]
  <2>1. Tidy(p)
    BY DEF Tidy
  <2> HIDE DEF p
  <2> QED
    BY <2>1, AsidePatches, WithCareful DEF p
<1>6. ASSUME NEW d
      PROVE  Tidy(With([status |-> "REJECTED", isWaitlisted |-> FALSE, notificationSent |-> FALSE,
                        hrDecision |-> d], With(Queued(FALSE), Uninvited)))
  <2> DEFINE p == [status |-> "REJECTED", isWaitlisted |-> FALSE, notificationSent |-> FALSE, hrDecision |-> d]
  <2>1. Tidy(p)
    BY DEF Tidy
  <2> HIDE DEF p
  <2> QED
    BY <2>1, AsidePatches, WithCareful DEF p
<1> QED
  BY <1>1, <1>2, <1>3, <1>4, <1>5, <1>6

\* Nobody is led past the talk who has no date of it.
LEMMA AdmittedAdvance ==
    ASSUME NEW read \in Snapshot, KeptRow(read), NEW p, PatchOK(p), Tidy(p), Advances(p), Admits(read, p)
    PROVE  read.interviewCompletedAt
<1> DEFINE s == p["status"]
<1>1. PatchTyped(p) /\ s \in Writable /\ s \in AfterTalk /\ s # "INTERVIEW_COMPLETED"
      /\ Field(p, "status", read.status) = s
  BY DEF PatchOK, Advances, Tidy, Field
<1>2. s = read.status \/ AllowsTransition(read, s)
  BY <1>1, AdmittedMoves
<1> HIDE DEF s
<1>3. s \in {"MENTOR_MANUAL", "TRAINING_COMPLETED", "STAGING_SETUP", "STAGING_ACTIVE", "READY_FOR_HIRE", "HIRED"}
  BY <1>1 DEF Writable, AfterTalk, TrainingTrack, FirstShiftTrack
<1>4. Sources[s] \subseteq AfterTalk
  BY <1>3, SourcesOf DEF AfterTalk, TrainingTrack, FirstShiftTrack
<1>5. ~ LegacyMentorWaitlist(read) /\ (InMentorTrack(read) => read.status \in AfterTalk)
  BY DEF KeptRow, InMentorTrack, AfterTalk
<1>6. read.status \in AfterTalk
  BY <1>1, <1>2, <1>3, <1>4, <1>5 DEF AllowsTransition
<1> QED
  BY <1>6 DEF KeptRow

---------------------------------------------------------------------------
(* What each command leads to.                                             *)

LEMMA PairCareful ==
    ASSUME NEW m, NEW x, NEW y, Careful(x, m), Careful(y, m)
    PROVE  AllCareful(<<x>>, m) /\ AllCareful(<<x, y>>, m) /\ IsList(<<x>>) /\ IsList(<<x, y>>)
BY ShortCareful, ShortLists

LEMMA InviteCareful ==
    ASSUME NEW c, age \in Ages
    PROVE  AllCareful(inviteCandidate(c), "decides")
<1> DEFINE t == inviteCandidate(c)
           v == With(Queued(FALSE), Uninvited)
           p == With([status |-> "REJECTED", isWaitlisted |-> FALSE, notificationSent |-> FALSE], v)
           q(d) == With([status |-> "REJECTED", isWaitlisted |-> FALSE, notificationSent |-> FALSE,
                         hrDecision |-> d], v)
           r == Refuse("failed")
<1>1. CASE age = "not a woman"
  <2>1. t = <<Update(p), r>>
    BY <1>1, Zenon DEF inviteCandidate
  <2>2. Tidy(p)
    BY MixedPatchesCareful
  <2> HIDE DEF p
  <2>3. Careful(Update(p), "decides") /\ Careful(r, "decides")
    BY <2>2, CallsCareful
  <2> DEFINE x == Update(p)
  <2> HIDE DEF x, r, t
  <2> QED
    BY <2>1, <2>3, PairCareful DEF x, t
<1>2. CASE age \in {"underage", "too old"}
  <2> DEFINE d == IF age = "underage" THEN "REJECTED_SYSTEM_UNDERAGE" ELSE "AGE_LIMIT"
  <2>1. t = <<Update(q(d)), r>>
    BY <1>2, Zenon DEF inviteCandidate
  <2> DEFINE w == q(d)
  <2>2. Tidy(w)
    BY MixedPatchesCareful
  <2> HIDE DEF w
  <2>3. Careful(Update(w), "decides") /\ Careful(r, "decides")
    BY <2>2, CallsCareful
  <2> DEFINE x == Update(w)
  <2>4. t = <<x, r>>
    BY <2>1 DEF w
  <2> HIDE DEF x, r, t
  <2> QED
    BY <2>4, <2>3, PairCareful DEF x, t
<1>3. CASE age = "fits"
  <2> DEFINE x == Check(Invited)
             y == Send("invitation", "bar", "throw")
             z == Update(Invited)
  <2>1. t = <<x, y, z>>
    BY <1>3, Zenon DEF inviteCandidate
  <2>2. Humble(Invited)
    BY MixedPatchesCareful
  <2>3. Careful(x, "decides") /\ Careful(y, "decides") /\ Careful(z, "decides")
    BY <2>2, CallsCareful DEF Humble
  <2> HIDE DEF x, y, z, t
  <2> QED
    BY <2>1, <2>3, ShortCareful DEF t
<1> QED
  BY <1>1, <1>2, <1>3 DEF Ages

LEMMA RescheduleCareful ==
    ASSUME NEW c, NEW again, NEW offered \in BOOLEAN
    PROVE  LET t == rescheduleInterviewByCommand(c, again, offered) IN
           \/ AllCareful(t, "decides")
           \/ c.hrDecision = Null /\ AllCareful(t, "restarts")
<1> DEFINE t == rescheduleInterviewByCommand(c, again, offered)
           m == "restarts"
           l == Send(IF offered THEN "slots" ELSE "no slots", "archive", "throw")
           x == Update(Looking(offered))
           z == Transaction(<<Back, Looking(offered)>>)
           r == Refuse("state_conflict")
           letGo == <<Release>> \o cancelIfBooked(c)
<1>1. t = <<r>> \/ (c.hrDecision = Null /\ (t = <<x, l>> \/ t = letGo \o <<z, l>>))
  BY Zenon DEF rescheduleInterviewByCommand, Back, isReschedulable, isAlreadyRescheduled
<1>2. AllCareful(<<r>>, "decides")
  <2>1. Careful(r, "decides")
    BY CallsCareful
  <2> HIDE DEF r
  <2> QED
    BY <2>1, ShortCareful
<1>3. Careful(x, m) /\ Careful(z, m) /\ Careful(l, m)
  <2>1. Humble(Looking(offered)) /\ Restarts(Looking(offered))
    BY MixedPatchesCareful
  <2> QED
    BY <2>1, CallsCareful DEF Humble
<1>4. IsList(letGo) /\ AllCareful(letGo, m)
  <2> DEFINE q == Cancel(c.interviewSlotId, FALSE)
  <2>1. Careful(Release, m) /\ Careful(q, m)
    BY CallsCareful
  <2>2. letGo = <<Release>> \o << >> \/ letGo = <<Release>> \o <<q>>
    BY Zenon DEF cancelIfBooked
  <2> HIDE DEF q, letGo
  <2>3. letGo = <<Release>> \/ letGo = <<Release, q>>
    BY <2>2, JoinedPair
  <2>4. AllCareful(<<Release>>, m) /\ AllCareful(<<Release, q>>, m) /\ IsList(<<Release>>) /\ IsList(<<Release, q>>)
    BY <2>1, PairCareful
  <2> QED
    BY <2>3, <2>4
<1> HIDE DEF x, z, letGo, r, l
<1>5. AllCareful(<<x, l>>, m) /\ AllCareful(<<z, l>>, m) /\ IsList(<<z, l>>)
  BY <1>3, PairCareful
<1>6. AllCareful(letGo \o <<z, l>>, m)
  BY <1>4, <1>5, JoinedCareful
<1> HIDE DEF t
<1>7. CASE t = <<r>>
  BY <1>2, <1>7 DEF t
<1>8. CASE c.hrDecision = Null /\ t = <<x, l>>
  BY <1>5, <1>8 DEF t
<1>9. CASE c.hrDecision = Null /\ t = letGo \o <<z, l>>
  BY <1>6, <1>9 DEF t
<1> QED
  BY <1>1, <1>7, <1>8, <1>9

LEMMA AcceptCareful ==
    ASSUME NEW c
    PROVE  AllCareful(acceptAfterInterview(c), "decides")
<1> DEFINE t == acceptAfterInterview(c)
           m == "decides"
           completed == [status |-> "INTERVIEW_COMPLETED", currentStep |-> "INTERVIEW",
                         interviewCompletedAt |-> TRUE]
           accepted == [status |-> "MENTOR_MANUAL", hrDecision |-> "ACCEPTED",
                        notificationSent |-> FALSE, materialsSent |-> FALSE, isWaitlisted |-> FALSE]
           x == Update(completed)
           y == Update(accepted)
           l == Send("offer", "archive", "throw")
           last == <<l, NoteTold>>
<1>1. t = << >> \/ t = << >> \o last \/ t = <<x, y>> \o last \/ t = <<y>> \o last
  BY Zenon DEF acceptAfterInterview, NoteTold
<1>2. Tidy(completed) /\ Tidy(accepted) /\ Tidy([notificationSent |-> TRUE])
  BY PlainPatchesCareful DEF Humble
<1>3. Careful(x, m) /\ Careful(y, m) /\ Careful(l, m) /\ Careful(NoteTold, m)
  BY <1>2, CallsCareful DEF NoteTold
<1> HIDE DEF t, x, y, l, NoteTold
<1>4. /\ IsList(last) /\ AllCareful(last, m) /\ IsList(<<x, y>>) /\ AllCareful(<<x, y>>, m)
      /\ IsList(<<y>>) /\ AllCareful(<<y>>, m)
  BY <1>3, PairCareful
<1>5. AllCareful(<< >>, m)
  BY ShortCareful
<1> HIDE DEF last
<1>6. AllCareful(<<x, y>> \o last, m) /\ AllCareful(<<y>> \o last, m)
  BY <1>4, JoinedCareful
<1> QED
  BY <1>1, <1>4, <1>5, <1>6, EmptyBefore DEF t

LEMMA RejectAfterCareful ==
    ASSUME NEW c
    PROVE  AllCareful(rejectAfterInterview(c), "decides")
<1> DEFINE t == rejectAfterInterview(c)
           m == "decides"
           rejected == [status |-> "REJECTED", currentStep |-> "INTERVIEW", hrDecision |-> "REJECTED",
                        notificationSent |-> FALSE, materialsSent |-> FALSE]
           letter == IF beforeMeeting(c) THEN "rejection" ELSE "thanks for the talk, rejection"
           x == Update(rejected)
           l == Send(letter, "archive", "throw")
           last == <<l, NoteTold>>
           q == Cancel(c.interviewSlotId, FALSE)
           letGo == <<Release>> \o cancelIfBooked(c)
<1>1. \/ t = << >>
      \/ t = << >> \o last
      \/ t = (letGo \o <<x>>) \o last
      \/ t = (<< >> \o <<x>>) \o last
  BY Zenon DEF rejectAfterInterview, NoteTold
<1>2. Tidy(rejected) /\ Tidy([notificationSent |-> TRUE])
  BY PlainPatchesCareful DEF Humble
<1>3. /\ Careful(x, m) /\ Careful(l, m) /\ Careful(NoteTold, m) /\ Careful(Release, m) /\ Careful(q, m)
  BY <1>2, CallsCareful DEF NoteTold
<1>4. letGo = <<Release>> \o << >> \/ letGo = <<Release>> \o <<q>>
  BY Zenon DEF cancelIfBooked
<1> HIDE DEF t, x, l, NoteTold, q, letGo
<1>5. IsList(letGo) /\ AllCareful(letGo, m)
  <2>1. letGo = <<Release>> \/ letGo = <<Release, q>>
    BY <1>4, JoinedPair
  <2>2. AllCareful(<<Release>>, m) /\ AllCareful(<<Release, q>>, m) /\ IsList(<<Release>>) /\ IsList(<<Release, q>>)
    BY <1>3, PairCareful
  <2> QED
    BY <2>1, <2>2
<1>6. IsList(last) /\ AllCareful(last, m) /\ IsList(<<x>>) /\ AllCareful(<<x>>, m)
  BY <1>3, PairCareful
<1>7. IsList(<< >>) /\ AllCareful(<< >>, m)
  BY EmptyList, ShortCareful
<1> HIDE DEF last
<1>8. \A f : IsList(f) /\ AllCareful(f, m) => AllCareful((f \o <<x>>) \o last, m)
  BY <1>6, JoinedCareful
<1>9. AllCareful(<< >> \o last, m)
  BY <1>6, <1>7, JoinedCareful
<1> QED
  BY <1>1, <1>5, <1>7, <1>8, <1>9 DEF t

LEMMA RejectCareful ==
    ASSUME NEW c, NEW k
    PROVE  AllCareful(Reject(c, k), "decides")
<1> DEFINE x == Send("training rejection", "ignore", "throw")
           y == Send("rejection", "ignore", "ignore")
           t == Reject(c, k)
           m == "decides"
<1>1. t = << >> \/ t = <<x, Mark>> \o <<Close>> \/ t = << >> \o <<Close>> \/ t = <<Close, y>>
  <2>1. CASE c.status = "REJECTED"
    BY Zenon, <2>1 DEF Reject, ManualContour
  <2>2. CASE c.status # "REJECTED" /\ c.status \in ManualContour
    BY Zenon, <2>2 DEF Reject, Close
  <2>3. CASE c.status # "REJECTED" /\ c.status \notin ManualContour
    BY Zenon, <2>3 DEF Reject, Close
  <2> QED
    BY <2>1, <2>2, <2>3
<1>2. Tidy(Closed("REJECTED"))
  BY PlainPatchesCareful
<1>3. Careful(x, m) /\ Careful(y, m) /\ Careful(Mark, m) /\ Careful(Close, m)
  BY <1>2, CallsCareful DEF Close
<1> HIDE DEF x, y, t, Close, Mark
<1>4. /\ AllCareful(<<x, Mark>>, m) /\ IsList(<<x, Mark>>) /\ AllCareful(<<Close>>, m) /\ IsList(<<Close>>)
      /\ AllCareful(<<Close, y>>, m)
  BY <1>3, PairCareful
<1>5. IsList(<< >>) /\ AllCareful(<< >>, m)
  BY EmptyList, ShortCareful
<1>6. AllCareful(<<x, Mark>> \o <<Close>>, m) /\ AllCareful(<< >> \o <<Close>>, m)
  BY <1>4, <1>5, JoinedCareful
<1> QED
  BY <1>1, <1>4, <1>5, <1>6 DEF t

LEMMA PathCareful ==
    ASSUME NEW c, NEW path \in Seq(Writable \ {"INTERVIEW_COMPLETED"}), path # << >>
    PROVE  AllCareful(applySilentStatusPath(c, path), "decides")
<1> DEFINE S == Writable \ {"INTERVIEW_COMPLETED"}
           ahead == IF path[1] = c.status THEN Tail(path) ELSE path
           t == [i \in DOMAIN ahead |-> Update(Status1(ahead[i]))]
<1>1. ahead \in Seq(S)
  OBVIOUS
<1> HIDE DEF ahead
<1>2. t = [i \in 1 .. Len(ahead) |-> Update(Status1(ahead[i]))] /\ Len(ahead) \in Nat
      /\ \A i \in 1 .. Len(ahead) : ahead[i] # "INTERVIEW_COMPLETED"
  BY <1>1
<1>3. t \in Seq({Update(Status1(s)) : s \in S}) /\ Len(t) = Len(ahead)
  BY <1>1, <1>2
<1>4. \A i \in 1 .. Len(t) : t[i] = Update(Status1(ahead[i])) /\ ahead[i] # "INTERVIEW_COMPLETED"
  BY <1>2, <1>3
<1>5. \A s : s # "INTERVIEW_COMPLETED" => Careful(Update(Status1(s)), "decides")
  BY PlainPatchesCareful, CallsCareful
<1>6. AllCareful(t, "decides")
  BY <1>4, <1>5 DEF AllCareful
<1> QED
  BY <1>6 DEF applySilentStatusPath, ahead

LEMMA MoveCareful ==
    ASSUME NEW c, NEW again
    PROVE  AllCareful(changeLocation(c, again), "decides")
<1> DEFINE t == changeLocation(c, again)
           r == Refuse("failed")
           m == "decides"
<1>1. t \in {<<r>>, << >>, <<Move, TellOfMove>>, <<TellOfMove>>}
  BY Zenon DEF changeLocation, TellOfMove
<1>2. Careful(r, m) /\ Careful(Move, m) /\ Careful(TellOfMove, m)
  BY CallsCareful DEF TellOfMove
<1> HIDE DEF t, r, Move, TellOfMove
<1> QED
  BY <1>1, <1>2, PairCareful, ShortCareful DEF t

\* What a command leads to suits the row it has read.
LEMMA TodoCareful ==
    ASSUME TypeOK, NEW k \in Commands, outbox[k].kind \in KindNames, NEW n, NEW offered \in BOOLEAN
    PROVE  LET t == Todo(k, n, offered) IN
           AllCareful(t, "decides") \/ (cand.hrDecision = Null /\ AllCareful(t, "restarts"))
<1> DEFINE m == "decides"
<1>1. age \in Ages
  BY DEF TypeOK
<1>2. /\ AllCareful(inviteCandidate(cand), m)
      /\ \/ AllCareful(rescheduleInterviewByCommand(cand, n > 0, offered), m)
         \/ cand.hrDecision = Null /\ AllCareful(rescheduleInterviewByCommand(cand, n > 0, offered), "restarts")
      /\ AllCareful(acceptAfterInterview(cand), m)
      /\ AllCareful(rejectAfterInterview(cand), m)
      /\ AllCareful(Reject(cand, k), m)
      /\ AllCareful(changeLocation(cand, n > 0), m)
  BY <1>1, InviteCareful, RescheduleCareful, AcceptCareful, RejectAfterCareful, RejectCareful, MoveCareful, Zenon
<1>3. /\ AllCareful(applySilentStatusPath(cand, <<"TRAINING_COMPLETED">>), m)
      /\ AllCareful(applySilentStatusPath(cand, startStagingPath(cand.status)), m)
      /\ AllCareful(applySilentStatusPath(cand, stagingPassedPath(cand.status)), m)
  <2> DEFINE S == Writable \ {"INTERVIEW_COMPLETED"}
  <2>1. {"TRAINING_COMPLETED", "STAGING_SETUP", "STAGING_ACTIVE", "READY_FOR_HIRE"} \subseteq S
    BY DEF Writable
  <2> HIDE DEF S
  <2>2. /\ <<"TRAINING_COMPLETED">> \in Seq(S) /\ <<"TRAINING_COMPLETED">> # << >>
        /\ <<"STAGING_ACTIVE">> \in Seq(S) /\ <<"STAGING_ACTIVE">> # << >>
        /\ <<"STAGING_SETUP", "STAGING_ACTIVE">> \in Seq(S) /\ <<"STAGING_SETUP", "STAGING_ACTIVE">> # << >>
        /\ <<"TRAINING_COMPLETED", "STAGING_SETUP", "STAGING_ACTIVE">> \in Seq(S)
        /\ <<"TRAINING_COMPLETED", "STAGING_SETUP", "STAGING_ACTIVE">> # << >>
        /\ <<"STAGING_ACTIVE", "READY_FOR_HIRE">> \in Seq(S) /\ <<"STAGING_ACTIVE", "READY_FOR_HIRE">> # << >>
        /\ <<"READY_FOR_HIRE">> \in Seq(S) /\ <<"READY_FOR_HIRE">> # << >>
    BY <2>1
  <2>3. /\ startStagingPath(cand.status) \in Seq(S) /\ startStagingPath(cand.status) # << >>
        /\ stagingPassedPath(cand.status) \in Seq(S) /\ stagingPassedPath(cand.status) # << >>
    BY <2>2, Zenon DEF startStagingPath, stagingPassedPath
  <2> QED
    BY <2>2, <2>3, PathCareful DEF S
<1>4. AllCareful(markNoShow, m)
  <2> DEFINE x == Update(Closed("NOSHOW"))
             y == Send("no-show", "ignore", "ignore")
  <2>1. Careful(x, m) /\ Careful(y, m)
    BY PlainPatchesCareful, CallsCareful
  <2> HIDE DEF x, y
  <2>2. AllCareful(<<x, y>>, m)
    BY <2>1, PairCareful
  <2> QED
    BY <2>2 DEF markNoShow, x, y
<1>5. AllCareful(approveTattoo, m)
  <2> DEFINE x == Update(Status1("SCREENING"))
             y == Send("approved", "ignore", "ignore")
  <2>1. Careful(x, m) /\ Careful(y, m)
    BY PlainPatchesCareful, CallsCareful
  <2> HIDE DEF x, y
  <2>2. AllCareful(<<x, y>>, m)
    BY <2>1, PairCareful
  <2> QED
    BY <2>2 DEF approveTattoo, x, y
<1>6. AllCareful(<<Update(Status1("HIRED"))>>, m)
  <2> DEFINE x == Update(Status1("HIRED"))
  <2>1. Careful(x, m)
    BY PlainPatchesCareful, CallsCareful
  <2> HIDE DEF x
  <2> QED
    BY <2>1, PairCareful DEF x
<1> HIDE DEF m
<1> QED
  BY <1>2, <1>3, <1>4, <1>5, <1>6 DEF Todo, KindNames, m

---------------------------------------------------------------------------
(* The lists of the worker and of her buttons.                             *)

LEMMA CompletionShape ==
    ASSUME NEW t, NEW s
    PROVE  /\ Completion(t, s) => /\ IsList(t) /\ t # << >> /\ Len(t) \in Nat \ {0, 1}
                                  /\ t[1] = Update(Completed) /\ t[2] = Remind(s)
                                  /\ Completion1(Tail(t), s)
           /\ Completion1(t, s) => /\ IsList(t) /\ t # << >> /\ Len(t) \in Nat \ {0}
                                   /\ t[1] = Remind(s) /\ Tail(t) \in {<< >>, <<Thanks>>}
<1> DEFINE x == Update(Completed)
           y == Remind(s)
           z == Thanks
<1> HIDE DEF x, y, z
<1>1. /\ IsList(<<x, y>>) /\ Len(<<x, y>>) = 2 /\ IsList(<<x, y, z>>) /\ Len(<<x, y, z>>) = 3
      /\ IsList(<<y>>) /\ Len(<<y>>) = 1 /\ IsList(<<y, z>>) /\ Len(<<y, z>>) = 2
  BY ShortLists
<1>2. /\ <<x, y>>[1] = x /\ <<x, y>>[2] = y /\ Tail(<<x, y>>) = <<y>> /\ <<x, y>> # << >>
      /\ <<x, y, z>>[1] = x /\ <<x, y, z>>[2] = y /\ Tail(<<x, y, z>>) = <<y, z>> /\ <<x, y, z>> # << >>
      /\ <<y>>[1] = y /\ Tail(<<y>>) = << >> /\ <<y>> # << >>
      /\ <<y, z>>[1] = y /\ Tail(<<y, z>>) = <<z>> /\ <<y, z>> # << >>
  BY Tails
<1>3. /\ Completion(t, s) <=> t \in {<<x, y>>, <<x, y, z>>}
      /\ Completion1(t, s) <=> t \in {<<y>>, <<y, z>>}
      /\ Completion1(Tail(t), s) <=> Tail(t) \in {<<y>>, <<y, z>>}
  BY DEF Completion, Completion1, x, y, z
<1>4. CASE Completion(t, s)
  <2>1. CASE t = <<x, y>>
    BY <1>1, <1>2, <1>3, <2>1 DEF x, y, Update, Remind
  <2>2. CASE t = <<x, y, z>>
    BY <1>1, <1>2, <1>3, <2>2 DEF x, y, Update, Remind
  <2>3. ~ Completion1(t, s)
    <3>1. t[1] = x
      BY <1>2, <1>3, <1>4
    <3>2. x # y
      BY DEF x, y, Update, Remind
    <3> QED
      BY <1>2, <1>3, <3>1, <3>2
  <2> QED
    BY <1>3, <1>4, <2>1, <2>2, <2>3
<1>5. CASE ~ Completion(t, s)
  <2>1. CASE t = <<y>>
    BY <1>1, <1>2, <1>5, <2>1 DEF y, z
  <2>2. CASE t = <<y, z>>
    BY <1>1, <1>2, <1>5, <2>2 DEF y, z
  <2> QED
    BY <1>3, <1>5, <2>1, <2>2
<1> QED
  BY <1>4, <1>5

\* A completion reminds of one slot, and no careful list reminds.
LEMMA CompletionsApart ==
    ASSUME NEW t
    PROVE  /\ \A s, r : (Completion(t, s) \/ Completion1(t, s)) /\ (Completion(t, r) \/ Completion1(t, r)) => s = r
           /\ \A s, r : ~ (Completion(t, s) /\ Completion1(t, r))
           /\ \A m, s : AllCareful(t, m) => ~ Completion(t, s) /\ ~ Completion1(t, s)
<1>1. \A s : /\ Completion(t, s) => Len(t) \in Nat \ {0, 1} /\ t[1] = Update(Completed) /\ t[2] = Remind(s)
             /\ Completion1(t, s) => Len(t) \in Nat \ {0} /\ t[1] = Remind(s)
  BY CompletionShape
<1>2. /\ Update(Completed).op = "update"
      /\ \A s : Remind(s).op = "remind" /\ Remind(s).slot = s
  BY DEF Update, Remind
<1>3. ASSUME NEW m, NEW s, AllCareful(t, m) PROVE ~ Completion(t, s) /\ ~ Completion1(t, s)
  <2>1. ~ Careful(Remind(s), m)
    BY <1>2 DEF Careful
  <2>2. CASE Completion(t, s)
    <3>0. Len(t) \in Nat \ {0, 1} /\ t[2] = Remind(s)
      BY <1>1, <2>2
    <3>1. 2 \in 1 .. Len(t) /\ t[2] = Remind(s)
      BY <3>0
    <3> QED
      BY <1>3, <2>1, <3>1 DEF AllCareful
  <2>3. CASE Completion1(t, s)
    <3>0. Len(t) \in Nat \ {0} /\ t[1] = Remind(s)
      BY <1>1, <2>3
    <3>1. 1 \in 1 .. Len(t) /\ t[1] = Remind(s)
      BY <3>0
    <3> QED
      BY <1>3, <2>1, <3>1 DEF AllCareful
  <2> QED
    BY <2>2, <2>3
<1>4. \A s, r : ~ (Completion(t, s) /\ Completion1(t, r))
  BY <1>1, <1>2
<1>5. ASSUME NEW s, NEW r, Completion(t, s) \/ Completion1(t, s), Completion(t, r) \/ Completion1(t, r)
      PROVE  s = r
  <2>1. (Completion(t, s) /\ Completion(t, r)) \/ (Completion1(t, s) /\ Completion1(t, r))
    BY <1>4, <1>5
  <2>2. Remind(s) = Remind(r)
    BY <1>1, <2>1
  <2> QED
    BY <1>2, <2>2
<1> QED
  BY <1>3, <1>4, <1>5

LEMMA BooksShape ==
    ASSUME NEW t, NEW s, Books(t, s)
    PROVE  /\ IsList(t) /\ t # << >>
           /\ \/ t[1] \in {TakeWebSlot(s), EmptyMirror(s)} /\ Books(Tail(t), s)
              \/ \E b : t[1] = Book(s, b) /\ Tail(t) = << >>
<1>1. PICK b : t \in {<<TakeWebSlot(s), EmptyMirror(s), Book(s, b)>>, <<EmptyMirror(s), Book(s, b)>>,
                     <<Book(s, b)>>}
  BY DEF Books
<1> DEFINE x == TakeWebSlot(s)
           y == EmptyMirror(s)
           z == Book(s, b)
<1>2. Books(<<z>>, s) /\ Books(<<y, z>>, s)
  BY DEF Books
<1> HIDE DEF x, y, z
<1>3. /\ IsList(<<x, y, z>>) /\ IsList(<<y, z>>) /\ IsList(<<z>>)
      /\ <<x, y, z>> # << >> /\ <<y, z>> # << >> /\ <<z>> # << >>
  <2>1. IsList(<<x, y, z>>) /\ IsList(<<y, z>>) /\ IsList(<<z>>)
    BY ShortLists
  <2> QED
    BY <2>1, Tails, ZenonT(40)
<1>4. /\ <<x, y, z>>[1] = x /\ Tail(<<x, y, z>>) = <<y, z>>
      /\ <<y, z>>[1] = y /\ Tail(<<y, z>>) = <<z>>
      /\ <<z>>[1] = z /\ Tail(<<z>>) = << >>
  BY Tails
<1>5. t \in {<<x, y, z>>, <<y, z>>, <<z>>}
  BY <1>1 DEF x, y, z
<1>6. CASE t = <<x, y, z>>
  BY <1>2, <1>3, <1>4, <1>6 DEF x
<1>7. CASE t = <<y, z>>
  BY <1>2, <1>3, <1>4, <1>7 DEF y
<1>8. CASE t = <<z>>
  BY <1>3, <1>4, <1>8 DEF z
<1> QED
  BY <1>5, <1>6, <1>7, <1>8

\* What the worker is about to remind of is over, and not due once it is interviewed.
LEMMA RemindsOver ==
    ASSUME OnCourse("worker"), NEW s \in Slots, WillRemind(s)
    PROVE  Over(s) /\ (Completion1(run["worker"].todo, s) => ~ Due(s))
<1> DEFINE t == run["worker"].todo
<1>1. Completion(t, s) \/ Completion1(t, s)
  BY DEF WillRemind
<1>2. ~ \E m \in Modes : Suits("worker", m) /\ AllCareful(t, m)
  BY <1>1, CompletionsApart
<1>3. PICK r \in Slots : Over(r) /\ (Completion(t, r) \/ (Completion1(t, r) /\ ~ Due(r)))
  BY <1>2 DEF OnCourse
<1>4. r = s
  BY <1>1, <1>3, CompletionsApart
<1> QED
  BY <1>3, <1>4, CompletionsApart

---------------------------------------------------------------------------
(* What one actor's step leaves the others.                                *)

RowsMove(a) ==
    /\ KeptRow(cand') /\ RemindedIsOver'
    /\ cand.interviewCompletedAt => cand'.interviewCompletedAt \/ (a = "dispatcher" /\ cand.hrDecision = Null)
    /\ cand.hrDecision # Null => cand'.hrDecision # Null
    /\ a = "dispatcher" \/ cand'.hrDecision = cand.hrDecision
    /\ \A s \in Slots :
          /\ Over(s) => Over(s)'
          /\ a # "worker" /\ Due(s)' => Due(s) \/ ~ WillRemind(s)
          /\ cand'.interviewSlotId = s => cand.interviewSlotId = s \/ a = "candidate"
          /\ slots'[s].reminded => slots[s].reminded \/ WillRemind(s)
          /\ WillRemind(s)' => WillRemind(s) \/ cand.interviewSlotId = s \/ a # "worker"

LEMMA OthersCourse ==
    ASSUME TypeOK, BookingsKept, NEW a, RowsMove(a), NEW b \in Actors \ {a}, run'[b] = run[b],
           a # "worker" => run'["worker"] = run["worker"]
    PROVE  OnCourse(b)'
<1> DEFINE t == run[b].todo
<1>0. OnCourse(b) /\ run'[b].todo = t /\ b # a
  BY DEF BookingsKept
<1>1. CASE \E m \in Modes : Suits(b, m) /\ AllCareful(t, m)
  <2>1. PICK m \in Modes : Suits(b, m) /\ AllCareful(t, m)
    BY <1>1
  <2>2. Suits(b, m)'
    BY <1>0, <2>1 DEF Suits, RowsMove
  <2> QED
    BY <1>0, <2>1, <2>2 DEF OnCourse
<1>2. CASE b = "worker" /\ \E s \in Slots : Over(s) /\ (Completion(t, s) \/ (Completion1(t, s) /\ ~ Due(s)))
  <2>1. PICK s \in Slots : Over(s) /\ (Completion(t, s) \/ (Completion1(t, s) /\ ~ Due(s)))
    BY <1>2
  <2>2. Over(s)' /\ (Completion1(t, s) /\ ~ Due(s) => ~ Due(s)')
    BY <1>0, <1>2, <2>1 DEF RowsMove, WillRemind
  <2> QED
    BY <1>0, <1>2, <2>1, <2>2 DEF OnCourse
<1>3. CASE b = "candidate" /\ \E s \in Slots : Books(t, s) /\ cand.interviewSlotId # s /\ ~ slots[s].reminded
                                                  /\ ~ WillRemind(s)
  <2>1. PICK s \in Slots : Books(t, s) /\ cand.interviewSlotId # s /\ ~ slots[s].reminded /\ ~ WillRemind(s)
    BY <1>3
  <2>2. a # "worker" => ~ WillRemind(s)'
    BY <2>1 DEF WillRemind
  <2>3. cand'.interviewSlotId # s /\ ~ slots'[s].reminded /\ ~ WillRemind(s)'
    BY <1>0, <1>3, <2>1, <2>2 DEF RowsMove
  <2> QED
    BY <1>0, <1>3, <2>1, <2>3 DEF OnCourse
<1> QED
  BY <1>0, <1>1, <1>2, <1>3 DEF OnCourse

\* Only a decision leads past the talk.
LEMMA AdvancersFollow ==
    ASSUME Base, NEW b \in Actors, OnCourse(b), AtCall(b, "update"), Advances(LastPatch(Call(b)))
    PROVE  b = "dispatcher" \/ cand.hrDecision # Null
<1> DEFINE t == run[b].todo
<1>1. t # << >> /\ IsList(t) /\ t[1].op = "update" /\ t[1] = Call(b)
  BY AtHead DEF Base, LocalsOK, LocalOK, AllFine, Call
<1> HIDE DEF t
<1>2. CASE \E m \in Modes : Suits(b, m) /\ AllCareful(t, m)
  <2>1. PICK m \in Modes : Suits(b, m) /\ AllCareful(t, m)
    BY <1>2
  <2>2. Careful(Call(b), m)
    BY <1>1, <2>1, TailCareful
  <2>3. m \in {"decides", "follows"}
    BY <1>1, <2>2 DEF Careful
  <2> QED
    BY <2>1, <2>3 DEF Suits
<1>3. ASSUME NEW s, Completion(t, s) PROVE FALSE
  <2>1. Call(b) = Update(Completed)
    BY <1>1, <1>3, CompletionShape
  <2>2. LastPatch(Update(Completed)) = Completed
    <3> DEFINE p == Completed
    <3> HIDE DEF p
    <3>1. Len(<<p>>) = 1 /\ <<p>>[1] = p
      BY ShortLists, Tails
    <3> QED
      BY <3>1 DEF LastPatch, Update, p
  <2> QED
    BY <2>1, <2>2, PlainPatchesCareful DEF Humble
<1>4. ASSUME NEW s, Completion1(t, s) PROVE FALSE
  <2>1. t[1] = Remind(s)
    BY <1>4, CompletionShape
  <2> QED
    BY <1>1, <2>1 DEF Remind
<1>5. ASSUME NEW s, Books(t, s) PROVE FALSE
  <2>1. t[1] \in {TakeWebSlot(s), EmptyMirror(s)} \/ \E b0 : t[1] = Book(s, b0)
    BY <1>5, BooksShape
  <2>2. /\ TakeWebSlot(s).op = "take" /\ EmptyMirror(s).op = "free"
        /\ \A b0 : Book(s, b0).op = "book"
    BY SoberCalls
  <2> QED
    BY <1>1, <2>1, <2>2
<1> QED
  BY <1>2, <1>3, <1>4, <1>5 DEF OnCourse, t

\* The judgment of an actor holds when it has one.
WellJudged(a) ==
    AtCall(a, "update") /\ run[a].read # Null /\ Advances(LastPatch(Call(a))) => cand.interviewCompletedAt

LEMMA StepKeeps ==
    ASSUME Base, BookingsKept, NEW a \in Actors, RowsMove(a), \A b \in Actors \ {a} : run'[b] = run[b],
           OnCourse(a)', WellJudged(a)'
    PROVE  BookingsKept'
<1>1. \A b \in Actors : OnCourse(b)'
  <2>1. a # "worker" => run'["worker"] = run["worker"]
    BY DEF Actors
  <2>2. \A b \in Actors \ {a} : OnCourse(b)'
    BY <2>1, OthersCourse DEF Base, Tables
  <2> QED
    BY <2>2
<1>2. ASSUME NEW b \in Actors, b # a PROVE WellJudged(b)'
  <2> SUFFICES ASSUME (AtCall(b, "update") /\ run[b].read # Null /\ Advances(LastPatch(Call(b))))'
               PROVE  cand'.interviewCompletedAt
    BY DEF WellJudged
  <2>1. run'[b] = run[b]
    BY <1>2
  <2>2. AtCall(b, "update") /\ run[b].read # Null /\ Advances(LastPatch(Call(b)))
    BY <2>1 DEF AtCall, Running, Call
  <2>3. cand.interviewCompletedAt
    BY <2>2 DEF BookingsKept, JudgedWell
  <2>4. b = "dispatcher" \/ cand.hrDecision # Null
    BY <2>2, AdvancersFollow DEF BookingsKept
  <2> QED
    BY <1>2, <2>3, <2>4 DEF RowsMove
<1>3. JudgedWell'
  BY <1>2 DEF JudgedWell, WellJudged
<1> QED
  BY <1>1, <1>3 DEF BookingsKept, RowsMove

---------------------------------------------------------------------------
(* The calls.                                                              *)

LEMMA CompletedCall ==
    /\ LastPatch(Update(Completed)) = Completed /\ Len(Update(Completed).patches) = 1
    /\ Update(Completed).op = "update" /\ Update(Completed).must
    /\ Update(Completed).patches[1] = Completed
<1> DEFINE p == Completed
<1> HIDE DEF p
<1>1. Len(<<p>>) = 1 /\ <<p>>[1] = p
  BY ShortLists, Tails
<1> QED
  BY <1>1 DEF LastPatch, Update, p

LEMMA BarCall ==
    LastPatch(Attempt(Bar)) = Bar /\ Attempt(Bar).op = "update" /\ Archive.op = "archive"
<1> DEFINE p == Bar
<1> HIDE DEF p
<1>1. Len(<<p>>) = 1 /\ <<p>>[1] = p
  BY ShortLists, Tails
<1> QED
  BY <1>1 DEF LastPatch, Attempt, Archive, p

LEMMA ListIs ==
    ASSUME Base, NEW a \in Actors, run[a].todo # << >>
    PROVE  IsList(run[a].todo) /\ run[a].todo[1] = Call(a) /\ Fine(a, Call(a))
BY FineTail DEF Base, LocalsOK, LocalOK, AllFine, Call

LEMMA HeadOnCourse ==
    ASSUME Base, NEW a \in Actors, OnCourse(a), run[a].todo # << >>, Call(a).op = "update"
    PROVE  /\ Tidy(LastPatch(Call(a)))
           /\ Len(Call(a).patches) = 2 => Restarts(LastPatch(Call(a)))
<1> DEFINE t == run[a].todo
<1>1. IsList(t) /\ t[1] = Call(a) /\ t # << >>
  BY ListIs
<1> HIDE DEF t
<1>2. CASE \E m \in Modes : Suits(a, m) /\ AllCareful(t, m)
  <2>1. PICK m \in Modes : Careful(Call(a), m)
    BY <1>1, <1>2, TailCareful
  <2> QED
    BY <2>1 DEF Careful
<1>3. ASSUME NEW s, Completion(t, s) PROVE Call(a) = Update(Completed)
  BY <1>1, <1>3, CompletionShape
<1>4. ASSUME NEW s, Completion1(t, s) PROVE FALSE
  <2>1. t[1] = Remind(s)
    BY <1>4, CompletionShape
  <2> QED
    BY <1>1, <2>1 DEF Remind
<1>5. ASSUME NEW s, Books(t, s) PROVE FALSE
  <2>1. t[1] \in {TakeWebSlot(s), EmptyMirror(s)} \/ \E b0 : t[1] = Book(s, b0)
    BY <1>5, BooksShape
  <2>2. /\ TakeWebSlot(s).op = "take" /\ EmptyMirror(s).op = "free"
        /\ \A b0 : Book(s, b0).op = "book"
    BY SoberCalls
  <2> QED
    BY <1>1, <2>1, <2>2
<1>6. CASE Call(a) = Update(Completed)
  BY <1>6, CompletedCall, PlainPatchesCareful DEF Humble
<1> QED
  BY <1>2, <1>3, <1>4, <1>5, <1>6 DEF OnCourse, t

LEMMA ReadAfter ==
    ASSUME Base, NEW a \in Actors, Calls(a), run[a].todo # << >>
    PROVE  \/ run'[a].read = Null
           \/ /\ Call(a).op = "update" /\ Admits(cand, Call(a).patches[1])
              /\ run'[a].todo = run[a].todo /\ cand' = cand
           \/ Call(a).op = "book" /\ run'[a].todo = run[a].todo
           \/ run'[a].todo \in {<<Archive>>, <<Attempt(Bar), Refuse("failed")>>}
<1>1. LocalsOK
  BY DEF Base
<1>2. \A t, w : Leaves(a, t, w) => run'[a].read = Null
  BY <1>1, LocalAfter
<1>3. /\ \A more : Went(a, more) => run'[a].read = Null
      /\ Goes(a) => run'[a].read = Null
      /\ \A w : Failed(a, w) => run'[a].read = Null
  BY <1>2 DEF Went, Goes, Failed
<1>4. \A t : run' = [run EXCEPT ![a].todo = t] => run'[a].todo = t
  BY <1>1, LocalAfter
<1>5. run' = [run EXCEPT ![a].read = cand] => run'[a].todo = run[a].todo
  BY <1>1, LocalAfter
<1>6. CASE Call(a).op = "update"
  <2>1. CASE ValidateUpdate(a)
    BY <1>3, <1>5, <1>6, <2>1 DEF ValidateUpdate
  <2>2. CASE WriteUpdate(a)
    BY <1>3, <2>2 DEF WriteUpdate
  <2> QED
    BY <1>6, <2>1, <2>2, ActionOf
<1>7. CASE Call(a).op = "send"
  <2>1. CASE Deliver(a)
    BY <1>3, <2>1 DEF Deliver
  <2>2. CASE SendFails(a)
    BY <1>3, <2>2 DEF SendFails
  <2>3. CASE SendIsBlocked(a)
    <3>1. Call(a).onBlocked \in {"archive", "bar", "throw", "ignore"}
      BY <1>7, ActionOf DEF Fine
    <3>2. \/ run' = [run EXCEPT ![a].todo = <<Archive>>]
          \/ run' = [run EXCEPT ![a].todo = <<Attempt(Bar), Refuse("failed")>>]
          \/ Failed(a, "failed")
          \/ Goes(a)
      BY <2>3, <3>1, Zenon DEF SendIsBlocked, Bar
    <3> QED
      BY <1>3, <1>4, <3>2
  <2> QED
    BY <1>7, <2>1, <2>2, <2>3, ActionOf
<1>8. CASE Call(a).op = "book"
  <2>1. CASE ValidateBooking(a)
    <3> DEFINE undo == <<Release>> \o IF Call(a).before \in {Null, Call(a).slot} THEN << >> ELSE <<Restore(Call(a).before)>>
    <3>1. run' = [run EXCEPT ![a].read = cand] \/ Went(a, undo)
      BY <2>1, Zenon DEF ValidateBooking
    <3> HIDE DEF undo
    <3> QED
      BY <1>3, <1>5, <1>8, <3>1
  <2>2. CASE WriteBooking(a)
    BY <1>3, <2>2 DEF WriteBooking
  <2> QED
    BY <1>8, <2>1, <2>2, ActionOf
<1>9. CASE Call(a).op = "cancel"
  <2>1. \/ Went(a, <<Update(Unlink), Free(Call(a).slot)>>) \/ Failed(a, "failed")
        \/ Went(a, <<Free(Call(a).slot)>>)
    BY <1>9, ActionOf, Zenon DEF CancelSlot, Unlink
  <2> QED
    BY <1>3, <2>1
<1>10. CASE Call(a).op \in {"check", "refuse"}
  BY <1>3, <1>10, ActionOf DEF CheckPatch, RefuseCommand
<1>11. CASE Call(a).op \in {"release", "free", "remind", "archive", "mark", "move", "take", "restore"}
  BY <1>3, <1>11, ActionOf
     DEF ReleaseWebSlot, FreeSlot, RemindSlot, ArchiveBlocked, MarkSent, MoveLocation, TakeSlot, RestoreWebSlot
<1> QED
  BY <1>6, <1>7, <1>8, <1>9, <1>10, <1>11, ActionOf DEF Ops

\* A patch past the talk that is let through is one for who had it.
LEMMA JudgedAfter ==
    ASSUME Base, BookingsKept, NEW a \in Actors, Calls(a), run[a].todo # << >>
    PROVE  WellJudged(a)'
<1> SUFFICES ASSUME (AtCall(a, "update") /\ run[a].read # Null /\ Advances(LastPatch(Call(a))))'
             PROVE  cand'.interviewCompletedAt
  BY DEF WellJudged
<1>1. CASE /\ Call(a).op = "update" /\ Admits(cand, Call(a).patches[1])
           /\ run'[a].todo = run[a].todo /\ cand' = cand
  <2> DEFINE p == LastPatch(Call(a))
  <2>1. Call(a)' = Call(a) /\ Advances(p)
    BY <1>1 DEF Call
  <2>2. Tidy(p) /\ (Len(Call(a).patches) = 2 => Restarts(p))
    BY <1>1, HeadOnCourse DEF BookingsKept
  <2>3. Len(Call(a).patches) \in {1, 2} /\ PatchOK(Call(a).patches[1])
    BY <1>1, ListIs DEF Fine
  <2>4. ~ Restarts(p)
    BY <2>1 DEF Restarts, Advances, AfterTalk, TrainingTrack, FirstShiftTrack
  <2>5. p = Call(a).patches[1]
    BY <2>2, <2>3, <2>4 DEF LastPatch
  <2>6. cand \in Snapshot /\ KeptRow(cand)
    BY DEF Base, Tables, TypeOK, Row, BookingsKept
  <2> HIDE DEF p
  <2> QED
    BY <1>1, <2>1, <2>2, <2>3, <2>5, <2>6, AdmittedAdvance
<1>2. CASE Call(a).op = "book" /\ run'[a].todo = run[a].todo
  BY <1>2 DEF AtCall, Call
<1>3. CASE run'[a].todo = <<Archive>>
  <2>1. Call(a)' = Archive
    <3> DEFINE x == Archive
    <3> HIDE DEF x
    <3>1. <<x>>[1] = x
      BY Tails
    <3> QED
      BY <1>3, <3>1 DEF Call, x
  <2> QED
    BY <2>1, BarCall DEF AtCall
<1>4. CASE run'[a].todo = <<Attempt(Bar), Refuse("failed")>>
  <2>1. Call(a)' = Attempt(Bar)
    <3> DEFINE x == Attempt(Bar)
               y == Refuse("failed")
    <3> HIDE DEF x, y
    <3>1. <<x, y>>[1] = x
      BY Tails
    <3> QED
      BY <1>4, <3>1 DEF Call, x, y
  <2>2. LastPatch(Call(a))' = Bar
    BY <2>1, BarCall DEF LastPatch
  <2> QED
    BY <2>2, MixedPatchesCareful DEF Humble
<1> QED
  BY <1>1, <1>2, <1>3, <1>4, ReadAfter

\* A careful list stays one.
LEMMA CarefulGoesOn ==
    ASSUME Base, NEW a \in Actors, Calls(a), run[a].todo # << >>, NEW m, AllCareful(run[a].todo, m)
    PROVE  AllCareful(run'[a].todo, m) /\ Careful(Call(a), m)
<1> DEFINE t == run[a].todo
           u == run'[a].todo
<1>1. IsList(t) /\ t # << >> /\ t[1] = Call(a)
  BY ListIs
<1>2. AllCareful(Tail(t), m) /\ Careful(Call(a), m) /\ IsList(Tail(t))
  BY <1>1, TailCareful, TailList
<1>3. AllCareful(<< >>, m)
  BY ShortCareful
<1>4. Call(a).op = "update" => UpdateStep(a)
  BY CallStep
<1>5. Call(a).op = "send" => SendStep(a)
  BY CallStep
<1>6. Call(a).op = "cancel" => CancelStep(a)
  BY CallStep
<1>7. /\ Call(a).op = "check" => Onwards(a) \/ Stops(a)
      /\ Call(a).op = "refuse" => Stops(a)
      /\ Call(a).op \in {"release", "free", "archive", "mark", "move", "take", "restore"} => Onwards(a)
      /\ Call(a).op \in Ops /\ Call(a).op \notin {"book", "remind"}
  BY <1>2, CallStep DEF Careful, Fine
<1>8. /\ Onwards(a) => u = Tail(t)
      /\ Stops(a) => u = << >>
      /\ \A v : Becomes(a, v) => u = v
  BY DEF Onwards, Stops, Becomes
<1> HIDE DEF t, u
<1>9. Onwards(a) \/ Stops(a) => AllCareful(u, m)
  BY <1>2, <1>3, <1>8
<1>10. CASE Call(a).op = "update"
  <2>1. Becomes(a, t) \/ Stops(a) \/ Onwards(a)
    BY <1>4, <1>10 DEF UpdateStep, t
  <2> QED
    BY <1>2, <1>8, <1>9, <2>1 DEF t, u
<1>11. CASE Call(a).op = "send"
  <2>1. Stops(a) \/ Onwards(a) \/ Becomes(a, <<Archive>>) \/ Becomes(a, <<Attempt(Bar), Refuse("failed")>>)
    BY <1>5, <1>11 DEF SendStep
  <2>2. AllCareful(<<Archive>>, m) /\ AllCareful(<<Attempt(Bar), Refuse("failed")>>, m)
    <3> DEFINE x == Archive
               y == Attempt(Bar)
               z == Refuse("failed")
    <3>1. Careful(x, m) /\ Careful(y, m) /\ Careful(z, m)
      BY CallsCareful, MixedPatchesCareful DEF Humble
    <3> HIDE DEF x, y, z
    <3>2. AllCareful(<<x>>, m) /\ AllCareful(<<y, z>>, m)
      BY <3>1, PairCareful
    <3> QED
      BY <3>2 DEF x, y, z
  <2> QED
    BY <1>2, <1>8, <1>9, <2>1, <2>2 DEF u
<1>12. CASE Call(a).op = "cancel"
  <2> DEFINE s == Call(a).slot
             x == Update(Unlink)
             y == Free(s)
  <2>1. Stops(a) \/ Becomes(a, <<x, y>> \o Tail(t)) \/ Becomes(a, <<y>> \o Tail(t))
    BY <1>6, <1>12 DEF CancelStep, t
  <2>2. Careful(x, m) /\ Careful(y, m)
    BY CallsCareful, PlainPatchesCareful DEF Humble
  <2> HIDE DEF x, y
  <2>3. AllCareful(<<x, y>> \o Tail(t), m) /\ AllCareful(<<y>> \o Tail(t), m)
    BY <1>2, <2>2, PairCareful, JoinedCareful
  <2> QED
    BY <1>2, <1>8, <1>9, <2>1, <2>3 DEF u
<1> QED
  BY <1>2, <1>7, <1>9, <1>10, <1>11, <1>12 DEF Ops, u

---------------------------------------------------------------------------
(* The rows.                                                               *)

LEMMA RowsWritten ==
    ASSUME BookingsKept, NEW a, KeptRow(cand'), phase' = phase,
           cand.interviewCompletedAt => cand'.interviewCompletedAt \/ (a = "dispatcher" /\ cand.hrDecision = Null),
           cand'.hrDecision = cand.hrDecision \/ (a = "dispatcher" /\ cand'.hrDecision # Null),
           cand'.interviewSlotId \in {Null, cand.interviewSlotId},
           cand'.status = "INTERVIEW_SCHEDULED" => cand.status = "INTERVIEW_SCHEDULED",
           \A s \in Slots : slots'[s].reminded => slots[s].reminded,
           \A s \in Slots : WillRemind(s)' => WillRemind(s) \/ a # "worker"
    PROVE  RowsMove(a)
<1>1. \A s \in Slots : s # Null
  BY ConstantsAssumption
<1>2. ASSUME NEW s \in Slots
      PROVE  /\ cand'.interviewSlotId = s => cand.interviewSlotId = s
             /\ Over(s)' <=> Over(s)
             /\ Due(s)' => Due(s)
  BY <1>1 DEF Over, Due
<1>3. RemindedIsOver'
  BY <1>2 DEF RemindedIsOver, BookingsKept
<1> QED
  BY <1>2, <1>3 DEF RowsMove

LEMMA CallsKeepTime ==
    ASSUME NEW a, Calls(a)
    PROVE  /\ phase' = phase
           /\ slots' = slots \/ FreeSlot(a) \/ ArchiveBlocked(a) \/ WriteBooking(a) \/ RemindSlot(a)
<1>1. CASE OtherCalls(a)
  BY <1>1 DEF OtherCalls, CheckPatch, Deliver, SendFails, SendIsBlocked, ReleaseWebSlot, CancelSlot, FreeSlot,
              RemindSlot, MarkSent, MoveLocation, RefuseCommand, ValidateUpdate, TakeSlot, ValidateBooking,
              RestoreWebSlot, Rest
<1>2. CASE WriteUpdate(a) \/ ArchiveBlocked(a) \/ WriteBooking(a)
  BY <1>2 DEF WriteUpdate, ArchiveBlocked, WriteBooking
<1> QED
  BY <1>1, <1>2 DEF Calls

LEMMA UnbookedKeeps ==
    ASSUME NEW row \in Snapshot, KeptRow(row)
    PROVE  LET w == Unbooked(row) IN
           /\ KeptRow(w) /\ w.interviewCompletedAt = row.interviewCompletedAt
           /\ w.hrDecision = row.hrDecision /\ w.interviewSlotId = Null /\ w.status = row.status
<1> DEFINE w == Unbooked(row)
<1>1. /\ w.interviewSlotId = Null /\ w.status = row.status /\ w.hrDecision = row.hrDecision
      /\ w.discoverySlotId = row.discoverySlotId /\ w.trainingSlotId = row.trainingSlotId
      /\ w.currentStep = row.currentStep /\ w.interviewCompletedAt = row.interviewCompletedAt
  BY DEF Unbooked, Snapshot
<1> HIDE DEF w
<1> QED
  BY <1>1 DEF KeptRow, LegacyMentorWaitlist, w

\* A booked mirror that is emptied was reminded of no sooner.
LEMMA FreedReminds ==
    ASSUME slots \in [Slots -> [booked : BOOLEAN, reminded : BOOLEAN]], NEW s \in Slots
    PROVE  \A t \in Slots : SlotFreed(s)[t].reminded <=> slots[t].reminded
<1>1. ASSUME NEW t \in Slots PROVE SlotFreed(s)[t].reminded <=> slots[t].reminded
  <2>1. slots[t] \in [booked : BOOLEAN, reminded : BOOLEAN]
    OBVIOUS
  <2>2. SlotFreed(s)[t] = IF t = s THEN [slots[t] EXCEPT !.booked = FALSE] ELSE slots[t]
    BY DEF SlotFreed
  <2>3. [slots[t] EXCEPT !.booked = FALSE].reminded = slots[t].reminded
    BY <2>1
  <2> QED
    BY <2>2, <2>3
<1> QED
  BY <1>1

\* What the update of a careful list writes.
LEMMA CarefulUpdates ==
    ASSUME Base, BookingsKept, NEW a \in Actors, NEW m \in Modes, Suits(a, m), Careful(Call(a), m), WriteUpdate(a)
    PROVE  /\ KeptRow(cand')
           /\ cand.interviewCompletedAt => cand'.interviewCompletedAt \/ (a = "dispatcher" /\ cand.hrDecision = Null)
           /\ cand'.hrDecision = cand.hrDecision \/ (m = "decides" /\ a = "dispatcher" /\ cand'.hrDecision # Null)
           /\ cand'.interviewSlotId \in {Null, cand.interviewSlotId}
           /\ cand'.status = "INTERVIEW_SCHEDULED" => cand.status = "INTERVIEW_SCHEDULED"
<1> DEFINE ps == Call(a).patches
           p == LastPatch(Call(a))
           read == run[a].read
<1>1. /\ AtCall(a, "update") /\ read # Null
      /\ \/ cand' = cand
         \/ Len(ps) = 1 /\ cand' = Updated(cand, read, ps[1])
         \/ Len(ps) # 1 /\ cand' = Updated(Updated(cand, read, ps[1]), Updated(cand, read, ps[1]), ps[2])
  BY DEF WriteUpdate
<1>2. /\ Fine(a, Call(a)) /\ Call(a).op = "update" /\ read \in Snapshot
  BY <1>1, AtHead
<1>3. /\ Len(ps) \in {1, 2} /\ PatchOK(ps[Len(ps)])
      /\ Len(ps) = 2 => ps[1] = Back /\ Reopens(ps[2])
  BY <1>2 DEF Fine
<1>4. /\ Tidy(p) /\ ("hrDecision" \in DOMAIN p => m = "decides")
      /\ Len(ps) = 2 => m = "restarts" /\ Restarts(p)
  BY <1>2 DEF Careful
<1>5. Advances(p) => cand.interviewCompletedAt
  BY <1>1 DEF BookingsKept, JudgedWell
<1>6. cand \in Snapshot /\ KeptRow(cand)
  BY DEF Base, Tables, TypeOK, Row, BookingsKept
<1>7. p = ps[Len(ps)] /\ PatchOK(p)
  BY <1>3 DEF LastPatch
<1> HIDE DEF p, ps, read
<1>8. CASE cand' = cand
  BY <1>6, <1>8
<1>9. CASE Len(ps) = 1 /\ cand' = Updated(cand, read, ps[1])
  <2>1. /\ KeptRow(cand') /\ (cand.interviewCompletedAt => cand'.interviewCompletedAt)
        /\ cand'.hrDecision = Field(p, "hrDecision", cand.hrDecision)
        /\ cand'.interviewSlotId \in {Null, cand.interviewSlotId}
        /\ cand'.status = Field(p, "status", cand.status)
    <3> DEFINE w == Updated(cand, read, p)
    <3>1. PatchOK(p) /\ Tidy(p) /\ (Advances(p) => cand.interviewCompletedAt)
      BY <1>4, <1>5, <1>7
    <3>2. /\ KeptRow(w) /\ (cand.interviewCompletedAt => w.interviewCompletedAt)
          /\ w.hrDecision = Field(p, "hrDecision", cand.hrDecision)
          /\ w.interviewSlotId \in {Null, cand.interviewSlotId}
          /\ w.status = Field(p, "status", cand.status)
      BY <1>2, <1>6, <3>1, TidyKeeps
    <3>3. cand' = w
      BY <1>7, <1>9
    <3> HIDE DEF w
    <3> QED
      BY <3>2, <3>3
  <2>2. cand'.status = "INTERVIEW_SCHEDULED" => cand.status = "INTERVIEW_SCHEDULED"
    BY <1>7, <2>1 DEF PatchOK, Writable, Field
  <2>3. cand'.hrDecision = cand.hrDecision \/ (m = "decides" /\ a = "dispatcher" /\ cand'.hrDecision # Null)
    BY <1>4, <1>7, <2>1, ConstantsAssumption DEF PatchOK, PatchTyped, Field, Suits
  <2> QED
    BY <2>1, <2>2, <2>3
<1>10. CASE /\ Len(ps) # 1
            /\ cand' = Updated(Updated(cand, read, ps[1]), Updated(cand, read, ps[1]), ps[2])
  <2>1. Len(ps) = 2 /\ ps[1] = Back /\ ps[2] = p /\ m = "restarts" /\ Restarts(p) /\ "hrDecision" \notin DOMAIN p
    BY <1>3, <1>4, <1>7, <1>10
  <2>2. /\ KeptRow(cand') /\ cand'.hrDecision = cand.hrDecision
        /\ cand'.interviewSlotId \in {Null, cand.interviewSlotId} /\ cand'.status = "SCREENING"
    <3> DEFINE f == Updated(cand, read, Back)
               w == Updated(f, f, p)
    <3>1. PatchOK(p) /\ Tidy(p) /\ Restarts(p) /\ "hrDecision" \notin DOMAIN p
      BY <1>4, <1>7, <2>1
    <3>2. /\ KeptRow(w) /\ w.hrDecision = cand.hrDecision
          /\ w.interviewSlotId \in {Null, cand.interviewSlotId} /\ w.status = "SCREENING"
      BY <1>2, <1>6, <3>1, RestartKeeps
    <3>3. cand' = w
      BY <1>10, <2>1
    <3> HIDE DEF w
    <3> QED
      BY <3>2, <3>3
  <2>3. a = "dispatcher" /\ cand.hrDecision = Null
    BY <2>1 DEF Suits
  <2> QED
    BY <2>2, <2>3
<1> QED
  BY <1>1, <1>8, <1>9, <1>10 DEF ps, read

\* What the calls of a careful list do to the tables.
LEMMA CarefulWrites ==
    ASSUME Base, BookingsKept, NEW a \in Actors, NEW m \in Modes, Suits(a, m), Calls(a), run[a].todo # << >>,
           Careful(Call(a), m)
    PROVE  /\ KeptRow(cand') /\ phase' = phase
           /\ cand.interviewCompletedAt => cand'.interviewCompletedAt \/ (a = "dispatcher" /\ cand.hrDecision = Null)
           /\ cand'.hrDecision = cand.hrDecision \/ (m = "decides" /\ a = "dispatcher" /\ cand'.hrDecision # Null)
           /\ cand'.interviewSlotId \in {Null, cand.interviewSlotId}
           /\ cand'.status = "INTERVIEW_SCHEDULED" => cand.status = "INTERVIEW_SCHEDULED"
           /\ \A s \in Slots : slots'[s].reminded => slots[s].reminded
<1>1. /\ cand \in Snapshot /\ KeptRow(cand) /\ slots \in [Slots -> [booked : BOOLEAN, reminded : BOOLEAN]]
      /\ Fine(a, Call(a))
  BY ListIs DEF Base, Tables, TypeOK, Row, BookingsKept
<1>2. /\ phase' = phase
      /\ slots' = slots \/ FreeSlot(a) \/ ArchiveBlocked(a) \/ WriteBooking(a) \/ RemindSlot(a)
  BY CallsKeepTime
<1>3. Call(a).op \in Ops /\ Call(a).op \notin {"book", "remind"}
  BY <1>1 DEF Careful, Fine
<1>4. ~ WriteBooking(a) /\ ~ RemindSlot(a)
  BY <1>3 DEF WriteBooking, RemindSlot, AtCall
<1>5. ASSUME NEW s \in Slots, cand.interviewSlotId = s PROVE s # Null
  BY ConstantsAssumption
<1>6. CASE FreeSlot(a)
  <2> DEFINE s == Call(a).slot
  <2>1. slots' = SlotFreed(s) /\ cand' \in {cand, Unbooked(cand)}
    BY <1>6 DEF FreeSlot
  <2>2. s \in Slots
    BY <1>1, <1>6 DEF Fine, FreeSlot, AtCall
  <2> HIDE DEF s
  <2>3. \A t \in Slots : slots'[t].reminded <=> slots[t].reminded
    BY <1>1, <2>1, <2>2, FreedReminds
  <2>4. LET w == Unbooked(cand) IN
        /\ KeptRow(w) /\ w.interviewCompletedAt = cand.interviewCompletedAt
        /\ w.hrDecision = cand.hrDecision /\ w.interviewSlotId = Null /\ w.status = cand.status
    BY <1>1, UnbookedKeeps
  <2> QED
    BY <1>1, <1>2, <2>1, <2>3, <2>4
<1>7. CASE ArchiveBlocked(a)
  <2> DEFINE s == cand.interviewSlotId
             p == [status |-> "BLOCKER", notificationSent |-> FALSE, isWaitlisted |-> FALSE,
                   interviewSlotId |-> Null, discoverySlotId |-> FALSE, trainingSlotId |-> FALSE]
  <2>1. \/ cand' = cand /\ slots' = slots
        \/ cand' = Updated(cand, cand, p) /\ slots' = IF s = Null THEN slots ELSE SlotFreed(s)
    BY <1>7 DEF ArchiveBlocked
  <2>2. \A t \in Slots : slots'[t].reminded <=> slots[t].reminded
    <3>1. s \in Slots \/ s = Null
      BY <1>1 DEF Snapshot
    <3> HIDE DEF s
    <3> QED
      BY <1>1, <2>1, <3>1, FreedReminds
  <2>3. PatchOK(p) /\ Tidy(p) /\ ~ Advances(p) /\ DOMAIN p = {"status", "notificationSent", "isWaitlisted",
                        "interviewSlotId", "discoverySlotId", "trainingSlotId"} /\ p["status"] = "BLOCKER"
    BY DEF PatchOK, PatchTyped, Tidy, Advances, Status, Writable, AfterTalk, TrainingTrack, FirstShiftTrack
  <2> HIDE DEF p, s
  <2>4. CASE cand' = cand
    BY <1>1, <1>2, <2>2, <2>4
  <2>5. CASE cand' = Updated(cand, cand, p)
    <3>1. /\ KeptRow(cand') /\ (cand.interviewCompletedAt => cand'.interviewCompletedAt)
          /\ cand'.hrDecision = Field(p, "hrDecision", cand.hrDecision)
          /\ cand'.interviewSlotId \in {Null, cand.interviewSlotId}
          /\ cand'.status = Field(p, "status", cand.status)
      BY <1>1, <2>3, <2>5, TidyKeeps
    <3>2. cand'.hrDecision = cand.hrDecision /\ cand'.status = "BLOCKER"
      BY <2>3, <3>1 DEF Field
    <3> QED
      BY <1>2, <2>2, <3>1, <3>2
  <2> QED
    BY <2>1, <2>4, <2>5
<1>8. CASE slots' = slots /\ cand' = cand
  BY <1>1, <1>2, <1>8
<1>9. CASE slots' = slots /\ WriteUpdate(a)
  BY <1>2, <1>9, CarefulUpdates
<1>10. CASE slots' = slots /\ Call(a).op = "update" /\ ~ WriteUpdate(a)
  <2>1. cand' = cand
    BY <1>10, ActionOf DEF ValidateUpdate
  <2> QED
    BY <1>8, <1>10, <2>1
<1>11. CASE slots' = slots /\ Call(a).op # "update" /\ ~ FreeSlot(a) /\ ~ ArchiveBlocked(a)
  <2>1. Call(a).op \notin {"update", "free", "archive", "book"}
    BY <1>3, <1>11, ActionOf
  <2>2. cand' = cand
    BY <2>1, CallStep
  <2> QED
    BY <1>8, <1>11, <2>2
<1> QED
  BY <1>2, <1>4, <1>6, <1>7, <1>9, <1>10, <1>11

---------------------------------------------------------------------------
(* The steps.                                                              *)

LEMMA CarefulCourse ==
    ASSUME NEW a \in Actors, NEW m \in Modes, AllCareful(run'[a].todo, m), Suits(a, m)'
    PROVE  OnCourse(a)' /\ \A s \in Slots : WillRemind(s)' => a # "worker"
<1>1. OnCourse(a)'
  BY DEF OnCourse
<1>2. ASSUME NEW s \in Slots, a = "worker" PROVE ~ WillRemind(s)'
  <2>1. ~ Completion(run'["worker"].todo, s) /\ ~ Completion1(run'["worker"].todo, s)
    BY <1>2, CompletionsApart
  <2> QED
    BY <2>1 DEF WillRemind
<1> QED
  BY <1>1, <1>2

LEMMA CarefulCalls ==
    ASSUME Base, BookingsKept, NEW a \in Actors, Calls(a), run[a].todo # << >>,
           NEW m \in Modes, Suits(a, m), AllCareful(run[a].todo, m)
    PROVE  BookingsKept'
<1>1. AllCareful(run'[a].todo, m) /\ Careful(Call(a), m)
  BY CarefulGoesOn
<1>2. /\ KeptRow(cand') /\ phase' = phase
      /\ cand.interviewCompletedAt => cand'.interviewCompletedAt \/ (a = "dispatcher" /\ cand.hrDecision = Null)
      /\ cand'.hrDecision = cand.hrDecision \/ (m = "decides" /\ a = "dispatcher" /\ cand'.hrDecision # Null)
      /\ cand'.interviewSlotId \in {Null, cand.interviewSlotId}
      /\ cand'.status = "INTERVIEW_SCHEDULED" => cand.status = "INTERVIEW_SCHEDULED"
      /\ \A s \in Slots : slots'[s].reminded => slots[s].reminded
  BY <1>1, CarefulWrites
<1>3. Suits(a, m)'
  BY <1>2 DEF Suits
<1>4. OnCourse(a)' /\ \A s \in Slots : WillRemind(s)' => a # "worker"
  BY <1>1, <1>3, CarefulCourse
<1>5. RowsMove(a)
  BY <1>2, <1>4, RowsWritten
<1> QED
  BY <1>4, <1>5, JudgedAfter, StepKeeps, OwnCall

\* Anybody may stop, or do what waits.
LEMMA WaitingCourse ==
    ASSUME NEW a \in Actors, AllCareful(run'[a].todo, "waits")
    PROVE  OnCourse(a)' /\ \A s \in Slots : WillRemind(s)' => a # "worker"
<1>1. "waits" \in Modes /\ Suits(a, "waits")'
  BY DEF Modes, Suits
<1> QED
  BY <1>1, CarefulCourse

LEMMA NothingWaits == AllCareful(<< >>, "waits") /\ AllCareful(<<Thanks>>, "waits")
<1> DEFINE x == Thanks
<1>1. Careful(x, "waits")
  BY CallsCareful DEF Thanks
<1> HIDE DEF x
<1>2. AllCareful(<< >>, "waits") /\ AllCareful(<<x>>, "waits")
  BY <1>1, ShortCareful
<1> QED
  BY <1>2 DEF x

LEMMA CompletionCalls ==
    ASSUME Base, BookingsKept, Calls("worker"), NEW s \in Slots, Over(s), Completion(run["worker"].todo, s)
    PROVE  BookingsKept'
<1> DEFINE a == "worker"
           t == run[a].todo
           m == "waits"
<1>0. a \in Actors /\ m \in Modes /\ Suits(a, m)
  BY DEF Actors, Modes, Suits
<1>1. /\ IsList(t) /\ t # << >> /\ t[1] = Update(Completed) /\ Completion1(Tail(t), s)
  BY CompletionShape
<1>2. Call(a) = Update(Completed) /\ Careful(Call(a), m)
  <2>1. Call(a) = Update(Completed)
    BY <1>0, <1>1, ListIs
  <2>2. Careful(Update(Completed), m)
    BY CallsCareful, PlainPatchesCareful DEF Humble
  <2> QED
    BY <2>1, <2>2
<1>3. /\ KeptRow(cand') /\ phase' = phase
      /\ cand.interviewCompletedAt => cand'.interviewCompletedAt \/ (a = "dispatcher" /\ cand.hrDecision = Null)
      /\ cand'.hrDecision = cand.hrDecision \/ (m = "decides" /\ a = "dispatcher" /\ cand'.hrDecision # Null)
      /\ cand'.interviewSlotId \in {Null, cand.interviewSlotId}
      /\ cand'.status = "INTERVIEW_SCHEDULED" => cand.status = "INTERVIEW_SCHEDULED"
      /\ \A r \in Slots : slots'[r].reminded => slots[r].reminded
  BY <1>0, <1>1, <1>2, CarefulWrites
<1>4. UpdateStep(a)
  BY <1>0, <1>1, <1>2, CompletedCall, CallStep
<1>5. Over(s)'
  BY <1>3 DEF Over
<1>6. WillRemind(s)
  BY DEF WillRemind
<1>7. OnCourse(a)' /\ \A r \in Slots : WillRemind(r)' => WillRemind(r) \/ a # "worker"
  <2>1. CASE run'[a].todo = t
    <3>1. OnCourse(a)'
      BY <1>5, <2>1 DEF OnCourse
    <3> QED
      BY <2>1, <3>1 DEF WillRemind
  <2>2. CASE run'[a].todo = << >>
    BY <1>0, <2>2, NothingWaits, WaitingCourse
  <2>3. CASE /\ run[a].read # Null /\ run'[a].todo = Tail(t)
             /\ cand' = Updated(cand, run[a].read, Completed)
    <3>1. cand'.status = "INTERVIEW_COMPLETED"
      <4> DEFINE p == Completed
      <4>1. PatchTyped(p) /\ "status" \in DOMAIN p /\ p["status"] = "INTERVIEW_COMPLETED"
        BY DEF Completed, PatchTyped, Status, InterviewTrack
      <4>2. cand \in Snapshot /\ run[a].read \in Snapshot
        BY <1>0, <2>3 DEF Base, Tables, TypeOK, Row, LocalsOK, LocalOK
      <4> HIDE DEF p
      <4>3. Updated(cand, run[a].read, p).status = Field(p, "status", cand.status)
        BY <4>1, <4>2, UpdatedRow
      <4> QED
        BY <2>3, <4>1, <4>3 DEF Field, p
    <3>2. ~ Due(s)'
      BY <3>1 DEF Due
    <3>3. Completion1(run'[a].todo, s)
      BY <1>1, <2>3
    <3>4. OnCourse(a)'
      BY <1>5, <3>2, <3>3 DEF OnCourse
    <3>5. ASSUME NEW r \in Slots, WillRemind(r)' PROVE r = s
      BY <3>3, <3>5, CompletionsApart DEF WillRemind
    <3> QED
      BY <1>6, <3>4, <3>5
  <2>4. \/ run'[a].todo = t
        \/ run'[a].todo = << >>
        \/ /\ run[a].read # Null /\ run'[a].todo = Tail(t)
           /\ cand' = Updated(cand, run[a].read, Completed)
    <3>1. Call(a).must /\ Len(Call(a).patches) = 1 /\ Call(a).patches[1] = Completed
      BY <1>2, CompletedCall
    <3> QED
      BY <1>4, <3>1 DEF UpdateStep, Becomes, Stops, Onwards
  <2> QED
    BY <2>1, <2>2, <2>3, <2>4
<1>8. RowsMove(a)
  BY <1>3, <1>7, RowsWritten
<1> QED
  BY <1>0, <1>1, <1>7, <1>8, JudgedAfter, StepKeeps, OwnCall

\* She is reminded of when she is interviewed.
LEMMA ReminderCalls ==
    ASSUME Base, BookingsKept, Calls("worker"), NEW s \in Slots, Over(s), ~ Due(s),
           Completion1(run["worker"].todo, s)
    PROVE  BookingsKept'
<1> DEFINE a == "worker"
           t == run[a].todo
<1>0. a \in Actors
  BY DEF Actors
<1>1. IsList(t) /\ t # << >> /\ t[1] = Remind(s) /\ Tail(t) \in {<< >>, <<Thanks>>}
  BY CompletionShape
<1>2. Call(a) = Remind(s) /\ Call(a).op = "remind" /\ Call(a).slot = s
  BY <1>0, <1>1, ListIs DEF Remind
<1>3. RemindSlot(a) /\ Onwards(a)
  BY <1>0, <1>1, <1>2, ActionOf, CallStep
<1>4. cand' = cand /\ phase' = phase /\ slots' = [slots EXCEPT ![s].reminded = TRUE]
  BY <1>2, <1>3 DEF RemindSlot
<1>5. slots \in [Slots -> [booked : BOOLEAN, reminded : BOOLEAN]]
  BY DEF Base, Tables, TypeOK
<1>6. \A r \in Slots \ {s} : slots'[r] = slots[r]
  BY <1>4, <1>5
<1>7. WillRemind(s)
  BY DEF WillRemind
<1>8. \A r \in Slots : (Over(r)' <=> Over(r)) /\ (Due(r)' <=> Due(r))
  BY <1>4 DEF Over, Due
<1>9. AllCareful(run'[a].todo, "waits")
  BY <1>1, <1>3, NothingWaits DEF Onwards
<1>10. OnCourse(a)' /\ \A r \in Slots : ~ WillRemind(r)'
  BY <1>0, <1>9, WaitingCourse
<1>11. RemindedIsOver'
  BY <1>6, <1>8 DEF RemindedIsOver, BookingsKept
<1>12. RowsMove(a)
  BY <1>4, <1>6, <1>7, <1>8, <1>10, <1>11 DEF RowsMove, BookingsKept
<1> QED
  BY <1>0, <1>1, <1>10, <1>12, JudgedAfter, StepKeeps, OwnCall

\* Her booking takes the slot and empties its mirror, and then writes it to her row
\* or gives it back.
LEMMA TakingCalls ==
    ASSUME Base, BookingsKept, Calls("candidate"), NEW s \in Slots,
           cand.interviewSlotId # s, ~ slots[s].reminded, ~ WillRemind(s),
           run["candidate"].todo # << >>,
           run["candidate"].todo[1] \in {TakeWebSlot(s), EmptyMirror(s)},
           Books(Tail(run["candidate"].todo), s)
    PROVE  BookingsKept'
<1> DEFINE a == "candidate"
           t == run[a].todo
           m == "waits"
<1>0. a \in Actors /\ m \in Modes /\ Suits(a, m) /\ "worker" \in Actors \ {a} /\ a # "worker"
  BY DEF Actors, Modes, Suits
<1>1. Call(a).op \in {"take", "free"} /\ Careful(Call(a), m)
  <2>1. Call(a) \in {TakeWebSlot(s), EmptyMirror(s)}
    BY <1>0, ListIs
  <2>2. TakeWebSlot(s).op = "take" /\ EmptyMirror(s).op = "free"
    BY SoberCalls
  <2>3. Careful(TakeWebSlot(s), m) /\ Careful(EmptyMirror(s), m)
    BY <2>2 DEF Careful
  <2> QED
    BY <2>1, <2>2, <2>3
<1>2. /\ KeptRow(cand') /\ phase' = phase
      /\ cand.interviewCompletedAt => cand'.interviewCompletedAt \/ (a = "dispatcher" /\ cand.hrDecision = Null)
      /\ cand'.hrDecision = cand.hrDecision \/ (m = "decides" /\ a = "dispatcher" /\ cand'.hrDecision # Null)
      /\ cand'.interviewSlotId \in {Null, cand.interviewSlotId}
      /\ cand'.status = "INTERVIEW_SCHEDULED" => cand.status = "INTERVIEW_SCHEDULED"
      /\ \A r \in Slots : slots'[r].reminded => slots[r].reminded
  BY <1>0, <1>1, CarefulWrites
<1>3. run'[a].todo = Tail(t)
  BY <1>0, <1>1, CallStep DEF Onwards
<1>4. run'["worker"] = run["worker"]
  BY <1>0, OwnCall
<1>5. s # Null
  BY ConstantsAssumption
<1>6. ~ WillRemind(s)'
  BY <1>4 DEF WillRemind
<1>7. OnCourse(a)'
  BY <1>2, <1>3, <1>5, <1>6 DEF OnCourse
<1>8. RowsMove(a)
  BY <1>0, <1>2, RowsWritten
<1> QED
  BY <1>0, <1>7, <1>8, JudgedAfter, StepKeeps, OwnCall

LEMMA UndoneWaits ==
    ASSUME NEW s, NEW b
    PROVE  LET undo == <<Release>> \o IF b \in {Null, s} THEN << >> ELSE <<Restore(b)>> IN
           AllCareful(undo \o << >>, "waits")
<1> DEFINE x == Release
           y == Restore(b)
           undo == <<Release>> \o IF b \in {Null, s} THEN << >> ELSE <<Restore(b)>>
<1>1. Careful(x, "waits") /\ Careful(y, "waits")
  BY CallsCareful
<1>2. undo = <<x>> \o << >> \/ undo = <<x>> \o <<y>>
  BY Zenon
<1> HIDE DEF x, y, undo
<1>3. /\ AllCareful(<<x>>, "waits") /\ IsList(<<x>>) /\ AllCareful(<<y>>, "waits") /\ IsList(<<y>>)
      /\ AllCareful(<< >>, "waits") /\ IsList(<< >>)
  BY <1>1, PairCareful, NothingWaits, EmptyList
<1>4. AllCareful(undo, "waits") /\ IsList(undo)
  BY <1>2, <1>3, JoinedCareful
<1>5. AllCareful(undo \o << >>, "waits")
  BY <1>3, <1>4, JoinedCareful
<1> QED
  BY <1>5 DEF undo

LEMMA BookingCalls ==
    ASSUME Base, BookingsKept, Calls("candidate"), NEW s \in Slots, NEW b,
           cand.interviewSlotId # s, ~ slots[s].reminded, ~ WillRemind(s),
           Books(run["candidate"].todo, s),
           run["candidate"].todo # << >>, run["candidate"].todo[1] = Book(s, b),
           Tail(run["candidate"].todo) = << >>
    PROVE  BookingsKept'
<1> DEFINE a == "candidate"
           t == run[a].todo
<1>0. a \in Actors /\ "worker" \in Actors \ {a} /\ a # "worker" /\ a # "dispatcher"
  BY DEF Actors
<1>1. Call(a) = Book(s, b) /\ Call(a).op = "book" /\ Call(a).slot = s /\ Call(a).before = b
  BY <1>0, ListIs DEF Book
<1>2. ValidateBooking(a) \/ WriteBooking(a)
  BY <1>0, <1>1, ActionOf
<1>3. run'["worker"] = run["worker"] /\ LocalsOK /\ \A r : WillRemind(r)' <=> WillRemind(r)
  BY <1>0, OwnCall DEF WillRemind, Base
<1>4. cand \in Snapshot /\ KeptRow(cand) /\ s # Null /\ slots \in [Slots -> [booked : BOOLEAN, reminded : BOOLEAN]]
  BY ConstantsAssumption DEF Base, Tables, TypeOK, Row, BookingsKept
<1>5. WellJudged(a)' /\ (\A c \in Actors \ {a} : run'[c] = run[c])
  BY <1>0, JudgedAfter, OwnCall
<1>6. CASE ValidateBooking(a)
  <2> DEFINE undo == <<Release>> \o IF b \in {Null, s} THEN << >> ELSE <<Restore(b)>>
  <2>1. /\ cand' = cand /\ slots' = slots /\ phase' = phase
        /\ run' = [run EXCEPT ![a].read = cand] \/ Leaves(a, undo \o Tail(t), run[a].result)
    <3>1. /\ cand' = cand /\ slots' = slots /\ phase' = phase
          /\ run' = [run EXCEPT ![a].read = cand] \/ Went(a, undo)
      BY <1>1, <1>6, Zenon DEF ValidateBooking
    <3> QED
      BY <3>1 DEF Went
  <2>2. run'[a].todo = t \/ run'[a].todo = undo \o << >>
    <3> HIDE DEF undo
    <3> QED
      BY <1>0, <1>3, <2>1, LeftCalls, ZenonT(40)
  <2>3. ASSUME run'[a].todo = t PROVE OnCourse(a)'
    <3>1. ~ WillRemind(s)'
      BY <1>3 DEF WillRemind
    <3>2. Books(run'[a].todo, s)
      BY <2>3
    <3>3. cand'.interviewSlotId # s /\ ~ slots'[s].reminded
      BY <2>1
    <3> QED
      BY <1>0, <3>1, <3>2, <3>3 DEF OnCourse
  <2>4. ASSUME run'[a].todo = undo \o << >> PROVE OnCourse(a)'
    <3>1. AllCareful(undo \o << >>, "waits")
      BY UndoneWaits, Zenon
    <3> HIDE DEF undo
    <3>2. AllCareful(run'[a].todo, "waits")
      BY <2>4, <3>1
    <3> QED
      BY <1>0, <3>2, WaitingCourse
  <2> HIDE DEF undo
  <2>5. OnCourse(a)'
    BY <2>2, <2>3, <2>4
  <2>6. RowsMove(a)
    BY <1>0, <1>4, <2>1, RowsWritten
  <2> QED
    BY <1>0, <1>5, <2>5, <2>6, StepKeeps
<1>7. CASE WriteBooking(a)
  <2> DEFINE w == [Updated(cand, run[a].read, Status1("INTERVIEW_SCHEDULED")) EXCEPT !.interviewSlotId = s]
  <2>1. /\ AtCall(a, "book") /\ run[a].read # Null /\ cand' = w /\ phase' = phase /\ Goes(a)
        /\ \A r \in Slots : slots'[r].reminded => slots[r].reminded
    <3>1. /\ AtCall(a, "book") /\ run[a].read # Null /\ cand' = w /\ phase' = phase /\ Goes(a)
      BY <1>1, <1>7 DEF WriteBooking
    <3>2. \A r \in Slots : slots'[r] \in {slots[r], [slots[r] EXCEPT !.booked = TRUE], [slots[r] EXCEPT !.booked = FALSE]}
      BY <1>7, Zenon DEF WriteBooking
    <3>3. \A r \in Slots : /\ [slots[r] EXCEPT !.booked = TRUE].reminded = slots[r].reminded
                           /\ [slots[r] EXCEPT !.booked = FALSE].reminded = slots[r].reminded
      <4>1. \A u \in [booked : BOOLEAN, reminded : BOOLEAN] :
               [u EXCEPT !.booked = TRUE].reminded = u.reminded /\ [u EXCEPT !.booked = FALSE].reminded = u.reminded
        OBVIOUS
      <4> QED
        BY <1>4, <4>1
    <3> QED
      BY <3>1, <3>2, <3>3
  <2>2. run[a].read \in Snapshot
    BY <1>0, <2>1, AtHead
  <2>3. /\ KeptRow(w) /\ w.interviewCompletedAt = cand.interviewCompletedAt /\ w.hrDecision = cand.hrDecision
        /\ w.interviewSlotId = s
    BY <1>4, <2>2, BookingKeeps
  <2> HIDE DEF w
  <2>4. \A r \in Slots : (Over(r)' <=> Over(r)) /\ (Due(r)' => r = s)
    BY <2>1, <2>3 DEF Over, Due
  <2>5. RemindedIsOver'
    BY <2>1, <2>4 DEF RemindedIsOver, BookingsKept
  <2>6. RowsMove(a)
    BY <1>0, <1>3, <2>1, <2>3, <2>4, <2>5 DEF RowsMove
  <2>7. run'[a].todo = << >>
    <3>1. Leaves(a, << >> \o Tail(t), run[a].result)
      BY <2>1 DEF Goes, Went
    <3>2. run'[a].todo = << >> \o Tail(t)
      <4> DEFINE left == << >> \o Tail(t)
      <4>1. Leaves(a, left, run[a].result)
        BY <3>1
      <4> HIDE DEF left, t
      <4>2. LocalsOK /\ a \in Actors
        BY <1>0, <1>3
      <4>3. run'[a].todo = left
        BY <4>1, <4>2, LeftCalls, ZenonT(40)
      <4> QED
        BY <4>3 DEF left
    <3>3. Tail(t) = << >>
      OBVIOUS
    <3> QED
      BY <3>2, <3>3, EmptyBefore, EmptyList
  <2>8. OnCourse(a)'
    BY <1>0, <2>7, NothingWaits, WaitingCourse
  <2> QED
    BY <1>0, <1>5, <2>6, <2>8, StepKeeps
<1> QED
  BY <1>2, <1>6, <1>7

LEMMA EveryCallKeeps ==
    ASSUME Base, BookingsKept, NEW a \in Actors, Calls(a), run[a].todo # << >>
    PROVE  BookingsKept'
<1> DEFINE t == run[a].todo
<1>1. CASE \E m \in Modes : Suits(a, m) /\ AllCareful(t, m)
  BY <1>1, CarefulCalls
<1>2. CASE a = "worker" /\ \E s \in Slots : Over(s) /\ (Completion(t, s) \/ (Completion1(t, s) /\ ~ Due(s)))
  BY <1>2, CompletionCalls, ReminderCalls
<1>3. CASE /\ a = "candidate"
           /\ \E s \in Slots : Books(t, s) /\ cand.interviewSlotId # s /\ ~ slots[s].reminded /\ ~ WillRemind(s)
  <2>1. PICK s \in Slots : Books(t, s) /\ cand.interviewSlotId # s /\ ~ slots[s].reminded /\ ~ WillRemind(s)
    BY <1>3
  <2>2. \/ t[1] \in {TakeWebSlot(s), EmptyMirror(s)} /\ Books(Tail(t), s)
        \/ \E b : t[1] = Book(s, b) /\ Tail(t) = << >>
    BY <2>1, BooksShape
  <2> QED
    BY <1>3, <2>1, <2>2, TakingCalls, BookingCalls
<1> QED
  BY <1>1, <1>2, <1>3 DEF OnCourse, BookingsKept

\* Time passes, and nothing else that matters here.
LEMMA TimeKeeps ==
    ASSUME Base, BookingsKept, cand' = cand, slots' = slots, run' = run, \A s \in Slots : Over(s) => Over(s)'
    PROVE  BookingsKept'
<1> DEFINE a == "time"
<1>1. a \notin Actors /\ a # "worker" /\ a # "dispatcher" /\ a # "candidate"
  BY DEF Actors
<1>2. \A s \in Slots : (Due(s)' <=> Due(s)) /\ (WillRemind(s)' <=> WillRemind(s))
  BY DEF Due, WillRemind
<1>3. RemindedIsOver'
  BY <1>2 DEF RemindedIsOver, BookingsKept
<1>4. RowsMove(a)
  BY <1>1, <1>2, <1>3 DEF RowsMove, BookingsKept
<1>5. \A b \in Actors : OnCourse(b)'
  BY <1>1, <1>4, OthersCourse DEF Base, Tables
<1>6. JudgedWell'
  BY DEF JudgedWell, BookingsKept, AtCall, Running, Call
<1> QED
  BY <1>3, <1>5, <1>6 DEF BookingsKept

\* An actor begins, or ends.
LEMMA BeginningKeeps ==
    ASSUME Base, BookingsKept, NEW a \in Actors, cand' = cand, slots' = slots, phase' = phase,
           \A b \in Actors \ {a} : run'[b] = run[b], run'[a].read = Null, OnCourse(a)',
           \A s \in Slots : WillRemind(s)' => WillRemind(s) \/ cand.interviewSlotId = s \/ a # "worker"
    PROVE  BookingsKept'
<1>1. WellJudged(a)'
  BY DEF WellJudged
<1>2. \A s \in Slots : (Due(s)' <=> Due(s)) /\ (Over(s)' <=> Over(s))
  BY DEF Due, Over
<1>3. RemindedIsOver'
  BY <1>2 DEF RemindedIsOver, BookingsKept
<1>4. RowsMove(a)
  BY <1>2, <1>3 DEF RowsMove, BookingsKept
<1> QED
  BY <1>1, <1>4, StepKeeps

LEMMA BegunLocally ==
    ASSUME Base, NEW a \in Actors, NEW d, NEW t, Begun(a, d, t)
    PROVE  run'[a].todo = t /\ run'[a].read = Null /\ \A b \in Actors \ {a} : run'[b] = run[b]
<1>1. run = [b \in Actors |-> run[b]]
  BY DEF Base, LocalsOK
<1> DEFINE r == [doing |-> d, todo |-> t, read |-> Null, result |-> "ok"]
<1>2. r.todo = t /\ r.read = Null
  OBVIOUS
<1>3. run' = [run EXCEPT ![a] = r]
  BY DEF Begun
<1> HIDE DEF r
<1> QED
  BY <1>1, <1>2, <1>3

LEMMA RestLocally ==
    ASSUME Base, NEW a \in Actors, Resting(a)
    PROVE  run'[a].todo = << >> /\ run'[a].read = Null /\ \A b \in Actors \ {a} : run'[b] = run[b]
<1>1. run = [b \in Actors |-> run[b]]
  BY DEF Base, LocalsOK
<1>2. Idle.todo = << >> /\ Idle.read = Null
  BY DEF Idle
<1>3. run' = [run EXCEPT ![a] = Idle]
  BY DEF Resting
<1> QED
  BY <1>1, <1>2, <1>3

LEMMA RestKeeps ==
    ASSUME Base, BookingsKept, NEW a \in Actors, Resting(a), cand' = cand, slots' = slots, phase' = phase
    PROVE  BookingsKept'
<1>1. run'[a].todo = << >> /\ run'[a].read = Null /\ \A b \in Actors \ {a} : run'[b] = run[b]
  BY RestLocally
<1>2. AllCareful(run'[a].todo, "waits")
  BY <1>1, NothingWaits
<1> QED
  BY <1>1, <1>2, WaitingCourse, BeginningKeeps

LEMMA CrashKeeps ==
    ASSUME Base, BookingsKept, Crash
    PROVE  BookingsKept'
<1>1. cand' = cand /\ slots' = slots /\ phase' = phase /\ run' = [a \in Actors |-> Idle]
  BY DEF Crash
<1>2. \A a \in Actors : run'[a].todo = << >> /\ run'[a].read = Null
  BY <1>1 DEF Idle
<1>3. \A a \in Actors : OnCourse(a)'
  <2>1. \A a \in Actors : AllCareful(run'[a].todo, "waits")
    BY <1>2, NothingWaits
  <2> QED
    BY <2>1, WaitingCourse
<1>4. JudgedWell'
  BY <1>2 DEF JudgedWell
<1>5. RemindedIsOver'
  BY <1>1 DEF RemindedIsOver, BookingsKept, Over, Due
<1> QED
  BY <1>1, <1>3, <1>4, <1>5 DEF BookingsKept

LEMMA PassKeeps ==
    ASSUME Base, BookingsKept, NEW r \in Slots, Pass(r)
    PROVE  BookingsKept'
<1>1. cand' = cand /\ slots' = slots /\ run' = run /\ phase[r] # "long over"
      /\ phase' = [phase EXCEPT ![r] = CASE @ = "ahead" -> "on" [] @ = "on" -> "over"
                                         [] @ = "over" -> "long over"]
  BY DEF Pass
<1>2. phase \in [Slots -> Phases]
  BY DEF Base, Tables, TypeOK
<1>3. ASSUME NEW s \in Slots, Over(s) PROVE Over(s)'
  <2>1. CASE s # r
    BY <1>1, <1>2, <1>3, <2>1 DEF Over
  <2>2. CASE s = r
    <3>1. phase[r] = "over"
      BY <1>1, <1>3, <2>2 DEF Over
    <3>2. phase'[r] = "long over"
      BY <1>1, <1>2, <3>1
    <3> QED
      BY <2>2, <3>2 DEF Over
  <2> QED
    BY <2>1, <2>2
<1> QED
  BY <1>1, <1>3, TimeKeeps

LEMMA CommandKeeps ==
    ASSUME Base, BookingsKept, BeginCommand
    PROVE  BookingsKept'
<1> DEFINE k == batch[1][1]
           a == "dispatcher"
<1>1. /\ Entry(batch[1]) /\ run'[a].read = Null
      /\ run'["worker"] = run["worker"] /\ run'["candidate"] = run["candidate"]
      /\ \/ \E offered \in BOOLEAN : run'[a].todo = Todo(k, batch[1][2], offered)
         \/ AsksFirst(k) /\ run'[a].todo = <<Refuse("failed")>>
      /\ cand' = cand /\ slots' = slots /\ phase' = phase
  BY CommandBegins
<1>2. a \in Actors /\ (\A b \in Actors \ {a} : run'[b] = run[b]) /\ a # "worker"
  BY <1>1 DEF Actors
<1>3. k \in Commands /\ outbox[k].kind \in KindNames /\ TypeOK
  BY <1>1 DEF Entry, Base, Tables, OutboxSound
<1> HIDE DEF k
<1>4. AllCareful(<<Refuse("failed")>>, "decides")
  <2> DEFINE x == Refuse("failed")
  <2>1. Careful(x, "decides")
    BY CallsCareful
  <2> HIDE DEF x
  <2> QED
    BY <2>1, PairCareful DEF x
<1>5. AllCareful(run'[a].todo, "decides") \/ (cand.hrDecision = Null /\ AllCareful(run'[a].todo, "restarts"))
  <2>1. CASE run'[a].todo = <<Refuse("failed")>>
    BY <1>4, <2>1
  <2>2. CASE \E offered \in BOOLEAN : run'[a].todo = Todo(k, batch[1][2], offered)
    BY <1>3, <2>2, TodoCareful
  <2> QED
    BY <1>1, <2>1, <2>2
<1>6. OnCourse(a)'
  <2>1. "decides" \in Modes /\ "restarts" \in Modes /\ Suits(a, "decides")'
    BY DEF Modes, Suits
  <2>2. cand.hrDecision = Null => Suits(a, "restarts")'
    BY <1>1 DEF Suits
  <2> QED
    BY <1>2, <1>5, <2>1, <2>2, CarefulCourse
<1> QED
  BY <1>1, <1>2, <1>6, BeginningKeeps

LEMMA WorkKeeps ==
    ASSUME Base, BookingsKept, Work
    PROVE  BookingsKept'
<1> DEFINE a == "worker"
<1>0. a \in Actors /\ "waits" \in Modes /\ "follows" \in Modes /\ (\A s \in Slots : s # Null)
  BY ConstantsAssumption DEF Actors, Modes
<1>1. ASSUME NEW t, Works(t)
      PROVE  /\ run'[a].todo = t /\ run'[a].read = Null /\ (\A b \in Actors \ {a} : run'[b] = run[b])
             /\ cand' = cand /\ slots' = slots /\ phase' = phase
  BY <1>0, <1>1, BegunLocally DEF Works
<1>2. ASSUME NEW t, Works(t), NEW m \in {"waits", "follows"}, AllCareful(t, m),
             m = "follows" => cand.hrDecision # Null
      PROVE  BookingsKept'
  <2>1. Suits(a, m)'
    BY <1>1, <1>2 DEF Suits
  <2>2. OnCourse(a)' /\ \A s \in Slots : WillRemind(s)' => a # "worker"
    BY <1>0, <1>1, <1>2, <2>1, CarefulCourse
  <2> QED
    BY <1>0, <1>1, <1>2, <2>2, BeginningKeeps
<1>3. ASSUME NEW t, Works(t), NEW s \in Slots, Over(s), cand.interviewSlotId = s, Completion(t, s)
      PROVE  BookingsKept'
  <2>1. Over(s)' /\ Completion(run'[a].todo, s)
    BY <1>1, <1>3 DEF Over
  <2>2. OnCourse(a)'
    BY <2>1 DEF OnCourse
  <2>3. \A r \in Slots : WillRemind(r)' => r = s
    BY <2>1, CompletionsApart DEF WillRemind
  <2> QED
    BY <1>0, <1>1, <1>3, <2>2, <2>3, BeginningKeeps
<1>4. CASE NotifyDecision
  <2> DEFINE x == Send("offer", "archive", "throw")
             y == Send("thanks for the talk, rejection", "archive", "throw")
             v == Update([status |-> "MENTOR_MANUAL", notificationSent |-> TRUE])
             w == Update([status |-> "REJECTED", notificationSent |-> TRUE])
  <2>1. (cand.hrDecision = "ACCEPTED" /\ Works(<<x, v>>)) \/ Works(<<y, w>>)
    BY <1>4 DEF NotifyDecision
  <2>2. "ACCEPTED" # Null
    BY ConstantsAssumption DEF Decision
  <2>3. Careful(x, "follows") /\ Careful(v, "follows")
    BY PlainPatchesCareful, CallsCareful
  <2>4. Careful(y, "waits") /\ Careful(w, "waits")
    BY PlainPatchesCareful, CallsCareful DEF Humble
  <2> HIDE DEF x, y, v, w
  <2>5. AllCareful(<<x, v>>, "follows") /\ AllCareful(<<y, w>>, "waits")
    BY <2>3, <2>4, PairCareful
  <2> QED
    BY <1>2, <2>1, <2>2, <2>5
<1>5. CASE AutoComplete
  <2> DEFINE x == Update(Completed)
             more == IF cand.hrDecision = Null THEN <<Thanks>> ELSE << >>
  <2>1. PICK s \in Slots : OverdueBooking(s) /\ Works(<<x, Remind(s)>> \o more)
    BY <1>5 DEF AutoComplete, Thanks
  <2>2. Completion(<<x, Remind(s)>> \o more, s)
    <3> DEFINE y == Remind(s)
               z == Thanks
    <3>1. more = <<z>> \/ more = << >>
      OBVIOUS
    <3> HIDE DEF x, y, z, more
    <3>2. <<x, y>> \in Seq({x, y})
      OBVIOUS
    <3>3. <<x, y>> \o << >> = <<x, y>>
      BY <3>2, ConcatEmptySeq
    <3>4. <<x, y>> \o <<z>> = <<x, y, z>>
      BY JoinedThree
    <3> QED
      BY <3>1, <3>3, <3>4 DEF Completion, x, y, z
  <2>3. Over(s) /\ cand.interviewSlotId = s
    BY <2>1 DEF OverdueBooking
  <2> HIDE DEF x, more
  <2> QED
    BY <1>3, <2>1, <2>2, <2>3
<1>6. CASE RecoverStale
  <2>1. PICK s \in Slots : StaleBooking(s) /\ Works(<<Update(Completed), Remind(s)>>)
    BY <1>6 DEF RecoverStale
  <2>2. Completion(<<Update(Completed), Remind(s)>>, s) /\ Over(s) /\ cand.interviewSlotId = s
    BY <2>1 DEF Completion, StaleBooking
  <2> QED
    BY <1>3, <2>1, <2>2
<1>7. CASE RepairRejected
  <2> DEFINE x == Update(Status1("REJECTED"))
  <2>1. Works(<<x>>)
    BY <1>7 DEF RepairRejected
  <2>2. "REJECTED" \notin AfterTalk
    BY DEF AfterTalk, TrainingTrack, FirstShiftTrack
  <2>3. Careful(x, "waits")
    BY <2>2, PlainPatchesCareful, CallsCareful DEF Humble
  <2> HIDE DEF x
  <2>4. AllCareful(<<x>>, "waits")
    BY <2>3, PairCareful
  <2> QED
    BY <1>2, <2>1, <2>4
<1> QED
  BY <1>4, <1>5, <1>6, <1>7 DEF Work

LEMMA TapKeeps ==
    ASSUME Base, BookingsKept, Tap
    PROVE  BookingsKept'
<1> DEFINE a == "candidate"
<1>0. a \in Actors /\ a # "worker" /\ "worker" \in Actors \ {a}
  BY DEF Actors
<1>1. ASSUME NEW t, Taps(t)
      PROVE  /\ run'[a].todo = t /\ run'[a].read = Null /\ (\A b \in Actors \ {a} : run'[b] = run[b])
             /\ cand' = cand /\ slots' = slots /\ phase' = phase
  BY <1>0, <1>1, BegunLocally DEF Taps
<1>2. CASE TapSlot
  <2>1. PICK s \in Slots : s # cand.interviewSlotId /\ phase[s] = "ahead"
                           /\ Taps(<<TakeWebSlot(s), EmptyMirror(s), Book(s, cand.interviewSlotId)>>)
    BY <1>2 DEF TapSlot
  <2>2. ~ Over(s)
    BY <2>1 DEF Over
  <2>3. ~ slots[s].reminded
    BY <2>2 DEF BookingsKept, RemindedIsOver
  <2>4. ~ WillRemind(s)
    BY <1>0, <2>2, RemindsOver DEF BookingsKept
  <2> DEFINE t == <<TakeWebSlot(s), EmptyMirror(s), Book(s, cand.interviewSlotId)>>
  <2>5. Books(t, s)
    BY DEF Books
  <2>6. Taps(t)
    BY <2>1
  <2> HIDE DEF t
  <2>7. /\ run'[a].todo = t /\ run'[a].read = Null /\ (\A b \in Actors \ {a} : run'[b] = run[b])
        /\ cand' = cand /\ slots' = slots /\ phase' = phase
    BY <1>1, <2>6
  <2>8. ~ WillRemind(s)'
    BY <1>0, <2>4, <2>7 DEF WillRemind
  <2>9. OnCourse(a)'
    BY <2>1, <2>3, <2>5, <2>7, <2>8 DEF OnCourse
  <2> QED
    BY <1>0, <2>7, <2>9, BeginningKeeps
<1>3. CASE TapCancel
  <2> DEFINE x == Release
             y == Cancel(cand.interviewSlotId, TRUE)
             z == Update(Waiting)
  <2>1. Taps(<<x, y, z>>)
    BY <1>3 DEF TapCancel, Waiting
  <2>2. Careful(x, "waits") /\ Careful(y, "waits") /\ Careful(z, "waits")
    BY CallsCareful, MixedPatchesCareful DEF Humble
  <2> HIDE DEF x, y, z
  <2>3. AllCareful(<<x, y, z>>, "waits")
    BY <2>2, ShortCareful
  <2>4. OnCourse(a)'
    BY <1>0, <1>1, <2>1, <2>3, WaitingCourse
  <2> QED
    BY <1>0, <1>1, <2>1, <2>4, BeginningKeeps
<1> QED
  BY <1>2, <1>3 DEF Tap

LEMMA BookingsKeptNext == Base /\ BookingsKept /\ [Next]_vars => BookingsKept'
<1> SUFFICES ASSUME Base, BookingsKept, [Next]_vars PROVE BookingsKept'
  OBVIOUS
<1>1. ASSUME cand' = cand, slots' = slots, run' = run, phase' = phase PROVE BookingsKept'
  BY <1>1, TimeKeeps DEF Over
<1>2. CASE UNCHANGED vars
  BY <1>1, <1>2 DEF vars, state
<1>3. ASSUME NEW k \in Commands, Issue(k) PROVE BookingsKept'
  BY <1>1, <1>3 DEF Issue
<1>4. CASE Fetch
  BY <1>1, <1>4 DEF Fetch
<1>5. CASE Ack \/ LoseAck
  <2>1. Resting("dispatcher") /\ cand' = cand /\ slots' = slots /\ phase' = phase /\ "dispatcher" \in Actors
    BY <1>5 DEF Ack, LoseAck, Actors
  <2> QED
    BY <2>1, RestKeeps
<1>6. ASSUME NEW a \in Actors, Calls(a) PROVE BookingsKept'
  <2>1. CASE run[a].todo # << >>
    BY <1>6, <2>1, EveryCallKeeps
  <2>2. CASE run[a].todo = << >>
    <3>1. Rest(a)
      BY <1>6, <2>2, NothingLeft
    <3> QED
      BY <3>1, RestKeeps DEF Rest
  <2> QED
    BY <2>1, <2>2
<1> QED
  BY <1>2, <1>3, <1>4, <1>5, <1>6, CommandKeeps, WorkKeeps, TapKeeps, CrashKeeps, PassKeeps DEF Next, Dispatch

LEMMA FirstBookings == Init /\ KeptRow(cand) => BookingsKept
<1> SUFFICES ASSUME Init, KeptRow(cand) PROVE BookingsKept
  OBVIOUS
<1>1. run = [a \in Actors |-> Idle]
      /\ slots = [s \in Slots |-> [booked |-> s = cand.interviewSlotId, reminded |-> FALSE]]
  BY DEF Init
<1>2. \A a \in Actors : run[a].todo = << >> /\ run[a].read = Null
  BY <1>1 DEF Idle
<1>3. \A a \in Actors : OnCourse(a)
  <2>1. "waits" \in Modes /\ \A a \in Actors : Suits(a, "waits")
    BY DEF Modes, Suits
  <2> QED
    BY <1>2, <2>1, NothingWaits DEF OnCourse
<1>4. JudgedWell
  BY <1>2 DEF JudgedWell
<1>5. \A s \in Slots : ~ slots[s].reminded
  BY <1>1
<1> QED
  BY <1>3, <1>4, <1>5 DEF BookingsKept, RemindedIsOver

LEMMA BookingsAreFound == Base /\ BookingsKept => BookedEndInterviewed
<1> SUFFICES ASSUME Base, BookingsKept,
                    \A s \in Slots : phase[s] = "long over",
                    cand.interviewSlotId # Null,
                    \A s \in Slots : ~ OverdueBooking(s) /\ ~ StaleBooking(s),
                    ~ cand.interviewCompletedAt, cand.status \in {"SCREENING", "INTERVIEW_SCHEDULED"}
             PROVE  FALSE
  BY DEF BookedEndInterviewed
<1> DEFINE s == cand.interviewSlotId
<1>1. s \in Slots /\ slots[s].booked /\ slots[s] \in [booked : BOOLEAN, reminded : BOOLEAN]
  BY DEF Base, Tables, TypeOK, Row, Snapshot, HersIsTaken
<1>2. cand.currentStep = "INTERVIEW" /\ Over(s)
  BY <1>1 DEF BookingsKept, KeptRow, Over
<1>3. CASE cand.status = "SCREENING"
  BY <1>1, <1>2, <1>3 DEF StaleBooking
<1>4. CASE cand.status = "INTERVIEW_SCHEDULED"
  <2>1. ~ slots[s].reminded
    BY <1>1, <1>4 DEF BookingsKept, RemindedIsOver, Due
  <2>2. slots[s] = [booked |-> TRUE, reminded |-> FALSE]
    BY <1>1, <2>1
  <2> QED
    BY <1>1, <1>2, <1>4, <2>2 DEF OverdueBooking
<1> QED
  BY <1>3, <1>4

\* A booking is not forgotten, whatever crosses, fails or dies: once every slot is
\* over, who holds one is interviewed, or the worker's overdue or stale query finds
\* her (worker.ts, interview-repository.ts). Her row is, at first, one the stages
\* leave: dated if she is past the talk, and in the interview if she holds a slot.
THEOREM BookedEndInterviewedAlways == Spec /\ KeptRow(cand) => []BookedEndInterviewed
<1>1. Spec /\ KeptRow(cand) => [](Base /\ BookingsKept)
  <2>1. Init /\ KeptRow(cand) => Base /\ BookingsKept
    BY BaseInit, FirstBookings
  <2>2. Base /\ BookingsKept /\ [Next]_vars => (Base /\ BookingsKept)'
    BY BaseNext, BookingsKeptNext
  <2> QED
    BY <2>1, <2>2, PTL DEF Spec
<1>2. Base /\ BookingsKept => BookedEndInterviewed
  BY BookingsAreFound
<1> QED
  BY <1>1, <1>2, PTL

=================================================================================
