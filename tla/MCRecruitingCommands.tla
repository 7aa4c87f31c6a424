------------------------ MODULE MCRecruitingCommands ------------------------
EXTENDS RecruitingCommands

\* Rows the code writes, by where she is in the funnel.
At(status, step, slot) ==
    [status |-> status, currentStep |-> step, hrDecision |-> Null, isWaitlisted |-> FALSE,
     notificationSent |-> FALSE, materialsSent |-> FALSE, interviewCompletedAt |-> FALSE,
     interviewSlotId |-> slot, discoverySlotId |-> FALSE, trainingSlotId |-> FALSE]

CONSTANTS s1, s2

Waiting == At("WAITLIST_HR", "INITIAL_TEST", Null)
Cancelled == [At("WAITLIST_HR", "INTERVIEW", Null) EXCEPT !.isWaitlisted = TRUE]
Tattooed == At("MANUAL_REVIEW", "INITIAL_TEST", Null)
Scheduled == [At("INTERVIEW_SCHEDULED", "INTERVIEW", s1) EXCEPT !.notificationSent = TRUE]
Interviewed == [Scheduled EXCEPT !.status = "INTERVIEW_COMPLETED", !.interviewCompletedAt = TRUE]
InTraining ==
    [Interviewed EXCEPT !.status = "MENTOR_MANUAL", !.currentStep = "TRAINING",
                        !.hrDecision = "ACCEPTED"]

AnyRow == {Waiting, Cancelled, Tattooed, Scheduled, Interviewed, InTraining}

Ahead == [s \in Slots |-> "ahead"]

Scene(kinds, rows, faults) ==
    [kinds |-> kinds, withText |-> {}, ages |-> {"fits"}, rows |-> rows, phase |-> Ahead,
     faults |-> faults, booking |-> FALSE, attempts |-> 2, overlap |-> FALSE]

\* Any two decisions about her, one slot ahead.
TwoDecisions ==
    [Scene(<<KindNames, KindNames>>, AnyRow, {"delivery", "ack"}) EXCEPT
        !.withText = {2}, !.ages = {"fits", "underage"}, !.phase[s2] = "long over"]
\* Any decision while she books and cancels.
DecisionAndBooking == [Scene(<<KindNames>>, AnyRow, {"delivery", "slots"}) EXCEPT !.booking = TRUE]

\* The calls of one actor between those of another: a no-show while she changes
\* or cancels her time, an invitation while she takes the one time there is.
NoShowMeanwhile ==
    [Scene(<<{"MARK_NO_SHOW"}>>, {Scheduled}, {}) EXCEPT
        !.booking = TRUE, !.attempts = 1, !.overlap = TRUE]
InvitedMeanwhile ==
    [Scene(<<{"INVITE_TO_INTERVIEW"}>>, {Scheduled, Cancelled}, {"blocked"}) EXCEPT
        !.booking = TRUE, !.attempts = 1, !.overlap = TRUE, !.phase[s2] = "long over"]

\* The automatic completion has overwritten a verdict; while the worker tells it,
\* another decision comes, or the process dies.
Overwritten ==
    {[Interviewed EXCEPT !.hrDecision = d, !.notificationSent = FALSE] : d \in {"ACCEPTED", "REJECTED"}}
LateVerdict == [Scene(<<KindNames>>, Overwritten, {"delivery"}) EXCEPT !.phase[s1] = "over"]
LateAndCrash ==
    [LateVerdict EXCEPT !.kinds = <<{"MARK_NO_SHOW", "RESCHEDULE_INTERVIEW"}>>, !.faults = {"crash"}]

AllOrders ==
    {TwoDecisions, DecisionAndBooking, NoShowMeanwhile, InvitedMeanwhile, LateVerdict, LateAndCrash}

Rejection ==
    {[Scene(<<{"REJECT_AFTER_INTERVIEW", "MARK_NO_SHOW"}>>, {Scheduled}, {"delivery", "crash"})
        EXCEPT !.overlap = TRUE]}

\* For the properties README.md says the code breaks: AcceptanceStands under
\* FairSpec, and RetryKeepsNewBooking.
Acceptance ==
    {[Scene(<<{"ACCEPT_AFTER_INTERVIEW"}>>, {Scheduled}, {}) EXCEPT !.overlap = TRUE]}
Reschedule ==
    {[Scene(<<{"RESCHEDULE_INTERVIEW"}>>, {Scheduled}, {"delivery"}) EXCEPT !.booking = TRUE]}
=============================================================================
