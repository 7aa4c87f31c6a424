------------------------ MODULE MCInvitationWaitlist ------------------------
EXTENDS MCRecruitingCommands, InvitationWaitlist

\* A candidate who has never had a time, or has given hers up, is invited; a
\* letter may fail, the process die, or she block the bot.
Invited24 ==
    [Scene(<<{"INVITE_TO_INTERVIEW"}>>, {Waiting, Cancelled}, {"delivery"}) EXCEPT
        !.booking = TRUE]
InvitedAndCrash == [Invited24 EXCEPT !.rows = {Waiting}, !.faults = {"crash"}]
InvitedAndBlocks == [Invited24 EXCEPT !.rows = {Waiting}, !.faults = {"blocked"}]

\* Her time is taken from her by a reschedule whose answer may be lost; she may
\* be invited anew.
Rescheduled ==
    [Scene(<<{"RESCHEDULE_INTERVIEW"}>>, {Scheduled}, {"ack"}) EXCEPT !.booking = TRUE]
RescheduledAndInvited ==
    [Scene(<<{"RESCHEDULE_INTERVIEW"}, {"INVITE_TO_INTERVIEW"}>>, {Scheduled}, {}) EXCEPT
        !.booking = TRUE]

AllInvitations ==
    Rejection \cup
        {Invited24, InvitedAndCrash, InvitedAndBlocks, Rescheduled, RescheduledAndInvited}

\* For BookedMeanwhileStays, which README.md says the code breaks.
Expiry == {[Invited24 EXCEPT !.rows = {Waiting}, !.faults = {}, !.overlap = TRUE]}
=============================================================================
