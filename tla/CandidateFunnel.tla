-------------------------- MODULE CandidateFunnel --------------------------
(* The funnel guard of services/candidate-funnel-guard.ts: which patches of  *)
(* a candidate's row repositories/candidate-repository.ts lets through.      *)
(* A snapshot holds the columns the guard reads; a date is TRUE when it is   *)
(* set, and so are the ids of training slots, which nothing books any more.  *)
(* A patch is a function from some of these columns.                         *)

CONSTANTS
    Null,           \* the database's NULL
    Slots           \* interview slots

InterviewTrack == {"INTERVIEW_SCHEDULED", "INTERVIEW_COMPLETED", "DECISION_PENDING"}
TrainingTrack ==
    {"ACCEPTED", "MENTOR_MANUAL", "WAITLIST_MENTOR", "DISCOVERY_SCHEDULED",
     "DISCOVERY_COMPLETED", "TRAINING_SCHEDULED", "TRAINING_COMPLETED", "NDA",
     "KNOWLEDGE_TEST"}
FirstShiftTrack ==
    {"STAGING_SETUP", "STAGING_ACTIVE", "OFFLINE_STAGING", "READY_FOR_HIRE",
     "AWAITING_FIRST_SHIFT", "HIRED"}
Status ==
    {"SCREENING", "WAITLIST", "WAITLIST_HR", "MANUAL_REVIEW", "REJECTED", "BLOCKER"}
        \cup InterviewTrack \cup TrainingTrack \cup FirstShiftTrack
Step == {"INITIAL_TEST", "INTERVIEW", "TRAINING", "FIRST_SHIFT"}
Decision == {"ACCEPTED", "REJECTED", "NOSHOW", "AGE_LIMIT", "REJECTED_SYSTEM_UNDERAGE"}

Snapshot ==
    [status : Status, currentStep : Step, hrDecision : Decision \cup {Null},
     isWaitlisted : BOOLEAN, notificationSent : BOOLEAN, materialsSent : BOOLEAN,
     interviewCompletedAt : BOOLEAN, interviewSlotId : Slots \cup {Null},
     discoverySlotId : BOOLEAN, trainingSlotId : BOOLEAN]

---------------------------------------------------------------------------
(* What the guard knows of a snapshot.                                     *)

LegacyMentorWaitlist(c) == c.status = "WAITLIST" /\ c.currentStep = "TRAINING"

InMentorTrack(c) ==
    \/ c.status \in (TrainingTrack \ {"ACCEPTED", "WAITLIST_MENTOR"}) \cup FirstShiftTrack
    \/ c.discoverySlotId
    \/ c.trainingSlotId

MentorEligible(c) ==
    \/ c.interviewCompletedAt
    \/ c.hrDecision = "ACCEPTED"
    \/ c.discoverySlotId
    \/ c.trainingSlotId
    \/ c.status \in (TrainingTrack \ {"ACCEPTED", "WAITLIST_MENTOR", "DISCOVERY_SCHEDULED"})
                        \cup FirstShiftTrack
    \/ c.currentStep = "TRAINING" /\ c.status \in {"ACCEPTED", "WAITLIST_MENTOR", "WAITLIST"}

RecoverableUnderage(c) ==
    c.status = "REJECTED" /\ c.hrDecision = "REJECTED_SYSTEM_UNDERAGE"

\* The step a status implies; Null where it implies none.
RequiredStep(s) ==
    CASE s \in InterviewTrack -> "INTERVIEW"
      [] s \in TrainingTrack -> "TRAINING"
      [] s \in FirstShiftTrack -> "FIRST_SHIFT"
      [] OTHER -> Null

\* The statuses a candidate may come from, whatever else her row says.
Sources == [
    SCREENING |-> {"WAITLIST_HR", "WAITLIST", "MANUAL_REVIEW"},
    WAITLIST_HR |-> {"SCREENING", "WAITLIST", "INTERVIEW_SCHEDULED", "INTERVIEW_COMPLETED"},
    MANUAL_REVIEW |-> {"SCREENING", "WAITLIST_HR", "WAITLIST"},
    INTERVIEW_SCHEDULED |-> {"SCREENING", "WAITLIST_HR", "WAITLIST"},
    INTERVIEW_COMPLETED |-> {"INTERVIEW_SCHEDULED", "DECISION_PENDING"},
    DECISION_PENDING |-> {"INTERVIEW_SCHEDULED", "INTERVIEW_COMPLETED"},
    ACCEPTED |-> {"INTERVIEW_COMPLETED", "DECISION_PENDING", "WAITLIST_MENTOR",
                  "DISCOVERY_SCHEDULED", "DISCOVERY_COMPLETED"},
    MENTOR_MANUAL |-> {"INTERVIEW_COMPLETED", "DECISION_PENDING", "ACCEPTED"},
    WAITLIST_MENTOR |-> {"ACCEPTED", "DISCOVERY_COMPLETED", "DISCOVERY_SCHEDULED",
                         "TRAINING_SCHEDULED"},
    DISCOVERY_SCHEDULED |-> {"ACCEPTED", "WAITLIST_MENTOR"},
    DISCOVERY_COMPLETED |-> {"DISCOVERY_SCHEDULED"},
    TRAINING_SCHEDULED |-> {"DISCOVERY_COMPLETED"},
    TRAINING_COMPLETED |-> {"TRAINING_SCHEDULED", "ACCEPTED", "MENTOR_MANUAL",
                            "DISCOVERY_SCHEDULED", "DISCOVERY_COMPLETED", "NDA",
                            "KNOWLEDGE_TEST"},
    NDA |-> {"MENTOR_MANUAL", "TRAINING_SCHEDULED", "TRAINING_COMPLETED"},
    KNOWLEDGE_TEST |-> {"TRAINING_COMPLETED", "NDA"},
    STAGING_SETUP |-> {"KNOWLEDGE_TEST", "STAGING_ACTIVE", "OFFLINE_STAGING",
                       "TRAINING_COMPLETED"},
    STAGING_ACTIVE |-> {"STAGING_SETUP", "OFFLINE_STAGING"},
    OFFLINE_STAGING |-> {"STAGING_SETUP", "STAGING_ACTIVE"},
    READY_FOR_HIRE |-> {"NDA", "STAGING_ACTIVE", "OFFLINE_STAGING"},
    AWAITING_FIRST_SHIFT |-> {"READY_FOR_HIRE"},
    HIRED |-> {"READY_FOR_HIRE", "AWAITING_FIRST_SHIFT"},
    REJECTED |-> Status,
    BLOCKER |-> Status,
    WAITLIST |-> Status]

\* Mutant: an acceptance is allowed from anywhere.
AllowsAnyAcceptance(old, s) == s = "MENTOR_MANUAL" \/ old.status = s \/ old.status \in Sources[s]
AllowsTransition(old, s) ==
    \/ old.status = s
    \/ old.status \in Sources[s]
    \/ s \in {"SCREENING", "WAITLIST_HR", "MANUAL_REVIEW"} /\ RecoverableUnderage(old)
    \/ /\ s \in {"INTERVIEW_COMPLETED", "DECISION_PENDING"}
       /\ old.status = "SCREENING" /\ old.currentStep = "INTERVIEW" /\ old.interviewSlotId # Null
    \/ /\ s \in {"ACCEPTED", "MENTOR_MANUAL", "WAITLIST_MENTOR", "DISCOVERY_SCHEDULED"}
       /\ LegacyMentorWaitlist(old)
    \/ s = "HIRED" /\ InMentorTrack(old)

---------------------------------------------------------------------------
(* Patches.                                                                *)

NoPatch == [f \in {} |-> Null]
Field(p, f, otherwise) == IF f \in DOMAIN p THEN p[f] ELSE otherwise

\* The columns of two patches; the first has the say.
With(p, q) == [f \in DOMAIN p \cup DOMAIN q |-> Field(p, f, Field(q, f, Null))]

\* normalizeCandidateFunnelPatch: a status brings its step, and clears or sets
\* the waitlist flag unless the patch does.
Normalized(old, p) ==
    LET s == Field(p, "status", Null)
        step == IF s # Null /\ RequiredStep(s) # Null
                THEN [currentStep |-> Field(p, "currentStep", RequiredStep(s))]
                ELSE NoPatch
        waits == IF s = "WAITLIST_MENTOR" THEN [isWaitlisted |-> Field(p, "isWaitlisted", TRUE)]
                 ELSE IF s = "ACCEPTED" /\ old.isWaitlisted
                      THEN [isWaitlisted |-> Field(p, "isWaitlisted", FALSE)]
                      ELSE NoPatch IN
    [f \in DOMAIN p \cup DOMAIN step \cup DOMAIN waits |->
        Field(step, f, Field(waits, f, Field(p, f, Null)))]

\* The row after the update: what the patch names, and nothing else.
Written(old, p) == [f \in DOMAIN old |-> Field(p, f, old[f])]

\* buildNextCandidateFunnelState, the row the guard judges: a decision or an
\* interview date the patch clears is still there (the ?? of the code).
Judged(old, p) ==
    LET w == Written(old, p) IN
    [w EXCEPT !.hrDecision = IF @ = Null THEN old.hrDecision ELSE @,
              !.interviewCompletedAt = @ \/ old.interviewCompletedAt]

\* validateCandidateFunnelTransition.
StepFits(next) == RequiredStep(next.status) \in {Null, next.currentStep}
GrantsMaterials(old, next) == next.materialsSent /\ ~ old.materialsSent
EntersMentorFlow(old, next) ==
    /\ ~ InMentorTrack(old)
    /\ InMentorTrack(next) \/ next.status = "ACCEPTED" \/ GrantsMaterials(old, next)

\* changedFields is empty.  The date of an interview never comes twice: whoever
\* writes one changes it.
Unchanged(old, next, p) == old = next /\ ~ Field(p, "interviewCompletedAt", FALSE)
Valid(old, next) ==
    /\ StepFits(next)
    /\ AllowsTransition(old, next.status)
    /\ EntersMentorFlow(old, next) => MentorEligible(old) \/ MentorEligible(next)
    /\ GrantsMaterials(old, next) => MentorEligible(next)
    /\ ~ (next.status = "WAITLIST_HR" /\ InMentorTrack(old))

\* validateFunnelPatch, and what update then writes: the patch as normalized
\* for the snapshot read, over whatever the row holds by then.
Admits(read, p) ==
    LET next == Judged(read, Normalized(read, p)) IN Unchanged(read, next, p) \/ Valid(read, next)
Updated(row, read, p) == Written(row, Normalized(read, p))
=============================================================================
