----------------------- MODULE RecruitingCommandsProofs -----------------------
(* For any slots, rows, commands and faults: the tables keep their shape and *)
(* the slot her row names is taken; and for handlers that come one after the *)
(* other, nobody leaves a rejection or goes back in the funnel, the two slot *)
(* tables agree, an invitation goes to whom it may, and what she reads is    *)
(* true: one verdict, no hope after a rejection, no move kept from her.      *)
EXTENDS RecruitingCommands, FiniteSetTheorems, SequenceTheorems, TLAPS

---------------------------------------------------------------------------
(* What a handler may have to do.                                          *)

IsList(t) == \E S : t \in Seq(S)

\* A patch of columns of the table.
PatchTyped(p) ==
    /\ "status" \in DOMAIN p => p["status"] \in Status
    /\ "currentStep" \in DOMAIN p => p["currentStep"] \in Step
    /\ "hrDecision" \in DOMAIN p => p["hrDecision"] \in Decision
    /\ "isWaitlisted" \in DOMAIN p => p["isWaitlisted"] \in BOOLEAN
    /\ "notificationSent" \in DOMAIN p => p["notificationSent"] \in BOOLEAN
    /\ "materialsSent" \in DOMAIN p => p["materialsSent"] = FALSE
    /\ "interviewCompletedAt" \in DOMAIN p => p["interviewCompletedAt"] \in BOOLEAN
    /\ "interviewSlotId" \in DOMAIN p => p["interviewSlotId"] = Null
    /\ "discoverySlotId" \in DOMAIN p => p["discoverySlotId"] = FALSE
    /\ "trainingSlotId" \in DOMAIN p => p["trainingSlotId"] = FALSE

\* What a handler's update writes besides: nobody is put on the old waitlist, under
\* review or into a slot by one, and only her age makes her underage.
Writable ==
    {"SCREENING", "WAITLIST_HR", "INTERVIEW_COMPLETED", "MENTOR_MANUAL", "TRAINING_COMPLETED",
     "STAGING_SETUP", "STAGING_ACTIVE", "READY_FOR_HIRE", "HIRED", "REJECTED", "BLOCKER"}
PatchOK(p) ==
    /\ PatchTyped(p)
    /\ "status" \in DOMAIN p => p["status"] \in Writable
    /\ "hrDecision" \in DOMAIN p /\ p["hrDecision"] = "REJECTED_SYSTEM_UNDERAGE" => age = "underage"

\* The transaction of a reschedule: back to the waitlist, and on from there.
Back == [status |-> "WAITLIST_HR", currentStep |-> "INTERVIEW", interviewCompletedAt |-> FALSE]
Reopens(p) ==
    /\ "status" \in DOMAIN p /\ p["status"] = "SCREENING"
    /\ "interviewSlotId" \notin DOMAIN p

Ops ==
    {"update", "check", "send", "release", "cancel", "free", "remind", "archive", "mark",
     "move", "refuse", "take", "book", "restore"}
Results == {"ok", "failed", "state_conflict"}

Fine(a, c) ==
    /\ c.op \in Ops
    /\ c.op = "update" =>
          /\ IsList(c.patches) /\ Len(c.patches) \in {1, 2}
          /\ PatchOK(c.patches[1]) /\ PatchOK(c.patches[Len(c.patches)])
          /\ Len(c.patches) = 2 => c.patches[1] = Back /\ Reopens(c.patches[2])
    /\ c.op = "send" =>
          /\ c.letter \in Letters
          /\ c.onBlocked \in {"archive", "bar", "throw", "ignore"}
          /\ c.letter = "invitation" => age = "fits"
    /\ c.op \in {"cancel", "free", "remind", "take", "book", "restore"} => c.slot \in Slots
    /\ c.op = "book" => c.before \in Slots \cup {Null}
    /\ c.op \in {"take", "book", "restore"} => a = "candidate"
    /\ c.op = "mark" => a = "dispatcher"
    /\ c.op = "refuse" => c.why \in {"failed", "state_conflict"}
AllFine(a, t) == IsList(t) /\ \A i \in 1 .. Len(t) : Fine(a, t[i])

---------------------------------------------------------------------------
(* Lists of calls.                                                         *)

LEMMA EmptyList == IsList(<< >>) /\ Len(<< >>) = 0
<1>1. << >> \in Seq({})
  OBVIOUS
<1> QED
  BY <1>1 DEF IsList

LEMMA ShortLists ==
    ASSUME NEW x, NEW y, NEW z
    PROVE  /\ IsList(<<x>>) /\ Len(<<x>>) = 1
           /\ IsList(<<x, y>>) /\ Len(<<x, y>>) = 2
           /\ IsList(<<x, y, z>>) /\ Len(<<x, y, z>>) = 3
<1>1. <<x>> \in Seq({x, y, z}) /\ <<x, y>> \in Seq({x, y, z}) /\ <<x, y, z>> \in Seq({x, y, z})
  OBVIOUS
<1> QED
  BY <1>1 DEF IsList

LEMMA TailList ==
    ASSUME NEW t, IsList(t), t # << >>
    PROVE  /\ IsList(Tail(t)) /\ Len(t) \in Nat \ {0} /\ Len(Tail(t)) = Len(t) - 1
           /\ \A i \in 1 .. Len(t) - 1 : Tail(t)[i] = t[i + 1]
<1>1. PICK S : t \in Seq(S)
  BY DEF IsList
<1>2. Len(t) \in Nat \ {0} /\ Tail(t) \in Seq(S) /\ Len(Tail(t)) = Len(t) - 1
  BY <1>1
<1>3. \A i \in 1 .. Len(t) - 1 : Tail(t)[i] = t[i + 1]
  BY <1>1, <1>2
<1> QED
  BY <1>2, <1>3 DEF IsList

LEMMA JoinedList ==
    ASSUME NEW s, NEW t, IsList(s), IsList(t)
    PROVE  /\ IsList(s \o t) /\ Len(s) \in Nat /\ Len(t) \in Nat /\ Len(s \o t) = Len(s) + Len(t)
           /\ \A i \in 1 .. Len(s) : (s \o t)[i] = s[i]
           /\ \A i \in 1 .. Len(t) : (s \o t)[Len(s) + i] = t[i]
<1>1. PICK S : s \in Seq(S)
  BY DEF IsList
<1>2. PICK T : t \in Seq(T)
  BY DEF IsList
<1>3. s \in Seq(S \cup T) /\ t \in Seq(S \cup T)
  BY <1>1, <1>2
<1>4. s \o t \in Seq(S \cup T) /\ Len(s) \in Nat /\ Len(t) \in Nat /\ Len(s \o t) = Len(s) + Len(t)
  BY <1>3
<1>5. \A i \in 1 .. Len(s) : (s \o t)[i] = s[i]
  BY <1>3
<1>6. \A i \in 1 .. Len(t) : (s \o t)[Len(s) + i] = t[i]
  BY <1>3
<1> QED
  BY <1>4, <1>5, <1>6 DEF IsList

LEMMA EmptyIsNone ==
    ASSUME NEW t, IsList(t)
    PROVE  Len(t) \in Nat /\ (t = << >> <=> Len(t) = 0)
<1>1. PICK S : t \in Seq(S)
  BY DEF IsList
<1> QED
  BY <1>1

LEMMA FineShort ==
    ASSUME NEW a, NEW x, NEW y, NEW z
    PROVE  /\ AllFine(a, << >>)
           /\ Fine(a, x) => AllFine(a, <<x>>)
           /\ Fine(a, x) /\ Fine(a, y) => AllFine(a, <<x, y>>)
           /\ Fine(a, x) /\ Fine(a, y) /\ Fine(a, z) => AllFine(a, <<x, y, z>>)
<1>1. AllFine(a, << >>)
  BY EmptyList DEF AllFine
<1>2. ASSUME Fine(a, x) PROVE AllFine(a, <<x>>)
  <2>1. \A i \in 1 .. 1 : Fine(a, <<x>>[i])
    BY <1>2
  <2> QED
    BY <2>1, ShortLists DEF AllFine
<1>3. ASSUME Fine(a, x), Fine(a, y) PROVE AllFine(a, <<x, y>>)
  <2>1. \A i \in 1 .. 2 : Fine(a, <<x, y>>[i])
    BY <1>3
  <2> QED
    BY <2>1, ShortLists DEF AllFine
<1>4. ASSUME Fine(a, x), Fine(a, y), Fine(a, z) PROVE AllFine(a, <<x, y, z>>)
  <2>1. \A i \in 1 .. 3 : Fine(a, <<x, y, z>>[i])
    BY <1>4
  <2> QED
    BY <2>1, ShortLists DEF AllFine
<1> QED
  BY <1>1, <1>2, <1>3, <1>4

LEMMA FineJoined ==
    ASSUME NEW a, NEW s, NEW t, AllFine(a, s), AllFine(a, t)
    PROVE  AllFine(a, s \o t)
<1>1. /\ IsList(s \o t) /\ Len(s) \in Nat /\ Len(t) \in Nat /\ Len(s \o t) = Len(s) + Len(t)
      /\ \A i \in 1 .. Len(s) : (s \o t)[i] = s[i]
      /\ \A i \in 1 .. Len(t) : (s \o t)[Len(s) + i] = t[i]
  BY JoinedList DEF AllFine
<1>2. ASSUME NEW i \in 1 .. Len(s \o t) PROVE Fine(a, (s \o t)[i])
  <2>1. CASE i <= Len(s)
    BY <1>1, <2>1 DEF AllFine
  <2>2. CASE i > Len(s)
    <3>1. i - Len(s) \in 1 .. Len(t) /\ i = Len(s) + (i - Len(s))
      BY <1>1, <2>2
    <3>2. (s \o t)[i] = t[i - Len(s)]
      BY <1>1, <3>1
    <3> QED
      BY <3>1, <3>2 DEF AllFine
  <2> QED
    BY <1>1, <2>1, <2>2
<1> QED
  BY <1>1, <1>2 DEF AllFine

LEMMA FineTail ==
    ASSUME NEW a, NEW t, AllFine(a, t), t # << >>
    PROVE  AllFine(a, Tail(t)) /\ Fine(a, t[1])
<1>1. /\ IsList(Tail(t)) /\ Len(t) \in Nat \ {0} /\ Len(Tail(t)) = Len(t) - 1
      /\ \A i \in 1 .. Len(t) - 1 : Tail(t)[i] = t[i + 1]
  BY TailList DEF AllFine
<1>2. \A i \in 1 .. Len(t) - 1 : i + 1 \in 1 .. Len(t)
  BY <1>1
<1> QED
  BY <1>1, <1>2 DEF AllFine

---------------------------------------------------------------------------
(* What the guard and an update do.                                        *)

Columns ==
    {"status", "currentStep", "hrDecision", "isWaitlisted", "notificationSent", "materialsSent",
     "interviewCompletedAt", "interviewSlotId", "discoverySlotId", "trainingSlotId"}

LEMMA RowColumns == ASSUME NEW c \in Snapshot PROVE DOMAIN c = Columns
BY DEF Snapshot, Columns

\* A function of the columns with the right values is a row.
LEMMA RowOf ==
    ASSUME NEW c, DOMAIN c = Columns, c = [f \in Columns |-> c[f]],
           c["status"] \in Status, c["currentStep"] \in Step, c["hrDecision"] \in Decision \cup {Null},
           c["isWaitlisted"] \in BOOLEAN, c["notificationSent"] \in BOOLEAN,
           c["materialsSent"] \in BOOLEAN, c["interviewCompletedAt"] \in BOOLEAN,
           c["interviewSlotId"] \in Slots \cup {Null}, c["discoverySlotId"] \in BOOLEAN,
           c["trainingSlotId"] \in BOOLEAN
    PROVE  c \in Snapshot
BY DEF Snapshot, Columns

\* The step and the flag that a patch brings with its status.
LEMMA NormalizedOf ==
    ASSUME NEW old, NEW p
    PROVE  LET n == Normalized(old, p) IN
           /\ \A f \in DOMAIN p : f \in DOMAIN n
           /\ \A f \in DOMAIN n : f \in DOMAIN p \/ f \in {"currentStep", "isWaitlisted"}
           /\ \A f \in DOMAIN p : n[f] = p[f]
           /\ "currentStep" \in DOMAIN n /\ "currentStep" \notin DOMAIN p =>
                 /\ "status" \in DOMAIN p
                 /\ n["currentStep"] = RequiredStep(p["status"]) /\ RequiredStep(p["status"]) # Null
           /\ "isWaitlisted" \in DOMAIN n /\ "isWaitlisted" \notin DOMAIN p => n["isWaitlisted"] \in BOOLEAN
<1> DEFINE s == Field(p, "status", Null)
           step == IF s # Null /\ RequiredStep(s) # Null
                   THEN [currentStep |-> Field(p, "currentStep", RequiredStep(s))]
                   ELSE NoPatch
           waits == IF s = "WAITLIST_MENTOR" THEN [isWaitlisted |-> Field(p, "isWaitlisted", TRUE)]
                    ELSE IF s = "ACCEPTED" /\ old.isWaitlisted
                         THEN [isWaitlisted |-> Field(p, "isWaitlisted", FALSE)]
                         ELSE NoPatch
           n == Normalized(old, p)
<1>1. n = [f \in DOMAIN p \cup DOMAIN step \cup DOMAIN waits |->
              Field(step, f, Field(waits, f, Field(p, f, Null)))]
  BY DEF Normalized
<1>2. /\ DOMAIN step \subseteq {"currentStep"}
      /\ "currentStep" \in DOMAIN step =>
            /\ s # Null /\ RequiredStep(s) # Null
            /\ step["currentStep"] = Field(p, "currentStep", RequiredStep(s))
  BY DEF NoPatch
<1>3. /\ DOMAIN waits \subseteq {"isWaitlisted"}
      /\ "isWaitlisted" \in DOMAIN waits =>
            waits["isWaitlisted"] \in {Field(p, "isWaitlisted", TRUE), Field(p, "isWaitlisted", FALSE)}
  BY DEF NoPatch
<1>4. s # Null => "status" \in DOMAIN p /\ s = p["status"]
  BY DEF Field
<1> HIDE DEF s, step, waits
<1>5. \A f \in DOMAIN n : n[f] = Field(step, f, Field(waits, f, Field(p, f, Null)))
  BY <1>1
<1>6. DOMAIN n = DOMAIN p \cup DOMAIN step \cup DOMAIN waits
  BY <1>1
<1>7. \A f \in DOMAIN p : n[f] = p[f]
  BY <1>2, <1>3, <1>5, <1>6 DEF Field
<1>8. "currentStep" \in DOMAIN n /\ "currentStep" \notin DOMAIN p =>
         /\ "status" \in DOMAIN p
         /\ n["currentStep"] = RequiredStep(p["status"]) /\ RequiredStep(p["status"]) # Null
  BY <1>2, <1>3, <1>4, <1>5, <1>6 DEF Field
<1>9. "isWaitlisted" \in DOMAIN n /\ "isWaitlisted" \notin DOMAIN p => n["isWaitlisted"] \in BOOLEAN
  BY <1>2, <1>3, <1>5, <1>6 DEF Field
<1> QED
  BY <1>2, <1>3, <1>6, <1>7, <1>8, <1>9

LEMMA RequiredSteps == \A s : RequiredStep(s) \in Step \cup {Null}
BY DEF RequiredStep, Step

\* An update keeps the row a row; its columns are the patch's or the old ones.
LEMMA UpdatedRow ==
    ASSUME NEW row \in Snapshot, NEW read \in Snapshot, NEW p, PatchTyped(p)
    PROVE  LET w == Updated(row, read, p) IN
           /\ w \in Snapshot
           /\ w.status = Field(p, "status", row.status)
           /\ w.hrDecision = Field(p, "hrDecision", row.hrDecision)
           /\ w.interviewSlotId = IF "interviewSlotId" \in DOMAIN p THEN Null ELSE row.interviewSlotId
           /\ w.discoverySlotId => row.discoverySlotId
           /\ w.trainingSlotId => row.trainingSlotId
           /\ w.materialsSent => row.materialsSent
<1> DEFINE n == Normalized(read, p)
           w == Updated(row, read, p)
<1>1. /\ \A f \in DOMAIN p : f \in DOMAIN n
      /\ \A f \in DOMAIN n : f \in DOMAIN p \/ f \in {"currentStep", "isWaitlisted"}
      /\ \A f \in DOMAIN p : n[f] = p[f]
      /\ "currentStep" \in DOMAIN n /\ "currentStep" \notin DOMAIN p =>
            /\ "status" \in DOMAIN p
            /\ n["currentStep"] = RequiredStep(p["status"]) /\ RequiredStep(p["status"]) # Null
      /\ "isWaitlisted" \in DOMAIN n /\ "isWaitlisted" \notin DOMAIN p => n["isWaitlisted"] \in BOOLEAN
  BY NormalizedOf
<1>2. w = [f \in Columns |-> IF f \in DOMAIN n THEN n[f] ELSE row[f]]
  BY RowColumns DEF Updated, Written, Field
<1> HIDE DEF n, w
<1>3. DOMAIN w = Columns /\ w = [f \in Columns |-> w[f]]
  BY <1>2
<1>4. \A f \in Columns : w[f] = IF f \in DOMAIN n THEN n[f] ELSE row[f]
  BY <1>2
<1>5. \A f \in Columns \ {"currentStep", "isWaitlisted"} : w[f] = Field(p, f, row[f])
  BY <1>1, <1>4 DEF Field
<1>6. /\ w["status"] = Field(p, "status", row["status"])
      /\ w["hrDecision"] = Field(p, "hrDecision", row["hrDecision"])
      /\ w["notificationSent"] = Field(p, "notificationSent", row["notificationSent"])
      /\ w["materialsSent"] = Field(p, "materialsSent", row["materialsSent"])
      /\ w["interviewCompletedAt"] = Field(p, "interviewCompletedAt", row["interviewCompletedAt"])
      /\ w["interviewSlotId"] = Field(p, "interviewSlotId", row["interviewSlotId"])
      /\ w["discoverySlotId"] = Field(p, "discoverySlotId", row["discoverySlotId"])
      /\ w["trainingSlotId"] = Field(p, "trainingSlotId", row["trainingSlotId"])
  BY <1>5 DEF Columns
<1>7. w["currentStep"] \in Step
  BY <1>1, <1>4, RequiredSteps DEF Columns, PatchTyped, Snapshot
<1>8. w["isWaitlisted"] \in BOOLEAN
  BY <1>1, <1>4 DEF Columns, PatchTyped, Snapshot
<1>9. /\ row["status"] \in Status /\ row["hrDecision"] \in Decision \cup {Null}
      /\ row["notificationSent"] \in BOOLEAN /\ row["materialsSent"] \in BOOLEAN
      /\ row["interviewCompletedAt"] \in BOOLEAN /\ row["interviewSlotId"] \in Slots \cup {Null}
      /\ row["discoverySlotId"] \in BOOLEAN /\ row["trainingSlotId"] \in BOOLEAN
  BY DEF Snapshot
<1>10. w \in Snapshot
  BY <1>3, <1>6, <1>7, <1>8, <1>9, RowOf, ZenonT(30) DEF PatchTyped, Field
<1>11. /\ w["status"] = w.status /\ w["hrDecision"] = w.hrDecision
       /\ w["interviewSlotId"] = w.interviewSlotId /\ w["discoverySlotId"] = w.discoverySlotId
       /\ w["trainingSlotId"] = w.trainingSlotId /\ w["materialsSent"] = w.materialsSent
       /\ row["status"] = row.status /\ row["hrDecision"] = row.hrDecision
       /\ row["interviewSlotId"] = row.interviewSlotId /\ row["discoverySlotId"] = row.discoverySlotId
       /\ row["trainingSlotId"] = row.trainingSlotId /\ row["materialsSent"] = row.materialsSent
  BY <1>10 DEF Snapshot
<1> QED
  BY <1>6, <1>10, <1>11 DEF PatchTyped, Field, w

\* An update that the guard lets through goes where its table says.
LEMMA AdmittedMoves ==
    ASSUME NEW read \in Snapshot, NEW p, PatchTyped(p), Admits(read, p)
    PROVE  LET s == Field(p, "status", read.status) IN s = read.status \/ AllowsTransition(read, s)
<1> DEFINE w == Updated(read, read, p)
<1>1. w \in Snapshot /\ w.status = Field(p, "status", read.status)
  BY UpdatedRow
<1>2. Judged(read, Normalized(read, p)).status = w.status
  BY <1>1 DEF Judged, Updated, Snapshot
<1> HIDE DEF w
<1> QED
  BY <1>1, <1>2 DEF Admits, Valid, Unchanged

---------------------------------------------------------------------------
(* The calls of every handler are fine.                                    *)

LEMMA WithOK ==
    ASSUME NEW p, NEW q, PatchOK(p), PatchOK(q)
    PROVE  /\ PatchOK(With(p, q))
           /\ \A f : f \in DOMAIN With(p, q) <=> f \in DOMAIN p \/ f \in DOMAIN q
           /\ \A f \in DOMAIN p : With(p, q)[f] = p[f]
<1> DEFINE w == With(p, q)
<1>1. /\ \A f : f \in DOMAIN w <=> f \in DOMAIN p \/ f \in DOMAIN q
      /\ \A f \in DOMAIN p : w[f] = p[f]
      /\ \A f \in DOMAIN q : f \notin DOMAIN p => w[f] = q[f]
  BY DEF With, Field
<1> HIDE DEF w
<1>2. PatchTyped(w)
  BY <1>1 DEF PatchOK, PatchTyped
<1>3. "status" \in DOMAIN w => w["status"] \in Writable
  BY <1>1 DEF PatchOK
<1>4. "hrDecision" \in DOMAIN w /\ w["hrDecision"] = "REJECTED_SYSTEM_UNDERAGE" => age = "underage"
  BY <1>1 DEF PatchOK
<1> QED
  BY <1>1, <1>2, <1>3, <1>4 DEF PatchOK, w

\* The columns that the guard does not read.
LEMMA OtherColumns ==
    /\ \A b : PatchOK(Queued(b))
    /\ PatchOK(Uninvited) /\ PatchOK(NoPatch) /\ PatchOK([interviewWaitlistedAt |-> TRUE])
BY DEF Queued, Uninvited, NoPatch, PatchOK, PatchTyped

LEMMA InvitedOK == PatchOK(Invited)
<1>1. PatchOK([notificationSent |-> TRUE, status |-> "SCREENING", isWaitlisted |-> FALSE,
               interviewInvitedAt |-> TRUE, interviewInviteReminderSentAt |-> FALSE])
  BY DEF PatchOK, PatchTyped, Status, Writable
<1> QED
  BY <1>1, OtherColumns, WithOK DEF Invited

LEMMA LookingOK == ASSUME NEW o \in BOOLEAN PROVE PatchOK(Looking(o)) /\ Reopens(Looking(o))
<1> DEFINE p == [status |-> "SCREENING", currentStep |-> "INTERVIEW", notificationSent |-> o,
                 isWaitlisted |-> FALSE, interviewInvitedAt |-> o, interviewInviteReminderSentAt |-> FALSE]
           r == IF o THEN NoPatch ELSE [interviewWaitlistedAt |-> TRUE]
           q == With(Queued(~ o), r)
<1>1. PatchOK(p) /\ "interviewSlotId" \notin DOMAIN p /\ "status" \in DOMAIN p /\ p["status"] = "SCREENING"
  BY DEF PatchOK, PatchTyped, Status, Step, Writable
<1>2. PatchOK(r) /\ "interviewSlotId" \notin DOMAIN r
  BY OtherColumns DEF NoPatch
<1>3. "interviewSlotId" \notin DOMAIN Queued(~ o)
  BY DEF Queued
<1> HIDE DEF p, r
<1>4. PatchOK(q) /\ "interviewSlotId" \notin DOMAIN q
  BY <1>2, <1>3, OtherColumns, WithOK
<1> HIDE DEF q
<1>5. PatchOK(With(p, q)) /\ Reopens(With(p, q))
  BY <1>1, <1>4, WithOK DEF Reopens
<1> QED
  BY <1>5 DEF Looking, p, q, r

LEMMA WritableStatus == Writable \subseteq Status
BY DEF Writable, Status, InterviewTrack, TrainingTrack, FirstShiftTrack

\* The patches without other columns.
LEMMA PlainPatchesOK ==
    /\ \A s \in Writable : PatchOK(Status1(s))
    /\ \A d \in {"REJECTED", "NOSHOW"} : PatchOK(Closed(d))
    /\ PatchOK([notificationSent |-> TRUE])
    /\ PatchOK(Completed)
    /\ PatchOK([status |-> "MENTOR_MANUAL", notificationSent |-> TRUE])
    /\ PatchOK([status |-> "REJECTED", notificationSent |-> TRUE])
    /\ PatchOK([currentStep |-> "INTERVIEW", interviewSlotId |-> Null])
    /\ PatchOK(Back)
    /\ PatchOK([status |-> "INTERVIEW_COMPLETED", currentStep |-> "INTERVIEW", interviewCompletedAt |-> TRUE])
    /\ PatchOK([status |-> "MENTOR_MANUAL", hrDecision |-> "ACCEPTED", notificationSent |-> FALSE,
                materialsSent |-> FALSE, isWaitlisted |-> FALSE])
    /\ PatchOK([status |-> "REJECTED", currentStep |-> "INTERVIEW", hrDecision |-> "REJECTED",
                notificationSent |-> FALSE, materialsSent |-> FALSE])
    /\ PatchOK([status |-> "BLOCKER", notificationSent |-> FALSE, isWaitlisted |-> FALSE])
<1>1. \A s \in Writable : PatchOK(Status1(s))
  BY WritableStatus DEF Status1, PatchOK, PatchTyped
<1>2. \A d \in {"REJECTED", "NOSHOW"} : PatchOK(Closed(d))
  BY DEF Closed, PatchOK, PatchTyped, Status, Decision, Writable
<1>3. PatchOK([notificationSent |-> TRUE]) /\ PatchOK(Completed)
  BY DEF Completed, PatchOK, PatchTyped, Status, Step, InterviewTrack, Writable
<1>4. /\ PatchOK([status |-> "MENTOR_MANUAL", notificationSent |-> TRUE])
      /\ PatchOK([status |-> "REJECTED", notificationSent |-> TRUE])
      /\ PatchOK([status |-> "BLOCKER", notificationSent |-> FALSE, isWaitlisted |-> FALSE])
  BY DEF PatchOK, PatchTyped, Status, TrainingTrack, Writable
<1>5. PatchOK([currentStep |-> "INTERVIEW", interviewSlotId |-> Null])
  BY DEF PatchOK, PatchTyped, Step
<1>6. PatchOK(Back)
  BY DEF Back, PatchOK, PatchTyped, Status, Step, Writable
<1>7. PatchOK([status |-> "INTERVIEW_COMPLETED", currentStep |-> "INTERVIEW", interviewCompletedAt |-> TRUE])
  BY DEF PatchOK, PatchTyped, Status, Step, InterviewTrack, Writable
<1>8. PatchOK([status |-> "MENTOR_MANUAL", hrDecision |-> "ACCEPTED", notificationSent |-> FALSE,
               materialsSent |-> FALSE, isWaitlisted |-> FALSE])
  BY DEF PatchOK, PatchTyped, Status, Decision, TrainingTrack, Writable
<1>9. PatchOK([status |-> "REJECTED", currentStep |-> "INTERVIEW", hrDecision |-> "REJECTED",
               notificationSent |-> FALSE, materialsSent |-> FALSE])
  BY DEF PatchOK, PatchTyped, Status, Step, Decision, Writable
<1> QED
  BY <1>1, <1>2, <1>3, <1>4, <1>5, <1>6, <1>7, <1>8, <1>9

\* The calls that are fine for everybody.
LEMMA CallsFine ==
    ASSUME NEW a
    PROVE  /\ \A p : PatchOK(p) => Fine(a, Update(p)) /\ Fine(a, Attempt(p))
           /\ \A q : PatchOK(q) /\ Reopens(q) => Fine(a, Transaction(<<Back, q>>))
           /\ \A p : Fine(a, Check(p))
           /\ \A l \in Letters \ {"invitation"} :
              \A b \in {"archive", "bar", "throw", "ignore"} : \A f : Fine(a, Send(l, b, f))
           /\ Fine(a, Release) /\ Fine(a, Archive) /\ Fine(a, Move)
           /\ \A s \in Slots : \A own : Fine(a, Cancel(s, own))
           /\ \A s \in Slots : Fine(a, Free(s)) /\ Fine(a, Remind(s))
           /\ \A w \in {"failed", "state_conflict"} : Fine(a, Refuse(w))
<1>1. \A p : PatchOK(p) => Fine(a, Update(p)) /\ Fine(a, Attempt(p))
  <2> SUFFICES ASSUME NEW p, PatchOK(p) PROVE Fine(a, Update(p)) /\ Fine(a, Attempt(p))
    OBVIOUS
  <2>1. IsList(<<p>>) /\ Len(<<p>>) = 1 /\ <<p>>[1] = p
    BY ShortLists
  <2> QED
    BY <2>1 DEF Fine, Update, Attempt, Ops
<1>2. \A q : PatchOK(q) /\ Reopens(q) => Fine(a, Transaction(<<Back, q>>))
  <2> SUFFICES ASSUME NEW q, PatchOK(q), Reopens(q) PROVE Fine(a, Transaction(<<Back, q>>))
    OBVIOUS
  <2>1. IsList(<<Back, q>>) /\ Len(<<Back, q>>) = 2 /\ <<Back, q>>[1] = Back /\ <<Back, q>>[2] = q
    BY ShortLists
  <2>2. PatchOK(Back)
    BY PlainPatchesOK
  <2> QED
    BY <2>1, <2>2 DEF Fine, Transaction, Ops
<1>3. /\ \A p : Fine(a, Check(p))
      /\ \A l \in Letters \ {"invitation"} :
         \A b \in {"archive", "bar", "throw", "ignore"} : \A f : Fine(a, Send(l, b, f))
  BY DEF Fine, Check, Send, Ops
<1>4. Fine(a, Release) /\ Fine(a, Archive) /\ Fine(a, Move)
  BY DEF Fine, Release, Archive, Move, Ops
<1>5. /\ \A s \in Slots : \A own : Fine(a, Cancel(s, own))
      /\ \A s \in Slots : Fine(a, Free(s)) /\ Fine(a, Remind(s))
      /\ \A w \in {"failed", "state_conflict"} : Fine(a, Refuse(w))
  BY DEF Fine, Cancel, Free, Remind, Refuse, Ops
<1> QED
  BY <1>1, <1>2, <1>3, <1>4, <1>5


\* What the commands lead to, one by one.
LEMMA InviteFine ==
    ASSUME NEW a, NEW c, age \in Ages
    PROVE  AllFine(a, inviteCandidate(c))
<1>1. CASE age = "not a woman"
  <2>1. PatchOK([status |-> "REJECTED", isWaitlisted |-> FALSE, notificationSent |-> FALSE])
    BY DEF PatchOK, PatchTyped, Status, Writable
  <2>2. PatchOK(With([status |-> "REJECTED", isWaitlisted |-> FALSE, notificationSent |-> FALSE],
                     With(Queued(FALSE), Uninvited)))
    BY <2>1, WithOK, OtherColumns
  <2> QED
    BY <1>1, <2>2, CallsFine, FineShort DEF inviteCandidate
<1>2. CASE age \in {"underage", "too old"}
  <2> DEFINE d == IF age = "underage" THEN "REJECTED_SYSTEM_UNDERAGE" ELSE "AGE_LIMIT"
             p == [status |-> "REJECTED", isWaitlisted |-> FALSE, notificationSent |-> FALSE, hrDecision |-> d]
  <2>1. d \in Decision /\ (d = "REJECTED_SYSTEM_UNDERAGE" => age = "underage")
    BY DEF Decision
  <2>2. inviteCandidate(c) = <<Update(With(p, With(Queued(FALSE), Uninvited))), Refuse("failed")>>
    BY <1>2 DEF inviteCandidate
  <2> HIDE DEF d
  <2>3. PatchOK(p)
    BY <2>1 DEF PatchOK, PatchTyped, Status, Writable
  <2> HIDE DEF p
  <2>4. PatchOK(With(p, With(Queued(FALSE), Uninvited)))
    BY <2>3, WithOK, OtherColumns
  <2> QED
    BY <2>2, <2>4, CallsFine, FineShort
<1>3. CASE age = "fits"
  <2>1. Fine(a, Send("invitation", "bar", "throw"))
    BY <1>3 DEF Fine, Send, Ops, Letters
  <2>2. inviteCandidate(c) = <<Check(Invited), Send("invitation", "bar", "throw"), Update(Invited)>>
    BY <1>3 DEF inviteCandidate
  <2> QED
    BY <2>1, <2>2, InvitedOK, CallsFine, FineShort
<1> QED
  BY <1>1, <1>2, <1>3 DEF Ages

LEMMA CancelFine ==
    ASSUME NEW a, NEW c \in Snapshot
    PROVE  AllFine(a, cancelIfBooked(c))
BY CallsFine, FineShort DEF cancelIfBooked, Snapshot

LEMMA RescheduleFine ==
    ASSUME NEW a, NEW c \in Snapshot, NEW again \in BOOLEAN, NEW offered \in BOOLEAN
    PROVE  AllFine(a, rescheduleInterviewByCommand(c, again, offered))
<1> DEFINE told == Send(IF offered THEN "slots" ELSE "no slots", "archive", "throw")
<1>1. Fine(a, told)
  BY CallsFine DEF Letters
<1>2. Fine(a, Transaction(<<Back, Looking(offered)>>))
  BY CallsFine, PlainPatchesOK, LookingOK
<1>3. Fine(a, Update(Looking(offered)))
  BY CallsFine, LookingOK
<1>4. \/ rescheduleInterviewByCommand(c, again, offered) = <<Refuse("state_conflict")>>
      \/ rescheduleInterviewByCommand(c, again, offered) = <<Update(Looking(offered)), told>>
      \/ rescheduleInterviewByCommand(c, again, offered) =
            <<Release>> \o cancelIfBooked(c) \o <<Transaction(<<Back, Looking(offered)>>), told>>
  BY Zenon DEF rescheduleInterviewByCommand, Back
<1> HIDE DEF told
<1>5. AllFine(a, <<Release>>) /\ AllFine(a, cancelIfBooked(c))
  BY CancelFine, CallsFine, FineShort
<1>6. AllFine(a, <<Transaction(<<Back, Looking(offered)>>), told>>)
  BY <1>1, <1>2, FineShort
<1>7. AllFine(a, <<Release>> \o cancelIfBooked(c))
  BY <1>5, FineJoined
<1>8. AllFine(a, (<<Release>> \o cancelIfBooked(c)) \o <<Transaction(<<Back, Looking(offered)>>), told>>)
  BY <1>6, <1>7, FineJoined
<1>9. AllFine(a, <<Refuse("state_conflict")>>) /\ AllFine(a, <<Update(Looking(offered)), told>>)
  BY <1>1, <1>3, CallsFine, FineShort
<1> QED
  BY <1>4, <1>8, <1>9

LEMMA AcceptFine ==
    ASSUME NEW a, NEW c \in Snapshot
    PROVE  AllFine(a, acceptAfterInterview(c))
<1> DEFINE completed == [status |-> "INTERVIEW_COMPLETED", currentStep |-> "INTERVIEW",
                         interviewCompletedAt |-> TRUE]
           accepted == [status |-> "MENTOR_MANUAL", hrDecision |-> "ACCEPTED",
                        notificationSent |-> FALSE, materialsSent |-> FALSE, isWaitlisted |-> FALSE]
           last == <<Send("offer", "archive", "throw"), Update([notificationSent |-> TRUE])>>
<1>1. Fine(a, Update(completed)) /\ Fine(a, Update(accepted)) /\ Fine(a, Update([notificationSent |-> TRUE]))
  BY CallsFine, PlainPatchesOK
<1>2. \/ acceptAfterInterview(c) = << >>
      \/ acceptAfterInterview(c) = << >> \o last
      \/ acceptAfterInterview(c) = <<Update(completed), Update(accepted)>> \o last
      \/ acceptAfterInterview(c) = <<Update(accepted)>> \o last
  BY Zenon DEF acceptAfterInterview
<1>3. Fine(a, Send("offer", "archive", "throw"))
  BY CallsFine DEF Letters
<1>4. AllFine(a, last)
  BY <1>1, <1>3, FineShort
<1> HIDE DEF completed, accepted, last
<1>5. AllFine(a, << >>) /\ AllFine(a, <<Update(completed), Update(accepted)>>) /\ AllFine(a, <<Update(accepted)>>)
  BY <1>1, FineShort
<1> QED
  BY <1>2, <1>4, <1>5, FineJoined

LEMMA RejectAfterFine ==
    ASSUME NEW a, NEW c \in Snapshot
    PROVE  AllFine(a, rejectAfterInterview(c))
<1> DEFINE rejected == [status |-> "REJECTED", currentStep |-> "INTERVIEW", hrDecision |-> "REJECTED",
                        notificationSent |-> FALSE, materialsSent |-> FALSE]
           letter == IF beforeMeeting(c) THEN "rejection" ELSE "thanks for the talk, rejection"
           last == <<Send(letter, "archive", "throw"), Update([notificationSent |-> TRUE])>>
           freed == IF beforeMeeting(c) THEN <<Release>> \o cancelIfBooked(c) ELSE << >>
<1>1. Fine(a, Update(rejected)) /\ Fine(a, Update([notificationSent |-> TRUE]))
  BY CallsFine, PlainPatchesOK
<1>2. letter \in Letters \ {"invitation"}
  BY DEF Letters
<1>3. \/ rejectAfterInterview(c) = << >>
      \/ rejectAfterInterview(c) = << >> \o last
      \/ rejectAfterInterview(c) = (freed \o <<Update(rejected)>>) \o last
  BY Zenon DEF rejectAfterInterview
<1> HIDE DEF rejected, letter
<1>4. AllFine(a, last)
  BY <1>1, <1>2, CallsFine, FineShort
<1> HIDE DEF last
<1>5. AllFine(a, <<Release>>) /\ AllFine(a, << >>) /\ AllFine(a, <<Update(rejected)>>)
  BY <1>1, CallsFine, FineShort
<1>6. AllFine(a, freed)
  BY <1>5, CancelFine, FineJoined
<1> HIDE DEF freed
<1>7. AllFine(a, freed \o <<Update(rejected)>>)
  BY <1>5, <1>6, FineJoined
<1> QED
  BY <1>3, <1>4, <1>5, <1>7, FineJoined

LEMMA RejectFine ==
    ASSUME NEW c, NEW k
    PROVE  AllFine("dispatcher", Reject(c, k))
<1> DEFINE polite == IF k \in scene.withText \ sentMark
                     THEN <<Send("training rejection", "ignore", "throw"), Mark>> ELSE << >>
<1>1. /\ Fine("dispatcher", Send("training rejection", "ignore", "throw"))
      /\ Fine("dispatcher", Send("rejection", "ignore", "ignore"))
  BY CallsFine DEF Letters
<1>2. Fine("dispatcher", Mark)
  BY DEF Fine, Mark, Ops
<1>3. Fine("dispatcher", Update(Closed("REJECTED")))
  BY CallsFine, PlainPatchesOK
<1>4. \/ Reject(c, k) = << >>
      \/ Reject(c, k) = polite \o <<Update(Closed("REJECTED"))>>
      \/ Reject(c, k) = <<Update(Closed("REJECTED")), Send("rejection", "ignore", "ignore")>>
  <2>1. CASE c.status = "REJECTED"
    BY Zenon, <2>1 DEF Reject, ManualContour
  <2>2. CASE c.status # "REJECTED" /\ c.status \in ManualContour
    BY Zenon, <2>2 DEF Reject
  <2>3. CASE c.status # "REJECTED" /\ c.status \notin ManualContour
    BY Zenon, <2>3 DEF Reject
  <2> QED
    BY <2>1, <2>2, <2>3
<1>5. AllFine("dispatcher", polite)
  BY <1>1, <1>2, FineShort
<1> HIDE DEF polite
<1>6. AllFine("dispatcher", <<Update(Closed("REJECTED"))>>)
  BY <1>3, FineShort
<1>7. AllFine("dispatcher", <<Update(Closed("REJECTED")), Send("rejection", "ignore", "ignore")>>)
  BY <1>1, <1>3, FineShort
<1> QED
  BY <1>4, <1>5, <1>6, <1>7, FineShort, FineJoined

\* A path of statuses becomes a list of updates.
LEMMA PathFine ==
    ASSUME NEW a, NEW c, NEW path \in Seq(Writable), path # << >>
    PROVE  AllFine(a, applySilentStatusPath(c, path))
<1> DEFINE ahead == IF path[1] = c.status THEN Tail(path) ELSE path
           t == [i \in DOMAIN ahead |-> Update(Status1(ahead[i]))]
<1>1. ahead \in Seq(Writable)
  OBVIOUS
<1> HIDE DEF ahead
<1>2. t = [i \in 1 .. Len(ahead) |-> Update(Status1(ahead[i]))] /\ Len(ahead) \in Nat
  BY <1>1
<1>3. t \in Seq({Update(Status1(s)) : s \in Writable}) /\ Len(t) = Len(ahead)
  BY <1>1, <1>2
<1>4. \A i \in 1 .. Len(t) : t[i] = Update(Status1(ahead[i])) /\ ahead[i] \in Writable
  BY <1>1, <1>2, <1>3
<1>5. \A i \in 1 .. Len(t) : Fine(a, t[i])
  BY <1>4, CallsFine, PlainPatchesOK
<1> QED
  BY <1>3, <1>5 DEF AllFine, IsList, applySilentStatusPath, ahead

LEMMA ShortPaths ==
    ASSUME NEW S, NEW x \in S, NEW y \in S, NEW z \in S
    PROVE  /\ <<x>> \in Seq(S) /\ <<x>> # << >>
           /\ <<x, y>> \in Seq(S) /\ <<x, y>> # << >>
           /\ <<x, y, z>> \in Seq(S) /\ <<x, y, z>> # << >>
OBVIOUS

LEMMA PathsAre ==
    ASSUME NEW s
    PROVE  /\ startStagingPath(s) \in Seq(Writable) /\ startStagingPath(s) # << >>
           /\ stagingPassedPath(s) \in Seq(Writable) /\ stagingPassedPath(s) # << >>
           /\ <<"TRAINING_COMPLETED">> \in Seq(Writable)
<1>1. {"TRAINING_COMPLETED", "STAGING_SETUP", "STAGING_ACTIVE", "READY_FOR_HIRE"} \subseteq Writable
  BY DEF Status, TrainingTrack, FirstShiftTrack, Writable
<1>2. \/ startStagingPath(s) = <<"STAGING_ACTIVE">>
      \/ startStagingPath(s) = <<"STAGING_SETUP", "STAGING_ACTIVE">>
      \/ startStagingPath(s) = <<"TRAINING_COMPLETED", "STAGING_SETUP", "STAGING_ACTIVE">>
  BY Zenon DEF startStagingPath
<1>3. \/ stagingPassedPath(s) = <<"STAGING_ACTIVE", "READY_FOR_HIRE">>
      \/ stagingPassedPath(s) = <<"READY_FOR_HIRE">>
  BY Zenon DEF stagingPassedPath
<1> DEFINE S == Writable
<1> HIDE DEF S
<1>4. /\ "TRAINING_COMPLETED" \in S /\ "STAGING_SETUP" \in S
      /\ "STAGING_ACTIVE" \in S /\ "READY_FOR_HIRE" \in S
  BY <1>1 DEF S
<1>5. startStagingPath(s) \in Seq(S) /\ startStagingPath(s) # << >>
  BY <1>2, <1>4, ShortPaths
<1>6. stagingPassedPath(s) \in Seq(S) /\ stagingPassedPath(s) # << >>
  BY <1>3, <1>4, ShortPaths
<1>7. <<"TRAINING_COMPLETED">> \in Seq(S)
  BY <1>4, ShortPaths
<1> QED
  BY <1>5, <1>6, <1>7 DEF S

LEMMA ChangeLocationFine ==
    ASSUME NEW a, NEW c, NEW again, moved \in BOOLEAN
    PROVE  AllFine(a, changeLocation(c, again))
<1> DEFINE told == Send("location changed", "throw", "throw")
<1>1. Fine(a, told)
  BY CallsFine DEF Letters
<1>2. \/ changeLocation(c, again) = <<Refuse("failed")>>
      \/ changeLocation(c, again) = <<Move, told>>
      \/ changeLocation(c, again) = <<told>>
      \/ changeLocation(c, again) = << >>
  BY DEF changeLocation
<1> HIDE DEF told
<1> QED
  BY <1>1, <1>2, CallsFine, FineShort

LEMMA TodoFine ==
    ASSUME TypeOK, NEW k \in Commands, outbox[k].kind \in KindNames, NEW n \in Nat, NEW offered \in BOOLEAN
    PROVE  AllFine("dispatcher", Todo(k, n, offered))
<1>1. cand \in Snapshot /\ age \in Ages /\ moved \in BOOLEAN
  BY DEF TypeOK, Row
<1>2. /\ AllFine("dispatcher", inviteCandidate(cand))
      /\ AllFine("dispatcher", rescheduleInterviewByCommand(cand, n > 0, offered))
      /\ AllFine("dispatcher", acceptAfterInterview(cand))
      /\ AllFine("dispatcher", rejectAfterInterview(cand))
      /\ AllFine("dispatcher", Reject(cand, k))
      /\ AllFine("dispatcher", changeLocation(cand, n > 0))
  <2>1. (n > 0) \in BOOLEAN
    OBVIOUS
  <2>2. AllFine("dispatcher", inviteCandidate(cand))
    BY <1>1, InviteFine
  <2>a. AllFine("dispatcher", changeLocation(cand, n > 0))
    BY <1>1, ChangeLocationFine
  <2>3. AllFine("dispatcher", acceptAfterInterview(cand)) /\ AllFine("dispatcher", rejectAfterInterview(cand))
    BY <1>1, AcceptFine, RejectAfterFine, Zenon
  <2>4. AllFine("dispatcher", Reject(cand, k))
    BY RejectFine, Zenon
  <2>5. AllFine("dispatcher", rescheduleInterviewByCommand(cand, n > 0, offered))
    BY <1>1, <2>1, RescheduleFine, Zenon
  <2> QED
    BY <2>2, <2>a, <2>3, <2>4, <2>5
<1>3. /\ AllFine("dispatcher", applySilentStatusPath(cand, <<"TRAINING_COMPLETED">>))
      /\ AllFine("dispatcher", applySilentStatusPath(cand, startStagingPath(cand.status)))
      /\ AllFine("dispatcher", applySilentStatusPath(cand, stagingPassedPath(cand.status)))
  BY PathsAre, PathFine
<1>4. AllFine("dispatcher", markNoShow)
  <2>1. Fine("dispatcher", Send("no-show", "ignore", "ignore"))
    BY CallsFine DEF Letters
  <2> QED
    BY <2>1, CallsFine, PlainPatchesOK, FineShort DEF markNoShow
<1>5. AllFine("dispatcher", approveTattoo)
  <2>1. Fine("dispatcher", Send("approved", "ignore", "ignore"))
    BY CallsFine DEF Letters
  <2>2. "SCREENING" \in Writable
    BY DEF Status, Writable
  <2> QED
    BY <2>1, <2>2, CallsFine, PlainPatchesOK, FineShort DEF approveTattoo
<1>6. AllFine("dispatcher", <<Update(Status1("HIRED"))>>)
  <2>1. "HIRED" \in Writable
    BY DEF Status, FirstShiftTrack, Writable
  <2> QED
    BY <2>1, CallsFine, PlainPatchesOK, FineShort
<1> QED
  BY <1>2, <1>3, <1>4, <1>5, <1>6 DEF Todo, KindNames


---------------------------------------------------------------------------
(* What holds in every scene.                                              *)

OutboxSound ==
    \A k \in Commands :
        /\ outbox[k].status # "none" => outbox[k].kind \in KindNames
        /\ outbox[k].status = "none" => outbox[k].attempts = 0
        /\ outbox[k].status \in {"none", "PENDING"} => outbox[k].attempts < scene.attempts
        /\ outbox[k].status = "FAILED" => outbox[k].attempts > 0

\* A command that the web app has issued, as the dispatcher has read it.
Entry(e) == e \in Commands \X Nat /\ outbox[e[1]].status # "none"
BatchSound ==
    /\ batch \in Seq(Commands \X Nat)
    /\ \A i \in 1 .. Len(batch) : Entry(batch[i])

LocalOK(a, r) ==
    /\ r = [doing |-> r.doing, todo |-> r.todo, read |-> r.read, result |-> r.result]
    /\ AllFine(a, r.todo)
    /\ r.read \in Snapshot \cup {Null}
    /\ r.result \in Results
    /\ r.doing = Null => r.read = Null
    /\ a = "dispatcher" /\ r.doing # Null => Entry(r.doing)
LocalsOK ==
    /\ run = [a \in Actors |-> run[a]]
    /\ \A a \in Actors : LocalOK(a, run[a])

ChatSound ==
    /\ IsList(chat)
    /\ \A i \in 1 .. Len(chat) :
          chat[i].letter \in Letters /\ (chat[i].letter = "invitation" => age = "fits")

Tables == scene \in Scenes /\ TypeOK /\ HersIsTaken /\ OutboxSound /\ ChatSound
Base == Tables /\ BatchSound /\ LocalsOK

---------------------------------------------------------------------------
(* The shapes are kept.                                                    *)

\* Who reads and who is blocked, as one record.
LEMMA LocalWritten ==
    ASSUME LocalsOK, NEW a \in Actors, NEW u
    PROVE  LET r == run[a] IN
           /\ [r EXCEPT !.read = u] =
                 [doing |-> r.doing, todo |-> r.todo, read |-> u, result |-> r.result]
           /\ [r EXCEPT !.todo = u] =
                 [doing |-> r.doing, todo |-> u, read |-> r.read, result |-> r.result]
<1>1. PICK d, t, q, w : /\ run[a] = [doing |-> d, todo |-> t, read |-> q, result |-> w]
                        /\ run[a].doing = d /\ run[a].todo = t /\ run[a].read = q /\ run[a].result = w
  BY DEF LocalsOK, LocalOK
<1> QED
  BY <1>1

LEMMA ReadIs ==
    ASSUME LocalsOK, NEW a \in Actors, NEW c, run' = [run EXCEPT ![a].read = c]
    PROVE  run' = [run EXCEPT ![a] = [doing |-> run[a].doing, todo |-> run[a].todo,
                                      read |-> c, result |-> run[a].result]]
BY LocalWritten DEF LocalsOK

LEMMA TodoIs ==
    ASSUME LocalsOK, NEW a \in Actors, NEW t, run' = [run EXCEPT ![a].todo = t]
    PROVE  run' = [run EXCEPT ![a] = [doing |-> run[a].doing, todo |-> t,
                                      read |-> run[a].read, result |-> run[a].result]]
BY LocalWritten DEF LocalsOK

\* A command once issued stays so; her age and the scene do not change.
Onward ==
    /\ scene' = scene /\ age' = age
    /\ \A k \in Commands : outbox[k].status # "none" => outbox'[k].status # "none"

LEMMA OneRuns ==
    ASSUME LocalsOK, Onward, NEW a \in Actors, NEW r, LocalOK(a, r), run' = [run EXCEPT ![a] = r]
    PROVE  LocalsOK'
<1>1. \A b, c : Fine(b, c)' <=> Fine(b, c)
  BY DEF Onward, Fine, PatchOK, PatchTyped
<1>2. \A b, t : AllFine(b, t)' <=> AllFine(b, t)
  BY <1>1 DEF AllFine
<1>3. \A e : Entry(e) => Entry(e)'
  BY DEF Onward, Entry, Commands
<1>4. \A b, q : LocalOK(b, q) => LocalOK(b, q)'
  BY <1>2, <1>3 DEF LocalOK
<1>5. run' = [b \in Actors |-> IF b = a THEN r ELSE run[b]]
  BY DEF LocalsOK
<1>6. \A b \in Actors : run'[b] = IF b = a THEN r ELSE run[b]
  BY <1>5
<1>7. \A b \in Actors : LocalOK(b, run'[b])
  BY <1>6 DEF LocalsOK
<1>8. \A b \in Actors : LocalOK(b, run[b])'
  BY <1>4, <1>7
<1> QED
  BY <1>5, <1>8 DEF LocalsOK


LEMMA LocalRecord ==
    ASSUME NEW a, NEW d, NEW t, NEW q, NEW w,
           AllFine(a, t), q \in Snapshot \cup {Null}, w \in Results,
           d = Null => q = Null, a = "dispatcher" /\ d # Null => Entry(d)
    PROVE  LocalOK(a, [doing |-> d, todo |-> t, read |-> q, result |-> w])
<1> DEFINE r == [doing |-> d, todo |-> t, read |-> q, result |-> w]
<1>1. r.doing = d /\ r.todo = t /\ r.read = q /\ r.result = w
  OBVIOUS
<1>2. r = [doing |-> r.doing, todo |-> r.todo, read |-> r.read, result |-> r.result]
  BY <1>1
<1> HIDE DEF r
<1> QED
  BY <1>1, <1>2 DEF LocalOK, r

LEMMA LeavesOK ==
    ASSUME LocalsOK, Onward, NEW a \in Actors, NEW t, NEW w, AllFine(a, t), w \in Results, Leaves(a, t, w)
    PROVE  LocalsOK'
<1>1. LocalOK(a, run[a])
  BY DEF LocalsOK
<1>2. LocalOK(a, [doing |-> run[a].doing, todo |-> t, read |-> Null, result |-> w])
  BY <1>1, LocalRecord DEF LocalOK
<1> QED
  BY <1>2, OneRuns DEF Leaves

LEMMA WentOK ==
    ASSUME LocalsOK, Onward, NEW a \in Actors, NEW more,
           run[a].todo # << >>, AllFine(a, more), Went(a, more)
    PROVE  LocalsOK'
<1>1. AllFine(a, run[a].todo) /\ run[a].result \in Results
  BY DEF LocalsOK, LocalOK
<1>2. AllFine(a, more \o Tail(run[a].todo))
  BY <1>1, FineTail, FineJoined
<1> QED
  BY <1>1, <1>2, LeavesOK DEF Went

LEMMA GoesOK ==
    ASSUME LocalsOK, Onward, NEW a \in Actors, run[a].todo # << >>, Goes(a)
    PROVE  LocalsOK'
<1>1. AllFine(a, << >>)
  BY FineShort
<1> QED
  BY <1>1, WentOK DEF Goes

LEMMA FailedOK ==
    ASSUME LocalsOK, Onward, NEW a \in Actors, NEW w \in {"failed", "state_conflict"}, Failed(a, w)
    PROVE  LocalsOK'
<1>1. AllFine(a, << >>) /\ w \in Results
  BY FineShort DEF Results
<1> QED
  BY <1>1, LeavesOK DEF Failed

LEMMA ReadOK ==
    ASSUME LocalsOK, Onward, NEW a \in Actors, Running(a), cand \in Snapshot,
           run' = [run EXCEPT ![a].read = cand]
    PROVE  LocalsOK'
<1>1. LocalOK(a, run[a])
  BY DEF LocalsOK
<1>2. LocalOK(a, [doing |-> run[a].doing, todo |-> run[a].todo, read |-> cand, result |-> run[a].result])
  BY <1>1, LocalRecord DEF LocalOK, Running
<1>3. run' = [run EXCEPT ![a] = [doing |-> run[a].doing, todo |-> run[a].todo,
                                 read |-> cand, result |-> run[a].result]]
  BY ReadIs
<1> QED
  BY <1>2, <1>3, OneRuns

LEMMA TodoOK ==
    ASSUME LocalsOK, Onward, NEW a \in Actors, NEW t, AllFine(a, t), run' = [run EXCEPT ![a].todo = t]
    PROVE  LocalsOK'
<1>1. LocalOK(a, run[a])
  BY DEF LocalsOK
<1>2. LocalOK(a, [doing |-> run[a].doing, todo |-> t, read |-> run[a].read, result |-> run[a].result])
  BY <1>1, LocalRecord DEF LocalOK
<1>3. run' = [run EXCEPT ![a] = [doing |-> run[a].doing, todo |-> t,
                                 read |-> run[a].read, result |-> run[a].result]]
  BY TodoIs
<1> QED
  BY <1>2, <1>3, OneRuns

LEMMA BegunOK ==
    ASSUME LocalsOK, Onward, NEW a \in Actors, NEW d, NEW t, AllFine(a, t),
           a = "dispatcher" => Entry(d), Begun(a, d, t)
    PROVE  LocalsOK'
<1>1. "ok" \in Results
  BY DEF Results
<1>2. LocalOK(a, [doing |-> d, todo |-> t, read |-> Null, result |-> "ok"])
  BY <1>1, LocalRecord
<1> QED
  BY <1>2, OneRuns DEF Begun

LEMMA IdleOK == \A a : LocalOK(a, Idle)
<1>1. "ok" \in Results
  BY DEF Results
<1> QED
  BY <1>1, LocalRecord, FineShort DEF Idle

LEMMA RestingOK ==
    ASSUME LocalsOK, Onward, NEW a \in Actors, Resting(a)
    PROVE  LocalsOK'
BY IdleOK, OneRuns DEF Resting

LEMMA StillOK ==
    ASSUME LocalsOK, Onward, run' = run
    PROVE  LocalsOK'
<1>1. "worker" \in Actors
  BY DEF Actors
<1>2. run' = [run EXCEPT !["worker"] = run["worker"]]
  BY <1>1 DEF LocalsOK
<1> QED
  BY <1>1, <1>2, OneRuns DEF LocalsOK


LEMMA SceneFacts ==
    ASSUME scene \in Scenes
    PROVE  /\ scene.kinds \in Seq(SUBSET KindNames) /\ Commands = 1 .. Len(scene.kinds)
           /\ scene.ages \subseteq Ages /\ scene.rows \subseteq Snapshot
           /\ scene.phase \in [Slots -> Phases] /\ scene.attempts \in Nat \ {0}
           /\ scene.overlap \in BOOLEAN
<1>1. SceneType(scene)
  BY ConstantsAssumption
<1> QED
  BY <1>1 DEF SceneType, Commands

LEMMA StillOnward ==
    ASSUME scene' = scene, age' = age, outbox' = outbox
    PROVE  Onward
BY DEF Onward

LEMMA BatchStill ==
    ASSUME BatchSound, Onward, batch' = batch
    PROVE  BatchSound'
BY DEF BatchSound, Onward, Entry, Commands

\* A handler on its way, which writes nothing yet.
OnlyRun ==
    UNCHANGED <<scene, cand, age, moved, blocked, slots, phase, web, outbox, batch, sentMark, chat,
                talked, touched, mishaps>>

LEMMA TablesStill ==
    ASSUME Tables, OnlyRun
    PROVE  Tables' /\ Onward /\ batch' = batch
<1>1. UNCHANGED <<scene, cand, age, moved, blocked, slots, phase, web, outbox, batch, sentMark, chat,
                  talked, touched, mishaps>>
  BY DEF OnlyRun
<1>2. Onward
  BY <1>1, StillOnward
<1>3. TypeOK'
  BY <1>1 DEF Tables, TypeOK, Commands
<1>4. HersIsTaken' /\ OutboxSound' /\ ChatSound'
  BY <1>1 DEF Tables, HersIsTaken, OutboxSound, ChatSound, Commands
<1> QED
  BY <1>1, <1>2, <1>3, <1>4 DEF Tables

\* What is known of the call at the head.
LEMMA AtHead ==
    ASSUME Base, NEW a \in Actors, NEW name, AtCall(a, name)
    PROVE  /\ Running(a) /\ run[a].todo # << >> /\ Call(a).op = name
           /\ Fine(a, Call(a)) /\ run[a].read \in Snapshot \cup {Null}
           /\ a = "dispatcher" => Entry(run[a].doing)
<1>1. LocalOK(a, run[a])
  BY DEF Base, LocalsOK
<1>2. Running(a) /\ run[a].todo # << >> /\ Call(a).op = name
  BY DEF AtCall
<1>3. Fine(a, Call(a))
  BY <1>1, <1>2, FineTail DEF LocalOK, Call
<1> QED
  BY <1>1, <1>2, <1>3 DEF LocalOK, Running

LEMMA TouchOK ==
    ASSUME Base, NEW a \in Actors, Running(a), Touch(a)
    PROVE  touched' \subseteq Commands
<1>1. LocalOK(a, run[a]) /\ touched \subseteq Commands
  BY DEF Base, LocalsOK, Tables, TypeOK
<1> QED
  BY <1>1 DEF Touch, LocalOK, Running, Entry

\* The calls that only judge, refuse, fail or lead to others.
LEMMA JudgingBase ==
    ASSUME Base, NEW a \in Actors,
           ValidateUpdate(a) \/ CheckPatch(a) \/ SendFails(a) \/ CancelSlot(a) \/ RefuseCommand(a)
           \/ ValidateBooking(a) \/ Rest(a)
    PROVE  Base'
<1>0. LocalsOK /\ Tables /\ BatchSound /\ cand \in Snapshot
  BY DEF Base, Tables, TypeOK, Row
<1>1. OnlyRun
  BY DEF OnlyRun, ValidateUpdate, CheckPatch, SendFails, CancelSlot, RefuseCommand, ValidateBooking, Rest
<1>2. Tables' /\ Onward /\ BatchSound'
  BY <1>0, <1>1, TablesStill, BatchStill
<1>3. CASE ValidateUpdate(a)
  <2>1. AtCall(a, "update")
    BY <1>3 DEF ValidateUpdate
  <2>2. \/ run' = [run EXCEPT ![a].read = cand]
        \/ Failed(a, "failed") \/ Goes(a)
    BY <1>3 DEF ValidateUpdate
  <2> QED
    BY <1>0, <1>2, <2>1, <2>2, AtHead, ReadOK, FailedOK, GoesOK DEF Base
<1>4. CASE CheckPatch(a)
  <2>1. AtCall(a, "check") /\ (Failed(a, "state_conflict") \/ Goes(a))
    BY <1>4 DEF CheckPatch
  <2> QED
    BY <1>0, <1>2, <2>1, AtHead, FailedOK, GoesOK DEF Base
<1>5. CASE SendFails(a)
  <2>1. AtCall(a, "send") /\ (Failed(a, "failed") \/ Goes(a))
    BY <1>5 DEF SendFails
  <2> QED
    BY <1>0, <1>2, <2>1, AtHead, FailedOK, GoesOK DEF Base
<1>6. CASE CancelSlot(a)
  <2> DEFINE s == Call(a).slot
  <2>1. AtCall(a, "cancel")
    BY <1>6 DEF CancelSlot
  <2>2. s \in Slots /\ run[a].todo # << >>
    BY <2>1, AtHead DEF Fine
  <2>3. \/ Went(a, <<Update([currentStep |-> "INTERVIEW", interviewSlotId |-> Null]), Free(s)>>)
        \/ Failed(a, "failed") \/ Went(a, <<Free(s)>>)
    BY <1>6, Zenon DEF CancelSlot
  <2> HIDE DEF s
  <2>4. /\ Fine(a, Update([currentStep |-> "INTERVIEW", interviewSlotId |-> Null]))
        /\ Fine(a, Free(s))
    BY <2>2, CallsFine, PlainPatchesOK
  <2>5. /\ AllFine(a, <<Update([currentStep |-> "INTERVIEW", interviewSlotId |-> Null]), Free(s)>>)
        /\ AllFine(a, <<Free(s)>>)
    BY <2>4, FineShort
  <2> QED
    BY <1>0, <1>2, <2>2, <2>3, <2>5, FailedOK, WentOK DEF Base
<1>7. CASE RefuseCommand(a)
  <2>1. AtCall(a, "refuse") /\ Failed(a, Call(a).why)
    BY <1>7 DEF RefuseCommand
  <2>2. Call(a).why \in {"failed", "state_conflict"}
    BY <2>1, AtHead DEF Fine
  <2> QED
    BY <1>0, <1>2, <2>1, <2>2, FailedOK DEF Base
<1>8. CASE ValidateBooking(a)
  <2> DEFINE before == Call(a).before
             more == IF before \in {Null, Call(a).slot} THEN << >> ELSE <<Restore(before)>>
  <2>1. AtCall(a, "book")
    BY <1>8 DEF ValidateBooking
  <2>2. run' = [run EXCEPT ![a].read = cand] \/ Went(a, <<Release>> \o more)
    BY <1>8, Zenon DEF ValidateBooking
  <2>3. AllFine(a, <<Release>> \o more)
    <3>1. before \in Slots \cup {Null} /\ a = "candidate"
      BY <2>1, AtHead DEF Fine
    <3>2. before \in Slots => Fine(a, Restore(before))
      BY <3>1 DEF Fine, Restore, Ops
    <3>3. AllFine(a, more)
      BY <3>1, <3>2, FineShort
    <3>4. AllFine(a, <<Release>>)
      BY CallsFine, FineShort
    <3> QED
      BY <3>3, <3>4, FineJoined
  <2> QED
    BY <1>0, <1>2, <2>1, <2>2, <2>3, AtHead, ReadOK, WentOK DEF Base
<1>9. CASE Rest(a)
  BY <1>0, <1>2, <1>9, RestingOK DEF Base, Rest
<1> QED
  BY <1>3, <1>4, <1>5, <1>6, <1>7, <1>8, <1>9


\* An update writes a row, and no slot into it.
LEMMA WriteUpdateRow ==
    ASSUME Base, NEW a \in Actors, WriteUpdate(a)
    PROVE  /\ cand' \in Snapshot
           /\ cand'.interviewSlotId \in {Null, cand.interviewSlotId}
<1> DEFINE ps == Call(a).patches
           read == run[a].read
           first == Updated(cand, read, ps[1])
<1>1. AtCall(a, "update") /\ read # Null
  BY DEF WriteUpdate
<1>2. cand \in Snapshot /\ read \in Snapshot
  BY <1>1, AtHead DEF Base, Tables, TypeOK, Row
<1>3. Len(ps) \in {1, 2} /\ PatchTyped(ps[1]) /\ PatchTyped(ps[Len(ps)])
  BY <1>1, AtHead DEF Fine, PatchOK
<1>4. \/ cand' = cand
      \/ Len(ps) = 1 /\ cand' = first
      \/ Len(ps) = 2 /\ cand' = Updated(first, first, ps[2])
  BY <1>3 DEF WriteUpdate
<1> HIDE DEF ps, read
<1>5. first \in Snapshot /\ first.interviewSlotId \in {Null, cand.interviewSlotId}
  BY <1>2, <1>3, UpdatedRow, ZenonT(30)
<1> HIDE DEF first
<1>6. Len(ps) = 2 => /\ Updated(first, first, ps[2]) \in Snapshot
                     /\ Updated(first, first, ps[2]).interviewSlotId \in {Null, first.interviewSlotId}
  BY <1>3, <1>5, UpdatedRow
<1> QED
  BY <1>2, <1>4, <1>5, <1>6

LEMMA WriteUpdateBase ==
    ASSUME Base, NEW a \in Actors, WriteUpdate(a)
    PROVE  Base'
<1>1. /\ UNCHANGED <<scene, age, moved, blocked, slots, phase, web, outbox, batch, sentMark, chat,
                     talked, mishaps>>
      /\ AtCall(a, "update")
  BY DEF WriteUpdate
<1>2. (Goes(a) /\ Touch(a)) \/ (Failed(a, "failed") /\ touched' = touched)
  BY DEF WriteUpdate
<1>3. /\ cand' \in Snapshot /\ touched' \subseteq Commands
      /\ cand'.interviewSlotId \in {Null, cand.interviewSlotId}
  <2>1. Running(a) /\ touched \subseteq Commands
    BY <1>1, AtHead DEF Base, Tables, TypeOK
  <2>2. touched' \subseteq Commands
    BY <1>2, <2>1, TouchOK
  <2> QED
    BY <2>2, WriteUpdateRow
<1>4. Onward /\ BatchSound'
  BY <1>1, StillOnward, BatchStill DEF Base
<1>5. LocalsOK'
  BY <1>1, <1>2, <1>4, AtHead, GoesOK, FailedOK DEF Base
<1>6. TypeOK'
  BY <1>1, <1>3 DEF Base, Tables, TypeOK, Row, Commands
<1>7. HersIsTaken' /\ OutboxSound' /\ ChatSound'
  BY <1>1, <1>3 DEF Base, Tables, HersIsTaken, OutboxSound, ChatSound, Commands
<1> QED
  BY <1>1, <1>4, <1>5, <1>6, <1>7 DEF Base, Tables

\* A letter is one the bot knows.
LEMMA DeliverBase ==
    ASSUME Base, NEW a \in Actors, Deliver(a)
    PROVE  Base'
<1> DEFINE x == [letter |-> Call(a).letter, by |-> a,
                 of |-> IF a = "dispatcher" THEN run[a].doing[1] ELSE Null]
<1>1. /\ UNCHANGED <<scene, cand, age, moved, blocked, slots, phase, web, outbox, batch, sentMark,
                     talked, touched, mishaps>>
      /\ AtCall(a, "send") /\ Goes(a) /\ chat' = Append(chat, x)
  BY DEF Deliver
<1>2. x.letter \in Letters /\ (x.letter = "invitation" => age = "fits")
  BY <1>1, AtHead DEF Fine
<1> HIDE DEF x
<1>3. Onward /\ BatchSound'
  BY <1>1, StillOnward, BatchStill DEF Base
<1>4. LocalsOK'
  BY <1>1, <1>3, AtHead, GoesOK DEF Base
<1>5. IsList(chat') /\ Len(chat') \in Nat
      /\ \A i \in 1 .. Len(chat') : chat'[i] = x \/ (i \in 1 .. Len(chat) /\ chat'[i] = chat[i])
  <2>1. PICK S : chat \in Seq(S)
    BY DEF Base, Tables, ChatSound, IsList
  <2>2. chat \in Seq(S \cup {x}) /\ x \in S \cup {x}
    BY <2>1
  <2>3. chat' \in Seq(S \cup {x}) /\ Len(chat') = Len(chat) + 1 /\ Len(chat) \in Nat
    BY <1>1, <2>2
  <2>4. \A i \in 1 .. Len(chat') : chat'[i] = x \/ (i \in 1 .. Len(chat) /\ chat'[i] = chat[i])
    BY <1>1, <2>2, <2>3
  <2> QED
    BY <2>3, <2>4 DEF IsList
<1>6. \A i \in 1 .. Len(chat') : chat'[i].letter \in Letters /\ (chat'[i].letter = "invitation" => age = "fits")
  BY <1>2, <1>5 DEF Base, Tables, ChatSound
<1>7. ChatSound'
  BY <1>1, <1>5, <1>6 DEF ChatSound
<1>8. DOMAIN chat' = 1 .. Len(chat')
  BY <1>5 DEF IsList
<1>9. TypeOK'
  BY <1>1, <1>6, <1>8 DEF Base, Tables, TypeOK, Commands
<1>10. HersIsTaken' /\ OutboxSound'
  BY <1>1 DEF Base, Tables, HersIsTaken, OutboxSound, Commands
<1> QED
  BY <1>1, <1>3, <1>4, <1>7, <1>9, <1>10 DEF Base, Tables

LEMMA SendIsBlockedBase ==
    ASSUME Base, NEW a \in Actors, SendIsBlocked(a)
    PROVE  Base'
<1> DEFINE p == With([status |-> "BLOCKER", notificationSent |-> FALSE, isWaitlisted |-> FALSE], Uninvited)
           how == Call(a).onBlocked
<1>1. /\ UNCHANGED <<scene, cand, age, moved, slots, phase, web, outbox, batch, sentMark, chat, talked,
                     touched, mishaps>>
      /\ AtCall(a, "send") /\ blocked' = (blocked \/ how = "bar")
  BY DEF SendIsBlocked
<1>2. how \in {"archive", "bar", "throw", "ignore"}
  BY <1>1, AtHead DEF Fine
<1>3. \/ run' = [run EXCEPT ![a].todo = <<Archive>>]
      \/ run' = [run EXCEPT ![a].todo = <<Attempt(p), Refuse("failed")>>]
      \/ Failed(a, "failed") \/ Goes(a)
  BY <1>2 DEF SendIsBlocked
<1>4. PatchOK(p)
  BY PlainPatchesOK, OtherColumns, WithOK
<1> HIDE DEF p, how
<1>5. AllFine(a, <<Archive>>) /\ AllFine(a, <<Attempt(p), Refuse("failed")>>)
  BY <1>4, CallsFine, FineShort
<1>6. Onward /\ BatchSound'
  BY <1>1, StillOnward, BatchStill DEF Base
<1>7. LocalsOK'
  BY <1>1, <1>3, <1>5, <1>6, AtHead, GoesOK, FailedOK, TodoOK DEF Base
<1>8. blocked' \in BOOLEAN
  BY <1>1
<1>9. TypeOK' /\ HersIsTaken' /\ OutboxSound' /\ ChatSound'
  BY <1>1, <1>8 DEF Base, Tables, TypeOK, HersIsTaken, OutboxSound, ChatSound, Commands
<1> QED
  BY <1>1, <1>6, <1>7, <1>9 DEF Base, Tables

LEMMA ArchiveBase ==
    ASSUME Base, NEW a \in Actors, ArchiveBlocked(a)
    PROVE  Base'
<1> DEFINE s == cand.interviewSlotId
           p == [status |-> "BLOCKER", notificationSent |-> FALSE, isWaitlisted |-> FALSE,
                 interviewSlotId |-> Null, discoverySlotId |-> FALSE, trainingSlotId |-> FALSE]
<1>1. /\ UNCHANGED <<scene, age, moved, phase, web, outbox, batch, sentMark, chat, talked, mishaps>>
      /\ AtCall(a, "archive") /\ Goes(a)
      /\ \/ UNCHANGED <<cand, blocked, slots, touched>>
         \/ /\ cand' = Updated(cand, cand, p)
            /\ blocked' = TRUE
            /\ slots' = IF s = Null THEN slots ELSE SlotFreed(s)
            /\ Touch(a)
  BY DEF ArchiveBlocked
<1>2. cand \in Snapshot /\ touched \subseteq Commands /\ blocked \in BOOLEAN
  BY DEF Base, Tables, TypeOK, Row
<1>3. PatchTyped(p) /\ "interviewSlotId" \in DOMAIN p
  BY DEF PatchTyped, Status
<1> HIDE DEF p
<1>4. /\ Updated(cand, cand, p) \in Snapshot
      /\ Updated(cand, cand, p).interviewSlotId = Null
  BY <1>2, <1>3, UpdatedRow
<1>5. cand' \in Snapshot /\ (cand'.interviewSlotId = Null \/ UNCHANGED <<cand, slots>>)
  BY <1>1, <1>2, <1>4
<1>6. touched' \subseteq Commands /\ blocked' \in BOOLEAN
  BY <1>1, <1>2, AtHead, TouchOK
<1>7. slots' \in [Slots -> [booked : BOOLEAN, reminded : BOOLEAN]]
  BY <1>1, ZenonT(30) DEF SlotFreed, Base, Tables, TypeOK
<1>8. Onward /\ BatchSound'
  BY <1>1, StillOnward, BatchStill DEF Base
<1>9. LocalsOK'
  BY <1>1, <1>8, AtHead, GoesOK DEF Base
<1>10. TypeOK'
  BY <1>1, <1>5, <1>6, <1>7 DEF Base, Tables, TypeOK, Row, Commands
<1>11. HersIsTaken' /\ OutboxSound' /\ ChatSound'
  BY <1>1, <1>5 DEF Base, Tables, HersIsTaken, OutboxSound, ChatSound, Commands
<1> QED
  BY <1>1, <1>8, <1>9, <1>10, <1>11 DEF Base, Tables

\* Her row, off or on a slot.
LEMMA RowSlot ==
    ASSUME NEW c \in Snapshot, NEW s \in Slots \cup {Null}
    PROVE  LET w == [c EXCEPT !.interviewSlotId = s] IN
           /\ w \in Snapshot /\ w.interviewSlotId = s
           /\ w.status = c.status /\ w.hrDecision = c.hrDecision
           /\ w.discoverySlotId = c.discoverySlotId /\ w.trainingSlotId = c.trainingSlotId
BY DEF Snapshot

LEMMA SlotsWritten ==
    ASSUME slots \in [Slots -> [booked : BOOLEAN, reminded : BOOLEAN]], NEW s \in Slots
    PROVE  /\ SlotFreed(s) \in [Slots -> [booked : BOOLEAN, reminded : BOOLEAN]]
           /\ \A t \in Slots \ {s} : SlotFreed(s)[t] = slots[t]
           /\ [slots EXCEPT ![s].reminded = TRUE] \in [Slots -> [booked : BOOLEAN, reminded : BOOLEAN]]
           /\ \A t \in Slots : slots[t].booked <=> [slots EXCEPT ![s].reminded = TRUE][t].booked
<1>1. /\ [slots[s] EXCEPT !.booked = FALSE] \in [booked : BOOLEAN, reminded : BOOLEAN]
      /\ [slots[s] EXCEPT !.reminded = TRUE] \in [booked : BOOLEAN, reminded : BOOLEAN]
      /\ [slots[s] EXCEPT !.reminded = TRUE].booked <=> slots[s].booked
  OBVIOUS
<1> QED
  BY <1>1 DEF SlotFreed

\* The writes to the slots.
LEMMA SlotCallsBase ==
    ASSUME Base, NEW a \in Actors,
           ReleaseWebSlot(a) \/ FreeSlot(a) \/ RemindSlot(a) \/ MarkSent(a) \/ MoveLocation(a)
           \/ TakeSlot(a) \/ WriteBooking(a) \/ RestoreWebSlot(a)
    PROVE  Base'
<1> DEFINE s == Call(a).slot
<1>0. /\ cand \in Snapshot /\ touched \subseteq Commands /\ sentMark \subseteq Commands
      /\ web \in Slots \cup {Null} /\ moved \in BOOLEAN
      /\ slots \in [Slots -> [booked : BOOLEAN, reminded : BOOLEAN]]
      /\ HersIsTaken
  BY DEF Base, Tables, TypeOK, Row
<1>1. /\ UNCHANGED <<scene, age, blocked, phase, outbox, batch, chat, talked, mishaps>>
      /\ Goes(a)
  BY DEF ReleaseWebSlot, FreeSlot, RemindSlot, MarkSent, MoveLocation, TakeSlot, WriteBooking, RestoreWebSlot
<1>2. AtCall(a, Call(a).op)
  BY DEF AtCall, ReleaseWebSlot, FreeSlot, RemindSlot, MarkSent, MoveLocation, TakeSlot, WriteBooking,
         RestoreWebSlot
<1>3. /\ Running(a) /\ run[a].todo # << >> /\ Fine(a, Call(a)) /\ run[a].read \in Snapshot \cup {Null}
      /\ a = "dispatcher" => Entry(run[a].doing)
  BY <1>2, AtHead
<1> HIDE DEF s
<1>4. /\ cand' \in Snapshot /\ touched' \subseteq Commands /\ sentMark' \subseteq Commands
      /\ web' \in Slots \cup {Null} /\ moved' \in BOOLEAN
      /\ slots' \in [Slots -> [booked : BOOLEAN, reminded : BOOLEAN]]
      /\ HersIsTaken'
  <2>1. CASE ReleaseWebSlot(a)
    BY <1>0, <1>3, <2>1, TouchOK DEF ReleaseWebSlot, HersIsTaken
  <2>2. CASE FreeSlot(a)
    <3>1. s \in Slots
      BY <1>3, <2>2 DEF FreeSlot, AtCall, Fine, s
    <3>2. Unbooked(cand) \in Snapshot /\ Unbooked(cand).interviewSlotId = Null
      BY <1>0, RowSlot DEF Unbooked
    <3>3. UNCHANGED <<web, sentMark, moved>> /\ touched' \subseteq Commands
      BY <1>0, <1>3, <2>2, TouchOK DEF FreeSlot
    <3>4. slots' = SlotFreed(s) /\ cand' = IF cand.interviewSlotId = s THEN Unbooked(cand) ELSE cand
      BY <2>2 DEF FreeSlot, s
    <3>5. /\ SlotFreed(s) \in [Slots -> [booked : BOOLEAN, reminded : BOOLEAN]]
          /\ \A t \in Slots \ {s} : SlotFreed(s)[t] = slots[t]
      BY <1>0, <3>1, SlotsWritten
    <3>6. cand' \in Snapshot /\ (cand'.interviewSlotId = Null \/ (cand' = cand /\ cand.interviewSlotId # s))
      BY <1>0, <3>2, <3>4
    <3>7. HersIsTaken'
      <4>1. CASE cand'.interviewSlotId = Null
        BY <4>1 DEF HersIsTaken
      <4>2. CASE cand'.interviewSlotId # Null
        <5>1. cand' = cand /\ cand.interviewSlotId \in Slots \ {s} /\ slots[cand.interviewSlotId].booked
          BY <1>0, <3>6, <4>2 DEF HersIsTaken, Snapshot
        <5>2. slots'[cand.interviewSlotId] = slots[cand.interviewSlotId]
          BY <3>5, <5>1, <3>4
        <5> QED
          BY <5>1, <5>2 DEF HersIsTaken
      <4> QED
        BY <4>1, <4>2
    <3> QED
      BY <1>0, <3>1, <3>3, <3>4, <3>5, <3>6, <3>7
  <2>3. CASE RemindSlot(a)
    <3>1. s \in Slots
      BY <1>3, <2>3 DEF RemindSlot, AtCall, Fine, s
    <3>2. /\ UNCHANGED <<web, sentMark, moved, touched, cand>>
          /\ slots' = [slots EXCEPT ![s].reminded = TRUE]
      BY <2>3 DEF RemindSlot, s
    <3>3. /\ slots' \in [Slots -> [booked : BOOLEAN, reminded : BOOLEAN]]
          /\ \A t \in Slots : slots[t].booked <=> slots'[t].booked
      BY <1>0, <3>1, <3>2, SlotsWritten
    <3>4. cand.interviewSlotId \in Slots \cup {Null}
      BY <1>0 DEF Snapshot
    <3>5. HersIsTaken'
      BY <1>0, <3>2, <3>3, <3>4 DEF HersIsTaken
    <3> QED
      BY <1>0, <3>2, <3>3, <3>5
  <2>4. CASE MarkSent(a)
    <3>1. a = "dispatcher"
      BY <1>3, <2>4 DEF MarkSent, AtCall, Fine
    <3>2. run[a].doing[1] \in Commands
      BY <1>3, <3>1 DEF Entry
    <3> QED
      BY <1>0, <2>4, <3>2 DEF MarkSent, HersIsTaken
  <2>5. CASE MoveLocation(a)
    BY <1>0, <1>3, <2>5, TouchOK DEF MoveLocation, HersIsTaken
  <2>6. CASE TakeSlot(a)
    BY <1>0, <1>3, <2>6 DEF TakeSlot, AtCall, Fine, HersIsTaken
  <2>7. CASE WriteBooking(a)
    <3> DEFINE scheduled == Updated(cand, run[a].read, Status1("INTERVIEW_SCHEDULED"))
    <3>1. s \in Slots /\ run[a].read \in Snapshot
      BY <1>3, <2>7 DEF WriteBooking, AtCall, Fine, s
    <3>2. PatchTyped(Status1("INTERVIEW_SCHEDULED"))
      BY DEF PatchTyped, Status1, Status, InterviewTrack
    <3>3. scheduled \in Snapshot
      BY <1>0, <3>1, <3>2, UpdatedRow
    <3>4. /\ UNCHANGED <<web, sentMark, moved, touched>>
          /\ cand' = [scheduled EXCEPT !.interviewSlotId = s]
      BY <2>7 DEF WriteBooking, s
    <3>5. cand' \in Snapshot /\ cand'.interviewSlotId = s
      BY <3>1, <3>3, <3>4, RowSlot
    <3> DEFINE old == run[a].read.interviewSlotId
    <3>6. slots' = [t \in Slots |-> CASE t = s -> [slots[t] EXCEPT !.booked = TRUE]
                                     [] t = old /\ t # s -> [slots[t] EXCEPT !.booked = FALSE]
                                     [] OTHER -> slots[t]]
      BY <2>7 DEF WriteBooking, s
    <3> HIDE DEF old
    <3>7. \A t \in Slots : /\ [slots[t] EXCEPT !.booked = TRUE] \in [booked : BOOLEAN, reminded : BOOLEAN]
                           /\ [slots[t] EXCEPT !.booked = FALSE] \in [booked : BOOLEAN, reminded : BOOLEAN]
                           /\ [slots[t] EXCEPT !.booked = TRUE].booked
      BY <1>0
    <3>8. slots' \in [Slots -> [booked : BOOLEAN, reminded : BOOLEAN]] /\ slots'[s].booked
      BY <1>0, <3>1, <3>6, <3>7
    <3> QED
      BY <1>0, <3>4, <3>5, <3>8 DEF HersIsTaken
  <2>8. CASE RestoreWebSlot(a)
    <3>1. s \in Slots
      BY <1>3, <2>8 DEF RestoreWebSlot, AtCall, Fine, s
    <3> QED
      BY <1>0, <2>8, <3>1 DEF RestoreWebSlot, HersIsTaken, s
  <2> QED
    BY <2>1, <2>2, <2>3, <2>4, <2>5, <2>6, <2>7, <2>8
<1>8. Onward /\ BatchSound'
  BY <1>1, StillOnward, BatchStill DEF Base
<1>9. LocalsOK'
  BY <1>1, <1>3, <1>8, GoesOK DEF Base
<1>10. TypeOK'
  BY <1>1, <1>4 DEF Base, Tables, TypeOK, Row, Commands
<1>11. OutboxSound' /\ ChatSound'
  BY <1>1 DEF Base, Tables, OutboxSound, ChatSound, Commands
<1> QED
  BY <1>1, <1>4, <1>8, <1>9, <1>10, <1>11 DEF Base, Tables


LEMMA CallsBase ==
    ASSUME Base, NEW a \in Actors, Calls(a)
    PROVE  Base'
BY JudgingBase, WriteUpdateBase, DeliverBase, SendIsBlockedBase, ArchiveBase, SlotCallsBase
   DEF Calls, OtherCalls

LEMMA IssueBase ==
    ASSUME Base, NEW k \in Commands, Issue(k)
    PROVE  Base'
<1>1. UNCHANGED <<scene, cand, age, moved, blocked, slots, phase, web, batch, run, sentMark, chat,
                  talked, touched, mishaps>>
  BY DEF Issue
<1>2. PICK kind \in scene.kinds[k] :
          outbox' = [outbox EXCEPT ![k] = [kind |-> kind, status |-> "PENDING", attempts |-> 0, reason |-> "ok"]]
  BY DEF Issue
<1>3. kind \in KindNames /\ scene.attempts \in Nat \ {0}
  BY SceneFacts DEF Base, Tables
<1>4. /\ outbox \in [Commands -> [kind : KindNames \cup {Null}, status : {"none", "PENDING", "APPLIED", "FAILED"},
                                  attempts : 0 .. scene.attempts, reason : {"ok", "failed", "state_conflict"}]]
      /\ outbox[k].status = "none" /\ outbox[k].attempts = 0
  BY DEF Base, Tables, TypeOK, OutboxSound, Issue, Unissued
<1> DEFINE o == [kind |-> kind, status |-> "PENDING", attempts |-> 0, reason |-> "ok"]
<1>5. outbox' = [outbox EXCEPT ![k] = o]
  BY <1>2
<1>6. /\ o \in [kind : KindNames \cup {Null}, status : {"none", "PENDING", "APPLIED", "FAILED"},
                attempts : 0 .. scene.attempts, reason : {"ok", "failed", "state_conflict"}]
      /\ o.status = "PENDING" /\ o.kind \in KindNames /\ o.attempts = 0
  BY <1>3, <1>4
<1> HIDE DEF o
<1>7. outbox' \in [Commands -> [kind : KindNames \cup {Null}, status : {"none", "PENDING", "APPLIED", "FAILED"},
                                attempts : 0 .. scene.attempts, reason : {"ok", "failed", "state_conflict"}]]
      /\ \A j \in Commands : outbox'[j] = IF j = k THEN o ELSE outbox[j]
  BY <1>4, <1>5, <1>6
<1>8. TypeOK'
  BY <1>1, <1>7 DEF Base, Tables, TypeOK, Commands
<1>9. OutboxSound'
  BY <1>1, <1>3, <1>6, <1>7 DEF Base, Tables, OutboxSound, Commands
<1>10. HersIsTaken' /\ ChatSound'
  BY <1>1 DEF Base, Tables, HersIsTaken, ChatSound
<1>11. Onward
  BY <1>1, <1>6, <1>7 DEF Onward
<1>12. BatchSound' /\ LocalsOK'
  BY <1>1, <1>11, BatchStill, StillOK DEF Base
<1> QED
  BY <1>1, <1>8, <1>9, <1>10, <1>12 DEF Base, Tables

LEMMA FetchBase ==
    ASSUME Base, Fetch
    PROVE  Base'
<1>1. UNCHANGED <<scene, cand, age, moved, blocked, slots, phase, web, outbox, run, sentMark, chat,
                  talked, touched, mishaps>>
  BY DEF Fetch
<1>2. PICK order \in [1 .. Cardinality(Pending) -> Pending] :
          batch' = [i \in DOMAIN order |-> <<order[i], outbox[order[i]].attempts>>]
  BY DEF Fetch
<1>3. Cardinality(Pending) \in Nat
  <2>1. Commands = 1 .. Len(scene.kinds) /\ Len(scene.kinds) \in Nat
    BY SceneFacts DEF Base, Tables
  <2>2. IsFiniteSet(Commands)
    BY <2>1, FS_Interval
  <2>3. IsFiniteSet(Pending)
    BY <2>2, FS_Subset DEF Pending
  <2> QED
    BY <2>3, FS_CardinalityType
<1> DEFINE n == Cardinality(Pending)
<1>4. \A i \in 1 .. n : order[i] \in Commands /\ outbox[order[i]].status = "PENDING"
                        /\ outbox[order[i]].attempts \in Nat
  BY <1>2, SceneFacts DEF Pending, Base, Tables, TypeOK
<1>5. batch' = [i \in 1 .. n |-> <<order[i], outbox[order[i]].attempts>>]
  BY <1>2
<1> HIDE DEF n
<1>6. batch' \in Seq(Commands \X Nat) /\ Len(batch') = n
  BY <1>3, <1>4, <1>5 DEF n
<1>7. \A i \in 1 .. Len(batch') : Entry(batch'[i])
  BY <1>4, <1>5, <1>6 DEF Entry
<1>8. BatchSound'
  BY <1>1, <1>6, <1>7 DEF BatchSound, Entry, Commands
<1>9. LocalsOK'
  BY <1>1, StillOnward, StillOK DEF Base
<1>10. TypeOK' /\ HersIsTaken' /\ OutboxSound' /\ ChatSound'
  BY <1>1 DEF Base, Tables, TypeOK, HersIsTaken, OutboxSound, ChatSound, Commands
<1> QED
  BY <1>1, <1>8, <1>9, <1>10 DEF Base, Tables

LEMMA BeginCommandBase ==
    ASSUME Base, BeginCommand
    PROVE  Base'
<1> DEFINE k == batch[1][1]
<1>1. /\ UNCHANGED <<scene, cand, age, moved, blocked, slots, phase, web, outbox, sentMark, chat, talked,
                     touched, mishaps>>
      /\ batch # << >> /\ batch' = Tail(batch)
  BY DEF BeginCommand
<1>2. /\ Entry(batch[1]) /\ batch' \in Seq(Commands \X Nat)
      /\ Len(batch') = Len(batch) - 1 /\ Len(batch) \in Nat \ {0}
      /\ \A i \in 1 .. Len(batch') : i + 1 \in 1 .. Len(batch) /\ batch'[i] = batch[i + 1]
  BY <1>1 DEF Base, BatchSound
<1>3. k \in Commands /\ batch[1][2] \in Nat /\ outbox[k].kind \in KindNames
  BY <1>2 DEF Entry, Base, Tables, OutboxSound
<1>4. \/ \E offered \in BOOLEAN : Begun("dispatcher", batch[1], Todo(k, batch[1][2], offered))
      \/ Begun("dispatcher", batch[1], <<Refuse("failed")>>)
  BY DEF BeginCommand
<1>5. AllFine("dispatcher", <<Refuse("failed")>>)
  BY CallsFine, FineShort
<1>6. \A offered \in BOOLEAN : AllFine("dispatcher", Todo(k, batch[1][2], offered))
  BY <1>3, TodoFine DEF Base, Tables
<1> HIDE DEF k
<1>7. PICK t : Begun("dispatcher", batch[1], t) /\ AllFine("dispatcher", t)
  <2>1. CASE Begun("dispatcher", batch[1], <<Refuse("failed")>>)
    BY <1>5, <2>1
  <2>2. CASE \E offered \in BOOLEAN : Begun("dispatcher", batch[1], Todo(k, batch[1][2], offered))
    <3>1. PICK offered \in BOOLEAN : Begun("dispatcher", batch[1], Todo(k, batch[1][2], offered))
      BY <2>2
    <3> QED
      BY <1>6, <3>1
  <2> QED
    BY <1>4, <2>1, <2>2
<1>8. Onward /\ "dispatcher" \in Actors
  BY <1>1, StillOnward DEF Actors
<1>9. LocalsOK'
  BY <1>2, <1>7, <1>8, BegunOK DEF Base
<1>10. \A i \in 1 .. Len(batch') : Entry(batch'[i])
  BY <1>2 DEF Base, BatchSound
<1>11. BatchSound'
  BY <1>1, <1>2, <1>10 DEF BatchSound, Entry, Commands
<1>12. TypeOK' /\ HersIsTaken' /\ OutboxSound' /\ ChatSound'
  BY <1>1 DEF Base, Tables, TypeOK, HersIsTaken, OutboxSound, ChatSound, Commands
<1> QED
  BY <1>1, <1>9, <1>11, <1>12 DEF Base, Tables


LEMMA AckBase ==
    ASSUME Base, Ack \/ LoseAck
    PROVE  Base'
<1> DEFINE k == run["dispatcher"].doing[1]
           w == run["dispatcher"].result
           o == outbox[k]
           Rows == [kind : KindNames \cup {Null}, status : {"none", "PENDING", "APPLIED", "FAILED"},
                    attempts : 0 .. scene.attempts, reason : {"ok", "failed", "state_conflict"}]
<1>1. /\ UNCHANGED <<scene, cand, age, moved, blocked, slots, phase, web, batch, sentMark, chat, talked,
                     touched>>
      /\ Ended("dispatcher") /\ Resting("dispatcher")
      /\ \/ outbox' = Acked(k, w) /\ mishaps' = mishaps
         \/ outbox' = outbox /\ mishaps' = mishaps + 1 /\ mishaps < MaxMishaps
  BY DEF Ack, LoseAck
<1>2. "dispatcher" \in Actors
  BY DEF Actors
<1>3. k \in Commands /\ w \in Results /\ o.status # "none"
  BY <1>1, <1>2 DEF Base, LocalsOK, LocalOK, Ended, Running, Entry
<1>4. outbox \in [Commands -> Rows] /\ scene.attempts \in Nat \ {0} /\ OutboxSound
  BY SceneFacts DEF Base, Tables, TypeOK
<1>5. outbox' \in [Commands -> Rows] /\ OutboxSound' /\ Onward
  <2>1. CASE outbox' = outbox
    BY <1>1, <1>4, <2>1, StillOnward DEF OutboxSound, Commands
  <2>2. CASE o.status = "PENDING" /\ outbox' = Acked(k, w)
    <3> DEFINE n == IF w = "ok"
                    THEN [kind |-> o.kind, status |-> "APPLIED", attempts |-> o.attempts, reason |-> o.reason]
                    ELSE [kind |-> o.kind,
                          status |-> IF w = "state_conflict" \/ o.attempts + 1 = scene.attempts
                                     THEN "FAILED" ELSE "PENDING",
                          attempts |-> o.attempts + 1, reason |-> w]
    <3>1. o \in Rows /\ o.kind \in KindNames /\ o.attempts < scene.attempts
      BY <1>3, <1>4, <2>2 DEF OutboxSound
    <3>2. [o EXCEPT !.status = "APPLIED"] =
             [kind |-> o.kind, status |-> "APPLIED", attempts |-> o.attempts, reason |-> o.reason]
      BY <3>1, SMTT(60)
    <3>3. outbox' = [outbox EXCEPT ![k] = n]
      BY <1>3, <1>4, <2>2, <3>2 DEF Acked
    <3>4. /\ n \in Rows /\ n.kind \in KindNames /\ n.status # "none"
          /\ n.status = "PENDING" => n.attempts < scene.attempts
          /\ n.status = "FAILED" => n.attempts > 0
      BY <1>3, <1>4, <3>1, SMTT(30) DEF Results
    <3> HIDE DEF n, o
    <3>5. /\ outbox' \in [Commands -> Rows]
          /\ \A j \in Commands : outbox'[j] = IF j = k THEN n ELSE outbox[j]
      BY <1>3, <1>4, <3>3, <3>4
    <3>6. OutboxSound' /\ Onward
      BY <1>1, <1>4, <3>4, <3>5 DEF OutboxSound, Onward, Commands
    <3> QED
      BY <3>5, <3>6
  <2>3. CASE o.status # "PENDING" /\ outbox' = Acked(k, w)
    BY <1>1, <1>4, <2>1, <2>3 DEF Acked
  <2> QED
    BY <1>1, <2>1, <2>2, <2>3
<1>6. BatchSound' /\ LocalsOK'
  BY <1>1, <1>2, <1>5, BatchStill, RestingOK DEF Base
<1>7. mishaps' \in 0 .. MaxMishaps
  BY <1>1, ConstantsAssumption DEF Base, Tables, TypeOK
<1>8. TypeOK'
  BY <1>1, <1>5, <1>7 DEF Base, Tables, TypeOK, Commands
<1>9. HersIsTaken' /\ ChatSound'
  BY <1>1 DEF Base, Tables, HersIsTaken, ChatSound
<1> QED
  BY <1>1, <1>5, <1>6, <1>8, <1>9 DEF Base, Tables

\* The worker's calls and hers are fine.
LEMMA WorkFine ==
    ASSUME Base, Work
    PROVE  \E t : AllFine("worker", t) /\ Works(t)
<1>1. CASE NotifyDecision
  <2> DEFINE t1 == <<Send("offer", "archive", "throw"), Update([status |-> "MENTOR_MANUAL", notificationSent |-> TRUE])>>
             t2 == <<Send("thanks for the talk, rejection", "archive", "throw"),
                     Update([status |-> "REJECTED", notificationSent |-> TRUE])>>
  <2>1. /\ Fine("worker", Send("offer", "archive", "throw"))
        /\ Fine("worker", Send("thanks for the talk, rejection", "archive", "throw"))
    BY CallsFine DEF Letters
  <2>2. AllFine("worker", t1) /\ AllFine("worker", t2)
    BY <2>1, CallsFine, PlainPatchesOK, FineShort
  <2>3. Works(t1) \/ Works(t2)
    BY <1>1 DEF NotifyDecision
  <2> HIDE DEF t1, t2
  <2> QED
    BY <2>2, <2>3
<1>2. CASE AutoComplete
  <2>1. PICK s \in Slots : Works(<<Update(Completed), Remind(s)>> \o
                 IF cand.hrDecision = Null THEN <<Send("thanks", "archive", "ignore")>> ELSE << >>)
    BY <1>2 DEF AutoComplete
  <2> DEFINE more == IF cand.hrDecision = Null THEN <<Send("thanks", "archive", "ignore")>> ELSE << >>
  <2>2. Fine("worker", Send("thanks", "archive", "ignore"))
    BY CallsFine DEF Letters
  <2>3. AllFine("worker", more)
    BY <2>2, FineShort
  <2>4. Works(<<Update(Completed), Remind(s)>> \o more)
    BY <2>1
  <2> HIDE DEF more
  <2>5. AllFine("worker", <<Update(Completed), Remind(s)>>)
    BY CallsFine, PlainPatchesOK, FineShort
  <2> QED
    BY <2>3, <2>4, <2>5, FineJoined
<1>3. CASE RecoverStale
  <2>1. PICK s \in Slots : Works(<<Update(Completed), Remind(s)>>)
    BY <1>3 DEF RecoverStale
  <2>2. AllFine("worker", <<Update(Completed), Remind(s)>>)
    BY CallsFine, PlainPatchesOK, FineShort
  <2> QED
    BY <2>1, <2>2
<1>4. CASE RepairRejected
  <2>1. Works(<<Update(Status1("REJECTED"))>>)
    BY <1>4 DEF RepairRejected
  <2>2. "REJECTED" \in Writable
    BY DEF Writable
  <2>3. AllFine("worker", <<Update(Status1("REJECTED"))>>)
    BY <2>2, CallsFine, PlainPatchesOK, FineShort
  <2> QED
    BY <2>1, <2>3
<1> QED
  BY <1>1, <1>2, <1>3, <1>4 DEF Work


LEMMA TapFine ==
    ASSUME Base, Tap
    PROVE  \E t : AllFine("candidate", t) /\ Taps(t)
<1>0. cand.interviewSlotId \in Slots \cup {Null}
  BY DEF Base, Tables, TypeOK, Row, Snapshot
<1>1. CASE TapSlot
  <2>1. PICK s \in Slots : Taps(<<TakeWebSlot(s), EmptyMirror(s), Book(s, cand.interviewSlotId)>>)
    BY <1>1 DEF TapSlot
  <2>2. Fine("candidate", TakeWebSlot(s))
    BY DEF Fine, TakeWebSlot, Ops
  <2>3. Fine("candidate", Book(s, cand.interviewSlotId))
    BY <1>0 DEF Fine, Book, Ops
  <2>4. Fine("candidate", EmptyMirror(s))
    BY CallsFine DEF EmptyMirror
  <2> QED
    BY <2>1, <2>2, <2>3, <2>4, FineShort
<1>2. CASE TapCancel
  <2> DEFINE p == [status |-> "WAITLIST_HR", currentStep |-> "INTERVIEW", isWaitlisted |-> TRUE,
                   notificationSent |-> FALSE, interviewSlotId |-> Null, interviewWaitlistedAt |-> TRUE]
             x == Cancel(cand.interviewSlotId, TRUE)
             y == Update(With(p, Queued(FALSE)))
  <2>1. Taps(<<Release, x, y>>) /\ cand.interviewSlotId \in Slots
    BY <1>0, <1>2 DEF TapCancel, canRescheduleInterview
  <2>2. PatchOK(p)
    BY DEF PatchOK, PatchTyped, Status, Step, Writable
  <2> HIDE DEF p
  <2>3. PatchOK(With(p, Queued(FALSE)))
    BY <2>2, OtherColumns, WithOK
  <2>4. Fine("candidate", x) /\ Fine("candidate", y) /\ Fine("candidate", Release)
    BY <2>1, <2>3, CallsFine
  <2> HIDE DEF x, y
  <2>5. AllFine("candidate", <<Release, x, y>>)
    BY <2>4, FineShort
  <2> QED
    BY <2>1, <2>5
<1> QED
  BY <1>1, <1>2 DEF Tap

LEMMA BeginningBase ==
    ASSUME Base, Work \/ Tap
    PROVE  Base'
<1>1. Tables /\ LocalsOK /\ BatchSound
  BY DEF Base
<1>2. CASE Work
  <2>1. PICK t : AllFine("worker", t) /\ Works(t)
    BY <1>2, WorkFine
  <2>2. OnlyRun /\ Begun("worker", "tick", t) /\ "worker" \in Actors
    BY <2>1 DEF OnlyRun, Works, Actors
  <2>3. Tables' /\ Onward /\ BatchSound'
    BY <1>1, <2>2, TablesStill, BatchStill
  <2>4. LocalsOK'
    BY <1>1, <2>1, <2>2, <2>3, BegunOK
  <2> QED
    BY <2>3, <2>4 DEF Base
<1>3. CASE Tap
  <2>1. PICK t : AllFine("candidate", t) /\ Taps(t)
    BY <1>3, TapFine
  <2>2. OnlyRun /\ Begun("candidate", "tap", t) /\ "candidate" \in Actors
    BY <2>1 DEF OnlyRun, Taps, Actors
  <2>3. Tables' /\ Onward /\ BatchSound'
    BY <1>1, <2>2, TablesStill, BatchStill
  <2>4. LocalsOK'
    BY <1>1, <2>1, <2>2, <2>3, BegunOK
  <2> QED
    BY <2>3, <2>4 DEF Base
<1> QED
  BY <1>2, <1>3

LEMMA CrashBase ==
    ASSUME Base, Crash
    PROVE  Base'
<1>1. /\ UNCHANGED <<scene, cand, age, moved, blocked, slots, phase, web, outbox, sentMark, chat, talked,
                     touched>>
      /\ mishaps < MaxMishaps /\ mishaps' = mishaps + 1
      /\ run' = [a \in Actors |-> Idle] /\ batch' = << >>
  BY DEF Crash
<1>2. mishaps' \in 0 .. MaxMishaps
  BY <1>1, ConstantsAssumption DEF Base, Tables, TypeOK
<1>3. TypeOK' /\ HersIsTaken' /\ OutboxSound' /\ ChatSound'
  BY <1>1, <1>2 DEF Base, Tables, TypeOK, HersIsTaken, OutboxSound, ChatSound, Commands
<1>4. BatchSound'
  BY <1>1 DEF BatchSound
<1>5. \A a \in Actors : LocalOK(a, Idle)'
  <2> SUFFICES ASSUME NEW a \in Actors PROVE LocalOK(a, Idle)'
    OBVIOUS
  <2>1. LocalOK(a, Idle)
    BY IdleOK
  <2>2. AllFine(a, << >>)' /\ AllFine(a, << >>)
    BY EmptyList DEF AllFine
  <2> QED
    BY <2>1, <2>2 DEF LocalOK, Idle
<1>6. \A a \in Actors : run'[a] = Idle
  BY <1>1
<1>7. LocalsOK'
  BY <1>1, <1>5, <1>6 DEF LocalsOK
<1> QED
  BY <1>1, <1>3, <1>4, <1>7 DEF Base, Tables

LEMMA PassBase ==
    ASSUME Base, NEW s \in Slots, Pass(s)
    PROVE  Base'
<1>1. /\ UNCHANGED <<scene, cand, age, moved, blocked, slots, web, outbox, batch, run, sentMark, chat,
                     touched, mishaps>>
      /\ talked' \in BOOLEAN
  BY DEF Pass, Base, Tables, TypeOK
<1>2. phase' \in [Slots -> Phases]
  BY DEF Pass, Base, Tables, TypeOK, Phases
<1>3. TypeOK' /\ HersIsTaken' /\ OutboxSound' /\ ChatSound'
  BY <1>1, <1>2 DEF Base, Tables, TypeOK, HersIsTaken, OutboxSound, ChatSound, Commands
<1>4. Onward
  BY <1>1, StillOnward
<1>5. BatchSound' /\ LocalsOK'
  BY <1>1, <1>4, BatchStill, StillOK DEF Base
<1> QED
  BY <1>1, <1>3, <1>5 DEF Base, Tables

LEMMA BaseInit == Init => Base
<1> SUFFICES ASSUME Init PROVE Base
  OBVIOUS
<1>1. scene \in Scenes /\ SceneType(scene)
  BY ConstantsAssumption DEF Init
<1>2. cand \in Snapshot /\ age \in Ages /\ scene.attempts \in Nat \ {0} /\ scene.phase \in [Slots -> Phases]
  BY <1>1 DEF Init, SceneType
<1>3. cand.interviewSlotId \in Slots \cup {Null}
  BY <1>2 DEF Snapshot
<1>4. slots = [s \in Slots |-> [booked |-> s = cand.interviewSlotId, reminded |-> FALSE]]
  BY DEF Init
<1>5. /\ slots \in [Slots -> [booked : BOOLEAN, reminded : BOOLEAN]]
      /\ HersIsTaken
  <2> DEFINE S(s) == [booked |-> s = cand.interviewSlotId, reminded |-> FALSE]
  <2>1. \A s : S(s) \in [booked : BOOLEAN, reminded : BOOLEAN] /\ (S(s).booked <=> s = cand.interviewSlotId)
    OBVIOUS
  <2>2. slots = [s \in Slots |-> S(s)]
    BY <1>4
  <2> HIDE DEF S
  <2>3. \A s \in Slots : slots[s] = S(s)
    BY <2>2
  <2> QED
    BY <1>3, <2>1, <2>2, <2>3 DEF HersIsTaken
<1>6. outbox = [k \in Commands |-> [kind |-> Null, status |-> "none", attempts |-> 0, reason |-> "ok"]]
  BY DEF Init
<1>7. /\ outbox \in [Commands -> [kind : KindNames \cup {Null}, status : {"none", "PENDING", "APPLIED", "FAILED"},
                                  attempts : 0 .. scene.attempts, reason : {"ok", "failed", "state_conflict"}]]
      /\ OutboxSound
  BY <1>2, <1>6 DEF OutboxSound
<1>8. IsList(chat) /\ Len(chat) = 0 /\ DOMAIN chat = {}
  BY EmptyList DEF Init
<1>9. ChatSound
  BY <1>8 DEF ChatSound
<1>10. TypeOK
  <2>1. mishaps \in 0 .. MaxMishaps
    BY ConstantsAssumption DEF Init
  <2>2. /\ moved \in BOOLEAN /\ blocked \in BOOLEAN /\ talked \in BOOLEAN
        /\ phase \in [Slots -> Phases] /\ web \in Slots \cup {Null}
        /\ sentMark \subseteq Commands /\ touched \subseteq Commands
    BY <1>2, <1>3 DEF Init
  <2>3. \A i \in DOMAIN chat : chat[i].letter \in Letters
    BY <1>8
  <2> QED
    BY <1>2, <1>5, <1>7, <2>1, <2>2, <2>3, Zenon DEF TypeOK, Row
<1>11. BatchSound
  BY DEF Init, BatchSound
<1>12. LocalsOK
  BY IdleOK DEF Init, LocalsOK
<1> QED
  BY <1>1, <1>5, <1>7, <1>9, <1>10, <1>11, <1>12 DEF Base, Tables

LEMMA BaseNext == Base /\ [Next]_vars => Base'
<1> SUFFICES ASSUME Base, [Next]_vars PROVE Base'
  OBVIOUS
<1>1. CASE UNCHANGED vars
  <2>1. OnlyRun /\ run' = run
    BY <1>1 DEF vars, state, OnlyRun
  <2> QED
    BY <2>1, TablesStill, BatchStill, StillOK DEF Base
<1>2. CASE Next
  BY <1>2, IssueBase, FetchBase, BeginCommandBase, AckBase, BeginningBase, CrashBase, CallsBase, PassBase
     DEF Next, Dispatch
<1> QED
  BY <1>1, <1>2

LEMMA BaseAlways == Spec => []Base
BY BaseInit, BaseNext, PTL DEF Spec

---------------------------------------------------------------------------
(* The theorems of every scene.                                            *)

\* Whatever crosses, fails or dies, her row stays a row of the table, the
\* outbox, the slots and the letters keep their shape.
THEOREM TypeAlways == Spec => []TypeOK
BY BaseAlways, PTL DEF Base, Tables

\* The slot her row names is taken in the bot's table, at every moment, whatever
\* her booking overlaps with.
THEOREM HersIsTakenAlways == Spec => []HersIsTaken
BY BaseAlways, PTL DEF Base, Tables


---------------------------------------------------------------------------
(* What holds while one handler runs at a time.                            *)

OneAtATime == \A a, b \in Actors : Running(a) /\ Running(b) => a = b

\* What a handler has read is still there when it writes.
ReadsAreFresh ==
    \A a \in Actors : run[a].read # Null =>
        /\ run[a].read = cand
        /\ run[a].todo # << >>
        /\ Call(a).op \in {"update", "book"}
        /\ Call(a).op = "update" => Admits(cand, Call(a).patches[1])
        /\ Call(a).op = "book" =>
              /\ cand.status # "REJECTED"
              /\ cand.hrDecision \notin {"AGE_LIMIT", "REJECTED_SYSTEM_UNDERAGE"}
              /\ Admits(cand, Status1("INTERVIEW_SCHEDULED"))

\* A scene in which no handler is cut short on its way, by a death or a block: in
\* it, the web app's table (w) and her row (c) agree between two handlers.
Steady(s) == s.faults \cap {"crash", "blocked"} = {}
Agree(c, w) ==
    /\ w # Null => c.interviewSlotId = w
    /\ c.status = "INTERVIEW_SCHEDULED" => w = c.interviewSlotId
Agreed(s, c, w) == Steady(s) => Agree(c, w)

\* Calls that leave the slots alone, set up no staging and invite nobody; a plain
\* one leaves her slot to her as well.
SetUp == Update(Status1("STAGING_SETUP"))
CloseTraining == Update(Status1("TRAINING_COMPLETED"))
Unlink == [currentStep |-> "INTERVIEW", interviewSlotId |-> Null]
SetsUp(x) == "status" \in DOMAIN x.patches[1] /\ x.patches[1]["status"] = "STAGING_SETUP"
Invites(x) == x.op = "send" /\ x.letter = "invitation"
Loose(x) ==
    /\ x.op \in {"update", "send", "remind", "mark", "move", "refuse"}
    /\ x.op = "update" => ~ SetsUp(x)
    /\ ~ Invites(x)
KeepsSlot(p) ==
    "interviewSlotId" \notin DOMAIN p /\ ("status" \in DOMAIN p => p["status"] # "WAITLIST_HR")
Plain(x) ==
    /\ Loose(x)
    /\ x.op = "update" => Len(x.patches) = 1 /\ KeepsSlot(x.patches[1])
AllLoose(t) == IsList(t) /\ \A i \in 1 .. Len(t) : Loose(t[i])
AllPlain(t) == IsList(t) /\ \A i \in 1 .. Len(t) : Plain(t[i])

\* What the handler that runs has left to do (t), in a scene (s), by her row (c)
\* and the slot the web app holds for her (w).
Linked(c) ==
    c.interviewSlotId # Null /\ c.status \in {"INTERVIEW_SCHEDULED", "INTERVIEW_COMPLETED"}
Emptied(s, w) == Steady(s) => w = Null

Tame(s, t, c, w) ==
    Agreed(s, c, w) /\ (AllPlain(t) \/ (c.interviewSlotId = Null /\ AllLoose(t)))
Archiving(s, t) == ~ Steady(s) /\ t = <<Archive>>
Opening(s, t, c, w) ==
    /\ Agreed(s, c, w) /\ t # << >> /\ AllPlain(Tail(t))
    /\ \/ t[1] = SetUp /\ c.status \notin {"STAGING_ACTIVE", "OFFLINE_STAGING"}
       \/ Invites(t[1]) /\ Admits(c, Invited)
ClosingTraining(s, t, c, w) ==
    /\ Agreed(s, c, w) /\ t # << >> /\ Tail(t) # << >> /\ AllPlain(Tail(Tail(t)))
    /\ t[1] = CloseTraining /\ Tail(t)[1] = SetUp
Judging(s, t, c, w) ==
    /\ Agreed(s, c, w) /\ t # << >> /\ Tail(t) # << >> /\ AllPlain(Tail(Tail(t)))
    /\ t[1] = Check(Invited) /\ Invites(Tail(t)[1])

Cancelling(s, t, c, w) ==
    /\ Linked(c) /\ Emptied(s, w) /\ t # << >> /\ AllLoose(Tail(t))
    /\ t[1].op = "cancel" /\ t[1].slot = c.interviewSlotId
Releasing(s, t, c) ==
    /\ t # << >> /\ t[1] = Release
    /\ \/ c.interviewSlotId = Null /\ AllLoose(Tail(t))
       \/ Cancelling(s, Tail(t), c, Null)
       \/ c.interviewSlotId # Null /\ Tail(t) = <<Restore(c.interviewSlotId)>>
Unlinking(s, t, c, w) ==
    /\ Linked(c) /\ Emptied(s, w) /\ t # << >> /\ Tail(t) # << >> /\ AllLoose(Tail(Tail(t)))
    /\ t[1] = Update(Unlink) /\ Tail(t)[1].op = "free"
Freeing(s, t, c, w) ==
    /\ c.interviewSlotId = Null /\ Emptied(s, w) /\ t # << >> /\ AllLoose(Tail(t))
    /\ t[1].op = "free"
Restoring(t, c) == c.interviewSlotId # Null /\ t = <<Restore(c.interviewSlotId)>>
Taking(t, c) ==
    \E x \in Slots \ {c.interviewSlotId} :
        t = <<TakeWebSlot(x), EmptyMirror(x), Book(x, c.interviewSlotId)>>
Emptying(t, c, w) ==
    w \in Slots \ {c.interviewSlotId} /\ t = <<EmptyMirror(w), Book(w, c.interviewSlotId)>>
Booking(t, c, w) ==
    w \in Slots \ {c.interviewSlotId} /\ t = <<Book(w, c.interviewSlotId)>>

Shape(s, t, c, w) ==
    \/ Tame(s, t, c, w) \/ Archiving(s, t) \/ Opening(s, t, c, w)
    \/ ClosingTraining(s, t, c, w) \/ Judging(s, t, c, w)
    \/ Releasing(s, t, c) \/ Cancelling(s, t, c, w) \/ Unlinking(s, t, c, w)
    \/ Freeing(s, t, c, w) \/ Restoring(t, c)
    \/ Taking(t, c) \/ Emptying(t, c, w) \/ Booking(t, c, w)

Turn ==
    /\ OneAtATime /\ ReadsAreFresh
    /\ Quiet => Agreed(scene, cand, web)
    /\ \A a \in Actors : Running(a) => Shape(scene, run[a].todo, cand, web)
InTurn == ~ scene.overlap => Turn

\* The rows that the questionnaire and the booking write: who has a slot is past
\* the choice of one. And ids of training slots, which nothing books any more.
Early == {"SCREENING", "WAITLIST_HR", "WAITLIST", "MANUAL_REVIEW"}
PastChoice(c) ==
    c.interviewSlotId # Null => c.status \notin Early /\ c.hrDecision # "REJECTED_SYSTEM_UNDERAGE"
Untrained(c) == ~ c.discoverySlotId /\ ~ c.trainingSlotId
BookedRow == age = "fits" => PastChoice(cand)
NoTrainingSlot == Untrained(cand)

\* What is left of an invitation that turns her away; whom it has turned away stays
\* out until another command writes.
TurnsAway(t, c, result) ==
    \/ t = inviteCandidate(c)
    \/ c.status = "REJECTED" /\ t = <<Refuse("failed")>>
    \/ c.status = "REJECTED" /\ t = << >> /\ result # "ok"
DispatcherInvites ==
    Running("dispatcher") /\ outbox[run["dispatcher"].doing[1]].kind = "INVITE_TO_INTERVIEW"
Refused(k) ==
    outbox[k].kind = "INVITE_TO_INTERVIEW" /\ outbox[k].attempts > 0 /\ touched \subseteq {k}
OutForGood == cand.status = "REJECTED" /\ ~ Running("worker") /\ ~ Running("candidate")
TurnedAway ==
    age # "fits" =>
        /\ DispatcherInvites => TurnsAway(run["dispatcher"].todo, cand, run["dispatcher"].result)
        /\ \A k \in Commands : Refused(k) => OutForGood

---------------------------------------------------------------------------
(* Lists of such calls.                                                    *)

LEMMA LooseShort ==
    ASSUME NEW x, NEW y, NEW z
    PROVE  /\ AllLoose(<< >>)
           /\ Loose(x) => AllLoose(<<x>>)
           /\ Loose(x) /\ Loose(y) => AllLoose(<<x, y>>)
           /\ Loose(x) /\ Loose(y) /\ Loose(z) => AllLoose(<<x, y, z>>)
<1>1. AllLoose(<< >>)
  BY EmptyList DEF AllLoose
<1>2. ASSUME Loose(x) PROVE AllLoose(<<x>>)
  <2>1. \A i \in 1 .. 1 : Loose(<<x>>[i])
    BY <1>2
  <2> QED
    BY <2>1, ShortLists DEF AllLoose
<1>3. ASSUME Loose(x), Loose(y) PROVE AllLoose(<<x, y>>)
  <2>1. \A i \in 1 .. 2 : Loose(<<x, y>>[i])
    BY <1>3
  <2> QED
    BY <2>1, ShortLists DEF AllLoose
<1>4. ASSUME Loose(x), Loose(y), Loose(z) PROVE AllLoose(<<x, y, z>>)
  <2>1. \A i \in 1 .. 3 : Loose(<<x, y, z>>[i])
    BY <1>4
  <2> QED
    BY <2>1, ShortLists DEF AllLoose
<1> QED
  BY <1>1, <1>2, <1>3, <1>4

LEMMA PlainShort ==
    ASSUME NEW x, NEW y, NEW z
    PROVE  /\ AllPlain(<< >>)
           /\ Plain(x) => AllPlain(<<x>>)
           /\ Plain(x) /\ Plain(y) => AllPlain(<<x, y>>)
           /\ Plain(x) /\ Plain(y) /\ Plain(z) => AllPlain(<<x, y, z>>)
<1>1. AllPlain(<< >>)
  BY EmptyList DEF AllPlain
<1>2. ASSUME Plain(x) PROVE AllPlain(<<x>>)
  <2>1. \A i \in 1 .. 1 : Plain(<<x>>[i])
    BY <1>2
  <2> QED
    BY <2>1, ShortLists DEF AllPlain
<1>3. ASSUME Plain(x), Plain(y) PROVE AllPlain(<<x, y>>)
  <2>1. \A i \in 1 .. 2 : Plain(<<x, y>>[i])
    BY <1>3
  <2> QED
    BY <2>1, ShortLists DEF AllPlain
<1>4. ASSUME Plain(x), Plain(y), Plain(z) PROVE AllPlain(<<x, y, z>>)
  <2>1. \A i \in 1 .. 3 : Plain(<<x, y, z>>[i])
    BY <1>4
  <2> QED
    BY <2>1, ShortLists DEF AllPlain
<1> QED
  BY <1>1, <1>2, <1>3, <1>4

LEMMA PlainJoined ==
    ASSUME NEW s, NEW t, AllPlain(s), AllPlain(t)
    PROVE  AllPlain(s \o t)
<1>1. /\ IsList(s \o t) /\ Len(s) \in Nat /\ Len(t) \in Nat /\ Len(s \o t) = Len(s) + Len(t)
      /\ \A i \in 1 .. Len(s) : (s \o t)[i] = s[i]
      /\ \A i \in 1 .. Len(t) : (s \o t)[Len(s) + i] = t[i]
  BY JoinedList DEF AllPlain
<1>2. ASSUME NEW i \in 1 .. Len(s \o t) PROVE Plain((s \o t)[i])
  <2>1. CASE i <= Len(s)
    BY <1>1, <2>1 DEF AllPlain
  <2>2. CASE i > Len(s)
    <3>1. i - Len(s) \in 1 .. Len(t) /\ i = Len(s) + (i - Len(s))
      BY <1>1, <2>2
    <3>2. (s \o t)[i] = t[i - Len(s)]
      BY <1>1, <3>1
    <3> QED
      BY <3>1, <3>2 DEF AllPlain
  <2> QED
    BY <1>1, <2>1, <2>2
<1> QED
  BY <1>1, <1>2 DEF AllPlain

LEMMA TamerTail ==
    ASSUME NEW t, t # << >>
    PROVE  /\ AllPlain(t) => AllPlain(Tail(t)) /\ Plain(t[1])
           /\ AllLoose(t) => AllLoose(Tail(t)) /\ Loose(t[1])
<1>1. ASSUME IsList(t)
      PROVE  /\ IsList(Tail(t)) /\ Len(t) \in Nat \ {0} /\ Len(Tail(t)) = Len(t) - 1
             /\ \A i \in 1 .. Len(t) - 1 : Tail(t)[i] = t[i + 1]
             /\ \A i \in 1 .. Len(t) - 1 : i + 1 \in 1 .. Len(t)
  <2>1. /\ IsList(Tail(t)) /\ Len(t) \in Nat \ {0} /\ Len(Tail(t)) = Len(t) - 1
        /\ \A i \in 1 .. Len(t) - 1 : Tail(t)[i] = t[i + 1]
    BY <1>1, TailList
  <2> QED
    BY <2>1
<1>2. AllPlain(t) => AllPlain(Tail(t)) /\ Plain(t[1])
  BY <1>1 DEF AllPlain
<1>3. AllLoose(t) => AllLoose(Tail(t)) /\ Loose(t[1])
  BY <1>1 DEF AllLoose
<1> QED
  BY <1>2, <1>3

LEMMA PlainIsLoose == \A t : AllPlain(t) => AllLoose(t)
BY DEF AllPlain, AllLoose, Plain

\* A call or two put before a list.
LEMMA PutOneBefore ==
    ASSUME NEW S, NEW x \in S, NEW t \in Seq(S)
    PROVE  /\ <<x>> \o t \in Seq(S) /\ <<x>> \o t # << >>
           /\ (<<x>> \o t)[1] = x /\ Tail(<<x>> \o t) = t
<1> DEFINE u == <<x>> \o t
<1>1. <<x>> \in Seq(S) /\ Len(<<x>>) = 1 /\ Len(t) \in Nat
  OBVIOUS
<1>2. /\ u \in Seq(S) /\ Len(u) = 1 + Len(t)
      /\ \A i \in 1 .. 1 + Len(t) : u[i] = IF i <= 1 THEN <<x>>[i] ELSE t[i - 1]
  BY <1>1, ConcatProperties
<1> HIDE DEF u
<1>3. u # << >> /\ u[1] = x
  BY <1>1, <1>2
<1>4. /\ Tail(u) \in Seq(S) /\ Len(Tail(u)) = Len(t)
      /\ \A i \in 1 .. Len(Tail(u)) : Tail(u)[i] = u[i + 1]
  BY <1>1, <1>2, <1>3, HeadTailProperties
<1>5. \A i \in 1 .. Len(Tail(u)) : Tail(u)[i] = t[i]
  BY <1>1, <1>2, <1>4
<1>6. Tail(u) = t
  BY <1>4, <1>5, SeqEqual
<1> QED
  BY <1>2, <1>3, <1>6 DEF u

LEMMA PutBefore ==
    ASSUME NEW x, NEW t, IsList(t)
    PROVE  <<x>> \o t # << >> /\ (<<x>> \o t)[1] = x /\ Tail(<<x>> \o t) = t
<1>1. PICK S : t \in Seq(S)
  BY DEF IsList
<1>2. t \in Seq(S \cup {x}) /\ x \in S \cup {x}
  BY <1>1
<1> QED
  BY <1>2, PutOneBefore

Opens(u, x, y, t) ==
    u # << >> /\ u[1] = x /\ Tail(u) # << >> /\ Tail(u)[1] = y /\ Tail(Tail(u)) = t
LEMMA PutTwoBefore ==
    ASSUME NEW x, NEW y, NEW t, IsList(t)
    PROVE  Opens(<<x, y>> \o t, x, y, t)
<1>1. PICK S : t \in Seq(S)
  BY DEF IsList
<1> DEFINE T == S \cup {x, y}
<1>2. t \in Seq(T) /\ x \in T /\ y \in T
  BY <1>1
<1> HIDE DEF T
<1>3. <<y>> \o t \in Seq(T) /\ <<y>> \o t # << >> /\ (<<y>> \o t)[1] = y /\ Tail(<<y>> \o t) = t
  BY <1>2, PutOneBefore
<1>4. <<x, y>> \o t = <<x>> \o (<<y>> \o t)
  <2>1. <<x>> \in Seq(T) /\ <<y>> \in Seq(T)
    BY <1>2
  <2>2. <<x, y>> = <<x>> \o <<y>>
    <3> DEFINE joined == <<x>> \o <<y>>
               pair == <<x, y>>
    <3>1. Len(<<x>>) = 1 /\ Len(<<y>>) = 1 /\ pair \in Seq(T) /\ Len(pair) = 2 /\ pair[1] = x /\ pair[2] = y
      BY <1>2
    <3>2. /\ joined \in Seq(T) /\ Len(joined) = 2
          /\ \A i \in 1 .. 2 : joined[i] = IF i <= 1 THEN <<x>>[i] ELSE <<y>>[i - 1]
      BY <2>1, <3>1, ConcatProperties
    <3>3. joined[1] = x /\ joined[2] = y
      BY <3>2
    <3> HIDE DEF joined, pair
    <3>4. \A i \in 1 .. 2 : pair[i] = joined[i]
      BY <3>1, <3>3
    <3>5. pair = joined
      BY <3>1, <3>2, <3>4, SeqEqual
    <3> QED
      BY <3>5 DEF joined, pair
  <2> QED
    BY <1>2, <2>1, <2>2, ConcatAssociative
<1> DEFINE v == <<y>> \o t
<1> HIDE DEF v
<1>5. v \in Seq(T) => /\ <<x>> \o v # << >> /\ (<<x>> \o v)[1] = x /\ Tail(<<x>> \o v) = v
  BY <1>2, PutOneBefore
<1> QED
  BY <1>3, <1>4, <1>5 DEF v, Opens

---------------------------------------------------------------------------
(* Where the guard lets an update lead.                                    *)

LEMMA SourcesOf ==
    /\ Sources["SCREENING"] = {"WAITLIST_HR", "WAITLIST", "MANUAL_REVIEW"}
    /\ Sources["WAITLIST_HR"] = {"SCREENING", "WAITLIST", "INTERVIEW_SCHEDULED", "INTERVIEW_COMPLETED"}
    /\ Sources["INTERVIEW_SCHEDULED"] = {"SCREENING", "WAITLIST_HR", "WAITLIST"}
    /\ Sources["INTERVIEW_COMPLETED"] = {"INTERVIEW_SCHEDULED", "DECISION_PENDING"}
    /\ Sources["MENTOR_MANUAL"] = {"INTERVIEW_COMPLETED", "DECISION_PENDING", "ACCEPTED"}
    /\ Sources["TRAINING_COMPLETED"] = {"TRAINING_SCHEDULED", "ACCEPTED", "MENTOR_MANUAL",
            "DISCOVERY_SCHEDULED", "DISCOVERY_COMPLETED", "NDA", "KNOWLEDGE_TEST"}
    /\ Sources["STAGING_SETUP"] = {"KNOWLEDGE_TEST", "STAGING_ACTIVE", "OFFLINE_STAGING", "TRAINING_COMPLETED"}
    /\ Sources["STAGING_ACTIVE"] = {"STAGING_SETUP", "OFFLINE_STAGING"}
    /\ Sources["READY_FOR_HIRE"] = {"NDA", "STAGING_ACTIVE", "OFFLINE_STAGING"}
    /\ Sources["HIRED"] = {"READY_FOR_HIRE", "AWAITING_FIRST_SHIFT"}
    /\ Sources["REJECTED"] = Status
BY Zenon DEF Sources

\* From where each status is reached that a handler writes, or the booking.
Reached == Writable \cup {"INTERVIEW_SCHEDULED"}
LEMMA Transitions ==
    ASSUME NEW c \in Snapshot, NEW s \in Reached, AllowsTransition(c, s)
    PROVE  \/ s \in {"REJECTED", "BLOCKER"} \/ s = c.status
           \/ s \in {"SCREENING", "WAITLIST_HR"} /\ RecoverableUnderage(c)
           \/ s = "SCREENING" /\ c.status \in {"WAITLIST_HR", "WAITLIST", "MANUAL_REVIEW"}
           \/ s = "WAITLIST_HR" /\ c.status \in {"SCREENING", "WAITLIST", "INTERVIEW_SCHEDULED", "INTERVIEW_COMPLETED"}
           \/ s = "INTERVIEW_SCHEDULED" /\ c.status \in {"SCREENING", "WAITLIST_HR", "WAITLIST"}
           \/ /\ s = "INTERVIEW_COMPLETED"
              /\ c.status \in {"INTERVIEW_SCHEDULED", "DECISION_PENDING", "SCREENING"}
           \/ /\ s = "MENTOR_MANUAL"
              /\ c.status \in {"INTERVIEW_COMPLETED", "DECISION_PENDING", "ACCEPTED", "WAITLIST"}
           \/ /\ s = "TRAINING_COMPLETED"
              /\ c.status \in {"TRAINING_SCHEDULED", "ACCEPTED", "MENTOR_MANUAL", "DISCOVERY_SCHEDULED",
                               "DISCOVERY_COMPLETED", "NDA", "KNOWLEDGE_TEST"}
           \/ /\ s = "STAGING_SETUP"
              /\ c.status \in {"KNOWLEDGE_TEST", "STAGING_ACTIVE", "OFFLINE_STAGING", "TRAINING_COMPLETED"}
           \/ s = "STAGING_ACTIVE" /\ c.status \in {"STAGING_SETUP", "OFFLINE_STAGING"}
           \/ s = "READY_FOR_HIRE" /\ c.status \in {"NDA", "STAGING_ACTIVE", "OFFLINE_STAGING"}
           \/ s = "HIRED" /\ c.status \in {"READY_FOR_HIRE", "AWAITING_FIRST_SHIFT"}
           \/ s = "HIRED" /\ InMentorTrack(c)
<1>1. \/ c.status = s
      \/ c.status \in Sources[s]
      \/ s \in {"SCREENING", "WAITLIST_HR", "MANUAL_REVIEW"} /\ RecoverableUnderage(c)
      \/ s \in {"INTERVIEW_COMPLETED", "DECISION_PENDING"} /\ c.status = "SCREENING"
      \/ /\ s \in {"ACCEPTED", "MENTOR_MANUAL", "WAITLIST_MENTOR", "DISCOVERY_SCHEDULED"}
         /\ c.status = "WAITLIST"
      \/ s = "HIRED" /\ InMentorTrack(c)
  BY DEF AllowsTransition, LegacyMentorWaitlist
<1>2. s \in {"REJECTED", "BLOCKER"} \/ s \in Reached \ {"REJECTED", "BLOCKER"}
  OBVIOUS
<1> QED
  BY <1>1, <1>2, SourcesOf DEF Reached, Writable

\* No update that the guard admits leads back, but for the setting up of a staging
\* that has begun.
LEMMA StageNames ==
    /\ Stage("MENTOR_MANUAL") = 1 /\ Stage("NDA") = 1 /\ Stage("KNOWLEDGE_TEST") = 1
    /\ Stage("TRAINING_COMPLETED") = 2 /\ Stage("STAGING_SETUP") = 3
    /\ Stage("STAGING_ACTIVE") = 4 /\ Stage("OFFLINE_STAGING") = 4
    /\ Stage("READY_FOR_HIRE") = 5 /\ Stage("AWAITING_FIRST_SHIFT") = 5 /\ Stage("HIRED") = 6
    /\ \A s \in Status : Stage(s) \in 0 .. 6
    /\ \A s \in {"SCREENING", "WAITLIST", "WAITLIST_HR", "MANUAL_REVIEW", "REJECTED", "BLOCKER",
                 "INTERVIEW_SCHEDULED", "INTERVIEW_COMPLETED", "DECISION_PENDING", "ACCEPTED",
                 "DISCOVERY_SCHEDULED", "DISCOVERY_COMPLETED", "TRAINING_SCHEDULED"} : Stage(s) = 0
BY DEF Stage

LEMMA NotBack ==
    ASSUME NEW c \in Snapshot, NEW s \in Reached, AllowsTransition(c, s),
           s = "STAGING_SETUP" => c.status \notin {"STAGING_ACTIVE", "OFFLINE_STAGING"}
    PROVE  /\ s \in {"REJECTED", "BLOCKER"} \/ Stage(s) >= Stage(c.status)
           /\ /\ c.status = "REJECTED" /\ c.hrDecision # "REJECTED_SYSTEM_UNDERAGE"
              /\ ~ c.discoverySlotId /\ ~ c.trainingSlotId
              => s \in {"REJECTED", "BLOCKER"}
<1>1. c.status \in Status
  BY DEF Snapshot
<1>2. Stage(c.status) \in 0 .. 6
  BY <1>1, StageNames
<1>3. s \in {"REJECTED", "BLOCKER"} \/ Stage(s) >= Stage(c.status)
  <2>1. CASE s = "HIRED"
    BY <1>2, <2>1, StageNames
  <2>2. CASE s # "HIRED"
    <3>1. CASE RecoverableUnderage(c)
      <4>1. Stage(c.status) = 0
        BY <3>1, StageNames DEF RecoverableUnderage
      <4>2. s \in Status
        BY WritableStatus DEF Reached, Status, InterviewTrack
      <4> QED
        BY <4>1, <4>2, StageNames
    <3>2. CASE ~ RecoverableUnderage(c)
      BY <1>2, <2>2, <3>2, Transitions, StageNames
    <3> QED
      BY <3>1, <3>2
  <2> QED
    BY <2>1, <2>2
<1>4. ASSUME c.status = "REJECTED", c.hrDecision # "REJECTED_SYSTEM_UNDERAGE",
             ~ c.discoverySlotId, ~ c.trainingSlotId
      PROVE  s \in {"REJECTED", "BLOCKER"}
  <2>1. ~ InMentorTrack(c) /\ ~ RecoverableUnderage(c)
    BY <1>4 DEF InMentorTrack, RecoverableUnderage, TrainingTrack, FirstShiftTrack
  <2> QED
    BY <1>4, <2>1, Transitions
<1> QED
  BY <1>3, <1>4


\* The row that the guard judges, where it looks.
LEMMA JudgedRow ==
    ASSUME NEW c \in Snapshot, NEW p, PatchTyped(p)
    PROVE  LET j == Judged(c, Normalized(c, p))
               w == Updated(c, c, p) IN
           /\ j.status = w.status /\ j.currentStep = w.currentStep
           /\ j.materialsSent = w.materialsSent
           /\ j.discoverySlotId = w.discoverySlotId /\ j.trainingSlotId = w.trainingSlotId
<1> DEFINE w == Updated(c, c, p)
<1>1. w \in Snapshot
  BY UpdatedRow
<1>2. Judged(c, Normalized(c, p)) =
         [w EXCEPT !.hrDecision = IF @ = Null THEN c.hrDecision ELSE @,
                   !.interviewCompletedAt = @ \/ c.interviewCompletedAt]
  BY DEF Judged, Updated
<1> HIDE DEF w
<1> QED
  BY <1>1, <1>2 DEF Snapshot, w

\* A patch that keeps the status, or rejects, and fits the step, is let through.
LEMMA KeepsTrack ==
    ASSUME NEW c \in Snapshot, NEW p, PatchTyped(p),
           LET w == Updated(c, c, p) IN
              /\ w.status = "REJECTED"
                 \/ (w.status = c.status /\ c.status \notin {"WAITLIST_HR", "ACCEPTED"})
              /\ StepFits(w)
    PROVE  Admits(c, p)
<1> DEFINE w == Updated(c, c, p)
           j == Judged(c, Normalized(c, p))
<1>1. /\ w \in Snapshot /\ (w.discoverySlotId => c.discoverySlotId)
      /\ (w.trainingSlotId => c.trainingSlotId) /\ (w.materialsSent => c.materialsSent)
  BY UpdatedRow
<1>2. /\ j.status = w.status /\ j.currentStep = w.currentStep /\ j.materialsSent = w.materialsSent
      /\ j.discoverySlotId = w.discoverySlotId /\ j.trainingSlotId = w.trainingSlotId
  BY JudgedRow
<1>3. /\ w.status = "REJECTED"
         \/ (w.status = c.status /\ c.status \notin {"WAITLIST_HR", "ACCEPTED"})
      /\ StepFits(w)
  OBVIOUS
<1> HIDE DEF w, j
<1>4. c.status \in Status /\ Sources["REJECTED"] = Status
  BY SourcesOf DEF Snapshot
<1>5. StepFits(j) /\ AllowsTransition(c, j.status)
  BY <1>2, <1>3, <1>4 DEF StepFits, AllowsTransition
<1>6. ~ GrantsMaterials(c, j)
  BY <1>1, <1>2 DEF GrantsMaterials
<1>7. InMentorTrack(j) => InMentorTrack(c)
  BY <1>1, <1>2, <1>3 DEF InMentorTrack, TrainingTrack, FirstShiftTrack
<1>8. ~ EntersMentorFlow(c, j)
  BY <1>2, <1>3, <1>6, <1>7 DEF EntersMentorFlow
<1>9. Valid(c, j)
  BY <1>2, <1>3, <1>5, <1>6, <1>8 DEF Valid
<1> QED
  BY <1>9 DEF Admits, j

\* The slot is taken off the row of a booked or interviewed candidate.
LEMMA UnlinkAdmitted ==
    ASSUME NEW c \in Snapshot, Linked(c)
    PROVE  /\ Admits(c, Unlink) /\ Updated(c, c, Unlink) \in Snapshot
           /\ Updated(c, c, Unlink).status = c.status
           /\ Updated(c, c, Unlink).interviewSlotId = Null
<1> DEFINE w == Updated(c, c, Unlink)
<1>1. PatchTyped(Unlink) /\ DOMAIN Unlink = {"currentStep", "interviewSlotId"} /\ Unlink["currentStep"] = "INTERVIEW"
  BY DEF Unlink, PatchTyped, Step
<1>2. /\ w \in Snapshot /\ w.status = c.status /\ w.interviewSlotId = Null
  BY <1>1, UpdatedRow DEF Field
<1>3. w.currentStep = "INTERVIEW"
  <2> DEFINE n == Normalized(c, Unlink)
  <2>1. "currentStep" \in DOMAIN n /\ n["currentStep"] = "INTERVIEW"
    BY <1>1, NormalizedOf
  <2> HIDE DEF n
  <2>2. w = [f \in Columns |-> IF f \in DOMAIN n THEN n[f] ELSE c[f]]
    BY RowColumns DEF Updated, Written, Field, n
  <2> QED
    BY <2>1, <2>2 DEF Columns
<1>4. c.status \in {"INTERVIEW_SCHEDULED", "INTERVIEW_COMPLETED"}
  BY DEF Linked
<1> HIDE DEF w
<1>5. StepFits(w)
  BY <1>2, <1>3, <1>4 DEF StepFits, RequiredStep, InterviewTrack, TrainingTrack, FirstShiftTrack
<1>6. Admits(c, Unlink)
  BY <1>1, <1>2, <1>4, <1>5, KeepsTrack DEF w
<1> QED
  BY <1>2, <1>6 DEF w

\* Whatever her row says, she can be turned away.
LEMMA RejectionAdmitted ==
    ASSUME NEW c \in Snapshot, NEW p, PatchTyped(p), "status" \in DOMAIN p, p["status"] = "REJECTED"
    PROVE  Admits(c, p) /\ Updated(c, c, p).status = "REJECTED"
<1> DEFINE w == Updated(c, c, p)
<1>1. w.status = "REJECTED"
  BY UpdatedRow DEF Field
<1> HIDE DEF w
<1>2. StepFits(w)
  BY <1>1 DEF StepFits, RequiredStep, InterviewTrack, TrainingTrack, FirstShiftTrack
<1> QED
  BY <1>1, <1>2, KeepsTrack DEF w


---------------------------------------------------------------------------
(* The turn is kept.                                                       *)

\* Who does not run has read nothing.
LEMMA OthersRest ==
    ASSUME LocalsOK, OneAtATime, NEW a \in Actors, Running(a)
    PROVE  \A b \in Actors \ {a} : run[b].doing = Null /\ run[b].read = Null
BY DEF OneAtATime, LocalsOK, LocalOK, Running

LEMMA TurnLeaves ==
    ASSUME LocalsOK, OneAtATime, NEW a \in Actors, Running(a),
           NEW t, NEW w, Leaves(a, t, w), scene' = scene, Shape(scene, t, cand', web')
    PROVE  Turn'
<1>1. run' = [b \in Actors |-> IF b = a THEN [doing |-> run[a].doing, todo |-> t, read |-> Null, result |-> w]
                                        ELSE run[b]]
  BY DEF Leaves, LocalsOK
<1>2. /\ run'[a].doing = run[a].doing /\ run'[a].todo = t /\ run'[a].read = Null
      /\ \A b \in Actors \ {a} : run'[b].doing = Null /\ run'[b].read = Null
  BY <1>1, OthersRest
<1>3. OneAtATime' /\ ReadsAreFresh' /\ ~ Quiet'
  BY <1>2 DEF OneAtATime, ReadsAreFresh, Quiet, Running
<1>4. \A b \in Actors : run'[b].doing # Null => Shape(scene, run'[b].todo, cand', web')
  BY <1>2
<1> QED
  BY <1>3, <1>4 DEF Turn, Running

LEMMA TurnRead ==
    ASSUME LocalsOK, Turn, NEW a \in Actors, Running(a), OnlyRun, run' = [run EXCEPT ![a].read = cand],
           run[a].todo # << >>, Call(a).op \in {"update", "book"},
           Call(a).op = "update" => Admits(cand, Call(a).patches[1]),
           Call(a).op = "book" =>
              /\ cand.status # "REJECTED"
              /\ cand.hrDecision \notin {"AGE_LIMIT", "REJECTED_SYSTEM_UNDERAGE"}
              /\ Admits(cand, Status1("INTERVIEW_SCHEDULED"))
    PROVE  Turn'
<1>1. run' = [run EXCEPT ![a] = [doing |-> run[a].doing, todo |-> run[a].todo,
                                 read |-> cand, result |-> run[a].result]]
  BY ReadIs
<1>2. run' = [b \in Actors |-> IF b = a THEN [doing |-> run[a].doing, todo |-> run[a].todo,
                                              read |-> cand, result |-> run[a].result] ELSE run[b]]
  BY <1>1 DEF LocalsOK
<1>3. /\ run'[a].doing = run[a].doing /\ run'[a].todo = run[a].todo /\ run'[a].read = cand
      /\ \A b \in Actors \ {a} : run'[b].doing = Null /\ run'[b].read = Null
  BY <1>2, OthersRest DEF Turn
<1>4. cand' = cand /\ web' = web /\ scene' = scene
  BY DEF OnlyRun
<1>5. OneAtATime' /\ ~ Quiet'
  BY <1>3 DEF OneAtATime, Quiet, Running
<1>6. ReadsAreFresh'
  BY <1>3, <1>4 DEF ReadsAreFresh, Call
<1>7. \A b \in Actors : run'[b].doing # Null => Shape(scene, run'[b].todo, cand, web)
  BY <1>3 DEF Turn, Running
<1> QED
  BY <1>4, <1>5, <1>6, <1>7 DEF Turn, Running

LEMMA TurnTodo ==
    ASSUME LocalsOK, Turn, NEW a \in Actors, Running(a), run[a].read = Null, NEW t,
           run' = [run EXCEPT ![a].todo = t], scene' = scene, Shape(scene, t, cand', web')
    PROVE  Turn'
<1>1. run' = [run EXCEPT ![a] = [doing |-> run[a].doing, todo |-> t,
                                 read |-> run[a].read, result |-> run[a].result]]
  BY TodoIs
<1>2. Leaves(a, t, run[a].result)
  BY <1>1 DEF Leaves
<1> QED
  BY <1>2, TurnLeaves DEF Turn

\* A handler begins when none runs, and ends when nothing is left to do.
LEMMA TurnBegins ==
    ASSUME LocalsOK, Turn, Quiet, NEW a \in Actors, NEW d, NEW t, Begun(a, d, t),
           scene' = scene, cand' = cand, web' = web, Shape(scene, t, cand, web)
    PROVE  Turn'
<1>1. run' = [b \in Actors |-> IF b = a THEN [doing |-> d, todo |-> t, read |-> Null, result |-> "ok"]
                                        ELSE run[b]]
  BY DEF Begun, LocalsOK
<1>2. /\ run'[a].doing = d /\ run'[a].todo = t /\ run'[a].read = Null
      /\ \A b \in Actors \ {a} : run'[b].doing = Null /\ run'[b].read = Null
  BY <1>1 DEF Quiet, LocalsOK, LocalOK, Running
<1>3. OneAtATime' /\ ReadsAreFresh'
  BY <1>2 DEF OneAtATime, ReadsAreFresh, Running
<1>4. \A b \in Actors : run'[b].doing # Null => Shape(scene, run'[b].todo, cand, web)
  BY <1>2
<1>5. Agreed(scene, cand, web)
  BY DEF Turn
<1> QED
  BY <1>3, <1>4, <1>5 DEF Turn, Running

LEMMA DoneAgreed ==
    ASSUME NEW s, NEW c, NEW w, Shape(s, << >>, c, w)
    PROVE  Agreed(s, c, w)
<1>1. \A x, y, z : <<x>> # << >> /\ <<x, y>> # << >> /\ <<x, y, z>> # << >>
  OBVIOUS
<1> QED
  BY <1>1 DEF Shape, Tame, Archiving, Opening, ClosingTraining, Judging, Releasing, Cancelling, Unlinking, Freeing,
              Restoring, Taking, Emptying, Booking

LEMMA TurnEnds ==
    ASSUME LocalsOK, Turn, NEW a \in Actors, Ended(a), Resting(a),
           scene' = scene, cand' = cand, web' = web
    PROVE  Turn'
<1>1. run' = [b \in Actors |-> IF b = a THEN Idle ELSE run[b]]
  BY DEF Resting, LocalsOK
<1>2. \A b \in Actors : run'[b].doing = Null /\ run'[b].read = Null
  BY <1>1, OthersRest DEF Turn, Ended, Idle
<1>3. OneAtATime' /\ ReadsAreFresh'
  BY <1>2 DEF OneAtATime, ReadsAreFresh, Running
<1>4. Agreed(scene, cand, web)
  BY DoneAgreed DEF Turn, Ended
<1> QED
  BY <1>2, <1>3, <1>4 DEF Turn, Running

LEMMA TurnStill ==
    ASSUME Turn, run' = run, scene' = scene, cand' = cand, web' = web
    PROVE  Turn'
BY DEF Turn, OneAtATime, ReadsAreFresh, Quiet, Running, Call


\* The call at the head tells which shape it is.
LEMMA HeadTells ==
    ASSUME NEW s, NEW t, NEW c, NEW w, Shape(s, t, c, w), t # << >>
    PROVE  LET op == t[1].op IN
           /\ op \in {"remind", "mark", "move", "refuse"} => Tame(s, t, c, w)
           /\ op = "update" => \/ Tame(s, t, c, w) \/ ClosingTraining(s, t, c, w) \/ Unlinking(s, t, c, w)
                               \/ Opening(s, t, c, w) /\ t[1] = SetUp
           /\ op = "send" => \/ Tame(s, t, c, w) /\ t[1].letter # "invitation"
                             \/ Opening(s, t, c, w) /\ Invites(t[1]) /\ Admits(c, Invited)
           /\ op = "check" => Judging(s, t, c, w)
           /\ op = "release" => Releasing(s, t, c)
           /\ op = "cancel" => Cancelling(s, t, c, w)
           /\ op = "free" => Freeing(s, t, c, w) \/ Emptying(t, c, w)
           /\ op = "archive" => Archiving(s, t)
           /\ op = "restore" => Restoring(t, c)
           /\ op = "take" => Taking(t, c)
           /\ op = "book" => Booking(t, c, w)
<1> DEFINE op == t[1].op
<1>1. Tame(s, t, c, w) => Loose(t[1])
  BY TamerTail, PlainIsLoose DEF Tame
<1>2. Archiving(s, t) => op = "archive"
  BY DEF Archiving, Archive
<1>3. Opening(s, t, c, w) => (t[1] = SetUp /\ op = "update") \/ (Invites(t[1]) /\ op = "send" /\ Admits(c, Invited))
  BY DEF Opening, SetUp, Update, Invites
<1>4. ClosingTraining(s, t, c, w) => op = "update"
  BY DEF ClosingTraining, CloseTraining, Update
<1>5. Judging(s, t, c, w) => op = "check"
  BY DEF Judging, Check
<1>6. (Releasing(s, t, c) => op = "release") /\ (Cancelling(s, t, c, w) => op = "cancel")
  BY DEF Releasing, Release, Cancelling
<1>7. (Unlinking(s, t, c, w) => op = "update") /\ (Freeing(s, t, c, w) => op = "free")
  BY DEF Unlinking, Update, Freeing
<1>8. Restoring(t, c) => op = "restore"
  BY DEF Restoring, Restore
<1>9. Taking(t, c) => op = "take"
  BY DEF Taking, TakeWebSlot
<1>10. (Booking(t, c, w) => op = "book") /\ (Emptying(t, c, w) => op = "free")
  BY DEF Booking, Book, Emptying, EmptyMirror, Free
<1>11. Loose(t[1]) => /\ op \in {"update", "send", "remind", "mark", "move", "refuse"}
                      /\ op = "send" => t[1].letter # "invitation"
  BY DEF Loose, Invites
<1> HIDE DEF op
<1>12. \/ Tame(s, t, c, w) \/ Archiving(s, t) \/ Opening(s, t, c, w)
       \/ ClosingTraining(s, t, c, w) \/ Judging(s, t, c, w)
       \/ Releasing(s, t, c) \/ Cancelling(s, t, c, w) \/ Unlinking(s, t, c, w)
       \/ Freeing(s, t, c, w) \/ Restoring(t, c)
       \/ Taking(t, c) \/ Emptying(t, c, w) \/ Booking(t, c, w)
  BY DEF Shape
<1>13. op \in {"remind", "mark", "move", "refuse"} => Tame(s, t, c, w)
  BY <1>2, <1>3, <1>4, <1>5, <1>6, <1>7, <1>8, <1>9, <1>10, <1>12
<1>14. op = "update" => \/ Tame(s, t, c, w) \/ ClosingTraining(s, t, c, w) \/ Unlinking(s, t, c, w)
                        \/ Opening(s, t, c, w) /\ t[1] = SetUp
  BY <1>2, <1>3, <1>5, <1>6, <1>7, <1>8, <1>9, <1>10, <1>12
<1>15. op = "send" => \/ Tame(s, t, c, w) /\ t[1].letter # "invitation"
                      \/ Opening(s, t, c, w) /\ Invites(t[1]) /\ Admits(c, Invited)
  BY <1>1, <1>2, <1>3, <1>4, <1>5, <1>6, <1>7, <1>8, <1>9, <1>10, <1>11, <1>12
<1>16. op = "check" => Judging(s, t, c, w)
  BY <1>1, <1>2, <1>3, <1>4, <1>6, <1>7, <1>8, <1>9, <1>10, <1>11, <1>12
<1>17. (op = "release" => Releasing(s, t, c)) /\ (op = "cancel" => Cancelling(s, t, c, w))
  BY <1>1, <1>2, <1>3, <1>4, <1>5, <1>6, <1>7, <1>8, <1>9, <1>10, <1>11, <1>12
<1>18. /\ op = "free" => Freeing(s, t, c, w) \/ Emptying(t, c, w)
       /\ op = "archive" => Archiving(s, t)
  BY <1>1, <1>2, <1>3, <1>4, <1>5, <1>6, <1>7, <1>8, <1>9, <1>10, <1>11, <1>12
<1>19. (op = "restore" => Restoring(t, c)) /\ (op = "take" => Taking(t, c)) /\ (op = "book" => Booking(t, c, w))
  BY <1>1, <1>2, <1>3, <1>4, <1>5, <1>6, <1>7, <1>8, <1>9, <1>10, <1>11, <1>12
<1> QED
  BY <1>13, <1>14, <1>15, <1>16, <1>17, <1>18, <1>19 DEF op

\* A handler that fails has nothing left; a call that changes neither her row nor
\* her slots leaves the rest.
LEMMA EmptyShape ==
    ASSUME NEW s, NEW c, NEW w, Agreed(s, c, w)
    PROVE  Shape(s, << >>, c, w)
BY PlainShort DEF Shape, Tame

LEMMA TailShape ==
    ASSUME NEW s, NEW t, NEW c, NEW w, t # << >>, Tame(s, t, c, w)
    PROVE  Shape(s, Tail(t), c, w) /\ Agreed(s, c, w)
BY TamerTail DEF Shape, Tame

LEMMA GoesTail ==
    ASSUME LocalsOK, NEW a \in Actors, run[a].todo # << >>, Goes(a)
    PROVE  Leaves(a, Tail(run[a].todo), run[a].result)
<1>1. IsList(Tail(run[a].todo))
  BY TailList DEF LocalsOK, LocalOK, AllFine
<1>2. << >> \o Tail(run[a].todo) = Tail(run[a].todo)
  BY <1>1, ConcatEmptySeq DEF IsList
<1> QED
  BY <1>2 DEF Goes, Went


\* The calls that change neither her row nor the web app's slot.
LEMMA QuietCallsTurn ==
    ASSUME Base, Turn, NEW a \in Actors,
           SendFails(a) \/ RefuseCommand(a) \/ Deliver(a) \/ RemindSlot(a) \/ MarkSent(a)
           \/ MoveLocation(a) \/ CheckPatch(a)
    PROVE  Turn'
<1> DEFINE t == run[a].todo
           S(u) == Shape(scene, u, cand, web)
<1>1. /\ scene' = scene /\ cand' = cand /\ web' = web
      /\ AtCall(a, t[1].op) /\ t[1].op \in {"send", "refuse", "remind", "mark", "move", "check"}
      /\ t[1].op \in {"send", "refuse", "remind", "mark", "move"} => Goes(a) \/ \E w : Failed(a, w)
      /\ t[1].op = "check" => (Admits(cand, t[1].patch) /\ Goes(a)) \/ \E w : Failed(a, w)
  BY DEF SendFails, RefuseCommand, Deliver, RemindSlot, MarkSent, MoveLocation, CheckPatch, AtCall, Call
<1>2. Running(a) /\ t # << >> /\ S(t) /\ LocalsOK /\ OneAtATime
  BY <1>1 DEF AtCall, Turn, Base
<1> HIDE DEF t
<1>3. /\ t[1].op \in {"send", "refuse", "remind", "mark", "move"} =>
            \/ Tame(scene, t, cand, web)
            \/ Opening(scene, t, cand, web)
      /\ t[1].op = "check" => Judging(scene, t, cand, web)
  BY <1>2, HeadTells
<1>4. Agreed(scene, cand, web)
  BY <1>1, <1>3 DEF Tame, Opening, Judging
<1>5. CASE \E w : Failed(a, w)
  BY <1>1, <1>2, <1>4, <1>5, EmptyShape, TurnLeaves DEF Failed
<1>6. CASE Goes(a) /\ (t[1].op = "check" => Admits(cand, t[1].patch))
  <2>1. Leaves(a, Tail(t), run[a].result)
    BY <1>2, <1>6, GoesTail DEF t
  <2>2. S(Tail(t))
    <3>1. CASE Tame(scene, t, cand, web)
      BY <1>2, <3>1, TailShape
    <3>2. CASE Opening(scene, t, cand, web)
      BY <3>2 DEF Opening, Shape, Tame
    <3>3. CASE t[1].op = "check"
      <4>1. Judging(scene, t, cand, web) /\ Admits(cand, t[1].patch)
        BY <1>3, <1>6, <3>3
      <4>2. t[1].patch = Invited
        BY <4>1 DEF Judging, Check
      <4>3. Opening(scene, Tail(t), cand, web)
        BY <4>1, <4>2 DEF Judging, Opening
      <4> QED
        BY <4>3 DEF Shape
    <3> QED
      BY <1>1, <1>3, <3>1, <3>2, <3>3
  <2> QED
    BY <1>1, <1>2, <2>1, <2>2, TurnLeaves
<1> QED
  BY <1>1, <1>5, <1>6

\* A plain update leaves the tables as they fit.
LEMMA PlainWrites ==
    ASSUME NEW c \in Snapshot, NEW p, PatchOK(p), KeepsSlot(p)
    PROVE  LET u == Updated(c, c, p) IN
           /\ u \in Snapshot /\ u.interviewSlotId = c.interviewSlotId
           /\ u.status = Field(p, "status", c.status)
           /\ \A s, w : Agreed(s, c, w) => Agreed(s, u, w)
<1> DEFINE u == Updated(c, c, p)
<1>1. u \in Snapshot /\ u.interviewSlotId = c.interviewSlotId /\ u.status = Field(p, "status", c.status)
  BY UpdatedRow DEF PatchOK, KeepsSlot
<1>2. u.status = "INTERVIEW_SCHEDULED" => c.status = "INTERVIEW_SCHEDULED"
  BY <1>1 DEF Field, PatchOK, Writable
<1> HIDE DEF u
<1>3. \A s, w : Agreed(s, c, w) => Agreed(s, u, w)
  BY <1>1, <1>2 DEF Agreed, Agree
<1> QED
  BY <1>1, <1>3 DEF u

\* The updates that a shape begins with.
LEMMA OpeningUpdates ==
    /\ \A x \in {SetUp, CloseTraining} :
          /\ Len(x.patches) = 1 /\ x.must = TRUE
          /\ KeepsSlot(x.patches[1]) /\ PatchOK(x.patches[1])
    /\ CloseTraining.patches[1]["status"] = "TRAINING_COMPLETED"
    /\ "status" \in DOMAIN CloseTraining.patches[1]
    /\ Update(Unlink).patches = <<Unlink>> /\ Len(<<Unlink>>) = 1
    /\ Update(Unlink).patches[1] = Unlink /\ Update(Unlink).must = TRUE
<1>1. \A p : Update(p).patches = <<p>> /\ Update(p).patches[1] = p /\ Update(p).must = TRUE /\ Len(<<p>>) = 1
  BY DEF Update
<1>2. \A s : "interviewSlotId" \notin DOMAIN Status1(s) /\ Status1(s)["status"] = s /\ "status" \in DOMAIN Status1(s)
  BY DEF Status1
<1>3. PatchOK(Status1("STAGING_SETUP")) /\ PatchOK(Status1("TRAINING_COMPLETED"))
  BY PlainPatchesOK DEF Writable
<1>4. KeepsSlot(Status1("STAGING_SETUP")) /\ KeepsSlot(Status1("TRAINING_COMPLETED"))
  BY <1>2 DEF KeepsSlot
<1> DEFINE OK(x) == /\ Len(x.patches) = 1 /\ x.must = TRUE
                    /\ KeepsSlot(x.patches[1]) /\ PatchOK(x.patches[1])
<1>5. OK(SetUp) /\ OK(CloseTraining)
  BY <1>1, <1>3, <1>4 DEF SetUp, CloseTraining
<1>6. /\ CloseTraining.patches[1]["status"] = "TRAINING_COMPLETED"
      /\ "status" \in DOMAIN CloseTraining.patches[1]
  BY <1>1, <1>2 DEF CloseTraining
<1> QED
  BY <1>1, <1>5, <1>6

LEMMA ValidateUpdateTurn ==
    ASSUME Base, Turn, NEW a \in Actors, ValidateUpdate(a)
    PROVE  Turn'
<1> DEFINE t == run[a].todo
           p == Call(a).patches[1]
<1>1. OnlyRun /\ AtCall(a, "update")
  BY DEF ValidateUpdate, OnlyRun
<1>2. /\ scene' = scene /\ cand' = cand /\ web' = web /\ Running(a) /\ t # << >> /\ Call(a) = t[1]
      /\ t[1].op = "update" /\ Shape(scene, t, cand, web) /\ LocalsOK /\ OneAtATime /\ cand \in Snapshot
  BY <1>1 DEF AtCall, OnlyRun, Turn, Base, Call, Tables, TypeOK, Row
<1>3. \/ Admits(cand, p) /\ run' = [run EXCEPT ![a].read = cand]
      \/ ~ Admits(cand, p) /\ Call(a).must /\ Failed(a, "failed")
      \/ ~ Admits(cand, p) /\ ~ Call(a).must /\ Goes(a)
  BY DEF ValidateUpdate
<1>4. CASE Admits(cand, p) /\ run' = [run EXCEPT ![a].read = cand]
  BY <1>1, <1>2, <1>4, TurnRead
<1> HIDE DEF t
<1>5. CASE ~ Admits(cand, p)
  <2>1. \/ Tame(scene, t, cand, web)
        \/ ClosingTraining(scene, t, cand, web)
        \/ Unlinking(scene, t, cand, web)
        \/ Opening(scene, t, cand, web) /\ t[1] = SetUp
    BY <1>2, HeadTells
  <2>2. ~ Unlinking(scene, t, cand, web)
    BY <1>2, <1>5, UnlinkAdmitted, OpeningUpdates DEF Unlinking
  <2>3. Agreed(scene, cand, web)
    BY <2>1, <2>2 DEF Tame, ClosingTraining, Opening
  <2>4. ASSUME ~ Call(a).must PROVE Tame(scene, t, cand, web)
    BY <1>2, <2>1, <2>2, <2>4, OpeningUpdates DEF ClosingTraining
  <2>5. CASE Failed(a, "failed")
    BY <1>2, <2>3, <2>5, EmptyShape, TurnLeaves DEF Failed
  <2>6. CASE ~ Call(a).must /\ Goes(a)
    BY <1>2, <2>4, <2>6, GoesTail, TailShape, TurnLeaves DEF t
  <2> QED
    BY <1>3, <1>5, <2>5, <2>6
<1> QED
  BY <1>3, <1>4, <1>5

LEMMA WriteUpdateTurn ==
    ASSUME Base, Turn, NEW a \in Actors, WriteUpdate(a)
    PROVE  Turn'
<1> DEFINE t == run[a].todo
           ps == Call(a).patches
           p == ps[1]
           u == Updated(cand, cand, p)
<1>1. /\ scene' = scene /\ web' = web /\ AtCall(a, "update") /\ run[a].read # Null
  BY DEF WriteUpdate
<1>2. /\ Running(a) /\ t # << >> /\ Call(a) = t[1]
      /\ t[1].op = "update" /\ Shape(scene, t, cand, web) /\ LocalsOK /\ OneAtATime /\ cand \in Snapshot
      /\ run[a].read = cand /\ Fine(a, t[1]) /\ Len(ps) \in {1, 2} /\ PatchOK(p)
  BY <1>1, AtHead DEF AtCall, Turn, Base, Call, Tables, TypeOK, Row, ReadsAreFresh, Fine
<1>3. \/ Len(ps) = 1 /\ cand' = u /\ Goes(a)
      \/ Len(ps) = 2 /\ cand' = Updated(u, u, ps[2]) /\ Goes(a)
      \/ Len(ps) = 2 /\ cand' = cand /\ Failed(a, "failed")
  BY <1>1, <1>2 DEF WriteUpdate
<1>4. cand' \in Snapshot /\ cand'.interviewSlotId \in {Null, cand.interviewSlotId}
  BY WriteUpdateRow
<1>5. /\ AllPlain(t) => Len(ps) = 1 /\ KeepsSlot(p)
  BY <1>2, TamerTail DEF Plain
<1>6. \/ Tame(scene, t, cand, web) \/ ClosingTraining(scene, t, cand, web) \/ Unlinking(scene, t, cand, web)
      \/ Opening(scene, t, cand, web) /\ t[1] = SetUp
  BY <1>2, HeadTells
<1>7. KeepsSlot(p) => /\ u.interviewSlotId = cand.interviewSlotId /\ u.status = Field(p, "status", cand.status)
                      /\ Agreed(scene, cand, web) => Agreed(scene, u, web)
  BY <1>2, PlainWrites
<1>8. Goes(a) => Leaves(a, Tail(t), run[a].result)
  BY <1>2, GoesTail
<1> HIDE DEF t, ps, p, u
<1> SUFFICES (Goes(a) /\ Shape(scene, Tail(t), cand', web)) \/ (Failed(a, "failed") /\ Shape(scene, << >>, cand', web))
  BY <1>1, <1>2, <1>8, TurnLeaves DEF Failed
<1>9. CASE Tame(scene, t, cand, web) /\ AllPlain(t)
  <2>1. AllPlain(Tail(t))
    BY <1>2, <1>9, TamerTail
  <2> QED
    BY <1>3, <1>5, <1>7, <1>9, <2>1 DEF Tame, Shape
<1>10. CASE Tame(scene, t, cand, web) /\ cand.interviewSlotId = Null /\ AllLoose(t)
  <2>1. AllLoose(Tail(t)) /\ cand'.interviewSlotId = Null /\ Agreed(scene, cand, web)
    BY <1>2, <1>4, <1>10, TamerTail DEF Tame
  <2>2. Agreed(scene, cand', web)
    BY <1>10, <2>1 DEF Agreed, Agree
  <2>3. Shape(scene, Tail(t), cand', web) /\ Shape(scene, << >>, cand', web)
    BY <2>1, <2>2, EmptyShape DEF Tame, Shape
  <2> QED
    BY <1>3, <2>3
<1>11. CASE Opening(scene, t, cand, web) /\ t[1] = SetUp
  BY <1>2, <1>3, <1>7, <1>11, OpeningUpdates DEF Opening, Tame, Shape, ps, p
<1>12. CASE ClosingTraining(scene, t, cand, web)
  <2>1. t[1] = CloseTraining /\ KeepsSlot(p) /\ Field(p, "status", cand.status) = "TRAINING_COMPLETED" /\ Len(ps) = 1
    BY <1>2, <1>12, OpeningUpdates DEF ClosingTraining, ps, p, Field
  <2>2. cand' = u /\ Goes(a) /\ cand'.status = "TRAINING_COMPLETED" /\ Agreed(scene, u, web)
    BY <1>3, <1>7, <1>12, <2>1 DEF ClosingTraining
  <2>3. Opening(scene, Tail(t), cand', web)
    BY <1>12, <2>2 DEF ClosingTraining, Opening
  <2> QED
    BY <2>2, <2>3 DEF Shape
<1>13. CASE Unlinking(scene, t, cand, web)
  <2>1. ps = <<Unlink>> /\ Len(ps) = 1 /\ p = Unlink /\ Linked(cand) /\ Emptied(scene, web)
    BY <1>2, <1>13, OpeningUpdates DEF Unlinking, ps, p
  <2>2. cand' = u /\ Goes(a) /\ cand'.interviewSlotId = Null
    BY <1>2, <1>3, <2>1, UnlinkAdmitted DEF u
  <2>3. Freeing(scene, Tail(t), cand', web)
    BY <1>13, <2>1, <2>2 DEF Unlinking, Freeing
  <2> QED
    BY <2>2, <2>3 DEF Shape
<1> QED
  BY <1>6, <1>9, <1>10, <1>11, <1>12, <1>13 DEF Tame


LEMMA UnsteadyShapes ==
    ASSUME NEW s, ~ Steady(s), NEW c, NEW w
    PROVE  Agreed(s, c, w) /\ Shape(s, << >>, c, w) /\ Shape(s, <<Archive>>, c, w)
BY EmptyShape DEF Agreed, Shape, Archiving

LEMMA BlockedTurn ==
    ASSUME Base, Turn, NEW a \in Actors, SendIsBlocked(a) \/ ArchiveBlocked(a)
    PROVE  Turn'
<1> DEFINE t == run[a].todo
<1>1. /\ scene' = scene /\ web' = web /\ AtCall(a, t[1].op) /\ t[1].op \in {"send", "archive"}
      /\ t[1].op = "send" => SendIsBlocked(a) /\ cand' = cand
      /\ t[1].op = "archive" => ArchiveBlocked(a)
  BY DEF SendIsBlocked, ArchiveBlocked, AtCall, Call
<1>2. /\ Running(a) /\ t # << >> /\ Call(a) = t[1] /\ Shape(scene, t, cand, web)
      /\ LocalsOK /\ OneAtATime /\ ReadsAreFresh
  BY <1>1 DEF AtCall, Turn, Base, Call
<1>3. Goes(a) => Leaves(a, Tail(t), run[a].result)
  BY <1>2, GoesTail
<1>4. CASE t[1].op = "send"
  <2> DEFINE p == With([status |-> "BLOCKER", notificationSent |-> FALSE, isWaitlisted |-> FALSE], Uninvited)
             how == Call(a).onBlocked
  <2>1. ~ Steady(scene)
    BY <1>1, <1>4 DEF SendIsBlocked, Steady
  <2>2. run[a].read = Null
    BY <1>2, <1>4 DEF ReadsAreFresh
  <2>3. \/ run' = [run EXCEPT ![a].todo = <<Archive>>]
        \/ run' = [run EXCEPT ![a].todo = <<Attempt(p), Refuse("failed")>>]
        \/ Failed(a, "failed") \/ Goes(a)
    <3>1. how \in {"archive", "bar", "throw", "ignore"}
      BY <1>1, <1>2, AtHead, <1>4 DEF Fine
    <3> QED
      BY <1>1, <1>4, <3>1 DEF SendIsBlocked
  <2>4. Shape(scene, << >>, cand, web) /\ Shape(scene, <<Archive>>, cand, web) /\ Agreed(scene, cand, web)
    BY <2>1, UnsteadyShapes
  <2>5. KeepsSlot(p) /\ ~ ("status" \in DOMAIN p /\ p["status"] = "STAGING_SETUP")
    <3> DEFINE q == [status |-> "BLOCKER", notificationSent |-> FALSE, isWaitlisted |-> FALSE]
    <3>1. /\ PatchOK(q) /\ "interviewSlotId" \notin DOMAIN q /\ "status" \in DOMAIN q /\ q["status"] = "BLOCKER"
          /\ "interviewSlotId" \notin DOMAIN Uninvited
      BY PlainPatchesOK DEF Uninvited
    <3> HIDE DEF q
    <3>2. /\ \A f : f \in DOMAIN With(q, Uninvited) <=> f \in DOMAIN q \/ f \in DOMAIN Uninvited
          /\ \A f \in DOMAIN q : With(q, Uninvited)[f] = q[f]
      BY <3>1, OtherColumns, WithOK
    <3>3. "interviewSlotId" \notin DOMAIN With(q, Uninvited) /\ With(q, Uninvited)["status"] = "BLOCKER"
      BY <3>1, <3>2
    <3> QED
      BY <3>3 DEF KeepsSlot, q
  <2> HIDE DEF p, how
  <2>6. Shape(scene, <<Attempt(p), Refuse("failed")>>, cand, web)
    <3>1. Attempt(p).patches = <<p>> /\ <<p>>[1] = p /\ Len(<<p>>) = 1 /\ Attempt(p).op = "update"
      BY DEF Attempt
    <3>2. Plain(Attempt(p)) /\ Plain(Refuse("failed"))
      BY <2>5, <3>1 DEF Plain, Loose, Invites, SetsUp, Refuse
    <3>3. AllPlain(<<Attempt(p), Refuse("failed")>>)
      BY <3>2, PlainShort
    <3> QED
      BY <2>4, <3>3 DEF Shape, Tame
  <2>7. Shape(scene, Tail(t), cand, web)
    <3>1. \/ Tame(scene, t, cand, web) \/ Opening(scene, t, cand, web)
      BY <1>2, <1>4, HeadTells
    <3> QED
      BY <1>2, <3>1, TailShape DEF Opening, Shape, Tame
  <2>8. CASE Failed(a, "failed")
    BY <1>1, <1>2, <1>4, <2>4, <2>8, TurnLeaves DEF Failed
  <2>9. CASE Goes(a)
    BY <1>1, <1>2, <1>3, <1>4, <2>7, <2>9, TurnLeaves
  <2>10. CASE run' = [run EXCEPT ![a].todo = <<Archive>>]
    BY <1>1, <1>2, <1>4, <2>2, <2>4, <2>10, TurnTodo
  <2>11. CASE run' = [run EXCEPT ![a].todo = <<Attempt(p), Refuse("failed")>>]
    BY <1>1, <1>2, <1>4, <2>2, <2>6, <2>11, TurnTodo
  <2> QED
    BY <2>3, <2>8, <2>9, <2>10, <2>11
<1>5. CASE t[1].op = "archive"
  <2>1. Archiving(scene, t)
    BY <1>2, <1>5, HeadTells
  <2>2. ~ Steady(scene) /\ Tail(t) = << >>
    BY <2>1 DEF Archiving
  <2>3. Shape(scene, Tail(t), cand', web)
    BY <2>2, UnsteadyShapes
  <2>4. Goes(a)
    BY <1>1, <1>5 DEF ArchiveBlocked
  <2> QED
    BY <1>1, <1>2, <1>3, <2>3, <2>4, TurnLeaves
<1> QED
  BY <1>1, <1>4, <1>5

\* Her slot is let go of, in the web app and then in the bot's tables.
LEMMA LettingGoTurn ==
    ASSUME Base, Turn, NEW a \in Actors,
           ReleaseWebSlot(a) \/ CancelSlot(a) \/ FreeSlot(a) \/ RestoreWebSlot(a)
    PROVE  Turn'
<1> DEFINE t == run[a].todo
<1>1. /\ scene' = scene /\ AtCall(a, t[1].op) /\ t[1].op \in {"release", "cancel", "free", "restore"}
      /\ t[1].op = "release" => cand' = cand /\ web' = Null /\ Goes(a)
      /\ t[1].op = "cancel" => CancelSlot(a) /\ cand' = cand /\ web' = web
      /\ t[1].op = "free" => /\ web' = web /\ Goes(a)
                             /\ cand' = IF cand.interviewSlotId = t[1].slot THEN Unbooked(cand) ELSE cand
      /\ t[1].op = "restore" => cand' = cand /\ web' = t[1].slot /\ Goes(a)
  BY DEF ReleaseWebSlot, CancelSlot, FreeSlot, RestoreWebSlot, AtCall, Call
<1>2. /\ Running(a) /\ t # << >> /\ Call(a) = t[1] /\ Shape(scene, t, cand, web)
      /\ LocalsOK /\ OneAtATime /\ Fine(a, t[1]) /\ IsList(t)
  BY <1>1, AtHead DEF AtCall, Turn, Base, Call, LocalsOK, LocalOK, AllFine
<1>3. Goes(a) => Leaves(a, Tail(t), run[a].result)
  BY <1>2, GoesTail
<1>4. CASE t[1].op = "release"
  <2>1. Releasing(scene, t, cand)
    BY <1>2, <1>4, HeadTells
  <2>2. Shape(scene, Tail(t), cand, Null)
    <3>1. CASE cand.interviewSlotId = Null /\ AllLoose(Tail(t))
      BY <3>1 DEF Shape, Tame, Agreed, Agree
    <3>2. CASE Cancelling(scene, Tail(t), cand, Null)
      BY <3>2 DEF Shape
    <3>3. CASE cand.interviewSlotId # Null /\ Tail(t) = <<Restore(cand.interviewSlotId)>>
      BY <3>3 DEF Shape, Restoring
    <3> QED
      BY <2>1, <3>1, <3>2, <3>3 DEF Releasing
  <2> QED
    BY <1>1, <1>2, <1>3, <1>4, <2>2, TurnLeaves
<1>5. CASE t[1].op = "cancel"
  <2> DEFINE s == Call(a).slot
             u == <<Update(Unlink), Free(s)>> \o Tail(t)
  <2>1. Cancelling(scene, t, cand, web)
    BY <1>2, <1>5, HeadTells
  <2>2. cand.interviewSlotId = s /\ CancelSlot(a)
    BY <1>1, <1>2, <1>5, <2>1 DEF Cancelling
  <2>3. Went(a, <<Update(Unlink), Free(s)>>)
    BY <2>2, Zenon DEF CancelSlot, Unlink
  <2>4. Leaves(a, u, run[a].result)
    BY <2>3 DEF Went
  <2>5. IsList(Tail(t))
    BY <1>2, TailList
  <2>6. /\ u # << >> /\ u[1] = Update(Unlink) /\ Tail(u) # << >> /\ Tail(u)[1] = Free(s)
        /\ Tail(Tail(u)) = Tail(t)
    <3> DEFINE rest == Tail(t)
               x == Update(Unlink)
               y == Free(s)
    <3>1. u = <<x, y>> \o rest /\ IsList(rest)
      BY <2>5
    <3> HIDE DEF u, x, y, rest
    <3>2. Opens(u, x, y, rest)
      BY <3>1, PutTwoBefore
    <3> QED
      BY <3>2 DEF x, y, rest, Opens
  <2> HIDE DEF u
  <2>7. Unlinking(scene, u, cand, web)
    <3>1. Linked(cand) /\ Emptied(scene, web) /\ AllLoose(Tail(Tail(u)))
      BY <2>1, <2>6 DEF Cancelling
    <3>2. Tail(u)[1].op = "free"
      BY <2>6 DEF Free
    <3> QED
      BY <2>6, <3>1, <3>2 DEF Unlinking
  <2>8. Shape(scene, u, cand, web)
    BY <2>7 DEF Shape
  <2> QED
    BY <1>1, <1>2, <1>5, <2>4, <2>8, TurnLeaves
<1>6. CASE t[1].op = "free" /\ Freeing(scene, t, cand, web)
  <2>1. Freeing(scene, t, cand, web)
    BY <1>6
  <2>2. cand.interviewSlotId = Null /\ t[1].slot # Null
    BY <1>2, <1>6, <2>1, ConstantsAssumption DEF Freeing, Fine
  <2>3. cand' = cand /\ web' = web /\ Goes(a)
    BY <1>1, <1>6, <2>2
  <2>4. Agreed(scene, cand, web)
    BY <2>1, <2>2 DEF Freeing, Emptied, Agreed, Agree
  <2>5. Shape(scene, Tail(t), cand, web)
    BY <2>1, <2>4 DEF Freeing, Shape, Tame
  <2> QED
    BY <1>1, <1>2, <1>3, <2>3, <2>5, TurnLeaves
<1>7. CASE t[1].op = "restore"
  <2>1. Restoring(t, cand)
    BY <1>2, <1>7, HeadTells
  <2>2. t[1].slot = cand.interviewSlotId /\ Tail(t) = << >>
    BY <2>1 DEF Restoring, Restore
  <2>3. Agreed(scene, cand', web')
    BY <1>1, <1>7, <2>2 DEF Agreed, Agree
  <2>4. Shape(scene, Tail(t), cand', web')
    BY <2>2, <2>3, EmptyShape
  <2> QED
    BY <1>1, <1>2, <1>3, <1>7, <2>4, TurnLeaves
<1>8. CASE t[1].op = "free" /\ Emptying(t, cand, web)
  <2> DEFINE her == cand.interviewSlotId
  <2>1. web \in Slots \ {her} /\ t = <<EmptyMirror(web), Book(web, her)>>
    BY <1>8 DEF Emptying
  <2>2. t[1].slot = web /\ Tail(t) = <<Book(web, her)>>
    BY <2>1 DEF EmptyMirror, Free
  <2>3. cand' = cand /\ web' = web /\ Goes(a)
    BY <1>1, <1>8, <2>1, <2>2
  <2>4. Booking(Tail(t), cand, web)
    BY <2>1, <2>2 DEF Booking
  <2>5. Shape(scene, Tail(t), cand, web)
    BY <2>4 DEF Shape
  <2> QED
    BY <1>1, <1>2, <1>3, <2>3, <2>5, TurnLeaves
<1>9. t[1].op = "free" => Freeing(scene, t, cand, web) \/ Emptying(t, cand, web)
  BY <1>2, HeadTells
<1> QED
  BY <1>1, <1>4, <1>5, <1>6, <1>7, <1>8, <1>9


\* What a booking writes.
LEMMA BookingRow ==
    ASSUME NEW c \in Snapshot, NEW s \in Slots
    PROVE  LET u == [Updated(c, c, Status1("INTERVIEW_SCHEDULED")) EXCEPT !.interviewSlotId = s] IN
           /\ u \in Snapshot /\ u.interviewSlotId = s /\ u.status = "INTERVIEW_SCHEDULED"
           /\ u.hrDecision = c.hrDecision
           /\ (u.discoverySlotId => c.discoverySlotId) /\ (u.trainingSlotId => c.trainingSlotId)
<1> DEFINE p == Status1("INTERVIEW_SCHEDULED")
           v == Updated(c, c, p)
<1>1. PatchTyped(p) /\ Field(p, "status", c.status) = "INTERVIEW_SCHEDULED" /\ Field(p, "hrDecision", c.hrDecision) = c.hrDecision
  BY DEF PatchTyped, Status1, Status, InterviewTrack, Field
<1> HIDE DEF p
<1>2. /\ v \in Snapshot /\ v.status = "INTERVIEW_SCHEDULED" /\ v.hrDecision = c.hrDecision
      /\ (v.discoverySlotId => c.discoverySlotId) /\ (v.trainingSlotId => c.trainingSlotId)
  BY <1>1, UpdatedRow
<1> HIDE DEF v
<1>3. LET u == [v EXCEPT !.interviewSlotId = s] IN
      /\ u \in Snapshot /\ u.interviewSlotId = s /\ u.status = v.status /\ u.hrDecision = v.hrDecision
      /\ u.discoverySlotId = v.discoverySlotId /\ u.trainingSlotId = v.trainingSlotId
  BY <1>2, RowSlot
<1> QED
  BY <1>2, <1>3 DEF v, p

LEMMA TakingHead ==
    ASSUME NEW x, NEW b, NEW t, t = <<TakeWebSlot(x), EmptyMirror(x), Book(x, b)>>
    PROVE  t[1].slot = x /\ Tail(t) = <<EmptyMirror(x), Book(x, b)>>
BY DEF TakeWebSlot

LEMMA BookingTurn ==
    ASSUME Base, Turn, NEW a \in Actors, TakeSlot(a) \/ ValidateBooking(a) \/ WriteBooking(a)
    PROVE  Turn'
<1> DEFINE t == run[a].todo
           her == cand.interviewSlotId
<1>1. scene' = scene /\ AtCall(a, t[1].op) /\ t[1].op \in {"take", "book"}
  BY DEF TakeSlot, ValidateBooking, WriteBooking, AtCall, Call
<1>2. /\ Running(a) /\ t # << >> /\ Call(a) = t[1] /\ Shape(scene, t, cand, web)
      /\ LocalsOK /\ OneAtATime /\ ReadsAreFresh /\ cand \in Snapshot
  BY <1>1 DEF AtCall, Turn, Base, Call, Tables, TypeOK, Row
<1>3. Goes(a) => Leaves(a, Tail(t), run[a].result)
  BY <1>2, GoesTail
<1>4. /\ t[1].op = "take" => Taking(t, cand)
      /\ t[1].op = "book" => Booking(t, cand, web)
  BY <1>2, HeadTells
<1>5. CASE TakeSlot(a)
  <2>1. PICK x \in Slots \ {her} : t = <<TakeWebSlot(x), EmptyMirror(x), Book(x, her)>>
    BY <1>2, <1>4, <1>5 DEF Taking, TakeSlot, AtCall
  <2>2. t[1].slot = x /\ Tail(t) = <<EmptyMirror(x), Book(x, her)>>
    BY <2>1, TakingHead
  <2>3. cand' = cand /\ web' = x /\ Goes(a)
    BY <1>2, <1>5, <2>1, <2>2 DEF TakeSlot
  <2>4. Emptying(Tail(t), cand, x)
    BY <2>1, <2>2 DEF Emptying
  <2>5. Shape(scene, Tail(t), cand', web')
    BY <2>3, <2>4 DEF Shape
  <2> QED
    BY <1>1, <1>2, <1>3, <2>3, <2>5, TurnLeaves
<1>6. ASSUME t[1].op = "book"
      PROVE  web \in Slots \ {her} /\ t[1].slot = web /\ t[1].before = her /\ Tail(t) = << >>
  <2>1. t = <<Book(web, her)>> /\ web \in Slots \ {her}
    BY <1>4, <1>6 DEF Booking
  <2>2. <<Book(web, her)>>[1] = Book(web, her) /\ Tail(<<Book(web, her)>>) = << >>
    OBVIOUS
  <2> QED
    BY <2>1, <2>2 DEF Book
<1>7. CASE ValidateBooking(a)
  <2> DEFINE more == IF her \in {Null, web} THEN << >> ELSE <<Restore(her)>>
             u == (<<Release>> \o more) \o << >>
  <2>1. /\ OnlyRun /\ t[1].op = "book"
        /\ \/ /\ run' = [run EXCEPT ![a].read = cand]
              /\ cand.status # "REJECTED"
              /\ cand.hrDecision \notin {"AGE_LIMIT", "REJECTED_SYSTEM_UNDERAGE"}
              /\ Admits(cand, Status1("INTERVIEW_SCHEDULED"))
           \/ Went(a, <<Release>> \o IF Call(a).before \in {Null, Call(a).slot} THEN << >> ELSE <<Restore(Call(a).before)>>)
    BY <1>2, <1>7, Zenon DEF ValidateBooking, OnlyRun, AtCall
  <2>2. CASE run' = [run EXCEPT ![a].read = cand] /\ cand.status # "REJECTED"
             /\ cand.hrDecision \notin {"AGE_LIMIT", "REJECTED_SYSTEM_UNDERAGE"}
             /\ Admits(cand, Status1("INTERVIEW_SCHEDULED"))
    BY <1>2, <2>1, <2>2, TurnRead
  <2>3. CASE Went(a, <<Release>> \o IF Call(a).before \in {Null, Call(a).slot} THEN << >> ELSE <<Restore(Call(a).before)>>)
    <3>1. Call(a).before = her /\ Call(a).slot = web /\ Tail(t) = << >> /\ web # her
      BY <1>2, <1>6, <2>1
    <3>2. Leaves(a, u, run[a].result)
      BY <2>3, <3>1 DEF Went
    <3>3. u # << >> /\ u[1] = Release /\ Tail(u) = more
      <4>1. IsList(more)
        BY EmptyList, ShortLists
      <4> HIDE DEF more
      <4>2. <<Release>> \o more # << >> /\ (<<Release>> \o more)[1] = Release /\ Tail(<<Release>> \o more) = more
        BY <4>1, PutBefore
      <4>3. IsList(<<Release>> \o more)
        BY <4>1, ShortLists, JoinedList
      <4>4. (<<Release>> \o more) \o << >> = <<Release>> \o more
        BY <4>3, ConcatEmptySeq DEF IsList
      <4> QED
        BY <4>2, <4>4
    <3> HIDE DEF u
    <3>4. Releasing(scene, u, cand)
      BY <3>1, <3>3, LooseShort DEF Releasing
    <3>5. Shape(scene, u, cand, web)
      BY <3>4 DEF Shape
    <3> QED
      BY <1>1, <1>2, <2>1, <3>2, <3>5, TurnLeaves DEF OnlyRun
  <2> QED
    BY <2>1, <2>2, <2>3
<1>8. CASE WriteBooking(a)
  <2>1. /\ t[1].op = "book" /\ run[a].read # Null /\ Goes(a) /\ web' = web
        /\ cand' = [Updated(cand, run[a].read, Status1("INTERVIEW_SCHEDULED")) EXCEPT !.interviewSlotId = Call(a).slot]
    BY <1>2, <1>8 DEF WriteBooking, AtCall
  <2>2. run[a].read = cand
    BY <2>1 DEF Turn, ReadsAreFresh
  <2>3. cand'.interviewSlotId = web /\ web \in Slots
    BY <1>2, <1>6, <2>1, <2>2, BookingRow
  <2>4. Agreed(scene, cand', web)
    BY <2>3 DEF Agreed, Agree
  <2>5. Shape(scene, Tail(t), cand', web')
    BY <1>6, <2>1, <2>4, EmptyShape
  <2> QED
    BY <1>1, <1>2, <1>3, <2>1, <2>5, TurnLeaves
<1> QED
  BY <1>5, <1>7, <1>8

LEMMA CallsTurn ==
    ASSUME Base, Turn, NEW a \in Actors, Calls(a)
    PROVE  Turn'
<1>1. CASE Rest(a)
  BY <1>1, TurnEnds DEF Rest, Base
<1> QED
  BY <1>1, QuietCallsTurn, ValidateUpdateTurn, WriteUpdateTurn, BlockedTurn, LettingGoTurn, BookingTurn
     DEF Calls, OtherCalls


---------------------------------------------------------------------------
(* What each handler has to do as it begins.                               *)

Mild(p) == KeepsSlot(p) /\ ("status" \in DOMAIN p => p["status"] # "STAGING_SETUP")

LEMMA CallsPlain ==
    /\ \A p : Mild(p) => Plain(Update(p)) /\ Plain(Attempt(p))
    /\ \A q : Loose(Transaction(<<Back, q>>))
    /\ \A l, b, f : l # "invitation" => Plain(Send(l, b, f))
    /\ \A s : Plain(Remind(s)) /\ Plain(Refuse(s))
    /\ Plain(Mark) /\ Plain(Move)
<1>1. ASSUME NEW p, Mild(p) PROVE Plain(Update(p)) /\ Plain(Attempt(p))
  <2>1. \A x \in {Update(p), Attempt(p)} : x.op = "update" /\ x.patches = <<p>>
    BY DEF Update, Attempt
  <2>2. <<p>>[1] = p /\ Len(<<p>>) = 1
    OBVIOUS
  <2>3. \A x \in {Update(p), Attempt(p)} : Plain(x)
    BY <1>1, <2>1, <2>2 DEF Plain, Loose, Invites, SetsUp, Mild
  <2> QED
    BY <2>3
<1>2. ASSUME NEW q PROVE Loose(Transaction(<<Back, q>>))
  <2>1. /\ Transaction(<<Back, q>>).op = "update" /\ Transaction(<<Back, q>>).patches = <<Back, q>>
        /\ <<Back, q>>[1] = Back /\ Back["status"] = "WAITLIST_HR"
    BY DEF Transaction, Back
  <2> QED
    BY <2>1 DEF Loose, Invites, SetsUp
<1>3. \A l, b, f : l # "invitation" => Plain(Send(l, b, f))
  BY DEF Send, Plain, Loose, Invites
<1>4. \A s : Plain(Remind(s)) /\ Plain(Refuse(s))
  BY DEF Remind, Refuse, Plain, Loose, Invites
<1>5. Plain(Mark) /\ Plain(Move)
  BY DEF Mark, Move, Plain, Loose, Invites
<1> QED
  BY <1>1, <1>2, <1>3, <1>4, <1>5

LEMMA MildPatches ==
    /\ \A s \in Writable \ {"WAITLIST_HR", "STAGING_SETUP"} : Mild(Status1(s))
    /\ \A d : Mild(Closed(d))
    /\ Mild([notificationSent |-> TRUE]) /\ Mild(Completed)
    /\ Mild([status |-> "MENTOR_MANUAL", notificationSent |-> TRUE])
    /\ Mild([status |-> "REJECTED", notificationSent |-> TRUE])
    /\ Mild([status |-> "INTERVIEW_COMPLETED", currentStep |-> "INTERVIEW", interviewCompletedAt |-> TRUE])
    /\ Mild([status |-> "MENTOR_MANUAL", hrDecision |-> "ACCEPTED", notificationSent |-> FALSE,
             materialsSent |-> FALSE, isWaitlisted |-> FALSE])
    /\ Mild([status |-> "REJECTED", currentStep |-> "INTERVIEW", hrDecision |-> "REJECTED",
             notificationSent |-> FALSE, materialsSent |-> FALSE])
<1>1. \A s \in Writable \ {"WAITLIST_HR", "STAGING_SETUP"} : Mild(Status1(s))
  BY DEF Status1, Mild, KeepsSlot
<1>2. (\A d : Mild(Closed(d))) /\ Mild([notificationSent |-> TRUE]) /\ Mild(Completed)
  BY DEF Closed, Completed, Mild, KeepsSlot
<1>3. /\ Mild([status |-> "MENTOR_MANUAL", notificationSent |-> TRUE])
      /\ Mild([status |-> "REJECTED", notificationSent |-> TRUE])
      /\ Mild([status |-> "INTERVIEW_COMPLETED", currentStep |-> "INTERVIEW", interviewCompletedAt |-> TRUE])
  BY DEF Mild, KeepsSlot
<1>4. /\ Mild([status |-> "MENTOR_MANUAL", hrDecision |-> "ACCEPTED", notificationSent |-> FALSE,
               materialsSent |-> FALSE, isWaitlisted |-> FALSE])
      /\ Mild([status |-> "REJECTED", currentStep |-> "INTERVIEW", hrDecision |-> "REJECTED",
               notificationSent |-> FALSE, materialsSent |-> FALSE])
  BY DEF Mild, KeepsSlot
<1> QED
  BY <1>1, <1>2, <1>3, <1>4

\* A patch with other columns put to it.
LEMMA WithMild ==
    ASSUME NEW p, NEW q, PatchOK(p), PatchOK(q), Mild(p), "status" \in DOMAIN p, "interviewSlotId" \notin DOMAIN q
    PROVE  Mild(With(p, q))
<1>1. /\ \A f : f \in DOMAIN With(p, q) <=> f \in DOMAIN p \/ f \in DOMAIN q
      /\ \A f \in DOMAIN p : With(p, q)[f] = p[f]
  BY WithOK
<1> QED
  BY <1>1 DEF Mild, KeepsSlot

LEMMA ReasonColumns ==
    /\ \A b : PatchOK(With(Queued(b), Uninvited)) /\ "interviewSlotId" \notin DOMAIN With(Queued(b), Uninvited)
    /\ \A b : "interviewSlotId" \notin DOMAIN Queued(b)
<1>1. "interviewSlotId" \notin DOMAIN Uninvited /\ \A b : "interviewSlotId" \notin DOMAIN Queued(b)
  BY DEF Uninvited, Queued
<1>2. \A b : /\ PatchOK(With(Queued(b), Uninvited))
             /\ \A f : f \in DOMAIN With(Queued(b), Uninvited) <=> f \in DOMAIN Queued(b) \/ f \in DOMAIN Uninvited
  BY OtherColumns, WithOK
<1> QED
  BY <1>1, <1>2

LEMMA InvitedMild == Mild(Invited)
<1> DEFINE p == [notificationSent |-> TRUE, status |-> "SCREENING", isWaitlisted |-> FALSE,
                 interviewInvitedAt |-> TRUE, interviewInviteReminderSentAt |-> FALSE]
<1>1. PatchOK(p) /\ "status" \in DOMAIN p /\ Mild(p)
  BY DEF PatchOK, PatchTyped, Status, Writable, Mild, KeepsSlot
<1> HIDE DEF p
<1>2. Mild(With(p, Queued(FALSE)))
  BY <1>1, ReasonColumns, OtherColumns, WithMild
<1> QED
  BY <1>2 DEF Invited, p

LEMMA LookingMild == ASSUME NEW o \in BOOLEAN PROVE Mild(Looking(o))
BY LookingOK DEF Reopens, Mild, KeepsSlot

\* The worker's.
LEMMA WorkPlain ==
    ASSUME Work
    PROVE  \E t : AllPlain(t) /\ Works(t)
<1>1. CASE NotifyDecision
  <2> DEFINE t1 == <<Send("offer", "archive", "throw"), Update([status |-> "MENTOR_MANUAL", notificationSent |-> TRUE])>>
             t2 == <<Send("thanks for the talk, rejection", "archive", "throw"),
                     Update([status |-> "REJECTED", notificationSent |-> TRUE])>>
  <2>1. AllPlain(t1) /\ AllPlain(t2)
    BY CallsPlain, MildPatches, PlainShort
  <2>2. Works(t1) \/ Works(t2)
    BY <1>1 DEF NotifyDecision
  <2> HIDE DEF t1, t2
  <2> QED
    BY <2>1, <2>2
<1>2. CASE AutoComplete
  <2> DEFINE more == IF cand.hrDecision = Null THEN <<Send("thanks", "archive", "ignore")>> ELSE << >>
  <2>1. PICK s \in Slots : Works(<<Update(Completed), Remind(s)>> \o more)
    BY <1>2 DEF AutoComplete
  <2>2. AllPlain(more)
    BY CallsPlain, PlainShort
  <2> HIDE DEF more
  <2>3. AllPlain(<<Update(Completed), Remind(s)>>)
    BY CallsPlain, MildPatches, PlainShort
  <2> QED
    BY <2>1, <2>2, <2>3, PlainJoined
<1>3. CASE RecoverStale
  <2>1. PICK s \in Slots : Works(<<Update(Completed), Remind(s)>>)
    BY <1>3 DEF RecoverStale
  <2>2. AllPlain(<<Update(Completed), Remind(s)>>)
    BY CallsPlain, MildPatches, PlainShort
  <2> QED
    BY <2>1, <2>2
<1>4. CASE RepairRejected
  <2>1. Works(<<Update(Status1("REJECTED"))>>)
    BY <1>4 DEF RepairRejected
  <2>2. "REJECTED" \in Writable \ {"WAITLIST_HR", "STAGING_SETUP"}
    BY DEF Writable
  <2>3. AllPlain(<<Update(Status1("REJECTED"))>>)
    BY <2>2, CallsPlain, MildPatches, PlainShort
  <2> QED
    BY <2>1, <2>3
<1> QED
  BY <1>1, <1>2, <1>3, <1>4 DEF Work

LEMMA WorkTurn ==
    ASSUME Base, Turn, ~ scene.overlap, Work
    PROVE  Turn'
<1>1. PICK t : AllPlain(t) /\ Works(t)
  BY WorkPlain
<1>2. Quiet /\ Begun("worker", "tick", t) /\ scene' = scene /\ cand' = cand /\ web' = web /\ "worker" \in Actors
  BY <1>1 DEF Works, MayBegin, Quiet, Actors
<1>3. Shape(scene, t, cand, web)
  BY <1>1, <1>2 DEF Turn, Shape, Tame
<1> QED
  BY <1>2, <1>3, TurnBegins DEF Base

\* Hers.
LEMMA TapTurn ==
    ASSUME Base, Turn, ~ scene.overlap, Tap
    PROVE  Turn'
<1> DEFINE her == cand.interviewSlotId
<1>1. CASE TapSlot
  <2>1. PICK s \in Slots : s # her /\ Taps(<<TakeWebSlot(s), EmptyMirror(s), Book(s, her)>>)
    BY <1>1 DEF TapSlot
  <2> DEFINE t == <<TakeWebSlot(s), EmptyMirror(s), Book(s, her)>>
  <2>2. Taking(t, cand)
    BY <2>1 DEF Taking
  <2>3. Taps(t)
    BY <2>1
  <2> HIDE DEF t
  <2>4. Quiet /\ Begun("candidate", "tap", t) /\ scene' = scene /\ cand' = cand /\ web' = web /\ "candidate" \in Actors
    BY <2>3 DEF Taps, MayBegin, Quiet, Actors
  <2> QED
    BY <2>2, <2>4, TurnBegins DEF Base, Shape
<1>2. CASE TapCancel
  <2> DEFINE p == [status |-> "WAITLIST_HR", currentStep |-> "INTERVIEW", isWaitlisted |-> TRUE,
                   notificationSent |-> FALSE, interviewSlotId |-> Null, interviewWaitlistedAt |-> TRUE]
             x == Cancel(her, TRUE)
             y == Update(With(p, Queued(FALSE)))
             t == <<Release, x, y>>
  <2>1. Taps(t) /\ Linked(cand)
    BY <1>2 DEF TapCancel, canRescheduleInterview, Linked
  <2>2. PatchOK(p) /\ "status" \in DOMAIN p /\ p["status"] = "WAITLIST_HR"
    BY DEF PatchOK, PatchTyped, Status, Step, Writable
  <2> HIDE DEF p
  <2>3. With(p, Queued(FALSE))["status"] = "WAITLIST_HR"
    BY <2>2, OtherColumns, WithOK
  <2>4. Loose(y)
    <3>1. y.op = "update" /\ y.patches = <<With(p, Queued(FALSE))>> /\ y.patches[1] = With(p, Queued(FALSE))
      BY DEF Update
    <3> QED
      BY <2>3, <3>1 DEF Loose, SetsUp, Invites
  <2>5. x.op = "cancel" /\ x.slot = her
    BY DEF Cancel
  <2> HIDE DEF x, y
  <2>6. t # << >> /\ t[1] = Release /\ Tail(t) = <<x, y>>
    OBVIOUS
  <2>7. <<x, y>> # << >> /\ <<x, y>>[1] = x /\ Tail(<<x, y>>) = <<y>>
    OBVIOUS
  <2>8. Cancelling(scene, <<x, y>>, cand, Null)
    BY <2>1, <2>4, <2>5, <2>7, LooseShort DEF Cancelling, Emptied
  <2> HIDE DEF t
  <2>9. Releasing(scene, t, cand)
    BY <2>6, <2>8 DEF Releasing
  <2>10. Quiet /\ Begun("candidate", "tap", t) /\ scene' = scene /\ cand' = cand /\ web' = web /\ "candidate" \in Actors
    BY <2>1 DEF Taps, MayBegin, Quiet, Actors
  <2> QED
    BY <2>9, <2>10, TurnBegins DEF Base, Shape
<1> QED
  BY <1>1, <1>2 DEF Tap



\* Joining short lists.
LEMMA JoinedPair ==
    ASSUME NEW x, NEW y
    PROVE  <<x>> \o << >> = <<x>> /\ <<x>> \o <<y>> = <<x, y>>
<1> DEFINE T == {x, y}
           joined == <<x>> \o <<y>>
           pair == <<x, y>>
<1>1. /\ <<x>> \in Seq(T) /\ <<y>> \in Seq(T) /\ Len(<<x>>) = 1 /\ Len(<<y>>) = 1
      /\ pair \in Seq(T) /\ Len(pair) = 2 /\ pair[1] = x /\ pair[2] = y
  OBVIOUS
<1>2. /\ joined \in Seq(T) /\ Len(joined) = 2
      /\ \A i \in 1 .. 2 : joined[i] = IF i <= 1 THEN <<x>>[i] ELSE <<y>>[i - 1]
  BY <1>1, ConcatProperties
<1>3. joined[1] = x /\ joined[2] = y
  BY <1>2
<1> HIDE DEF joined, pair
<1>4. \A i \in 1 .. 2 : pair[i] = joined[i]
  BY <1>1, <1>3
<1>5. pair = joined
  BY <1>1, <1>2, <1>4, SeqEqual
<1>6. <<x>> \o << >> = <<x>>
  BY <1>1, ConcatEmptySeq
<1> QED
  BY <1>5, <1>6 DEF joined, pair

LEMMA JoinedThrice ==
    ASSUME NEW s, NEW t, NEW u, IsList(s), IsList(t), IsList(u)
    PROVE  (s \o t) \o u = s \o (t \o u)
<1>1. PICK S1, S2, S3 : s \in Seq(S1) /\ t \in Seq(S2) /\ u \in Seq(S3)
  BY DEF IsList
<1> DEFINE T == S1 \cup S2 \cup S3
<1>2. s \in Seq(T) /\ t \in Seq(T) /\ u \in Seq(T)
  BY <1>1
<1> HIDE DEF T
<1> QED
  BY <1>2, ConcatAssociative

LEMMA ThreeInAll ==
    ASSUME NEW x, NEW y, NEW z
    PROVE  /\ <<x, y>> # << >> /\ <<x, y>>[1] = x /\ Tail(<<x, y>>) = <<y>>
           /\ <<x, y, z>> # << >> /\ <<x, y, z>>[1] = x /\ Tail(<<x, y, z>>) = <<y, z>>
           /\ Tail(<<x, y, z>>) # << >> /\ Tail(<<x, y, z>>)[1] = y /\ Tail(Tail(<<x, y, z>>)) = <<z>>
OBVIOUS

LEMMA PlainShape ==
    ASSUME NEW s, NEW t, NEW c, NEW w, Agreed(s, c, w), AllPlain(t)
    PROVE  Shape(s, t, c, w)
BY DEF Shape, Tame

\* The dispatcher's, one command after the other.
LEMMA InviteShape ==
    ASSUME NEW c, age \in Ages, Agreed(scene, c, web)
    PROVE  Shape(scene, inviteCandidate(c), c, web)
<1> DEFINE q == With(Queued(FALSE), Uninvited)
<1>1. PatchOK(q) /\ "interviewSlotId" \notin DOMAIN q
  BY ReasonColumns
<1> HIDE DEF q
<1>2. CASE age = "not a woman"
  <2> DEFINE p == [status |-> "REJECTED", isWaitlisted |-> FALSE, notificationSent |-> FALSE]
  <2>1. inviteCandidate(c) = <<Update(With(p, q)), Refuse("failed")>>
    BY <1>2 DEF inviteCandidate, q
  <2>2. PatchOK(p) /\ Mild(p) /\ "status" \in DOMAIN p
    BY DEF PatchOK, PatchTyped, Status, Writable, Mild, KeepsSlot
  <2> HIDE DEF p
  <2>3. Mild(With(p, q))
    BY <1>1, <2>2, WithMild
  <2> QED
    BY <2>1, <2>3, CallsPlain, PlainShort, PlainShape
<1>3. CASE age \in {"underage", "too old"}
  <2> DEFINE d == IF age = "underage" THEN "REJECTED_SYSTEM_UNDERAGE" ELSE "AGE_LIMIT"
             p == [status |-> "REJECTED", isWaitlisted |-> FALSE, notificationSent |-> FALSE, hrDecision |-> d]
  <2>1. d \in Decision /\ (d = "REJECTED_SYSTEM_UNDERAGE" => age = "underage")
    BY DEF Decision
  <2>2. inviteCandidate(c) = <<Update(With(p, q)), Refuse("failed")>>
    BY <1>3 DEF inviteCandidate, q
  <2> HIDE DEF d
  <2>3. PatchOK(p) /\ Mild(p) /\ "status" \in DOMAIN p
    BY <2>1 DEF PatchOK, PatchTyped, Status, Writable, Mild, KeepsSlot
  <2> HIDE DEF p
  <2>4. Mild(With(p, q))
    BY <1>1, <2>3, WithMild
  <2> QED
    BY <2>2, <2>4, CallsPlain, PlainShort, PlainShape
<1>4. CASE age = "fits"
  <2> DEFINE letter == Send("invitation", "bar", "throw")
             judge == Check(Invited)
             last == Update(Invited)
  <2>1. inviteCandidate(c) = <<judge, letter, last>>
    BY <1>4 DEF inviteCandidate
  <2>2. Invites(letter)
    BY DEF Invites, Send
  <2> HIDE DEF letter, last, judge
  <2>3. AllPlain(<<last>>)
    BY InvitedMild, CallsPlain, PlainShort DEF last
  <2>4. Judging(scene, <<judge, letter, last>>, c, web)
    BY <2>2, <2>3, ThreeInAll DEF Judging, judge
  <2> QED
    BY <2>1, <2>4 DEF Shape
<1> QED
  BY <1>2, <1>3, <1>4 DEF Ages

\* A handler that lets go of the booking first, and then does what leaves the
\* slots alone.
LEMMA ReleaseFirst ==
    ASSUME NEW s, NEW c \in Snapshot, NEW last, AllLoose(last), c.interviewSlotId # Null => Linked(c)
    PROVE  Releasing(s, (<<Release>> \o cancelIfBooked(c)) \o last, c)
<1>1. IsList(last)
  BY DEF AllLoose
<1>2. CASE c.interviewSlotId = Null
  <2>1. (<<Release>> \o cancelIfBooked(c)) \o last = <<Release>> \o last
    BY <1>2, JoinedPair DEF cancelIfBooked
  <2> DEFINE t == <<Release>> \o last
  <2>2. t # << >> /\ t[1] = Release /\ Tail(t) = last
    BY <1>1, PutBefore
  <2> HIDE DEF t
  <2>3. Releasing(s, t, c)
    BY <1>2, <2>2 DEF Releasing
  <2> QED
    BY <2>1, <2>3 DEF t
<1>3. CASE c.interviewSlotId # Null
  <2> DEFINE x == Cancel(c.interviewSlotId, FALSE)
             t == <<Release, x>> \o last
  <2>1. cancelIfBooked(c) = <<x>>
    BY <1>3 DEF cancelIfBooked
  <2>2. (<<Release>> \o cancelIfBooked(c)) \o last = t
    BY <2>1, JoinedPair
  <2>3. x.op = "cancel" /\ x.slot = c.interviewSlotId
    BY DEF Cancel
  <2> HIDE DEF x
  <2>4. Opens(t, Release, x, last)
    BY <1>1, PutTwoBefore
  <2> HIDE DEF t
  <2>5. Cancelling(s, Tail(t), c, Null)
    BY <1>3, <2>3, <2>4 DEF Cancelling, Emptied, Opens
  <2>6. Releasing(s, t, c)
    BY <2>4, <2>5 DEF Releasing, Opens
  <2> QED
    BY <2>2, <2>6
<1> QED
  BY <1>2, <1>3

LEMMA RescheduleShape ==
    ASSUME NEW c \in Snapshot, NEW again \in BOOLEAN, NEW offered \in BOOLEAN, Agreed(scene, c, web)
    PROVE  Shape(scene, rescheduleInterviewByCommand(c, again, offered), c, web)
<1> DEFINE told == Send(IF offered THEN "slots" ELSE "no slots", "archive", "throw")
           last == <<Transaction(<<Back, Looking(offered)>>), told>>
           t == rescheduleInterviewByCommand(c, again, offered)
<1> SUFFICES Shape(scene, t, c, web)
  OBVIOUS
<1>1. Plain(told)
  BY CallsPlain
<1>2. \/ t = <<Refuse("state_conflict")>>
      \/ t = <<Update(Looking(offered)), told>>
      \/ t = (<<Release>> \o cancelIfBooked(c)) \o last /\ isReschedulable(c)
  BY Zenon DEF rescheduleInterviewByCommand, Back
<1> HIDE DEF told
<1>3. Loose(told) /\ Loose(Transaction(<<Back, Looking(offered)>>))
  BY <1>1, CallsPlain DEF Plain
<1>4. AllLoose(last)
  BY <1>3, LooseShort
<1> HIDE DEF t
<1>5. CASE t = <<Refuse("state_conflict")>>
  BY <1>5, CallsPlain, PlainShort, PlainShape
<1>6. CASE t = <<Update(Looking(offered)), told>>
  BY <1>1, <1>6, LookingMild, CallsPlain, PlainShort, PlainShape
<1> HIDE DEF last
<1>7. CASE t = (<<Release>> \o cancelIfBooked(c)) \o last /\ isReschedulable(c)
  <2>1. c.interviewSlotId # Null => Linked(c)
    BY <1>7 DEF isReschedulable, Linked
  <2>2. Releasing(scene, t, c)
    BY <1>4, <1>7, <2>1, ReleaseFirst
  <2> QED
    BY <2>2 DEF Shape
<1> QED
  BY <1>2, <1>5, <1>6, <1>7

LEMMA AcceptShape ==
    ASSUME NEW c, Agreed(scene, c, web)
    PROVE  Shape(scene, acceptAfterInterview(c), c, web)
<1> DEFINE completed == [status |-> "INTERVIEW_COMPLETED", currentStep |-> "INTERVIEW",
                         interviewCompletedAt |-> TRUE]
           accepted == [status |-> "MENTOR_MANUAL", hrDecision |-> "ACCEPTED",
                        notificationSent |-> FALSE, materialsSent |-> FALSE, isWaitlisted |-> FALSE]
           last == <<Send("offer", "archive", "throw"), Update([notificationSent |-> TRUE])>>
<1>1. Plain(Update(completed)) /\ Plain(Update(accepted)) /\ Plain(Update([notificationSent |-> TRUE]))
  BY CallsPlain, MildPatches
<1>2. \/ acceptAfterInterview(c) = << >>
      \/ acceptAfterInterview(c) = << >> \o last
      \/ acceptAfterInterview(c) = <<Update(completed), Update(accepted)>> \o last
      \/ acceptAfterInterview(c) = <<Update(accepted)>> \o last
  BY Zenon DEF acceptAfterInterview
<1>3. AllPlain(last)
  BY <1>1, CallsPlain, PlainShort
<1> HIDE DEF completed, accepted, last
<1>4. AllPlain(<< >>) /\ AllPlain(<<Update(completed), Update(accepted)>>) /\ AllPlain(<<Update(accepted)>>)
  BY <1>1, PlainShort
<1> QED
  BY <1>2, <1>3, <1>4, PlainJoined, PlainShape

LEMMA RejectAfterShape ==
    ASSUME NEW c \in Snapshot, Agreed(scene, c, web)
    PROVE  Shape(scene, rejectAfterInterview(c), c, web)
<1> DEFINE rejected == [status |-> "REJECTED", currentStep |-> "INTERVIEW", hrDecision |-> "REJECTED",
                        notificationSent |-> FALSE, materialsSent |-> FALSE]
           letter == IF beforeMeeting(c) THEN "rejection" ELSE "thanks for the talk, rejection"
           last == <<Send(letter, "archive", "throw"), Update([notificationSent |-> TRUE])>>
           letGo == <<Release>> \o cancelIfBooked(c)
           t == rejectAfterInterview(c)
<1> SUFFICES Shape(scene, t, c, web)
  OBVIOUS
<1>1. Plain(Update(rejected)) /\ Plain(Update([notificationSent |-> TRUE]))
  BY CallsPlain, MildPatches
<1>2. letter # "invitation"
  OBVIOUS
<1>3. \/ t = << >>
      \/ t = << >> \o last
      \/ t = (letGo \o <<Update(rejected)>>) \o last /\ beforeMeeting(c)
      \/ t = (<< >> \o <<Update(rejected)>>) \o last
  BY Zenon DEF rejectAfterInterview
<1> HIDE DEF rejected, letter, t
<1>4. AllPlain(last)
  BY <1>1, <1>2, CallsPlain, PlainShort
<1> HIDE DEF last
<1>5. AllPlain(<< >>) /\ AllPlain(<<Update(rejected)>>)
  BY <1>1, PlainShort
<1>6. AllPlain(<<Update(rejected)>> \o last)
  BY <1>4, <1>5, PlainJoined
<1>7. CASE t = (letGo \o <<Update(rejected)>>) \o last /\ beforeMeeting(c)
  <2>1. Linked(c)
    BY <1>7 DEF beforeMeeting, Linked
  <2>2. IsList(last) /\ IsList(<<Update(rejected)>>)
    BY <1>4, <1>5 DEF AllPlain
  <2>3. IsList(letGo)
    <3>1. letGo = <<Release>> \o <<Cancel(c.interviewSlotId, FALSE)>>
      BY <2>1 DEF cancelIfBooked, Linked
    <3>2. letGo = <<Release, Cancel(c.interviewSlotId, FALSE)>>
      BY <3>1, JoinedPair
    <3> HIDE DEF letGo
    <3> QED
      BY <3>2, ShortLists
  <2>4. t = letGo \o (<<Update(rejected)>> \o last)
    BY <1>7, <2>2, <2>3, JoinedThrice
  <2>5. AllLoose(<<Update(rejected)>> \o last)
    BY <1>6, PlainIsLoose
  <2>6. Releasing(scene, t, c)
    BY <2>1, <2>4, <2>5, ReleaseFirst
  <2> QED
    BY <2>6 DEF Shape
<1> HIDE DEF letGo
<1>8. CASE t = << >> \/ t = << >> \o last \/ t = (<< >> \o <<Update(rejected)>>) \o last
  BY <1>4, <1>5, <1>8, PlainJoined, PlainShape
<1> QED
  BY <1>3, <1>7, <1>8

LEMMA RejectShape ==
    ASSUME NEW c, NEW k, Agreed(scene, c, web)
    PROVE  Shape(scene, Reject(c, k), c, web)
<1> DEFINE polite == IF k \in scene.withText \ sentMark
                     THEN <<Send("training rejection", "ignore", "throw"), Mark>> ELSE << >>
<1>1. Plain(Update(Closed("REJECTED")))
  BY CallsPlain, MildPatches
<1>2. \/ Reject(c, k) = << >>
      \/ Reject(c, k) = polite \o <<Update(Closed("REJECTED"))>>
      \/ Reject(c, k) = <<Update(Closed("REJECTED")), Send("rejection", "ignore", "ignore")>>
  <2>1. CASE c.status = "REJECTED"
    BY Zenon, <2>1 DEF Reject, ManualContour
  <2>2. CASE c.status # "REJECTED" /\ c.status \in ManualContour
    BY Zenon, <2>2 DEF Reject
  <2>3. CASE c.status # "REJECTED" /\ c.status \notin ManualContour
    BY Zenon, <2>3 DEF Reject
  <2> QED
    BY <2>1, <2>2, <2>3
<1>3. AllPlain(polite)
  BY CallsPlain, PlainShort
<1> HIDE DEF polite
<1>4. AllPlain(<<Update(Closed("REJECTED"))>>)
  BY <1>1, PlainShort
<1>5. AllPlain(<<Update(Closed("REJECTED")), Send("rejection", "ignore", "ignore")>>)
  BY <1>1, CallsPlain, PlainShort
<1>6. AllPlain(<< >>)
  BY PlainShort
<1>7. AllPlain(Reject(c, k))
  BY <1>2, <1>3, <1>4, <1>5, <1>6, PlainJoined
<1> QED
  BY <1>7, PlainShape


LEMMA PathPlain ==
    ASSUME NEW c, NEW path \in Seq(Writable \ {"WAITLIST_HR", "STAGING_SETUP"}), path # << >>
    PROVE  AllPlain(applySilentStatusPath(c, path))
<1> DEFINE S == Writable \ {"WAITLIST_HR", "STAGING_SETUP"}
           ahead == IF path[1] = c.status THEN Tail(path) ELSE path
           t == [i \in DOMAIN ahead |-> Update(Status1(ahead[i]))]
<1> HIDE DEF S
<1>1. ahead \in Seq(S)
  <2>1. path \in Seq(S)
    BY DEF S
  <2> QED
    BY <2>1
<1> HIDE DEF ahead
<1>2. t = [i \in 1 .. Len(ahead) |-> Update(Status1(ahead[i]))] /\ Len(ahead) \in Nat
  BY <1>1
<1>3. t \in Seq({Update(Status1(s)) : s \in S}) /\ Len(t) = Len(ahead)
  BY <1>1, <1>2
<1>4. \A i \in 1 .. Len(t) : t[i] = Update(Status1(ahead[i])) /\ ahead[i] \in S
  BY <1>1, <1>2, <1>3
<1>5. \A i \in 1 .. Len(t) : Plain(t[i])
  BY <1>4, CallsPlain, MildPatches DEF S
<1> QED
  BY <1>3, <1>5 DEF AllPlain, IsList, applySilentStatusPath, ahead

LEMMA TwoWritten ==
    ASSUME NEW c, NEW x, NEW y, x # c.status
    PROVE  applySilentStatusPath(c, <<x, y>>) = <<Update(Status1(x)), Update(Status1(y))>>
BY DEF applySilentStatusPath

LEMMA ThreeWritten ==
    ASSUME NEW c, NEW x, NEW y, NEW z, x # c.status
    PROVE  applySilentStatusPath(c, <<x, y, z>>) =
              <<Update(Status1(x)), Update(Status1(y)), Update(Status1(z))>>
BY DEF applySilentStatusPath

LEMMA StagingShape ==
    ASSUME NEW c, Agreed(scene, c, web)
    PROVE  /\ Shape(scene, applySilentStatusPath(c, <<"TRAINING_COMPLETED">>), c, web)
           /\ Shape(scene, applySilentStatusPath(c, startStagingPath(c.status)), c, web)
           /\ Shape(scene, applySilentStatusPath(c, stagingPassedPath(c.status)), c, web)
<1> DEFINE S == Writable \ {"WAITLIST_HR", "STAGING_SETUP"}
<1>1. {"TRAINING_COMPLETED", "STAGING_ACTIVE", "READY_FOR_HIRE"} \subseteq S
  BY DEF Writable
<1> HIDE DEF S
<1>2. "TRAINING_COMPLETED" \in S /\ "STAGING_ACTIVE" \in S /\ "READY_FOR_HIRE" \in S
  BY <1>1
<1>3. /\ <<"TRAINING_COMPLETED">> \in Seq(S) /\ <<"TRAINING_COMPLETED">> # << >>
      /\ <<"STAGING_ACTIVE">> \in Seq(S) /\ <<"STAGING_ACTIVE">> # << >>
      /\ <<"READY_FOR_HIRE">> \in Seq(S) /\ <<"READY_FOR_HIRE">> # << >>
      /\ <<"STAGING_ACTIVE", "READY_FOR_HIRE">> \in Seq(S) /\ <<"STAGING_ACTIVE", "READY_FOR_HIRE">> # << >>
  BY <1>2, ShortPaths
<1>4. \A path \in Seq(S) : path # << >> => Shape(scene, applySilentStatusPath(c, path), c, web)
  BY PathPlain, PlainShape DEF S
<1>5. Shape(scene, applySilentStatusPath(c, stagingPassedPath(c.status)), c, web)
  <2>1. \/ stagingPassedPath(c.status) = <<"STAGING_ACTIVE", "READY_FOR_HIRE">>
        \/ stagingPassedPath(c.status) = <<"READY_FOR_HIRE">>
    BY Zenon DEF stagingPassedPath
  <2> QED
    BY <1>3, <1>4, <2>1
<1>6. AllPlain(<<Update(Status1("STAGING_ACTIVE"))>>)
  <2>1. "STAGING_ACTIVE" \in Writable \ {"WAITLIST_HR", "STAGING_SETUP"}
    BY DEF Writable
  <2> QED
    BY <2>1, CallsPlain, MildPatches, PlainShort
<1>7. Shape(scene, applySilentStatusPath(c, startStagingPath(c.status)), c, web)
  <2>1. CASE c.status \in {"STAGING_ACTIVE", "STAGING_SETUP", "OFFLINE_STAGING"}
    <3>1. startStagingPath(c.status) = <<"STAGING_ACTIVE">>
      BY <2>1, Zenon DEF startStagingPath
    <3> QED
      BY <1>3, <1>4, <3>1
  <2>2. CASE c.status = "TRAINING_COMPLETED"
    <3> DEFINE last == Update(Status1("STAGING_ACTIVE"))
    <3>1. startStagingPath(c.status) = <<"STAGING_SETUP", "STAGING_ACTIVE">>
      BY <2>2 DEF startStagingPath
    <3>2. applySilentStatusPath(c, startStagingPath(c.status)) = <<SetUp, last>>
      <4>1. "STAGING_SETUP" # c.status
        BY <2>2
      <4>2. applySilentStatusPath(c, <<"STAGING_SETUP", "STAGING_ACTIVE">>) = <<SetUp, last>>
        BY <4>1, TwoWritten, Zenon DEF SetUp
      <4> QED
        BY <3>1, <4>2
    <3> HIDE DEF last
    <3>3. Opening(scene, <<SetUp, last>>, c, web)
      BY <1>6, <2>2, ThreeInAll DEF Opening, last
    <3> QED
      BY <3>2, <3>3 DEF Shape
  <2>3. CASE c.status \notin {"STAGING_ACTIVE", "STAGING_SETUP", "OFFLINE_STAGING", "TRAINING_COMPLETED"}
    <3> DEFINE last == Update(Status1("STAGING_ACTIVE"))
    <3>1. startStagingPath(c.status) = <<"TRAINING_COMPLETED", "STAGING_SETUP", "STAGING_ACTIVE">>
      BY <2>3, Zenon DEF startStagingPath
    <3>2. applySilentStatusPath(c, startStagingPath(c.status)) = <<CloseTraining, SetUp, last>>
      <4>1. "TRAINING_COMPLETED" # c.status
        BY <2>3
      <4>2. applySilentStatusPath(c, <<"TRAINING_COMPLETED", "STAGING_SETUP", "STAGING_ACTIVE">>) =
               <<CloseTraining, SetUp, last>>
        <5>1. \A x, y, z : x # c.status =>
                applySilentStatusPath(c, <<x, y, z>>) = <<Update(Status1(x)), Update(Status1(y)), Update(Status1(z))>>
          BY ThreeWritten, Zenon
        <5> QED
          BY <4>1, <5>1, Zenon DEF SetUp, CloseTraining
      <4> QED
        BY <3>1, <4>2
    <3> HIDE DEF last
    <3>3. ClosingTraining(scene, <<CloseTraining, SetUp, last>>, c, web)
      BY <1>6, ThreeInAll DEF ClosingTraining, last
    <3> QED
      BY <3>2, <3>3 DEF Shape
  <2> QED
    BY <2>1, <2>2, <2>3
<1> QED
  BY <1>3, <1>4, <1>5, <1>7

LEMMA TodoShape ==
    ASSUME TypeOK, NEW k \in Commands, outbox[k].kind \in KindNames, NEW n \in Nat, NEW offered \in BOOLEAN,
           Agreed(scene, cand, web)
    PROVE  Shape(scene, Todo(k, n, offered), cand, web)
<1>1. cand \in Snapshot /\ age \in Ages
  BY DEF TypeOK, Row
<1>2. Shape(scene, inviteCandidate(cand), cand, web)
  BY <1>1, InviteShape
<1>3. Shape(scene, rescheduleInterviewByCommand(cand, n > 0, offered), cand, web)
  <2>1. (n > 0) \in BOOLEAN
    OBVIOUS
  <2> QED
    BY <1>1, <2>1, RescheduleShape, Zenon
<1>4. Shape(scene, acceptAfterInterview(cand), cand, web) /\ Shape(scene, rejectAfterInterview(cand), cand, web)
  BY <1>1, AcceptShape, RejectAfterShape, Zenon
<1>5. Shape(scene, Reject(cand, k), cand, web)
  BY RejectShape, Zenon
<1>6. Shape(scene, changeLocation(cand, n > 0), cand, web)
  <2> DEFINE told == Send("location changed", "throw", "throw")
  <2>1. Plain(told)
    BY CallsPlain
  <2>2. \/ changeLocation(cand, n > 0) = <<Refuse("failed")>>
        \/ changeLocation(cand, n > 0) = <<Move, told>>
        \/ changeLocation(cand, n > 0) = <<told>>
        \/ changeLocation(cand, n > 0) = << >>
    BY Zenon DEF changeLocation
  <2> HIDE DEF told
  <2>3. AllPlain(changeLocation(cand, n > 0))
    BY <2>1, <2>2, CallsPlain, PlainShort
  <2> QED
    BY <2>3, PlainShape
<1>7. "SCREENING" \in Writable \ {"WAITLIST_HR", "STAGING_SETUP"} /\ "HIRED" \in Writable \ {"WAITLIST_HR", "STAGING_SETUP"}
  BY DEF Writable
<1>8. Shape(scene, markNoShow, cand, web)
  <2>1. AllPlain(markNoShow)
    BY CallsPlain, MildPatches, PlainShort DEF markNoShow
  <2> QED
    BY <2>1, PlainShape
<1>9. Shape(scene, approveTattoo, cand, web)
  <2>1. AllPlain(approveTattoo)
    BY <1>7, CallsPlain, MildPatches, PlainShort DEF approveTattoo
  <2> QED
    BY <2>1, PlainShape
<1>10. Shape(scene, <<Update(Status1("HIRED"))>>, cand, web)
  <2>1. AllPlain(<<Update(Status1("HIRED"))>>)
    BY <1>7, CallsPlain, MildPatches, PlainShort
  <2> QED
    BY <2>1, PlainShape
<1> QED
  BY <1>2, <1>3, <1>4, <1>5, <1>6, <1>8, <1>9, <1>10, StagingShape DEF Todo, KindNames

LEMMA BeginCommandTurn ==
    ASSUME Base, Turn, ~ scene.overlap, BeginCommand
    PROVE  Turn'
<1> DEFINE k == batch[1][1]
<1>1. /\ scene' = scene /\ cand' = cand /\ web' = web /\ batch # << >>
      /\ Quiet /\ "dispatcher" \in Actors
  BY DEF BeginCommand, MayBegin, Quiet, Actors
<1>2. Entry(batch[1])
  BY <1>1 DEF Base, BatchSound
<1>3. k \in Commands /\ batch[1][2] \in Nat /\ outbox[k].kind \in KindNames
  BY <1>2 DEF Entry, Base, Tables, OutboxSound
<1>4. Agreed(scene, cand, web)
  BY <1>1 DEF Turn
<1>5. \/ \E offered \in BOOLEAN : Begun("dispatcher", batch[1], Todo(k, batch[1][2], offered))
      \/ Begun("dispatcher", batch[1], <<Refuse("failed")>>)
  BY DEF BeginCommand
<1> HIDE DEF k
<1>6. \A offered \in BOOLEAN : Shape(scene, Todo(k, batch[1][2], offered), cand, web)
  BY <1>3, <1>4, TodoShape DEF Base, Tables
<1>7. Shape(scene, <<Refuse("failed")>>, cand, web)
  BY <1>4, CallsPlain, PlainShort, PlainShape
<1>8. PICK t : Begun("dispatcher", batch[1], t) /\ Shape(scene, t, cand, web)
  <2>1. CASE Begun("dispatcher", batch[1], <<Refuse("failed")>>)
    BY <1>7, <2>1
  <2>2. CASE \E offered \in BOOLEAN : Begun("dispatcher", batch[1], Todo(k, batch[1][2], offered))
    <3>1. PICK offered \in BOOLEAN : Begun("dispatcher", batch[1], Todo(k, batch[1][2], offered))
      BY <2>2
    <3> QED
      BY <1>6, <3>1
  <2> QED
    BY <1>5, <2>1, <2>2
<1> QED
  BY <1>1, <1>8, TurnBegins DEF Base

---------------------------------------------------------------------------
(* One handler at a time, and each as its reading of the row foresaw.      *)

LEMMA CrashTurn ==
    ASSUME Crash
    PROVE  Turn'
<1>1. run' = [a \in Actors |-> Idle] /\ scene' = scene /\ "crash" \in scene.faults
  BY DEF Crash
<1>2. \A a \in Actors : run'[a].doing = Null /\ run'[a].read = Null
  BY <1>1 DEF Idle
<1>3. ~ Steady(scene)'
  BY <1>1 DEF Steady
<1> QED
  BY <1>2, <1>3 DEF Turn, OneAtATime, ReadsAreFresh, Quiet, Running, Agreed

LEMMA TurnInit == Init => Turn
<1> SUFFICES ASSUME Init PROVE Turn
  OBVIOUS
<1>1. \A a \in Actors : run[a].doing = Null /\ run[a].read = Null
  BY DEF Init, Idle
<1>2. web = cand.interviewSlotId
  BY DEF Init
<1> QED
  BY <1>1, <1>2 DEF Turn, OneAtATime, ReadsAreFresh, Quiet, Running, Agreed, Agree

LEMMA SceneStays == [Next]_vars => scene' = scene /\ age' = age
BY ZenonT(30) DEF Next, vars, state, Dispatch, Fetch, BeginCommand, Ack, LoseAck, Work, NotifyDecision, AutoComplete,
       RecoverStale, RepairRejected, Works, Tap, TapSlot, TapCancel, Taps, Crash, Calls, OtherCalls, Issue,
       Pass, ValidateUpdate, WriteUpdate, CheckPatch, Deliver, SendFails, SendIsBlocked, ArchiveBlocked,
       ReleaseWebSlot, CancelSlot, FreeSlot, RemindSlot, MarkSent, MoveLocation, RefuseCommand,
       TakeSlot, ValidateBooking, WriteBooking, RestoreWebSlot, Rest

LEMMA TurnNext == Base /\ InTurn /\ [Next]_vars => InTurn'
<1> SUFFICES ASSUME Base, InTurn, [Next]_vars, ~ scene'.overlap PROVE Turn'
  BY DEF InTurn
<1>1. scene' = scene
  BY SceneStays
<1>2. Turn /\ ~ scene.overlap /\ LocalsOK
  BY <1>1 DEF InTurn, Base
<1>3. CASE UNCHANGED vars
  BY <1>2, <1>3, TurnStill DEF vars, state
<1>4. CASE \E k \in Commands : Issue(k)
  BY <1>2, <1>4, TurnStill DEF Issue
<1>5. CASE Fetch
  BY <1>2, <1>5, TurnStill DEF Fetch
<1>6. CASE \E s \in Slots : Pass(s)
  BY <1>2, <1>6, TurnStill DEF Pass
<1>7. CASE Ack \/ LoseAck
  <2>1. "dispatcher" \in Actors
    BY DEF Actors
  <2>2. Ended("dispatcher") /\ Resting("dispatcher") /\ cand' = cand /\ web' = web
    BY <1>7 DEF Ack, LoseAck
  <2> QED
    BY <1>1, <1>2, <2>1, <2>2, TurnEnds
<1>8. CASE Crash
  BY <1>8, CrashTurn
<1>9. CASE BeginCommand \/ Work \/ Tap
  BY <1>2, <1>9, BeginCommandTurn, WorkTurn, TapTurn
<1>10. CASE \E a \in Actors : Calls(a)
  BY <1>2, <1>10, CallsTurn
<1> QED
  BY <1>3, <1>4, <1>5, <1>6, <1>7, <1>8, <1>9, <1>10 DEF Next, Dispatch

LEMMA TurnAlways == Spec => [](Base /\ InTurn)
<1>1. Init => Base /\ InTurn
  BY BaseInit, TurnInit DEF InTurn
<1>2. Base /\ InTurn /\ [Next]_vars => (Base /\ InTurn)'
  BY BaseNext, TurnNext
<1> QED
  BY <1>1, <1>2, PTL DEF Spec


---------------------------------------------------------------------------
(* Where a step leads her row, while one handler runs at a time.           *)

\* The tables fit one another whenever nothing is under way, in a scene in which
\* no handler is cut short between two of its calls.
THEOREM TablesAreSoundAlways == Spec => [](Steady(scene) => TablesAreSound)
<1>1. Base /\ InTurn => (Steady(scene) => TablesAreSound)
  <2> SUFFICES ASSUME Base, InTurn, Steady(scene) PROVE TablesAreSound
    OBVIOUS
  <2>1. TypeOK /\ HersIsTaken
    BY DEF Base, Tables
  <2>2. ASSUME Quiet, ~ scene.overlap
        PROVE  /\ web # Null => slots[web].booked /\ cand.interviewSlotId = web
               /\ cand.status = "INTERVIEW_SCHEDULED" => web = cand.interviewSlotId
    <3>1. Agree(cand, web)
      BY <2>2 DEF InTurn, Turn, Agreed
    <3> QED
      BY <2>1, <3>1 DEF Agree, HersIsTaken
  <2> QED
    BY <2>1, <2>2 DEF TablesAreSound, SlotsAgree
<1> QED
  BY <1>1, TurnAlways, PTL

StaysOut(c, d) ==
    c.status = "REJECTED" /\ c.hrDecision # "REJECTED_SYSTEM_UNDERAGE" => d.status \in {"REJECTED", "BLOCKER"}
Forward(c, d) == d.status \in {"REJECTED", "BLOCKER"} \/ Stage(d.status) >= Stage(c.status)
Moves(c, d) ==
    /\ Forward(c, d)
    /\ Untrained(c) => Untrained(d) /\ StaysOut(c, d)
    /\ age = "fits" /\ PastChoice(c) => PastChoice(d)

LEMMA SameStageMoves ==
    ASSUME NEW c \in Snapshot, NEW d, d.status = c.status, d.hrDecision = c.hrDecision,
           d.interviewSlotId \in {c.interviewSlotId, Null},
           d.discoverySlotId => c.discoverySlotId, d.trainingSlotId => c.trainingSlotId
    PROVE  Moves(c, d)
<1>1. Stage(c.status) \in 0 .. 6
  BY StageNames DEF Snapshot
<1>2. Forward(c, d)
  BY <1>1 DEF Forward
<1> QED
  BY <1>2 DEF Moves, Untrained, StaysOut, PastChoice

\* A patch that the guard admits, set up or reopened only where it may be.
LEMMA AdmittedForward ==
    ASSUME NEW c \in Snapshot, NEW p, PatchOK(p), Admits(c, p), NEW d, d.status = Field(p, "status", c.status),
           "status" \in DOMAIN p /\ p["status"] = "STAGING_SETUP" => c.status \notin {"STAGING_ACTIVE", "OFFLINE_STAGING"}
    PROVE  /\ Forward(c, d)
           /\ Untrained(c) => StaysOut(c, d)
<1>1. PatchTyped(p) /\ c.status \in Status
  BY DEF PatchOK, Snapshot
<1>2. Stage(c.status) \in 0 .. 6
  BY <1>1, StageNames
<1>3. CASE d.status = c.status
  BY <1>2, <1>3 DEF Forward, StaysOut
<1>4. CASE d.status # c.status
  <2>1. "status" \in DOMAIN p /\ d.status = p["status"] /\ d.status \in Reached
    BY <1>4 DEF Field, PatchOK, Reached
  <2>2. AllowsTransition(c, d.status)
    BY <1>1, <1>4, AdmittedMoves
  <2>3. d.status = "STAGING_SETUP" => c.status \notin {"STAGING_ACTIVE", "OFFLINE_STAGING"}
    BY <2>1
  <2> QED
    BY <2>1, <2>2, <2>3, NotBack DEF Forward, StaysOut, Untrained
<1> QED
  BY <1>3, <1>4

LEMMA PatchMoves ==
    ASSUME NEW c \in Snapshot, NEW p, PatchOK(p), Admits(c, p),
           "status" \in DOMAIN p /\ p["status"] = "STAGING_SETUP" => c.status \notin {"STAGING_ACTIVE", "OFFLINE_STAGING"},
           c.interviewSlotId # Null /\ "interviewSlotId" \notin DOMAIN p => KeepsSlot(p)
    PROVE  Moves(c, Updated(c, c, p))
<1> DEFINE u == Updated(c, c, p)
<1>1. /\ u \in Snapshot /\ u.status = Field(p, "status", c.status)
      /\ u.hrDecision = Field(p, "hrDecision", c.hrDecision)
      /\ u.interviewSlotId = IF "interviewSlotId" \in DOMAIN p THEN Null ELSE c.interviewSlotId
      /\ (u.discoverySlotId => c.discoverySlotId) /\ (u.trainingSlotId => c.trainingSlotId)
  BY UpdatedRow DEF PatchOK
<1> HIDE DEF u
<1>2. Forward(c, u) /\ (Untrained(c) => Untrained(u) /\ StaysOut(c, u))
  BY <1>1, AdmittedForward DEF Untrained
<1>3. ASSUME age = "fits", PastChoice(c), u.interviewSlotId # Null
      PROVE  u.status \notin Early /\ u.hrDecision # "REJECTED_SYSTEM_UNDERAGE"
  <2>1. c.interviewSlotId # Null /\ KeepsSlot(p) /\ c.status \notin Early /\ c.hrDecision # "REJECTED_SYSTEM_UNDERAGE"
    BY <1>1, <1>3 DEF PastChoice
  <2>2. u.hrDecision # "REJECTED_SYSTEM_UNDERAGE"
    BY <1>1, <1>3, <2>1 DEF Field, PatchOK
  <2>3. u.status \notin Early
    <3>1. CASE u.status = c.status
      BY <2>1, <3>1
    <3>2. CASE u.status # c.status
      <4>1. "status" \in DOMAIN p /\ u.status = p["status"] /\ u.status \in Writable \ {"WAITLIST_HR"}
        BY <1>1, <2>1, <3>2 DEF Field, PatchOK, KeepsSlot
      <4>2. AllowsTransition(c, u.status) /\ u.status \in Reached
        BY <1>1, <3>2, <4>1, AdmittedMoves DEF PatchOK, Reached
      <4>3. ~ RecoverableUnderage(c)
        BY <2>1 DEF RecoverableUnderage
      <4> QED
        BY <2>1, <3>2, <4>1, <4>2, <4>3, Transitions DEF Early, Writable
    <3> QED
      BY <3>1, <3>2
  <2> QED
    BY <2>2, <2>3
<1> QED
  BY <1>2, <1>3 DEF Moves, PastChoice, u

\* The transaction of a reschedule.
LEMMA ReopeningMoves ==
    ASSUME NEW c \in Snapshot, c.interviewSlotId = Null, Admits(c, Back), NEW q, PatchOK(q), Reopens(q)
    PROVE  LET u == Updated(c, c, Back) IN Moves(c, Updated(u, u, q))
<1> DEFINE u == Updated(c, c, Back)
           d == Updated(u, u, q)
<1>1. /\ PatchOK(Back) /\ Field(Back, "status", c.status) = "WAITLIST_HR" /\ Back["status"] = "WAITLIST_HR"
      /\ "interviewSlotId" \notin DOMAIN Back
  BY PlainPatchesOK DEF Back, Field
<1>2. /\ u \in Snapshot /\ u.status = "WAITLIST_HR" /\ u.interviewSlotId = Null
      /\ (u.discoverySlotId => c.discoverySlotId) /\ (u.trainingSlotId => c.trainingSlotId)
  BY <1>1, UpdatedRow DEF PatchOK
<1>3. Forward(c, u) /\ (Untrained(c) => StaysOut(c, u))
  BY <1>1, <1>2, AdmittedForward
<1> HIDE DEF u
<1>4. Field(q, "status", u.status) = "SCREENING"
  BY DEF Reopens, Field
<1>5. /\ d \in Snapshot /\ d.status = "SCREENING" /\ d.interviewSlotId = Null
      /\ (d.discoverySlotId => u.discoverySlotId) /\ (d.trainingSlotId => u.trainingSlotId)
  BY <1>2, <1>4, UpdatedRow DEF PatchOK, Reopens
<1> HIDE DEF d
<1>6. Stage(u.status) = Stage(d.status)
  BY <1>2, <1>5, StageNames
<1>7. Forward(c, d) /\ (Untrained(c) => Untrained(d) /\ StaysOut(c, d))
  BY <1>2, <1>3, <1>5, <1>6 DEF Forward, StaysOut, Untrained
<1> QED
  BY <1>5, <1>7 DEF Moves, PastChoice, d, u


LEMMA WriteUpdateMoves ==
    ASSUME Base, Turn, NEW a \in Actors, WriteUpdate(a)
    PROVE  Moves(cand, cand')
<1> DEFINE t == run[a].todo
           ps == Call(a).patches
           p == ps[1]
           u == Updated(cand, cand, p)
<1>1. AtCall(a, "update") /\ run[a].read # Null
  BY DEF WriteUpdate
<1>2. /\ Running(a) /\ t # << >> /\ Call(a) = t[1] /\ t[1].op = "update" /\ t[1].patches = ps
      /\ Shape(scene, t, cand, web) /\ cand \in Snapshot
      /\ run[a].read = cand /\ Fine(a, t[1]) /\ Len(ps) \in {1, 2} /\ PatchOK(p)
      /\ Admits(cand, p)
  BY <1>1, AtHead DEF AtCall, Turn, Base, Call, Tables, TypeOK, Row, ReadsAreFresh, Fine
<1>3. \/ cand' = cand
      \/ Len(ps) = 1 /\ cand' = u
      \/ Len(ps) = 2 /\ cand' = Updated(u, u, ps[2])
  BY <1>2 DEF WriteUpdate
<1>4. Len(ps) = 2 => p = Back /\ PatchOK(ps[2]) /\ Reopens(ps[2])
  BY <1>2 DEF Fine
<1> HIDE DEF t, ps, u, p
<1>5. \/ Tame(scene, t, cand, web) \/ ClosingTraining(scene, t, cand, web) \/ Unlinking(scene, t, cand, web)
      \/ Opening(scene, t, cand, web) /\ t[1] = SetUp
  BY <1>2, HeadTells
<1>6. /\ CloseTraining.patches = <<Status1("TRAINING_COMPLETED")>> /\ Update(Unlink).patches = <<Unlink>>
      /\ SetUp.patches = <<Status1("STAGING_SETUP")>>
  BY DEF CloseTraining, Update, SetUp
<1>7. /\ KeepsSlot(Status1("TRAINING_COMPLETED")) /\ KeepsSlot(Status1("STAGING_SETUP"))
      /\ Status1("TRAINING_COMPLETED")["status"] = "TRAINING_COMPLETED"
      /\ "interviewSlotId" \in DOMAIN Unlink /\ "status" \notin DOMAIN Unlink
  BY DEF KeepsSlot, Status1, Unlink
<1>8. \A q : Len(<<q>>) = 1 /\ <<q>>[1] = q
  OBVIOUS
<1>9. CASE Tame(scene, t, cand, web)
  <2>1. Loose(t[1]) /\ (cand.interviewSlotId # Null => Plain(t[1]))
    BY <1>2, <1>9, TamerTail, PlainIsLoose DEF Tame
  <2>2. ~ ("status" \in DOMAIN p /\ p["status"] = "STAGING_SETUP")
    BY <1>2, <2>1 DEF Loose, SetsUp, p
  <2>4. cand.interviewSlotId # Null => KeepsSlot(p) /\ Len(ps) = 1
    BY <1>2, <2>1 DEF Plain, p
  <2>5. Moves(cand, u)
    BY <1>2, <2>2, <2>4, PatchMoves DEF u
  <2>6. CASE Len(ps) = 2 /\ cand' = Updated(u, u, ps[2])
    BY <1>2, <1>4, <2>4, <2>6, ReopeningMoves DEF u
  <2>7. CASE cand' = cand
    BY <1>2, <2>7, SameStageMoves
  <2> QED
    BY <1>3, <2>5, <2>6, <2>7
<1>10. CASE ~ Tame(scene, t, cand, web)
  <2>1. \/ p = Status1("TRAINING_COMPLETED") /\ Len(ps) = 1
        \/ p = Unlink /\ Len(ps) = 1
        \/ /\ p = Status1("STAGING_SETUP") /\ Len(ps) = 1
           /\ cand.status \notin {"STAGING_ACTIVE", "OFFLINE_STAGING"}
    <3>1. \/ ps = <<Status1("TRAINING_COMPLETED")>>
          \/ ps = <<Unlink>>
          \/ ps = <<Status1("STAGING_SETUP")>> /\ cand.status \notin {"STAGING_ACTIVE", "OFFLINE_STAGING"}
      BY <1>2, <1>5, <1>6, <1>10 DEF ClosingTraining, Unlinking, Opening, Invites
    <3> QED
      BY <1>8, <3>1 DEF p
  <2>2. "status" \in DOMAIN p /\ p["status"] = "STAGING_SETUP" =>
           cand.status \notin {"STAGING_ACTIVE", "OFFLINE_STAGING"}
    BY <1>7, <2>1
  <2>3. Moves(cand, u)
    BY <1>2, <1>7, <2>1, <2>2, PatchMoves DEF u
  <2>4. cand' = cand \/ cand' = u
    BY <1>3, <2>1
  <2> QED
    BY <1>2, <2>3, <2>4, SameStageMoves
<1> QED
  BY <1>9, <1>10

LEMMA WriteBookingMoves ==
    ASSUME Base, Turn, NEW a \in Actors, WriteBooking(a)
    PROVE  Moves(cand, cand')
<1> DEFINE s == Call(a).slot
           d == [Updated(cand, cand, Status1("INTERVIEW_SCHEDULED")) EXCEPT !.interviewSlotId = s]
<1>1. AtCall(a, "book") /\ run[a].read # Null
  BY DEF WriteBooking
<1>2. /\ cand \in Snapshot /\ run[a].read = cand /\ s \in Slots /\ cand.status # "REJECTED"
      /\ cand.hrDecision # "REJECTED_SYSTEM_UNDERAGE" /\ Admits(cand, Status1("INTERVIEW_SCHEDULED"))
  BY <1>1, AtHead DEF AtCall, Turn, Base, Tables, TypeOK, Row, ReadsAreFresh, Fine
<1>3. cand' = d
  BY <1>2 DEF WriteBooking
<1>4. /\ d.status = "INTERVIEW_SCHEDULED" /\ d.hrDecision = cand.hrDecision
      /\ (d.discoverySlotId => cand.discoverySlotId) /\ (d.trainingSlotId => cand.trainingSlotId)
  <2>1. ASSUME NEW c \in Snapshot, NEW x \in Slots
        PROVE  LET u == [Updated(c, c, Status1("INTERVIEW_SCHEDULED")) EXCEPT !.interviewSlotId = x] IN
               /\ u.status = "INTERVIEW_SCHEDULED" /\ u.hrDecision = c.hrDecision
               /\ (u.discoverySlotId => c.discoverySlotId) /\ (u.trainingSlotId => c.trainingSlotId)
    BY BookingRow
  <2> HIDE DEF s
  <2> QED
    BY <1>2, <2>1
<1> HIDE DEF d
<1>5. Forward(cand, d)
  <2>1. /\ PatchTyped(Status1("INTERVIEW_SCHEDULED"))
        /\ Field(Status1("INTERVIEW_SCHEDULED"), "status", cand.status) = "INTERVIEW_SCHEDULED"
    BY DEF PatchTyped, Status1, Status, InterviewTrack, Field
  <2>2. cand.status = "INTERVIEW_SCHEDULED" \/ AllowsTransition(cand, "INTERVIEW_SCHEDULED")
    BY <1>2, <2>1, AdmittedMoves
  <2>3. CASE cand.status = "INTERVIEW_SCHEDULED"
    BY <1>4, <2>3, StageNames DEF Forward
  <2>4. CASE AllowsTransition(cand, "INTERVIEW_SCHEDULED")
    <3>1. "INTERVIEW_SCHEDULED" \in Reached
      BY DEF Reached
    <3> QED
      BY <1>2, <1>4, <2>4, <3>1, NotBack DEF Forward
  <2> QED
    BY <2>2, <2>3, <2>4
<1>6. Untrained(cand) => Untrained(d) /\ StaysOut(cand, d)
  BY <1>2, <1>4 DEF Untrained, StaysOut
<1>7. PastChoice(d)
  BY <1>2, <1>4 DEF PastChoice, Early
<1> QED
  BY <1>3, <1>5, <1>6, <1>7 DEF Moves

LEMMA ArchiveMoves ==
    ASSUME Base, NEW a \in Actors, ArchiveBlocked(a)
    PROVE  Moves(cand, cand')
<1> DEFINE p == [status |-> "BLOCKER", notificationSent |-> FALSE, isWaitlisted |-> FALSE,
                 interviewSlotId |-> Null, discoverySlotId |-> FALSE, trainingSlotId |-> FALSE]
           d == Updated(cand, cand, p)
<1>1. cand' = cand \/ cand' = d
  BY DEF ArchiveBlocked
<1>2. cand \in Snapshot
  BY DEF Base, Tables, TypeOK, Row
<1>3. PatchTyped(p) /\ "interviewSlotId" \in DOMAIN p /\ Field(p, "status", cand.status) = "BLOCKER"
  BY DEF PatchTyped, Status, Field
<1> HIDE DEF p
<1>4. /\ d.status = "BLOCKER" /\ d.interviewSlotId = Null
      /\ (d.discoverySlotId => cand.discoverySlotId) /\ (d.trainingSlotId => cand.trainingSlotId)
  BY <1>2, <1>3, UpdatedRow
<1> HIDE DEF d
<1>5. Moves(cand, d)
  BY <1>4 DEF Moves, Forward, Untrained, StaysOut, PastChoice
<1> QED
  BY <1>1, <1>2, <1>5, SameStageMoves

\* Whatever a step does, by whomever.
LEMMA RowWriters ==
    ASSUME [Next]_vars
    PROVE  \/ cand' = cand
           \/ \E a \in Actors : \/ WriteUpdate(a) \/ ArchiveBlocked(a) \/ WriteBooking(a)
                                \/ FreeSlot(a)
<1>1. ASSUME NEW a \in Actors, OtherCalls(a), ~ FreeSlot(a) PROVE cand' = cand
  BY <1>1 DEF OtherCalls, ValidateUpdate, CheckPatch, Deliver, SendFails, SendIsBlocked, ReleaseWebSlot,
              CancelSlot, RemindSlot, MarkSent, MoveLocation, RefuseCommand, TakeSlot, ValidateBooking,
              RestoreWebSlot, Rest
<1>2. CASE Dispatch \/ Work \/ Tap \/ Crash \/ (\E k \in Commands : Issue(k)) \/ (\E s \in Slots : Pass(s))
  BY <1>2 DEF Dispatch, Fetch, BeginCommand, Ack, LoseAck, Work, NotifyDecision, AutoComplete, RecoverStale,
              RepairRejected, Works, Tap, TapSlot, TapCancel, Taps, Crash, Issue, Pass
<1>3. CASE \E a \in Actors : Calls(a)
  BY <1>1, <1>3 DEF Calls
<1>4. CASE UNCHANGED vars
  BY <1>4 DEF vars, state
<1> QED
  BY <1>2, <1>3, <1>4 DEF Next

LEMMA RowMoves ==
    ASSUME Base, Turn, [Next]_vars
    PROVE  Moves(cand, cand')
<1>1. cand \in Snapshot
  BY DEF Base, Tables, TypeOK, Row
<1>2. CASE cand' = cand
  BY <1>1, <1>2, SameStageMoves
<1>3. CASE \E a \in Actors : FreeSlot(a)
  <2>1. cand' = cand \/ cand' = [cand EXCEPT !.interviewSlotId = Null]
    BY <1>3 DEF FreeSlot, Unbooked
  <2>2. Moves(cand, [cand EXCEPT !.interviewSlotId = Null])
    <3> DEFINE d == [cand EXCEPT !.interviewSlotId = Null]
    <3>1. /\ d.status = cand.status /\ d.hrDecision = cand.hrDecision /\ d.interviewSlotId = Null
          /\ d.discoverySlotId = cand.discoverySlotId /\ d.trainingSlotId = cand.trainingSlotId
      BY <1>1 DEF Snapshot
    <3> HIDE DEF d
    <3>2. Moves(cand, d)
      BY <1>1, <3>1, SameStageMoves
    <3> QED
      BY <3>2 DEF d
  <2> QED
    BY <1>2, <2>1, <2>2
<1> QED
  BY <1>2, <1>3, RowWriters, WriteUpdateMoves, WriteBookingMoves, ArchiveMoves

\* One handler at a time: no step leads back to an earlier stage, and none, from
\* a row without the ids of old training slots, out of a rejection.
THEOREM NoWayBackAlways == Spec /\ ~ scene.overlap /\ NoTrainingSlot => NoWayBack
<1> DEFINE I == Base /\ Turn /\ ~ scene.overlap /\ NoTrainingSlot
<1>1. Init /\ ~ scene.overlap /\ NoTrainingSlot => I
  BY BaseInit, TurnInit
<1>2. ASSUME I, [Next]_vars PROVE Moves(cand, cand') /\ scene' = scene
  BY <1>2, RowMoves, SceneStays
<1>3. I /\ [Next]_vars => I'
  BY <1>2, BaseNext, TurnNext DEF InTurn, NoTrainingSlot, Moves
<1>4. I /\ [Next]_vars =>
         [cand'.status \in {"REJECTED", "BLOCKER"} \/ Stage(cand'.status) >= Stage(cand.status)]_vars
  BY <1>2 DEF Moves, Forward
<1>5. I /\ [Next]_vars =>
         [~ scene.overlap /\ cand.status = "REJECTED" /\ cand.hrDecision # "REJECTED_SYSTEM_UNDERAGE"
             => cand'.status \in {"REJECTED", "BLOCKER"}]_vars
  BY <1>2 DEF Moves, StaysOut, NoTrainingSlot
<1> QED
  BY <1>1, <1>3, <1>4, <1>5, PTL DEF Spec, NoWayBack, RejectedStaysOut, StagesGoForward


---------------------------------------------------------------------------
(* To whom an invitation goes.                                             *)

LEMMA InvitedStatus == "status" \in DOMAIN Invited /\ Invited["status"] = "SCREENING"
<1> DEFINE p == [notificationSent |-> TRUE, status |-> "SCREENING", isWaitlisted |-> FALSE,
                 interviewInvitedAt |-> TRUE, interviewInviteReminderSentAt |-> FALSE]
<1>1. PatchOK(p) /\ "status" \in DOMAIN p /\ p["status"] = "SCREENING"
  BY DEF PatchOK, PatchTyped, Status, Writable
<1> HIDE DEF p
<1>2. "status" \in DOMAIN With(p, Queued(FALSE)) /\ With(p, Queued(FALSE))["status"] = "SCREENING"
  BY <1>1, OtherColumns, WithOK
<1> QED
  BY <1>2 DEF Invited, p

LEMMA DeliverInvites ==
    ASSUME Base, Turn, BookedRow, NEW a \in Actors, Deliver(a),
           NEW i \in DOMAIN chat' \ DOMAIN chat, chat'[i].letter = "invitation"
    PROVE  cand.interviewSlotId = Null
<1> DEFINE t == run[a].todo
           x == [letter |-> Call(a).letter, by |-> a,
                 of |-> IF a = "dispatcher" THEN run[a].doing[1] ELSE Null]
<1>1. AtCall(a, "send") /\ chat' = Append(chat, x)
  BY DEF Deliver
<1>2. /\ Running(a) /\ t # << >> /\ Call(a) = t[1] /\ t[1].op = "send" /\ Fine(a, t[1])
      /\ Shape(scene, t, cand, web) /\ cand \in Snapshot
  BY <1>1, AtHead DEF AtCall, Turn, Base, Call, Tables, TypeOK, Row
<1>3. x.letter = t[1].letter
  BY <1>2
<1> HIDE DEF x, t
<1>4. chat'[i] = x
  <2>1. PICK S : chat \in Seq(S)
    BY DEF Base, Tables, ChatSound, IsList
  <2>2. chat \in Seq(S \cup {x}) /\ x \in S \cup {x}
    BY <2>1
  <2>3. chat' \in Seq(S \cup {x}) /\ Len(chat') = Len(chat) + 1 /\ Len(chat) \in Nat /\ chat'[Len(chat) + 1] = x
    BY <1>1, <2>2
  <2>4. DOMAIN chat = 1 .. Len(chat) /\ DOMAIN chat' = 1 .. Len(chat')
    BY <2>1, <2>3
  <2> QED
    BY <2>3, <2>4
<1>5. t[1].letter = "invitation"
  BY <1>3, <1>4
<1>6. age = "fits" /\ Admits(cand, Invited)
  BY <1>2, <1>5, HeadTells DEF Fine
<1>7. PatchTyped(Invited) /\ Field(Invited, "status", cand.status) = "SCREENING"
  BY InvitedOK, InvitedStatus DEF PatchOK, Field
<1>8. cand.status = "SCREENING" \/ AllowsTransition(cand, "SCREENING")
  BY <1>2, <1>6, <1>7, AdmittedMoves
<1>9. cand.status \in Early \/ RecoverableUnderage(cand)
  <2>1. "SCREENING" \in Reached
    BY DEF Reached, Writable
  <2> QED
    BY <1>2, <1>8, <2>1, Transitions DEF Early
<1> QED
  BY <1>6, <1>9 DEF BookedRow, PastChoice, RecoverableUnderage

LEMMA LetterWriters ==
    ASSUME [Next]_vars
    PROVE  chat' = chat \/ \E a \in Actors : Deliver(a)
<1>1. ASSUME NEW a \in Actors, Calls(a), ~ Deliver(a) PROVE chat' = chat
  BY <1>1 DEF Calls, OtherCalls, ValidateUpdate, WriteUpdate, CheckPatch, SendFails, SendIsBlocked, ArchiveBlocked,
              ReleaseWebSlot, CancelSlot, FreeSlot, RemindSlot, MarkSent, MoveLocation, RefuseCommand,
              TakeSlot, ValidateBooking, WriteBooking, RestoreWebSlot, Rest
<1>2. CASE Dispatch \/ Work \/ Tap \/ Crash \/ (\E k \in Commands : Issue(k)) \/ (\E s \in Slots : Pass(s))
  BY <1>2 DEF Dispatch, Fetch, BeginCommand, Ack, LoseAck, Work, NotifyDecision, AutoComplete, RecoverStale,
              RepairRejected, Works, Tap, TapSlot, TapCancel, Taps, Crash, Issue, Pass
<1>3. CASE UNCHANGED vars
  BY <1>3 DEF vars, state
<1> QED
  BY <1>1, <1>2, <1>3 DEF Next

\* One handler at a time, and from a row whose slot is past the choice of one:
\* nobody with a booking is told to choose a time.
THEOREM InvitedAreFreeAlways == Spec /\ ~ scene.overlap /\ BookedRow => InvitedAreFree
<1> DEFINE I == Base /\ Turn /\ ~ scene.overlap /\ BookedRow
<1>1. Init /\ ~ scene.overlap /\ BookedRow => I
  BY BaseInit, TurnInit
<1>2. I /\ [Next]_vars => I'
  <2> SUFFICES ASSUME I, [Next]_vars PROVE I'
    OBVIOUS
  <2>1. Moves(cand, cand') /\ scene' = scene /\ age' = age
    BY RowMoves, SceneStays
  <2>2. BookedRow'
    BY <2>1 DEF BookedRow, Moves
  <2> QED
    BY <2>1, <2>2, BaseNext, TurnNext DEF InTurn
<1>3. I /\ [Next]_vars =>
         [\A i \in DOMAIN chat' \ DOMAIN chat :
             ~ scene.overlap /\ chat'[i].letter = "invitation" => cand.interviewSlotId = Null]_vars
  BY LetterWriters, DeliverInvites
<1> QED
  BY <1>1, <1>2, <1>3, PTL DEF Spec, InvitedAreFree


LEMMA InviteUnfit ==
    ASSUME age \in Ages, age # "fits"
    PROVE  \E q : /\ PatchOK(q) /\ "status" \in DOMAIN q /\ q["status"] = "REJECTED"
                  /\ \A c : inviteCandidate(c) = <<Update(q), Refuse("failed")>>
<1> DEFINE q == With(Queued(FALSE), Uninvited)
<1>1. PatchOK(q)
  BY ReasonColumns
<1> HIDE DEF q
<1>2. CASE age = "not a woman"
  <2> DEFINE p == [status |-> "REJECTED", isWaitlisted |-> FALSE, notificationSent |-> FALSE]
  <2>1. \A c : inviteCandidate(c) = <<Update(With(p, q)), Refuse("failed")>>
    BY <1>2 DEF inviteCandidate, q
  <2>2. PatchOK(p) /\ "status" \in DOMAIN p /\ p["status"] = "REJECTED"
    BY DEF PatchOK, PatchTyped, Status, Writable
  <2> HIDE DEF p
  <2>3. PatchOK(With(p, q)) /\ "status" \in DOMAIN With(p, q) /\ With(p, q)["status"] = "REJECTED"
    BY <1>1, <2>2, WithOK
  <2> QED
    BY <2>1, <2>3
<1>3. CASE age \in {"underage", "too old"}
  <2> DEFINE d == IF age = "underage" THEN "REJECTED_SYSTEM_UNDERAGE" ELSE "AGE_LIMIT"
             p == [status |-> "REJECTED", isWaitlisted |-> FALSE, notificationSent |-> FALSE, hrDecision |-> d]
  <2>1. d \in Decision /\ (d = "REJECTED_SYSTEM_UNDERAGE" => age = "underage")
    BY DEF Decision
  <2>2. \A c : inviteCandidate(c) = <<Update(With(p, q)), Refuse("failed")>>
    BY <1>3 DEF inviteCandidate, q
  <2> HIDE DEF d
  <2>3. PatchOK(p) /\ "status" \in DOMAIN p /\ p["status"] = "REJECTED"
    BY <2>1 DEF PatchOK, PatchTyped, Status, Writable
  <2> HIDE DEF p
  <2>4. PatchOK(With(p, q)) /\ "status" \in DOMAIN With(p, q) /\ With(p, q)["status"] = "REJECTED"
    BY <1>1, <2>3, WithOK
  <2> QED
    BY <2>2, <2>4
<1> QED
  BY <1>2, <1>3 DEF Ages

\* How an actor's local state goes on at a call.
LEMMA CallGoes ==
    ASSUME Base, NEW a \in Actors, Calls(a)
    PROVE  \/ \E t, w : Leaves(a, t, w)
           \/ run' = [run EXCEPT ![a].read = cand]
           \/ \E t : run' = [run EXCEPT ![a].todo = t]
           \/ Rest(a) /\ Resting(a)
<1>1. (\E m : Went(a, m)) \/ Goes(a) \/ (\E w : Failed(a, w)) => \E t, w : Leaves(a, t, w)
  BY DEF Went, Goes, Failed
<1>2. \/ Goes(a) \/ (\E m : Went(a, m)) \/ (\E w : Failed(a, w)) \/ (Rest(a) /\ Resting(a))
      \/ run' = [run EXCEPT ![a].read = cand] \/ (\E t : run' = [run EXCEPT ![a].todo = t])
  <2>1. CASE ValidateUpdate(a) \/ WriteUpdate(a) \/ CheckPatch(a) \/ Deliver(a) \/ SendFails(a)
    BY <2>1 DEF ValidateUpdate, WriteUpdate, CheckPatch, Deliver, SendFails
  <2>2. CASE SendIsBlocked(a)
    <3> DEFINE how == Call(a).onBlocked
               barred == With([status |-> "BLOCKER", notificationSent |-> FALSE, isWaitlisted |-> FALSE],
                              Uninvited)
               then == <<Attempt(barred), Refuse("failed")>>
    <3>1. how \in {"archive", "bar", "throw", "ignore"}
      BY <2>2, AtHead DEF SendIsBlocked, Fine
    <3>2. \/ run' = [run EXCEPT ![a].todo = <<Archive>>] \/ run' = [run EXCEPT ![a].todo = then]
          \/ Failed(a, "failed") \/ Goes(a)
      BY <2>2, <3>1 DEF SendIsBlocked
    <3> HIDE DEF then
    <3> QED
      BY <3>2
  <2>3. CASE \/ ArchiveBlocked(a) \/ ReleaseWebSlot(a) \/ FreeSlot(a) \/ RemindSlot(a) \/ MarkSent(a)
             \/ MoveLocation(a) \/ RefuseCommand(a) \/ TakeSlot(a) \/ WriteBooking(a) \/ RestoreWebSlot(a)
             \/ Rest(a)
    BY <2>3 DEF ArchiveBlocked, ReleaseWebSlot, FreeSlot, RemindSlot, MarkSent, MoveLocation, RefuseCommand,
           TakeSlot, WriteBooking, RestoreWebSlot, Rest
  <2>4. CASE CancelSlot(a)
    <3>1. \/ Went(a, <<Update(Unlink), Free(Call(a).slot)>>) \/ Failed(a, "failed")
          \/ Went(a, <<Free(Call(a).slot)>>)
      BY <2>4, Zenon DEF CancelSlot, Unlink
    <3> QED
      BY <3>1
  <2>5. CASE ValidateBooking(a)
    <3> DEFINE undo == <<Release>> \o IF Call(a).before \in {Null, Call(a).slot} THEN << >> ELSE <<Restore(Call(a).before)>>
    <3>1. run' = [run EXCEPT ![a].read = cand] \/ Went(a, undo)
      BY <2>5, Zenon DEF ValidateBooking
    <3> HIDE DEF undo
    <3> QED
      BY <3>1
  <2> QED
    BY <2>1, <2>2, <2>3, <2>4, <2>5 DEF Calls, OtherCalls
<1> QED
  BY <1>1, <1>2

\* A call of one actor leaves the others', the outbox and her age alone.
LEMMA OwnCall ==
    ASSUME Base, NEW a \in Actors, Calls(a)
    PROVE  /\ outbox' = outbox /\ age' = age /\ Commands' = Commands
           /\ Running(a) /\ \A b \in Actors \ {a} : run'[b] = run[b]
           /\ touched \subseteq touched' /\ (a # "dispatcher" => touched' = touched)
<1>1. /\ outbox' = outbox /\ age' = age /\ scene' = scene /\ Running(a)
      /\ touched' = touched \/ Touch(a)
  BY DEF Calls, OtherCalls, ValidateUpdate, WriteUpdate, CheckPatch, Deliver, SendFails, SendIsBlocked, ArchiveBlocked,
         ReleaseWebSlot, CancelSlot, FreeSlot, RemindSlot, MarkSent, MoveLocation, RefuseCommand,
         TakeSlot, ValidateBooking, WriteBooking, RestoreWebSlot, Rest, AtCall, Ended
<1>2. touched \subseteq touched' /\ (a # "dispatcher" => touched' = touched)
  BY <1>1 DEF Touch
<1>3. \E r : run' = [run EXCEPT ![a] = r]
  <2>1. \/ \E t, w : Leaves(a, t, w)
        \/ run' = [run EXCEPT ![a].read = cand]
        \/ \E t : run' = [run EXCEPT ![a].todo = t]
        \/ Resting(a)
    BY CallGoes
  <2> QED
    BY <2>1, ReadIs, TodoIs DEF Leaves, Resting, Base
<1>4. \A b \in Actors \ {a} : run'[b] = run[b]
  BY <1>3 DEF Base, LocalsOK
<1> QED
  BY <1>1, <1>2, <1>4 DEF Commands

LEMMA DispatcherWrites ==
    ASSUME Base, Calls("dispatcher")
    PROVE  cand'.status = cand.status \/ Touch("dispatcher")
<1>1. "dispatcher" \in Actors /\ cand \in Snapshot
  BY DEF Actors, Base, Tables, TypeOK, Row
<1>2. ~ WriteBooking("dispatcher") /\ ~ TakeSlot("dispatcher")
  BY <1>1, AtHead DEF WriteBooking, TakeSlot, Fine
<1>3. CASE FreeSlot("dispatcher")
  BY <1>3 DEF FreeSlot
<1>4. CASE WriteUpdate("dispatcher")
  BY <1>4 DEF WriteUpdate
<1>5. CASE ArchiveBlocked("dispatcher")
  BY <1>5 DEF ArchiveBlocked
<1>6. CASE /\ Calls("dispatcher") /\ ~ FreeSlot("dispatcher") /\ ~ WriteUpdate("dispatcher")
           /\ ~ ArchiveBlocked("dispatcher")
  <2>1. cand' = cand
    BY <1>2, <1>6 DEF Calls, OtherCalls, ValidateUpdate, CheckPatch, Deliver, SendFails, SendIsBlocked, ReleaseWebSlot,
              CancelSlot, RemindSlot, MarkSent, MoveLocation, RefuseCommand, ValidateBooking, RestoreWebSlot, Rest
  <2> QED
    BY <2>1
<1> QED
  BY <1>3, <1>4, <1>5, <1>6

\* The dispatcher in an invitation.
LEMMA InvitationGoesOn ==
    ASSUME Base, Turn, age # "fits", TurnedAway, DispatcherInvites, Calls("dispatcher")
    PROVE  /\ TurnsAway(run'["dispatcher"].todo, cand', run'["dispatcher"].result)
           /\ cand' = cand \/ cand'.status = "REJECTED"
<1> DEFINE a == "dispatcher"
           t == run[a].todo
<1>1. a \in Actors /\ cand \in Snapshot /\ age \in Ages /\ LocalsOK /\ Running(a)
  BY DEF Actors, Base, Tables, TypeOK, Row, DispatcherInvites
<1>2. PICK q : /\ PatchOK(q) /\ "status" \in DOMAIN q /\ q["status"] = "REJECTED"
               /\ \A c : inviteCandidate(c) = <<Update(q), Refuse("failed")>>
  BY <1>1, InviteUnfit
<1>3. TurnsAway(t, cand, run[a].result)
  BY DEF TurnedAway
<1>4. \A r : run' = [run EXCEPT ![a] = r] => run'[a] = r
  BY <1>1 DEF LocalsOK
<1>5. \A s, w : Leaves(a, s, w) => run'[a].todo = s /\ run'[a].result = w
  <2> SUFFICES ASSUME NEW s, NEW w, Leaves(a, s, w) PROVE run'[a].todo = s /\ run'[a].result = w
    OBVIOUS
  <2> DEFINE r == [doing |-> run[a].doing, todo |-> s, read |-> Null, result |-> w]
  <2>1. run' = [run EXCEPT ![a] = r] /\ r.todo = s /\ r.result = w
    BY DEF Leaves
  <2> HIDE DEF r, a
  <2> QED
    BY <1>4, <2>1
<1>6. CASE t = inviteCandidate(cand)
  <2>1. t # << >> /\ t[1] = Update(q) /\ Tail(t) = <<Refuse("failed")>>
    <3>1. t = <<Update(q), Refuse("failed")>>
      BY <1>2, <1>6, Zenon
    <3> HIDE DEF t
    <3> DEFINE x == Update(q)
               y == Refuse("failed")
    <3> HIDE DEF x, y
    <3>2. t = <<x, y>>
      BY <3>1 DEF x, y
    <3>3. t # << >> /\ t[1] = x /\ Tail(t) = <<y>>
      BY <3>2
    <3> QED
      BY <3>3 DEF x, y
  <2>2. Call(a) = Update(q) /\ Update(q).op = "update" /\ Update(q).patches = <<q>> /\ Len(<<q>>) = 1 /\ <<q>>[1] = q
    BY <2>1 DEF Call, Update
  <2>3. Admits(cand, q) /\ Updated(cand, cand, q).status = "REJECTED"
    BY <1>1, <1>2, RejectionAdmitted DEF PatchOK
  <2> HIDE DEF a, t
  <2>4. ValidateUpdate(a) \/ WriteUpdate(a)
    <3>1. Call(a).op = "update" /\ Calls(a) /\ run[a].todo # << >> /\ a = "dispatcher"
      BY <2>1, <2>2 DEF a, t
    <3> QED
      BY <3>1 DEF Calls, OtherCalls, AtCall, Rest, CheckPatch, Deliver, SendFails, SendIsBlocked, ArchiveBlocked,
             ReleaseWebSlot, CancelSlot, FreeSlot, RemindSlot, MarkSent, MoveLocation, RefuseCommand,
             TakeSlot, ValidateBooking, WriteBooking, RestoreWebSlot
  <2>5. CASE ValidateUpdate(a)
    <3>1. run' = [run EXCEPT ![a].read = cand] /\ cand' = cand
      BY <2>2, <2>3, <2>5 DEF ValidateUpdate
    <3>2. run'[a].todo = t
      BY <1>1, <1>4, <3>1, ReadIs DEF t
    <3>3. inviteCandidate(cand) = inviteCandidate(cand')
      BY <1>2
    <3> QED
      BY <1>6, <3>1, <3>2 DEF TurnsAway, a
  <2>6. CASE WriteUpdate(a)
    <3>1. run[a].read = cand
      BY <1>1, <2>6 DEF WriteUpdate, Turn, ReadsAreFresh
    <3>2. cand' = Updated(cand, cand, q) /\ Goes(a)
      BY <2>2, <2>6, <3>1 DEF WriteUpdate
    <3>3. run'[a].todo = << >> \o Tail(t)
      BY <1>5, <3>2 DEF Goes, Went, t
    <3>4. << >> \o <<Refuse("failed")>> = <<Refuse("failed")>>
      OBVIOUS
    <3>5. run'[a].todo = <<Refuse("failed")>>
      BY <2>1, <3>3, <3>4
    <3> QED
      BY <2>3, <3>2, <3>5 DEF TurnsAway, a
  <2> QED
    BY <2>4, <2>5, <2>6
<1>7. CASE cand.status = "REJECTED" /\ t = <<Refuse("failed")>>
  <2>1. t # << >> /\ Call(a).op = "refuse" /\ Call(a).why = "failed"
    BY <1>7 DEF Call, Refuse
  <2> HIDE DEF a, t
  <2>2. RefuseCommand(a)
    <3>1. Call(a).op = "refuse" /\ Calls(a) /\ run[a].todo # << >> /\ a = "dispatcher"
      BY <2>1 DEF a, t
    <3> QED
      BY <3>1 DEF Calls, OtherCalls, AtCall, Rest, CheckPatch, Deliver, SendFails, SendIsBlocked, ArchiveBlocked,
             ReleaseWebSlot, CancelSlot, FreeSlot, RemindSlot, MarkSent, MoveLocation, ValidateUpdate, WriteUpdate,
             TakeSlot, ValidateBooking, WriteBooking, RestoreWebSlot
  <2>3. Leaves(a, << >>, "failed") /\ cand' = cand
    BY <2>1, <2>2 DEF RefuseCommand, Failed
  <2>4. run'[a].todo = << >> /\ run'[a].result = "failed"
    BY <1>5, <2>3
  <2> QED
    BY <1>7, <2>3, <2>4 DEF TurnsAway, a
<1>8. CASE t = << >>
  <2>1. FALSE
    BY <1>8 DEF Calls, OtherCalls, AtCall, Rest, CheckPatch, Deliver, SendFails, SendIsBlocked, ArchiveBlocked,
             ReleaseWebSlot, CancelSlot, FreeSlot, RemindSlot, MarkSent, MoveLocation, RefuseCommand, ValidateUpdate,
             WriteUpdate, TakeSlot, ValidateBooking, WriteBooking, RestoreWebSlot
  <2> QED
    BY <2>1
<1> QED
  BY <1>3, <1>6, <1>7, <1>8 DEF TurnsAway


LEMMA DoingStays ==
    ASSUME Base, Calls("dispatcher")
    PROVE  run'["dispatcher"].doing = run["dispatcher"].doing
<1> DEFINE a == "dispatcher"
<1>1. a \in Actors /\ LocalsOK
  BY DEF Actors, Base
<1>2. ~ Rest("dispatcher")
  BY DEF Rest
<1> HIDE DEF a
<1>3. \E d \in {run[a].doing} : \E t, r, w : run' = [run EXCEPT ![a] = [doing |-> d, todo |-> t, read |-> r, result |-> w]]
  <2>1. \/ \E t, w : Leaves(a, t, w)
        \/ run' = [run EXCEPT ![a].read = cand]
        \/ \E t : run' = [run EXCEPT ![a].todo = t]
    BY <1>1, <1>2, CallGoes DEF a
  <2> QED
    BY <1>1, <2>1, ReadIs, TodoIs DEF Leaves
<1>4. PICK t, r, w : run' = [run EXCEPT ![a] = [doing |-> run[a].doing, todo |-> t, read |-> r, result |-> w]]
  BY <1>3
<1> QED
  BY <1>1, <1>4 DEF LocalsOK, a

LEMMA DispatcherTurnsAway ==
    ASSUME Base, Turn, age # "fits", TurnedAway, Calls("dispatcher")
    PROVE  TurnedAway'
<1> DEFINE j == run["dispatcher"].doing[1]
<1>1. /\ outbox' = outbox /\ age' = age /\ Commands' = Commands /\ Running("dispatcher")
      /\ \A b \in Actors \ {"dispatcher"} : run'[b] = run[b]
      /\ touched \subseteq touched'
      /\ "dispatcher" \in Actors /\ "worker" \in Actors \ {"dispatcher"} /\ "candidate" \in Actors \ {"dispatcher"}
  BY OwnCall DEF Actors
<1>2. ~ Running("worker") /\ ~ Running("candidate") /\ ~ Running("worker")' /\ ~ Running("candidate")'
  BY <1>1 DEF Turn, OneAtATime, Running
<1>3. DispatcherInvites' => DispatcherInvites
  <2>1. run'["dispatcher"].doing = run["dispatcher"].doing
    BY <1>1, DoingStays
  <2> QED
    BY <1>1, <2>1 DEF DispatcherInvites, Running
<1>4. DispatcherInvites => /\ TurnsAway(run'["dispatcher"].todo, cand', run'["dispatcher"].result)
                           /\ cand' = cand \/ cand'.status = "REJECTED"
  BY InvitationGoesOn
<1>5. DispatcherInvites' => TurnsAway(run["dispatcher"].todo, cand, run["dispatcher"].result)'
  BY <1>1, <1>3, <1>4 DEF TurnsAway, inviteCandidate
<1>6. ASSUME NEW k \in Commands, Refused(k)' PROVE OutForGood'
  <2>1. Refused(k) /\ outbox[k].kind = "INVITE_TO_INTERVIEW" /\ touched' \subseteq {k}
    BY <1>1, <1>6 DEF Refused
  <2>2. cand.status = "REJECTED"
    BY <2>1 DEF TurnedAway, OutForGood
  <2>3. CASE DispatcherInvites
    BY <1>2, <1>4, <2>2, <2>3 DEF OutForGood
  <2>4. CASE ~ DispatcherInvites
    <3>1. j # k
      BY <1>1, <2>1, <2>4 DEF DispatcherInvites
    <3>2. ~ Touch("dispatcher")
      BY <2>1, <3>1 DEF Touch
    <3>3. cand'.status = cand.status
      BY <3>2, DispatcherWrites
    <3> QED
      BY <1>2, <2>2, <3>3 DEF OutForGood
  <2> QED
    BY <2>3, <2>4
<1> QED
  BY <1>1, <1>5, <1>6 DEF TurnedAway

\* The commands that may end with a failure of the web app before anything was done.
AsksFirst(k) ==
    \/ outbox[k].kind = "RESCHEDULE_INTERVIEW"
    \/ outbox[k].kind = "REJECT_AFTER_INTERVIEW" /\ cand.status # "REJECTED"

LEMMA TurnedAwayNext == Base /\ Turn /\ ~ scene.overlap /\ TurnedAway /\ [Next]_vars => TurnedAway'
<1> SUFFICES ASSUME Base, Turn, ~ scene.overlap, TurnedAway, [Next]_vars, age # "fits" PROVE TurnedAway'
  BY SceneStays DEF TurnedAway
<1>1. /\ age' = age /\ Commands' = Commands /\ age \in Ages /\ LocalsOK
      /\ "dispatcher" \in Actors /\ "worker" \in Actors /\ "candidate" \in Actors
      /\ \A c, d : inviteCandidate(c) = inviteCandidate(d)
  <2>1. age \in Ages /\ LocalsOK
    BY DEF Base, Tables, TypeOK
  <2>2. \A c, d : inviteCandidate(c) = inviteCandidate(d)
    BY <2>1, InviteUnfit
  <2> QED
    BY <2>1, <2>2, SceneStays DEF Commands, Actors
<1>2. ASSUME run' = run, cand' = cand, outbox' = outbox, touched' = touched PROVE TurnedAway'
  BY <1>1, <1>2 DEF TurnedAway, DispatcherInvites, TurnsAway, Refused, OutForGood, Running, inviteCandidate
<1>3. CASE UNCHANGED vars
  BY <1>2, <1>3 DEF vars, state
<1>4. CASE Fetch \/ \E s \in Slots : Pass(s)
  BY <1>2, <1>4 DEF Fetch, Pass
<1>5. CASE \E k \in Commands : Issue(k)
  <2>1. PICK k \in Commands : Issue(k)
    BY <1>5
  <2>2. /\ run' = run /\ cand' = cand /\ touched' = touched /\ outbox[k].status = "none"
        /\ \A i \in Commands \ {k} : outbox'[i] = outbox[i]
        /\ outbox'[k].attempts = 0
    BY <2>1 DEF Issue, Unissued, Base, Tables, TypeOK
  <2>3. DispatcherInvites' => DispatcherInvites
    <3>1. Running("dispatcher") => run["dispatcher"].doing[1] \in Commands \ {k}
      BY <1>1, <2>2 DEF LocalsOK, LocalOK, Running, Entry
    <3> QED
      BY <2>2, <3>1 DEF DispatcherInvites, Running
  <2>4. \A i \in Commands : Refused(i)' => Refused(i)
    BY <2>2 DEF Refused
  <2>5. OutForGood => OutForGood'
    BY <2>2 DEF OutForGood, Running
  <2>6. TurnsAway(run["dispatcher"].todo, cand, run["dispatcher"].result) =>
           TurnsAway(run["dispatcher"].todo, cand, run["dispatcher"].result)'
    BY <1>1, <2>2 DEF TurnsAway, inviteCandidate
  <2> QED
    BY <1>1, <2>3, <2>4, <2>5, <2>6 DEF TurnedAway
<1>6. CASE BeginCommand
  <2> DEFINE k == batch[1][1]
  <2>1. /\ cand' = cand /\ touched' = touched /\ outbox' = outbox /\ batch # << >> /\ Quiet
    BY <1>6 DEF BeginCommand, MayBegin, Quiet
  <2>2. \/ \E offered \in BOOLEAN : Begun("dispatcher", batch[1], Todo(k, batch[1][2], offered))
        \/ AsksFirst(k) /\ Begun("dispatcher", batch[1], <<Refuse("failed")>>)
    BY <1>6 DEF BeginCommand, AsksWebFirst, AsksFirst, beforeMeeting
  <2>3. outbox[k].kind = "INVITE_TO_INTERVIEW" => \A n, offered : Todo(k, n, offered) = inviteCandidate(cand)
    BY DEF Todo
  <2> HIDE DEF k
  <2>4. \E t : Begun("dispatcher", batch[1], t) /\ (outbox[k].kind = "INVITE_TO_INTERVIEW" => t = inviteCandidate(cand))
    BY <2>2, <2>3 DEF AsksFirst
  <2>5. PICK t : Begun("dispatcher", batch[1], t) /\ (outbox[k].kind = "INVITE_TO_INTERVIEW" => t = inviteCandidate(cand))
    BY <2>4
  <2>6. /\ run'["dispatcher"].doing = batch[1] /\ run'["dispatcher"].todo = t
        /\ run'["worker"] = run["worker"] /\ run'["candidate"] = run["candidate"]
    BY <1>1, <2>5 DEF Begun, LocalsOK, Actors
  <2>7. DispatcherInvites' => outbox[k].kind = "INVITE_TO_INTERVIEW"
    BY <2>1, <2>6 DEF DispatcherInvites, k
  <2>8. DispatcherInvites' => TurnsAway(run["dispatcher"].todo, cand, run["dispatcher"].result)'
    BY <1>1, <2>1, <2>5, <2>6, <2>7 DEF TurnsAway, inviteCandidate
  <2>9. /\ \A i \in Commands : Refused(i)' => Refused(i)
        /\ OutForGood => OutForGood'
    BY <2>1, <2>6 DEF Refused, OutForGood, Running
  <2> QED
    BY <1>1, <2>8, <2>9 DEF TurnedAway
<1>7. CASE Ack \/ LoseAck
  <2> DEFINE k == run["dispatcher"].doing[1]
             w == run["dispatcher"].result
  <2>1. /\ cand' = cand /\ touched' = touched /\ Ended("dispatcher") /\ Resting("dispatcher")
        /\ outbox' = Acked(k, w) \/ outbox' = outbox
    BY <1>7 DEF Ack, LoseAck
  <2>2. /\ run'["dispatcher"].doing = Null
        /\ run'["worker"] = run["worker"] /\ run'["candidate"] = run["candidate"]
    BY <1>1, <2>1 DEF Resting, Idle, LocalsOK, Actors
  <2>3. ~ DispatcherInvites'
    BY <2>2 DEF DispatcherInvites, Running
  <2>4. ~ Running("worker") /\ ~ Running("candidate") /\ ~ Running("worker")' /\ ~ Running("candidate")'
    BY <1>1, <2>1, <2>2 DEF Turn, OneAtATime, Running, Ended
  <2>5. ASSUME NEW i \in Commands, Refused(i)' PROVE cand.status = "REJECTED"
    <3>1. CASE Refused(i)
      BY <3>1 DEF TurnedAway, OutForGood
    <3>2. CASE ~ Refused(i)
      <4>1. i = k /\ w # "ok" /\ outbox[k].kind = "INVITE_TO_INTERVIEW"
        <5>1. k \in Commands /\ outbox = [h \in Commands |-> outbox[h]]
          BY <1>1, <2>1 DEF LocalsOK, LocalOK, Ended, Running, Entry, Base, Tables, TypeOK
        <5>2. outbox[k] \in [kind : KindNames \cup {Null}, status : {"none", "PENDING", "APPLIED", "FAILED"},
                             attempts : 0 .. scene.attempts, reason : {"ok", "failed", "state_conflict"}]
          BY <5>1 DEF Base, Tables, TypeOK
        <5>3. outbox' # outbox
          BY <2>1, <2>5, <3>2 DEF Refused
        <5>4. \/ outbox' = [outbox EXCEPT ![k].status = "APPLIED"]
              \/ /\ w # "ok"
                 /\ outbox' = [outbox EXCEPT ![k] =
                        [kind |-> outbox[k].kind,
                         status |-> IF w = "state_conflict" \/ outbox[k].attempts + 1 = scene.attempts
                                    THEN "FAILED" ELSE "PENDING",
                         attempts |-> outbox[k].attempts + 1, reason |-> w]]
          BY <2>1, <5>3 DEF Acked
        <5>5. \A h \in Commands : outbox'[h].kind = outbox[h].kind
          BY <5>1, <5>2, <5>4, SMTT(90)
        <5>6. \A h \in Commands : outbox'[h].attempts = outbox[h].attempts \/ (h = k /\ w # "ok")
          BY <5>1, <5>2, <5>4, SMTT(90)
        <5>7. outbox'[i].attempts # outbox[i].attempts
          BY <2>1, <2>5, <3>2, <5>5 DEF Refused
        <5> QED
          BY <2>5, <5>5, <5>6, <5>7 DEF Refused
      <4>2. TurnsAway(run["dispatcher"].todo, cand, w)
        BY <2>1, <4>1 DEF TurnedAway, DispatcherInvites, Ended
      <4>3. inviteCandidate(cand) # << >> /\ <<Refuse("failed")>> # << >>
        <5>1. PICK q : \A c : inviteCandidate(c) = <<Update(q), Refuse("failed")>>
          BY <1>1, InviteUnfit
        <5>2. \A x, y : <<x>> # << >> /\ <<x, y>> # << >>
          OBVIOUS
        <5> QED
          BY <5>1, <5>2
      <4> QED
        BY <2>1, <4>2, <4>3 DEF TurnsAway, Ended
    <3> QED
      BY <3>1, <3>2
  <2> QED
    BY <1>1, <2>1, <2>3, <2>4, <2>5 DEF TurnedAway, OutForGood
<1>8. CASE Crash
  <2>1. /\ run' = [b \in Actors |-> Idle] /\ cand' = cand /\ outbox' = outbox /\ touched' = touched
    BY <1>8 DEF Crash
  <2>2. \A b \in Actors : ~ Running(b)'
    BY <2>1 DEF Running, Idle
  <2> QED
    BY <1>1, <2>1, <2>2 DEF TurnedAway, DispatcherInvites, Refused, OutForGood
<1>9. CASE Work \/ Tap
  <2>1. /\ cand' = cand /\ outbox' = outbox /\ touched' = touched /\ Quiet /\ cand.status # "REJECTED"
        /\ \E a \in {"worker", "candidate"} : \E d, t : Begun(a, d, t)
    <3>1. CASE Work
      BY <3>1 DEF Work, NotifyDecision, AutoComplete, OverdueBooking, RecoverStale, StaleBooking, RepairRejected, Works, MayBegin,
             Quiet
    <3>2. CASE Tap
      BY <3>2 DEF Tap, TapSlot, TapCancel, Taps, MayBegin, Quiet, canRescheduleInterview
    <3> QED
      BY <1>9, <3>1, <3>2
  <2>2. ~ Running("dispatcher")'
    <3>1. run'["dispatcher"] = run["dispatcher"]
      BY <1>1, <2>1 DEF Begun, LocalsOK
    <3> QED
      BY <1>1, <2>1, <3>1 DEF Running, Quiet
  <2>3. \A i \in Commands : ~ Refused(i)'
    BY <2>1 DEF Refused, TurnedAway, OutForGood
  <2> QED
    BY <1>1, <2>2, <2>3 DEF TurnedAway, DispatcherInvites
<1>10. CASE \E a \in Actors : Calls(a)
  <2>1. CASE Calls("dispatcher")
    BY <2>1, DispatcherTurnsAway
  <2>2. CASE \E a \in {"worker", "candidate"} : Calls(a)
    <3>1. PICK a \in {"worker", "candidate"} : Calls(a)
      BY <2>2
    <3>2. /\ outbox' = outbox /\ touched' = touched /\ Running(a) /\ a \in Actors
          /\ run'["dispatcher"] = run["dispatcher"]
      BY <1>1, <3>1, OwnCall
    <3>3. ~ Running("dispatcher") /\ ~ Running("dispatcher")'
      BY <1>1, <3>2 DEF Turn, OneAtATime, Running
    <3>4. \A i \in Commands : ~ Refused(i)'
      BY <3>2 DEF Refused, TurnedAway, OutForGood
    <3> QED
      BY <1>1, <3>3, <3>4 DEF TurnedAway, DispatcherInvites
  <2> QED
    BY <1>10, <2>1, <2>2 DEF Actors
<1> QED
  BY <1>3, <1>4, <1>5, <1>6, <1>7, <1>8, <1>9, <1>10 DEF Next, Dispatch


LEMMA TurnedAwayInit == Init => TurnedAway
<1> SUFFICES ASSUME Init PROVE TurnedAway
  OBVIOUS
<1>1. ~ Running("dispatcher")
  BY DEF Init, Idle, Running, Actors
<1>2. \A k \in Commands : outbox[k].attempts = 0
  BY DEF Init
<1>3. \A k \in Commands : ~ Refused(k)
  BY <1>2 DEF Refused
<1> QED
  BY <1>1, <1>3 DEF TurnedAway, DispatcherInvites

\* While nothing overlaps, who is too young, too old or not a woman reads no
\* invitation to an interview, and a command that has failed to invite her leaves her
\* rejected until another one writes to her row (inviteCandidate of commands.ts).
THEOREM UnfitAreTurnedAwayAlways == Spec /\ ~ scene.overlap => []UnfitAreTurnedAway
<1> DEFINE I == Base /\ Turn /\ ~ scene.overlap /\ TurnedAway
<1>1. Init /\ ~ scene.overlap => I
  BY BaseInit, TurnInit, TurnedAwayInit
<1>2. I /\ [Next]_vars => I'
  BY BaseNext, TurnNext, TurnedAwayNext, SceneStays DEF InTurn
<1>3. I => UnfitAreTurnedAway
  <2> SUFFICES ASSUME I, age # "fits" PROVE UnfitAreTurnedAway
    BY DEF UnfitAreTurnedAway
  <2>1. \A i \in DOMAIN chat : chat[i].letter # "invitation"
    <3>1. DOMAIN chat = 1 .. Len(chat)
      BY DEF Base, Tables, ChatSound, IsList
    <3> QED
      BY <3>1 DEF Base, Tables, ChatSound
  <2>2. ASSUME NEW k \in Commands, outbox[k].kind = "INVITE_TO_INTERVIEW", outbox[k].status = "FAILED",
               touched \subseteq {k}
        PROVE  cand.status = "REJECTED"
    <3>1. outbox[k].attempts > 0
      BY <2>2 DEF Base, Tables, OutboxSound
    <3> QED
      BY <2>2, <3>1 DEF TurnedAway, Refused, OutForGood
  <2> QED
    BY <2>1, <2>2 DEF UnfitAreTurnedAway
<1> QED
  BY <1>1, <1>2, <1>3, PTL DEF Spec

\* While nothing overlaps, and rows with a slot are past the choice of one: an
\* invitation goes neither to who is unfit nor to who has a booking
\* (inviteCandidate and deliver of commands.ts).
THEOREM InvitationsAreRightAlways == Spec /\ ~ scene.overlap /\ BookedRow => InvitationsAreRight
  BY UnfitAreTurnedAwayAlways, InvitedAreFreeAlways, PTL DEF InvitationsAreRight


---------------------------------------------------------------------------
(* What she is told: definitions.                                          *)

\* The dispatcher holds a command once, and as the web app has it.
InHand(e) == outbox[e[1]].status = "PENDING" /\ outbox[e[1]].attempts = e[2]
HeldOnce ==
    /\ \A i \in 1 .. Len(batch) : InHand(batch[i])
    /\ \A i, j \in 1 .. Len(batch) : batch[i][1] = batch[j][1] => i = j
    /\ Running("dispatcher") =>
          /\ InHand(run["dispatcher"].doing)
          /\ \A i \in 1 .. Len(batch) : batch[i][1] # run["dispatcher"].doing[1]
Doing(k) == Running("dispatcher") /\ run["dispatcher"].doing[1] = k
Left == run["dispatcher"].todo

\* What is left of a move; from the first attempt at a letter on, she is told, or
\* the command fails, and its retry tells her.
TellOfMove == Send("location changed", "throw", "throw")
MoveLeft(t) == t \in {<< >>, <<TellOfMove>>, <<Move, TellOfMove>>, <<Refuse("failed")>>}
HeardOfMove == \E i \in DOMAIN chat : chat[i].letter = "location changed"
MoveGoesOn(k) ==
    \/ HeardOfMove
    \/ outbox[k].status = "FAILED"
    \/ /\ moved /\ outbox[k].status = "PENDING"
       /\ IF Doing(k)
          THEN \/ Left \in {<<TellOfMove>>, <<Refuse("failed")>>}
               \/ Left = << >> /\ run["dispatcher"].result # "ok"
          ELSE outbox[k].attempts > 0
MovesAreTold ==
    \A k \in Commands : outbox[k].kind = "CHANGE_LOCATION" =>
        /\ Doing(k) => MoveLeft(Left)
        /\ mishaps = 0 /\ k \in touched => MoveGoesOn(k)

\* What is left of a verdict.
NoteTold == Update([notificationSent |-> TRUE])
Close == Update(Closed("REJECTED"))
Decides(kind, p) ==
    /\ "status" \in DOMAIN p /\ p["status"] = IF kind = "ACCEPT_AFTER_INTERVIEW" THEN "MENTOR_MANUAL" ELSE "REJECTED"
    /\ "hrDecision" \in DOMAIN p
    /\ p["hrDecision"] = IF kind = "ACCEPT_AFTER_INTERVIEW" THEN "ACCEPTED" ELSE "REJECTED"
Decided(kind, c) ==
    IF kind = "ACCEPT_AFTER_INTERVIEW" THEN c.status = "MENTOR_MANUAL" /\ c.hrDecision = "ACCEPTED"
    ELSE c.status = "REJECTED" /\ (kind = "REJECT_AFTER_INTERVIEW" => c.hrDecision = "REJECTED")
Settled(kind, c) == Decided(kind, c) /\ (kind # "REJECT" => c.notificationSent)
Letterless(t) == \A i \in 1 .. Len(t) : t[i].op # "send"
TellsLast(kind, t, n) ==
    /\ n \in 1 .. Len(t) /\ t[n].op = "send"
    /\ IF kind = "REJECT" THEN Len(t) = n ELSE Len(t) = n + 1 /\ t[n + 1] = NoteTold
YetToTell(kind, t, c) ==
    \/ Letterless(t)
    \/ Decided(kind, c) /\ TellsLast(kind, t, 1)
    \/ \E m \in 1 .. Len(t) :
          /\ t[m].op = "update" /\ Len(t[m].patches) = 1 /\ Decides(kind, t[m].patches[1]) /\ t[m].must
          /\ \A i \in 1 .. m : t[i].op # "send"
          /\ TellsLast(kind, t, m + 1)
    \/ kind = "REJECT" /\ Len(t) = 3 /\ t[1].op = "send" /\ Tail(t) = <<Mark, Close>>
ToldLeft(kind, t, c) ==
    \/ t = << >> /\ Settled(kind, c)
    \/ t = <<NoteTold>> /\ kind # "REJECT" /\ Decided(kind, c)
    \/ t \in {<<Mark, Close>>, <<Close>>} /\ kind = "REJECT"
ToldOnce(k, kind, c) ==
    IF Doing(k) THEN ToldLeft(kind, Left, c)
    ELSE Settled(kind, c) /\ ~ Running("worker") /\ ~ Running("candidate")
VerdictGoesOn(k) ==
    LET kind == outbox[k].kind IN
    \/ LettersOf(k) = {} /\ (Doing(k) => YetToTell(kind, Left, cand))
    \/ (\E i \in DOMAIN chat : LettersOf(k) = {i}) /\ ToldOnce(k, kind, cand)
VerdictsAreToldOnce ==
    \A k \in Commands : outbox[k].kind \in Verdicts /\ touched \subseteq {k} => VerdictGoesOn(k)

\* What is left when she is told no.
Nos == {"rejection", "thanks for the talk, rejection", "training rejection", "no-show"}
Yeses == {"invitation", "slots", "no slots", "offer", "approved", "location changed"}
SaysNo(x) == x.op = "send" /\ x.letter \in Nos
SaysYes(x) == x.op = "send" /\ x.letter \in Yeses
Gone(c) == c.status \in {"REJECTED", "BLOCKER"} /\ c.hrDecision # "REJECTED_SYSTEM_UNDERAGE"
Rejects(x) ==
    x.op = "update" /\ Len(x.patches) = 1 /\ "status" \in DOMAIN x.patches[1] /\ x.patches[1]["status"] = "REJECTED"
Decision1(x, c) == Field(x.patches[1], "hrDecision", c.hrDecision)
Ends(t, c) ==
    /\ Len(t) = 1 \/ (Len(t) = 2 /\ t[1].op = "mark")
    /\ Rejects(t[Len(t)]) /\ Decision1(t[Len(t)], c) # "REJECTED_SYSTEM_UNDERAGE"
Unhopeful(t) == \A i \in 1 .. Len(t) : ~ SaysYes(t[i])
Harmless(t) == \A i \in 1 .. Len(t) : ~ SaysNo(t[i])
Closing(x) ==
    /\ Rejects(x) /\ "hrDecision" \in DOMAIN x.patches[1]
    /\ x.patches[1]["hrDecision"] # "REJECTED_SYSTEM_UNDERAGE"
Honest(t, c) ==
    \/ Harmless(t)
    \/ Gone(c) /\ Unhopeful(t)
    \/ t # << >> /\ SaysNo(t[1]) /\ Ends(Tail(t), c)
    \/ \E m \in 1 .. Len(t) :
          /\ Closing(t[m])
          /\ \A i \in 1 .. m : t[i].op # "send"
          /\ \A i \in m + 1 .. Len(t) : ~ SaysYes(t[i])
Reviving(p) == "status" \in DOMAIN p /\ p["status"] \in {"SCREENING", "MENTOR_MANUAL"}
Barred(x) ==
    \/ x.op = "check" /\ x.patch = Invited
    \/ x.op = "update" /\ x.must /\ Len(x.patches) = 1 /\ Reviving(x.patches[1])
    \/ x.op = "update" /\ x.must /\ Len(x.patches) = 2
Hopeless(t) == Unhopeful(t) \/ (t # << >> /\ Barred(t[1]))
ToldNo == \E i \in DOMAIN chat : chat[i].letter \in Nos
NoIsNo ==
    /\ NoHopeAfterRejection
    /\ \A a \in Actors : Running(a) => Honest(run[a].todo, cand)
    /\ ToldNo => \/ Gone(cand) /\ \A a \in Actors : Running(a) => Hopeless(run[a].todo)
                 \/ \E a \in Actors : Running(a) /\ Ends(run[a].todo, cand)

---------------------------------------------------------------------------
(* How a call leaves the list of its handler.                              *)

Onwards(a) == run'[a].todo = Tail(run[a].todo) /\ run'[a].result = run[a].result
Stops(a) == run'[a].todo = << >> /\ run'[a].result # "ok"
Becomes(a, t) == run'[a].todo = t /\ run'[a].result = run[a].result

Bar == With([status |-> "BLOCKER", notificationSent |-> FALSE, isWaitlisted |-> FALSE], Uninvited)
UpdateStep(a) ==
    LET ps == Call(a).patches
        first == Updated(cand, run[a].read, ps[1]) IN
    /\ chat' = chat /\ moved' = moved
    /\ \/ /\ run[a].read = Null /\ cand' = cand /\ touched' = touched
          /\ Admits(cand, ps[1]) /\ Becomes(a, run[a].todo)
       \/ /\ run[a].read = Null /\ cand' = cand /\ touched' = touched
          /\ ~ Admits(cand, ps[1])
          /\ IF Call(a).must THEN Stops(a) ELSE Onwards(a)
       \/ /\ run[a].read # Null /\ Onwards(a) /\ Touch(a)
          /\ IF Len(ps) = 1 THEN cand' = first
             ELSE Admits(first, ps[2]) /\ cand' = Updated(first, first, ps[2])
       \/ run[a].read # Null /\ Len(ps) = 2 /\ Stops(a) /\ cand' = cand /\ touched' = touched
SendStep(a) ==
    LET x == Call(a) IN
    /\ cand' = cand /\ touched' = touched /\ moved' = moved
    /\ \/ /\ Onwards(a)
          /\ chat' = Append(chat, [letter |-> x.letter, by |-> a,
                                   of |-> IF a = "dispatcher" THEN run[a].doing[1] ELSE Null])
       \/ chat' = chat /\ IF x.onFailure = "throw" THEN Stops(a) ELSE Onwards(a)
       \/ /\ chat' = chat /\ "blocked" \in scene.faults
          /\ \/ x.onBlocked = "archive" /\ Becomes(a, <<Archive>>)
             \/ x.onBlocked = "bar" /\ Becomes(a, <<Attempt(Bar), Refuse("failed")>>)
             \/ x.onBlocked = "throw" /\ Stops(a)
             \/ x.onBlocked = "ignore" /\ Onwards(a)
CancelStep(a) ==
    LET s == Call(a).slot
        rest == Tail(run[a].todo) IN
    /\ cand' = cand /\ touched' = touched /\ chat' = chat /\ moved' = moved
    /\ Stops(a) \/ Becomes(a, <<Update(Unlink), Free(s)>> \o rest) \/ Becomes(a, <<Free(s)>> \o rest)

\* What an actor's local state becomes.
LEMMA LocalAfter ==
    ASSUME LocalsOK, NEW a \in Actors
    PROVE  /\ \A t, w : Leaves(a, t, w) =>
                 /\ run'[a].doing = run[a].doing /\ run'[a].todo = t
                 /\ run'[a].read = Null /\ run'[a].result = w
           /\ \A c : run' = [run EXCEPT ![a].read = c] =>
                 /\ run'[a].doing = run[a].doing /\ run'[a].todo = run[a].todo
                 /\ run'[a].read = c /\ run'[a].result = run[a].result
           /\ \A t : run' = [run EXCEPT ![a].todo = t] =>
                 /\ run'[a].doing = run[a].doing /\ run'[a].todo = t
                 /\ run'[a].read = run[a].read /\ run'[a].result = run[a].result
<1>1. \A r : run' = [run EXCEPT ![a] = r] => run'[a] = r
  BY DEF LocalsOK
<1>2. ASSUME NEW d, NEW t, NEW c, NEW w, run' = [run EXCEPT ![a] = [doing |-> d, todo |-> t, read |-> c, result |-> w]]
      PROVE  run'[a].doing = d /\ run'[a].todo = t /\ run'[a].read = c /\ run'[a].result = w
  BY <1>1, <1>2
<1> QED
  BY <1>2, ReadIs, TodoIs DEF Leaves

\* Which action a call is.
LEMMA ActionOf ==
    ASSUME Base, NEW a \in Actors, Calls(a), run[a].todo # << >>
    PROVE  LET op == Call(a).op IN
           /\ Running(a) /\ AtCall(a, op) /\ op \in Ops /\ Fine(a, Call(a))
           /\ op = "update" => ValidateUpdate(a) \/ WriteUpdate(a)
           /\ op = "check" => CheckPatch(a)
           /\ op = "send" => Deliver(a) \/ SendFails(a) \/ SendIsBlocked(a)
           /\ op = "release" => ReleaseWebSlot(a)
           /\ op = "cancel" => CancelSlot(a)
           /\ op = "free" => FreeSlot(a)
           /\ op = "remind" => RemindSlot(a)
           /\ op = "archive" => ArchiveBlocked(a)
           /\ op = "mark" => MarkSent(a)
           /\ op = "move" => MoveLocation(a)
           /\ op = "refuse" => RefuseCommand(a)
           /\ op = "take" => TakeSlot(a)
           /\ op = "book" => ValidateBooking(a) \/ WriteBooking(a)
           /\ op = "restore" => RestoreWebSlot(a)
<1>1. ~ Rest(a) /\ Running(a)
  BY OwnCall DEF Rest, Ended
<1>2. AtCall(a, Call(a).op)
  BY <1>1 DEF AtCall
<1>3. Fine(a, Call(a))
  BY <1>2, AtHead
<1>4. Call(a).op \in Ops
  BY <1>3 DEF Fine
<1> QED
  BY <1>1, <1>2, <1>3, <1>4
     DEF Calls, OtherCalls, AtCall, CheckPatch, Deliver, SendFails, SendIsBlocked, ArchiveBlocked,
         ReleaseWebSlot, CancelSlot, FreeSlot, RemindSlot, MarkSent, MoveLocation, RefuseCommand,
         ValidateUpdate, WriteUpdate, TakeSlot, ValidateBooking, WriteBooking, RestoreWebSlot

\* An actor with nothing left to do makes no call but the rest.
LEMMA NothingLeft ==
    ASSUME Base, NEW a \in Actors, Calls(a), run[a].todo = << >>
    PROVE  Rest(a)
BY DEF Calls, OtherCalls, AtCall, CheckPatch, Deliver, SendFails, SendIsBlocked, ArchiveBlocked,
       ReleaseWebSlot, CancelSlot, FreeSlot, RemindSlot, MarkSent, MoveLocation, RefuseCommand,
       ValidateUpdate, WriteUpdate, TakeSlot, ValidateBooking, WriteBooking, RestoreWebSlot

\* What each call does to the list, the row and the letters.
LEMMA CallStep ==
    ASSUME Base, NEW a \in Actors, Calls(a), run[a].todo # << >>
    PROVE  LET op == Call(a).op IN
           /\ Running(a) /\ run'[a].doing = run[a].doing /\ Running(a)' /\ Fine(a, Call(a))
           /\ IsList(run[a].todo)
           /\ op = "update" => UpdateStep(a)
           /\ op = "send" => SendStep(a)
           /\ op = "cancel" => CancelStep(a)
           /\ op = "check" => IF Admits(cand, Call(a).patch) THEN Onwards(a) ELSE Stops(a)
           /\ op = "refuse" => Stops(a)
           /\ op \in {"release", "free", "remind", "archive", "mark", "move", "take", "restore"} => Onwards(a)
           /\ op # "send" => chat' = chat
           /\ op \notin {"update", "free", "archive", "book"} => cand' = cand
           /\ op \notin {"update", "free", "archive", "release", "move"} => touched' = touched
           /\ op # "move" => moved' = moved
           /\ op = "move" => moved' = TRUE
<1> DEFINE t == run[a].todo
<1>1. LocalsOK /\ IsList(t) /\ IsList(Tail(t)) /\ run[a].result \in Results
  BY TailList DEF Base, LocalsOK, LocalOK, AllFine
<1>2. << >> \o Tail(t) = Tail(t)
  BY <1>1 DEF IsList
<1>3. Goes(a) => Onwards(a) /\ run'[a].doing = run[a].doing
  BY <1>1, <1>2, LocalAfter DEF Goes, Went, Onwards
<1>4. \A w : Failed(a, w) => (w # "ok" => Stops(a)) /\ run'[a].doing = run[a].doing
  BY <1>1, LocalAfter DEF Failed, Stops
<1>5. \A m : Went(a, m) => Becomes(a, m \o Tail(t)) /\ run'[a].doing = run[a].doing
  <2>1. ASSUME NEW u, Leaves(a, u, run[a].result) PROVE Becomes(a, u) /\ run'[a].doing = run[a].doing
    BY <1>1, <2>1, LocalAfter DEF Becomes
  <2>2. ASSUME NEW m, Went(a, m) PROVE Leaves(a, m \o Tail(t), run[a].result)
    BY <2>2 DEF Went
  <2> HIDE DEF t
  <2> QED
    BY <2>1, <2>2
<1>6. \A c : run' = [run EXCEPT ![a].read = c] => Becomes(a, t) /\ run'[a].doing = run[a].doing
  BY <1>1, LocalAfter DEF Becomes
<1>7. \A u : run' = [run EXCEPT ![a].todo = u] => Becomes(a, u) /\ run'[a].doing = run[a].doing
  BY <1>1, LocalAfter DEF Becomes
<1> HIDE DEF t
<1>8. ASSUME Call(a).op = "update"
      PROVE  UpdateStep(a) /\ run'[a].doing = run[a].doing
  <2>1. Len(Call(a).patches) \in {1, 2}
    BY <1>8, ActionOf DEF Fine
  <2>2. CASE ValidateUpdate(a)
    BY <1>3, <1>4, <1>6, <2>2 DEF ValidateUpdate, UpdateStep, t
  <2>3. CASE WriteUpdate(a)
    BY <1>3, <1>4, <2>1, <2>3 DEF WriteUpdate, UpdateStep
  <2> QED
    BY <1>8, <2>2, <2>3, ActionOf
<1>9. ASSUME Call(a).op = "send"
      PROVE  SendStep(a) /\ run'[a].doing = run[a].doing
  <2>1. Call(a).onBlocked \in {"archive", "bar", "throw", "ignore"}
    BY <1>9, ActionOf DEF Fine
  <2>2. CASE Deliver(a)
    BY <1>3, <2>2 DEF Deliver, SendStep
  <2>3. CASE SendFails(a)
    BY <1>3, <1>4, <2>3 DEF SendFails, SendStep
  <2>4. CASE SendIsBlocked(a)
    <3>1. /\ cand' = cand /\ touched' = touched /\ moved' = moved /\ chat' = chat /\ "blocked" \in scene.faults
          /\ \/ Call(a).onBlocked = "archive" /\ run' = [run EXCEPT ![a].todo = <<Archive>>]
             \/ Call(a).onBlocked = "bar" /\ run' = [run EXCEPT ![a].todo = <<Attempt(Bar), Refuse("failed")>>]
             \/ Call(a).onBlocked = "throw" /\ Failed(a, "failed")
             \/ Call(a).onBlocked = "ignore" /\ Goes(a)
      BY <2>1, <2>4, Zenon DEF SendIsBlocked, Bar
    <3> QED
      BY <1>3, <1>4, <1>7, <3>1 DEF SendStep
  <2> QED
    BY <1>9, <2>2, <2>3, <2>4, ActionOf
<1>10. ASSUME Call(a).op = "cancel"
       PROVE  CancelStep(a) /\ run'[a].doing = run[a].doing
  <2>1. /\ cand' = cand /\ touched' = touched /\ chat' = chat /\ moved' = moved
        /\ \/ Went(a, <<Update(Unlink), Free(Call(a).slot)>>) \/ Failed(a, "failed")
           \/ Went(a, <<Free(Call(a).slot)>>)
    BY <1>10, ActionOf, Zenon DEF CancelSlot, Unlink
  <2> QED
    BY <1>4, <1>5, <2>1 DEF CancelStep, t
<1>11. ASSUME Call(a).op = "check"
       PROVE  /\ IF Admits(cand, Call(a).patch) THEN Onwards(a) ELSE Stops(a)
              /\ run'[a].doing = run[a].doing /\ UNCHANGED <<cand, chat, touched, moved>>
  BY <1>3, <1>4, <1>11, ActionOf DEF CheckPatch
<1>12. ASSUME Call(a).op = "refuse"
       PROVE  Stops(a) /\ run'[a].doing = run[a].doing /\ UNCHANGED <<cand, chat, touched, moved>>
  <2>1. RefuseCommand(a) /\ Call(a).why # "ok"
    BY <1>12, ActionOf DEF Fine
  <2> QED
    BY <1>4, <2>1 DEF RefuseCommand
<1>13. ASSUME Call(a).op \in {"release", "free", "remind", "archive", "mark", "move", "take", "restore"}
       PROVE  /\ Onwards(a) /\ run'[a].doing = run[a].doing /\ chat' = chat
              /\ Call(a).op \notin {"free", "archive"} => cand' = cand
              /\ Call(a).op \notin {"free", "archive", "release", "move"} => touched' = touched
              /\ IF Call(a).op = "move" THEN moved' = TRUE ELSE moved' = moved
  BY <1>3, <1>13, ActionOf
     DEF ReleaseWebSlot, FreeSlot, RemindSlot, ArchiveBlocked, MarkSent, MoveLocation, TakeSlot, RestoreWebSlot
<1>14. ASSUME Call(a).op = "book"
       PROVE  run'[a].doing = run[a].doing /\ chat' = chat /\ touched' = touched /\ moved' = moved
  <2>1. CASE WriteBooking(a)
    BY <1>3, <2>1 DEF WriteBooking
  <2>2. CASE ValidateBooking(a)
    <3> DEFINE undo == <<Release>> \o IF Call(a).before \in {Null, Call(a).slot} THEN << >> ELSE <<Restore(Call(a).before)>>
    <3>1. /\ run' = [run EXCEPT ![a].read = cand] \/ Went(a, undo)
          /\ chat' = chat /\ touched' = touched /\ moved' = moved
      BY <2>2, Zenon DEF ValidateBooking
    <3> HIDE DEF undo
    <3> QED
      BY <1>5, <1>6, <3>1
  <2> QED
    BY <1>14, <2>1, <2>2, ActionOf
<1>15. Running(a) /\ Call(a).op \in Ops /\ Fine(a, Call(a))
  BY ActionOf
<1>16. run'[a].doing = run[a].doing
  BY <1>8, <1>9, <1>10, <1>11, <1>12, <1>13, <1>14, <1>15 DEF Ops
<1>17. Call(a).op # "send" => chat' = chat
  BY <1>8, <1>10, <1>11, <1>12, <1>13, <1>14, <1>15 DEF Ops, UpdateStep, CancelStep
<1>18. Call(a).op \notin {"update", "free", "archive", "book"} => cand' = cand
  BY <1>9, <1>10, <1>11, <1>12, <1>13, <1>15 DEF Ops, SendStep, CancelStep
<1>19. Call(a).op \notin {"update", "free", "archive", "release", "move"} => touched' = touched
  BY <1>9, <1>10, <1>11, <1>12, <1>13, <1>14, <1>15 DEF Ops, SendStep, CancelStep
<1>20. IF Call(a).op = "move" THEN moved' = TRUE ELSE moved' = moved
  BY <1>8, <1>9, <1>10, <1>11, <1>12, <1>13, <1>14, <1>15 DEF Ops, SendStep, CancelStep, UpdateStep
<1> QED
  BY <1>1, <1>8, <1>9, <1>10, <1>11, <1>12, <1>13, <1>15, <1>16, <1>17, <1>18, <1>19, <1>20 DEF Running, t


---------------------------------------------------------------------------
(* A command is held once.                                                 *)

\* Who begins leaves the other actors as they were.
LEMMA OthersBegin ==
    ASSUME Base, Work \/ Tap
    PROVE  /\ OnlyRun /\ run'["dispatcher"] = run["dispatcher"]
           /\ ~ scene.overlap => Quiet
           /\ \E a \in {"worker", "candidate"} : \E d, t : Begun(a, d, t)
<1>1. LocalsOK /\ "dispatcher" \in Actors
  BY DEF Base, Actors
<1>2. CASE Work
  <2>1. \E t : Works(t)
    BY <1>2, WorkFine
  <2> QED
    BY <1>1, <2>1 DEF Works, OnlyRun, MayBegin, Quiet, Begun, LocalsOK
<1>3. CASE Tap
  <2>1. \E t : Taps(t)
    BY <1>3, TapFine
  <2> QED
    BY <1>1, <2>1 DEF Taps, OnlyRun, MayBegin, Quiet, Begun, LocalsOK
<1> QED
  BY <1>2, <1>3

\* What Fetch, BeginCommand and the acks do to the dispatcher's list and batch.
LEMMA FetchedInOrder ==
    ASSUME Base, Fetch
    PROVE  /\ Len(batch') \in Nat
           /\ \A i \in 1 .. Len(batch') :
                 batch'[i][1] \in Pending /\ batch'[i][2] = outbox[batch'[i][1]].attempts
           /\ \A i, j \in 1 .. Len(batch') : i < j => batch'[i][1] < batch'[j][1]
<1>1. PICK order \in [1 .. Cardinality(Pending) -> Pending] :
          /\ \A i, j \in DOMAIN order : i < j => order[i] < order[j]
          /\ batch' = [i \in DOMAIN order |-> <<order[i], outbox[order[i]].attempts>>]
  BY DEF Fetch
<1>2. Cardinality(Pending) \in Nat
  <2>1. Commands = 1 .. Len(scene.kinds) /\ Len(scene.kinds) \in Nat
    BY SceneFacts DEF Base, Tables
  <2>2. IsFiniteSet(Commands)
    BY <2>1, FS_Interval
  <2>3. IsFiniteSet(Pending)
    BY <2>2, FS_Subset DEF Pending
  <2> QED
    BY <2>3, FS_CardinalityType
<1> DEFINE n == Cardinality(Pending)
<1>3. \A i \in 1 .. n : order[i] \in Commands /\ outbox[order[i]].attempts \in Nat
  BY <1>1, SceneFacts DEF Pending, Base, Tables, TypeOK
<1>4. batch' = [i \in 1 .. n |-> <<order[i], outbox[order[i]].attempts>>]
  BY <1>1
<1>5. \A i \in 1 .. n : batch'[i][1] = order[i] /\ batch'[i][2] = outbox[order[i]].attempts
  BY <1>4
<1> HIDE DEF n
<1>6. batch' \in Seq(Commands \X Nat) /\ Len(batch') = n
  BY <1>2, <1>3, <1>4 DEF n
<1> QED
  BY <1>1, <1>2, <1>5, <1>6 DEF n

LEMMA CommandBegins ==
    ASSUME Base, BeginCommand
    PROVE  LET k == batch[1][1] IN
           /\ Entry(batch[1]) /\ 1 \in 1 .. Len(batch)
           /\ Len(batch') = Len(batch) - 1 /\ Len(batch) \in Nat \ {0}
           /\ \A i \in 1 .. Len(batch') : i + 1 \in 1 .. Len(batch) /\ batch'[i] = batch[i + 1]
           /\ run'["dispatcher"].doing = batch[1] /\ run'["dispatcher"].read = Null
           /\ run'["dispatcher"].result = "ok"
           /\ run'["worker"] = run["worker"] /\ run'["candidate"] = run["candidate"]
           /\ \/ \E offered \in BOOLEAN : run'["dispatcher"].todo = Todo(k, batch[1][2], offered)
              \/ AsksFirst(k) /\ run'["dispatcher"].todo = <<Refuse("failed")>>
           /\ UNCHANGED <<scene, cand, age, moved, blocked, slots, phase, web, outbox, sentMark, chat,
                          talked, touched, mishaps>>
           /\ ~ Running("dispatcher") /\ (~ scene.overlap => Quiet)
<1> DEFINE k == batch[1][1]
<1>1. /\ Entry(batch[1]) /\ Len(batch') = Len(batch) - 1 /\ Len(batch) \in Nat \ {0}
      /\ \A i \in 1 .. Len(batch') : i + 1 \in 1 .. Len(batch) /\ batch'[i] = batch[i + 1]
  BY DEF BeginCommand, Base, BatchSound
<1>2. \/ \E offered \in BOOLEAN : Begun("dispatcher", batch[1], Todo(k, batch[1][2], offered))
      \/ AsksFirst(k) /\ Begun("dispatcher", batch[1], <<Refuse("failed")>>)
  BY DEF BeginCommand, AsksWebFirst, AsksFirst, beforeMeeting
<1>3. LocalsOK /\ "dispatcher" \in Actors /\ "worker" \in Actors /\ "candidate" \in Actors
  BY DEF Base, Actors
<1>4. ASSUME NEW t, Begun("dispatcher", batch[1], t)
      PROVE  /\ run'["dispatcher"].doing = batch[1] /\ run'["dispatcher"].read = Null
             /\ run'["dispatcher"].result = "ok" /\ run'["dispatcher"].todo = t
             /\ run'["worker"] = run["worker"] /\ run'["candidate"] = run["candidate"]
  BY <1>3, <1>4 DEF Begun, LocalsOK
<1>5. /\ UNCHANGED <<scene, cand, age, moved, blocked, slots, phase, web, outbox, sentMark, chat,
                     talked, touched, mishaps>>
      /\ ~ Running("dispatcher") /\ (~ scene.overlap => Quiet)
  BY DEF BeginCommand, MayBegin, Quiet
<1> HIDE DEF k
<1>6. CASE \E offered \in BOOLEAN : Begun("dispatcher", batch[1], Todo(k, batch[1][2], offered))
  <2>1. PICK offered \in BOOLEAN : Begun("dispatcher", batch[1], Todo(k, batch[1][2], offered))
    BY <1>6
  <2> QED
    BY <1>1, <1>4, <1>5, <2>1 DEF k
<1>7. CASE AsksFirst(k) /\ Begun("dispatcher", batch[1], <<Refuse("failed")>>)
  BY <1>1, <1>4, <1>5, <1>7 DEF k
<1> QED
  BY <1>2, <1>6, <1>7

LEMMA CommandEnds ==
    ASSUME Base, Ack \/ LoseAck
    PROVE  LET k == run["dispatcher"].doing[1]
               w == run["dispatcher"].result IN
           /\ Running("dispatcher") /\ run["dispatcher"].todo = << >> /\ k \in Commands
           /\ run'["dispatcher"] = Idle /\ ~ Running("dispatcher")'
           /\ run'["worker"] = run["worker"] /\ run'["candidate"] = run["candidate"]
           /\ UNCHANGED <<scene, cand, age, moved, blocked, slots, phase, web, batch, sentMark, chat, talked,
                          touched>>
           /\ \/ outbox' = outbox /\ mishaps' = mishaps + 1
              \/ mishaps' = mishaps /\ outbox' = Acked(k, w)
           /\ \A j \in Commands \ {k} : outbox'[j] = outbox[j]
           /\ outbox'[k].kind = outbox[k].kind
           /\ \/ outbox'[k] = outbox[k]
              \/ w = "ok" /\ outbox'[k].status = "APPLIED" /\ outbox[k].status = "PENDING"
              \/ /\ w # "ok" /\ outbox'[k].attempts = outbox[k].attempts + 1
                 /\ outbox'[k].status \in {"PENDING", "FAILED"} /\ outbox[k].status = "PENDING"
<1> DEFINE k == run["dispatcher"].doing[1]
           w == run["dispatcher"].result
           o == outbox[k]
<1>1. /\ UNCHANGED <<scene, cand, age, moved, blocked, slots, phase, web, batch, sentMark, chat, talked,
                     touched>>
      /\ Ended("dispatcher") /\ Resting("dispatcher")
      /\ \/ outbox' = outbox /\ mishaps' = mishaps + 1
         \/ mishaps' = mishaps /\ outbox' = Acked(k, w)
  BY DEF Ack, LoseAck
<1>2. "dispatcher" \in Actors /\ "worker" \in Actors /\ "candidate" \in Actors /\ LocalsOK
  BY DEF Actors, Base
<1>3. /\ run'["dispatcher"] = Idle /\ ~ Running("dispatcher")'
      /\ run'["worker"] = run["worker"] /\ run'["candidate"] = run["candidate"]
  BY <1>1, <1>2 DEF Resting, Idle, LocalsOK, Running
<1>4. k \in Commands
  BY <1>1, <1>2 DEF LocalsOK, LocalOK, Ended, Running, Entry
<1>5. /\ outbox = [j \in Commands |-> outbox[j]]
      /\ o \in [kind : KindNames \cup {Null}, status : {"none", "PENDING", "APPLIED", "FAILED"},
                attempts : 0 .. scene.attempts, reason : {"ok", "failed", "state_conflict"}]
  BY <1>4 DEF Base, Tables, TypeOK
<1> DEFINE n == [kind |-> o.kind,
                 status |-> IF w = "state_conflict" \/ o.attempts + 1 = scene.attempts
                            THEN "FAILED" ELSE "PENDING",
                 attempts |-> o.attempts + 1, reason |-> w]
           m == [o EXCEPT !.status = "APPLIED"]
<1>6. /\ n.kind = o.kind /\ n.status \in {"FAILED", "PENDING"} /\ n.attempts = o.attempts + 1
      /\ m.kind = o.kind /\ m.status = "APPLIED"
  BY <1>5
<1>7. \/ outbox' = outbox
      \/ o.status = "PENDING" /\ w = "ok" /\ outbox' = [outbox EXCEPT ![k] = m]
      \/ o.status = "PENDING" /\ w # "ok" /\ outbox' = [outbox EXCEPT ![k] = n]
  <2>1. CASE outbox' = Acked(k, w)
    BY <1>4, <1>5, <2>1 DEF Acked
  <2> QED
    BY <1>1, <2>1, SMTT(60)
<1> HIDE DEF n, m, o, k, w
<1>8. /\ \A j \in Commands \ {k} : outbox'[j] = outbox[j]
      /\ outbox'[k].kind = o.kind
      /\ \/ outbox'[k] = o
         \/ w = "ok" /\ outbox'[k].status = "APPLIED" /\ o.status = "PENDING"
         \/ /\ w # "ok" /\ outbox'[k].attempts = o.attempts + 1
            /\ outbox'[k].status \in {"PENDING", "FAILED"} /\ o.status = "PENDING"
  BY <1>4, <1>5, <1>6, <1>7 DEF o
<1> QED
  BY <1>1, <1>3, <1>4, <1>8 DEF o, k, w, Ended

LEMMA CommandIssued ==
    ASSUME Base, NEW k \in Commands, Issue(k)
    PROVE  /\ UNCHANGED <<scene, cand, age, moved, blocked, slots, phase, web, batch, run, sentMark, chat,
                          talked, touched, mishaps>>
           /\ outbox[k].status = "none" /\ outbox'[k].status = "PENDING" /\ outbox'[k].attempts = 0
           /\ outbox'[k].kind \in scene.kinds[k]
           /\ \A i \in Commands \ {k} : outbox'[i] = outbox[i]
BY DEF Issue, Unissued, Base, Tables, TypeOK

\* Calls leave the outbox alone, and the other handlers.
LEMMA HeldOnceNext == Base /\ HeldOnce /\ [Next]_vars => HeldOnce'
<1> SUFFICES ASSUME Base, HeldOnce, [Next]_vars PROVE HeldOnce'
  OBVIOUS
<1>0. "dispatcher" \in Actors /\ LocalsOK /\ BatchSound
  BY DEF Actors, Base
<1>1. ASSUME run'["dispatcher"].doing = run["dispatcher"].doing, outbox' = outbox, batch' = batch
      PROVE  HeldOnce'
  BY <1>1 DEF HeldOnce, InHand, Running
<1>2. CASE UNCHANGED vars \/ \E s \in Slots : Pass(s)
  BY <1>1, <1>2 DEF vars, state, Pass
<1>3. CASE \E k \in Commands : Issue(k)
  <2>1. PICK k \in Commands : Issue(k)
    BY <1>3
  <2>2. /\ run' = run /\ batch' = batch /\ outbox[k].status = "none"
        /\ \A i \in Commands \ {k} : outbox'[i] = outbox[i]
    BY <2>1, CommandIssued
  <2>3. \A i \in 1 .. Len(batch) : batch[i][1] \in Commands /\ outbox[batch[i][1]].status = "PENDING"
    BY <1>0 DEF HeldOnce, InHand, BatchSound, Entry
  <2>4. Running("dispatcher") => /\ run["dispatcher"].doing[1] \in Commands
                                 /\ outbox[run["dispatcher"].doing[1]].status = "PENDING"
    BY <1>0 DEF HeldOnce, InHand, LocalsOK, LocalOK, Running, Entry
  <2> QED
    BY <2>2, <2>3, <2>4 DEF HeldOnce, InHand, Running
<1>4. CASE Fetch
  <2>1. /\ Len(batch') \in Nat
        /\ \A i \in 1 .. Len(batch') :
              batch'[i][1] \in Pending /\ batch'[i][2] = outbox[batch'[i][1]].attempts
        /\ \A i, j \in 1 .. Len(batch') : i < j => batch'[i][1] < batch'[j][1]
    BY <1>4, FetchedInOrder
  <2>2. outbox' = outbox /\ run' = run /\ ~ Running("dispatcher")
    BY <1>4 DEF Fetch
  <2>3. \A k \in Pending : outbox[k].status = "PENDING" /\ k \in Int
    BY SceneFacts DEF Pending, Base, Tables
  <2>4. \A i, j \in 1 .. Len(batch') : batch'[i][1] = batch'[j][1] => i = j
    BY <2>1, <2>3
  <2> QED
    BY <2>1, <2>2, <2>3, <2>4 DEF HeldOnce, InHand, Running
<1>5. CASE BeginCommand
  <2>1. /\ 1 \in 1 .. Len(batch) /\ outbox' = outbox
        /\ Len(batch') = Len(batch) - 1 /\ Len(batch) \in Nat \ {0}
        /\ \A i \in 1 .. Len(batch') : i + 1 \in 1 .. Len(batch) /\ batch'[i] = batch[i + 1]
        /\ run'["dispatcher"].doing = batch[1]
    BY <1>5, CommandBegins
  <2>2. InHand(batch[1]) /\ \A i \in 1 .. Len(batch') : InHand(batch'[i]) /\ batch'[i][1] # batch[1][1]
    BY <2>1 DEF HeldOnce
  <2>3. \A i, j \in 1 .. Len(batch') : batch'[i][1] = batch'[j][1] => i = j
    BY <2>1 DEF HeldOnce
  <2> QED
    BY <2>1, <2>2, <2>3 DEF HeldOnce, InHand
<1>6. CASE Ack \/ LoseAck
  <2>1. /\ batch' = batch /\ ~ Running("dispatcher")' /\ Running("dispatcher")
        /\ \A j \in Commands \ {run["dispatcher"].doing[1]} : outbox'[j] = outbox[j]
    BY <1>6, CommandEnds
  <2>2. \A i \in 1 .. Len(batch) : batch[i][1] \in Commands \ {run["dispatcher"].doing[1]}
    BY <1>0, <2>1 DEF HeldOnce, BatchSound, Entry
  <2> QED
    BY <2>1, <2>2 DEF HeldOnce, InHand
<1>7. CASE Crash
  <2>1. batch' = << >> /\ run' = [a \in Actors |-> Idle]
    BY <1>7 DEF Crash
  <2>2. Len(batch') = 0 /\ ~ Running("dispatcher")'
    BY <1>0, <2>1, EmptyList DEF Running, Idle
  <2> QED
    BY <2>2 DEF HeldOnce
<1>8. CASE Work \/ Tap
  BY <1>1, <1>8, OthersBegin DEF OnlyRun
<1>9. CASE \E a \in Actors : Calls(a)
  <2>1. PICK a \in Actors : Calls(a)
    BY <1>9, SMTT(60)
  <2>2. outbox' = outbox /\ batch' = batch
    BY <2>1, OwnCall DEF Calls, OtherCalls, ValidateUpdate, WriteUpdate, CheckPatch, Deliver, SendFails, SendIsBlocked,
           ArchiveBlocked, ReleaseWebSlot, CancelSlot, FreeSlot, RemindSlot, MarkSent, MoveLocation, RefuseCommand,
           TakeSlot, ValidateBooking, WriteBooking, RestoreWebSlot, Rest
  <2>3. run'["dispatcher"].doing = run["dispatcher"].doing
    BY <1>0, <2>1, DoingStays, OwnCall
  <2> QED
    BY <1>1, <2>2, <2>3
<1> QED
  BY <1>2, <1>3, <1>4, <1>5, <1>6, <1>7, <1>8, <1>9 DEF Next, Dispatch


---------------------------------------------------------------------------
(* A move is not kept from her.                                            *)

\* What touches the row, and what is written to her of a command, comes of one issued.
Issued(k) == k \in Commands /\ outbox[k].status # "none"
Traces ==
    /\ \A k \in touched : Issued(k)
    /\ \A i \in 1 .. Len(chat) : chat[i].of # Null => Issued(chat[i].of)

\* A command issued, acked or held stays issued.
LEMMA IssuedStays ==
    ASSUME Base, [Next]_vars
    PROVE  \A k : Issued(k) => k \in Commands' /\ outbox'[k].status # "none"
<1>1. CASE UNCHANGED <<scene, outbox>>
  BY <1>1 DEF Issued, Commands
<1>2. CASE \E k \in Commands : Issue(k)
  BY <1>2, CommandIssued DEF Issued, Commands
<1>3. CASE Ack \/ LoseAck
  BY <1>3, CommandEnds DEF Issued, Commands
<1>4. CASE \E a \in Actors : Calls(a)
  BY <1>1, <1>4, SceneStays, OwnCall
<1>5. CASE Work \/ Tap \/ Crash \/ Fetch \/ BeginCommand \/ (\E s \in Slots : Pass(s)) \/ UNCHANGED vars
  BY <1>1, <1>5 DEF Fetch, BeginCommand, Work, NotifyDecision, AutoComplete, RecoverStale,
              RepairRejected, Works, Tap, TapSlot, TapCancel, Taps, Crash, Pass, vars, state
<1> QED
  BY <1>2, <1>3, <1>4, <1>5 DEF Next, Dispatch

LEMMA TouchedBy ==
    ASSUME Base, [Next]_vars
    PROVE  \/ touched' = touched
           \/ /\ Calls("dispatcher") /\ Running("dispatcher")
              /\ touched' = touched \cup {run["dispatcher"].doing[1]}
<1>1. ASSUME NEW a \in Actors, Calls(a) PROVE touched' = touched \/ Touch(a)
  BY <1>1 DEF Calls, OtherCalls, ValidateUpdate, WriteUpdate, CheckPatch, Deliver, SendFails, SendIsBlocked, ArchiveBlocked,
         ReleaseWebSlot, CancelSlot, FreeSlot, RemindSlot, MarkSent, MoveLocation, RefuseCommand,
         TakeSlot, ValidateBooking, WriteBooking, RestoreWebSlot, Rest
<1>2. CASE \E a \in Actors : Calls(a)
  BY <1>1, <1>2, OwnCall DEF Touch
<1>3. CASE Dispatch \/ Work \/ Tap \/ Crash \/ (\E k \in Commands : Issue(k)) \/ (\E s \in Slots : Pass(s))
           \/ UNCHANGED vars
  BY <1>3 DEF Dispatch, Fetch, BeginCommand, Ack, LoseAck, Work, NotifyDecision, AutoComplete, RecoverStale,
              RepairRejected, Works, Tap, TapSlot, TapCancel, Taps, Crash, Issue, Pass, vars, state
<1> QED
  BY <1>2, <1>3 DEF Next

\* The letters stay, and a new one is the last.
LEMMA ChatGrows ==
    ASSUME Base, [Next]_vars
    PROVE  /\ IsList(chat) /\ IsList(chat)' /\ DOMAIN chat = 1 .. Len(chat) /\ DOMAIN chat' = 1 .. Len(chat')
           /\ Len(chat) \in Nat /\ Len(chat') \in Nat
           /\ \A i \in 1 .. Len(chat) : i \in 1 .. Len(chat') /\ chat'[i] = chat[i]
           /\ \/ chat' = chat
              \/ /\ Len(chat') = Len(chat) + 1
                 /\ \E a \in Actors :
                       /\ Deliver(a) /\ AtCall(a, "send")
                       /\ chat'[Len(chat')].letter = Call(a).letter
                       /\ chat'[Len(chat')].of = IF a = "dispatcher" THEN run[a].doing[1] ELSE Null
<1>1. IsList(chat)
  BY DEF Base, Tables, ChatSound
<1>2. PICK S : chat \in Seq(S)
  BY <1>1 DEF IsList
<1>3. ASSUME NEW x
      PROVE  /\ IsList(Append(chat, x)) /\ Len(Append(chat, x)) = Len(chat) + 1
             /\ DOMAIN Append(chat, x) = 1 .. Len(chat) + 1
             /\ \A i \in 1 .. Len(chat) : Append(chat, x)[i] = chat[i]
             /\ Append(chat, x)[Len(chat) + 1] = x
  <2>1. chat \in Seq(S \cup {x}) /\ Append(chat, x) \in Seq(S \cup {x})
    BY <1>2
  <2> QED
    BY <2>1 DEF IsList
<1>4. Len(chat) \in Nat /\ DOMAIN chat = 1 .. Len(chat)
  BY <1>2
<1>5. CASE chat' = chat
  BY <1>1, <1>4, <1>5
<1>6. CASE \E a \in Actors : Deliver(a)
  <2>1. PICK a \in Actors : Deliver(a)
    BY <1>6
  <2> DEFINE x == [letter |-> Call(a).letter, by |-> a, of |-> IF a = "dispatcher" THEN run[a].doing[1] ELSE Null]
  <2>2. chat' = Append(chat, x) /\ AtCall(a, "send")
    BY <2>1 DEF Deliver
  <2>3. /\ x.letter = Call(a).letter
        /\ x.of = IF a = "dispatcher" THEN run[a].doing[1] ELSE Null
    OBVIOUS
  <2> HIDE DEF x
  <2>4. /\ IsList(chat)' /\ Len(chat') = Len(chat) + 1 /\ DOMAIN chat' = 1 .. Len(chat')
        /\ \A i \in 1 .. Len(chat) : chat'[i] = chat[i]
        /\ chat'[Len(chat')] = x
    BY <1>3, <2>2
  <2>5. /\ Len(chat') \in Nat /\ \A i \in 1 .. Len(chat) : i \in 1 .. Len(chat')
    BY <1>4, <2>4
  <2>6. /\ Deliver(a) /\ AtCall(a, "send") /\ chat'[Len(chat')].letter = Call(a).letter
        /\ chat'[Len(chat')].of = IF a = "dispatcher" THEN run[a].doing[1] ELSE Null
    BY <2>1, <2>2, <2>3, <2>4
  <2> QED
    BY <1>1, <1>4, <2>4, <2>5, <2>6, Zenon
<1> QED
  BY <1>5, <1>6, LetterWriters

LEMMA TracesNext == Base /\ Traces /\ [Next]_vars => Traces'
<1> SUFFICES ASSUME Base, Traces, [Next]_vars PROVE Traces'
  OBVIOUS
<1>1. "dispatcher" \in Actors /\ LocalsOK
  BY DEF Actors, Base
<1>2. Running("dispatcher") => Issued(run["dispatcher"].doing[1])
  BY <1>1 DEF LocalsOK, LocalOK, Running, Entry, Issued
<1>3. \A k \in touched' : k \in Commands' /\ outbox'[k].status # "none"
  BY <1>2, TouchedBy, IssuedStays DEF Traces
<1>4. ASSUME NEW i \in 1 .. Len(chat'), chat'[i].of # Null
      PROVE  chat'[i].of \in Commands' /\ outbox'[chat'[i].of].status # "none"
  <2>1. CASE i \in 1 .. Len(chat)
    <3>1. chat'[i] = chat[i]
      BY <2>1, ChatGrows
    <3>2. Issued(chat[i].of)
      BY <1>4, <2>1, <3>1 DEF Traces
    <3> QED
      BY <3>1, <3>2, IssuedStays
  <2>2. CASE i \notin 1 .. Len(chat)
    <3>1. PICK a \in Actors :
             /\ AtCall(a, "send") /\ i = Len(chat')
             /\ chat'[Len(chat')].of = IF a = "dispatcher" THEN run[a].doing[1] ELSE Null
      BY <1>4, <2>2, ChatGrows
    <3>2. a = "dispatcher" /\ Issued(run["dispatcher"].doing[1]) /\ chat'[i].of = run["dispatcher"].doing[1]
      BY <1>2, <1>4, <3>1 DEF AtCall
    <3> QED
      BY <3>2, IssuedStays
  <2> QED
    BY <2>1, <2>2
<1> QED
  BY <1>3, <1>4 DEF Traces, Issued


LEMMA MoveTodo ==
    ASSUME Base, NEW k \in Commands, outbox[k].kind = "CHANGE_LOCATION", NEW n \in Nat, NEW offered
    PROVE  /\ MoveLeft(Todo(k, n, offered))
           /\ moved /\ n > 0 => Todo(k, n, offered) \in {<<TellOfMove>>, <<Refuse("failed")>>}
<1>1. Todo(k, n, offered) = changeLocation(cand, n > 0)
  BY DEF Todo
<1>2. moved \in BOOLEAN
  BY DEF Base, Tables, TypeOK
<1> QED
  BY <1>1, <1>2 DEF changeLocation, MoveLeft, TellOfMove

\* What is left of short lists.
LEMMA Tails ==
    ASSUME NEW x, NEW y, NEW z
    PROVE  /\ <<x>>[1] = x /\ Tail(<<x>>) = << >> /\ <<x>> # << >>
           /\ <<x, y>>[1] = x /\ <<x, y>>[2] = y /\ Tail(<<x, y>>) = <<y>> /\ <<x, y>> # << >>
           /\ <<x, y, z>>[1] = x /\ <<x, y, z>>[2] = y /\ <<x, y, z>>[3] = z
           /\ Tail(<<x, y, z>>) = <<y, z>> /\ <<x, y, z>> # << >>
<1>1. <<x>> \in Seq({x, y, z}) /\ <<x, y>> \in Seq({x, y, z}) /\ <<x, y, z>> \in Seq({x, y, z})
  OBVIOUS
<1>2. Tail(<<x>>) = << >>
  BY <1>1
<1>3. Tail(<<x, y>>) = <<y>>
  BY <1>1
<1>4. Tail(<<x, y, z>>) = <<y, z>>
  BY <1>1
<1> QED
  BY <1>1, <1>2, <1>3, <1>4

LEMMA LetterAdded ==
    ASSUME Base, NEW x, chat' = Append(chat, x)
    PROVE  /\ IsList(chat') /\ Len(chat) \in Nat /\ Len(chat') = Len(chat) + 1
           /\ DOMAIN chat = 1 .. Len(chat) /\ DOMAIN chat' = 1 .. Len(chat')
           /\ \A i \in 1 .. Len(chat) : chat'[i] = chat[i]
           /\ Len(chat') \in DOMAIN chat' /\ chat'[Len(chat')] = x
<1>1. PICK S : chat \in Seq(S)
  BY DEF Base, Tables, ChatSound, IsList
<1>2. chat \in Seq(S \cup {x}) /\ Append(chat, x) \in Seq(S \cup {x})
  BY <1>1
<1> QED
  BY <1>2 DEF IsList

\* A call of the dispatcher in a move.
LEMMA MoveCalls ==
    ASSUME Base, HeldOnce, Calls("dispatcher"), NEW k \in Commands, Doing(k), MoveLeft(Left),
           mishaps = 0 /\ k \in touched => MoveGoesOn(k)
    PROVE  MoveLeft(Left') /\ (mishaps = 0 /\ k \in touched' => MoveGoesOn(k)')
<1> DEFINE a == "dispatcher"
<1>1. a \in Actors /\ Left # << >>
  BY NothingLeft DEF Actors, Left, Rest
<1>2. outbox[k].status = "PENDING"
  BY DEF HeldOnce, InHand, Doing
<1>3. /\ Running("dispatcher") /\ run'["dispatcher"].doing = run["dispatcher"].doing /\ outbox' = outbox
      /\ Doing(k)' /\ [Next]_vars
  BY <1>1, DoingStays, OwnCall DEF Doing, Running, Next
<1>4. HeardOfMove => HeardOfMove'
  BY <1>3, ChatGrows DEF HeardOfMove
<1>5. /\ Call("dispatcher") = Left[1]
      /\ Call("dispatcher").op = "send" => SendStep(a)
      /\ Call("dispatcher").op = "refuse" => Stops(a)
      /\ Call("dispatcher").op = "move" => Onwards(a) /\ moved' = TRUE
      /\ Call("dispatcher").op # "move" => moved' = moved
      /\ Call("dispatcher").op \notin {"update", "free", "archive", "release", "move"} => touched' = touched
  BY <1>1, CallStep DEF Call, Left
<1>6. CASE Left = <<TellOfMove>>
  <2>a. Left[1] = TellOfMove /\ Tail(Left) = << >>
    BY <1>6, Tails
  <2>b. /\ TellOfMove.op = "send" /\ TellOfMove.letter = "location changed"
        /\ TellOfMove.onFailure = "throw" /\ TellOfMove.onBlocked = "throw"
    BY DEF TellOfMove, Send
  <2>1. /\ SendStep(a) /\ Tail(Left) = << >> /\ touched' = touched /\ moved' = moved
        /\ Left[1].onFailure = "throw" /\ Left[1].onBlocked = "throw" /\ Left[1].letter = "location changed"
    BY <1>5, <2>a, <2>b
  <2>2. CASE Onwards(a) /\ chat' = Append(chat, [letter |-> Left[1].letter, by |-> a, of |-> run[a].doing[1]])
    <3> DEFINE x == [letter |-> Left[1].letter, by |-> a, of |-> run[a].doing[1]]
    <3>1. Left' = << >> /\ chat' = Append(chat, x) /\ x.letter = "location changed"
      BY <2>1, <2>2 DEF Onwards, Left
    <3> HIDE DEF x
    <3>2. HeardOfMove'
      BY <3>1, LetterAdded DEF HeardOfMove
    <3> QED
      BY <3>1, <3>2 DEF MoveLeft, MoveGoesOn
  <2>3. CASE chat' = chat /\ Stops(a)
    <3>1. Left' = << >> /\ run'["dispatcher"].result # "ok"
      BY <2>3 DEF Stops, Left
    <3> QED
      BY <1>2, <1>3, <1>4, <2>1, <3>1 DEF MoveLeft, MoveGoesOn
  <2> QED
    BY <1>5, <2>1, <2>2, <2>3, Zenon DEF SendStep
<1>7. CASE Left = <<Move, TellOfMove>>
  <2>1. Onwards(a) /\ moved' = TRUE /\ Tail(Left) = <<TellOfMove>>
    BY <1>5, <1>7, Tails DEF Move
  <2>2. Left' = <<TellOfMove>>
    BY <2>1 DEF Onwards, Left
  <2> QED
    BY <1>2, <1>3, <2>1, <2>2 DEF MoveLeft, MoveGoesOn
<1>8. CASE Left = <<Refuse("failed")>>
  <2>1. Stops(a) /\ touched' = touched /\ moved' = moved
    BY <1>5, <1>8, Tails DEF Refuse
  <2>2. Left' = << >> /\ run'["dispatcher"].result # "ok"
    BY <2>1 DEF Stops, Left
  <2>3. Left # << >>
    BY <1>1
  <2> QED
    BY <1>2, <1>3, <1>4, <1>8, <2>1, <2>2 DEF MoveLeft, MoveGoesOn
<1> QED
  BY <1>1, <1>6, <1>7, <1>8 DEF MoveLeft

LEMMA MovesAreToldNext == Base /\ HeldOnce /\ Traces /\ MovesAreTold /\ [Next]_vars => MovesAreTold'
<1> SUFFICES ASSUME Base, HeldOnce, Traces, MovesAreTold, [Next]_vars,
                    NEW k \in Commands', outbox'[k].kind = "CHANGE_LOCATION"
             PROVE  /\ Doing(k)' => MoveLeft(Left)'
                    /\ mishaps' = 0 /\ k \in touched' => MoveGoesOn(k)'
  BY DEF MovesAreTold
<1>0. "dispatcher" \in Actors /\ LocalsOK /\ BatchSound /\ k \in Commands /\ mishaps \in Nat
  BY SceneStays, ConstantsAssumption DEF Actors, Base, Commands, Tables, TypeOK
<1>1. (HeardOfMove => HeardOfMove') /\ \A t : MoveLeft(t)' <=> MoveLeft(t)
  BY ChatGrows DEF HeardOfMove, MoveLeft
<1>2. outbox[k].kind = "CHANGE_LOCATION" => /\ Doing(k) => MoveLeft(Left)
                                            /\ mishaps = 0 /\ k \in touched => MoveGoesOn(k)
  BY <1>0 DEF MovesAreTold
<1>3. CASE UNCHANGED <<outbox, moved, touched, mishaps>> /\ run'["dispatcher"] = run["dispatcher"]
  BY <1>1, <1>2, <1>3 DEF MoveGoesOn, Doing, Left, Running
<1>4. CASE UNCHANGED vars \/ (\E s \in Slots : Pass(s))
  BY <1>3, <1>4 DEF vars, state, Pass
<1>5. CASE Work \/ Tap
  BY <1>3, <1>5, OthersBegin DEF OnlyRun
<1>6. CASE \E j \in Commands : Issue(j)
  <2>1. PICK j \in Commands : Issue(j)
    BY <1>6
  <2>2. /\ UNCHANGED <<moved, touched, mishaps, run>> /\ outbox[j].status = "none"
        /\ \A i \in Commands \ {j} : outbox'[i] = outbox[i]
    BY <2>1, CommandIssued
  <2>3. ~ Doing(j) /\ j \notin touched
    BY <1>0, <2>2 DEF Doing, LocalsOK, LocalOK, Running, Entry, Traces, Issued
  <2>4. CASE k = j
    BY <2>2, <2>3, <2>4 DEF Doing, Running
  <2>5. CASE k # j
    BY <1>0, <1>1, <1>2, <2>2, <2>5 DEF MoveGoesOn, Doing, Left, Running
  <2> QED
    BY <2>4, <2>5
<1>7. CASE Fetch
  BY <1>3, <1>7 DEF Fetch
<1>8. CASE BeginCommand
  <2> DEFINE j == batch[1][1]
  <2>1. /\ Entry(batch[1]) /\ 1 \in 1 .. Len(batch) /\ run'["dispatcher"].doing = batch[1]
        /\ \/ \E offered \in BOOLEAN : run'["dispatcher"].todo = Todo(j, batch[1][2], offered)
           \/ AsksFirst(j) /\ run'["dispatcher"].todo = <<Refuse("failed")>>
        /\ UNCHANGED <<moved, outbox, chat, touched, mishaps>> /\ ~ Running("dispatcher")
    BY <1>8, CommandBegins
  <2>2. outbox[j].status = "PENDING" /\ outbox[j].attempts = batch[1][2] /\ j \in Commands /\ batch[1][2] \in Nat
    BY <2>1 DEF HeldOnce, InHand, Entry
  <2>3. CASE k = j
    <3>1. PICK offered \in BOOLEAN : run'["dispatcher"].todo = Todo(k, batch[1][2], offered)
      BY <2>1, <2>3 DEF AsksFirst
    <3>2. /\ MoveLeft(Left')
          /\ moved /\ batch[1][2] > 0 => Left' \in {<<TellOfMove>>, <<Refuse("failed")>>}
      BY <2>1, <2>2, <2>3, <3>1, MoveTodo DEF Left
    <3>3. ASSUME mishaps = 0, k \in touched, ~ HeardOfMove PROVE moved /\ batch[1][2] > 0
      BY <1>2, <2>1, <2>2, <2>3, <3>3 DEF MoveGoesOn, Doing
    <3> QED
      BY <1>1, <2>1, <2>2, <2>3, <3>2, <3>3 DEF MoveGoesOn, Doing, Running
  <2>4. CASE k # j
    <3>1. ~ Doing(k) /\ ~ Doing(k)'
      BY <2>1, <2>4 DEF Doing
    <3> QED
      BY <1>1, <1>2, <2>1, <3>1 DEF MoveGoesOn
  <2> QED
    BY <2>3, <2>4
<1>9. CASE Ack \/ LoseAck
  <2> DEFINE j == run["dispatcher"].doing[1]
             w == run["dispatcher"].result
  <2>1. /\ Running("dispatcher") /\ Left = << >> /\ j \in Commands /\ ~ Running("dispatcher")'
        /\ UNCHANGED <<moved, chat, touched>>
        /\ mishaps' = mishaps + 1 \/ (mishaps' = mishaps /\ outbox' = Acked(j, w))
        /\ \A i \in Commands \ {j} : outbox'[i] = outbox[i]
        /\ outbox'[j].kind = outbox[j].kind
        /\ \/ outbox'[j] = outbox[j]
           \/ w = "ok" /\ outbox'[j].status = "APPLIED" /\ outbox[j].status = "PENDING"
           \/ /\ w # "ok" /\ outbox'[j].attempts = outbox[j].attempts + 1
              /\ outbox'[j].status \in {"PENDING", "FAILED"} /\ outbox[j].status = "PENDING"
    BY <1>9, CommandEnds DEF Left
  <2>2. ~ Doing(k)'
    BY <2>1 DEF Doing
  <2>3. CASE k # j
    BY <1>0, <1>1, <1>2, <2>1, <2>2, <2>3 DEF MoveGoesOn, Doing
  <2>4. CASE k = j
    <3>1. Doing(k) /\ outbox[k].status = "PENDING" /\ outbox[k].attempts \in Nat
      BY <1>0, <2>1, <2>4, SMTT(30) DEF Doing, HeldOnce, InHand, Base, Tables, TypeOK
    <3> SUFFICES ASSUME mishaps' = 0, k \in touched', ~ HeardOfMove' PROVE MoveGoesOn(k)'
      BY <2>2 DEF MoveGoesOn
    <3>2. mishaps' = mishaps /\ outbox' = Acked(j, w) /\ mishaps = 0
      BY <1>0, <2>1, SMTT(60)
    <3>3. moved /\ w # "ok"
      BY <1>1, <1>2, <2>1, <2>4, <3>1, <3>2, Tails DEF MoveGoesOn
    <3>4. outbox'[k] # outbox[k]
      <4>1. DOMAIN outbox = Commands /\ outbox[k].attempts \in Nat
        BY <3>1 DEF Base, Tables, TypeOK
      <4>2. outbox'[k].attempts = outbox[k].attempts + 1
        BY <1>0, <2>4, <3>1, <3>2, <3>3, <4>1 DEF Acked
      <4> QED
        BY <4>1, <4>2
    <3> QED
      BY <2>1, <2>2, <2>4, <3>1, <3>3, <3>4 DEF MoveGoesOn
  <2> QED
    BY <2>3, <2>4
<1>10. CASE Crash
  <2>1. mishaps' = mishaps + 1 /\ run' = [a \in Actors |-> Idle]
    BY <1>10 DEF Crash
  <2> QED
    BY <1>0, <2>1 DEF Doing, Running, Idle
<1>11. CASE \E a \in Actors : Calls(a)
  <2>1. PICK a \in Actors : Calls(a)
    BY <1>11, SMTT(60)
  <2>2. outbox' = outbox /\ mishaps' = mishaps
    BY <2>1, OwnCall DEF Calls, OtherCalls, ValidateUpdate, WriteUpdate, CheckPatch, Deliver, SendFails, SendIsBlocked,
           ArchiveBlocked, ReleaseWebSlot, CancelSlot, FreeSlot, RemindSlot, MarkSent, MoveLocation, RefuseCommand,
           TakeSlot, ValidateBooking, WriteBooking, RestoreWebSlot, Rest
  <2>3. CASE a # "dispatcher"
    <3>1. run'["dispatcher"] = run["dispatcher"] /\ touched' = touched
      BY <1>0, <2>1, <2>3, OwnCall
    <3>2. moved => moved'
      BY <2>1 DEF Calls, OtherCalls, ValidateUpdate, WriteUpdate, CheckPatch, Deliver, SendFails, SendIsBlocked,
           ArchiveBlocked, ReleaseWebSlot, CancelSlot, FreeSlot, RemindSlot, MarkSent, MoveLocation, RefuseCommand,
           TakeSlot, ValidateBooking, WriteBooking, RestoreWebSlot, Rest
    <3> QED
      BY <1>1, <1>2, <2>2, <3>1, <3>2 DEF MoveGoesOn, Doing, Left, Running
  <2>4. CASE a = "dispatcher" /\ Doing(k)
    <3>1. MoveLeft(Left) /\ (mishaps = 0 /\ k \in touched => MoveGoesOn(k))
      BY <1>2, <2>2, <2>4
    <3>2. MoveLeft(Left') /\ (mishaps = 0 /\ k \in touched' => MoveGoesOn(k)')
      BY <1>0, <2>1, <2>4, <3>1, MoveCalls
    <3> QED
      BY <2>2, <3>2 DEF MoveLeft
  <2>5. CASE a = "dispatcher" /\ ~ Doing(k)
    <3>1. run'["dispatcher"].doing = run["dispatcher"].doing
      BY <2>1, <2>5, DoingStays
    <3>2. ~ Doing(k)' /\ (k \in touched' => k \in touched)
      BY <2>5, <3>1, TouchedBy DEF Doing, Running
    <3>3. moved => moved'
      BY <2>1 DEF Calls, OtherCalls, ValidateUpdate, WriteUpdate, CheckPatch, Deliver, SendFails, SendIsBlocked,
           ArchiveBlocked, ReleaseWebSlot, CancelSlot, FreeSlot, RemindSlot, MarkSent, MoveLocation, RefuseCommand,
           TakeSlot, ValidateBooking, WriteBooking, RestoreWebSlot, Rest
    <3> QED
      BY <1>1, <1>2, <2>2, <2>5, <3>2, <3>3 DEF MoveGoesOn
  <2> QED
    BY <2>3, <2>4, <2>5
<1> QED
  BY <1>4, <1>5, <1>6, <1>7, <1>8, <1>9, <1>10, <1>11 DEF Next, Dispatch

LEMMA FirstTold == Init => HeldOnce /\ Traces /\ MovesAreTold
<1> SUFFICES ASSUME Init PROVE HeldOnce /\ Traces /\ MovesAreTold
  OBVIOUS
<1>1. /\ run = [a \in Actors |-> Idle] /\ "dispatcher" \in Actors /\ batch = << >> /\ chat = << >> /\ touched = {}
      /\ outbox = [k \in Commands |-> [kind |-> Null, status |-> "none", attempts |-> 0, reason |-> "ok"]]
  BY DEF Init, Actors
<1>2. Len(batch) = 0 /\ Len(chat) = 0 /\ ~ Running("dispatcher")
  BY <1>1, EmptyList DEF Running, Idle
<1> QED
  BY <1>1, <1>2 DEF HeldOnce, Traces, MovesAreTold, Doing

LEMMA ToldOfMovesAlways == Spec => [](Base /\ InTurn /\ HeldOnce /\ Traces /\ MovesAreTold)
<1>1. Init => HeldOnce /\ Traces /\ MovesAreTold
  BY FirstTold
<1>2. Base /\ HeldOnce /\ Traces /\ MovesAreTold /\ [Next]_vars => (HeldOnce /\ Traces /\ MovesAreTold)'
  BY HeldOnceNext, TracesNext, MovesAreToldNext
<1> QED
  BY <1>1, <1>2, TurnAlways, PTL DEF Spec

\* In every scene, whatever overlaps, fails to be delivered or is retried: a command
\* that has written her new place of work and counts as applied has told her of it.
THEOREM MovedAreToldAlways == Spec => []MovedAreTold
<1>1. Base /\ HeldOnce /\ MovesAreTold => MovedAreTold
  <2> SUFFICES ASSUME Base, HeldOnce, MovesAreTold, NEW k \in Commands, outbox[k].kind = "CHANGE_LOCATION",
                      outbox[k].status = "APPLIED", k \in touched, mishaps = 0
               PROVE  HeardOfMove
    BY DEF MovedAreTold, HeardOfMove
  <2> QED
    BY DEF MovesAreTold, MoveGoesOn
<1> QED
  BY <1>1, ToldOfMovesAlways, PTL


---------------------------------------------------------------------------
(* A verdict is told once.                                                 *)

\* What a first call that is no letter may lead to.
Led(x, t) == x.op # "send" /\ (x.op = "update" => x \in {t[1], Update(Unlink)})
\* The list u has, after what a first call leads to, the rest of t.
Shifted(t, u, d) ==
    /\ IsList(u) /\ d \in {-1, 0, 1} /\ Len(t) \in Nat \ {0} /\ Len(u) = Len(t) + d
    /\ \A i \in 2 .. Len(t) : u[i + d] = t[i]
    /\ \A i \in 1 .. d + 1 : Led(u[i], t)

LEMMA ShiftedTail ==
    ASSUME NEW t, IsList(t), t # << >>
    PROVE  Shifted(t, Tail(t), -1)
<1>1. /\ IsList(Tail(t)) /\ Len(t) \in Nat \ {0} /\ Len(Tail(t)) = Len(t) - 1
      /\ \A i \in 1 .. Len(t) - 1 : Tail(t)[i] = t[i + 1]
  BY TailList
<1> DEFINE u == Tail(t)
<1> HIDE DEF u
<1>2. \A i \in 2 .. Len(t) : u[i + (-1)] = t[i]
  BY <1>1 DEF u
<1> QED
  BY <1>1, <1>2 DEF Shifted, u

LEMMA ShiftedJoin ==
    ASSUME NEW t, IsList(t), t # << >>, NEW s, IsList(s), Len(s) \in {1, 2},
           \A i \in 1 .. Len(s) : Led(s[i], t)
    PROVE  Shifted(t, s \o Tail(t), Len(s) - 1)
<1> DEFINE r == Tail(t)
           u == s \o r
           d == Len(s) - 1
<1>1. /\ IsList(r) /\ Len(t) \in Nat \ {0} /\ Len(r) = Len(t) - 1
      /\ \A i \in 1 .. Len(t) - 1 : r[i] = t[i + 1]
  BY TailList
<1>2. /\ IsList(u) /\ Len(u) = Len(s) + Len(r)
      /\ \A i \in 1 .. Len(s) : u[i] = s[i]
      /\ \A i \in 1 .. Len(r) : u[Len(s) + i] = r[i]
  BY <1>1, JoinedList
<1> HIDE DEF u, r
<1>3. \A i \in 2 .. Len(t) : u[i + d] = t[i]
  <2> SUFFICES ASSUME NEW i \in 2 .. Len(t) PROVE u[i + d] = t[i]
    OBVIOUS
  <2>0. Len(s) \in Int /\ i \in Int
    OBVIOUS
  <2>1. i - 1 \in 1 .. Len(r) /\ i - 1 \in 1 .. Len(t) - 1 /\ (i - 1) + 1 = i
    BY <1>1
  <2>2. Len(s) + (i - 1) = i + d
    BY <1>1, <2>0
  <2>3. u[Len(s) + (i - 1)] = r[i - 1] /\ r[i - 1] = t[(i - 1) + 1]
    BY <1>1, <1>2, <2>1
  <2> QED
    BY <2>1, <2>2, <2>3
<1>4. \A i \in 1 .. d + 1 : Led(u[i], t)
  BY <1>2
<1> QED
  BY <1>1, <1>2, <1>3, <1>4 DEF Shifted, u, r

\* A list that its first call, which is no letter, left as it was.
LEMMA ShiftedSame ==
    ASSUME NEW t, IsList(t), t # << >>, t[1].op # "send"
    PROVE  Shifted(t, t, 0)
<1>1. Len(t) \in Nat \ {0}
  BY TailList
<1> QED
  BY <1>1 DEF Shifted, Led

LEMMA LetterlessShifted ==
    ASSUME NEW t, NEW u, NEW d, Shifted(t, u, d), Letterless(t)
    PROVE  Letterless(u)
<1> SUFFICES ASSUME NEW i \in 1 .. Len(u), i > d + 1 PROVE u[i].op # "send"
  BY DEF Letterless, Shifted, Led
<1> DEFINE j == i - d
<1>1. j \in 2 .. Len(t) /\ j + d = i
  <2>1. d \in {-1, 0, 1} /\ Len(t) \in Nat \ {0} /\ Len(u) = Len(t) + d
    BY DEF Shifted
  <2> QED
    BY <2>1
<1> HIDE DEF j
<1> QED
  BY <1>1 DEF Shifted, Letterless

\* The call of a handler leaves nothing, or the rest of its list; letters aside.
LEMMA NextList ==
    ASSUME Base, NEW a \in Actors, Calls(a), run[a].todo # << >>, Call(a).op # "send"
    PROVE  \/ run'[a].todo = << >>
           \/ \E d \in {-1, 0, 1} : Shifted(run[a].todo, run'[a].todo, d)
<1> DEFINE t == run[a].todo
<1>1. IsList(t) /\ t # << >> /\ t[1].op # "send" /\ t[1] = Call(a)
  BY CallStep DEF Call
<1>2. Onwards(a) => Shifted(t, run'[a].todo, -1)
  BY <1>1, ShiftedTail DEF Onwards
<1>3. run'[a].todo = t => Shifted(t, run'[a].todo, 0)
  BY <1>1, ShiftedSame
<1>4. Stops(a) => run'[a].todo = << >>
  BY DEF Stops
<1>5. ASSUME NEW s, IsList(s), Len(s) \in {1, 2}, \A i \in 1 .. Len(s) : Led(s[i], t),
             run'[a].todo = s \o Tail(t)
      PROVE  \E d \in {-1, 0, 1} : Shifted(t, run'[a].todo, d)
  <2>1. Shifted(t, run'[a].todo, Len(s) - 1)
    BY <1>1, <1>5, ShiftedJoin
  <2> QED
    BY <1>5, <2>1, SMTT(30)
<1>6. CASE Call(a).op = "update"
  <2>1. Onwards(a) \/ run'[a].todo = t \/ Stops(a)
    BY <1>6, CallStep, Zenon DEF UpdateStep, Becomes
  <2> QED
    BY <1>2, <1>3, <1>4, <2>1
<1>7. CASE Call(a).op = "cancel"
  <2> DEFINE two == <<Update(Unlink), Free(Call(a).slot)>>
             one == <<Free(Call(a).slot)>>
  <2>1. /\ IsList(two) /\ Len(two) = 2 /\ two[1] = Update(Unlink) /\ two[2] = Free(Call(a).slot)
        /\ IsList(one) /\ Len(one) = 1 /\ one[1] = Free(Call(a).slot)
    BY ShortLists, Tails
  <2>2. Led(Update(Unlink), t) /\ Led(Free(Call(a).slot), t)
    BY DEF Led, Update, Free
  <2>3. Stops(a) \/ run'[a].todo = two \o Tail(t) \/ run'[a].todo = one \o Tail(t)
    BY <1>7, CallStep DEF CancelStep, Becomes
  <2> HIDE DEF two, one
  <2>4. (\A i \in 1 .. Len(two) : Led(two[i], t)) /\ (\A i \in 1 .. Len(one) : Led(one[i], t))
    BY <2>1, <2>2
  <2>5. CASE run'[a].todo = two \o Tail(t)
    BY <1>5, <2>1, <2>4, <2>5
  <2>6. CASE run'[a].todo = one \o Tail(t)
    BY <1>5, <2>1, <2>4, <2>6
  <2> QED
    BY <1>4, <2>3, <2>5, <2>6
<1>8. CASE Call(a).op = "book"
  <2> DEFINE two == <<Release>> \o <<Restore(Call(a).before)>>
             one == <<Release>> \o << >>
  <2>1. /\ IsList(two) /\ Len(two) = 2 /\ two[1] = Release /\ two[2] = Restore(Call(a).before)
        /\ IsList(one) /\ Len(one) = 1 /\ one[1] = Release
    <3>1. ASSUME NEW x, NEW y
          PROVE  /\ IsList(<<x>> \o <<y>>) /\ Len(<<x>> \o <<y>>) = 2
                 /\ (<<x>> \o <<y>>)[1] = x /\ (<<x>> \o <<y>>)[2] = y
                 /\ IsList(<<x>> \o << >>) /\ Len(<<x>> \o << >>) = 1 /\ (<<x>> \o << >>)[1] = x
      <4>1. <<x>> \o <<y>> = <<x, y>> /\ <<x>> \o << >> = <<x>>
        BY JoinedPair
      <4>a. IsList(<<x, y>>) /\ Len(<<x, y>>) = 2 /\ IsList(<<x>>) /\ Len(<<x>>) = 1
        BY ShortLists
      <4>b. <<x, y>>[1] = x /\ <<x, y>>[2] = y /\ <<x>>[1] = x
        BY Tails
      <4>2. /\ \A v : v = <<x, y>> => IsList(v) /\ Len(v) = 2 /\ v[1] = x /\ v[2] = y
            /\ \A v : v = <<x>> => IsList(v) /\ Len(v) = 1 /\ v[1] = x
        BY <4>a, <4>b, Zenon
      <4> QED
        BY <4>1, <4>2, Zenon
    <3> QED
      BY <3>1
  <2>2. Led(Release, t) /\ Led(Restore(Call(a).before), t)
    BY DEF Led, Release, Restore
  <2>3. WriteBooking(a) \/ ValidateBooking(a)
    BY <1>8, ActionOf
  <2>4. CASE WriteBooking(a)
    <3>1. Goes(a)
      BY <2>4 DEF WriteBooking
    <3>2. run'[a].todo = << >> \o Tail(t)
      BY <3>1, LocalAfter DEF Goes, Went, Base
    <3>3. << >> \o Tail(t) = Tail(t)
      BY <1>1, TailList DEF IsList
    <3> QED
      BY <1>1, <3>2, <3>3, ShiftedTail
  <2>5. CASE ValidateBooking(a)
    <3>1. run' = [run EXCEPT ![a].read = cand] \/ Went(a, two) \/ Went(a, one)
      BY <2>5, Zenon DEF ValidateBooking
    <3>2. run' = [run EXCEPT ![a].read = cand] => run'[a].todo = t
      BY LocalAfter DEF Base
    <3>3. \A s : Went(a, s) => run'[a].todo = s \o Tail(t)
      <4>1. ASSUME NEW u, Leaves(a, u, run[a].result) PROVE run'[a].todo = u
        BY <4>1, LocalAfter DEF Base
      <4>2. ASSUME NEW s, Went(a, s) PROVE Leaves(a, s \o Tail(t), run[a].result)
        BY <4>2 DEF Went
      <4> HIDE DEF t
      <4> QED
        BY <4>1, <4>2
    <3> HIDE DEF two, one
    <3>4. run'[a].todo = t \/ run'[a].todo = two \o Tail(t) \/ run'[a].todo = one \o Tail(t)
      BY <3>1, <3>2, <3>3
    <3>5. \A i \in 1 .. Len(two) : Led(two[i], t)
      BY <2>1, <2>2
    <3>6. \A i \in 1 .. Len(one) : Led(one[i], t)
      BY <2>1, <2>2
    <3>7. CASE run'[a].todo = two \o Tail(t)
      BY <1>5, <2>1, <3>5, <3>7
    <3>8. CASE run'[a].todo = one \o Tail(t)
      BY <1>5, <2>1, <3>6, <3>8
    <3> QED
      BY <1>3, <3>4, <3>7, <3>8
  <2> QED
    BY <2>3, <2>4, <2>5
<1>9. CASE Call(a).op \in {"check", "refuse", "release", "free", "remind", "archive", "mark", "move", "take", "restore"}
  BY <1>2, <1>4, <1>9, CallStep
<1>10. Call(a).op \in Ops
  BY CallStep DEF Fine
<1> QED
  BY <1>6, <1>7, <1>8, <1>9, <1>10 DEF Ops

LEMMA EmptyLetterless == Letterless(<< >>)
BY EmptyList DEF Letterless

\* What the letter, unsent, leaves is without letters, when no other letter follows.
LEMMA LastUnsent ==
    ASSUME Base, NEW a \in Actors, Calls(a), run[a].todo # << >>, Call(a).op = "send",
           Letterless(Tail(run[a].todo)), chat' = chat
    PROVE  Letterless(run'[a].todo)
<1>1. SendStep(a) /\ IsList(run[a].todo)
  BY CallStep
<1>2. \/ Onwards(a) \/ Stops(a) \/ Becomes(a, <<Archive>>)
      \/ Becomes(a, <<Attempt(Bar), Refuse("failed")>>)
  BY <1>1, Zenon DEF SendStep
<1>3. Letterless(<<Archive>>) /\ Letterless(<<Attempt(Bar), Refuse("failed")>>)
  <2>1. Archive.op # "send" /\ Attempt(Bar).op # "send" /\ Refuse("failed").op # "send"
    BY DEF Archive, Attempt, Refuse
  <2> HIDE DEF Archive, Attempt, Refuse
  <2> QED
    BY <2>1, ShortLists, Tails DEF Letterless
<1> QED
  BY <1>2, <1>3, EmptyLetterless DEF Onwards, Stops, Becomes


\* What one handler at a time makes of her row.
Unpatched(c, d) == d = c \/ d = [c EXCEPT !.interviewSlotId = Null]
Patched(c, d) ==
    \E p : /\ PatchOK(p) /\ d = Updated(c, c, p)
           /\ Admits(c, p) \/ ("status" \in DOMAIN p /\ p["status"] = "BLOCKER")
Reopened(c, d) ==
    \E q : /\ PatchOK(q) /\ Reopens(q) /\ Admits(c, Back)
           /\ Admits(Updated(c, c, Back), q) /\ d = Updated(Updated(c, c, Back), Updated(c, c, Back), q)
Booked(c, d) ==
    /\ Admits(c, Status1("INTERVIEW_SCHEDULED")) /\ c.status # "REJECTED"
    /\ \E s \in Slots : d = [Updated(c, c, Status1("INTERVIEW_SCHEDULED")) EXCEPT !.interviewSlotId = s]

LEMMA RowSteps ==
    ASSUME Base, Turn, [Next]_vars
    PROVE  Unpatched(cand, cand') \/ Patched(cand, cand') \/ Reopened(cand, cand') \/ Booked(cand, cand')
<1>1. cand \in Snapshot
  BY DEF Base, Tables, TypeOK, Row
<1>2. CASE \E a \in Actors : FreeSlot(a)
  BY <1>2 DEF FreeSlot, Unbooked, Unpatched
<1>3. CASE \E a \in Actors : ArchiveBlocked(a)
  <2> DEFINE p == [status |-> "BLOCKER", notificationSent |-> FALSE, isWaitlisted |-> FALSE,
                   interviewSlotId |-> Null, discoverySlotId |-> FALSE, trainingSlotId |-> FALSE]
  <2>1. cand' = cand \/ cand' = Updated(cand, cand, p)
    BY <1>3 DEF ArchiveBlocked
  <2>2. PatchOK(p) /\ "status" \in DOMAIN p /\ p["status"] = "BLOCKER"
    BY DEF PatchOK, PatchTyped, Status, Writable
  <2> HIDE DEF p
  <2> QED
    BY <2>1, <2>2 DEF Unpatched, Patched
<1>4. CASE \E a \in Actors : WriteUpdate(a)
  <2>1. PICK a \in Actors : WriteUpdate(a)
    BY <1>4
  <2> DEFINE ps == Call(a).patches
             p == ps[1]
             u == Updated(cand, cand, p)
  <2>2. AtCall(a, "update") /\ run[a].read # Null
    BY <2>1 DEF WriteUpdate
  <2>3. /\ run[a].read = cand /\ Fine(a, Call(a)) /\ Len(ps) \in {1, 2} /\ PatchOK(p) /\ Admits(cand, p)
        /\ Len(ps) = 2 => p = Back /\ PatchOK(ps[2]) /\ Reopens(ps[2])
    BY <2>2, AtHead DEF Turn, ReadsAreFresh, Fine, AtCall
  <2>4. \/ cand' = cand
        \/ Len(ps) = 1 /\ cand' = u
        \/ Len(ps) = 2 /\ Admits(u, ps[2]) /\ cand' = Updated(u, u, ps[2])
    BY <2>1, <2>3 DEF WriteUpdate
  <2> HIDE DEF ps
  <2>5. CASE Len(ps) = 1 /\ cand' = u
    BY <2>3, <2>5 DEF Patched
  <2>6. CASE Len(ps) = 2 /\ Admits(u, ps[2]) /\ cand' = Updated(u, u, ps[2])
    BY <2>3, <2>6 DEF Reopened
  <2> QED
    BY <2>4, <2>5, <2>6 DEF Unpatched
<1>5. CASE \E a \in Actors : WriteBooking(a)
  <2>1. PICK a \in Actors : WriteBooking(a)
    BY <1>5
  <2>2. AtCall(a, "book") /\ run[a].read # Null
    BY <2>1 DEF WriteBooking
  <2>3. /\ run[a].read = cand /\ Call(a).slot \in Slots /\ cand.status # "REJECTED"
        /\ Admits(cand, Status1("INTERVIEW_SCHEDULED"))
    BY <2>2, AtHead DEF AtCall, Turn, ReadsAreFresh, Fine
  <2> QED
    BY <2>1, <2>3 DEF WriteBooking, Booked
<1> QED
  BY <1>2, <1>3, <1>4, <1>5, RowWriters DEF Unpatched

\* Her row keeps the step that its status asks for.
LEMMA AdmittedFits ==
    ASSUME NEW c \in Snapshot, NEW p, PatchTyped(p), Admits(c, p), StepFits(c)
    PROVE  StepFits(Updated(c, c, p))
<1> DEFINE j == Judged(c, Normalized(c, p))
           w == Updated(c, c, p)
<1>1. j.status = w.status /\ j.currentStep = w.currentStep
  BY JudgedRow
<1>2. StepFits(j)
  BY DEF Admits, Valid, Unchanged
<1> HIDE DEF j, w
<1> QED
  BY <1>1, <1>2 DEF StepFits, w

LEMMA StepFitsNext ==
    ASSUME Base, Turn, [Next]_vars, StepFits(cand)
    PROVE  StepFits(cand')
<1>1. cand \in Snapshot
  BY DEF Base, Tables, TypeOK, Row
<1>2. CASE Unpatched(cand, cand')
  <2>1. cand'.status = cand.status /\ cand'.currentStep = cand.currentStep
    BY <1>1, <1>2 DEF Unpatched, Snapshot
  <2> QED
    BY <2>1 DEF StepFits
<1>3. CASE Patched(cand, cand')
  <2>1. PICK p : /\ PatchOK(p) /\ cand' = Updated(cand, cand, p)
                 /\ Admits(cand, p) \/ ("status" \in DOMAIN p /\ p["status"] = "BLOCKER")
    BY <1>3 DEF Patched
  <2>2. CASE Admits(cand, p)
    BY <1>1, <2>1, <2>2, AdmittedFits DEF PatchOK
  <2>3. CASE "status" \in DOMAIN p /\ p["status"] = "BLOCKER"
    <3>1. cand'.status = "BLOCKER"
      BY <1>1, <2>1, <2>3, UpdatedRow DEF PatchOK, Field
    <3> QED
      BY <3>1 DEF StepFits, RequiredStep, InterviewTrack, TrainingTrack, FirstShiftTrack
  <2> QED
    BY <2>1, <2>2, <2>3
<1>4. CASE Reopened(cand, cand')
  <2>1. PICK q : /\ PatchOK(q) /\ Admits(cand, Back) /\ Admits(Updated(cand, cand, Back), q)
                 /\ cand' = Updated(Updated(cand, cand, Back), Updated(cand, cand, Back), q)
    BY <1>4 DEF Reopened
  <2>2. Updated(cand, cand, Back) \in Snapshot /\ StepFits(Updated(cand, cand, Back))
    BY <1>1, <2>1, UpdatedRow, AdmittedFits, PlainPatchesOK DEF PatchOK
  <2> QED
    BY <2>1, <2>2, AdmittedFits DEF PatchOK
<1>5. CASE Booked(cand, cand')
  <2> DEFINE p == Status1("INTERVIEW_SCHEDULED")
             u == Updated(cand, cand, p)
  <2>1. PatchTyped(p)
    BY DEF PatchTyped, Status1, Status, InterviewTrack
  <2>2. u \in Snapshot /\ StepFits(u)
    BY <1>1, <1>5, <2>1, UpdatedRow, AdmittedFits DEF Booked
  <2>3. PICK s \in Slots : cand' = [u EXCEPT !.interviewSlotId = s]
    BY <1>5 DEF Booked
  <2> HIDE DEF u
  <2>4. cand'.status = u.status /\ cand'.currentStep = u.currentStep
    BY <2>2, <2>3 DEF Snapshot
  <2> QED
    BY <2>2, <2>4 DEF StepFits
<1> QED
  BY <1>2, <1>3, <1>4, <1>5, RowSteps


\* What decides, and what tells of it.
Deciding(kind, x) == x.op = "update" /\ Len(x.patches) = 1 /\ Decides(kind, x.patches[1]) /\ x.must
DecidesLast(kind, s) ==
    /\ IsList(s) /\ Len(s) \in Nat \ {0} /\ Deciding(kind, s[Len(s)])
    /\ \A i \in 1 .. Len(s) : s[i].op # "send"
Telling(kind, t) == IsList(t) /\ TellsLast(kind, t, 1)

LEMMA DecidesThenTells ==
    ASSUME NEW kind, NEW c, NEW s, NEW t, DecidesLast(kind, s), Telling(kind, t)
    PROVE  YetToTell(kind, s \o t, c)
<1> DEFINE u == s \o t
           m == Len(s)
<1>1. /\ IsList(u) /\ Len(s) \in Nat \ {0} /\ Len(t) \in Nat /\ Len(u) = Len(s) + Len(t)
      /\ \A i \in 1 .. Len(s) : u[i] = s[i]
      /\ \A i \in 1 .. Len(t) : u[Len(s) + i] = t[i]
  BY JoinedList DEF DecidesLast, Telling
<1>2. /\ 1 \in 1 .. Len(t) /\ t[1].op = "send"
      /\ IF kind = "REJECT" THEN Len(t) = 1 ELSE Len(t) = 2 /\ t[2] = NoteTold
  BY DEF Telling, TellsLast
<1> HIDE DEF u
<1>3. m \in 1 .. Len(u) /\ m + 1 \in 1 .. Len(u) /\ m \in 1 .. Len(s)
  BY <1>1, <1>2
<1>4. u[m + 1] = t[1]
  BY <1>1, <1>2
<1>5. kind # "REJECT" => 2 \in 1 .. Len(t) /\ u[m + 2] = t[2] /\ m + 2 = (m + 1) + 1
  BY <1>1, <1>2
<1>6. TellsLast(kind, u, m + 1)
  BY <1>1, <1>2, <1>3, <1>4, <1>5 DEF TellsLast
<1>7. /\ u[m].op = "update" /\ Len(u[m].patches) = 1 /\ Decides(kind, u[m].patches[1]) /\ u[m].must
      /\ \A i \in 1 .. m : u[i].op # "send"
  BY <1>1, <1>3 DEF DecidesLast, Deciding
<1> QED
  BY <1>3, <1>6, <1>7 DEF YetToTell, u

LEMMA DecidesAfter ==
    ASSUME NEW kind, NEW x, Deciding(kind, x), NEW f, IsList(f), \A i \in 1 .. Len(f) : f[i].op # "send"
    PROVE  DecidesLast(kind, <<x>>) /\ DecidesLast(kind, f \o <<x>>)
<1> DEFINE s == f \o <<x>>
<1>1. IsList(<<x>>) /\ Len(<<x>>) = 1 /\ <<x>>[1] = x /\ x.op # "send"
  BY ShortLists DEF Deciding
<1>2. /\ IsList(s) /\ Len(f) \in Nat /\ Len(s) = Len(f) + 1
      /\ \A i \in 1 .. Len(f) : s[i] = f[i]
      /\ s[Len(f) + 1] = x
  BY <1>1, JoinedList
<1> HIDE DEF s
<1>3. \A i \in 1 .. Len(s) : s[i].op # "send"
  BY <1>1, <1>2
<1> QED
  BY <1>1, <1>2, <1>3 DEF DecidesLast, s

LEMMA OneSilent ==
    ASSUME NEW x, x.op # "send"
    PROVE  IsList(<<x>>) /\ \A i \in 1 .. Len(<<x>>) : <<x>>[i].op # "send"
<1>1. IsList(<<x>>) /\ Len(<<x>>) = 1 /\ <<x>>[1] = x
  BY ShortLists, Tails
<1> QED
  BY <1>1

LEMMA TellingLists ==
    ASSUME NEW l, NEW b, NEW f
    PROVE  /\ \A kind : kind # "REJECT" => Telling(kind, <<Send(l, b, f), NoteTold>>)
           /\ Telling("REJECT", <<Send(l, b, f)>>)
<1> DEFINE x == Send(l, b, f)
<1>1. x.op = "send"
  BY DEF Send
<1> HIDE DEF x
<1>2. /\ IsList(<<x, NoteTold>>) /\ Len(<<x, NoteTold>>) = 2 /\ IsList(<<x>>) /\ Len(<<x>>) = 1
  BY ShortLists
<1>3. <<x, NoteTold>>[1] = x /\ <<x, NoteTold>>[2] = NoteTold /\ <<x>>[1] = x
  BY Tails
<1>4. \A kind : kind # "REJECT" => Telling(kind, <<x, NoteTold>>)
  BY <1>1, <1>2, <1>3 DEF Telling, TellsLast
<1>5. Telling("REJECT", <<x>>)
  BY <1>1, <1>2, <1>3 DEF Telling, TellsLast
<1> QED
  BY <1>4, <1>5 DEF x

LEMMA DecidingUpdates ==
    ASSUME NEW kind, NEW p, Decides(kind, p)
    PROVE  Deciding(kind, Update(p))
<1>1. Len(<<p>>) = 1 /\ <<p>>[1] = p
  BY ShortLists, Tails
<1> QED
  BY <1>1 DEF Deciding, Update

LEMMA EmptyBefore == \A t : IsList(t) => << >> \o t = t
BY DEF IsList

\* The letters of each verdict, from any row.
LEMMA AcceptTells ==
    ASSUME NEW c
    PROVE  LET kind == "ACCEPT_AFTER_INTERVIEW"
               t == acceptAfterInterview(c) IN
           YetToTell(kind, t, c) /\ (Settled(kind, c) => t = << >>)
<1> DEFINE kind == "ACCEPT_AFTER_INTERVIEW"
           completed == [status |-> "INTERVIEW_COMPLETED", currentStep |-> "INTERVIEW",
                         interviewCompletedAt |-> TRUE]
           accepted == [status |-> "MENTOR_MANUAL", hrDecision |-> "ACCEPTED",
                        notificationSent |-> FALSE, materialsSent |-> FALSE, isWaitlisted |-> FALSE]
           last == <<Send("offer", "archive", "throw"), NoteTold>>
           t == acceptAfterInterview(c)
<1>1. Decided(kind, c) <=> c.status = "MENTOR_MANUAL" /\ c.hrDecision = "ACCEPTED"
  BY DEF Decided
<1>2. \/ t = << >>
      \/ t = << >> \o last /\ Decided(kind, c) /\ ~ Settled(kind, c)
      \/ t = <<Update(completed), Update(accepted)>> \o last /\ ~ Settled(kind, c)
      \/ t = <<Update(accepted)>> \o last /\ ~ Settled(kind, c)
  BY <1>1, Zenon DEF acceptAfterInterview, NoteTold, Settled
<1>3. Telling(kind, last)
  BY TellingLists
<1>4. Deciding(kind, Update(accepted)) /\ Update(completed).op = "update"
  <2>1. Decides(kind, accepted)
    BY DEF Decides
  <2> QED
    BY <2>1, DecidingUpdates DEF Update
<1> HIDE DEF completed, accepted, last, t, kind
<1>5. << >> \o last = last
  BY <1>3, EmptyBefore DEF Telling
<1>6. /\ DecidesLast(kind, <<Update(accepted)>>)
      /\ DecidesLast(kind, <<Update(completed)>> \o <<Update(accepted)>>)
      /\ <<Update(completed)>> \o <<Update(accepted)>> = <<Update(completed), Update(accepted)>>
  <2> DEFINE x == Update(completed)
             y == Update(accepted)
  <2>1. x.op = "update" /\ Deciding(kind, y)
    BY <1>4
  <2> HIDE DEF x, y
  <2>2. IsList(<<x>>) /\ \A i \in 1 .. Len(<<x>>) : <<x>>[i].op # "send"
    BY <2>1, OneSilent
  <2>3. DecidesLast(kind, <<y>>) /\ DecidesLast(kind, <<x>> \o <<y>>)
    BY <2>1, <2>2, DecidesAfter
  <2>4. <<x>> \o <<y>> = <<x, y>>
    BY JoinedPair
  <2> QED
    BY <2>3, <2>4 DEF x, y
<1>7. YetToTell(kind, << >>, c)
  BY EmptyLetterless DEF YetToTell
<1>8. Decided(kind, c) => YetToTell(kind, last, c)
  BY <1>3 DEF YetToTell, Telling
<1>9. YetToTell(kind, t, c)
  BY <1>2, <1>3, <1>5, <1>6, <1>7, <1>8, DecidesThenTells
<1> QED
  BY <1>2, <1>9 DEF t, kind


\* A list of one or two is what its members say.
LEMMA ShortIs ==
    ASSUME NEW u, IsList(u)
    PROVE  /\ Len(u) = 1 => u = <<u[1]>>
           /\ Len(u) = 2 => u = <<u[1], u[2]>>
           /\ Len(u) = 2 => Tail(u) = <<u[2]>> /\ u # << >>
           /\ Len(u) = 1 => Tail(u) = << >> /\ u # << >>
<1>0. PICK S : u \in Seq(S)
  BY DEF IsList
<1>1. ASSUME Len(u) = 1 PROVE u = <<u[1]>>
  <2> DEFINE v == <<u[1]>>
  <2>1. u[1] \in S /\ v \in Seq(S) /\ Len(v) = 1 /\ v[1] = u[1]
    BY <1>0, <1>1
  <2> HIDE DEF v
  <2>2. \A i \in 1 .. Len(u) : u[i] = v[i]
    BY <1>1, <2>1
  <2>3. u = v
    BY <1>0, <1>1, <2>1, <2>2, SeqEqual
  <2> QED
    BY <2>3 DEF v
<1>2. ASSUME Len(u) = 2 PROVE u = <<u[1], u[2]>>
  <2> DEFINE v == <<u[1], u[2]>>
  <2>1. u[1] \in S /\ u[2] \in S /\ v \in Seq(S) /\ Len(v) = 2 /\ v[1] = u[1] /\ v[2] = u[2]
    BY <1>0, <1>2
  <2> HIDE DEF v
  <2>2. \A i \in 1 .. Len(u) : u[i] = v[i]
    BY <1>2, <2>1
  <2>3. u = v
    BY <1>0, <1>2, <2>1, <2>2, SeqEqual
  <2> QED
    BY <2>3 DEF v
<1>3. Len(u) = 2 => Tail(u) = <<u[2]>> /\ u # << >>
  <2> DEFINE x == u[1]
             y == u[2]
  <2>1. Len(u) = 2 => u = <<x, y>>
    BY <1>2
  <2> HIDE DEF x, y
  <2>2. Tail(<<x, y>>) = <<y>> /\ <<x, y>> # << >>
    BY Tails
  <2>3. Len(u) = 2 => Tail(u) = <<y>> /\ u # << >>
    BY <2>1, <2>2, Zenon
  <2> QED
    BY <2>3 DEF y
<1>4. Len(u) = 1 => Tail(u) = << >> /\ u # << >>
  <2> DEFINE x == u[1]
  <2>1. Len(u) = 1 => u = <<x>>
    BY <1>1
  <2> HIDE DEF x
  <2>2. Tail(<<x>>) = << >> /\ <<x>> # << >>
    BY Tails
  <2> QED
    BY <2>1, <2>2, Zenon
<1> QED
  BY <1>1, <1>2, <1>3, <1>4

LEMMA RejectAfterTells ==
    ASSUME NEW c
    PROVE  LET kind == "REJECT_AFTER_INTERVIEW"
               t == rejectAfterInterview(c) IN
           YetToTell(kind, t, c) /\ (Settled(kind, c) => t = << >>)
<1> DEFINE kind == "REJECT_AFTER_INTERVIEW"
           rejected == [status |-> "REJECTED", currentStep |-> "INTERVIEW", hrDecision |-> "REJECTED",
                        notificationSent |-> FALSE, materialsSent |-> FALSE]
           letter == IF beforeMeeting(c) THEN "rejection" ELSE "thanks for the talk, rejection"
           last == <<Send(letter, "archive", "throw"), NoteTold>>
           letGo == <<Release>> \o cancelIfBooked(c)
           t == rejectAfterInterview(c)
<1>1. Decided(kind, c) <=> c.status = "REJECTED" /\ c.hrDecision = "REJECTED"
  BY DEF Decided
<1>2. \/ t = << >>
      \/ t = << >> \o last /\ Decided(kind, c) /\ ~ Settled(kind, c)
      \/ t = (letGo \o <<Update(rejected)>>) \o last /\ ~ Settled(kind, c)
      \/ t = (<< >> \o <<Update(rejected)>>) \o last /\ ~ Settled(kind, c)
  BY <1>1, Zenon DEF rejectAfterInterview, NoteTold, Settled
<1>3. Telling(kind, last)
  BY TellingLists
<1>4. Deciding(kind, Update(rejected))
  <2>1. Decides(kind, rejected)
    BY DEF Decides
  <2> QED
    BY <2>1, DecidingUpdates
<1>5. IsList(letGo) /\ \A i \in 1 .. Len(letGo) : letGo[i].op # "send"
  <2> DEFINE x == Cancel(c.interviewSlotId, FALSE)
  <2>1. Release.op # "send" /\ x.op # "send"
    BY DEF Release, Cancel
  <2>2. letGo = <<Release>> \o << >> \/ letGo = <<Release>> \o <<x>>
    BY Zenon DEF cancelIfBooked
  <2> HIDE DEF x, letGo
  <2>3. letGo = <<Release>> \/ letGo = <<Release, x>>
    BY <2>2, JoinedPair
  <2>4. CASE letGo = <<Release>>
    BY <2>1, <2>4, OneSilent
  <2>5. CASE letGo = <<Release, x>>
    <3>1. IsList(letGo) /\ Len(letGo) = 2 /\ letGo[1] = Release /\ letGo[2] = x
      BY <2>5, ShortLists, Tails
    <3> QED
      BY <2>1, <3>1
  <2> QED
    BY <2>3, <2>4, <2>5
<1> HIDE DEF rejected, last, t, kind, letGo
<1>6. << >> \o last = last
  BY <1>3, EmptyBefore DEF Telling
<1>7. /\ DecidesLast(kind, letGo \o <<Update(rejected)>>)
      /\ DecidesLast(kind, << >> \o <<Update(rejected)>>)
  <2> DEFINE y == Update(rejected)
  <2>1. Deciding(kind, y)
    BY <1>4
  <2> HIDE DEF y
  <2>2. IsList(<<y>>)
    BY ShortLists
  <2>3. << >> \o <<y>> = <<y>>
    BY <2>2, EmptyBefore
  <2>4. DecidesLast(kind, letGo \o <<y>>) /\ DecidesLast(kind, <<y>>)
    BY <1>5, <2>1, DecidesAfter
  <2> QED
    BY <2>3, <2>4 DEF y
<1>8. YetToTell(kind, << >>, c)
  BY EmptyLetterless DEF YetToTell
<1>9. Decided(kind, c) => YetToTell(kind, last, c)
  BY <1>3 DEF YetToTell, Telling
<1>10. YetToTell(kind, t, c)
  BY <1>2, <1>3, <1>6, <1>7, <1>8, <1>9, DecidesThenTells
<1> QED
  BY <1>2, <1>10 DEF t, kind

LEMMA RejectTells ==
    ASSUME NEW c, NEW k
    PROVE  YetToTell("REJECT", Reject(c, k), c) /\ (Settled("REJECT", c) => Reject(c, k) = << >>)
<1> DEFINE x == Send("training rejection", "ignore", "throw")
           y == Send("rejection", "ignore", "ignore")
           t == Reject(c, k)
<1>1. Settled("REJECT", c) <=> c.status = "REJECTED"
  BY DEF Decided, Settled
<1>2. /\ c.status = "REJECTED" => t = << >>
      /\ \/ t = << >>
         \/ t = <<x, Mark>> \o <<Close>>
         \/ t = << >> \o <<Close>>
         \/ t = <<Close, y>>
  <2>1. CASE c.status = "REJECTED"
    BY Zenon, <2>1 DEF Reject, ManualContour
  <2>2. CASE c.status # "REJECTED" /\ c.status \in ManualContour
    BY Zenon, <2>2 DEF Reject, Close
  <2>3. CASE c.status # "REJECTED" /\ c.status \notin ManualContour
    BY Zenon, <2>3 DEF Reject, Close
  <2> QED
    BY <2>1, <2>2, <2>3
<1>3. x.op = "send" /\ Close.op # "send"
  BY DEF Send, Close, Update
<1>4. Telling("REJECT", <<y>>)
  BY TellingLists
<1>5. Deciding("REJECT", Close)
  <2>1. Decides("REJECT", Closed("REJECTED"))
    BY DEF Decides, Closed
  <2> QED
    BY <2>1, DecidingUpdates DEF Close
<1> HIDE DEF x, y, t, Close
<1>6. YetToTell("REJECT", << >>, c)
  BY EmptyLetterless DEF YetToTell
<1>7. YetToTell("REJECT", << >> \o <<Close>>, c)
  <2>1. IsList(<<Close>>) /\ Letterless(<<Close>>)
    BY <1>3, OneSilent DEF Letterless
  <2> QED
    BY <2>1, EmptyBefore DEF YetToTell
<1>8. YetToTell("REJECT", <<Close, y>>, c)
  <2>1. IsList(<< >>) /\ \A i \in 1 .. Len(<< >>) : << >>[i].op # "send"
    BY EmptyList DEF IsList
  <2>2. DecidesLast("REJECT", <<Close>>)
    BY <1>5, <2>1, DecidesAfter
  <2>3. <<Close>> \o <<y>> = <<Close, y>>
    BY JoinedPair
  <2> QED
    BY <1>4, <2>2, <2>3, DecidesThenTells
<1>9. YetToTell("REJECT", <<x, Mark>> \o <<Close>>, c)
  <2> DEFINE u == <<x, Mark>> \o <<Close>>
  <2>1. IsList(<<x, Mark>>) /\ Len(<<x, Mark>>) = 2 /\ IsList(<<Close>>) /\ Len(<<Close>>) = 1
    BY ShortLists
  <2>2. <<x, Mark>>[1] = x /\ <<x, Mark>>[2] = Mark /\ <<Close>>[1] = Close
    BY Tails
  <2>3. IsList(u) /\ Len(u) = 3 /\ u[1] = x /\ u[2] = Mark /\ u[3] = Close
    BY <2>1, <2>2, JoinedList
  <2> HIDE DEF u
  <2>4. /\ IsList(Tail(u)) /\ Len(Tail(u)) = 2 /\ Tail(u)[1] = u[2] /\ Tail(u)[2] = u[3]
    <3>1. u # << >>
      BY <2>3, EmptyList
    <3>2. /\ IsList(Tail(u)) /\ Len(Tail(u)) = Len(u) - 1
          /\ \A i \in 1 .. Len(u) - 1 : Tail(u)[i] = u[i + 1]
      BY <2>3, <3>1, TailList
    <3> QED
      BY <2>3, <3>2
  <2>5. Tail(u) = <<Mark, Close>>
    BY <2>3, <2>4, ShortIs
  <2> QED
    BY <1>3, <2>3, <2>5 DEF YetToTell, u
<1> QED
  BY <1>1, <1>2, <1>6, <1>7, <1>8, <1>9 DEF t


LEMMA VerdictTodo ==
    ASSUME NEW k \in Commands, outbox[k].kind \in Verdicts, NEW n, NEW offered
    PROVE  LET kind == outbox[k].kind
               t == Todo(k, n, offered) IN
           YetToTell(kind, t, cand) /\ (Settled(kind, cand) => t = << >>)
<1>1. /\ outbox[k].kind = "ACCEPT_AFTER_INTERVIEW" => Todo(k, n, offered) = acceptAfterInterview(cand)
      /\ outbox[k].kind = "REJECT_AFTER_INTERVIEW" => Todo(k, n, offered) = rejectAfterInterview(cand)
      /\ outbox[k].kind = "REJECT" => Todo(k, n, offered) = Reject(cand, k)
  BY DEF Todo
<1>2. CASE outbox[k].kind = "ACCEPT_AFTER_INTERVIEW"
  BY <1>1, <1>2, AcceptTells
<1>3. CASE outbox[k].kind = "REJECT_AFTER_INTERVIEW"
  BY <1>1, <1>3, RejectAfterTells
<1>4. CASE outbox[k].kind = "REJECT"
  BY <1>1, <1>4, RejectTells
<1> QED
  BY <1>2, <1>3, <1>4 DEF Verdicts

\* A call that is no letter leaves what is to be told to be told, unless it decides.
LEMMA YetShifted ==
    ASSUME NEW kind, NEW t, NEW u, NEW d, Shifted(t, u, d), t[1].op # "send", NEW c, YetToTell(kind, t, c)
    PROVE  \/ \A e : YetToTell(kind, u, e)
           \/ Deciding(kind, t[1]) /\ TellsLast(kind, t, 2)
<1>0. /\ Len(t) \in Nat \ {0} /\ d \in {-1, 0, 1} /\ Len(u) = Len(t) + d /\ IsList(u)
      /\ \A i \in 2 .. Len(t) : u[i + d] = t[i]
      /\ \A i \in 1 .. d + 1 : u[i].op # "send"
  BY DEF Shifted, Led
<1>1. CASE Letterless(t)
  BY <1>1, LetterlessShifted DEF YetToTell
<1>2. CASE TellsLast(kind, t, 1) \/ (Len(t) = 3 /\ t[1].op = "send")
  BY <1>2 DEF TellsLast
<1>3. ASSUME NEW m \in 1 .. Len(t),
             t[m].op = "update", Len(t[m].patches) = 1, Decides(kind, t[m].patches[1]), t[m].must,
             \A i \in 1 .. m : t[i].op # "send",
             TellsLast(kind, t, m + 1)
      PROVE  (\A e : YetToTell(kind, u, e)) \/ (Deciding(kind, t[1]) /\ TellsLast(kind, t, 2))
  <2>1. CASE m = 1
    BY <1>3, <2>1 DEF Deciding
  <2>2. CASE m # 1
    <3> DEFINE j == m + d
    <3>1. /\ m \in 2 .. Len(t) /\ m + 1 \in 2 .. Len(t)
          /\ t[m + 1].op = "send"
          /\ IF kind = "REJECT" THEN Len(t) = m + 1 ELSE Len(t) = (m + 1) + 1 /\ t[(m + 1) + 1] = NoteTold
      BY <1>0, <1>3, <2>2 DEF TellsLast
    <3>2. j \in 1 .. Len(u) /\ j + 1 \in 1 .. Len(u) /\ (m + 1) + d = j + 1
      BY <1>0, <3>1
    <3>3. u[j] = t[m] /\ u[j + 1] = t[m + 1]
      BY <1>0, <3>1, <3>2
    <3>4. IF kind = "REJECT" THEN Len(u) = j + 1 ELSE Len(u) = (j + 1) + 1 /\ u[(j + 1) + 1] = NoteTold
      <4>1. CASE kind = "REJECT"
        BY <1>0, <3>1, <4>1
      <4>2. CASE kind # "REJECT"
        <5>1. Len(t) = (m + 1) + 1 /\ t[(m + 1) + 1] = NoteTold
          BY <3>1, <4>2
        <5>2. (m + 1) + 1 \in 2 .. Len(t) /\ ((m + 1) + 1) + d = (j + 1) + 1 /\ Len(u) = (j + 1) + 1
          BY <1>0, <3>1, <5>1
        <5> HIDE DEF j
        <5>3. u[((m + 1) + 1) + d] = t[(m + 1) + 1]
          BY <1>0, <5>2
        <5> QED
          BY <4>2, <5>1, <5>2, <5>3
      <4> QED
        BY <4>1, <4>2
    <3>5. ASSUME NEW i \in 1 .. j PROVE u[i].op # "send"
      <4>1. CASE i <= d + 1
        BY <1>0, <4>1
      <4>2. CASE ~ (i <= d + 1)
        <5> DEFINE h == i - d
        <5>1. h \in 2 .. Len(t) /\ h \in 1 .. m /\ h + d = i
          BY <1>0, <3>1, <4>2
        <5> HIDE DEF h, j
        <5>2. u[h + d] = t[h] /\ t[h].op # "send"
          BY <1>0, <1>3, <5>1
        <5> QED
          BY <5>1, <5>2
      <4> QED
        BY <4>1, <4>2
    <3> HIDE DEF j
    <3>6. TellsLast(kind, u, j + 1)
      BY <3>1, <3>2, <3>3, <3>4 DEF TellsLast
    <3>7. /\ u[j].op = "update" /\ Len(u[j].patches) = 1 /\ Decides(kind, u[j].patches[1]) /\ u[j].must
      BY <1>3, <3>3
    <3> QED
      BY <3>2, <3>5, <3>6, <3>7 DEF YetToTell
  <2> QED
    BY <2>1, <2>2
<1> QED
  BY <1>1, <1>2, <1>3 DEF YetToTell

LEMMA TellsTail ==
    ASSUME NEW kind, NEW t, IsList(t), t # << >>, TellsLast(kind, t, 2)
    PROVE  TellsLast(kind, Tail(t), 1)
<1> DEFINE u == Tail(t)
<1>1. /\ Len(t) \in Nat \ {0} /\ Len(u) = Len(t) - 1
      /\ \A i \in 1 .. Len(t) - 1 : u[i] = t[i + 1]
  BY TailList
<1>2. 2 \in 1 .. Len(t) /\ t[2].op = "send"
  BY DEF TellsLast
<1> HIDE DEF u
<1>3. 1 \in 1 .. Len(u) /\ u[1] = t[2]
  BY <1>1, <1>2
<1>4. IF kind = "REJECT" THEN Len(u) = 1 ELSE Len(u) = 2 /\ u[2] = NoteTold
  BY <1>1, <1>2 DEF TellsLast
<1> QED
  BY <1>2, <1>3, <1>4 DEF TellsLast, u

LEMMA DecidedBy ==
    ASSUME NEW kind, NEW c \in Snapshot, NEW p, PatchTyped(p), Decides(kind, p)
    PROVE  Decided(kind, Updated(c, c, p))
<1> DEFINE w == Updated(c, c, p)
<1>1. w.status = p["status"] /\ w.hrDecision = p["hrDecision"]
  BY UpdatedRow DEF Decides, Field
<1> HIDE DEF w
<1> QED
  BY <1>1 DEF Decides, Decided, w

\* The note that she has been told writes that and nothing else the guard asks about.
LEMMA NotedRow ==
    ASSUME NEW c \in Snapshot
    PROVE  LET p == [notificationSent |-> TRUE]
               w == Updated(c, c, p) IN
           /\ PatchTyped(p) /\ w \in Snapshot /\ w.notificationSent = TRUE
           /\ w.status = c.status /\ w.hrDecision = c.hrDecision /\ w.currentStep = c.currentStep
<1> DEFINE p == [notificationSent |-> TRUE]
           n == Normalized(c, p)
           w == Updated(c, c, p)
<1>1. DOMAIN p = {"notificationSent"} /\ p["notificationSent"] = TRUE
  OBVIOUS
<1>2. PatchTyped(p)
  BY <1>1 DEF PatchTyped
<1> HIDE DEF p
<1>3. /\ w \in Snapshot /\ w.status = c.status /\ w.hrDecision = c.hrDecision
  BY <1>1, <1>2, UpdatedRow DEF Field
<1>4. "notificationSent" \in DOMAIN n /\ n["notificationSent"] = TRUE /\ "currentStep" \notin DOMAIN n
  BY <1>1, NormalizedOf
<1>5. w = [f \in Columns |-> IF f \in DOMAIN n THEN n[f] ELSE c[f]]
  BY RowColumns DEF Updated, Written, Field
<1> HIDE DEF n, w
<1>6. w["notificationSent"] = TRUE /\ w["currentStep"] = c["currentStep"]
  BY <1>4, <1>5 DEF Columns
<1> QED
  BY <1>2, <1>3, <1>6 DEF p, w


LEMMA NoteAdmitted ==
    ASSUME NEW kind \in Verdicts \ {"REJECT"}, NEW c \in Snapshot, Decided(kind, c), StepFits(c)
    PROVE  /\ Admits(c, [notificationSent |-> TRUE])
           /\ Settled(kind, Updated(c, c, [notificationSent |-> TRUE]))
<1> DEFINE p == [notificationSent |-> TRUE]
           w == Updated(c, c, p)
<1>1. /\ PatchTyped(p) /\ w \in Snapshot /\ w.notificationSent = TRUE
      /\ w.status = c.status /\ w.hrDecision = c.hrDecision /\ w.currentStep = c.currentStep
  BY NotedRow
<1> HIDE DEF p
<1>2. StepFits(w) /\ c.status \notin {"WAITLIST_HR", "ACCEPTED"}
  BY <1>1 DEF StepFits, Decided
<1>3. Admits(c, p)
  BY <1>1, <1>2, KeepsTrack
<1>4. Settled(kind, w)
  BY <1>1 DEF Settled, Decided
<1> QED
  BY <1>3, <1>4 DEF p

\* The dispatcher leaves the row, or has touched it.
LEMMA DispatcherRow ==
    ASSUME Base, Calls("dispatcher")
    PROVE  cand' = cand \/ Touch("dispatcher")
<1>1. "dispatcher" \in Actors /\ cand \in Snapshot
  BY DEF Actors, Base, Tables, TypeOK, Row
<1>2. ~ WriteBooking("dispatcher")
  BY <1>1, AtHead DEF WriteBooking, Fine
<1> QED
  BY <1>2 DEF Calls, OtherCalls, ValidateUpdate, WriteUpdate, CheckPatch, Deliver, SendFails, SendIsBlocked, ArchiveBlocked,
         ReleaseWebSlot, CancelSlot, FreeSlot, RemindSlot, MarkSent, MoveLocation, RefuseCommand,
         TakeSlot, ValidateBooking, RestoreWebSlot, Rest

\* The letters of a command are those of before, and what it is told of now.
LEMMA LettersNext ==
    ASSUME Base, [Next]_vars, NEW k \in Commands
    PROVE  LET after == {i \in DOMAIN chat' : chat'[i].of = k} IN
           /\ LettersOf(k) \subseteq DOMAIN chat /\ DOMAIN chat \subseteq DOMAIN chat'
           /\ \/ after = LettersOf(k)
              \/ /\ Deliver("dispatcher") /\ Doing(k)
                 /\ Len(chat') \in DOMAIN chat' /\ after = LettersOf(k) \cup {Len(chat')}
<1>1. k # Null
  BY SceneFacts, ConstantsAssumption DEF Base, Tables
<1>2. /\ DOMAIN chat = 1 .. Len(chat) /\ DOMAIN chat' = 1 .. Len(chat')
      /\ Len(chat) \in Nat /\ Len(chat') \in Nat
      /\ \A i \in 1 .. Len(chat) : i \in 1 .. Len(chat') /\ chat'[i] = chat[i]
  BY ChatGrows
<1>3. CASE chat' = chat
  BY <1>2, <1>3 DEF LettersOf
<1>4. CASE Len(chat') = Len(chat) + 1
  <2>0. chat' # chat
    BY <1>2, <1>4
  <2>1. PICK a \in Actors :
           /\ Deliver(a) /\ AtCall(a, "send")
           /\ chat'[Len(chat')].of = IF a = "dispatcher" THEN run[a].doing[1] ELSE Null
    BY <2>0, ChatGrows
  <2>2. \A i \in DOMAIN chat' : i \in DOMAIN chat \/ i = Len(chat')
    BY <1>2, <1>4
  <2>3. Len(chat') \in DOMAIN chat' /\ Len(chat') \notin DOMAIN chat
    BY <1>2, <1>4
  <2>4. \A i \in DOMAIN chat : i \in DOMAIN chat' /\ chat'[i] = chat[i]
    BY <1>2
  <2>5. CASE chat'[Len(chat')].of = k
    <3>1. a = "dispatcher" /\ Doing(k)
      BY <1>1, <2>1, <2>5 DEF Doing, AtCall
    <3> QED
      BY <2>1, <2>2, <2>3, <2>4, <2>5, <3>1 DEF LettersOf
  <2>6. CASE chat'[Len(chat')].of # k
    BY <2>2, <2>3, <2>4, <2>6 DEF LettersOf
  <2> QED
    BY <2>5, <2>6
<1> QED
  BY <1>3, <1>4, ChatGrows

\* What the update of a verdict, at the head of its list, makes of list and row: one
\* handler runs at a time, so that it writes what it has read.
LEMMA UpdateAlone ==
    ASSUME Base, Turn, NEW a \in Actors, Calls(a), run[a].todo # << >>, Call(a).op = "update",
           Len(Call(a).patches) = 1
    PROVE  LET p == Call(a).patches[1] IN
           /\ cand \in Snapshot /\ PatchOK(p)
           /\ \/ cand' = cand /\ run'[a].todo = run[a].todo /\ Admits(cand, p)
              \/ /\ cand' = cand /\ ~ Admits(cand, p)
                 /\ IF Call(a).must THEN run'[a].todo = << >> ELSE run'[a].todo = Tail(run[a].todo)
              \/ /\ Admits(cand, p) /\ cand' = Updated(cand, cand, p) /\ run'[a].todo = Tail(run[a].todo)
<1>1. UpdateStep(a) /\ Fine(a, Call(a)) /\ cand \in Snapshot
  BY CallStep DEF Base, Tables, TypeOK, Row
<1>2. run[a].read # Null => run[a].read = cand /\ Admits(cand, Call(a).patches[1])
  BY DEF Turn, ReadsAreFresh
<1>3. PatchOK(Call(a).patches[1])
  BY <1>1 DEF Fine
<1> QED
  BY <1>1, <1>2, <1>3 DEF UpdateStep, Becomes, Onwards, Stops


\* A call of a verdict that is no letter: she is still to be told, by the row it leaves.
LEMMA VerdictUntold ==
    ASSUME Base, Turn, Calls("dispatcher"), Left # << >>, NEW kind, YetToTell(kind, Left, cand),
           Call("dispatcher").op # "send"
    PROVE  YetToTell(kind, run'["dispatcher"].todo, cand')
<1> DEFINE a == "dispatcher"
           t == run[a].todo
           u == run'[a].todo
           x == t[1]
<1>0. a \in Actors /\ t = Left /\ x = Call(a) /\ IsList(t)
  BY CallStep DEF Actors, Left, Call
<1>1. u = << >> \/ \E d \in {-1, 0, 1} : Shifted(t, u, d)
  BY <1>0, NextList
<1>2. /\ x.op = "update" => UpdateStep(a)
      /\ x.op = "update" /\ Len(x.patches) = 1 =>
            /\ cand \in Snapshot /\ PatchOK(x.patches[1])
            /\ \/ cand' = cand /\ u = t /\ Admits(cand, x.patches[1])
               \/ /\ cand' = cand /\ ~ Admits(cand, x.patches[1])
                  /\ IF x.must THEN u = << >> ELSE u = Tail(t)
               \/ cand' = Updated(cand, cand, x.patches[1]) /\ u = Tail(t)
  BY <1>0, CallStep, UpdateAlone
<1>3. YetToTell(kind, t, cand) /\ x.op # "send" /\ t # << >>
  BY <1>0
<1> HIDE DEF a, t, u, x
<1>4. YetToTell(kind, << >>, cand')
  BY EmptyLetterless DEF YetToTell
<1>5. ASSUME NEW d \in {-1, 0, 1}, Shifted(t, u, d) PROVE YetToTell(kind, u, cand')
  <2>1. CASE \A e : YetToTell(kind, u, e)
    BY <2>1
  <2>2. CASE Deciding(kind, x) /\ TellsLast(kind, t, 2)
    <3>1. x.op = "update" /\ Len(x.patches) = 1 /\ x.must /\ Decides(kind, x.patches[1])
      BY <2>2 DEF Deciding
    <3>2. CASE cand' = cand /\ u = t
      BY <1>3, <3>2
    <3>3. CASE u = << >>
      BY <1>4, <3>3
    <3>4. CASE cand' = Updated(cand, cand, x.patches[1]) /\ u = Tail(t)
      <4>1. Decided(kind, cand')
        BY <1>2, <3>1, <3>4, DecidedBy DEF PatchOK
      <4>2. TellsLast(kind, u, 1)
        BY <1>0, <1>3, <2>2, <3>4, TellsTail
      <4> QED
        BY <4>1, <4>2 DEF YetToTell
    <3> QED
      BY <1>2, <3>1, <3>2, <3>3, <3>4
  <2> QED
    BY <1>3, <1>5, <2>1, <2>2, YetShifted DEF x
<1> QED
  BY <1>1, <1>4, <1>5 DEF a, u

\* The letter of a verdict: told, she has had it; untold, no letter is left.
LEMMA VerdictSends ==
    ASSUME Base, Calls("dispatcher"), Left # << >>, NEW kind, YetToTell(kind, Left, cand),
           Call("dispatcher").op = "send"
    PROVE  IF chat' = chat THEN YetToTell(kind, run'["dispatcher"].todo, cand')
           ELSE ToldLeft(kind, run'["dispatcher"].todo, cand')
<1> DEFINE a == "dispatcher"
           t == run[a].todo
           u == run'[a].todo
<1>0. a \in Actors /\ t = Left /\ t[1] = Call(a) /\ IsList(t) /\ t # << >>
  BY CallStep DEF Actors, Left, Call
<1>1. SendStep(a) /\ cand' = cand
  BY <1>0, CallStep DEF SendStep
<1>2. chat' = chat /\ Letterless(Tail(t)) => Letterless(u)
  BY <1>0, LastUnsent
<1>3. chat' # chat => u = Tail(t)
  BY <1>1, Zenon DEF SendStep, Onwards
<1>4. YetToTell(kind, t, cand) /\ t[1].op = "send"
  BY <1>0
<1> HIDE DEF a, t, u
<1>5. 1 \in 1 .. Len(t)
  BY <1>0, TailList
<1>6. \/ Decided(kind, cand) /\ TellsLast(kind, t, 1)
      \/ kind = "REJECT" /\ Tail(t) = <<Mark, Close>>
  <2>1. ~ Letterless(t)
    BY <1>4, <1>5 DEF Letterless
  <2>2. \A m \in 1 .. Len(t) : 1 \in 1 .. m
    BY <1>5
  <2> QED
    BY <1>4, <2>1, <2>2 DEF YetToTell
<1>7. CASE Decided(kind, cand) /\ TellsLast(kind, t, 1)
  <2>1. CASE kind = "REJECT"
    <3>1. Tail(t) = << >>
      BY <1>0, <1>7, <2>1, ShortIs DEF TellsLast
    <3> QED
      BY <1>1, <1>2, <1>3, <1>7, <2>1, <3>1, EmptyLetterless DEF ToldLeft, Settled, YetToTell, a, u
  <2>2. CASE kind # "REJECT"
    <3>1. Len(t) = 2 /\ t[2] = NoteTold
      BY <1>7, <2>2 DEF TellsLast
    <3>2. Tail(t) = <<NoteTold>>
      BY <1>0, <3>1, ShortIs
    <3>3. Letterless(<<NoteTold>>)
      <4>1. NoteTold.op # "send"
        BY DEF NoteTold, Update
      <4> HIDE DEF NoteTold
      <4> QED
        BY <4>1, OneSilent DEF Letterless
    <3> QED
      BY <1>1, <1>2, <1>3, <1>7, <2>2, <3>2, <3>3 DEF ToldLeft, YetToTell, a, u
  <2> QED
    BY <2>1, <2>2
<1>8. CASE kind = "REJECT" /\ Tail(t) = <<Mark, Close>>
  <2>1. Letterless(<<Mark, Close>>)
    <3>1. Mark.op # "send" /\ Close.op # "send"
      BY DEF Mark, Close, Update
    <3> HIDE DEF Mark, Close
    <3>2. Len(<<Mark, Close>>) = 2 /\ <<Mark, Close>>[1] = Mark /\ <<Mark, Close>>[2] = Close
      BY ShortLists, Tails
    <3> QED
      BY <3>1, <3>2 DEF Letterless
  <2> QED
    BY <1>2, <1>3, <1>8, <2>1 DEF ToldLeft, YetToTell, a, u
<1> QED
  BY <1>6, <1>7, <1>8

\* What is left once she has been told goes on to the end.
LEMMA VerdictTold ==
    ASSUME Base, Turn, StepFits(cand), Calls("dispatcher"), Left # << >>, NEW kind \in Verdicts,
           ToldLeft(kind, Left, cand)
    PROVE  chat' = chat /\ ToldLeft(kind, run'["dispatcher"].todo, cand')
<1> DEFINE a == "dispatcher"
           t == run[a].todo
           u == run'[a].todo
<1>0. a \in Actors /\ t = Left /\ t # << >> /\ t[1] = Call(a) /\ cand \in Snapshot
  BY DEF Actors, Left, Call, Base, Tables, TypeOK, Row
<1>1. CASE t = <<NoteTold>> /\ kind # "REJECT" /\ Decided(kind, cand)
  <2> DEFINE p == [notificationSent |-> TRUE]
             ps == <<p>>
  <2>0. Len(ps) = 1 /\ ps[1] = p
    OBVIOUS
  <2>1. t[1] = NoteTold /\ Tail(t) = << >>
    <3> HIDE DEF NoteTold, t
    <3> QED
      BY <1>1, Tails
  <2>2. NoteTold.op = "update" /\ NoteTold.patches = ps /\ NoteTold.must
    BY DEF NoteTold, Update
  <2> HIDE DEF p, ps
  <2>3. Call(a).op = "update" /\ Call(a).patches[1] = p /\ Len(Call(a).patches) = 1
    BY <1>0, <2>0, <2>1, <2>2
  <2>4. Admits(cand, p) /\ Settled(kind, Updated(cand, cand, p))
    BY <1>0, <1>1, NoteAdmitted DEF p
  <2>5. \/ cand' = cand /\ u = t
        \/ cand' = Updated(cand, cand, p) /\ u = << >>
    BY <1>0, <2>1, <2>3, <2>4, UpdateAlone
  <2>6. chat' = chat
    BY <1>0, <2>3, CallStep
  <2> QED
    BY <1>1, <2>4, <2>5, <2>6 DEF ToldLeft
<1>2. CASE t = <<Mark, Close>> /\ kind = "REJECT"
  <2>1. t[1] = Mark /\ Tail(t) = <<Close>>
    <3> HIDE DEF Mark, Close, t
    <3> QED
      BY <1>2, Tails
  <2>2. Call(a).op = "mark"
    BY <1>0, <2>1 DEF Mark
  <2>3. u = <<Close>> /\ chat' = chat
    BY <1>0, <2>1, <2>2, CallStep DEF Onwards
  <2> QED
    BY <1>2, <2>3 DEF ToldLeft
<1>3. CASE t = <<Close>> /\ kind = "REJECT"
  <2> DEFINE p == Closed("REJECTED")
             ps == <<p>>
  <2>0. Len(ps) = 1 /\ ps[1] = p
    OBVIOUS
  <2>1. t[1] = Close /\ Tail(t) = << >>
    <3> HIDE DEF Close, t
    <3> QED
      BY <1>3, Tails
  <2>2. Close.op = "update" /\ Close.patches = ps /\ Close.must
    BY DEF Close, Update
  <2>a. "status" \in DOMAIN p /\ p["status"] = "REJECTED"
    BY DEF Closed
  <2> HIDE DEF p, ps
  <2>3. Call(a).op = "update" /\ Call(a).patches[1] = p /\ Len(Call(a).patches) = 1
    BY <1>0, <2>0, <2>1, <2>2
  <2>4. /\ PatchOK(p)
        /\ \/ cand' = cand /\ u = t /\ Admits(cand, p)
           \/ cand' = cand /\ ~ Admits(cand, p)
           \/ cand' = Updated(cand, cand, p) /\ u = << >>
    BY <1>0, <2>1, <2>3, UpdateAlone
  <2>5. Admits(cand, p) /\ Updated(cand, cand, p).status = "REJECTED"
    BY <1>0, <2>4, <2>a, RejectionAdmitted DEF PatchOK
  <2>6. chat' = chat
    BY <1>0, <2>3, CallStep
  <2>7. Updated(cand, cand, p).status = "REJECTED" => Settled("REJECT", Updated(cand, cand, p))
    BY DEF Settled, Decided
  <2> QED
    BY <1>3, <2>4, <2>5, <2>6, <2>7 DEF ToldLeft
<1> QED
  BY <1>0, <1>1, <1>2, <1>3 DEF ToldLeft, Left


\* Whom a verdict has settled no pass of the worker finds, and no button serves.
LEMMA SettledIdle ==
    ASSUME NEW kind \in Verdicts, Settled(kind, cand)
    PROVE  ~ Work /\ ~ Tap
<1>1. cand.status \in {"MENTOR_MANUAL", "REJECTED"}
  BY DEF Settled, Decided
<1>2. ~ Work
  BY <1>1 DEF Work, NotifyDecision, AutoComplete, OverdueBooking, RecoverStale, StaleBooking, RepairRejected
<1>3. ~ Tap
  BY <1>1 DEF Tap, TapSlot, TapCancel, canScheduleInterview, canRescheduleInterview
<1> QED
  BY <1>2, <1>3

\* One command, whose kind is a verdict's and stays, and who alone has touched anything.
LEMMA VerdictNext ==
    ASSUME Base, Turn, HeldOnce, Traces, ~ scene.overlap, "crash" \notin scene.faults, StepFits(cand),
           [Next]_vars, NEW k \in Commands, outbox[k].kind \in Verdicts, outbox'[k].kind = outbox[k].kind,
           touched' \subseteq {k}, VerdictGoesOn(k)
    PROVE  VerdictGoesOn(k)'
<1> DEFINE kind == outbox[k].kind
           Now == {i \in DOMAIN chat' : chat'[i].of = k}
           Got == \E i \in DOMAIN chat : LettersOf(k) = {i}
           GotNow == \E i \in DOMAIN chat' : Now = {i}
           DoingNow == run'["dispatcher"].doing # Null /\ run'["dispatcher"].doing[1] = k
           Rests == run'["worker"].doing = Null /\ run'["candidate"].doing = Null
           GoesNow == \/ Now = {} /\ (DoingNow => YetToTell(kind, run'["dispatcher"].todo, cand'))
                      \/ /\ GotNow
                         /\ IF DoingNow THEN ToldLeft(kind, run'["dispatcher"].todo, cand')
                            ELSE Settled(kind, cand') /\ Rests
<1>1. GoesNow => VerdictGoesOn(k)'
  BY DEF VerdictGoesOn, ToldOnce, Doing, Running, LettersOf, Left
<1>2. /\ LettersOf(k) \subseteq DOMAIN chat /\ DOMAIN chat \subseteq DOMAIN chat'
      /\ \/ Now = LettersOf(k)
         \/ /\ Deliver("dispatcher") /\ Doing(k)
            /\ Len(chat') \in DOMAIN chat' /\ Now = LettersOf(k) \cup {Len(chat')}
  BY LettersNext
<1>3. /\ "dispatcher" \in Actors /\ "worker" \in Actors /\ "candidate" \in Actors
      /\ touched \subseteq touched' /\ kind \in Verdicts /\ OneAtATime
  BY TouchedBy DEF Actors, Turn
<1>4. \/ LettersOf(k) = {} /\ (Doing(k) => YetToTell(kind, Left, cand))
      \/ Got /\ ToldOnce(k, kind, cand)
  BY DEF VerdictGoesOn
<1>5. Now = LettersOf(k) /\ Got => GotNow
  BY <1>2
<1>a. chat' = chat => Now = LettersOf(k)
  BY DEF LettersOf
<1>b. /\ ToldOnce(k, kind, cand) /\ Doing(k) => ToldLeft(kind, Left, cand)
      /\ ToldOnce(k, kind, cand) /\ ~ Doing(k) =>
            Settled(kind, cand) /\ ~ Running("worker") /\ ~ Running("candidate")
  BY DEF ToldOnce
<1> HIDE DEF Now, kind, Got
<1>c. GotNow /\ DoingNow /\ ToldLeft(kind, run'["dispatcher"].todo, cand') => GoesNow
  OBVIOUS
<1>d. GotNow /\ ~ DoingNow /\ Settled(kind, cand') /\ Rests => GoesNow
  OBVIOUS
<1>e. Now = {} /\ (DoingNow => YetToTell(kind, run'["dispatcher"].todo, cand')) => GoesNow
  OBVIOUS
<1>f. /\ Rests <=> run'["worker"].doing = Null /\ run'["candidate"].doing = Null
      /\ DoingNow <=> run'["dispatcher"].doing # Null /\ run'["dispatcher"].doing[1] = k
  OBVIOUS
<1>g. Now = LettersOf(k) \cup {Len(chat')} /\ LettersOf(k) = {} /\ Len(chat') \in DOMAIN chat' => GotNow
  OBVIOUS
<1> HIDE DEF GotNow, DoingNow, Rests, GoesNow
<1>6. ASSUME run' = run, cand' = cand, Now = LettersOf(k) PROVE GoesNow
  <2>1. (DoingNow <=> Doing(k)) /\ (Rests <=> ~ Running("worker") /\ ~ Running("candidate"))
        /\ run'["dispatcher"].todo = Left
    BY <1>6, <1>f DEF Doing, Running, Left
  <2> QED
    BY <1>4, <1>5, <1>6, <1>b, <1>c, <1>d, <1>e, <2>1
<1> SUFFICES GoesNow
  BY <1>1
<1>7. CASE UNCHANGED vars \/ (\E s \in Slots : Pass(s)) \/ (\E j \in Commands : Issue(j)) \/ Fetch
  <2>1. run' = run /\ cand' = cand
    BY <1>7 DEF vars, state, Pass, Issue, Fetch
  <2>2. chat' = chat
    BY <1>7 DEF vars, state, Pass, Issue, Fetch
  <2> QED
    BY <1>6, <1>a, <2>1, <2>2
<1>8. CASE BeginCommand
  <2>1. /\ chat' = chat /\ cand' = cand /\ ~ Running("dispatcher") /\ Quiet
        /\ run'["worker"] = run["worker"] /\ run'["candidate"] = run["candidate"]
        /\ run'["dispatcher"].doing = batch[1]
        /\ \/ \E offered \in BOOLEAN : run'["dispatcher"].todo = Todo(batch[1][1], batch[1][2], offered)
           \/ AsksFirst(batch[1][1]) /\ run'["dispatcher"].todo = <<Refuse("failed")>>
    BY <1>8, CommandBegins
  <2>2. Now = LettersOf(k) /\ ~ Doing(k) /\ Rests
    BY <1>3, <1>a, <1>f, <2>1 DEF Doing, Quiet, Running
  <2>3. CASE DoingNow
    <3>1. batch[1][1] = k /\ kind # "RESCHEDULE_INTERVIEW"
      BY <1>3, <1>f, <2>1, <2>3 DEF Verdicts
    <3> DEFINE begun == run'["dispatcher"].todo
               AsItShould == YetToTell(kind, begun, cand) /\ (Settled(kind, cand) => begun = << >>)
    <3>2. ASSUME NEW offered, begun = Todo(k, batch[1][2], offered) PROVE AsItShould
      BY <3>2, VerdictTodo DEF kind
    <3>3. ASSUME AsksFirst(k), begun = <<Refuse("failed")>> PROVE AsItShould
      <4>1. Letterless(<<Refuse("failed")>>)
        BY DEF Letterless, Refuse
      <4>2. kind = "REJECT_AFTER_INTERVIEW" /\ ~ Settled(kind, cand)
        BY <3>1, <3>3 DEF AsksFirst, Settled, Decided, kind
      <4> QED
        BY <3>3, <4>1, <4>2 DEF YetToTell
    <3>4. AsItShould
      BY <2>1, <3>1, <3>2, <3>3
    <3>5. Settled(kind, cand) => ToldLeft(kind, run'["dispatcher"].todo, cand)
      BY <3>4 DEF ToldLeft
    <3> QED
      BY <1>4, <1>5, <1>b, <1>c, <1>e, <2>1, <2>2, <2>3, <3>4, <3>5
  <2>4. CASE ~ DoingNow
    BY <1>4, <1>5, <1>b, <1>d, <1>e, <2>1, <2>2, <2>4
  <2> QED
    BY <2>3, <2>4
<1>9. CASE Ack \/ LoseAck
  <2>1. /\ Running("dispatcher") /\ Left = << >> /\ ~ DoingNow /\ cand' = cand /\ chat' = chat
        /\ run'["worker"] = run["worker"] /\ run'["candidate"] = run["candidate"]
    BY <1>9, <1>f, CommandEnds DEF Left, Running
  <2>2. Now = LettersOf(k) /\ Rests
    BY <1>3, <1>a, <1>f, <2>1 DEF OneAtATime, Running
  <2>3. <<NoteTold>> # << >> /\ <<Mark, Close>> # << >> /\ <<Close>> # << >>
    <3> HIDE DEF NoteTold, Mark, Close
    <3> QED
      BY Tails
  <2>4. ToldOnce(k, kind, cand) => Settled(kind, cand)
    BY <1>b, <2>1, <2>3 DEF ToldLeft
  <2> QED
    BY <1>4, <1>5, <1>d, <1>e, <2>1, <2>2, <2>4
<1>10. CASE Crash
  BY <1>10 DEF Crash
<1>11. CASE Work \/ Tap
  <2>1. OnlyRun /\ run'["dispatcher"] = run["dispatcher"] /\ Quiet
    BY <1>11, OthersBegin
  <2>2. ~ Doing(k) /\ ~ DoingNow /\ Now = LettersOf(k)
    BY <1>3, <1>a, <1>f, <2>1 DEF OnlyRun, Quiet, Doing, Running
  <2>3. ~ Settled(kind, cand)
    BY <1>3, <1>11, SettledIdle
  <2> QED
    BY <1>4, <1>b, <1>e, <2>2, <2>3
<1>12. CASE Calls("dispatcher")
  <2>1. /\ Running("dispatcher") /\ Left # << >> /\ run'["dispatcher"].doing = run["dispatcher"].doing
        /\ \A b \in Actors \ {"dispatcher"} : run'[b] = run[b]
    BY <1>3, <1>12, NothingLeft, OwnCall, DoingStays DEF Rest, Left
  <2>2. ~ Running("worker") /\ ~ Running("candidate") /\ Rests
    BY <1>3, <1>f, <2>1 DEF OneAtATime, Running
  <2>a. DoingNow <=> Doing(k)
    BY <1>f, <2>1 DEF Doing, Running
  <2>3. CASE ~ Doing(k)
    <3>1. ~ DoingNow /\ Now = LettersOf(k)
      BY <1>2, <2>a, <2>3
    <3>2. cand' = cand
      BY <1>3, <1>12, <2>1, <2>3, DispatcherRow DEF Touch, Doing
    <3> QED
      BY <1>4, <1>5, <1>b, <1>d, <1>e, <2>2, <2>3, <3>1, <3>2
  <2>4. CASE Doing(k) /\ LettersOf(k) = {}
    <3>1. YetToTell(kind, Left, cand)
      BY <1>4, <2>4 DEF Got
    <3>2. CASE Now = LettersOf(k)
      <4>1. Call("dispatcher").op # "send" => YetToTell(kind, run'["dispatcher"].todo, cand')
        BY <1>12, <2>1, <3>1, VerdictUntold
      <4>2. Call("dispatcher").op = "send" /\ chat' = chat => YetToTell(kind, run'["dispatcher"].todo, cand')
        BY <1>12, <2>1, <3>1, VerdictSends
      <4>3. chat' = chat
        <5> SUFFICES ASSUME chat' # chat PROVE FALSE
          OBVIOUS
        <5>1. PICK a \in Actors :
                 /\ AtCall(a, "send") /\ Len(chat') \in DOMAIN chat'
                 /\ chat'[Len(chat')].of = IF a = "dispatcher" THEN run[a].doing[1] ELSE Null
          BY ChatGrows
        <5>2. a = "dispatcher"
          BY <2>2, <5>1 DEF AtCall, Actors
        <5>3. Len(chat') \in Now
          BY <2>4, <5>1, <5>2 DEF Now, Doing
        <5> QED
          BY <2>4, <3>2, <5>3
      <4> QED
        BY <1>e, <2>4, <3>2, <4>1, <4>2, <4>3
    <3>3. CASE Deliver("dispatcher") /\ Len(chat') \in DOMAIN chat' /\ Now = LettersOf(k) \cup {Len(chat')}
      <4>1. Call("dispatcher").op = "send" /\ chat' # chat
        <5>1. Len(chat') \in Now
          BY <3>3
        <5> QED
          BY <1>a, <2>4, <3>3, <5>1 DEF Deliver, AtCall
      <4>2. ToldLeft(kind, run'["dispatcher"].todo, cand')
        BY <1>12, <2>1, <3>1, <4>1, VerdictSends
      <4>3. GotNow /\ DoingNow
        BY <1>g, <2>a, <2>4, <3>3
      <4> QED
        BY <1>c, <4>2, <4>3
    <3> QED
      BY <1>2, <3>2, <3>3
  <2>5. CASE Doing(k) /\ Got /\ ToldOnce(k, kind, cand)
    <3>1. chat' = chat /\ ToldLeft(kind, run'["dispatcher"].todo, cand')
      BY <1>3, <1>12, <1>b, <2>1, <2>5, VerdictTold
    <3>2. Now = LettersOf(k) /\ DoingNow
      BY <1>a, <2>a, <2>5, <3>1
    <3> QED
      BY <1>5, <1>c, <2>5, <3>1, <3>2
  <2> QED
    BY <1>4, <2>3, <2>4, <2>5
<1>13. CASE \E a \in Actors \ {"dispatcher"} : Calls(a)
  <2>1. PICK a \in Actors \ {"dispatcher"} : Calls(a)
    BY <1>13
  <2>2. Running(a) /\ run'["dispatcher"] = run["dispatcher"]
    BY <1>3, <2>1, OwnCall
  <2>3. ~ Running("dispatcher") /\ (Running("worker") \/ Running("candidate"))
    BY <1>3, <2>1, <2>2 DEF OneAtATime, Actors
  <2>4. ~ Doing(k) /\ ~ DoingNow /\ Now = LettersOf(k)
    BY <1>2, <1>f, <2>2, <2>3 DEF Doing, Running
  <2> QED
    BY <1>4, <1>b, <1>e, <2>3, <2>4
<1> QED
  BY <1>7, <1>8, <1>9, <1>10, <1>11, <1>12, <1>13 DEF Next, Dispatch

\* A command that was issued keeps its kind.
LEMMA KindStays ==
    ASSUME Base, [Next]_vars, NEW k, Issued(k)
    PROVE  outbox'[k].kind = outbox[k].kind
<1>1. CASE outbox' = outbox
  BY <1>1
<1>2. CASE \E j \in Commands : Issue(j)
  BY <1>2, CommandIssued DEF Issued
<1>3. CASE Ack \/ LoseAck
  BY <1>3, CommandEnds DEF Issued
<1>4. CASE \E a \in Actors : Calls(a)
  BY <1>1, <1>4, OwnCall
<1>5. CASE Work \/ Tap \/ Crash \/ Fetch \/ BeginCommand \/ (\E s \in Slots : Pass(s)) \/ UNCHANGED vars
  BY <1>1, <1>5 DEF Fetch, BeginCommand, Work, NotifyDecision, AutoComplete, RecoverStale,
              RepairRejected, Works, Tap, TapSlot, TapCancel, Taps, Crash, Pass, vars, state
<1> QED
  BY <1>2, <1>3, <1>4, <1>5 DEF Next, Dispatch

\* One that was not issued is nowhere, and does not begin.
LEMMA NotIssued ==
    ASSUME Base, HeldOnce, Traces, NEW k \in Commands, ~ Issued(k)
    PROVE  LettersOf(k) = {} /\ ~ Doing(k) /\ \A i \in 1 .. Len(batch) : batch[i][1] # k
<1>1. outbox[k].status = "none" /\ k # Null
  BY SceneFacts, ConstantsAssumption DEF Issued, Base, Tables
<1>2. DOMAIN chat = 1 .. Len(chat)
  BY DEF Base, Tables, ChatSound, IsList
<1> QED
  BY <1>1, <1>2 DEF LettersOf, Traces, HeldOnce, InHand, Doing

LEMMA NotBegun ==
    ASSUME Base, [Next]_vars, NEW k, ~ Doing(k), \A i \in 1 .. Len(batch) : batch[i][1] # k
    PROVE  ~ (run'["dispatcher"].doing # Null /\ run'["dispatcher"].doing[1] = k)
<1>0. "dispatcher" \in Actors
  BY DEF Actors
<1>1. CASE run'["dispatcher"].doing = run["dispatcher"].doing
  BY <1>1 DEF Doing, Running
<1>2. CASE BeginCommand
  BY <1>2, CommandBegins
<1>3. CASE Ack \/ LoseAck
  BY <1>3, CommandEnds DEF Running
<1>4. CASE Crash
  BY <1>0, <1>4 DEF Crash, Idle
<1>5. CASE \E a \in Actors : Calls(a)
  BY <1>0, <1>1, <1>5, OwnCall, DoingStays
<1>6. CASE Work \/ Tap
  BY <1>1, <1>6, OthersBegin
<1>7. CASE Fetch \/ (\E s \in Slots : Pass(s)) \/ (\E j \in Commands : Issue(j)) \/ UNCHANGED vars
  BY <1>1, <1>7 DEF Fetch, Pass, Issue, vars, state
<1> QED
  BY <1>2, <1>3, <1>4, <1>5, <1>6, <1>7 DEF Next, Dispatch

\* What one handler at a time, none of them cut short by a death, keeps of the verdicts.
VerdictsInOrder ==
    /\ StepFits(cand) /\ VerdictsAreToldOnce

LEMMA VerdictsInOrderNext ==
    ASSUME Base, Turn, HeldOnce, Traces, ~ scene.overlap, "crash" \notin scene.faults, VerdictsInOrder,
           [Next]_vars
    PROVE  VerdictsInOrder'
<1>1. StepFits(cand') /\ Commands' = Commands /\ touched \subseteq touched'
  BY StepFitsNext, SceneStays, TouchedBy DEF VerdictsInOrder, Commands
<1>2. ASSUME NEW k \in Commands, outbox'[k].kind \in Verdicts, touched' \subseteq {k}
      PROVE  VerdictGoesOn(k)'
  <2>1. CASE Issued(k)
    <3>1. outbox'[k].kind = outbox[k].kind
      BY <2>1, KindStays
    <3>2. VerdictGoesOn(k)
      BY <1>1, <1>2, <3>1 DEF VerdictsInOrder, VerdictsAreToldOnce
    <3> QED
      BY <1>2, <3>1, <3>2, VerdictNext DEF VerdictsInOrder
  <2>2. CASE ~ Issued(k)
    <3>1. LettersOf(k) = {} /\ ~ Doing(k) /\ \A i \in 1 .. Len(batch) : batch[i][1] # k
      BY <2>2, NotIssued
    <3>2. {i \in DOMAIN chat' : chat'[i].of = k} = {}
      BY <3>1, LettersNext
    <3>3. ~ (run'["dispatcher"].doing # Null /\ run'["dispatcher"].doing[1] = k)
      BY <2>2, <3>1, NotBegun
    <3> QED
      BY <3>2, <3>3 DEF VerdictGoesOn, LettersOf, Doing, Running
  <2> QED
    BY <2>1, <2>2
<1> QED
  BY <1>1, <1>2 DEF VerdictsInOrder, VerdictsAreToldOnce


LEMMA FirstVerdicts == Init /\ StepFits(cand) => VerdictsInOrder
<1> SUFFICES ASSUME Init, StepFits(cand), NEW k \in Commands PROVE outbox[k].kind \notin Verdicts \/ VerdictGoesOn(k)
  BY DEF VerdictsInOrder, VerdictsAreToldOnce
<1>1. /\ run = [a \in Actors |-> Idle] /\ "dispatcher" \in Actors /\ chat = << >>
  BY DEF Init, Actors
<1>2. DOMAIN chat = {} /\ ~ Running("dispatcher")
  BY <1>1, EmptyList DEF Running, Idle
<1> QED
  BY <1>2 DEF VerdictGoesOn, LettersOf, Doing

\* While nothing overlaps and no process dies, and if she starts with the step that
\* her status asks for: a verdict is told once, however often it is retried or offered
\* again (notificationSent, the already-rejected check and the redis mark of
\* services/hr-hiring.ts and recruiting-command-dispatcher.ts).
THEOREM VerdictLetterOnceAlways ==
    Spec /\ ~ scene.overlap /\ "crash" \notin scene.faults /\ StepFits(cand) => []VerdictLetterOnce
<1> DEFINE I == /\ Base /\ Turn /\ HeldOnce /\ Traces /\ VerdictsInOrder
                /\ ~ scene.overlap /\ "crash" \notin scene.faults
<1>1. Init /\ ~ scene.overlap /\ "crash" \notin scene.faults /\ StepFits(cand) => I
  BY BaseInit, TurnInit, FirstTold, FirstVerdicts
<1>2. I /\ [Next]_vars => I'
  BY BaseNext, TurnNext, HeldOnceNext, TracesNext, VerdictsInOrderNext, SceneStays DEF InTurn
<1>3. I => VerdictLetterOnce
  <2> SUFFICES ASSUME I, NEW k \in Commands, outbox[k].kind \in Verdicts, touched \subseteq {k}
               PROVE  Cardinality(LettersOf(k)) <= 1
    BY DEF VerdictLetterOnce
  <2>1. LettersOf(k) = {} \/ \E i : LettersOf(k) = {i}
    BY DEF VerdictsInOrder, VerdictsAreToldOnce, VerdictGoesOn
  <2>2. Cardinality({}) = 0 /\ \A i : Cardinality({i}) = 1
    BY FS_EmptySet, FS_Singleton
  <2>3. \A i : LettersOf(k) = {i} => Cardinality(LettersOf(k)) = 1
    BY <2>2, Zenon
  <2>4. LettersOf(k) = {} => Cardinality(LettersOf(k)) = 0
    BY <2>2, Zenon
  <2>5. Cardinality(LettersOf(k)) = 0 \/ Cardinality(LettersOf(k)) = 1
    BY <2>1, <2>3, <2>4, Zenon
  <2> QED
    BY <2>5
<1> QED
  BY <1>1, <1>2, <1>3, PTL DEF Spec


---------------------------------------------------------------------------
(* Who is out stays out.                                                   *)

LEMMA GoneMoves ==
    ASSUME NEW c \in Snapshot, Gone(c), Untrained(c), NEW s \in Reached, AllowsTransition(c, s)
    PROVE  s \in {"REJECTED", "BLOCKER"}
<1>1. ~ InMentorTrack(c) /\ ~ RecoverableUnderage(c) /\ c.status \in {"REJECTED", "BLOCKER"}
  BY DEF Gone, Untrained, InMentorTrack, RecoverableUnderage, TrainingTrack, FirstShiftTrack
<1> QED
  BY <1>1, Transitions

\* The guard refuses whom a patch would bring back.
LEMMA GoneRefused ==
    ASSUME NEW c \in Snapshot, Gone(c), Untrained(c), NEW p, PatchTyped(p), "status" \in DOMAIN p,
           p["status"] \in Reached \ {"REJECTED", "BLOCKER"}
    PROVE  ~ Admits(c, p)
<1> SUFFICES ASSUME Admits(c, p) PROVE FALSE
  OBVIOUS
<1>1. Updated(c, c, p).status = p["status"]
  BY UpdatedRow DEF Field
<1>2. AllowsTransition(c, p["status"])
  BY <1>1, AdmittedMoves DEF Gone, Field
<1> QED
  BY <1>2, GoneMoves

LEMMA GoneStays ==
    ASSUME Base, Turn, [Next]_vars, Gone(cand), NoTrainingSlot, age # "underage"
    PROVE  Gone(cand')
<1>1. cand \in Snapshot /\ Untrained(cand)
  BY DEF Base, Tables, TypeOK, Row, NoTrainingSlot
<1>2. CASE Unpatched(cand, cand')
  <2>1. cand'.status = cand.status /\ cand'.hrDecision = cand.hrDecision
    BY <1>1, <1>2 DEF Unpatched, Snapshot
  <2> QED
    BY <2>1 DEF Gone
<1>3. CASE Patched(cand, cand')
  <2>1. PICK p : /\ PatchOK(p) /\ cand' = Updated(cand, cand, p)
                 /\ Admits(cand, p) \/ ("status" \in DOMAIN p /\ p["status"] = "BLOCKER")
    BY <1>3 DEF Patched
  <2>2. /\ cand'.status = Field(p, "status", cand.status)
        /\ cand'.hrDecision = Field(p, "hrDecision", cand.hrDecision)
    BY <1>1, <2>1, UpdatedRow DEF PatchOK
  <2>3. cand'.hrDecision # "REJECTED_SYSTEM_UNDERAGE"
    BY <2>1, <2>2 DEF Field, PatchOK, Gone
  <2>4. cand'.status \in {"REJECTED", "BLOCKER"}
    <3>1. "status" \in DOMAIN p => p["status"] \in Reached /\ PatchTyped(p)
      BY <2>1 DEF PatchOK, Reached
    <3> QED
      BY <1>1, <2>1, <2>2, <3>1, GoneRefused DEF Field, Gone
  <2> QED
    BY <2>3, <2>4 DEF Gone
<1>4. ~ Reopened(cand, cand')
  <2>1. PatchTyped(Back) /\ "status" \in DOMAIN Back /\ Back["status"] = "WAITLIST_HR"
    BY PlainPatchesOK DEF PatchOK, Back
  <2>2. ~ Admits(cand, Back)
    BY <1>1, <2>1, GoneRefused DEF Reached, Writable
  <2> QED
    BY <2>2 DEF Reopened
<1>5. ~ Booked(cand, cand')
  <2> DEFINE p == Status1("INTERVIEW_SCHEDULED")
  <2>1. PatchTyped(p) /\ "status" \in DOMAIN p /\ p["status"] = "INTERVIEW_SCHEDULED"
    BY DEF PatchTyped, Status1, Status, InterviewTrack
  <2> HIDE DEF p
  <2>2. ~ Admits(cand, p)
    BY <1>1, <2>1, GoneRefused DEF Reached, Writable
  <2> QED
    BY <2>2 DEF Booked, p
<1> QED
  BY <1>2, <1>3, <1>4, <1>5, RowSteps

---------------------------------------------------------------------------
(* What lists of calls say.                                                *)

LEMMA CallsSay ==
    ASSUME NEW x
    PROVE  /\ x.op # "send" => ~ SaysNo(x) /\ ~ SaysYes(x)
           /\ \A p : ~ SaysNo(Update(p)) /\ ~ SaysYes(Update(p)) /\ Update(p).op # "send"
           /\ \A p : ~ SaysNo(Transaction(p)) /\ ~ SaysYes(Transaction(p))
           /\ \A p : ~ SaysNo(Check(p)) /\ ~ SaysYes(Check(p))
           /\ \A w : ~ SaysNo(Refuse(w)) /\ ~ SaysYes(Refuse(w))
           /\ \A s : ~ SaysNo(Remind(s)) /\ ~ SaysYes(Remind(s))
           /\ \A s, w : ~ SaysNo(Cancel(s, w)) /\ ~ SaysYes(Cancel(s, w))
           /\ ~ SaysNo(Release) /\ ~ SaysYes(Release) /\ ~ SaysNo(Move) /\ ~ SaysYes(Move)
           /\ ~ SaysNo(Mark) /\ ~ SaysYes(Mark) /\ ~ SaysNo(Archive) /\ ~ SaysYes(Archive)
           /\ \A b, f : \A l \in Nos : SaysNo(Send(l, b, f)) /\ ~ SaysYes(Send(l, b, f))
           /\ \A b, f : \A l \in Yeses : SaysYes(Send(l, b, f)) /\ ~ SaysNo(Send(l, b, f))
           /\ \A b, f : ~ SaysNo(Send("thanks", b, f)) /\ ~ SaysYes(Send("thanks", b, f))
BY ZenonT(60) DEF SaysNo, SaysYes, Update, Transaction, Check, Refuse, Remind, Cancel, Release, Move, Mark, Archive, Send,
       Nos, Yeses

LEMMA ShortSay ==
    ASSUME NEW x, NEW y, NEW z
    PROVE  /\ Harmless(<< >>) /\ Unhopeful(<< >>)
           /\ ~ SaysNo(x) => Harmless(<<x>>)
           /\ ~ SaysYes(x) => Unhopeful(<<x>>)
           /\ ~ SaysNo(x) /\ ~ SaysNo(y) => Harmless(<<x, y>>)
           /\ ~ SaysYes(x) /\ ~ SaysYes(y) => Unhopeful(<<x, y>>)
           /\ ~ SaysNo(x) /\ ~ SaysNo(y) /\ ~ SaysNo(z) => Harmless(<<x, y, z>>)
           /\ ~ SaysYes(x) /\ ~ SaysYes(y) /\ ~ SaysYes(z) => Unhopeful(<<x, y, z>>)
<1>1. Len(<< >>) = 0 /\ Len(<<x>>) = 1 /\ Len(<<x, y>>) = 2 /\ Len(<<x, y, z>>) = 3
  BY EmptyList, ShortLists
<1>2. /\ <<x>>[1] = x /\ <<x, y>>[1] = x /\ <<x, y>>[2] = y
      /\ <<x, y, z>>[1] = x /\ <<x, y, z>>[2] = y /\ <<x, y, z>>[3] = z
  BY Tails
<1>3. Harmless(<< >>) /\ Unhopeful(<< >>)
  BY <1>1 DEF Harmless, Unhopeful
<1>4. /\ ~ SaysNo(x) => Harmless(<<x>>)
      /\ ~ SaysNo(x) /\ ~ SaysNo(y) => Harmless(<<x, y>>)
      /\ ~ SaysNo(x) /\ ~ SaysNo(y) /\ ~ SaysNo(z) => Harmless(<<x, y, z>>)
  BY <1>1, <1>2 DEF Harmless
<1>5. /\ ~ SaysYes(x) => Unhopeful(<<x>>)
      /\ ~ SaysYes(x) /\ ~ SaysYes(y) => Unhopeful(<<x, y>>)
      /\ ~ SaysYes(x) /\ ~ SaysYes(y) /\ ~ SaysYes(z) => Unhopeful(<<x, y, z>>)
  BY <1>1, <1>2 DEF Unhopeful
<1> QED
  BY <1>3, <1>4, <1>5

LEMMA JoinedSay ==
    ASSUME NEW s, NEW t, IsList(s), IsList(t)
    PROVE  /\ IsList(s \o t)
           /\ Harmless(s) /\ Harmless(t) => Harmless(s \o t)
           /\ Unhopeful(s) /\ Unhopeful(t) => Unhopeful(s \o t)
<1> DEFINE u == s \o t
<1>1. /\ IsList(u) /\ Len(s) \in Nat /\ Len(t) \in Nat /\ Len(u) = Len(s) + Len(t)
      /\ \A i \in 1 .. Len(s) : u[i] = s[i]
      /\ \A i \in 1 .. Len(t) : u[Len(s) + i] = t[i]
  BY JoinedList
<1> HIDE DEF u
<1>2. ASSUME NEW i \in 1 .. Len(u)
      PROVE  (\E j \in 1 .. Len(s) : u[i] = s[j]) \/ (\E j \in 1 .. Len(t) : u[i] = t[j])
  <2>1. CASE i <= Len(s)
    BY <1>1, <2>1
  <2>2. CASE ~ (i <= Len(s))
    <3> DEFINE j == i - Len(s)
    <3>1. j \in 1 .. Len(t) /\ Len(s) + j = i
      BY <1>1, <2>2
    <3> HIDE DEF j
    <3> QED
      BY <1>1, <3>1
  <2> QED
    BY <2>1, <2>2
<1> QED
  BY <1>1, <1>2 DEF Harmless, Unhopeful, u

LEMMA HonestAfter ==
    ASSUME NEW s, NEW t, NEW c, IsList(s), IsList(t), Len(s) \in Nat \ {0}, Closing(s[Len(s)]),
           \A i \in 1 .. Len(s) : s[i].op # "send", Unhopeful(t)
    PROVE  Honest(s \o t, c)
<1> DEFINE u == s \o t
           m == Len(s)
<1>1. /\ Len(s) \in Nat \ {0} /\ Len(t) \in Nat /\ Len(u) = Len(s) + Len(t)
      /\ \A i \in 1 .. Len(s) : u[i] = s[i]
      /\ \A i \in 1 .. Len(t) : u[Len(s) + i] = t[i]
  BY JoinedList
<1> HIDE DEF u
<1>2. m \in 1 .. Len(u) /\ m \in 1 .. Len(s)
  BY <1>1
<1>3. Closing(u[m]) /\ \A i \in 1 .. m : u[i].op # "send"
  BY <1>1, <1>2
<1>4. ASSUME NEW i \in m + 1 .. Len(u) PROVE ~ SaysYes(u[i])
  <2> DEFINE j == i - m
  <2>1. j \in 1 .. Len(t) /\ Len(s) + j = i
    BY <1>1
  <2> HIDE DEF j
  <2> QED
    BY <1>1, <2>1 DEF Unhopeful
<1> QED
  BY <1>2, <1>3, <1>4 DEF Honest, u


---------------------------------------------------------------------------
(* What each command, as it begins, has to say.                            *)

\* It says no to none but whom it closes; and says yes to nobody who is out.
Truthful(t, c) == Honest(t, c) /\ (Gone(c) => Hopeless(t))

LEMMA SilentIsTruthful ==
    ASSUME NEW t, NEW c, Harmless(t), Unhopeful(t)
    PROVE  Truthful(t, c)
BY DEF Truthful, Honest, Hopeless

LEMMA BarredCalls ==
    /\ \A p : Reviving(p) => Barred(Update(p))
    /\ Barred(Check(Invited)) /\ \A offered \in BOOLEAN : Reviving(Looking(offered))
<1>1. ASSUME NEW p, Reviving(p) PROVE Barred(Update(p))
  <2>1. Len(<<p>>) = 1 /\ <<p>>[1] = p
    BY ShortLists, Tails
  <2> QED
    BY <1>1, <2>1 DEF Barred, Update
<1>2. Barred(Check(Invited))
  BY DEF Barred, Check
<1> QED
  BY <1>1, <1>2, LookingOK DEF Reviving, Reopens

LEMMA ClosingCalls ==
    ASSUME NEW p, "status" \in DOMAIN p, p["status"] = "REJECTED", "hrDecision" \in DOMAIN p,
           p["hrDecision"] # "REJECTED_SYSTEM_UNDERAGE"
    PROVE  Closing(Update(p)) /\ Update(p).op # "send"
<1>1. Len(<<p>>) = 1 /\ <<p>>[1] = p
  BY ShortLists, Tails
<1> QED
  BY <1>1 DEF Closing, Rejects, Update

LEMMA InviteTruthful ==
    ASSUME NEW c, age \in Ages
    PROVE  Truthful(inviteCandidate(c), c)
<1> DEFINE t == inviteCandidate(c)
<1>1. CASE age # "fits"
  <2>1. \E p : t = <<Update(p), Refuse("failed")>>
    BY <1>1, Zenon DEF inviteCandidate, Ages
  <2>2. PICK p : t = <<Update(p), Refuse("failed")>>
    BY <2>1
  <2> DEFINE x == Update(p)
             y == Refuse("failed")
  <2>3. ~ SaysNo(x) /\ ~ SaysYes(x) /\ ~ SaysNo(y) /\ ~ SaysYes(y)
    BY CallsSay
  <2> HIDE DEF x, y
  <2>4. Harmless(<<x, y>>) /\ Unhopeful(<<x, y>>)
    BY <2>3, ShortSay
  <2> QED
    BY <2>2, <2>4, SilentIsTruthful DEF x, y
<1>2. CASE age = "fits"
  <2> DEFINE x == Check(Invited)
             y == Send("invitation", "bar", "throw")
             z == Update(Invited)
  <2>1. t = <<x, y, z>>
    BY <1>2 DEF inviteCandidate
  <2>2. ~ SaysNo(x) /\ ~ SaysNo(y) /\ ~ SaysNo(z)
    BY CallsSay DEF Yeses
  <2>3. Barred(x)
    BY BarredCalls
  <2> HIDE DEF x, y, z
  <2>4. Harmless(<<x, y, z>>) /\ <<x, y, z>> # << >> /\ <<x, y, z>>[1] = x
    BY <2>2, ShortSay, Tails
  <2> QED
    BY <2>1, <2>3, <2>4 DEF Truthful, Honest, Hopeless
<1> QED
  BY <1>1, <1>2

LEMMA RescheduleTruthful ==
    ASSUME NEW c, NEW again, NEW offered \in BOOLEAN
    PROVE  Truthful(rescheduleInterviewByCommand(c, again, offered), c)
<1> DEFINE t == rescheduleInterviewByCommand(c, again, offered)
           y == Send(IF offered THEN "slots" ELSE "no slots", "archive", "throw")
           x == Update(Looking(offered))
           z == Transaction(<<Back, Looking(offered)>>)
           r == Refuse("state_conflict")
           letGo == <<Release>> \o cancelIfBooked(c)
<1>1. \/ t = <<r>>
      \/ t = <<x, y>>
      \/ t = letGo \o <<z, y>> /\ isReschedulable(c)
  BY Zenon DEF rescheduleInterviewByCommand, Back
<1>2. ~ SaysNo(y) /\ ~ SaysNo(x) /\ ~ SaysNo(z) /\ ~ SaysNo(r) /\ ~ SaysYes(r) /\ Barred(x)
  BY CallsSay, BarredCalls DEF Yeses
<1>3. IsList(letGo) /\ Harmless(letGo)
  <2> DEFINE q == Cancel(c.interviewSlotId, FALSE)
  <2>1. ~ SaysNo(Release) /\ ~ SaysNo(q)
    BY CallsSay
  <2>2. letGo = <<Release>> \o << >> \/ letGo = <<Release>> \o <<q>>
    BY Zenon DEF cancelIfBooked
  <2> HIDE DEF q, letGo
  <2>3. letGo = <<Release>> \/ letGo = <<Release, q>>
    BY <2>2, JoinedPair
  <2>4. IsList(<<Release>>) /\ IsList(<<Release, q>>) /\ Harmless(<<Release>>) /\ Harmless(<<Release, q>>)
    BY <2>1, ShortLists, ShortSay
  <2> QED
    BY <2>3, <2>4
<1> HIDE DEF t, x, y, z, r, letGo
<1>4. Truthful(<<r>>, c)
  BY <1>2, ShortSay, SilentIsTruthful
<1>5. Truthful(<<x, y>>, c)
  <2>1. Harmless(<<x, y>>) /\ <<x, y>> # << >> /\ <<x, y>>[1] = x
    BY <1>2, ShortSay, Tails
  <2> QED
    BY <1>2, <2>1 DEF Truthful, Honest, Hopeless
<1>6. isReschedulable(c) => Truthful(letGo \o <<z, y>>, c)
  <2>1. IsList(<<z, y>>) /\ Harmless(<<z, y>>)
    BY <1>2, ShortLists, ShortSay
  <2>2. Harmless(letGo \o <<z, y>>)
    BY <1>3, <2>1, JoinedSay
  <2>3. isReschedulable(c) => ~ Gone(c)
    BY DEF isReschedulable, Gone
  <2> QED
    BY <2>2, <2>3 DEF Truthful, Honest
<1> QED
  BY <1>1, <1>4, <1>5, <1>6 DEF t

LEMMA AcceptTruthful ==
    ASSUME NEW c
    PROVE  Truthful(acceptAfterInterview(c), c)
<1> DEFINE t == acceptAfterInterview(c)
           completed == [status |-> "INTERVIEW_COMPLETED", currentStep |-> "INTERVIEW",
                         interviewCompletedAt |-> TRUE]
           accepted == [status |-> "MENTOR_MANUAL", hrDecision |-> "ACCEPTED",
                        notificationSent |-> FALSE, materialsSent |-> FALSE, isWaitlisted |-> FALSE]
           x == Update(completed)
           y == Update(accepted)
           l == Send("offer", "archive", "throw")
           last == <<l, NoteTold>>
<1>1. \/ t = << >>
      \/ t = << >> \o last /\ ~ Gone(c)
      \/ t = <<x, y>> \o last /\ ~ Gone(c)
      \/ t = <<y>> \o last
  <2>1. c.status = "MENTOR_MANUAL" \/ c.status = "INTERVIEW_SCHEDULED" => ~ Gone(c)
    BY DEF Gone
  <2> HIDE DEF Gone
  <2> QED
    BY <2>1, Zenon DEF acceptAfterInterview, NoteTold
<1>2. /\ ~ SaysNo(x) /\ ~ SaysNo(y) /\ ~ SaysNo(l) /\ ~ SaysNo(NoteTold)
      /\ Barred(y)
  <2>1. Reviving(accepted)
    BY DEF Reviving
  <2> QED
    BY <2>1, CallsSay, BarredCalls DEF Yeses, NoteTold
<1> HIDE DEF t, x, y, l, NoteTold
<1>3. /\ IsList(last) /\ Harmless(last) /\ IsList(<<x, y>>) /\ Harmless(<<x, y>>)
      /\ IsList(<<y>>) /\ Harmless(<<y>>) /\ Len(<<y>>) = 1 /\ <<y>>[1] = y
  BY <1>2, ShortLists, ShortSay, Tails
<1> HIDE DEF last
<1>4. Harmless(<< >>) /\ Harmless(<< >> \o last) /\ Harmless(<<x, y>> \o last) /\ Harmless(<<y>> \o last)
  BY <1>3, ShortSay, JoinedSay, EmptyBefore
<1>5. Hopeless(<<y>> \o last)
  <2> DEFINE s == <<y>>
             u == s \o last
  <2>1. IsList(s) /\ Len(s) = 1 /\ s[1] = y
    BY <1>3
  <2> HIDE DEF s
  <2>a. /\ IsList(u) /\ Len(u) = Len(s) + Len(last) /\ Len(last) \in Nat
        /\ \A i \in 1 .. Len(s) : u[i] = s[i]
    BY <1>3, <2>1, JoinedList, SMTT(90)
  <2> HIDE DEF u
  <2>b. 1 \in 1 .. Len(s)
    BY <2>1
  <2>2. IsList(u) /\ Len(u) = 1 + Len(last) /\ Len(last) \in Nat /\ u[1] = y
    BY <2>1, <2>a, <2>b, SMTT(30)
  <2>3. u # << >>
    BY <2>2, EmptyIsNone
  <2> QED
    BY <1>2, <2>2, <2>3 DEF Hopeless, u, s
<1>6. Hopeless(<< >>)
  BY ShortSay DEF Hopeless
<1> QED
  BY <1>1, <1>4, <1>5, <1>6 DEF Truthful, Honest, t


LEMMA RejectAfterTruthful ==
    ASSUME NEW c
    PROVE  Truthful(rejectAfterInterview(c), c)
<1> DEFINE t == rejectAfterInterview(c)
           rejected == [status |-> "REJECTED", currentStep |-> "INTERVIEW", hrDecision |-> "REJECTED",
                        notificationSent |-> FALSE, materialsSent |-> FALSE]
           letter == IF beforeMeeting(c) THEN "rejection" ELSE "thanks for the talk, rejection"
           x == Update(rejected)
           l == Send(letter, "archive", "throw")
           last == <<l, NoteTold>>
           letGo == <<Release>> \o cancelIfBooked(c)
<1>1. \/ t = << >>
      \/ t = << >> \o last /\ Gone(c)
      \/ t = (letGo \o <<x>>) \o last
      \/ t = (<< >> \o <<x>>) \o last
  <2>1. c.status = "REJECTED" /\ c.hrDecision = "REJECTED" => Gone(c)
    BY DEF Gone
  <2> HIDE DEF Gone
  <2> QED
    BY <2>1, Zenon DEF rejectAfterInterview, NoteTold
<1>2. ~ SaysYes(l) /\ ~ SaysYes(NoteTold)
  BY CallsSay DEF Nos, NoteTold
<1>3. Closing(x) /\ x.op # "send" /\ ~ SaysYes(x)
  <2>1. /\ "status" \in DOMAIN rejected /\ rejected["status"] = "REJECTED" /\ "hrDecision" \in DOMAIN rejected
        /\ rejected["hrDecision"] # "REJECTED_SYSTEM_UNDERAGE"
    OBVIOUS
  <2> HIDE DEF rejected
  <2> QED
    BY <2>1, ClosingCalls, CallsSay
<1>4. IsList(letGo) /\ (\A i \in 1 .. Len(letGo) : letGo[i].op # "send") /\ Unhopeful(letGo)
  <2> DEFINE q == Cancel(c.interviewSlotId, FALSE)
  <2>1. Release.op # "send" /\ q.op # "send" /\ ~ SaysYes(Release) /\ ~ SaysYes(q)
    BY CallsSay DEF Release, Cancel
  <2>2. letGo = <<Release>> \o << >> \/ letGo = <<Release>> \o <<q>>
    BY Zenon DEF cancelIfBooked
  <2> HIDE DEF q, letGo
  <2>3. letGo = <<Release>> \/ letGo = <<Release, q>>
    BY <2>2, JoinedPair
  <2>4. CASE letGo = <<Release>>
    BY <2>1, <2>4, OneSilent, ShortSay
  <2>5. CASE letGo = <<Release, q>>
    <3>1. IsList(letGo) /\ Len(letGo) = 2 /\ letGo[1] = Release /\ letGo[2] = q /\ Unhopeful(letGo)
      BY <2>1, <2>5, ShortLists, Tails, ShortSay
    <3> QED
      BY <2>1, <3>1
  <2> QED
    BY <2>3, <2>4, <2>5
<1> HIDE DEF t, x, l, NoteTold, letGo
<1>5. IsList(last) /\ Unhopeful(last)
  BY <1>2, ShortLists, ShortSay
<1> HIDE DEF last
<1>6. ASSUME NEW f, IsList(f), \A i \in 1 .. Len(f) : f[i].op # "send", Unhopeful(f)
      PROVE  Truthful((f \o <<x>>) \o last, c)
  <2> DEFINE s == f \o <<x>>
  <2>1. IsList(<<x>>) /\ Len(<<x>>) = 1 /\ <<x>>[1] = x /\ Unhopeful(<<x>>)
    BY <1>3, ShortLists, Tails, ShortSay
  <2>2. IsList(s) /\ Unhopeful(s)
    BY <1>6, <2>1, JoinedSay
  <2>3. /\ Len(f) \in Nat /\ Len(s) = Len(f) + 1
        /\ \A i \in 1 .. Len(f) : s[i] = f[i]
        /\ s[Len(f) + 1] = x
    BY <1>6, <2>1, JoinedList
  <2> HIDE DEF s
  <2>4. /\ Len(s) \in Nat \ {0} /\ Closing(s[Len(s)])
        /\ \A i \in 1 .. Len(s) : s[i].op # "send"
    BY <1>3, <1>6, <2>3
  <2>5. Honest(s \o last, c)
    BY <1>5, <2>2, <2>4, HonestAfter
  <2>6. Unhopeful(s \o last)
    BY <1>5, <2>2, JoinedSay
  <2> QED
    BY <2>5, <2>6 DEF Truthful, Hopeless, s
<1>7. IsList(<< >>) /\ (\A i \in 1 .. Len(<< >>) : << >>[i].op # "send") /\ Unhopeful(<< >>) /\ Harmless(<< >>)
  <2>1. \A i \in 1 .. Len(<< >>) : << >>[i].op # "send"
    BY EmptyList DEF IsList
  <2> QED
    BY <2>1, EmptyList, ShortSay
<1>8. Truthful(<< >>, c)
  BY <1>7, SilentIsTruthful
<1>9. Gone(c) => Truthful(<< >> \o last, c)
  BY <1>5, EmptyBefore DEF Truthful, Honest, Hopeless
<1>10. Truthful((letGo \o <<x>>) \o last, c) /\ Truthful((<< >> \o <<x>>) \o last, c)
  BY <1>4, <1>6, <1>7
<1> QED
  BY <1>1, <1>8, <1>9, <1>10 DEF t

LEMMA ClosedTruthful ==
    ASSUME NEW c, NEW d \in {"REJECTED", "NOSHOW"}, NEW l
    PROVE  l \in Nos => Truthful(<<Update(Closed(d)), Send(l, "ignore", "ignore")>>, c)
<1> DEFINE x == Update(Closed(d))
           y == Send(l, "ignore", "ignore")
<1>1. Closing(x) /\ x.op # "send"
  <2> DEFINE p == Closed(d)
  <2>1. /\ "status" \in DOMAIN p /\ p["status"] = "REJECTED" /\ "hrDecision" \in DOMAIN p
        /\ p["hrDecision"] # "REJECTED_SYSTEM_UNDERAGE"
    BY DEF Closed
  <2> HIDE DEF p
  <2>2. Closing(Update(p)) /\ Update(p).op # "send"
    BY <2>1, ClosingCalls
  <2> QED
    BY <2>2 DEF p
<1>2. ~ SaysYes(x) /\ (l \in Nos => ~ SaysYes(y))
  BY CallsSay
<1> HIDE DEF x, y
<1>3. IsList(<<x>>) /\ Len(<<x>>) = 1 /\ <<x>>[1] = x /\ IsList(<<y>>)
  BY ShortLists, Tails
<1>4. /\ Len(<<x>>) \in Nat \ {0} /\ Closing(<<x>>[Len(<<x>>)])
      /\ \A i \in 1 .. Len(<<x>>) : <<x>>[i].op # "send"
  BY <1>1, <1>3
<1>5. l \in Nos => Unhopeful(<<y>>) /\ Unhopeful(<<x, y>>)
  BY <1>2, ShortSay
<1>6. l \in Nos => Honest(<<x>> \o <<y>>, c)
  <2> DEFINE s == <<x>>
             v == <<y>>
  <2>1. /\ IsList(s) /\ IsList(v) /\ Len(s) \in Nat \ {0} /\ Closing(s[Len(s)])
        /\ (\A i \in 1 .. Len(s) : s[i].op # "send") /\ (l \in Nos => Unhopeful(v))
    BY <1>3, <1>4, <1>5
  <2> HIDE DEF s, v
  <2> QED
    BY <2>1, HonestAfter DEF s, v
<1>7. <<x>> \o <<y>> = <<x, y>>
  BY JoinedPair
<1> QED
  BY <1>5, <1>6, <1>7 DEF Truthful, Hopeless, x, y

LEMMA RejectTruthful ==
    ASSUME NEW c, NEW k
    PROVE  Truthful(Reject(c, k), c)
<1> DEFINE x == Send("training rejection", "ignore", "throw")
           t == Reject(c, k)
           r == <<Close, Send("rejection", "ignore", "ignore")>>
<1>1. \/ t = << >>
      \/ t = <<x, Mark>> \o <<Close>>
      \/ t = << >> \o <<Close>>
      \/ t = r
  <2>1. CASE c.status = "REJECTED"
    BY Zenon, <2>1 DEF Reject, ManualContour
  <2>2. CASE c.status # "REJECTED" /\ c.status \in ManualContour
    BY Zenon, <2>2 DEF Reject, Close
  <2>3. CASE c.status # "REJECTED" /\ c.status \notin ManualContour
    BY Zenon, <2>3 DEF Reject, Close
  <2> QED
    BY <2>1, <2>2, <2>3
<1>2. Truthful(r, c)
  BY ClosedTruthful DEF Close, Nos
<1>3. SaysNo(x) /\ ~ SaysYes(x) /\ ~ SaysYes(Mark) /\ ~ SaysNo(Close) /\ ~ SaysYes(Close) /\ Mark.op = "mark"
  <2>1. SaysNo(x) /\ ~ SaysYes(x)
    BY CallsSay DEF Nos
  <2>2. ~ SaysNo(Close) /\ ~ SaysYes(Close)
    BY CallsSay DEF Close
  <2> QED
    BY <2>1, <2>2, CallsSay DEF Mark
<1>4. Closing(Close)
  <2> DEFINE p == Closed("REJECTED")
  <2>1. /\ "status" \in DOMAIN p /\ p["status"] = "REJECTED" /\ "hrDecision" \in DOMAIN p
        /\ p["hrDecision"] # "REJECTED_SYSTEM_UNDERAGE"
    BY DEF Closed
  <2> HIDE DEF p
  <2>2. Closing(Update(p))
    BY <2>1, ClosingCalls
  <2> QED
    BY <2>2 DEF Close, p
<1> HIDE DEF x, t, r, Close, Mark
<1>5. Truthful(<< >>, c) /\ Truthful(<<Close>>, c) /\ IsList(<<Close>>)
  BY <1>3, ShortLists, ShortSay, SilentIsTruthful
<1>6. Truthful(<<x, Mark>> \o <<Close>>, c)
  <2> DEFINE u == <<x, Mark>> \o <<Close>>
  <2>1. IsList(<<x, Mark>>) /\ Len(<<x, Mark>>) = 2 /\ IsList(<<Close>>) /\ Len(<<Close>>) = 1
    BY ShortLists
  <2>2. <<x, Mark>>[1] = x /\ <<x, Mark>>[2] = Mark /\ <<Close>>[1] = Close
    BY Tails
  <2>3. IsList(u) /\ Len(u) = 3 /\ u[1] = x /\ u[2] = Mark /\ u[3] = Close
    BY <2>1, <2>2, JoinedList
  <2>4. Unhopeful(u)
    BY <1>3, <2>1, JoinedSay, ShortSay
  <2> HIDE DEF u
  <2>5. u # << >>
    BY <2>3, EmptyIsNone
  <2>6. Len(Tail(u)) = 2 /\ Tail(u)[1] = Mark /\ Tail(u)[2] = Close
    BY <2>3, <2>5, TailList
  <2>7. Ends(Tail(u), c)
    <3>1. Rejects(Close) /\ Decision1(Close, c) # "REJECTED_SYSTEM_UNDERAGE"
      BY <1>4 DEF Closing, Decision1, Field
    <3> QED
      BY <1>3, <2>6, <3>1 DEF Ends
  <2> QED
    BY <1>3, <2>3, <2>4, <2>5, <2>7 DEF Truthful, Honest, Hopeless, u
<1>7. << >> \o <<Close>> = <<Close>>
  BY <1>5, EmptyBefore
<1> QED
  BY <1>1, <1>2, <1>5, <1>6, <1>7 DEF t

LEMMA PathTruthful ==
    ASSUME NEW c, NEW path \in Seq(Writable), path # << >>
    PROVE  Truthful(applySilentStatusPath(c, path), c)
<1> DEFINE ahead == IF path[1] = c.status THEN Tail(path) ELSE path
           t == [i \in DOMAIN ahead |-> Update(Status1(ahead[i]))]
<1>1. ahead \in Seq(Writable)
  OBVIOUS
<1> HIDE DEF ahead
<1>2. t = [i \in 1 .. Len(ahead) |-> Update(Status1(ahead[i]))] /\ Len(ahead) \in Nat
  BY <1>1
<1>3. t \in Seq({Update(Status1(s)) : s \in Writable}) /\ Len(t) = Len(ahead)
  BY <1>1, <1>2
<1>4. \A i \in 1 .. Len(t) : t[i] = Update(Status1(ahead[i]))
  BY <1>2, <1>3
<1>5. \A i \in 1 .. Len(t) : ~ SaysNo(t[i]) /\ ~ SaysYes(t[i])
  BY <1>4, CallsSay
<1>6. Harmless(t) /\ Unhopeful(t)
  BY <1>5 DEF Harmless, Unhopeful
<1> QED
  BY <1>6, SilentIsTruthful DEF applySilentStatusPath, ahead

LEMMA MoveTruthful ==
    ASSUME NEW c, NEW again
    PROVE  Truthful(changeLocation(c, again), c)
<1> DEFINE t == changeLocation(c, again)
           r == Refuse("failed")
<1>1. \/ t = <<r>>
      \/ t \in {<< >>, <<Move, TellOfMove>>, <<TellOfMove>>} /\ ~ Gone(c)
  BY Zenon DEF changeLocation, Gone, TellOfMove
<1>2. ~ SaysNo(r) /\ ~ SaysYes(r) /\ ~ SaysNo(Move) /\ ~ SaysNo(TellOfMove)
  BY CallsSay DEF TellOfMove, Yeses
<1> HIDE DEF t, r, Move, TellOfMove
<1>3. Truthful(<<r>>, c)
  BY <1>2, ShortSay, SilentIsTruthful
<1>4. Harmless(<< >>) /\ Harmless(<<Move, TellOfMove>>) /\ Harmless(<<TellOfMove>>)
  BY <1>2, ShortSay
<1>5. \A u : Harmless(u) /\ ~ Gone(c) => Truthful(u, c)
  BY DEF Truthful, Honest
<1> QED
  BY <1>1, <1>3, <1>4, <1>5 DEF t

LEMMA TodoTruthful ==
    ASSUME TypeOK, NEW k \in Commands, outbox[k].kind \in KindNames, NEW n, NEW offered \in BOOLEAN
    PROVE  Truthful(Todo(k, n, offered), cand)
<1>1. cand \in Snapshot /\ age \in Ages
  BY DEF TypeOK, Row
<1>2. /\ Truthful(inviteCandidate(cand), cand)
      /\ Truthful(rescheduleInterviewByCommand(cand, n > 0, offered), cand)
      /\ Truthful(acceptAfterInterview(cand), cand)
      /\ Truthful(rejectAfterInterview(cand), cand)
      /\ Truthful(Reject(cand, k), cand)
      /\ Truthful(changeLocation(cand, n > 0), cand)
  BY <1>1, InviteTruthful, RescheduleTruthful, AcceptTruthful, RejectAfterTruthful, RejectTruthful,
     MoveTruthful, Zenon
<1>3. /\ Truthful(applySilentStatusPath(cand, <<"TRAINING_COMPLETED">>), cand)
      /\ Truthful(applySilentStatusPath(cand, startStagingPath(cand.status)), cand)
      /\ Truthful(applySilentStatusPath(cand, stagingPassedPath(cand.status)), cand)
  BY PathsAre, PathTruthful
<1>4. Truthful(markNoShow, cand)
  BY ClosedTruthful DEF markNoShow, Nos
<1>5. Truthful(approveTattoo, cand)
  <2> DEFINE x == Update(Status1("SCREENING"))
             y == Send("approved", "ignore", "ignore")
  <2>1. ~ SaysNo(x) /\ ~ SaysNo(y) /\ Barred(x)
    <3>1. Reviving(Status1("SCREENING"))
      BY DEF Reviving, Status1
    <3> QED
      BY <3>1, CallsSay, BarredCalls DEF Yeses
  <2>2. approveTattoo = <<x, y>>
    BY DEF approveTattoo
  <2> HIDE DEF x, y
  <2>3. Harmless(<<x, y>>) /\ <<x, y>> # << >> /\ <<x, y>>[1] = x
    BY <2>1, ShortSay, Tails
  <2> QED
    BY <2>1, <2>2, <2>3 DEF Truthful, Honest, Hopeless
<1>6. Truthful(<<Update(Status1("HIRED"))>>, cand)
  <2> DEFINE x == Update(Status1("HIRED"))
  <2>1. ~ SaysNo(x) /\ ~ SaysYes(x)
    BY CallsSay
  <2> HIDE DEF x
  <2> QED
    BY <2>1, ShortSay, SilentIsTruthful DEF x
<1> QED
  BY <1>2, <1>3, <1>4, <1>5, <1>6 DEF Todo, KindNames


\* No pass of the worker finds, and no button serves, who is out; the worker says no
\* to nobody but whom her decision rejects.
LEMMA OthersTruthful ==
    ASSUME Base, Work \/ Tap
    PROVE  ~ Gone(cand) /\ \E t : Honest(t, cand) /\ (Works(t) \/ Taps(t))
<1>1. CASE NotifyDecision
  <2> DEFINE p == [status |-> "MENTOR_MANUAL", notificationSent |-> TRUE]
             q == [status |-> "REJECTED", notificationSent |-> TRUE]
             x == Send("offer", "archive", "throw")
             y == Send("thanks for the talk, rejection", "archive", "throw")
             z == Update(q)
  <2>1. ~ Gone(cand) /\ (Works(<<x, Update(p)>>) \/ (cand.hrDecision = "REJECTED" /\ Works(<<y, z>>)))
    BY <1>1 DEF NotifyDecision, Gone
  <2>2. ~ SaysNo(x) /\ ~ SaysNo(Update(p)) /\ SaysNo(y)
    BY CallsSay DEF Yeses, Nos
  <2>3. cand.hrDecision = "REJECTED" => Rejects(z) /\ Decision1(z, cand) = "REJECTED"
    <3>1. Len(<<q>>) = 1 /\ <<q>>[1] = q /\ "status" \in DOMAIN q /\ q["status"] = "REJECTED" /\ "hrDecision" \notin DOMAIN q
      OBVIOUS
    <3>2. z.op = "update" /\ z.patches = <<q>>
      BY DEF Update
    <3> HIDE DEF q, z
    <3> QED
      BY <3>1, <3>2 DEF Rejects, Decision1, Field
  <2> HIDE DEF p, x, y, z
  <2>4. Honest(<<x, Update(p)>>, cand)
    <3> DEFINE w == Update(p)
    <3>1. ~ SaysNo(x) /\ ~ SaysNo(w)
      BY <2>2
    <3> HIDE DEF w
    <3>2. Harmless(<<x, w>>)
      BY <3>1, ShortSay
    <3> QED
      BY <3>2 DEF Honest, w
  <2>5. cand.hrDecision = "REJECTED" => Honest(<<y, z>>, cand)
    <3>1. <<y, z>> # << >> /\ <<y, z>>[1] = y /\ Tail(<<y, z>>) = <<z>> /\ Len(<<z>>) = 1 /\ <<z>>[1] = z
      BY Tails, ShortLists
    <3>2. cand.hrDecision = "REJECTED" => Ends(<<z>>, cand)
      BY <2>3, <3>1 DEF Ends
    <3> QED
      BY <2>2, <3>1, <3>2 DEF Honest
  <2> QED
    BY <2>1, <2>4, <2>5
<1>2. CASE AutoComplete
  <2> DEFINE more == IF cand.hrDecision = Null THEN <<Send("thanks", "archive", "ignore")>> ELSE << >>
  <2>1. PICK s \in Slots : Works(<<Update(Completed), Remind(s)>> \o more) /\ ~ Gone(cand)
    BY <1>2 DEF AutoComplete, OverdueBooking, Gone
  <2> DEFINE x == Update(Completed)
             y == Remind(s)
             z == Send("thanks", "archive", "ignore")
  <2>2. ~ SaysNo(x) /\ ~ SaysNo(y) /\ ~ SaysNo(z) /\ more \in {<<z>>, << >>}
    BY CallsSay
  <2> HIDE DEF x, y, z, more
  <2>3. IsList(<<x, y>>) /\ Harmless(<<x, y>>) /\ IsList(more) /\ Harmless(more)
    <3>1. IsList(<<x, y>>) /\ IsList(<<z>>) /\ IsList(<< >>)
      BY ShortLists, EmptyList
    <3>2. Harmless(<<x, y>>) /\ Harmless(<<z>>) /\ Harmless(<< >>)
      BY <2>2, ShortSay
    <3> QED
      BY <2>2, <3>1, <3>2
  <2>4. Harmless(<<x, y>> \o more)
    BY <2>3, JoinedSay
  <2> QED
    BY <2>1, <2>4 DEF Honest, x, y
<1>3. CASE RecoverStale \/ RepairRejected
  <2> DEFINE x == Update(Completed)
             y == Update(Status1("REJECTED"))
  <2>1. ~ Gone(cand) /\ ((\E s \in Slots : Works(<<x, Remind(s)>>)) \/ Works(<<y>>))
    BY <1>3 DEF RecoverStale, StaleBooking, RepairRejected, Gone
  <2>2. ~ SaysNo(x) /\ ~ SaysNo(y) /\ \A s : ~ SaysNo(Remind(s))
    BY CallsSay
  <2> HIDE DEF x, y
  <2>3. Harmless(<<y>>) /\ \A s : Harmless(<<x, Remind(s)>>)
    <3>1. \A z : ~ SaysNo(z) => Harmless(<<x, z>>)
      BY <2>2, ShortSay
    <3> QED
      BY <2>2, <3>1, ShortSay
  <2> QED
    BY <2>1, <2>3 DEF Honest
<1>4. CASE TapSlot
  <2>1. PICK s \in Slots : /\ Taps(<<TakeWebSlot(s), EmptyMirror(s), Book(s, cand.interviewSlotId)>>)
                           /\ ~ Gone(cand)
    BY <1>4 DEF TapSlot, Gone, canScheduleInterview, canRescheduleInterview
  <2> DEFINE x == TakeWebSlot(s)
             y == EmptyMirror(s)
             z == Book(s, cand.interviewSlotId)
  <2>2. ~ SaysNo(x) /\ ~ SaysNo(y) /\ ~ SaysNo(z)
    BY DEF TakeWebSlot, EmptyMirror, Free, Book, SaysNo
  <2>3. Taps(<<x, y, z>>)
    BY <2>1
  <2> HIDE DEF x, y, z
  <2>4. Harmless(<<x, y, z>>)
    BY <2>2, ShortSay
  <2> QED
    BY <2>1, <2>3, <2>4 DEF Honest
<1>5. CASE TapCancel
  <2>1. PICK p : Taps(<<Release, Cancel(cand.interviewSlotId, TRUE), Update(p)>>) /\ ~ Gone(cand)
    BY <1>5 DEF TapCancel, Gone, canRescheduleInterview
  <2> DEFINE x == Release
             y == Cancel(cand.interviewSlotId, TRUE)
             z == Update(p)
  <2>2. ~ SaysNo(x) /\ ~ SaysNo(y) /\ ~ SaysNo(z)
    BY CallsSay
  <2>3. Taps(<<x, y, z>>)
    BY <2>1
  <2> HIDE DEF x, y, z
  <2>4. Harmless(<<x, y, z>>)
    BY <2>2, ShortSay
  <2> QED
    BY <2>1, <2>3, <2>4 DEF Honest
<1> QED
  BY <1>1, <1>2, <1>3, <1>4, <1>5 DEF Work, Tap

---------------------------------------------------------------------------
(* What a call leaves to say.                                              *)

LEMMA ShiftedSay ==
    ASSUME NEW t, NEW u, NEW d, Shifted(t, u, d)
    PROVE  (Harmless(t) => Harmless(u)) /\ (Unhopeful(t) => Unhopeful(u))
<1>1. ASSUME NEW i \in 1 .. Len(u) PROVE u[i].op # "send" \/ \E j \in 1 .. Len(t) : u[i] = t[j]
  <2>0. d \in {-1, 0, 1} /\ Len(t) \in Nat \ {0} /\ Len(u) = Len(t) + d
    BY DEF Shifted
  <2>1. CASE i <= d + 1
    BY <2>0, <2>1 DEF Shifted, Led
  <2>2. CASE ~ (i <= d + 1)
    <3> DEFINE j == i - d
    <3>1. j \in 2 .. Len(t) /\ j \in 1 .. Len(t) /\ j + d = i
      BY <2>0, <2>2
    <3> HIDE DEF j
    <3> QED
      BY <3>1 DEF Shifted
  <2> QED
    BY <2>1, <2>2
<1> QED
  BY <1>1, CallsSay DEF Harmless, Unhopeful

LEMMA TailSays ==
    ASSUME NEW t, IsList(t), t # << >>
    PROVE  (Harmless(t) => Harmless(Tail(t))) /\ (Unhopeful(t) => Unhopeful(Tail(t)))
<1> DEFINE u == Tail(t)
<1>1. Len(t) \in Nat \ {0} /\ Len(u) = Len(t) - 1 /\ \A i \in 1 .. Len(t) - 1 : u[i] = t[i + 1]
  BY TailList
<1> HIDE DEF u
<1>2. \A i \in 1 .. Len(u) : i + 1 \in 1 .. Len(t) /\ u[i] = t[i + 1]
  BY <1>1
<1> QED
  BY <1>2 DEF Harmless, Unhopeful, u

\* What a letter, sent or not, leaves: the rest, or calls that say nothing.
LEMMA SendLeaves ==
    ASSUME Base, NEW a \in Actors, Calls(a), run[a].todo # << >>, Call(a).op = "send"
    PROVE  LET u == run'[a].todo IN
           /\ cand' = cand
           /\ u = Tail(run[a].todo) \/ (Harmless(u) /\ Unhopeful(u))
           /\ chat' # chat => u = Tail(run[a].todo)
<1>1. SendStep(a)
  BY CallStep
<1>2. \/ Onwards(a) \/ (chat' = chat /\ (Stops(a) \/ Becomes(a, <<Archive>>) \/ Becomes(a, <<Attempt(Bar), Refuse("failed")>>)))
  BY <1>1, Zenon DEF SendStep
<1>3. /\ Harmless(<< >>) /\ Unhopeful(<< >>) /\ Harmless(<<Archive>>) /\ Unhopeful(<<Archive>>)
      /\ Harmless(<<Attempt(Bar), Refuse("failed")>>) /\ Unhopeful(<<Attempt(Bar), Refuse("failed")>>)
  <2> DEFINE x == Attempt(Bar)
             y == Refuse("failed")
  <2>1. ~ SaysNo(x) /\ ~ SaysYes(x) /\ ~ SaysNo(y) /\ ~ SaysYes(y) /\ ~ SaysNo(Archive) /\ ~ SaysYes(Archive)
    BY CallsSay DEF Attempt
  <2> HIDE DEF x, y
  <2> QED
    BY <2>1, ShortSay DEF x, y
<1> QED
  BY <1>1, <1>2, <1>3 DEF SendStep, Onwards, Stops, Becomes

LEMMA NextSays ==
    ASSUME Base, NEW a \in Actors, Calls(a), run[a].todo # << >>
    PROVE  LET t == run[a].todo
               u == run'[a].todo IN
           (Harmless(t) => Harmless(u)) /\ (Unhopeful(t) => Unhopeful(u))
<1>1. IsList(run[a].todo)
  BY CallStep
<1>2. Harmless(<< >>) /\ Unhopeful(<< >>)
  BY ShortSay
<1>3. CASE Call(a).op = "send"
  BY <1>1, <1>3, SendLeaves, TailSays
<1>4. CASE Call(a).op # "send"
  BY <1>2, <1>4, NextList, ShiftedSay
<1> QED
  BY <1>3, <1>4


\* Her rejection, at the head of a list: it is written, and she is out.
LEMMA RejectsAlone ==
    ASSUME Base, Turn, NEW a \in Actors, Calls(a), run[a].todo # << >>, Rejects(Call(a)),
           Decision1(Call(a), cand) # "REJECTED_SYSTEM_UNDERAGE"
    PROVE  \/ cand' = cand /\ run'[a].todo = run[a].todo
           \/ Gone(cand') /\ run'[a].todo = Tail(run[a].todo)
<1> DEFINE x == Call(a)
           p == x.patches[1]
<1>1. x.op = "update" /\ Len(x.patches) = 1 /\ "status" \in DOMAIN p /\ p["status"] = "REJECTED"
  BY DEF Rejects
<1>2. /\ cand \in Snapshot /\ PatchOK(p)
      /\ \/ cand' = cand /\ run'[a].todo = run[a].todo
         \/ ~ Admits(cand, p)
         \/ cand' = Updated(cand, cand, p) /\ run'[a].todo = Tail(run[a].todo)
  BY <1>1, UpdateAlone
<1>3. Decision1(x, cand) = Field(p, "hrDecision", cand.hrDecision)
  BY DEF Decision1
<1> HIDE DEF x, p
<1>4. /\ Admits(cand, p) /\ Updated(cand, cand, p).status = "REJECTED"
      /\ Updated(cand, cand, p).hrDecision = Field(p, "hrDecision", cand.hrDecision)
  BY <1>1, <1>2, RejectionAdmitted, UpdatedRow DEF PatchOK
<1>5. Gone(Updated(cand, cand, p))
  BY <1>3, <1>4 DEF Gone, x
<1> QED
  BY <1>2, <1>4, <1>5

LEMMA HonestNext ==
    ASSUME Base, Turn, NoTrainingSlot, age # "underage",
           NEW a \in Actors, Calls(a), run[a].todo # << >>, Honest(run[a].todo, cand)
    PROVE  Honest(run'[a].todo, cand')
<1> DEFINE t == run[a].todo
           u == run'[a].todo
<1>0. t # << >> /\ IsList(t) /\ t[1] = Call(a) /\ Len(t) \in Nat \ {0} /\ [Next]_vars
  BY CallStep, TailList DEF Call, Next
<1>1. (Harmless(t) => Harmless(u)) /\ (Unhopeful(t) => Unhopeful(u))
  BY NextSays
<1>2. Gone(cand) => Gone(cand')
  BY <1>0, GoneStays
<1>3. t[1].op = "send" => u = Tail(t) \/ Harmless(u)
  BY <1>0, SendLeaves
<1>4. t[1].op # "send" => u = << >> \/ \E d \in {-1, 0, 1} : Shifted(t, u, d)
  BY <1>0, NextList
<1>5. Rejects(t[1]) /\ Decision1(t[1], cand) # "REJECTED_SYSTEM_UNDERAGE" =>
         \/ cand' = cand /\ u = t
         \/ Gone(cand') /\ u = Tail(t)
  BY <1>0, RejectsAlone
<1>6. Honest(t, cand)
  OBVIOUS
<1> HIDE DEF t, u
<1>7. CASE Harmless(t) \/ (Gone(cand) /\ Unhopeful(t))
  BY <1>1, <1>2, <1>7 DEF Honest, u
<1>8. CASE SaysNo(t[1]) /\ Ends(Tail(t), cand)
  <2> DEFINE v == Tail(t)
  <2>1. Len(v) = 1 \/ (Len(v) = 2 /\ v[1].op = "mark")
    BY <1>8 DEF Ends
  <2>2. v[Len(v)].op = "update"
    BY <1>8 DEF Ends, Rejects
  <2> HIDE DEF v
  <2>3. Harmless(v)
    BY <2>1, <2>2 DEF Harmless, SaysNo
  <2> QED
    BY <1>3, <1>8, <2>3 DEF Honest, SaysNo, u, v
<1>9. ASSUME NEW m \in 1 .. Len(t), Closing(t[m]), \A i \in 1 .. m : t[i].op # "send",
             \A i \in m + 1 .. Len(t) : ~ SaysYes(t[i])
      PROVE  Honest(u, cand')
  <2>1. t[1].op # "send"
    BY <1>0, <1>9
  <2>2. CASE m = 1
    <3>1. Rejects(t[1]) /\ Decision1(t[1], cand) # "REJECTED_SYSTEM_UNDERAGE"
      BY <1>9, <2>2 DEF Closing, Decision1, Field
    <3>2. CASE cand' = cand /\ u = t
      BY <1>6, <3>2
    <3>3. CASE Gone(cand') /\ u = Tail(t)
      <4> DEFINE v == Tail(t)
      <4>1. Len(v) = Len(t) - 1 /\ \A i \in 1 .. Len(t) - 1 : v[i] = t[i + 1]
        BY <1>0, TailList
      <4> HIDE DEF v
      <4>2. \A i \in 1 .. Len(v) : i + 1 \in m + 1 .. Len(t) /\ v[i] = t[i + 1]
        BY <1>0, <2>2, <4>1
      <4>3. Unhopeful(v)
        BY <1>9, <4>2 DEF Unhopeful
      <4> QED
        BY <3>3, <4>3 DEF Honest, v
    <3> QED
      BY <1>5, <3>1, <3>2, <3>3
  <2>3. CASE m # 1
    <3>1. CASE u = << >>
      BY <3>1, ShortSay DEF Honest
    <3>2. ASSUME NEW d \in {-1, 0, 1}, Shifted(t, u, d) PROVE Honest(u, cand')
      <4> DEFINE n == m + d
      <4>1. Len(u) = Len(t) + d /\ m \in 2 .. Len(t)
        BY <1>0, <2>3, <3>2 DEF Shifted, Led
      <4>2. n \in 1 .. Len(u) /\ u[n] = t[m]
        BY <1>0, <3>2, <4>1 DEF Shifted, Led
      <4>3. ASSUME NEW i \in 1 .. n PROVE u[i].op # "send"
        <5>1. CASE i <= d + 1
          BY <3>2, <5>1 DEF Shifted, Led
        <5>2. CASE ~ (i <= d + 1)
          <6> DEFINE j == i - d
          <6>1. j \in 2 .. m /\ j \in 2 .. Len(t) /\ j + d = i /\ j \in 1 .. m
            BY <1>0, <4>1, <5>2
          <6> HIDE DEF j
          <6> QED
            BY <1>9, <3>2, <6>1 DEF Shifted, Led
        <5> QED
          BY <5>1, <5>2
      <4>4. ASSUME NEW i \in n + 1 .. Len(u) PROVE ~ SaysYes(u[i])
        <5> DEFINE j == i - d
        <5>1. j \in m + 1 .. Len(t) /\ j \in 2 .. Len(t) /\ j + d = i
          BY <1>0, <4>1
        <5> HIDE DEF j
        <5> QED
          BY <1>9, <3>2, <5>1 DEF Shifted, Led
      <4> HIDE DEF n
      <4>5. Closing(u[n])
        BY <1>9, <4>2
      <4> QED
        BY <4>2, <4>3, <4>4, <4>5 DEF Honest
    <3> QED
      BY <1>4, <2>1, <3>1, <3>2
  <2> QED
    BY <2>2, <2>3
<1> QED
  BY <1>6, <1>7, <1>8, <1>9 DEF Honest, u

\* Of one who is out and has been told so: what the guard bars is not done, and the
\* handler that tells her closes her row.
LEMMA HopelessNext ==
    ASSUME Base, Turn, NoTrainingSlot, age # "underage",
           NEW a \in Actors, Calls(a), run[a].todo # << >>, Gone(cand), Hopeless(run[a].todo)
    PROVE  Gone(cand') /\ Hopeless(run'[a].todo)
<1> DEFINE t == run[a].todo
           u == run'[a].todo
           x == Call(a)
<1>0. /\ t # << >> /\ t[1] = Call(a) /\ [Next]_vars /\ Fine(a, x)
      /\ cand \in Snapshot /\ Untrained(cand)
  BY CallStep DEF Call, Next, Base, Tables, TypeOK, Row, NoTrainingSlot
<1>1. Gone(cand') /\ (Unhopeful(t) => Unhopeful(u))
  BY <1>0, GoneStays, NextSays
<1>2. Stops(a) => Unhopeful(u)
  BY ShortSay DEF Stops
<1>3. \A p : PatchTyped(p) /\ Reviving(p) => ~ Admits(cand, p)
  BY <1>0, GoneRefused DEF Reviving, Reached, Writable
<1>4. CASE Barred(x)
  <2>1. CASE x.op = "check" /\ x.patch = Invited
    <3>1. ~ Admits(cand, x.patch)
      BY <1>3, <2>1, InvitedOK, InvitedStatus DEF PatchOK, Reviving
    <3> QED
      BY <1>1, <1>2, <2>1, <3>1, CallStep DEF Hopeless
  <2>2. CASE x.op = "update" /\ x.must /\ Len(x.patches) = 1 /\ Reviving(x.patches[1])
    <3>1. PatchOK(x.patches[1]) /\ (~ Admits(cand, x.patches[1]) => u = << >>)
      BY <2>2, UpdateAlone
    <3>2. ~ Admits(cand, x.patches[1])
      BY <1>3, <2>2, <3>1 DEF PatchOK
    <3> QED
      BY <1>1, <3>1, <3>2, ShortSay DEF Hopeless
  <2>3. CASE x.op = "update" /\ x.must /\ Len(x.patches) = 2
    <3>1. x.patches[1] = Back /\ UpdateStep(a)
      BY <1>0, <2>3, CallStep DEF Fine
    <3>2. ~ Admits(cand, Back)
      <4>1. PatchTyped(Back) /\ "status" \in DOMAIN Back /\ Back["status"] = "WAITLIST_HR"
        BY PlainPatchesOK DEF PatchOK, Back
      <4> QED
        BY <1>0, <4>1, GoneRefused DEF Reached, Writable
    <3>3. run[a].read = Null
      BY <2>3, <3>1, <3>2 DEF Turn, ReadsAreFresh
    <3>4. Stops(a)
      BY <2>3, <3>1, <3>2, <3>3 DEF UpdateStep
    <3> QED
      BY <1>1, <1>2, <3>4 DEF Hopeless
  <2> QED
    BY <1>4, <2>1, <2>2, <2>3 DEF Barred
<1> QED
  BY <1>0, <1>1, <1>4 DEF Hopeless

LEMMA EndsNext ==
    ASSUME Base, Turn, NEW a \in Actors, Calls(a), run[a].todo # << >>, Ends(run[a].todo, cand)
    PROVE  (Gone(cand') /\ Hopeless(run'[a].todo)) \/ Ends(run'[a].todo, cand')
<1> DEFINE t == run[a].todo
           u == run'[a].todo
<1>0. t[1] = Call(a) /\ IsList(t) /\ Ends(t, cand)
  BY CallStep DEF Call
<1>1. Rejects(t[1]) /\ Decision1(t[1], cand) # "REJECTED_SYSTEM_UNDERAGE" =>
         \/ cand' = cand /\ u = t
         \/ Gone(cand') /\ u = Tail(t)
  BY <1>0, RejectsAlone
<1>2. t[1].op = "mark" => cand' = cand /\ u = Tail(t)
  BY <1>0, CallStep DEF Onwards
<1> HIDE DEF t, u
<1>3. CASE Len(t) = 1
  <2>1. Rejects(t[1]) /\ Decision1(t[1], cand) # "REJECTED_SYSTEM_UNDERAGE" /\ Tail(t) = << >>
    BY <1>0, <1>3, ShortIs DEF Ends
  <2> QED
    BY <1>0, <1>1, <2>1, ShortSay DEF Hopeless, t, u
<1>4. CASE Len(t) = 2 /\ t[1].op = "mark"
  <2> DEFINE x == t[2]
  <2>1. Rejects(x) /\ Decision1(x, cand) # "REJECTED_SYSTEM_UNDERAGE" /\ Tail(t) = <<x>>
    BY <1>0, <1>4, ShortIs DEF Ends
  <2> HIDE DEF x
  <2>2. Len(<<x>>) = 1 /\ <<x>>[1] = x
    BY ShortLists, Tails
  <2>3. Ends(<<x>>, cand)
    BY <2>1, <2>2 DEF Ends
  <2> QED
    BY <1>2, <1>4, <2>1, <2>3 DEF u
<1> QED
  BY <1>0, <1>3, <1>4 DEF Ends


---------------------------------------------------------------------------
(* No is no.                                                               *)

\* What is to be shown of a step.
NoHopeNow == \A i, j \in DOMAIN chat' : i < j /\ chat'[i].letter \in Nos => chat'[j].letter \notin Yeses
ToldNoNow == \E i \in DOMAIN chat' : chat'[i].letter \in Nos
RunsNow(a) == run'[a].doing # Null

LEMMA NoIsNoNow ==
    ASSUME NoHopeNow, \A a \in Actors : RunsNow(a) => Honest(run'[a].todo, cand'),
           ToldNoNow => \/ Gone(cand') /\ \A a \in Actors : RunsNow(a) => Hopeless(run'[a].todo)
                        \/ \E a \in Actors : RunsNow(a) /\ Ends(run'[a].todo, cand')
    PROVE  NoIsNo'
<1>1. NoHopeAfterRejection'
  BY DEF NoHopeNow, NoHopeAfterRejection, Nos, Yeses
<1> QED
  BY <1>1 DEF NoIsNo, ToldNo, ToldNoNow, RunsNow, Running

LEMMA NoneEnds == \A c : ~ Ends(<< >>, c)
<1>1. Len(<< >>) = 0
  BY EmptyList
<1> QED
  BY <1>1 DEF Ends

\* Steps that write no letter and leave the row.
LEMMA QuietNoIsNo ==
    ASSUME Base, NoIsNo, chat' = chat, cand' = cand,
           \A a \in Actors : RunsNow(a) =>
               \/ Running(a) /\ run'[a].todo = run[a].todo
               \/ Truthful(run'[a].todo, cand),
           \A a \in Actors : Running(a) /\ run[a].todo # << >> => RunsNow(a) /\ run'[a].todo = run[a].todo
    PROVE  NoIsNo'
<1>1. NoHopeNow
  BY DEF NoHopeNow, NoIsNo, NoHopeAfterRejection, Nos, Yeses
<1>2. \A a \in Actors : RunsNow(a) => Honest(run'[a].todo, cand')
  BY DEF NoIsNo, Truthful
<1>3. ToldNoNow => ToldNo
  BY DEF ToldNoNow, ToldNo
<1>4. ASSUME Gone(cand), \A a \in Actors : Running(a) => Hopeless(run[a].todo)
      PROVE  Gone(cand') /\ \A a \in Actors : RunsNow(a) => Hopeless(run'[a].todo)
  BY <1>4 DEF Truthful
<1>5. ASSUME NEW a \in Actors, Running(a), Ends(run[a].todo, cand)
      PROVE  RunsNow(a) /\ Ends(run'[a].todo, cand')
  BY <1>5, NoneEnds
<1> QED
  BY <1>1, <1>2, <1>3, <1>4, <1>5, NoIsNoNow DEF NoIsNo

LEMMA CallNoIsNo ==
    ASSUME Base, Turn, NoTrainingSlot, age # "underage", NoIsNo,
           NEW a \in Actors, Calls(a), run[a].todo # << >>
    PROVE  NoIsNo'
<1> DEFINE t == run[a].todo
           u == run'[a].todo
           x == Call(a)
<1>1. /\ Running(a) /\ RunsNow(a) /\ [Next]_vars /\ IsList(t) /\ t # << >> /\ t[1] = x
      /\ \A b \in Actors \ {a} : ~ Running(b) /\ ~ RunsNow(b)
  BY CallStep, OwnCall DEF Turn, OneAtATime, Running, RunsNow, Call, Next
<1>2. Honest(t, cand) /\ Honest(u, cand')
  BY <1>1, HonestNext DEF NoIsNo
<1>3. ToldNo => (Gone(cand) /\ Hopeless(t)) \/ Ends(t, cand)
  BY <1>1 DEF NoIsNo
<1>4. (Gone(cand) /\ Hopeless(t)) \/ Ends(t, cand) => (Gone(cand') /\ Hopeless(u)) \/ Ends(u, cand')
  BY HopelessNext, EndsNext
<1>5. /\ DOMAIN chat = 1 .. Len(chat) /\ DOMAIN chat' = 1 .. Len(chat')
      /\ Len(chat) \in Nat /\ Len(chat') \in Nat
      /\ \A i \in 1 .. Len(chat) : i \in 1 .. Len(chat') /\ chat'[i] = chat[i]
      /\ \/ chat' = chat
         \/ /\ Len(chat') = Len(chat) + 1 /\ x.op = "send" /\ u = Tail(t) /\ cand' = cand
            /\ chat'[Len(chat')].letter = x.letter
  <2>1. ASSUME NEW b \in Actors, AtCall(b, "send") PROVE b = a
    BY <1>1, <2>1 DEF AtCall
  <2>2. chat' # chat => x.op = "send"
    BY <1>1, CallStep
  <2>3. x.op = "send" => cand' = cand /\ (chat' # chat => u = Tail(t))
    BY <1>1, SendLeaves
  <2> HIDE DEF t, u, x
  <2> QED
    BY <1>1, <2>1, <2>2, <2>3, ChatGrows DEF x
<1>a. NoHopeAfterRejection
  BY DEF NoIsNo
<1> HIDE DEF t, u, x
<1>6. CASE chat' = chat
  <2>1. NoHopeNow /\ (ToldNoNow => ToldNo)
    BY <1>a, <1>6 DEF NoHopeNow, NoHopeAfterRejection, Nos, Yeses, ToldNo, ToldNoNow
  <2> QED
    BY <1>1, <1>2, <1>3, <1>4, <2>1, NoIsNoNow DEF u
<1>7. CASE /\ Len(chat') = Len(chat) + 1 /\ x.op = "send" /\ u = Tail(t) /\ cand' = cand
           /\ chat'[Len(chat')].letter = x.letter
  <2>1. ToldNo => x.letter \notin Yeses
    <3>1. 1 \in 1 .. Len(t)
      BY <1>1, TailList
    <3>2. Hopeless(t) => ~ SaysYes(x)
      BY <1>1, <1>7, <3>1 DEF Hopeless, Unhopeful, Barred
    <3>3. ~ Ends(t, cand)
      <4>1. CASE Len(t) = 1
        BY <1>1, <1>7, <4>1 DEF Ends, Rejects
      <4>2. CASE Len(t) # 1
        BY <1>1, <1>7, <4>2 DEF Ends
      <4> QED
        BY <4>1, <4>2
    <3> QED
      BY <1>3, <1>7, <3>2, <3>3 DEF SaysYes
  <2>2. ASSUME NEW i \in DOMAIN chat', NEW j \in DOMAIN chat', i < j, chat'[i].letter \in Nos
        PROVE  chat'[j].letter \notin Yeses
    <3>1. i \in DOMAIN chat /\ chat'[i] = chat[i]
      BY <1>5, <1>7, <2>2
    <3>2. CASE j \in DOMAIN chat
      BY <1>5, <1>a, <2>2, <3>1, <3>2 DEF NoHopeAfterRejection, Nos, Yeses
    <3>3. CASE j \notin DOMAIN chat
      <4>1. j = Len(chat') /\ ToldNo
        BY <1>5, <1>7, <2>2, <3>1, <3>3 DEF ToldNo
      <4> QED
        BY <1>7, <2>1, <4>1
    <3> QED
      BY <3>2, <3>3
  <2>3. NoHopeNow
    BY <2>2 DEF NoHopeNow
  <2>4. ToldNoNow => ToldNo \/ SaysNo(x)
    <3> SUFFICES ASSUME NEW i \in DOMAIN chat', chat'[i].letter \in Nos PROVE ToldNo \/ SaysNo(x)
      BY DEF ToldNoNow
    <3>1. CASE i \in DOMAIN chat
      BY <1>5, <3>1 DEF ToldNo
    <3>2. CASE i \notin DOMAIN chat
      <4>1. i = Len(chat')
        BY <1>5, <1>7, <3>2
      <4> QED
        BY <1>7, <4>1 DEF SaysNo
    <3> QED
      BY <3>1, <3>2
  <2>5. SaysNo(x) => (Gone(cand') /\ Hopeless(u)) \/ Ends(u, cand')
    <3>1. 1 \in 1 .. Len(t)
      BY <1>1, TailList
    <3>2. SaysNo(x) => ~ Harmless(t)
      BY <1>1, <3>1 DEF Harmless
    <3>3. \A m \in 1 .. Len(t) : 1 \in 1 .. m
      BY <3>1
    <3>4. SaysNo(x) => (Gone(cand) /\ Unhopeful(t)) \/ Ends(Tail(t), cand)
      BY <1>1, <1>2, <1>7, <3>2, <3>3 DEF Honest
    <3>5. Unhopeful(t) => Unhopeful(Tail(t))
      BY <1>1, TailSays
    <3> QED
      BY <1>7, <3>4, <3>5 DEF Hopeless
  <2> QED
    BY <1>1, <1>2, <1>3, <1>4, <2>3, <2>4, <2>5, NoIsNoNow DEF u
<1> QED
  BY <1>5, <1>6, <1>7

LEMMA NoIsNoNext ==
    ASSUME Base, Turn, ~ scene.overlap, "crash" \notin scene.faults, NoTrainingSlot, age # "underage",
           NoIsNo, [Next]_vars
    PROVE  NoIsNo'
<1>0. "dispatcher" \in Actors /\ LocalsOK /\ TypeOK
  BY DEF Actors, Base, Tables
<1>1. CASE UNCHANGED vars \/ (\E s \in Slots : Pass(s)) \/ (\E k \in Commands : Issue(k)) \/ Fetch
  <2>1. run' = run /\ cand' = cand /\ chat' = chat
    BY <1>1 DEF vars, state, Pass, Issue, Fetch
  <2> QED
    BY <2>1, QuietNoIsNo DEF RunsNow, Running
<1>2. CASE BeginCommand
  <2> DEFINE k == batch[1][1]
  <2>1. /\ chat' = chat /\ cand' = cand /\ Quiet /\ k \in Commands /\ outbox[k].kind \in KindNames
        /\ run'["worker"] = run["worker"] /\ run'["candidate"] = run["candidate"]
        /\ \/ \E offered \in BOOLEAN : run'["dispatcher"].todo = Todo(k, batch[1][2], offered)
           \/ run'["dispatcher"].todo = <<Refuse("failed")>>
    BY <1>2, CommandBegins DEF Base, Tables, OutboxSound, Entry
  <2>2. Truthful(run'["dispatcher"].todo, cand)
    <3> DEFINE x == Refuse("failed")
    <3>1. ~ SaysNo(x) /\ ~ SaysYes(x)
      BY CallsSay
    <3> HIDE DEF x
    <3>2. Truthful(<<x>>, cand)
      BY <3>1, ShortSay, SilentIsTruthful
    <3> HIDE DEF k
    <3>3. \A offered \in BOOLEAN : Truthful(Todo(k, batch[1][2], offered), cand)
      BY <1>0, <2>1, TodoTruthful
    <3> QED
      BY <2>1, <3>2, <3>3 DEF x
  <2>3. \A a \in Actors : ~ Running(a) /\ (RunsNow(a) => a = "dispatcher")
    BY <2>1 DEF Quiet, Actors, RunsNow, Running
  <2> QED
    BY <2>1, <2>2, <2>3, QuietNoIsNo
<1>3. CASE Ack \/ LoseAck
  <2>1. /\ chat' = chat /\ cand' = cand /\ run["dispatcher"].todo = << >> /\ ~ RunsNow("dispatcher")
        /\ run'["worker"] = run["worker"] /\ run'["candidate"] = run["candidate"]
    BY <1>3, CommandEnds DEF RunsNow, Running
  <2> QED
    BY <2>1, QuietNoIsNo DEF Actors, RunsNow, Running
<1>4. CASE Crash
  BY <1>4 DEF Crash
<1>5. CASE Work \/ Tap
  <2>1. ~ Gone(cand) /\ OnlyRun /\ Quiet /\ \E t : Honest(t, cand) /\ (Works(t) \/ Taps(t))
    BY <1>5, OthersTruthful, OthersBegin
  <2>2. PICK t : Honest(t, cand) /\ \E b \in Actors : \E d : Begun(b, d, t)
    BY <2>1 DEF Works, Taps, Actors
  <2>3. \A c \in Actors : RunsNow(c) => run'[c].todo = t
    BY <1>0, <2>1, <2>2 DEF LocalsOK, Begun, Quiet, RunsNow, Running
  <2>4. \A c \in Actors : RunsNow(c) => Truthful(run'[c].todo, cand)
    BY <2>1, <2>2, <2>3 DEF Truthful
  <2> QED
    BY <2>1, <2>4, QuietNoIsNo DEF Quiet, OnlyRun
<1>6. CASE \E a \in Actors : Calls(a)
  <2>1. PICK a \in Actors : Calls(a)
    BY <1>6
  <2>2. CASE run[a].todo # << >>
    BY <2>1, <2>2, CallNoIsNo
  <2>3. CASE run[a].todo = << >>
    <3>1. Rest(a)
      BY <2>1, <2>3, NothingLeft
    <3>2. /\ chat' = chat /\ cand' = cand /\ ~ RunsNow(a)
          /\ \A b \in Actors \ {a} : run'[b] = run[b]
      BY <1>0, <2>1, <3>1, OwnCall DEF Rest, Resting, Idle, RunsNow, LocalsOK
    <3> QED
      BY <2>3, <3>2, QuietNoIsNo DEF RunsNow, Running
  <2> QED
    BY <2>2, <2>3
<1> QED
  BY <1>1, <1>2, <1>3, <1>4, <1>5, <1>6 DEF Next, Dispatch


LEMMA FirstNoIsNo == Init => NoIsNo
<1> SUFFICES ASSUME Init PROVE NoIsNo
  OBVIOUS
<1>1. run = [a \in Actors |-> Idle] /\ chat = << >>
  BY DEF Init
<1>2. DOMAIN chat = {} /\ \A a \in Actors : ~ Running(a)
  BY <1>1, EmptyList DEF Running, Idle
<1> QED
  BY <1>2 DEF NoIsNo, NoHopeAfterRejection, ToldNo

\* While nothing overlaps and no process dies, for a candidate who is old enough and
\* whose row names no training slot: once she has been told no, by a command, the
\* worker's repair or the automatic completion, no later letter of theirs says yes.
THEOREM NoHopeAfterRejectionAlways ==
    Spec /\ ~ scene.overlap /\ "crash" \notin scene.faults /\ NoTrainingSlot /\ age # "underage"
        => []NoHopeAfterRejection
<1> DEFINE I == /\ Base /\ Turn /\ NoIsNo /\ NoTrainingSlot /\ age # "underage"
                /\ ~ scene.overlap /\ "crash" \notin scene.faults
<1>1. Init /\ ~ scene.overlap /\ "crash" \notin scene.faults /\ NoTrainingSlot /\ age # "underage" => I
  BY BaseInit, TurnInit, FirstNoIsNo
<1>2. ASSUME I, [Next]_vars PROVE Moves(cand, cand') /\ scene' = scene /\ age' = age
  BY <1>2, RowMoves, SceneStays
<1>3. I /\ [Next]_vars => I'
  BY <1>2, BaseNext, TurnNext, NoIsNoNext DEF InTurn, NoTrainingSlot, Moves
<1>4. I => NoHopeAfterRejection
  BY DEF NoIsNo
<1> QED
  BY <1>1, <1>3, <1>4, PTL DEF Spec

\* What she reads is true whatever is retried or offered again, in any order of any
\* commands: one verdict, no yes after a no, no move kept from her. The hypotheses
\* are those of its parts.
THEOREM SheIsToldTheTruthAlways ==
    Spec /\ ~ scene.overlap /\ "crash" \notin scene.faults
         /\ StepFits(cand) /\ NoTrainingSlot /\ age # "underage" => []SheIsToldTheTruth
  BY VerdictLetterOnceAlways, NoHopeAfterRejectionAlways, MovedAreToldAlways, PTL DEF SheIsToldTheTruth
===============================================================================
