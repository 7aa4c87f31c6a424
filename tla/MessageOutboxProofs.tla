---------------------------- MODULE MessageOutboxProofs ---------------------------
(***************************************************************************)
(* For any number of rows, people, passes and troubles: an outbox keeps    *)
(* the promise of DeliveryLedger, overlapping passes tell of a row at most *)
(* once each, and the month she reads is current.  The inductive invariant *)
(* is a budget: what was sent and what is still to be sent never exceed    *)
(* the excuses by more than the one message a row is there for, nor the    *)
(* mishaps by more than the passes that have the row.  At the end, the     *)
(* lease of the leased boxes: for any number of containers and all times   *)
(* that satisfy LeaseAssumption it implements the lock of their passes.    *)
(***************************************************************************)
EXTENDS MessageOutbox, LeasePromise, FiniteSetTheorems, TLAPS

Told(p) == IF pass[p].verdict = "DELIVERED" THEN pass[p].acks ELSE {}
Holders(r) == {p \in Passes : r \in Unsent(p)}
Covered(r) == status[r] = "DELIVERED" \/ \E p \in Passes : r \in Telling(p)
Allowed(r) == excuses[r] + (IF Covered(r) THEN 1 ELSE 0)

\* What is sent and still to send fits the excuses and the row's one message.
Budget == \A r \in Rows : sent[r] + Cardinality(Holders(r)) <= Allowed(r)

\* Where the rows of a pass are.
Shape ==
    \A p \in Passes :
        /\ pass[p].pc = "idle" => pass[p] = Idle
        /\ pass[p].pc = "work" => pass[p].group = {}
        /\ pass[p].pc = "send" => pass[p].acks = {}
        /\ pass[p].todo \cap pass[p].group = {}
        /\ \A r \in pass[p].todo \cup pass[p].group \cup pass[p].acks : status[r] # "NONE"

\* Under a lease one pass is open.
OnePass == box \in Leased => \A p, q \in Passes : Open(p) /\ Open(q) => p = q

\* How many passes may have a row at a time.
Most == IF box \in Leased THEN 1 ELSE Cardinality(Passes)
Tellers(r) == {p \in Passes : r \in Telling(p)}

\* Until a row is delivered, its messages are covered by the passes that have
\* it and by the mishaps; after that, nobody takes it up again.
Overlap ==
    \A r \in Rows :
        /\ sent[r] + Cardinality(Holders(r)) <= Most + trouble
        /\ status[r] # "DELIVERED" =>
              sent[r] + Cardinality(Holders(r)) <= Cardinality(Tellers(r)) + trouble

\* What is about to be recorded as told was told.
ToldFirst ==
    /\ TellFirst
    /\ \A p \in Passes :
        /\ \A r \in Told(p) : sent[r] > 0 \/ r \in Echoes
        /\ \A r \in pass[p].sync : sent[r] > 0

\* The rows that a person has been told of, and that a pass is telling her of.
ToldOf(e) == {r \in Rows : to[r] = e /\ form[r] = "normal"
                           /\ (status[r] = "DELIVERED" \/ \E p \in Passes : r \in Told(p))}
MonthKnown ==
    box = "schedule" =>
        /\ \A r \in Rows : at[r] <= month[to[r]]
        /\ \A e \in People : \A r \in ToldOf(e) : shown[e] = NoMonth \/ shown[e] >= at[r]
        /\ \A p \in Passes : pass[p].pc = "send" =>
            \A r \in pass[p].group : form[r] = "normal" =>
                \/ pass[p].sees = NoMonth
                \/ \A s \in pass[p].group \cup ToldOf(to[r]) :
                    form[s] = "normal" => to[s] = to[r] /\ pass[p].sees >= at[s]

IInv == TypeOK /\ Shape /\ Budget /\ OnePass /\ Overlap /\ ToldFirst /\ MonthKnown

-----------------------------------------------------------------------------
(* What each action leaves in the locals of its pass *)

Others(p) == \A q \in Passes : q # p => pass'[q] = pass[q]
After(p, place, todo, group, acks, verdict) ==
    /\ pass' \in [Passes -> Locals] /\ Others(p)
    /\ pass'[p].pc = place /\ pass'[p].todo = todo /\ pass'[p].group = group
    /\ pass'[p].acks = acks /\ pass'[p].verdict = verdict

LEMMA SetPass ==
    ASSUME pass \in [Passes -> Locals], NEW p \in Passes, NEW l \in Locals, Set(p, l)
    PROVE pass' \in [Passes -> Locals] /\ Others(p) /\ pass'[p] = l
BY DEF Set, Others

LEMMA IdleIsLocal == Idle \in Locals
BY DEF Idle, Locals, NoMonth

LEMMA FetchLocals ==
    ASSUME TypeOK, NEW p \in Passes, Fetch(p)
    PROVE After(p, "work", Fetched, {}, {}, "DELIVERED") /\ pass'[p].sync = {} /\ pass'[p].sees = NoMonth
<1>1. [Idle EXCEPT !.pc = "work", !.todo = Fetched] \in Locals
  BY DEF Idle, Locals, NoMonth, Fetched, Pending
<1>2. pass' \in [Passes -> Locals] /\ Others(p) /\ pass'[p] = [Idle EXCEPT !.pc = "work", !.todo = Fetched]
  BY <1>1, SetPass DEF Fetch, TypeOK
<1> QED
  BY <1>2 DEF After, Idle

LEMMA ToReportLocals ==
    ASSUME TypeOK, NEW p \in Passes, NEW R \in SUBSET Rows, NEW outcome \in {"DELIVERED", "FAILED"},
           ToReport(p, R, outcome)
    PROVE After(p, pass[p].pc, pass[p].todo \ R, pass[p].group, R, outcome)
          /\ pass'[p].sync = pass[p].sync /\ pass'[p].sees = pass[p].sees
<1>1. pass[p] \in Locals
  BY DEF TypeOK
<1>2. [pass[p] EXCEPT !.todo = @ \ R, !.acks = R, !.verdict = outcome] \in Locals
  BY <1>1 DEF Locals
<1>3. pass' \in [Passes -> Locals] /\ Others(p) /\ pass'[p] = [pass[p] EXCEPT !.todo = @ \ R, !.acks = R, !.verdict = outcome]
  BY <1>2, SetPass DEF TypeOK, ToReport
<1> QED
  BY <1>1, <1>2, <1>3 DEF After, Locals

LEMMA TakeGroupLocals ==
    ASSUME TypeOK, NEW p \in Passes, TakeGroup(p)
    PROVE \E r \in pass[p].todo :
            /\ After(p, "send", pass[p].todo \ GroupOf(r, pass[p].todo), GroupOf(r, pass[p].todo),
                     pass[p].acks, pass[p].verdict)
            /\ pass'[p].sync = pass[p].sync
            /\ pass'[p].sees = NoMonth \/ pass'[p].sees = month[to[r]]
<1>1. PICK r \in pass[p].todo, m \in Nat \cup {NoMonth} :
        /\ Set(p, [pass[p] EXCEPT !.pc = "send", !.group = GroupOf(r, pass[p].todo),
                                  !.todo = @ \ GroupOf(r, pass[p].todo), !.sees = m])
        /\ m = NoMonth \/ m = month[to[r]]
  BY DEF TakeGroup, MonthNow, TypeOK, Locals
<1>2. pass[p] \in Locals /\ GroupOf(r, pass[p].todo) \in SUBSET Rows
  BY DEF TypeOK, GroupOf, Locals
<1>3. [pass[p] EXCEPT !.pc = "send", !.group = GroupOf(r, pass[p].todo),
                      !.todo = @ \ GroupOf(r, pass[p].todo), !.sees = m] \in Locals
  BY <1>2 DEF Locals
<1>4. pass' \in [Passes -> Locals] /\ Others(p) /\ pass'[p] = 
        [pass[p] EXCEPT !.pc = "send", !.group = GroupOf(r, pass[p].todo),
                        !.todo = @ \ GroupOf(r, pass[p].todo), !.sees = m]
  BY <1>1, <1>3, SetPass DEF TypeOK
<1> QED
  BY <1>1, <1>2, <1>4 DEF After, Locals

LEMMA ReportsLocals ==
    ASSUME TypeOK, NEW p \in Passes, NEW outcome \in {"DELIVERED", "FAILED"}, Reports(p, outcome)
    PROVE After(p, "work", pass[p].todo, {}, pass[p].group, outcome)
          /\ pass'[p].sync \subseteq pass[p].sync \cup (IF outcome = "DELIVERED" THEN pass[p].group ELSE {})
<1> DEFINE s == IF outcome = "DELIVERED" THEN pass[p].sync \cup {r \in pass[p].group : form[r] = "revert"}
                                         ELSE pass[p].sync
<1>1. pass[p] \in Locals /\ s \in SUBSET Rows
  BY DEF TypeOK, Locals
<1>2. [pass[p] EXCEPT !.pc = "work", !.group = {}, !.acks = pass[p].group, !.verdict = outcome, !.sync = s]
        \in Locals
  BY <1>1 DEF Locals
<1>3. Set(p, [pass[p] EXCEPT !.pc = "work", !.group = {}, !.acks = pass[p].group, !.verdict = outcome, !.sync = s])
  BY <1>1 DEF Reports, Locals
<1>4. pass' \in [Passes -> Locals] /\ Others(p) /\ pass'[p] = 
        [pass[p] EXCEPT !.pc = "work", !.group = {}, !.acks = pass[p].group, !.verdict = outcome, !.sync = s]
  BY <1>2, <1>3, SetPass DEF TypeOK
<1> HIDE DEF s
<1>5. After(p, "work", pass[p].todo, {}, pass[p].group, outcome) /\ pass'[p].sync = s
  BY <1>1, <1>4 DEF After, Locals
<1> QED
  BY <1>5 DEF s

LEMMA ReportLocals ==
    ASSUME TypeOK, NEW p \in Passes, NEW r \in Rows, Set(p, [pass[p] EXCEPT !.acks = @ \ {r}])
    PROVE After(p, pass[p].pc, pass[p].todo, pass[p].group, pass[p].acks \ {r}, pass[p].verdict)
          /\ pass'[p].sync = pass[p].sync /\ pass'[p].sees = pass[p].sees
<1>1. pass[p] \in Locals
  BY DEF TypeOK
<1>2. [pass[p] EXCEPT !.acks = @ \ {r}] \in Locals
  BY <1>1 DEF Locals
<1>3. /\ pass' \in [Passes -> Locals]
      /\ Others(p)
      /\ pass'[p] = [pass[p] EXCEPT !.acks = @ \ {r}]
  BY <1>2, SetPass DEF TypeOK
<1> QED
  BY <1>1, <1>3 DEF After, Locals

LEMMA SyncLocals ==
    ASSUME TypeOK, NEW p \in Passes, Sync(p)
    PROVE After(p, pass[p].pc, pass[p].todo, pass[p].group, pass[p].acks, pass[p].verdict)
          /\ pass'[p].sync \subseteq pass[p].sync /\ pass'[p].sees = pass[p].sees
<1>1. pass[p] \in Locals
  BY DEF TypeOK
<1>2. PICK r \in pass[p].sync : Set(p, [pass[p] EXCEPT !.sync = @ \ {r}])
  BY DEF Sync
<1>3. [pass[p] EXCEPT !.sync = @ \ {r}] \in Locals
  BY <1>1 DEF Locals
<1>4. /\ pass' \in [Passes -> Locals]
      /\ Others(p)
      /\ pass'[p] = [pass[p] EXCEPT !.sync = @ \ {r}]
  BY <1>2, <1>3, SetPass DEF TypeOK
<1> QED
  BY <1>1, <1>2, <1>4 DEF After, Locals

LEMMA IdleLocals ==
    ASSUME TypeOK, NEW p \in Passes, Set(p, Idle)
    PROVE After(p, "idle", {}, {}, {}, "DELIVERED") /\ pass'[p] = Idle
BY IdleIsLocal, SetPass DEF TypeOK, After, Idle

-----------------------------------------------------------------------------
(* Type correctness *)

LEMMA TypeStep == TypeOK /\ [Next]_vars => TypeOK'
<1> SUFFICES ASSUME TypeOK, [Next]_vars PROVE TypeOK'
  OBVIOUS
<1> USE OutboxAssumption
<1>1. ASSUME NEW r \in Rows, Offer(r) PROVE TypeOK'
  BY <1>1 DEF TypeOK, Offer, row
<1>2. ASSUME NEW r \in Rows, OfferAgain(r) PROVE TypeOK'
  BY <1>2 DEF TypeOK, OfferAgain, row, Trouble
<1>3. ASSUME NEW p \in Passes, Fetch(p) PROVE TypeOK'
  <2>1. pass' \in [Passes -> Locals]
    BY <1>3, FetchLocals DEF After
  <2> QED
    BY <1>3, <2>1 DEF TypeOK, Fetch, row, Excuse
<1>4. ASSUME NEW p \in Passes, RetireInvalid(p) \/ ReportEchoes(p) \/ NoRecipient(p) PROVE TypeOK'
  <2>1. PICK R \in SUBSET Rows, outcome \in {"DELIVERED", "FAILED"} : ToReport(p, R, outcome)
    <3>1. pass[p].todo \subseteq Rows
      BY DEF TypeOK, Locals
    <3> QED
      BY <1>4, <3>1 DEF RetireInvalid, ReportEchoes, NoRecipient, InvalidNext
  <2>2. pass' \in [Passes -> Locals]
    BY <2>1, ToReportLocals DEF After
  <2> QED
    BY <1>4, <2>2 DEF TypeOK, RetireInvalid, ReportEchoes, NoRecipient, row
<1>5. ASSUME NEW p \in Passes, TakeGroup(p) PROVE TypeOK'
  <2>1. pass' \in [Passes -> Locals]
    BY <1>5, TakeGroupLocals DEF After
  <2> QED
    BY <1>5, <2>1 DEF TypeOK, TakeGroup, row
<1>6. ASSUME NEW p \in Passes, Send(p) \/ SendFails(p) PROVE TypeOK'
  <2>1. pass' \in [Passes -> Locals]
    BY <1>6, ReportsLocals DEF After, Send, SendFails
  <2>2. pass[p].sees \in Nat \cup {NoMonth}
    BY DEF TypeOK, Locals
  <2>3. Reaches(p) => sent' \in [Rows -> Nat] /\ shown' \in [People -> Nat \cup {NoMonth}]
    BY <2>2 DEF Reaches, TypeOK
  <2>4. sent' \in [Rows -> Nat] /\ shown' \in [People -> Nat \cup {NoMonth}] /\ excuses' \in [Rows -> Nat]
    BY <1>6, <2>3 DEF TypeOK, Send, SendFails, Excuse
  <2> QED
    BY <1>6, <2>1, <2>4 DEF TypeOK, Send, SendFails, Trouble, row
<1>7. ASSUME NEW p \in Passes, Report(p) PROVE TypeOK'
  <2>1. PICK r \in pass[p].acks : Set(p, [pass[p] EXCEPT !.acks = @ \ {r}])
    BY <1>7 DEF Report
  <2>2. r \in Rows /\ pass[p].verdict \in {"DELIVERED", "FAILED"}
    BY DEF TypeOK, Locals
  <2>3. pass' \in [Passes -> Locals]
    BY <2>1, <2>2, ReportLocals DEF After
  <2>4. pass[p].acks \subseteq Rows
    BY DEF TypeOK, Locals
  <2> QED
    BY <1>7, <2>2, <2>3, <2>4 DEF TypeOK, Report, Mark, Excuse, Trouble, row
<1>8. ASSUME NEW p \in Passes, Sync(p) PROVE TypeOK'
  <2>1. pass' \in [Passes -> Locals] /\ pass[p].sync \subseteq Rows
    BY <1>8, SyncLocals DEF After, TypeOK, Locals
  <2> QED
    BY <1>8, <2>1 DEF TypeOK, Sync, Trouble, Smoothly, row
<1>9. ASSUME NEW p \in Passes, Finish(p) \/ Crash(p) PROVE TypeOK'
  <2>1. pass' \in [Passes -> Locals]
    BY <1>9, IdleLocals DEF After, Finish, Crash
  <2> QED
    BY <1>9, <2>1 DEF TypeOK, Finish, Crash, Excuse, Trouble, row
<1>10. CASE UNCHANGED vars
  BY <1>10 DEF TypeOK, vars
<1> QED
  BY <1>1, <1>2, <1>3, <1>4, <1>5, <1>6, <1>7, <1>8, <1>9, <1>10 DEF Next

-----------------------------------------------------------------------------
(* The rows of a pass *)

LEMMA ReportStep ==
    ASSUME TypeOK, NEW p \in Passes, RetireInvalid(p) \/ ReportEchoes(p) \/ NoRecipient(p)
    PROVE \E R \in SUBSET pass[p].todo, outcome \in {"DELIVERED", "FAILED"} :
            /\ R \subseteq Rows /\ ToReport(p, R, outcome)
            /\ outcome = "DELIVERED" => R \subseteq Echoes
            /\ Between(p)
            /\ UNCHANGED <<row, status, at, month, shown, sent, excuses, synced, trouble>>
<1>1. pass[p].todo \subseteq Rows
  BY DEF TypeOK, Locals
<1> QED
  BY <1>1 DEF RetireInvalid, ReportEchoes, NoRecipient, InvalidNext

\* An offered row stays offered.
LEMMA OfferedStays ==
    ASSUME TypeOK, Next, NEW r \in Rows, status[r] # "NONE"
    PROVE status'[r] # "NONE"
<1>1. ASSUME NEW p \in Passes, Report(p) PROVE status'[r] # "NONE"
  <2>1. pass[p].verdict \in {"DELIVERED", "FAILED"}
    BY DEF TypeOK, Locals
  <2> QED
    BY <1>1, <2>1 DEF Report, Mark, TypeOK
<1> QED
  BY <1>1 DEF Next, TypeOK, Offer, OfferAgain, Fetch, RetireInvalid, ReportEchoes, NoRecipient, TakeGroup,
     Send, SendFails, Sync, Finish, Crash

LEMMA ShapeStep == TypeOK /\ Shape /\ [Next]_vars => Shape'
<1> SUFFICES ASSUME TypeOK, Shape, [Next]_vars PROVE Shape'
  OBVIOUS
<1> DEFINE Fits(q) ==
      /\ pass[q].pc = "idle" => pass[q] = Idle
      /\ pass[q].pc = "work" => pass[q].group = {}
      /\ pass[q].pc = "send" => pass[q].acks = {}
      /\ pass[q].todo \cap pass[q].group = {}
    Rowed(q) == pass[q].todo \cup pass[q].group \cup pass[q].acks
<1>0. \A q \in Passes : Fits(q) /\ Rowed(q) \subseteq Rows /\ \A r \in Rowed(q) : status[r] # "NONE"
  BY DEF Shape, TypeOK, Locals
<1>a. ASSUME Next, NEW p \in Passes, Others(p), Fits(p)',
             (Rowed(p)') \subseteq Rowed(p) \cup Pending
      PROVE Shape'
  <2>1. \A r \in Rows : status[r] # "NONE" => status'[r] # "NONE"
    BY <1>a, OfferedStays
  <2>2. ASSUME NEW q \in Passes PROVE Fits(q)' /\ \A r \in Rowed(q)' : status'[r] # "NONE"
    <3>1. CASE q = p
      BY <1>0, <1>a, <2>1, <3>1 DEF Pending
    <3>2. CASE q # p
      BY <1>0, <1>a, <2>1, <3>2 DEF Others
    <3> QED
      BY <3>1, <3>2
  <2> QED
    BY <2>2 DEF Shape
<1>1. ASSUME NEW r \in Rows, Offer(r) \/ OfferAgain(r) PROVE Shape'
  <2>1. pass' = pass /\ \A s \in Rows : status[s] # "NONE" => status'[s] # "NONE"
    BY <1>1 DEF Offer, OfferAgain, TypeOK
  <2> QED
    BY <1>0, <2>1 DEF Shape
<1>2. ASSUME NEW p \in Passes, Fetch(p) PROVE Shape'
  <2>1. Next
    BY <1>2 DEF Next
  <2>2. After(p, "work", Fetched, {}, {}, "DELIVERED")
    BY <1>2, FetchLocals
  <2> QED
    BY <1>a, <2>1, <2>2 DEF After, Fetched
<1>3. ASSUME NEW p \in Passes, RetireInvalid(p) \/ ReportEchoes(p) \/ NoRecipient(p) PROVE Shape'
  <2>1. Next
    BY <1>3 DEF Next
  <2>2. PICK R \in SUBSET pass[p].todo, outcome \in {"DELIVERED", "FAILED"} :
          R \subseteq Rows /\ ToReport(p, R, outcome) /\ Between(p)
    BY <1>3, ReportStep
  <2>3. After(p, pass[p].pc, pass[p].todo \ R, pass[p].group, R, outcome)
    BY <2>2, ToReportLocals
  <2> QED
    BY <1>0, <1>a, <2>1, <2>2, <2>3 DEF After, Between
<1>4. ASSUME NEW p \in Passes, TakeGroup(p) PROVE Shape'
  <2>1. Next
    BY <1>4 DEF Next
  <2>2. PICK r \in pass[p].todo :
          After(p, "send", pass[p].todo \ GroupOf(r, pass[p].todo), GroupOf(r, pass[p].todo),
                pass[p].acks, pass[p].verdict)
    BY <1>4, TakeGroupLocals
  <2>3. GroupOf(r, pass[p].todo) \subseteq pass[p].todo /\ pass[p].acks = {}
    BY <1>4 DEF GroupOf, TakeGroup, Between
  <2> QED
    BY <1>0, <1>a, <2>1, <2>2, <2>3 DEF After
<1>5. ASSUME NEW p \in Passes, Send(p) \/ SendFails(p) PROVE Shape'
  <2>1. Next
    BY <1>5 DEF Next
  <2>2. PICK outcome \in {"DELIVERED", "FAILED"} :
          After(p, "work", pass[p].todo, {}, pass[p].group, outcome)
    BY <1>5, ReportsLocals DEF Send, SendFails
  <2> QED
    BY <1>0, <1>a, <2>1, <2>2 DEF After
<1>6. ASSUME NEW p \in Passes, Report(p) PROVE Shape'
  <2>1. Next
    BY <1>6 DEF Next
  <2>2. PICK r \in pass[p].acks : Set(p, [pass[p] EXCEPT !.acks = @ \ {r}])
    BY <1>6 DEF Report
  <2>3. After(p, pass[p].pc, pass[p].todo, pass[p].group, pass[p].acks \ {r}, pass[p].verdict)
    BY <1>0, <2>2, ReportLocals
  <2>4. pass[p].pc # "idle"
    BY <1>0, <2>2 DEF Idle
  <2> QED
    BY <1>0, <1>a, <2>1, <2>3, <2>4 DEF After
<1>7. ASSUME NEW p \in Passes, Sync(p) PROVE Shape'
  <2>1. Next
    BY <1>7 DEF Next
  <2>2. After(p, pass[p].pc, pass[p].todo, pass[p].group, pass[p].acks, pass[p].verdict)
    BY <1>7, SyncLocals
  <2> QED
    BY <1>0, <1>7, <1>a, <2>1, <2>2 DEF After, Sync, Between
<1>8. ASSUME NEW p \in Passes, Finish(p) \/ Crash(p) PROVE Shape'
  <2>1. Next
    BY <1>8 DEF Next
  <2>2. After(p, "idle", {}, {}, {}, "DELIVERED") /\ pass'[p] = Idle
    BY <1>8, IdleLocals DEF Finish, Crash
  <2> QED
    BY <1>0, <1>a, <2>1, <2>2 DEF After
<1>9. CASE UNCHANGED vars
  BY <1>9 DEF Shape, vars
<1> QED
  BY <1>1, <1>2, <1>3, <1>4, <1>5, <1>6, <1>7, <1>8, <1>9 DEF Next

-----------------------------------------------------------------------------
(* One pass under a lease *)

LEMMA OnePassStep == TypeOK /\ OnePass /\ [Next]_vars => OnePass'
<1> SUFFICES ASSUME TypeOK, OnePass, [Next]_vars, box \in Leased PROVE OnePass'
  <2>1. TypeOK /\ [Next]_vars => box' = box
    BY DEF Next, vars, row, Offer, OfferAgain, Fetch, RetireInvalid, ReportEchoes, NoRecipient, TakeGroup,
       Send, SendFails, Report, Sync, Finish, Crash
  <2> QED
    BY <2>1, SMTT(60) DEF OnePass
<1>1. ASSUME NEW p \in Passes, Others(p), pass'[p].pc = "idle" \/ pass[p].pc # "idle" PROVE OnePass'
  BY <1>1 DEF OnePass, Open, Others
<1>2. ASSUME NEW r \in Rows, Offer(r) \/ OfferAgain(r) PROVE OnePass'
  BY <1>2 DEF Offer, OfferAgain, OnePass, Open
<1>3. ASSUME NEW p \in Passes, Fetch(p) PROVE OnePass'
  <2>1. After(p, "work", Fetched, {}, {}, "DELIVERED")
    BY <1>3, FetchLocals
  <2>2. \A q \in Passes : ~Open(q)
    BY <1>3 DEF Fetch, MayStart
  <2> QED
    BY <2>1, <2>2 DEF After, Others, OnePass, Open
<1>4. ASSUME NEW p \in Passes, RetireInvalid(p) \/ ReportEchoes(p) \/ NoRecipient(p) PROVE OnePass'
  <2>1. PICK R \in SUBSET pass[p].todo, outcome \in {"DELIVERED", "FAILED"} :
          R \subseteq Rows /\ ToReport(p, R, outcome) /\ Between(p)
    BY <1>4, ReportStep
  <2>2. After(p, pass[p].pc, pass[p].todo \ R, pass[p].group, R, outcome)
    BY <2>1, ToReportLocals
  <2> QED
    BY <1>1, <2>1, <2>2 DEF After, Between
<1>5. ASSUME NEW p \in Passes, TakeGroup(p) PROVE OnePass'
  BY <1>1, <1>5, TakeGroupLocals DEF After, TakeGroup, Between
<1>6. ASSUME NEW p \in Passes, Send(p) \/ SendFails(p) PROVE OnePass'
  <2>1. pass[p].pc = "send" /\ Others(p)
    BY <1>6, ReportsLocals DEF After, Send, SendFails
  <2> QED
    BY <1>1, <2>1
<1>7. ASSUME NEW p \in Passes, Report(p) PROVE OnePass'
  <2>1. PICK r \in pass[p].acks : Set(p, [pass[p] EXCEPT !.acks = @ \ {r}])
    BY <1>7 DEF Report
  <2>2. r \in Rows
    BY <2>1 DEF TypeOK, Locals
  <2>3. After(p, pass[p].pc, pass[p].todo, pass[p].group, pass[p].acks \ {r}, pass[p].verdict)
    BY <2>1, <2>2, ReportLocals
  <2> QED
    BY <1>1, <2>3 DEF After
<1>8. ASSUME NEW p \in Passes, Sync(p) PROVE OnePass'
  BY <1>1, <1>8, SyncLocals DEF After, Sync, Between
<1>9. ASSUME NEW p \in Passes, Finish(p) \/ Crash(p) PROVE OnePass'
  <2>1. After(p, "idle", {}, {}, {}, "DELIVERED")
    BY <1>9, IdleLocals DEF Finish, Crash
  <2> QED
    BY <1>1, <2>1 DEF After
<1>10. CASE UNCHANGED vars
  BY <1>10 DEF OnePass, Open, vars
<1> QED
  BY <1>2, <1>3, <1>4, <1>5, <1>6, <1>7, <1>8, <1>9, <1>10 DEF Next

-----------------------------------------------------------------------------
(* The budget *)

Bit(b) == IF b THEN 1 ELSE 0
Rest(p, r) == Cardinality(Holders(r) \ {p})
RestCovers(p, r) == status[r] = "DELIVERED" \/ \E q \in Passes \ {p} : r \in Telling(q)

\* The budget of a row as pass p sees it.
LEMMA BudgetSeen ==
    ASSUME TypeOK, NEW p \in Passes, NEW r \in Rows
    PROVE /\ Rest(p, r) \in Nat
          /\ Cardinality(Holders(r)) = Rest(p, r) + Bit(r \in Unsent(p))
          /\ Allowed(r) = excuses[r] + Bit(RestCovers(p, r) \/ r \in Telling(p))
<1>1. IsFiniteSet(Holders(r)) /\ IsFiniteSet(Holders(r) \ {p})
  BY OutboxAssumption, FS_Subset DEF Holders
<1>2. Cardinality(Holders(r)) \in Nat /\ Cardinality(Holders(r) \ {p}) \in Nat
  BY <1>1, FS_CardinalityType
<1>3. CASE p \in Holders(r)
  <2>1. Cardinality(Holders(r) \ {p}) = Cardinality(Holders(r)) - 1
    BY <1>1, <1>3, FS_RemoveElement
  <2>2. r \in Unsent(p)
    BY <1>3 DEF Holders
  <2> QED
    BY <1>2, <2>1, <2>2 DEF Rest, Bit, Allowed, Covered, RestCovers
<1>4. CASE p \notin Holders(r)
  <2>1. Holders(r) \ {p} = Holders(r) /\ r \notin Unsent(p)
    BY <1>4 DEF Holders
  <2> QED
    BY <1>2, <2>1 DEF Rest, Bit, Allowed, Covered, RestCovers
<1> QED
  BY <1>3, <1>4

\* The same of the next state.
SplitByPass ==
    \A p \in Passes : \A r \in Rows :
        /\ Rest(p, r) \in Nat
        /\ Cardinality(Holders(r)) = Rest(p, r) + Bit(r \in Unsent(p))
        /\ Allowed(r) = excuses[r] + Bit(RestCovers(p, r) \/ r \in Telling(p))

LEMMA BudgetSeenAlways == TypeOK => SplitByPass
BY BudgetSeen DEF SplitByPass

LEMMA BudgetSeenNext == TypeOK' => SplitByPass'
BY BudgetSeenAlways, PTL

\* What the other passes hold is not touched by a step of p.
LEMMA RestStays ==
    ASSUME NEW p \in Passes, NEW r \in Rows, Others(p)
    PROVE Rest(p, r)' = Rest(p, r)
<1>1. (Holders(r)') \ {p} = Holders(r) \ {p}
  BY DEF Holders, Unsent, Others
<1> QED
  BY <1>1 DEF Rest

\* It is enough that p keeps within the budget of each row.
LEMMA BudgetByPass ==
    ASSUME TypeOK, TypeOK', Budget, NEW p \in Passes, Others(p),
           \A r \in Rows :
             sent[r] + Rest(p, r) + Bit(r \in Unsent(p)) <= excuses[r] + Bit(RestCovers(p, r) \/ r \in Telling(p))
             => sent'[r] + Rest(p, r) + Bit(r \in Unsent(p)')
                  <= excuses'[r] + Bit(RestCovers(p, r)' \/ r \in Telling(p)')
    PROVE Budget'
<1> SUFFICES ASSUME NEW r \in Rows PROVE sent'[r] + Cardinality(Holders(r)') <= Allowed(r)'
  BY DEF Budget
<1>1. sent[r] + Rest(p, r) + Bit(r \in Unsent(p)) <= excuses[r] + Bit(RestCovers(p, r) \/ r \in Telling(p))
  <2>1. sent[r] + Cardinality(Holders(r)) <= Allowed(r)
    BY DEF Budget
  <2>2. sent[r] \in Nat /\ Rest(p, r) \in Nat /\ Bit(r \in Unsent(p)) \in Nat
    BY BudgetSeen DEF TypeOK, Bit
  <2> QED
    BY <2>1, <2>2, BudgetSeen
<1>2. sent'[r] + Rest(p, r) + Bit(r \in Unsent(p)') <= excuses'[r] + Bit(RestCovers(p, r)' \/ r \in Telling(p)')
  BY <1>1
<1>3. /\ Rest(p, r)' \in Nat
      /\ Cardinality(Holders(r)') = Rest(p, r)' + Bit(r \in Unsent(p)')
      /\ Allowed(r)' = excuses'[r] + Bit(RestCovers(p, r)' \/ r \in Telling(p)')
  BY BudgetSeenNext DEF SplitByPass
<1>4. sent'[r] \in Nat
  BY DEF TypeOK
<1>5. Rest(p, r)' = Rest(p, r)
  BY RestStays
<1> QED
  BY <1>2, <1>3, <1>4, <1>5 DEF Bit

LEMMA OthersTell ==
    ASSUME NEW p \in Passes, Others(p)
    PROVE \A q \in Passes \ {p} : Telling(q)' = Telling(q)
BY DEF Others, Telling, Unsent

LEMMA BudgetStep == TypeOK /\ TypeOK' /\ Shape /\ Budget /\ [Next]_vars => Budget'
<1> SUFFICES ASSUME TypeOK, TypeOK', Shape, Budget, [Next]_vars PROVE Budget'
  OBVIOUS
<1>0. \A r \in Rows, p \in Passes : sent[r] \in Nat /\ excuses[r] \in Nat /\ Rest(p, r) \in Nat
  BY BudgetSeen DEF TypeOK
<1>1. ASSUME NEW s \in Rows, Offer(s) \/ OfferAgain(s) PROVE Budget'
  <2>1. /\ UNCHANGED <<pass, sent, excuses>>
        /\ \A r \in Rows : status'[r] = "DELIVERED" <=> status[r] = "DELIVERED"
    BY <1>1 DEF Offer, OfferAgain, TypeOK
  <2>2. \A r \in Rows : Holders(r)' = Holders(r)
    BY <2>1 DEF Holders, Unsent
  <2>3. \A r \in Rows : Covered(r)' <=> Covered(r)
    BY <2>1 DEF Covered, Telling, Unsent
  <2> QED
    BY <2>1, <2>2, <2>3 DEF Budget, Allowed
<1>2. ASSUME NEW p \in Passes, Fetch(p) PROVE Budget'
  <2>1. After(p, "work", Fetched, {}, {}, "DELIVERED")
    BY <1>2, FetchLocals
  <2>2. pass[p] = Idle
    BY <1>2 DEF Fetch, MayStart, Open, Shape, TypeOK, Locals
  <2>3. Unsent(p) = {} /\ Telling(p) = {}
    BY <2>2 DEF Unsent, Telling, Idle
  <2>4. (Unsent(p)') = Fetched /\ (Telling(p)') = Fetched
    BY <2>1 DEF Unsent, Telling, After
  <2>5. \A r \in Rows : RestCovers(p, r)' <=> RestCovers(p, r)
    BY <1>2, <2>1, OthersTell DEF RestCovers, Fetch, After
  <2>6. \A r \in Fetched : status[r] = "PENDING"
    BY DEF Fetched, Pending
  <2>7. \A r \in Fetched : RestCovers(p, r) => excuses'[r] = excuses[r] + 1
    BY <1>2, <2>6 DEF RestCovers, Fetch, Excuse, Fetched, Pending
  <2>8. \A r \in Rows : excuses'[r] >= excuses[r] /\ excuses'[r] \in Nat
    BY <1>0, <1>2 DEF Fetch, Excuse
  <2>9. sent' = sent
    BY <1>2 DEF Fetch
  <2>10. ASSUME NEW r \in Rows,
            sent[r] + Rest(p, r) + Bit(r \in Unsent(p)) <= excuses[r] + Bit(RestCovers(p, r) \/ r \in Telling(p))
         PROVE sent'[r] + Rest(p, r) + Bit(r \in Unsent(p)')
                 <= excuses'[r] + Bit(RestCovers(p, r)' \/ r \in Telling(p)')
    <3>1. CASE r \in Fetched
      BY <1>0, <2>3, <2>4, <2>5, <2>7, <2>8, <2>9, <2>10, <3>1 DEF Bit
    <3>2. CASE r \notin Fetched
      BY <1>0, <2>3, <2>4, <2>5, <2>8, <2>9, <2>10, <3>2 DEF Bit
    <3> QED
      BY <3>1, <3>2
  <2> QED
    BY <2>1, <2>10, BudgetByPass DEF After
<1>3. ASSUME NEW p \in Passes, RetireInvalid(p) \/ ReportEchoes(p) \/ NoRecipient(p) PROVE Budget'
  <2>1. PICK R \in SUBSET pass[p].todo, outcome \in {"DELIVERED", "FAILED"} :
          /\ R \subseteq Rows /\ ToReport(p, R, outcome) /\ Between(p)
          /\ UNCHANGED <<status, sent, excuses>>
    BY <1>3, ReportStep
  <2>2. After(p, pass[p].pc, pass[p].todo \ R, pass[p].group, R, outcome)
    BY <2>1, ToReportLocals
  <2>3. pass[p].group = {} /\ pass[p].acks = {}
    BY <2>1 DEF Shape, Between
  <2>4. \A r \in Rows : RestCovers(p, r)' <=> RestCovers(p, r)
    BY <2>1, <2>2, OthersTell DEF RestCovers, After
  <2>5. Unsent(p) = pass[p].todo /\ Telling(p) = pass[p].todo
    BY <2>3 DEF Unsent, Telling
  <2>6. (Unsent(p)') = pass[p].todo \ R /\ pass[p].todo \ R \subseteq Telling(p)'
    BY <2>2, <2>3 DEF Unsent, Telling, After
  <2>7. ASSUME NEW r \in Rows,
            sent[r] + Rest(p, r) + Bit(r \in Unsent(p)) <= excuses[r] + Bit(RestCovers(p, r) \/ r \in Telling(p))
         PROVE sent'[r] + Rest(p, r) + Bit(r \in Unsent(p)')
                 <= excuses'[r] + Bit(RestCovers(p, r)' \/ r \in Telling(p)')
    <3>1. CASE r \in R
      BY <1>0, <2>1, <2>4, <2>5, <2>6, <2>7, <3>1 DEF Bit
    <3>2. CASE r \notin R
      BY <1>0, <2>1, <2>4, <2>5, <2>6, <2>7, <3>2 DEF Bit
    <3> QED
      BY <3>1, <3>2
  <2> QED
    BY <2>2, <2>7, BudgetByPass DEF After
<1>4. ASSUME NEW p \in Passes, TakeGroup(p) PROVE Budget'
  <2>1. PICK s \in pass[p].todo :
          After(p, "send", pass[p].todo \ GroupOf(s, pass[p].todo), GroupOf(s, pass[p].todo),
                pass[p].acks, pass[p].verdict)
    BY <1>4, TakeGroupLocals
  <2>2. GroupOf(s, pass[p].todo) \subseteq pass[p].todo /\ pass[p].group = {}
    BY <1>4 DEF GroupOf, TakeGroup, Between, Shape
  <2>3. (Unsent(p)') = Unsent(p) /\ (Telling(p)') = Telling(p)
    BY <2>1, <2>2 DEF Unsent, Telling, After
  <2>4. UNCHANGED <<status, sent, excuses>>
    BY <1>4 DEF TakeGroup
  <2>5. \A r \in Rows : RestCovers(p, r)' <=> RestCovers(p, r)
    BY <2>1, <2>4, OthersTell DEF RestCovers, After
  <2> QED
    BY <2>1, <2>3, <2>4, <2>5, BudgetByPass DEF After, Bit
<1>5. ASSUME NEW p \in Passes, Send(p) \/ SendFails(p) PROVE Budget'
  <2>1. PICK outcome \in {"DELIVERED", "FAILED"} :
          /\ After(p, "work", pass[p].todo, {}, pass[p].group, outcome)
          /\ outcome = "DELIVERED" => Reaches(p) /\ UNCHANGED excuses
          /\ outcome = "FAILED" => UNCHANGED <<sent, excuses>> \/ (Reaches(p) /\ Excuse(pass[p].group))
    BY <1>5, ReportsLocals DEF Send, SendFails
  <2>2. pass[p].acks = {} /\ pass[p].todo \cap pass[p].group = {} /\ status' = status
    BY <1>5 DEF Send, SendFails, Shape
  <2>3. \A r \in Rows : RestCovers(p, r)' <=> RestCovers(p, r)
    BY <2>1, <2>2, OthersTell DEF RestCovers, After
  <2>4. Unsent(p) = pass[p].todo \cup pass[p].group /\ Telling(p) = Unsent(p)
    BY <2>2 DEF Unsent, Telling
  <2>5. (Unsent(p)') = pass[p].todo /\ (outcome = "DELIVERED" => Telling(p)' = Unsent(p))
        /\ pass[p].todo \subseteq Telling(p)'
    BY <2>1, <2>4 DEF Unsent, Telling, After
  <2>6. ASSUME NEW r \in Rows,
            sent[r] + Rest(p, r) + Bit(r \in Unsent(p)) <= excuses[r] + Bit(RestCovers(p, r) \/ r \in Telling(p))
         PROVE sent'[r] + Rest(p, r) + Bit(r \in Unsent(p)')
                 <= excuses'[r] + Bit(RestCovers(p, r)' \/ r \in Telling(p)')
    <3>1. CASE r \in pass[p].group
      <4>1. r \in Unsent(p) /\ r \in Telling(p) /\ r \notin Unsent(p)'
        BY <2>2, <2>4, <2>5, <3>1
      <4>2. CASE outcome = "DELIVERED"
        <5>1. sent'[r] = sent[r] + 1 /\ excuses'[r] = excuses[r] /\ r \in Telling(p)'
          BY <2>1, <2>5, <3>1, <4>1, <4>2 DEF Reaches
        <5> QED
          BY <1>0, <2>6, <4>1, <5>1 DEF Bit
      <4>3. CASE outcome = "FAILED"
        <5>1. \/ sent'[r] = sent[r] /\ excuses'[r] = excuses[r]
              \/ sent'[r] = sent[r] + 1 /\ excuses'[r] = excuses[r] + 1
          BY <2>1, <3>1, <4>3 DEF Reaches, Excuse
        <5> QED
          BY <1>0, <2>6, <4>1, <5>1 DEF Bit
      <4> QED
        BY <4>2, <4>3
    <3>2. CASE r \notin pass[p].group
      <4>1. sent'[r] = sent[r] /\ excuses'[r] = excuses[r]
        BY <2>1, <3>2 DEF Reaches, Excuse
      <4>2. (r \in Unsent(p)') = (r \in Unsent(p)) /\ (r \in Telling(p) => r \in Telling(p)')
        BY <2>4, <2>5, <3>2
      <4> QED
        BY <1>0, <2>3, <2>6, <4>1, <4>2 DEF Bit
    <3> QED
      BY <3>1, <3>2
  <2> QED
    BY <2>1, <2>6, BudgetByPass DEF After
<1>6. ASSUME NEW p \in Passes, Report(p) PROVE Budget'
  <2>1. PICK s \in pass[p].acks :
          /\ Set(p, [pass[p] EXCEPT !.acks = @ \ {s}])
          /\ \/ Mark(s, pass[p].verdict) /\ UNCHANGED excuses
             \/ Excuse(IF pass[p].verdict = "DELIVERED" THEN {s} ELSE {}) /\ UNCHANGED status
          /\ sent' = sent
    BY <1>6 DEF Report
  <2>2. s \in Rows /\ pass[p].verdict \in {"DELIVERED", "FAILED"}
    BY <2>1 DEF TypeOK, Locals
  <2>3. After(p, pass[p].pc, pass[p].todo, pass[p].group, pass[p].acks \ {s}, pass[p].verdict)
    BY <2>1, <2>2, ReportLocals
  <2>4. (Unsent(p)') = Unsent(p)
    BY <2>3 DEF Unsent, After
  <2>5. \A r \in Rows : r # s => (r \in Telling(p)' <=> r \in Telling(p))
    BY <2>3, <2>4 DEF Telling, After
  <2>6. \A r \in Rows : status[r] = "DELIVERED" => status'[r] = "DELIVERED"
    BY <2>1, <2>2 DEF Mark, TypeOK
  <2>7. \A r \in Rows : RestCovers(p, r) => RestCovers(p, r)'
    BY <2>3, <2>6, OthersTell DEF RestCovers, After
  <2>8. \A r \in Rows : excuses'[r] \in Nat /\ excuses'[r] >= excuses[r]
    BY <1>0, <2>1 DEF Excuse
  <2>9. ASSUME NEW r \in Rows,
            sent[r] + Rest(p, r) + Bit(r \in Unsent(p)) <= excuses[r] + Bit(RestCovers(p, r) \/ r \in Telling(p))
         PROVE sent'[r] + Rest(p, r) + Bit(r \in Unsent(p)')
                 <= excuses'[r] + Bit(RestCovers(p, r)' \/ r \in Telling(p)')
    <3>1. CASE r = s /\ pass[p].verdict = "DELIVERED"
      <4>1. status'[r] = "DELIVERED" \/ excuses'[r] = excuses[r] + 1
        BY <2>1, <2>2, <3>1 DEF Mark, Excuse, TypeOK
      <4>2. RestCovers(p, r)' \/ excuses'[r] = excuses[r] + 1
        BY <4>1 DEF RestCovers
      <4> QED
        BY <1>0, <2>1, <2>4, <2>8, <2>9, <4>2 DEF Bit
    <3>2. CASE r = s /\ pass[p].verdict # "DELIVERED"
      <4>1. r \in Telling(p) <=> r \in Telling(p)'
        BY <2>3, <2>4, <3>2 DEF Telling, After
      <4> QED
        BY <1>0, <2>1, <2>4, <2>7, <2>8, <2>9, <4>1 DEF Bit
    <3>3. CASE r # s
      BY <1>0, <2>1, <2>4, <2>5, <2>7, <2>8, <2>9, <3>3 DEF Bit
    <3> QED
      BY <3>1, <3>2, <3>3
  <2> QED
    BY <2>3, <2>9, BudgetByPass DEF After
<1>7. ASSUME NEW p \in Passes, Sync(p) PROVE Budget'
  <2>1. After(p, pass[p].pc, pass[p].todo, pass[p].group, pass[p].acks, pass[p].verdict)
    BY <1>7, SyncLocals
  <2>2. UNCHANGED <<status, sent, excuses>>
    BY <1>7 DEF Sync
  <2>3. (Unsent(p)') = Unsent(p) /\ (Telling(p)') = Telling(p)
    BY <2>1 DEF Unsent, Telling, After
  <2>4. \A r \in Rows : RestCovers(p, r)' <=> RestCovers(p, r)
    BY <2>1, <2>2, OthersTell DEF RestCovers, After
  <2> QED
    BY <2>1, <2>2, <2>3, <2>4, BudgetByPass DEF After, Bit
<1>8. ASSUME NEW p \in Passes, Finish(p) \/ Crash(p) PROVE Budget'
  <2>1. After(p, "idle", {}, {}, {}, "DELIVERED")
    BY <1>8, IdleLocals DEF Finish, Crash
  <2>2. (Unsent(p)') = {} /\ status' = status /\ sent' = sent
    BY <1>8, <2>1 DEF Unsent, After, Finish, Crash
  <2>3. \A r \in Rows : RestCovers(p, r)' <=> RestCovers(p, r)
    BY <2>1, <2>2, OthersTell DEF RestCovers, After
  <2>4. \A r \in Rows : excuses'[r] \in Nat /\ excuses'[r] >= excuses[r]
    BY <1>0, <1>8 DEF Finish, Crash, Excuse
  <2>5. \A r \in Rows : r \in Telling(p) /\ r \notin Unsent(p) => excuses'[r] = excuses[r] + 1
    <3>1. CASE Finish(p)
      BY <3>1 DEF Finish, Between, Telling
    <3>2. CASE Crash(p)
      BY <3>2 DEF Crash, Excuse, Telling
    <3> QED
      BY <1>8, <3>1, <3>2
  <2>6. Unsent(p) \subseteq Telling(p)
    BY DEF Telling
  <2> QED
    BY <1>0, <2>1, <2>2, <2>3, <2>4, <2>5, <2>6, BudgetByPass DEF After, Bit
<1>9. CASE UNCHANGED vars
  BY <1>9 DEF Budget, Holders, Unsent, Allowed, Covered, Telling, vars
<1> QED
  BY <1>1, <1>2, <1>3, <1>4, <1>5, <1>6, <1>7, <1>8, <1>9 DEF Next

\* Nobody changes what a row is.
LEMMA RowStays == [Next]_vars => UNCHANGED <<box, form, to>>
<1> SUFFICES ASSUME [Next]_vars PROVE UNCHANGED <<box, form, to>>
  OBVIOUS
<1>1. ASSUME NEW r \in Rows, Offer(r) \/ OfferAgain(r) PROVE UNCHANGED <<box, form, to>>
  BY <1>1 DEF Offer, OfferAgain, row
<1>2. ASSUME NEW p \in Passes, Fetch(p) \/ RetireInvalid(p) \/ ReportEchoes(p) \/ NoRecipient(p) \/ TakeGroup(p)
      PROVE UNCHANGED <<box, form, to>>
  BY <1>2 DEF Fetch, RetireInvalid, ReportEchoes, NoRecipient, TakeGroup, row
<1>3. ASSUME NEW p \in Passes, Send(p) \/ SendFails(p) \/ Report(p) PROVE UNCHANGED <<box, form, to>>
  BY <1>3 DEF Send, SendFails, Report, row
<1>4. ASSUME NEW p \in Passes, Sync(p) \/ Finish(p) \/ Crash(p) PROVE UNCHANGED <<box, form, to>>
  BY <1>4 DEF Sync, Finish, Crash, row
<1>5. CASE UNCHANGED vars
  BY <1>5 DEF vars
<1> QED
  BY <1>1, <1>2, <1>3, <1>4, <1>5 DEF Next

-----------------------------------------------------------------------------
(* Overlapping passes *)

\* As many passes have a row as the box allows.
TellersFit == \A r \in Rows : IsFiniteSet(Tellers(r)) /\ Cardinality(Tellers(r)) \in Nat /\ Cardinality(Tellers(r)) <= Most

LEMMA TellersBound == TypeOK /\ Shape /\ OnePass => TellersFit
<1> SUFFICES ASSUME TypeOK, Shape, OnePass, NEW r \in Rows
             PROVE IsFiniteSet(Tellers(r)) /\ Cardinality(Tellers(r)) \in Nat /\ Cardinality(Tellers(r)) <= Most
  BY DEF TellersFit
<1>1. IsFiniteSet(Passes) /\ Tellers(r) \subseteq Passes
  BY OutboxAssumption DEF Tellers
<1>2. IsFiniteSet(Tellers(r)) /\ Cardinality(Tellers(r)) <= Cardinality(Passes)
  BY <1>1, FS_Subset
<1>3. Cardinality(Tellers(r)) \in Nat
  BY <1>2, FS_CardinalityType
<1>4. CASE box \in Leased
  <2>1. \A p \in Tellers(r) : Open(p)
    BY DEF Tellers, Telling, Unsent, Shape, Open, Idle
  <2>2. \A p, q \in Tellers(r) : p = q
    BY <1>1, <1>4, <2>1 DEF OnePass
  <2>3. CASE Tellers(r) = {}
    BY <1>2, <1>3, <1>4, <2>3, FS_EmptySet DEF Most
  <2>4. CASE Tellers(r) # {}
    <3>1. PICK p \in Tellers(r) : TRUE
      BY <2>4
    <3>2. Tellers(r) = {p}
      BY <2>2, <3>1
    <3>3. Cardinality({p}) = 1
      BY FS_Singleton
    <3> QED
      BY <1>2, <1>3, <1>4, <3>2, <3>3 DEF Most
  <2> QED
    BY <2>3, <2>4
<1> QED
  BY <1>2, <1>3, <1>4 DEF Most

LEMMA TellersBoundNext == TypeOK' /\ Shape' /\ OnePass' => TellersFit'
BY TellersBound, PTL

\* The passes that have a row, as pass p sees them.
Mates(p, r) == Cardinality(Tellers(r) \ {p})
SplitTellers ==
    \A p \in Passes : \A r \in Rows :
        Mates(p, r) \in Nat /\ Cardinality(Tellers(r)) = Mates(p, r) + Bit(r \in Telling(p))

LEMMA TellersSeen == SplitTellers
<1> SUFFICES ASSUME NEW p \in Passes, NEW r \in Rows
             PROVE Mates(p, r) \in Nat /\ Cardinality(Tellers(r)) = Mates(p, r) + Bit(r \in Telling(p))
  BY DEF SplitTellers
<1>1. IsFiniteSet(Tellers(r)) /\ IsFiniteSet(Tellers(r) \ {p})
  BY OutboxAssumption, FS_Subset DEF Tellers
<1>2. Cardinality(Tellers(r)) \in Nat /\ Cardinality(Tellers(r) \ {p}) \in Nat
  BY <1>1, FS_CardinalityType
<1>3. CASE p \in Tellers(r)
  <2>1. Cardinality(Tellers(r) \ {p}) = Cardinality(Tellers(r)) - 1
    BY <1>1, <1>3, FS_RemoveElement
  <2>2. r \in Telling(p)
    BY <1>3 DEF Tellers
  <2> QED
    BY <1>2, <2>1, <2>2 DEF Mates, Bit
<1>4. CASE p \notin Tellers(r)
  <2>1. Cardinality(Tellers(r) \ {p}) = Cardinality(Tellers(r))
    <3>1. Tellers(r) \ {p} = Tellers(r)
      BY <1>4
    <3> QED
      BY <3>1
  <2>2. r \notin Telling(p)
    BY <1>4 DEF Tellers
  <2> QED
    BY <1>2, <2>1, <2>2 DEF Mates, Bit
<1> QED
  BY <1>3, <1>4

LEMMA TellersSeenNext == SplitTellers'
BY TellersSeen, PTL

\* It is enough that a step of p pays for what it adds: with its own hold on
\* the row, or with a mishap.
LEMMA OverlapByPass ==
    ASSUME TypeOK, TypeOK', Shape', OnePass', Overlap, NEW p \in Passes, Others(p), box' = box,
           \A r \in Rows :
             /\ status'[r] # "DELIVERED" =>
                  /\ status[r] # "DELIVERED"
                  /\ sent'[r] + Bit(r \in Unsent(p)') + Bit(r \in Telling(p)) + trouble
                       <= sent[r] + Bit(r \in Unsent(p)) + Bit(r \in Telling(p)') + trouble'
             /\ status'[r] = "DELIVERED" =>
                  sent'[r] + Bit(r \in Unsent(p)') + trouble <= sent[r] + Bit(r \in Unsent(p)) + trouble'
    PROVE Overlap'
<1> SUFFICES ASSUME NEW r \in Rows
             PROVE /\ sent'[r] + Cardinality(Holders(r)') <= Most' + trouble'
                   /\ status'[r] # "DELIVERED" =>
                        sent'[r] + Cardinality(Holders(r)') <= Cardinality(Tellers(r)') + trouble'
  BY DEF Overlap
<1>1. /\ Cardinality(Holders(r)) = Rest(p, r) + Bit(r \in Unsent(p)) /\ Rest(p, r) \in Nat
      /\ Cardinality(Tellers(r)) = Mates(p, r) + Bit(r \in Telling(p)) /\ Mates(p, r) \in Nat
  BY BudgetSeen, TellersSeen DEF SplitTellers
<1>2. /\ Cardinality(Holders(r)') = Rest(p, r)' + Bit(r \in Unsent(p)')
      /\ Cardinality(Tellers(r)') = Mates(p, r)' + Bit(r \in Telling(p)')
  BY BudgetSeenNext, TellersSeenNext DEF SplitByPass, SplitTellers
<1>3. Rest(p, r)' = Rest(p, r)
  BY RestStays
<1>4. Mates(p, r)' = Mates(p, r)
  <2>1. (Tellers(r)') \ {p} = Tellers(r) \ {p}
    BY OthersTell DEF Tellers
  <2> QED
    BY <2>1 DEF Mates
<1>5. sent[r] \in Nat /\ sent'[r] \in Nat /\ trouble \in Nat /\ trouble' \in Nat
  BY OutboxAssumption DEF TypeOK
<1>6. Cardinality(Tellers(r)') <= Most' /\ Cardinality(Tellers(r)') \in Nat
  BY TellersBoundNext DEF TellersFit
<1>7. Most' = Most /\ Most \in Nat
  BY OutboxAssumption, FS_CardinalityType DEF Most
<1>8. /\ Bit(r \in Unsent(p)) \in Nat /\ Bit(r \in Unsent(p)') \in Nat
      /\ Bit(r \in Telling(p)) \in Nat /\ Bit(r \in Telling(p)') \in Nat
  BY DEF Bit
<1>9. CASE status'[r] # "DELIVERED"
  <2>1. sent[r] + Cardinality(Holders(r)) <= Cardinality(Tellers(r)) + trouble
    BY <1>9 DEF Overlap
  <2>2. sent'[r] + Bit(r \in Unsent(p)') + Bit(r \in Telling(p)) + trouble
          <= sent[r] + Bit(r \in Unsent(p)) + Bit(r \in Telling(p)') + trouble'
    BY <1>9
  <2>3. sent'[r] + Cardinality(Holders(r)') <= Cardinality(Tellers(r)') + trouble'
    BY <1>1, <1>2, <1>3, <1>4, <1>5, <1>8, <2>1, <2>2
  <2> QED
    BY <1>2, <1>1, <1>3, <1>5, <1>6, <1>7, <1>8, <2>3
<1>10. CASE status'[r] = "DELIVERED"
  <2>1. sent[r] + Cardinality(Holders(r)) <= Most + trouble
    BY DEF Overlap
  <2>2. sent'[r] + Bit(r \in Unsent(p)') + trouble <= sent[r] + Bit(r \in Unsent(p)) + trouble'
    BY <1>10
  <2> QED
    BY <1>1, <1>2, <1>3, <1>5, <1>7, <1>8, <1>10, <2>1, <2>2
<1> QED
  BY <1>9, <1>10

LEMMA OverlapStep ==
    TypeOK /\ TypeOK' /\ Shape /\ Shape' /\ OnePass' /\ Overlap /\ [Next]_vars => Overlap'
<1> SUFFICES ASSUME TypeOK, TypeOK', Shape, Shape', OnePass', Overlap, [Next]_vars PROVE Overlap'
  OBVIOUS
<1>b. box' = box
  BY RowStays
<1>t. trouble \in Nat /\ trouble' \in Nat /\ \A r \in Rows : sent[r] \in Nat
  BY OutboxAssumption DEF TypeOK
<1>u. \A p \in Passes : Unsent(p) \subseteq Telling(p)
  BY DEF Telling
<1>1. ASSUME NEW s \in Rows, Offer(s) \/ OfferAgain(s) PROVE Overlap'
  <2>1. /\ UNCHANGED <<pass, sent>> /\ trouble' >= trouble
        /\ \A r \in Rows : status'[r] # "DELIVERED" => status[r] # "DELIVERED"
    BY <1>1, <1>t DEF Offer, OfferAgain, TypeOK, Trouble
  <2>2. \A r \in Rows : Holders(r)' = Holders(r) /\ Tellers(r)' = Tellers(r)
    BY <2>1 DEF Holders, Tellers, Telling, Unsent
  <2>3. Most' = Most
    BY <1>b DEF Most
  <2>4. \A r \in Rows : Cardinality(Holders(r)) \in Nat /\ Cardinality(Tellers(r)) \in Nat
    <3> SUFFICES ASSUME NEW r \in Rows PROVE Cardinality(Holders(r)) \in Nat /\ Cardinality(Tellers(r)) \in Nat
      OBVIOUS
    <3>1. IsFiniteSet(Holders(r)) /\ IsFiniteSet(Tellers(r))
      BY OutboxAssumption, FS_Subset DEF Holders, Tellers
    <3> QED
      BY <3>1, FS_CardinalityType
  <2>5. Most \in Nat
    BY OutboxAssumption, FS_CardinalityType DEF Most
  <2> QED
    BY <1>t, <2>1, <2>2, <2>3, <2>4, <2>5 DEF Overlap
<1>2. ASSUME NEW p \in Passes, Fetch(p) PROVE Overlap'
  <2>1. After(p, "work", Fetched, {}, {}, "DELIVERED")
    BY <1>2, FetchLocals
  <2>2. pass[p] = Idle
    BY <1>2 DEF Fetch, MayStart, Open, Shape, TypeOK, Locals
  <2>3. Unsent(p) = {} /\ Telling(p) = {}
    BY <2>2 DEF Unsent, Telling, Idle
  <2>4. (Unsent(p)') = Fetched /\ (Telling(p)') = Fetched
    BY <2>1 DEF Unsent, Telling, After
  <2>5. \A r \in Fetched : status[r] = "PENDING"
    BY DEF Fetched, Pending
  <2>6. UNCHANGED <<status, sent, trouble>>
    BY <1>2 DEF Fetch
  <2> QED
    BY <1>b, <1>t, <2>1, <2>3, <2>4, <2>5, <2>6, OverlapByPass DEF After, Bit
<1>3. ASSUME NEW p \in Passes, RetireInvalid(p) \/ ReportEchoes(p) \/ NoRecipient(p) PROVE Overlap'
  <2>1. PICK R \in SUBSET pass[p].todo, outcome \in {"DELIVERED", "FAILED"} :
          /\ R \subseteq Rows /\ ToReport(p, R, outcome) /\ Between(p)
          /\ UNCHANGED <<status, sent>>
    BY <1>3, ReportStep
  <2>2. After(p, pass[p].pc, pass[p].todo \ R, pass[p].group, R, outcome)
    BY <2>1, ToReportLocals
  <2>3. pass[p].group = {} /\ pass[p].acks = {}
    BY <2>1 DEF Shape, Between
  <2>4. Unsent(p) = pass[p].todo /\ Telling(p) = pass[p].todo
    BY <2>3 DEF Unsent, Telling
  <2>5. (Unsent(p)') = pass[p].todo \ R /\ pass[p].todo \ R \subseteq Telling(p)'
        /\ (Telling(p)') \subseteq pass[p].todo
    BY <2>1, <2>2, <2>3 DEF Unsent, Telling, After
  <2>6. trouble' = trouble
    BY <1>3 DEF RetireInvalid, ReportEchoes, NoRecipient
  <2> QED
    BY <1>b, <1>t, <2>1, <2>2, <2>4, <2>5, <2>6, OverlapByPass DEF After, Bit
<1>4. ASSUME NEW p \in Passes, TakeGroup(p) PROVE Overlap'
  <2>1. PICK s \in pass[p].todo :
          After(p, "send", pass[p].todo \ GroupOf(s, pass[p].todo), GroupOf(s, pass[p].todo),
                pass[p].acks, pass[p].verdict)
    BY <1>4, TakeGroupLocals
  <2>2. GroupOf(s, pass[p].todo) \subseteq pass[p].todo /\ pass[p].group = {}
    BY <1>4 DEF GroupOf, TakeGroup, Between, Shape
  <2>3. (Unsent(p)') = Unsent(p) /\ (Telling(p)') = Telling(p)
    BY <2>1, <2>2 DEF Unsent, Telling, After
  <2>4. UNCHANGED <<status, sent, trouble>>
    BY <1>4 DEF TakeGroup
  <2> QED
    BY <1>b, <1>t, <2>1, <2>3, <2>4, OverlapByPass DEF After, Bit
<1>5. ASSUME NEW p \in Passes, Send(p) \/ SendFails(p) PROVE Overlap'
  <2>1. PICK outcome \in {"DELIVERED", "FAILED"} :
          /\ After(p, "work", pass[p].todo, {}, pass[p].group, outcome)
          /\ outcome = "DELIVERED" => Reaches(p) /\ UNCHANGED trouble
          /\ outcome = "FAILED" => (UNCHANGED sent \/ Reaches(p)) /\ trouble' = trouble + 1
    BY <1>5, ReportsLocals DEF Send, SendFails, Trouble
  <2>2. pass[p].acks = {} /\ pass[p].todo \cap pass[p].group = {} /\ status' = status
    BY <1>5 DEF Send, SendFails, Shape
  <2>3. Unsent(p) = pass[p].todo \cup pass[p].group /\ Telling(p) = Unsent(p)
    BY <2>2 DEF Unsent, Telling
  <2>4. (Unsent(p)') = pass[p].todo /\ (outcome = "DELIVERED" => Telling(p)' = Unsent(p))
        /\ pass[p].todo \subseteq Telling(p)'
    BY <2>1, <2>3 DEF Unsent, Telling, After
  <2>5. ASSUME NEW r \in Rows
        PROVE /\ sent'[r] + Bit(r \in Unsent(p)') + Bit(r \in Telling(p)) + trouble
                   <= sent[r] + Bit(r \in Unsent(p)) + Bit(r \in Telling(p)') + trouble'
              /\ sent'[r] + Bit(r \in Unsent(p)') + trouble <= sent[r] + Bit(r \in Unsent(p)) + trouble'
    <3>1. CASE r \in pass[p].group
      <4>1. r \in Unsent(p) /\ r \in Telling(p) /\ r \notin Unsent(p)'
        BY <2>2, <2>3, <2>4, <3>1
      <4>2. \/ sent'[r] = sent[r] + 1 /\ trouble' = trouble /\ r \in Telling(p)'
            \/ sent'[r] \in {sent[r], sent[r] + 1} /\ trouble' = trouble + 1
        BY <2>1, <2>4, <3>1, <4>1 DEF Reaches
      <4> QED
        BY <1>t, <4>1, <4>2 DEF Bit
    <3>2. CASE r \notin pass[p].group
      <4>1. sent'[r] = sent[r] /\ trouble' >= trouble
        BY <1>t, <2>1, <3>2 DEF Reaches
      <4>2. (r \in Unsent(p)') = (r \in Unsent(p)) /\ (r \in Telling(p) => r \in Telling(p)')
        BY <2>3, <2>4, <3>2
      <4> QED
        BY <1>t, <4>1, <4>2 DEF Bit
    <3> QED
      BY <3>1, <3>2
  <2> QED
    BY <1>b, <2>1, <2>2, <2>5, OverlapByPass DEF After
<1>6. ASSUME NEW p \in Passes, Report(p) PROVE Overlap'
  <2>1. PICK s \in pass[p].acks :
          /\ Set(p, [pass[p] EXCEPT !.acks = @ \ {s}])
          /\ \/ Mark(s, pass[p].verdict) /\ UNCHANGED trouble
             \/ trouble' = trouble + 1 /\ UNCHANGED status
          /\ sent' = sent
    BY <1>6 DEF Report, Trouble
  <2>2. s \in Rows /\ pass[p].verdict \in {"DELIVERED", "FAILED"}
    BY <2>1 DEF TypeOK, Locals
  <2>3. After(p, pass[p].pc, pass[p].todo, pass[p].group, pass[p].acks \ {s}, pass[p].verdict)
    BY <2>1, <2>2, ReportLocals
  <2>4. (Unsent(p)') = Unsent(p)
    BY <2>3 DEF Unsent, After
  <2>5. \A r \in Rows : r # s \/ pass[p].verdict = "FAILED" => (r \in Telling(p)' <=> r \in Telling(p))
    BY <2>2, <2>3, <2>4 DEF Telling, After
  <2>6. \A r \in Rows : status'[r] # "DELIVERED" => status[r] # "DELIVERED"
    BY <2>1, <2>2 DEF Mark, TypeOK
  <2>7. trouble' >= trouble
    BY <1>t, <2>1
  <2>8. pass[p].verdict = "DELIVERED" => status'[s] = "DELIVERED" \/ trouble' = trouble + 1
    BY <2>1, <2>2 DEF Mark, TypeOK
  <2>9. ASSUME NEW r \in Rows, status'[r] # "DELIVERED"
        PROVE Bit(r \in Telling(p)) + trouble <= Bit(r \in Telling(p)') + trouble'
    BY <1>t, <2>2, <2>5, <2>7, <2>8, <2>9 DEF Bit
  <2>10. \A r \in Rows : Bit(r \in Unsent(p)') = Bit(r \in Unsent(p)) /\ Bit(r \in Unsent(p)) \in Nat
            /\ Bit(r \in Telling(p)) \in Nat /\ Bit(r \in Telling(p)') \in Nat
    BY <2>4 DEF Bit
  <2>11. \A r \in Rows : sent'[r] = sent[r]
    BY <2>1
  <2>12. ASSUME NEW r \in Rows
         PROVE /\ status'[r] # "DELIVERED" =>
                    sent'[r] + Bit(r \in Unsent(p)') + Bit(r \in Telling(p)) + trouble
                      <= sent[r] + Bit(r \in Unsent(p)) + Bit(r \in Telling(p)') + trouble'
               /\ sent'[r] + Bit(r \in Unsent(p)') + trouble <= sent[r] + Bit(r \in Unsent(p)) + trouble'
    BY <1>t, <2>7, <2>9, <2>10, <2>11
  <2> QED
    BY <1>b, <2>3, <2>6, <2>12, OverlapByPass DEF After
<1>7. ASSUME NEW p \in Passes, Sync(p) PROVE Overlap'
  <2>1. After(p, pass[p].pc, pass[p].todo, pass[p].group, pass[p].acks, pass[p].verdict)
    BY <1>7, SyncLocals
  <2>2. UNCHANGED <<status, sent>> /\ trouble' >= trouble
    BY <1>7, <1>t DEF Sync, Smoothly, Trouble
  <2>3. (Unsent(p)') = Unsent(p) /\ (Telling(p)') = Telling(p)
    BY <2>1 DEF Unsent, Telling, After
  <2> QED
    BY <1>b, <1>t, <2>1, <2>2, <2>3, OverlapByPass DEF After, Bit
<1>8. ASSUME NEW p \in Passes, Finish(p) \/ Crash(p) PROVE Overlap'
  <2>1. After(p, "idle", {}, {}, {}, "DELIVERED")
    BY <1>8, IdleLocals DEF Finish, Crash
  <2>2. (Unsent(p)') = {} /\ (Telling(p)') = {} /\ UNCHANGED <<status, sent>>
    BY <1>8, <2>1 DEF Unsent, Telling, After, Finish, Crash
  <2>3. CASE Finish(p)
    <3>1. Unsent(p) = {} /\ Telling(p) = {} /\ trouble' = trouble
      BY <2>3 DEF Finish, Between, Unsent, Telling, Shape
    <3> QED
      BY <1>b, <1>t, <2>1, <2>2, <3>1, OverlapByPass DEF After, Bit
  <2>4. CASE Crash(p)
    <3>1. trouble' = trouble + 1
      BY <2>4 DEF Crash, Trouble
    <3> QED
      BY <1>b, <1>t, <1>u, <2>1, <2>2, <3>1, OverlapByPass DEF After, Bit
  <2> QED
    BY <1>8, <2>3, <2>4
<1>9. CASE UNCHANGED vars
  BY <1>9, SMTT(60) DEF Overlap, Holders, Tellers, Unsent, Telling, Most, vars
<1> QED
  BY <1>1, <1>2, <1>3, <1>4, <1>5, <1>6, <1>7, <1>8, <1>9 DEF Next

-----------------------------------------------------------------------------
(* Told before recorded *)

LEMMA ToldFirstStep == TypeOK /\ Shape /\ ToldFirst /\ [Next]_vars => ToldFirst'
<1> SUFFICES ASSUME TypeOK, Shape, ToldFirst, [Next]_vars PROVE ToldFirst'
  OBVIOUS
<1>0. form' = form /\ (Echoes') = Echoes
  BY DEF Next, vars, row, Offer, OfferAgain, Fetch, RetireInvalid, ReportEchoes, NoRecipient, TakeGroup,
     Send, SendFails, Report, Sync, Finish, Crash, Echoes
<1>a. ASSUME NEW p \in Passes, Others(p), \A r \in Rows : sent[r] > 0 => sent'[r] > 0,
             \A r \in Told(p)' : sent'[r] > 0 \/ r \in Echoes,
             \A r \in pass'[p].sync : sent'[r] > 0
      PROVE \A q \in Passes : (\A r \in Told(q)' : sent'[r] > 0 \/ r \in Echoes)
                              /\ (\A r \in pass'[q].sync : sent'[r] > 0)
  <2> SUFFICES ASSUME NEW q \in Passes, q # p
               PROVE (\A r \in Told(q)' : sent'[r] > 0 \/ r \in Echoes)
                     /\ (\A r \in pass'[q].sync : sent'[r] > 0)
    BY <1>a
  <2>1. pass'[q] = pass[q] /\ (Told(q)') = Told(q)
    BY <1>a DEF Others, Told
  <2>2. Told(q) \subseteq Rows /\ pass[q].sync \subseteq Rows
    BY DEF TypeOK, Locals, Told
  <2> QED
    BY <1>a, <2>1, <2>2 DEF ToldFirst
<1>1. ASSUME NEW s \in Rows, Offer(s) \/ OfferAgain(s) PROVE ToldFirst'
  <2>1. UNCHANGED <<pass, sent, synced>> /\ \A r \in Rows : status'[r] = "DELIVERED" => status[r] = "DELIVERED"
    BY <1>1 DEF Offer, OfferAgain, TypeOK
  <2> QED
    BY <1>0, <2>1 DEF ToldFirst, TellFirst, Told
<1>2. ASSUME NEW p \in Passes, Fetch(p) PROVE ToldFirst'
  <2>1. After(p, "work", Fetched, {}, {}, "DELIVERED") /\ pass'[p].sync = {}
    BY <1>2, FetchLocals
  <2>2. (Told(p)') = {} /\ UNCHANGED <<sent, status, synced>>
    BY <1>2, <2>1 DEF Told, After, Fetch
  <2> QED
    BY <1>0, <1>a, <2>1, <2>2 DEF ToldFirst, TellFirst, After
<1>3. ASSUME NEW p \in Passes, RetireInvalid(p) \/ ReportEchoes(p) \/ NoRecipient(p) PROVE ToldFirst'
  <2>1. PICK R \in SUBSET pass[p].todo, outcome \in {"DELIVERED", "FAILED"} :
          /\ R \subseteq Rows /\ ToReport(p, R, outcome) /\ (outcome = "DELIVERED" => R \subseteq Echoes)
          /\ UNCHANGED <<status, sent, synced>>
    BY <1>3, ReportStep
  <2>2. After(p, pass[p].pc, pass[p].todo \ R, pass[p].group, R, outcome) /\ pass'[p].sync = pass[p].sync
    BY <2>1, ToReportLocals
  <2>3. (Told(p)') \subseteq Echoes
    BY <2>1, <2>2 DEF Told, After
  <2> QED
    BY <1>0, <1>a, <2>1, <2>2, <2>3 DEF ToldFirst, TellFirst, After
<1>4. ASSUME NEW p \in Passes, TakeGroup(p) PROVE ToldFirst'
  <2>1. PICK s \in pass[p].todo :
          After(p, "send", pass[p].todo \ GroupOf(s, pass[p].todo), GroupOf(s, pass[p].todo),
                pass[p].acks, pass[p].verdict) /\ pass'[p].sync = pass[p].sync
    BY <1>4, TakeGroupLocals
  <2>2. (Told(p)') = Told(p) /\ UNCHANGED <<status, sent, synced>>
    BY <1>4, <2>1 DEF Told, After, TakeGroup
  <2> QED
    BY <1>0, <1>a, <2>1, <2>2 DEF ToldFirst, TellFirst, After
<1>5. ASSUME NEW p \in Passes, Send(p) \/ SendFails(p) PROVE ToldFirst'
  <2>1. PICK outcome \in {"DELIVERED", "FAILED"} :
          /\ After(p, "work", pass[p].todo, {}, pass[p].group, outcome)
          /\ pass'[p].sync \subseteq pass[p].sync \cup (IF outcome = "DELIVERED" THEN pass[p].group ELSE {})
          /\ outcome = "DELIVERED" => Reaches(p)
          /\ outcome = "FAILED" => UNCHANGED sent \/ Reaches(p)
          /\ UNCHANGED <<status, synced>>
    BY <1>5, ReportsLocals DEF Send, SendFails
  <2>2. \A r \in Rows : sent[r] > 0 => sent'[r] > 0
    BY <2>1 DEF Reaches, TypeOK
  <2>3. pass[p].group \subseteq Rows /\ pass[p].sync \subseteq Rows
    BY DEF TypeOK, Locals
  <2>4. outcome = "DELIVERED" => \A r \in pass[p].group : sent'[r] > 0
    BY <2>1, <2>3 DEF Reaches, TypeOK
  <2>5. \A r \in Told(p)' : sent'[r] > 0
    BY <2>1, <2>4 DEF Told, After
  <2>6. \A r \in pass'[p].sync : sent'[r] > 0
    BY <2>1, <2>2, <2>3, <2>4 DEF ToldFirst
  <2>7. synced \subseteq Rows
    BY DEF TypeOK
  <2> QED
    BY <1>0, <1>a, <2>1, <2>2, <2>5, <2>6, <2>7 DEF ToldFirst, TellFirst, After
<1>6. ASSUME NEW p \in Passes, Report(p) PROVE ToldFirst'
  <2>1. PICK s \in pass[p].acks :
          /\ Set(p, [pass[p] EXCEPT !.acks = @ \ {s}])
          /\ Mark(s, pass[p].verdict) \/ UNCHANGED status
          /\ UNCHANGED <<sent, synced>>
    BY <1>6 DEF Report
  <2>2. s \in Rows /\ pass[p].verdict \in {"DELIVERED", "FAILED"}
    BY <2>1 DEF TypeOK, Locals
  <2>3. After(p, pass[p].pc, pass[p].todo, pass[p].group, pass[p].acks \ {s}, pass[p].verdict)
        /\ pass'[p].sync = pass[p].sync
    BY <2>1, <2>2, ReportLocals
  <2>4. (Told(p)') \subseteq Told(p)
    BY <2>3 DEF Told, After
  <2>5. \A r \in Rows : status'[r] = "DELIVERED" => status[r] = "DELIVERED" \/ (r = s /\ s \in Told(p))
    BY <2>1, <2>2 DEF Mark, Told, TypeOK
  <2> QED
    BY <1>0, <1>a, <2>1, <2>3, <2>4, <2>5 DEF ToldFirst, TellFirst, After
<1>7. ASSUME NEW p \in Passes, Sync(p) PROVE ToldFirst'
  <2>1. After(p, pass[p].pc, pass[p].todo, pass[p].group, pass[p].acks, pass[p].verdict)
        /\ pass'[p].sync \subseteq pass[p].sync
    BY <1>7, SyncLocals
  <2>2. (Told(p)') = Told(p) /\ UNCHANGED <<status, sent>>
    BY <1>7, <2>1 DEF Told, After, Sync
  <2>3. \A r \in synced' : r \in synced \/ r \in pass[p].sync
    BY <1>7 DEF Sync
  <2> QED
    BY <1>0, <1>a, <2>1, <2>2, <2>3 DEF ToldFirst, TellFirst, After
<1>8. ASSUME NEW p \in Passes, Finish(p) \/ Crash(p) PROVE ToldFirst'
  <2>1. After(p, "idle", {}, {}, {}, "DELIVERED") /\ pass'[p] = Idle
    BY <1>8, IdleLocals DEF Finish, Crash
  <2>2. (Told(p)') = {} /\ pass'[p].sync = {} /\ UNCHANGED <<status, sent, synced>>
    BY <1>8, <2>1 DEF Told, After, Idle, Finish, Crash
  <2> QED
    BY <1>0, <1>a, <2>1, <2>2 DEF ToldFirst, TellFirst, After
<1>9. CASE UNCHANGED vars
  BY <1>0, <1>9 DEF ToldFirst, TellFirst, Told, vars
<1> QED
  BY <1>1, <1>2, <1>3, <1>4, <1>5, <1>6, <1>7, <1>8, <1>9 DEF Next

-----------------------------------------------------------------------------
(* The month she reads *)

LEMMA MonthStep == TypeOK /\ Shape /\ OnePass /\ MonthKnown /\ [Next]_vars => MonthKnown'
<1> SUFFICES ASSUME TypeOK, Shape, OnePass, MonthKnown, [Next]_vars, box = "schedule" PROVE MonthKnown'
  BY RowStays DEF MonthKnown
<1>0. UNCHANGED <<form, to>>
  BY RowStays
<1>m. /\ \A r \in Rows : at[r] <= month[to[r]]
      /\ \A e \in People : \A r \in ToldOf(e) : shown[e] = NoMonth \/ shown[e] >= at[r]
      /\ \A p \in Passes : pass[p].pc = "send" =>
          \A r \in pass[p].group : form[r] = "normal" =>
              \/ pass[p].sees = NoMonth
              \/ \A s \in pass[p].group \cup ToldOf(to[r]) :
                  form[s] = "normal" => to[s] = to[r] /\ pass[p].sees >= at[s]
  BY DEF MonthKnown
\* The pass of the step is the only one that is open.
<1>o. ASSUME NEW p \in Passes, Open(p) \/ (\A q \in Passes : ~Open(q)), Others(p)
      PROVE \A q \in Passes : q # p => pass'[q].pc = "idle" /\ (Told(q)') = {} /\ Told(q) = {}
  <2>1. \A q \in Passes : q # p => pass[q] = Idle
    BY <1>o DEF OnePass, Leased, Shape, Open, TypeOK, Locals
  <2> QED
    BY <1>o, <2>1 DEF Others, Told, Idle
\* A step of p that tells nobody and does not begin to tell.
<1>q. ASSUME NEW p \in Passes, Open(p) \/ (\A q \in Passes : ~Open(q)), Others(p), pass'[p].pc # "send",
             UNCHANGED <<at, month, shown>>,
             \A r \in Rows : status'[r] = "DELIVERED" \/ r \in Told(p)'
                              => status[r] = "DELIVERED" \/ r \in Told(p) \/ form[r] # "normal"
      PROVE MonthKnown'
  <2>1. \A q \in Passes : q # p => pass'[q].pc = "idle" /\ (Told(q)') = {}
    BY <1>o, <1>q
  <2>2. \A e \in People : (ToldOf(e)') \subseteq ToldOf(e)
    BY <1>0, <1>q, <2>1 DEF ToldOf
  <2>3. \A q \in Passes : pass'[q].pc # "send"
    BY <1>q, <2>1
  <2> QED
    BY <1>0, <1>m, <1>q, <2>2, <2>3 DEF MonthKnown
<1>1. ASSUME NEW s \in Rows, Offer(s) PROVE MonthKnown'
  <2>1. /\ pass' = pass /\ shown' = shown /\ status[s] = "NONE"
        /\ \A r \in Rows : r # s => at'[r] = at[r]
        /\ \A r \in Rows : status'[r] = "DELIVERED" <=> status[r] = "DELIVERED"
        /\ at'[s] = month[to[s]] + 1
        /\ \A e \in People : month'[e] = IF e = to[s] THEN month[e] + 1 ELSE month[e]
        /\ \A r \in Rows : at[r] \in Nat /\ to[r] \in People
        /\ \A e \in People : month[e] \in Nat
    BY <1>1 DEF Offer, TypeOK
  <2>2. \A e \in People : (ToldOf(e)') = ToldOf(e)
    BY <1>0, <2>1 DEF ToldOf, Told
  <2>3. \A p \in Passes : s \notin pass[p].group /\ s \notin pass[p].acks
    BY <2>1 DEF Shape
  <2>4. \A e \in People : s \notin ToldOf(e) /\ ToldOf(e) \subseteq Rows
    BY <2>1, <2>3 DEF ToldOf, Told
  <2>5. \A r \in Rows : at'[r] <= month'[to'[r]]
    BY <1>0, <1>m, <2>1
  <2>6. \A p \in Passes : pass[p].group \subseteq Rows
    BY DEF TypeOK, Locals
  <2> QED
    BY <1>0, <1>m, <2>1, <2>2, <2>3, <2>4, <2>5, <2>6 DEF MonthKnown
<1>2. ASSUME NEW s \in Rows, OfferAgain(s) PROVE MonthKnown'
  <2>1. /\ UNCHANGED <<pass, shown, at, month>>
        /\ \A r \in Rows : status'[r] = "DELIVERED" <=> status[r] = "DELIVERED"
    BY <1>2 DEF OfferAgain, TypeOK
  <2>2. \A e : (ToldOf(e)') = ToldOf(e)
    BY <1>0, <2>1 DEF ToldOf, Told
  <2> QED
    BY <1>0, <1>m, <2>1, <2>2 DEF MonthKnown
<1>3. ASSUME NEW p \in Passes, Fetch(p) PROVE MonthKnown'
  <2>1. After(p, "work", Fetched, {}, {}, "DELIVERED")
    BY <1>3, FetchLocals
  <2>2. (Told(p)') = {} /\ UNCHANGED <<at, month, shown, status>>
    BY <1>3, <2>1 DEF Told, After, Fetch
  <2>3. \A q \in Passes : ~Open(q)
    BY <1>3 DEF Fetch, MayStart, Leased
  <2> QED
    BY <1>q, <2>1, <2>2, <2>3 DEF After
<1>4. ASSUME NEW p \in Passes, RetireInvalid(p) \/ ReportEchoes(p) \/ NoRecipient(p) PROVE MonthKnown'
  <2>1. PICK R \in SUBSET pass[p].todo, outcome \in {"DELIVERED", "FAILED"} :
          /\ R \subseteq Rows /\ ToReport(p, R, outcome) /\ (outcome = "DELIVERED" => R \subseteq Echoes)
          /\ Between(p) /\ UNCHANGED <<status, at, month, shown>>
    BY <1>4, ReportStep
  <2>2. After(p, pass[p].pc, pass[p].todo \ R, pass[p].group, R, outcome)
    BY <2>1, ToReportLocals
  <2>3. \A r \in Told(p)' : form[r] # "normal"
    BY <2>1, <2>2 DEF Told, After, Echoes
  <2> QED
    BY <1>q, <2>1, <2>2, <2>3 DEF After, Between, Open
<1>5. ASSUME NEW p \in Passes, TakeGroup(p) PROVE MonthKnown'
  <2>1. PICK s \in pass[p].todo :
          /\ After(p, "send", pass[p].todo \ GroupOf(s, pass[p].todo), GroupOf(s, pass[p].todo),
                   pass[p].acks, pass[p].verdict)
          /\ pass'[p].sees = NoMonth \/ pass'[p].sees = month[to[s]]
    BY <1>5, TakeGroupLocals
  <2>2. UNCHANGED <<status, at, month, shown>> /\ Open(p) /\ s \in Rows /\ pass[p].todo \subseteq Rows
    BY <1>5 DEF TakeGroup, Between, Open, TypeOK, Locals
  <2>3. \A q \in Passes : q # p => pass'[q].pc = "idle" /\ (Told(q)') = {} /\ Told(q) = {}
    BY <1>o, <2>1, <2>2 DEF After
  <2>4. (Told(p)') = Told(p)
    BY <2>1 DEF Told, After
  <2>5. \A e : (ToldOf(e)') = ToldOf(e)
    BY <1>0, <2>2, <2>3, <2>4 DEF ToldOf
  <2>6. \A r \in GroupOf(s, pass[p].todo) : form[r] = "normal" => to[r] = to[s] /\ form[s] = "normal" /\ r \in Rows
    BY <2>2 DEF GroupOf
  <2>7. \A r \in GroupOf(s, pass[p].todo) : form[r] = "normal" =>
          \/ pass'[p].sees = NoMonth
          \/ \A t \in GroupOf(s, pass[p].todo) \cup ToldOf(to[r]) :
              form[t] = "normal" => to[t] = to[r] /\ pass'[p].sees >= at[t]
    <3> SUFFICES ASSUME NEW r \in GroupOf(s, pass[p].todo), form[r] = "normal",
                        pass'[p].sees = month[to[s]],
                        NEW t \in GroupOf(s, pass[p].todo) \cup ToldOf(to[r]), form[t] = "normal"
                 PROVE to[t] = to[r] /\ pass'[p].sees >= at[t]
      BY <2>1
    <3>1. to[t] = to[s] /\ to[r] = to[s] /\ t \in Rows
      BY <2>6 DEF ToldOf
    <3>2. at[t] <= month[to[t]] /\ at[t] \in Nat /\ month[to[t]] \in Nat
      BY <1>m, <3>1 DEF TypeOK
    <3> QED
      BY <3>1, <3>2
  <2> QED
    BY <1>0, <1>m, <2>1, <2>2, <2>3, <2>5, <2>7 DEF MonthKnown, After
<1>6. ASSUME NEW p \in Passes, Send(p) \/ SendFails(p) PROVE MonthKnown'
  <2>1. PICK outcome \in {"DELIVERED", "FAILED"} :
          /\ After(p, "work", pass[p].todo, {}, pass[p].group, outcome)
          /\ outcome = "DELIVERED" => Reaches(p)
          /\ outcome = "FAILED" => UNCHANGED shown \/ Reaches(p)
          /\ UNCHANGED <<status, at, month>>
          /\ pass[p].pc = "send"
    BY <1>6, ReportsLocals DEF Send, SendFails
  <2>2. \A q \in Passes : q # p => pass'[q].pc = "idle" /\ (Told(q)') = {} /\ Told(q) = {}
    BY <1>o, <2>1 DEF After, Open
  <2>3. (Told(p)') \subseteq pass[p].group /\ (outcome = "FAILED" => Told(p)' = {})
        /\ pass[p].group \subseteq Rows
    BY <2>1 DEF Told, After, TypeOK, Locals
  <2>4. \A e \in People, r \in Rows : r \in ToldOf(e)' =>
          /\ form[r] = "normal" /\ to[r] = e
          /\ r \in ToldOf(e) \/ (r \in pass[p].group /\ outcome = "DELIVERED")
    BY <1>0, <2>1, <2>2, <2>3 DEF ToldOf
  <2>5. ASSUME NEW e \in People, NEW r \in Rows, r \in ToldOf(e)' PROVE shown'[e] = NoMonth \/ shown'[e] >= at[r]
    <3>1. CASE Reaches(p)
      <4>1. CASE \E g \in pass[p].group : to[g] = e /\ form[g] = "normal"
        <5>1. PICK g \in pass[p].group : to[g] = e /\ form[g] = "normal"
          BY <4>1
        <5>2. shown'[e] = pass[p].sees
          BY <3>1, <4>1 DEF Reaches
        <5>3. r \in pass[p].group \cup ToldOf(to[g]) /\ form[r] = "normal"
          BY <2>4, <2>5, <5>1
        <5> QED
          BY <1>m, <2>1, <5>1, <5>2, <5>3
      <4>2. CASE ~\E g \in pass[p].group : to[g] = e /\ form[g] = "normal"
        <5>1. shown'[e] = shown[e]
          BY <3>1, <4>2 DEF Reaches
        <5>2. r \in ToldOf(e)
          BY <2>4, <2>5, <4>2
        <5> QED
          BY <1>m, <5>1, <5>2
      <4> QED
        BY <4>1, <4>2
    <3>2. CASE ~Reaches(p)
      BY <1>m, <2>1, <2>4, <2>5, <3>2
    <3> QED
      BY <3>1, <3>2
  <2>6. \A q \in Passes : pass'[q].pc # "send"
    BY <2>1, <2>2 DEF After
  <2>7. \A e : (ToldOf(e)') \subseteq Rows
    BY DEF ToldOf
  <2> QED
    BY <1>0, <1>m, <2>1, <2>5, <2>6, <2>7 DEF MonthKnown
<1>7. ASSUME NEW p \in Passes, Report(p) PROVE MonthKnown'
  <2>1. PICK s \in pass[p].acks :
          /\ Set(p, [pass[p] EXCEPT !.acks = @ \ {s}])
          /\ Mark(s, pass[p].verdict) \/ UNCHANGED status
          /\ UNCHANGED <<at, month, shown>>
    BY <1>7 DEF Report
  <2>2. s \in Rows /\ pass[p].verdict \in {"DELIVERED", "FAILED"}
    BY <2>1 DEF TypeOK, Locals
  <2>3. After(p, pass[p].pc, pass[p].todo, pass[p].group, pass[p].acks \ {s}, pass[p].verdict)
    BY <2>1, <2>2, ReportLocals
  <2>4. (Told(p)') \subseteq Told(p)
    BY <2>3 DEF Told, After
  <2>5. \A r \in Rows : status'[r] = "DELIVERED" => status[r] = "DELIVERED" \/ r \in Told(p)
    BY <2>1, <2>2 DEF Mark, Told, TypeOK
  <2>6. pass[p].pc # "send" /\ Open(p)
    BY <2>1 DEF Shape, Open, Idle
  <2> QED
    BY <1>q, <2>1, <2>3, <2>4, <2>5, <2>6 DEF After
<1>8. ASSUME NEW p \in Passes, Sync(p) PROVE MonthKnown'
  <2>1. After(p, pass[p].pc, pass[p].todo, pass[p].group, pass[p].acks, pass[p].verdict)
    BY <1>8, SyncLocals
  <2>2. (Told(p)') = Told(p) /\ UNCHANGED <<status, at, month, shown>> /\ pass[p].pc = "work"
    BY <1>8, <2>1 DEF Told, After, Sync, Between
  <2> QED
    BY <1>q, <2>1, <2>2 DEF After, Open
<1>9. ASSUME NEW p \in Passes, Finish(p) \/ Crash(p) PROVE MonthKnown'
  <2>1. After(p, "idle", {}, {}, {}, "DELIVERED")
    BY <1>9, IdleLocals DEF Finish, Crash
  <2>2. (Told(p)') = {} /\ UNCHANGED <<status, at, month, shown>> /\ Open(p)
    BY <1>9, <2>1 DEF Told, After, Finish, Crash, Between, Open
  <2> QED
    BY <1>q, <2>1, <2>2 DEF After
<1>10. CASE UNCHANGED vars
  <2>1. \A e : (ToldOf(e)') = ToldOf(e)
    BY <1>10 DEF vars, ToldOf, Told
  <2> QED
    BY <1>10, <1>m, <2>1 DEF vars, MonthKnown
<1> QED
  BY <1>1, <1>2, <1>3, <1>4, <1>5, <1>6, <1>7, <1>8, <1>9, <1>10 DEF Next

-----------------------------------------------------------------------------
(* The theorems *)

LEMMA InitIInv == Init => IInv
<1> SUFFICES ASSUME Init PROVE IInv
  OBVIOUS
<1>1. \A p \in Passes : pass[p] = Idle
  BY DEF Init
<1>2. \A p \in Passes : Unsent(p) = {} /\ Telling(p) = {} /\ Told(p) = {}
  BY <1>1 DEF Unsent, Telling, Told, Idle
<1>3. TypeOK
  BY IdleIsLocal, OutboxAssumption DEF Init, TypeOK
<1>4. Shape
  BY <1>1 DEF Shape, Idle
<1>5. Budget
  <2>1. \A r \in Rows : Holders(r) = {}
    BY <1>2 DEF Holders
  <2>2. Cardinality({}) = 0
    BY FS_EmptySet
  <2>3. \A r \in Rows : sent[r] = 0 /\ Allowed(r) \in {0, 1}
    BY DEF Init, Allowed
  <2>4. \A r \in Rows : sent[r] + Cardinality(Holders(r)) = 0
    BY <2>1, <2>2, <2>3
  <2> QED
    BY <2>3, <2>4 DEF Budget
<1>6. OnePass
  BY <1>1 DEF OnePass, Open, Idle
<1>o. Overlap
  <2>1. \A r \in Rows : Holders(r) = {} /\ Tellers(r) = {}
    BY <1>2 DEF Holders, Tellers
  <2>2. Cardinality({}) = 0
    BY FS_EmptySet
  <2>3. Most \in Nat
    BY OutboxAssumption, FS_CardinalityType DEF Most
  <2>4. \A r \in Rows : sent[r] = 0 /\ trouble = 0
    BY DEF Init
  <2> QED
    BY <2>1, <2>2, <2>3, <2>4 DEF Overlap
<1>7. ToldFirst
  BY <1>1, <1>2 DEF ToldFirst, TellFirst, Init, Idle
<1>8. MonthKnown
  BY <1>1, <1>2 DEF MonthKnown, ToldOf, Init, Idle
<1> QED
  BY <1>3, <1>4, <1>5, <1>6, <1>o, <1>7, <1>8 DEF IInv

\* The inductive invariant of the outboxes.
THEOREM OutboxInvariant == Spec => []IInv
<1>1. IInv /\ [Next]_vars => IInv'
  BY TypeStep, ShapeStep, BudgetStep, OnePassStep, OverlapStep, ToldFirstStep, MonthStep DEF IInv
<1> QED
  BY InitIInv, <1>1, PTL DEF Spec

\* Every variable of an outbox keeps its type (the four dispatchers).
THEOREM OutboxTypeCorrect == Spec => []TypeOK
BY OutboxInvariant, PTL DEF IInv

LEMMA BudgetBounds == ASSUME TypeOK, Budget PROVE DoubleSendHasReason
<1> SUFFICES ASSUME NEW r \in Rows PROVE sent[r] <= 1 + excuses[r]
  BY DEF DoubleSendHasReason
<1>1. IsFiniteSet(Holders(r))
  BY OutboxAssumption, FS_Subset DEF Holders
<1>2. Cardinality(Holders(r)) \in Nat
  BY <1>1, FS_CardinalityType
<1>3. sent[r] + Cardinality(Holders(r)) <= Allowed(r)
  BY DEF Budget
<1> QED
  BY <1>2, <1>3 DEF Allowed, TypeOK

\* Nobody is told of a row twice without one of the reasons that the comments
\* of the dispatchers name.
THEOREM TellsTwiceWithReason == Spec => []DoubleSendHasReason
BY OutboxInvariant, BudgetBounds, PTL DEF IInv

\* A row is told once by each pass that may have it before it is settled, and
\* once more for each mishap; under a lease that is one pass (worker.ts 683).
THEOREM OverlapIsBounded == Spec => []OneMessagePerPass
<1>1. TypeOK /\ Overlap => OneMessagePerPass
  <2> SUFFICES ASSUME TypeOK, Overlap, NEW r \in Rows PROVE sent[r] <= Most + trouble
    BY DEF OneMessagePerPass, Most
  <2>1. IsFiniteSet(Holders(r))
    BY OutboxAssumption, FS_Subset DEF Holders
  <2>2. Cardinality(Holders(r)) \in Nat /\ Most \in Nat /\ sent[r] \in Nat /\ trouble \in Nat
    BY <2>1, OutboxAssumption, FS_CardinalityType DEF Most, TypeOK
  <2> QED
    BY <2>2 DEF Overlap
<1> QED
  BY OutboxInvariant, <1>1, PTL DEF IInv

\* A row is reported delivered, and a reverted request synced, after the
\* message.
THEOREM ToldBeforeDelivered == Spec => []TellFirst
BY OutboxInvariant, PTL DEF IInv, ToldFirst

\* Her last message about the month shows every change reported delivered.
THEOREM LastMonthIsCurrent == Spec => []MonthIsCurrent
<1>1. TypeOK /\ MonthKnown => MonthIsCurrent
  <2> SUFFICES ASSUME TypeOK, MonthKnown, NEW r \in Rows, box = "schedule", form[r] = "normal",
                      status[r] = "DELIVERED"
               PROVE shown[to[r]] = NoMonth \/ shown[to[r]] >= at[r]
    BY DEF MonthIsCurrent
  <2>1. to[r] \in People /\ r \in ToldOf(to[r])
    BY DEF ToldOf, TypeOK
  <2> QED
    BY <2>1 DEF MonthKnown
<1> QED
  BY OutboxInvariant, <1>1, PTL DEF IInv

LEMMA LedgerStep == IInv /\ IInv' /\ [Next]_vars => [Ledger!Next]_(Ledger!vars)
<1> SUFFICES ASSUME IInv, [Next]_vars PROVE Ledger!Next \/ UNCHANGED <<Echoes, status, sent, excuses>>
  BY SMTT(60) DEF Ledger!vars
<1> USE DEF IInv
<1>0. (Echoes') = Echoes
  BY DEF Next, vars, row, Offer, OfferAgain, Fetch, RetireInvalid, ReportEchoes, NoRecipient, TakeGroup,
     Send, SendFails, Report, Sync, Finish, Crash, Echoes
<1>t. ASSUME NEW told \in SUBSET Rows, NEW excused \in SUBSET Rows, \A r \in told : sent[r] <= excuses[r],
             sent' = [r \in Rows |-> IF r \in told THEN sent[r] + 1 ELSE sent[r]], Excuse(excused), status' = status
      PROVE Ledger!Next
  BY <1>0, <1>t DEF Ledger!Next, Ledger!Tell, Excuse
<1>e. ASSUME NEW excused \in SUBSET Rows, sent' = sent, Excuse(excused), status' = status PROVE Ledger!Next
  <2>1. sent' = [r \in Rows |-> IF r \in {} THEN sent[r] + 1 ELSE sent[r]]
    BY <1>e DEF TypeOK
  <2>2. {} \in SUBSET Rows /\ \A r \in {} : sent[r] <= excuses[r]
    OBVIOUS
  <2> QED
    BY <1>e, <1>t, <2>1, <2>2
<1>n. Excuse({}) <=> excuses' = excuses
  BY DEF Excuse, TypeOK
<1>1. ASSUME NEW s \in Rows, Offer(s) \/ OfferAgain(s) PROVE Ledger!Next
  <2>1. Ledger!Settle(s, "PENDING")
    BY <1>0, <1>1 DEF Offer, OfferAgain, Ledger!Settle
  <2> QED
    BY <2>1 DEF Ledger!Next
<1>2. ASSUME NEW p \in Passes, Fetch(p) PROVE Ledger!Next
  <2>1. Fetched \cap UNION {Telling(q) : q \in Passes} \in SUBSET Rows
    BY DEF Fetched, Pending
  <2> QED
    BY <1>2, <1>e, <2>1 DEF Fetch
<1>3. ASSUME NEW p \in Passes, RetireInvalid(p) \/ ReportEchoes(p) \/ NoRecipient(p) \/ TakeGroup(p) \/ Sync(p) \/ Finish(p)
      PROVE UNCHANGED <<Echoes, status, sent, excuses>>
  BY <1>0, <1>3 DEF RetireInvalid, ReportEchoes, NoRecipient, TakeGroup, Sync, Finish
<1>4. ASSUME NEW p \in Passes, Send(p) \/ SendFails(p)
      PROVE Ledger!Next \/ UNCHANGED <<Echoes, status, sent, excuses>>
  <2>1. pass[p].group \in SUBSET Rows
    BY DEF TypeOK, Locals
  <2>2. \A r \in pass[p].group : sent[r] <= excuses[r]
    <3> SUFFICES ASSUME NEW r \in pass[p].group PROVE sent[r] <= excuses[r]
      OBVIOUS
    <3>1. r \in Rows /\ r \in Unsent(p)
      BY <2>1 DEF Unsent
    <3>2. sent[r] + Cardinality(Holders(r)) <= Allowed(r)
      BY <3>1 DEF Budget
    <3>3. Cardinality(Holders(r)) = Rest(p, r) + 1 /\ Rest(p, r) \in Nat
      BY <3>1, BudgetSeen DEF Bit
    <3> QED
      BY <3>1, <3>2, <3>3 DEF Allowed, TypeOK
  <2>3. CASE Reaches(p) /\ (excuses' = excuses \/ Excuse(pass[p].group)) /\ status' = status
    BY <1>n, <1>t, <2>1, <2>2, <2>3 DEF Reaches
  <2>4. CASE UNCHANGED <<status, sent, excuses>>
    BY <1>0, <2>4
  <2> QED
    BY <1>4, <2>3, <2>4 DEF Send, SendFails
<1>5. ASSUME NEW p \in Passes, Report(p) PROVE Ledger!Next \/ UNCHANGED <<Echoes, status, sent, excuses>>
  <2>1. PICK s \in pass[p].acks :
          /\ \/ Mark(s, pass[p].verdict) /\ UNCHANGED excuses
             \/ Excuse(IF pass[p].verdict = "DELIVERED" THEN {s} ELSE {}) /\ UNCHANGED status
          /\ UNCHANGED sent
    BY <1>5 DEF Report
  <2>2. s \in Rows /\ pass[p].verdict \in {"DELIVERED", "FAILED"}
    BY <2>1 DEF TypeOK, Locals
  <2>3. CASE Mark(s, pass[p].verdict) /\ UNCHANGED excuses
    <3>1. CASE status[s] = "DELIVERED"
      BY <1>0, <2>1, <2>2, <2>3, <3>1 DEF Mark, TypeOK
    <3>2. CASE status[s] # "DELIVERED"
      <4>1. pass[p].verdict = "DELIVERED" => sent[s] > 0 \/ s \in Echoes
        BY <2>1 DEF ToldFirst, Told
      <4>2. Ledger!Settle(s, pass[p].verdict)
        BY <1>0, <2>1, <2>2, <2>3, <3>2, <4>1 DEF Mark, Ledger!Settle
      <4> QED
        BY <2>2, <4>2 DEF Ledger!Next
    <3> QED
      BY <3>1, <3>2
  <2>4. CASE Excuse(IF pass[p].verdict = "DELIVERED" THEN {s} ELSE {}) /\ UNCHANGED status
    BY <1>e, <2>1, <2>2, <2>4
  <2> QED
    BY <2>1, <2>3, <2>4
<1>6. ASSUME NEW p \in Passes, Crash(p) PROVE Ledger!Next
  <2>1. (IF pass[p].verdict = "DELIVERED" THEN pass[p].acks ELSE {}) \in SUBSET Rows
    BY DEF TypeOK, Locals
  <2> QED
    BY <1>6, <1>e, <2>1 DEF Crash
<1>7. CASE UNCHANGED vars
  BY <1>0, <1>7 DEF vars
<1> QED
  BY <1>1, <1>2, <1>3, <1>4, <1>5, <1>6, <1>7 DEF Next

\* The outboxes implement the ledger: passes, leases, lost calls and crashes
\* give no reader more than DeliveryLedger allows.
THEOREM OutboxKeepsLedger == Spec => KeepsLedger
<1>1. Init => Ledger!Init
  BY DEF Init, Ledger!Init, Echoes
<1> QED
  BY <1>1, OutboxInvariant, LedgerStep, PTL DEF Spec, KeepsLedger, Ledger!Spec

---------------------------------------------------------------------------
\* The lease under which the passes of a leased box are, as RedisLease runs it.
Lease == INSTANCE RedisLease

\* The time a pass may still count on after n lost renewals is more than the
\* time it waits for the next one: what the choice of TTL buys.
LEMMA RoomForLoss ==
    ASSUME NEW n \in 0..MaxLost
    PROVE  /\ (n + 1) * Period \in Nat
           /\ (n + 1) * Period <= (MaxLost + 1) * Period
           /\ TTL - ReplyWithin - (n + 1) * Period > 0
<1>1. n + 1 <= MaxLost + 1
  BY LeaseAssumption
<1>2. (MaxLost + 1) * Period = (n + 1) * Period + (MaxLost - n) * Period
  BY LeaseAssumption
<1>3. (MaxLost - n) * Period \in Nat /\ (n + 1) * Period \in Nat
  BY LeaseAssumption
<1> QED
  BY <1>2, <1>3, LeaseAssumption

\* Every variable keeps its type through every step.
THEOREM LeaseTypeCorrect == Lease!Spec => []Lease!TypeOK
<1> USE LeaseAssumption DEF Lease!TypeOK, Lease!Timed
<1>1. Lease!Init => Lease!TypeOK
  BY DEF Lease!Init
<1>2. Lease!TypeOK /\ [Lease!Next]_(Lease!vars) => Lease!TypeOK'
  <2> SUFFICES ASSUME Lease!TypeOK, [Lease!Next]_(Lease!vars) PROVE Lease!TypeOK'
    OBVIOUS
  <2>1. CASE Lease!Tick
    BY <2>1 DEF Lease!Tick
  <2>2. ASSUME NEW i \in Instances, Lease!Ask(i) PROVE Lease!TypeOK'
    BY <2>2 DEF Lease!Ask, Lease!Goto, Lease!Take
  <2>3. ASSUME NEW i \in Instances, Lease!Begin(i) PROVE Lease!TypeOK'
    BY <2>3 DEF Lease!Begin, Lease!Goto
  <2>4. ASSUME NEW i \in Instances, Lease!AnswerLost(i) PROVE Lease!TypeOK'
    BY <2>4 DEF Lease!AnswerLost, Lease!Goto
  <2>5. ASSUME NEW i \in Instances, Lease!Renew(i) PROVE Lease!TypeOK'
    BY <2>5 DEF Lease!Renew
  <2>6. ASSUME NEW i \in Instances, Lease!LoseRenewal(i) PROVE Lease!TypeOK'
    BY <2>6 DEF Lease!LoseRenewal
  <2>7. ASSUME NEW i \in Instances, Lease!Finish(i) PROVE Lease!TypeOK'
    BY <2>7 DEF Lease!Finish, Lease!Goto
  <2>8. ASSUME NEW i \in Instances, Lease!Release(i) PROVE Lease!TypeOK'
    BY <2>8 DEF Lease!Release, Lease!Goto
  <2>9. ASSUME NEW i \in Instances, Lease!LoseRelease(i) PROVE Lease!TypeOK'
    BY <2>9 DEF Lease!LoseRelease, Lease!Goto, Lease!Abandon
  <2>10. ASSUME NEW i \in Instances, Lease!Crash(i) PROVE Lease!TypeOK'
    BY <2>10 DEF Lease!Crash, Lease!Goto, Lease!Abandon
  <2>11. CASE UNCHANGED Lease!vars
    BY <2>11 DEF Lease!vars
  <2> QED
    BY <2>1, <2>2, <2>3, <2>4, <2>5, <2>6, <2>7, <2>8, <2>9, <2>10, <2>11 DEF Lease!Next
<1> QED
  BY <1>1, <1>2, PTL DEF Lease!Spec

\* LeaseLasts for one instance, so that a step of another is a short case.
Lasts(i) ==
    /\ pc[i] = "granted" =>
        /\ owner = i
        /\ wait[i] <= ReplyWithin
        /\ ttl >= TTL - ReplyWithin + wait[i]
    /\ pc[i] = "working" =>
        /\ owner = i
        /\ wait[i] <= Period
        /\ ttl >= TTL - ReplyWithin - (lost[i] + 1) * Period + wait[i]
    /\ pc[i] = "idle" => owner # i

\* While somebody waits for the answer or works, time cannot use up the lease.
LEMMA LeaseIsAlive ==
    ASSUME Lease!TypeOK, NEW i \in Instances, Lasts(i), pc[i] \in Lease!Timed
    PROVE  owner = i /\ ttl > wait[i]
<1>1. CASE pc[i] = "granted"
  <2>1. TTL > ReplyWithin
    BY RoomForLoss, LeaseAssumption
  <2> QED
    BY <1>1, <2>1, LeaseAssumption DEF Lasts, Lease!TypeOK
<1>2. CASE pc[i] = "working"
  <2>1. lost[i] \in 0..MaxLost
    BY DEF Lease!TypeOK
  <2>2. TTL - ReplyWithin - (lost[i] + 1) * Period > 0 /\ (lost[i] + 1) * Period \in Nat
    BY <2>1, RoomForLoss
  <2> QED
    BY <1>2, <2>2, LeaseAssumption DEF Lasts, Lease!TypeOK
<1> QED
  BY <1>1, <1>2 DEF Lease!Timed

\* A step of another instance leaves the lease of this one as it was.
LEMMA OthersKeepIt ==
    ASSUME Lease!TypeOK, NEW i \in Instances, NEW j \in Instances, i # j, Lasts(j),
           pc'[j] = pc[j], wait'[j] = wait[j], lost'[j] = lost[j],
           owner = j => UNCHANGED <<owner, ttl>>,
           owner' \in {owner, i, Free, Orphan}
    PROVE  Lasts(j)'
<1>1. CASE pc[j] = "granted"
  BY <1>1 DEF Lasts
<1>2. CASE pc[j] = "working"
  BY <1>2 DEF Lasts
<1>3. CASE pc[j] = "idle"
  BY <1>3, LeaseAssumption DEF Lasts
<1>4. CASE pc[j] = "ending"
  BY <1>4 DEF Lasts
<1> QED
  BY <1>1, <1>2, <1>3, <1>4 DEF Lease!TypeOK, Lease!Timed

\* The lease of a pass outlives every loss it may meet: the inductive
\* invariant behind the two theorems below.
THEOREM LeaseInvariant == Lease!Spec => []LeaseLasts
<1> DEFINE Inv == \A i \in Instances : Lasts(i)
<1> USE LeaseAssumption DEF Lease!TypeOK, Lease!Timed
<1>1. Lease!Init => Inv
  BY DEF Lease!Init, Lasts
<1>2. Lease!TypeOK /\ Inv /\ [Lease!Next]_(Lease!vars) => Inv'
  <2> SUFFICES ASSUME Lease!TypeOK, Inv, [Lease!Next]_(Lease!vars), NEW j \in Instances PROVE Lasts(j)'
    OBVIOUS
  <2>0. Lasts(j)
    OBVIOUS
  <2>1. CASE Lease!Tick
    <3>1. CASE pc[j] \in Lease!Timed
      <4>1. owner = j /\ ttl > wait[j] /\ wait[j] > 0
        BY <2>0, <2>1, <3>1, LeaseIsAlive DEF Lease!Tick
      <4>2. owner' = j /\ ttl' = ttl - 1 /\ wait'[j] = wait[j] - 1
        BY <2>1, <3>1, <4>1 DEF Lease!Tick
      <4>3. lost[j] \in 0..MaxLost /\ (lost[j] + 1) * Period \in Nat
        BY RoomForLoss
      <4>4. UNCHANGED <<pc, lost>>
        BY <2>1 DEF Lease!Tick
      <4> QED
        BY <2>0, <3>1, <4>1, <4>2, <4>3, <4>4 DEF Lasts
    <3>2. CASE pc[j] \notin Lease!Timed
      BY <2>0, <2>1, <3>2 DEF Lease!Tick, Lasts
    <3> QED
      BY <3>1, <3>2
  <2>2. ASSUME NEW i \in Instances, Lease!Ask(i) PROVE Lasts(j)'
    <3>1. CASE i = j
      BY <2>2, <3>1 DEF Lease!Ask, Lease!Goto, Lease!Take, Lasts
    <3>2. CASE i # j
      BY <2>0, <2>2, <3>2, OthersKeepIt DEF Lease!Ask, Lease!Goto, Lease!Take
    <3> QED
      BY <3>1, <3>2
  <2>3. ASSUME NEW i \in Instances, Lease!Begin(i) PROVE Lasts(j)'
    <3>1. CASE i = j
      <4>1. pc'[j] = "working" /\ wait'[j] = Period /\ lost'[j] = 0
        BY <2>3, <3>1 DEF Lease!Begin, Lease!Goto
      <4>2. owner' = j /\ ttl' >= TTL - ReplyWithin
        BY <2>0, <2>3, <3>1 DEF Lease!Begin, Lasts
      <4>3. (0 + 1) * Period = Period
        OBVIOUS
      <4> QED
        BY <4>1, <4>2, <4>3 DEF Lasts
    <3>2. CASE i # j
      BY <2>0, <2>3, <3>2, OthersKeepIt DEF Lease!Begin, Lease!Goto
    <3> QED
      BY <3>1, <3>2
  <2>4. ASSUME NEW i \in Instances, Lease!AnswerLost(i) PROVE Lasts(j)'
    <3>1. CASE i = j
      BY <2>4, <3>1 DEF Lease!AnswerLost, Lease!Goto, Lasts
    <3>2. CASE i # j
      BY <2>0, <2>4, <3>2, OthersKeepIt DEF Lease!AnswerLost, Lease!Goto
    <3> QED
      BY <3>1, <3>2
  <2>5. ASSUME NEW i \in Instances, Lease!Renew(i) PROVE Lasts(j)'
    <3>1. CASE i = j
      <4>1. pc'[j] = "working" /\ wait'[j] = Period /\ lost'[j] = 0
        BY <2>5, <3>1 DEF Lease!Renew
      <4>2. owner' = j /\ ttl' = TTL
        BY <2>0, <2>5, <3>1 DEF Lease!Renew, Lasts
      <4>3. (0 + 1) * Period = Period
        OBVIOUS
      <4> QED
        BY <4>1, <4>2, <4>3 DEF Lasts
    <3>2. CASE i # j
      BY <2>0, <2>5, <3>2, OthersKeepIt DEF Lease!Renew
    <3> QED
      BY <3>1, <3>2
  <2>6. ASSUME NEW i \in Instances, Lease!LoseRenewal(i) PROVE Lasts(j)'
    <3>1. CASE i = j
      <4>1. pc[j] = "working" /\ pc'[j] = "working" /\ wait'[j] = Period /\ lost'[j] = lost[j] + 1
        BY <2>6, <3>1 DEF Lease!LoseRenewal
      <4>2. owner' = j /\ ttl' >= TTL - ReplyWithin - (lost[j] + 1) * Period + wait[j]
        BY <2>0, <2>6, <3>1, <4>1 DEF Lease!LoseRenewal, Lasts
      <4>3. (lost[j] + 1 + 1) * Period = (lost[j] + 1) * Period + Period
        OBVIOUS
      <4>4. lost[j] \in 0..MaxLost /\ (lost[j] + 1) * Period \in Nat
        BY RoomForLoss
      <4>5. (lost'[j] + 1) * Period = (lost[j] + 1) * Period + Period
        BY <4>1, <4>3
      <4>6. ttl' >= TTL - ReplyWithin - (lost'[j] + 1) * Period + wait'[j]
        <5> DEFINE room == (lost[j] + 1) * Period
        <5>1. room \in Nat /\ ttl' >= TTL - ReplyWithin - room + wait[j]
          BY <4>2, <4>4
        <5>2. (lost'[j] + 1) * Period = room + Period /\ wait'[j] = Period /\ wait[j] \in Nat
          BY <4>1, <4>5
        <5>3. ttl' \in Int
          BY <2>6 DEF Lease!LoseRenewal
        <5> HIDE DEF room
        <5> QED
          BY <5>1, <5>2, <5>3
      <4> QED
        BY <4>1, <4>2, <4>6 DEF Lasts
    <3>2. CASE i # j
      BY <2>0, <2>6, <3>2, OthersKeepIt DEF Lease!LoseRenewal
    <3> QED
      BY <3>1, <3>2
  <2>7. ASSUME NEW i \in Instances, Lease!Finish(i) PROVE Lasts(j)'
    <3>1. CASE i = j
      BY <2>7, <3>1 DEF Lease!Finish, Lease!Goto, Lasts
    <3>2. CASE i # j
      BY <2>0, <2>7, <3>2, OthersKeepIt DEF Lease!Finish, Lease!Goto
    <3> QED
      BY <3>1, <3>2
  <2>8. ASSUME NEW i \in Instances, Lease!Release(i) PROVE Lasts(j)'
    <3>1. CASE i = j
      BY <2>8, <3>1 DEF Lease!Release, Lease!Goto, Lasts
    <3>2. CASE i # j
      BY <2>0, <2>8, <3>2, OthersKeepIt DEF Lease!Release, Lease!Goto
    <3> QED
      BY <3>1, <3>2
  <2>9. ASSUME NEW i \in Instances, Lease!LoseRelease(i) PROVE Lasts(j)'
    <3>1. CASE i = j
      BY <2>9, <3>1 DEF Lease!LoseRelease, Lease!Goto, Lease!Abandon, Lasts
    <3>2. CASE i # j
      BY <2>0, <2>9, <3>2, OthersKeepIt DEF Lease!LoseRelease, Lease!Goto, Lease!Abandon
    <3> QED
      BY <3>1, <3>2
  <2>10. ASSUME NEW i \in Instances, Lease!Crash(i) PROVE Lasts(j)'
    <3>1. CASE i = j
      BY <2>10, <3>1 DEF Lease!Crash, Lease!Goto, Lease!Abandon, Lasts
    <3>2. CASE i # j
      BY <2>0, <2>10, <3>2, OthersKeepIt DEF Lease!Crash, Lease!Goto, Lease!Abandon
    <3> QED
      BY <3>1, <3>2
  <2>11. CASE UNCHANGED Lease!vars
    BY <2>0, <2>11 DEF Lease!vars, Lasts
  <2> QED
    BY <2>1, <2>2, <2>3, <2>4, <2>5, <2>6, <2>7, <2>8, <2>9, <2>10, <2>11 DEF Lease!Next
<1>3. Inv => LeaseLasts
  BY DEF LeaseLasts, Lasts
<1>4. Lease!Init /\ [][Lease!Next]_(Lease!vars) => []Lease!TypeOK
  BY LeaseTypeCorrect DEF Lease!Spec
<1> HIDE DEF Inv
<1> QED
  BY <1>1, <1>2, <1>3, <1>4, PTL DEF Lease!Spec

\* No instance ever works without its own token under the key.
THEOREM WorkIsUnderLease == Lease!Spec => []WorksUnderLease
<1>1. LeaseLasts => WorksUnderLease
  BY DEF LeaseLasts, WorksUnderLease
<1> QED
  BY <1>1, LeaseInvariant, PTL

\* The lease implements the lock: a pass begins only when no other runs, in
\* whichever container, and every other step is the end of a pass or a stutter.
THEOREM LeaseImplementsLock == Lease!Spec => ImplementsLock
<1> DEFINE Busy == {i \in Instances : pc[i] = "working"}
<1> USE DEF Busy
<1>1. Lease!Init => Lock!Init
  BY DEF Lease!Init, Lock!Init
<1>2. Lease!TypeOK /\ LeaseLasts /\ [Lease!Next]_(Lease!vars) => [Lock!Next]_Busy
  <2> SUFFICES ASSUME Lease!TypeOK, LeaseLasts, [Lease!Next]_(Lease!vars) PROVE [Lock!Next]_Busy
    OBVIOUS
  <2> USE DEF Lease!TypeOK
  <2>0. ASSUME NEW i \in Instances, pc[i] \in Lease!Timed PROVE Busy \subseteq {i}
    BY <2>0 DEF LeaseLasts, Lease!Timed
  <2>1. CASE Lease!Tick
    BY <2>1 DEF Lease!Tick
  <2>2. ASSUME NEW i \in Instances, Lease!Begin(i) PROVE Lock!Next
    <3>1. Busy = {}
      BY <2>0, <2>2 DEF Lease!Begin, Lease!Timed
    <3>2. Busy' = {i}
      BY <2>2, <3>1 DEF Lease!Begin, Lease!Goto
    <3> QED
      BY <3>1, <3>2 DEF Lock!Next, Lock!Enter
  <2>3. ASSUME NEW i \in Instances, pc'= [pc EXCEPT ![i] = pc'[i]], pc'[i] # "working"
        PROVE  [Lock!Next]_Busy
    <3>1. CASE pc[i] = "working"
      <4>1. Busy = {i}
        BY <2>0, <3>1 DEF Lease!Timed
      <4>2. Busy' = {}
        BY <2>3, <4>1
      <4> QED
        BY <4>1, <4>2 DEF Lock!Next, Lock!Leave
    <3>2. CASE pc[i] # "working"
      BY <2>3, <3>2
    <3> QED
      BY <3>1, <3>2
  <2>4. ASSUME NEW i \in Instances, Lease!Renew(i) \/ Lease!LoseRenewal(i) PROVE UNCHANGED Busy
    BY <2>4 DEF Lease!Renew, Lease!LoseRenewal
  <2>5. ASSUME NEW i \in Instances,
               Lease!Ask(i) \/ Lease!AnswerLost(i) \/ Lease!Finish(i) \/ Lease!Release(i) \/ Lease!LoseRelease(i) \/ Lease!Crash(i)
        PROVE  [Lock!Next]_Busy
    <3>1. pc' = [pc EXCEPT ![i] = pc'[i]] /\ pc'[i] # "working"
      BY <2>5 DEF Lease!Ask, Lease!AnswerLost, Lease!Finish, Lease!Release, Lease!LoseRelease, Lease!Crash, Lease!Goto
    <3> QED
      BY <2>3, <3>1
  <2>6. CASE UNCHANGED Lease!vars
    BY <2>6 DEF Lease!vars
  <2> QED
    BY <2>1, <2>2, <2>4, <2>5, <2>6 DEF Lease!Next
<1> QED
  BY <1>1, <1>2, LeaseTypeCorrect, LeaseInvariant, PTL DEF Lease!Spec, ImplementsLock, Lock!Spec
==================================================================================
