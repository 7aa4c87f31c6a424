----------------------- MODULE ReplacementSearchProofs -----------------------
(* What holds of the local replacement search for every set of requests,   *)
(* photographers and locations, every clock and every combination of       *)
(* faults.                                                                 *)
EXTENDS ReplacementSearch, TLAPS

---------------------------------------------------------------------------
(* How the ways a call goes on change the calls.                           *)

\* The null call has the type of a call.
LEMMA IdleIsCall == Idle \in Call /\ Idle.pc = "idle"
  BY RequestsAssumption DEF Idle, Call, PC, Time, RequestStatus

\* One actor's call is replaced by one of the right type.
LEMMA CallUpdate ==
  ASSUME CallOK, NEW a \in Actors, NEW c \in Call,
         c.pc # "idle" => c.req \in Requests,
         c.pc \in {"sending", "sent"} => c.to \in Staff,
         call' = [call EXCEPT ![a] = c]
  PROVE  CallOK'
  BY DEF CallOK, At

\* A call goes on at another place.
LEMMA GotoOK ==
  ASSUME CallOK, NEW a \in Actors, ~ At(a, "idle"), NEW pc \in PC, Goto(a, pc),
         pc \notin {"sending", "sent"} \/ At(a, "sending")
  PROVE  CallOK'
<1> DEFINE c == [call[a] EXCEPT !.pc = pc]
<1>1. call[a] \in Call /\ call[a].req \in Requests
  BY DEF CallOK
<1>2. c \in Call
  BY <1>1 DEF Call
<1>3. c.req \in Requests /\ c.pc = pc /\ c.to = call[a].to
  BY <1>1 DEF Call
<1>4. call' = [call EXCEPT ![a] = c]
  BY DEF Goto, CallOK
<1>5. pc \in {"sending", "sent"} => call[a].to \in Staff
  BY DEF CallOK
<1> QED BY <1>2, <1>3, <1>4, <1>5, CallUpdate

\* A call begins.
LEMMA BeginOK ==
  ASSUME CallOK, NEW a \in Actors, NEW r \in Requests, NEW pc \in PC, Begin(a, r, pc),
         pc \notin {"sending", "sent"}
  PROVE  CallOK'
<1> DEFINE c == [Idle EXCEPT !.pc = pc, !.req = r]
<1>1. c \in Call /\ c.req \in Requests /\ c.pc = pc
  BY IdleIsCall DEF Call, Idle
<1>2. call' = [call EXCEPT ![a] = c]
  BY DEF Begin
<1> QED BY <1>1, <1>2, CallUpdate

\* A call returns.
LEMMA FinishOK ==
  ASSUME CallOK, NEW a \in Actors, ~ At(a, "idle"), Finish(a)
  PROVE  CallOK'
<1> DEFINE c == [call[a] EXCEPT !.pc = "enqueue"]
<1>1. call[a] \in Call /\ call[a].req \in Requests
  BY DEF CallOK
<1>2. c \in Call /\ c.req \in Requests /\ c.pc = "enqueue"
  BY <1>1 DEF Call, PC
<1>3. call' = [call EXCEPT ![a] = Idle] \/ call' = [call EXCEPT ![a] = c]
  BY DEF Finish, CallOK
<1> QED BY <1>2, <1>3, CallUpdate, IdleIsCall

\* A call throws.
LEMMA AbortOK ==
  ASSUME TypeOK, NEW a \in Actors, ~ At(a, "idle"), Abort(a)
  PROVE  CallOK' /\ jobs' \subseteq Job
<1>1. call[a] \in Call /\ call[a].req \in Requests
  BY DEF TypeOK, CallOK
<1>2. CallOK'
  BY IdleIsCall, CallUpdate DEF TypeOK, Abort
<1>3. [req |-> call[a].req, at |-> now + RetryDelay, tries |-> call[a].tries + 1] \in Job
  BY <1>1, TimeAssumption DEF TypeOK, Call, Job
<1> QED BY <1>2, <1>3 DEF TypeOK, Abort

\* One row is replaced by one of the right shape.
LEMMA RowUpdate ==
  ASSUME request \in [Requests -> RequestRow], NEW r \in Requests, NEW row \in RequestRow,
         request' = [request EXCEPT ![r] = row]
  PROVE  request' \in [Requests -> RequestRow]
  OBVIOUS

\* A row that names its replacement is a row.
LEMMA FoundRow ==
  ASSUME NEW row \in RequestRow, NEW v \in RequestStatus, NEW s \in Staff, NEW t \in Time
  PROVE  [row EXCEPT !.status = v, !.replacement = s, !.nextWaveAt = t] \in RequestRow
  BY DEF RequestRow

\* A row whose status changes; the calls of a chosen wave, one after another.
LEMMA StatusRow ==
  ASSUME NEW row \in RequestRow, NEW v \in RequestStatus
  PROVE  [row EXCEPT !.status = v] \in RequestRow
  BY DEF RequestRow

LEMMA ClosedRow ==
  ASSUME NEW row \in RequestRow, NEW v \in RequestStatus
  PROVE  LET closed == [row EXCEPT !.status = v, !.nextWaveAt = None]
         IN closed \in RequestRow /\ closed.status = v /\ closed.replacement = row.replacement
  BY DEF RequestRow, Time

LEMMA WaveCall ==
  ASSUME NEW c \in Call, NEW w \in Waves, NEW n \in Nat, NEW T \in SUBSET Staff, NEW d \in Nat
  PROVE  [c EXCEPT !.pc = "advance", !.wave = w, !.next = n, !.todo = T, !.delay = d] \in Call
  BY DEF Call, PC, Time

LEMMA AdvancedCall ==
  ASSUME NEW c \in Call, NEW pc \in PC
  PROVE  [c EXCEPT !.pc = pc, !.delays = @ \cup {c.delay}] \in Call
  BY DEF Call

LEMMA NextOfferCall ==
  ASSUME NEW c \in Call, NEW pc \in PC
  PROVE  [c EXCEPT !.to = None, !.pc = pc] \in Call
  BY DEF Call

\* One answer changes its status.
LEMMA ResponseUpdate ==
  ASSUME response \in [Requests -> [Staff -> ResponseRow]], NEW r \in Requests,
         NEW s \in Staff, NEW v \in ResponseStatus,
         response' = [response EXCEPT ![r][s].status = v]
  PROVE  response' \in [Requests -> [Staff -> ResponseRow]]
<1> DEFINE row == [response[r][s] EXCEPT !.status = v]
<1>1. row \in ResponseRow
  BY DEF ResponseRow
<1>2. response' = [response EXCEPT ![r] = [response[r] EXCEPT ![s] = row]]
  OBVIOUS
<1> QED BY <1>1, <1>2

---------------------------------------------------------------------------
(* Type correctness, one lemma for each group of actions.                  *)

LEMMA NoRowIsRow == NoRow \in RequestRow
  BY RequestsAssumption DEF NoRow, RequestRow, RequestStatus, Time

LEMMA InitType == Init => TypeOK
<1> SUFFICES ASSUME Init PROVE TypeOK
  OBVIOUS
<1>1. CallOK
  BY IdleIsCall DEF Init, CallOK, At
<1>2. request \in [Requests -> RequestRow]
  BY NoRowIsRow DEF Init
<1>3. response \in [Requests -> [Staff -> ResponseRow]]
  BY DEF Init, ResponseRow, ResponseStatus
<1> QED BY <1>1, <1>2, <1>3, ScheduleAssumption DEF Init, TypeOK, RequestStatus

\* The actions that begin a call.
LEMMA AnswerBeginsType ==
  ASSUME TypeOK, NEW r \in Requests, NEW s \in Staff, Accept(s, r) \/ Decline(s, r)
  PROVE  TypeOK'
<1>1. s \in Actors
  BY DEF Actors
<1>2. CallOK'
  BY <1>1, BeginOK DEF TypeOK, Accept, Decline, PC
<1> QED BY <1>2 DEF TypeOK, Accept, Decline

LEMMA ServiceType ==
  ASSUME TypeOK, NEW r \in Requests,
         \/ StartRequest(r) \/ StartAdminRequest(r) \/ CancelRequest(r)
         \/ CancelConfirmedRequestByAdmin(r)
         \/ ReconcileFound(r) \/ ReconcileActive(r)
  PROVE  TypeOK'
<1> USE DEF TypeOK
<1>0. Staff \subseteq Actors /\ Admin \in Actors /\ ScheduleSync \in Actors
  BY DEF Actors
<1>1. CASE StartRequest(r)
  <2>1. Requester[r] \in Actors /\ Begin(Requester[r], r, "create")
    BY <1>0, <1>1, RequestsAssumption DEF StartRequest
  <2>2. CallOK'
    BY <2>1, BeginOK DEF PC
  <2> QED BY <1>1, <2>2 DEF StartRequest
<1>2. CASE StartAdminRequest(r)
  <2>1. CallOK'
    BY <1>0, <1>2, BeginOK DEF StartAdminRequest, PC
  <2> QED BY <1>2, <2>1 DEF StartAdminRequest
<1>3. CASE CancelRequest(r)
  <2>1. Requester[r] \in Actors /\ Begin(Requester[r], r, "open")
    BY <1>0, <1>3, RequestsAssumption DEF CancelRequest
  <2>2. CallOK'
    BY <2>1, BeginOK DEF PC
  <2>3. [request[r] EXCEPT !.status = "CANCELLED"] \in RequestRow
    BY StatusRow DEF RequestStatus
  <2>4. request' = [request EXCEPT ![r] = [request[r] EXCEPT !.status = "CANCELLED"]]
    BY <1>3 DEF CancelRequest
  <2>5. request' \in [Requests -> RequestRow]
    BY <2>3, <2>4
  <2> QED BY <1>3, <2>2, <2>5 DEF CancelRequest
<1>4. CASE CancelConfirmedRequestByAdmin(r)
  <2>1. CallOK'
    BY <1>0, <1>4, BeginOK DEF CancelConfirmedRequestByAdmin, PC
  <2> QED BY <1>4, <2>1 DEF CancelConfirmedRequestByAdmin
<1>5. ASSUME NEW v \in RequestStatus,
             call' = [call EXCEPT ![ScheduleSync] =
                         [Idle EXCEPT !.pc = "close", !.req = r, !.verdict = v]]
      PROVE  CallOK'
  <2> DEFINE c == [Idle EXCEPT !.pc = "close", !.req = r, !.verdict = v]
  <2>1. c \in Call /\ c.req \in Requests /\ c.pc = "close"
    BY IdleIsCall DEF Call, PC, Idle
  <2> QED BY <1>0, <1>5, <2>1, CallUpdate
<1>6. CASE ReconcileFound(r)
  <2>1. CallOK'
    BY <1>5, <1>6 DEF ReconcileFound, RequestStatus
  <2> QED BY <1>6, <2>1 DEF ReconcileFound
<1>7. CASE ReconcileActive(r)
  <2>1. CallOK'
    BY <1>0, <1>7, BeginOK DEF ReconcileActive, PC
  <2> QED BY <1>7, <2>1 DEF ReconcileActive
<1> QED BY <1>1, <1>2, <1>3, <1>4, <1>6, <1>7

\* The schedule's call goes on to where it read the shift, or returns.
LEMMA FoundShift ==
  ASSUME CallOK, NEW a \in Actors, FindShift(a)
  PROVE  \E c \in Call :
            /\ call' = [call EXCEPT ![a] = c]
            /\ \/ c = Idle
               \/ /\ c.req = call[a].req
                  /\ c.pc \in {"link", "unlink"} \/ (c.pc = "close" /\ c.verdict = "ACTIVE")
<1> DEFINE closing == [call[a] EXCEPT !.pc = "close", !.verdict = "ACTIVE"]
           linking(pc) == [call[a] EXCEPT !.pc = pc]
<1>1. call[a] \in Call
  BY DEF CallOK
<1>2. closing \in Call /\ closing.req = call[a].req /\ closing.pc = "close" /\ closing.verdict = "ACTIVE"
  <2>1. "close" \in PC /\ "ACTIVE" \in RequestStatus
    BY DEF PC, RequestStatus
  <2> QED BY <1>1, <2>1 DEF Call
<1>3. \A pc \in {"link", "unlink"} :
        linking(pc) \in Call /\ linking(pc).req = call[a].req /\ linking(pc).pc = pc
  BY <1>1 DEF Call, PC
<1>4. \/ call' = [call EXCEPT ![a] = closing]
      \/ call' = [call EXCEPT ![a] = linking("link")]
      \/ call' = [call EXCEPT ![a] = linking("unlink")]
      \/ call' = [call EXCEPT ![a] = Idle]
  BY DEF FindShift, CallOK
<1> HIDE DEF closing, linking
<1> QED BY <1>2, <1>3, <1>4, IdleIsCall

LEMMA ReconcileType ==
  ASSUME TypeOK, NEW a \in Actors, Reconcile(a)
  PROVE  TypeOK'
<1> USE DEF TypeOK
<1>1. CASE FindShift(a)
  <2>1. ~ At(a, "idle") /\ call[a].req \in Requests
    BY <1>1 DEF FindShift, At, CallOK
  <2>2. CallOK'
    BY <1>1, <2>1, FoundShift, IdleIsCall, CallUpdate
  <2> QED BY <1>1, <2>2 DEF FindShift
<1>2. CASE Reattach(a)
  <2> DEFINE r == call[a].req
             row == [request[r] EXCEPT !.canonical = At(a, "link")]
  <2>1. r \in Requests /\ request[r] \in RequestRow
    BY <1>2 DEF Reattach, At, CallOK
  <2>2. row \in RequestRow
    BY <2>1 DEF RequestRow, At
  <2>3. request' \in [Requests -> RequestRow]
    BY <1>2, <2>1, <2>2, RowUpdate DEF Reattach
  <2>4. CallOK'
    BY <1>2, IdleIsCall, CallUpdate DEF Reattach
  <2> QED BY <1>2, <2>3, <2>4 DEF Reattach
<1> QED BY <1>1, <1>2 DEF Reconcile

\* The actions of a dispatch, by any actor.
LEMMA DispatchType ==
  ASSUME TypeOK, NEW a \in Actors, Dispatch(a)
  PROVE  TypeOK'
<1> USE DEF TypeOK
<1>0. call[a] \in Call /\ (~ At(a, "idle") => call[a].req \in Requests)
  BY DEF CallOK
<1>1. CASE LoadRequest(a)
  <2> DEFINE r == call[a].req
             c == [call[a] EXCEPT !.pc = "select", !.wave = request[r].wave,
                                  !.next = request[r].nextWaveAt]
  <2>1. ~ At(a, "idle") /\ r \in Requests
    BY <1>0, <1>1 DEF LoadRequest, At
  <2>2. c \in Call /\ c.req \in Requests /\ c.pc = "select"
    <3>1. request[r] \in RequestRow
      BY <2>1
    <3> QED BY <1>0, <2>1, <3>1 DEF Call, RequestRow, PC
  <2>3. call' = [call EXCEPT ![a] = c] \/ Finish(a)
    BY <1>1 DEF LoadRequest, CallOK
  <2>4. CallOK'
    BY <2>1, <2>2, <2>3, CallUpdate, FinishOK
  <2> QED BY <1>1, <2>4 DEF LoadRequest
<1>2. ASSUME NEW pc \in {"close", "fail"}, NEW v \in RequestStatus, Decide(a, pc, v),
             At(a, "select")
      PROVE  TypeOK'
  <2> DEFINE c == [call[a] EXCEPT !.pc = pc, !.verdict = v]
  <2>1. c \in Call /\ c.req \in Requests /\ c.pc = pc
    BY <1>0, <1>2 DEF Call, At, PC
  <2>2. call' = [call EXCEPT ![a] = c]
    BY <1>2 DEF Decide, CallOK
  <2>3. CallOK'
    BY <2>1, <2>2, CallUpdate
  <2> QED BY <1>2, <2>3 DEF Decide
<1>3. CASE FindObsolete(a)
  BY <1>2, <1>3 DEF FindObsolete, PC, RequestStatus
<1>4. CASE FindStarted(a)
  BY <1>2, <1>4 DEF FindStarted, Selecting, PC, RequestStatus
<1>5. CASE FindNotDue(a)
  <2>1. CallOK'
    BY <1>5, FinishOK DEF FindNotDue, Selecting, At
  <2> QED BY <1>5, <2>1 DEF FindNotDue
<1>6. CASE FindAllWavesUsed(a)
  BY <1>2, <1>6 DEF FindAllWavesUsed, Choosing, Selecting, PC, RequestStatus
<1>7. CASE FindWave(a)
  <2>1. PICK w \in OpenWaves(a) :
          LET cs == Candidates(call[a].req, w)
              next == IF cs = {} THEN now ELSE NextWaveAt(w) IN
          call' = [call EXCEPT ![a] = [@ EXCEPT !.pc = "advance", !.wave = w, !.next = next,
                      !.todo = cs, !.delay = IF cs = {} THEN RetryDelay ELSE next - now]]
    BY <1>7 DEF FindWave
  <2> DEFINE cs == Candidates(call[a].req, w)
             next == IF cs = {} THEN now ELSE NextWaveAt(w)
             delay == IF cs = {} THEN RetryDelay ELSE next - now
             c == [call[a] EXCEPT !.pc = "advance", !.wave = w, !.next = next,
                                  !.todo = cs, !.delay = delay]
  <2>2. call[a].req \in Requests
    BY <1>0, <1>7 DEF FindWave, Choosing, Selecting, At
  <2>3. w \in Waves
    BY WavesAssumption DEF OpenWaves, WaveSequence
  <2>4. cs \subseteq Staff
    BY <2>2, <2>3, WavesAssumption DEF Candidates
  <2>5. NextWaveAt(w) \in Nat /\ NextWaveAt(w) >= now
    BY TimeAssumption DEF NextWaveAt, IntervalAt
  <2>6. next \in Nat /\ delay \in Nat
    BY <2>5, TimeAssumption
  <2>7. c \in Call
    BY <1>0, <2>3, <2>4, <2>6, WaveCall
  <2>71. c.req \in Requests /\ c.pc = "advance"
    BY <1>0, <2>2 DEF Call
  <2>8. call' = [call EXCEPT ![a] = c]
    BY <2>1 DEF CallOK
  <2>9. CallOK'
    BY <2>7, <2>71, <2>8, CallUpdate
  <2> QED BY <1>7, <2>9 DEF FindWave
<1>8. CASE AdvanceWave(a)
  <2> DEFINE r == call[a].req
             row == [request[r] EXCEPT !.wave = call[a].wave, !.nextWaveAt = call[a].next]
             c == [call[a] EXCEPT !.pc = IF call[a].todo = {} THEN "enqueue" ELSE "offer",
                                  !.delays = @ \cup {call[a].delay}]
  <2>1. r \in Requests /\ request[r] \in RequestRow
    BY <1>0, <1>8 DEF AdvanceWave, At
  <2>2. row \in RequestRow
    BY <1>0, <2>1 DEF Call, RequestRow
  <2>3. request' = [request EXCEPT ![r] = row]
    BY <1>8 DEF AdvanceWave
  <2>4. c \in Call
    BY <1>0, AdvancedCall DEF PC
  <2>41. c.req \in Requests /\ c.pc \in {"enqueue", "offer"}
    BY <1>0, <2>1 DEF Call
  <2>5. call' = [call EXCEPT ![a] = c]
    BY <1>8 DEF AdvanceWave, CallOK
  <2>6. CallOK' /\ request' \in [Requests -> RequestRow]
    BY <2>1, <2>2, <2>3, <2>4, <2>41, <2>5, CallUpdate, RowUpdate
  <2> QED BY <1>8, <2>6 DEF AdvanceWave
<1>9. ASSUME NextOffer(a), ~ At(a, "idle")
      PROVE  CallOK'
  <2> DEFINE c == [call[a] EXCEPT !.to = None,
                                  !.pc = IF call[a].todo = {} THEN "tally" ELSE "offer"]
  <2>1. c \in Call
    BY <1>0, NextOfferCall DEF PC
  <2>11. c.req \in Requests /\ c.pc \in {"tally", "offer"}
    BY <1>0, <1>9 DEF Call
  <2>2. call' = [call EXCEPT ![a] = c]
    BY <1>9 DEF NextOffer, CallOK
  <2> QED BY <2>1, <2>11, <2>2, CallUpdate
<1>10. CASE CreateOffer(a)
  <2> DEFINE r == call[a].req
             c(s) == [call[a] EXCEPT !.pc = "sending", !.to = s, !.todo = call[a].todo \ {s}]
  <2>1. PICK s \in call[a].todo :
          \/ /\ response' = [response EXCEPT ![r][s] =
                                 [status |-> "SENT", wave |-> call[a].wave]]
             /\ call' = [call EXCEPT ![a] = c(s)]
             /\ UNCHANGED jobs
          \/ Abort(a) /\ UNCHANGED response
    BY <1>10 DEF CreateOffer, CallOK
  <2>2. r \in Requests /\ ~ At(a, "idle") /\ s \in Staff
    <3>1. At(a, "offer")
      BY <1>10 DEF CreateOffer
    <3>2. call[a].todo \subseteq Staff
      BY <1>0 DEF Call
    <3> QED BY <1>0, <3>1, <3>2 DEF At
  <2>3. CASE Abort(a) /\ UNCHANGED response
    <3>1. CallOK' /\ jobs' \subseteq Job
      BY <2>2, <2>3, AbortOK
    <3> QED BY <1>10, <2>3, <3>1 DEF CreateOffer
  <2>4. CASE response' = [response EXCEPT ![r][s] = [status |-> "SENT", wave |-> call[a].wave]]
             /\ call' = [call EXCEPT ![a] = c(s)]
             /\ UNCHANGED jobs
    <3>1. c(s) \in Call /\ c(s).req \in Requests /\ c(s).to \in Staff
      BY <1>0, <2>2 DEF Call, PC
    <3>3. CallOK'
      BY <2>4, <3>1, CallUpdate
    <3>4. [status |-> "SENT", wave |-> call[a].wave] \in ResponseRow
      BY <1>0 DEF Call, ResponseRow, ResponseStatus
    <3>5. response' = [response EXCEPT ![r] = [response[r] EXCEPT ![s] =
                          [status |-> "SENT", wave |-> call[a].wave]]]
      BY <2>4
    <3>6. response' \in [Requests -> [Staff -> ResponseRow]]
      BY <2>2, <3>4, <3>5
    <3> QED BY <1>10, <2>4, <3>3, <3>6 DEF CreateOffer
  <2> QED BY <2>1, <2>3, <2>4
<1>11. CASE DeliverOffer(a)
  <2>1. call[a].req \in Requests /\ call[a].to \in Staff
    BY <1>11 DEF DeliverOffer, At, CallOK
  <2>2. CallOK'
    BY <1>11, GotoOK DEF DeliverOffer, At, PC
  <2> QED BY <1>11, <2>1, <2>2 DEF DeliverOffer
<1>12. CASE RecordMessage(a)
  <2>1. CallOK'
    BY <1>9, <1>12 DEF RecordMessage, At
  <2> QED BY <1>12, <2>1 DEF RecordMessage
<1>13. CASE RecordDeliveryFailure(a)
  <2>1. CallOK'
    BY <1>9, <1>13 DEF RecordDeliveryFailure, At
  <2>2. call[a].req \in Requests /\ call[a].to \in Staff
    BY <1>13 DEF RecordDeliveryFailure, At, CallOK
  <2>3. response' \in [Requests -> [Staff -> ResponseRow]]
    BY <1>13, <2>2, ResponseUpdate DEF RecordDeliveryFailure, ResponseStatus
  <2> QED BY <1>13, <2>1, <2>3 DEF RecordDeliveryFailure
<1>14. CASE TallyWave(a)
  <2>1. CallOK'
    BY <1>14, FinishOK, GotoOK DEF TallyWave, At, PC
  <2> QED BY <1>14, <2>1 DEF TallyWave
<1>15. CASE EnqueueNextWave(a)
  <2>1. CallOK'
    BY <1>15, IdleIsCall, CallUpdate DEF EnqueueNextWave
  <2>2. jobs' \subseteq Job
    <3>1. call[a].req \in Requests /\ call[a].delays \subseteq Nat
      BY <1>0, <1>15 DEF EnqueueNextWave, At, Call
    <3> QED BY <1>15, <3>1 DEF EnqueueNextWave, Job
  <2> QED BY <1>15, <2>1, <2>2 DEF EnqueueNextWave
<1> QED BY <1>1, <1>3, <1>4, <1>5, <1>6, <1>7, <1>8, <1>10, <1>11, <1>12, <1>13, <1>14,
           <1>15 DEF Dispatch

\* The creation of the row and the actions that close it.
LEMMA CloseType ==
  ASSUME TypeOK, NEW a \in Actors, CreateActiveRequest(a) \/ Close(a)
  PROVE  TypeOK'
<1> USE DEF TypeOK
<1> DEFINE r == call[a].req
<1>0. call[a] \in Call /\ (~ At(a, "idle") => r \in Requests /\ request[r] \in RequestRow)
  BY DEF CallOK
<1>1. ASSUME NEW row \in RequestRow, ~ At(a, "idle"),
             request' = [request EXCEPT ![r] = row] \/ UNCHANGED request
      PROVE  request' \in [Requests -> RequestRow]
  BY <1>0, <1>1, RowUpdate
<1>2. CASE CreateActiveRequest(a)
  <2> DEFINE canonical == Requester[r] # None /\ linked[LocationOf[r]]
             row == [request[r] EXCEPT !.status = "ACTIVE", !.canonical = canonical]
  <2>1. ~ At(a, "idle") /\ canonical \in BOOLEAN
    BY <1>0, <1>2, RequestsAssumption DEF CreateActiveRequest, At
  <2>2. row \in RequestRow
    BY <1>0, <2>1 DEF RequestRow, RequestStatus
  <2>3. request' = [request EXCEPT ![r] = row] \/ UNCHANGED request
    BY <1>2 DEF CreateActiveRequest
  <2>4. request' \in [Requests -> RequestRow]
    BY <1>1, <2>1, <2>2, <2>3
  <2>5. CallOK'
    BY <1>2, <2>1, GotoOK, IdleIsCall, CallUpdate DEF CreateActiveRequest, PC
  <2> QED BY <1>2, <2>4, <2>5 DEF CreateActiveRequest
<1>3. CASE FailRequest(a)
  <2> DEFINE row == [request[r] EXCEPT !.status = call[a].verdict, !.nextWaveAt = None]
  <2>1. ~ At(a, "idle") /\ row \in RequestRow
    BY <1>0, <1>3 DEF FailRequest, At, RequestRow, Call, Time
  <2>2. request' = [request EXCEPT ![r] = row] \/ UNCHANGED request
    BY <1>3 DEF FailRequest
  <2>3. request' \in [Requests -> RequestRow]
    BY <1>1, <2>1, <2>2
  <2>4. CallOK'
    BY <1>3, <2>1, GotoOK DEF FailRequest, PC
  <2> QED BY <1>3, <2>3, <2>4 DEF FailRequest
<1>4. CASE NotifyFailure(a)
  <2>1. CallOK' /\ Status(r) \in RequestStatus
    BY <1>0, <1>4, GotoOK DEF NotifyFailure, At, PC, Status, RequestRow
  <2> QED BY <1>4, <2>1 DEF NotifyFailure
<1>5. CASE CloseByScheduleSync(a)
  <2> DEFINE row == [request[r] EXCEPT !.status = "CLOSED_BY_SCHEDULE_SYNC", !.nextWaveAt = None]
  <2>1. ~ At(a, "idle") /\ row \in RequestRow
    BY <1>0, <1>5 DEF CloseByScheduleSync, At, RequestRow, RequestStatus, Time
  <2>2. request' = [request EXCEPT ![r] = row] \/ UNCHANGED request
    BY <1>5 DEF CloseByScheduleSync
  <2>3. request' \in [Requests -> RequestRow]
    BY <1>1, <2>1, <2>2
  <2>4. CallOK'
    BY <1>5, <2>1, GotoOK, FinishOK DEF CloseByScheduleSync, PC
  <2> QED BY <1>5, <2>3, <2>4 DEF CloseByScheduleSync
<1>6. CASE ReadOpenResponses(a)
  <2> DEFINE c == [call[a] EXCEPT !.pc = "inactivate", !.seen = Sent(r)]
  <2>1. r \in Requests
    BY <1>0, <1>6 DEF ReadOpenResponses, At
  <2>2. Sent(r) \subseteq Requests \X Staff
    BY <2>1 DEF Sent
  <2>3. c \in Call /\ c.req \in Requests /\ c.pc = "inactivate"
    BY <1>0, <2>1, <2>2 DEF Call, PC
  <2>4. call' = [call EXCEPT ![a] = c]
    BY <1>6 DEF ReadOpenResponses, CallOK
  <2>5. CallOK'
    BY <2>3, <2>4, CallUpdate
  <2> QED BY <1>6, <2>5 DEF ReadOpenResponses
<1>7. CASE InactivateResponses(a)
  <2>1. CallOK'
    BY <1>7, FinishOK DEF InactivateResponses, At
  <2>2. \A q \in Requests, s \in Staff :
            [response[q][s] EXCEPT !.status = "INACTIVE"] \in ResponseRow
    BY DEF ResponseRow, ResponseStatus
  <2>3. response' \in [Requests -> [Staff -> ResponseRow]]
    BY <1>7, <2>2 DEF InactivateResponses, SetResponses
  <2> QED BY <1>7, <2>1, <2>3 DEF InactivateResponses
<1> QED BY <1>2, <1>3, <1>4, <1>5, <1>6, <1>7 DEF Close

\* The actions of an answer, of the administrator's withdrawal and of the rest.
LEMMA AnswerType ==
  ASSUME TypeOK, NEW s \in Staff, Answer(s)
  PROVE  TypeOK'
<1> USE DEF TypeOK
<1> DEFINE r == call[s].req
<1>0. /\ s \in Actors /\ call[s] \in Call
      /\ ~ At(s, "idle") => r \in Requests /\ request[r] \in RequestRow
  BY DEF CallOK, Actors
<1>1. CASE CheckConflict(s)
  <2>1. CallOK'
    BY <1>0, <1>1, GotoOK, FinishOK DEF CheckConflict, At, PC
  <2> QED BY <1>1, <2>1 DEF CheckConflict
<1>2. CASE CommitAcceptance(s)
  <2> DEFINE row == [request[r] EXCEPT !.status = "FOUND", !.replacement = s,
                                       !.nextWaveAt = None]
             answers == [t \in Staff |->
                IF t = s THEN [response[r][t] EXCEPT !.status = "ACCEPTED"]
                ELSE IF response[r][t].status = "SENT"
                THEN [response[r][t] EXCEPT !.status = "INACTIVE"]
                ELSE response[r][t]]
  <2>1. ~ At(s, "idle") /\ r \in Requests /\ row \in RequestRow
    <3>1. ~ At(s, "idle") /\ r \in Requests /\ request[r] \in RequestRow
      BY <1>0, <1>2 DEF CommitAcceptance, At
    <3>2. "FOUND" \in RequestStatus /\ None \in Time
      BY DEF RequestStatus, Time
    <3> QED BY <3>1, <3>2, FoundRow
  <2>2. request' = [request EXCEPT ![r] = row] \/ UNCHANGED request
    BY <1>2 DEF CommitAcceptance
  <2>3. request' \in [Requests -> RequestRow]
    BY <2>1, <2>2, RowUpdate
  <2>4. response' = [response EXCEPT ![r] = answers] \/ UNCHANGED response
    BY <1>2, <2>1 DEF CommitAcceptance
  <2>5. \A t \in Staff, v \in {"ACCEPTED", "INACTIVE"} :
            [response[r][t] EXCEPT !.status = v] \in ResponseRow
    BY <2>1 DEF ResponseRow, ResponseStatus
  <2>6. answers \in [Staff -> ResponseRow]
    BY <2>1, <2>5
  <2>7. response' \in [Requests -> [Staff -> ResponseRow]]
    BY <2>1, <2>4, <2>6
  <2>8. CallOK'
    BY <1>0, <1>2, <2>1, GotoOK, FinishOK DEF CommitAcceptance, PC
  <2> QED BY <1>2, <2>3, <2>7, <2>8 DEF CommitAcceptance
<1>3. CASE ReadSameDayOffers(s)
  <2> DEFINE others == {q \in Requests \ {r} :
                           Status(q) = "ACTIVE" /\ response[q][s].status = "SENT"}
             c == [call[s] EXCEPT !.pc = "inactivate", !.seen = others \X {s}]
  <2>1. r \in Requests /\ others \X {s} \subseteq Requests \X Staff
    BY <1>0, <1>3 DEF ReadSameDayOffers, At
  <2>2. c \in Call /\ c.req \in Requests /\ c.pc = "inactivate"
    BY <1>0, <2>1 DEF Call, PC
  <2>3. call' = [call EXCEPT ![s] = c]
    BY <1>0, <1>3 DEF ReadSameDayOffers, CallOK
  <2>4. CallOK'
    BY <1>0, <2>2, <2>3, CallUpdate
  <2> QED BY <1>3, <2>4 DEF ReadSameDayOffers
<1>4. CASE RecordDecline(s)
  <2> DEFINE c == [call[s] EXCEPT !.pc = "tally", !.wave = response[r][s].wave]
  <2>1. r \in Requests /\ response[r][s].wave \in Waves \cup {None}
    BY <1>0, <1>4 DEF RecordDecline, At, ResponseRow
  <2>2. c \in Call /\ c.req \in Requests /\ c.pc = "tally"
    BY <1>0, <2>1 DEF Call, PC
  <2>3. call' = [call EXCEPT ![s] = c]
    BY <1>0, <1>4 DEF RecordDecline, CallOK
  <2>4. CallOK'
    BY <1>0, <2>2, <2>3, CallUpdate
  <2>5. response' \in [Requests -> [Staff -> ResponseRow]]
    BY <1>4, <2>1, ResponseUpdate DEF RecordDecline, ResponseStatus
  <2> QED BY <1>4, <2>4, <2>5 DEF RecordDecline
<1> QED BY <1>1, <1>2, <1>3, <1>4 DEF Answer

LEMMA RestType ==
  ASSUME TypeOK,
         UndoConfirmed \/ (\E j \in jobs : TakeJob(j)) \/ Tick \/ EditSchedule \/ Crash
  PROVE  TypeOK'
<1> USE DEF TypeOK
<1>0. Admin \in Actors /\ Worker \in Actors
  BY DEF Actors
<1>1. CASE UndoConfirmed
  <2> DEFINE r == call[Admin].req
             row == [request[r] EXCEPT !.status = "CANCELLED", !.nextWaveAt = None]
  <2>1. ~ At(Admin, "idle") /\ r \in Requests /\ row \in RequestRow
    <3>1. ~ At(Admin, "idle") /\ r \in Requests /\ request[r] \in RequestRow
      BY <1>0, <1>1 DEF UndoConfirmed, At, CallOK
    <3> QED BY <3>1 DEF RequestRow, RequestStatus, Time
  <2>2. request' = [request EXCEPT ![r] = row] \/ UNCHANGED request
    BY <1>1 DEF UndoConfirmed
  <2>3. request' \in [Requests -> RequestRow]
    BY <2>1, <2>2, RowUpdate
  <2>4. CallOK'
    BY <1>0, <1>1, <2>1, GotoOK, FinishOK DEF UndoConfirmed, PC
  <2> QED BY <1>1, <2>3, <2>4 DEF UndoConfirmed
<1>2. CASE \E j \in jobs : TakeJob(j)
  <2>1. PICK j \in jobs : TakeJob(j)
    BY <1>2
  <2> DEFINE c == [Idle EXCEPT !.pc = "load", !.req = j.req, !.tries = j.tries]
  <2>2. c \in Call /\ c.req \in Requests /\ c.pc = "load"
    <3>1. j.req \in Requests /\ j.tries \in Nat
      BY DEF Job
    <3> QED BY <3>1, IdleIsCall DEF Call, PC, Idle
  <2>3. CallOK'
    BY <1>0, <2>1, <2>2, CallUpdate DEF TakeJob
  <2> QED BY <2>1, <2>3 DEF TakeJob
<1>3. CASE Tick
  BY <1>3 DEF Tick, CallOK, At
<1>4. CASE EditSchedule
  <2>1. PICK e \in Edits : /\ holder' = [holder EXCEPT ![e[1]] = e[2]]
                          /\ linked' = [linked EXCEPT ![e[1]] = e[3]]
    BY <1>4 DEF EditSchedule
  <2>2. e[1] \in Locations /\ e[2] \in Staff \cup {None} /\ e[3] \in BOOLEAN
    BY ScheduleAssumption
  <2> QED BY <1>4, <2>1, <2>2 DEF EditSchedule, CallOK, At
<1>5. CASE Crash
  <2>1. CallOK'
    BY <1>5, IdleIsCall DEF Crash, CallOK, At
  <2>2. jobs' \subseteq Job
    <3>1. CASE At(Worker, "idle")
      BY <1>5, <3>1 DEF Crash
    <3>2. CASE ~ At(Worker, "idle")
      <4>1. call[Worker].req \in Requests /\ call[Worker].tries \in Nat
        BY <1>0, <3>2 DEF CallOK, Call
      <4> QED BY <1>5, <3>2, <4>1 DEF Crash, Job
    <3> QED BY <3>1, <3>2
  <2> QED BY <1>5, <2>1, <2>2 DEF Crash
<1> QED BY <1>1, <1>2, <1>3, <1>4, <1>5

---------------------------------------------------------------------------
(* The inductive invariant.  The safety properties are about rows that      *)
(* calls of several actors write, so they need what a call in flight still *)
(* knows to be true at the write: that the row to create does not exist,   *)
(* that the verdict to write closes a search, that she who is about to     *)
(* accept has no other replacement.                                        *)

\* A search is created by its author, once, with no other search of hers in
\* its way; a manual one by the administrator.
CreatorInv ==
    \A a \in Actors : At(a, "create") =>
        LET r == call[a].req IN
        /\ Status(r) = "NONE"
        /\ \/ a = Admin /\ Requester[r] = None
           \/ /\ a \in Staff /\ a = Requester[r]
              /\ \A q \in Requests : q # r /\ SameShift(q, r) => Status(q) \notin RESTART_BLOCKING

\* What a call in flight decided about a row is a way to close a search.
VerdictInv ==
    \A a \in Actors :
        /\ At(a, "fail") => call[a].verdict \in {"EXPIRED", "FAILED"}
        /\ At(a, "close") => call[a].verdict \in {"ACTIVE", "FOUND"}

\* A photographer at the accepting transaction is nobody's replacement yet.
CommitInv == \A s \in Staff : At(s, "commit") => ~ Assigned(s, call[s].req)

FoundInv == \A r \in Requests : Status(r) = "FOUND" => request[r].replacement \in Staff

SearchInv ==
    /\ TypeOK
    /\ CreatorInv /\ VerdictInv /\ CommitInv /\ FoundInv
    /\ AcceptedOnlyByWinner /\ NoDoubleBooking /\ OneSearchPerShift

---------------------------------------------------------------------------
(* What one step may do to a row, to an answer and to a call, whichever     *)
(* action it is.                                                           *)

SameRow(r) == Status(r)' = Status(r) /\ request'[r].replacement = request[r].replacement

Created(r) ==
    /\ Status(r)' = "ACTIVE"
    /\ request'[r].replacement = request[r].replacement
    /\ \E a \in Actors : /\ At(a, "create") /\ call[a].req = r
                         /\ \A q \in Requests \ {r} : SameRow(q)
                         /\ \A b \in Actors \ {a} : call'[b] = call[b]
                         /\ call'[a].pc # "create"

Closed(r) ==
    /\ \/ Status(r) = "ACTIVE"
          /\ Status(r)' \in {"CANCELLED", "EXPIRED", "FAILED", "CLOSED_BY_SCHEDULE_SYNC"}
       \/ Status(r) = "FOUND" /\ Status(r)' \in {"CANCELLED", "CLOSED_BY_SCHEDULE_SYNC"}
    /\ request'[r].replacement = request[r].replacement

\* The accepting transaction of s.
Won(r, s) ==
    /\ Status(r) = "ACTIVE" /\ Status(r)' = "FOUND"
    /\ request[r].replacement = None /\ request'[r].replacement = s
    /\ At(s, "commit") /\ call[s].req = r
    /\ call'[s].pc # "commit"
    /\ \A q \in Requests \ {r} : SameRow(q)
    /\ response'[r][s].status = "ACCEPTED"

RowStep(r) == SameRow(r) \/ Created(r) \/ Closed(r) \/ \E s \in Staff : Won(r, s)

AnswerStep(r, s) ==
    response'[r][s].status = "ACCEPTED" => response[r][s].status = "ACCEPTED" \/ Won(r, s)

Guarded == {"create", "fail", "close", "commit"}

\* How a call comes to one of the places the invariant speaks of.
CallStep(a) ==
    \/ call'[a] = call[a]
    \/ call'[a].pc \notin Guarded
    \/ /\ UNCHANGED request
       /\ \/ /\ call'[a].pc = "create" /\ Status(call'[a].req) = "NONE"
             /\ \/ a = Admin /\ Requester[call'[a].req] = None
                \/ /\ a \in Staff /\ a = Requester[call'[a].req]
                   /\ BlockingRequests(call'[a].req) = {}
          \/ call'[a].pc = "fail" /\ call'[a].verdict \in {"EXPIRED", "FAILED"}
          \/ call'[a].pc = "close" /\ call'[a].verdict \in {"ACTIVE", "FOUND"}
          \/ call'[a].pc = "commit" /\ a \in Staff /\ ~ Assigned(a, call'[a].req)

Shape ==
    /\ \A r \in Requests : RowStep(r)
    /\ \A r \in Requests, s \in Staff : AnswerStep(r, s)
    /\ \A a \in Actors : CallStep(a)

\* A step that moves one call elsewhere.
LEMMA MoveStep ==
  ASSUME CallOK, NEW a \in Actors, NEW c, call' = [call EXCEPT ![a] = c], c.pc \notin Guarded
  PROVE  \A b \in Actors : CallStep(b)
  BY DEF CallOK, CallStep

LEMMA GotoStep ==
  ASSUME CallOK, NEW a \in Actors, NEW pc \in PC, Goto(a, pc), pc \notin Guarded
  PROVE  \A b \in Actors : CallStep(b)
<1> DEFINE c == [call[a] EXCEPT !.pc = pc]
<1>1. c.pc = pc /\ call' = [call EXCEPT ![a] = c]
  BY DEF CallOK, Call, Goto
<1> QED BY <1>1, MoveStep

LEMMA FinishStep ==
  ASSUME CallOK, NEW a \in Actors, Finish(a)
  PROVE  \A b \in Actors : CallStep(b)
<1> DEFINE c == IF call[a].delays = {} THEN Idle ELSE [call[a] EXCEPT !.pc = "enqueue"]
<1>1. c.pc \in {"idle", "enqueue"}
  BY DEF CallOK, Call, Idle
<1>2. call' = [call EXCEPT ![a] = c]
  BY DEF Finish, CallOK
<1> QED BY <1>1, <1>2, MoveStep DEF Guarded

LEMMA BeginStep ==
  ASSUME CallOK, NEW a \in Actors, NEW r, NEW pc, Begin(a, r, pc), pc \notin Guarded
  PROVE  \A b \in Actors : CallStep(b)
<1> DEFINE c == [Idle EXCEPT !.pc = pc, !.req = r]
<1>1. c.pc = pc /\ call' = [call EXCEPT ![a] = c]
  BY DEF Begin, Idle
<1> QED BY <1>1, MoveStep

LEMMA IdleStep ==
  ASSUME CallOK, NEW a \in Actors, call' = [call EXCEPT ![a] = Idle]
  PROVE  \A b \in Actors : CallStep(b)
<1>1. Idle.pc \notin Guarded
  BY DEF Idle, Guarded
<1> QED BY <1>1, MoveStep

\* A step that leaves the rows and the answers alone.
LEMMA QuietRows ==
  ASSUME UNCHANGED request
  PROVE  \A r \in Requests : RowStep(r)
  BY DEF RowStep, SameRow, Status

LEMMA QuietAnswers ==
  ASSUME UNCHANGED response
  PROVE  \A r \in Requests, s \in Staff : AnswerStep(r, s)
  BY DEF AnswerStep

\* A step that writes another status than ACCEPTED into an answer.
LEMMA OtherAnswer ==
  ASSUME TypeOK, NEW q \in Requests, NEW t \in Staff, NEW row \in ResponseRow,
         row.status # "ACCEPTED",
         response' = [response EXCEPT ![q] = [response[q] EXCEPT ![t] = row]]
  PROVE  \A r \in Requests, s \in Staff : AnswerStep(r, s)
  BY DEF TypeOK, AnswerStep

\* A step of one row to a status that closes it.
LEMMA ClosingRow ==
  ASSUME TypeOK, NEW q \in Requests, NEW row \in RequestRow,
         request' = [request EXCEPT ![q] = row],
         row.replacement = request[q].replacement,
         \/ row.status = Status(q)
         \/ /\ Status(q) = "ACTIVE"
            /\ row.status \in {"CANCELLED", "EXPIRED", "FAILED", "CLOSED_BY_SCHEDULE_SYNC"}
         \/ Status(q) = "FOUND" /\ row.status \in {"CANCELLED", "CLOSED_BY_SCHEDULE_SYNC"}
  PROVE  \A r \in Requests : RowStep(r)
<1> SUFFICES ASSUME NEW r \in Requests PROVE RowStep(r)
  OBVIOUS
<1>1. CASE r = q
  <2>1. request'[r] = row
    BY <1>1 DEF TypeOK
  <2> QED BY <1>1, <2>1 DEF RowStep, SameRow, Closed, Status
<1>2. CASE r # q
  BY <1>2 DEF TypeOK, RowStep, SameRow, Status
<1> QED BY <1>1, <1>2

LEMMA ServiceShape ==
  ASSUME TypeOK, NEW r \in Requests,
         \/ StartRequest(r) \/ StartAdminRequest(r) \/ CancelRequest(r)
         \/ CancelConfirmedRequestByAdmin(r)
         \/ ReconcileFound(r) \/ ReconcileActive(r)
  PROVE  Shape
<1> USE DEF TypeOK, Shape
<1>0. Staff \subseteq Actors /\ Admin \in Actors /\ ScheduleSync \in Actors
  BY DEF Actors
<1>1. CASE StartRequest(r)
  <2> DEFINE s == Requester[r]
  <2>1. s \in Staff /\ s \in Actors /\ Status(r) = "NONE" /\ BlockingRequests(r) = {}
    BY <1>0, <1>1, RequestsAssumption DEF StartRequest
  <2>2. call'[s].pc = "create" /\ call'[s].req = r
    BY <1>1, <2>1 DEF StartRequest, Begin, CallOK, Idle
  <2>3. \A b \in Actors : b # s => call'[b] = call[b]
    BY <1>1 DEF StartRequest, Begin, CallOK
  <2>4. UNCHANGED <<request, response>>
    BY <1>1 DEF StartRequest
  <2>5. \A b \in Actors : CallStep(b)
    BY <2>1, <2>2, <2>3, <2>4 DEF CallStep
  <2> QED BY <2>4, <2>5, QuietRows, QuietAnswers
<1>2. CASE StartAdminRequest(r)
  <2>1. Requester[r] = None /\ Status(r) = "NONE"
    BY <1>2 DEF StartAdminRequest
  <2>2. call'[Admin].pc = "create" /\ call'[Admin].req = r
    BY <1>0, <1>2 DEF StartAdminRequest, Begin, CallOK, Idle
  <2>3. \A b \in Actors : b # Admin => call'[b] = call[b]
    BY <1>2 DEF StartAdminRequest, Begin, CallOK
  <2>4. UNCHANGED <<request, response>>
    BY <1>2 DEF StartAdminRequest
  <2>5. \A b \in Actors : CallStep(b)
    BY <2>1, <2>2, <2>3, <2>4 DEF CallStep
  <2> QED BY <2>4, <2>5, QuietRows, QuietAnswers
<1>3. CASE CancelRequest(r)
  <2> DEFINE row == [request[r] EXCEPT !.status = "CANCELLED"]
  <2>1. Status(r) = "ACTIVE" /\ request' = [request EXCEPT ![r] = row]
    BY <1>3 DEF CancelRequest
  <2>2. row \in RequestRow /\ row.status = "CANCELLED"
        /\ row.replacement = request[r].replacement
    BY DEF RequestRow, RequestStatus
  <2>3. \A q \in Requests : RowStep(q)
    BY <2>1, <2>2, ClosingRow
  <2>4. Requester[r] \in Actors
    BY <1>0, <1>3, RequestsAssumption DEF CancelRequest
  <2>5. \A b \in Actors : CallStep(b)
    BY <1>3, <2>4, BeginStep DEF CancelRequest, Guarded
  <2> QED BY <1>3, <2>3, <2>5, QuietAnswers DEF CancelRequest
<1>4. CASE CancelConfirmedRequestByAdmin(r)
  <2>1. \A b \in Actors : CallStep(b)
    BY <1>0, <1>4, BeginStep DEF CancelConfirmedRequestByAdmin, Guarded
  <2> QED BY <1>4, <2>1, QuietRows, QuietAnswers DEF CancelConfirmedRequestByAdmin
<1>5. CASE ReconcileFound(r)
  <2> DEFINE c == [Idle EXCEPT !.pc = "close", !.req = r, !.verdict = "FOUND"]
  <2>1. c.pc = "close" /\ c.verdict = "FOUND"
    BY DEF Idle
  <2>2. call'[ScheduleSync] = c /\ \A b \in Actors \ {ScheduleSync} : call'[b] = call[b]
    BY <1>0, <1>5 DEF ReconcileFound, CallOK
  <2>3. UNCHANGED <<request, response>>
    BY <1>5 DEF ReconcileFound
  <2>4. \A b \in Actors : CallStep(b)
    BY <2>1, <2>2, <2>3 DEF CallStep
  <2> QED BY <2>3, <2>4, QuietRows, QuietAnswers
<1>6. CASE ReconcileActive(r)
  <2>1. \A b \in Actors : CallStep(b)
    BY <1>0, <1>6, BeginStep DEF ReconcileActive, Guarded
  <2> QED BY <1>6, <2>1, QuietRows, QuietAnswers DEF ReconcileActive
<1> QED BY <1>1, <1>2, <1>3, <1>4, <1>5, <1>6

\* A row changes its canonical id only.
LEMMA ReconcileShape ==
  ASSUME TypeOK, NEW a \in Actors, Reconcile(a)
  PROVE  Shape
<1> USE DEF TypeOK, Shape
<1>1. CASE FindShift(a)
  <2>1. PICK c \in Call :
            /\ call' = [call EXCEPT ![a] = c]
            /\ \/ c = Idle
               \/ c.pc \in {"link", "unlink"} \/ (c.pc = "close" /\ c.verdict = "ACTIVE")
    BY <1>1, FoundShift
  <2>2. UNCHANGED <<request, response>>
    BY <1>1 DEF FindShift
  <2>3. call'[a] = c /\ \A b \in Actors \ {a} : call'[b] = call[b]
    BY <2>1 DEF CallOK
  <2>4. \A b \in Actors : CallStep(b)
    BY <2>1, <2>2, <2>3, IdleIsCall DEF CallStep, Guarded
  <2> QED BY <2>2, <2>4, QuietRows, QuietAnswers
<1>2. CASE Reattach(a)
  <2> DEFINE r == call[a].req
             row == [request[r] EXCEPT !.canonical = At(a, "link")]
  <2>1. r \in Requests /\ request[r] \in RequestRow
    BY <1>2 DEF Reattach, At, CallOK
  <2>2. row.status = request[r].status /\ row.replacement = request[r].replacement
    BY <2>1 DEF RequestRow
  <2>3. request' = [request EXCEPT ![r] = row] \/ UNCHANGED request
    BY <1>2 DEF Reattach
  <2>4. \A q \in Requests : SameRow(q)
    BY <2>1, <2>2, <2>3 DEF SameRow, Status
  <2>5. \A b \in Actors : CallStep(b)
    BY <1>2, IdleStep DEF Reattach
  <2> QED BY <1>2, <2>4, <2>5, QuietAnswers DEF Reattach, RowStep
<1> QED BY <1>1, <1>2 DEF Reconcile

LEMMA AnswerShape ==
  ASSUME TypeOK, NEW s \in Staff,
         Answer(s) \/ \E r \in Requests : Accept(s, r) \/ Decline(s, r)
  PROVE  Shape
<1> USE DEF TypeOK, Shape
<1>r. PICK r : r = call[s].req
  OBVIOUS
<1>0. s \in Actors /\ (~ At(s, "idle") => r \in Requests) /\ r = call[s].req
  BY <1>r DEF Actors, CallOK
<1>1. CASE \E q \in Requests : Accept(s, q) \/ Decline(s, q)
  <2>1. \A b \in Actors : CallStep(b)
    BY <1>0, <1>1, BeginStep DEF Accept, Decline, Guarded
  <2> QED BY <1>1, <2>1, QuietRows, QuietAnswers DEF Accept, Decline
<1>2. CASE CheckConflict(s)
  <2>1. CASE HasShiftConflictOnDate(s, r)
    BY <1>0, <1>2, <2>1, FinishStep, QuietRows, QuietAnswers DEF CheckConflict
  <2>2. CASE ~ HasShiftConflictOnDate(s, r)
    <3>1. Goto(s, "commit") /\ UNCHANGED <<request, response>>
      BY <1>0, <1>2, <2>2 DEF CheckConflict
    <3>2. call'[s].pc = "commit" /\ call'[s].req = r
      BY <1>0, <3>1 DEF Goto, CallOK, Call
    <3>3. \A b \in Actors : b # s => call'[b] = call[b]
      BY <3>1 DEF Goto, CallOK
    <3>4. ~ Assigned(s, r)
      BY <2>2 DEF HasShiftConflictOnDate
    <3>5. \A b \in Actors : CallStep(b)
      BY <3>1, <3>2, <3>3, <3>4 DEF CallStep
    <3> QED BY <3>1, <3>5, QuietRows, QuietAnswers
  <2> QED BY <2>1, <2>2
<1>3. CASE CommitAcceptance(s)
  <2>1. CASE Status(r) = "ACTIVE" /\ request[r].replacement = None
    <3> DEFINE row == [request[r] EXCEPT !.status = "FOUND", !.replacement = s,
                                         !.nextWaveAt = None]
               answers == [t \in Staff |->
                  IF t = s THEN [response[r][t] EXCEPT !.status = "ACCEPTED"]
                  ELSE IF response[r][t].status = "SENT"
                  THEN [response[r][t] EXCEPT !.status = "INACTIVE"]
                  ELSE response[r][t]]
    <3>1. r \in Requests /\ At(s, "commit") /\ request[r] \in RequestRow
      BY <1>0, <1>3 DEF CommitAcceptance, At
    <3>2. row.status = "FOUND" /\ row.replacement = s
      BY <3>1 DEF RequestRow
    <3>3. request' = [request EXCEPT ![r] = row]
      BY <1>0, <1>3, <2>1 DEF CommitAcceptance
    <3>4. response' = [response EXCEPT ![r] = answers]
      BY <1>0, <1>3, <2>1, <3>1 DEF CommitAcceptance
    <3>5. Goto(s, "sameDay")
      BY <1>0, <1>3, <2>1 DEF CommitAcceptance
    <3>6. \A q \in Requests \ {r} : SameRow(q)
      BY <3>3 DEF SameRow, Status
    <3>7. request'[r] = row /\ response'[r] = answers
      BY <3>1, <3>3, <3>4
    <3>8. answers[s].status = "ACCEPTED"
          /\ \A t \in Staff : t # s /\ answers[t].status = "ACCEPTED" => response[r][t].status = "ACCEPTED"
      BY <3>1 DEF ResponseRow
    <3>9. call'[s].pc = "sameDay"
      BY <1>0, <3>5 DEF Goto, CallOK, Call
    <3>10. Won(r, s)
      <4>1. Status(r)' = "FOUND" /\ request'[r].replacement = s
        BY <3>2, <3>7 DEF Status
      <4>2. response'[r][s].status = "ACCEPTED"
        BY <3>7, <3>8
      <4> QED BY <1>0, <2>1, <3>1, <3>6, <3>9, <4>1, <4>2 DEF Won
    <3>11. \A q \in Requests : RowStep(q)
      BY <3>6, <3>10 DEF RowStep
    <3>12. \A q \in Requests, t \in Staff : AnswerStep(q, t)
      <4> SUFFICES ASSUME NEW q \in Requests, NEW t \in Staff PROVE AnswerStep(q, t)
        OBVIOUS
      <4>1. CASE q # r
        BY <3>4, <4>1 DEF AnswerStep
      <4>2. CASE q = r
        BY <3>7, <3>8, <3>10, <4>2 DEF AnswerStep
      <4> QED BY <4>1, <4>2
    <3>13. \A b \in Actors : CallStep(b)
      BY <1>0, <3>5, GotoStep DEF Guarded, PC
    <3> QED BY <3>11, <3>12, <3>13
  <2>2. CASE ~ (Status(r) = "ACTIVE" /\ request[r].replacement = None)
    BY <1>0, <1>3, <2>2, FinishStep, QuietRows, QuietAnswers DEF CommitAcceptance
  <2> QED BY <2>1, <2>2
<1>4. CASE ReadSameDayOffers(s)
  <2> DEFINE others == {q \in Requests \ {r} :
                           Status(q) = "ACTIVE" /\ response[q][s].status = "SENT"}
             c == [call[s] EXCEPT !.pc = "inactivate", !.seen = others \X {s}]
  <2>1. c.pc \notin Guarded
    BY <1>0 DEF CallOK, Call, Guarded
  <2>2. call' = [call EXCEPT ![s] = c]
    BY <1>0, <1>4 DEF ReadSameDayOffers, CallOK
  <2>3. \A b \in Actors : CallStep(b)
    BY <1>0, <2>1, <2>2, MoveStep
  <2> QED BY <1>4, <2>3, QuietRows, QuietAnswers DEF ReadSameDayOffers
<1>5. CASE RecordDecline(s)
  <2> DEFINE c == [call[s] EXCEPT !.pc = "tally", !.wave = response[r][s].wave]
             row == [response[r][s] EXCEPT !.status = "DECLINED"]
  <2>1. r \in Requests
    BY <1>0, <1>5 DEF RecordDecline, At
  <2>2. c.pc \notin Guarded
    BY <1>0 DEF CallOK, Call, Guarded
  <2>3. call' = [call EXCEPT ![s] = c]
    BY <1>0, <1>5 DEF RecordDecline, CallOK
  <2>4. \A b \in Actors : CallStep(b)
    BY <1>0, <2>2, <2>3, MoveStep
  <2>5. row \in ResponseRow /\ row.status = "DECLINED"
    BY <2>1 DEF ResponseRow, ResponseStatus
  <2>6. response' = [response EXCEPT ![r] = [response[r] EXCEPT ![s] = row]]
    BY <1>0, <1>5 DEF RecordDecline
  <2>7. \A q \in Requests, t \in Staff : AnswerStep(q, t)
    BY <2>1, <2>5, <2>6, OtherAnswer
  <2> QED BY <1>5, <2>4, <2>7, QuietRows DEF RecordDecline
<1> QED BY <1>1, <1>2, <1>3, <1>4, <1>5 DEF Answer

LEMMA DispatchShape ==
  ASSUME TypeOK, NEW a \in Actors, Dispatch(a)
  PROVE  Shape
<1> USE DEF TypeOK, Shape
<1>r. PICK r : r = call[a].req
  OBVIOUS
<1>0. call[a] \in Call /\ (~ At(a, "idle") => r \in Requests) /\ r = call[a].req
  BY <1>r DEF CallOK
<1>1. ASSUME UNCHANGED <<request, response>>, \A b \in Actors : CallStep(b)
      PROVE  Shape
  BY <1>1, QuietRows, QuietAnswers
<1>2. CASE LoadRequest(a)
  <2> DEFINE c == [call[a] EXCEPT !.pc = "select", !.wave = request[r].wave,
                                  !.next = request[r].nextWaveAt]
  <2>1. c.pc \notin Guarded
    BY <1>0 DEF Call, Guarded
  <2>2. call' = [call EXCEPT ![a] = c] \/ Finish(a)
    BY <1>0, <1>2 DEF LoadRequest, CallOK
  <2>3. \A b \in Actors : CallStep(b)
    BY <2>1, <2>2, MoveStep, FinishStep
  <2> QED BY <1>1, <1>2, <2>3 DEF LoadRequest
<1>3. ASSUME NEW pc \in {"close", "fail"}, NEW v, Decide(a, pc, v),
             pc = "fail" => v \in {"EXPIRED", "FAILED"},
             pc = "close" => v \in {"ACTIVE", "FOUND"}
      PROVE  Shape
  <2> DEFINE c == [call[a] EXCEPT !.pc = pc, !.verdict = v]
  <2>1. c.pc = pc /\ c.verdict = v
    BY <1>0 DEF Call
  <2>2. call' = [call EXCEPT ![a] = c] /\ UNCHANGED <<request, response>>
    BY <1>3 DEF Decide, CallOK
  <2>3. call'[a] = c /\ \A b \in Actors \ {a} : call'[b] = call[b]
    BY <2>2 DEF CallOK
  <2>4. \A b \in Actors : CallStep(b)
    BY <1>3, <2>1, <2>2, <2>3 DEF CallStep, Guarded
  <2> QED BY <1>1, <2>2, <2>4
<1>4. CASE FindObsolete(a)
  BY <1>3, <1>4 DEF FindObsolete
<1>5. CASE FindStarted(a)
  BY <1>3, <1>5 DEF FindStarted
<1>6. CASE FindNotDue(a)
  BY <1>1, <1>6, FinishStep DEF FindNotDue
<1>7. CASE FindAllWavesUsed(a)
  BY <1>3, <1>7 DEF FindAllWavesUsed
<1>8. CASE FindWave(a)
  <2>1. PICK w \in OpenWaves(a) :
          LET cs == Candidates(call[a].req, w)
              next == IF cs = {} THEN now ELSE NextWaveAt(w) IN
          call' = [call EXCEPT ![a] = [@ EXCEPT !.pc = "advance", !.wave = w, !.next = next,
                      !.todo = cs, !.delay = IF cs = {} THEN RetryDelay ELSE next - now]]
    BY <1>8 DEF FindWave
  <2> DEFINE cs == Candidates(call[a].req, w)
             next == IF cs = {} THEN now ELSE NextWaveAt(w)
             c == [call[a] EXCEPT !.pc = "advance", !.wave = w, !.next = next, !.todo = cs,
                                  !.delay = IF cs = {} THEN RetryDelay ELSE next - now]
  <2>2. c.pc \notin Guarded
    BY <1>0 DEF Call, Guarded
  <2>3. call' = [call EXCEPT ![a] = c]
    BY <2>1 DEF CallOK
  <2>4. \A b \in Actors : CallStep(b)
    BY <2>2, <2>3, MoveStep
  <2> QED BY <1>1, <1>8, <2>4 DEF FindWave
<1>9. CASE AdvanceWave(a)
  <2> DEFINE c == [call[a] EXCEPT !.pc = IF call[a].todo = {} THEN "enqueue" ELSE "offer",
                                  !.delays = @ \cup {call[a].delay}]
  <2>1. c.pc \notin Guarded
    BY <1>0 DEF Call, Guarded
  <2>2. call' = [call EXCEPT ![a] = c]
    BY <1>9 DEF AdvanceWave, CallOK
  <2>3. \A b \in Actors : CallStep(b)
    BY <2>1, <2>2, MoveStep
  <2>4. \A q \in Requests : SameRow(q)
    BY <1>9 DEF AdvanceWave, SameRow, Status, RequestRow
  <2> QED BY <1>9, <2>3, <2>4, QuietAnswers DEF AdvanceWave, RowStep
<1>10. ASSUME NextOffer(a)
       PROVE  \A b \in Actors : CallStep(b)
  <2> DEFINE c == [call[a] EXCEPT !.to = None,
                                  !.pc = IF call[a].todo = {} THEN "tally" ELSE "offer"]
  <2>1. c.pc \notin Guarded
    BY <1>0 DEF Call, Guarded
  <2>2. call' = [call EXCEPT ![a] = c]
    BY <1>10 DEF NextOffer, CallOK
  <2> QED BY <2>1, <2>2, MoveStep
<1>11. CASE CreateOffer(a)
  <2> DEFINE c(s) == [call[a] EXCEPT !.pc = "sending", !.to = s, !.todo = call[a].todo \ {s}]
             row == [status |-> "SENT", wave |-> call[a].wave]
  <2>1. PICK s \in call[a].todo :
          \/ /\ response' = [response EXCEPT ![r][s] = row]
             /\ call' = [call EXCEPT ![a] = c(s)]
          \/ Abort(a) /\ UNCHANGED response
    BY <1>0, <1>11 DEF CreateOffer, CallOK
  <2>2. r \in Requests /\ s \in Staff
    <3>1. call[a].todo \subseteq Staff
      BY <1>0 DEF Call
    <3> QED BY <1>0, <1>11, <3>1 DEF CreateOffer, At
  <2>3. UNCHANGED request
    BY <1>11 DEF CreateOffer
  <2>4. CASE Abort(a) /\ UNCHANGED response
    BY <1>1, <2>3, <2>4, IdleStep DEF Abort
  <2>5. CASE /\ response' = [response EXCEPT ![r][s] = row]
             /\ call' = [call EXCEPT ![a] = c(s)]
    <3>1. c(s).pc \notin Guarded
      BY <1>0 DEF Call, Guarded
    <3>2. \A b \in Actors : CallStep(b)
      BY <2>5, <3>1, MoveStep
    <3>3. row \in ResponseRow /\ row.status # "ACCEPTED"
      BY <1>0 DEF Call, ResponseRow, ResponseStatus
    <3>4. response' = [response EXCEPT ![r] = [response[r] EXCEPT ![s] = row]]
      BY <2>5
    <3>5. \A q \in Requests, t \in Staff : AnswerStep(q, t)
      BY <2>2, <3>3, <3>4, OtherAnswer
    <3> QED BY <2>3, <3>2, <3>5, QuietRows
  <2> QED BY <2>1, <2>4, <2>5
<1>12. CASE DeliverOffer(a)
  BY <1>1, <1>12, GotoStep DEF DeliverOffer, Guarded, PC
<1>13. CASE RecordMessage(a)
  BY <1>1, <1>10, <1>13 DEF RecordMessage
<1>14. CASE RecordDeliveryFailure(a)
  <2>p. PICK s : s = call[a].to
    OBVIOUS
  <2> DEFINE row == [response[r][s] EXCEPT !.status = "DELIVERY_FAILED"]
  <2>1. r \in Requests /\ s \in Staff
    BY <1>0, <1>14, <2>p DEF RecordDeliveryFailure, At, CallOK
  <2>2. row \in ResponseRow /\ row.status # "ACCEPTED"
    <3>1. response[r][s] \in ResponseRow
      BY <2>1
    <3> QED BY <3>1 DEF ResponseRow, ResponseStatus
  <2>3. response' = [response EXCEPT ![r] = [response[r] EXCEPT ![s] = row]]
    <3>1. response' = [response EXCEPT ![r][s].status = "DELIVERY_FAILED"]
      BY <1>0, <1>14, <2>p DEF RecordDeliveryFailure
    <3> QED BY <2>1, <3>1
  <2>4. \A q \in Requests, t \in Staff : AnswerStep(q, t)
    BY <2>1, <2>2, <2>3, OtherAnswer
  <2> QED BY <1>10, <1>14, <2>4, QuietRows DEF RecordDeliveryFailure
<1>15. CASE TallyWave(a)
  BY <1>1, <1>15, FinishStep, GotoStep DEF TallyWave, Guarded, PC
<1>16. CASE EnqueueNextWave(a)
  BY <1>1, <1>16, IdleStep DEF EnqueueNextWave
<1> QED BY <1>2, <1>4, <1>5, <1>6, <1>7, <1>8, <1>9, <1>11, <1>12, <1>13, <1>14, <1>15,
           <1>16 DEF Dispatch

LEMMA CloseShape ==
  ASSUME TypeOK, CreatorInv, VerdictInv, NEW a \in Actors, CreateActiveRequest(a) \/ Close(a)
  PROVE  Shape
<1> USE DEF TypeOK, Shape
<1>r. PICK r : r = call[a].req
  OBVIOUS
<1>0. call[a] \in Call /\ (~ At(a, "idle") => r \in Requests) /\ r = call[a].req
  BY <1>r DEF CallOK
<1>1. CASE CreateActiveRequest(a)
  <2>1. r \in Requests /\ Status(r) = "NONE" /\ At(a, "create")
    BY <1>0, <1>1 DEF CreateActiveRequest, At, CreatorInv
  <2>2. CASE Goto(a, "load")
    <3>1. call'[a].pc = "load" /\ \A b \in Actors \ {a} : call'[b] = call[b]
      BY <1>0, <2>2 DEF Goto, CallOK, Call
    <3>2. \A q \in Requests \ {r} : SameRow(q)
      BY <1>0, <1>1 DEF CreateActiveRequest, SameRow, Status
    <3>3. \/ SameRow(r)
          \/ Status(r)' = "ACTIVE" /\ request'[r].replacement = request[r].replacement
      BY <1>0, <1>1, <2>1 DEF CreateActiveRequest, Status, RequestRow, SameRow
    <3>4. SameRow(r) \/ Created(r)
      BY <1>0, <2>1, <3>1, <3>2, <3>3 DEF Created
    <3>5. \A b \in Actors : CallStep(b)
      BY <2>2, GotoStep DEF Guarded, PC
    <3> QED BY <1>1, <3>2, <3>4, <3>5, QuietAnswers DEF CreateActiveRequest, RowStep
  <2>3. CASE call' = [call EXCEPT ![a] = Idle] /\ UNCHANGED request
    BY <1>1, <2>3, IdleStep, QuietRows, QuietAnswers DEF CreateActiveRequest
  <2> QED BY <1>1, <2>2, <2>3 DEF CreateActiveRequest
<1>2. CASE FailRequest(a)
  <2> DEFINE row == [request[r] EXCEPT !.status = call[a].verdict, !.nextWaveAt = None]
  <2>1. r \in Requests /\ call[a].verdict \in {"EXPIRED", "FAILED"}
    BY <1>0, <1>2 DEF FailRequest, At, VerdictInv
  <2>11. request[r] \in RequestRow /\ call[a].verdict \in RequestStatus
    BY <2>1 DEF RequestStatus
  <2>2. row \in RequestRow /\ row.status = call[a].verdict
        /\ row.replacement = request[r].replacement
    BY <2>11, ClosedRow
  <2>3. \/ Status(r) = "ACTIVE" /\ request' = [request EXCEPT ![r] = row]
        \/ UNCHANGED request
    BY <1>0, <1>2 DEF FailRequest
  <2>4. \A q \in Requests : RowStep(q)
    BY <2>1, <2>2, <2>3, ClosingRow, QuietRows
  <2>5. \A b \in Actors : CallStep(b)
    BY <1>2, GotoStep DEF FailRequest, Guarded, PC
  <2> QED BY <1>2, <2>4, <2>5, QuietAnswers DEF FailRequest
<1>3. CASE NotifyFailure(a)
  BY <1>3, GotoStep, QuietRows, QuietAnswers DEF NotifyFailure, Guarded, PC
<1>4. CASE CloseByScheduleSync(a)
  <2> DEFINE row == [request[r] EXCEPT !.status = "CLOSED_BY_SCHEDULE_SYNC", !.nextWaveAt = None]
  <2>1. r \in Requests
    BY <1>0, <1>4 DEF CloseByScheduleSync, At
  <2>11. request[r] \in RequestRow /\ "CLOSED_BY_SCHEDULE_SYNC" \in RequestStatus
    BY <2>1 DEF RequestStatus
  <2>2. row \in RequestRow /\ row.status = "CLOSED_BY_SCHEDULE_SYNC"
        /\ row.replacement = request[r].replacement
    BY <2>11, ClosedRow
  <2>20. At(a, "close")
    BY <1>4 DEF CloseByScheduleSync
  <2>21. call[a].verdict \in {"ACTIVE", "FOUND"}
    BY <1>0, <2>20 DEF VerdictInv
  <2>22. \/ Status(r) = call[a].verdict /\ request' = [request EXCEPT ![r] = row]
         \/ UNCHANGED request
    BY <1>0, <1>4 DEF CloseByScheduleSync
  <2>3. \/ Status(r) \in {"ACTIVE", "FOUND"} /\ request' = [request EXCEPT ![r] = row]
        \/ UNCHANGED request
    BY <2>21, <2>22
  <2>4. \A q \in Requests : RowStep(q)
    BY <2>1, <2>2, <2>3, ClosingRow, QuietRows
  <2>5. \A b \in Actors : CallStep(b)
    BY <1>4, GotoStep, FinishStep DEF CloseByScheduleSync, Guarded, PC
  <2> QED BY <1>4, <2>4, <2>5, QuietAnswers DEF CloseByScheduleSync
<1>5. CASE ReadOpenResponses(a)
  <2> DEFINE c == [call[a] EXCEPT !.pc = "inactivate", !.seen = Sent(r)]
  <2>1. c.pc \notin Guarded /\ call' = [call EXCEPT ![a] = c]
    BY <1>0, <1>5 DEF ReadOpenResponses, CallOK, Call, Guarded
  <2> QED BY <1>5, <2>1, MoveStep, QuietRows, QuietAnswers DEF ReadOpenResponses
<1>6. CASE InactivateResponses(a)
  <2>1. \A q \in Requests, t \in Staff : AnswerStep(q, t)
    BY <1>6 DEF InactivateResponses, SetResponses, AnswerStep, ResponseRow
  <2> QED BY <1>6, <2>1, FinishStep, QuietRows DEF InactivateResponses
<1> QED BY <1>1, <1>2, <1>3, <1>4, <1>5, <1>6 DEF Close

LEMMA RestShape ==
  ASSUME TypeOK,
         UndoConfirmed \/ (\E j \in jobs : TakeJob(j)) \/ Tick \/ EditSchedule \/ Crash
         \/ UNCHANGED vars
  PROVE  Shape
<1> USE DEF TypeOK, Shape
<1>0. Admin \in Actors /\ Worker \in Actors
  BY DEF Actors
<1>1. CASE UndoConfirmed
  <2>r. PICK r : r = call[Admin].req
    OBVIOUS
  <2> DEFINE row == [request[r] EXCEPT !.status = "CANCELLED", !.nextWaveAt = None]
  <2>1. r \in Requests
    BY <1>0, <1>1, <2>r DEF UndoConfirmed, At, CallOK
  <2>11. request[r] \in RequestRow /\ "CANCELLED" \in RequestStatus
    BY <2>1 DEF RequestStatus
  <2>2. row \in RequestRow /\ row.status = "CANCELLED"
        /\ row.replacement = request[r].replacement
    BY <2>11, ClosedRow
  <2>3. \/ Status(r) = "FOUND" /\ request' = [request EXCEPT ![r] = row]
        \/ UNCHANGED request
    BY <1>1, <2>r DEF UndoConfirmed
  <2>4. \A q \in Requests : RowStep(q)
    BY <2>1, <2>2, <2>3, ClosingRow, QuietRows
  <2>5. \A b \in Actors : CallStep(b)
    BY <1>0, <1>1, GotoStep, FinishStep DEF UndoConfirmed, Guarded, PC
  <2> QED BY <1>1, <2>4, <2>5, QuietAnswers DEF UndoConfirmed
<1>2. CASE \E j \in jobs : TakeJob(j)
  <2>1. PICK j \in jobs : TakeJob(j)
    BY <1>2
  <2> DEFINE c == [Idle EXCEPT !.pc = "load", !.req = j.req, !.tries = j.tries]
  <2>2. c.pc \notin Guarded
    BY DEF Idle, Guarded
  <2> QED BY <1>0, <2>1, <2>2, MoveStep, QuietRows, QuietAnswers DEF TakeJob
<1>3. CASE Tick \/ EditSchedule \/ UNCHANGED vars
  BY <1>3, QuietRows, QuietAnswers DEF Tick, EditSchedule, vars, CallStep
<1>4. CASE Crash
  <2>1. \A b \in Actors : call'[b].pc \notin Guarded
    BY <1>4 DEF Crash, Idle, Guarded
  <2> QED BY <1>4, <2>1, QuietRows, QuietAnswers DEF Crash, CallStep
<1> QED BY <1>1, <1>2, <1>3, <1>4

LEMMA NextShape ==
  ASSUME SearchInv, [Next]_vars
  PROVE  Shape
<1> USE DEF SearchInv
<1>1. ASSUME NEW r \in Requests,
             \/ StartRequest(r) \/ StartAdminRequest(r) \/ CancelRequest(r)
             \/ CancelConfirmedRequestByAdmin(r)
             \/ ReconcileFound(r) \/ ReconcileActive(r)
      PROVE  Shape
  BY <1>1, ServiceShape
<1>2. ASSUME NEW s \in Staff, NEW r \in Requests, Accept(s, r) \/ Decline(s, r)
      PROVE  Shape
  BY <1>2, AnswerShape
<1>3. ASSUME NEW s \in Staff, Answer(s)
      PROVE  Shape
  BY <1>3, AnswerShape
<1>4. ASSUME NEW a \in Actors, Continue(a)
      PROVE  Shape
  BY <1>4, DispatchShape, CloseShape, ReconcileShape DEF Continue
<1> QED BY <1>1, <1>2, <1>3, <1>4, RestShape DEF Next

LEMMA NextType ==
  ASSUME TypeOK, [Next]_vars
  PROVE  TypeOK'
<1>1. CASE UNCHANGED vars
  BY <1>1 DEF vars, TypeOK, CallOK, At
<1>2. ASSUME NEW r \in Requests, NEW s \in Staff, Accept(s, r) \/ Decline(s, r)
      PROVE  TypeOK'
  BY <1>2, AnswerBeginsType
<1>3. ASSUME NEW r \in Requests,
             \/ StartRequest(r) \/ StartAdminRequest(r) \/ CancelRequest(r)
             \/ CancelConfirmedRequestByAdmin(r)
             \/ ReconcileFound(r) \/ ReconcileActive(r)
      PROVE  TypeOK'
  BY <1>3, ServiceType
<1>4. ASSUME NEW a \in Actors, Continue(a)
      PROVE  TypeOK'
  BY <1>4, DispatchType, CloseType, ReconcileType DEF Continue
<1> QED BY <1>1, <1>2, <1>3, <1>4, AnswerType, RestType DEF Next

---------------------------------------------------------------------------
(* Each part of the invariant survives a step of that shape.               *)

LEMMA CreatorStep ==
  ASSUME SearchInv, TypeOK', Shape
  PROVE  CreatorInv'
<1> SUFFICES ASSUME NEW a \in Actors, At(a, "create")'
             PROVE  (/\ Status(call[a].req) = "NONE"
                     /\ \/ a = Admin /\ Requester[call[a].req] = None
                        \/ /\ a \in Staff /\ a = Requester[call[a].req]
                           /\ \A q \in Requests : q # call[a].req /\ SameShift(q, call[a].req)
                                 => Status(q) \notin RESTART_BLOCKING)'
  BY DEF CreatorInv
<1>r. PICK r : r = call'[a].req
  OBVIOUS
<1>0. r \in Requests /\ CallStep(a) /\ RowStep(r) /\ call'[a].pc = "create"
  BY <1>r DEF TypeOK, CallOK, At, Shape
<1> DEFINE Free(q) == Status(q) \notin RESTART_BLOCKING
\* Before the step the same held of r, whether a was there or has just come.
<1>1. CASE call'[a] = call[a]
  <2>1. At(a, "create") /\ call[a].req = r
    BY <1>0, <1>1, <1>r DEF At
  <2>2. Status(r) = "NONE"
        /\ \/ a = Admin /\ Requester[r] = None
           \/ /\ a \in Staff /\ a = Requester[r]
              /\ \A q \in Requests : q # r /\ SameShift(q, r) => Free(q)
    BY <2>1 DEF SearchInv, CreatorInv
  <2>3. ASSUME NEW q \in Requests, q = r \/ (a \in Staff /\ a = Requester[r] /\ SameShift(q, r)),
               Created(q)
        PROVE  FALSE
    <3>1. PICK b \in Actors : /\ At(b, "create") /\ call[b].req = q
                              /\ call'[b].pc # "create"
      BY <2>3 DEF Created
    <3>2. \/ b = Admin /\ Requester[q] = None
          \/ b \in Staff /\ b = Requester[q]
      BY <3>1 DEF SearchInv, CreatorInv
    <3>3. b = a
      BY <2>2, <2>3, <3>2, RequestsAssumption, ActorsAssumption DEF SameShift
    <3> QED BY <1>0, <3>1, <3>3
  <2>4. Status(r)' = "NONE"
    BY <1>0, <2>2, <2>3 DEF RowStep, SameRow, Closed, Won
  <2>5. ASSUME NEW q \in Requests, q # r, SameShift(q, r), a \in Staff, a = Requester[r]
        PROVE  ~ (Status(q)' \in RESTART_BLOCKING)
    <3>1. RowStep(q) /\ ~ Created(q) /\ Free(q)
      BY <2>2, <2>3, <2>5, ActorsAssumption DEF Shape
    <3> QED BY <3>1 DEF RowStep, SameRow, Closed, Won, RESTART_BLOCKING
  <2> QED BY <1>r, <2>2, <2>4, <2>5
<1>2. CASE call'[a] # call[a]
  <2>1. /\ UNCHANGED request /\ Status(r) = "NONE"
        /\ \/ a = Admin /\ Requester[r] = None
           \/ a \in Staff /\ a = Requester[r] /\ BlockingRequests(r) = {}
    BY <1>0, <1>2, <1>r DEF CallStep, Guarded
  <2>2. \A q \in Requests : Status(q)' = Status(q)
    BY <2>1 DEF Status
  <2>3. BlockingRequests(r) = {} =>
          \A q \in Requests : q # r /\ SameShift(q, r) => Free(q)
    BY DEF BlockingRequests
  <2> QED BY <1>0, <1>r, <2>1, <2>2, <2>3
<1> QED BY <1>1, <1>2

LEMMA VerdictStep ==
  ASSUME SearchInv, Shape
  PROVE  VerdictInv'
  BY DEF SearchInv, VerdictInv, Shape, CallStep, Guarded, At

\* A row becomes FOUND only by the transaction of the photographer it names.
LEMMA NewFound ==
  ASSUME Shape, NEW q \in Requests, Status(q)' = "FOUND", FoundInv
  PROVE  /\ (SameRow(q) /\ Status(q) = "FOUND") \/ (\E s \in Staff : Won(q, s))
         /\ request'[q].replacement \in Staff
<1>1. RowStep(q)
  BY DEF Shape
<1>2. (SameRow(q) /\ Status(q) = "FOUND") \/ (\E s \in Staff : Won(q, s))
  BY <1>1 DEF RowStep, SameRow, Created, Closed
<1> QED BY <1>2 DEF FoundInv, SameRow, Won

LEMMA CommitStep ==
  ASSUME SearchInv, TypeOK', Shape
  PROVE  CommitInv'
<1> SUFFICES ASSUME NEW s \in Staff, At(s, "commit")', Assigned(s, call[s].req)'
             PROVE  FALSE
  BY DEF CommitInv
<1>1. PICK q \in Requests : /\ q # call'[s].req /\ Status(q)' = "FOUND"
                            /\ request'[q].replacement = s
  BY DEF Assigned
<1>2. s \in Actors /\ call'[s].pc = "commit" /\ CallStep(s)
  BY DEF Actors, At, Shape
<1>3. CASE call'[s] = call[s]
  <2>1. At(s, "commit") /\ ~ Assigned(s, call[s].req)
    BY <1>2, <1>3 DEF SearchInv, CommitInv, At
  <2>2. ~ (Status(q) = "FOUND" /\ request[q].replacement = s)
    BY <1>1, <1>3, <2>1 DEF Assigned
  <2>3. PICK t \in Staff : Won(q, t)
    BY <1>1, <2>2, NewFound DEF SearchInv, SameRow
  <2>4. t = s
    BY <1>1, <2>3 DEF Won
  <2> QED BY <1>2, <2>3, <2>4 DEF Won
<1>4. CASE call'[s] # call[s]
  <2>1. UNCHANGED request /\ ~ Assigned(s, call'[s].req)
    BY <1>2, <1>4 DEF CallStep, Guarded
  <2> QED BY <1>1, <2>1 DEF Assigned, Status
<1> QED BY <1>3, <1>4

LEMMA FoundStep ==
  ASSUME SearchInv, Shape
  PROVE  FoundInv'
  BY NewFound DEF SearchInv, FoundInv

LEMMA AcceptedStep ==
  ASSUME SearchInv, TypeOK', Shape
  PROVE  AcceptedOnlyByWinner'
<1> SUFFICES ASSUME NEW r \in Requests, NEW s \in Staff, response'[r][s].status = "ACCEPTED"
             PROVE  /\ request'[r].replacement = s
                    /\ Status(r)' \in {"FOUND", "CANCELLED", "CLOSED_BY_SCHEDULE_SYNC"}
  BY DEF AcceptedOnlyByWinner
<1>1. RowStep(r) /\ AnswerStep(r, s)
  BY DEF Shape
<1>2. CASE Won(r, s)
  BY <1>2 DEF Won
<1>3. CASE response[r][s].status = "ACCEPTED"
  <2>1. /\ request[r].replacement = s
        /\ Status(r) \in {"FOUND", "CANCELLED", "CLOSED_BY_SCHEDULE_SYNC"}
    BY <1>3 DEF SearchInv, AcceptedOnlyByWinner
  <2>2. ~ Created(r)
    BY <2>1 DEF Created, SearchInv, CreatorInv
  <2> QED BY <1>1, <2>1, <2>2 DEF RowStep, SameRow, Closed, Won
<1> QED BY <1>1, <1>2, <1>3 DEF AnswerStep

LEMMA BookingStep ==
  ASSUME SearchInv, Shape
  PROVE  NoDoubleBooking'
<1> SUFFICES ASSUME NEW q \in Requests, NEW r \in Requests,
                    Status(q)' = "FOUND", Status(r)' = "FOUND",
                    request'[q].replacement = request'[r].replacement, q # r
             PROVE  FALSE
  BY DEF NoDoubleBooking
<1>1. ASSUME NEW x \in Requests, NEW y \in Requests, NEW s \in Staff, x # y, Won(x, s),
             Status(y)' = "FOUND", request'[y].replacement = s
      PROVE  FALSE
  <2>1. SameRow(y)
    BY <1>1 DEF Won
  <2>2. Status(y) = "FOUND" /\ request[y].replacement = s
    BY <1>1, <2>1 DEF SameRow
  <2>3. At(s, "commit") /\ call[s].req = x
    BY <1>1 DEF Won
  <2> QED BY <1>1, <2>2, <2>3 DEF SearchInv, CommitInv, Assigned
<1>2. \A x \in Requests : Status(x)' = "FOUND" =>
          \/ SameRow(x) /\ Status(x) = "FOUND"
          \/ \E s \in Staff : Won(x, s) /\ request'[x].replacement = s
  BY NewFound DEF SearchInv, Won
<1>3. CASE \E s \in Staff : Won(q, s) /\ request'[q].replacement = s
  BY <1>1, <1>3
<1>4. CASE \E s \in Staff : Won(r, s) /\ request'[r].replacement = s
  BY <1>1, <1>4
<1>5. CASE SameRow(q) /\ Status(q) = "FOUND" /\ SameRow(r) /\ Status(r) = "FOUND"
  BY <1>5 DEF SearchInv, NoDoubleBooking, SameRow
<1> QED BY <1>2, <1>3, <1>4, <1>5

LEMMA OneSearchStep ==
  ASSUME SearchInv, Shape
  PROVE  OneSearchPerShift'
<1> SUFFICES ASSUME NEW q \in Requests, NEW r \in Requests,
                    Status(q)' \in RESTART_BLOCKING, Status(r)' \in RESTART_BLOCKING,
                    SameShift(q, r), Requester[r] # None, q # r
             PROVE  FALSE
  BY DEF OneSearchPerShift, SameShift
<1>1. ASSUME NEW x \in Requests, NEW y \in Requests, x # y, SameShift(x, y), SameShift(y, x),
             Requester[x] # None, Created(x), Status(y)' \in RESTART_BLOCKING
      PROVE  FALSE
  <2>1. PICK a \in Actors : /\ At(a, "create") /\ call[a].req = x
                            /\ \A z \in Requests \ {x} : SameRow(z)
    BY <1>1 DEF Created
  <2>2. Status(y) \notin RESTART_BLOCKING
    BY <1>1, <2>1 DEF SearchInv, CreatorInv
  <2> QED BY <1>1, <2>1, <2>2 DEF SameRow
<1>2. \A x \in Requests : Status(x)' \in RESTART_BLOCKING => Created(x) \/ Status(x) \in RESTART_BLOCKING
  BY DEF Shape, RowStep, SameRow, Closed, Won, RESTART_BLOCKING
<1>3. SameShift(r, q) /\ Requester[q] # None
  BY DEF SameShift
<1>4. ~ Created(q) /\ ~ Created(r)
  BY <1>1, <1>3
<1> QED BY <1>2, <1>4 DEF SearchInv, OneSearchPerShift

---------------------------------------------------------------------------
LEMMA SearchInitial == Init => SearchInv
<1> SUFFICES ASSUME Init PROVE SearchInv
  OBVIOUS
<1>1. \A r \in Requests : Status(r) = "NONE" /\ \A s \in Staff : response[r][s].status = "NONE"
  BY DEF Init, Status, NoRow
<1>2. \A a \in Actors : At(a, "idle")
  BY DEF Init, At, Idle
<1>3. CreatorInv /\ VerdictInv /\ CommitInv
  BY <1>2 DEF CreatorInv, VerdictInv, CommitInv, At, Actors
<1>4. FoundInv /\ AcceptedOnlyByWinner /\ NoDoubleBooking /\ OneSearchPerShift
  BY <1>1 DEF FoundInv, AcceptedOnlyByWinner, NoDoubleBooking, OneSearchPerShift, RESTART_BLOCKING
<1> QED BY <1>3, <1>4, InitType DEF SearchInv

LEMMA SearchInductive == SearchInv /\ [Next]_vars => SearchInv'
<1> SUFFICES ASSUME SearchInv, [Next]_vars PROVE SearchInv'
  OBVIOUS
<1>1. TypeOK'
  BY NextType DEF SearchInv
<1>2. Shape
  BY NextShape
<1>3. CreatorInv' /\ VerdictInv' /\ CommitInv' /\ FoundInv'
  BY <1>1, <1>2, CreatorStep, VerdictStep, CommitStep, FoundStep
<1>4. AcceptedOnlyByWinner' /\ NoDoubleBooking' /\ OneSearchPerShift'
  BY <1>1, <1>2, AcceptedStep, BookingStep, OneSearchStep
<1> QED BY <1>1, <1>3, <1>4 DEF SearchInv

---------------------------------------------------------------------------
(* The theorems.                                                           *)

\* The invariant holds in every reachable state.
THEOREM SearchInvariant == Spec => []SearchInv
<1>1. Init => SearchInv
  BY SearchInitial
<1>2. SearchInv /\ [Next]_vars => SearchInv'
  BY SearchInductive
<1> QED BY <1>1, <1>2, PTL DEF Spec

\* Every variable keeps its shape, whatever the calls of the actors interleave
\* to: every job and every call is about a request, every message on its way
\* has an addressee.
THEOREM TypeCorrect == Spec => []TypeOK
<1>1. SearchInv => TypeOK
  BY DEF SearchInv
<1> QED BY <1>1, SearchInvariant, PTL

\* Of all acceptances of a request only that of the photographer on the row
\* commits, and a row still searched for has none.
THEOREM OnlyTheWinnerAccepted == Spec => []AcceptedOnlyByWinner
<1>1. SearchInv => AcceptedOnlyByWinner
  BY DEF SearchInv
<1> QED BY <1>1, SearchInvariant, PTL

\* Nobody replaces two photographers on one day, although the conflict check is
\* outside the transaction that accepts.
THEOREM NobodyBookedTwice == Spec => []NoDoubleBooking
<1>1. SearchInv => NoDoubleBooking
  BY DEF SearchInv
<1> QED BY <1>1, SearchInvariant, PTL

\* A photographer never has two blocking searches for one shift, although the
\* check and the insert are two awaits.
THEOREM OneSearchAtATime == Spec => []OneSearchPerShift
<1>1. SearchInv => OneSearchPerShift
  BY DEF SearchInv
<1> QED BY <1>1, SearchInvariant, PTL

\* A closed request stays closed, whichever of its writers come late.
THEOREM ClosedRequestsStayClosed == Spec => ClosedForGood
<1>1. SearchInv /\ [Next]_vars =>
        [\A r \in Requests : Status(r)' # Status(r) =>
            \/ Status(r) = "NONE" /\ Status(r)' = "ACTIVE"
            \/ Status(r) = "ACTIVE"
            \/ Status(r) = "FOUND"
               /\ Status(r)' \in {"CANCELLED", "CLOSED_BY_SCHEDULE_SYNC"}]_vars
  <2> SUFFICES ASSUME SearchInv, [Next]_vars, NEW r \in Requests, Status(r)' # Status(r)
               PROVE  \/ Status(r) = "NONE" /\ Status(r)' = "ACTIVE"
                      \/ Status(r) = "ACTIVE"
                      \/ Status(r) = "FOUND"
                         /\ Status(r)' \in {"CANCELLED", "CLOSED_BY_SCHEDULE_SYNC"}
    OBVIOUS
  <2>1. RowStep(r)
    BY NextShape DEF Shape
  <2>2. CASE Created(r)
    BY <2>2 DEF Created, SearchInv, CreatorInv
  <2> QED BY <2>1, <2>2 DEF RowStep, SameRow, Closed, Won
<1> QED BY <1>1, SearchInvariant, PTL DEF Spec, ClosedForGood

\* The photographer a row names is never replaced by another or forgotten.
THEOREM ReplacementStays == Spec => ReplacementIsKept
<1>1. SearchInv /\ [Next]_vars =>
        [\A r \in Requests : request[r].replacement # None =>
            request'[r].replacement = request[r].replacement]_vars
  <2> SUFFICES ASSUME SearchInv, [Next]_vars, NEW r \in Requests, request[r].replacement # None
               PROVE  request'[r].replacement = request[r].replacement
    OBVIOUS
  <2>1. RowStep(r)
    BY NextShape DEF Shape
  <2> QED BY <2>1 DEF RowStep, SameRow, Created, Closed, Won
<1> QED BY <1>1, SearchInvariant, PTL DEF Spec, ReplacementIsKept

---------------------------------------------------------------------------
(* The answer of the photographer who was found.  Three calls write an     *)
(* answer without looking at it: the inactivation of a list of ids, her    *)
(* decline, the failed delivery of her offer.  None of them can meet the   *)
(* answer of the winner, by what each of them knows when it comes there.   *)

\* A row that is not searched for any more, and never will be again.
Over(r) == Status(r) \notin {"NONE", "ACTIVE"}
FoundFor(r, s) == Status(r) = "FOUND" /\ request[r].replacement = s

\* What a call c of actor a knows of the rows, the offers and the answers.
Knows(a, c) ==
    /\ c.pc \notin {"idle", "create"} => Status(c.req) # "NONE"
    /\ c.pc \in {"conflict", "commit"} => a \in offered[c.req]
    /\ c.pc = "sending" => /\ c.to \notin offered[c.req]
                           /\ response[c.req][c.to].status # "NONE"
    /\ c.pc = "decline" => ~ FoundFor(c.req, a)
    /\ c.pc \in {"notify", "open"} => Over(c.req)
    /\ c.pc = "inactivate" =>
          \A q \in Requests, t \in Staff :
              <<q, t>> \in c.seen => (a = t \/ Over(q)) /\ ~ FoundFor(q, t)
CallsKnow == \A a \in Actors : Knows(a, call[a])

\* No offer is on its way twice.
SendsApart ==
    \A a, b \in Actors :
        /\ At(a, "sending") /\ At(b, "sending")
        /\ call[a].req = call[b].req /\ call[a].to = call[b].to
        => a = b

JobsKnow == \A j \in jobs : Status(j.req) # "NONE"
OffersKnown == \A r \in Requests : \A s \in offered[r] : response[r][s].status # "NONE"
FoundWasOffered == \A r \in Requests : Status(r) = "FOUND" => request[r].replacement \in offered[r]

KeepInv ==
    /\ SearchInv
    /\ CallsKnow /\ SendsApart /\ JobsKnow
    /\ OffersKnown /\ FoundWasOffered
    /\ FoundKeepsItsAcceptance

---------------------------------------------------------------------------
(* What one step may do to an answer, to the offers shown and to a call.    *)

AnswerChange(r, s) ==
    \/ response'[r][s].status = response[r][s].status
    \/ response[r][s].status = "NONE" /\ response'[r][s].status = "SENT"
    \/ response'[r][s].status = "DECLINED" /\ At(s, "decline") /\ call[s].req = r
    \/ /\ response'[r][s].status = "DELIVERY_FAILED"
       /\ \/ "ack" \in Faults
          \/ \E a \in Actors : At(a, "sending") /\ call[a].req = r /\ call[a].to = s
    \/ /\ response'[r][s].status = "INACTIVE"
       /\ \E a \in Actors : At(a, "inactivate") /\ <<r, s>> \in call[a].seen
    \/ Status(r) = "ACTIVE" /\ response'[r][s].status \in {"ACCEPTED", "INACTIVE"}

OfferShown(r) ==
    \/ offered'[r] = offered[r]
    \/ \E a \in Actors : /\ At(a, "sending") /\ call[a].req = r
                         /\ offered'[r] = offered[r] \cup {call[a].to}
                         /\ call'[a].pc # "sending"

CallMove(a) ==
    \/ call'[a] = call[a]
    \/ /\ Knows(a, call[a])'
       /\ At(a, "sending")' =>
             /\ response[call'[a].req][call'[a].to].status = "NONE"
             /\ \A b \in Actors \ {a} : call'[b] = call[b]

NewJob(j) ==
    \E a \in Actors : call[a].pc \notin {"idle", "create"} /\ j.req = call[a].req

Moves ==
    /\ \A r \in Requests, s \in Staff : AnswerChange(r, s)
    /\ \A r \in Requests : OfferShown(r)
    /\ \A a \in Actors : CallMove(a)
    /\ \A j \in jobs' : j \in jobs \/ NewJob(j)

Watched == {"conflict", "commit", "sending", "decline", "notify", "open", "inactivate"}

\* A row once created never is uncreated, a closed one never searched for again.
LEMMA RowsStay ==
  ASSUME SearchInv, Shape, NEW r \in Requests
  PROVE  /\ Status(r) # "NONE" => Status(r)' # "NONE"
         /\ Over(r) => Over(r)'
<1>1. RowStep(r)
  BY DEF Shape
<1>2. Created(r) => Status(r) = "NONE"
  BY DEF Created, SearchInv, CreatorInv
<1> QED BY <1>1, <1>2 DEF RowStep, SameRow, Created, Closed, Won, Over

\* One call moves to a place where it need not know anything of the answers.
LEMMA QuietMove ==
  ASSUME CallOK, NEW a \in Actors, NEW c, call' = [call EXCEPT ![a] = c],
         c.pc \notin Watched, c.pc \in {"idle", "create"} \/ Status(c.req)' # "NONE"
  PROVE  \A b \in Actors : CallMove(b)
<1>1. call'[a] = c /\ \A b \in Actors \ {a} : call'[b] = call[b]
  BY DEF CallOK
<1>2. Knows(a, call[a])' /\ ~ At(a, "sending")'
  BY <1>1 DEF Knows, Watched, At
<1> QED BY <1>1, <1>2 DEF CallMove

\* One call moves to a place where it knows what it has to.
LEMMA KnowingMove ==
  ASSUME CallOK, NEW a \in Actors, NEW c, call' = [call EXCEPT ![a] = c],
         c.pc # "sending", Knows(a, c)'
  PROVE  \A b \in Actors : CallMove(b)
<1>1. call'[a] = c /\ \A b \in Actors \ {a} : call'[b] = call[b]
  BY DEF CallOK
<1> QED BY <1>1 DEF CallMove, At, Knows, FoundFor, Over, Status

LEMMA QuietGoto ==
  ASSUME CallOK, NEW a \in Actors, NEW r, r = call[a].req, NEW pc \in PC, Goto(a, pc),
         pc \notin Watched, Status(r)' # "NONE"
  PROVE  \A b \in Actors : CallMove(b)
<1> DEFINE c == [call[a] EXCEPT !.pc = pc]
<1>1. c.pc = pc /\ c.req = r /\ call' = [call EXCEPT ![a] = c]
  BY DEF CallOK, Call, Goto
<1> HIDE DEF c
<1> QED BY <1>1, QuietMove

LEMMA QuietIdle ==
  ASSUME CallOK, NEW a \in Actors, call' = [call EXCEPT ![a] = Idle]
  PROVE  \A b \in Actors : CallMove(b)
<1>1. Idle.pc = "idle"
  BY DEF Idle
<1> QED BY <1>1, QuietMove DEF Watched

LEMMA QuietFinish ==
  ASSUME CallOK, NEW a \in Actors, NEW r, r = call[a].req, Finish(a), Status(r)' # "NONE"
  PROVE  \A b \in Actors : CallMove(b)
<1> DEFINE c == [call[a] EXCEPT !.pc = "enqueue"]
<1>1. c.pc = "enqueue" /\ c.req = r
  BY DEF CallOK, Call
<1>2. call' = [call EXCEPT ![a] = Idle] \/ call' = [call EXCEPT ![a] = c]
  BY DEF Finish, CallOK
<1> HIDE DEF c
<1> QED BY <1>1, <1>2, QuietMove, QuietIdle DEF Watched

\* A step that leaves answers, offers or jobs alone.
LEMMA AnswersAlone ==
  ASSUME UNCHANGED response
  PROVE  \A r \in Requests, s \in Staff : AnswerChange(r, s)
  BY DEF AnswerChange
LEMMA OffersAlone ==
  ASSUME UNCHANGED offered
  PROVE  \A r \in Requests : OfferShown(r)
  BY DEF OfferShown
LEMMA JobsAlone ==
  ASSUME jobs' \subseteq jobs
  PROVE  \A j \in jobs' : j \in jobs \/ NewJob(j)
  OBVIOUS

\* One answer changes, in one of the ways an answer may.
LEMMA OneAnswer ==
  ASSUME TypeOK, NEW q \in Requests, NEW t \in Staff, NEW row \in ResponseRow,
         response' = [response EXCEPT ![q] = [response[q] EXCEPT ![t] = row]],
         response'[q][t] = row => AnswerChange(q, t)
  PROVE  \A r \in Requests, s \in Staff : AnswerChange(r, s)
<1> SUFFICES ASSUME NEW r \in Requests, NEW s \in Staff PROVE AnswerChange(r, s)
  OBVIOUS
<1>1. CASE r = q /\ s = t
  BY <1>1 DEF TypeOK
<1>2. CASE ~ (r = q /\ s = t)
  <2>1. response'[r][s] = response[r][s]
    BY <1>2 DEF TypeOK
  <2> QED BY <2>1 DEF AnswerChange
<1> QED BY <1>1, <1>2

\* A call begins where it knows what it has to.
LEMMA KnowingBegin ==
  ASSUME CallOK, NEW a \in Actors, NEW r \in Requests, NEW pc \in PC, Begin(a, r, pc),
         pc # "sending", pc # "inactivate",
         pc \notin {"idle", "create"} => Status(r)' # "NONE",
         pc \in {"conflict", "commit"} => a \in offered'[r],
         pc = "decline" => ~ FoundFor(r, a)',
         pc \in {"notify", "open"} => Over(r)'
  PROVE  \A b \in Actors : CallMove(b)
<1> DEFINE c == [Idle EXCEPT !.pc = pc, !.req = r]
<1>1. c.pc = pc /\ c.req = r /\ call' = [call EXCEPT ![a] = c]
  BY DEF Begin, Idle
<1> HIDE DEF c
<1>2. PICK d : d = c
  OBVIOUS
<1>3. Knows(a, d)'
  BY <1>1, <1>2 DEF Knows, FoundFor, Over, Status
<1> QED BY <1>1, <1>2, <1>3, KnowingMove

\* A call goes on where it knows what it has to.
LEMMA KnowingGoto ==
  ASSUME CallOK, NEW a \in Actors, NEW r, r = call[a].req, NEW pc \in PC, Goto(a, pc),
         pc # "sending", pc # "inactivate",
         Status(r)' # "NONE",
         pc \in {"conflict", "commit"} => a \in offered'[r],
         pc = "decline" => ~ FoundFor(r, a)',
         pc \in {"notify", "open"} => Over(r)'
  PROVE  \A b \in Actors : CallMove(b)
<1> DEFINE c == [call[a] EXCEPT !.pc = pc]
<1>1. c.pc = pc /\ c.req = r /\ call' = [call EXCEPT ![a] = c]
  BY DEF CallOK, Call, Goto
<1> HIDE DEF c
<1>2. PICK d : d = c
  OBVIOUS
<1>3. Knows(a, d)'
  BY <1>1, <1>2 DEF Knows, FoundFor, Over, Status
<1> QED BY <1>1, <1>2, <1>3, KnowingMove

\* The calls that begin, and what is done to a row at once.
LEMMA ServiceMoves ==
  ASSUME KeepInv, Shape, NEW r \in Requests,
         \/ StartRequest(r) \/ StartAdminRequest(r) \/ CancelRequest(r)
         \/ CancelConfirmedRequestByAdmin(r)
         \/ ReconcileFound(r) \/ ReconcileActive(r)
  PROVE  Moves
<1>0. /\ Staff \subseteq Actors /\ Admin \in Actors /\ ScheduleSync \in Actors
      /\ TypeOK /\ CallOK
  BY DEF Actors, KeepInv, SearchInv, TypeOK
<1>1. UNCHANGED <<response, offered, jobs>>
  BY DEF StartRequest, StartAdminRequest, CancelRequest, CancelConfirmedRequestByAdmin,
         ReconcileFound, ReconcileActive
<1>2. SUFFICES \A b \in Actors : CallMove(b)
  BY <1>1, AnswersAlone, OffersAlone, JobsAlone DEF Moves
<1>3. CASE StartRequest(r)
  <2>1. Requester[r] \in Actors /\ Begin(Requester[r], r, "create")
    BY <1>0, <1>3, RequestsAssumption DEF StartRequest
  <2> QED BY <1>0, <2>1, KnowingBegin DEF PC
<1>4. CASE StartAdminRequest(r)
  BY <1>0, <1>4, KnowingBegin DEF PC, StartAdminRequest
<1>5. CASE CancelRequest(r)
  <2>1. Requester[r] \in Actors /\ Begin(Requester[r], r, "open")
    BY <1>0, <1>5, RequestsAssumption DEF CancelRequest
  <2>2. Status(r)' = "CANCELLED"
    BY <1>0, <1>5 DEF CancelRequest, Status, TypeOK, RequestRow
  <2> QED BY <1>0, <2>1, <2>2, KnowingBegin DEF PC, Over
<1>6. CASE CancelConfirmedRequestByAdmin(r)
  <2>1. Begin(Admin, r, "undo") /\ Status(r)' # "NONE"
    BY <1>6 DEF CancelConfirmedRequestByAdmin, Status
  <2> QED BY <1>0, <2>1, KnowingBegin DEF PC
<1>7. ASSUME NEW v, Status(r)' # "NONE",
             call' = [call EXCEPT ![ScheduleSync] =
                         [Idle EXCEPT !.pc = "close", !.req = r, !.verdict = v]]
      PROVE  \A b \in Actors : CallMove(b)
  <2> DEFINE c == [Idle EXCEPT !.pc = "close", !.req = r, !.verdict = v]
  <2>1. c.pc = "close" /\ c.req = r
    BY DEF Idle
  <2> HIDE DEF c
  <2> QED BY <1>0, <1>7, <2>1, QuietMove DEF c, Watched
<1>8. CASE ReconcileFound(r)
  BY <1>7, <1>8 DEF ReconcileFound, Status
<1>9. CASE ReconcileActive(r)
  <2>1. Begin(ScheduleSync, r, "shift") /\ Status(r)' # "NONE"
    BY <1>9 DEF ReconcileActive, Status
  <2> QED BY <1>0, <2>1, KnowingBegin DEF PC
<1> QED BY <1>3, <1>4, <1>5, <1>6, <1>8, <1>9

\* The schedule's call goes on.
LEMMA ReconcileMoves ==
  ASSUME KeepInv, Shape, NEW a \in Actors, Reconcile(a)
  PROVE  Moves
<1>0. TypeOK /\ CallOK /\ SearchInv
  BY DEF KeepInv, SearchInv, TypeOK
<1>1. UNCHANGED <<response, offered, jobs>>
  BY DEF Reconcile, FindShift, Reattach
<1>2. SUFFICES \A b \in Actors : CallMove(b)
  BY <1>1, AnswersAlone, OffersAlone, JobsAlone DEF Moves
<1>3. CASE FindShift(a)
  <2>1. PICK c \in Call :
            /\ call' = [call EXCEPT ![a] = c]
            /\ c = Idle \/ (c.req = call[a].req /\ c.pc \in {"link", "unlink", "close"})
    BY <1>0, <1>3, FoundShift
  <2>r. PICK r : r = call[a].req
    OBVIOUS
  <2>2. call[a].pc = "shift" /\ r \in Requests
    BY <1>0, <1>3, <2>r DEF FindShift, At, CallOK
  <2>3. Status(r) # "NONE"
    BY <2>r, <2>2 DEF KeepInv, CallsKnow, Knows
  <2>31. Status(r)' # "NONE"
    BY <1>0, <2>2, <2>3, RowsStay
  <2>4. CASE c = Idle
    BY <1>0, <2>1, <2>4, QuietIdle
  <2>5. CASE c.req = call[a].req /\ c.pc \in {"link", "unlink", "close"}
    <3>1. c.req = r /\ c.pc \notin Watched
      BY <2>r, <2>5 DEF Watched
    <3>2. Status(c.req)' # "NONE"
      BY <2>31, <3>1
    <3> QED BY <1>0, <2>1, <3>1, <3>2, QuietMove
  <2> QED BY <2>1, <2>4, <2>5
<1>4. CASE Reattach(a)
  BY <1>0, <1>4, QuietIdle DEF Reattach
<1> QED BY <1>3, <1>4 DEF Reconcile

\* The answers of a photographer.
LEMMA AnswerMoves ==
  ASSUME KeepInv, Shape, NEW s \in Staff,
         Answer(s) \/ \E r \in Requests : Accept(s, r) \/ Decline(s, r)
  PROVE  Moves
<1>r. PICK r : r = call[s].req
  OBVIOUS
<1>0. /\ s \in Actors /\ TypeOK /\ CallOK /\ SearchInv
      /\ r = call[s].req /\ (~ At(s, "idle") => r \in Requests)
  BY <1>r DEF Actors, KeepInv, SearchInv, TypeOK, CallOK
<1>1. UNCHANGED <<offered, jobs>>
  BY DEF Answer, Accept, Decline, CheckConflict, CommitAcceptance, ReadSameDayOffers, RecordDecline
<1>2. /\ \A q \in Requests : OfferShown(q)
      /\ \A j \in jobs' : j \in jobs \/ NewJob(j)
  BY <1>1, OffersAlone, JobsAlone
<1>3. call[s].pc \notin {"idle", "create"} => r \in Requests /\ Status(r)' # "NONE"
  BY <1>0, RowsStay DEF KeepInv, CallsKnow, Knows, At
<1>4. CASE \E q \in Requests : Accept(s, q) \/ Decline(s, q)
  <2>1. PICK q \in Requests : Accept(s, q) \/ Decline(s, q)
    BY <1>4
  <2>2. UNCHANGED <<request, response>> /\ Status(q) = "ACTIVE" /\ s \in offered[q]
    BY <2>1 DEF Accept, Decline
  <2>3. Begin(s, q, "conflict") \/ Begin(s, q, "decline")
    BY <2>1 DEF Accept, Decline
  <2>4. Status(q)' = "ACTIVE" /\ ~ FoundFor(q, s)' /\ s \in offered'[q]
    BY <1>1, <2>2 DEF Status, FoundFor
  <2>5. \A b \in Actors : CallMove(b)
    BY <1>0, <2>3, <2>4, KnowingBegin DEF PC
  <2> QED BY <1>2, <2>2, <2>5, AnswersAlone DEF Moves
<1>5. CASE CheckConflict(s)
  <2>1. At(s, "conflict") /\ UNCHANGED <<request, response>> /\ (Finish(s) \/ Goto(s, "commit"))
    BY <1>5 DEF CheckConflict
  <2>2. s \in offered'[r] /\ Status(r)' # "NONE"
    BY <1>0, <1>1, <1>3, <2>1 DEF KeepInv, CallsKnow, Knows, At
  <2>3. \A b \in Actors : CallMove(b)
    BY <1>0, <2>1, <2>2, QuietFinish, KnowingGoto DEF PC
  <2> QED BY <1>2, <2>1, <2>3, AnswersAlone DEF Moves
<1>6. CASE CommitAcceptance(s)
  <2>0. At(s, "commit") /\ r \in Requests /\ Status(r)' # "NONE"
    BY <1>0, <1>3, <1>6 DEF CommitAcceptance, At
  <2>1. CASE ~ (Status(r) = "ACTIVE" /\ request[r].replacement = None)
    <3>1. Finish(s) /\ UNCHANGED response
      BY <1>0, <1>6, <2>1 DEF CommitAcceptance
    <3>2. \A b \in Actors : CallMove(b)
      BY <1>0, <2>0, <3>1, QuietFinish
    <3> QED BY <1>2, <3>1, <3>2, AnswersAlone DEF Moves
  <2>2. CASE Status(r) = "ACTIVE" /\ request[r].replacement = None
    <3> DEFINE answers == [t \in Staff |->
                  IF t = s THEN [response[r][t] EXCEPT !.status = "ACCEPTED"]
                  ELSE IF response[r][t].status = "SENT"
                  THEN [response[r][t] EXCEPT !.status = "INACTIVE"]
                  ELSE response[r][t]]
    <3>1. response' = [response EXCEPT ![r] = answers] /\ Goto(s, "sameDay")
      BY <1>0, <1>6, <2>0, <2>2 DEF CommitAcceptance
    <3>2. \A t \in Staff : answers[t].status \in {"ACCEPTED", "INACTIVE", response[r][t].status}
      BY <1>0, <2>0 DEF TypeOK, ResponseRow
    <3> HIDE DEF answers
    <3>3. \A q \in Requests, t \in Staff : AnswerChange(q, t)
      <4> SUFFICES ASSUME NEW q \in Requests, NEW t \in Staff PROVE AnswerChange(q, t)
        OBVIOUS
      <4>1. CASE q # r
        BY <1>0, <3>1, <4>1 DEF TypeOK, AnswerChange
      <4>2. CASE q = r
        <5>1. response'[r][t].status \in {"ACCEPTED", "INACTIVE", response[r][t].status}
          BY <1>0, <2>0, <3>1, <3>2 DEF TypeOK
        <5> QED BY <2>2, <4>2, <5>1 DEF AnswerChange
      <4> QED BY <4>1, <4>2
    <3>4. \A b \in Actors : CallMove(b)
      BY <1>0, <2>0, <3>1, QuietGoto DEF PC, Watched
    <3> QED BY <1>2, <3>3, <3>4 DEF Moves
  <2> QED BY <2>1, <2>2
<1>7. CASE ReadSameDayOffers(s)
  <2> DEFINE others == {q \in Requests \ {r} :
                           Status(q) = "ACTIVE" /\ response[q][s].status = "SENT"}
             c == [call[s] EXCEPT !.pc = "inactivate", !.seen = others \X {s}]
  <2>1. call' = [call EXCEPT ![s] = c] /\ UNCHANGED <<request, response>>
    BY <1>0, <1>7 DEF ReadSameDayOffers, CallOK
  <2>2. c.pc = "inactivate" /\ c.req = r /\ c.seen = others \X {s}
    BY <1>0 DEF CallOK, Call
  <2>3. Status(r)' # "NONE"
    BY <1>3, <1>7 DEF ReadSameDayOffers, At
  <2>4. PICK d : d = c
    OBVIOUS
  <2>5. \A q \in Requests, t \in Staff : <<q, t>> \in d.seen => s = t /\ Status(q) = "ACTIVE"
    BY <2>2, <2>4
  <2> HIDE DEF c
  <2>6. Knows(s, d)'
    BY <2>1, <2>2, <2>3, <2>4, <2>5 DEF Knows, FoundFor, Over, Status
  <2>7. \A b \in Actors : CallMove(b)
    BY <1>0, <2>1, <2>2, <2>4, <2>6, KnowingMove
  <2> QED BY <1>2, <2>1, <2>7, AnswersAlone DEF Moves
<1>8. CASE RecordDecline(s)
  <2> DEFINE c == [call[s] EXCEPT !.pc = "tally", !.wave = response[r][s].wave]
             row == [response[r][s] EXCEPT !.status = "DECLINED"]
  <2>1. At(s, "decline") /\ r \in Requests /\ Status(r)' # "NONE"
    BY <1>0, <1>3, <1>8 DEF RecordDecline, At
  <2>2. c.pc = "tally" /\ c.req = r
    BY <1>0 DEF CallOK, Call
  <2>3. call' = [call EXCEPT ![s] = c]
    BY <1>0, <1>8 DEF RecordDecline, CallOK
  <2> HIDE DEF c
  <2>4. \A b \in Actors : CallMove(b)
    BY <1>0, <2>1, <2>2, <2>3, QuietMove DEF Watched
  <2>41. response[r][s] \in ResponseRow
    BY <1>0, <2>1 DEF TypeOK
  <2>5. row \in ResponseRow /\ row.status = "DECLINED"
    BY <2>41 DEF ResponseRow, ResponseStatus
  <2> HIDE DEF row
  <2>6. response' = [response EXCEPT ![r] = [response[r] EXCEPT ![s] = row]]
    BY <1>0, <1>8 DEF RecordDecline, row
  <2>7. response'[r][s] = row => AnswerChange(r, s)
    BY <1>0, <2>1, <2>5 DEF AnswerChange
  <2>8. \A q \in Requests, t \in Staff : AnswerChange(q, t)
    BY <1>0, <2>1, <2>5, <2>6, <2>7, OneAnswer
  <2> QED BY <1>2, <2>4, <2>8 DEF Moves
<1> QED BY <1>4, <1>5, <1>6, <1>7, <1>8 DEF Answer

\* The actions of a dispatch.
LEMMA DispatchMoves ==
  ASSUME KeepInv, Shape, NEW a \in Actors, Dispatch(a)
  PROVE  Moves
<1>r. PICK r : r = call[a].req
  OBVIOUS
<1>0. /\ TypeOK /\ CallOK /\ SearchInv /\ r = call[a].req /\ call[a] \in Call
  BY <1>r DEF KeepInv, SearchInv, TypeOK, CallOK
<1>1. call[a].pc \notin {"idle", "create"}
  BY DEF Dispatch, LoadRequest, FindObsolete, FindStarted, FindNotDue, FindAllWavesUsed,
         FindWave, AdvanceWave, CreateOffer, DeliverOffer, RecordMessage,
         RecordDeliveryFailure, TallyWave, EnqueueNextWave, Selecting, Choosing, At
<1>2. r \in Requests
  BY <1>0, <1>1 DEF CallOK, At
<1>3. Status(r)' # "NONE"
  BY <1>0, <1>1, <1>2, RowsStay DEF KeepInv, CallsKnow, Knows
<1>4. ASSUME UNCHANGED <<response, offered, jobs>>, \A b \in Actors : CallMove(b)
      PROVE  Moves
  BY <1>4, AnswersAlone, OffersAlone, JobsAlone DEF Moves
<1>5. CASE LoadRequest(a)
  <2> DEFINE c == [call[a] EXCEPT !.pc = "select", !.wave = request[r].wave,
                                  !.next = request[r].nextWaveAt]
  <2>1. c.pc = "select" /\ c.req = r
    BY <1>0 DEF Call
  <2>2. call' = [call EXCEPT ![a] = c] \/ Finish(a)
    BY <1>0, <1>5 DEF LoadRequest, CallOK
  <2> HIDE DEF c
  <2>3. \A b \in Actors : CallMove(b)
    BY <1>0, <1>3, <2>1, <2>2, QuietMove, QuietFinish DEF Watched
  <2> QED BY <1>4, <1>5, <2>3 DEF LoadRequest
<1>6. ASSUME NEW pc \in {"close", "fail"}, NEW v, Decide(a, pc, v)
      PROVE  Moves
  <2> DEFINE c == [call[a] EXCEPT !.pc = pc, !.verdict = v]
  <2>1. c.pc = pc /\ c.req = r
    BY <1>0 DEF Call
  <2>2. call' = [call EXCEPT ![a] = c] /\ UNCHANGED <<response, offered, jobs>>
    BY <1>0, <1>6 DEF Decide, CallOK
  <2> HIDE DEF c
  <2>3. \A b \in Actors : CallMove(b)
    BY <1>0, <1>3, <2>1, <2>2, QuietMove DEF Watched
  <2> QED BY <1>4, <2>2, <2>3
<1>7. CASE FindObsolete(a)
  BY <1>6, <1>7 DEF FindObsolete
<1>8. CASE FindStarted(a)
  BY <1>6, <1>8 DEF FindStarted
<1>9. CASE FindNotDue(a)
  <2>1. \A b \in Actors : CallMove(b)
    BY <1>0, <1>3, <1>9, QuietFinish DEF FindNotDue
  <2> QED BY <1>4, <1>9, <2>1 DEF FindNotDue
<1>10. CASE FindAllWavesUsed(a)
  BY <1>6, <1>10 DEF FindAllWavesUsed
<1>11. CASE FindWave(a)
  <2>1. PICK w \in OpenWaves(a) :
          LET cs == Candidates(call[a].req, w)
              next == IF cs = {} THEN now ELSE NextWaveAt(w) IN
          call' = [call EXCEPT ![a] = [@ EXCEPT !.pc = "advance", !.wave = w, !.next = next,
                      !.todo = cs, !.delay = IF cs = {} THEN RetryDelay ELSE next - now]]
    BY <1>11 DEF FindWave
  <2> DEFINE cs == Candidates(call[a].req, w)
             next == IF cs = {} THEN now ELSE NextWaveAt(w)
             c == [call[a] EXCEPT !.pc = "advance", !.wave = w, !.next = next, !.todo = cs,
                                  !.delay = IF cs = {} THEN RetryDelay ELSE next - now]
  <2>2. c.pc = "advance" /\ c.req = r
    BY <1>0 DEF Call
  <2>3. call' = [call EXCEPT ![a] = c]
    BY <1>0, <2>1 DEF CallOK
  <2> HIDE DEF c
  <2>4. \A b \in Actors : CallMove(b)
    BY <1>0, <1>3, <2>2, <2>3, QuietMove DEF Watched
  <2> QED BY <1>4, <1>11, <2>4 DEF FindWave
<1>12. CASE AdvanceWave(a)
  <2> DEFINE c == [call[a] EXCEPT !.pc = IF call[a].todo = {} THEN "enqueue" ELSE "offer",
                                  !.delays = @ \cup {call[a].delay}]
  <2>1. c.pc \in {"enqueue", "offer"} /\ c.req = r
    BY <1>0 DEF Call
  <2>2. call' = [call EXCEPT ![a] = c]
    BY <1>0, <1>12 DEF AdvanceWave, CallOK
  <2> HIDE DEF c
  <2>3. \A b \in Actors : CallMove(b)
    BY <1>0, <1>3, <2>1, <2>2, QuietMove DEF Watched
  <2> QED BY <1>4, <1>12, <2>3 DEF AdvanceWave
<1>13. ASSUME NextOffer(a)
       PROVE  \A b \in Actors : CallMove(b) /\ call'[a].pc # "sending"
  <2> DEFINE c == [call[a] EXCEPT !.to = None,
                                  !.pc = IF call[a].todo = {} THEN "tally" ELSE "offer"]
  <2>1. c.pc \in {"tally", "offer"} /\ c.req = r
    BY <1>0 DEF Call
  <2>2. call' = [call EXCEPT ![a] = c]
    BY <1>0, <1>13 DEF NextOffer, CallOK
  <2> HIDE DEF c
  <2> QED BY <1>0, <1>3, <2>1, <2>2, QuietMove DEF Watched, CallOK
<1>14. CASE CreateOffer(a)
  <2> DEFINE c(s) == [call[a] EXCEPT !.pc = "sending", !.to = s, !.todo = call[a].todo \ {s}]
             row == [status |-> "SENT", wave |-> call[a].wave]
  <2>1. PICK s \in call[a].todo :
          \/ /\ response[r][s].status = "NONE"
             /\ response' = [response EXCEPT ![r][s] = row]
             /\ call' = [call EXCEPT ![a] = c(s)]
             /\ UNCHANGED jobs
          \/ Abort(a) /\ UNCHANGED response
    BY <1>0, <1>14 DEF CreateOffer, CallOK
  <2>2. s \in Staff /\ UNCHANGED <<request, offered>>
    BY <1>0, <1>14 DEF CreateOffer, Call
  <2>3. CASE Abort(a) /\ UNCHANGED response
    <3>1. \A b \in Actors : CallMove(b)
      BY <1>0, <2>3, QuietIdle DEF Abort
    <3>2. \A j \in jobs' : j \in jobs \/ NewJob(j)
      BY <1>0, <1>1, <2>3 DEF Abort, NewJob
    <3> QED BY <2>2, <2>3, <3>1, <3>2, AnswersAlone, OffersAlone DEF Moves
  <2>4. CASE /\ response[r][s].status = "NONE"
             /\ response' = [response EXCEPT ![r][s] = row]
             /\ call' = [call EXCEPT ![a] = c(s)]
             /\ UNCHANGED jobs
    <3>1. row \in ResponseRow /\ row.status = "SENT"
      BY <1>0 DEF Call, ResponseRow, ResponseStatus
    <3> HIDE DEF row
    <3>2. response' = [response EXCEPT ![r] = [response[r] EXCEPT ![s] = row]]
      BY <2>4
    <3>3. response'[r][s] = row
      BY <1>0, <1>2, <2>2, <3>2 DEF TypeOK
    <3>a. AnswerChange(r, s)
      BY <2>4, <3>1, <3>3 DEF AnswerChange
    <3>4. \A q \in Requests, t \in Staff : AnswerChange(q, t)
      BY <1>0, <1>2, <2>2, <3>1, <3>2, <3>a, OneAnswer
    <3>5. call'[a].pc = "sending" /\ call'[a].req = r /\ call'[a].to = s
      BY <1>0, <2>4 DEF CallOK, Call
    <3>6. \A b \in Actors \ {a} : call'[b] = call[b]
      BY <1>0, <2>4 DEF CallOK
    <3>7. s \notin offered'[r]
      BY <1>2, <2>2, <2>4 DEF KeepInv, OffersKnown
    <3>8. Knows(a, call[a])'
      BY <1>3, <3>1, <3>3, <3>5, <3>7 DEF Knows
    <3>9. \A b \in Actors : CallMove(b)
      BY <2>4, <3>5, <3>6, <3>8 DEF CallMove
    <3> QED BY <2>2, <2>4, <3>4, <3>9, OffersAlone DEF Moves
  <2> QED BY <2>1, <2>3, <2>4
<1>15. CASE DeliverOffer(a)
  <2>1. UNCHANGED <<response, jobs>> /\ Goto(a, "sent") /\ At(a, "sending")
    BY <1>15 DEF DeliverOffer
  <2>2. \A b \in Actors : CallMove(b)
    BY <1>0, <1>3, <2>1, QuietGoto DEF Watched, PC
  <2>3. call'[a].pc # "sending"
    BY <1>0, <2>1 DEF Goto, CallOK, Call
  <2>4. offered' = [offered EXCEPT ![r] = offered[r] \cup {call[a].to}]
    BY <1>0, <1>15 DEF DeliverOffer, TypeOK
  <2>5. \A q \in Requests : OfferShown(q)
    <3> SUFFICES ASSUME NEW q \in Requests PROVE OfferShown(q)
      OBVIOUS
    <3>1. CASE q # r
      BY <1>0, <2>4, <3>1 DEF TypeOK, OfferShown
    <3>2. CASE q = r
      <4>1. offered'[r] = offered[r] \cup {call[a].to}
        BY <1>0, <1>2, <2>4 DEF TypeOK
      <4> QED BY <1>0, <2>1, <2>3, <3>2, <4>1 DEF OfferShown
    <3> QED BY <3>1, <3>2
  <2> QED BY <2>1, <2>2, <2>5, AnswersAlone, JobsAlone DEF Moves
<1>16. CASE RecordMessage(a)
  BY <1>4, <1>13, <1>16 DEF RecordMessage
<1>17. CASE RecordDeliveryFailure(a)
  <2>p. PICK s : s = call[a].to
    OBVIOUS
  <2> DEFINE row == [response[r][s] EXCEPT !.status = "DELIVERY_FAILED"]
  <2>1. s \in Staff
    BY <1>0, <1>17, <2>p DEF RecordDeliveryFailure, At, CallOK
  <2>2. response[r][s] \in ResponseRow
    BY <1>0, <1>2, <2>1 DEF TypeOK
  <2>3. row \in ResponseRow /\ row.status = "DELIVERY_FAILED"
    BY <2>2 DEF ResponseRow, ResponseStatus
  <2>4. response' = [response EXCEPT ![r] = [response[r] EXCEPT ![s] = row]]
    <3>1. response' = [response EXCEPT ![r][s].status = "DELIVERY_FAILED"]
      BY <1>0, <1>17, <2>p DEF RecordDeliveryFailure
    <3> QED BY <1>2, <2>1, <3>1
  <2> HIDE DEF row
  <2>5. "ack" \in Faults \/ At(a, "sending")
    BY <1>17 DEF RecordDeliveryFailure
  <2>a. response'[r][s] = row => AnswerChange(r, s)
    BY <1>0, <2>p, <2>3, <2>5 DEF AnswerChange
  <2>6. \A q \in Requests, t \in Staff : AnswerChange(q, t)
    BY <1>0, <1>2, <2>1, <2>3, <2>4, <2>a, OneAnswer
  <2> QED BY <1>13, <1>17, <2>6, OffersAlone, JobsAlone DEF Moves, RecordDeliveryFailure
<1>18. CASE TallyWave(a)
  <2>1. \A b \in Actors : CallMove(b)
    BY <1>0, <1>3, <1>18, QuietFinish, QuietGoto DEF TallyWave, Watched, PC
  <2> QED BY <1>4, <1>18, <2>1 DEF TallyWave
<1>19. CASE EnqueueNextWave(a)
  <2>1. \A b \in Actors : CallMove(b)
    BY <1>0, <1>19, QuietIdle DEF EnqueueNextWave
  <2>2. \A j \in jobs' : j \in jobs \/ NewJob(j)
    BY <1>0, <1>1, <1>19 DEF EnqueueNextWave, NewJob
  <2> QED BY <1>19, <2>1, <2>2, AnswersAlone, OffersAlone DEF Moves, EnqueueNextWave
<1> QED BY <1>5, <1>7, <1>8, <1>9, <1>10, <1>11, <1>12, <1>14, <1>15, <1>16, <1>17, <1>18,
           <1>19 DEF Dispatch

\* The creation of the row and the actions that close it.
LEMMA CloseMoves ==
  ASSUME KeepInv, Shape, NEW a \in Actors, CreateActiveRequest(a) \/ Close(a)
  PROVE  Moves
<1>r. PICK r : r = call[a].req
  OBVIOUS
<1>0. /\ TypeOK /\ CallOK /\ SearchInv /\ r = call[a].req /\ call[a] \in Call
  BY <1>r DEF KeepInv, SearchInv, TypeOK, CallOK
<1>1. call[a].pc # "idle" /\ UNCHANGED <<offered, jobs>>
  BY DEF CreateActiveRequest, Close, FailRequest, NotifyFailure, CloseByScheduleSync,
         ReadOpenResponses, InactivateResponses, At
<1>2. r \in Requests
  BY <1>0, <1>1 DEF CallOK, At
<1>3. call[a].pc # "create" => Status(r) # "NONE" /\ Status(r)' # "NONE"
  BY <1>0, <1>1, <1>2, RowsStay DEF KeepInv, CallsKnow, Knows
<1>4. ASSUME UNCHANGED response, \A b \in Actors : CallMove(b)
      PROVE  Moves
  BY <1>1, <1>4, AnswersAlone, OffersAlone, JobsAlone DEF Moves
<1>5. CASE CreateActiveRequest(a)
  <2>1. CASE call' = [call EXCEPT ![a] = Idle]
    BY <1>0, <1>4, <1>5, <2>1, QuietIdle DEF CreateActiveRequest
  <2>2. CASE request' = [request EXCEPT ![r].status = "ACTIVE",
                            ![r].canonical = Requester[r] # None /\ linked[LocationOf[r]]]
             /\ Goto(a, "load")
    <3>1. Status(r)' = "ACTIVE"
      BY <1>0, <1>2, <2>2 DEF TypeOK, RequestRow, Status
    <3>2. \A b \in Actors : CallMove(b)
      BY <1>0, <2>2, <3>1, QuietGoto DEF Watched, PC
    <3> QED BY <1>4, <1>5, <3>2 DEF CreateActiveRequest
  <2> QED BY <1>0, <1>5, <2>1, <2>2 DEF CreateActiveRequest
<1>6. CASE FailRequest(a)
  <2>1. At(a, "fail") /\ UNCHANGED response /\ Goto(a, "notify")
    BY <1>6 DEF FailRequest
  <2>2. call[a].verdict \in {"EXPIRED", "FAILED"}
    BY <1>0, <2>1 DEF SearchInv, VerdictInv
  <2>3. Status(r)' # "ACTIVE"
    <3>1. CASE Status(r) = "ACTIVE"
      <4>1. request' = [request EXCEPT ![r].status = call[a].verdict, ![r].nextWaveAt = None]
        BY <1>0, <1>6, <3>1 DEF FailRequest
      <4>2. Status(r)' = call[a].verdict
        BY <1>0, <1>2, <4>1 DEF TypeOK, RequestRow, Status
      <4> QED BY <2>2, <4>2
    <3>2. CASE Status(r) # "ACTIVE"
      BY <1>0, <1>6, <3>2 DEF FailRequest, Status
    <3> QED BY <3>1, <3>2
  <2>4. Over(r)'
    BY <1>3, <2>1, <2>3 DEF Over, At
  <2>5. \A b \in Actors : CallMove(b)
    BY <1>0, <1>3, <2>1, <2>4, KnowingGoto DEF PC, At
  <2> QED BY <1>4, <2>1, <2>5
<1>7. CASE NotifyFailure(a)
  <2>1. At(a, "notify") /\ UNCHANGED <<request, response>> /\ Goto(a, "open")
    BY <1>7 DEF NotifyFailure
  <2>2. Over(r)'
    BY <1>0, <2>1 DEF KeepInv, CallsKnow, Knows, At, Over, Status
  <2>3. \A b \in Actors : CallMove(b)
    BY <1>0, <1>3, <2>1, <2>2, KnowingGoto DEF PC, At
  <2> QED BY <1>4, <2>1, <2>3
<1>8. CASE CloseByScheduleSync(a)
  <2>1. At(a, "close") /\ UNCHANGED response
    BY <1>8 DEF CloseByScheduleSync
  <2>2. CASE Finish(a)
    <3>1. \A b \in Actors : CallMove(b)
      BY <1>0, <1>3, <2>1, <2>2, QuietFinish DEF At
    <3> QED BY <1>4, <2>1, <3>1
  <2>3. CASE request' = [request EXCEPT ![r].status = "CLOSED_BY_SCHEDULE_SYNC",
                                        ![r].nextWaveAt = None]
             /\ Goto(a, "open")
    <3>1. Status(r)' = "CLOSED_BY_SCHEDULE_SYNC"
      BY <1>0, <1>2, <2>3 DEF TypeOK, RequestRow, Status
    <3>2. \A b \in Actors : CallMove(b)
      BY <1>0, <2>3, <3>1, KnowingGoto DEF PC, Over
    <3> QED BY <1>4, <2>1, <3>2
  <2> QED BY <1>0, <1>8, <2>2, <2>3 DEF CloseByScheduleSync
<1>9. CASE ReadOpenResponses(a)
  <2> DEFINE c == [call[a] EXCEPT !.pc = "inactivate", !.seen = Sent(r)]
  <2>0. At(a, "open") /\ UNCHANGED <<request, response>> /\ call' = [call EXCEPT ![a] = c]
    BY <1>0, <1>9 DEF ReadOpenResponses, CallOK
  <2>1. c.pc = "inactivate" /\ c.req = r /\ c.seen = Sent(r)
    BY <1>0 DEF Call
  <2>2. PICK d : d = c
    OBVIOUS
  <2> HIDE DEF c
  <2>3. Over(r)
    BY <1>0, <2>0 DEF KeepInv, CallsKnow, Knows, At
  \* An open offer is not the winner's: hers is answered.
  <2>4. ASSUME NEW q \in Requests, NEW t \in Staff, <<q, t>> \in d.seen
        PROVE  (a = t \/ Over(q)) /\ ~ FoundFor(q, t)
    <3>1. q = r /\ response[r][t].status = "SENT"
      BY <2>1, <2>2, <2>4 DEF Sent
    <3> QED BY <1>2, <2>3, <3>1 DEF KeepInv, FoundKeepsItsAcceptance, FoundFor
  <2>5. Knows(a, d)'
    BY <1>3, <2>0, <2>1, <2>2, <2>4 DEF Knows, FoundFor, Over, Status, At
  <2>6. \A b \in Actors : CallMove(b)
    BY <1>0, <2>0, <2>1, <2>2, <2>5, KnowingMove
  <2> QED BY <1>4, <2>0, <2>6
<1>10. CASE InactivateResponses(a)
  <2>1. At(a, "inactivate") /\ Finish(a) /\ SetResponses(call[a].seen, "INACTIVE")
    BY <1>10 DEF InactivateResponses
  <2>2. \A q \in Requests, t \in Staff : AnswerChange(q, t)
    <3> SUFFICES ASSUME NEW q \in Requests, NEW t \in Staff PROVE AnswerChange(q, t)
      OBVIOUS
    <3>1. response[q][t] \in ResponseRow
      BY <1>0 DEF TypeOK
    <3>2. CASE <<q, t>> \in call[a].seen
      <4>1. response'[q][t] = [response[q][t] EXCEPT !.status = "INACTIVE"]
        BY <2>1, <3>2 DEF SetResponses
      <4>2. response'[q][t].status = "INACTIVE"
        BY <3>1, <4>1 DEF ResponseRow
      <4> QED BY <2>1, <3>2, <4>2 DEF AnswerChange
    <3>3. CASE <<q, t>> \notin call[a].seen
      BY <2>1, <3>3 DEF SetResponses, AnswerChange
    <3> QED BY <3>2, <3>3
  <2>3. \A b \in Actors : CallMove(b)
    BY <1>0, <1>3, <2>1, QuietFinish DEF At
  <2> QED BY <1>1, <2>2, <2>3, OffersAlone, JobsAlone DEF Moves
<1> QED BY <1>5, <1>6, <1>7, <1>8, <1>9, <1>10 DEF Close

LEMMA RestMoves ==
  ASSUME KeepInv, Shape,
         \/ UndoConfirmed
         \/ \E j \in jobs : TakeJob(j)
         \/ Tick \/ EditSchedule \/ Crash \/ UNCHANGED vars
  PROVE  Moves
<1>0. /\ TypeOK /\ CallOK /\ SearchInv /\ Admin \in Actors /\ Worker \in Actors
  BY DEF KeepInv, SearchInv, TypeOK, Actors
<1>1. UNCHANGED <<response, offered>>
  BY DEF UndoConfirmed, TakeJob, Tick, EditSchedule, Crash, vars
<1>2. ASSUME \A j \in jobs' : j \in jobs \/ NewJob(j), \A b \in Actors : CallMove(b)
      PROVE  Moves
  BY <1>1, <1>2, AnswersAlone, OffersAlone DEF Moves
<1>3. CASE UndoConfirmed
  <2>r. PICK r : r = call[Admin].req
    OBVIOUS
  <2>1. At(Admin, "undo") /\ UNCHANGED jobs /\ r \in Requests
    BY <1>0, <1>3, <2>r DEF UndoConfirmed, At, CallOK
  <2>2. Status(r)' # "NONE"
    BY <1>0, <2>r, <2>1, RowsStay DEF KeepInv, CallsKnow, Knows, At
  <2>3. CASE Finish(Admin)
    BY <1>0, <1>2, <2>r, <2>1, <2>2, <2>3, QuietFinish
  <2>4. CASE request' = [request EXCEPT ![r].status = "CANCELLED", ![r].nextWaveAt = None]
             /\ Goto(Admin, "open")
    <3>1. Status(r)' = "CANCELLED"
      BY <1>0, <2>1, <2>4 DEF TypeOK, RequestRow, Status
    <3>2. \A b \in Actors : CallMove(b)
      BY <1>0, <2>r, <2>4, <3>1, KnowingGoto DEF PC, Over
    <3> QED BY <1>2, <2>1, <3>2
  <2> QED BY <1>3, <2>r, <2>3, <2>4 DEF UndoConfirmed
<1>4. CASE \E j \in jobs : TakeJob(j)
  <2>1. PICK j \in jobs : TakeJob(j)
    BY <1>4
  <2> DEFINE c == [Idle EXCEPT !.pc = "load", !.req = j.req, !.tries = j.tries]
  <2>2. c.pc = "load" /\ c.req = j.req
    BY DEF Idle
  <2> HIDE DEF c
  <2>3. Status(j.req)' # "NONE"
    BY <2>1 DEF KeepInv, JobsKnow, TakeJob, Status
  <2>4. jobs' \subseteq jobs /\ call' = [call EXCEPT ![Worker] = c]
    BY <2>1 DEF TakeJob, c
  <2>5. \A b \in Actors : CallMove(b)
    BY <1>0, <2>2, <2>3, <2>4, QuietMove DEF Watched
  <2> QED BY <1>2, <2>4, <2>5
<1>5. CASE Tick \/ EditSchedule \/ UNCHANGED vars
  <2>1. \A b \in Actors : CallMove(b)
    BY <1>5 DEF Tick, EditSchedule, vars, CallMove
  <2> QED BY <1>2, <1>5, <2>1 DEF Tick, EditSchedule, vars
<1>6. CASE Crash
  <2>1. \A b \in Actors : call'[b].pc = "idle"
    BY <1>6 DEF Crash, Idle
  <2>2. \A b \in Actors : CallMove(b)
    BY <2>1 DEF CallMove, Knows, At
  <2>3. \A j \in jobs' : j \in jobs \/ NewJob(j) \/ (j.req = call[Worker].req /\ call[Worker].pc = "create")
    BY <1>0, <1>6 DEF Crash, NewJob, At
  <2>4. ~ At(Worker, "create")
    BY <1>0, ActorsAssumption DEF SearchInv, CreatorInv
  <2> QED BY <1>2, <2>2, <2>3, <2>4 DEF At
<1> QED BY <1>3, <1>4, <1>5, <1>6

LEMMA NextMoves ==
  ASSUME KeepInv, [Next]_vars
  PROVE  Moves /\ Shape
<1>0. Shape
  BY NextShape DEF KeepInv
<1>1. ASSUME NEW r \in Requests,
             \/ StartRequest(r) \/ StartAdminRequest(r) \/ CancelRequest(r)
             \/ CancelConfirmedRequestByAdmin(r)
             \/ ReconcileFound(r) \/ ReconcileActive(r)
      PROVE  Moves
  BY <1>0, <1>1, ServiceMoves
<1>2. ASSUME NEW s \in Staff, Answer(s) \/ \E r \in Requests : Accept(s, r) \/ Decline(s, r)
      PROVE  Moves
  BY <1>0, <1>2, AnswerMoves
<1>3. ASSUME NEW a \in Actors, Continue(a)
      PROVE  Moves
  BY <1>0, <1>3, DispatchMoves, CloseMoves, ReconcileMoves DEF Continue
<1> QED BY <1>0, <1>1, <1>2, <1>3, RestMoves DEF Next

---------------------------------------------------------------------------
(* Each part of the stronger invariant survives.                            *)

\* What a waiting call knows stays true while others move.
LEMMA CallsKnowStep ==
  ASSUME KeepInv, TypeOK', Shape, Moves
  PROVE  CallsKnow'
<1> SUFFICES ASSUME NEW a \in Actors PROVE Knows(a, call[a])'
  BY DEF CallsKnow
<1>1. CASE call'[a] # call[a]
  BY <1>1 DEF Moves, CallMove
<1>2. CASE call'[a] = call[a]
  <2>c. PICK c : c = call[a]
    OBVIOUS
  <2>0. Knows(a, c) /\ SearchInv /\ (c.pc # "idle" => c.req \in Requests)
        /\ (c.pc = "sending" => c.to \in Staff)
    BY <2>c DEF KeepInv, CallsKnow, SearchInv, TypeOK, CallOK, At
  <2>1. c.pc \notin {"idle", "create"} => Status(c.req)' # "NONE"
    BY <2>0, RowsStay DEF Knows
  <2>2. c.pc \in {"conflict", "commit"} => a \in offered'[c.req]
    BY <2>0 DEF Knows, Moves, OfferShown
  <2>3. ASSUME c.pc = "sending"
        PROVE  c.to \notin offered'[c.req] /\ response'[c.req][c.to].status # "NONE"
    <3>1. c.to \notin offered[c.req] /\ response[c.req][c.to].status # "NONE"
      BY <2>0, <2>3 DEF Knows
    <3>2. AnswerChange(c.req, c.to)
      BY <2>0, <2>3 DEF Moves
    <3>3. response'[c.req][c.to].status # "NONE"
      BY <3>1, <3>2 DEF AnswerChange
    <3>4. ASSUME c.to \in offered'[c.req]
          PROVE  FALSE
      <4>1. PICK b \in Actors : At(b, "sending") /\ call[b].req = c.req /\ call[b].to = c.to
                                /\ call'[b].pc # "sending"
        BY <2>0, <2>3, <3>1, <3>4 DEF Moves, OfferShown
      <4>2. b = a
        BY <2>c, <2>3, <4>1 DEF KeepInv, SendsApart, At
      <4> QED BY <1>2, <2>c, <2>3, <4>1, <4>2
    <3> QED BY <3>3, <3>4
  <2>4. ASSUME c.pc = "decline", FoundFor(c.req, a)'
        PROVE  FALSE
    <3>1. Status(c.req)' = "FOUND" /\ request'[c.req].replacement = a /\ c.req \in Requests
      BY <2>0, <2>4 DEF FoundFor, Status
    <3>2. (SameRow(c.req) /\ Status(c.req) = "FOUND") \/ (\E s \in Staff : Won(c.req, s))
      BY <2>0, <3>1, NewFound DEF SearchInv
    <3>3. ~ (Status(c.req) = "FOUND" /\ request[c.req].replacement = a)
      BY <2>0, <2>4 DEF Knows, FoundFor
    <3>4. Won(c.req, a)
      BY <3>1, <3>2, <3>3 DEF SameRow, Won
    <3> QED BY <2>c, <2>4, <3>4 DEF Won, At
  <2>5. c.pc \in {"notify", "open"} => Over(c.req)'
    BY <2>0, RowsStay DEF Knows
  <2>6. ASSUME c.pc = "inactivate", NEW q \in Requests, NEW t \in Staff, <<q, t>> \in c.seen
        PROVE  (a = t \/ Over(q)') /\ ~ FoundFor(q, t)'
    <3>1. (a = t \/ Over(q)) /\ ~ FoundFor(q, t)
      BY <2>0, <2>6 DEF Knows
    <3>2. a = t \/ Over(q)'
      BY <2>0, <3>1, RowsStay
    <3>3. ASSUME FoundFor(q, t)'
          PROVE  FALSE
      <4>1. Status(q)' = "FOUND" /\ request'[q].replacement = t
        BY <3>3 DEF FoundFor, Status
      <4>2. (SameRow(q) /\ Status(q) = "FOUND") \/ (\E s \in Staff : Won(q, s))
        BY <2>0, <4>1, NewFound DEF SearchInv
      <4>3. Won(q, t)
        BY <3>1, <4>1, <4>2 DEF SameRow, Won, FoundFor
      <4> QED BY <2>c, <2>6, <3>1, <4>3 DEF Won, At, Over
    <3> QED BY <3>2, <3>3
  <2> QED BY <1>2, <2>c, <2>1, <2>2, <2>3, <2>4, <2>5, <2>6 DEF Knows, FoundFor, Over, Status
<1> QED BY <1>1, <1>2

\* The offer that goes out now is of an answer row just created.
LEMMA SendsApartStep ==
  ASSUME KeepInv, Moves
  PROVE  SendsApart'
<1> SUFFICES ASSUME NEW a \in Actors, NEW b \in Actors, a # b,
                    At(a, "sending")', At(b, "sending")',
                    call'[a].req = call'[b].req, call'[a].to = call'[b].to
             PROVE  FALSE
  BY DEF SendsApart
<1>1. ASSUME NEW x \in Actors, NEW y \in Actors, x # y,
             At(x, "sending")', At(y, "sending")', call'[x] # call[x],
             call'[x].req = call'[y].req, call'[x].to = call'[y].to
      PROVE  FALSE
  <2>1. response[call'[x].req][call'[x].to].status = "NONE" /\ call'[y] = call[y]
    BY <1>1 DEF Moves, CallMove
  <2>2. At(y, "sending") /\ response[call[y].req][call[y].to].status # "NONE"
    BY <1>1, <2>1 DEF KeepInv, CallsKnow, Knows, At
  <2> QED BY <1>1, <2>1, <2>2
<1>2. call'[a] = call[a] /\ call'[b] = call[b]
  BY <1>1
<1> QED BY <1>2 DEF KeepInv, SendsApart, At

LEMMA JobsKnowStep ==
  ASSUME KeepInv, TypeOK', Shape, Moves
  PROVE  JobsKnow'
<1> SUFFICES ASSUME NEW j \in jobs' PROVE Status(j.req)' # "NONE"
  BY DEF JobsKnow
<1>1. j.req \in Requests
  BY DEF TypeOK, Job
<1>2. Status(j.req) # "NONE"
  BY DEF Moves, NewJob, KeepInv, JobsKnow, CallsKnow, Knows
<1> QED BY <1>1, <1>2, RowsStay DEF KeepInv

LEMMA OffersKnownStep ==
  ASSUME KeepInv, TypeOK', Moves
  PROVE  OffersKnown'
<1> SUFFICES ASSUME NEW r \in Requests, NEW s \in offered'[r]
             PROVE  response'[r][s].status # "NONE"
  BY DEF OffersKnown
<1>1. s \in Staff /\ AnswerChange(r, s)
  BY DEF TypeOK, Moves
<1>2. response[r][s].status # "NONE"
  BY DEF Moves, OfferShown, KeepInv, OffersKnown, CallsKnow, Knows, At
<1> QED BY <1>1, <1>2 DEF AnswerChange

LEMMA FoundWasOfferedStep ==
  ASSUME KeepInv, Shape, Moves
  PROVE  FoundWasOffered'
<1> SUFFICES ASSUME NEW r \in Requests, Status(r)' = "FOUND"
             PROVE  request'[r].replacement \in offered'[r]
  BY DEF FoundWasOffered
<1>1. offered[r] \subseteq offered'[r]
  BY DEF Moves, OfferShown
<1>2. (SameRow(r) /\ Status(r) = "FOUND") \/ (\E s \in Staff : Won(r, s))
  BY NewFound DEF KeepInv, SearchInv
<1>3. ASSUME NEW s \in Staff, Won(r, s)
      PROVE  request'[r].replacement \in offered[r]
  BY <1>3 DEF Won, KeepInv, CallsKnow, Knows, At, Actors
<1> QED BY <1>1, <1>2, <1>3 DEF SameRow, KeepInv, FoundWasOffered

\* The winner's answer: of the calls that overwrite answers none has hers.
LEMMA FoundKeepsStep ==
  ASSUME KeepInv, Shape, Moves
  PROVE  FoundKeepsItsAcceptance'
<1> SUFFICES ASSUME NEW r \in Requests, Status(r)' = "FOUND"
             PROVE  /\ request'[r].replacement \in Staff
                    /\ response'[r][request'[r].replacement].status \in
                          {"ACCEPTED"} \cup IF "ack" \in Faults THEN {"DELIVERY_FAILED"} ELSE {}
  BY DEF FoundKeepsItsAcceptance
<1>1. /\ (SameRow(r) /\ Status(r) = "FOUND") \/ (\E s \in Staff : Won(r, s))
      /\ request'[r].replacement \in Staff
  BY NewFound DEF KeepInv, SearchInv
<1>2. ASSUME NEW s \in Staff, Won(r, s)
      PROVE  response'[r][request'[r].replacement].status = "ACCEPTED"
  BY <1>2 DEF Won
<1>3. CASE SameRow(r) /\ Status(r) = "FOUND"
  <2>w. PICK w : w = request[r].replacement
    OBVIOUS
  <2>0. w \in Staff /\ w = request'[r].replacement /\ AnswerChange(r, w) /\ FoundFor(r, w)
        /\ w \in Actors
    BY <1>1, <1>3, <2>w DEF SameRow, Moves, FoundFor, Actors
  <2>1. response[r][w].status \in
          {"ACCEPTED"} \cup IF "ack" \in Faults THEN {"DELIVERY_FAILED"} ELSE {}
    BY <1>3, <2>w DEF KeepInv, FoundKeepsItsAcceptance
  <2>2. ~ (At(w, "decline") /\ call[w].req = r)
    BY <2>0 DEF KeepInv, CallsKnow, Knows, At
  <2>3. ~ \E a \in Actors : At(a, "inactivate") /\ <<r, w>> \in call[a].seen
    BY <2>0 DEF KeepInv, CallsKnow, Knows, At
  <2>4. ~ \E a \in Actors : At(a, "sending") /\ call[a].req = r /\ call[a].to = w
    BY <1>3, <2>w DEF KeepInv, CallsKnow, Knows, At, FoundWasOffered
  <2>5. response'[r][w].status \in
          {"ACCEPTED"} \cup IF "ack" \in Faults THEN {"DELIVERY_FAILED"} ELSE {}
    BY <1>3, <2>0, <2>1, <2>2, <2>3, <2>4 DEF AnswerChange
  <2> QED BY <1>1, <2>0, <2>5
<1> QED BY <1>1, <1>2, <1>3

LEMMA KeepInitial == Init => KeepInv
<1> SUFFICES ASSUME Init PROVE KeepInv
  OBVIOUS
<1>1. \A a \in Actors : call[a].pc = "idle"
  BY DEF Init, Idle
<1>2. CallsKnow /\ SendsApart
  BY <1>1 DEF CallsKnow, Knows, SendsApart, At
<1>3. \A r \in Requests : Status(r) = "NONE" /\ offered[r] = {}
  BY DEF Init, Status, NoRow
<1>4. JobsKnow /\ OffersKnown /\ FoundWasOffered /\ FoundKeepsItsAcceptance
  BY <1>3 DEF Init, JobsKnow, OffersKnown, FoundWasOffered, FoundKeepsItsAcceptance
<1> QED BY <1>2, <1>4, SearchInitial DEF KeepInv

LEMMA KeepInductive == KeepInv /\ [Next]_vars => KeepInv'
<1> SUFFICES ASSUME KeepInv, [Next]_vars PROVE KeepInv'
  OBVIOUS
<1>1. Moves /\ Shape
  BY NextMoves
<1>2. SearchInv' /\ TypeOK'
  BY SearchInductive DEF KeepInv, SearchInv
<1>3. CallsKnow' /\ SendsApart' /\ JobsKnow'
  BY <1>1, <1>2, CallsKnowStep, SendsApartStep, JobsKnowStep
<1>4. OffersKnown' /\ FoundWasOffered' /\ FoundKeepsItsAcceptance'
  BY <1>1, <1>2, OffersKnownStep, FoundWasOfferedStep, FoundKeepsStep
<1> QED BY <1>2, <1>3, <1>4 DEF KeepInv

---------------------------------------------------------------------------
\* The answer of the photographer a found row names stays ACCEPTED (or, when
\* acknowledgements may be lost, the failed delivery of the offer she has
\* answered), whichever stale list, decline or sending comes late.
THEOREM FoundStaysAccepted == Spec => []FoundKeepsItsAcceptance
<1>1. Init => KeepInv
  BY KeepInitial
<1>2. KeepInv /\ [Next]_vars => KeepInv'
  BY KeepInductive
<1>3. KeepInv => FoundKeepsItsAcceptance
  BY DEF KeepInv
<1> QED BY <1>1, <1>2, <1>3, PTL DEF Spec
=============================================================================
