---------------------------- MODULE ReplacementSearch ----------------------------
(***************************************************************************)
(* The bot's own search for a replacement photographer                     *)
(* (src/src/services/replacement-service.ts, requests that carry no        *)
(* awsReplacementPublicId).  A photographer who cannot work a shift starts *)
(* a request; the bot offers it wave by wave to candidates; the first one  *)
(* whose acceptance commits gets the shift.                                *)
(*                                                                         *)
(* Every call of the service is a sequence of awaited database and         *)
(* Telegram operations.  Calls of different actors interleave between any  *)
(* two awaits; grammY's sequentialize (core/bot.ts) runs the updates of    *)
(* one user one after the other, BullMQ's default worker runs one job at a *)
(* time, so an actor has at most one call in flight: call[a].              *)
(*                                                                         *)
(* The model is of one Kyiv day, the scope of every query that relates two *)
(* requests, and of one photographer per location on that day.             *)
(***************************************************************************)
EXTENDS Integers

CONSTANTS
    Requests,       \* rows that may be created in ReplacementRequest
    Staff,          \* photographers; each is also the Telegram user that acts
    Locations,
    None,           \* SQL NULL
    Admin, Worker, ScheduleSync,  \* the other actors that run service calls
    Requester,      \* [Requests -> Staff \cup {None}], None: a manual request
    LocationOf,     \* [Requests -> Locations]
    InitialHolder,  \* who is on the schedule at each location at the start
    InitialLinked,  \* whether the mirror row of each location is linked then
    Edits,          \* <<location, photographer, linked>>: what an edit may write
    Waves, UrgentWave, WaveRank,  \* ReplacementSearchWave and its order
    CandidatesOf,   \* [Requests -> [Waves -> SUBSET Staff]]: location, availability
    NameRank,       \* orderBy fullName
    StartAt,        \* when the shifts of the day start
    UrgentBefore, DayBefore, LongInterval, ShortInterval,
    RetryDelay, MaxAttempts,      \* BullMQ backoff and attempts of a wave job
    MaxTime, MaxCrashes,          \* bounds
    SlowCalls,      \* whether time may pass while a call is in flight
    Faults          \* what may fail: "delivery", "ack", "crash"

Actors == Staff \cup {Admin, Worker, ScheduleSync}

ASSUME RequestsAssumption ==
    /\ Requester \in [Requests -> Staff \cup {None}]
    /\ LocationOf \in [Requests -> Locations]
    /\ None \notin Staff /\ None \notin Requests
    /\ None \notin Waves /\ None \notin Nat
ASSUME ActorsAssumption ==
    /\ Admin \notin Staff /\ Worker \notin Staff /\ ScheduleSync \notin Staff
    /\ Admin # Worker /\ Admin # ScheduleSync /\ Worker # ScheduleSync
ASSUME ScheduleAssumption ==
    /\ InitialHolder \in [Locations -> Staff \cup {None}]
    /\ InitialLinked \in [Locations -> BOOLEAN]
    /\ Edits \subseteq Locations \X (Staff \cup {None}) \X BOOLEAN
ASSUME WavesAssumption ==
    /\ UrgentWave \in Waves
    /\ WaveRank \in [Waves -> Nat]
    /\ CandidatesOf \in [Requests -> [Waves -> SUBSET Staff]]
    /\ NameRank \in [Staff -> Nat]
ASSUME TimeAssumption ==
    /\ {StartAt, UrgentBefore, DayBefore, RetryDelay, MaxTime, MaxCrashes} \subseteq Nat
    /\ {LongInterval, ShortInterval, MaxAttempts} \subseteq Nat \ {0}
    /\ SlowCalls \in BOOLEAN
    /\ Faults \subseteq {"delivery", "ack", "crash"}

VARIABLES
    now,            \* the clock
    holder,         \* WorkShift rows of the day: who works at each location
    linked,         \* whether the mirror row carries its canonical shift id
    request,        \* ReplacementRequest rows
    response,       \* ReplacementResponse rows, one per request and candidate
    offered,        \* candidates whose chat shows the offer with its buttons
    call,           \* the call each actor has in flight
    jobs,           \* delayed replacement-dispatch-wave jobs in Redis
    failureNotice,  \* status of the row when its failure was announced
    crashes

vars == <<now, holder, linked, request, response, offered, call, jobs,
          failureNotice, crashes>>

---------------------------------------------------------------------------
(* Rows, calls and jobs.                                                   *)

RequestStatus == {"NONE", "ACTIVE", "FOUND", "CANCELLED", "EXPIRED", "FAILED",
                  "CLOSED_BY_SCHEDULE_SYNC"}
ResponseStatus == {"NONE", "SENT", "ACCEPTED", "DECLINED", "INACTIVE",
                   "DELIVERY_FAILED"}
CONTACTED == {"SENT", "ACCEPTED", "DECLINED", "INACTIVE"}
RESTART_BLOCKING == {"ACTIVE", "FOUND", "FAILED"}

Time == Nat \cup {None}

RequestRow ==
    [status : RequestStatus, replacement : Staff \cup {None},
     wave : Waves \cup {None}, nextWaveAt : Time, canonical : BOOLEAN]
ResponseRow == [status : ResponseStatus, wave : Waves \cup {None}]

PC == {"idle", "create", "conflict", "commit", "sameDay", "decline", "tally",
       "load", "select", "advance", "offer", "sending", "sent", "enqueue",
       "fail", "notify", "close", "undo", "open", "inactivate",
       "shift", "link", "unlink"}

\* What a call remembers between two awaits.
Call ==
    [pc : PC, req : Requests \cup {None}, wave : Waves \cup {None},
     next : Time, delay : Nat, todo : SUBSET Staff, to : Staff \cup {None},
     seen : SUBSET (Requests \X Staff), delays : SUBSET Nat,
     verdict : RequestStatus, tries : Nat]
Job == [req : Requests, at : Nat, tries : Nat]

Idle == [pc |-> "idle", req |-> None, wave |-> None, next |-> None,
         delay |-> 0, todo |-> {}, to |-> None, seen |-> {}, delays |-> {},
         verdict |-> "NONE", tries |-> 1]

NoRow == [status |-> "NONE", replacement |-> None, wave |-> None,
          nextWaveAt |-> None, canonical |-> FALSE]

Init ==
    /\ now = 0
    /\ holder = InitialHolder
    /\ linked = InitialLinked
    /\ request = [r \in Requests |-> NoRow]
    /\ response = [r \in Requests |-> [s \in Staff |-> [status |-> "NONE", wave |-> None]]]
    /\ offered = [r \in Requests |-> {}]
    /\ call = [a \in Actors |-> Idle]
    /\ jobs = {}
    /\ failureNotice = [r \in Requests |-> "NONE"]
    /\ crashes = 0

\* Actor a continues at pc "to" of the call it has in flight.
Goto(a, to) == call' = [call EXCEPT ![a].pc = to]
\* Actor a begins a call about request r.
Begin(a, r, to) == call' = [call EXCEPT ![a] = [Idle EXCEPT !.pc = to, !.req = r]]
\* Mutant: the call returns without the job of the wave it sent.
FinishWithoutJob(a) == call' = [call EXCEPT ![a] = Idle]

\* The call returns; a wave it sent is still to be followed by its job.
Finish(a) ==
    call' = [call EXCEPT ![a] =
                IF @.delays = {} THEN Idle ELSE [@ EXCEPT !.pc = "enqueue"]]
\* The call throws: BullMQ retries a job, a handler only reports the error.
Abort(a) ==
    /\ call' = [call EXCEPT ![a] = Idle]
    /\ jobs' = IF a = Worker /\ call[a].tries < MaxAttempts
               THEN jobs \cup {[req |-> call[a].req, at |-> now + RetryDelay,
                                tries |-> call[a].tries + 1]}
               ELSE jobs

At(a, pc) == call[a].pc = pc
Status(r) == request[r].status
SetResponses(ids, status) ==
    response' = [r \in Requests |-> [s \in Staff |->
        IF <<r, s>> \in ids THEN [response[r][s] EXCEPT !.status = status]
                            ELSE response[r][s]]]
\* Mutant: every answered offer counts as open.
SentOrAnswered(r) == {<<r, s>> : s \in {t \in Staff : response[r][t].status # "NONE"}}
Sent(r) == {<<r, s>> : s \in {t \in Staff : response[r][t].status = "SENT"}}

---------------------------------------------------------------------------
(* Starting and cancelling a search.                                       *)

SameShift(q, r) == LocationOf[q] = LocationOf[r] /\ Requester[q] = Requester[r]
Linked(r) == request[r].canonical

\* Mutant: only a running search blocks another one.
BlockedByActiveOnly(r) == {q \in Requests \ {r} : Status(q) = "ACTIVE" /\ SameShift(q, r)}

\* Requests that refuse a new search r: the author's own for this location and
\* day, or anybody's ACTIVE one on the canonical shift (the previous holder's).
BlockingRequests(r) ==
    {q \in Requests \ {r} :
        \/ Status(q) \in RESTART_BLOCKING /\ SameShift(q, r)
        \/ Status(q) = "ACTIVE" /\ Linked(q) /\ linked[LocationOf[r]]
           /\ LocationOf[q] = LocationOf[r]}

\* startRequest up to the creation of the row, by the photographer on the shift.
StartRequest(r) ==
    LET s == Requester[r] IN
    /\ s # None
    /\ At(s, "idle")
    /\ Status(r) = "NONE"
    /\ holder[LocationOf[r]] = s
    /\ now < StartAt
    /\ BlockingRequests(r) = {}
    /\ Begin(s, r, "create")
    /\ UNCHANGED <<now, holder, linked, request, response, offered, jobs,
                   failureNotice, crashes>>

\* startAdminRequest: a manual search for a location nobody is scheduled at.
StartAdminRequest(r) ==
    /\ Requester[r] = None
    /\ At(Admin, "idle")
    /\ Status(r) = "NONE"
    /\ holder[LocationOf[r]] = None
    /\ now < StartAt
    /\ \A q \in Requests : LocationOf[q] = LocationOf[r] => Status(q) \notin RESTART_BLOCKING
    /\ Begin(Admin, r, "create")
    /\ UNCHANGED <<now, holder, linked, request, response, offered, jobs,
                   failureNotice, crashes>>

\* The partial unique indexes over ACTIVE rows.
IndexAllows(r, canonical) ==
    \A q \in Requests \ {r} :
        Status(q) = "ACTIVE" /\ LocationOf[q] = LocationOf[r] =>
            /\ ~ (canonical /\ Linked(q))
            /\ ~ (Requester[q] = None /\ Requester[r] = None)

\* createActiveRequest; a P2002 of the unique index becomes REQUEST_ALREADY_ACTIVE.
CreateActiveRequest(a) ==
    LET r == call[a].req
        canonical == Requester[r] # None /\ linked[LocationOf[r]] IN
    /\ At(a, "create")
    /\ IF IndexAllows(r, canonical)
       THEN /\ request' = [request EXCEPT ![r].status = "ACTIVE", ![r].canonical = canonical]
            /\ Goto(a, "load")
       ELSE /\ call' = [call EXCEPT ![a] = Idle]
            /\ UNCHANGED request
    /\ UNCHANGED <<now, holder, linked, response, offered, jobs, failureNotice, crashes>>

\* cancelRequest: compare-and-set on the author's ACTIVE row.
CancelRequest(r) ==
    LET s == Requester[r] IN
    /\ s # None
    /\ At(s, "idle")
    /\ Status(r) = "ACTIVE"
    /\ request' = [request EXCEPT ![r].status = "CANCELLED"]
    /\ Begin(s, r, "open")
    /\ UNCHANGED <<now, holder, linked, response, offered, jobs, failureNotice, crashes>>

\* cancelConfirmedRequestByAdmin: what it reads before its update.
CancelConfirmedRequestByAdmin(r) ==
    /\ At(Admin, "idle")
    /\ Status(r) = "FOUND"
    /\ request[r].replacement # None
    /\ holder[LocationOf[r]] # request[r].replacement
    /\ Begin(Admin, r, "undo")
    /\ UNCHANGED <<now, holder, linked, request, response, offered, jobs,
                   failureNotice, crashes>>

\* Mutant: the withdrawal also clears the photographer.
UndoAndForget ==
    /\ At(Admin, "undo")
    /\ request' = [request EXCEPT ![call[Admin].req].status = "CANCELLED",
                                  ![call[Admin].req].replacement = None]
    /\ Goto(Admin, "open")
    /\ UNCHANGED <<now, holder, linked, response, offered, jobs, failureNotice, crashes>>

\* Its update: compare-and-set on FOUND.  replacementStaffId stays on the row.
UndoConfirmed ==
    LET r == call[Admin].req IN
    /\ At(Admin, "undo")
    /\ IF Status(r) = "FOUND"
       THEN /\ request' = [request EXCEPT ![r].status = "CANCELLED", ![r].nextWaveAt = None]
            /\ Goto(Admin, "open")
       ELSE /\ Finish(Admin)
            /\ UNCHANGED request
    /\ UNCHANGED <<now, holder, linked, response, offered, jobs, failureNotice, crashes>>

---------------------------------------------------------------------------
(* A candidate answers.                                                    *)

\* accept, its first read: an offer of an ACTIVE request that is still SENT.
Accept(s, r) ==
    /\ At(s, "idle")
    /\ s \in offered[r]
    /\ Status(r) = "ACTIVE"
    /\ response[r][s].status = "SENT"
    /\ Begin(s, r, "conflict")
    /\ UNCHANGED <<now, holder, linked, request, response, offered, jobs,
                   failureNotice, crashes>>

\* Mutant: replacements she has already accepted are not counted.
AssignedNowhere(s, r) == FALSE

Assigned(s, r) ==
    \E q \in Requests \ {r} : Status(q) = "FOUND" /\ request[q].replacement = s

HasShiftConflictOnDate(s, r) == (\E l \in Locations : holder[l] = s) \/ Assigned(s, r)

\* The conflict check, outside the transaction that follows it.
CheckConflict(s) ==
    /\ At(s, "conflict")
    /\ IF HasShiftConflictOnDate(s, call[s].req) THEN Finish(s) ELSE Goto(s, "commit")
    /\ UNCHANGED <<now, holder, linked, request, response, offered, jobs,
                   failureNotice, crashes>>

\* Mutant: the row is updated by id, as the response is.
CommitUnguarded(s) ==
    LET r == call[s].req IN
    /\ At(s, "commit")
    /\ request' = [request EXCEPT ![r].status = "FOUND", ![r].replacement = s]
    /\ response' = [response EXCEPT ![r][s].status = "ACCEPTED"]
    /\ Goto(s, "sameDay")
    /\ UNCHANGED <<now, holder, linked, offered, jobs, failureNotice, crashes>>

\* The transaction: the row by compare-and-set, this response to ACCEPTED
\* whatever it is, every other SENT response of the request to INACTIVE.
CommitAcceptance(s) ==
    LET r == call[s].req IN
    /\ At(s, "commit")
    /\ IF Status(r) = "ACTIVE" /\ request[r].replacement = None
       THEN /\ request' = [request EXCEPT ![r] =
                   [@ EXCEPT !.status = "FOUND", !.replacement = s, !.nextWaveAt = None]]
            /\ response' = [response EXCEPT ![r] = [t \in Staff |->
                   IF t = s THEN [@[t] EXCEPT !.status = "ACCEPTED"]
                   ELSE IF @[t].status = "SENT" THEN [@[t] EXCEPT !.status = "INACTIVE"]
                   ELSE @[t]]]
            /\ Goto(s, "sameDay")
       ELSE /\ Finish(s)
            /\ UNCHANGED <<request, response>>
    /\ UNCHANGED <<now, holder, linked, offered, jobs, failureNotice, crashes>>

\* inactivateOtherSameDayOffersForStaff: the read of the other open offers.
ReadSameDayOffers(s) ==
    LET others == {q \in Requests \ {call[s].req} :
                      Status(q) = "ACTIVE" /\ response[q][s].status = "SENT"} IN
    /\ At(s, "sameDay")
    /\ call' = [call EXCEPT ![s].pc = "inactivate", ![s].seen = others \X {s}]
    /\ UNCHANGED <<now, holder, linked, request, response, offered, jobs,
                   failureNotice, crashes>>

\* decline, its first read.
Decline(s, r) ==
    /\ At(s, "idle")
    /\ s \in offered[r]
    /\ Status(r) = "ACTIVE"
    /\ response[r][s].status = "SENT"
    /\ Begin(s, r, "decline")
    /\ UNCHANGED <<now, holder, linked, request, response, offered, jobs,
                   failureNotice, crashes>>

\* The update by id, without a condition on the status.
RecordDecline(s) ==
    LET r == call[s].req IN
    /\ At(s, "decline")
    /\ response' = [response EXCEPT ![r][s].status = "DECLINED"]
    /\ call' = [call EXCEPT ![s].pc = "tally", ![s].wave = response[r][s].wave]
    /\ UNCHANGED <<now, holder, linked, request, offered, jobs, failureNotice, crashes>>

\* decline and sendWave end alike: when no offer of the wave is still open,
\* the next wave is dispatched within the same call.
TallyWave(a) ==
    LET r == call[a].req IN
    /\ At(a, "tally")
    /\ IF \E s \in Staff : response[r][s] = [status |-> "SENT", wave |-> call[a].wave]
       THEN Finish(a)
       ELSE Goto(a, "load")
    /\ UNCHANGED <<now, holder, linked, request, response, offered, jobs,
                   failureNotice, crashes>>

---------------------------------------------------------------------------
(* dispatchNextWave.  It reads the row, decides on that snapshot and on     *)
(* further reads (one instant here), and then writes without comparing.     *)

\* Mutant: a job without its requestId.
TakeNamelessJob(j) ==
    /\ At(Worker, "idle")
    /\ j \in jobs /\ j.at <= now
    /\ jobs' = jobs \ {j}
    /\ call' = [call EXCEPT ![Worker] = [Idle EXCEPT !.pc = "load"]]
    /\ UNCHANGED <<now, holder, linked, request, response, offered, failureNotice, crashes>>

\* The delayed job fires.
TakeJob(j) ==
    /\ At(Worker, "idle")
    /\ j \in jobs /\ j.at <= now
    /\ jobs' = jobs \ {j}
    /\ call' = [call EXCEPT ![Worker] =
                   [Idle EXCEPT !.pc = "load", !.req = j.req, !.tries = j.tries]]
    /\ UNCHANGED <<now, holder, linked, request, response, offered, failureNotice, crashes>>

LoadRequest(a) ==
    LET r == call[a].req IN
    /\ At(a, "load")
    /\ IF Status(r) = "ACTIVE"
       THEN call' = [call EXCEPT ![a].pc = "select", ![a].wave = request[r].wave,
                                 ![a].next = request[r].nextWaveAt]
       ELSE Finish(a)
    /\ UNCHANGED <<now, holder, linked, request, response, offered, jobs,
                   failureNotice, crashes>>

IsRequestObsolete(r) ==
    IF Requester[r] = None THEN holder[LocationOf[r]] # None
                           ELSE holder[LocationOf[r]] # Requester[r]

Due(a) == call[a].wave # None /\ call[a].next # None => call[a].next <= now

WaveSequence == IF StartAt - now <= UrgentBefore THEN {UrgentWave} ELSE Waves \ {UrgentWave}
UsedWaves(a) ==
    {response[call[a].req][s].wave : s \in Staff} \cup {call[a].wave}
OpenWaves(a) == WaveSequence \ UsedWaves(a)
First(w, ws) == w \in ws /\ \A v \in ws : WaveRank[w] <= WaveRank[v]
Last(w, ws) == w \in ws /\ \A v \in ws : WaveRank[v] <= WaveRank[w]

\* getSameReplacementSearchFilter: the requests that search for the same shift.
SameSearch(q, r) ==
    \/ q = r
    \/ LocationOf[q] = LocationOf[r] /\ Linked(q) /\ Linked(r)
    \/ SameShift(q, r)

Candidates(r, w) ==
    {s \in CandidatesOf[r][w] \ {Requester[r]} :
        /\ ~ HasShiftConflictOnDate(s, r)
        /\ \A q \in Requests : SameSearch(q, r) => response[q][s].status \notin CONTACTED}

IntervalAt(t) == IF StartAt - t > DayBefore THEN LongInterval ELSE ShortInterval
\* getNextWaveAtAfterDispatch: the final wave stays open until the shift starts.
NextWaveAt(w) ==
    LET normal == now + IntervalAt(now) IN
    IF Last(w, WaveSequence) /\ StartAt > normal THEN StartAt ELSE normal

\* The decision of a dispatch: what it will write, by the branch it takes.
Decide(a, pc, verdict) ==
    /\ call' = [call EXCEPT ![a].pc = pc, ![a].verdict = verdict]
    /\ UNCHANGED <<now, holder, linked, request, response, offered, jobs,
                   failureNotice, crashes>>

Selecting(a) == At(a, "select") /\ ~ IsRequestObsolete(call[a].req)
Choosing(a) == Selecting(a) /\ now < StartAt /\ Due(a)

FindObsolete(a) ==
    /\ At(a, "select")
    /\ IsRequestObsolete(call[a].req)
    /\ Decide(a, "close", "ACTIVE")

FindStarted(a) == Selecting(a) /\ now >= StartAt /\ Decide(a, "fail", "EXPIRED")

FindNotDue(a) ==
    /\ Selecting(a) /\ now < StartAt /\ ~ Due(a)
    /\ Finish(a)
    /\ UNCHANGED <<now, holder, linked, request, response, offered, jobs,
                   failureNotice, crashes>>

FindAllWavesUsed(a) == Choosing(a) /\ OpenWaves(a) = {} /\ Decide(a, "fail", "FAILED")

\* A wave with candidates is due again after its interval; one without is left
\* at once and followed by a retry.
FindWave(a) ==
    /\ Choosing(a)
    /\ \E w \in OpenWaves(a) :
          /\ First(w, OpenWaves(a))
          /\ LET c == Candidates(call[a].req, w)
                 next == IF c = {} THEN now ELSE NextWaveAt(w) IN
             call' = [call EXCEPT ![a] = [@ EXCEPT !.pc = "advance", !.wave = w, !.next = next,
                         !.todo = c, !.delay = IF c = {} THEN RetryDelay ELSE next - now]]
    /\ UNCHANGED <<now, holder, linked, request, response, offered, jobs,
                   failureNotice, crashes>>

\* The update of currentWave and nextWaveAt by id, whatever the row is now.
AdvanceWave(a) ==
    LET c == call[a] IN
    /\ At(a, "advance")
    /\ request' = [request EXCEPT ![c.req].wave = c.wave, ![c.req].nextWaveAt = c.next]
    /\ call' = [call EXCEPT ![a].pc = IF c.todo = {} THEN "enqueue" ELSE "offer",
                            ![a].delays = @ \cup {c.delay}]
    /\ UNCHANGED <<now, holder, linked, response, offered, jobs, failureNotice, crashes>>

\* sendWave, one candidate by full name: the response row first; its unique
\* index throws P2002.
CreateOffer(a) ==
    LET r == call[a].req IN
    /\ At(a, "offer")
    /\ \E s \in call[a].todo :
          /\ \A t \in call[a].todo : NameRank[s] <= NameRank[t]
          /\ IF response[r][s].status = "NONE"
             THEN /\ response' = [response EXCEPT ![r][s] =
                                     [status |-> "SENT", wave |-> call[a].wave]]
                  /\ call' = [call EXCEPT ![a].pc = "sending", ![a].to = s,
                                          ![a].todo = @ \ {s}]
                  /\ UNCHANGED jobs
             ELSE /\ Abort(a)
                  /\ UNCHANGED response
    /\ UNCHANGED <<now, holder, linked, request, offered, failureNotice, crashes>>

\* Telegram shows the message; the bot has not heard of it yet.
DeliverOffer(a) ==
    /\ At(a, "sending")
    /\ offered' = [offered EXCEPT ![call[a].req] = @ \cup {call[a].to}]
    /\ Goto(a, "sent")
    /\ UNCHANGED <<now, holder, linked, request, response, jobs, failureNotice, crashes>>

\* The loop goes on to the next candidate, or to the count of live offers.
NextOffer(a) ==
    call' = [call EXCEPT ![a] =
                [@ EXCEPT !.to = None, !.pc = IF call[a].todo = {} THEN "tally" ELSE "offer"]]

RecordMessage(a) ==
    /\ At(a, "sent")
    /\ NextOffer(a)
    /\ UNCHANGED <<now, holder, linked, request, response, offered, jobs,
                   failureNotice, crashes>>

\* sendMessage throws without a message, or after it ("ack": the answer of
\* Telegram or the update that stores the message id is lost).
RecordDeliveryFailure(a) ==
    /\ \/ At(a, "sending") /\ "delivery" \in Faults
       \/ At(a, "sent") /\ "ack" \in Faults
    /\ response' = [response EXCEPT ![call[a].req][call[a].to].status = "DELIVERY_FAILED"]
    /\ NextOffer(a)
    /\ UNCHANGED <<now, holder, linked, request, offered, jobs, failureNotice, crashes>>

\* defaultQueue.add, one job for each wave the call has sent or skipped.
EnqueueNextWave(a) ==
    /\ At(a, "enqueue")
    /\ jobs' = jobs \cup {[req |-> call[a].req, at |-> now + d, tries |-> 1] :
                             d \in call[a].delays}
    /\ call' = [call EXCEPT ![a] = Idle]
    /\ UNCHANGED <<now, holder, linked, request, response, offered, failureNotice, crashes>>

---------------------------------------------------------------------------
(* Closing a request.                                                      *)

\* Mutant: the update of failRequest without its guard.
FailUnguarded(a) ==
    /\ At(a, "fail")
    /\ request' = [request EXCEPT ![call[a].req].status = call[a].verdict,
                                  ![call[a].req].nextWaveAt = None]
    /\ Goto(a, "notify")
    /\ UNCHANGED <<now, holder, linked, response, offered, jobs, failureNotice, crashes>>

\* failRequest: guarded update, whose count is not looked at.
FailRequest(a) ==
    LET r == call[a].req IN
    /\ At(a, "fail")
    /\ IF Status(r) = "ACTIVE"
       THEN request' = [request EXCEPT ![r].status = call[a].verdict, ![r].nextWaveAt = None]
       ELSE UNCHANGED request
    /\ Goto(a, "notify")
    /\ UNCHANGED <<now, holder, linked, response, offered, jobs, failureNotice, crashes>>

\* notifyRequesterFailed and notifyAdminFailed, after the row is read again.
NotifyFailure(a) ==
    /\ At(a, "notify")
    /\ failureNotice' = [failureNotice EXCEPT ![call[a].req] = Status(call[a].req)]
    /\ Goto(a, "open")
    /\ UNCHANGED <<now, holder, linked, request, response, offered, jobs, crashes>>

\* closeByScheduleSync: compare-and-set on the status the caller has seen.
CloseByScheduleSync(a) ==
    LET r == call[a].req IN
    /\ At(a, "close")
    /\ IF Status(r) = call[a].verdict
       THEN /\ request' = [request EXCEPT ![r].status = "CLOSED_BY_SCHEDULE_SYNC",
                                          ![r].nextWaveAt = None]
            /\ Goto(a, "open")
       ELSE /\ Finish(a)
            /\ UNCHANGED request
    /\ UNCHANGED <<now, holder, linked, response, offered, jobs, failureNotice, crashes>>

\* inactivateOpenResponses reads the open offers, then updates those ids,
\* whatever they have become in between.
ReadOpenResponses(a) ==
    /\ At(a, "open")
    /\ call' = [call EXCEPT ![a].pc = "inactivate", ![a].seen = Sent(call[a].req)]
    /\ UNCHANGED <<now, holder, linked, request, response, offered, jobs,
                   failureNotice, crashes>>

InactivateResponses(a) ==
    /\ At(a, "inactivate")
    /\ SetResponses(call[a].seen, "INACTIVE")
    /\ Finish(a)
    /\ UNCHANGED <<now, holder, linked, request, offered, jobs, failureNotice, crashes>>

\* classifyAcceptedReplacement = "superseded".
Superseded(r) ==
    LET h == holder[LocationOf[r]]  s == request[r].replacement IN
    /\ h # s
    /\ (\E l \in Locations : holder[l] = s) \/ h \notin {None, Requester[r]}

\* reconcileRequestsChangedBySchedule, one request of its loop.
ReconcileFound(r) ==
    /\ At(ScheduleSync, "idle")
    /\ Status(r) = "FOUND" /\ request[r].replacement # None
    /\ Superseded(r)
    /\ call' = [call EXCEPT ![ScheduleSync] =
                   [Idle EXCEPT !.pc = "close", !.req = r, !.verdict = "FOUND"]]
    /\ UNCHANGED <<now, holder, linked, request, response, offered, jobs,
                   failureNotice, crashes>>

\* The list of its rows; a pass that must leave r as it is, because the schedule
\* is never edited, is left out.
ReconcileActive(r) ==
    /\ At(ScheduleSync, "idle")
    /\ Status(r) = "ACTIVE"
    /\ Edits # {} \/ IsRequestObsolete(r) \/ (Requester[r] # None /\ Linked(r) # linked[LocationOf[r]])
    /\ Begin(ScheduleSync, r, "shift")
    /\ UNCHANGED <<now, holder, linked, request, response, offered, jobs,
                   failureNotice, crashes>>

\* The row is as listed; the shift is read now.
FindShift(a) ==
    LET r == call[a].req  l == linked[LocationOf[r]] IN
    /\ At(a, "shift")
    /\ call' = [call EXCEPT ![a] =
          IF IsRequestObsolete(r) THEN [@ EXCEPT !.pc = "close", !.verdict = "ACTIVE"]
          ELSE IF Requester[r] # None /\ Linked(r) # l THEN [@ EXCEPT !.pc = IF l THEN "link" ELSE "unlink"]
          ELSE Idle]
    /\ UNCHANGED <<now, holder, linked, request, response, offered, jobs,
                   failureNotice, crashes>>

\* The canonical id that it follows is written whatever the row has become; the
\* unique index of the active rows makes the loop throw.
Reattach(a) ==
    LET r == call[a].req  l == At(a, "link") IN
    /\ At(a, "link") \/ At(a, "unlink")
    /\ IF Status(r) = "ACTIVE" => IndexAllows(r, l)
       THEN request' = [request EXCEPT ![r].canonical = l]
       ELSE UNCHANGED request
    /\ call' = [call EXCEPT ![a] = Idle]
    /\ UNCHANGED <<now, holder, linked, response, offered, jobs, failureNotice, crashes>>

---------------------------------------------------------------------------
(* The environment.                                                        *)

Tick ==
    /\ now < MaxTime
    /\ SlowCalls \/ \A a \in Actors : At(a, "idle")
    /\ now' = now + 1
    /\ UNCHANGED <<holder, linked, request, response, offered, call, jobs,
                   failureNotice, crashes>>

\* The schedule mirror is rewritten: a shift changes hands, a row is linked.
EditSchedule ==
    /\ \E e \in Edits :
          /\ holder' = [holder EXCEPT ![e[1]] = e[2]]
          /\ linked' = [linked EXCEPT ![e[1]] = e[3]]
    /\ UNCHANGED <<now, request, response, offered, call, jobs, failureNotice, crashes>>

\* The process dies: calls in flight are lost, BullMQ hands out a stalled job again.
Crash ==
    /\ "crash" \in Faults /\ crashes < MaxCrashes
    /\ crashes' = crashes + 1
    /\ jobs' = IF At(Worker, "idle") THEN jobs
               ELSE jobs \cup {[req |-> call[Worker].req, at |-> now,
                                tries |-> call[Worker].tries]}
    /\ call' = [a \in Actors |-> Idle]
    /\ UNCHANGED <<now, holder, linked, request, response, offered, failureNotice>>

---------------------------------------------------------------------------
Dispatch(a) ==
    \/ LoadRequest(a) \/ FindObsolete(a) \/ FindStarted(a) \/ FindNotDue(a)
    \/ FindAllWavesUsed(a) \/ FindWave(a) \/ AdvanceWave(a)
    \/ CreateOffer(a) \/ DeliverOffer(a) \/ RecordMessage(a)
    \/ RecordDeliveryFailure(a) \/ TallyWave(a) \/ EnqueueNextWave(a)
Close(a) ==
    \/ FailRequest(a) \/ NotifyFailure(a) \/ CloseByScheduleSync(a)
    \/ ReadOpenResponses(a) \/ InactivateResponses(a)
Reconcile(a) == FindShift(a) \/ Reattach(a)
Answer(s) == CheckConflict(s) \/ CommitAcceptance(s) \/ ReadSameDayOffers(s) \/ RecordDecline(s)

\* An actor's call goes on.
Continue(a) == CreateActiveRequest(a) \/ Dispatch(a) \/ Close(a) \/ Reconcile(a)

Next ==
    \/ \E r \in Requests :
          \/ StartRequest(r) \/ StartAdminRequest(r) \/ CancelRequest(r)
          \/ CancelConfirmedRequestByAdmin(r)
          \/ ReconcileFound(r) \/ ReconcileActive(r)
    \/ \E s \in Staff, r \in Requests : Accept(s, r) \/ Decline(s, r)
    \/ \E a \in Actors : Continue(a)
    \/ \E s \in Staff : Answer(s)
    \/ UndoConfirmed
    \/ \E j \in jobs : TakeJob(j)
    \/ Tick \/ EditSchedule \/ Crash

Spec == Init /\ [][Next]_vars

\* The event loop runs every pending continuation, BullMQ every due job, and
\* time passes however busy people keep the bot (SF: with SlowCalls = FALSE it
\* passes between calls only).  Nobody is obliged to press a button.
Fairness ==
    /\ \A a \in Actors : WF_vars(Continue(a))
    /\ \A s \in Staff : WF_vars(Answer(s))
    /\ WF_vars(UndoConfirmed)
    /\ WF_vars(\E j \in jobs : TakeJob(j))
    /\ SF_vars(Tick)
FairSpec == Spec /\ Fairness

---------------------------------------------------------------------------
(* Properties.                                                             *)

CallOK ==
    /\ call \in [Actors -> Call]
    /\ \A a \in Actors : ~ At(a, "idle") => call[a].req \in Requests
    /\ \A a \in Actors : At(a, "sending") \/ At(a, "sent") => call[a].to \in Staff

\* Every variable keeps its shape; a call in flight is about a request, a
\* message on its way has an addressee.
TypeOK ==
    /\ now \in Nat
    /\ holder \in [Locations -> Staff \cup {None}]
    /\ linked \in [Locations -> BOOLEAN]
    /\ request \in [Requests -> RequestRow]
    /\ response \in [Requests -> [Staff -> ResponseRow]]
    /\ offered \in [Requests -> SUBSET Staff]
    /\ CallOK
    /\ jobs \subseteq Job
    /\ failureNotice \in [Requests -> RequestStatus]
    /\ crashes \in Nat

\* Only the photographer the row names has an ACCEPTED answer, and no row that
\* is still searched for has one: two acceptances of one request, or one of a
\* request that another call is closing, never both commit (accept's
\* compare-and-set, against every unguarded write of the other calls).
AcceptedOnlyByWinner ==
    \A r \in Requests, s \in Staff :
        response[r][s].status = "ACCEPTED" =>
            /\ request[r].replacement = s
            /\ Status(r) \in {"FOUND", "CANCELLED", "CLOSED_BY_SCHEDULE_SYNC"}

\* A FOUND row names a photographer, and her answer still says so: no stale
\* list of ids, decline or offer overwrites it.  The one exception is the lost
\* acknowledgement of her offer, which sendWave records as DELIVERY_FAILED
\* after she has answered.
FoundKeepsItsAcceptance ==
    \A r \in Requests : Status(r) = "FOUND" =>
        /\ request[r].replacement \in Staff
        /\ response[r][request[r].replacement].status \in
              {"ACCEPTED"} \cup IF "ack" \in Faults THEN {"DELIVERY_FAILED"} ELSE {}

\* Nobody is the replacement of two requests of the day, although the conflict
\* check runs outside the accepting transaction: her own updates are sequential.
NoDoubleBooking ==
    \A q, r \in Requests :
        Status(q) = "FOUND" /\ Status(r) = "FOUND"
        /\ request[q].replacement = request[r].replacement => q = r

\* One author never has two searches that block each other for one shift,
\* although startRequest checks and creates in separate awaits.
OneSearchPerShift ==
    \A q, r \in Requests :
        /\ Status(q) \in RESTART_BLOCKING /\ Status(r) \in RESTART_BLOCKING
        /\ SameShift(q, r) /\ Requester[r] # None
        => q = r

\* A request closes once: after ACTIVE it is closed for good, except that a
\* found replacement may be withdrawn; whoever closes it loses to nobody later.
ClosedForGood ==
    [][\A r \in Requests : Status(r)' # Status(r) =>
          \/ Status(r) = "NONE" /\ Status(r)' = "ACTIVE"
          \/ Status(r) = "ACTIVE"
          \/ Status(r) = "FOUND"
             /\ Status(r)' \in {"CANCELLED", "CLOSED_BY_SCHEDULE_SYNC"}]_vars

\* The row never loses the photographer who accepted it.
ReplacementIsKept ==
    [][\A r \in Requests : request[r].replacement # None =>
          request'[r].replacement = request[r].replacement]_vars

\* Every search ends: replacement-service.ts lets the local path live beside
\* the canonical one "until the last legacy request closes".
SearchEnds == \A r \in Requests : Status(r) = "ACTIVE" ~> Status(r) # "ACTIVE"

\* "does not message the same photographer again when a cancelled search is
\* restarted for the same shift" (replacement-service.test.ts).
\* The code breaks it: see README.md.
RestartAsksNobodyTwice ==
    \A q, r \in Requests : q # r /\ SameSearch(q, r) => offered[q] \cap offered[r] = {}

\* "keeps the final wave open until the shift starts" (replacement-service.test.ts):
\* a search is given up only when its last wave is due.
\* The code breaks it: see README.md.
FinalWaveStaysOpen ==
    [][\A r \in Requests : Status(r) = "ACTIVE" /\ Status(r)' = "FAILED" =>
          request[r].nextWaveAt = None \/ request[r].nextWaveAt <= now]_vars

\* The failure is announced "when replacement is not found"
\* (replacement-service.test.ts), not for a request found or cancelled meanwhile.
\* The code breaks it: see README.md.
FailureNoticeIsTrue ==
    \A r \in Requests : failureNotice[r] \in {"NONE", "FAILED", "EXPIRED"}
=============================================================================
