-------------------------------- MODULE Parcels --------------------------------
(***************************************************************************)
(* One parcel of a location, from its way through Nova Poshta to the       *)
(* photographs of its contents.  Its row is changed by                     *)
(*   Staff    modules/staff/handlers/logistics.ts, the buttons,            *)
(*   "admin"  handlers/admin/logistics.ts, the support account,            *)
(*   Cycles   logistics-service.ts runLogisticsCycle, every hour, whether  *)
(*            or not the last one has ended,                               *)
(* each a chain of reads, writes and messages.  AWS_PARCELS_CANONICAL_READ *)
(* is on: the web app lists the parcels, Nova Poshta says where they are.  *)
(***************************************************************************)
EXTENDS Naturals, FiniteSets

CONSTANTS
    Staff,      \* photographers of the location
    Cycles,     \* the cycles that may be under way at once
    None,       \* SQL NULL; an unknown code of Nova Poshta
    Scenes,     \* how a behaviour starts and what happens in it
    MaxMishaps, MaxRejections

Actors == Staff \cup {"admin"} \cup Cycles
Closed == {"COMPLETED", "CANCELLED"}
Statuses == Closed \cup {"EXPECTED", "ARRIVED", "PICKUP_IN_PROGRESS", "DELIVERED", "VERIFYING"}
NoRow == "NO_ROW"

\* The marks of the row: photoReminderSentAt, shiftEndReminderSentAt,
\* staleAlertSentAt, claimPromptedAt (of this shift day),
\* outsidePickupAlertSentAt, photoOverdueAlertSentAt, reviewOverdueAlertSentAt.
Marks == {"photo", "end", "stale", "claim", "outside", "overdue", "review"}
\* What else is told: a courier's parcel is hers, "urgent" of rejections, the
\* photographs.
Letters == Marks \cup {"urgent", "album"}

Row == [status : Statuses \cup {NoRow}, loc : BOOLEAN, courier : BOOLEAN,
        resp : Staff \cup {None}, accepted : {"none", "early", "late"},
        photos : BOOLEAN, delivered : {"none", "fresh", "old"},
        verifying : {"none", "fresh", "old"}, marks : SUBSET Marks,
        idle : BOOLEAN, rejections : 0..MaxRejections]
WebRow == [listed : BOOLEAN, loc : BOOLEAN, courier : BOOLEAN]

\* People are not called like the others, and scenes are about rows the code
\* writes, before the refusal that support hears of.
ASSUME StaffAssumption ==
    Staff \cap Cycles = {} /\ "admin" \notin Staff \cup Cycles /\ None \notin Staff
ASSUME SceneAssumption ==
    /\ MaxMishaps \in Nat /\ MaxRejections \in Nat
    /\ \A s \in Scenes :
        /\ s.row \in Row /\ (s.row.resp # None => s.row.accepted # "none")
        /\ (s.row.photos => s.row.status \in Closed \cup {"VERIFYING"}) /\ s.row.rejections < 2
        /\ s.np \in Statuses /\ s.web \in WebRow /\ s.shifts \subseteq SUBSET Staff

VARIABLES
    scene,      \* what this behaviour is about
    row,        \* the row in Postgres
    np,         \* Nova Poshta's word
    web,        \* the web app's list
    evening,    \* the shift of the day is over
    shift,      \* who is on the shift that is told: tomorrow's in the evening
    run,        \* the local variables of each actor
    draft,      \* photographers with photographs in their session
    sent,       \* letters sent since their occasion began, up to 2 (history)
    mishaps
vars == <<scene, row, np, web, evening, shift, run, draft, sent, mishaps>>

Idle == [pc |-> "idle", stage |-> "none", kind |-> "none", was |-> NoRow,
         held |-> "none", seen |-> None, courier |-> FALSE, to |-> None, n |-> 0]

\* Where an actor is in its handler; which part of the cycle looks.
Places == {"idle", "claim", "reject", "escalate", "take", "photos", "submit", "album",
           "manual", "list", "facts", "gone", "track", "read", "create", "write", "notify",
           "look", "assign", "evict", "tell", "mark"}
\* The looks for what is due, in the order of the cycle; support's own is apart.
Rank == [sync |-> 0, follow |-> 1, photo |-> 2, stale |-> 3, overdue |-> 4, end |-> 5,
         handoff |-> 6, manual |-> 7]
Local == [pc : Places, stage : DOMAIN Rank \cup {"none", "facts"},
          kind : Letters \cup {"none", "assign", "evict"}, was : Statuses \cup {NoRow},
          held : {"none", "early", "late"}, seen : Statuses \cup {"REDIRECTED", None},
          courier : BOOLEAN, to : Staff \cup {None}, n : 0..MaxRejections]

TypeOK ==
    /\ scene \in Scenes
    /\ row \in Row
    /\ np \in Statuses \cup {"REDIRECTED"}
    /\ web \in WebRow
    /\ evening \in BOOLEAN
    /\ shift \subseteq Staff
    /\ run \in [Actors -> Local]
    /\ draft \subseteq Staff
    /\ sent \in [Letters -> 0..2]
    /\ mishaps \in 0..MaxMishaps

Init ==
    /\ scene \in Scenes
    /\ row = scene.row
    /\ np = scene.np
    /\ web = scene.web
    /\ evening = FALSE
    /\ shift \in scene.shifts
    /\ run = [a \in Actors |-> Idle]
    /\ draft = {}
    /\ sent = [k \in Letters |-> 0]
    /\ mishaps = 0

---------------------------------------------------------------------------
(* Actors, writes and letters.                                             *)

At(a, pc) == run[a].pc = pc
Goto(a, pc) == run' = [run EXCEPT ![a].pc = pc]
Stop(a) == run' = [run EXCEPT ![a] = Idle]
Quiet == \A a \in Actors : run[a] = Idle
\* An actor is free for something new.  Where the scene does not overlap its
\* handlers, every other one has ended.
Free(a) == run[a] = Idle /\ (scene.overlap \/ Quiet)
May(a, act) == act \in scene.acts /\ a \in scene.people /\ Free(a) /\ row.status # NoRow
world == <<scene, np, web, evening, shift>>
Mishap(k) == k \in scene.faults /\ mishaps < MaxMishaps /\ mishaps' = mishaps + 1

Now == IF evening THEN "late" ELSE "early"

\* The occasion of a letter begins with this write of the row.
Begins(k, r) ==
    \/ k \in {"outside", "overdue", "claim"} /\ r.status = "DELIVERED" /\ row.status # "DELIVERED"
    \/ k \in {"review", "album"} /\ r.status = "VERIFYING" /\ row.status # "VERIFYING"
    \/ k = "stale" /\ r.status = "ARRIVED" /\ row.status # "ARRIVED"
    \/ k \in {"photo", "end"} /\ r.resp # row.resp

\* An update of the row, which moves updatedAt; again are letters it asks for anew.
SaveAnew(r, again) ==
    /\ row' = [r EXCEPT !.idle = FALSE]
    /\ sent' = [k \in Letters |-> IF Begins(k, r) \/ k \in again THEN 0 ELSE sent[k]]
Save(r) == SaveAnew(r, {})
SendOne(k) == sent' = [sent EXCEPT ![k] = IF @ = 2 THEN 2 ELSE @ + 1]

\* Mutants: the marks are cleared at every write, or never.
DeliveredAnew(r, from) ==
    [r EXCEPT !.delivered = "fresh", !.marks = @ \ {"claim", "outside", "overdue"}]
DeliveredKept(r, from) == IF from = "DELIVERED" THEN r ELSE [r EXCEPT !.delivered = "fresh"]

DeliveredEntry(r, from) ==
    IF from = "DELIVERED" THEN r
    ELSE [r EXCEPT !.delivered = "fresh", !.marks = @ \ {"claim", "outside", "overdue"}]
VerifyingEntry(r, from) ==
    IF from = "VERIFYING" THEN r
    ELSE [r EXCEPT !.verifying = "fresh", !.marks = @ \ {"review"}]

---------------------------------------------------------------------------
(* A photographer's buttons.                                               *)

\* Mutant: an old button reopens a closed parcel.
CanAcceptAny(status) == status \notin {NoRow, "VERIFYING"}
CanAccept(status) == status \notin Closed \cup {NoRow, "VERIFYING"}

\* parcel_accept: her own parcel and one that is delivered are only shown.
Accept(a) ==
    /\ May(a, "accept")
    /\ CanAccept(row.status) /\ row.status # "DELIVERED"
    /\ row.resp = None
    /\ Goto(a, "claim")
    /\ UNCHANGED <<world, row, draft, sent, mishaps>>

\* Mutant: the update claims by id.
ClaimByCheck(a) ==
    /\ At(a, "claim")
    /\ Save([row EXCEPT !.resp = a, !.status = "PICKUP_IN_PROGRESS", !.accepted = Now])
    /\ Stop(a)
    /\ UNCHANGED <<world, draft, mishaps>>

\* The guarded update; she is asked for her phone whether or not it took.
Claim(a) ==
    /\ At(a, "claim")
    /\ \/ /\ row.resp = None /\ CanAccept(row.status) /\ row.status # "DELIVERED"
          /\ Save([row EXCEPT !.resp = a, !.status = "PICKUP_IN_PROGRESS", !.accepted = Now])
       \/ /\ row.resp # None \/ ~ CanAccept(row.status) \/ row.status = "DELIVERED"
          /\ UNCHANGED <<row, sent>>
    /\ Stop(a)
    /\ UNCHANGED <<world, draft, mishaps>>

\* A refusal of the holder, or of anyone while there is none.
Reject(a) ==
    /\ May(a, "reject")
    /\ row.resp \in {a, None}
    /\ row.rejections < MaxRejections
    /\ run' = [run EXCEPT ![a] = [@ EXCEPT !.pc = "reject", !.n = row.rejections]]
    /\ UNCHANGED <<world, row, draft, sent, mishaps>>

Critical(n) == n < 2 /\ n + 1 >= 2

\* Mutant: an increment that compares nothing.
CountAnyRejection(a) ==
    /\ At(a, "reject")
    /\ row.rejections < MaxRejections
    /\ Save([row EXCEPT !.rejections = @ + 1])
    /\ IF Critical(run[a].n) THEN Goto(a, "escalate") ELSE Stop(a)
    /\ UNCHANGED <<world, draft, mishaps>>

\* The increment, if nobody has refused since.
CountRejection(a) ==
    /\ At(a, "reject")
    /\ \/ /\ row.rejections = run[a].n
          /\ Save([row EXCEPT !.rejections = @ + 1])
          /\ IF Critical(run[a].n) THEN Goto(a, "escalate") ELSE Stop(a)
       \/ row.rejections # run[a].n /\ Stop(a) /\ UNCHANGED <<row, sent>>
    /\ UNCHANGED <<world, draft, mishaps>>

\* notifySupport logs an error of Telegram.
Escalate(a) ==
    /\ At(a, "escalate")
    /\ \/ SendOne("urgent") /\ UNCHANGED mishaps
       \/ Mishap("send") /\ UNCHANGED sent
    /\ Stop(a)
    /\ UNCHANGED <<world, row, draft>>

\* The photo button, and the photographs she then sends.  An unclaimed parcel
\* that is delivered becomes hers first.
TakePhotos(a) ==
    /\ May(a, "photo")
    /\ row.resp \in {a, None}
    /\ IF row.resp = None /\ row.status = "DELIVERED"
       THEN Goto(a, "take") /\ UNCHANGED draft
       ELSE draft' = draft \cup {a} /\ UNCHANGED run
    /\ UNCHANGED <<world, row, sent, mishaps>>

ClaimForPhotos(a) ==
    /\ At(a, "take")
    /\ \/ /\ row.resp = None /\ row.status = "DELIVERED"
          /\ Save([row EXCEPT !.resp = a, !.accepted = Now, !.marks = @ \ {"photo", "end"}])
          /\ draft' = draft \cup {a}
       \/ /\ row.resp # None \/ row.status # "DELIVERED"
          /\ draft' = IF row.resp = a THEN draft \cup {a} ELSE draft
          /\ UNCHANGED <<row, sent>>
    /\ Stop(a)
    /\ UNCHANGED <<world, mishaps>>

\* "Done": the parcel is hers.
Done(a) ==
    /\ May(a, "photo")
    /\ a \in draft /\ row.resp = a
    /\ Goto(a, "photos")
    /\ UNCHANGED <<world, row, draft, sent, mishaps>>

ReadPhotos(a) ==
    /\ At(a, "photos")
    /\ run' = [run EXCEPT ![a] = [@ EXCEPT !.pc = "submit", !.was = row.status]]
    /\ UNCHANGED <<world, row, draft, sent, mishaps>>

\* The photographs and the status by id, whatever the row is now.  Her draft is
\* in her session, which is kept when the handler ends.
Submit(a) ==
    /\ At(a, "submit")
    /\ Save(VerifyingEntry([row EXCEPT !.photos = TRUE, !.status = "VERIFYING"], run[a].was))
    /\ Goto(a, "album")
    /\ UNCHANGED <<world, draft, mishaps>>

\* A failure asks her to press again, but the draft is gone.
SendAlbum(a) ==
    /\ At(a, "album")
    /\ \/ SendOne("album") /\ UNCHANGED mishaps
       \/ Mishap("send") /\ UNCHANGED sent
    /\ draft' = draft \ {a}
    /\ Stop(a)
    /\ UNCHANGED <<world, row>>

---------------------------------------------------------------------------
(* The support account.                                                    *)

Close(status) ==
    /\ Free("admin") /\ row.status # NoRow
    /\ Save([row EXCEPT !.status = status])
    /\ UNCHANGED <<world, run, draft, mishaps>>
Confirm == "confirm" \in scene.acts /\ Close("COMPLETED")
Delete == "delete" \in scene.acts /\ Close("CANCELLED")

\* Mutant: a parcel under review may be marked.
CanMarkOpen(status) == status \notin Closed
CanMarkPickedUp(status) == status \notin Closed \cup {"VERIFYING"}

\* "Picked Up Manually": the row is read, then written by id.
MarkPickedUp ==
    /\ May("admin", "manual")
    /\ CanMarkPickedUp(row.status)
    /\ run' = [run EXCEPT !["admin"] =
                 [@ EXCEPT !.pc = "manual", !.was = row.status, !.held = row.accepted]]
    /\ UNCHANGED <<world, row, draft, sent, mishaps>>

WritePickedUp ==
    LET me == run["admin"] IN
    /\ At("admin", "manual")
    /\ SaveAnew(DeliveredEntry([row EXCEPT !.status = "DELIVERED",
                                           !.accepted = IF me.held = "none" THEN Now ELSE me.held,
                                           !.marks = @ \ {"stale", "photo", "end"}], me.was),
                {"photo", "end"})
    /\ run' = [run EXCEPT !["admin"] = [Idle EXCEPT !.pc = "notify", !.stage = "manual",
                                                    !.seen = "DELIVERED"]]
    /\ UNCHANGED <<world, draft, mishaps>>

---------------------------------------------------------------------------
(* A cycle: what the web app and Nova Poshta say.                          *)

After(stage) ==
    CASE stage = "sync" -> "follow" [] stage = "follow" -> "photo"
      [] stage = "photo" -> "stale" [] stage = "stale" -> "overdue"
      [] stage = "overdue" -> "end" [] OTHER -> "handoff"
Ahead(a) == {t \in DOMAIN Rank : Rank[t] >= Rank[run[a].stage] /\ (t = "manual" => a = "admin")}

\* What follows when a letter or a look is done with.
Onward(a) ==
    LET stage == run[a].stage IN
    run' = [run EXCEPT ![a] =
        IF stage \in {"handoff", "manual"} THEN Idle
        ELSE IF stage = "facts" THEN [Idle EXCEPT !.pc = "track", !.stage = "sync"]
        ELSE [Idle EXCEPT !.pc = "look", !.stage = After(stage)]]

\* The hourly timer.  It is a mishap that a cycle is still under way by then:
\* startLogisticsLoop does not look.
Tick(c) ==
    /\ c \in scene.people /\ Free(c)
    /\ IF \A d \in Cycles : run[d] = Idle THEN UNCHANGED mishaps ELSE Mishap("slow")
    /\ run' = [run EXCEPT ![c].pc = "list", ![c].stage = "sync"]
    /\ UNCHANGED <<world, row, draft, sent>>

\* The parcels of the web app that are not closed here.  An error of it ends
\* the cycle.
ReadList(c) ==
    /\ At(c, "list")
    /\ \/ /\ row.status \in Closed /\ Onward(c) /\ UNCHANGED mishaps
       \/ /\ row.status \notin Closed
          /\ Goto(c, IF web.listed THEN "facts" ELSE "gone")
          /\ UNCHANGED mishaps
       \/ Mishap("web") /\ Stop(c)
    /\ UNCHANGED <<world, row, draft, sent>>

\* syncCanonicalLocations and syncCanonicalDeliveryTypes: two updates of one
\* column each, written here as one.
SyncFacts(c) ==
    /\ At(c, "facts")
    /\ IF \/ row.status \in Closed \cup {NoRow}
          \/ row.courier = web.courier /\ (row.loc \/ ~ web.loc)
       THEN Goto(c, "track") /\ UNCHANGED <<row, sent>>
       ELSE /\ Save([row EXCEPT !.loc = @ \/ web.loc, !.courier = web.courier])
            /\ IF web.loc /\ ~ row.loc /\ row.status = "ARRIVED"
               THEN run' = [run EXCEPT ![c] = [@ EXCEPT !.pc = "notify", !.stage = "facts",
                                                              !.seen = "ARRIVED"]]
               ELSE Goto(c, "track")
    /\ UNCHANGED <<world, draft, mishaps>>

\* Mutant: only what nobody works on is cancelled.
CancelExpected(c) ==
    /\ At(c, "gone")
    /\ IF scene.others /\ row.status \in {"EXPECTED", "ARRIVED"}
       THEN Save([row EXCEPT !.status = "CANCELLED"])
       ELSE UNCHANGED <<row, sent>>
    /\ Onward(c)
    /\ UNCHANGED <<world, draft, mishaps>>

\* cancelParcelsGoneFromWebapp: the web app does not list this parcel.  Where it
\* lists no other that is open here, or too many are gone, that is taken for a
\* failure of it and nothing is cancelled.
CancelGone(c) ==
    /\ At(c, "gone")
    /\ IF scene.others /\ row.status \notin Closed \cup {NoRow}
       THEN Save([row EXCEPT !.status = "CANCELLED"])
       ELSE UNCHANGED <<row, sent>>
    /\ Onward(c)
    /\ UNCHANGED <<world, draft, mishaps>>

InitialStatus(seen) ==
    IF seen = None THEN "EXPECTED" ELSE IF seen = "REDIRECTED" THEN "CANCELLED" ELSE seen

\* resolveParcelStatusTransition.
Resolve(was, seen, courier) ==
    IF was \in Closed \cup {"VERIFYING"} \/ seen = None THEN was
    ELSE IF seen = "REDIRECTED" THEN "CANCELLED"
    ELSE IF was = "PICKUP_IN_PROGRESS" THEN IF seen = "DELIVERED" THEN seen ELSE was
    ELSE IF courier /\ seen = "DELIVERED" THEN seen
    ELSE IF seen \in {"DELIVERED", "COMPLETED"} /\ was \in {"EXPECTED", "ARRIVED"} THEN "DELIVERED"
    ELSE seen

\* trackParcels answers, with a code the bot may not know.
Track(c) ==
    /\ At(c, "track")
    /\ \E seen \in {np, None} :
          /\ IF seen = np THEN UNCHANGED mishaps ELSE Mishap("track")
          /\ run' = [run EXCEPT ![c] = [@ EXCEPT !.pc = "read", !.seen = seen]]
    /\ UNCHANGED <<world, row, draft, sent>>

\* The row of the number, its status and its courier.
ReadRow(c) ==
    /\ At(c, "read")
    /\ run' = [run EXCEPT ![c] = [@ EXCEPT !.pc = IF row.status = NoRow THEN "create" ELSE "write",
                                           !.was = row.status, !.courier = row.courier]]
    /\ UNCHANGED <<world, row, draft, sent, mishaps>>

\* There was none: it is made by what Nova Poshta says.  The number is unique,
\* so a row that another cycle has made meanwhile is an error that ends this one.
CreateRow(c) ==
    LET status == InitialStatus(run[c].seen) IN
    /\ At(c, "create")
    /\ IF row.status = NoRow
       THEN /\ Save([row EXCEPT !.status = status, !.loc = web.loc, !.courier = web.courier,
                                !.delivered = IF status = "DELIVERED" THEN "fresh" ELSE "none"])
            /\ Onward(c)
       ELSE Stop(c) /\ UNCHANGED <<row, sent>>
    /\ UNCHANGED <<world, draft, mishaps>>

\* The status by id, if it is another than the one just read.
WriteStatus(c) ==
    LET me == run[c]
        next == Resolve(me.was, me.seen, me.courier)
        marked == [row EXCEPT !.status = next, !.marks = @ \ {"stale"}]
    IN
    /\ At(c, "write")
    /\ IF next = me.was THEN Onward(c) /\ UNCHANGED <<row, sent>>
       ELSE /\ Save(IF next = "DELIVERED" THEN DeliveredEntry(marked, me.was) ELSE marked)
            /\ run' = [run EXCEPT ![c] = [Idle EXCEPT !.pc = "notify", !.stage = "sync",
                                                      !.seen = next]]
    /\ UNCHANGED <<world, draft, mishaps>>

\* notifyStaffOnShift: a courier's parcel that nobody holds is followed up, the
\* rest are letters to the shift, or to support if there is none.
Notify(a) ==
    /\ At(a, "notify")
    /\ IF /\ row.loc /\ shift # {} /\ run[a].seen = "DELIVERED"
          /\ row.courier /\ row.resp = None /\ ~ row.photos
       THEN Goto(a, "look")
       ELSE Onward(a)
    /\ UNCHANGED <<world, row, draft, sent, mishaps>>

---------------------------------------------------------------------------
(* A cycle: what is due by the row, is told and is then marked.            *)

Unheld == row.status = "DELIVERED" /\ ~ row.photos /\ row.resp = None /\ row.loc
FollowUp(stage) == stage \in {"follow", "sync", "manual"}

\* Mutants: the handoff takes the parcel from whoever has it; a delivered
\* parcel is overdue only while nobody holds it.
EvictAnybody == row.status = "PICKUP_IN_PROGRESS"
OverdueUnheld == row.status = "DELIVERED" /\ ~ row.photos /\ row.delivered = "old" /\ row.resp = None

Leftover == row.status = "PICKUP_IN_PROGRESS" /\ row.accepted # "late"
PhotoOverdue == row.status = "DELIVERED" /\ ~ row.photos /\ row.delivered = "old"
ReviewOverdue == row.status = "VERIFYING" /\ row.verifying = "old"

\* followUpDeliveredParcel, remindPhotoUpload, checkStaleParcels,
\* alertOverdueParcels, remindBeforeShiftEnd and handoffExpiredShiftParcels.  At
\* a location whose hours are not known (getShiftEndTime) no shift ends.
Due(k, stage) ==
    \/ k = "assign" /\ FollowUp(stage) /\ Unheld /\ row.courier /\ ~ evening /\ Cardinality(shift) = 1
    \/ k = "claim" /\ FollowUp(stage) /\ Unheld /\ row.courier /\ ~ evening /\ Cardinality(shift) > 1
    \/ k = "outside" /\ FollowUp(stage) /\ Unheld /\ ~ row.courier /\ row.delivered # "old"
    \/ /\ k = "photo" /\ stage = "photo" /\ row.status \in {"PICKUP_IN_PROGRESS", "DELIVERED"}
       /\ ~ row.photos /\ row.resp # None /\ row.accepted # "none"
    \/ k = "stale" /\ stage = "stale" /\ row.status = "ARRIVED" /\ row.idle
    \/ k = "overdue" /\ stage = "overdue" /\ PhotoOverdue
    \/ k = "review" /\ stage = "overdue" /\ ReviewOverdue
    \/ /\ k = "end" /\ stage = "end" /\ row.status = "PICKUP_IN_PROGRESS" /\ ~ evening
       /\ row.resp # None /\ row.loc /\ scene.hours
    \/ /\ k = "end" /\ stage = "handoff" /\ row.status = "DELIVERED" /\ evening
       /\ row.resp # None /\ row.loc /\ row.accepted # "late" /\ ~ row.photos
       /\ scene.hours
    \/ /\ k = "evict" /\ stage = "handoff" /\ evening /\ row.resp # None /\ row.loc /\ Leftover
       /\ scene.hours
DueNow(stage) == {k \in (Marks \ row.marks) \cup {"assign", "evict"} : Due(k, stage)}

\* A look may come before its hour: two hours after she took it, two hours
\* before the end of the shift.
MayPass(stage) == DueNow(stage) = {} \/ stage \in {"photo", "end"}

\* The next of the looks that finds something, or none does.
Look(a) ==
    /\ At(a, "look")
    /\ \E stage \in Ahead(a) : \E k \in DueNow(stage) :
          /\ \A t \in Ahead(a) : Rank[t] < Rank[stage] => MayPass(t)
          /\ run' = [run EXCEPT ![a] = [@ EXCEPT !.stage = stage, !.kind = k,
                        !.pc = IF k \in {"assign", "evict"} THEN k ELSE "tell",
                        !.to = IF k = "assign" THEN CHOOSE s \in shift : TRUE ELSE None]]
    /\ UNCHANGED <<world, row, draft, sent, mishaps>>
PassBy(a) ==
    /\ At(a, "look")
    /\ \A t \in Ahead(a) : MayPass(t)
    /\ Stop(a)
    /\ UNCHANGED <<world, row, draft, sent, mishaps>>

\* The only one on shift becomes responsible, unless somebody has taken it.
Assign(a) ==
    /\ At(a, "assign")
    /\ IF row.status = "DELIVERED" /\ row.resp = None /\ ~ row.photos
       THEN Save([row EXCEPT !.resp = run[a].to, !.accepted = Now, !.marks = @ \ {"photo", "end"}])
       ELSE UNCHANGED <<row, sent>>
    /\ Onward(a)
    /\ UNCHANGED <<world, draft, mishaps>>

\* Only the stale alert is marked although its letter failed.
Tell(a) ==
    /\ At(a, "tell")
    /\ \/ SendOne(run[a].kind) /\ Goto(a, "mark") /\ UNCHANGED mishaps
       \/ /\ Mishap("send") /\ UNCHANGED sent
          /\ IF run[a].kind = "stale" THEN Goto(a, "mark") ELSE Onward(a)
    /\ UNCHANGED <<world, row, draft>>

Mark(a) ==
    /\ At(a, "mark")
    /\ Save([row EXCEPT !.marks = @ \cup {run[a].kind}])
    /\ Onward(a)
    /\ UNCHANGED <<world, draft, mishaps>>

\* Mutant: the alert of the last wait stays marked.
EvictMarked(c) ==
    /\ At(c, "evict")
    /\ Save([row EXCEPT !.status = "ARRIVED", !.resp = None, !.accepted = "none",
                        !.marks = @ \ {"end", "photo"}])
    /\ Onward(c)
    /\ UNCHANGED <<world, draft, mishaps>>

\* The parcel goes back to the branch for the next shift, by id; the letters
\* to her and to that shift change nothing.
Evict(c) ==
    /\ At(c, "evict")
    /\ Save([row EXCEPT !.status = "ARRIVED", !.resp = None, !.accepted = "none",
                        !.marks = @ \ {"end", "photo", "stale"}])
    /\ Onward(c)
    /\ UNCHANGED <<world, draft, mishaps>>

---------------------------------------------------------------------------
(* Nova Poshta, the web app, the clock and the process.                    *)

Later(s) ==
    CASE s = "EXPECTED" -> {"ARRIVED", "DELIVERED", "REDIRECTED"}
      [] s = "ARRIVED" -> {"DELIVERED", "REDIRECTED"}
      [] s = "DELIVERED" -> {"COMPLETED"}
      [] OTHER -> {}
NovaPoshtaMoves ==
    /\ np' \in Later(np) \cap scene.news
    /\ UNCHANGED <<scene, row, web, evening, shift, run, draft, sent, mishaps>>
WebAppDrops ==
    /\ "drop" \in scene.acts /\ web.listed
    /\ web' = [web EXCEPT !.listed = FALSE]
    /\ UNCHANGED <<scene, row, np, evening, shift, run, draft, sent, mishaps>>
WebAppLocates ==
    /\ ~ web.loc
    /\ web' = [web EXCEPT !.loc = TRUE]
    /\ UNCHANGED <<scene, row, np, evening, shift, run, draft, sent, mishaps>>

\* Time passes between handlers.  After eight in the evening the shift that is
\* told is the next one, and yesterday's claim prompt is not today's.
Dusk ==
    /\ Quiet /\ ~ evening
    /\ evening' = TRUE
    /\ shift' \in scene.shifts
    /\ row' = [row EXCEPT !.marks = @ \ {"claim"}]
    /\ sent' = [sent EXCEPT !["claim"] = 0]
    /\ UNCHANGED <<scene, np, web, run, draft, mishaps>>
Dawn ==
    /\ Quiet /\ evening
    /\ evening' = FALSE
    /\ row' = [row EXCEPT !.accepted = IF @ = "late" THEN "early" ELSE @]
    /\ UNCHANGED <<scene, np, web, shift, run, draft, sent, mishaps>>
Aged(s) == IF s = "fresh" THEN "old" ELSE s
DaysPass ==
    /\ Quiet
    /\ \/ row.delivered = "fresh" \/ row.verifying = "fresh"
       \/ row.status = "ARRIVED" /\ ~ row.idle
    /\ row' = [row EXCEPT !.delivered = Aged(@), !.verifying = Aged(@), !.idle = TRUE]
    /\ UNCHANGED <<scene, np, web, evening, shift, run, draft, sent, mishaps>>

Crash ==
    /\ ~ Quiet
    /\ Mishap("crash")
    /\ run' = [a \in Actors |-> Idle]
    /\ UNCHANGED <<world, row, draft, sent>>

---------------------------------------------------------------------------

CycleSteps(c) ==
    \/ ReadList(c) \/ SyncFacts(c) \/ CancelGone(c) \/ Track(c) \/ ReadRow(c)
    \/ CreateRow(c) \/ WriteStatus(c) \/ Evict(c)
Steps(a) ==
    \/ Claim(a) \/ CountRejection(a) \/ Escalate(a) \/ ClaimForPhotos(a)
    \/ ReadPhotos(a) \/ Submit(a) \/ SendAlbum(a)
    \/ Notify(a) \/ Look(a) \/ PassBy(a) \/ Assign(a) \/ Tell(a) \/ Mark(a)
    \/ a = "admin" /\ WritePickedUp
    \/ a \in Cycles /\ CycleSteps(a)

Next ==
    \/ \E a \in Staff :
        \/ Accept(a) \/ Claim(a) \/ Reject(a) \/ CountRejection(a) \/ Escalate(a)
        \/ TakePhotos(a) \/ ClaimForPhotos(a) \/ Done(a) \/ ReadPhotos(a)
        \/ Submit(a) \/ SendAlbum(a)
    \/ Confirm \/ Delete \/ MarkPickedUp \/ WritePickedUp
    \/ \E c \in Cycles :
        \/ Tick(c) \/ ReadList(c) \/ SyncFacts(c) \/ CancelGone(c) \/ Track(c)
        \/ ReadRow(c) \/ CreateRow(c) \/ WriteStatus(c) \/ Evict(c)
    \/ \E a \in {"admin"} \cup Cycles :
        Notify(a) \/ Look(a) \/ PassBy(a) \/ Assign(a) \/ Tell(a) \/ Mark(a)
    \/ NovaPoshtaMoves \/ WebAppDrops \/ WebAppLocates
    \/ Dusk \/ Dawn \/ DaysPass \/ Crash

Spec == Init /\ [][Next]_vars

\* Handlers go on, the hourly timer fires and time passes in the end although
\* buttons are pressed in between.  Nobody has to press one.
Fairness ==
    /\ \A a \in Actors : WF_vars(Steps(a))
    /\ SF_vars(\E c \in Cycles : Tick(c)) /\ SF_vars(Dusk \/ Dawn) /\ SF_vars(DaysPass)
FairSpec == Spec /\ Fairness

---------------------------------------------------------------------------

\* The photographs of the contents are with support for good: no stale button,
\* tracking or handoff takes a parcel back from review (parcel-status-transition.ts,
\* 16-27 and 174-186), while handlers do not overlap.
PhotosAreUnderReview ==
    (~ scene.overlap /\ row.photos) => row.status \in Closed \cup {"VERIFYING"}

\* A closed parcel is opened again by nothing but the photographs of her who
\* holds it, while handlers do not overlap.
ClosedStaysClosed ==
    [][~ scene.overlap /\ row.status \in Closed /\ row'.status \notin Closed
        => row'.status = "VERIFYING" /\ row.resp \in draft]_vars

\* Of two photographers, or of one and the cycles, only one becomes responsible,
\* in any interleaving: a parcel changes hands through the handoff alone.
OneHolder == [][row.resp # None => row'.resp \in {row.resp, None}]_vars

\* Whoever takes a parcel after the end of the shift belongs to the next one and
\* keeps it (logistics-service.ts, 943), in any interleaving of a cycle with the
\* buttons.  Not so where a slow cycle meets the next one: the second takes the
\* parcel, by id, from her who took it after the first handed it over.
OneCycle == "slow" \notin scene.faults
LateHolderStays ==
    [][OneCycle /\ row.resp # None /\ row'.resp = None => row.accepted # "late"]_vars

\* Each reminder and alert comes once for its occasion (a holder, a delivery, a
\* review, a wait), unless the process dies between a letter and its mark or
\* handlers overlap; support's "picked up" asks for the holder's two again.
AlertsOnce ==
    ~ scene.overlap => \A k \in Marks : sent[k] <= 1 + mishaps

\* Support hears that a parcel is urgent once, when the second refusal is
\* counted, however the refusals meet.
EscalatedOnce ==
    /\ sent["urgent"] <= 1
    /\ Quiet /\ mishaps = 0 => (sent["urgent"] = 1) = (row.rejections >= 2)

\* No open parcel is forgotten: one that waits in the branch, lies at the
\* location without photographs or waits for its review goes on or support
\* hears of it.  The alert of a wait is lost with its letter.
NothingIsForgotten ==
    /\ row.status = "ARRIVED" ~> (row.status # "ARRIVED" \/ sent["stale"] > 0 \/ mishaps > 0)
    /\ (row.status = "DELIVERED" /\ ~ row.photos)
         ~> (row.status # "DELIVERED" \/ row.photos \/ sent["overdue"] > 0)
    /\ (row.status = "VERIFYING" /\ ~ scene.overlap)
         ~> (row.status \in Closed \/ sent["album"] > 0 \/ sent["review"] > 0)

\* A parcel that was redirected, or that the web app lists no longer among others,
\* is closed here or its photographs are with support.  One that was the last of
\* the list stays as it is: nothing of an empty list is believed.
LastOfList == ~ web.listed /\ ~ scene.others
GoneIsClosed ==
    (np = "REDIRECTED" \/ ~ web.listed) /\ row.status # NoRow
        ~> LastOfList \/ row.status \in Closed \cup {"VERIFYING"}

\* Photographs and ends are final: nothing takes a parcel back from them.
NothingIsTakenBack == []PhotosAreUnderReview /\ ClosedStaysClosed

\* Who has a parcel keeps it, but for the handoff of the shift that is over.
HoldersAreRespected == OneHolder /\ LateHolderStays

\* No reminder, alert or call to support comes twice for one reason.
ToldOnce == AlertsOnce /\ EscalatedOnce

\* Every parcel comes to its end here, or support is told that it does not.
ParcelsAreSettled == NothingIsForgotten /\ GoneIsClosed

\* Not so where two press at once: she whose claim found the parcel taken is
\* asked for her phone all the same (modules/staff/handlers/logistics.ts, 545).
AskedIsHolder ==
    [][\A a \in Staff : At(a, "claim") /\ ~ At(a, "claim")' /\ mishaps' = mishaps
         => row'.resp = a]_vars

---------------------------------------------------------------------------
\* Used by ParcelsProofs: what a handler read before its write still holds.  A
\* parcel about to be handed over has a holder of the shift that is over, and
\* no write of support's in flight can make her one of the next, unless a slow
\* cycle meets another.
StillHolds ==
    /\ \A a \in Staff : At(a, "reject") => run[a].n < MaxRejections
    /\ \A a \in Actors : At(a, "tell") \/ At(a, "mark") => run[a].kind \in Marks
    /\ row.resp # None => row.accepted # "none"
    /\ \A c \in Cycles :
          OneCycle /\ At(c, "evict") => evening /\ row.resp # None /\ row.accepted = "early"
    /\ evening /\ At("admin", "manual") /\ row.accepted = "early"
         => run["admin"].held = "early"
=============================================================================
