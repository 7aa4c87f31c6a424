------------------------------ MODULE ParcelsProofs ------------------------------
(* For any photographers, cycles and scenes: the shapes of the state, that a    *)
(* parcel never passes from one holder to another, and, with CycleAlone, that   *)
(* the handoff spares whoever took it after the shift: StillHolds of Parcels    *)
(* says what a handler has read, or decided, before its unguarded write.  Then, *)
(* with OneAtATime and Urgent, that nothing is told twice and no parcel is      *)
(* taken back from its review.                                                  *)
EXTENDS Parcels, FiniteSetTheorems, TLAPS

Inv == TypeOK /\ StillHolds

\* Where no cycle is slow, one at most is under way.
CycleAlone == OneCycle => \A c, d \in Cycles : run[c] # Idle /\ run[d] # Idle => c = d
Held == Inv /\ CycleAlone

---------------------------------------------------------------------------
(* Actors and writes.                                                      *)

\* The cycles and support are nobody's colleagues.
LEMMA Apart ==
    /\ "admin" \in Actors /\ "admin" \notin Staff /\ "admin" \notin Cycles
    /\ \A c \in Cycles : c \in Actors /\ c # "admin" /\ c \notin Staff
    /\ \A a \in Staff : a \in Actors /\ a # "admin" /\ a \notin Cycles
BY StaffAssumption DEF Actors

\* An actor without a handler.
LEMMA IdleLocal == Idle \in Local /\ Idle.pc = "idle"
BY SceneAssumption DEF Idle, Local, Places, NoRow

\* One actor's variables are replaced, the others keep theirs.
LEMMA RunReplaced ==
    ASSUME run \in [Actors -> Local], NEW a \in Actors, NEW v \in Local,
           run' = [run EXCEPT ![a] = v]
    PROVE  /\ run' \in [Actors -> Local] /\ run'[a] = v
           /\ \A b \in Actors : b # a => run'[b] = run[b]
OBVIOUS

LEMMA Stopped ==
    ASSUME run \in [Actors -> Local], NEW a \in Actors, Stop(a)
    PROVE  /\ run' \in [Actors -> Local] /\ run'[a] = Idle
           /\ \A b \in Actors : b # a => run'[b] = run[b]
BY IdleLocal, RunReplaced DEF Stop

\* The next place of a handler.
LEMMA Gone ==
    ASSUME run \in [Actors -> Local], NEW a \in Actors, NEW pc \in Places, Goto(a, pc)
    PROVE  /\ run' \in [Actors -> Local]
           /\ run'[a] = [run[a] EXCEPT !.pc = pc]
           /\ run'[a].pc = pc /\ run'[a].n = run[a].n /\ run'[a].kind = run[a].kind
           /\ run'[a].held = run[a].held
           /\ \A b \in Actors : b # a => run'[b] = run[b]
BY DEF Goto, Local

\* A write of a row that has its shape.
LEMMA SavedAnew ==
    ASSUME TypeOK, NEW r \in Row, NEW again, SaveAnew(r, again)
    PROVE  /\ row' \in Row /\ sent' \in [Letters -> 0..2]
           /\ row'.status = r.status /\ row'.resp = r.resp /\ row'.accepted = r.accepted
           /\ row'.rejections = r.rejections
<1>1. row' = [r EXCEPT !.idle = FALSE]
  BY DEF SaveAnew
<1>2. row' \in Row
  BY <1>1 DEF Row
<1>3. sent' \in [Letters -> 0..2]
  BY DEF SaveAnew, TypeOK
<1> QED
  BY <1>1, <1>2, <1>3 DEF Row

LEMMA Saved ==
    ASSUME TypeOK, NEW r \in Row, Save(r)
    PROVE  /\ row' \in Row /\ sent' \in [Letters -> 0..2]
           /\ row'.status = r.status /\ row'.resp = r.resp /\ row'.accepted = r.accepted
           /\ row'.rejections = r.rejections
BY SavedAnew DEF Save

LEMMA SentOne ==
    ASSUME TypeOK, NEW k, SendOne(k)
    PROVE  sent' \in [Letters -> 0..2]
<1>1. \A j \in Letters : sent'[j] = sent[j] \/ (sent[j] # 2 /\ sent'[j] = sent[j] + 1) \/ sent'[j] = 2
  BY DEF SendOne, TypeOK
<1>2. sent' = [j \in Letters |-> sent'[j]]
  BY DEF SendOne, TypeOK
<1> QED
  BY <1>1, <1>2 DEF TypeOK

\* A fault is counted within its bound.
LEMMA Faulty ==
    ASSUME TypeOK, NEW k, Mishap(k)
    PROVE  mishaps' \in 0..MaxMishaps
BY SceneAssumption DEF Mishap, TypeOK

\* The marks of an entry leave the rest of the row alone.
LEMMA DeliveredEntryKeeps ==
    ASSUME NEW r \in Row, NEW from
    PROVE  /\ DeliveredEntry(r, from) \in Row
           /\ DeliveredEntry(r, from).status = r.status
           /\ DeliveredEntry(r, from).resp = r.resp
           /\ DeliveredEntry(r, from).accepted = r.accepted
<1>1. CASE from = "DELIVERED"
  BY <1>1 DEF DeliveredEntry
<1>2. CASE from # "DELIVERED"
  BY <1>2 DEF DeliveredEntry, Row
<1> QED
  BY <1>1, <1>2

LEMMA VerifyingEntryKeeps ==
    ASSUME NEW r \in Row, NEW from
    PROVE  /\ VerifyingEntry(r, from) \in Row
           /\ VerifyingEntry(r, from).status = r.status
           /\ VerifyingEntry(r, from).resp = r.resp
           /\ VerifyingEntry(r, from).accepted = r.accepted
<1>1. CASE from = "VERIFYING"
  BY <1>1 DEF VerifyingEntry
<1>2. CASE from # "VERIFYING"
  BY <1>2 DEF VerifyingEntry, Row
<1> QED
  BY <1>1, <1>2

LEMMA EntryKeeps ==
    ASSUME NEW r \in Row, NEW from
    PROVE  /\ DeliveredEntry(r, from) \in Row
           /\ DeliveredEntry(r, from).status = r.status
           /\ DeliveredEntry(r, from).resp = r.resp
           /\ DeliveredEntry(r, from).accepted = r.accepted
           /\ VerifyingEntry(r, from) \in Row
           /\ VerifyingEntry(r, from).status = r.status
           /\ VerifyingEntry(r, from).resp = r.resp
           /\ VerifyingEntry(r, from).accepted = r.accepted
BY DeliveredEntryKeeps, VerifyingEntryKeeps

\* A step of one actor that has not just decided or read something leaves what
\* the others know true, if nobody loses the parcel by it.
Forgetful == Places \ {"reject", "tell", "mark", "evict", "manual"}
LEMMA HoldsStill ==
    ASSUME Inv, NEW a \in Actors, run' \in [Actors -> Local],
           \A b \in Actors : b # a => run'[b] = run[b],
           run'[a].pc \in Forgetful, evening' = evening, scene' = scene,
           \/ row'.resp = row.resp /\ row'.accepted = row.accepted
           \/ row.resp = None /\ row'.accepted = Now
    PROVE  StillHolds'
<1>1. \A b \in Actors : At(b, "reject")' \/ At(b, "tell")' \/ At(b, "mark")'
                          \/ At(b, "evict")' \/ At(b, "manual")' => run'[b] = run[b]
  BY DEF At, Forgetful
<1>2. (\A b \in Staff : At(b, "reject") => run[b].n < MaxRejections)'
  BY <1>1, Apart DEF Inv, StillHolds, At
<1>3. (\A b \in Actors : At(b, "tell") \/ At(b, "mark") => run[b].kind \in Marks)'
  BY <1>1 DEF Inv, StillHolds, At
<1>4. (row.resp # None => row.accepted # "none")'
  BY DEF Inv, StillHolds, Now
<1>5. (\A c \in Cycles :
          OneCycle /\ At(c, "evict") => evening /\ row.resp # None /\ row.accepted = "early")'
  BY <1>1, Apart DEF Inv, StillHolds, At, OneCycle
<1>6. (evening /\ At("admin", "manual") /\ row.accepted = "early"
         => run["admin"].held = "early")'
  BY <1>1, Apart DEF Inv, StillHolds, At, Now
<1> QED
  BY <1>2, <1>3, <1>4, <1>5, <1>6 DEF StillHolds

\* The types of what most steps leave alone.
LEMMA TypesKept ==
    ASSUME TypeOK, scene' = scene, np' = np, web' = web, evening' = evening, shift' = shift,
           row' \in Row, run' \in [Actors -> Local], draft' \subseteq Staff,
           sent' \in [Letters -> 0..2], mishaps' \in 0..MaxMishaps
    PROVE  TypeOK'
BY DEF TypeOK

---------------------------------------------------------------------------
(* The photographers.                                                      *)

LEMMA AcceptStep ==
    ASSUME Inv, NEW a \in Staff, Accept(a)
    PROVE  Inv'
<1>1. a \in Actors /\ run' \in [Actors -> Local] /\ run'[a].pc = "claim"
      /\ \A b \in Actors : b # a => run'[b] = run[b]
  BY Gone, Apart DEF Accept, Inv, TypeOK, Places
<1>2. TypeOK'
  BY <1>1, TypesKept DEF Accept, world, Inv, TypeOK
<1>3. StillHolds'
  BY <1>1, HoldsStill DEF Accept, world, Forgetful, Places
<1> QED
  BY <1>2, <1>3 DEF Inv

LEMMA ClaimStep ==
    ASSUME Inv, NEW a \in Staff, Claim(a)
    PROVE  Inv'
<1>1. a \in Actors /\ run' \in [Actors -> Local] /\ run'[a].pc = "idle"
      /\ \A b \in Actors : b # a => run'[b] = run[b]
  BY Stopped, IdleLocal, Apart DEF Claim, Inv, TypeOK
<1>2. /\ row' \in Row /\ sent' \in [Letters -> 0..2]
      /\ \/ row'.resp = row.resp /\ row'.accepted = row.accepted
         \/ row.resp = None /\ row'.accepted = Now
  <2>1. CASE UNCHANGED <<row, sent>>
    BY <2>1 DEF Inv, TypeOK
  <2>2. CASE row.resp = None
             /\ Save([row EXCEPT !.resp = a, !.status = "PICKUP_IN_PROGRESS", !.accepted = Now])
    <3> DEFINE r == [row EXCEPT !.resp = a, !.status = "PICKUP_IN_PROGRESS", !.accepted = Now]
    <3>1. r \in Row /\ r.accepted = Now
      BY DEF Inv, TypeOK, Row, Statuses, Now
    <3> QED
      BY <2>2, <3>1, Saved DEF Inv
  <2> QED
    BY <2>1, <2>2 DEF Claim
<1>3. TypeOK'
  BY <1>1, <1>2, TypesKept DEF Claim, world, Inv, TypeOK
<1>4. StillHolds'
  BY <1>1, <1>2, HoldsStill DEF Claim, world, Forgetful, Places
<1> QED
  BY <1>3, <1>4 DEF Inv

LEMMA RejectStep ==
    ASSUME Inv, NEW a \in Staff, Reject(a)
    PROVE  Inv'
<1>1. a \in Actors /\ run' \in [Actors -> Local]
      /\ run'[a].pc = "reject" /\ run'[a].n = row.rejections
      /\ \A b \in Actors : b # a => run'[b] = run[b]
  <2> DEFINE v == [run[a] EXCEPT !.pc = "reject", !.n = row.rejections]
  <2>1. v \in Local /\ v.pc = "reject" /\ v.n = row.rejections
    <3>1. run[a] \in Local /\ row.rejections \in 0..MaxRejections
      BY Apart DEF Inv, TypeOK, Row
    <3> QED
      BY ZenonT(60), <3>1 DEF Local, Places
  <2>2. run' = [run EXCEPT ![a] = v]
    BY DEF Reject
  <2> QED
    BY <2>1, <2>2, RunReplaced, Apart DEF Inv, TypeOK
<1>2. TypeOK'
  BY <1>1, TypesKept DEF Reject, world, Inv, TypeOK
<1>3. StillHolds'
  BY <1>1, Apart DEF Reject, world, Inv, StillHolds, At, OneCycle
<1> QED
  BY <1>2, <1>3 DEF Inv

LEMMA CountRejectionStep ==
    ASSUME Inv, NEW a \in Staff, CountRejection(a)
    PROVE  Inv'
<1>1. a \in Actors /\ run' \in [Actors -> Local] /\ run'[a].pc \in Forgetful
      /\ \A b \in Actors : b # a => run'[b] = run[b]
  <2>1. CASE Goto(a, "escalate")
    BY <2>1, Gone, Apart DEF Inv, TypeOK, Places, Forgetful
  <2>2. CASE Stop(a)
    BY <2>2, Stopped, IdleLocal, Apart DEF Inv, TypeOK, Places, Forgetful
  <2> QED
    BY <2>1, <2>2 DEF CountRejection
<1>2. row' \in Row /\ sent' \in [Letters -> 0..2]
      /\ row'.resp = row.resp /\ row'.accepted = row.accepted
  <2>1. CASE UNCHANGED <<row, sent>>
    BY <2>1 DEF Inv, TypeOK
  <2>2. CASE row.rejections = run[a].n /\ Save([row EXCEPT !.rejections = @ + 1])
    <3> DEFINE r == [row EXCEPT !.rejections = @ + 1]
    <3>1. run[a].n < MaxRejections
      BY DEF CountRejection, Inv, StillHolds
    <3>2. r \in Row /\ r.resp = row.resp /\ r.accepted = row.accepted
      BY <2>2, <3>1, SceneAssumption DEF Inv, TypeOK, Row
    <3> QED
      BY <2>2, <3>2, Saved DEF Inv
  <2> QED
    BY <2>1, <2>2 DEF CountRejection
<1>3. TypeOK'
  BY <1>1, <1>2, TypesKept DEF CountRejection, world, Inv, TypeOK
<1>4. StillHolds'
  BY <1>1, <1>2, HoldsStill DEF CountRejection, world
<1> QED
  BY <1>3, <1>4 DEF Inv

\* A letter that is sent, or lost and counted, moves only the history.
LEMMA LetterStep ==
    ASSUME Inv, NEW a \in Actors, NEW k, UNCHANGED <<world, row>>, draft' \subseteq draft,
           \/ SendOne(k) /\ UNCHANGED mishaps
           \/ Mishap("send") /\ UNCHANGED sent,
           Stop(a)
    PROVE  Inv'
<1>1. run' \in [Actors -> Local] /\ run'[a].pc = "idle"
      /\ \A b \in Actors : b # a => run'[b] = run[b]
  BY Stopped, IdleLocal DEF Inv, TypeOK
<1>2. sent' \in [Letters -> 0..2] /\ mishaps' \in 0..MaxMishaps
  BY SentOne, Faulty DEF Inv, TypeOK
<1>3. TypeOK'
  BY <1>1, <1>2, TypesKept DEF world, Inv, TypeOK
<1>4. StillHolds'
  BY <1>1, HoldsStill DEF world, Forgetful, Places
<1> QED
  BY <1>3, <1>4 DEF Inv

LEMMA EscalateStep ==
    ASSUME Inv, NEW a \in Staff, Escalate(a)
    PROVE  Inv'
BY LetterStep, Apart DEF Escalate

LEMMA SendAlbumStep ==
    ASSUME Inv, NEW a \in Staff, SendAlbum(a)
    PROVE  Inv'
BY LetterStep, Apart DEF SendAlbum

LEMMA TakePhotosStep ==
    ASSUME Inv, NEW a \in Staff, TakePhotos(a)
    PROVE  Inv'
<1>1. CASE UNCHANGED run /\ draft' = draft \cup {a}
  <2>1. TypeOK'
    BY <1>1, TypesKept DEF TakePhotos, world, Inv, TypeOK
  <2>2. StillHolds'
    BY <1>1 DEF TakePhotos, world, Inv, StillHolds, At, OneCycle
  <2> QED
    BY <2>1, <2>2 DEF Inv
<1>2. CASE Goto(a, "take") /\ UNCHANGED draft
  <2>1. a \in Actors /\ run' \in [Actors -> Local] /\ run'[a].pc = "take"
        /\ \A b \in Actors : b # a => run'[b] = run[b]
    BY <1>2, Gone, Apart DEF Inv, TypeOK, Places
  <2>2. TypeOK'
    BY <1>2, <2>1, TypesKept DEF TakePhotos, world, Inv, TypeOK
  <2>3. StillHolds'
    BY <2>1, HoldsStill DEF TakePhotos, world, Forgetful, Places
  <2> QED
    BY <2>2, <2>3 DEF Inv
<1> QED
  BY <1>1, <1>2 DEF TakePhotos

LEMMA ClaimForPhotosStep ==
    ASSUME Inv, NEW a \in Staff, ClaimForPhotos(a)
    PROVE  Inv'
<1>1. a \in Actors /\ run' \in [Actors -> Local] /\ run'[a].pc = "idle"
      /\ \A b \in Actors : b # a => run'[b] = run[b]
  BY Stopped, IdleLocal, Apart DEF ClaimForPhotos, Inv, TypeOK
<1>2. /\ row' \in Row /\ sent' \in [Letters -> 0..2] /\ draft' \subseteq Staff
      /\ \/ row'.resp = row.resp /\ row'.accepted = row.accepted
         \/ row.resp = None /\ row'.accepted = Now
  <2> DEFINE r == [row EXCEPT !.resp = a, !.accepted = Now, !.marks = @ \ {"photo", "end"}]
  <2>1. CASE UNCHANGED <<row, sent>>
    BY <2>1 DEF ClaimForPhotos, Inv, TypeOK
  <2>2. CASE row.resp = None /\ Save(r)
    <3>1. r \in Row /\ r.accepted = Now
      BY DEF Inv, TypeOK, Row, Now
    <3> QED
      BY <2>2, <3>1, Saved DEF ClaimForPhotos, Inv, TypeOK
  <2> QED
    BY <2>1, <2>2 DEF ClaimForPhotos
<1>3. TypeOK'
  BY <1>1, <1>2, TypesKept DEF ClaimForPhotos, world, Inv, TypeOK
<1>4. StillHolds'
  BY <1>1, <1>2, HoldsStill DEF ClaimForPhotos, world, Forgetful, Places
<1> QED
  BY <1>3, <1>4 DEF Inv

LEMMA DoneStep ==
    ASSUME Inv, NEW a \in Staff, Done(a)
    PROVE  Inv'
<1>1. a \in Actors /\ run' \in [Actors -> Local] /\ run'[a].pc = "photos"
      /\ \A b \in Actors : b # a => run'[b] = run[b]
  BY ZenonT(60), Gone, Apart DEF Done, Inv, TypeOK, Places
<1>2. TypeOK'
  BY <1>1, TypesKept DEF Done, world, Inv, TypeOK
<1>3. StillHolds'
  BY <1>1, HoldsStill DEF Done, world, Forgetful, Places
<1> QED
  BY <1>2, <1>3 DEF Inv

LEMMA ReadPhotosStep ==
    ASSUME Inv, NEW a \in Staff, ReadPhotos(a)
    PROVE  Inv'
<1>1. a \in Actors /\ run' \in [Actors -> Local] /\ run'[a].pc = "submit"
      /\ \A b \in Actors : b # a => run'[b] = run[b]
  <2> DEFINE v == [run[a] EXCEPT !.pc = "submit", !.was = row.status]
  <2>1. run[a] \in Local /\ row.status \in Statuses \cup {NoRow}
    BY Apart DEF Inv, TypeOK, Row
  <2>2. v \in Local /\ v.pc = "submit"
    BY ZenonT(60), <2>1 DEF Local, Places
  <2>3. run' = [run EXCEPT ![a] = v]
    BY DEF ReadPhotos
  <2> QED
    BY <2>2, <2>3, RunReplaced, Apart DEF Inv, TypeOK
<1>2. TypeOK'
  BY <1>1, TypesKept DEF ReadPhotos, world, Inv, TypeOK
<1>3. StillHolds'
  BY <1>1, HoldsStill DEF ReadPhotos, world, Forgetful, Places
<1> QED
  BY <1>2, <1>3 DEF Inv

LEMMA SubmitStep ==
    ASSUME Inv, NEW a \in Staff, Submit(a)
    PROVE  Inv'
<1>1. a \in Actors /\ run' \in [Actors -> Local] /\ run'[a].pc = "album"
      /\ \A b \in Actors : b # a => run'[b] = run[b]
  BY Gone, Apart DEF Submit, Inv, TypeOK, Places
<1>2. row' \in Row /\ sent' \in [Letters -> 0..2]
      /\ row'.resp = row.resp /\ row'.accepted = row.accepted
  <2> DEFINE r == [row EXCEPT !.photos = TRUE, !.status = "VERIFYING"]
  <2>1. r \in Row /\ r.resp = row.resp /\ r.accepted = row.accepted
    BY DEF Inv, TypeOK, Row, Statuses
  <2> DEFINE q == VerifyingEntry(r, run[a].was)
  <2>2. q \in Row /\ q.resp = row.resp /\ q.accepted = row.accepted
    BY <2>1, EntryKeeps
  <2>3. Save(q)
    BY DEF Submit
  <2> HIDE DEF q
  <2> QED
    BY <2>2, <2>3, Saved DEF Inv
<1>3. TypeOK'
  BY <1>1, <1>2, TypesKept DEF Submit, world, Inv, TypeOK
<1>4. StillHolds'
  BY <1>1, <1>2, HoldsStill DEF Submit, world, Forgetful, Places
<1> QED
  BY <1>3, <1>4 DEF Inv

---------------------------------------------------------------------------
(* The support account.                                                    *)

LEMMA CloseStep ==
    ASSUME Inv, NEW status \in Closed, Close(status)
    PROVE  Inv'
<1>1. row' \in Row /\ sent' \in [Letters -> 0..2]
      /\ row'.resp = row.resp /\ row'.accepted = row.accepted
  <2> DEFINE r == [row EXCEPT !.status = status]
  <2>1. r \in Row /\ r.resp = row.resp /\ r.accepted = row.accepted
    BY DEF Inv, TypeOK, Row, Statuses
  <2> QED
    BY <2>1, Saved DEF Close, Inv
<1>2. TypeOK'
  BY <1>1, TypesKept DEF Close, world, Inv, TypeOK
<1>3. StillHolds'
  BY <1>1 DEF Close, world, Inv, StillHolds, At, OneCycle
<1> QED
  BY <1>2, <1>3 DEF Inv

\* What support read is the holder's shift of now, or nobody's.
LEMMA MarkPickedUpStep ==
    ASSUME Inv, MarkPickedUp
    PROVE  Inv'
<1>1. run' \in [Actors -> Local]
      /\ run'["admin"].pc = "manual" /\ run'["admin"].held = row.accepted
      /\ \A b \in Actors : b # "admin" => run'[b] = run[b]
  <2> DEFINE v == [run["admin"] EXCEPT !.pc = "manual", !.was = row.status, !.held = row.accepted]
  <2>1. run["admin"] \in Local /\ row.status \in Statuses \cup {NoRow}
        /\ row.accepted \in {"none", "early", "late"}
    BY Apart DEF Inv, TypeOK, Row
  <2>2. v \in Local /\ v.pc = "manual" /\ v.held = row.accepted
    BY ZenonT(60), <2>1 DEF Local, Places
  <2>3. run' = [run EXCEPT !["admin"] = v]
    BY DEF MarkPickedUp
  <2> QED
    BY <2>2, <2>3, RunReplaced, Apart DEF Inv, TypeOK
<1>2. TypeOK'
  BY <1>1, TypesKept DEF MarkPickedUp, world, Inv, TypeOK
<1>3. StillHolds'
  BY <1>1, Apart DEF MarkPickedUp, world, Inv, StillHolds, At, OneCycle
<1> QED
  BY <1>2, <1>3 DEF Inv

\* She whose parcel is about to be handed over keeps her shift.
LEMMA WritePickedUpStep ==
    ASSUME Inv, WritePickedUp
    PROVE  Inv'
<1> DEFINE taken == IF run["admin"].held = "none" THEN Now ELSE run["admin"].held
           r == [row EXCEPT !.status = "DELIVERED", !.accepted = taken,
                            !.marks = @ \ {"stale", "photo", "end"}]
           v == [Idle EXCEPT !.pc = "notify", !.stage = "manual", !.seen = "DELIVERED"]
<1>1. run' \in [Actors -> Local] /\ run'["admin"].pc = "notify"
      /\ \A b \in Actors : b # "admin" => run'[b] = run[b]
  <2>1. v \in Local /\ v.pc = "notify"
    BY IdleLocal DEF Idle, Local, Places, Rank, Statuses
  <2>2. run' = [run EXCEPT !["admin"] = v]
    BY DEF WritePickedUp
  <2> QED
    BY <2>1, <2>2, RunReplaced, Apart DEF Inv, TypeOK
<1>2. run["admin"].held \in {"none", "early", "late"}
  BY Apart DEF Inv, TypeOK, Local
<1>3. row' \in Row /\ sent' \in [Letters -> 0..2]
      /\ row'.resp = row.resp /\ row'.accepted = taken
  <2>1. r \in Row /\ r.resp = row.resp /\ r.accepted = taken
    BY ZenonT(60), <1>2 DEF Inv, TypeOK, Row, Statuses, Now
  <2> DEFINE q == DeliveredEntry(r, run["admin"].was)
  <2>2. q \in Row /\ q.resp = row.resp /\ q.accepted = taken
    <3> HIDE DEF r, taken
    <3> QED
      BY <2>1, EntryKeeps
  <2>3. SaveAnew(q, {"photo", "end"})
    BY DEF WritePickedUp
  <2> HIDE DEF q
  <2> QED
    BY <2>2, <2>3, SavedAnew DEF Inv
<1>4. TypeOK'
  BY <1>1, <1>3, TypesKept DEF WritePickedUp, world, Inv, TypeOK
<1>5. taken # "none" /\ \A c \in Cycles : OneCycle /\ At(c, "evict") => taken = "early"
  BY <1>2 DEF WritePickedUp, Inv, StillHolds, Now
<1>6. evening' = evening /\ scene' = scene
  BY DEF WritePickedUp, world
<1>7. StillHolds'
  BY <1>1, <1>3, <1>5, <1>6, Apart DEF Inv, StillHolds, At, OneCycle
<1> QED
  BY <1>4, <1>7 DEF Inv

---------------------------------------------------------------------------
(* The cycles.                                                             *)

\* What follows a letter or a look.
LEMMA WentOn ==
    ASSUME run \in [Actors -> Local], NEW a \in Actors, Onward(a)
    PROVE  /\ run' \in [Actors -> Local] /\ run'[a].pc \in Forgetful
           /\ run'[a].pc \in {"idle", "track", "look"}
           /\ \A b \in Actors : b # a => run'[b] = run[b]
<1> DEFINE stage == run[a].stage
           v == IF stage \in {"handoff", "manual"} THEN Idle
                ELSE IF stage = "facts" THEN [Idle EXCEPT !.pc = "track", !.stage = "sync"]
                ELSE [Idle EXCEPT !.pc = "look", !.stage = After(stage)]
<1>1. After(stage) \in DOMAIN Rank
  BY DEF After, Rank
<1>2. v \in Local /\ v.pc \in {"idle", "track", "look"}
  <2>1. CASE stage \in {"handoff", "manual"}
    BY <2>1, IdleLocal
  <2>2. CASE stage = "facts"
    BY ZenonT(60), <2>2, IdleLocal DEF Idle, Local, Places, Rank
  <2>3. CASE stage \notin {"handoff", "manual", "facts"}
    BY <1>1, <2>3, IdleLocal DEF Idle, Local, Places
  <2> QED
    BY <2>1, <2>2, <2>3
<1>3. run' = [run EXCEPT ![a] = v]
  BY DEF Onward
<1> HIDE DEF v
<1> QED
  BY <1>2, <1>3, RunReplaced DEF Forgetful, Places

LEMMA TickStep ==
    ASSUME Inv, NEW c \in Cycles, Tick(c)
    PROVE  Inv'
<1>0. mishaps' \in 0..MaxMishaps
  BY Faulty DEF Tick, Inv, TypeOK
<1>1. run' \in [Actors -> Local] /\ run'[c].pc = "list"
      /\ \A b \in Actors : b # c => run'[b] = run[b]
  <2> DEFINE v == [run[c] EXCEPT !.pc = "list", !.stage = "sync"]
  <2>1. run[c] \in Local
    BY Apart DEF Inv, TypeOK
  <2>2. v \in Local /\ v.pc = "list"
    <3>1. "list" \in Places /\ "sync" \in DOMAIN Rank
      BY DEF Places, Rank
    <3> QED
      BY <2>1, <3>1 DEF Local
  <2>3. run' = [run EXCEPT ![c] = v]
    BY <2>1, Apart DEF Tick, Inv, TypeOK, Local
  <2> QED
    BY <2>2, <2>3, RunReplaced, Apart DEF Inv, TypeOK
<1>2. TypeOK'
  BY <1>0, <1>1, TypesKept DEF Tick, world, Inv, TypeOK
<1>3. StillHolds'
  BY <1>1, HoldsStill, Apart DEF Tick, world, Forgetful, Places
<1> QED
  BY <1>2, <1>3 DEF Inv

LEMMA ReadListStep ==
    ASSUME Inv, NEW c \in Cycles, ReadList(c)
    PROVE  Inv'
<1>1. run' \in [Actors -> Local] /\ run'[c].pc \in Forgetful
      /\ \A b \in Actors : b # c => run'[b] = run[b]
  <2>1. CASE Onward(c)
    BY <2>1, WentOn, Apart DEF Inv, TypeOK
  <2>2. CASE Goto(c, IF web.listed THEN "facts" ELSE "gone")
    <3>1. (IF web.listed THEN "facts" ELSE "gone") \in Forgetful \cap Places
      BY DEF Forgetful, Places
    <3> QED
      BY ZenonT(60), <2>2, <3>1, Gone, Apart DEF Inv, TypeOK
  <2>3. CASE Stop(c)
    BY <2>3, Stopped, IdleLocal, Apart DEF Inv, TypeOK, Forgetful, Places
  <2> QED
    BY <2>1, <2>2, <2>3 DEF ReadList
<1>2. mishaps' \in 0..MaxMishaps
  BY Faulty DEF ReadList, Inv, TypeOK
<1>3. TypeOK'
  BY <1>1, <1>2, TypesKept DEF ReadList, world, Inv, TypeOK
<1>4. StillHolds'
  BY <1>1, HoldsStill, Apart DEF ReadList, world
<1> QED
  BY <1>3, <1>4 DEF Inv

LEMMA SyncFactsStep ==
    ASSUME Inv, NEW c \in Cycles, SyncFacts(c)
    PROVE  Inv'
<1>1. run' \in [Actors -> Local] /\ run'[c].pc \in Forgetful
      /\ \A b \in Actors : b # c => run'[b] = run[b]
  <2> DEFINE v == [run[c] EXCEPT !.pc = "notify", !.stage = "facts", !.seen = "ARRIVED"]
  <2>1. CASE Goto(c, "track")
    BY <2>1, Gone, Apart DEF Inv, TypeOK, Forgetful, Places
  <2>2. CASE run' = [run EXCEPT ![c] = v]
    <3>1. run[c] \in Local
      BY Apart DEF Inv, TypeOK
    <3>2. "notify" \in Places /\ "ARRIVED" \in Statuses
      BY DEF Places, Statuses
    <3>3. v \in Local /\ v.pc = "notify"
      BY <3>1, <3>2 DEF Local
    <3> QED
      BY <2>2, <3>3, RunReplaced, Apart DEF Inv, TypeOK, Forgetful, Places
  <2> QED
    BY <2>1, <2>2 DEF SyncFacts
<1>2. row' \in Row /\ sent' \in [Letters -> 0..2]
      /\ row'.resp = row.resp /\ row'.accepted = row.accepted
  <2> DEFINE r == [row EXCEPT !.loc = @ \/ web.loc, !.courier = web.courier]
  <2>1. r \in Row /\ r.resp = row.resp /\ r.accepted = row.accepted
    <3>1. web.loc \in BOOLEAN /\ web.courier \in BOOLEAN /\ (row.loc \/ web.loc) \in BOOLEAN
      BY DEF Inv, TypeOK, WebRow, Row
    <3> QED
      BY <3>1 DEF Inv, TypeOK, Row
  <2>2. CASE UNCHANGED <<row, sent>>
    BY <2>2 DEF Inv, TypeOK
  <2>3. CASE Save(r)
    BY <2>1, <2>3, Saved DEF Inv
  <2> QED
    BY <2>2, <2>3 DEF SyncFacts
<1>3. TypeOK'
  BY <1>1, <1>2, TypesKept DEF SyncFacts, world, Inv, TypeOK
<1>4. StillHolds'
  BY <1>1, <1>2, HoldsStill, Apart DEF SyncFacts, world
<1> QED
  BY <1>3, <1>4 DEF Inv

LEMMA CancelGoneStep ==
    ASSUME Inv, NEW c \in Cycles, CancelGone(c)
    PROVE  Inv'
<1>1. run' \in [Actors -> Local] /\ run'[c].pc \in Forgetful
      /\ \A b \in Actors : b # c => run'[b] = run[b]
  BY WentOn, Apart DEF CancelGone, Inv, TypeOK
<1>2. row' \in Row /\ sent' \in [Letters -> 0..2]
      /\ row'.resp = row.resp /\ row'.accepted = row.accepted
  <2> DEFINE r == [row EXCEPT !.status = "CANCELLED"]
  <2>1. r \in Row /\ r.resp = row.resp /\ r.accepted = row.accepted
    BY DEF Inv, TypeOK, Row, Statuses, Closed
  <2>2. CASE UNCHANGED <<row, sent>>
    BY <2>2 DEF Inv, TypeOK
  <2>3. CASE Save(r)
    BY <2>1, <2>3, Saved DEF Inv
  <2> QED
    BY <2>2, <2>3 DEF CancelGone
<1>3. TypeOK'
  BY <1>1, <1>2, TypesKept DEF CancelGone, world, Inv, TypeOK
<1>4. StillHolds'
  BY <1>1, <1>2, HoldsStill, Apart DEF CancelGone, world
<1> QED
  BY <1>3, <1>4 DEF Inv

\* A new row and the next status of an old one are statuses of the bot.
LEMMA NextStatus ==
    ASSUME NEW seen \in Statuses \cup {"REDIRECTED", None}, NEW was \in Statuses \cup {NoRow},
           NEW courier
    PROVE  /\ InitialStatus(seen) \in Statuses
           /\ Resolve(was, seen, courier) \in Statuses \cup {NoRow}
BY DEF InitialStatus, Resolve, Statuses, Closed

LEMMA TrackStep ==
    ASSUME Inv, NEW c \in Cycles, Track(c)
    PROVE  Inv'
<1>1. PICK seen \in {np, None} :
          /\ IF seen = np THEN UNCHANGED mishaps ELSE Mishap("track")
          /\ run' = [run EXCEPT ![c] = [@ EXCEPT !.pc = "read", !.seen = seen]]
  BY DEF Track
<1>2. run' \in [Actors -> Local] /\ run'[c].pc = "read"
      /\ \A b \in Actors : b # c => run'[b] = run[b]
  <2> DEFINE v == [run[c] EXCEPT !.pc = "read", !.seen = seen]
  <2>1. run[c] \in Local /\ seen \in Statuses \cup {"REDIRECTED", None}
    BY <1>1, Apart DEF Inv, TypeOK
  <2>2. v \in Local /\ v.pc = "read"
    BY ZenonT(60), <2>1 DEF Local, Places
  <2>3. run' = [run EXCEPT ![c] = v]
    BY <1>1
  <2> QED
    BY <2>2, <2>3, RunReplaced, Apart DEF Inv, TypeOK
<1>3. mishaps' \in 0..MaxMishaps
  BY <1>1, Faulty DEF Inv, TypeOK
<1>4. TypeOK'
  BY <1>2, <1>3, TypesKept DEF Track, world, Inv, TypeOK
<1>5. StillHolds'
  BY <1>2, HoldsStill, Apart DEF Track, world, Forgetful, Places
<1> QED
  BY <1>4, <1>5 DEF Inv

LEMMA ReadRowStep ==
    ASSUME Inv, NEW c \in Cycles, ReadRow(c)
    PROVE  Inv'
<1> DEFINE pc == IF row.status = NoRow THEN "create" ELSE "write"
           v == [run[c] EXCEPT !.pc = pc, !.was = row.status, !.courier = row.courier]
<1>1. run' \in [Actors -> Local] /\ run'[c].pc \in Forgetful
      /\ \A b \in Actors : b # c => run'[b] = run[b]
  <2>1. /\ run[c] \in Local /\ row.status \in Statuses \cup {NoRow} /\ row.courier \in BOOLEAN
        /\ pc \in Places /\ pc \in Forgetful
    BY Apart DEF Inv, TypeOK, Row, Places, Forgetful
  <2>2. run' = [run EXCEPT ![c] = v]
    BY DEF ReadRow
  <2> HIDE DEF pc
  <2>3. v \in Local /\ v.pc = pc
    BY ZenonT(60), <2>1 DEF Local
  <2> HIDE DEF v
  <2> QED
    BY <2>1, <2>2, <2>3, RunReplaced, Apart DEF Inv, TypeOK
<1>2. TypeOK'
  BY <1>1, TypesKept DEF ReadRow, world, Inv, TypeOK
<1>3. StillHolds'
  BY <1>1, HoldsStill, Apart DEF ReadRow, world
<1> QED
  BY <1>2, <1>3 DEF Inv

LEMMA CreateRowStep ==
    ASSUME Inv, NEW c \in Cycles, CreateRow(c)
    PROVE  Inv'
<1> DEFINE new == InitialStatus(run[c].seen)
           r == [row EXCEPT !.status = new, !.loc = web.loc, !.courier = web.courier,
                            !.delivered = IF new = "DELIVERED" THEN "fresh" ELSE "none"]
<1>1. run' \in [Actors -> Local] /\ run'[c].pc \in Forgetful
      /\ \A b \in Actors : b # c => run'[b] = run[b]
  <2>1. CASE Onward(c)
    BY <2>1, WentOn, Apart DEF Inv, TypeOK
  <2>2. CASE Stop(c)
    BY <2>2, Stopped, IdleLocal, Apart DEF Inv, TypeOK, Forgetful, Places
  <2> QED
    BY <2>1, <2>2 DEF CreateRow
<1>2. row' \in Row /\ sent' \in [Letters -> 0..2]
      /\ row'.resp = row.resp /\ row'.accepted = row.accepted
  <2>1. CASE UNCHANGED <<row, sent>>
    BY <2>1 DEF Inv, TypeOK
  <2>2. CASE Save(r)
    <3>1. run[c].seen \in Statuses \cup {"REDIRECTED", None}
      BY Apart DEF Inv, TypeOK, Local
    <3>2. new \in Statuses /\ web.loc \in BOOLEAN /\ web.courier \in BOOLEAN
      BY <3>1, NextStatus DEF Inv, TypeOK, WebRow, NoRow
    <3> HIDE DEF new
    <3>3. r \in Row /\ r.resp = row.resp /\ r.accepted = row.accepted
      BY <3>2 DEF Inv, TypeOK, Row
    <3> QED
      BY <2>2, <3>3, Saved DEF Inv
  <2> QED
    BY <2>1, <2>2 DEF CreateRow
<1>3. TypeOK'
  BY <1>1, <1>2, TypesKept DEF CreateRow, world, Inv, TypeOK
<1>4. StillHolds'
  BY <1>1, <1>2, HoldsStill, Apart DEF CreateRow, world
<1> QED
  BY <1>3, <1>4 DEF Inv

LEMMA WriteStatusStep ==
    ASSUME Inv, NEW c \in Cycles, WriteStatus(c)
    PROVE  Inv'
<1> DEFINE me == run[c]
           next == Resolve(me.was, me.seen, me.courier)
           r == [row EXCEPT !.status = next, !.marks = @ \ {"stale"}]
           q == IF next = "DELIVERED" THEN DeliveredEntry(r, me.was) ELSE r
           v == [Idle EXCEPT !.pc = "notify", !.stage = "sync", !.seen = next]
<1>1. me \in Local
  BY Apart DEF Inv, TypeOK
<1>2. next \in Statuses \cup {NoRow} /\ (next # me.was => next \in Statuses)
  <2>1. me.was \in Statuses \cup {NoRow} /\ me.seen \in Statuses \cup {"REDIRECTED", None}
    BY <1>1 DEF Local
  <2>2. next \in Statuses \cup {NoRow}
    BY <2>1, NextStatus
  <2>3. next = NoRow => next = me.was
    BY <2>1 DEF Resolve, NoRow, Statuses, Closed
  <2> QED
    BY <2>2, <2>3
<1>3. run' \in [Actors -> Local] /\ run'[c].pc \in Forgetful
      /\ \A b \in Actors : b # c => run'[b] = run[b]
  <2>1. CASE Onward(c)
    BY <2>1, WentOn, Apart DEF Inv, TypeOK
  <2>2. CASE next # me.was /\ run' = [run EXCEPT ![c] = v]
    <3> HIDE DEF next
    <3>1. v \in Local /\ v.pc = "notify"
      BY <1>2, <2>2, IdleLocal DEF Idle, Local, Places, Rank
    <3> HIDE DEF v
    <3> QED
      BY <2>2, <3>1, RunReplaced, Apart DEF Inv, TypeOK, Forgetful, Places
  <2> QED
    BY <2>1, <2>2 DEF WriteStatus
<1>4. row' \in Row /\ sent' \in [Letters -> 0..2]
      /\ row'.resp = row.resp /\ row'.accepted = row.accepted
  <2>1. CASE UNCHANGED <<row, sent>>
    BY <2>1 DEF Inv, TypeOK
  <2>2. CASE Save(q)
    <3> HIDE DEF next
    <3>1. r \in Row /\ r.resp = row.resp /\ r.accepted = row.accepted
      BY <1>2 DEF Inv, TypeOK, Row
    <3> HIDE DEF r
    <3>2. q \in Row /\ q.resp = row.resp /\ q.accepted = row.accepted
      BY <3>1, EntryKeeps
    <3> HIDE DEF q
    <3> QED
      BY <2>2, <3>2, Saved DEF Inv
  <2> QED
    BY <2>1, <2>2 DEF WriteStatus
<1>5. TypeOK'
  BY <1>3, <1>4, TypesKept DEF WriteStatus, world, Inv, TypeOK
<1>6. StillHolds'
  BY <1>3, <1>4, HoldsStill, Apart DEF WriteStatus, world
<1> QED
  BY <1>5, <1>6 DEF Inv

\* The parcel goes back: nobody holds it, whatever support is about to write,
\* and no other cycle is about to hand it over.
LEMMA EvictStep ==
    ASSUME Held, NEW c \in Cycles, Evict(c)
    PROVE  Inv'
<1>1. run' \in [Actors -> Local] /\ run'[c].pc \in Forgetful
      /\ \A b \in Actors : b # c => run'[b] = run[b]
  BY WentOn, Apart DEF Evict, Held, Inv, TypeOK
<1>2. row' \in Row /\ sent' \in [Letters -> 0..2] /\ row'.resp = None /\ row'.accepted = "none"
  <2> DEFINE r == [row EXCEPT !.status = "ARRIVED", !.resp = None, !.accepted = "none",
                              !.marks = @ \ {"end", "photo", "stale"}]
  <2>1. r \in Row /\ r.resp = None /\ r.accepted = "none"
    BY DEF Held, Inv, TypeOK, Row, Statuses
  <2> QED
    BY <2>1, Saved DEF Evict, Held, Inv
<1>3. TypeOK'
  BY <1>1, <1>2, TypesKept DEF Evict, world, Held, Inv, TypeOK
<1>4. ASSUME NEW d \in Cycles, OneCycle PROVE ~ At(d, "evict")'
  <2>1. CASE d = c
    BY <1>1, <2>1 DEF At, Forgetful
  <2>2. CASE d # c
    <3>1. run[c] # Idle
      BY IdleLocal DEF Evict, At
    <3>2. run[d] = Idle
      BY <1>4, <2>2, <3>1 DEF Held, CycleAlone
    <3> QED
      BY <1>1, <2>2, <3>2, IdleLocal, Apart DEF At
  <2> QED
    BY <2>1, <2>2
<1>5. UNCHANGED <<scene, evening>>
  BY DEF Evict, world
<1>6. StillHolds'
  BY <1>1, <1>2, <1>4, <1>5, Apart DEF Held, Inv, StillHolds, At, Forgetful, OneCycle
<1> QED
  BY <1>3, <1>6 DEF Inv

---------------------------------------------------------------------------
(* What is told after a write: by a cycle, and after support's.            *)

LEMMA NotifyStep ==
    ASSUME Inv, NEW a \in Actors, Notify(a)
    PROVE  Inv'
<1>1. run' \in [Actors -> Local] /\ run'[a].pc \in Forgetful
      /\ \A b \in Actors : b # a => run'[b] = run[b]
  <2>1. CASE Goto(a, "look")
    BY <2>1, Gone DEF Inv, TypeOK, Forgetful, Places
  <2>2. CASE Onward(a)
    BY <2>2, WentOn DEF Inv, TypeOK
  <2> QED
    BY <2>1, <2>2 DEF Notify
<1>2. TypeOK'
  BY <1>1, TypesKept DEF Notify, world, Inv, TypeOK
<1>3. StillHolds'
  BY <1>1, HoldsStill DEF Notify, world
<1> QED
  BY <1>2, <1>3 DEF Inv

\* Only a parcel of the shift that is over is handed over.
LEMMA HandedOver ==
    ASSUME Inv, NEW stage, "evict" \in DueNow(stage)
    PROVE  evening /\ row.resp # None /\ row.accepted = "early"
<1>1. Due("evict", stage)
  BY DEF DueNow
<1>2. evening /\ row.resp # None /\ row.accepted # "late"
  BY <1>1 DEF Due, Leftover
<1>3. row.accepted \in {"none", "early", "late"}
  BY DEF Inv, TypeOK, Row
<1> QED
  BY <1>2, <1>3 DEF Inv, StillHolds

\* The one on shift is a photographer.
LEMMA OnlyOne ==
    ASSUME Inv, NEW stage, "assign" \in DueNow(stage)
    PROVE  (CHOOSE s \in shift : TRUE) \in Staff
<1>1. Due("assign", stage)
  BY DEF DueNow
<1>2. Cardinality(shift) = 1
  BY <1>1 DEF Due
<1>3. shift # {}
  BY <1>2, FS_EmptySet
<1> QED
  BY <1>3 DEF Inv, TypeOK

LEMMA LookStep ==
    ASSUME Inv, NEW a \in Actors, Look(a)
    PROVE  Inv'
<1>1. PICK stage \in Ahead(a) : \E k \in DueNow(stage) :
          run' = [run EXCEPT ![a] = [@ EXCEPT !.stage = stage, !.kind = k,
                    !.pc = IF k \in {"assign", "evict"} THEN k ELSE "tell",
                    !.to = IF k = "assign" THEN CHOOSE s \in shift : TRUE ELSE None]]
  BY ZenonT(60) DEF Look
<1>2. PICK k \in DueNow(stage) :
          run' = [run EXCEPT ![a] = [@ EXCEPT !.stage = stage, !.kind = k,
                    !.pc = IF k \in {"assign", "evict"} THEN k ELSE "tell",
                    !.to = IF k = "assign" THEN CHOOSE s \in shift : TRUE ELSE None]]
  BY <1>1
<1> DEFINE pc == IF k \in {"assign", "evict"} THEN k ELSE "tell"
           to == IF k = "assign" THEN CHOOSE s \in shift : TRUE ELSE None
           v == [run[a] EXCEPT !.stage = stage, !.kind = k, !.pc = pc, !.to = to]
<1>3. k \in Marks \cup {"assign", "evict"} /\ stage \in DOMAIN Rank
  BY DEF DueNow, Ahead
<1>4. /\ run' \in [Actors -> Local] /\ run'[a].pc = pc /\ run'[a].kind = k
      /\ \A b \in Actors : b # a => run'[b] = run[b]
  <2>1. run[a] \in Local /\ pc \in Places /\ to \in Staff \cup {None} /\ k \in Letters \cup {"assign", "evict"}
    BY <1>3, OnlyOne DEF Inv, TypeOK, Places, Letters
  <2>2. run' = [run EXCEPT ![a] = v]
    BY <1>2
  <2> HIDE DEF pc, to
  <2>3. v \in Local /\ v.pc = pc /\ v.kind = k
    BY ZenonT(60), <1>3, <2>1 DEF Local
  <2> HIDE DEF v
  <2> QED
    BY <2>2, <2>3, RunReplaced DEF Inv, TypeOK
<1>5. TypeOK'
  BY <1>4, TypesKept DEF Look, world, Inv, TypeOK
<1>6. UNCHANGED <<row, evening, scene>>
  BY DEF Look, world
<1>7. /\ pc \in {"assign", "evict", "tell"} /\ (pc = "tell" => k \in Marks)
      /\ (pc = "evict" => evening /\ row.resp # None /\ row.accepted = "early")
  BY <1>3, HandedOver
<1> HIDE DEF pc
<1>8. StillHolds'
  BY <1>4, <1>6, <1>7, Apart DEF Inv, StillHolds, At, OneCycle
<1> QED
  BY SMTT(60), <1>5, <1>8 DEF Inv

LEMMA PassByStep ==
    ASSUME Inv, NEW a \in Actors, PassBy(a)
    PROVE  Inv'
<1>1. run' \in [Actors -> Local] /\ run'[a].pc = "idle"
      /\ \A b \in Actors : b # a => run'[b] = run[b]
  BY Stopped, IdleLocal DEF PassBy, Inv, TypeOK
<1>2. TypeOK'
  BY <1>1, TypesKept DEF PassBy, world, Inv, TypeOK
<1>3. StillHolds'
  BY <1>1, HoldsStill DEF PassBy, world, Forgetful, Places
<1> QED
  BY <1>2, <1>3 DEF Inv

LEMMA AssignStep ==
    ASSUME Inv, NEW a \in Actors, Assign(a)
    PROVE  Inv'
<1>1. run' \in [Actors -> Local] /\ run'[a].pc \in Forgetful
      /\ \A b \in Actors : b # a => run'[b] = run[b]
  BY WentOn DEF Assign, Inv, TypeOK
<1>2. /\ row' \in Row /\ sent' \in [Letters -> 0..2]
      /\ \/ row'.resp = row.resp /\ row'.accepted = row.accepted
         \/ row.resp = None /\ row'.accepted = Now
  <2> DEFINE r == [row EXCEPT !.resp = run[a].to, !.accepted = Now, !.marks = @ \ {"photo", "end"}]
  <2>1. CASE UNCHANGED <<row, sent>>
    BY <2>1 DEF Inv, TypeOK
  <2>2. CASE row.resp = None /\ Save(r)
    <3>1. run[a].to \in Staff \cup {None}
      BY DEF Inv, TypeOK, Local
    <3>2. r \in Row /\ r.accepted = Now
      BY <3>1 DEF Inv, TypeOK, Row, Now
    <3> QED
      BY <2>2, <3>2, Saved DEF Inv
  <2> QED
    BY <2>1, <2>2 DEF Assign
<1>3. TypeOK'
  BY <1>1, <1>2, TypesKept DEF Assign, world, Inv, TypeOK
<1>4. StillHolds'
  BY <1>1, <1>2, HoldsStill DEF Assign, world
<1> QED
  BY <1>3, <1>4 DEF Inv

LEMMA TellStep ==
    ASSUME Inv, NEW a \in Actors, Tell(a)
    PROVE  Inv'
<1>1. /\ run' \in [Actors -> Local]
      /\ \A b \in Actors : b # a => run'[b] = run[b]
      /\ \/ run'[a].pc = "mark" /\ run'[a].kind \in Marks
         \/ run'[a].pc \in Forgetful
  <2>1. run[a].kind \in Marks
    BY DEF Tell, Inv, StillHolds
  <2>2. CASE Goto(a, "mark")
    BY <2>1, <2>2, Gone DEF Inv, TypeOK, Places
  <2>3. CASE Onward(a)
    BY <2>3, WentOn DEF Inv, TypeOK
  <2> QED
    BY <2>2, <2>3 DEF Tell
<1>2. sent' \in [Letters -> 0..2] /\ mishaps' \in 0..MaxMishaps
  BY SentOne, Faulty DEF Tell, Inv, TypeOK
<1>3. TypeOK'
  BY <1>1, <1>2, TypesKept DEF Tell, world, Inv, TypeOK
<1>4. UNCHANGED <<row, evening, scene>>
  BY DEF Tell, world
<1>5. StillHolds'
  BY <1>1, <1>4, Apart DEF Inv, StillHolds, At, Forgetful, OneCycle
<1> QED
  BY <1>3, <1>5 DEF Inv

LEMMA MarkStep ==
    ASSUME Inv, NEW a \in Actors, Mark(a)
    PROVE  Inv'
<1>1. run' \in [Actors -> Local] /\ run'[a].pc \in Forgetful
      /\ \A b \in Actors : b # a => run'[b] = run[b]
  BY WentOn DEF Mark, Inv, TypeOK
<1>2. row' \in Row /\ sent' \in [Letters -> 0..2]
      /\ row'.resp = row.resp /\ row'.accepted = row.accepted
  <2> DEFINE r == [row EXCEPT !.marks = @ \cup {run[a].kind}]
  <2>1. run[a].kind \in Marks
    BY DEF Mark, Inv, StillHolds
  <2>2. r \in Row /\ r.resp = row.resp /\ r.accepted = row.accepted
    BY <2>1 DEF Inv, TypeOK, Row
  <2> QED
    BY <2>2, Saved DEF Mark, Inv
<1>3. TypeOK'
  BY <1>1, <1>2, TypesKept DEF Mark, world, Inv, TypeOK
<1>4. StillHolds'
  BY <1>1, <1>2, HoldsStill DEF Mark, world
<1> QED
  BY <1>3, <1>4 DEF Inv

---------------------------------------------------------------------------
(* Nova Poshta, the web app, the clock and the process.                    *)

\* The news of others change nothing of the parcel's row.
LEMMA NewsStep ==
    ASSUME Inv, NovaPoshtaMoves \/ WebAppDrops \/ WebAppLocates
    PROVE  Inv'
<1>1. UNCHANGED <<scene, row, evening, shift, run, draft, sent, mishaps>>
  BY DEF NovaPoshtaMoves, WebAppDrops, WebAppLocates
<1>2. np' \in Statuses \cup {"REDIRECTED"}
  <2>1. CASE NovaPoshtaMoves
    <3>1. np' \in Later(np)
      BY <2>1 DEF NovaPoshtaMoves
    <3> QED
      BY <3>1 DEF Later, Statuses, Closed
  <2>2. CASE UNCHANGED np
    BY <2>2 DEF Inv, TypeOK
  <2> QED
    BY <2>1, <2>2 DEF WebAppDrops, WebAppLocates
<1>3. web' \in WebRow
  BY DEF NovaPoshtaMoves, WebAppDrops, WebAppLocates, Inv, TypeOK, WebRow
<1>4. TypeOK'
  BY <1>1, <1>2, <1>3 DEF Inv, TypeOK
<1>5. StillHolds'
  BY <1>1 DEF Inv, StillHolds, At, OneCycle
<1> QED
  BY <1>4, <1>5 DEF Inv

\* Time passes while nobody is in a handler.
LEMMA ClockStep ==
    ASSUME Inv, Dusk \/ Dawn \/ DaysPass
    PROVE  Inv'
<1>1. Quiet /\ UNCHANGED <<scene, np, web, run, draft, mishaps>>
  BY DEF Dusk, Dawn, DaysPass
<1>2. \A a \in Actors : run'[a].pc = "idle"
  BY <1>1, IdleLocal DEF Quiet
<1>3. /\ row' \in Row /\ row'.resp = row.resp
      /\ (row.accepted # "none" => row'.accepted # "none")
  <2>1. CASE Dusk
    BY <2>1 DEF Dusk, Inv, TypeOK, Row
  <2>2. CASE Dawn
    BY <2>2 DEF Dawn, Inv, TypeOK, Row
  <2>3. CASE DaysPass
    <3>1. Aged(row.delivered) \in {"none", "fresh", "old"} /\ Aged(row.verifying) \in {"none", "fresh", "old"}
      BY DEF Aged, Inv, TypeOK, Row
    <3> QED
      BY <2>3, <3>1 DEF DaysPass, Inv, TypeOK, Row
  <2> QED
    BY <2>1, <2>2, <2>3
<1>4. evening' \in BOOLEAN /\ shift' \subseteq Staff /\ sent' \in [Letters -> 0..2]
  <2>1. CASE Dusk
    <3>1. scene \in Scenes /\ shift' \in scene.shifts /\ evening' = TRUE
      BY <2>1 DEF Dusk, Inv, TypeOK
    <3>2. scene.shifts \subseteq SUBSET Staff
      BY <3>1, SceneAssumption
    <3>3. sent \in [Letters -> 0..2] /\ sent' = [sent EXCEPT !["claim"] = 0]
      BY <2>1 DEF Dusk, Inv, TypeOK
    <3>4. sent' \in [Letters -> 0..2]
      <4>1. \A j \in Letters : sent'[j] \in 0..2
        BY <3>3
      <4>2. sent' = [j \in Letters |-> sent'[j]]
        BY <3>3
      <4> QED
        BY <4>1, <4>2
    <3>5. shift' \subseteq Staff
      BY <3>1, <3>2
    <3> QED
      BY <3>1, <3>4, <3>5
  <2>2. CASE Dawn \/ DaysPass
    BY <2>2 DEF Dawn, DaysPass, Inv, TypeOK
  <2> QED
    BY <2>1, <2>2
<1>5. TypeOK'
  BY <1>1, <1>3, <1>4 DEF Inv, TypeOK
<1>6. StillHolds'
  BY <1>2, <1>3, Apart DEF Inv, StillHolds, At
<1> QED
  BY <1>5, <1>6 DEF Inv

LEMMA CrashStep ==
    ASSUME Inv, Crash
    PROVE  Inv'
<1>1. run' \in [Actors -> Local] /\ \A a \in Actors : run'[a].pc = "idle"
  BY IdleLocal DEF Crash
<1>2. TypeOK'
  BY <1>1, TypesKept, Faulty DEF Crash, world, Inv, TypeOK
<1>3. StillHolds'
  BY <1>1, Apart DEF Crash, world, Inv, StillHolds, At
<1> QED
  BY <1>2, <1>3 DEF Inv

---------------------------------------------------------------------------
(* The invariant.                                                          *)

LEMMA InvInit == Init => Inv
<1> SUFFICES ASSUME Init PROVE Inv
  OBVIOUS
<1>1. \A a \in Actors : run[a] = Idle
  BY DEF Init
<1>2. TypeOK
  <2>1. scene \in Scenes /\ shift \in scene.shifts /\ row = scene.row /\ np = scene.np /\ web = scene.web
    BY DEF Init
  <2>2. /\ scene.row \in Row /\ scene.np \in Statuses /\ scene.web \in WebRow
        /\ scene.shifts \subseteq SUBSET Staff
    BY <2>1, SceneAssumption
  <2>3. run \in [Actors -> Local]
    BY IdleLocal DEF Init
  <2>4. sent \in [Letters -> 0..2] /\ mishaps \in 0..MaxMishaps
    BY SceneAssumption DEF Init
  <2>5. shift \subseteq Staff
    BY <2>1, <2>2
  <2>6. evening \in BOOLEAN /\ draft \subseteq Staff
    BY DEF Init
  <2> QED
    BY <2>1, <2>2, <2>3, <2>4, <2>5, <2>6 DEF TypeOK
<1>3. StillHolds
  BY <1>1, IdleLocal, Apart, SceneAssumption DEF Init, StillHolds, At
<1> QED
  BY <1>2, <1>3 DEF Inv

LEMMA InvNext == Held /\ [Next]_vars => Inv'
<1> SUFFICES ASSUME Held, [Next]_vars PROVE Inv'
  OBVIOUS
<1>0. Inv
  BY DEF Held
<1>1. ASSUME NEW a \in Staff,
             \/ Accept(a) \/ Claim(a) \/ Reject(a) \/ CountRejection(a) \/ Escalate(a)
             \/ TakePhotos(a) \/ ClaimForPhotos(a) \/ Done(a) \/ ReadPhotos(a)
             \/ Submit(a) \/ SendAlbum(a)
      PROVE  Inv'
  BY <1>0, <1>1, AcceptStep, ClaimStep, RejectStep, CountRejectionStep, EscalateStep, TakePhotosStep,
     ClaimForPhotosStep, DoneStep, ReadPhotosStep, SubmitStep, SendAlbumStep
<1>2. CASE Confirm \/ Delete
  BY <1>0, <1>2, CloseStep DEF Confirm, Delete, Closed
<1>3. CASE MarkPickedUp \/ WritePickedUp
  BY <1>0, <1>3, MarkPickedUpStep, WritePickedUpStep
<1>4. ASSUME NEW c \in Cycles,
             \/ Tick(c) \/ ReadList(c) \/ SyncFacts(c) \/ CancelGone(c) \/ Track(c)
             \/ ReadRow(c) \/ CreateRow(c) \/ WriteStatus(c) \/ Evict(c)
      PROVE  Inv'
  BY <1>0, <1>4, TickStep, ReadListStep, SyncFactsStep, CancelGoneStep, TrackStep, ReadRowStep,
     CreateRowStep, WriteStatusStep, EvictStep
<1>5. ASSUME NEW a \in {"admin"} \cup Cycles,
             Notify(a) \/ Look(a) \/ PassBy(a) \/ Assign(a) \/ Tell(a) \/ Mark(a)
      PROVE  Inv'
  BY <1>0, <1>5, Apart, NotifyStep, LookStep, PassByStep, AssignStep, TellStep, MarkStep
<1>6. CASE NovaPoshtaMoves \/ WebAppDrops \/ WebAppLocates
  BY <1>0, <1>6, NewsStep
<1>7. CASE Dusk \/ Dawn \/ DaysPass
  BY <1>0, <1>7, ClockStep
<1>8. CASE Crash
  BY <1>0, <1>8, CrashStep
<1>9. CASE UNCHANGED vars
  BY <1>0, <1>9 DEF vars, Inv, TypeOK, StillHolds, At, OneCycle
<1> QED
  BY <1>1, <1>2, <1>3, <1>4, <1>5, <1>6, <1>7, <1>8, <1>9 DEF Next

\* A cycle begins while another is under way where one may be slow only.
LEMMA TickAlone ==
    ASSUME Inv, CycleAlone, NEW c \in Cycles, Tick(c)
    PROVE  CycleAlone'
<1> SUFFICES ASSUME OneCycle PROVE \A d, e \in Cycles : run'[d] # Idle /\ run'[e] # Idle => d = e
  BY DEF Tick, world, CycleAlone, OneCycle
<1>1. \A d \in Cycles : run[d] = Idle
  BY DEF Tick, Mishap, OneCycle
<1>2. \A d \in Cycles : d # c => run'[d] = run[d]
  BY Apart DEF Tick, Inv, TypeOK
<1> QED
  BY <1>1, <1>2

\* No other step makes a cycle busy.
LEMMA StepAlone ==
    ASSUME CycleAlone, scene' = scene, \A d \in Cycles : run'[d] # Idle => run[d] # Idle
    PROVE  CycleAlone'
BY DEF CycleAlone, OneCycle

LEMMA CycleAloneNext == Held /\ [Next]_vars => CycleAlone'
<1> SUFFICES ASSUME Held, [Next]_vars PROVE CycleAlone'
  OBVIOUS
<1>0. Inv /\ TypeOK /\ CycleAlone /\ run \in [Actors -> Local]
  BY DEF Held, Inv, TypeOK
<1>1. ASSUME NEW a \in Staff,
             \/ Accept(a) \/ Claim(a) \/ Reject(a) \/ CountRejection(a) \/ Escalate(a)
             \/ TakePhotos(a) \/ ClaimForPhotos(a) \/ Done(a) \/ ReadPhotos(a)
             \/ Submit(a) \/ SendAlbum(a)
      PROVE  CycleAlone'
  <2>1. scene' = scene
    BY <1>1 DEF Accept, Claim, Reject, CountRejection, Escalate, TakePhotos, ClaimForPhotos, Done,
                ReadPhotos, Submit, SendAlbum, world
  <2>2. \A b \in Cycles : run'[b] = run[b]
    BY <1>0, <1>1, Apart DEF Accept, Claim, Reject, CountRejection, Escalate, TakePhotos,
                             ClaimForPhotos, Done, ReadPhotos, Submit, SendAlbum, Goto, Stop
  <2> QED
    BY <1>0, <2>1, <2>2, StepAlone
<1>2. CASE Confirm \/ Delete
  BY <1>0, <1>2, StepAlone DEF Confirm, Delete, Close, world
<1>3. CASE MarkPickedUp \/ WritePickedUp
  <2>1. scene' = scene
    BY <1>3 DEF MarkPickedUp, WritePickedUp, world
  <2>2. \A b \in Cycles : run'[b] = run[b]
    BY <1>0, <1>3, Apart DEF MarkPickedUp, WritePickedUp
  <2> QED
    BY <1>0, <2>1, <2>2, StepAlone
<1>4. ASSUME NEW c \in Cycles, Tick(c) PROVE CycleAlone'
  BY <1>0, <1>4, TickAlone
<1>5. ASSUME NEW c \in Cycles,
             \/ ReadList(c) \/ SyncFacts(c) \/ CancelGone(c) \/ Track(c)
             \/ ReadRow(c) \/ CreateRow(c) \/ WriteStatus(c) \/ Evict(c)
      PROVE  CycleAlone'
  <2>1. scene' = scene
    BY <1>5 DEF ReadList, SyncFacts, CancelGone, Track, ReadRow, CreateRow, WriteStatus, Evict, world
  <2>2. run[c] # Idle
    BY <1>5, IdleLocal DEF ReadList, SyncFacts, CancelGone, Track, ReadRow, CreateRow, WriteStatus,
                           Evict, At
  <2>3. \A b \in Cycles : b # c => run'[b] = run[b]
    BY <1>0, <1>5, Apart DEF ReadList, SyncFacts, CancelGone, Track, ReadRow, CreateRow, WriteStatus,
                             Evict, Goto, Stop, Onward
  <2> QED
    BY <1>0, <2>1, <2>2, <2>3, StepAlone
<1>6. ASSUME NEW a \in {"admin"} \cup Cycles,
             Notify(a) \/ Look(a) \/ PassBy(a) \/ Assign(a) \/ Tell(a) \/ Mark(a)
      PROVE  CycleAlone'
  <2>1. scene' = scene
    BY <1>6 DEF Notify, Look, PassBy, Assign, Tell, Mark, world
  <2>2. run[a] # Idle
    BY <1>6, IdleLocal DEF Notify, Look, PassBy, Assign, Tell, Mark, At
  <2>3. \A b \in Cycles : b # a => run'[b] = run[b]
    BY <1>0, <1>6, Apart DEF Notify, Look, PassBy, Assign, Tell, Mark, Goto, Stop, Onward
  <2> QED
    BY <1>0, <2>1, <2>2, <2>3, StepAlone
<1>7. CASE \/ NovaPoshtaMoves \/ WebAppDrops \/ WebAppLocates
           \/ Dusk \/ Dawn \/ DaysPass \/ UNCHANGED vars
  BY <1>0, <1>7, StepAlone DEF NovaPoshtaMoves, WebAppDrops, WebAppLocates, Dusk, Dawn, DaysPass, vars
<1>8. CASE Crash
  BY <1>0, <1>8, StepAlone, Apart DEF Crash, world
<1> QED
  BY <1>1, <1>2, <1>3, <1>4, <1>5, <1>6, <1>7, <1>8 DEF Next

LEMMA HeldInit == Init => Held
BY InvInit, Apart DEF Init, Held, CycleAlone

LEMMA HeldNext == Held /\ [Next]_vars => Held'
BY InvNext, CycleAloneNext DEF Held

\* A parcel leaves its holder by the handoff alone.
LEMMA HolderKept ==
    ASSUME Inv, [Next]_vars, row.resp # None
    PROVE  row'.resp = row.resp \/ \E c \in Cycles : Evict(c)
<1>1. row \in Row
  BY DEF Inv, TypeOK
<1>2. ASSUME NEW a \in Staff, Claim(a) \/ ClaimForPhotos(a)
      PROVE  row' = row
  BY <1>2 DEF Claim, ClaimForPhotos
<1>3. ASSUME NEW a \in Staff, CountRejection(a)
      PROVE  row'.resp = row.resp
  BY <1>1, <1>3 DEF CountRejection, Save, SaveAnew, Row
<1>4. ASSUME NEW a \in Staff, Submit(a)
      PROVE  row'.resp = row.resp
  BY <1>1, <1>4 DEF Submit, VerifyingEntry, Save, SaveAnew, Row
<1>5. ASSUME NEW a \in Staff,
             \/ Accept(a) \/ Reject(a) \/ Escalate(a) \/ TakePhotos(a) \/ Done(a)
             \/ ReadPhotos(a) \/ SendAlbum(a)
      PROVE  row' = row
  BY <1>5 DEF Accept, Reject, Escalate, TakePhotos, Done, ReadPhotos, SendAlbum
<1>6. CASE Confirm \/ Delete
  BY <1>1, <1>6 DEF Confirm, Delete, Close, Save, SaveAnew, Row
<1>7. CASE WritePickedUp
  BY <1>1, <1>7 DEF WritePickedUp, DeliveredEntry, SaveAnew, Row
<1>8. ASSUME NEW c \in Cycles, SyncFacts(c) \/ CancelGone(c) \/ CreateRow(c)
      PROVE  row'.resp = row.resp
  BY <1>1, <1>8 DEF SyncFacts, CancelGone, CreateRow, Save, SaveAnew, Row
<1>9. ASSUME NEW c \in Cycles, WriteStatus(c)
      PROVE  row'.resp = row.resp
  BY <1>1, <1>9 DEF WriteStatus, DeliveredEntry, Save, SaveAnew, Row
<1>10. ASSUME NEW c \in Cycles, Tick(c) \/ ReadList(c) \/ Track(c) \/ ReadRow(c)
       PROVE  row' = row
  BY <1>10 DEF Tick, ReadList, Track, ReadRow
<1>11. CASE MarkPickedUp
  BY <1>11 DEF MarkPickedUp
<1>12. ASSUME NEW a \in {"admin"} \cup Cycles,
              Notify(a) \/ Look(a) \/ PassBy(a) \/ Assign(a) \/ Tell(a)
       PROVE  row' = row
  BY <1>12 DEF Notify, Look, PassBy, Assign, Tell
<1>13. ASSUME NEW a \in {"admin"} \cup Cycles, Mark(a)
       PROVE  row'.resp = row.resp
  BY <1>1, <1>13 DEF Mark, Save, SaveAnew, Row
<1>14. CASE NovaPoshtaMoves \/ WebAppDrops \/ WebAppLocates \/ Crash \/ UNCHANGED vars
  BY <1>14 DEF NovaPoshtaMoves, WebAppDrops, WebAppLocates, Crash, vars
<1>15. CASE Dusk \/ Dawn \/ DaysPass
  BY <1>1, <1>15 DEF Dusk, Dawn, DaysPass, Row
<1> QED
  BY <1>2, <1>3, <1>4, <1>5, <1>6, <1>7, <1>8, <1>9, <1>10, <1>11, <1>12, <1>13, <1>14, <1>15 DEF Next

\* Every variable keeps its shape.
THEOREM TypeCorrect == Spec => []TypeOK
<1>1. Held => TypeOK
  BY DEF Held, Inv
<1> QED
  BY <1>1, HeldInit, HeldNext, PTL DEF Spec

\* What a handler of modules/staff/handlers/logistics.ts, of support or of a cycle
\* has read or decided still holds when it writes; what the handoff has decided,
\* where no slow cycle meets the next one.
THEOREM HandlersAreRight == Spec => []StillHolds
<1>1. Held => StillHolds
  BY DEF Held, Inv
<1> QED
  BY <1>1, HeldInit, HeldNext, PTL DEF Spec

\* However claims, assignments and handoffs of modules/staff/handlers/logistics.ts
\* and logistics-service.ts interleave, those of several cycles too, a parcel
\* changes hands through nobody's.
THEOREM OneHolderAlways == Spec => OneHolder
<1>1. Held /\ [Next]_vars => [row.resp # None => row'.resp \in {row.resp, None}]_vars
  <2> SUFFICES ASSUME Held, [Next]_vars, row.resp # None
               PROVE  row'.resp \in {row.resp, None}
    OBVIOUS
  <2>1. ASSUME NEW c \in Cycles, Evict(c) PROVE row'.resp = None
    <3>1. row \in Row
      BY DEF Held, Inv, TypeOK
    <3> QED
      BY <2>1, <3>1 DEF Evict, Save, SaveAnew, Row
  <2> QED
    BY <2>1, HolderKept DEF Held
<1> QED
  BY <1>1, HeldInit, HeldNext, PTL DEF Spec, OneHolder

\* The handoff (logistics-service.ts, 987) writes by id after its read.  While
\* each cycle ends before the next one begins, it takes the parcel from nobody
\* who took it after the end of the shift, however the buttons fall in between.
THEOREM LateHolderStaysAlways == Spec => LateHolderStays
<1>1. Held /\ [Next]_vars
        => [OneCycle /\ row.resp # None /\ row'.resp = None => row.accepted # "late"]_vars
  <2> SUFFICES ASSUME Held, [Next]_vars, OneCycle, row.resp # None, row'.resp = None
               PROVE  row.accepted # "late"
    OBVIOUS
  <2>1. PICK c \in Cycles : Evict(c)
    BY HolderKept DEF Held
  <2> QED
    BY <2>1 DEF Evict, Held, Inv, StillHolds
<1> QED
  BY <1>1, HeldInit, HeldNext, PTL DEF Spec, LateHolderStays

\* Both together: who has a parcel keeps it, but for the handoff.
THEOREM HoldersAreRespectedAlways == Spec => HoldersAreRespected
BY OneHolderAlways, LateHolderStaysAlways DEF HoldersAreRespected

---------------------------------------------------------------------------
(* One at a time: what is known where the scene does not overlap its          *)
(* handlers; and the refusals, in any interleaving.                            *)

Alone == \A a, b \in Actors : run[a] # Idle /\ run[b] # Idle => a = b

\* What a handler has read is so until its write, and a letter about to be
\* sent has not been sent for its occasion, but for the mishaps.
Fits(a) ==
    /\ At(a, "photos") => a \in draft /\ row.resp = a
    /\ At(a, "submit") => a \in draft /\ row.resp = a /\ run[a].was = row.status
    /\ At(a, "manual") => run[a].was = row.status /\ CanMarkPickedUp(row.status)
    /\ At(a, "write") => run[a].was = row.status
    /\ At(a, "evict") => row.status = "PICKUP_IN_PROGRESS" /\ row.resp # None
    /\ At(a, "assign") => run[a].to \in Staff
    /\ At(a, "tell") => sent[run[a].kind] <= mishaps

\* A letter that was sent is marked or about to be, or a mishap is to blame.  An
\* alert of a wait that is over says nothing of the next one.
Marking(k) == \E a \in Actors : At(a, "mark") /\ run[a].kind = k
Counted ==
    \A k \in Marks :
        /\ sent[k] <= mishaps + 1
        /\ (k = "stale" => row.status = "ARRIVED")
             => sent[k] <= mishaps \/ k \in row.marks \/ Marking(k)
Photographed == row.photos => row.status \in Closed \cup {"VERIFYING"}

OneAtATime ==
    ~ scene.overlap => Alone /\ Counted /\ Photographed /\ \A a \in Actors : Fits(a)

\* The refusal that made it urgent is one, and support hears of it from her.
Escalating == {a \in Actors : At(a, "escalate")}
Urgent ==
    /\ \A a, b \in Escalating : a = b
    /\ Escalating # {} => sent["urgent"] = 0
    /\ Escalating # {} \/ sent["urgent"] > 0 => sent["urgent"] <= 1 /\ row.rejections >= 2
    /\ row.rejections >= 2 /\ mishaps = 0 => sent["urgent"] = 1 \/ Escalating # {}

Known == Inv /\ CycleAlone /\ OneAtATime /\ Urgent

\* A step of one actor, who was in a handler or free to begin one.
StepOf(a) ==
    /\ run[a] # Idle \/ Free(a)
    /\ \A b \in Actors : b # a => run'[b] = run[b]
    /\ scene' = scene

LEMMA Busy ==
    ASSUME NEW a, NEW pc, At(a, pc), pc # "idle"
    PROVE  run[a] # Idle
BY IdleLocal DEF At

LEMMA OthersAreIdle ==
    ASSUME OneAtATime, ~ scene.overlap, NEW a \in Actors, StepOf(a)
    PROVE  \A b \in Actors : b # a => run[b] = Idle /\ run'[b] = Idle
BY DEF OneAtATime, Alone, StepOf, Free, Quiet

\* The others know nothing that could become false.
LEMMA TurnTaken ==
    ASSUME OneAtATime, NEW a \in Actors, StepOf(a),
           ~ scene.overlap => Fits(a)' /\ Counted' /\ Photographed'
    PROVE  OneAtATime'
<1> SUFFICES ASSUME ~ scene.overlap
             PROVE  Alone' /\ Counted' /\ Photographed' /\ \A b \in Actors : Fits(b)'
  BY DEF OneAtATime, StepOf
<1>1. \A b \in Actors : b # a => run'[b] = Idle /\ run'[b].pc = "idle"
  BY OthersAreIdle, IdleLocal
<1>2. Alone'
  BY <1>1 DEF Alone
<1>3. \A b \in Actors : Fits(b)'
  BY <1>1 DEF Fits, At
<1> QED
  BY <1>2, <1>3

\* Nobody else is about to mark anything.
LEMMA OnlyHerMark ==
    ASSUME OneAtATime, ~ scene.overlap, NEW a \in Actors, StepOf(a)
    PROVE  /\ \A k : Marking(k) => At(a, "mark") /\ run[a].kind = k
           /\ \A k : Marking(k)' => At(a, "mark")' /\ run'[a].kind = k
BY OthersAreIdle, IdleLocal DEF Marking, At

\* Where the escalation and the marks are not concerned.
Unmarked == {"mark", "escalate"}
LEMMA SameEscalating ==
    ASSUME NEW a \in Actors, StepOf(a), run[a].pc # "escalate", run'[a].pc # "escalate"
    PROVE  Escalating' = Escalating
BY DEF Escalating, At, StepOf

LEMMA UrgentKept ==
    ASSUME TypeOK, TypeOK', Urgent, Escalating' = Escalating,
           sent'["urgent"] = sent["urgent"], row'.rejections = row.rejections,
           mishaps' >= mishaps
    PROVE  Urgent'
BY SceneAssumption DEF Urgent, TypeOK

\* More mishaps are never fewer.
LEMMA Mishaps ==
    ASSUME TypeOK, NEW k, Mishap(k) \/ UNCHANGED mishaps
    PROVE  mishaps' >= mishaps
BY SceneAssumption DEF Mishap, TypeOK

\* A step that reads, or writes nothing of the row.
LEMMA NothingWritten ==
    ASSUME Known, Inv', NEW a \in Actors, StepOf(a), row' = row, mishaps' >= mishaps,
           \A k \in Marks \cup {"urgent"} : sent'[k] = sent[k],
           run[a].pc \notin Unmarked, run'[a].pc \notin Unmarked,
           ~ scene.overlap => Fits(a)'
    PROVE  OneAtATime' /\ Urgent'
<1>1. TypeOK /\ TypeOK' /\ OneAtATime /\ Urgent
  BY DEF Known, Inv
<1>2. Urgent'
  BY <1>1, SameEscalating, UrgentKept DEF Unmarked
<1>3. ASSUME ~ scene.overlap PROVE Counted' /\ Photographed'
  <2>1. \A k : ~ Marking(k)
    BY <1>1, <1>3, OnlyHerMark DEF Unmarked, At
  <2>2. ASSUME NEW k \in Marks
        PROVE  /\ sent'[k] <= mishaps' + 1
               /\ (k = "stale" => row'.status = "ARRIVED") => sent'[k] <= mishaps' \/ k \in row'.marks
    <3>1. sent[k] \in 0..2 /\ mishaps \in Nat /\ mishaps' \in Nat /\ sent'[k] = sent[k]
      BY <1>1, SceneAssumption DEF TypeOK, Letters
    <3>2. sent[k] <= mishaps + 1
          /\ ((k = "stale" => row.status = "ARRIVED") => sent[k] <= mishaps \/ k \in row.marks)
      BY <1>1, <1>3, <2>1 DEF OneAtATime, Counted
    <3> QED
      BY <3>1, <3>2
  <2>3. Counted'
    BY <2>2 DEF Counted
  <2>4. Photographed'
    BY <1>1, <1>3 DEF OneAtATime, Photographed
  <2> QED
    BY <2>3, <2>4
<1>4. OneAtATime'
  BY <1>1, <1>3, TurnTaken
<1> QED
  BY <1>2, <1>4

\* A write of the row begins the occasion of every letter whose mark it takes
\* away, or the wait is over.
MarksHeld(r, again) ==
    \A k \in row.marks : \/ k \in r.marks \/ Begins(k, r) \/ k \in again
                         \/ k = "stale" /\ r.status # "ARRIVED"
LEMMA CountedOn ==
    ASSUME Inv, Inv', Counted, NEW r \in Row, NEW again, SaveAnew(r, again),
           \A k \in Marks : Marking(k) => k \in r.marks,
           MarksHeld(r, again), mishaps' >= mishaps
    PROVE  Counted'
<1> SUFFICES ASSUME NEW k \in Marks
             PROVE  /\ sent'[k] <= mishaps' + 1
                    /\ (k = "stale" => row'.status = "ARRIVED")
                         => sent'[k] <= mishaps' \/ k \in row'.marks
  BY DEF Counted
<1>1. sent[k] \in 0..2 /\ mishaps \in Nat /\ mishaps' \in Nat
  BY SceneAssumption DEF Inv, TypeOK, Letters
<1>2. row'.status = r.status /\ row'.marks = r.marks
  BY DEF SaveAnew, Row
<1>3. CASE Begins(k, r) \/ k \in again
  <2>1. sent'[k] = 0 /\ sent'[k] \in Nat
    BY <1>3 DEF SaveAnew, Letters
  <2>2. sent'[k] \in Nat /\ sent'[k] <= mishaps'
    BY <1>1, <2>1
  <2> QED
    BY <1>1, <2>2
<1>4. CASE ~ Begins(k, r) /\ k \notin again
  <2>1. sent'[k] = sent[k]
    BY <1>4 DEF SaveAnew, Letters
  <2>2. sent[k] <= mishaps + 1
        /\ ((k = "stale" => row.status = "ARRIVED") => sent[k] <= mishaps \/ k \in row.marks \/ Marking(k))
    BY DEF Counted
  <2>3. (k = "stale" => r.status = "ARRIVED") => (k = "stale" => row.status = "ARRIVED")
    BY <1>4 DEF Begins
  <2>4. (k = "stale" => r.status = "ARRIVED") /\ (k \in row.marks \/ Marking(k)) => k \in r.marks
    BY <1>4 DEF MarksHeld
  <2> QED
    BY <1>1, <1>2, <2>1, <2>2, <2>3, <2>4
<1> QED
  BY <1>3, <1>4

LEMMA RowWritten ==
    ASSUME Known, Inv', NEW a \in Actors, StepOf(a), NEW r \in Row, NEW again,
           SaveAnew(r, again), "urgent" \notin again, r.rejections = row.rejections,
           mishaps' >= mishaps, run[a].pc \notin Unmarked, run'[a].pc \notin Unmarked,
           ~ scene.overlap =>
               /\ Fits(a)' /\ MarksHeld(r, again)
               /\ r.photos => r.status \in Closed \cup {"VERIFYING"}
    PROVE  OneAtATime' /\ Urgent'
<1>1. TypeOK /\ TypeOK' /\ OneAtATime /\ Urgent
  BY DEF Known, Inv
<1>2. row'.rejections = r.rejections /\ row'.status = r.status /\ row'.photos = r.photos
  BY DEF SaveAnew, Row
<1>3. sent'["urgent"] = sent["urgent"]
  BY DEF SaveAnew, Begins, Letters
<1>4. Urgent'
  BY <1>1, <1>2, <1>3, SameEscalating, UrgentKept DEF Unmarked
<1>5. ASSUME ~ scene.overlap PROVE Counted' /\ Photographed'
  <2>1. \A k : ~ Marking(k)
    BY <1>1, <1>5, OnlyHerMark DEF Unmarked, At
  <2>2. Counted'
    BY <1>1, <1>5, <2>1, CountedOn DEF OneAtATime, Known
  <2>3. Photographed'
    BY <1>2, <1>5 DEF Photographed
  <2> QED
    BY <2>2, <2>3
<1>6. OneAtATime'
  BY <1>1, <1>5, TurnTaken
<1> QED
  BY <1>4, <1>6

\* A place where nothing that was read is waited for.
Readers == {"photos", "submit", "manual", "write", "evict", "assign", "tell"}
LEMMA Unread ==
    ASSUME NEW a, run'[a].pc \notin Readers
    PROVE  Fits(a)'
BY DEF Fits, At, Readers

\* Who presses a button begins with nothing.
LEMMA Began ==
    ASSUME NEW a, NEW act, May(a, act) \/ Free(a)
    PROVE  run[a] = Idle /\ run[a].pc = "idle" /\ Free(a)
BY IdleLocal DEF May, Free

---------------------------------------------------------------------------
(* One at a time: the photographers.                                          *)

LEMMA AcceptTold ==
    ASSUME Known, Inv', NEW a \in Staff, Accept(a)
    PROVE  OneAtATime' /\ Urgent'
<1>1. a \in Actors /\ run[a].pc = "idle" /\ run'[a].pc = "claim" /\ StepOf(a)
  BY Began, Gone, Apart DEF Accept, world, Known, Inv, TypeOK, Places, StepOf
<1>2. Fits(a)'
  BY <1>1, Unread DEF Readers
<1> QED
  BY <1>1, <1>2, NothingWritten, Mishaps DEF Accept, Unmarked, Known, Inv

LEMMA ClaimTold ==
    ASSUME Known, Inv', NEW a \in Staff, Claim(a)
    PROVE  OneAtATime' /\ Urgent'
<1> DEFINE r == [row EXCEPT !.resp = a, !.status = "PICKUP_IN_PROGRESS", !.accepted = Now]
<1>1. a \in Actors /\ run[a].pc = "claim" /\ run'[a].pc = "idle" /\ StepOf(a) /\ mishaps' >= mishaps
  BY Busy, Stopped, IdleLocal, Apart, Mishaps DEF Claim, world, Known, Inv, TypeOK, StepOf, At
<1>2. Fits(a)'
  BY <1>1, Unread DEF Readers
<1>3. CASE UNCHANGED <<row, sent>>
  BY <1>1, <1>2, <1>3, NothingWritten DEF Unmarked
<1>4. CASE row.resp = None /\ CanAccept(row.status) /\ Save(r)
  <2>1. row \in Row /\ a # None
    BY StaffAssumption DEF Known, Inv, TypeOK
  <2>2. r \in Row /\ r.rejections = row.rejections /\ r.marks = row.marks
        /\ r.photos = row.photos /\ SaveAnew(r, {})
    BY <1>4, <2>1 DEF Row, Statuses, Now, Save
  <2>3. ~ scene.overlap => ~ row.photos
    BY <1>4 DEF Known, OneAtATime, Photographed, CanAccept
  <2> HIDE DEF r
  <2> QED
    BY <1>1, <1>2, <2>2, <2>3, RowWritten DEF Unmarked, MarksHeld
<1> QED
  BY <1>3, <1>4 DEF Claim

LEMMA RejectTold ==
    ASSUME Known, Inv', NEW a \in Staff, Reject(a)
    PROVE  OneAtATime' /\ Urgent'
<1>1. a \in Actors /\ run[a].pc = "idle" /\ run'[a].pc = "reject" /\ StepOf(a)
  <2>1. run[a] \in Local /\ a \in Actors /\ a \in DOMAIN run
    BY Apart DEF Known, Inv, TypeOK
  <2>2. run'[a].pc = "reject" /\ \A b \in Actors : b # a => run'[b] = run[b]
    BY <2>1 DEF Reject, Local, Known, Inv, TypeOK
  <2> QED
    BY <2>1, <2>2, Began DEF Reject, world, StepOf
<1>2. Fits(a)'
  BY <1>1, Unread DEF Readers
<1> QED
  BY <1>1, <1>2, NothingWritten, Mishaps DEF Reject, Unmarked, Known, Inv

\* The second refusal finds nobody escalating and nothing told.
LEMMA CountRejectionTold ==
    ASSUME Known, Inv', NEW a \in Staff, CountRejection(a)
    PROVE  OneAtATime' /\ Urgent'
<1> DEFINE r == [row EXCEPT !.rejections = @ + 1]
<1>1. /\ a \in Actors /\ run[a].pc = "reject" /\ StepOf(a) /\ mishaps' = mishaps /\ mishaps' >= mishaps
      /\ run'[a].pc \in {"idle", "escalate"}
      /\ Stop(a) => run'[a].pc = "idle"
      /\ Goto(a, "escalate") => run'[a].pc = "escalate"
  <2>1. run \in [Actors -> Local] /\ a \in Actors
    BY Apart DEF Known, Inv, TypeOK
  <2>2. Stop(a) => run'[a].pc = "idle" /\ \A b \in Actors : b # a => run'[b] = run[b]
    BY <2>1, Stopped, IdleLocal
  <2>3. Goto(a, "escalate") => run'[a].pc = "escalate" /\ \A b \in Actors : b # a => run'[b] = run[b]
    BY <2>1, Gone DEF Places
  <2>4. run[a].pc = "reject" /\ run[a] # Idle /\ (Stop(a) \/ Goto(a, "escalate"))
    BY Busy DEF CountRejection, At
  <2>5. scene' = scene /\ mishaps' = mishaps /\ mishaps' >= mishaps
    BY Mishaps DEF CountRejection, world, Known, Inv
  <2> QED
    BY <2>1, <2>2, <2>3, <2>4, <2>5 DEF StepOf
<1>2. Fits(a)'
  BY <1>1, Unread DEF Readers
<1>3. CASE Stop(a) /\ UNCHANGED <<row, sent>>
  BY <1>1, <1>2, <1>3, NothingWritten DEF Unmarked
<1>4. CASE row.rejections = run[a].n /\ Save(r) /\ (IF Critical(run[a].n) THEN Goto(a, "escalate") ELSE Stop(a))
  <2>1. /\ row \in Row /\ row.rejections \in Nat /\ row.rejections < MaxRejections
        /\ row.rejections \in 0..MaxRejections /\ MaxRejections \in Nat
    BY <1>4, SceneAssumption DEF Known, Inv, TypeOK, StillHolds, Row, CountRejection
  <2>2. /\ r \in Row /\ r.rejections = row.rejections + 1 /\ r.marks = row.marks /\ r.status = row.status
        /\ r.photos = row.photos /\ SaveAnew(r, {})
    BY <1>4, <2>1 DEF Row, Save
  <2>3. row'.rejections = row.rejections + 1 /\ row'.photos = row.photos /\ row'.status = row.status
    BY <2>2 DEF SaveAnew, Row
  <2>4. sent'["urgent"] = sent["urgent"] /\ sent["urgent"] \in 0..2
    BY <2>2 DEF SaveAnew, Begins, Letters, Known, Inv, TypeOK
  <2>5. Urgent'
    <3>1. CASE Critical(run[a].n)
      <4>1. run'[a].pc = "escalate" /\ row.rejections = 1 /\ row'.rejections = 2
        BY <1>1, <1>4, <2>1, <2>3, <3>1 DEF Critical
      <4>2. Escalating = {} /\ sent["urgent"] = 0
        BY <2>4, <4>1 DEF Known, Urgent
      <4>3. Escalating' = {a}
        BY <1>1, <4>1, <4>2 DEF Escalating, At, StepOf
      <4> QED
        BY <2>4, <4>1, <4>2, <4>3 DEF Urgent
    <3>2. CASE ~ Critical(run[a].n)
      <4>1. Escalating' = Escalating
        BY <1>1, <1>4, <3>2, SameEscalating
      <4>2. row'.rejections >= 2 <=> row.rejections >= 2
        BY <1>4, <2>1, <2>3, <3>2 DEF Critical
      <4> QED
        BY <1>1, <2>4, <4>1, <4>2 DEF Known, Urgent
    <3> QED
      BY <3>1, <3>2
  <2>6. OneAtATime'
    <3>1. ASSUME ~ scene.overlap PROVE Counted' /\ Photographed'
      <4>1. \A k : ~ Marking(k)
        BY <1>1, <3>1, OnlyHerMark DEF Known, At
      <4>2. Counted'
        <5> HIDE DEF r
        <5> QED
          BY <1>1, <2>2, <3>1, <4>1, CountedOn DEF Known, OneAtATime, MarksHeld
      <4>3. Photographed'
        BY <2>3, <3>1 DEF Known, OneAtATime, Photographed
      <4> QED
        BY <4>2, <4>3
    <3> QED
      BY <1>1, <1>2, <3>1, TurnTaken DEF Known
  <2> QED
    BY <2>5, <2>6
<1> QED
  BY <1>3, <1>4 DEF CountRejection

\* The one who escalates does it once.
LEMMA EscalateTold ==
    ASSUME Known, Inv', NEW a \in Staff, Escalate(a)
    PROVE  OneAtATime' /\ Urgent'
<1>1. a \in Actors /\ run[a].pc = "escalate" /\ run'[a].pc = "idle" /\ StepOf(a) /\ mishaps' >= mishaps
  BY Busy, Stopped, IdleLocal, Apart, Mishaps DEF Escalate, world, Known, Inv, TypeOK, StepOf, At
<1>2. row' = row
  BY DEF Escalate
<1>3. Escalating = {a} /\ Escalating' = {}
  <2>1. a \in Escalating
    BY <1>1 DEF Escalating, At
  <2>2. Escalating = {a}
    BY <2>1 DEF Known, Urgent
  <2> QED
    BY <1>1, <2>2 DEF Escalating, At, StepOf
<1>4. sent["urgent"] = 0 /\ row.rejections >= 2
  BY <1>3 DEF Known, Urgent
<1>5. /\ sent'["urgent"] = 1 \/ (sent'["urgent"] = 0 /\ mishaps' # 0)
      /\ \A k \in Marks : sent'[k] = sent[k]
  <2>1. CASE SendOne("urgent")
    BY <1>4, <2>1 DEF SendOne, Known, Inv, TypeOK, Letters, Marks
  <2>2. CASE Mishap("send") /\ UNCHANGED sent
    BY <1>4, <2>2, SceneAssumption DEF Mishap, Known, Inv, TypeOK
  <2> QED
    BY <2>1, <2>2 DEF Escalate
<1>6. Urgent'
  BY <1>2, <1>3, <1>4, <1>5 DEF Urgent
<1>7. OneAtATime'
  <2>1. Fits(a)'
    BY <1>1, Unread DEF Readers
  <2>2. ASSUME ~ scene.overlap PROVE Counted' /\ Photographed'
    <3>1. \A k : ~ Marking(k)
      BY <1>1, <2>2, OnlyHerMark DEF Known, At
    <3>2. ASSUME NEW k \in Marks
          PROVE  /\ sent'[k] <= mishaps' + 1
                 /\ (k = "stale" => row'.status = "ARRIVED") => sent'[k] <= mishaps' \/ k \in row'.marks
      <4>1. sent[k] \in 0..2 /\ mishaps \in Nat /\ mishaps' \in Nat /\ sent'[k] = sent[k]
        BY <1>5, SceneAssumption DEF Known, Inv, TypeOK, Letters
      <4>2. sent[k] <= mishaps + 1
            /\ ((k = "stale" => row.status = "ARRIVED") => sent[k] <= mishaps \/ k \in row.marks)
        BY <2>2, <3>1 DEF Known, OneAtATime, Counted
      <4> QED
        BY <1>1, <1>2, <4>1, <4>2
    <3>3. Counted'
      BY <3>2 DEF Counted
    <3>4. Photographed'
      BY <1>2, <2>2 DEF Known, OneAtATime, Photographed
    <3> QED
      BY <3>3, <3>4
  <2> QED
    BY <1>1, <2>1, <2>2, TurnTaken DEF Known
<1> QED
  BY <1>6, <1>7

LEMMA TakePhotosTold ==
    ASSUME Known, Inv', NEW a \in Staff, TakePhotos(a)
    PROVE  OneAtATime' /\ Urgent'
<1>1. a \in Actors /\ run[a].pc = "idle" /\ Free(a) /\ run \in [Actors -> Local]
  BY Began, Apart DEF TakePhotos, Known, Inv, TypeOK
<1>2. run'[a].pc \in {"idle", "take"} /\ \A b \in Actors : b # a => run'[b] = run[b]
  <2>1. CASE UNCHANGED run
    BY <1>1, <2>1
  <2>2. CASE Goto(a, "take")
    BY <1>1, <2>2, Gone DEF Places
  <2> QED
    BY <2>1, <2>2 DEF TakePhotos
<1>3. StepOf(a) /\ UNCHANGED <<row, sent>> /\ mishaps' >= mishaps
  BY <1>1, <1>2, Mishaps DEF TakePhotos, world, StepOf, Known, Inv
<1>4. Fits(a)'
  BY <1>2, Unread DEF Readers
<1> QED
  BY <1>1, <1>2, <1>3, <1>4, NothingWritten DEF Unmarked

\* She who takes it begins the occasions of her reminders.
LEMMA ClaimForPhotosTold ==
    ASSUME Known, Inv', NEW a \in Staff, ClaimForPhotos(a)
    PROVE  OneAtATime' /\ Urgent'
<1> DEFINE r == [row EXCEPT !.resp = a, !.accepted = Now, !.marks = @ \ {"photo", "end"}]
<1>1. a \in Actors /\ run[a].pc = "take" /\ run'[a].pc = "idle" /\ StepOf(a) /\ mishaps' >= mishaps
  BY Busy, Stopped, IdleLocal, Apart, Mishaps DEF ClaimForPhotos, world, Known, Inv, TypeOK, StepOf, At
<1>2. Fits(a)'
  BY <1>1, Unread DEF Readers
<1>3. CASE UNCHANGED <<row, sent>>
  BY <1>1, <1>2, <1>3, NothingWritten DEF Unmarked
<1>4. CASE row.resp = None /\ row.status = "DELIVERED" /\ Save(r)
  <2>1. row \in Row /\ a # None
    BY StaffAssumption DEF Known, Inv, TypeOK
  <2>2. /\ r \in Row /\ r.rejections = row.rejections /\ r.marks = row.marks \ {"photo", "end"}
        /\ r.photos = row.photos /\ r.status = row.status /\ r.resp = a /\ SaveAnew(r, {})
    BY <1>4, <2>1 DEF Row, Now, Save
  <2>3. ~ scene.overlap => ~ r.photos
    BY <1>4, <2>2 DEF Known, OneAtATime, Photographed, Closed
  <2>4. MarksHeld(r, {})
    <3> HIDE DEF r
    <3> QED
      BY <1>4, <2>1, <2>2 DEF MarksHeld, Begins
  <2> HIDE DEF r
  <2> QED
    BY <1>1, <1>2, <2>2, <2>3, <2>4, RowWritten DEF Unmarked
<1> QED
  BY <1>3, <1>4 DEF ClaimForPhotos

LEMMA DoneTold ==
    ASSUME Known, Inv', NEW a \in Staff, Done(a)
    PROVE  OneAtATime' /\ Urgent'
<1>1. a \in Actors /\ run[a].pc = "idle" /\ Free(a) /\ run \in [Actors -> Local]
  BY Began, Apart DEF Done, Known, Inv, TypeOK
<1>2. run'[a].pc = "photos" /\ \A b \in Actors : b # a => run'[b] = run[b]
  BY <1>1, Gone DEF Done, Places
<1>3. StepOf(a) /\ UNCHANGED <<row, sent>> /\ mishaps' >= mishaps
  BY <1>1, <1>2, Mishaps DEF Done, world, StepOf, Known, Inv
<1>4. Fits(a)'
  BY <1>2 DEF Fits, At, Done
<1> QED
  BY <1>1, <1>2, <1>3, <1>4, NothingWritten DEF Unmarked

LEMMA ReadPhotosTold ==
    ASSUME Known, Inv', NEW a \in Staff, ReadPhotos(a)
    PROVE  OneAtATime' /\ Urgent'
<1>1. a \in Actors /\ run[a].pc = "photos" /\ run[a] # Idle /\ run \in [Actors -> Local]
  BY Busy, Apart DEF ReadPhotos, Known, Inv, TypeOK, At
<1>2. /\ run'[a].pc = "submit" /\ run'[a].was = row.status
      /\ \A b \in Actors : b # a => run'[b] = run[b]
  <2>1. run[a] \in Local
    BY <1>1
  <2> QED
    BY <1>1, <2>1 DEF ReadPhotos, Local
<1>3. StepOf(a) /\ UNCHANGED <<row, sent, draft>> /\ mishaps' >= mishaps
  BY <1>1, <1>2, Mishaps DEF ReadPhotos, world, StepOf, Known, Inv
<1>4. ~ scene.overlap => Fits(a)'
  <2>1. ~ scene.overlap => a \in draft /\ row.resp = a
    BY <1>1 DEF Known, OneAtATime, Fits, At
  <2> QED
    BY <1>2, <1>3, <2>1 DEF Fits, At
<1> QED
  BY <1>1, <1>2, <1>3, <1>4, NothingWritten DEF Unmarked

\* The review of the photographs begins: its alert has not been sent.
LEMMA SubmitTold ==
    ASSUME Known, Inv', NEW a \in Staff, Submit(a)
    PROVE  OneAtATime' /\ Urgent'
<1> DEFINE r == [row EXCEPT !.photos = TRUE, !.status = "VERIFYING"]
           q == VerifyingEntry(r, run[a].was)
<1>1. a \in Actors /\ run[a].pc = "submit" /\ run'[a].pc = "album" /\ StepOf(a) /\ mishaps' >= mishaps
  BY Busy, Gone, Apart, Mishaps DEF Submit, world, Known, Inv, TypeOK, StepOf, At, Places
<1>2. Fits(a)'
  BY <1>1, Unread DEF Readers
<1>3. row \in Row
  BY DEF Known, Inv, TypeOK
<1>4. /\ q \in Row /\ q.rejections = row.rejections /\ q.status = "VERIFYING"
      /\ \A k \in row.marks : k \in q.marks \/ (k = "review" /\ run[a].was # "VERIFYING")
  <2>1. r \in Row /\ r.rejections = row.rejections /\ r.marks = row.marks /\ r.status = "VERIFYING"
    BY <1>3 DEF Row, Statuses
  <2> HIDE DEF r
  <2>2. CASE run[a].was = "VERIFYING"
    BY <2>1, <2>2 DEF VerifyingEntry
  <2>3. CASE run[a].was # "VERIFYING"
    BY <2>1, <2>3 DEF VerifyingEntry, Row
  <2> QED
    BY <2>2, <2>3
<1>5. SaveAnew(q, {})
  BY DEF Submit, Save
<1> HIDE DEF q
<1>6. ~ scene.overlap => MarksHeld(q, {})
  <2>1. ~ scene.overlap => run[a].was = row.status
    BY <1>1 DEF Known, OneAtATime, Fits, At
  <2> QED
    BY <1>4, <2>1 DEF MarksHeld, Begins
<1> QED
  BY <1>1, <1>2, <1>4, <1>5, <1>6, RowWritten DEF Unmarked

LEMMA SendAlbumTold ==
    ASSUME Known, Inv', NEW a \in Staff, SendAlbum(a)
    PROVE  OneAtATime' /\ Urgent'
<1>1. a \in Actors /\ run[a].pc = "album" /\ run'[a].pc = "idle" /\ StepOf(a) /\ mishaps' >= mishaps
  BY Busy, Stopped, IdleLocal, Apart, Mishaps DEF SendAlbum, world, Known, Inv, TypeOK, StepOf, At
<1>2. Fits(a)'
  BY <1>1, Unread DEF Readers
<1>3. row' = row /\ \A k \in Marks \cup {"urgent"} : sent'[k] = sent[k]
  BY DEF SendAlbum, SendOne, Known, Inv, TypeOK, Letters, Marks
<1> QED
  BY <1>1, <1>2, <1>3, NothingWritten DEF Unmarked

---------------------------------------------------------------------------
(* One at a time: the support account.                                        *)

LEMMA CloseTold ==
    ASSUME Known, Inv', NEW status \in Closed, Close(status)
    PROVE  OneAtATime' /\ Urgent'
<1> DEFINE r == [row EXCEPT !.status = status]
<1>1. "admin" \in Actors /\ run["admin"].pc = "idle" /\ run' = run /\ StepOf("admin") /\ mishaps' >= mishaps
  BY Began, Apart, Mishaps DEF Close, world, Known, Inv, StepOf
<1>2. Fits("admin")'
  BY <1>1, Unread DEF Readers
<1>3. /\ r \in Row /\ r.rejections = row.rejections /\ r.marks = row.marks /\ r.status \in Closed
      /\ SaveAnew(r, {})
  BY DEF Close, Save, Known, Inv, TypeOK, Row, Statuses
<1> HIDE DEF r
<1>4. MarksHeld(r, {})
  BY <1>3 DEF MarksHeld
<1> QED
  BY <1>1, <1>2, <1>3, <1>4, RowWritten DEF Unmarked

LEMMA MarkPickedUpTold ==
    ASSUME Known, Inv', MarkPickedUp
    PROVE  OneAtATime' /\ Urgent'
<1>1. /\ "admin" \in Actors /\ run["admin"].pc = "idle" /\ Free("admin")
      /\ run \in [Actors -> Local] /\ run["admin"] \in Local
  BY Began, Apart DEF MarkPickedUp, Known, Inv, TypeOK
<1>2. /\ run'["admin"].pc = "manual" /\ run'["admin"].was = row.status
      /\ \A b \in Actors : b # "admin" => run'[b] = run[b]
  BY <1>1 DEF MarkPickedUp, Local
<1>3. StepOf("admin") /\ UNCHANGED <<row, sent>> /\ mishaps' >= mishaps
  BY <1>1, <1>2, Mishaps DEF MarkPickedUp, world, StepOf, Known, Inv
<1>4. Fits("admin")'
  BY <1>2 DEF Fits, At, MarkPickedUp
<1> QED
  BY <1>1, <1>2, <1>3, <1>4, NothingWritten DEF Unmarked

\* What support read is so: the delivery, and with it its occasions, is new.
LEMMA WritePickedUpTold ==
    ASSUME Known, Inv', WritePickedUp
    PROVE  OneAtATime' /\ Urgent'
<1> DEFINE was == run["admin"].was
           taken == IF run["admin"].held = "none" THEN Now ELSE run["admin"].held
           r == [row EXCEPT !.status = "DELIVERED", !.accepted = taken,
                            !.marks = @ \ {"stale", "photo", "end"}]
           q == DeliveredEntry(r, was)
           v == [Idle EXCEPT !.pc = "notify", !.stage = "manual", !.seen = "DELIVERED"]
<1>1. /\ "admin" \in Actors /\ run["admin"].pc = "manual" /\ run["admin"] \in Local
      /\ run'["admin"].pc = "notify" /\ StepOf("admin") /\ mishaps' >= mishaps
  <2>1. /\ "admin" \in Actors /\ run \in [Actors -> Local] /\ run["admin"].pc = "manual"
        /\ run["admin"] # Idle /\ mishaps' >= mishaps
    BY Busy, Apart, Mishaps DEF WritePickedUp, Known, Inv, TypeOK, At
  <2>2. v \in Local /\ v.pc = "notify"
    BY ZenonT(60), IdleLocal DEF Idle, Local, Places, Rank, Statuses
  <2>3. run' = [run EXCEPT !["admin"] = v] /\ scene' = scene
    BY DEF WritePickedUp, world
  <2> HIDE DEF v
  <2> QED
    BY <2>1, <2>2, <2>3, RunReplaced DEF StepOf
<1>2. Fits("admin")'
  BY <1>1, Unread DEF Readers
<1>3. /\ r \in Row /\ r.rejections = row.rejections /\ r.status = "DELIVERED" /\ r.photos = row.photos
      /\ r.marks = row.marks \ {"stale", "photo", "end"}
  <2>1. taken \in {"none", "early", "late"} /\ row \in Row
    BY <1>1 DEF Local, Now, Known, Inv, TypeOK
  <2> HIDE DEF taken
  <2> QED
    BY <2>1 DEF Row, Statuses
<1> HIDE DEF r
<1>4. /\ q \in Row /\ q.rejections = row.rejections /\ q.status = "DELIVERED" /\ q.photos = row.photos
      /\ \A k \in row.marks : \/ k \in q.marks \/ k \in {"stale", "photo", "end"}
                              \/ k \in {"claim", "outside", "overdue"} /\ was # "DELIVERED"
  <2>1. CASE was = "DELIVERED"
    BY <1>3, <2>1 DEF DeliveredEntry
  <2>2. CASE was # "DELIVERED"
    BY <1>3, <2>2 DEF DeliveredEntry, Row
  <2> QED
    BY <2>1, <2>2
<1>5. SaveAnew(q, {"photo", "end"})
  BY DEF WritePickedUp, r
<1> HIDE DEF q
<1>6. ~ scene.overlap => MarksHeld(q, {"photo", "end"}) /\ ~ q.photos
  <2>1. ~ scene.overlap => was = row.status /\ CanMarkPickedUp(row.status) /\ Photographed
    BY <1>1 DEF Known, OneAtATime, Fits, At
  <2>2. ~ scene.overlap => MarksHeld(q, {"photo", "end"})
    BY <1>4, <2>1 DEF MarksHeld, Begins
  <2> QED
    BY <1>4, <2>1, <2>2 DEF CanMarkPickedUp, Photographed
<1> QED
  BY <1>1, <1>2, <1>4, <1>5, <1>6, RowWritten DEF Unmarked

---------------------------------------------------------------------------
(* One at a time: the cycles.                                                 *)

LEMMA TickTold ==
    ASSUME Known, Inv', NEW c \in Cycles, Tick(c)
    PROVE  OneAtATime' /\ Urgent'
<1>1. /\ c \in Actors /\ run[c].pc = "idle" /\ Free(c)
      /\ run \in [Actors -> Local] /\ run[c] \in Local
  BY Began, Apart DEF Tick, Known, Inv, TypeOK
<1>2. run'[c].pc = "list" /\ \A b \in Actors : b # c => run'[b] = run[b]
  BY <1>1 DEF Tick, Local
<1>3. StepOf(c) /\ UNCHANGED <<row, sent>> /\ mishaps' >= mishaps
  BY <1>1, <1>2, Mishaps DEF Tick, world, StepOf, Known, Inv
<1>4. Fits(c)'
  BY <1>2, Unread DEF Readers
<1> QED
  BY <1>1, <1>2, <1>3, <1>4, NothingWritten DEF Unmarked

LEMMA ReadListTold ==
    ASSUME Known, Inv', NEW c \in Cycles, ReadList(c)
    PROVE  OneAtATime' /\ Urgent'
<1>1. /\ c \in Actors /\ run[c].pc = "list" /\ run[c] # Idle
      /\ run \in [Actors -> Local]
  BY Busy, Apart DEF ReadList, Known, Inv, TypeOK, At
<1>2. /\ run'[c].pc \in {"idle", "track", "look", "facts", "gone"}
      /\ \A b \in Actors : b # c => run'[b] = run[b]
  <2>1. CASE Onward(c)
    BY <1>1, <2>1, WentOn
  <2>2. CASE Goto(c, IF web.listed THEN "facts" ELSE "gone")
    <3>1. (IF web.listed THEN "facts" ELSE "gone") \in {"facts", "gone"} \cap Places
      BY DEF Places
    <3> QED
      BY <1>1, <2>2, <3>1, Gone
  <2>3. CASE Stop(c)
    BY <1>1, <2>3, Stopped, IdleLocal
  <2> QED
    BY <2>1, <2>2, <2>3 DEF ReadList
<1>3. mishaps' >= mishaps
  BY Mishaps DEF ReadList, Known, Inv
<1>4. StepOf(c) /\ UNCHANGED <<row, sent>>
  BY <1>1, <1>2 DEF ReadList, world, StepOf
<1>5. Fits(c)'
  BY <1>2, Unread DEF Readers
<1> QED
  BY <1>1, <1>2, <1>3, <1>4, <1>5, NothingWritten DEF Unmarked

LEMMA SyncFactsTold ==
    ASSUME Known, Inv', NEW c \in Cycles, SyncFacts(c)
    PROVE  OneAtATime' /\ Urgent'
<1> DEFINE r == [row EXCEPT !.loc = @ \/ web.loc, !.courier = web.courier]
<1>1. /\ c \in Actors /\ run[c].pc = "facts" /\ run[c] # Idle
      /\ run \in [Actors -> Local] /\ run[c] \in Local
  BY Busy, Apart DEF SyncFacts, Known, Inv, TypeOK, At
<1>2. /\ run'[c].pc \in {"track", "notify"}
      /\ \A b \in Actors : b # c => run'[b] = run[b]
  <2>1. CASE Goto(c, "track")
    BY <1>1, <2>1, Gone DEF Places
  <2>2. CASE run' = [run EXCEPT ![c] = [@ EXCEPT !.pc = "notify", !.stage = "facts", !.seen = "ARRIVED"]]
    BY <1>1, <2>2 DEF Local
  <2> QED
    BY <2>1, <2>2 DEF SyncFacts
<1>3. StepOf(c) /\ mishaps' >= mishaps
  BY <1>1, <1>2, Mishaps DEF SyncFacts, world, StepOf, Known, Inv
<1>4. Fits(c)'
  BY <1>2, Unread DEF Readers
<1>5. CASE UNCHANGED <<row, sent>>
  BY <1>1, <1>2, <1>3, <1>4, <1>5, NothingWritten DEF Unmarked
<1>6. CASE Save(r)
  <2>1. /\ r \in Row /\ r.rejections = row.rejections /\ r.marks = row.marks /\ r.status = row.status
        /\ r.photos = row.photos /\ SaveAnew(r, {})
    <3>1. row \in Row /\ web.courier \in BOOLEAN /\ (row.loc \/ web.loc) \in BOOLEAN
      BY DEF Known, Inv, TypeOK, WebRow, Row
    <3> QED
      BY <1>6, <3>1 DEF Save, Row
  <2> HIDE DEF r
  <2>2. MarksHeld(r, {})
    BY <2>1 DEF MarksHeld
  <2>3. ~ scene.overlap => (r.photos => r.status \in Closed \cup {"VERIFYING"})
    BY <2>1 DEF Known, OneAtATime, Photographed
  <2> QED
    BY <1>1, <1>2, <1>3, <1>4, <2>1, <2>2, <2>3, RowWritten DEF Unmarked
<1> QED
  BY <1>5, <1>6 DEF SyncFacts

LEMMA CancelGoneTold ==
    ASSUME Known, Inv', NEW c \in Cycles, CancelGone(c)
    PROVE  OneAtATime' /\ Urgent'
<1> DEFINE r == [row EXCEPT !.status = "CANCELLED"]
<1>1. /\ c \in Actors /\ run[c].pc = "gone" /\ run[c] # Idle
      /\ run \in [Actors -> Local]
  BY Busy, Apart DEF CancelGone, Known, Inv, TypeOK, At
<1>2. /\ run'[c].pc \in {"idle", "track", "look"}
      /\ \A b \in Actors : b # c => run'[b] = run[b]
  BY <1>1, WentOn DEF CancelGone
<1>3. StepOf(c) /\ mishaps' >= mishaps
  BY <1>1, <1>2, Mishaps DEF CancelGone, world, StepOf, Known, Inv
<1>4. Fits(c)'
  BY <1>2, Unread DEF Readers
<1>5. CASE UNCHANGED <<row, sent>>
  BY <1>1, <1>2, <1>3, <1>4, <1>5, NothingWritten DEF Unmarked
<1>6. CASE Save(r)
  <2>1. /\ r \in Row /\ r.rejections = row.rejections /\ r.marks = row.marks /\ r.status \in Closed
        /\ SaveAnew(r, {})
    BY <1>6 DEF Save, Known, Inv, TypeOK, Row, Statuses, Closed
  <2> HIDE DEF r
  <2>2. MarksHeld(r, {})
    BY <2>1 DEF MarksHeld
  <2> QED
    BY <1>1, <1>2, <1>3, <1>4, <2>1, <2>2, RowWritten DEF Unmarked
<1> QED
  BY <1>5, <1>6 DEF CancelGone

LEMMA TrackTold ==
    ASSUME Known, Inv', NEW c \in Cycles, Track(c)
    PROVE  OneAtATime' /\ Urgent'
<1>1. PICK seen \in {np, None} :
          /\ IF seen = np THEN UNCHANGED mishaps ELSE Mishap("track")
          /\ run' = [run EXCEPT ![c] = [@ EXCEPT !.pc = "read", !.seen = seen]]
  BY DEF Track
<1>2. /\ c \in Actors /\ run[c].pc = "track" /\ run[c] # Idle
      /\ run \in [Actors -> Local] /\ run[c] \in Local
  BY Busy, Apart DEF Track, Known, Inv, TypeOK, At
<1>3. run'[c].pc = "read" /\ \A b \in Actors : b # c => run'[b] = run[b]
  BY <1>1, <1>2 DEF Local
<1>4. mishaps' >= mishaps
  BY <1>1, Mishaps DEF Known, Inv
<1>5. StepOf(c) /\ UNCHANGED <<row, sent>>
  BY <1>2, <1>3 DEF Track, world, StepOf
<1>6. Fits(c)'
  BY <1>3, Unread DEF Readers
<1> QED
  BY <1>2, <1>3, <1>4, <1>5, <1>6, NothingWritten DEF Unmarked

\* Of an old row the status is read.
LEMMA ReadRowTold ==
    ASSUME Known, Inv', NEW c \in Cycles, ReadRow(c)
    PROVE  OneAtATime' /\ Urgent'
<1>1. /\ c \in Actors /\ run[c].pc = "read" /\ run[c] # Idle
      /\ run \in [Actors -> Local] /\ run[c] \in Local /\ mishaps' >= mishaps
  BY Busy, Apart, Mishaps DEF ReadRow, Known, Inv, TypeOK, At
<1>2. /\ run'[c].pc \in {"create", "write"} /\ run'[c].was = row.status
      /\ \A b \in Actors : b # c => run'[b] = run[b]
  BY <1>1, ZenonT(30) DEF ReadRow, Local
<1>3. StepOf(c) /\ UNCHANGED <<row, sent>>
  BY <1>1, <1>2 DEF ReadRow, world, StepOf
<1>4. Fits(c)'
  BY <1>2, <1>3 DEF Fits, At
<1> QED
  BY <1>1, <1>2, <1>3, <1>4, NothingWritten DEF Unmarked

\* A new row has no photographs.
LEMMA CreateRowTold ==
    ASSUME Known, Inv', NEW c \in Cycles, CreateRow(c)
    PROVE  OneAtATime' /\ Urgent'
<1> DEFINE new == InitialStatus(run[c].seen)
           r == [row EXCEPT !.status = new, !.loc = web.loc, !.courier = web.courier,
                            !.delivered = IF new = "DELIVERED" THEN "fresh" ELSE "none"]
<1>1. /\ c \in Actors /\ run[c].pc = "create" /\ run[c] # Idle
      /\ run \in [Actors -> Local] /\ run[c] \in Local /\ mishaps' >= mishaps
  BY Busy, Apart, Mishaps DEF CreateRow, Known, Inv, TypeOK, At
<1>2. /\ run'[c].pc \in {"idle", "track", "look"}
      /\ \A b \in Actors : b # c => run'[b] = run[b]
  <2>1. CASE Onward(c)
    BY <1>1, <2>1, WentOn
  <2>2. CASE Stop(c)
    BY <1>1, <2>2, Stopped, IdleLocal
  <2> QED
    BY <2>1, <2>2 DEF CreateRow
<1>3. StepOf(c) /\ Fits(c)'
  BY <1>1, <1>2, Unread DEF CreateRow, world, StepOf, Readers
<1>4. CASE UNCHANGED <<row, sent>>
  BY <1>1, <1>2, <1>3, <1>4, NothingWritten DEF Unmarked
<1>5. CASE row.status = NoRow /\ Save(r)
  <2>1. run[c].seen \in Statuses \cup {"REDIRECTED", None}
    BY <1>1 DEF Local
  <2>2. new \in Statuses /\ row \in Row /\ web.loc \in BOOLEAN /\ web.courier \in BOOLEAN
    BY <2>1, NextStatus DEF Known, Inv, TypeOK, WebRow, NoRow
  <2> HIDE DEF new
  <2>3. /\ r \in Row /\ r.rejections = row.rejections /\ r.marks = row.marks
        /\ r.photos = row.photos /\ SaveAnew(r, {})
    BY <1>5, <2>2 DEF Save, Row
  <2> HIDE DEF r
  <2>4. MarksHeld(r, {}) /\ (~ scene.overlap => ~ r.photos)
    BY <1>5, <2>3 DEF MarksHeld, Known, OneAtATime, Photographed, NoRow, Closed
  <2> QED
    BY <1>1, <1>2, <1>3, <2>3, <2>4, RowWritten DEF Unmarked
<1> QED
  BY <1>4, <1>5 DEF CreateRow

\* The status that was read is the row's: what it moves to is entered anew, and
\* photographs under review are not moved.
LEMMA WriteStatusTold ==
    ASSUME Known, Inv', NEW c \in Cycles, WriteStatus(c)
    PROVE  OneAtATime' /\ Urgent'
<1> DEFINE me == run[c]
           next == Resolve(me.was, me.seen, me.courier)
           r == [row EXCEPT !.status = next, !.marks = @ \ {"stale"}]
           q == IF next = "DELIVERED" THEN DeliveredEntry(r, me.was) ELSE r
           v == [Idle EXCEPT !.pc = "notify", !.stage = "sync", !.seen = next]
<1>1. /\ c \in Actors /\ me.pc = "write" /\ me # Idle
      /\ run \in [Actors -> Local] /\ me \in Local /\ scene' = scene /\ mishaps' >= mishaps
  BY Busy, Apart, Mishaps DEF WriteStatus, Known, Inv, TypeOK, At, world
<1>2. CASE next = me.was
  <2>1. Onward(c) /\ UNCHANGED <<row, sent>>
    BY <1>2 DEF WriteStatus
  <2>2. /\ run'[c].pc \in {"idle", "track", "look"}
        /\ \A b \in Actors : b # c => run'[b] = run[b]
    BY <1>1, <2>1, WentOn
  <2>3. StepOf(c) /\ Fits(c)'
    BY <1>1, <2>2, Unread DEF StepOf, Readers
  <2> QED
    BY <1>1, <2>1, <2>2, <2>3, NothingWritten DEF Unmarked
<1>3. CASE next # me.was
  <2>1. SaveAnew(q, {}) /\ run' = [run EXCEPT ![c] = v]
    BY <1>3 DEF WriteStatus, Save
  <2>2. next \in Statuses
    <3>1. me.was \in Statuses \cup {NoRow} /\ me.seen \in Statuses \cup {"REDIRECTED", None}
      BY <1>1 DEF Local
    <3>2. next \in Statuses \cup {NoRow}
      BY <3>1, NextStatus
    <3>3. next = NoRow => next = me.was
      BY <3>1 DEF Resolve, NoRow, Statuses, Closed
    <3> QED
      BY <1>3, <3>2, <3>3
  <2>3. ~ scene.overlap => me.was = row.status /\ ~ row.photos
    <3>1. ~ scene.overlap => me.was = row.status
      BY <1>1 DEF Known, OneAtATime, Fits, At
    <3>2. me.was \notin Closed \cup {"VERIFYING"}
      BY <1>3 DEF Resolve
    <3> QED
      BY <3>1, <3>2 DEF Known, OneAtATime, Photographed
  <2> HIDE DEF next
  <2>4. v \in Local /\ v.pc = "notify"
    BY <2>2, IdleLocal DEF Idle, Local, Places, Rank
  <2> HIDE DEF v
  <2>5. /\ run'[c].pc = "notify" /\ StepOf(c)
    BY <1>1, <2>1, <2>4, RunReplaced DEF StepOf
  <2>6. Fits(c)'
    BY <2>5, Unread DEF Readers
  <2>7. /\ r \in Row /\ r.rejections = row.rejections /\ r.status = next /\ r.photos = row.photos
        /\ r.marks = row.marks \ {"stale"}
    <3>1. row \in Row
      BY DEF Known, Inv, TypeOK
    <3> QED
      BY <2>2, <3>1 DEF Row
  <2> HIDE DEF r
  <2>8. /\ q \in Row /\ q.rejections = row.rejections /\ q.status = next /\ q.photos = row.photos
        /\ \A k \in row.marks :
              \/ k \in q.marks \/ k = "stale"
              \/ k \in {"claim", "outside", "overdue"} /\ next = "DELIVERED"
    <3>1. CASE next = "DELIVERED" /\ me.was # "DELIVERED"
      BY <2>7, <3>1 DEF DeliveredEntry, Row
    <3>2. CASE next # "DELIVERED" \/ me.was = "DELIVERED"
      BY <2>7, <3>2 DEF DeliveredEntry
    <3> QED
      BY <3>1, <3>2
  <2> HIDE DEF q
  <2>9. ~ scene.overlap => MarksHeld(q, {}) /\ ~ q.photos
    BY <1>3, <2>3, <2>8 DEF MarksHeld, Begins
  <2> QED
    BY <1>1, <2>1, <2>5, <2>6, <2>8, <2>9, RowWritten DEF Unmarked
<1> QED
  BY <1>2, <1>3

\* The next wait begins with its alert unsent.
LEMMA EvictTold ==
    ASSUME Known, Inv', NEW c \in Cycles, Evict(c)
    PROVE  OneAtATime' /\ Urgent'
<1> DEFINE r == [row EXCEPT !.status = "ARRIVED", !.resp = None, !.accepted = "none",
                            !.marks = @ \ {"end", "photo", "stale"}]
<1>1. /\ c \in Actors /\ run[c].pc = "evict" /\ run[c] # Idle
      /\ run \in [Actors -> Local] /\ scene' = scene /\ mishaps' >= mishaps
  BY Busy, Apart, Mishaps DEF Evict, Known, Inv, TypeOK, At, world
<1>2. /\ run'[c].pc \in {"idle", "track", "look"}
      /\ \A b \in Actors : b # c => run'[b] = run[b]
  BY <1>1, WentOn DEF Evict
<1>3. StepOf(c) /\ Fits(c)'
  BY <1>1, <1>2, Unread DEF StepOf, Readers
<1>4. /\ r \in Row /\ r.rejections = row.rejections /\ r.photos = row.photos /\ r.resp = None
      /\ r.status = "ARRIVED" /\ r.marks = row.marks \ {"end", "photo", "stale"}
      /\ SaveAnew(r, {})
  BY DEF Evict, Save, Known, Inv, TypeOK, Row, Statuses
<1> HIDE DEF r
<1>5. ~ scene.overlap => row.resp # None
  BY <1>1 DEF Known, OneAtATime, Fits, At
<1>6. ~ scene.overlap => row.status = "PICKUP_IN_PROGRESS" /\ ~ row.photos
  BY <1>1 DEF Known, OneAtATime, Fits, At, Photographed, Closed
<1>7. ~ scene.overlap => MarksHeld(r, {}) /\ ~ r.photos
  BY <1>4, <1>5, <1>6 DEF MarksHeld, Begins
<1> QED
  BY <1>1, <1>2, <1>3, <1>4, <1>7, RowWritten DEF Unmarked

---------------------------------------------------------------------------
(* One at a time: what is told.                                               *)

LEMMA NotifyTold ==
    ASSUME Known, Inv', NEW a \in Actors, Notify(a)
    PROVE  OneAtATime' /\ Urgent'
<1>1. run[a].pc = "notify" /\ run[a] # Idle /\ run \in [Actors -> Local] /\ mishaps' >= mishaps
  BY Busy, Mishaps DEF Notify, Known, Inv, TypeOK, At
<1>2. run'[a].pc \in {"idle", "track", "look"} /\ \A b \in Actors : b # a => run'[b] = run[b]
  <2>1. CASE Goto(a, "look")
    BY <1>1, <2>1, Gone DEF Places
  <2>2. CASE Onward(a)
    BY <1>1, <2>2, WentOn
  <2> QED
    BY <2>1, <2>2 DEF Notify
<1>3. StepOf(a) /\ Fits(a)' /\ UNCHANGED <<row, sent>>
  BY <1>1, <1>2, Unread DEF Notify, world, StepOf, Readers
<1> QED
  BY <1>1, <1>2, <1>3, NothingWritten DEF Unmarked

\* What is due is not marked, so it has not been sent.
LEMMA LookTold ==
    ASSUME Known, Inv', NEW a \in Actors, Look(a)
    PROVE  OneAtATime' /\ Urgent'
<1>1. PICK stage \in Ahead(a) : \E k \in DueNow(stage) :
          run' = [run EXCEPT ![a] = [@ EXCEPT !.stage = stage, !.kind = k,
                    !.pc = IF k \in {"assign", "evict"} THEN k ELSE "tell",
                    !.to = IF k = "assign" THEN CHOOSE s \in shift : TRUE ELSE None]]
  BY ZenonT(60) DEF Look
<1>2. PICK k \in DueNow(stage) :
          run' = [run EXCEPT ![a] = [@ EXCEPT !.stage = stage, !.kind = k,
                    !.pc = IF k \in {"assign", "evict"} THEN k ELSE "tell",
                    !.to = IF k = "assign" THEN CHOOSE s \in shift : TRUE ELSE None]]
  BY <1>1
<1> DEFINE pc == IF k \in {"assign", "evict"} THEN k ELSE "tell"
           to == IF k = "assign" THEN CHOOSE s \in shift : TRUE ELSE None
<1>3. /\ run[a].pc = "look" /\ run[a] # Idle /\ run \in [Actors -> Local] /\ run[a] \in Local
      /\ mishaps' >= mishaps /\ UNCHANGED <<row, sent, scene, mishaps>>
  BY Busy, Mishaps DEF Look, Known, Inv, TypeOK, At, world
<1>4. /\ run'[a].pc = pc /\ run'[a].kind = k /\ run'[a].to = to
      /\ \A b \in Actors : b # a => run'[b] = run[b]
  <2>1. run' = [run EXCEPT ![a] = [@ EXCEPT !.stage = stage, !.kind = k, !.pc = pc, !.to = to]]
    BY <1>2
  <2> HIDE DEF pc, to
  <2> QED
    BY <1>3, <2>1 DEF Local
<1>5. StepOf(a)
  BY <1>3, <1>4 DEF StepOf
<1>6. pc \in {"assign", "evict", "tell"} /\ Due(k, stage)
      /\ (pc = "tell" => k \in Marks \ row.marks) /\ (pc # "tell" => k = pc)
  BY DEF DueNow
<1>7. pc = "evict" => row.status = "PICKUP_IN_PROGRESS" /\ row.resp # None
  <2>1. ASSUME k = "evict" PROVE row.status = "PICKUP_IN_PROGRESS" /\ row.resp # None
    BY <1>6, <2>1 DEF Due, Leftover
  <2> QED
    BY <1>6, <2>1
<1>8. pc = "assign" => to \in Staff
  <2>1. ASSUME k = "assign" PROVE to \in Staff
    BY <2>1, OnlyOne DEF Known
  <2> QED
    BY <1>6, <2>1
<1>9. ~ scene.overlap /\ pc = "tell" => sent[k] <= mishaps
  <2> SUFFICES ASSUME ~ scene.overlap, pc = "tell" PROVE sent[k] <= mishaps
    OBVIOUS
  <2>1. ~ Marking(k)
    BY <1>3, <1>5, OnlyHerMark DEF Known, At
  <2>2. k = "stale" => row.status = "ARRIVED"
    <3>1. ASSUME k = "stale" PROVE row.status = "ARRIVED"
      BY <1>6, <3>1 DEF Due
    <3> QED
      BY <3>1
  <2>3. k \in Marks /\ k \notin row.marks
    BY <1>6
  <2> HIDE DEF pc
  <2> QED
    BY <2>1, <2>2, <2>3 DEF Known, OneAtATime, Counted
<1> HIDE DEF pc, to
<1>10. ~ scene.overlap => Fits(a)'
  BY <1>3, <1>4, <1>6, <1>7, <1>8, <1>9 DEF Fits, At
<1> QED
  BY <1>3, <1>4, <1>5, <1>6, <1>10, NothingWritten DEF Unmarked

LEMMA PassByTold ==
    ASSUME Known, Inv', NEW a \in Actors, PassBy(a)
    PROVE  OneAtATime' /\ Urgent'
<1>1. run[a].pc = "look" /\ run[a] # Idle /\ run \in [Actors -> Local] /\ mishaps' >= mishaps
  BY Busy, Mishaps DEF PassBy, Known, Inv, TypeOK, At
<1>2. run'[a].pc = "idle" /\ \A b \in Actors : b # a => run'[b] = run[b]
  BY <1>1, Stopped, IdleLocal DEF PassBy
<1>3. StepOf(a) /\ Fits(a)' /\ UNCHANGED <<row, sent>>
  BY <1>1, <1>2, Unread DEF PassBy, world, StepOf, Readers
<1> QED
  BY <1>1, <1>2, <1>3, NothingWritten DEF Unmarked

LEMMA AssignTold ==
    ASSUME Known, Inv', NEW a \in Actors, Assign(a)
    PROVE  OneAtATime' /\ Urgent'
<1> DEFINE r == [row EXCEPT !.resp = run[a].to, !.accepted = Now, !.marks = @ \ {"photo", "end"}]
<1>1. /\ run[a].pc = "assign" /\ run[a] # Idle /\ run \in [Actors -> Local] /\ run[a] \in Local
      /\ scene' = scene /\ mishaps' >= mishaps
  BY Busy, Mishaps DEF Assign, Known, Inv, TypeOK, At, world
<1>2. run'[a].pc \in {"idle", "track", "look"} /\ \A b \in Actors : b # a => run'[b] = run[b]
  BY <1>1, WentOn DEF Assign
<1>3. StepOf(a) /\ Fits(a)'
  BY <1>1, <1>2, Unread DEF StepOf, Readers
<1>4. CASE UNCHANGED <<row, sent>>
  BY <1>1, <1>2, <1>3, <1>4, NothingWritten DEF Unmarked
<1>5. CASE row.resp = None /\ ~ row.photos /\ Save(r)
  <2>1. row \in Row /\ run[a].to \in Staff \cup {None}
    BY <1>1 DEF Known, Inv, TypeOK, Local
  <2>2. /\ r \in Row /\ r.rejections = row.rejections /\ r.photos = row.photos /\ r.resp = run[a].to
        /\ r.marks = row.marks \ {"photo", "end"} /\ SaveAnew(r, {})
    BY <1>5, <2>1 DEF Save, Row, Now
  <2> HIDE DEF r
  <2>3. ~ scene.overlap => run[a].to # None
    BY <1>1, StaffAssumption DEF Known, OneAtATime, Fits, At
  <2>4. ~ scene.overlap => MarksHeld(r, {}) /\ ~ r.photos
    BY <1>5, <2>2, <2>3 DEF MarksHeld, Begins
  <2> QED
    BY <1>1, <1>2, <1>3, <2>2, <2>4, RowWritten DEF Unmarked
<1> QED
  BY <1>4, <1>5 DEF Assign

\* The letter that is sent is about to be marked; one that is lost is a mishap.
LEMMA TellTold ==
    ASSUME Known, Inv', NEW a \in Actors, Tell(a)
    PROVE  OneAtATime' /\ Urgent'
<1> DEFINE k == run[a].kind
<1>1. /\ run[a].pc = "tell" /\ run[a] # Idle /\ run \in [Actors -> Local] /\ k \in Marks
      /\ scene' = scene /\ row' = row /\ mishaps' >= mishaps /\ mishaps \in Nat /\ mishaps' \in Nat
  <2>1. k \in Marks /\ mishaps' >= mishaps
    BY Mishaps DEF Tell, Known, Inv, StillHolds
  <2> QED
    BY <2>1, Busy, SceneAssumption DEF Tell, Known, Inv, TypeOK, At, world
<1>2. /\ run'[a].pc \in {"idle", "track", "look", "mark"} /\ \A b \in Actors : b # a => run'[b] = run[b]
      /\ (Goto(a, "mark") => run'[a].pc = "mark" /\ run'[a].kind = k)
  <2>1. Goto(a, "mark") => run'[a].pc = "mark" /\ run'[a].kind = k /\ \A b \in Actors : b # a => run'[b] = run[b]
    BY <1>1, Gone DEF Places
  <2>2. Onward(a) => run'[a].pc \in {"idle", "track", "look"} /\ \A b \in Actors : b # a => run'[b] = run[b]
    BY <1>1, WentOn
  <2>3. Goto(a, "mark") \/ Onward(a)
    BY DEF Tell
  <2> QED
    BY <2>1, <2>2, <2>3
<1>3. StepOf(a) /\ Fits(a)'
  BY <1>1, <1>2, Unread DEF StepOf, Readers
<1>4. \A j \in Marks \cup {"urgent"} : j # k => sent'[j] = sent[j]
  BY DEF Tell, SendOne, Known, Inv, TypeOK, Letters
<1>5. Urgent'
  <2>1. Escalating' = Escalating
    BY <1>1, <1>2, <1>3, SameEscalating
  <2>2. sent'["urgent"] = sent["urgent"]
    BY <1>1, <1>4 DEF Marks
  <2> QED
    BY <1>1, <2>1, <2>2, UrgentKept DEF Known, Inv
<1>6. ASSUME ~ scene.overlap PROVE Counted' /\ Photographed'
  <2>1. Photographed'
    BY <1>1, <1>6 DEF Known, OneAtATime, Photographed
  <2>2. /\ \A j : ~ Marking(j)
        /\ Counted /\ sent[k] <= mishaps
    BY <1>1, <1>3, <1>6, OnlyHerMark DEF Known, OneAtATime, At, Fits
  <2>3. CASE SendOne(k) /\ Goto(a, "mark") /\ UNCHANGED mishaps
    <3>1. Marking(k)'
      BY <1>2, <2>3 DEF Marking, At
    <3>2. sent[k] \in 0..2 /\ sent'[k] \in 0..2 /\ (sent'[k] = sent[k] \/ sent'[k] = sent[k] + 1)
      BY <1>1, <2>3 DEF SendOne, Known, Inv, TypeOK, Letters
    <3>3. sent'[k] <= mishaps' + 1
      BY <1>1, <2>2, <2>3, <3>2
    <3>4. \A j \in Marks : j # k => sent'[j] <= mishaps' + 1
              /\ ((j = "stale" => row'.status = "ARRIVED") => sent'[j] <= mishaps' \/ j \in row'.marks)
      BY <1>1, <1>4, <2>2, <2>3 DEF Counted
    <3>5. ASSUME NEW j \in Marks
          PROVE  /\ sent'[j] <= mishaps' + 1
                 /\ (j = "stale" => row'.status = "ARRIVED")
                      => sent'[j] <= mishaps' \/ j \in row'.marks \/ Marking(j)'
      <4>1. CASE j = k
        BY <1>2, <2>3, <3>1, <3>3, <4>1
      <4>2. CASE j # k
        BY <3>4, <4>2
      <4> QED
        BY <4>1, <4>2
    <3> QED
      BY <2>1, <3>5 DEF Counted
  <2>4. CASE Mishap("send") /\ UNCHANGED sent
    <3>1. mishaps' = mishaps + 1
      BY <2>4 DEF Mishap
    <3>2. ASSUME NEW j \in Marks PROVE sent'[j] <= mishaps' /\ sent'[j] <= mishaps' + 1
      <4>1. sent[j] \in 0..2 /\ sent'[j] = sent[j] /\ sent[j] <= mishaps + 1
        BY <2>2, <2>4 DEF Counted, Known, Inv, TypeOK, Letters
      <4> QED
        BY <1>1, <3>1, <4>1
    <3>3. Counted'
      BY <3>2 DEF Counted
    <3> QED
      BY <2>1, <3>3
  <2> QED
    BY <2>3, <2>4 DEF Tell
<1>7. OneAtATime'
  BY <1>3, <1>6, TurnTaken DEF Known
<1> QED
  BY <1>5, <1>7

LEMMA MarkTold ==
    ASSUME Known, Inv', NEW a \in Actors, Mark(a)
    PROVE  OneAtATime' /\ Urgent'
<1> DEFINE r == [row EXCEPT !.marks = @ \cup {run[a].kind}]
<1>1. /\ run[a].pc = "mark" /\ run[a] # Idle /\ run \in [Actors -> Local] /\ run[a].kind \in Marks
      /\ scene' = scene /\ mishaps' >= mishaps
  <2>1. run[a].kind \in Marks /\ mishaps' >= mishaps
    BY Mishaps DEF Mark, Known, Inv, StillHolds
  <2> QED
    BY <2>1, Busy DEF Mark, Known, Inv, TypeOK, At, world
<1>2. run'[a].pc \in {"idle", "track", "look"} /\ \A b \in Actors : b # a => run'[b] = run[b]
  BY <1>1, WentOn DEF Mark
<1>3. StepOf(a) /\ Fits(a)'
  BY <1>1, <1>2, Unread DEF StepOf, Readers
<1>4. /\ r \in Row /\ r.rejections = row.rejections /\ r.photos = row.photos /\ r.status = row.status
      /\ r.marks = row.marks \cup {run[a].kind} /\ SaveAnew(r, {})
  BY <1>1 DEF Mark, Save, Known, Inv, TypeOK, Row
<1> HIDE DEF r
<1>5. row'.rejections = row.rejections /\ row'.photos = row.photos /\ row'.status = row.status
      /\ sent'["urgent"] = sent["urgent"]
  BY <1>4 DEF SaveAnew, Row, Begins, Letters
<1>6. Urgent'
  BY <1>1, <1>2, <1>3, <1>5, SameEscalating, UrgentKept DEF Known, Inv
<1>7. ASSUME ~ scene.overlap PROVE Counted' /\ Photographed'
  <2>1. \A k : Marking(k) => k \in r.marks
    BY <1>3, <1>4, <1>7, OnlyHerMark DEF Known
  <2>2. MarksHeld(r, {})
    BY <1>4 DEF MarksHeld
  <2>3. Counted'
    BY <1>1, <1>4, <1>7, <2>1, <2>2, CountedOn DEF Known, OneAtATime
  <2>4. Photographed'
    BY <1>5, <1>7 DEF Known, OneAtATime, Photographed
  <2> QED
    BY <2>3, <2>4
<1>8. OneAtATime'
  BY <1>3, <1>7, TurnTaken DEF Known
<1> QED
  BY <1>6, <1>8

---------------------------------------------------------------------------
(* One at a time: the world and the invariant.                                *)

LEMMA NewsTold ==
    ASSUME Known, \/ NovaPoshtaMoves \/ WebAppDrops \/ WebAppLocates \/ UNCHANGED vars
    PROVE  OneAtATime' /\ Urgent'
<1>1. UNCHANGED <<scene, row, run, draft, sent, mishaps>>
  BY DEF NovaPoshtaMoves, WebAppDrops, WebAppLocates, vars
<1> QED
  BY <1>1 DEF Known, OneAtATime, Urgent, Alone, Counted, Photographed, Fits, Marking, At, Escalating

LEMMA ClockTold ==
    ASSUME Known, Inv', Dusk \/ Dawn \/ DaysPass
    PROVE  OneAtATime' /\ Urgent'
<1>1. Quiet /\ UNCHANGED <<scene, run, mishaps>> /\ mishaps \in Nat
  BY SceneAssumption DEF Dusk, Dawn, DaysPass, Known, Inv, TypeOK
<1>2. \A a \in Actors : run'[a] = Idle /\ run[a].pc = "idle" /\ run'[a].pc = "idle"
  BY <1>1, IdleLocal DEF Quiet
<1>3. /\ row'.status = row.status /\ row'.photos = row.photos /\ row'.rejections = row.rejections
      /\ \/ row'.marks = row.marks /\ sent' = sent
         \/ row'.marks = row.marks \ {"claim"} /\ sent' = [sent EXCEPT !["claim"] = 0]
  <2>1. row \in Row
    BY DEF Known, Inv, TypeOK
  <2>2. CASE Dusk
    BY <2>1, <2>2 DEF Dusk, Row
  <2>3. CASE Dawn
    BY <2>1, <2>3 DEF Dawn, Row
  <2>4. CASE DaysPass
    BY <2>1, <2>4 DEF DaysPass, Row
  <2> QED
    BY <2>2, <2>3, <2>4
<1>4. Urgent'
  <2>1. Escalating' = Escalating
    BY <1>1 DEF Escalating, At
  <2>2. sent'["urgent"] = sent["urgent"] /\ mishaps' >= mishaps
    BY <1>1, <1>3 DEF Known, Inv, TypeOK, Letters
  <2> QED
    BY <1>3, <2>1, <2>2, UrgentKept DEF Known, Inv
<1>5. ASSUME ~ scene.overlap PROVE Alone' /\ Counted' /\ Photographed' /\ \A a \in Actors : Fits(a)'
  <2>1. Alone' /\ \A a \in Actors : Fits(a)'
    BY <1>2 DEF Alone, Fits, At
  <2>2. Photographed'
    BY <1>3, <1>5 DEF Known, OneAtATime, Photographed
  <2>3. \A k : ~ Marking(k)
    BY <1>2 DEF Marking, At
  <2>4. ASSUME NEW k \in Marks
        PROVE  /\ sent'[k] <= mishaps' + 1
               /\ (k = "stale" => row'.status = "ARRIVED") => sent'[k] <= mishaps' \/ k \in row'.marks
    <3>1. sent[k] \in 0..2 /\ sent'[k] \in 0..2 /\ k \in Letters
      BY DEF Known, Inv, TypeOK, Letters
    <3>2. /\ sent[k] <= mishaps + 1
          /\ (k = "stale" => row.status = "ARRIVED") => sent[k] <= mishaps \/ k \in row.marks
      BY <1>5, <2>3 DEF Known, OneAtATime, Counted
    <3>3. CASE sent'[k] = sent[k] /\ (k \in row.marks => k \in row'.marks)
      BY <1>1, <1>3, <3>2, <3>3
    <3>4. CASE sent'[k] = 0
      <4>1. sent'[k] \in Nat /\ sent'[k] <= mishaps'
        BY <1>1, <3>1, <3>4
      <4> QED
        BY <1>1, <4>1
    <3>5. sent'[k] = 0 \/ (sent'[k] = sent[k] /\ (k \in row.marks => k \in row'.marks))
      BY <1>3, <3>1 DEF Known, Inv, TypeOK
    <3> QED
      BY <3>3, <3>4, <3>5
  <2>5. Counted'
    BY <2>4 DEF Counted
  <2> QED
    BY <2>1, <2>2, <2>5
<1> QED
  BY <1>1, <1>4, <1>5 DEF OneAtATime

\* After a crash a letter may be sent again, or never.
LEMMA CrashTold ==
    ASSUME Known, Inv', Crash
    PROVE  OneAtATime' /\ Urgent'
<1>1. /\ scene' = scene /\ row' = row /\ sent' = sent /\ mishaps' = mishaps + 1
      /\ mishaps \in Nat
  BY SceneAssumption DEF Crash, world, Mishap, Known, Inv, TypeOK
<1>2. \A a \in Actors : run'[a] = Idle /\ run'[a].pc = "idle"
  BY IdleLocal DEF Crash
<1>3. Urgent'
  <2>1. Escalating' = {} /\ mishaps' # 0
    BY <1>1, <1>2 DEF Escalating, At
  <2> QED
    BY <1>1, <2>1 DEF Known, Urgent
<1>4. ASSUME ~ scene.overlap PROVE Alone' /\ Counted' /\ Photographed' /\ \A a \in Actors : Fits(a)'
  <2>1. Alone' /\ \A a \in Actors : Fits(a)'
    BY <1>2 DEF Alone, Fits, At
  <2>2. Photographed'
    BY <1>1, <1>4 DEF Known, OneAtATime, Photographed
  <2>3. ASSUME NEW k \in Marks PROVE sent'[k] <= mishaps' /\ sent'[k] <= mishaps' + 1
    <3>1. sent[k] \in 0..2 /\ sent'[k] = sent[k] /\ sent[k] <= mishaps + 1
      BY <1>1, <1>4 DEF Known, OneAtATime, Counted, Inv, TypeOK, Letters
    <3> QED
      BY <1>1, <3>1
  <2>4. Counted'
    BY <2>3 DEF Counted
  <2> QED
    BY <2>1, <2>2, <2>4
<1> QED
  BY <1>1, <1>3, <1>4 DEF OneAtATime

LEMMA KnownInit == Init => Known
<1> SUFFICES ASSUME Init PROVE Known
  OBVIOUS
<1>1. Inv /\ CycleAlone
  BY HeldInit DEF Held
<1>2. /\ \A a \in Actors : run[a] = Idle /\ run[a].pc = "idle"
      /\ mishaps = 0 /\ \A k \in Letters : sent[k] = 0
      /\ scene \in Scenes /\ row = scene.row
  BY IdleLocal DEF Init
<1>3. (row.photos => row.status \in Closed \cup {"VERIFYING"}) /\ row.rejections < 2
      /\ row.rejections \in Nat
  BY <1>1, <1>2, SceneAssumption DEF Inv, TypeOK, Row
<1>4. Urgent
  <2>1. Escalating = {} /\ sent["urgent"] = 0
    BY <1>2 DEF Escalating, At, Letters
  <2> QED
    BY <1>3, <2>1 DEF Urgent
<1>5. Alone /\ Photographed /\ \A a \in Actors : Fits(a)
  BY <1>2, <1>3 DEF Alone, Photographed, Fits, At
<1>6. Counted
  <2>1. ASSUME NEW k \in Marks PROVE sent[k] <= mishaps /\ sent[k] <= mishaps + 1
    <3>1. sent[k] \in Nat /\ mishaps \in Nat /\ sent[k] <= mishaps
      BY <1>2 DEF Letters
    <3> QED
      BY <3>1
  <2> QED
    BY <2>1 DEF Counted
<1> QED
  BY <1>1, <1>4, <1>5, <1>6 DEF Known, OneAtATime

LEMMA KnownNext == Known /\ [Next]_vars => Known'
<1> SUFFICES ASSUME Known, [Next]_vars PROVE Known'
  OBVIOUS
<1>1. Inv' /\ CycleAlone'
  BY HeldNext DEF Known, Held
<1> SUFFICES OneAtATime' /\ Urgent'
  BY <1>1 DEF Known
<1>2. ASSUME NEW a \in Staff,
             \/ Accept(a) \/ Claim(a) \/ Reject(a) \/ CountRejection(a) \/ Escalate(a)
             \/ TakePhotos(a) \/ ClaimForPhotos(a) \/ Done(a) \/ ReadPhotos(a)
             \/ Submit(a) \/ SendAlbum(a)
      PROVE  OneAtATime' /\ Urgent'
  BY <1>1, <1>2, AcceptTold, ClaimTold, RejectTold, CountRejectionTold, EscalateTold, TakePhotosTold,
     ClaimForPhotosTold, DoneTold, ReadPhotosTold, SubmitTold, SendAlbumTold
<1>3. CASE Confirm \/ Delete
  BY <1>1, <1>3, CloseTold DEF Confirm, Delete, Closed
<1>4. CASE MarkPickedUp \/ WritePickedUp
  BY <1>1, <1>4, MarkPickedUpTold, WritePickedUpTold
<1>5. ASSUME NEW c \in Cycles,
             \/ Tick(c) \/ ReadList(c) \/ SyncFacts(c) \/ CancelGone(c) \/ Track(c)
             \/ ReadRow(c) \/ CreateRow(c) \/ WriteStatus(c) \/ Evict(c)
      PROVE  OneAtATime' /\ Urgent'
  BY <1>1, <1>5, TickTold, ReadListTold, SyncFactsTold, CancelGoneTold, TrackTold, ReadRowTold,
     CreateRowTold, WriteStatusTold, EvictTold
<1>6. ASSUME NEW a \in {"admin"} \cup Cycles,
             Notify(a) \/ Look(a) \/ PassBy(a) \/ Assign(a) \/ Tell(a) \/ Mark(a)
      PROVE  OneAtATime' /\ Urgent'
  BY <1>1, <1>6, Apart, NotifyTold, LookTold, PassByTold, AssignTold, TellTold, MarkTold
<1>7. CASE NovaPoshtaMoves \/ WebAppDrops \/ WebAppLocates \/ UNCHANGED vars
  BY <1>7, NewsTold
<1>8. CASE Dusk \/ Dawn \/ DaysPass
  BY <1>1, <1>8, ClockTold
<1>9. CASE Crash
  BY <1>1, <1>9, CrashTold
<1> QED
  BY <1>2, <1>3, <1>4, <1>5, <1>6, <1>7, <1>8, <1>9 DEF Next

\* Each reminder and alert of logistics-service.ts comes once for its occasion
\* but for mishaps while handlers do not overlap, and support hears of a parcel's
\* second refusal once however the refusals meet.
THEOREM ToldOnceAlways == Spec => []ToldOnce
<1>1. Known => ToldOnce
  <2> SUFFICES ASSUME Known PROVE AlertsOnce /\ EscalatedOnce
    BY DEF ToldOnce
  <2>1. AlertsOnce
    <3>1. ASSUME ~ scene.overlap, NEW k \in Marks PROVE sent[k] <= 1 + mishaps
      <4>1. sent[k] <= mishaps + 1
        BY <3>1 DEF Known, OneAtATime, Counted
      <4>2. sent[k] \in Nat /\ mishaps \in Nat
        BY SceneAssumption DEF Known, Inv, TypeOK, Letters
      <4> QED
        BY <4>1, <4>2
    <3> QED
      BY <3>1 DEF AlertsOnce
  <2>2. sent["urgent"] \in 0..2 /\ (Quiet => Escalating = {})
    BY IdleLocal DEF Known, Inv, TypeOK, Letters, Quiet, Escalating, At
  <2>3. EscalatedOnce
    BY <2>2 DEF Known, Urgent, EscalatedOnce
  <2> QED
    BY <2>1, <2>3
<1> QED
  BY <1>1, KnownInit, KnownNext, PTL DEF Spec

\* What moves the status of a parcel, where handlers do not overlap, has read
\* it; a closed one is moved by its photographs alone.
LEMMA ClosedKept ==
    ASSUME Known, [Next]_vars, ~ scene.overlap, row.status \in Closed, row'.status \notin Closed
    PROVE  row'.status = "VERIFYING" /\ row.resp \in draft
<1>1. row \in Row
  BY DEF Known, Inv, TypeOK
<1>2. ASSUME NEW a \in Staff, Submit(a)
      PROVE  row'.status = "VERIFYING" /\ row.resp \in draft
  <2>1. row'.status = "VERIFYING"
    BY <1>1, <1>2 DEF Submit, VerifyingEntry, Save, SaveAnew, Row
  <2>2. row.resp = a /\ a \in draft
    BY <1>2, Apart DEF Submit, Known, OneAtATime, Fits
  <2> QED
    BY <2>1, <2>2
<1>3. ASSUME NEW a \in Staff, Claim(a) \/ ClaimForPhotos(a)
      PROVE  FALSE
  BY <1>3 DEF Claim, ClaimForPhotos, CanAccept, Closed
<1>4. ASSUME NEW a \in Staff, CountRejection(a)
      PROVE  row'.status = row.status
  BY <1>1, <1>4 DEF CountRejection, Save, SaveAnew, Row
<1>5. ASSUME NEW a \in Staff,
             \/ Accept(a) \/ Reject(a) \/ Escalate(a) \/ TakePhotos(a) \/ Done(a)
             \/ ReadPhotos(a) \/ SendAlbum(a)
      PROVE  row' = row
  BY <1>5 DEF Accept, Reject, Escalate, TakePhotos, Done, ReadPhotos, SendAlbum
<1>6. CASE Confirm \/ Delete
  BY <1>1, <1>6 DEF Confirm, Delete, Close, Save, SaveAnew, Row, Closed
<1>7. CASE WritePickedUp
  BY <1>7, Apart DEF WritePickedUp, Known, OneAtATime, Fits, CanMarkPickedUp
<1>8. ASSUME NEW c \in Cycles, SyncFacts(c)
      PROVE  row'.status = row.status
  BY <1>1, <1>8 DEF SyncFacts, Save, SaveAnew, Row
<1>9. ASSUME NEW c \in Cycles, CancelGone(c)
      PROVE  row'.status \in Closed
  BY <1>1, <1>9 DEF CancelGone, Save, SaveAnew, Row, Closed
<1>10. ASSUME NEW c \in Cycles, CreateRow(c)
       PROVE  row' = row
  BY <1>10 DEF CreateRow, Closed, NoRow
<1>11. ASSUME NEW c \in Cycles, WriteStatus(c)
       PROVE  row' = row
  <2>1. run[c].was = row.status
    BY <1>11, Apart DEF WriteStatus, Known, OneAtATime, Fits
  <2> QED
    BY <1>11, <2>1 DEF WriteStatus, Resolve
<1>12. ASSUME NEW c \in Cycles, Evict(c)
       PROVE  FALSE
  BY <1>12, Apart DEF Evict, Known, OneAtATime, Fits, Closed
<1>13. ASSUME NEW c \in Cycles, Tick(c) \/ ReadList(c) \/ Track(c) \/ ReadRow(c)
       PROVE  row' = row
  BY <1>13 DEF Tick, ReadList, Track, ReadRow
<1>14. ASSUME NEW a \in {"admin"} \cup Cycles, Notify(a) \/ Look(a) \/ PassBy(a) \/ Tell(a)
       PROVE  row' = row
  BY <1>14 DEF Notify, Look, PassBy, Tell
<1>15. ASSUME NEW a \in {"admin"} \cup Cycles, Assign(a) \/ Mark(a)
       PROVE  row'.status = row.status
  BY <1>1, <1>15 DEF Assign, Mark, Save, SaveAnew, Row
<1>16. CASE MarkPickedUp \/ NovaPoshtaMoves \/ WebAppDrops \/ WebAppLocates \/ Crash \/ UNCHANGED vars
  BY <1>16 DEF MarkPickedUp, NovaPoshtaMoves, WebAppDrops, WebAppLocates, Crash, vars
<1>17. CASE Dusk \/ Dawn \/ DaysPass
  BY <1>1, <1>17 DEF Dusk, Dawn, DaysPass, Row
<1> QED
  BY <1>2, <1>3, <1>4, <1>5, <1>6, <1>7, <1>8, <1>9, <1>10, <1>11, <1>12, <1>13, <1>14, <1>15,
     <1>16, <1>17 DEF Next

\* No stale button, tracking or handoff takes a parcel back from review or opens
\* a closed one again, while handlers do not overlap.
THEOREM NothingIsTakenBackAlways == Spec => NothingIsTakenBack
<1>1. Known => PhotosAreUnderReview
  BY DEF Known, OneAtATime, Photographed, PhotosAreUnderReview
<1>2. Known /\ [Next]_vars
        => [~ scene.overlap /\ row.status \in Closed /\ row'.status \notin Closed
              => row'.status = "VERIFYING" /\ row.resp \in draft]_vars
  BY ClosedKept
<1> QED
  BY <1>1, <1>2, KnownInit, KnownNext, PTL DEF Spec, NothingIsTakenBack, ClosedStaysClosed

=============================================================================
