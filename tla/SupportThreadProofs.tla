--------------------------- MODULE SupportThreadProofs ---------------------------
(* For any messages, scenes and bounds: nothing of a conversation happens twice *)
(* without a cause, a question stays open until it is answered, and a call of   *)
(* an owner is his.                                                             *)
EXTENDS SupportThread, FiniteSetTheorems, TLAPS

---------------------------------------------------------------------------
(* The inductive invariant.                                                *)

Ensuring == {"ensure", "lock", "again", "create", "insert", "card"}
Writing == Ensuring \cup {"notice", "copy", "move"}
Shown == {"WAITING", "ESCALATED"}

\* Which acts a handler has, and where each of them takes it.
WriterShape(w, v) ==
    /\ v.pc \in Writing \cup {"status", "settle"} /\ v.on \in Letters /\ v.act = ActOf(v.on)
    /\ w = "album" => v.act = "ask" /\ v.pc # "notice"
    /\ v.act = "report" => v.pc \notin {"notice", "settle"}
TeamShape(a, v) ==
    /\ v.act \in {"reply", "thumb", "call", "back"} /\ (a = "panel" => v.act = "reply")
    /\ v.pc \in IF v.act = "reply" THEN Ensuring \cup {"ready", "status", "settle"} ELSE {"status"}
WorkerShape(v) ==
    \/ v.act = "move" /\ v.pc \in Ensuring \cup {"notes", "noted", "carry", "close"}
    \/ v.act \in {"archive", "reactivate"} /\ v.pc \in {"away", "status"}
Shape(a, v) ==
    v.pc # "idle" => /\ a \in Writers => WriterShape(a, v)
                     /\ a = "worker" => WorkerShape(v)
                     /\ a \notin Writers \cup {"worker"} => TeamShape(a, v)
Shapes == \A a \in Handlers : Shape(a, run[a])

\* A call has its owner, in the row and in what was read of it.
Owned(t) == t.status = "ESCALATED" => t.to = "kuz"
CallsOwned == Owned(thread) /\ \A a \in Handlers : Owned(run[a].was)

\* The row is as it was made, or has a topic that exists.
RowSound ==
    /\ IF thread.made THEN thread.topic \in 1..topics ELSE thread = NoThread /\ gone = {}
    /\ thread.answered <= clock

\* Whoever has come past the search for the row has one; whoever is to insert
\* it has created a topic.
Before == {"idle", "ensure", "lock", "again", "create", "insert"}
CreatorsKnow ==
    \A a \in Handlers : (run[a].pc \notin Before => thread.made) /\ (At(a, "insert") => run[a].topic \in 1..topics)

\* A topic to move to is neither deleted nor that of the row, nor another handler's;
\* and a message is not in a topic before its status.
Fresh(w) == run[w].topic \in (1..topics) \ gone /\ run[w].topic # thread.topic
Moving == \E w \in Writers : At(w, "move")
WritersKnow ==
    /\ \A w \in Writers :
          /\ run[w].pc \in {"notice", "copy", "move"} => thread.made
          /\ At(w, "move") => Fresh(w)
          /\ run[w].pc \in Writing => letter[run[w].on] = "handled"
    /\ At("her", "move") /\ At("album", "move") => run["her"].topic # run["album"].topic
    /\ run["her"].pc \in Writing /\ run["album"].pc \in Writing => run["her"].on # run["album"].on

MovesCounted == run["worker"].act = "move" => legacy.failures < MaxFailures

\* A copy has its message kept, or was unsure.
CopiesCounted == \A l \in Letters : copies[l] <= trouble["unsure"] + (IF letter[l] = "kept" THEN 1 ELSE 0)

\* Before there is a row, all who have come past the lock but one have lost it;
\* then whoever is yet to create a topic creates one too many.
Count(r, P) == Cardinality({a \in Handlers : r[a].pc \in P})
Holds == \E a \in Handlers : lock = a /\ run[a].pc \in {"again", "create", "insert"}
TopicsCounted ==
    IF thread.made
    THEN topics + Count(run, {"create"}) <=
            Cardinality(gone) + crossed + trouble["lapse"] + trouble["crash"]
                + (IF thread.topic \in gone /\ ~Moving THEN 0 ELSE 1)
    ELSE topics + Count(run, {"again", "create"}) <=
            trouble["lapse"] + trouble["crash"] + (IF Holds THEN 1 ELSE 0)

NotesCounted == told <= trouble["crash"] + (IF legacy.noted \/ At("worker", "noted") THEN 1 ELSE 0)

\* Until somebody of the team acts, nothing ends her waiting.
Untouched ==
    turns = 0 =>
        /\ employed /\ ~thread.away /\ thread.status \in {"ANSWERED", "WAITING"}
        /\ \A a \in Handlers \ {"her", "album", "worker"} : At(a, "idle")
        /\ run["worker"].act \in {"none", "move"}
        /\ \A a \in Handlers : /\ run[a].was.status \in {"ANSWERED", "WAITING"}
                               /\ run[a].was.status = "WAITING" => thread.status = "WAITING"
        /\ legacy.waits /\ (At("worker", "close") \/ (~legacy.open /\ "legacy" \in may)) => thread.status = "WAITING"

\* She has asked, and the row shows it, or is about to; whoever acts upon it
\* since has read that she waits.
Asking(w) == run[w].pc \in {"status", "settle"} /\ run[w].act = "ask"
NobodyAsks == \A w \in Writers : ~Asking(w)
Heeds(v) ==
    v.pc # "idle" =>
        /\ v.act = "reply" => v.pc \notin {"status", "settle"}
        /\ v.act = "back" => v.was.asked > v.was.answered
        /\ v.act = "archive" => v.pc # "status"
        /\ v.act = "reactivate" /\ v.pc = "status" => v.was.status # "ARCHIVED"
OpenShown ==
    open = "yes" =>
        /\ thread.made
        /\ \A w \in Writers : Asking(w) =>
              /\ \A a \in Others(w) : At(a, "idle")
              /\ At(w, "status") => run[w].was.status = thread.status
              /\ At(w, "settle") => thread.status \in Shown /\ run[w].now > thread.answered
        /\ NobodyAsks =>
              /\ thread.status \in Shown /\ thread.asked > thread.answered
              /\ \A a \in Handlers \ Writers : Heeds(run[a])

Inv ==
    /\ TypeOK /\ Shapes /\ CallsOwned /\ RowSound /\ CreatorsKnow /\ WritersKnow /\ MovesCounted
    /\ CopiesCounted /\ TopicsCounted /\ NotesCounted /\ Untouched /\ OpenShown

---------------------------------------------------------------------------
(* Lemmas: handlers, their variables and how many are at a place.          *)

LEMMA HandlersAre ==
    /\ Handlers = {"sup", "kuz", "her", "album", "panel", "worker"} /\ IsFiniteSet(Handlers)
    /\ Writers = {"her", "album"} /\ Handlers \ Writers = {"sup", "kuz", "panel", "worker"}
<1>1. /\ Handlers = {"sup", "kuz", "her", "album", "panel", "worker"}
      /\ Writers = {"her", "album"} /\ Handlers \ Writers = {"sup", "kuz", "panel", "worker"}
  BY DEF Handlers, Team, Writers
<1>2. IsFiniteSet({}) /\ IsFiniteSet({} \cup {"sup"})
  BY FS_EmptySet, FS_AddElement
<1>3. IsFiniteSet(({} \cup {"sup"}) \cup {"kuz"})
  BY <1>2, FS_AddElement
<1>4. IsFiniteSet((({} \cup {"sup"}) \cup {"kuz"}) \cup {"her"})
  BY <1>3, FS_AddElement
<1>5. IsFiniteSet(((({} \cup {"sup"}) \cup {"kuz"}) \cup {"her"}) \cup {"album"})
  BY <1>4, FS_AddElement
<1>6. IsFiniteSet((((({} \cup {"sup"}) \cup {"kuz"}) \cup {"her"}) \cup {"album"}) \cup {"panel"})
  BY <1>5, FS_AddElement
<1>7. IsFiniteSet(((((({} \cup {"sup"}) \cup {"kuz"}) \cup {"her"}) \cup {"album"}) \cup {"panel"}) \cup {"worker"})
  BY <1>6, FS_AddElement
<1>8. ((((({} \cup {"sup"}) \cup {"kuz"}) \cup {"her"}) \cup {"album"}) \cup {"panel"}) \cup {"worker"} = Handlers
  BY <1>1
<1> QED
  BY <1>1, <1>7, <1>8

LEMMA IdleLocal == Idle \in Locals /\ Idle.pc = "idle" /\ Idle.act = "none" /\ Idle.was = NoThread
BY DEF Idle, Locals, NoThread, ThreadType, Statuses

LEMMA NoThreadIs ==
    NoThread \in ThreadType /\ NoThread.status = "ANSWERED" /\ ~NoThread.made /\ NoThread.topic = 0
    /\ ~NoThread.away /\ NoThread.answered = 0 /\ Owned(NoThread)
BY DEF NoThread, ThreadType, Statuses, Owned

\* Handler a has the variables v now, the others keep theirs.
Moves(a, v) ==
    /\ run' \in [Handlers -> Locals] /\ run'[a] = v
    /\ \A b \in Handlers : b # a => run'[b] = run[b]

LEMMA SetMoves ==
    ASSUME Inv, NEW a \in Handlers, NEW v \in Locals, Set(a, v)
    PROVE  Moves(a, v)
BY DEF Inv, TypeOK, Set, Moves

LEMMA LocalsOf ==
    ASSUME Inv, NEW a \in Handlers
    PROVE  run[a] \in Locals /\ Shape(a, run[a]) /\ Owned(run[a].was) /\ run[a].was \in ThreadType
BY DEF Inv, TypeOK, Shapes, CallsOwned, Locals

LEMMA GotoMoves ==
    ASSUME Inv, NEW a \in Handlers,
           NEW pc \in {"idle", "ensure", "lock", "again", "create", "insert", "card", "ready", "notice", "copy", "move",
                       "status", "settle", "away", "notes", "noted", "carry", "close"}, Goto(a, pc)
    PROVE  \E v \in Locals : /\ Moves(a, v) /\ v.pc = pc /\ v.act = run[a].act /\ v.on = run[a].on
                             /\ v.was = run[a].was /\ v.topic = run[a].topic /\ v.now = run[a].now
<1> DEFINE v == [run[a] EXCEPT !.pc = pc]
<1>1. run[a] \in Locals
  BY LocalsOf
<1>2. /\ v \in Locals /\ v.pc = pc /\ v.act = run[a].act /\ v.on = run[a].on
      /\ v.was = run[a].was /\ v.topic = run[a].topic /\ v.now = run[a].now
  BY <1>1 DEF Locals
<1>3. Set(a, v)
  BY DEF Goto
<1> HIDE DEF v
<1> QED
  BY <1>2, <1>3, SetMoves

LEMMA HasMoves ==
    ASSUME Inv, NEW a \in Handlers, NEW t \in ThreadType,
           NEW pc \in {"idle", "ready", "notice", "copy", "status", "notes"}, Has(a, t, pc)
    PROVE  \E v \in Locals : /\ Moves(a, v) /\ v.pc = pc /\ v.act = run[a].act /\ v.on = run[a].on
                             /\ v.was = t /\ v.topic = run[a].topic /\ v.now = run[a].now
<1> DEFINE v == [run[a] EXCEPT !.pc = pc, !.was = t]
<1>1. run[a] \in Locals
  BY LocalsOf
<1>2. /\ v \in Locals /\ v.pc = pc /\ v.act = run[a].act /\ v.on = run[a].on
      /\ v.was = t /\ v.topic = run[a].topic /\ v.now = run[a].now
  BY <1>1 DEF Locals
<1>3. Set(a, v)
  BY DEF Has
<1> HIDE DEF v
<1> QED
  BY <1>2, <1>3, SetMoves

LEMMA Counts ==
    ASSUME NEW r, NEW P
    PROVE  IsFiniteSet({b \in Handlers : r[b].pc \in P}) /\ Count(r, P) \in Nat
<1>1. {b \in Handlers : r[b].pc \in P} \subseteq Handlers
  OBVIOUS
<1> QED
  BY <1>1, HandlersAre, FS_Subset, FS_CardinalityType DEF Count

\* One handler moves: the count of a place follows.
LEMMA CountMoves ==
    ASSUME NEW a \in Handlers, NEW v, Moves(a, v), NEW P
    PROVE  /\ Count(run, P) \in Nat /\ Count(run', P) \in Nat
           /\ (run[a].pc \in P <=> v.pc \in P) => Count(run', P) = Count(run, P)
           /\ run[a].pc \notin P /\ v.pc \in P => Count(run', P) = Count(run, P) + 1
           /\ run[a].pc \in P /\ v.pc \notin P => Count(run', P) = Count(run, P) - 1
<1> DEFINE S == {b \in Handlers : run[b].pc \in P}
           T == {b \in Handlers : run'[b].pc \in P}
<1>1. IsFiniteSet(S) /\ IsFiniteSet(T) /\ Count(run, P) \in Nat /\ Count(run', P) \in Nat
  BY Counts
<1>2. Count(run, P) = Cardinality(S) /\ Count(run', P) = Cardinality(T)
  BY DEF Count
<1>3. CASE run[a].pc \in P <=> v.pc \in P
  <2>1. S = T
    BY <1>3 DEF Moves
  <2> QED
    BY <1>1, <1>2, <1>3, <2>1
<1>4. CASE run[a].pc \notin P /\ v.pc \in P
  <2>1. T = S \cup {a} /\ a \notin S
    BY <1>4 DEF Moves
  <2> QED
    BY <1>1, <1>2, <1>4, <2>1, FS_AddElement
<1>5. CASE run[a].pc \in P /\ v.pc \notin P
  <2>1. S = T \cup {a} /\ a \notin T
    BY <1>5 DEF Moves
  <2>2. Cardinality(S) = Cardinality(T) + 1
    BY <1>1, <2>1, FS_AddElement
  <2> QED
    BY <1>1, <1>2, <1>5, <2>2
<1> QED
  BY <1>1, <1>3, <1>4, <1>5

LEMMA MovingKept ==
    ASSUME NEW a \in Handlers, NEW v, Moves(a, v), run[a].pc # "move", v.pc # "move"
    PROVE  Moving' <=> Moving
BY HandlersAre DEF Moves, Moving, At

---------------------------------------------------------------------------
(* How many topics there are, as a handler moves.                          *)

SameTopics ==
    /\ UNCHANGED <<topics, gone, crossed>> /\ thread'.made = thread.made /\ thread'.topic = thread.topic
    /\ trouble'["lapse"] = trouble["lapse"] /\ trouble'["crash"] = trouble["crash"]

LEMMA Numbers ==
    ASSUME TypeOK
    PROVE  /\ topics \in Nat /\ IsFiniteSet(gone) /\ Cardinality(gone) \in Nat
           /\ trouble["lapse"] \in Nat /\ trouble["crash"] \in Nat /\ trouble["unsure"] \in Nat
           /\ trouble["record"] \in Nat /\ crossed \in Nat
<1>1. topics \in Nat /\ gone \subseteq 1..topics
  BY DEF TypeOK
<1>2. IsFiniteSet(1..topics)
  BY <1>1, FS_Interval
<1>3. IsFiniteSet(gone)
  BY <1>1, <1>2, FS_Subset
<1> QED
  BY <1>1, <1>3, FS_CardinalityType, SupportThreadAssumption DEF TypeOK, Troubles

\* It comes or goes where no topic is made.
LEMMA TopicsElsewhere ==
    ASSUME Inv, NEW a \in Handlers, NEW v, Moves(a, v), SameTopics, lock' = lock,
           run[a].pc \notin {"again", "create", "insert", "move"},
           v.pc \notin {"again", "create", "insert", "move"}
    PROVE  TopicsCounted'
<1>1. /\ Count(run', {"create"}) = Count(run, {"create"})
      /\ Count(run', {"again", "create"}) = Count(run, {"again", "create"})
  BY CountMoves
<1>2. (Holds' <=> Holds) /\ (Moving' <=> Moving)
  BY MovingKept DEF Moves, Holds
<1> QED
  BY <1>1, <1>2 DEF TopicsCounted, SameTopics, Inv

\* It leaves the lock behind.
LEMMA TopicsLeft ==
    ASSUME Inv, NEW a \in Handlers, NEW v, Moves(a, v), SameTopics, Release(a),
           run[a].pc \in {"again", "create", "insert", "card"}, run[a].pc = "insert" => thread.made,
           v.pc \notin {"again", "create", "insert", "move"}
    PROVE  TopicsCounted'
<1>1. /\ Count(run, {"create"}) \in Nat /\ Count(run', {"create"}) \in Nat
      /\ Count(run', {"create"}) <= Count(run, {"create"})
  BY CountMoves
<1>2. /\ Count(run, {"again", "create"}) \in Nat /\ Count(run', {"again", "create"}) \in Nat
      /\ run[a].pc \in {"again", "create"} => Count(run', {"again", "create"}) = Count(run, {"again", "create"}) - 1
  BY CountMoves
<1>3. Moving' <=> Moving
  BY MovingKept
<1>4. lock # a => (Holds' <=> Holds)
  BY DEF Moves, Holds, Release
<1>5. ~thread.made => run[a].pc \in {"again", "create"}
  BY DEF Inv, CreatorsKnow, Before, At
<1>6. CASE thread.made
  BY <1>1, <1>3, <1>6, Numbers DEF TopicsCounted, SameTopics, Inv
<1>7. CASE ~thread.made
  <2>1. topics + Count(run, {"again", "create"}) <= trouble["lapse"] + trouble["crash"] + (IF Holds THEN 1 ELSE 0)
    BY <1>7 DEF TopicsCounted, Inv
  <2>2. topics + Count(run', {"again", "create"}) <= trouble["lapse"] + trouble["crash"] + (IF Holds' THEN 1 ELSE 0)
    BY <1>2, <1>4, <1>5, <1>7, <2>1, Numbers DEF Inv
  <2> QED
    BY <1>7, <2>2 DEF TopicsCounted, SameTopics
<1> QED
  BY <1>6, <1>7

LEMMA TopicsLocked ==
    ASSUME Inv, NEW a \in Handlers, NEW v, Moves(a, v), SameTopics, lock = "free", lock' = a,
           run[a].pc = "lock", v.pc = "again"
    PROVE  TopicsCounted'
<1>1. /\ Count(run', {"create"}) = Count(run, {"create"})
      /\ Count(run', {"again", "create"}) = Count(run, {"again", "create"}) + 1
      /\ Count(run, {"again", "create"}) \in Nat
  BY CountMoves
<1>2. Holds' /\ ~Holds /\ (Moving' <=> Moving)
  BY HandlersAre, MovingKept DEF Moves, Holds
<1>3. CASE thread.made
  BY <1>1, <1>2, <1>3 DEF TopicsCounted, SameTopics, Inv
<1>4. CASE ~thread.made
  <2>1. topics + Count(run, {"again", "create"}) <= trouble["lapse"] + trouble["crash"]
    BY <1>2, <1>4, Numbers DEF TopicsCounted, Inv
  <2>2. topics + Count(run', {"again", "create"}) <= trouble["lapse"] + trouble["crash"] + 1
    BY <1>1, <2>1, Numbers DEF Inv
  <2> QED
    BY <1>2, <1>4, <2>2 DEF TopicsCounted, SameTopics
<1> QED
  BY <1>3, <1>4

\* It has seen that there is no row yet.
LEMMA TopicsLookedFor ==
    ASSUME Inv, NEW a \in Handlers, NEW v, Moves(a, v), SameTopics, lock' = lock, ~thread.made,
           run[a].pc = "again", v.pc = "create"
    PROVE  TopicsCounted'
<1>1. Count(run', {"again", "create"}) = Count(run, {"again", "create"})
  BY CountMoves
<1>2. Holds' <=> Holds
  BY DEF Moves, Holds
<1> QED
  BY <1>1, <1>2 DEF TopicsCounted, SameTopics, Inv

---------------------------------------------------------------------------
(* What a step of one handler keeps.                                       *)

\* The row keeps its status, and what has been read of her waiting.
SameStatus ==
    /\ thread' \in ThreadType /\ (thread'.made <=> thread.made)
    /\ thread'.status = thread.status /\ thread'.to = thread.to
    /\ ~thread.made => thread' = thread
SameRow ==
    /\ SameStatus /\ thread'.away = thread.away
    /\ thread'.asked = thread.asked /\ thread'.answered = thread.answered

LEMMA UntouchedKept ==
    ASSUME Inv, NEW a \in Handlers, NEW v, Moves(a, v), UNCHANGED <<may, employed, turns>>,
           SameStatus, thread'.away = thread.away,
           legacy'.open = legacy.open, legacy'.waits = legacy.waits,
           run[a].pc # "idle" \/ a \in {"her", "album", "worker"},
           v.was \in {run[a].was, thread, thread', NoThread},
           a = "worker" => v.pc # "close" /\ v.act \in {run[a].act, "none", "move"}
    PROVE  Untouched'
<1> SUFFICES ASSUME turns = 0 PROVE Untouched'
  BY DEF Untouched
<1>1. /\ employed /\ ~thread.away /\ thread.status \in {"ANSWERED", "WAITING"}
      /\ \A b \in Handlers \ {"her", "album", "worker"} : run[b].pc = "idle"
      /\ run["worker"].act \in {"none", "move"}
      /\ \A b \in Handlers : /\ run[b].was.status \in {"ANSWERED", "WAITING"}
                             /\ run[b].was.status = "WAITING" => thread.status = "WAITING"
      /\ legacy.waits /\ (run["worker"].pc = "close" \/ (~legacy.open /\ "legacy" \in may)) => thread.status = "WAITING"
  BY DEF Inv, Untouched, At
<1>2. a \in {"her", "album", "worker"}
  BY <1>1
<1>3. /\ v.was.status \in {"ANSWERED", "WAITING"} /\ (v.was.status = "WAITING" => thread.status = "WAITING")
  BY <1>1, NoThreadIs DEF SameStatus
<1>4. /\ \A b \in Handlers \ {"her", "album", "worker"} : run'[b].pc = "idle"
      /\ run'["worker"].act \in {"none", "move"}
      /\ run'["worker"].pc = "close" => run["worker"].pc = "close"
      /\ \A b \in Handlers : /\ run'[b].was.status \in {"ANSWERED", "WAITING"}
                             /\ run'[b].was.status = "WAITING" => thread.status = "WAITING"
  BY <1>1, <1>2, <1>3, HandlersAre DEF Moves
<1> QED
  BY <1>1, <1>4 DEF Untouched, SameStatus, At

\* Neither her question nor its answer is being handled here.
LEMMA OpenKept ==
    ASSUME Inv, NEW a \in Handlers, NEW v, Moves(a, v), SameStatus, open' = open \/ open' # "yes",
           thread'.asked = thread.asked, thread'.answered = thread.answered,
           run[a].pc # "idle",
           a \in Writers => run[a].pc \notin {"status", "settle"} /\ v.pc \notin {"status", "settle"},
           a \notin Writers /\ thread.status \in Shown => Heeds(v)
    PROVE  OpenShown'
<1> SUFFICES ASSUME open' = "yes", open = "yes" PROVE OpenShown'
  BY DEF OpenShown
<1>1. thread.made /\ thread'.made
  BY DEF Inv, OpenShown, SameStatus
<1>2. NobodyAsks
  <2> SUFFICES ASSUME NEW w \in Writers, Asking(w) PROVE FALSE
    BY DEF NobodyAsks
  <2>1. a # w /\ \A b \in Others(w) : run[b].pc = "idle"
    BY DEF Inv, OpenShown, Asking, At
  <2> QED
    BY <2>1 DEF Others
<1>3. NobodyAsks'
  BY <1>2, HandlersAre DEF Moves, NobodyAsks, Asking
<1>4. thread.status \in Shown /\ thread.asked > thread.answered /\ \A b \in Handlers \ Writers : Heeds(run[b])
  BY <1>2 DEF Inv, OpenShown
<1>5. \A b \in Handlers \ Writers : Heeds(run'[b])
  BY <1>4 DEF Moves
<1> QED
  BY <1>1, <1>3, <1>4, <1>5 DEF OpenShown, SameStatus, NobodyAsks

\* Which of the parts a step of handler a to v keeps when it leaves the topics,
\* the messages and the old conversation alone.
LEMMA RowKept ==
    ASSUME Inv, NEW a \in Handlers, NEW v \in Locals, Moves(a, v), SameRow, SameTopics, clock' = clock, Smoothly,
           UNCHANGED <<letter, copies, legacy, told>>,
           Shape(a, v), v.was \in {run[a].was, thread, thread', NoThread},
           v.pc \notin Before => thread.made, v.pc = "insert" => v.topic \in 1..topics,
           a \in Writers => /\ v.pc \in {"notice", "copy"} => thread.made
                            /\ v.pc # "move"
                            /\ v.pc \in Writing => v.on = run[a].on /\ run[a].pc \in Writing,
           a = "worker" => /\ run[a].pc # "noted" /\ v.pc # "noted"
                           /\ v.act = "move" => run[a].act = "move"
    PROVE  /\ Shapes' /\ CallsOwned' /\ RowSound' /\ CreatorsKnow' /\ WritersKnow' /\ MovesCounted'
           /\ CopiesCounted' /\ NotesCounted'
<1>1. Shapes'
  BY DEF Inv, Shapes, Moves
<1>2. CallsOwned'
  <2>1. Owned(thread') /\ Owned(v.was)
    BY LocalsOf, NoThreadIs DEF Inv, CallsOwned, Owned, SameRow, SameStatus
  <2> QED
    BY <2>1 DEF Inv, CallsOwned, Moves
<1>3. RowSound'
  BY DEF Inv, RowSound, SameRow, SameStatus, SameTopics
<1>4. CreatorsKnow'
  BY DEF Inv, CreatorsKnow, Before, At, Moves, SameRow, SameStatus, SameTopics
<1>5. WritersKnow'
  <2>1. \A w \in Writers : run'[w] = IF w = a THEN v ELSE run[w]
    BY HandlersAre DEF Moves
  <2>2. thread'.made = thread.made /\ UNCHANGED <<topics, gone, letter>> /\ thread'.topic = thread.topic
    BY DEF SameTopics
  <2>3. ASSUME NEW w \in Writers
        PROVE  /\ run'[w].pc \in {"notice", "copy", "move"} => thread.made
               /\ run'[w].pc = "move" => Fresh(w) /\ run'[w] = run[w]
               /\ run'[w].pc \in Writing => /\ letter[run'[w].on] = "handled" /\ run[w].pc \in Writing
                                             /\ run'[w].on = run[w].on
    <3>1. CASE w = a
      <4>1. /\ run'[w] = v /\ a \in Writers /\ v.pc # "move"
            /\ v.pc \in {"notice", "copy"} => thread.made
            /\ v.pc \in Writing => v.on = run[w].on /\ run[w].pc \in Writing
        BY <2>1, <3>1
      <4>2. run[w].pc \in Writing => letter[run[w].on] = "handled"
        BY DEF Inv, WritersKnow
      <4> QED
        BY <4>1, <4>2
    <3>2. CASE w # a
      BY <2>1, <3>2, HandlersAre DEF Inv, WritersKnow, At
    <3> QED
      BY <3>1, <3>2
  <2> QED
    BY <2>2, <2>3, HandlersAre DEF Inv, WritersKnow, Fresh, At
<1>6. MovesCounted' /\ NotesCounted' /\ CopiesCounted'
  BY HandlersAre DEF Inv, MovesCounted, NotesCounted, CopiesCounted, At, Moves, SameTopics, Smoothly
<1> QED
  BY <1>1, <1>2, <1>3, <1>4, <1>5, <1>6

\* The same one by one, for a step that changes the row, the topics or the messages.
LEMMA LocalsKept ==
    ASSUME Inv, NEW a \in Handlers, NEW v \in Locals, Moves(a, v), Owned(thread'), Owned(v.was), Shape(a, v),
           thread.made => thread'.made, topics' \in Nat, topics' >= topics,
           v.pc \notin Before => thread'.made, v.pc = "insert" => v.topic \in 1..(topics')
    PROVE  Shapes' /\ CallsOwned' /\ CreatorsKnow'
<1>1. Shapes'
  BY DEF Inv, Shapes, Moves
<1>2. CallsOwned'
  BY DEF Inv, CallsOwned, Moves
<1>3. 1..topics \subseteq 1..(topics')
  BY DEF Inv, TypeOK
<1>4. CreatorsKnow'
  BY <1>3 DEF Inv, CreatorsKnow, Before, At, Moves
<1> QED
  BY <1>1, <1>2, <1>4

LEMMA WorkerAside ==
    ASSUME Inv, NEW a \in Handlers, NEW v, Moves(a, v), a # "worker", legacy' = legacy, told' = told,
           trouble'["crash"] = trouble["crash"]
    PROVE  MovesCounted' /\ NotesCounted'
BY HandlersAre DEF Inv, MovesCounted, NotesCounted, Moves, At

LEMMA WritersAside ==
    ASSUME Inv, NEW a \in Handlers, NEW v, Moves(a, v), a \notin Writers, UNCHANGED <<topics, gone, letter>>,
           thread'.made = thread.made, thread'.topic = thread.topic
    PROVE  WritersKnow'
BY HandlersAre DEF Inv, WritersKnow, Fresh, Moves, At

---------------------------------------------------------------------------
(* ensureThread.                                                           *)

LEMMA ReadyIs ==
    /\ Ready("her") = (IF run["her"].act = "report" THEN "copy" ELSE "notice")
    /\ Ready("album") = "copy" /\ Ready("worker") = "notes"
    /\ \A a \in Handlers \ {"her", "album", "worker"} : Ready(a) = "ready"
BY DEF Ready, Writers

\* A handler on its way to the thread may go on to any place of it.
LEMMA EnsuringOn ==
    ASSUME Inv, NEW a \in Handlers, run[a].pc \in Ensuring, NEW v \in Locals,
           v.act = run[a].act, v.on = run[a].on, v.pc \in Ensuring \cup {Ready(a)}
    PROVE  /\ Shape(a, v) /\ (a \notin Writers => Heeds(v))
           /\ v.pc \notin {"idle", "move", "status", "settle", "noted", "close", "away", "carry"}
<1>1. CASE a \in Writers
  <2>1. WriterShape(a, run[a]) /\ run[a].pc # "idle"
    BY <1>1, LocalsOf DEF Shape, Ensuring
  <2>2. v.pc \in Ensuring \/ v.pc = "copy" \/ (v.pc = "notice" /\ a = "her" /\ v.act # "report")
    BY <1>1, ReadyIs, HandlersAre
  <2>3. WriterShape(a, v)
    BY <2>1, <2>2 DEF WriterShape, Ensuring, Writing
  <2> QED
    BY <1>1, <2>2, <2>3, HandlersAre DEF Shape, Ensuring
<1>2. CASE a = "worker"
  <2>1. v.act = "move"
    BY <1>2, LocalsOf DEF Shape, WorkerShape, Ensuring, Writers
  <2>2. v.pc \in Ensuring \cup {"notes"}
    BY <1>2, ReadyIs
  <2> QED
    BY <1>2, <2>1, <2>2 DEF Shape, WorkerShape, Ensuring, Heeds, Writers
<1>3. CASE a \notin {"her", "album", "worker"}
  <2>1. v.act = "reply"
    BY <1>3, LocalsOf DEF Shape, TeamShape, Ensuring, Writers
  <2>2. v.pc \in Ensuring \cup {"ready"}
    BY <1>3, ReadyIs
  <2> QED
    BY <1>3, <2>1, <2>2, LocalsOf DEF Shape, TeamShape, Ensuring, Heeds, Writers
<1> QED
  BY <1>1, <1>2, <1>3, HandlersAre

\* It goes on with nothing but its own variables and the lock.
LEMMA EnsuringStep ==
    ASSUME Inv, NEW a \in Handlers, run[a].pc \in Ensuring, NEW v \in Locals, Moves(a, v),
           v.act = run[a].act, v.on = run[a].on, v.was \in {run[a].was, thread},
           v.pc \in Ensuring \cup {Ready(a)}, v.pc = Ready(a) => thread.made /\ v.was = thread,
           v.pc \notin {"insert", "card"}, lock' \in Handlers \cup {"free", "dead"}, TopicsCounted',
           Smoothly, UNCHANGED <<world, thread, legacy, records, topics, gone, crossed, letter, copies, open>>
    PROVE  Inv'
<1>1. /\ Shape(a, v) /\ (a \notin Writers => Heeds(v))
      /\ v.pc \notin {"idle", "move", "status", "settle", "noted", "close", "away", "carry"}
      /\ run[a].pc \in Writing /\ run[a].pc \notin {"idle", "status", "settle", "noted"}
  BY EnsuringOn DEF Writing, Ensuring
<1>2. SameRow /\ SameTopics
  BY DEF SameRow, SameStatus, SameTopics, Smoothly, Inv, TypeOK
<1>3. v.pc \in {"notice", "copy"} => v.pc = Ready(a)
  BY DEF Ensuring
<1>4. TypeOK'
  BY DEF Inv, TypeOK, Moves, world, records, Smoothly
<1>5. /\ Shapes' /\ CallsOwned' /\ RowSound' /\ CreatorsKnow' /\ WritersKnow' /\ MovesCounted'
      /\ CopiesCounted' /\ NotesCounted'
  BY <1>1, <1>2, <1>3, RowKept DEF records, Before, Ensuring
<1>6. Untouched'
  BY <1>1, <1>2, UntouchedKept DEF world, records, SameRow
<1>7. OpenShown'
  BY <1>1, <1>2, OpenKept DEF SameRow
<1> QED
  BY <1>4, <1>5, <1>6, <1>7 DEF Inv

LEMMA EnsureThreadStep ==
    ASSUME Inv, NEW a \in Handlers, EnsureThread(a)
    PROVE  Inv'
<1>1. /\ run[a].pc = "ensure" /\ thread \in ThreadType /\ lock \in Handlers \cup {"free", "dead"}
      /\ Ready(a) \in {"notice", "copy", "notes", "ready"} /\ SameTopics
  BY ReadyIs, HandlersAre DEF EnsureThread, At, Inv, TypeOK, SameTopics, Smoothly
<1>2. PICK v \in Locals : /\ Moves(a, v) /\ v.act = run[a].act /\ v.on = run[a].on
                          /\ \/ thread.made /\ v.pc = Ready(a) /\ v.was = thread
                             \/ v.pc = "lock" /\ v.was = run[a].was
  <2>1. CASE thread.made
    BY <1>1, <2>1, HasMoves DEF EnsureThread
  <2>2. CASE ~thread.made
    BY <1>1, <2>2, GotoMoves DEF EnsureThread
  <2> QED
    BY <2>1, <2>2
<1>3. TopicsCounted'
  BY <1>1, <1>2, TopicsElsewhere DEF EnsureThread
<1> QED
  BY <1>1, <1>2, <1>3, EnsuringStep DEF EnsureThread, Ensuring

LEMMA TakeLockStep ==
    ASSUME Inv, NEW a \in Handlers, TakeLock(a)
    PROVE  Inv'
<1>1. run[a].pc = "lock" /\ SameTopics /\ lock = "free" /\ lock' = a /\ Ready(a) # "again"
  BY ReadyIs, HandlersAre DEF TakeLock, At, SameTopics, Smoothly
<1>2. PICK v \in Locals : /\ Moves(a, v) /\ v.act = run[a].act /\ v.on = run[a].on
                          /\ v.pc = "again" /\ v.was = run[a].was
  BY GotoMoves DEF TakeLock
<1>3. TopicsCounted'
  BY <1>1, <1>2, TopicsLocked
<1> QED
  BY <1>1, <1>2, <1>3, EnsuringStep DEF TakeLock, Ensuring

LEMMA FindCreatedStep ==
    ASSUME Inv, NEW a \in Handlers, FindCreated(a)
    PROVE  Inv'
<1>1. /\ run[a].pc = "lock" /\ thread \in ThreadType /\ lock \in Handlers \cup {"free", "dead"}
      /\ Ready(a) \in {"notice", "copy", "notes", "ready"} /\ SameTopics /\ thread.made
  BY ReadyIs, HandlersAre DEF FindCreated, At, Inv, TypeOK, SameTopics, Smoothly
<1>2. PICK v \in Locals : /\ Moves(a, v) /\ v.act = run[a].act /\ v.on = run[a].on
                          /\ v.pc = Ready(a) /\ v.was = thread
  BY <1>1, HasMoves DEF FindCreated
<1>3. TopicsCounted'
  BY <1>1, <1>2, TopicsElsewhere DEF FindCreated
<1> QED
  BY <1>1, <1>2, <1>3, EnsuringStep DEF FindCreated, Ensuring

LEMMA LookAgainStep ==
    ASSUME Inv, NEW a \in Handlers, LookAgain(a)
    PROVE  Inv'
<1>1. /\ run[a].pc = "again" /\ thread \in ThreadType /\ lock \in Handlers \cup {"free", "dead"}
      /\ Ready(a) \in {"notice", "copy", "notes", "ready"} /\ SameTopics
  BY ReadyIs, HandlersAre DEF LookAgain, At, Inv, TypeOK, SameTopics, Smoothly
<1>2. CASE thread.made
  <2>1. PICK v \in Locals : /\ Moves(a, v) /\ v.act = run[a].act /\ v.on = run[a].on
                            /\ v.pc = Ready(a) /\ v.was = thread
    BY <1>1, <1>2, HasMoves DEF LookAgain
  <2>2. TopicsCounted' /\ lock' \in Handlers \cup {"free", "dead"}
    BY <1>1, <1>2, <2>1, TopicsLeft DEF LookAgain, Release
  <2> QED
    BY <1>1, <1>2, <2>1, <2>2, EnsuringStep DEF LookAgain, Ensuring
<1>3. CASE ~thread.made
  <2>1. PICK v \in Locals : /\ Moves(a, v) /\ v.act = run[a].act /\ v.on = run[a].on
                            /\ v.pc = "create" /\ v.was = run[a].was
    BY <1>1, <1>3, GotoMoves DEF LookAgain
  <2>2. TopicsCounted'
    BY <1>1, <1>3, <2>1, TopicsLookedFor DEF LookAgain
  <2> QED
    BY <1>1, <1>3, <2>1, <2>2, EnsuringStep DEF LookAgain, Ensuring
<1> QED
  BY <1>2, <1>3

LEMMA PublishCardStep ==
    ASSUME Inv, NEW a \in Handlers, PublishCard(a)
    PROVE  Inv'
<1>1. /\ run[a].pc = "card" /\ thread \in ThreadType /\ lock \in Handlers \cup {"free", "dead"}
      /\ Ready(a) \in {"notice", "copy", "notes", "ready"} /\ SameTopics /\ thread.made
  BY ReadyIs, HandlersAre DEF PublishCard, At, Inv, TypeOK, SameTopics, Smoothly, CreatorsKnow, Before
<1>2. PICK v \in Locals : /\ Moves(a, v) /\ v.act = run[a].act /\ v.on = run[a].on
                          /\ v.pc = Ready(a) /\ v.was = thread
  BY <1>1, HasMoves DEF PublishCard
<1>3. TopicsCounted' /\ lock' \in Handlers \cup {"free", "dead"}
  BY <1>1, <1>2, TopicsLeft DEF PublishCard, Release
<1> QED
  BY <1>1, <1>2, <1>3, EnsuringStep DEF PublishCard, Ensuring

\* Nothing has been sent, or a copy of which the bot is not sure.
Sent ==
    /\ copies' \in [Letters -> Nat] /\ trouble' \in [Troubles -> 0..MaxTrouble]
    /\ trouble'["lapse"] = trouble["lapse"] /\ trouble'["crash"] = trouble["crash"]
    /\ \A l \in Letters : copies'[l] + trouble["unsure"] <= copies[l] + trouble'["unsure"]

LEMMA NothingSent ==
    ASSUME Inv, UNCHANGED <<copies, trouble>>
    PROVE  Sent
BY DEF Inv, TypeOK, Sent, Troubles

\* Then the copies are counted as long as a message that is kept remains so.
LEMMA SentCounted ==
    ASSUME Inv, Sent, \A l \in Letters : letter[l] = "kept" => letter'[l] = "kept"
    PROVE  CopiesCounted'
<1> SUFFICES ASSUME NEW l \in Letters
             PROVE  copies'[l] <= trouble'["unsure"] + (IF letter'[l] = "kept" THEN 1 ELSE 0)
  BY DEF CopiesCounted
<1>1. copies[l] <= trouble["unsure"] + (IF letter[l] = "kept" THEN 1 ELSE 0)
  BY DEF Inv, CopiesCounted
<1>2. /\ copies[l] \in Nat /\ trouble["unsure"] \in Nat /\ copies'[l] \in Nat /\ trouble'["unsure"] \in Nat
      /\ copies'[l] + trouble["unsure"] <= copies[l] + trouble'["unsure"]
  BY SupportThreadAssumption DEF Inv, TypeOK, Sent, Troubles
<1>3. letter[l] = "kept" => letter'[l] = "kept"
  OBVIOUS
<1> QED
  BY <1>1, <1>2, <1>3

\* She is told of it, or the move is counted.
LEMMA GivesUpStep ==
    ASSUME Inv, NEW a \in Handlers, GivesUp(a),
           run[a].pc \in Ensuring \/ (a \in Writers /\ run[a].pc = "copy") \/ (a = "worker" /\ run[a].pc \in {"carry", "close"}),
           lock' \in Handlers \cup {"free", "dead"}, TopicsCounted', Sent,
           UNCHANGED <<world, thread, records, topics, gone, crossed, open>>
    PROVE  Inv'
<1>1. Moves(a, Idle)
  BY IdleLocal, SetMoves DEF GivesUp
<1>2. SameRow /\ run[a].pc \notin {"idle", "status", "settle", "noted"}
  BY DEF SameRow, SameStatus, Inv, TypeOK, Ensuring
<1>3. a \in Writers => run[a].pc \in Writing /\ run[a].on \in Letters /\ letter[run[a].on] = "handled"
  <2> SUFFICES ASSUME a \in Writers
               PROVE  run[a].pc \in Writing /\ run[a].on \in Letters /\ letter[run[a].on] = "handled"
    OBVIOUS
  <2>1. run[a].pc \in Writing
    BY HandlersAre DEF Writing, Ensuring
  <2>2. WriterShape(a, run[a])
    BY <1>2, LocalsOf DEF Shape
  <2> QED
    BY <2>1, <2>2 DEF Inv, WritersKnow, WriterShape
<1>4. a = "worker" => run[a].act = "move" /\ legacy.failures < MaxFailures
  BY LocalsOf DEF Inv, MovesCounted, Shape, WorkerShape, Ensuring
<1>5. /\ letter' \in [Letters -> {"none", "handled", "kept", "refused"}]
      /\ \A l \in Letters : \/ letter'[l] = letter[l]
                            \/ a \in Writers /\ l = run[a].on /\ letter[l] = "handled" /\ letter'[l] = "refused"
  <2>1. letter \in [Letters -> {"none", "handled", "kept", "refused"}]
    BY DEF Inv, TypeOK
  <2>2. letter' = IF a \in Writers THEN [letter EXCEPT ![run[a].on] = "refused"] ELSE letter
    BY DEF GivesUp
  <2>3. CASE a \in Writers
    <3> DEFINE on == run[a].on
    <3>1. letter' = [letter EXCEPT ![on] = "refused"] /\ on \in Letters /\ letter[on] = "handled"
      BY <1>3, <2>2, <2>3
    <3> HIDE DEF on
    <3>2. /\ letter' \in [Letters -> {"none", "handled", "kept", "refused"}] /\ letter'[on] = "refused"
          /\ \A m \in Letters : m # on => letter'[m] = letter[m]
      BY <2>1, <3>1
    <3> QED
      BY <2>3, <3>1, <3>2 DEF on
  <2>4. CASE a \notin Writers
    BY <2>1, <2>2, <2>4
  <2> QED
    BY <2>3, <2>4
<1>6. /\ legacy' \in [open : BOOLEAN, waits : BOOLEAN, noted : BOOLEAN, done : BOOLEAN, failures : 0..MaxFailures]
      /\ legacy'.open = legacy.open /\ legacy'.waits = legacy.waits /\ legacy'.noted = legacy.noted
      /\ a # "worker" => legacy' = legacy
  BY <1>4, SupportThreadAssumption DEF GivesUp, Inv, TypeOK
<1>7. TypeOK'
  BY <1>1, <1>5, <1>6 DEF Moves, Inv, TypeOK, world, records, Sent
<1>8. Shapes' /\ CallsOwned' /\ RowSound' /\ CreatorsKnow'
  BY <1>1, IdleLocal, NoThreadIs DEF Moves, Inv, Shapes, Shape, CallsOwned, RowSound, CreatorsKnow, Before, At, records
<1>9. WritersKnow'
  <2>1. \A w \in Writers : w # a => run'[w] = run[w]
    BY <1>1, HandlersAre DEF Moves
  <2>2. \A w \in Writers : w # a /\ run[w].pc \in Writing => letter'[run[w].on] = "handled"
    <3> SUFFICES ASSUME NEW w \in Writers, w # a, run[w].pc \in Writing PROVE letter'[run[w].on] = "handled"
      OBVIOUS
    <3>1. run[w].on \in Letters /\ letter[run[w].on] = "handled"
      BY LocalsOf, HandlersAre DEF Inv, WritersKnow, Shape, WriterShape, Writing, Ensuring
    <3>2. a \in Writers => run[w].on # run[a].on
      BY <1>3, HandlersAre DEF Inv, WritersKnow
    <3> QED
      BY <1>5, <3>1, <3>2
  <2>3. run'[a].pc = "idle" /\ "idle" \notin Writing
    BY <1>1, IdleLocal DEF Moves, Writing, Ensuring
  <2> QED
    BY <2>1, <2>2, <2>3, HandlersAre DEF Inv, WritersKnow, Fresh, At
<1>10. MovesCounted' /\ NotesCounted'
  <2>1. run'["worker"] = IF a = "worker" THEN Idle ELSE run["worker"]
    BY <1>1, HandlersAre DEF Moves
  <2> QED
    BY <1>2, <1>6, <2>1, IdleLocal DEF Inv, MovesCounted, NotesCounted, At, records, Sent
<1>11. CopiesCounted'
  BY <1>5, SentCounted
<1>12. Untouched'
  BY <1>1, <1>2, <1>6, IdleLocal, UntouchedKept DEF world, records, SameRow
<1>13. OpenShown'
  BY <1>1, <1>2, IdleLocal, OpenKept DEF Heeds, SameRow
<1> QED
  BY <1>7, <1>8, <1>9, <1>10, <1>11, <1>12, <1>13 DEF Inv

LEMMA StopWaitingStep ==
    ASSUME Inv, NEW a \in Handlers, StopWaiting(a)
    PROVE  Inv'
<1>1. Moves(a, Idle) /\ SameTopics
  BY IdleLocal, SetMoves DEF StopWaiting, GivesUp, SameTopics, Smoothly
<1>2. TopicsCounted'
  BY <1>1, IdleLocal, TopicsElsewhere DEF StopWaiting, At
<1>3. lock' \in Handlers \cup {"free", "dead"}
  BY DEF StopWaiting, Inv, TypeOK
<1> QED
  BY <1>2, <1>3, GivesUpStep, NothingSent DEF StopWaiting, At, Ensuring, Smoothly

LEMMA CreateFailsStep ==
    ASSUME Inv, NEW a \in Handlers, CreateFails(a)
    PROVE  Inv'
<1>1. Moves(a, Idle) /\ SameTopics /\ run[a].pc \in {"create", "card"}
  BY IdleLocal, SetMoves DEF CreateFails, GivesUp, SameTopics, Smoothly, At
<1>2. TopicsCounted'
  BY <1>1, IdleLocal, TopicsLeft DEF CreateFails
<1>3. lock' \in Handlers \cup {"free", "dead"}
  BY DEF CreateFails, Release, Inv, TypeOK
<1> QED
  BY <1>1, <1>2, <1>3, GivesUpStep, NothingSent DEF CreateFails, Ensuring, Smoothly

\* One topic more; without a row, its creator may still be the one who makes it.
LEMMA CreateTopicStep ==
    ASSUME Inv, NEW a \in Handlers, CreateTopic(a)
    PROVE  Inv'
<1> DEFINE fresh == topics + 1
           v == [run[a] EXCEPT !.pc = "insert", !.topic = fresh]
<1>1. run[a] \in Locals /\ run[a].pc = "create" /\ topics \in Nat /\ fresh \in Nat
  BY LocalsOf DEF CreateTopic, At, Inv, TypeOK
<1>2. /\ v \in Locals /\ v.pc = "insert" /\ v.topic = topics + 1 /\ v.act = run[a].act
      /\ v.on = run[a].on /\ v.was = run[a].was
  <2> HIDE DEF fresh
  <2>1. /\ v \in Locals /\ v.pc = "insert" /\ v.topic = fresh /\ v.act = run[a].act
        /\ v.on = run[a].on /\ v.was = run[a].was
    BY <1>1 DEF Locals
  <2> QED
    BY <2>1 DEF fresh
<1>3. Set(a, v)
  BY DEF CreateTopic
<1> HIDE DEF v, fresh
<1>4. Moves(a, v) /\ topics' = topics + 1 /\ Smoothly
      /\ UNCHANGED <<world, thread, lock, legacy, records, gone, crossed, letter, copies, open>>
  BY <1>2, <1>3, SetMoves DEF CreateTopic
<1>5. /\ Shape(a, v) /\ (a \notin Writers => Heeds(v)) /\ run[a].pc \in Writing
  BY <1>1, <1>2, EnsuringOn DEF Ensuring, Writing
<1>6. SameRow
  BY <1>4 DEF SameRow, SameStatus, Inv, TypeOK
<1>7. TypeOK'
  BY <1>1, <1>4 DEF Moves, Inv, TypeOK, world, records, Smoothly
<1>8. Shapes' /\ CallsOwned'
  BY <1>2, <1>4, <1>5, LocalsOf DEF Moves, Inv, Shapes, CallsOwned
<1>9. RowSound' /\ CreatorsKnow'
  BY <1>1, <1>2, <1>4 DEF Moves, Inv, RowSound, CreatorsKnow, Before, At, records
<1>10. WritersKnow'
  <2>1. \A w \in Writers : Fresh(w) => Fresh(w)' \/ w = a
    BY <1>1, <1>4, HandlersAre DEF Moves, Fresh
  <2> QED
    BY <1>1, <1>2, <1>4, <2>1, HandlersAre DEF Moves, Inv, WritersKnow, At, Writing, Ensuring
<1>11. MovesCounted' /\ NotesCounted' /\ CopiesCounted'
  BY <1>1, <1>2, <1>4, HandlersAre DEF Moves, Inv, MovesCounted, NotesCounted, CopiesCounted, At, records, Smoothly
<1>12. TopicsCounted'
  <2>1. Count(run, {"create"}) \in Nat /\ Count(run', {"create"}) = Count(run, {"create"}) - 1
    BY <1>1, <1>2, <1>4, CountMoves
  <2>2. Count(run, {"again", "create"}) \in Nat
        /\ Count(run', {"again", "create"}) = Count(run, {"again", "create"}) - 1
    BY <1>1, <1>2, <1>4, CountMoves
  <2>3. (Moving' <=> Moving) /\ (Holds' <=> Holds)
    BY <1>1, <1>2, <1>4, MovingKept DEF Moves, Holds
  <2>4. topics' + Count(run', {"create"}) = topics + Count(run, {"create"})
        /\ topics' + Count(run', {"again", "create"}) = topics + Count(run, {"again", "create"})
    BY <1>1, <1>4, <2>1, <2>2
  <2> QED
    BY <1>4, <2>3, <2>4 DEF Inv, TopicsCounted, Smoothly
<1>13. Untouched'
  BY <1>1, <1>2, <1>4, <1>6, UntouchedKept DEF world, records, SameRow
<1>14. OpenShown'
  BY <1>1, <1>2, <1>4, <1>5, <1>6, OpenKept DEF SameRow
<1> QED
  BY <1>7, <1>8, <1>9, <1>10, <1>11, <1>12, <1>13, <1>14 DEF Inv

\* The first to insert has its topic in the row, and nobody may insert another.
LEMMA InsertThreadStep ==
    ASSUME Inv, NEW a \in Handlers, InsertThread(a)
    PROVE  Inv'
<1>1. run[a] \in Locals /\ run[a].pc = "insert" /\ run[a].topic \in 1..topics
  BY LocalsOf DEF InsertThread, At, Inv, CreatorsKnow
<1>2. CASE thread.made
  <2>1. Moves(a, Idle) /\ SameTopics
    BY <1>2, IdleLocal, SetMoves DEF InsertThread, GivesUp, SameTopics, Smoothly
  <2>2. TopicsCounted'
    BY <1>1, <1>2, <2>1, IdleLocal, TopicsLeft DEF InsertThread
  <2>3. lock' \in Handlers \cup {"free", "dead"}
    BY <1>2 DEF InsertThread, Release, Inv, TypeOK
  <2> QED
    BY <1>1, <1>2, <2>2, <2>3, GivesUpStep, NothingSent DEF InsertThread, Ensuring, Smoothly
<1>3. CASE ~thread.made
  <2>1. PICK v \in Locals : /\ Moves(a, v) /\ v.pc = "card" /\ v.act = run[a].act /\ v.on = run[a].on
                            /\ v.was = run[a].was
    BY <1>3, GotoMoves DEF InsertThread
  <2>2. /\ thread' = [NoThread EXCEPT !.made = TRUE, !.topic = run[a].topic] /\ Smoothly
        /\ UNCHANGED <<world, lock, legacy, records, topics, gone, crossed, letter, copies, open>>
    BY <1>3 DEF InsertThread
  <2>3. thread = NoThread /\ gone = {} /\ topics \in Nat
    BY <1>3 DEF Inv, RowSound, TypeOK
  <2>4. /\ thread' \in ThreadType /\ thread'.made /\ thread'.topic = run[a].topic /\ thread'.status = "ANSWERED"
        /\ thread'.away = FALSE /\ thread'.answered = 0
    <3>1. thread' = [made |-> TRUE, topic |-> run[a].topic, status |-> "ANSWERED", to |-> "nobody",
                     away |-> FALSE, noticed |-> FALSE, asked |-> 0, answered |-> 0]
      BY <2>2 DEF NoThread
    <3>2. run[a].topic \in Nat
      BY <1>1 DEF Locals
    <3> QED
      BY <3>1, <3>2 DEF ThreadType, Statuses
  <2>5. /\ Shape(a, v) /\ run[a].pc \in Writing
    BY <1>1, <2>1, EnsuringOn DEF Ensuring, Writing
  <2>6. TypeOK'
    BY <2>1, <2>2, <2>4 DEF Moves, Inv, TypeOK, world, records, Smoothly
  <2>7. Shapes' /\ CallsOwned'
    BY <2>1, <2>4, <2>5, LocalsOf DEF Moves, Inv, Shapes, CallsOwned, Owned
  <2>8. RowSound' /\ CreatorsKnow'
    <3>1. clock' \in Nat
      BY <2>6 DEF TypeOK
    <3> QED
      BY <1>1, <2>1, <2>2, <2>4, <3>1 DEF Moves, Inv, RowSound, CreatorsKnow, Before, At, records
  <2>9. WritersKnow'
    <3>1. \A w \in Writers : run[w].pc \notin {"notice", "copy", "move"}
      BY <1>3 DEF Inv, WritersKnow
    <3> QED
      BY <1>1, <2>1, <2>2, <3>1, HandlersAre DEF Moves, Inv, WritersKnow, At, Writing, Ensuring
  <2>10. MovesCounted' /\ NotesCounted' /\ CopiesCounted'
    BY <1>1, <2>1, <2>2, HandlersAre DEF Moves, Inv, MovesCounted, NotesCounted, CopiesCounted, At, records, Smoothly
  <2>11. TopicsCounted'
    <3>1. Count(run, {"again", "create"}) \in Nat /\ Count(run, {"create"}) \in Nat
      BY Counts
    <3>2. Count(run', {"create"}) = Count(run, {"create"}) /\ Count(run', {"create"}) \in Nat
      BY <1>1, <2>1, CountMoves
    <3>3. Count(run, {"create"}) <= Count(run, {"again", "create"})
      <4> DEFINE S == {b \in Handlers : run[b].pc \in {"create"}}
                 T == {b \in Handlers : run[b].pc \in {"again", "create"}}
      <4>1. S \subseteq T /\ IsFiniteSet(T)
        BY Counts
      <4>2. Cardinality(S) <= Cardinality(T)
        BY <4>1, FS_Subset
      <4> QED
        BY <4>2 DEF Count
    <3>4. topics + Count(run, {"again", "create"}) <= trouble["lapse"] + trouble["crash"] + (IF Holds THEN 1 ELSE 0)
      BY <1>3 DEF Inv, TopicsCounted
    <3>5. Cardinality(gone') = 0 /\ thread'.topic \notin gone'
      BY <2>2, <2>3, FS_EmptySet
    <3>6. topics' + Count(run', {"create"}) <= Cardinality(gone') + crossed' + trouble'["lapse"] + trouble'["crash"] + 1
      BY <2>2, <2>3, <3>1, <3>2, <3>3, <3>4, <3>5, Numbers DEF Inv, Smoothly
    <3> QED
      BY <2>4, <3>5, <3>6 DEF TopicsCounted
  <2>12. Untouched'
    <3> SUFFICES ASSUME turns = 0 PROVE Untouched'
      BY <2>2 DEF Untouched, records
    <3>1. \A b \in Handlers : run'[b].was = run[b].was /\ run'[b].act = run[b].act
            /\ (run'[b].pc = run[b].pc \/ (run[b].pc = "insert" /\ run'[b].pc = "card"))
      BY <1>1, <2>1 DEF Moves
    <3>2. thread.status = "ANSWERED"
      BY <2>3, NoThreadIs
    <3> QED
      BY <2>2, <2>4, <3>1, <3>2, HandlersAre DEF Inv, Untouched, At, world, records
  <2>13. OpenShown'
    BY <1>3, <2>2 DEF Inv, OpenShown
  <2> QED
    BY <2>6, <2>7, <2>8, <2>9, <2>10, <2>11, <2>12, <2>13 DEF Inv
<1> QED
  BY <1>2, <1>3
---------------------------------------------------------------------------
(* Her message.                                                            *)

\* Whoever begins while no question of hers is on its way has read the row as
\* it shows.
LEMMA OpenBegun ==
    ASSUME Inv, NEW a \in Handlers, NEW v, Moves(a, v), thread' = thread, open' = Busy,
           a \in Writers => v.pc \notin {"status", "settle"},
           a \notin Writers /\ thread.status \in Shown /\ thread.asked > thread.answered => Heeds(v)
    PROVE  OpenShown'
<1> SUFFICES ASSUME open' = "yes" PROVE OpenShown'
  BY DEF OpenShown
<1>1. open = "yes" /\ NobodyAsks
  BY DEF Busy, NobodyAsks, Asking
<1>2. thread.made /\ thread.status \in Shown /\ thread.asked > thread.answered /\ \A b \in Handlers \ Writers : Heeds(run[b])
  BY <1>1 DEF Inv, OpenShown
<1>3. NobodyAsks'
  BY <1>1, HandlersAre DEF Moves, Asking, NobodyAsks
<1>4. \A b \in Handlers \ Writers : Heeds(run'[b])
  BY <1>2 DEF Moves
<1> QED
  BY <1>2, <1>3, <1>4 DEF OpenShown, NobodyAsks

LEMMA WriteStep ==
    ASSUME Inv, NEW l \in Letters, Write(l)
    PROVE  Inv'
<1> DEFINE v == [Idle EXCEPT !.pc = "ensure", !.on = l, !.act = ActOf(l)]
<1>1. v \in Locals /\ v.pc = "ensure" /\ v.on = l /\ v.was = NoThread /\ v.act = ActOf(l)
  BY NoThreadIs DEF Idle, Locals, ActOf
<1>2. "her" \in Handlers /\ "her" \in Writers /\ Set("her", v) /\ run["her"].pc = "idle" /\ letter[l] = "none"
  BY HandlersAre DEF Write, At
<1> HIDE DEF v
<1>3. /\ Moves("her", v) /\ letter' = [letter EXCEPT ![l] = "handled"] /\ open' = Busy /\ Smoothly
      /\ UNCHANGED <<world, thread, lock, legacy, records, topics, gone, crossed, copies>>
  BY <1>1, <1>2, SetMoves DEF Write
<1>4. SameRow /\ SameStatus /\ SameTopics
  BY <1>3 DEF SameRow, SameStatus, SameTopics, Smoothly, Inv, TypeOK
<1>5. Shape("her", v)
  BY <1>1, HandlersAre DEF Shape, WriterShape, Writing, Ensuring
<1>6. TypeOK'
  <2>1. open' \in {"no", "yes", "excused"}
    BY <1>3 DEF Busy, Inv, TypeOK
  <2> QED
    BY <1>3, <2>1 DEF Moves, Inv, TypeOK, world, records, Smoothly
<1>7. Shapes' /\ CallsOwned' /\ CreatorsKnow'
  BY <1>1, <1>2, <1>3, <1>5, NoThreadIs, LocalsKept DEF Before, Inv, CallsOwned, TypeOK
<1>8. RowSound' /\ MovesCounted' /\ NotesCounted'
  BY <1>2, <1>3, WorkerAside DEF Inv, RowSound, records, Smoothly
<1>9. WritersKnow'
  <2>1. run'["her"] = v /\ run'["album"] = run["album"] /\ UNCHANGED <<thread, topics, gone>>
    BY <1>3, HandlersAre DEF Moves
  <2>2. letter'[l] = "handled"
    BY <1>3 DEF Inv, TypeOK
  <2>3. run["album"].pc \in Writing =>
          run["album"].on # l /\ letter[run["album"].on] = "handled" /\ letter'[run["album"].on] = "handled"
    BY <1>2, <1>3, HandlersAre DEF Inv, WritersKnow, TypeOK
  <2> QED
    BY <1>1, <2>1, <2>2, <2>3, HandlersAre DEF WritersKnow, Inv, Fresh, At
<1>10. CopiesCounted'
  BY <1>2, <1>3, NothingSent, SentCounted DEF Smoothly, Inv, TypeOK
<1>11. TopicsCounted'
  BY <1>1, <1>2, <1>3, <1>4, TopicsElsewhere
<1>12. Untouched'
  BY <1>1, <1>2, <1>3, <1>4, UntouchedKept DEF SameRow, world, records
<1>13. OpenShown'
  BY <1>1, <1>2, <1>3, OpenBegun
<1> QED
  BY <1>6, <1>7, <1>8, <1>9, <1>10, <1>11, <1>12, <1>13 DEF Inv

LEMMA NoticeStep ==
    ASSUME Inv, NoticeIfAway
    PROVE  Inv'
<1> DEFINE row == IF run["her"].was.noticed THEN run["her"].was ELSE thread'
<1>1. "her" \in Handlers /\ "her" \in Writers /\ run["her"].pc = "notice" /\ thread.made
  BY HandlersAre DEF NoticeIfAway, At, Inv, WritersKnow
<1>2. /\ thread' \in ThreadType /\ thread'.made /\ thread'.topic = thread.topic /\ thread'.status = thread.status
      /\ thread'.to = thread.to /\ thread'.away = thread.away /\ thread'.asked = thread.asked
      /\ thread'.answered = thread.answered
  <2>1. thread' = [thread EXCEPT !.noticed = TRUE] /\ thread \in ThreadType
    BY DEF NoticeIfAway, Inv, TypeOK
  <2> QED
    BY <1>1, <2>1 DEF ThreadType
<1>3. row \in ThreadType /\ row \in {run["her"].was, thread'}
  BY <1>1, <1>2, LocalsOf
<1>4. Has("her", row, "copy") /\ Smoothly
      /\ UNCHANGED <<world, lock, legacy, records, topics, gone, crossed, letter, copies, open>>
  BY DEF NoticeIfAway
<1> HIDE DEF row
<1>5. PICK v \in Locals : /\ Moves("her", v) /\ v.act = run["her"].act /\ v.on = run["her"].on
                          /\ v.pc = "copy" /\ v.was = row
  BY <1>1, <1>3, <1>4, HasMoves
<1>6. SameRow /\ SameStatus /\ SameTopics
  BY <1>1, <1>2, <1>4 DEF SameRow, SameStatus, SameTopics, Smoothly
<1>7. Shape("her", v)
  BY <1>1, <1>5, LocalsOf, HandlersAre DEF Shape, WriterShape, Writing
<1>8. TypeOK'
  BY <1>2, <1>4, <1>5 DEF Moves, Inv, TypeOK, world, records, Smoothly
<1>9. /\ Shapes' /\ CallsOwned' /\ RowSound' /\ CreatorsKnow' /\ WritersKnow' /\ MovesCounted'
      /\ CopiesCounted' /\ NotesCounted'
  <2>1. /\ v.was \in {run["her"].was, thread, thread', NoThread}
        /\ v.pc \notin Before /\ v.pc # "insert" /\ run["her"].pc \in Writing
    BY <1>1, <1>3, <1>5 DEF Before, Writing
  <2> QED
    BY <1>1, <1>4, <1>5, <1>6, <1>7, <2>1, HandlersAre, RowKept DEF records
<1>10. TopicsCounted'
  BY <1>1, <1>4, <1>5, <1>6, TopicsElsewhere
<1>11. Untouched'
  BY <1>1, <1>3, <1>4, <1>5, <1>6, UntouchedKept DEF SameRow, world, records
<1>12. OpenShown'
  BY <1>1, <1>4, <1>5, <1>6, OpenKept DEF SameRow
<1> QED
  BY <1>8, <1>9, <1>10, <1>11, <1>12 DEF Inv

\* The album goes over to its handler, which is yet to look for the thread.
LEMMA KeepForAlbumStep ==
    ASSUME Inv, KeepForAlbum
    PROVE  Inv'
<1> DEFINE l == run["her"].on
           v == [Idle EXCEPT !.pc = "ensure", !.on = l, !.act = "ask"]
<1>1. /\ run["her"].pc = "copy" /\ run["album"].pc = "idle" /\ l \in Albums /\ l \in Letters /\ ActOf(l) = "ask"
      /\ run["her"] \in Locals /\ thread.made
  BY SupportThreadAssumption, HandlersAre, LocalsOf DEF KeepForAlbum, At, Letters, ActOf, Inv, WritersKnow
<1>2. v \in Locals /\ v.pc = "ensure" /\ v.on = l /\ v.act = "ask" /\ v.was = NoThread
  BY <1>1, NoThreadIs DEF Idle, Locals
<1>3. /\ run' = [run EXCEPT !["her"] = Idle, !["album"] = v] /\ Smoothly
      /\ UNCHANGED <<world, thread, lock, legacy, records, topics, gone, crossed, letter, copies, open>>
  BY DEF KeepForAlbum
<1> HIDE DEF v
<1>4. /\ run' \in [Handlers -> Locals] /\ run'["her"] = Idle /\ run'["album"] = v
      /\ \A b \in Handlers : b \notin {"her", "album"} => run'[b] = run[b]
  BY <1>2, <1>3, IdleLocal, HandlersAre DEF Inv, TypeOK
<1>5. TypeOK'
  BY <1>3, <1>4 DEF Inv, TypeOK, world, records, Smoothly
<1>6. Shapes'
  <2>1. Shape("her", Idle) /\ Shape("album", v)
    BY <1>1, <1>2, IdleLocal, HandlersAre DEF Shape, WriterShape, Writing, Ensuring
  <2> QED
    BY <1>4, <2>1, HandlersAre DEF Inv, Shapes
<1>7. CallsOwned' /\ RowSound' /\ CreatorsKnow'
  BY <1>2, <1>3, <1>4, IdleLocal, NoThreadIs, HandlersAre DEF Inv, CallsOwned, RowSound, CreatorsKnow, Before, At, records
<1>8. WritersKnow'
  <2>1. letter[l] = "handled"
    BY <1>1, HandlersAre DEF Inv, WritersKnow, Writing
  <2> QED
    BY <1>2, <1>3, <1>4, <2>1, IdleLocal, HandlersAre DEF WritersKnow, At, Writing, Ensuring
<1>9. MovesCounted' /\ NotesCounted' /\ CopiesCounted'
  BY <1>3, <1>4, HandlersAre DEF Inv, MovesCounted, NotesCounted, CopiesCounted, At, records, Smoothly
<1>10. TopicsCounted'
  <2>1. \A P : P \cap {"copy", "idle", "ensure"} = {} => Count(run', P) = Count(run, P)
    <3> SUFFICES ASSUME NEW P, P \cap {"copy", "idle", "ensure"} = {} PROVE Count(run', P) = Count(run, P)
      OBVIOUS
    <3>1. \A b \in Handlers : run'[b].pc \in P <=> run[b].pc \in P
      BY <1>1, <1>2, <1>4, IdleLocal
    <3>2. {b \in Handlers : run'[b].pc \in P} = {b \in Handlers : run[b].pc \in P}
      BY <3>1
    <3> QED
      BY <3>2 DEF Count
  <2>2. Count(run', {"create"}) = Count(run, {"create"})
    BY <2>1
  <2>3. Moving' <=> Moving
    BY <1>1, <1>2, <1>4, IdleLocal, HandlersAre DEF Moving, At
  <2> QED
    BY <1>1, <1>3, <2>2, <2>3 DEF Inv, TopicsCounted, Smoothly
<1>11. Untouched'
  <2>1. \A b \in Handlers : run'[b].was = run[b].was \/ run'[b].was = NoThread
    BY <1>2, <1>4, IdleLocal
  <2> QED
    BY <1>3, <1>4, <2>1, NoThreadIs, HandlersAre DEF Inv, Untouched, At, world, records
<1>12. OpenShown'
  <2> SUFFICES ASSUME open = "yes" PROVE OpenShown'
    BY <1>3 DEF OpenShown
  <2>1. NobodyAsks
    BY <1>1, HandlersAre DEF NobodyAsks, Asking
  <2>2. NobodyAsks' /\ \A b \in Handlers \ Writers : run'[b] = run[b]
    BY <1>2, <1>4, IdleLocal, HandlersAre DEF NobodyAsks, Asking
  <2> QED
    BY <1>3, <2>1, <2>2 DEF Inv, OpenShown, NobodyAsks
<1> QED
  BY <1>5, <1>6, <1>7, <1>8, <1>9, <1>10, <1>11, <1>12 DEF Inv

\* A question is open now; who reads the thread from here on sees that she waits.
LEMMA CopyStep ==
    ASSUME Inv, NEW w \in Writers, CopyIntoTopic(w)
    PROVE  Inv'
<1> DEFINE l == run[w].on
<1>1. /\ w \in Handlers /\ run[w].pc = "copy" /\ thread.made
      /\ l \in Letters /\ letter[l] = "handled" /\ run[w].act = ActOf(l) /\ WriterShape(w, run[w])
  <2>1. w \in Handlers /\ run[w].pc = "copy"
    BY HandlersAre DEF CopyIntoTopic, Copying, At
  <2>2. WriterShape(w, run[w])
    BY <2>1, LocalsOf DEF Shape
  <2> QED
    BY <2>1, <2>2 DEF Inv, WritersKnow, WriterShape, Writing
<1>2. /\ copies' = [copies EXCEPT ![l] = @ + 1] /\ letter' = [letter EXCEPT ![l] = "kept"] /\ Goto(w, "status")
      /\ Smoothly /\ UNCHANGED <<world, thread, lock, legacy, records, topics, gone, crossed>>
  BY DEF CopyIntoTopic
<1>3. PICK v \in Locals : /\ Moves(w, v) /\ v.act = run[w].act /\ v.on = l
                          /\ v.pc = "status" /\ v.was = run[w].was
  BY <1>1, <1>2, GotoMoves
<1>4. SameRow /\ SameStatus /\ SameTopics
  BY <1>2 DEF SameRow, SameStatus, SameTopics, Smoothly, Inv, TypeOK
<1>5. Shape(w, v) /\ Owned(v.was)
  BY <1>1, <1>3, LocalsOf, HandlersAre DEF Shape, WriterShape
<1>6. open' = open \/ (l \in Questions /\ open' \in {"yes", "excused"})
  BY DEF CopyIntoTopic
<1>7. TypeOK'
  <2>1. copies' \in [Letters -> Nat] /\ letter' \in [Letters -> {"none", "handled", "kept", "refused"}]
    BY <1>1, <1>2 DEF Inv, TypeOK
  <2>2. open' \in {"no", "yes", "excused"}
    BY <1>6 DEF Inv, TypeOK
  <2> QED
    BY <1>2, <1>3, <2>1, <2>2 DEF Moves, Inv, TypeOK, world, records, Smoothly
<1>8. Shapes' /\ CallsOwned' /\ CreatorsKnow'
  BY <1>1, <1>2, <1>3, <1>5, LocalsKept DEF Inv, CallsOwned, TypeOK
<1>9. RowSound' /\ MovesCounted' /\ NotesCounted'
  BY <1>1, <1>2, <1>3, HandlersAre, WorkerAside DEF Inv, RowSound, records, Smoothly
<1>10. WritersKnow'
  <2>1. \A x \in Writers : x # w => run'[x] = run[x] /\ (run[x].pc \in Writing => letter'[run[x].on] = letter[run[x].on])
    <3> SUFFICES ASSUME NEW x \in Writers, x # w
                 PROVE  run'[x] = run[x] /\ (run[x].pc \in Writing => letter'[run[x].on] = letter[run[x].on])
      OBVIOUS
    <3>1. run[x].pc \in Writing => run[x].on # l
      BY <1>1, HandlersAre DEF Inv, WritersKnow, Writing
    <3> QED
      BY <1>2, <1>3, <3>1, HandlersAre DEF Moves, Inv, TypeOK
  <2>2. run'[w].pc = "status"
    BY <1>1, <1>3 DEF Moves
  <2> QED
    BY <1>2, <2>1, <2>2, HandlersAre DEF Inv, WritersKnow, Fresh, At, Writing, Ensuring
<1>11. CopiesCounted'
  <2> SUFFICES ASSUME NEW m \in Letters
               PROVE  copies'[m] <= trouble'["unsure"] + (IF letter'[m] = "kept" THEN 1 ELSE 0)
    BY DEF CopiesCounted
  <2>1. copies[m] <= trouble["unsure"] + (IF letter[m] = "kept" THEN 1 ELSE 0) /\ trouble' = trouble
    BY <1>2 DEF Inv, CopiesCounted, Smoothly
  <2>2. copies[m] \in Nat /\ trouble["unsure"] \in Nat
    BY Numbers DEF Inv, TypeOK
  <2>3. CASE m = l
    <3>1. letter'[m] = "kept" /\ copies'[m] = copies[m] + 1 /\ letter[m] = "handled"
      BY <1>1, <1>2, <2>3 DEF Inv, TypeOK
    <3> QED
      BY <2>1, <2>2, <3>1
  <2>4. CASE m # l
    <3>1. letter'[m] = letter[m] /\ copies'[m] = copies[m]
      BY <1>2, <2>4 DEF Inv, TypeOK
    <3> QED
      BY <2>1, <3>1
  <2> QED
    BY <2>3, <2>4
<1>12. TopicsCounted'
  BY <1>1, <1>2, <1>3, <1>4, TopicsElsewhere
<1>13. Untouched'
  BY <1>1, <1>2, <1>3, <1>4, UntouchedKept DEF SameRow, world, records
<1>14. OpenShown'
  <2> SUFFICES ASSUME open' = "yes" PROVE OpenShown'
    BY DEF OpenShown
  <2>1. run'[w] = v /\ \A a \in Others(w) : run'[a] = run[a]
    BY <1>3 DEF Moves, Others
  <2>2. CASE l \in Questions
    <3>1. (\A a \in Others(w) : At(a, "idle")) /\ run[w].was.status = thread.status
      BY <2>2 DEF CopyIntoTopic
    <3>2. v.act = "ask"
      BY <1>1, <1>3, <2>2 DEF ActOf
    <3>3. /\ Asking(w)' /\ \A a \in Others(w) : At(a, "idle")'
          /\ At(w, "status")' => run'[w].was.status = thread'.status
          /\ ~At(w, "settle")'
      BY <1>2, <1>3, <2>1, <3>1, <3>2 DEF Asking, At
    <3>4. \A x \in Writers : x # w => ~Asking(x)'
      BY <3>3, HandlersAre DEF Asking, At, Others
    <3> QED
      BY <1>1, <1>2, <3>3, <3>4 DEF OpenShown, NobodyAsks, Others
  <2>3. CASE l \notin Questions
    <3>1. open = "yes" /\ v.act # "ask"
      BY <1>1, <1>3, <1>6, <2>3 DEF ActOf
    <3>2. NobodyAsks
      <4> SUFFICES ASSUME NEW x \in Writers, Asking(x) PROVE FALSE
        BY DEF NobodyAsks
      <4>1. x # w
        BY <1>1 DEF Asking
      <4>2. run[w].pc = "idle"
        BY <1>1, <3>1, <4>1 DEF Inv, OpenShown, Others, At
      <4> QED
        BY <1>1, <4>2
    <3>3. NobodyAsks' /\ \A b \in Handlers \ Writers : run'[b] = run[b]
      BY <2>1, <3>1, <3>2, HandlersAre DEF NobodyAsks, Asking, Others
    <3> QED
      BY <1>1, <1>2, <3>1, <3>2, <3>3 DEF Inv, OpenShown, NobodyAsks
  <2> QED
    BY <2>2, <2>3
<1> QED
  BY <1>7, <1>8, <1>9, <1>10, <1>11, <1>12, <1>13, <1>14 DEF Inv

LEMMA CopyFailsStep ==
    ASSUME Inv, NEW w \in Writers, CopyFails(w)
    PROVE  Inv'
<1>1. w \in Handlers /\ run[w].pc = "copy" /\ GivesUp(w) /\ Smoothly
      /\ UNCHANGED <<world, thread, lock, records, topics, gone, crossed, copies, open>>
  BY HandlersAre DEF CopyFails, Copying, At
<1>2. Moves(w, Idle) /\ SameTopics
  BY <1>1, IdleLocal, SetMoves DEF GivesUp, SameTopics, Smoothly
<1>3. TopicsCounted'
  BY <1>1, <1>2, IdleLocal, TopicsElsewhere
<1>4. lock' \in Handlers \cup {"free", "dead"}
  BY <1>1 DEF Inv, TypeOK
<1> QED
  BY <1>1, <1>3, <1>4, GivesUpStep, NothingSent DEF Smoothly

\* One more trouble of kind k, within its bound.
LEMMA TroubleIs ==
    ASSUME Inv, NEW k \in Troubles, Trouble(k)
    PROVE  /\ trouble' \in [Troubles -> 0..MaxTrouble] /\ trouble'[k] = trouble[k] + 1
           /\ \A j \in Troubles \ {k} : trouble'[j] = trouble[j]
<1>1. trouble \in [Troubles -> 0..MaxTrouble] /\ MaxTrouble \in Nat
  BY SupportThreadAssumption DEF Inv, TypeOK
<1>2. /\ trouble["unsure"] \in Nat /\ trouble["lapse"] \in Nat /\ trouble["crash"] \in Nat /\ trouble["record"] \in Nat
      /\ SoFar < MaxTrouble /\ trouble' = [trouble EXCEPT ![k] = @ + 1]
  BY Numbers DEF Inv, Trouble
<1>3. trouble[k] \in Nat /\ trouble[k] + 1 \in 0..MaxTrouble
  BY <1>1, <1>2 DEF SoFar, Troubles
<1> QED
  BY <1>1, <1>2, <1>3

LEMMA CopyUnsureStep ==
    ASSUME Inv, NEW w \in Writers, CopyUnsure(w)
    PROVE  Inv'
<1> DEFINE l == run[w].on
<1>1. /\ w \in Handlers /\ run[w].pc = "copy" /\ l \in Letters
  <2>1. w \in Handlers /\ run[w].pc = "copy"
    BY HandlersAre DEF CopyUnsure, Copying, At
  <2> QED
    BY <2>1, LocalsOf DEF Shape, WriterShape
<1>2. /\ copies' = [copies EXCEPT ![l] = @ + 1]
      /\ UNCHANGED <<world, thread, lock, records, topics, gone, crossed, open>>
      /\ trouble' \in [Troubles -> 0..MaxTrouble] /\ trouble'["unsure"] = trouble["unsure"] + 1
      /\ trouble'["lapse"] = trouble["lapse"] /\ trouble'["crash"] = trouble["crash"]
  BY TroubleIs DEF CopyUnsure, Troubles
<1>3. Sent
  BY <1>1, <1>2, Numbers DEF Sent, Inv, TypeOK, Troubles
<1>4. lock' \in Handlers \cup {"free", "dead"} /\ SameTopics
  BY <1>2 DEF Inv, TypeOK, SameTopics
<1>5. CASE GivesUp(w)
  <2>1. Moves(w, Idle)
    BY <1>1, <1>5, IdleLocal, SetMoves DEF GivesUp
  <2>2. TopicsCounted'
    BY <1>1, <1>2, <1>4, <2>1, IdleLocal, TopicsElsewhere
  <2> QED
    BY <1>1, <1>2, <1>3, <1>4, <1>5, <2>2, GivesUpStep
<1>6. CASE UNCHANGED <<run, letter, legacy>>
  <2>1. TypeOK'
    BY <1>2, <1>3, <1>6 DEF Inv, TypeOK, Sent, world, records
  <2>2. Shapes' /\ CallsOwned' /\ RowSound' /\ CreatorsKnow' /\ WritersKnow' /\ MovesCounted'
    BY <1>2, <1>6 DEF Inv, Shapes, CallsOwned, RowSound, CreatorsKnow, WritersKnow, Fresh, MovesCounted, At, records
  <2>3. CopiesCounted' /\ NotesCounted'
    BY <1>2, <1>3, <1>6, SentCounted DEF Inv, NotesCounted, At, records
  <2>4. TopicsCounted'
    BY <1>2, <1>6 DEF Inv, TopicsCounted, Holds, Moving, At
  <2>5. Untouched' /\ OpenShown'
    BY <1>2, <1>6 DEF Inv, Untouched, OpenShown, NobodyAsks, Asking, At, world, records
  <2> QED
    BY <2>1, <2>2, <2>3, <2>4, <2>5 DEF Inv
<1> QED
  BY <1>5, <1>6 DEF CopyUnsure

\* Unless another handler has replaced the topic, that of the row is gone.
LEMMA RecreateStep ==
    ASSUME Inv, NEW w \in Writers, RecreateTopic(w)
    PROVE  Inv'
<1> DEFINE me == run[w]
           fresh == topics + 1
<1>1. /\ w \in Handlers /\ me \in Locals /\ me.pc = "copy" /\ topics \in Nat /\ fresh \in Nat
      /\ letter[me.on] = "handled" /\ thread.made /\ ~Alive(me.was.topic) /\ WriterShape(w, me)
  <2>1. w \in Handlers /\ me.pc = "copy" /\ ~Alive(me.was.topic) /\ topics \in Nat
    BY HandlersAre DEF RecreateTopic, At, Inv, TypeOK
  <2>2. me \in Locals /\ WriterShape(w, me)
    BY <2>1, LocalsOf DEF Shape
  <2> QED
    BY <2>1, <2>2 DEF Inv, WritersKnow, Writing
<1>2. PICK spent \in BOOLEAN : Set(w, [me EXCEPT !.pc = "move", !.topic = topics + 1, !.moved = spent])
  BY DEF RecreateTopic
<1> DEFINE v == [me EXCEPT !.pc = "move", !.topic = fresh, !.moved = spent]
<1>3. /\ v \in Locals /\ v.pc = "move" /\ v.topic = topics + 1 /\ v.act = me.act /\ v.on = me.on /\ v.was = me.was
  <2> HIDE DEF fresh, me
  <2>1. v \in Locals /\ v.pc = "move" /\ v.topic = fresh /\ v.act = me.act /\ v.on = me.on /\ v.was = me.was
    BY <1>1 DEF Locals
  <2> QED
    BY <2>1 DEF fresh
<1>4. /\ Moves(w, v) /\ topics' = topics + 1 /\ Smoothly
      /\ crossed' \in Nat /\ (crossed' = crossed \/ crossed' = crossed + 1)
      /\ (me.was.topic # thread.topic \/ Moving) => crossed' = crossed + 1
      /\ UNCHANGED <<world, thread, lock, legacy, records, gone, letter, copies, open>>
  <2>1. Set(w, v)
    BY <1>2
  <2> HIDE DEF v
  <2> QED
    BY <1>1, <1>3, <2>1, SetMoves DEF RecreateTopic, Moving, Inv, TypeOK
<1> HIDE DEF v, fresh
<1>5. gone \subseteq 1..topics /\ thread.topic \in 1..topics /\ (me.was.topic = thread.topic => thread.topic \in gone)
  BY <1>1 DEF Inv, RowSound, Alive, TypeOK
<1>6. Shape(w, v) /\ Owned(v.was)
  BY <1>1, <1>3, LocalsOf, HandlersAre DEF Shape, WriterShape, Writing
<1>7. SameRow
  BY <1>4 DEF SameRow, SameStatus, Inv, TypeOK
<1>8. TypeOK'
  <2>1. topics' \in Nat /\ gone' \subseteq 1..(topics')
    BY <1>1, <1>4, <1>5
  <2> QED
    BY <1>4, <2>1 DEF Moves, Inv, TypeOK, world, records, Smoothly
<1>9. Shapes' /\ CallsOwned' /\ CreatorsKnow'
  BY <1>1, <1>3, <1>4, <1>6, LocalsKept DEF Inv, CallsOwned
<1>10. RowSound' /\ MovesCounted' /\ NotesCounted'
  BY <1>1, <1>4, HandlersAre, WorkerAside DEF Inv, RowSound, records, Smoothly
<1>11. WritersKnow'
  <2>1. run'[w] = v /\ \A x \in Writers : x # w => run'[x] = run[x]
    BY <1>1, <1>4, HandlersAre DEF Moves
  <2>2. \A x \in Writers : x # w /\ run[x].pc = "move" =>
           Fresh(x)' /\ run[x].topic # v.topic
    BY <1>1, <1>3, <1>4, <2>1 DEF Inv, WritersKnow, Fresh, At
  <2>3. Fresh(w)'
    BY <1>1, <1>3, <1>4, <1>5, <2>1 DEF Fresh
  <2>4. \A x \in Writers : x # w /\ run[x].pc \in Writing => letter[run[x].on] = "handled" /\ run[x].on # me.on
    BY <1>1, HandlersAre DEF Inv, WritersKnow, Writing
  <2>5. \A x \in Writers :
          /\ run'[x].pc \in {"notice", "copy", "move"} => thread'.made
          /\ At(x, "move")' => Fresh(x)'
          /\ run'[x].pc \in Writing => letter'[run'[x].on] = "handled"
    BY <1>1, <1>3, <1>4, <2>1, <2>2, <2>3, <2>4 DEF At
  <2>6. \A x, y \in Writers : x # y =>
          /\ At(x, "move")' /\ At(y, "move")' => run'[x].topic # run'[y].topic
          /\ run'[x].pc \in Writing /\ run'[y].pc \in Writing => run'[x].on # run'[y].on
    BY <1>3, <2>1, <2>2, <2>4, HandlersAre DEF At
  <2> QED
    BY <2>5, <2>6, HandlersAre DEF WritersKnow
<1>12. CopiesCounted'
  BY <1>4, NothingSent, SentCounted DEF Smoothly
<1>13. TopicsCounted'
  <2>1. Count(run, {"create"}) \in Nat /\ Count(run', {"create"}) = Count(run, {"create"})
    BY <1>1, <1>3, <1>4, CountMoves
  <2>2. topics + Count(run, {"create"}) <= Cardinality(gone) + crossed + trouble["lapse"] + trouble["crash"]
                + (IF thread.topic \in gone /\ ~Moving THEN 0 ELSE 1)
    BY <1>1 DEF Inv, TopicsCounted
  <2>3. Moving'
    BY <1>3, <1>4 DEF Moves, Moving, At
  <2>4. CASE crossed' = crossed + 1
    <3>1. topics' + Count(run', {"create"}) <= Cardinality(gone) + crossed' + trouble["lapse"] + trouble["crash"] + 1
      BY <1>4, <2>1, <2>2, <2>4, Numbers DEF Inv
    <3> QED
      BY <1>1, <1>4, <2>3, <3>1 DEF TopicsCounted, Smoothly
  <2>5. CASE crossed' = crossed /\ thread.topic \in gone /\ ~Moving
    <3>1. topics' + Count(run', {"create"}) <= Cardinality(gone) + crossed' + trouble["lapse"] + trouble["crash"] + 1
      BY <1>4, <2>1, <2>2, <2>5, Numbers DEF Inv
    <3> QED
      BY <1>1, <1>4, <2>3, <3>1 DEF TopicsCounted, Smoothly
  <2> QED
    BY <1>4, <1>5, <2>4, <2>5
<1>14. Untouched'
  BY <1>1, <1>3, <1>4, <1>7, UntouchedKept DEF SameRow, world, records
<1>15. OpenShown'
  BY <1>1, <1>3, <1>4, <1>7, OpenKept DEF SameRow
<1> QED
  BY <1>8, <1>9, <1>10, <1>11, <1>12, <1>13, <1>14, <1>15 DEF Inv

LEMMA MoveThreadStep ==
    ASSUME Inv, NEW w \in Writers, MoveThread(w)
    PROVE  Inv'
<1>1. /\ w \in Handlers /\ run[w].pc = "move" /\ thread.made
      /\ run[w].topic \in (1..topics) \ gone /\ letter[run[w].on] = "handled" /\ topics \in Nat
  BY HandlersAre DEF MoveThread, At, Inv, WritersKnow, Fresh, Writing, TypeOK
<1>2. /\ thread' \in ThreadType /\ thread'.made /\ thread'.topic = run[w].topic /\ thread'.status = thread.status
      /\ thread'.to = thread.to /\ thread'.away = thread.away /\ thread'.asked = thread.asked
      /\ thread'.answered = thread.answered
  <2>1. thread' = [thread EXCEPT !.topic = run[w].topic] /\ thread \in ThreadType /\ run[w].topic \in Nat
    BY <1>1 DEF MoveThread, Inv, TypeOK
  <2> QED
    BY <1>1, <2>1 DEF ThreadType
<1>3. Has(w, thread', "copy") /\ Smoothly
      /\ UNCHANGED <<world, lock, legacy, records, topics, gone, crossed, letter, copies, open>>
  BY DEF MoveThread
<1>4. PICK v \in Locals : /\ Moves(w, v) /\ v.act = run[w].act /\ v.on = run[w].on
                          /\ v.pc = "copy" /\ v.was = thread'
  BY <1>1, <1>2, <1>3, HasMoves
<1>5. SameRow /\ SameStatus /\ Owned(thread')
  BY <1>1, <1>2 DEF SameRow, SameStatus, Owned, Inv, CallsOwned
<1>6. Shape(w, v)
  BY <1>1, <1>4, LocalsOf, HandlersAre DEF Shape, WriterShape, Writing
<1>7. TypeOK'
  BY <1>2, <1>3, <1>4 DEF Moves, Inv, TypeOK, world, records, Smoothly
<1>8. Shapes' /\ CallsOwned' /\ CreatorsKnow'
  BY <1>1, <1>2, <1>3, <1>4, <1>5, <1>6, LocalsKept
<1>9. RowSound' /\ MovesCounted' /\ NotesCounted'
  BY <1>1, <1>2, <1>3, <1>4, HandlersAre, WorkerAside DEF Inv, RowSound, records, Smoothly
<1>10. WritersKnow'
  <2>1. run'[w] = v /\ \A x \in Writers : x # w => run'[x] = run[x]
    BY <1>1, <1>4, HandlersAre DEF Moves
  <2>2. \A x \in Writers : x # w =>
          /\ run[x].pc = "move" => Fresh(x)'
          /\ run[x].pc \in Writing => letter[run[x].on] = "handled" /\ run[x].on # v.on
    BY <1>1, <1>2, <1>3, <1>4, <2>1, HandlersAre DEF Inv, WritersKnow, Fresh, At, Writing
  <2>3. \A x \in Writers :
          /\ run'[x].pc \in {"notice", "copy", "move"} => thread'.made
          /\ At(x, "move")' => Fresh(x)'
          /\ run'[x].pc \in Writing => letter'[run'[x].on] = "handled"
    BY <1>1, <1>2, <1>3, <1>4, <2>1, <2>2 DEF At
  <2> QED
    BY <1>4, <2>1, <2>2, <2>3, HandlersAre DEF WritersKnow, At
<1>11. CopiesCounted'
  BY <1>3, NothingSent, SentCounted DEF Smoothly
<1>12. TopicsCounted'
  <2>1. Count(run, {"create"}) \in Nat /\ Count(run', {"create"}) = Count(run, {"create"})
    BY <1>1, <1>4, CountMoves
  <2>2. topics + Count(run, {"create"}) <= Cardinality(gone) + crossed + trouble["lapse"] + trouble["crash"] + 1
    BY <1>1 DEF Inv, TopicsCounted, Moving, At
  <2> QED
    BY <1>1, <1>2, <1>3, <2>1, <2>2 DEF TopicsCounted, Smoothly
<1>13. Untouched'
  BY <1>1, <1>3, <1>4, <1>5, UntouchedKept DEF SameRow, world, records
<1>14. OpenShown'
  BY <1>1, <1>3, <1>4, <1>5, OpenKept DEF SameRow
<1> QED
  BY <1>7, <1>8, <1>9, <1>10, <1>11, <1>12, <1>13, <1>14 DEF Inv
---------------------------------------------------------------------------
(* The team.                                                               *)

LEMMA BeginsStep ==
    ASSUME Inv, NEW a \in Team \cup {"panel"}, MayAct(a), NEW row \in {thread, NoThread},
           NEW act \in {"reply", "thumb", "call", "back"}, NEW pc \in {"ready", "status", "ensure"},
           Begins(a, act, row, pc), a = "panel" => act = "reply",
           act = "reply" <=> pc # "status", act = "back" => row = thread, pc # "ensure" => thread.made
    PROVE  Inv'
<1> DEFINE v == [Idle EXCEPT !.pc = pc, !.act = act, !.was = row]
<1>1. /\ a \in Handlers /\ a \notin Writers /\ a \notin {"her", "album", "worker"} /\ run[a].pc = "idle"
      /\ turns \in Nat /\ turns < MaxTurns
  BY HandlersAre DEF Team, MayAct, At, Inv, TypeOK
<1>2. row \in ThreadType /\ Owned(row)
  BY NoThreadIs DEF Inv, TypeOK, CallsOwned
<1>3. v \in Locals /\ v.pc = pc /\ v.act = act /\ v.was = row
  BY <1>2 DEF Idle, Locals
<1>4. Set(a, v)
  BY DEF Begins
<1> HIDE DEF v
<1>5. /\ Moves(a, v) /\ turns' = turns + 1 /\ open' = Busy /\ Smoothly
      /\ UNCHANGED <<world, thread, lock, legacy, clock, told, topics, gone, crossed, letter, copies>>
  BY <1>1, <1>3, <1>4, SetMoves DEF Begins
<1>6. Shape(a, v)
  BY <1>1, <1>3 DEF Shape, TeamShape, Ensuring
<1>7. SameTopics
  BY <1>5 DEF SameTopics, Smoothly
<1>8. TypeOK'
  <2>1. turns' \in 0..MaxTurns /\ open' \in {"no", "yes", "excused"}
    BY <1>1, <1>5, SupportThreadAssumption DEF Busy, Inv, TypeOK
  <2> QED
    BY <1>5, <2>1 DEF Moves, Inv, TypeOK, world, Smoothly
<1>9. Shapes' /\ CallsOwned' /\ CreatorsKnow'
  BY <1>1, <1>2, <1>3, <1>5, <1>6, LocalsKept DEF Inv, CallsOwned, TypeOK, Before
<1>10. RowSound' /\ MovesCounted' /\ NotesCounted'
  BY <1>1, <1>5, WorkerAside DEF Inv, RowSound, Smoothly
<1>11. WritersKnow'
  BY <1>1, <1>5, WritersAside
<1>12. CopiesCounted'
  BY <1>5, NothingSent, SentCounted DEF Smoothly
<1>13. TopicsCounted'
  BY <1>1, <1>3, <1>5, <1>7, TopicsElsewhere
<1>14. Untouched'
  BY <1>1, <1>5 DEF Untouched
<1>15. OpenShown'
  BY <1>1, <1>3, <1>5, OpenBegun DEF Heeds
<1> QED
  BY <1>8, <1>9, <1>10, <1>11, <1>12, <1>13, <1>14, <1>15 DEF Inv

LEMMA TeamBegins ==
    ASSUME Inv, NEW a \in Team \cup {"panel"},
           \/ a \in Team /\ (Reply(a) \/ ReplyInOldTopic(a) \/ ThumbsUp(a) \/ Back(a))
           \/ a = "sup" /\ Call
           \/ a = "panel" /\ SendFromPanel
    PROVE  Inv'
<1>1. a \in Team => a # "panel"
  BY DEF Team
<1>2. CASE Reply(a)
  BY <1>2, BeginsStep, <1>1 DEF Reply
<1>3. CASE ReplyInOldTopic(a) \/ (a = "panel" /\ SendFromPanel)
  BY <1>3, BeginsStep, <1>1 DEF ReplyInOldTopic, SendFromPanel
<1>4. CASE a \in Team /\ ThumbsUp(a)
  BY <1>4, BeginsStep, <1>1 DEF ThumbsUp
<1>5. CASE a \in Team /\ Back(a)
  <2>1. thread.made
    BY <1>5, NoThreadIs DEF Back, Inv, RowSound
  <2> QED
    BY <1>5, <2>1, BeginsStep, <1>1 DEF Back
<1>6. CASE a = "sup" /\ Call
  BY <1>6, BeginsStep, <1>1 DEF Call
<1> QED
  BY <1>2, <1>3, <1>4, <1>5, <1>6

LEMMA DeliverStep ==
    ASSUME Inv, NEW a \in Team \cup {"panel"}, Deliver(a)
    PROVE  Inv'
<1>1. a \in Handlers /\ a \notin Writers /\ a # "worker" /\ run[a].pc = "ready" /\ run[a].act = "reply"
  BY HandlersAre, LocalsOf DEF Team, Deliver, At, Shape, TeamShape
<1>2. Goto(a, "status") /\ Smoothly /\ UNCHANGED <<world, thread, lock, legacy, records, topics, gone, crossed, letter, copies>>
  BY DEF Deliver
<1>3. PICK v \in Locals : /\ Moves(a, v) /\ v.pc = "status" /\ v.act = run[a].act /\ v.was = run[a].was
  BY <1>1, <1>2, GotoMoves
<1>4. SameRow /\ SameStatus /\ SameTopics
  BY <1>2 DEF SameRow, SameStatus, SameTopics, Smoothly, Inv, TypeOK
<1>5. open' \in {"no", "excused"} \/ (open' = open /\ open # "yes")
  BY DEF Deliver
<1>6. TypeOK'
  BY <1>2, <1>3, <1>5 DEF Moves, Inv, TypeOK, world, records, Smoothly
<1>7. /\ Shapes' /\ CallsOwned' /\ RowSound' /\ CreatorsKnow' /\ WritersKnow' /\ MovesCounted'
      /\ CopiesCounted' /\ NotesCounted'
  <2>1. Shape(a, v) /\ thread.made
    BY <1>1, <1>3, LocalsOf DEF Shape, TeamShape, Inv, CreatorsKnow, Before
  <2> QED
    BY <1>1, <1>2, <1>3, <1>4, <2>1, RowKept DEF records
<1>8. TopicsCounted'
  BY <1>1, <1>2, <1>3, <1>4, TopicsElsewhere
<1>9. Untouched'
  BY <1>1, <1>2, <1>3, <1>4, UntouchedKept DEF SameRow, world, records
<1>10. OpenShown'
  BY <1>5 DEF OpenShown
<1> QED
  BY <1>6, <1>7, <1>8, <1>9, <1>10 DEF Inv

LEMMA DeliveryFailsStep ==
    ASSUME Inv, NEW a \in Team \cup {"panel"}, DeliveryFails(a)
    PROVE  Inv'
<1>1. a \in Handlers /\ a \notin Writers /\ a # "worker" /\ run[a].pc = "ready"
  BY HandlersAre DEF Team, DeliveryFails, At
<1>2. Set(a, Idle) /\ Smoothly /\ UNCHANGED <<world, thread, lock, legacy, records, topics, gone, crossed, letter, copies, open>>
  BY DEF DeliveryFails
<1>3. Moves(a, Idle)
  BY <1>1, <1>2, IdleLocal, SetMoves
<1>4. SameRow /\ SameStatus /\ SameTopics
  BY <1>2 DEF SameRow, SameStatus, SameTopics, Smoothly, Inv, TypeOK
<1>5. TypeOK'
  BY <1>2, <1>3 DEF Moves, Inv, TypeOK, world, records, Smoothly
<1>6. /\ Shapes' /\ CallsOwned' /\ RowSound' /\ CreatorsKnow' /\ WritersKnow' /\ MovesCounted'
      /\ CopiesCounted' /\ NotesCounted'
  <2>1. Shape(a, Idle) /\ Idle.pc \in Before /\ Idle.pc # "insert"
    BY IdleLocal DEF Shape, Before
  <2> QED
    BY <1>1, <1>2, <1>3, <1>4, <2>1, IdleLocal, RowKept DEF records
<1>7. TopicsCounted'
  BY <1>1, <1>2, <1>3, <1>4, IdleLocal, TopicsElsewhere
<1>8. Untouched'
  BY <1>1, <1>2, <1>3, <1>4, IdleLocal, UntouchedKept DEF SameRow, world, records
<1>9. OpenShown'
  BY <1>1, <1>2, <1>3, <1>4, IdleLocal, OpenKept DEF SameRow, Heeds
<1> QED
  BY <1>5, <1>6, <1>7, <1>8, <1>9 DEF Inv

---------------------------------------------------------------------------
(* The status: applyStatus.                                                *)

LEMMA NextIs ==
    ASSUME NEW a, NEW s
    PROVE  /\ run[a].act \in {"ask", "move"} => NextStatus(a, s) = AfterQuestion(s)
           /\ run[a].act \in {"thank", "report"} => NextStatus(a, s) = Same(s)
           /\ run[a].act \in {"reply", "thumb"} => NextStatus(a, s) = AfterAnswer(s, IF a = "panel" THEN "sup" ELSE a)
           /\ run[a].act = "call" => NextStatus(a, s) = State("ESCALATED", "kuz")
           /\ run[a].act = "back" => NextStatus(a, s) = AfterBack(s)
           /\ run[a].act = "archive" => NextStatus(a, s) = State("ARCHIVED", "nobody")
           /\ run[a].act = "reactivate" =>
                NextStatus(a, s) = IF s.status = "ARCHIVED" THEN State("ANSWERED", "nobody") ELSE Same(s)
<1>1. ASSUME run[a].act \in {"ask", "move"} PROVE NextStatus(a, s) = AfterQuestion(s)
  BY <1>1 DEF NextStatus
<1>2. ASSUME run[a].act \in {"thank", "report"} PROVE NextStatus(a, s) = Same(s)
  BY <1>2 DEF NextStatus
<1>3. ASSUME run[a].act \in {"reply", "thumb"} PROVE NextStatus(a, s) = AfterAnswer(s, IF a = "panel" THEN "sup" ELSE a)
  BY <1>3 DEF NextStatus
<1>4. ASSUME run[a].act = "call" PROVE NextStatus(a, s) = State("ESCALATED", "kuz")
  BY <1>4 DEF NextStatus
<1>5. ASSUME run[a].act = "back" PROVE NextStatus(a, s) = AfterBack(s)
  BY <1>5 DEF NextStatus
<1>6. ASSUME run[a].act = "archive" PROVE NextStatus(a, s) = State("ARCHIVED", "nobody")
  BY <1>6 DEF NextStatus
<1>7. ASSUME run[a].act = "reactivate"
      PROVE  NextStatus(a, s) = IF s.status = "ARCHIVED" THEN State("ANSWERED", "nobody") ELSE Same(s)
  BY <1>7 DEF NextStatus
<1> QED
  BY <1>1, <1>2, <1>3, <1>4, <1>5, <1>6, <1>7

\* What the row shows after the act of handler a, by the thread it has read.
LEMMA AppliedIs ==
    ASSUME Inv, NEW a \in Handlers, thread.made, run[a].act # "none"
    PROVE  /\ Applied(a) \in ThreadType /\ Applied(a).made /\ Applied(a).topic = thread.topic
           /\ Applied(a).away = thread.away /\ Applied(a).asked = thread.asked
           /\ Applied(a).answered = thread.answered /\ Owned(Applied(a))
           /\ \/ Applied(a) = thread /\ NextStatus(a, run[a].was) = Same(run[a].was)
              \/ /\ NextStatus(a, run[a].was) # Same(run[a].was)
                 /\ Applied(a).status = NextStatus(a, run[a].was).status
                 /\ Applied(a).to = NextStatus(a, run[a].was).to
<1> DEFINE s == run[a].was
           n == NextStatus(a, s)
<1>1. /\ s \in ThreadType /\ thread \in ThreadType /\ Owned(thread)
      /\ run[a].act \in {"ask", "thank", "report", "reply", "thumb", "call", "back", "archive", "reactivate", "move"}
  BY LocalsOf DEF Inv, TypeOK, CallsOwned, Locals
<1>2. CASE n = Same(s)
  <2>1. Applied(a) = thread
    BY <1>2 DEF Applied
  <2> QED
    BY <1>1, <1>2, <2>1
<1>3. CASE n # Same(s)
  <2>1. n \in {State("WAITING", "nobody"), State("ANSWERED", "nobody"), State("ESCALATED", "kuz"), State("ARCHIVED", "nobody")}
    BY <1>1, <1>3, NextIs DEF AfterQuestion, AfterAnswer, AfterBack
  <2>2. n.status \in Statuses /\ n.to \in {"nobody", "kuz"} /\ (n.status = "ESCALATED" => n.to = "kuz")
    BY <2>1 DEF State, Statuses
  <2>3. Applied(a) = [thread EXCEPT !.status = n.status, !.to = n.to]
    BY <1>3 DEF Applied
  <2> HIDE DEF n
  <2>4. /\ Applied(a) \in ThreadType /\ Applied(a).made /\ Applied(a).topic = thread.topic
        /\ Applied(a).away = thread.away /\ Applied(a).asked = thread.asked
        /\ Applied(a).answered = thread.answered /\ Applied(a).status = n.status /\ Applied(a).to = n.to
    BY <1>1, <2>2, <2>3 DEF ThreadType
  <2> QED
    BY <1>3, <2>2, <2>4 DEF n, Owned
<1> QED
  BY <1>2, <1>3

\* Where a handler goes from the status.
LEMMA StatusMoves ==
    ASSUME Inv, NEW a \in Handlers, ApplyStatus(a)
    PROVE  \E v \in Locals :
             /\ Moves(a, v) /\ Shape(a, v) /\ v.was \in {run[a].was, NoThread}
             /\ \/ /\ a \in Writers /\ run[a].act \in {"ask", "thank"} /\ clock' = clock + 1
                   /\ v.pc = "settle" /\ v.now = clock + 1 /\ v.act = run[a].act
                \/ /\ a \in Writers /\ run[a].act = "report" /\ clock' = clock
                   /\ v.pc = "idle" /\ v.act = "none"
                \/ /\ a \notin Writers /\ run[a].act \in {"reply", "thumb", "call", "back", "archive", "reactivate"}
                   /\ (a = "worker" <=> run[a].act \in {"archive", "reactivate"})
                   /\ clock' = clock
                   /\ \/ run[a].act = "reply" /\ v.pc = "settle" /\ v.act = "reply"
                      \/ run[a].act = "archive" /\ v.pc = "away" /\ v.act = "archive"
                      \/ v.pc = "idle" /\ v.act = "none"
<1>1. /\ run[a] \in Locals /\ run[a].pc = "status" /\ clock \in Nat
      /\ Shape(a, run[a])
  BY LocalsOf DEF ApplyStatus, At, Inv, TypeOK
<1>2. CASE a \in Writers /\ run[a].act # "report"
  <2> DEFINE time == clock + 1
             v == [run[a] EXCEPT !.pc = "settle", !.now = time]
  <2>1. run[a].act \in {"ask", "thank"} /\ time \in Nat
    BY <1>1, <1>2 DEF Shape, WriterShape, ActOf
  <2>2. clock' = clock + 1 /\ Set(a, v)
    BY <2>1 DEF ApplyStatus
  <2>3. v \in Locals /\ v.pc = "settle" /\ v.now = clock + 1 /\ v.act = run[a].act /\ v.on = run[a].on /\ v.was = run[a].was
    <3> HIDE DEF time
    <3>1. v \in Locals /\ v.pc = "settle" /\ v.now = time /\ v.act = run[a].act /\ v.on = run[a].on /\ v.was = run[a].was
      BY <1>1, <2>1 DEF Locals
    <3> QED
      BY <3>1 DEF time
  <2> HIDE DEF v
  <2>4. Moves(a, v)
    BY <2>2, <2>3, SetMoves
  <2>5. Shape(a, v)
    BY <1>1, <1>2, <2>3, HandlersAre DEF Shape, WriterShape
  <2> QED
    BY <1>2, <2>1, <2>2, <2>3, <2>4, <2>5
<1>3. CASE a \notin Writers
  <2>1. /\ run[a].act \in {"reply", "thumb", "call", "back", "archive", "reactivate"}
        /\ (a = "worker" <=> run[a].act \in {"archive", "reactivate"})
    BY <1>1, <1>3, HandlersAre DEF Shape, TeamShape, WorkerShape, Ensuring
  <2>2. clock' = clock
    BY <2>1 DEF ApplyStatus
  <2>3. \/ run[a].act = "reply" /\ Goto(a, "settle")
        \/ run[a].act = "archive" /\ Goto(a, "away")
        \/ Set(a, Idle)
    BY <2>1 DEF ApplyStatus
  <2>4. CASE run[a].act = "reply" /\ Goto(a, "settle")
    <3>1. PICK v \in Locals : Moves(a, v) /\ v.pc = "settle" /\ v.act = run[a].act /\ v.was = run[a].was
      BY <2>4, GotoMoves
    <3>2. Shape(a, v)
      BY <1>1, <1>3, <2>1, <2>4, <3>1 DEF Shape, TeamShape
    <3> QED
      BY <1>3, <2>1, <2>2, <2>4, <3>1, <3>2
  <2>5. CASE run[a].act = "archive" /\ Goto(a, "away")
    <3>1. PICK v \in Locals : Moves(a, v) /\ v.pc = "away" /\ v.act = run[a].act /\ v.was = run[a].was
      BY <2>5, GotoMoves
    <3>2. Shape(a, v)
      BY <1>1, <1>3, <2>1, <2>5, <3>1 DEF Shape, WorkerShape
    <3> QED
      BY <1>3, <2>1, <2>2, <2>5, <3>1, <3>2
  <2>6. CASE Set(a, Idle)
    <3>1. Moves(a, Idle) /\ Shape(a, Idle)
      BY <2>6, IdleLocal, SetMoves DEF Shape
    <3> QED
      BY <1>3, <2>1, <2>2, <3>1, IdleLocal
  <2> QED
    BY <2>3, <2>4, <2>5, <2>6
<1>4. CASE a \in Writers /\ run[a].act = "report"
  <2>1. Set(a, Idle) /\ clock' = clock
    BY <1>4 DEF ApplyStatus
  <2>2. Moves(a, Idle) /\ Shape(a, Idle)
    BY <2>1, IdleLocal, SetMoves DEF Shape
  <2> QED
    BY <1>4, <2>1, <2>2, IdleLocal
<1> QED
  BY <1>2, <1>3, <1>4

LEMMA StatusStep ==
    ASSUME Inv, NEW a \in Handlers, ApplyStatus(a)
    PROVE  Inv'
<1> DEFINE s == run[a].was
<1>1. PICK v \in Locals :
             /\ Moves(a, v) /\ Shape(a, v) /\ v.was \in {run[a].was, NoThread}
             /\ \/ /\ a \in Writers /\ run[a].act \in {"ask", "thank"} /\ clock' = clock + 1
                   /\ v.pc = "settle" /\ v.now = clock + 1 /\ v.act = run[a].act
                \/ /\ a \in Writers /\ run[a].act = "report" /\ clock' = clock
                   /\ v.pc = "idle" /\ v.act = "none"
                \/ /\ a \notin Writers /\ run[a].act \in {"reply", "thumb", "call", "back", "archive", "reactivate"}
                   /\ (a = "worker" <=> run[a].act \in {"archive", "reactivate"})
                   /\ clock' = clock
                   /\ \/ run[a].act = "reply" /\ v.pc = "settle" /\ v.act = "reply"
                      \/ run[a].act = "archive" /\ v.pc = "away" /\ v.act = "archive"
                      \/ v.pc = "idle" /\ v.act = "none"
  BY StatusMoves
<1>2. /\ run[a].pc = "status" /\ thread.made /\ run[a].act # "none" /\ thread' = Applied(a) /\ Smoothly
      /\ UNCHANGED <<world, lock, legacy, turns, told, topics, gone, crossed, letter, copies>>
      /\ open' = (IF run[a].act = "thumb" /\ open = "yes" THEN "no" ELSE open)
  BY <1>1 DEF ApplyStatus, At, Inv, CreatorsKnow, Before
<1>3. /\ thread' \in ThreadType /\ thread'.made /\ thread'.topic = thread.topic
      /\ thread'.away = thread.away /\ thread'.asked = thread.asked
      /\ thread'.answered = thread.answered /\ Owned(thread')
      /\ \/ thread' = thread /\ NextStatus(a, s) = Same(s)
         \/ /\ NextStatus(a, s) # Same(s)
            /\ thread'.status = NextStatus(a, s).status
            /\ thread'.to = NextStatus(a, s).to
  BY <1>2, AppliedIs
<1>4. SameTopics /\ clock \in Nat /\ clock' \in Nat /\ clock' >= clock /\ Owned(v.was)
  BY <1>1, <1>2, <1>3, LocalsOf, NoThreadIs DEF SameTopics, Smoothly, Inv, TypeOK
\* A question waits, or is the owner's.
<1>5. run[a].act = "ask" =>
        \/ thread'.status = "WAITING"
        \/ thread' = thread /\ s.status \in Shown
  <2> SUFFICES ASSUME run[a].act = "ask"
               PROVE  thread'.status = "WAITING" \/ (thread' = thread /\ s.status \in Shown)
    OBVIOUS
  <2>1. NextStatus(a, s) = AfterQuestion(s)
    BY NextIs
  <2> HIDE DEF s
  <2> QED
    BY <1>3, <2>1 DEF AfterQuestion, State, Same, Shown
<1>6. run[a].act \in {"thank", "report"} => thread' = thread
  BY <1>3, NextIs
<1>7. TypeOK'
  <2>1. open' \in {"no", "yes", "excused"}
    BY <1>2 DEF Inv, TypeOK
  <2> QED
    BY <1>1, <1>2, <1>3, <1>4, <2>1 DEF Moves, Inv, TypeOK, world, Smoothly
<1>8. Shapes' /\ CallsOwned' /\ CreatorsKnow'
  BY <1>1, <1>2, <1>3, <1>4, LocalsKept DEF Inv, TypeOK
<1>9. RowSound'
  <2>1. thread.topic \in 1..topics /\ thread.answered <= clock /\ thread.answered \in Nat
    BY <1>2 DEF Inv, RowSound, TypeOK, ThreadType
  <2> QED
    BY <1>2, <1>3, <1>4, <2>1 DEF RowSound
<1>10. MovesCounted' /\ NotesCounted'
  BY <1>1, <1>2, HandlersAre DEF Moves, Inv, MovesCounted, NotesCounted, At, Smoothly
<1>11. WritersKnow'
  <2>1. v.pc # "move" /\ (a \in Writers => v.pc \notin Writing)
    BY <1>1 DEF Writing, Ensuring
  <2>2. \A w \in Writers : run'[w] = run[w] \/ (w = a /\ run'[w] = v /\ run'[w].pc \notin Writing)
    BY <1>1, <2>1, HandlersAre DEF Moves
  <2> QED
    BY <1>2, <1>3, <2>2, HandlersAre DEF WritersKnow, Fresh, At, Inv, Writing
<1>12. CopiesCounted'
  BY <1>2, NothingSent, SentCounted DEF Smoothly
<1>13. TopicsCounted'
  BY <1>1, <1>2, <1>4, TopicsElsewhere
<1>14. Untouched'
  <2> SUFFICES ASSUME turns = 0 PROVE Untouched'
    BY <1>2 DEF Untouched
  <2>1. /\ employed /\ ~thread.away /\ thread.status \in {"ANSWERED", "WAITING"}
        /\ \A b \in Handlers \ {"her", "album", "worker"} : run[b].pc = "idle"
        /\ run["worker"].act \in {"none", "move"}
        /\ \A b \in Handlers : /\ run[b].was.status \in {"ANSWERED", "WAITING"}
                               /\ run[b].was.status = "WAITING" => thread.status = "WAITING"
        /\ legacy.waits /\ (run["worker"].pc = "close" \/ (~legacy.open /\ "legacy" \in may)) => thread.status = "WAITING"
    BY DEF Inv, Untouched, At
  <2>2. a \in Writers
    BY <1>1, <1>2, <2>1, HandlersAre
  <2>3. thread'.status \in {"ANSWERED", "WAITING"} /\ (thread.status = "WAITING" => thread'.status = "WAITING")
    BY <1>1, <1>5, <1>6, <2>1, <2>2
  <2>4. /\ \A b \in Handlers \ {"her", "album", "worker"} : run'[b].pc = "idle"
        /\ run'["worker"] = run["worker"]
        /\ \A b \in Handlers : /\ run'[b].was.status \in {"ANSWERED", "WAITING"}
                               /\ run'[b].was.status = "WAITING" => thread.status = "WAITING"
    BY <1>1, <2>1, <2>2, HandlersAre, NoThreadIs DEF Moves
  <2> QED
    BY <1>2, <1>3, <2>1, <2>3, <2>4 DEF Untouched, At, world
<1>15. OpenShown'
  <2> SUFFICES ASSUME open' = "yes" PROVE OpenShown'
    BY DEF OpenShown
  <2>1. open = "yes" /\ run[a].act # "thumb"
    BY <1>2
  <2>2. CASE ~NobodyAsks
    <3>1. PICK w \in Writers : Asking(w)
      BY <2>2 DEF NobodyAsks
    <3>2. (\A b \in Others(w) : run[b].pc = "idle") /\ run[w].act = "ask"
      BY <2>1, <3>1 DEF Inv, OpenShown, Asking, At
    <3>3. a = w
      BY <1>2, <3>2 DEF Others
    <3>4. s.status = thread.status
      BY <1>2, <2>1, <3>1, <3>3 DEF Inv, OpenShown, At
    <3>5. thread'.status \in Shown
      BY <1>5, <3>2, <3>3, <3>4 DEF Shown
    <3>6. thread.answered <= clock /\ thread.answered \in Nat
      BY <1>2 DEF Inv, RowSound, TypeOK, ThreadType
    <3>7. v.now > thread'.answered /\ v.pc = "settle" /\ v.act = "ask"
      BY <1>1, <1>3, <1>4, <3>2, <3>3, <3>6
    <3>8. run'[w] = v /\ \A b \in Others(w) : run'[b].pc = "idle"
      BY <1>1, <3>2, <3>3 DEF Moves, Others
    <3>9. \A x \in Writers : x # w => ~Asking(x)'
      BY <3>8, HandlersAre DEF Others, Asking
    <3> QED
      BY <1>3, <3>5, <3>7, <3>8, <3>9 DEF OpenShown, NobodyAsks, Asking, At
  <2>3. CASE NobodyAsks
    <3>1. thread.status \in Shown /\ thread.asked > thread.answered /\ \A b \in Handlers \ Writers : Heeds(run[b])
      BY <2>1, <2>3 DEF Inv, OpenShown
    <3>2. CASE a \in Writers
      <4>1. run[a].act # "ask" /\ thread' = thread /\ v.act # "ask"
        BY <1>1, <1>2, <1>6, <2>3, <3>2 DEF NobodyAsks, Asking
      <4>2. NobodyAsks' /\ \A b \in Handlers \ Writers : run'[b] = run[b]
        BY <1>1, <2>3, <3>2, <4>1, HandlersAre DEF Moves, NobodyAsks, Asking
      <4> QED
        BY <1>2, <3>1, <4>1, <4>2 DEF OpenShown, NobodyAsks
    <3>3. CASE a \notin Writers
      <4>1. Heeds(run[a])
        BY <3>1, <3>3
      <4>2. /\ run[a].act \in {"call", "back", "reactivate"}
            /\ run[a].act = "back" => s.asked > s.answered
            /\ run[a].act = "reactivate" => s.status # "ARCHIVED"
        BY <1>1, <1>2, <2>1, <3>3, <4>1 DEF Heeds
      <4>3. NextStatus(a, s) \in {Same(s), State("ESCALATED", "kuz"), State("WAITING", "nobody")}
        BY <4>2, NextIs DEF AfterBack
      <4>4. thread'.status \in Shown
        BY <1>3, <3>1, <4>3 DEF State, Shown
      <4>5. NobodyAsks' /\ \A b \in Handlers \ Writers : Heeds(run'[b])
        BY <1>1, <2>3, <3>1, <3>3, <4>2, HandlersAre DEF Moves, NobodyAsks, Asking, Heeds
      <4> QED
        BY <1>3, <3>1, <4>4, <4>5 DEF OpenShown, NobodyAsks
    <3> QED
      BY <3>2, <3>3
  <2> QED
    BY <2>2, <2>3
<1> QED
  BY <1>7, <1>8, <1>9, <1>10, <1>11, <1>12, <1>13, <1>14, <1>15 DEF Inv

\* Her question is dated, or her answer.
LEMMA SettleStep ==
    ASSUME Inv, NEW a \in Handlers, Settle(a)
    PROVE  Inv'
<1>1. /\ run[a] \in Locals /\ run[a].pc = "settle" /\ thread.made /\ a # "worker"
      /\ IF a \in Writers THEN run[a].act \in {"ask", "thank"} ELSE run[a].act = "reply"
  BY LocalsOf, HandlersAre
  DEF Settle, At, Inv, CreatorsKnow, Before, Shape, WriterShape, ActOf, TeamShape, WorkerShape, Ensuring
<1>2. /\ Set(a, Idle) /\ Smoothly
      /\ UNCHANGED <<world, lock, legacy, turns, told, topics, gone, crossed, letter, copies, open>>
  BY DEF Settle
<1>3. thread \in ThreadType /\ clock \in Nat /\ run[a].now \in Nat /\ thread.answered <= clock /\ Owned(thread)
  BY <1>1 DEF Inv, TypeOK, RowSound, CallsOwned, Locals
<1>4. /\ thread' \in ThreadType /\ thread'.made /\ thread'.topic = thread.topic /\ thread'.status = thread.status
      /\ thread'.to = thread.to /\ thread'.away = thread.away /\ clock' \in Nat
      /\ \/ run[a].act = "reply" /\ clock' = clock + 1 /\ thread'.answered = clock + 1
         \/ /\ run[a].act = "ask" /\ clock' = clock /\ thread'.asked = run[a].now
            /\ thread'.answered = thread.answered
         \/ run[a].act = "thank" /\ clock' = clock /\ thread' = thread
  <2>1. CASE run[a].act = "reply"
    <3> DEFINE time == clock + 1
    <3>1. clock' = time /\ thread' = [thread EXCEPT !.answered = time] /\ time \in Nat
      BY <1>3, <2>1 DEF Settle
    <3> HIDE DEF time
    <3>2. thread' \in ThreadType /\ thread'.made /\ thread'.topic = thread.topic /\ thread'.status = thread.status
          /\ thread'.to = thread.to /\ thread'.away = thread.away /\ thread'.answered = time
      BY <1>1, <1>3, <3>1 DEF ThreadType
    <3> QED
      BY <2>1, <3>1, <3>2 DEF time
  <2>2. CASE run[a].act = "ask"
    <3>1. clock' = clock /\ thread' = [thread EXCEPT !.asked = run[a].now]
      BY <2>2 DEF Settle
    <3> QED
      BY <1>1, <1>3, <2>2, <3>1 DEF ThreadType
  <2>3. CASE run[a].act = "thank"
    BY <1>1, <1>3, <2>3 DEF Settle
  <2> QED
    BY <1>1, <2>1, <2>2, <2>3
<1>5. Moves(a, Idle)
  BY <1>2, IdleLocal, SetMoves
<1>6. SameStatus /\ SameTopics /\ Owned(thread') /\ Shape(a, Idle)
  BY <1>1, <1>2, <1>3, <1>4, IdleLocal DEF SameStatus, SameTopics, Owned, Smoothly, Shape
<1>7. TypeOK'
  BY <1>2, <1>4, <1>5 DEF Moves, Inv, TypeOK, world, Smoothly
<1>8. Shapes' /\ CallsOwned' /\ CreatorsKnow'
  BY <1>1, <1>2, <1>4, <1>5, <1>6, IdleLocal, NoThreadIs, LocalsKept DEF Before, Inv, TypeOK
<1>9. RowSound' /\ MovesCounted' /\ NotesCounted'
  <2>1. thread.topic \in 1..topics
    BY <1>1 DEF Inv, RowSound
  <2> QED
    BY <1>1, <1>2, <1>3, <1>4, <1>5, <2>1, WorkerAside DEF RowSound, Smoothly
<1>10. WritersKnow'
  <2>1. \A w \in Writers : run'[w] = run[w] \/ run'[w] = Idle
    BY <1>5, HandlersAre DEF Moves
  <2> QED
    BY <1>2, <1>4, <2>1, IdleLocal, HandlersAre DEF Inv, WritersKnow, Fresh, At, Writing, Ensuring
<1>11. CopiesCounted'
  BY <1>2, NothingSent, SentCounted DEF Smoothly
<1>12. TopicsCounted'
  BY <1>1, <1>2, <1>5, <1>6, IdleLocal, TopicsElsewhere
<1>13. Untouched'
  BY <1>1, <1>2, <1>4, <1>5, <1>6, IdleLocal, UntouchedKept DEF world
<1>14. OpenShown'
  <2> SUFFICES ASSUME open = "yes" PROVE OpenShown'
    BY <1>2 DEF OpenShown
  <2>1. CASE ~NobodyAsks
    <3>1. PICK w \in Writers : Asking(w)
      BY <2>1 DEF NobodyAsks
    <3>2. (\A b \in Others(w) : run[b].pc = "idle") /\ run[w].act = "ask"
      BY <3>1 DEF Inv, OpenShown, Asking, At
    <3>3. a = w
      BY <1>1, <3>2 DEF Others
    <3>4. thread.status \in Shown /\ run[w].now > thread.answered
      BY <1>1, <3>1, <3>3 DEF Inv, OpenShown, At
    <3>5. \A b \in Handlers : run'[b].pc = "idle"
      BY <1>5, <3>2, <3>3, IdleLocal DEF Moves, Others
    <3>6. NobodyAsks' /\ \A b \in Handlers : Heeds(run'[b])
      BY <3>5, HandlersAre DEF NobodyAsks, Asking, Heeds
    <3> QED
      BY <1>4, <3>2, <3>3, <3>4, <3>6 DEF OpenShown, NobodyAsks
  <2>2. CASE NobodyAsks
    <3>1. thread.status \in Shown /\ thread.asked > thread.answered /\ \A b \in Handlers \ Writers : Heeds(run[b])
      BY <2>2 DEF Inv, OpenShown
    <3>2. a \in Writers /\ run[a].act = "thank"
      BY <1>1, <2>2, <3>1 DEF Heeds, NobodyAsks, Asking
    <3>3. NobodyAsks' /\ \A b \in Handlers \ Writers : Heeds(run'[b])
      BY <1>5, <2>2, <3>1, <3>2, IdleLocal, HandlersAre DEF Moves, NobodyAsks, Asking
    <3> QED
      BY <1>4, <3>1, <3>2, <3>3 DEF OpenShown, NobodyAsks
  <2> QED
    BY <2>1, <2>2
<1> QED
  BY <1>7, <1>8, <1>9, <1>10, <1>11, <1>12, <1>13, <1>14 DEF Inv

\* What was to be noted is not, and a question of hers is excused.
LEMMA WriteFailsStep ==
    ASSUME Inv, NEW a \in Handlers, WriteFails(a)
    PROVE  Inv'
<1>1. /\ run[a].pc \in {"status", "settle"} /\ Set(a, Idle)
      /\ open' = (IF a \in Writers THEN Busy ELSE open)
      /\ trouble' \in [Troubles -> 0..MaxTrouble]
      /\ \A k \in {"unsure", "lapse", "crash"} : trouble'[k] = trouble[k]
      /\ UNCHANGED <<world, thread, lock, legacy, records, topics, gone, crossed, letter, copies>>
  BY TroubleIs DEF WriteFails, At, Troubles
<1>2. Moves(a, Idle) /\ Shape(a, Idle)
  BY <1>1, IdleLocal, SetMoves DEF Shape
<1>3. SameRow /\ SameStatus /\ SameTopics /\ Owned(thread)
  BY <1>1 DEF SameRow, SameStatus, SameTopics, Inv, TypeOK, CallsOwned
<1>4. TypeOK'
  <2>1. open' \in {"no", "yes", "excused"}
    BY <1>1 DEF Busy, Inv, TypeOK
  <2> QED
    BY <1>1, <1>2, <2>1 DEF Moves, Inv, TypeOK, world, records
<1>5. Shapes' /\ CallsOwned' /\ CreatorsKnow'
  BY <1>1, <1>2, <1>3, IdleLocal, NoThreadIs, LocalsKept DEF Before, Inv, TypeOK
<1>6. RowSound'
  BY <1>1 DEF Inv, RowSound, records
<1>7. WritersKnow'
  <2>1. \A w \in Writers : run'[w] = run[w] \/ run'[w] = Idle
    BY <1>2, HandlersAre DEF Moves
  <2> QED
    BY <1>1, <2>1, IdleLocal, HandlersAre DEF Inv, WritersKnow, Fresh, At, Writing, Ensuring
<1>8. MovesCounted' /\ NotesCounted'
  <2>1. run'["worker"] = run["worker"] \/ (run["worker"].pc # "noted" /\ run'["worker"] = Idle)
    BY <1>1, <1>2, HandlersAre DEF Moves
  <2> QED
    BY <1>1, <2>1, IdleLocal DEF Inv, MovesCounted, NotesCounted, At, records
<1>9. CopiesCounted'
  BY <1>1 DEF Inv, CopiesCounted
<1>10. TopicsCounted'
  BY <1>1, <1>2, <1>3, IdleLocal, TopicsElsewhere
<1>11. Untouched'
  BY <1>1, <1>2, <1>3, IdleLocal, UntouchedKept DEF SameRow, world, records
<1>12. OpenShown'
  <2>1. CASE a \in Writers
    <3>1. open' # "yes"
      BY <1>1, <2>1 DEF Busy
    <3> QED
      BY <3>1 DEF OpenShown
  <2>2. CASE a \notin Writers
    BY <1>1, <1>2, <1>3, <2>2, IdleLocal, OpenKept DEF SameRow, Heeds
  <2> QED
    BY <2>1, <2>2
<1> QED
  BY <1>4, <1>5, <1>6, <1>7, <1>8, <1>9, <1>10, <1>11, <1>12 DEF Inv

---------------------------------------------------------------------------
(* The worker.                                                             *)

\* The worker has begun with v, and the old conversation may be done with.
LEMMA WorksStep ==
    ASSUME Inv, NEW v \in Locals, Works(v), thread' = thread, run["worker"].pc = "idle", Shape("worker", v),
           v.was \in {thread, NoThread}, v.pc \in {"idle", "ensure", "away", "status"}, v.pc \notin Before => thread.made,
           v.act = "move" => legacy.failures < MaxFailures, turns = 0 => v.act \in {"none", "move"},
           thread.status \in Shown => Heeds(v),
           \/ legacy' = legacy
           \/ legacy' = [legacy EXCEPT !.done = TRUE]
    PROVE  Inv'
<1>1. "worker" \in Handlers /\ "worker" \notin Writers /\ Set("worker", v) /\ open' = Busy /\ Smoothly
      /\ UNCHANGED <<world, lock, records, topics, gone, crossed, letter, copies>>
  BY HandlersAre DEF Works
<1>2. Moves("worker", v)
  BY <1>1, SetMoves
<1>3. /\ legacy' \in [open : BOOLEAN, waits : BOOLEAN, noted : BOOLEAN, done : BOOLEAN, failures : 0..MaxFailures]
      /\ legacy'.open = legacy.open /\ legacy'.waits = legacy.waits /\ legacy'.noted = legacy.noted
      /\ legacy'.failures = legacy.failures
  BY DEF Inv, TypeOK
<1>4. SameStatus /\ SameTopics /\ Owned(thread) /\ Owned(v.was)
  BY <1>1, NoThreadIs DEF SameStatus, SameTopics, Smoothly, Inv, TypeOK, CallsOwned
<1>5. TypeOK'
  <2>1. open' \in {"no", "yes", "excused"}
    BY <1>1 DEF Busy, Inv, TypeOK
  <2> QED
    BY <1>1, <1>2, <1>3, <2>1 DEF Moves, Inv, TypeOK, world, records, Smoothly
<1>6. Shapes' /\ CallsOwned' /\ CreatorsKnow'
  BY <1>1, <1>2, <1>4, LocalsKept DEF Inv, TypeOK
<1>7. RowSound' /\ WritersKnow'
  BY <1>1, <1>2, WritersAside DEF Inv, RowSound, records
<1>8. MovesCounted' /\ NotesCounted'
  BY <1>1, <1>2, <1>3 DEF Moves, Inv, MovesCounted, NotesCounted, At, records, Smoothly
<1>9. CopiesCounted'
  BY <1>1, NothingSent, SentCounted DEF Smoothly
<1>10. TopicsCounted'
  BY <1>1, <1>2, <1>4, TopicsElsewhere
<1>11. Untouched'
  <2>1. CASE turns = 0
    BY <1>1, <1>2, <1>3, <1>4, <2>1, UntouchedKept DEF world, records
  <2>2. CASE turns # 0
    BY <1>1, <2>2 DEF Untouched, records
  <2> QED
    BY <2>1, <2>2
<1>12. OpenShown'
  BY <1>1, <1>2, OpenBegun
<1> QED
  BY <1>5, <1>6, <1>7, <1>8, <1>9, <1>10, <1>11, <1>12 DEF Inv

LEMMA DailyPassStep ==
    ASSUME Inv, DailyPass
    PROVE  Inv'
<1> DEFINE v(act, pc) == [Idle EXCEPT !.pc = pc, !.act = act, !.was = thread]
<1>1. run["worker"].pc = "idle" /\ thread.made /\ legacy' = legacy /\ thread' = thread /\ thread \in ThreadType
  BY DEF DailyPass, At, Inv, TypeOK
<1>2. ~(turns = 0 /\ (~employed \/ thread.away \/ thread.status = "ARCHIVED"))
  BY DEF Inv, Untouched
<1>3. \A act \in {"archive", "reactivate"}, pc \in {"away", "status"} :
         v(act, pc) \in Locals /\ v(act, pc).pc = pc /\ v(act, pc).act = act /\ v(act, pc).was = thread
  BY <1>1, ZenonT(30) DEF Idle, Locals
<1>4. PICK act \in {"archive", "reactivate"}, pc \in {"away", "status"} :
         /\ Works(v(act, pc)) /\ (~employed \/ thread.away \/ thread.status = "ARCHIVED")
         /\ pc = "status" => act = "archive" /\ thread.status \notin Shown
  BY DEF DailyPass, Shown
<1>5. v(act, pc) \in Locals /\ v(act, pc).pc = pc /\ v(act, pc).act = act /\ v(act, pc).was = thread
  BY <1>3
<1> HIDE DEF v
<1>6. Shape("worker", v(act, pc)) /\ (thread.status \in Shown => Heeds(v(act, pc)))
  BY <1>4, <1>5, HandlersAre DEF Shape, WorkerShape, Heeds
<1> QED
  BY <1>1, <1>2, <1>4, <1>5, <1>6, WorksStep

LEMMA StartMoveStep ==
    ASSUME Inv, StartMove
    PROVE  Inv'
<1> DEFINE v == [Idle EXCEPT !.pc = "ensure", !.act = "move"]
<1>1. run["worker"].pc = "idle" /\ thread' = thread
  BY DEF StartMove, At
<1>2. v \in Locals /\ v.pc = "ensure" /\ v.act = "move" /\ v.was = NoThread
  BY NoThreadIs DEF Idle, Locals
<1>3. \/ legacy.failures < MaxFailures /\ Works(v) /\ legacy' = legacy
      \/ Works(Idle) /\ legacy' = [legacy EXCEPT !.done = TRUE]
  BY DEF StartMove
<1> HIDE DEF v
<1>4. Shape("worker", v) /\ Heeds(v) /\ Shape("worker", Idle) /\ Heeds(Idle)
  BY <1>2, IdleLocal, HandlersAre DEF Shape, WorkerShape, Heeds, Ensuring
<1> QED
  BY <1>1, <1>2, <1>3, <1>4, IdleLocal, WorksStep DEF Before

LEMMA MarkAwayStep ==
    ASSUME Inv, MarkAway
    PROVE  Inv'
<1> DEFINE back == run["worker"].act = "reactivate"
<1>1. /\ "worker" \in Handlers /\ run["worker"].pc = "away" /\ run["worker"].act \in {"archive", "reactivate"} /\ thread.made
  BY HandlersAre, LocalsOf DEF MarkAway, At, Shape, WorkerShape, Ensuring, Inv, CreatorsKnow, Before
<1>2. Smoothly /\ UNCHANGED <<world, lock, legacy, records, topics, gone, crossed, letter, copies, open>>
  BY DEF MarkAway
<1>3. /\ thread' \in ThreadType /\ thread'.made /\ thread'.topic = thread.topic /\ thread'.status = thread.status
      /\ thread'.to = thread.to /\ thread'.asked = thread.asked /\ thread'.answered = thread.answered
  <2>1. thread' = [thread EXCEPT !.away = ~back] /\ thread \in ThreadType /\ (~back) \in BOOLEAN
    BY DEF MarkAway, Inv, TypeOK
  <2> HIDE DEF back
  <2> QED
    BY <1>1, <2>1 DEF ThreadType
<1>4. PICK v \in Locals :
         /\ Moves("worker", v) /\ Shape("worker", v)
         /\ \/ v.pc = "idle" /\ v.act = "none" /\ v.was = NoThread
            \/ v.pc = "status" /\ v.act = "reactivate" /\ v.was = thread'
  <2>1. CASE back
    <3>1. Has("worker", thread', "status")
      BY <2>1 DEF MarkAway
    <3>2. PICK v \in Locals : Moves("worker", v) /\ v.pc = "status" /\ v.act = run["worker"].act /\ v.was = thread'
      BY <1>1, <1>3, <3>1, HasMoves
    <3>3. Shape("worker", v)
      BY <2>1, <3>2, HandlersAre DEF Shape, WorkerShape
    <3> QED
      BY <2>1, <3>2, <3>3
  <2>2. CASE ~back
    BY <1>1, <2>2, IdleLocal, SetMoves DEF MarkAway, Shape
  <2> QED
    BY <2>1, <2>2
<1>5. SameStatus /\ SameTopics /\ Owned(thread') /\ Owned(v.was)
  BY <1>1, <1>2, <1>3, <1>4, NoThreadIs DEF SameStatus, SameTopics, Smoothly, Owned, Inv, CallsOwned
<1>6. TypeOK'
  BY <1>2, <1>3, <1>4 DEF Moves, Inv, TypeOK, world, records, Smoothly
<1>7. Shapes' /\ CallsOwned' /\ CreatorsKnow'
  BY <1>1, <1>2, <1>3, <1>4, <1>5, LocalsKept DEF Before, Inv, TypeOK
<1>8. RowSound' /\ WritersKnow'
  BY <1>1, <1>2, <1>3, <1>4, HandlersAre, WritersAside DEF Inv, RowSound, records
<1>9. MovesCounted' /\ NotesCounted'
  BY <1>1, <1>2, <1>4 DEF Moves, Inv, MovesCounted, NotesCounted, At, records, Smoothly
<1>10. CopiesCounted'
  BY <1>2, NothingSent, SentCounted DEF Smoothly
<1>11. TopicsCounted'
  BY <1>1, <1>2, <1>4, <1>5, TopicsElsewhere
<1>12. Untouched'
  BY <1>1, <1>2 DEF Inv, Untouched, records
<1>13. OpenShown'
  BY <1>1, <1>2, <1>3, <1>4, <1>5, HandlersAre, OpenKept DEF Heeds, Shown
<1> QED
  BY <1>6, <1>7, <1>8, <1>9, <1>10, <1>11, <1>12, <1>13 DEF Inv

\* A step of the move from place to place, with the old conversation at most noted.
LEMMA MoveGoesOn ==
    ASSUME Inv, run["worker"].pc \in {"notes", "noted"}, NEW pc \in {"noted", "carry"}, Goto("worker", pc), Smoothly,
           legacy' \in [open : BOOLEAN, waits : BOOLEAN, noted : BOOLEAN, done : BOOLEAN, failures : 0..MaxFailures],
           legacy'.open = legacy.open, legacy'.waits = legacy.waits, legacy'.failures = legacy.failures,
           told' \in Nat, told' <= trouble["crash"] + (IF legacy'.noted \/ pc = "noted" THEN 1 ELSE 0),
           UNCHANGED <<world, thread, lock, clock, turns, topics, gone, crossed, letter, copies, open>>
    PROVE  Inv'
<1>1. "worker" \in Handlers /\ run["worker"].act = "move" /\ thread.made
  BY HandlersAre, LocalsOf DEF Shape, WorkerShape, Ensuring, Inv, CreatorsKnow, Before
<1>2. PICK v \in Locals : Moves("worker", v) /\ v.pc = pc /\ v.act = run["worker"].act /\ v.was = run["worker"].was
  BY <1>1, GotoMoves
<1>3. SameRow /\ SameStatus /\ SameTopics /\ Shape("worker", v)
  BY <1>1, <1>2, HandlersAre DEF SameRow, SameStatus, SameTopics, Smoothly, Inv, TypeOK, Shape, WorkerShape
<1>4. TypeOK'
  BY <1>2 DEF Moves, Inv, TypeOK, world, Smoothly
<1>5. Shapes' /\ CallsOwned' /\ CreatorsKnow'
  BY <1>1, <1>2, <1>3, LocalsOf, LocalsKept DEF Inv, TypeOK, CallsOwned
<1>6. RowSound' /\ WritersKnow'
  BY <1>1, <1>2, HandlersAre, WritersAside DEF Inv, RowSound
<1>7. MovesCounted' /\ NotesCounted'
  BY <1>1, <1>2 DEF Moves, Inv, MovesCounted, NotesCounted, At, Smoothly
<1>8. CopiesCounted'
  BY NothingSent, SentCounted DEF Smoothly
<1>9. TopicsCounted'
  BY <1>1, <1>2, <1>3, TopicsElsewhere
<1>10. Untouched'
  BY <1>1, <1>2, <1>3, UntouchedKept DEF SameRow, world
<1>11. OpenShown'
  BY <1>1, <1>2, <1>3, HandlersAre, OpenKept DEF SameRow, Heeds
<1> QED
  BY <1>4, <1>5, <1>6, <1>7, <1>8, <1>9, <1>10, <1>11 DEF Inv

LEMMA SendNotesStep ==
    ASSUME Inv, SendNotes
    PROVE  Inv'
<1>1. /\ run["worker"].pc = "notes" /\ told' = told + (IF legacy.noted THEN 0 ELSE 1) /\ legacy' = legacy
      /\ told \in Nat /\ trouble["crash"] \in Nat
      /\ told <= trouble["crash"] + (IF legacy.noted THEN 1 ELSE 0)
  BY Numbers DEF SendNotes, At, Inv, TypeOK, NotesCounted
<1> QED
  BY <1>1, MoveGoesOn DEF SendNotes, Inv, TypeOK

LEMMA MarkNotedStep ==
    ASSUME Inv, MarkNoted
    PROVE  Inv'
<1>1. /\ run["worker"].pc = "noted" /\ told' = told /\ told \in Nat /\ told <= trouble["crash"] + 1
  BY DEF MarkNoted, At, Inv, TypeOK, NotesCounted, records
<1>2. /\ legacy' \in [open : BOOLEAN, waits : BOOLEAN, noted : BOOLEAN, done : BOOLEAN, failures : 0..MaxFailures]
      /\ legacy'.open = legacy.open /\ legacy'.waits = legacy.waits /\ legacy'.failures = legacy.failures /\ legacy'.noted
  BY DEF MarkNoted, Inv, TypeOK
<1> QED
  BY <1>1, <1>2, MoveGoesOn DEF MarkNoted, records

\* Whoever waited waits in the thread, and whoever waits there goes on waiting.
LEMMA CarryStep ==
    ASSUME Inv, CarryWaiting
    PROVE  Inv'
<1> DEFINE s == run["worker"].was
<1>1. /\ "worker" \in Handlers /\ run["worker"].pc = "carry" /\ run["worker"].act = "move" /\ thread.made
      /\ Shape("worker", run["worker"])
  BY HandlersAre, LocalsOf DEF CarryWaiting, At, Shape, WorkerShape, Ensuring, Inv, CreatorsKnow, Before
<1>2. /\ Goto("worker", "close") /\ Smoothly /\ thread' = (IF legacy.waits THEN Applied("worker") ELSE thread)
      /\ UNCHANGED <<world, lock, legacy, records, topics, gone, crossed, letter, copies, open>>
  BY DEF CarryWaiting
<1>3. PICK v \in Locals : Moves("worker", v) /\ v.pc = "close" /\ v.act = "move" /\ v.was = s
  BY <1>1, <1>2, GotoMoves
<1>4. NextStatus("worker", s) = IF s.status = "ESCALATED" THEN Same(s) ELSE State("WAITING", "nobody")
  BY <1>1, NextIs DEF AfterQuestion
<1>5. /\ thread' \in ThreadType /\ thread'.made /\ thread'.topic = thread.topic /\ thread'.away = thread.away
      /\ thread'.asked = thread.asked /\ thread'.answered = thread.answered /\ Owned(thread')
      /\ thread' = thread \/ thread'.status = "WAITING"
      /\ legacy.waits /\ s.status # "ESCALATED" => thread'.status = "WAITING" \/ (thread' = thread /\ s.status = "WAITING")
  <2>1. CASE legacy.waits
    BY <1>1, <1>2, <1>4, <2>1, AppliedIs DEF State, Same
  <2>2. CASE ~legacy.waits
    BY <1>1, <1>2, <2>2 DEF Inv, TypeOK, CallsOwned
  <2> QED
    BY <2>1, <2>2
<1>6. SameTopics /\ Owned(v.was) /\ Shape("worker", v)
  BY <1>1, <1>2, <1>3, <1>5, LocalsOf, HandlersAre DEF SameTopics, Smoothly, Shape, WorkerShape
<1>7. TypeOK'
  BY <1>2, <1>3, <1>5 DEF Moves, Inv, TypeOK, world, records, Smoothly
<1>8. Shapes' /\ CallsOwned' /\ CreatorsKnow'
  BY <1>1, <1>2, <1>3, <1>5, <1>6, LocalsKept DEF Inv, TypeOK
<1>9. RowSound' /\ WritersKnow'
  BY <1>1, <1>2, <1>3, <1>5, HandlersAre, WritersAside DEF Inv, RowSound, records
<1>10. MovesCounted' /\ NotesCounted'
  BY <1>1, <1>2, <1>3 DEF Moves, Inv, MovesCounted, NotesCounted, At, records, Smoothly
<1>11. CopiesCounted'
  BY <1>2, NothingSent, SentCounted DEF Smoothly
<1>12. TopicsCounted'
  BY <1>1, <1>2, <1>3, <1>6, TopicsElsewhere
<1>13. Untouched'
  <2> SUFFICES ASSUME turns = 0 PROVE Untouched'
    BY <1>2 DEF Untouched, records
  <2>1. /\ employed /\ ~thread.away /\ thread.status \in {"ANSWERED", "WAITING"}
        /\ \A b \in Handlers \ {"her", "album", "worker"} : run[b].pc = "idle"
        /\ \A b \in Handlers : /\ run[b].was.status \in {"ANSWERED", "WAITING"}
                               /\ run[b].was.status = "WAITING" => thread.status = "WAITING"
        /\ legacy.waits /\ ~legacy.open /\ "legacy" \in may => thread.status = "WAITING"
    BY DEF Inv, Untouched, At
  <2>2. /\ thread'.status \in {"ANSWERED", "WAITING"} /\ (thread.status = "WAITING" => thread'.status = "WAITING")
        /\ legacy.waits => thread'.status = "WAITING"
    BY <1>1, <1>5, <2>1
  <2>3. /\ \A b \in Handlers \ {"her", "album", "worker"} : run'[b].pc = "idle"
        /\ run'["worker"].act = "move"
        /\ \A b \in Handlers : run'[b].was = run[b].was
    BY <1>3, <2>1 DEF Moves
  <2> QED
    BY <1>2, <1>5, <2>1, <2>2, <2>3 DEF Untouched, At, world
<1>14. OpenShown'
  <2> SUFFICES ASSUME open = "yes" PROVE OpenShown'
    BY <1>2 DEF OpenShown
  <2>1. NobodyAsks
    BY <1>1, HandlersAre DEF Inv, OpenShown, NobodyAsks, Others, At
  <2>2. thread.status \in Shown /\ thread.asked > thread.answered /\ \A b \in Handlers \ Writers : Heeds(run[b])
    BY <2>1 DEF Inv, OpenShown
  <2>3. thread'.status \in Shown
    BY <1>5, <2>2 DEF Shown
  <2>4. NobodyAsks' /\ \A b \in Handlers \ Writers : Heeds(run'[b])
    BY <1>3, <2>1, <2>2, HandlersAre DEF Moves, NobodyAsks, Asking, Heeds
  <2> QED
    BY <1>5, <2>2, <2>3, <2>4 DEF OpenShown, NobodyAsks
<1> QED
  BY <1>7, <1>8, <1>9, <1>10, <1>11, <1>12, <1>13, <1>14 DEF Inv

LEMMA MoveFailsStep ==
    ASSUME Inv, MoveFails
    PROVE  Inv'
<1>1. "worker" \in Handlers /\ run["worker"].pc \in {"carry", "close"} /\ GivesUp("worker") /\ Smoothly
      /\ UNCHANGED <<world, thread, lock, records, topics, gone, crossed, copies, open>>
  BY HandlersAre DEF MoveFails, At
<1>2. Moves("worker", Idle) /\ SameTopics
  BY <1>1, IdleLocal, SetMoves DEF GivesUp, SameTopics, Smoothly
<1>3. TopicsCounted'
  BY <1>1, <1>2, IdleLocal, TopicsElsewhere
<1>4. lock' \in Handlers \cup {"free", "dead"}
  BY <1>1 DEF Inv, TypeOK
<1> QED
  BY <1>1, <1>3, <1>4, GivesUpStep, NothingSent DEF Smoothly

LEMMA CloseLegacyStep ==
    ASSUME Inv, CloseLegacy
    PROVE  Inv'
<1>1. "worker" \in Handlers /\ run["worker"].pc = "close"
  BY HandlersAre DEF CloseLegacy, At
<1>2. /\ legacy' \in [open : BOOLEAN, waits : BOOLEAN, noted : BOOLEAN, done : BOOLEAN, failures : 0..MaxFailures]
      /\ legacy'.waits = legacy.waits /\ legacy'.noted = legacy.noted /\ legacy'.failures = legacy.failures
  BY DEF CloseLegacy, Inv, TypeOK
<1>3. Set("worker", Idle) /\ Smoothly
      /\ UNCHANGED <<world, thread, lock, records, topics, gone, crossed, letter, copies, open>>
  BY DEF CloseLegacy
<1>4. Moves("worker", Idle)
  BY <1>1, <1>3, IdleLocal, SetMoves
<1>5. SameRow /\ SameStatus /\ SameTopics /\ Shape("worker", Idle)
  BY <1>3, IdleLocal DEF SameRow, SameStatus, SameTopics, Smoothly, Inv, TypeOK, Shape
<1>6. TypeOK'
  BY <1>2, <1>3, <1>4 DEF Moves, Inv, TypeOK, world, records, Smoothly
<1>7. Shapes' /\ CallsOwned' /\ CreatorsKnow'
  BY <1>1, <1>3, <1>4, <1>5, IdleLocal, NoThreadIs, LocalsKept DEF Before, Inv, TypeOK, CallsOwned
<1>8. RowSound' /\ WritersKnow'
  BY <1>1, <1>3, <1>4, HandlersAre, WritersAside DEF Inv, RowSound, records
<1>9. MovesCounted' /\ NotesCounted'
  BY <1>1, <1>2, <1>3, <1>4, IdleLocal DEF Moves, Inv, MovesCounted, NotesCounted, At, records, Smoothly
<1>10. CopiesCounted'
  BY <1>3, NothingSent, SentCounted DEF Smoothly
<1>11. TopicsCounted'
  BY <1>1, <1>3, <1>4, <1>5, IdleLocal, TopicsElsewhere
<1>12. Untouched'
  <2> SUFFICES ASSUME turns = 0 PROVE Untouched'
    BY <1>3 DEF Untouched, records
  <2>1. /\ employed /\ ~thread.away /\ thread.status \in {"ANSWERED", "WAITING"}
        /\ \A b \in Handlers \ {"her", "album", "worker"} : run[b].pc = "idle"
        /\ \A b \in Handlers : /\ run[b].was.status \in {"ANSWERED", "WAITING"}
                               /\ run[b].was.status = "WAITING" => thread.status = "WAITING"
        /\ legacy.waits => thread.status = "WAITING"
    BY <1>1 DEF Inv, Untouched, At
  <2>2. /\ \A b \in Handlers \ {"her", "album", "worker"} : run'[b].pc = "idle"
        /\ run'["worker"].act = "none"
        /\ \A b \in Handlers : run'[b].was = run[b].was \/ run'[b].was = NoThread
    BY <1>4, <2>1, IdleLocal DEF Moves
  <2> QED
    BY <1>2, <1>3, <2>1, <2>2, NoThreadIs DEF Untouched, At, world
<1>13. OpenShown'
  BY <1>1, <1>3, <1>4, <1>5, IdleLocal, HandlersAre, OpenKept DEF SameRow, Heeds
<1> QED
  BY <1>6, <1>7, <1>8, <1>9, <1>10, <1>11, <1>12, <1>13 DEF Inv
---------------------------------------------------------------------------
(* Other events.                                                           *)

LEMMA EmploymentStep ==
    ASSUME Inv, Employment
    PROVE  Inv'
<1>1. /\ employed' \in BOOLEAN /\ turns \in Nat /\ turns' = turns + 1 /\ turns' \in 0..MaxTurns /\ Smoothly
      /\ UNCHANGED <<may, thread, lock, legacy, run, clock, topics, gone, crossed, letter, copies, open, told>>
  BY SupportThreadAssumption DEF Employment, Inv, TypeOK
<1>2. TypeOK' /\ Untouched'
  BY <1>1 DEF Inv, TypeOK, Untouched, Smoothly
<1>3. Shapes' /\ CallsOwned' /\ RowSound' /\ CreatorsKnow' /\ WritersKnow' /\ MovesCounted'
  BY <1>1 DEF Inv, Shapes, CallsOwned, RowSound, CreatorsKnow, WritersKnow, Fresh, MovesCounted, At
<1>4. CopiesCounted' /\ TopicsCounted' /\ NotesCounted'
  BY <1>1 DEF Inv, CopiesCounted, TopicsCounted, NotesCounted, Holds, Moving, At, Smoothly
<1>5. OpenShown'
  BY <1>1 DEF Inv, OpenShown, NobodyAsks, Asking, At
<1> QED
  BY <1>2, <1>3, <1>4, <1>5 DEF Inv

\* The topic of the row is deleted, which may be replaced by one more.
LEMMA DeleteTopicStep ==
    ASSUME Inv, DeleteTopic
    PROVE  Inv'
<1>1. /\ turns \in Nat /\ turns' = turns + 1 /\ turns' \in 0..MaxTurns /\ Smoothly
      /\ thread.made /\ thread.topic \in 1..topics /\ thread.topic \notin gone /\ gone' = gone \cup {thread.topic}
      /\ UNCHANGED <<world, thread, lock, legacy, run, clock, topics, crossed, letter, copies, open, told>>
  BY SupportThreadAssumption DEF DeleteTopic, Alive, Inv, TypeOK
<1>2. Moving' <=> Moving
  BY <1>1 DEF Moving, At
<1>3. TypeOK' /\ Untouched'
  <2>1. gone' \subseteq 1..topics
    BY <1>1 DEF Inv, TypeOK
  <2>2. TypeOK'
    BY <1>1, <2>1 DEF Inv, TypeOK, Smoothly, world
  <2> QED
    BY <1>1, <2>2 DEF Untouched
<1>4. Shapes' /\ CallsOwned' /\ RowSound' /\ CreatorsKnow' /\ MovesCounted'
  BY <1>1 DEF Inv, Shapes, CallsOwned, RowSound, CreatorsKnow, MovesCounted, At
<1>5. WritersKnow'
  <2>1. \A w \in Writers : At(w, "move") => Fresh(w)'
    BY <1>1 DEF Inv, WritersKnow, Fresh
  <2> QED
    BY <1>1, <2>1 DEF Inv, WritersKnow, At
<1>6. CopiesCounted' /\ NotesCounted'
  BY <1>1 DEF Inv, CopiesCounted, NotesCounted, At, Smoothly
<1>7. TopicsCounted'
  <2>1. IsFiniteSet(gone) /\ Cardinality(gone) \in Nat /\ Cardinality(gone') = Cardinality(gone) + 1
    BY <1>1, Numbers, FS_AddElement DEF Inv
  <2>2. topics + Count(run, {"create"}) <= Cardinality(gone) + crossed + trouble["lapse"] + trouble["crash"] + 1
    BY <1>1 DEF Inv, TopicsCounted
  <2>3. Count(run, {"create"}) \in Nat
    BY Counts
  <2>4. topics + Count(run, {"create"}) <= Cardinality(gone') + crossed + trouble["lapse"] + trouble["crash"] + 0
    BY <2>1, <2>2, <2>3, Numbers DEF Inv
  <2>5. topics + Count(run, {"create"}) <= Cardinality(gone') + crossed + trouble["lapse"] + trouble["crash"]
            + (IF thread.topic \in gone' /\ ~Moving THEN 0 ELSE 1)
    <3>1. Cardinality(gone') \in Nat /\ crossed \in Nat /\ trouble["lapse"] \in Nat /\ trouble["crash"] \in Nat
          /\ topics \in Nat
      BY <2>1, Numbers DEF Inv
    <3> QED
      BY <2>3, <2>4, <3>1
  <2> QED
    BY <1>1, <1>2, <2>5 DEF TopicsCounted, Smoothly
<1>8. OpenShown'
  BY <1>1 DEF Inv, OpenShown, NobodyAsks, Asking, At
<1> QED
  BY <1>3, <1>4, <1>5, <1>6, <1>7, <1>8 DEF Inv

\* Whoever held the lock may create a topic besides the next.
LEMMA LockExpiresStep ==
    ASSUME Inv, LockExpires
    PROVE  Inv'
<1>1. /\ lock' = "free" /\ UNCHANGED <<world, thread, legacy, run, records, topics, gone, crossed, letter, copies, open>>
      /\ trouble' \in [Troubles -> 0..MaxTrouble] /\ trouble'["lapse"] = trouble["lapse"] + 1
      /\ trouble'["unsure"] = trouble["unsure"] /\ trouble'["crash"] = trouble["crash"]
  BY TroubleIs DEF LockExpires, Troubles
<1>2. TypeOK'
  BY <1>1 DEF Inv, TypeOK, world, records
<1>3. Shapes' /\ CallsOwned' /\ RowSound' /\ CreatorsKnow' /\ WritersKnow' /\ MovesCounted'
  BY <1>1 DEF Inv, Shapes, CallsOwned, RowSound, CreatorsKnow, WritersKnow, Fresh, MovesCounted, At, records
<1>4. CopiesCounted' /\ NotesCounted'
  BY <1>1 DEF Inv, CopiesCounted, NotesCounted, At, records
<1>5. TopicsCounted'
  <2>1. ~Holds' /\ (Moving' <=> Moving)
    BY <1>1, HandlersAre DEF Holds, Moving, At
  <2>2. Count(run, {"create"}) \in Nat /\ Count(run, {"again", "create"}) \in Nat
    BY Counts
  <2>3. CASE thread.made
    BY <1>1, <2>1, <2>2, <2>3, Numbers DEF Inv, TopicsCounted
  <2>4. CASE ~thread.made
    BY <1>1, <2>1, <2>2, <2>4, Numbers DEF Inv, TopicsCounted
  <2> QED
    BY <2>3, <2>4
<1>6. Untouched' /\ OpenShown'
  BY <1>1 DEF Inv, Untouched, OpenShown, NobodyAsks, Asking, At, world, records
<1> QED
  BY <1>2, <1>3, <1>4, <1>5, <1>6 DEF Inv

LEMMA DeadLockExpiresStep ==
    ASSUME Inv, DeadLockExpires
    PROVE  Inv'
<1>1. /\ lock = "dead" /\ lock' = "free" /\ Smoothly
      /\ UNCHANGED <<world, thread, legacy, run, records, topics, gone, crossed, letter, copies, open>>
  BY DEF DeadLockExpires
<1>2. TypeOK'
  BY <1>1 DEF Inv, TypeOK, world, records, Smoothly
<1>3. Shapes' /\ CallsOwned' /\ RowSound' /\ CreatorsKnow' /\ WritersKnow' /\ MovesCounted'
  BY <1>1 DEF Inv, Shapes, CallsOwned, RowSound, CreatorsKnow, WritersKnow, Fresh, MovesCounted, At, records
<1>4. CopiesCounted' /\ NotesCounted'
  BY <1>1 DEF Inv, CopiesCounted, NotesCounted, At, records, Smoothly
<1>5. TopicsCounted'
  <2>1. ~Holds /\ ~Holds'
    BY <1>1, HandlersAre DEF Holds
  <2> QED
    BY <1>1, <2>1 DEF Inv, TopicsCounted, Moving, At, Smoothly
<1>6. Untouched' /\ OpenShown'
  BY <1>1 DEF Inv, Untouched, OpenShown, NobodyAsks, Asking, At, world, records
<1> QED
  BY <1>2, <1>3, <1>4, <1>5, <1>6 DEF Inv

\* All forget what they were about; the topic of a creator is lost.
LEMMA CrashStep ==
    ASSUME Inv, Crash
    PROVE  Inv'
<1>1. /\ run' = [a \in Handlers |-> Idle] /\ lock' \in {"free", "dead"}
      /\ open' = Busy
      /\ UNCHANGED <<world, thread, legacy, records, topics, gone, crossed, letter, copies>>
      /\ trouble' \in [Troubles -> 0..MaxTrouble] /\ trouble'["crash"] = trouble["crash"] + 1
      /\ trouble'["unsure"] = trouble["unsure"] /\ trouble'["lapse"] = trouble["lapse"]
  BY TroubleIs DEF Crash, Troubles
<1>2. \A a \in Handlers : run'[a] = Idle
  BY <1>1
<1>3. TypeOK'
  <2>1. run' \in [Handlers -> Locals] /\ open' \in {"no", "yes", "excused"}
    BY <1>1, IdleLocal DEF Inv, TypeOK, Busy
  <2> QED
    BY <1>1, <2>1 DEF Inv, TypeOK, world, records
<1>4. Shapes' /\ CallsOwned' /\ RowSound' /\ CreatorsKnow'
  BY <1>1, <1>2, IdleLocal, NoThreadIs
     DEF Inv, Shapes, Shape, CallsOwned, RowSound, CreatorsKnow, Before, At, records
<1>5. WritersKnow' /\ MovesCounted'
  BY <1>1, <1>2, IdleLocal, HandlersAre DEF WritersKnow, MovesCounted, At, Writing, Ensuring
<1>6. CopiesCounted'
  BY <1>1 DEF Inv, CopiesCounted
<1>7. NotesCounted'
  <2>1. told \in Nat /\ trouble["crash"] \in Nat /\ told <= trouble["crash"] + (IF legacy.noted \/ At("worker", "noted") THEN 1 ELSE 0)
    BY Numbers DEF Inv, TypeOK, NotesCounted
  <2>2. legacy'.noted = legacy.noted /\ told' = told
    BY <1>1 DEF records
  <2>3. told' <= trouble'["crash"]
     \/ (legacy.noted /\ told' <= trouble'["crash"] + 1)
    BY <1>1, <2>1, <2>2
  <2> QED
    BY <1>1, <2>1, <2>2, <2>3 DEF NotesCounted
<1>8. TopicsCounted'
  <2>1. \A P : "idle" \notin P => Count(run', P) = 0
    <3> SUFFICES ASSUME NEW P, "idle" \notin P PROVE Count(run', P) = 0
      OBVIOUS
    <3>1. {a \in Handlers : run'[a].pc \in P} = {}
      BY <1>2, IdleLocal
    <3> QED
      BY <3>1, FS_EmptySet DEF Count
  <2>2. Count(run', {"create"}) = 0 /\ Count(run', {"again", "create"}) = 0
    BY <2>1
  <2>3. Count(run, {"create"}) \in Nat /\ Count(run, {"again", "create"}) \in Nat
    BY Counts
  <2>4. CASE thread.made
    <3>1. topics <= Cardinality(gone) + crossed + trouble["lapse"] + trouble["crash"] + 1
      BY <2>3, <2>4, Numbers DEF Inv, TopicsCounted
    <3>2. topics <= Cardinality(gone) + crossed + trouble'["lapse"] + trouble'["crash"]
      BY <1>1, <3>1, Numbers DEF Inv
    <3> QED
      BY <1>1, <2>2, <2>4, <3>2, Numbers DEF Inv, TopicsCounted
  <2>5. CASE ~thread.made
    <3>1. topics <= trouble["lapse"] + trouble["crash"] + 1
      BY <2>3, <2>5, Numbers DEF Inv, TopicsCounted
    <3>2. topics <= trouble'["lapse"] + trouble'["crash"]
      BY <1>1, <3>1, Numbers DEF Inv
    <3> QED
      BY <1>1, <2>2, <2>5, <3>2, Numbers DEF Inv, TopicsCounted
  <2> QED
    BY <2>4, <2>5
<1>9. Untouched'
  BY <1>1, <1>2, IdleLocal, NoThreadIs, HandlersAre DEF Inv, Untouched, At, world, records
<1>10. OpenShown'
  <2> SUFFICES ASSUME open' = "yes" PROVE OpenShown'
    BY DEF OpenShown
  <2>1. open = "yes" /\ NobodyAsks
    BY <1>1 DEF Busy, NobodyAsks, Asking
  <2>2. NobodyAsks' /\ \A a \in Handlers \ Writers : Heeds(run'[a])
    BY <1>2, IdleLocal, HandlersAre DEF NobodyAsks, Asking, Heeds
  <2> QED
    BY <1>1, <2>1, <2>2 DEF Inv, OpenShown, NobodyAsks
<1> QED
  BY <1>3, <1>4, <1>5, <1>6, <1>7, <1>8, <1>9, <1>10 DEF Inv

---------------------------------------------------------------------------
(* The invariant holds.                                                    *)

LEMMA InitInv == Init => Inv
<1> SUFFICES ASSUME Init PROVE Inv
  OBVIOUS
<1>1. \A a \in Handlers : run[a] = Idle
  BY DEF Init
<1>2. /\ legacy \in [open : BOOLEAN, waits : BOOLEAN, noted : BOOLEAN, done : BOOLEAN, failures : 0..MaxFailures]
      /\ ~legacy.open => "legacy" \notin may
  <2>1. PICK w \in BOOLEAN :
           legacy = [open |-> "legacy" \in may, waits |-> w, noted |-> FALSE, done |-> FALSE, failures |-> 0]
    BY DEF Init
  <2>2. 0 \in 0..MaxFailures /\ ("legacy" \in may) \in BOOLEAN
    BY SupportThreadAssumption
  <2>3. legacy.open = ("legacy" \in may)
    BY <2>1
  <2> QED
    BY <2>1, <2>2, <2>3
<1>3. TypeOK
  <2>1. run \in [Handlers -> Locals]
    BY IdleLocal DEF Init
  <2>2. 0 \in 0..MaxTurns /\ 0 \in 0..MaxTrouble
    BY SupportThreadAssumption
  <2> QED
    BY <1>2, <2>1, <2>2, NoThreadIs DEF Init, TypeOK
<1>4. Shapes /\ CallsOwned /\ CreatorsKnow
  BY <1>1, IdleLocal, NoThreadIs DEF Init, Shapes, Shape, CallsOwned, CreatorsKnow, Before, At
<1>5. RowSound /\ WritersKnow /\ MovesCounted /\ NotesCounted
  <2>1. \A k \in Troubles : trouble[k] = 0
    BY DEF Init
  <2>2. NotesCounted /\ MovesCounted
    BY <1>1, <2>1, IdleLocal, HandlersAre DEF Init, NotesCounted, MovesCounted, At, Troubles
  <2>3. RowSound
    BY NoThreadIs DEF Init, RowSound
  <2>4. WritersKnow
    BY <1>1, IdleLocal, HandlersAre DEF WritersKnow, At, Writing, Ensuring
  <2> QED
    BY <2>2, <2>3, <2>4
<1>6. CopiesCounted
  BY DEF Init, CopiesCounted, Troubles
<1>7. TopicsCounted
  <2>1. {a \in Handlers : run[a].pc \in {"again", "create"}} = {}
    BY <1>1, IdleLocal
  <2>2. Count(run, {"again", "create"}) = 0
    BY <2>1, FS_EmptySet DEF Count
  <2> QED
    BY <2>2, NoThreadIs DEF Init, TopicsCounted, Troubles
<1>8. Untouched /\ OpenShown
  BY <1>1, <1>2, IdleLocal, NoThreadIs, HandlersAre DEF Init, Untouched, OpenShown, At
<1> QED
  BY <1>3, <1>4, <1>5, <1>6, <1>7, <1>8 DEF Inv

LEMMA EnsuresStep ==
    ASSUME Inv, NEW a \in Handlers, Ensures(a)
    PROVE  Inv'
BY EnsureThreadStep, TakeLockStep, FindCreatedStep, StopWaitingStep, LookAgainStep, CreateTopicStep,
   CreateFailsStep, InsertThreadStep, PublishCardStep DEF Ensures

LEMMA NextInv == Inv /\ [Next]_vars => Inv'
<1> SUFFICES ASSUME Inv, [Next]_vars PROVE Inv'
  OBVIOUS
<1> USE HandlersAre
<1>1. CASE \E l \in Letters : Write(l)
  BY <1>1, WriteStep
<1>2. CASE Her \/ Relays("album")
  <2>1. ASSUME NEW w \in Writers, Relays(w) PROVE Inv'
    BY <2>1, EnsuresStep, CopyStep, CopyFailsStep, CopyUnsureStep, RecreateStep, MoveThreadStep,
       StatusStep, WriteFailsStep, SettleStep DEF Relays
  <2> QED
    BY <1>2, <2>1, NoticeStep, KeepForAlbumStep DEF Her
<1>3. CASE Worker
  BY <1>3, EnsuresStep, DailyPassStep, MarkAwayStep, StatusStep, WriteFailsStep, StartMoveStep, SendNotesStep, MarkNotedStep,
     CarryStep, MoveFailsStep, CloseLegacyStep DEF Worker
<1>4. CASE Call \/ SendFromPanel
  BY <1>4, TeamBegins DEF Team
<1>5. CASE \E a \in Team \cup {"panel"} : Acts(a)
  <2>1. PICK a \in Team \cup {"panel"} : Acts(a)
    BY <1>5
  <2>2. a \in Handlers
    BY DEF Team
  <2>3. Reply(a) \/ ReplyInOldTopic(a) \/ ThumbsUp(a) \/ Back(a) => a \in Team
    BY DEF Reply, ReplyInOldTopic, ThumbsUp, Back, Acting, Team
  <2> QED
    BY <2>1, <2>2, <2>3, TeamBegins, EnsuresStep, DeliverStep, DeliveryFailsStep, StatusStep,
       WriteFailsStep, SettleStep DEF Acts
<1>6. CASE Employment \/ DeleteTopic \/ LockExpires \/ Crash \/ DeadLockExpires
  BY <1>6, EmploymentStep, DeleteTopicStep, LockExpiresStep, CrashStep, DeadLockExpiresStep
<1>7. CASE UNCHANGED vars
  <2>1. TypeOK' /\ Shapes' /\ CallsOwned' /\ RowSound' /\ CreatorsKnow' /\ WritersKnow' /\ MovesCounted'
    BY <1>7 DEF vars, Inv, TypeOK, Shapes, CallsOwned, RowSound, CreatorsKnow, WritersKnow, Fresh, MovesCounted, At
  <2>2. CopiesCounted' /\ TopicsCounted' /\ NotesCounted' /\ Untouched' /\ OpenShown'
    BY <1>7 DEF vars, Inv, CopiesCounted, TopicsCounted, NotesCounted, Untouched, OpenShown, Holds, Moving, Fresh, NobodyAsks, Asking, At
  <2> QED
    BY <2>1, <2>2 DEF Inv
<1> QED
  BY <1>1, <1>2, <1>3, <1>4, <1>5, <1>6, <1>7 DEF Next

\* The handlers of a conversation keep to its row and its topic, and to who has
\* read what of them, whatever they interleave, fail at or forget in a crash.
THEOREM ThreadInvariant == Spec => []Inv
<1>1. Init => Inv
  BY InitInv
<1>2. Inv /\ [Next]_vars => Inv'
  BY NextInv
<1> QED
  BY <1>1, <1>2, PTL DEF Spec

\* No message of hers is twice in a topic, refused though it is there, and no
\* topic or note is made twice, without a cause (copyIntoTopic, ensureThread,
\* recreateTopic, migrateLegacyConversations).
THEOREM NothingIsDoneTwice == Spec => []NothingTwice
<1>1. ASSUME Inv PROVE NothingTwice
  <2>1. KeptOnce
    BY <1>1, Numbers DEF Inv, CopiesCounted, KeptOnce, TypeOK
  <2>2. OneTopic
    <3>1. Count(run, {"create"}) \in Nat /\ Count(run, {"again", "create"}) \in Nat
      BY Counts
    <3>2. CASE thread.made
      BY <1>1, <3>1, <3>2, Numbers DEF Inv, TopicsCounted, OneTopic
    <3>3. CASE ~thread.made
      BY <1>1, <3>1, <3>3, Numbers DEF Inv, TopicsCounted, OneTopic
    <3> QED
      BY <3>2, <3>3
  <2>3. MovedOnce
    BY <1>1, Numbers DEF Inv, NotesCounted, MovedOnce, TypeOK
  <2> QED
    BY <1>1, <2>1, <2>2, <2>3 DEF NothingTwice, Inv
<1>2. Inv => NothingTwice
  BY <1>1
<1> QED
  BY <1>2, ThreadInvariant, PTL

\* A question that nobody has answered shows as open, and one of the old
\* conversation goes on waiting in the new (nextStatus, archiveInactive,
\* migrateLegacyConversations).
THEOREM QuestionsAreKeptOpen == Spec => []QuestionsStayOpen
<1>1. ASSUME Inv PROVE WaitingIsShown
  <2> SUFFICES ASSUME Quiet, open = "yes" PROVE thread.status \in {"WAITING", "ESCALATED"}
    BY DEF WaitingIsShown
  <2>1. NobodyAsks
    BY HandlersAre DEF Quiet, At, NobodyAsks, Asking
  <2> QED
    BY <1>1, <2>1 DEF Inv, OpenShown, Shown
<1>2. ASSUME Inv PROVE WaitingIsCarried
  BY <1>2 DEF Inv, Untouched, WaitingIsCarried
<1>3. Inv => QuestionsStayOpen
  BY <1>1, <1>2 DEF QuestionsStayOpen
<1> QED
  BY <1>3, ThreadInvariant, PTL

---------------------------------------------------------------------------
(* The call of an owner.                                                   *)

\* Which step ends a call, and whose.
EndsCall(a) ==
    thread.status = "ESCALATED" /\ thread'.status # "ESCALATED" /\ run[a] # run'[a] /\ run[a].was.status = "ESCALATED"
    => a = "kuz" \/ run[a].act \in {"back", "archive"}

\* A handler that knows of the call and is not the owner's keeps it.
LEMMA AppliedKeepsCall ==
    ASSUME Inv, NEW a \in Handlers, thread.made, run[a].pc # "idle", run[a].was.status = "ESCALATED",
           thread.status = "ESCALATED", a # "kuz", run[a].act \notin {"back", "archive"}
    PROVE  Applied(a).status = "ESCALATED"
<1> DEFINE s == run[a].was
<1>1. s.to = "kuz" /\ Shape(a, run[a]) /\ run[a] \in Locals
  BY LocalsOf DEF Owned
<1>2. run[a].act \in {"ask", "thank", "report", "reply", "thumb", "call", "reactivate", "move"}
  BY <1>1 DEF Shape, WriterShape, ActOf, TeamShape, WorkerShape
<1>3. NextStatus(a, s) = Same(s) \/ NextStatus(a, s) = State("ESCALATED", "kuz")
  BY <1>1, <1>2, NextIs DEF AfterQuestion, AfterAnswer
<1>4. \/ Applied(a) = thread
      \/ Applied(a).status = NextStatus(a, s).status /\ NextStatus(a, s) # Same(s)
  BY <1>2, AppliedIs
<1> QED
  BY <1>3, <1>4 DEF State

LEMMA CallsKept ==
    ASSUME Inv, [Next]_vars, NEW a \in Handlers
    PROVE  EndsCall(a)
<1> SUFFICES ASSUME thread.status = "ESCALATED", thread'.status # "ESCALATED", run[a] # run'[a],
                    run[a].was.status = "ESCALATED", a # "kuz", run[a].act \notin {"back", "archive"}
             PROVE  FALSE
  BY DEF EndsCall
<1>1. thread.made /\ thread \in ThreadType
  BY NoThreadIs DEF Inv, RowSound, TypeOK
<1>2. ASSUME NEW b \in Handlers, ApplyStatus(b) PROVE FALSE
  <2>1. PICK v \in Locals : Moves(b, v)
    BY <1>2, StatusMoves
  <2>2. a = b /\ run[a].pc = "status"
    BY <1>2, <2>1 DEF Moves, ApplyStatus, At
  <2> QED
    BY <1>1, <1>2, <2>2, AppliedKeepsCall DEF ApplyStatus
<1>3. ASSUME CarryWaiting PROVE FALSE
  <2>1. PICK v \in Locals : Moves("worker", v)
    BY <1>3, GotoMoves, HandlersAre DEF CarryWaiting
  <2>2. a = "worker" /\ run[a].pc = "carry"
    BY <1>3, <2>1 DEF Moves, CarryWaiting, At
  <2> QED
    BY <1>1, <1>3, <2>2, AppliedKeepsCall, SMTT(60) DEF CarryWaiting
\* No other step changes the status of a row there is.
<1>4. ASSUME NEW b, Ensures(b) PROVE thread' = thread
  BY <1>1, <1>4 DEF Ensures, EnsureThread, TakeLock, FindCreated, StopWaiting, LookAgain, CreateTopic, CreateFails,
     InsertThread, PublishCard
<1>5. ASSUME NEW b, Settle(b) PROVE thread'.status = thread.status
  <2>1. thread' = thread \/ (\E t : thread' = [thread EXCEPT !.answered = t] \/ thread' = [thread EXCEPT !.asked = t])
    BY <1>5 DEF Settle
  <2> QED
    BY <1>1, <2>1 DEF ThreadType
<1>6. ASSUME NoticeIfAway \/ MarkAway \/ \E w \in Writers : MoveThread(w) PROVE thread'.status = thread.status
  <2>1. \E t : \/ thread' = [thread EXCEPT !.noticed = t]
               \/ thread' = [thread EXCEPT !.topic = t]
               \/ thread' = [thread EXCEPT !.away = t]
    BY <1>6 DEF NoticeIfAway, MoveThread, MarkAway
  <2> QED
    BY <1>1, <2>1 DEF ThreadType
<1>7. ASSUME NEW b, Reply(b) \/ ReplyInOldTopic(b) \/ ThumbsUp(b) \/ Back(b) \/ Call \/ SendFromPanel \/ Deliver(b) \/ DeliveryFails(b)
      PROVE thread' = thread
  BY <1>7, SMTT(60) DEF Reply, ReplyInOldTopic, ThumbsUp, Back, Call, SendFromPanel, Deliver, DeliveryFails, Begins
<1>8. ASSUME \/ \E w \in Writers : CopyIntoTopic(w) \/ CopyFails(w) \/ CopyUnsure(w) \/ RecreateTopic(w)
             \/ KeepForAlbum \/ \E b \in Handlers : WriteFails(b)
             \/ DailyPass \/ StartMove \/ SendNotes \/ MarkNoted \/ MoveFails \/ CloseLegacy
      PROVE thread' = thread
  BY <1>8 DEF CopyIntoTopic, CopyFails, CopyUnsure, RecreateTopic, KeepForAlbum, WriteFails, DailyPass, StartMove, SendNotes, MarkNoted,
     MoveFails, CloseLegacy
<1>9. ASSUME \/ \E l \in Letters : Write(l)
             \/ Employment \/ DeleteTopic \/ LockExpires \/ Crash \/ DeadLockExpires \/ UNCHANGED vars
      PROVE thread' = thread
  BY <1>9 DEF Write, Employment, DeleteTopic, LockExpires, Crash, DeadLockExpires, vars
<1>10. CASE Her \/ Relays("album")
  <2>1. ASSUME NEW w \in Writers, Relays(w) PROVE FALSE
    BY <2>1, <1>2, <1>4, <1>5, <1>6, <1>8, HandlersAre DEF Relays
  <2> QED
    BY <1>10, <2>1, <1>6, <1>8, HandlersAre DEF Her
<1>11. CASE Worker
  BY <1>11, <1>2, <1>3, <1>4, <1>6, <1>8, HandlersAre DEF Worker
<1>12. CASE \E b \in Team \cup {"panel"} : Acts(b)
  <2>1. PICK b \in Team \cup {"panel"} : Acts(b)
    BY <1>12
  <2> QED
    BY <2>1, <1>2, <1>4, <1>5, <1>7, <1>8, HandlersAre DEF Acts, Team
<1> QED
  BY <1>7, <1>9, <1>10, <1>11, <1>12 DEF Next

\* Whoever knows that an owner has been called leaves the thread to him, until he
\* answers, gives it back or she is dismissed (nextStatus).
THEOREM CallsAreKept == Spec => EscalationIsKept
<1>1. Inv /\ [Next]_vars =>
        [\A a \in Handlers :
            thread.status = "ESCALATED" /\ thread'.status # "ESCALATED"
                /\ run[a] # run'[a] /\ run[a].was.status = "ESCALATED"
            => a = "kuz" \/ run[a].act \in {"back", "archive"}]_vars
  BY CallsKept DEF EndsCall
<1> QED
  BY <1>1, ThreadInvariant, PTL DEF Spec, EscalationIsKept
=============================================================================
