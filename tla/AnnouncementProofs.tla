--------------------------- MODULE AnnouncementProofs ---------------------------
(* For any people, scenes and bounds: everybody gets the announcement once,    *)
(* nobody is asked the same thing twice, its end holds, and whoever is waited  *)
(* for can answer.                                                             *)
EXTENDS Announcement, TLAPS

---------------------------------------------------------------------------
(* The inductive invariant.                                                *)

Sending == {"send", "track", "expect", "mark"}
Pinging == {"state", "ping", "record"}
Asking == {"claim", "reset", "await", "prompt", "append"}
Deferring == {"displace", "postpone"}
Sweeping == {"quieten", "targets", "erase"}
Resting == {"idle", "look", "ack", "enqueueNew", "enqueueOld", "next", "clear"}

Places(a) ==
    CASE a = "job" -> {"idle", "next"} \cup Sending
      [] a = "pinger" -> {"idle", "remind", "clear"} \cup Pinging
      [] a = "admin" -> {"idle"} \cup Sweeping
      [] OTHER -> {"idle", "look", "ack", "enqueueNew", "enqueueOld", "remind", "sent", "edit"} \cup Pinging \cup Sweeping \cup Asking
                       \cup Deferring

\* An actor is where its code can take it, with somebody in hand and a command
\* that is not acknowledged yet.
Shape(a) ==
    /\ run[a].pc \in Places(a)
    /\ run[a].pc \in Sending \cup Pinging \cup Asking => run[a].who \in People
    /\ run[a].pc \in Pinging \cup Deferring \cup {"remind"} /\ run[a].cmd # "auto" => run[a].cmd \in Reminds
    /\ run[a].cmd = "auto" => a = "pinger"
    /\ a = "dispatcher" /\ run[a].pc # "idle" => run[a].cmd \in Commands /\ outbox[run[a].cmd] = "offered"

BooksSound ==
    /\ post.at # "never" => post.action \in Reminds
    /\ post.tries < MaxTries
    /\ \A k \in Commands : outbox[k] = "offered" => tries[k] < MaxTries

\* Nothing has come of a delivery before its text is sent; then the delivery is
\* the job's own until it is marked, and so are the buttons until her row is there.
Held(c) == "text" \in screen[c] => "text" \in keys[c]
New(c) == told[c] = 0 /\ known[c] = {} /\ row[c].reply = "none"
JobSound ==
    LET c == run["job"].who
    IN  /\ At("job", "send") => delivery[c] = "SENDING" /\ New(c)
        /\ At("job", "track") => /\ delivery[c] = "SENDING" /\ told[c] = 1 /\ known[c] = {}
                                 /\ row[c].reply = "none" /\ "text" \in keys[c]
        /\ At("job", "expect") => /\ delivery[c] = "SENDING" /\ told[c] = 1 /\ "text" \in known[c]
                                  /\ row[c].reply = "none" /\ Held(c)
        /\ At("job", "mark") => /\ delivery[c] = "SENDING" /\ told[c] = 1 /\ "text" \in known[c]
                                /\ row[c].reply # "none"

\* The rows know of what a chat shows, but for reminders and strays.
Appends(c) == At("dispatcher", "append") /\ run["dispatcher"].who = c
Delivered(c) ==
    /\ delivery[c] \in {"none", "PENDING"} => New(c)
    /\ told[c] <= 1
    /\ delivery[c] = "SENT" => told[c] = 1 /\ row[c].reply # "none"
    /\ row[c].reply # "none" => "text" \in known[c]
    /\ row[c].reply = "none" => tap[c] = Untouched
    /\ tap[c].to # "pending"
    /\ told[c] = 0 => "text" \notin screen[c]
    /\ known[c] # {} /\ "text" \in screen[c] => "text" \in known[c]
    /\ "part" \in screen[c] => "part" \in known[c]
    /\ "prompt" \in screen[c] => "prompt" \in known[c] \/ Appends(c)
    /\ "prompt" \in known[c] => "text" \in known[c]
    /\ "stray" \notin known[c]
    /\ keys[c] \subseteq screen[c]

\* Who is reminded, or may be yet, has a tracked text.
PingSound(a) ==
    /\ run[a].pc \in Pinging \cup {"remind"} => \A c \in run[a].seen : "text" \in known[c]
    /\ run[a].pc \in Pinging => "text" \in known[run[a].who]

\* A reminder that was sent, or is under way, has its mark, or a send that was
\* unsure; so has a prompt.
Reminding(a, k, c) == run[a].pc \in {"state", "ping"} /\ run[a].cmd = k /\ run[a].who = c
Asks(c) == run["dispatcher"].pc \in {"reset", "await", "prompt"} /\ run["dispatcher"].who = c
One(holds) == IF holds THEN 1 ELSE 0
Counted(c) ==
    /\ \A k \in Reminds :
        pinged[<<k, c>>] + One(Reminding("dispatcher", k, c)) + One(Reminding("pinger", k, c))
            <= unsure[c] + One(<<k, c>> \in marks)
    /\ asked[c] + One(Asks(c)) <= unsure[c] + One(<<"EDIT", c>> \in marks)

\* Reminders have not ended when an actor is about to send one; one that is late
\* was its last.
QuietSound(a) == late[a] <= 1 /\ (late[a] > 0 => Closed /\ ~At(a, "ping"))

\* Nobody has been withdrawn from who is still to be edited, and who had answered
\* when the edit began has not been asked again but by it.
EditSound ==
    LET me == run["dispatcher"]
    IN  /\ me.pc = "sent" => cleaned = {} /\ \A c \in People : Answered(me.was[c]) => Answered(row[c])
        /\ me.pc \in Asking \cup {"edit"} =>
            /\ cleaned = {}
            /\ \A c \in me.todo : delivery[c] = "SENT" /\ (Answered(me.was[c]) => Answered(row[c]))
            /\ me.pc # "edit" => "text" \in known[me.who] /\ row[me.who].reply # "none" /\ me.who \notin me.todo
            /\ me.pc \in {"claim", "reset", "await", "prompt"} => Answered(me.was[me.who])

\* A sweep is of a withdrawn announcement and finds what is known; the dispatcher's
\* finds all that a chat shows which it has not failed to empty.
Own == {"text", "part", "prompt"}
Empty(c) == known[c] # {} /\ screen[c] \cap Own = {}
SweepSound(a) ==
    /\ run[a].pc \in Sweeping /\ run[a].cmd # "STOP" => post.withdrawn
    /\ run[a].pc \in {"targets", "erase"} => run[a].cmd # "STOP"
    /\ At(a, "erase") => \A c \in People : run[a].found[c] \ {"ping"} \subseteq known[c]
    /\ a = "dispatcher" /\ At(a, "erase") =>
            \A c \in run[a].seen : known[c] # {} /\ screen[c] \cap Own \subseteq run[a].found[c]
CleanedSound == (cleaned # {} => post.withdrawn) /\ \A c \in cleaned : Empty(c)

\* A prompt stands for a mark, on its way or sent; and whoever is waited for has a button that stays
\* when the one she pressed goes.
CanAnswer(c) ==
    /\ Asks(c) => <<"EDIT", c>> \in marks
    /\ "prompt" \in screen[c] \/ tap[c].on = "prompt" => <<"EDIT", c>> \in marks /\ ~Asks(c)
    /\ row[c].reply = "pending" /\ "text" \in screen[c] /\ ~post.withdrawn =>
        \/ Unasked(c) \/ c \in bare
        \/ /\ keys[c] \cap {"text", "prompt", "stray"} # {}
           /\ tap[c].to = "none" /\ tap[c].on # "none" => tap[c].on # "prompt" /\ "prompt" \in keys[c]

ActorSound(a) == Shape(a) /\ PingSound(a) /\ SweepSound(a) /\ QuietSound(a)
PersonSound(c) == Delivered(c) /\ Counted(c) /\ CanAnswer(c)

Inv ==
    /\ TypeOK /\ BooksSound /\ JobSound /\ EditSound /\ CleanedSound /\ CompletedReachedAll
    /\ \A a \in Actors : ActorSound(a)
    /\ \A c \in People : PersonSound(c)

---------------------------------------------------------------------------
(* Lemmas: the actors and their variables.                                 *)

LEMMA IdleLocal ==
    Idle \in Locals /\ Idle.pc = "idle" /\ Idle.cmd = "none" /\ Idle.who = Nobody /\ Idle.seen = {} /\ Idle.todo = {}
BY DEF Idle, Locals, RowType, Replies, Times

\* Actor a has the variables v now, the others keep theirs.
Moves(a, v) ==
    /\ run' \in [Actors -> Locals] /\ run'[a] = v
    /\ \A b \in Actors : b # a => run'[b] = run[b]

LEMMA SetMoves ==
    ASSUME TypeOK, NEW a \in Actors, NEW v \in Locals, Set(a, v)
    PROVE  Moves(a, v)
BY DEF TypeOK, Set, Moves

LEMMA GotoMoves ==
    ASSUME TypeOK, NEW a \in Actors,
           NEW pc \in {"idle", "look", "enqueueNew", "enqueueOld", "next", "send", "track", "expect", "mark",
                       "displace", "postpone", "remind", "state", "ping", "record", "clear", "quieten", "targets",
                       "erase", "sent", "edit", "claim", "reset", "await", "prompt", "append", "ack"}, Goto(a, pc)
    PROVE  \E v \in Locals : /\ Moves(a, v) /\ v = [run[a] EXCEPT !.pc = pc]
                             /\ v.pc = pc /\ v.cmd = run[a].cmd /\ v.who = run[a].who /\ v.todo = run[a].todo
                             /\ v.seen = run[a].seen /\ v.was = run[a].was /\ v.found = run[a].found
                             /\ v.calm = run[a].calm
<1> DEFINE v == [run[a] EXCEPT !.pc = pc]
<1>1. run[a] \in Locals
  BY DEF TypeOK
<1>2. /\ v \in Locals /\ v.pc = pc /\ v.cmd = run[a].cmd /\ v.who = run[a].who /\ v.todo = run[a].todo
      /\ v.seen = run[a].seen /\ v.was = run[a].was /\ v.found = run[a].found /\ v.calm = run[a].calm
  BY <1>1 DEF Locals
<1>3. Moves(a, v)
  BY <1>2, SetMoves DEF Goto
<1> QED
  BY <1>2, <1>3

LEMMA ResumeMoves ==
    ASSUME TypeOK, NEW a \in Actors, NEW pc \in {"next", "remind", "edit"}, NEW bad \in BOOLEAN, Resume(a, pc, bad)
    PROVE  \E v \in Locals : /\ Moves(a, v) /\ v.pc = pc /\ v.cmd = run[a].cmd /\ v.who = Nobody
                             /\ v.todo = run[a].todo /\ v.seen = run[a].seen /\ v.was = run[a].was
<1> DEFINE v == [run[a] EXCEPT !.pc = pc, !.who = Nobody, !.bad = bad]
<1>1. run[a] \in Locals
  BY DEF TypeOK
<1>2. /\ v \in Locals /\ v.pc = pc /\ v.cmd = run[a].cmd /\ v.who = Nobody
      /\ v.todo = run[a].todo /\ v.seen = run[a].seen /\ v.was = run[a].was
  BY <1>1, ZenonT(60) DEF Locals
<1>3. Moves(a, v)
  BY <1>2, SetMoves DEF Resume
<1> QED
  BY <1>2, <1>3

LEMMA AnswersMoves ==
    ASSUME TypeOK, NEW a \in Actors, NEW ok \in BOOLEAN, Answers(a, ok)
    PROVE  \E v \in Locals : Moves(a, v) /\ v.pc = "ack" /\ v.cmd = run[a].cmd
<1> DEFINE v == [Idle EXCEPT !.pc = "ack", !.cmd = run[a].cmd, !.bad = ~ok]
<1>1. run[a] \in Locals
  BY DEF TypeOK
<1>2. v \in Locals /\ v.pc = "ack" /\ v.cmd = run[a].cmd
  <2>1. run[a].cmd \in Commands \cup {"none", "auto"} /\ (~ok) \in BOOLEAN
    BY <1>1 DEF Locals
  <2>2. v = [Idle EXCEPT !.pc = "ack", !.cmd = run[a].cmd, !.bad = ~ok]
    OBVIOUS
  <2>3. v \in Locals
    <3>1. Idle \in Locals
      BY IdleLocal
    <3> HIDE DEF Idle
    <3> QED
      BY <2>1, <2>2, <3>1, ZenonT(60) DEF Locals
  <2>4. v.pc = "ack" /\ v.cmd = run[a].cmd
    BY <2>2, IdleLocal, SMTT(60) DEF Idle
  <2> QED
    BY <2>3, <2>4
<1>3. Moves(a, v)
  BY <1>2, SetMoves DEF Answers
<1> QED
  BY <1>2, <1>3

\* An actor begins something new.
Fresh(pc, cmd, todo, seen) == [Idle EXCEPT !.pc = pc, !.cmd = cmd, !.todo = todo, !.seen = seen]
LEMMA FreshMoves ==
    ASSUME TypeOK, NEW a \in Actors,
           NEW pc \in {"look", "next", "remind", "clear", "quieten"}, NEW cmd \in Commands \cup {"none", "auto"},
           NEW todo \in SUBSET People, NEW seen \in SUBSET People, Set(a, Fresh(pc, cmd, todo, seen))
    PROVE  \E v \in Locals : Moves(a, v) /\ v.pc = pc /\ v.cmd = cmd /\ v.seen = seen /\ v.todo = todo
<1> DEFINE v == Fresh(pc, cmd, todo, seen)
<1>1. v \in Locals /\ v.pc = pc /\ v.cmd = cmd /\ v.seen = seen /\ v.todo = todo
  BY IdleLocal, ZenonT(60) DEF Locals, Idle, Fresh
<1>2. Moves(a, v)
  BY <1>1, SetMoves
<1> HIDE DEF v
<1> QED
  BY <1>1, <1>2

LEMMA IdleMoves ==
    ASSUME TypeOK, NEW a \in Actors, Set(a, Idle)
    PROVE  Moves(a, Idle) /\ Idle \in Locals /\ Idle.pc = "idle" /\ Idle.cmd = "none"
BY IdleLocal, SetMoves

\* A row keeps its reply when only its reminder is planned anew.
LEMMA NextAlone ==
    ASSUME TypeOK, NEW c \in People, NEW next \in Times, row' = [row EXCEPT ![c].next = next]
    PROVE  row' \in [People -> RowType] /\ \A x \in People : row'[x].reply = row[x].reply
<1>1. row \in [People -> RowType]
  BY DEF TypeOK
<1>2. row'[c] = [row[c] EXCEPT !.next = next] /\ \A x \in People \ {c} : row'[x] = row[x]
  BY <1>1
<1>3. row'[c] \in RowType /\ row'[c].reply = row[c].reply
  BY <1>1, <1>2 DEF RowType
<1> QED
  BY <1>1, <1>2, <1>3

\* And the other way round.
LEMMA ReplyAlone ==
    ASSUME TypeOK, NEW c \in People, NEW reply \in Replies, row' = [row EXCEPT ![c].reply = reply]
    PROVE  /\ row' \in [People -> RowType] /\ row'[c].reply = reply
           /\ \A x \in People \ {c} : row'[x] = row[x]
<1>1. row \in [People -> RowType]
  BY DEF TypeOK
<1>2. row'[c] = [row[c] EXCEPT !.reply = reply] /\ \A x \in People \ {c} : row'[x] = row[x]
  BY <1>1
<1>3. row'[c] \in RowType /\ row'[c].reply = reply
  BY <1>1, <1>2 DEF RowType
<1> QED
  BY <1>1, <1>2, <1>3

---------------------------------------------------------------------------
(* What a step leaves the other actors.                                    *)

\* Rows are not lost; reminders that have ended have ended; nobody is told again.
Gentle ==
    /\ post.withdrawn => post'.withdrawn
    /\ post.stopped => post'.stopped
    /\ \A x \in People : /\ known[x] \ {"ping"} \subseteq known'[x] /\ (known[x] # {} => known'[x] # {})
                         /\ row[x].reply # "none" => row'[x].reply # "none"
                         /\ told[x] = 1 => told'[x] = 1
Tidy == \A x \in People : known[x] # {} => screen'[x] \cap Own \subseteq screen[x]
DispatcherAside ==
    /\ UNCHANGED <<outbox, cleaned>>
    /\ \A x \in People : /\ delivery[x] = "SENT" => delivery'[x] = "SENT"
                         /\ Answered(row[x]) => Answered(row'[x])
    /\ Tidy
JobAside ==
    \A x \in People : /\ delivery'[x] = delivery[x] /\ told'[x] = told[x]
                      /\ known[x] = {} => known'[x] = {} /\ ("text" \in keys[x] => "text" \in keys'[x])
                      /\ row[x].reply = "none" => row'[x].reply = "none" /\ (Held(x) => Held(x)')

LEMMA OthersKept ==
    ASSUME Inv, NEW a \in Actors, NEW v, Moves(a, v), Gentle, NEW b \in Actors, b # a, late'[b] = late[b],
           a # "dispatcher" => DispatcherAside
    PROVE  ActorSound(b)'
<1>1. run'[b] = run[b] /\ run[b] \in Locals
  BY DEF Moves, Inv, TypeOK
<1>2. ActorSound(b)
  BY DEF Inv
<1>3. Shape(b)'
  BY <1>1, <1>2 DEF ActorSound, Shape, DispatcherAside
<1>4. PingSound(b)'
  BY <1>1, <1>2 DEF ActorSound, PingSound, Gentle, At, Pinging, Shape, Locals
<1>5. QuietSound(b)'
  BY <1>1, <1>2 DEF ActorSound, QuietSound, Gentle, Closed, At
<1>6. SweepSound(b)'
  <2>1. /\ run'[b].pc \in Sweeping /\ run'[b].cmd # "STOP" => post'.withdrawn
        /\ run'[b].pc \in {"targets", "erase"} => run'[b].cmd # "STOP"
        /\ At(b, "erase")' => \A c \in People : run'[b].found[c] \ {"ping"} \subseteq known'[c]
    BY <1>1, <1>2 DEF ActorSound, SweepSound, Gentle, At
  <2>2. ASSUME b = "dispatcher", run'[b].pc = "erase"
        PROVE  \A c \in run'[b].seen : known'[c] # {} /\ screen'[c] \cap Own \subseteq run'[b].found[c]
    <3>1. run[b].seen \subseteq People
      BY <1>1 DEF Locals
    <3>2. Tidy /\ Gentle
      BY <2>2 DEF DispatcherAside
    <3> QED
      BY <1>1, <1>2, <2>2, <3>1, <3>2 DEF ActorSound, SweepSound, At, Gentle, Tidy
  <2> QED
    BY <2>1, <2>2 DEF SweepSound, At
<1> QED
  BY <1>3, <1>4, <1>5, <1>6 DEF ActorSound

LEMMA JobKept ==
    ASSUME Inv, NEW a \in Actors, NEW v, Moves(a, v), a # "job", JobAside, Gentle
    PROVE  JobSound'
<1>1. run'["job"] = run["job"]
  BY DEF Moves, Actors
<1>2. run["job"].pc \in Sending => run["job"].who \in People
  BY DEF Inv, ActorSound, Shape, Actors
<1> QED
  BY <1>1, <1>2 DEF Inv, JobSound, At, New, JobAside, Gentle, Sending, Held

LEMMA EditKept ==
    ASSUME Inv, NEW a \in Actors, NEW v, Moves(a, v), a # "dispatcher", DispatcherAside, Gentle
    PROVE  EditSound'
<1>1. run'["dispatcher"] = run["dispatcher"] /\ run["dispatcher"].todo \subseteq People
  BY DEF Moves, Actors, Inv, TypeOK, Locals
<1>2. run["dispatcher"].pc \in Asking => run["dispatcher"].who \in People
  BY DEF Inv, ActorSound, Shape, Actors
<1> QED
  BY <1>1, <1>2 DEF Inv, EditSound, DispatcherAside, Gentle, Asking

LEMMA CompletedKept ==
    ASSUME Inv, Gentle, to' = to, post'.completed => post.completed
    PROVE  CompletedReachedAll'
BY DEF Inv, CompletedReachedAll, Gentle, TypeOK

LEMMA CleanedKept ==
    ASSUME Inv, Gentle, cleaned' = cleaned, Tidy \/ cleaned = {}
    PROVE  CleanedSound'
BY DEF Inv, CleanedSound, Gentle, Tidy, Empty, TypeOK

---------------------------------------------------------------------------
(* What a step leaves the people.                                          *)

SameChat(x) ==
    /\ delivery'[x] = delivery[x] /\ row'[x].reply = row[x].reply /\ known'[x] = known[x] /\ tap'[x] = tap[x]
    /\ screen'[x] = screen[x] /\ keys'[x] = keys[x] /\ told'[x] = told[x]
SameCounts(x) ==
    /\ asked'[x] = asked[x] /\ unsure'[x] = unsure[x]
    /\ \A k \in Reminds : pinged'[<<k, x>>] = pinged[<<k, x>>]
    /\ \A k \in Reminds \cup {"EDIT"} : <<k, x>> \in marks' <=> <<k, x>> \in marks
    /\ x \in bare' <=> x \in bare
    /\ post.withdrawn => post'.withdrawn
SameTurn(x) ==
    /\ Asks(x)' <=> Asks(x)
    /\ Appends(x)' <=> Appends(x)
    /\ \A k \in Reminds, a \in {"dispatcher", "pinger"} : Reminding(a, k, x)' <=> Reminding(a, k, x)

\* The places where an actor counts for the person in hand.
Turns == {"state", "ping", "reset", "await", "prompt", "append"}
LEMMA TurnAside ==
    ASSUME NEW a \in Actors, NEW v, Moves(a, v), NEW x,
           run[a].pc \in Turns => run[a].who # x, v.pc \in Turns => v.who # x
    PROVE  SameTurn(x)
<1>1. \A b \in Actors : run'[b] = run[b] \/ /\ run[b].pc \in Turns => run[b].who # x
                                            /\ run'[b].pc \in Turns => run'[b].who # x
  BY DEF Moves
<1>2. {"dispatcher", "pinger"} \subseteq Actors
  BY DEF Actors
<1> QED
  BY <1>1, <1>2 DEF SameTurn, Asks, Appends, Reminding, Turns, At

LEMMA DeliveredKept ==
    ASSUME NEW x, Delivered(x), SameChat(x), SameTurn(x)
    PROVE  Delivered(x)'
BY DEF Delivered, SameChat, SameTurn, New

LEMMA CountedKept ==
    ASSUME NEW x, Counted(x), SameCounts(x), SameTurn(x)
    PROVE  Counted(x)'
BY DEF Counted, SameCounts, SameTurn, One

LEMMA CanAnswerKept ==
    ASSUME NEW x, CanAnswer(x), SameChat(x), SameCounts(x), SameTurn(x)
    PROVE  CanAnswer(x)'
BY DEF CanAnswer, SameChat, SameCounts, SameTurn, Unasked

LEMMA PersonKept ==
    ASSUME Inv, NEW x \in People, SameChat(x), SameCounts(x), SameTurn(x)
    PROVE  PersonSound(x)'
BY DeliveredKept, CountedKept, CanAnswerKept DEF Inv, PersonSound

LEMMA StepKept ==
    ASSUME Inv, NEW a \in Actors, NEW v, Moves(a, v), TypeOK', BooksSound', Gentle,
           \A b \in Actors : b # a => late'[b] = late[b],
           a # "dispatcher" => DispatcherAside, a # "job" => JobAside, to' = to,
           (post'.completed => post.completed) \/ CompletedReachedAll',
           (cleaned' = cleaned /\ (Tidy \/ cleaned = {})) \/ CleanedSound',
           ActorSound(a)', a = "job" => JobSound', a = "dispatcher" => EditSound',
           \A x \in People : PersonSound(x)'
    PROVE  Inv'
<1>1. \A b \in Actors : ActorSound(b)'
  BY OthersKept
<1>2. JobSound' /\ EditSound'
  BY JobKept, EditKept
<1>3. CompletedReachedAll' /\ CleanedSound'
  BY CompletedKept, CleanedKept
<1> QED
  BY <1>1, <1>2, <1>3 DEF Inv

\* Nothing is due of an actor that rests.
LEMMA Rests ==
    ASSUME Inv, NEW a \in Actors, NEW v, Moves(a, v), v.pc \in Resting, v.pc \in Places(a), v.cmd # "auto",
           a = "dispatcher" /\ v.pc # "idle" => v.cmd \in Commands /\ outbox'[v.cmd] = "offered",
           Gentle, late'[a] = late[a]
    PROVE  ActorSound(a)' /\ (a = "job" => JobSound') /\ (a = "dispatcher" => EditSound')
<1>1. v.pc \notin Sending \cup Pinging \cup Asking \cup Sweeping \cup Deferring \cup {"remind", "sent", "edit"}
      /\ run'[a] = v
  BY DEF Resting, Sending, Pinging, Asking, Sweeping, Deferring, Moves
<1>2. Shape(a)' /\ PingSound(a)' /\ SweepSound(a)'
  BY <1>1 DEF Shape, PingSound, SweepSound, At, Pinging, Sweeping
<1>3. QuietSound(a)'
  BY <1>1 DEF Inv, ActorSound, QuietSound, Gentle, Closed, At, Pinging
<1>4. (a = "job" => JobSound') /\ (a = "dispatcher" => EditSound')
  BY <1>1 DEF JobSound, EditSound, At, Sending
<1> QED
  BY <1>2, <1>3, <1>4 DEF ActorSound

\* A step of the books and of its own variables leaves the chats alone.
ChatsAlone ==
    /\ UNCHANGED <<to, delivery, marks, known, tap, screen, keys, told, pinged, asked, unsure, late, bare>>
    /\ \A x \in People : row'[x].reply = row[x].reply
PostGrows ==
    /\ post.withdrawn => post'.withdrawn
    /\ post.stopped => post'.stopped

LEMMA AloneIs ==
    ASSUME Inv, ChatsAlone, PostGrows
    PROVE  /\ Gentle /\ Tidy /\ JobAside /\ (UNCHANGED <<outbox, cleaned>> => DispatcherAside)
           /\ \A x \in People : SameChat(x) /\ SameCounts(x)
BY DEF Gentle, Tidy, JobAside, Held, DispatcherAside, SameChat, SameCounts, ChatsAlone, PostGrows, Answered

LEMMA Bookkeeping ==
    ASSUME Inv, NEW a \in Actors, NEW v, Moves(a, v), TypeOK', BooksSound', ChatsAlone, PostGrows,
           a # "dispatcher" => UNCHANGED <<outbox, cleaned>>,
           (post'.completed => post.completed) \/ CompletedReachedAll',
           cleaned' = cleaned \/ CleanedSound',
           run[a].pc \notin Turns, v.pc \notin Turns,
           ActorSound(a)', a = "job" => JobSound', a = "dispatcher" => EditSound'
    PROVE  Inv'
<1>1. \A x \in People : SameTurn(x)
  BY TurnAside
<1>2. \A x \in People : PersonSound(x)'
  BY <1>1, AloneIs, PersonKept
<1>3. \A b \in Actors : late'[b] = late[b]
  BY DEF ChatsAlone
<1>4. to' = to
  BY DEF ChatsAlone
<1> QED
  BY <1>2, <1>3, <1>4, AloneIs, StepKept

LEMMA BooksRest ==
    ASSUME Inv, NEW a \in Actors, NEW v, Moves(a, v), TypeOK', BooksSound', ChatsAlone, PostGrows,
           a # "dispatcher" => outbox' = outbox, cleaned' = cleaned,
           (post'.completed => post.completed) \/ CompletedReachedAll',
           run[a].pc \notin Turns,
           v.pc \in Resting, v.pc \in Places(a), v.cmd # "auto",
           a = "dispatcher" /\ v.pc # "idle" => v.cmd \in Commands /\ outbox'[v.cmd] = "offered"
    PROVE  Inv'
<1>1. v.pc \notin Turns
  BY DEF Resting, Turns
<1>2. late'[a] = late[a]
  BY DEF ChatsAlone
<1>3. ActorSound(a)' /\ (a = "job" => JobSound') /\ (a = "dispatcher" => EditSound')
  BY <1>2, AloneIs, Rests
<1> QED
  BY <1>1, <1>3, Bookkeeping

---------------------------------------------------------------------------
(* The web app's commands.                                                 *)

LEMMA ActorsAre == {"dispatcher", "job", "pinger", "admin"} = Actors
BY DEF Actors

LEMMA DispatcherIs ==
    ASSUME Inv, run["dispatcher"].pc # "idle"
    PROVE  run["dispatcher"].cmd \in Commands /\ outbox[run["dispatcher"].cmd] = "offered"
BY ActorsAre DEF Inv, ActorSound, Shape

LEMMA DispatcherPlaces ==
    Places("dispatcher") = {"idle", "look", "ack", "enqueueNew", "enqueueOld", "remind", "sent", "edit"} \cup Pinging \cup Sweeping \cup Asking
                       \cup Deferring
    /\ Places("job") = {"idle", "next"} \cup Sending /\ Places("pinger") = {"idle", "remind", "clear"} \cup Pinging
    /\ Places("admin") = {"idle"} \cup Sweeping
BY DEF Places

LEMMA TakeKeeps ==
    ASSUME Inv, NEW k \in Commands, Take(k)
    PROVE  Inv'
<1>1. PICK v \in Locals : Moves("dispatcher", v) /\ v.pc = "look" /\ v.cmd = k
  <2> DEFINE v == [Idle EXCEPT !.pc = "look", !.cmd = k]
  <2>1. v \in Locals /\ v.pc = "look" /\ v.cmd = k
    BY IdleLocal DEF Locals, Idle
  <2> QED
    BY <2>1, SetMoves, ActorsAre DEF Take, Inv
<1>2. TypeOK' /\ BooksSound'
  BY <1>1 DEF Inv, TypeOK, BooksSound, Take, Smoothly, Moves, scene, rows, chats
<1>3. ChatsAlone /\ PostGrows /\ UNCHANGED <<row, post, outbox, cleaned, bare>>
  BY DEF Take, ChatsAlone, PostGrows, scene, rows, chats
<1>4. run["dispatcher"].pc \notin Turns /\ outbox[k] = "offered" /\ k # "auto"
  BY DEF Take, At, Turns, Commands, Reminds
<1> QED
  BY <1>1, <1>2, <1>3, <1>4, ActorsAre, DispatcherPlaces, BooksRest DEF Resting

LEMMA AckKeeps ==
    ASSUME Inv, Ack \/ LoseAck
    PROVE  Inv'
<1>1. Moves("dispatcher", Idle) /\ Idle \in Locals /\ Idle.pc = "idle" /\ Idle.cmd = "none"
  BY IdleMoves, ActorsAre DEF Ack, LoseAck, Inv
<1>2. run["dispatcher"].cmd \in Commands /\ outbox[run["dispatcher"].cmd] = "offered"
  BY DispatcherIs DEF Ack, LoseAck, At
<1>3. trouble' \in 0..MaxTrouble
  BY AnnouncementAssumption DEF Inv, TypeOK, Ack, LoseAck, Trouble, Smoothly
<1>4. /\ tries' \in [Commands -> 0..MaxTries]
      /\ outbox' \in [Commands -> {"none", "offered", "accepted", "refused"}]
      /\ \A k \in Commands : outbox'[k] = "offered" => tries'[k] < MaxTries
  <2>1. CASE LoseAck
    BY <2>1 DEF Inv, TypeOK, BooksSound, LoseAck
  <2>2. CASE Ack /\ run["dispatcher"].bad
    <3>1. tries \in [Commands -> 0..MaxTries] /\ tries[run["dispatcher"].cmd] < MaxTries
      BY <1>2 DEF Inv, TypeOK, BooksSound
    <3>2. tries[run["dispatcher"].cmd] + 1 \in 0..MaxTries
      BY <1>2, <3>1, AnnouncementAssumption
    <3>3. tries' = [tries EXCEPT ![run["dispatcher"].cmd] = @ + 1]
      BY <2>2 DEF Ack, Count
    <3>4. outbox' = [outbox EXCEPT ![run["dispatcher"].cmd] =
                        IF tries[run["dispatcher"].cmd] + 1 < MaxTries THEN "offered" ELSE "refused"]
      BY <2>2 DEF Ack
    <3>5. tries' \in [Commands -> 0..MaxTries]
      BY <1>2, <3>1, <3>2, <3>3
    <3> QED
      BY <1>2, <3>1, <3>3, <3>4, <3>5 DEF Inv, TypeOK, BooksSound
  <2>3. CASE Ack /\ ~run["dispatcher"].bad
    BY <1>2, <2>3 DEF Inv, TypeOK, BooksSound, Ack
  <2> QED
    BY <2>1, <2>2, <2>3
<1>5. ChatsAlone /\ PostGrows /\ UNCHANGED <<row, post, cleaned, bare, done, known, job, may>>
  BY DEF Ack, LoseAck, ChatsAlone, PostGrows, scene, rows, chats
<1>6. TypeOK' /\ BooksSound'
  BY <1>1, <1>3, <1>4, <1>5 DEF Inv, TypeOK, BooksSound, ChatsAlone, Moves
<1>7. run["dispatcher"].pc \notin Turns
  BY DEF Ack, LoseAck, At, Turns
<1> QED
  BY <1>1, <1>5, <1>6, <1>7, ActorsAre, DispatcherPlaces, BooksRest DEF Resting

LEMMA PostTyped ==
    ASSUME Inv
    PROVE  post \in [made : BOOLEAN, withdrawn : BOOLEAN, stopped : BOOLEAN, completed : BOOLEAN,
                     action : Reminds \cup {"none"}, at : Times, tries : 0..MaxTries]
           /\ post.tries < MaxTries /\ (post.at # "never" => post.action \in Reminds)
BY DEF Inv, TypeOK, BooksSound

LEMMA CreateRowKeeps ==
    ASSUME Inv, CreateRow
    PROVE  Inv'
<1>1. PICK v \in Locals : Moves("dispatcher", v) /\ v.pc \in {"enqueueOld", "enqueueNew"} /\ v.cmd = run["dispatcher"].cmd
  <2>1. CASE post.made
    BY <2>1, GotoMoves, ActorsAre DEF CreateRow, Inv
  <2>2. CASE ~post.made
    BY <2>2, GotoMoves, ActorsAre DEF CreateRow, Inv
  <2> QED
    BY <2>1, <2>2
<1>2. run["dispatcher"].cmd \in Commands /\ outbox[run["dispatcher"].cmd] = "offered" /\ run["dispatcher"].cmd # "auto"
  BY DispatcherIs DEF CreateRow, At
<1>3. /\ post'.at = post.at /\ post'.action = post.action /\ post'.tries = post.tries
      /\ post'.completed = post.completed /\ post'.withdrawn = post.withdrawn /\ post'.stopped = post.stopped
  BY PostTyped DEF CreateRow
<1>4. TypeOK' /\ BooksSound'
  BY <1>1, <1>3 DEF Inv, TypeOK, BooksSound, CreateRow, Smoothly, Moves, scene, chats
<1>5. ChatsAlone /\ PostGrows /\ UNCHANGED <<row, outbox, cleaned, bare>>
  BY <1>3 DEF CreateRow, ChatsAlone, PostGrows, scene, chats
<1>6. run["dispatcher"].pc \notin Turns
  BY DEF CreateRow, At, Turns
<1> QED
  BY <1>1, <1>2, <1>3, <1>4, <1>5, <1>6, ActorsAre, DispatcherPlaces, BooksRest DEF Resting

LEMMA EnqueueKeeps ==
    ASSUME Inv, Enqueue \/ EnqueueFails
    PROVE  Inv'
<1>1. PICK v \in Locals : Moves("dispatcher", v) /\ v.pc = "ack" /\ v.cmd = run["dispatcher"].cmd
  BY AnswersMoves, ActorsAre DEF Enqueue, EnqueueFails, Inv
<1>2. run["dispatcher"].cmd \in Commands /\ outbox[run["dispatcher"].cmd] = "offered" /\ run["dispatcher"].cmd # "auto"
      /\ run["dispatcher"].pc \notin Turns
  BY DispatcherIs DEF Enqueue, EnqueueFails, At, Turns, Commands, Reminds
<1>3. /\ post'.at = post.at /\ post'.action = post.action /\ post'.tries = post.tries
      /\ post'.completed = post.completed /\ post'.withdrawn = post.withdrawn /\ post'.stopped = post.stopped
  BY PostTyped DEF Enqueue, EnqueueFails, rows
<1>4. post' \in [made : BOOLEAN, withdrawn : BOOLEAN, stopped : BOOLEAN, completed : BOOLEAN,
                     action : Reminds \cup {"none"}, at : Times, tries : 0..MaxTries]
      /\ job' \in {"none", "waiting", "active", "failed", "done"}
  BY PostTyped DEF Enqueue, EnqueueFails, rows, Inv, TypeOK, At
<1>5. ChatsAlone /\ PostGrows /\ UNCHANGED <<row, outbox, cleaned, bare, done, tries, trouble, may>>
  BY <1>3 DEF Enqueue, EnqueueFails, ChatsAlone, PostGrows, Smoothly, scene, rows, chats
<1>6. TypeOK' /\ BooksSound'
  BY <1>1, <1>3, <1>4, <1>5 DEF Inv, TypeOK, BooksSound, ChatsAlone, Moves
<1> QED
  BY <1>1, <1>2, <1>3, <1>5, <1>6, ActorsAre, DispatcherPlaces, BooksRest DEF Resting

LEMMA AlreadyDoneKeeps ==
    ASSUME Inv, AlreadyDone
    PROVE  Inv'
<1>1. PICK v \in Locals : Moves("dispatcher", v) /\ v.pc = "ack" /\ v.cmd = run["dispatcher"].cmd
  BY AnswersMoves, ActorsAre DEF AlreadyDone, Inv
<1>2. run["dispatcher"].cmd \in Commands /\ outbox[run["dispatcher"].cmd] = "offered" /\ run["dispatcher"].cmd # "auto"
      /\ run["dispatcher"].pc \notin Turns
  BY DispatcherIs DEF AlreadyDone, At, Turns, Commands, Reminds
<1>3. ChatsAlone /\ PostGrows /\ UNCHANGED <<row, post, outbox, cleaned, bare, tries, trouble, may, job>>
  BY DEF AlreadyDone, ChatsAlone, PostGrows, Smoothly, scene, chats
<1>4. done' \subseteq Commands
  BY <1>2 DEF AlreadyDone, Inv, TypeOK
<1>5. TypeOK' /\ BooksSound'
  BY <1>1, <1>3, <1>4 DEF Inv, TypeOK, BooksSound, ChatsAlone, Moves
<1> QED
  BY <1>1, <1>2, <1>3, <1>5, ActorsAre, DispatcherPlaces, BooksRest DEF Resting

\* The dispatcher is about to leave a reminder to the pinger.
LEMMA DefersOn ==
    ASSUME Inv, NEW v, Moves("dispatcher", v), TypeOK', BooksSound', ChatsAlone, UNCHANGED <<post, outbox, cleaned>>,
           run["dispatcher"].pc \in Deferring \cup {"look"}, v.pc \in Deferring, v.cmd = run["dispatcher"].cmd,
           v.cmd \in Reminds
    PROVE  Inv'
<1>1. v.cmd \in Commands /\ outbox[v.cmd] = "offered" /\ v.cmd # "auto"
  BY DispatcherIs DEF Deferring, Commands, Reminds
<1>2. run'["dispatcher"] = v /\ "dispatcher" \in Actors
  BY ActorsAre DEF Moves
<1>3. Shape("dispatcher")' /\ PingSound("dispatcher")' /\ SweepSound("dispatcher")' /\ EditSound'
  BY <1>1, <1>2, DispatcherPlaces
     DEF Shape, PingSound, SweepSound, EditSound, Asking, Sending, Pinging, Sweeping, Deferring, At
<1>4. QuietSound("dispatcher")'
  BY <1>2 DEF Inv, ActorSound, QuietSound, ChatsAlone, Closed, At, Deferring
<1>5. PostGrows /\ run["dispatcher"].pc \notin Turns /\ v.pc \notin Turns
  BY DEF PostGrows, Turns, Deferring
<1> QED
  BY <1>2, <1>3, <1>4, <1>5, Bookkeeping DEF ActorSound

LEMMA DeferKeeps ==
    ASSUME Inv, Defer
    PROVE  Inv'
<1>1. /\ TypeOK /\ "dispatcher" \in Actors /\ run["dispatcher"] \in Locals /\ run["dispatcher"].pc = "look"
      /\ run["dispatcher"].cmd \in Commands /\ outbox[run["dispatcher"].cmd] = "offered"
      /\ run["dispatcher"].cmd \in Reminds /\ run["dispatcher"].cmd # "auto"
  BY DispatcherIs, ActorsAre DEF Defer, At, Inv, TypeOK, Reminds
<1>2. ChatsAlone /\ PostGrows /\ UNCHANGED <<row, post, outbox, cleaned, tries, trouble, may, job, done>>
  BY DEF Defer, ChatsAlone, PostGrows, Smoothly, scene, rows, chats
<1>3. CASE post.action = run["dispatcher"].cmd
  <2>1. PICK v \in Locals : Moves("dispatcher", v) /\ v.pc = "ack" /\ v.cmd = run["dispatcher"].cmd
    BY <1>1, <1>3, AnswersMoves DEF Defer
  <2>2. TypeOK' /\ BooksSound'
    BY <1>1, <1>2, <2>1 DEF Inv, TypeOK, BooksSound, ChatsAlone, Moves
  <2>3. run["dispatcher"].pc \notin Turns
    BY <1>1 DEF Turns
  <2> QED
    BY <1>1, <1>2, <2>1, <2>2, <2>3, DispatcherPlaces, BooksRest DEF Resting
<1>4. CASE post.action # run["dispatcher"].cmd
  <2> DEFINE v == [run["dispatcher"] EXCEPT !.pc = "displace", !.old = post.action]
  <2>1. v \in Locals /\ v.pc = "displace" /\ v.cmd = run["dispatcher"].cmd
    BY <1>1, PostTyped DEF Locals
  <2>2. Moves("dispatcher", v)
    BY <1>1, <1>4, <2>1, SetMoves DEF Defer
  <2> HIDE DEF v
  <2>3. TypeOK' /\ BooksSound'
    BY <1>1, <1>2, <2>1, <2>2 DEF Inv, TypeOK, BooksSound, ChatsAlone, Moves
  <2>4. v.pc \in Deferring /\ run["dispatcher"].pc \in Deferring \cup {"look"} /\ v.cmd \in Reminds
    BY <1>1, <2>1 DEF Deferring
  <2> QED
    BY <1>2, <2>1, <2>2, <2>3, <2>4, DefersOn
<1> QED
  BY <1>3, <1>4

\* What the dispatcher knows on the way.
LEMMA DeferIs ==
    ASSUME Inv, run["dispatcher"].pc \in Deferring
    PROVE  /\ TypeOK /\ "dispatcher" \in Actors /\ run["dispatcher"] \in Locals
           /\ run["dispatcher"].cmd \in Commands /\ outbox[run["dispatcher"].cmd] = "offered"
           /\ run["dispatcher"].cmd \in Reminds /\ run["dispatcher"].cmd # "auto"
           /\ run["dispatcher"].pc \notin Turns
<1>1. run["dispatcher"].pc # "idle" /\ run["dispatcher"].pc \notin Turns
  BY DEF Deferring, Turns
<1>2. TypeOK /\ "dispatcher" \in Actors /\ run["dispatcher"] \in Locals /\ Shape("dispatcher")
  BY ActorsAre DEF Inv, ActorSound, TypeOK
<1> QED
  BY <1>1, <1>2, DispatcherIs DEF Shape, Commands, Reminds

LEMMA DisplaceKeeps ==
    ASSUME Inv, Displace
    PROVE  Inv'
<1>1. /\ TypeOK /\ "dispatcher" \in Actors /\ run["dispatcher"] \in Locals
      /\ run["dispatcher"].cmd \in Reminds /\ run["dispatcher"].pc \in Deferring
  BY DeferIs DEF Displace, At, Deferring
<1>2. PICK v \in Locals : Moves("dispatcher", v) /\ v.pc = "postpone" /\ v.cmd = run["dispatcher"].cmd
  BY <1>1, GotoMoves DEF Displace
<1>3. ChatsAlone /\ UNCHANGED <<row, post, outbox, cleaned, tries, trouble, may, job>>
  BY DEF Displace, ChatsAlone, Smoothly, scene, chats
<1>4. done' \subseteq Commands
  BY <1>1, ZenonT(60) DEF Displace, TypeOK, Locals, Commands
<1>5. TypeOK' /\ BooksSound'
  BY <1>1, <1>2, <1>3, <1>4 DEF Inv, TypeOK, BooksSound, ChatsAlone, Moves
<1>6. v.pc \in Deferring
  BY <1>2 DEF Deferring
<1> QED
  BY <1>1, <1>2, <1>3, <1>5, <1>6, DefersOn

LEMMA PostponeKeeps ==
    ASSUME Inv, Postpone
    PROVE  Inv'
<1>1. /\ TypeOK /\ "dispatcher" \in Actors /\ run["dispatcher"] \in Locals
      /\ run["dispatcher"].cmd \in Commands /\ outbox[run["dispatcher"].cmd] = "offered"
      /\ run["dispatcher"].cmd \in Reminds /\ run["dispatcher"].cmd # "auto" /\ run["dispatcher"].pc \notin Turns
  BY DeferIs DEF Postpone, At, Deferring
<1>2. PICK v \in Locals : Moves("dispatcher", v) /\ v.pc = "ack" /\ v.cmd = run["dispatcher"].cmd
  BY <1>1, AnswersMoves DEF Postpone
<1>3. /\ post' \in [made : BOOLEAN, withdrawn : BOOLEAN, stopped : BOOLEAN, completed : BOOLEAN,
                     action : Reminds \cup {"none"}, at : Times, tries : 0..MaxTries]
      /\ post'.at # "never" => post'.action \in Reminds
      /\ post'.tries < MaxTries
      /\ post'.completed = post.completed /\ post'.withdrawn = post.withdrawn /\ post'.stopped = post.stopped
  <2>1. 0 < MaxTries /\ 0 \in 0..MaxTries
    BY AnnouncementAssumption
  <2> QED
    BY <1>1, <2>1, PostTyped, ZenonT(60) DEF Postpone, Times
<1>4. ChatsAlone /\ PostGrows /\ UNCHANGED <<row, outbox, cleaned, tries, trouble, may, job, done>>
  BY <1>3 DEF Postpone, ChatsAlone, PostGrows, Smoothly, scene, chats
<1>5. TypeOK' /\ BooksSound'
  BY <1>1, <1>2, <1>3, <1>4 DEF Inv, TypeOK, BooksSound, ChatsAlone, Moves
<1> QED
  BY <1>1, <1>2, <1>3, <1>4, <1>5, DispatcherPlaces, BooksRest DEF Resting

---------------------------------------------------------------------------
(* Reminders.                                                              *)

Pingers == {"dispatcher", "pinger"}

LEMMA PingerIs ==
    ASSUME Inv, NEW a \in Actors, run[a].pc \in Pinging \cup {"remind"}
    PROVE  /\ a \in Pingers /\ run[a] \in Locals /\ run[a].cmd \in Reminds \cup {"auto"}
           /\ run[a].cmd = "auto" => a = "pinger"
           /\ a = "dispatcher" => run[a].cmd \in Commands /\ outbox[run[a].cmd] = "offered"
           /\ \A c \in run[a].seen : "text" \in known[c]
           /\ run[a].pc \in Pinging => run[a].who \in People /\ "text" \in known[run[a].who]
           /\ late[a] <= 1 /\ (late[a] > 0 => Closed /\ run[a].pc # "ping")
<1>1. ActorSound(a) /\ run[a] \in Locals
  BY DEF Inv, TypeOK
<1>2. a \in Pingers
  BY <1>1, DispatcherPlaces DEF ActorSound, Shape, Actors, Pingers, Pinging, Sending, Sweeping
<1> QED
  BY <1>1, <1>2 DEF ActorSound, Shape, PingSound, QuietSound, Pingers, Pinging, At

\* An actor goes on with its reminders.
LEMMA PingsOn ==
    ASSUME Inv, NEW a \in Pingers, NEW v, Moves(a, v), v.pc \in Pinging \cup {"remind"},
           v.cmd \in Reminds \cup {"auto"}, v.cmd = "auto" => a = "pinger",
           a = "dispatcher" => v.cmd \in Commands /\ outbox'[v.cmd] = "offered",
           \A c \in v.seen : "text" \in known'[c],
           v.pc \in Pinging => v.who \in People /\ "text" \in known'[v.who],
           late'[a] <= 1, late'[a] > 0 => Closed' /\ v.pc # "ping"
    PROVE  ActorSound(a)' /\ (a = "dispatcher" => EditSound') /\ a \in Actors /\ a # "job"
<1>1. run'[a] = v /\ a \in Actors /\ a # "job"
  BY DEF Moves, Pingers, Actors
<1>2. v.pc \in Places(a)
  BY DispatcherPlaces DEF Pingers
<1>3. Shape(a)'
  BY <1>1, <1>2 DEF Shape, Pinging, Sending, Asking
<1>4. PingSound(a)' /\ SweepSound(a)' /\ QuietSound(a)'
  BY <1>1 DEF PingSound, SweepSound, QuietSound, Pinging, Sweeping, At
<1>5. a = "dispatcher" => EditSound'
  BY <1>1 DEF EditSound, Pinging, Asking
<1> QED
  BY <1>1, <1>3, <1>4, <1>5 DEF ActorSound

LEMMA WaitingAreKnown == ASSUME Inv PROVE \A c \in Waiting : c \in People /\ "text" \in known[c]
BY DEF Inv, PersonSound, Delivered, Waiting

LEMMA RemindMoves ==
    ASSUME Inv, NEW a \in Actors, NEW k \in Reminds, Remind(a, k)
    PROVE  \E v \in Locals : Moves(a, v) /\ v.pc = "remind" /\ v.cmd = k /\ v.seen = Waiting
<1>1. Waiting \in SUBSET People /\ k \in Commands
  BY DEF Waiting, Commands
<1>2. Set(a, Fresh("remind", k, Waiting, Waiting)) /\ TypeOK
  BY DEF Remind, Fresh, Inv
<1> QED
  BY <1>1, <1>2, FreshMoves

LEMMA RemindNowKeeps ==
    ASSUME Inv, RemindNow
    PROVE  Inv'
<1>1. PICK v \in Locals : Moves("dispatcher", v) /\ v.pc = "remind" /\ v.cmd = run["dispatcher"].cmd /\ v.seen = Waiting
  BY RemindMoves, ActorsAre DEF RemindNow
<1>2. run["dispatcher"].cmd \in Commands /\ outbox[run["dispatcher"].cmd] = "offered" /\ run["dispatcher"].cmd \in Reminds
      /\ run["dispatcher"].pc \notin Turns
  BY DispatcherIs DEF RemindNow, At, Turns
<1>3. ChatsAlone /\ PostGrows /\ UNCHANGED <<row, post, outbox, cleaned, bare, tries, trouble, may, job, done>>
  BY DEF RemindNow, ChatsAlone, PostGrows, Smoothly, scene, rows, chats
<1>4. TypeOK' /\ BooksSound'
  BY <1>1, <1>3 DEF Inv, TypeOK, BooksSound, ChatsAlone, Moves
<1>5. late'["dispatcher"] <= 1 /\ (late'["dispatcher"] > 0 => Closed')
  BY <1>3, ActorsAre DEF Inv, ActorSound, QuietSound, ChatsAlone, Closed
<1>6. \A c \in v.seen : "text" \in known'[c]
  BY <1>1, <1>3, WaitingAreKnown DEF ChatsAlone
<1>7. ActorSound("dispatcher")' /\ EditSound'
  BY <1>1, <1>2, <1>3, <1>5, <1>6, PingsOn DEF Pingers, Pinging, Reminds
<1> QED
  BY <1>1, <1>2, <1>3, <1>4, <1>7, ActorsAre, Bookkeeping DEF Turns

LEMMA RemindDeferredKeeps ==
    ASSUME Inv, RemindDeferred
    PROVE  Inv'
<1>1. ChatsAlone /\ PostGrows /\ UNCHANGED <<row, post, outbox, cleaned, bare, tries, trouble, may, job>>
  BY DEF RemindDeferred, ChatsAlone, PostGrows, Smoothly, scene, chats
<1>2. post.action \in Reminds /\ run["pinger"].pc \notin Turns
  BY PostTyped DEF RemindDeferred, At, Turns
<1>3. done' \subseteq Commands
  BY <1>2 DEF RemindDeferred, Inv, TypeOK, Commands
<1>4. CASE Closed \/ post.action \in done
  <2>1. PICK v \in Locals : Moves("pinger", v) /\ v.pc = "clear" /\ v.cmd = "none"
    <3> DEFINE v == [Idle EXCEPT !.pc = "clear"]
    <3>1. v \in Locals /\ v.pc = "clear" /\ v.cmd = "none"
      BY IdleLocal DEF Locals, Idle
    <3> QED
      BY <1>4, <3>1, SetMoves, ActorsAre DEF RemindDeferred, Inv
  <2>2. TypeOK' /\ BooksSound'
    BY <1>1, <1>3, <2>1 DEF Inv, TypeOK, BooksSound, ChatsAlone, Moves
  <2> QED
    BY <1>1, <1>2, <2>1, <2>2, ActorsAre, DispatcherPlaces, BooksRest DEF Resting
<1>5. CASE ~(Closed \/ post.action \in done)
  <2>1. PICK v \in Locals : Moves("pinger", v) /\ v.pc = "remind" /\ v.cmd = post.action /\ v.seen = Waiting
    BY <1>2, <1>5, RemindMoves, ActorsAre DEF RemindDeferred
  <2>2. TypeOK' /\ BooksSound'
    BY <1>1, <1>3, <2>1 DEF Inv, TypeOK, BooksSound, ChatsAlone, Moves
  <2>3. late'["pinger"] <= 1 /\ (late'["pinger"] > 0 => Closed')
    BY <1>1, ActorsAre DEF Inv, ActorSound, QuietSound, ChatsAlone, Closed
  <2>4. \A c \in v.seen : "text" \in known'[c]
    BY <1>1, <2>1, WaitingAreKnown DEF ChatsAlone
  <2>5. ActorSound("pinger")'
    BY <1>2, <2>1, <2>3, <2>4, PingsOn DEF Pingers, Pinging, Reminds
  <2> QED
    BY <1>1, <1>2, <2>1, <2>2, <2>5, ActorsAre, Bookkeeping DEF Turns
<1> QED
  BY <1>4, <1>5

LEMMA RemindDueKeeps ==
    ASSUME Inv, RemindDue
    PROVE  Inv'
<1>1. ChatsAlone /\ PostGrows /\ UNCHANGED <<row, post, outbox, cleaned, bare, tries, trouble, may, job, done>>
  BY DEF RemindDue, ChatsAlone, PostGrows, Smoothly, scene, rows, chats
<1>2. run["pinger"].pc \notin Turns
  BY DEF RemindDue, At, Turns
<1>3. PICK v \in Locals : Moves("pinger", v) /\ v.pc = "remind" /\ v.cmd = "auto" /\ v.seen = Waiting
  <2>1. Waiting \in SUBSET People /\ {c \in People : row[c].next = "due"} \in SUBSET People
    BY DEF Waiting
  <2>2. Set("pinger", Fresh("remind", "auto", {c \in People : row[c].next = "due"}, Waiting)) /\ TypeOK
    BY DEF RemindDue, Fresh, Inv
  <2> QED
    BY <2>1, <2>2, FreshMoves, ActorsAre
<1>4. TypeOK' /\ BooksSound'
  BY <1>1, <1>3 DEF Inv, TypeOK, BooksSound, ChatsAlone, Moves
<1>5. late'["pinger"] <= 1 /\ (late'["pinger"] > 0 => Closed')
  BY <1>1, ActorsAre DEF Inv, ActorSound, QuietSound, ChatsAlone, Closed
<1>6. \A c \in v.seen : "text" \in known'[c]
  BY <1>1, <1>3, WaitingAreKnown DEF ChatsAlone
<1>7. ActorSound("pinger")'
  BY <1>3, <1>5, <1>6, PingsOn DEF Pingers, Pinging
<1> QED
  BY <1>1, <1>2, <1>3, <1>4, <1>7, ActorsAre, Bookkeeping DEF Turns

LEMMA ClearDeferredKeeps ==
    ASSUME Inv, ClearDeferred
    PROVE  Inv'
<1>1. Moves("pinger", Idle) /\ Idle \in Locals /\ Idle.pc = "idle" /\ Idle.cmd = "none"
  BY IdleMoves, ActorsAre DEF ClearDeferred, Inv
<1>2. /\ post' \in [made : BOOLEAN, withdrawn : BOOLEAN, stopped : BOOLEAN, completed : BOOLEAN,
                     action : Reminds \cup {"none"}, at : Times, tries : 0..MaxTries]
      /\ post'.at = "never" /\ post'.tries < MaxTries
      /\ post'.completed = post.completed /\ post'.withdrawn = post.withdrawn /\ post'.stopped = post.stopped
  <2>1. 0 < MaxTries /\ 0 \in 0..MaxTries
    BY AnnouncementAssumption
  <2> QED
    BY <2>1, PostTyped DEF ClearDeferred, Times
<1>3. ChatsAlone /\ PostGrows /\ UNCHANGED <<row, outbox, cleaned, bare, tries, trouble, may, job, done>>
  BY <1>2 DEF ClearDeferred, ChatsAlone, PostGrows, Smoothly, scene, chats
<1>4. TypeOK' /\ BooksSound'
  BY <1>1, <1>2, <1>3 DEF Inv, TypeOK, BooksSound, ChatsAlone, Moves
<1>5. run["pinger"].pc \notin Turns
  BY DEF ClearDeferred, At, Turns
<1> QED
  BY <1>1, <1>2, <1>3, <1>4, <1>5, ActorsAre, DispatcherPlaces, BooksRest DEF Resting

LEMMA EndRemindersKeeps ==
    ASSUME Inv, NEW a \in Pingers, EndReminders(a)
    PROVE  Inv'
<1> DEFINE k == run[a].cmd
           again == a = "pinger" /\ run[a].bad /\ post.tries + 1 < MaxTries
<1>1. /\ a \in Actors /\ run[a].pc = "remind" /\ run[a].pc \notin Turns /\ k \in Reminds \cup {"auto"}
      /\ k = "auto" => a = "pinger"
      /\ a = "dispatcher" => k \in Commands /\ outbox[k] = "offered"
  BY PingerIs DEF EndReminders, At, Pingers, Actors, Turns
<1>2. ChatsAlone /\ UNCHANGED <<row, outbox, cleaned, bare, tries, trouble, may, job>>
  BY DEF EndReminders, ChatsAlone, Smoothly, scene, chats
<1>3. /\ post' \in [made : BOOLEAN, withdrawn : BOOLEAN, stopped : BOOLEAN, completed : BOOLEAN,
                     action : Reminds \cup {"none"}, at : Times, tries : 0..MaxTries]
      /\ post'.at # "never" => post'.action \in Reminds
      /\ post'.tries < MaxTries
      /\ post'.completed = post.completed /\ post'.withdrawn = post.withdrawn /\ post'.stopped = post.stopped
  <2>1. CASE post' = post
    BY <2>1, PostTyped
  <2>2. CASE post' # post
    <3>1. post' = [post EXCEPT !.tries = @ + 1] /\ again
      BY <2>2 DEF EndReminders
    <3>2. post.tries + 1 \in 0..MaxTries /\ post.tries + 1 < MaxTries
      BY <3>1, PostTyped, AnnouncementAssumption
    <3> QED
      BY <3>1, <3>2, PostTyped
  <2> QED
    BY <2>1, <2>2
<1>4. PostGrows
  BY <1>3 DEF PostGrows
<1>5. done' \subseteq Commands
  <2>1. done \subseteq Commands
    BY DEF Inv, TypeOK
  <2>2. done' = done \/ (done' = done \cup {k} /\ k # "auto")
    BY DEF EndReminders
  <2> QED
    BY <1>1, <2>1, <2>2 DEF Commands
<1>6. PICK v \in Locals : /\ Moves(a, v) /\ v.pc \in Resting /\ v.pc \in Places(a) /\ v.cmd # "auto"
                          /\ a = "dispatcher" => v.cmd = k
  <2>1. CASE a = "dispatcher" /\ run[a].bad
    <3>1. PICK v \in Locals : Moves(a, v) /\ v.pc = "ack" /\ v.cmd = k
      BY <1>1, <2>1, AnswersMoves DEF EndReminders, Inv
    <3> QED
      BY <1>1, <2>1, <3>1, DispatcherPlaces DEF Resting
  <2>2. CASE ~(a = "dispatcher" /\ run[a].bad) /\ (k = "auto" \/ again)
    <3>1. Moves(a, Idle) /\ Idle \in Locals /\ Idle.pc = "idle" /\ Idle.cmd = "none" /\ a = "pinger"
      BY <1>1, <2>2, IdleMoves DEF EndReminders, Inv
    <3> QED
      BY <3>1, DispatcherPlaces DEF Resting
  <2>3. CASE ~(a = "dispatcher" /\ run[a].bad) /\ ~(k = "auto" \/ again) /\ a = "dispatcher"
    <3>1. PICK v \in Locals : Moves(a, v) /\ v.pc = "ack" /\ v.cmd = k
      BY <1>1, <2>3, AnswersMoves DEF EndReminders, Inv
    <3> QED
      BY <1>1, <2>3, <3>1, DispatcherPlaces DEF Resting
  <2>4. CASE ~(a = "dispatcher" /\ run[a].bad) /\ ~(k = "auto" \/ again) /\ a # "dispatcher"
    <3>1. PICK v \in Locals : Moves(a, v) /\ v.pc = "clear" /\ v.cmd = k
      BY <1>1, <2>4, GotoMoves DEF EndReminders, Inv
    <3>2. a = "pinger"
      BY <2>4 DEF Pingers
    <3> QED
      BY <2>4, <3>1, <3>2, DispatcherPlaces DEF Resting
  <2> QED
    BY <2>1, <2>2, <2>3, <2>4
<1>7. TypeOK' /\ BooksSound'
  BY <1>2, <1>3, <1>5, <1>6 DEF Inv, TypeOK, BooksSound, ChatsAlone, Moves
<1> QED
  BY <1>1, <1>2, <1>3, <1>4, <1>6, <1>7, BooksRest

---------------------------------------------------------------------------
(* Reminding one person.                                                   *)

\* How the counts of an actor's reminders follow when it moves.
LEMMA CountedMoves ==
    ASSUME Inv, NEW a \in Pingers, NEW v, Moves(a, v), NEW c \in People, TypeOK',
           run[a].pc \notin {"reset", "await", "prompt"}, v.pc \notin {"reset", "await", "prompt"},
           asked' = asked, unsure'[c] >= unsure[c], <<"EDIT", c>> \in marks' <=> <<"EDIT", c>> \in marks,
           \A k \in Reminds :
               pinged'[<<k, c>>] + One(v.pc \in {"state", "ping"} /\ v.cmd = k /\ v.who = c)
                   - unsure'[c] - One(<<k, c>> \in marks')
               <= pinged[<<k, c>>] + One(Reminding(a, k, c)) - unsure[c] - One(<<k, c>> \in marks)
    PROVE  Counted(c)'
<1>1. /\ asked[c] \in Nat /\ unsure[c] \in Nat /\ unsure'[c] \in Nat
      /\ \A k \in Reminds : pinged[<<k, c>>] \in Nat /\ pinged'[<<k, c>>] \in Nat
  BY DEF Inv, TypeOK
<1>2. Counted(c) /\ {"dispatcher", "pinger"} \subseteq Actors
  BY DEF Inv, PersonSound, Actors
<1>3. Asks(c)' <=> Asks(c)
  BY <1>2 DEF Moves, Asks, Pingers
<1>4. asked'[c] + One(Asks(c))' <= unsure'[c] + One(<<"EDIT", c>> \in marks)'
  BY <1>1, <1>2, <1>3 DEF Counted, One
<1>5. ASSUME NEW k \in Reminds
      PROVE  pinged'[<<k, c>>] + One(Reminding("dispatcher", k, c))' + One(Reminding("pinger", k, c))'
                <= unsure'[c] + One(<<k, c>> \in marks)'
  <2>1. Reminding(a, k, c)' <=> v.pc \in {"state", "ping"} /\ v.cmd = k /\ v.who = c
    BY <1>2 DEF Moves, Reminding, Pingers
  <2>2. \A b \in Pingers : b # a => (Reminding(b, k, c)' <=> Reminding(b, k, c))
    BY <1>2 DEF Moves, Reminding, Pingers
  <2>3. pinged'[<<k, c>>] + One(Reminding(a, k, c))' - unsure'[c] - One(<<k, c>> \in marks)'
               <= pinged[<<k, c>>] + One(Reminding(a, k, c)) - unsure[c] - One(<<k, c>> \in marks)
    BY <2>1 DEF One
  <2>4. pinged[<<k, c>>] + One(Reminding("dispatcher", k, c)) + One(Reminding("pinger", k, c))
                <= unsure[c] + One(<<k, c>> \in marks)
    BY <1>2 DEF Counted
  <2>5. CASE a = "dispatcher"
    <3>1. Reminding("pinger", k, c)' <=> Reminding("pinger", k, c)
      BY <2>2, <2>5 DEF Pingers
    <3> QED
      BY <1>1, <2>3, <2>4, <2>5, <3>1 DEF One
  <2>6. CASE a = "pinger"
    <3>1. Reminding("dispatcher", k, c)' <=> Reminding("dispatcher", k, c)
      BY <2>2, <2>6 DEF Pingers
    <3> QED
      BY <1>1, <2>3, <2>4, <2>6, <3>1 DEF One
  <2> QED
    BY <2>5, <2>6 DEF Pingers
<1> QED
  BY <1>4, <1>5 DEF Counted

\* A reminder step for c: it takes nothing from c but reminders and their buttons.
PingStep(a, v, c) ==
    /\ Moves(a, v) /\ v.cmd = run[a].cmd /\ v.seen = run[a].seen
    /\ run[a].pc \in Pinging \cup {"remind"} /\ (run[a].pc \in Pinging => run[a].who = c)
    /\ v.pc \in Pinging \cup {"remind"} /\ (v.pc \in Pinging => v.who = c /\ "text" \in known[c])
    /\ UNCHANGED <<to, post, delivery, tap, outbox, told, asked, cleaned, bare>>
    /\ \A x \in People : row'[x].reply = row[x].reply
    /\ \A k \in Reminds \cup {"EDIT"}, x \in People :
          (x # c \/ k = "EDIT") => (<<k, x>> \in marks' <=> <<k, x>> \in marks)
    /\ \A x \in People \ {c} :
          /\ known'[x] = known[x] /\ screen'[x] = screen[x] /\ keys'[x] = keys[x] /\ unsure'[x] = unsure[x]
          /\ \A k \in Reminds : pinged'[<<k, x>>] = pinged[<<k, x>>]
    /\ known'[c] \ {"ping"} = known[c] \ {"ping"} /\ (known[c] # known'[c] => "text" \in known[c])
    /\ screen'[c] \ {"ping", "stray"} = screen[c] \ {"ping", "stray"}
    /\ keys'[c] \ {"ping", "stray"} = keys[c] \ {"ping", "stray"}
    /\ "stray" \in keys[c] => "stray" \in keys'[c]
    /\ keys'[c] \subseteq screen'[c]
    /\ unsure'[c] >= unsure[c]
    /\ \A b \in Actors : b # a => late'[b] = late[b]

LEMMA PingKeeps ==
    ASSUME Inv, NEW a \in Actors, NEW v \in Locals, NEW c \in People, PingStep(a, v, c), TypeOK', BooksSound',
           late'[a] <= 1, late'[a] > 0 => Closed' /\ v.pc # "ping",
           \A k \in Reminds :
               pinged'[<<k, c>>] + One(v.pc \in {"state", "ping"} /\ v.cmd = k /\ v.who = c)
                   - unsure'[c] - One(<<k, c>> \in marks')
               <= pinged[<<k, c>>] + One(Reminding(a, k, c)) - unsure[c] - One(<<k, c>> \in marks)
    PROVE  Inv'
<1>1. /\ a \in Pingers /\ run[a].cmd \in Reminds \cup {"auto"} /\ (run[a].cmd = "auto" => a = "pinger")
      /\ a = "dispatcher" => run[a].cmd \in Commands /\ outbox[run[a].cmd] = "offered"
      /\ v.seen \subseteq People /\ \A x \in v.seen : "text" \in known[x]
  BY PingerIs DEF PingStep, Locals
<1>2. \A x \in People : /\ known[x] \ {"ping"} \subseteq known'[x] /\ ("text" \in known[x] => "text" \in known'[x])
                        /\ known[x] # {} => known'[x] # {}
                        /\ known[x] = {} => known'[x] = {}
                        /\ screen'[x] \cap Own = screen[x] \cap Own
                        /\ "text" \in keys[x] => "text" \in keys'[x]
  <2>1. \A x \in People \ {c} : known'[x] = known[x] /\ screen'[x] = screen[x] /\ keys'[x] = keys[x]
    BY DEF PingStep
  <2>2. /\ known[c] \ {"ping"} \subseteq known'[c] /\ ("text" \in known[c] => "text" \in known'[c])
        /\ known[c] # {} => known'[c] # {}
        /\ known[c] = {} => known'[c] = {}
    BY DEF PingStep
  <2>3. screen'[c] \cap Own = screen[c] \cap Own /\ ("text" \in keys[c] => "text" \in keys'[c])
    BY DEF PingStep, Own
  <2> QED
    BY <2>1, <2>2, <2>3
<1>3. Gentle /\ JobAside /\ DispatcherAside /\ Tidy
  BY <1>2 DEF PingStep, Gentle, JobAside, Held, Own, DispatcherAside, Tidy, Answered
<1>4. ActorSound(a)' /\ (a = "dispatcher" => EditSound') /\ a # "job"
  <2>1. /\ v.cmd \in Reminds \cup {"auto"} /\ (v.cmd = "auto" => a = "pinger") /\ Moves(a, v)
        /\ v.pc \in Pinging \cup {"remind"}
        /\ a = "dispatcher" => v.cmd \in Commands /\ outbox'[v.cmd] = "offered"
    BY <1>1 DEF PingStep
  <2>2. \A x \in v.seen : "text" \in known'[x]
    BY <1>1, <1>2 DEF PingStep
  <2>3. v.pc \in Pinging => v.who \in People /\ "text" \in known'[v.who]
    BY <1>2 DEF PingStep
  <2> QED
    BY <1>1, <2>1, <2>2, <2>3, PingsOn
<1>5. ASSUME NEW x \in People, x # c PROVE PersonSound(x)'
  <2>1. SameChat(x) /\ SameCounts(x)
    BY <1>5 DEF PingStep, SameChat, SameCounts
  <2>2. SameTurn(x)
    BY <1>5, TurnAside DEF PingStep, Turns, Pinging
  <2> QED
    BY <2>1, <2>2, PersonKept
<1>6. PersonSound(c)'
  <2>1. Asks(c)' <=> Asks(c)
    BY ActorsAre DEF PingStep, Moves, Asks, Pinging
  <2>2. Appends(c)' <=> Appends(c)
    BY ActorsAre DEF PingStep, Moves, Appends, Pinging, At
  <2>3. Delivered(c)'
    <3>1. /\ delivery'[c] = delivery[c] /\ told'[c] = told[c] /\ row'[c].reply = row[c].reply /\ tap'[c] = tap[c]
          /\ known[c] = {} => known'[c] = {}
          /\ \A m \in {"text", "part", "prompt", "stray"} : m \in known'[c] <=> m \in known[c]
          /\ \A m \in {"text", "part", "prompt"} : m \in screen'[c] <=> m \in screen[c]
          /\ keys'[c] \subseteq screen'[c]
          /\ known'[c] # {} => known[c] # {}
      BY DEF PingStep
    <3>2. Delivered(c)
      BY DEF Inv, PersonSound
    <3> QED
      BY <2>2, <3>1, <3>2 DEF Delivered, New
  <2>4. Counted(c)'
    BY <1>1, CountedMoves, ZenonT(30) DEF PingStep, Pinging
  <2>5. CanAnswer(c)'
    <3>1. /\ row'[c].reply = row[c].reply /\ tap'[c] = tap[c] /\ asked'[c] = asked[c] /\ unsure'[c] >= unsure[c]
          /\ <<"EDIT", c>> \in marks' <=> <<"EDIT", c>> \in marks
          /\ \A m \in {"text", "prompt"} : /\ m \in screen'[c] <=> m \in screen[c]
                                           /\ m \in keys'[c] <=> m \in keys[c]
          /\ "stray" \in keys[c] => "stray" \in keys'[c]
          /\ post' = post /\ bare' = bare
      BY DEF PingStep
    <3>2. CanAnswer(c) /\ asked[c] \in Nat /\ unsure[c] \in Nat /\ unsure'[c] \in Nat
      BY DEF Inv, PersonSound, TypeOK
    <3>3. Unasked(c) => Unasked(c)'
      BY <3>1, <3>2 DEF Unasked
    <3>4. keys[c] \cap {"text", "prompt", "stray"} # {} => keys'[c] \cap {"text", "prompt", "stray"} # {}
      BY <3>1
    <3> QED
      BY <2>1, <3>1, <3>2, <3>3, <3>4 DEF CanAnswer
  <2> QED
    BY <2>3, <2>4, <2>5 DEF PersonSound
<1>7. \A x \in People : PersonSound(x)'
  BY <1>5, <1>6
<1>8. /\ Moves(a, v) /\ to' = to /\ post' = post /\ cleaned' = cleaned
      /\ \A b \in Actors : b # a => late'[b] = late[b]
  BY DEF PingStep
<1> QED
  BY <1>3, <1>4, <1>7, <1>8, StepKept

\* What every reminder step has in hand.
LEMMA PingFrom ==
    ASSUME Inv, NEW a \in Actors, run[a].pc \in Pinging \cup {"remind"}
    PROVE  /\ TypeOK /\ BooksSound /\ a \in Pingers /\ run[a] \in Locals /\ post.tries < MaxTries
           /\ \A c \in run[a].seen : c \in People /\ "text" \in known[c]
           /\ run[a].pc \in Pinging => run[a].who \in People /\ "text" \in known[run[a].who]
           /\ late[a] <= 1 /\ (late[a] > 0 => Closed /\ run[a].pc # "ping")
           /\ \A x \in People : keys[x] \subseteq screen[x] /\ keys[x] \in SUBSET Messages
<1>1. /\ a \in Pingers /\ run[a] \in Locals
      /\ \A c \in run[a].seen : "text" \in known[c]
      /\ run[a].pc \in Pinging => run[a].who \in People /\ "text" \in known[run[a].who]
      /\ late[a] <= 1 /\ (late[a] > 0 => Closed /\ run[a].pc # "ping")
  BY PingerIs
<1>2. run[a].seen \subseteq People
  BY <1>1 DEF Locals
<1>3. \A x \in People : keys[x] \subseteq screen[x] /\ keys[x] \in SUBSET Messages
  BY DEF Inv, PersonSound, Delivered, TypeOK
<1> QED
  BY <1>1, <1>2, <1>3 DEF Inv, BooksSound

LEMMA ClaimReminderKeeps ==
    ASSUME Inv, NEW a \in Actors, NEW c \in People, ClaimReminder(a, c)
    PROVE  Inv'
<1> DEFINE k == run[a].cmd
<1>1. run[a].pc = "remind" /\ c \in run[a].todo /\ c \in run[a].seen
  BY DEF ClaimReminder, At
<1>2. /\ TypeOK /\ a \in Pingers /\ run[a] \in Locals /\ "text" \in known[c]
      /\ late[a] <= 1 /\ (late[a] > 0 => Closed) /\ \A x \in People : keys[x] \subseteq screen[x]
  BY <1>1, PingFrom
<1>3. k \in Reminds \cup {"auto"}
  BY <1>1, PingerIs
<1>4. UNCHANGED <<to, post, delivery, row, known, tap, outbox, tries, done, job, may, trouble, screen, keys, told, pinged, asked,
                  unsure, late, cleaned, bare>>
  BY DEF ClaimReminder, Smoothly, scene, chats
<1>5. CASE <<k, c>> \in marks
  <2>1. PICK v \in Locals : /\ Moves(a, v) /\ v.pc = "remind" /\ v.cmd = k /\ v.seen = run[a].seen
    <3> DEFINE v == [run[a] EXCEPT !.todo = @ \ {c}]
    <3>1. v \in Locals /\ v.pc = "remind" /\ v.cmd = k /\ v.seen = run[a].seen
      BY <1>1, <1>2 DEF Locals
    <3>2. Moves(a, v)
      BY <1>2, <1>5, <3>1, SetMoves DEF ClaimReminder
    <3> HIDE DEF v
    <3> QED
      BY <3>1, <3>2
  <2>2. marks' = marks
    BY <1>5 DEF ClaimReminder
  <2>3. PingStep(a, v, c)
    BY <1>1, <1>2, <1>4, <2>1, <2>2 DEF PingStep, Pinging, TypeOK
  <2>4. TypeOK' /\ BooksSound'
    BY <1>2, <1>4, <2>1, <2>2 DEF TypeOK, Moves, Inv, BooksSound
  <2>5. \A i \in Reminds : ~Reminding(a, i, c) /\ v.pc \notin {"state", "ping"}
    BY <1>1, <2>1 DEF Reminding
  <2>6. late'[a] <= 1 /\ (late'[a] > 0 => Closed' /\ v.pc # "ping")
    BY <1>2, <1>4, <2>1 DEF Closed
  <2>7. ASSUME NEW i \in Reminds
        PROVE  pinged'[<<i, c>>] + One(v.pc \in {"state", "ping"} /\ v.cmd = i /\ v.who = c)
                   - unsure'[c] - One(<<i, c>> \in marks')
               <= pinged[<<i, c>>] + One(Reminding(a, i, c)) - unsure[c] - One(<<i, c>> \in marks)
    <3>1. pinged[<<i, c>>] \in Nat /\ unsure[c] \in Nat
      BY <1>2 DEF TypeOK
    <3> QED
      BY <1>4, <2>2, <2>5, <3>1 DEF One
  <2> QED
    BY <2>3, <2>4, <2>6, <2>7, PingKeeps
<1>6. CASE <<k, c>> \notin marks
  <2>1. PICK v \in Locals : /\ Moves(a, v) /\ v.pc = "state" /\ v.cmd = k /\ v.seen = run[a].seen /\ v.who = c
    <3> DEFINE v == [run[a] EXCEPT !.pc = "state", !.who = c, !.todo = @ \ {c}]
    <3>1. v \in Locals /\ v.pc = "state" /\ v.cmd = k /\ v.seen = run[a].seen /\ v.who = c
      BY <1>1, <1>2 DEF Locals
    <3>2. Moves(a, v)
      BY <1>2, <1>6, <3>1, SetMoves DEF ClaimReminder
    <3> HIDE DEF v
    <3> QED
      BY <3>1, <3>2
  <2>2. marks' = IF k = "auto" THEN marks ELSE marks \cup {<<k, c>>}
    BY <1>6 DEF ClaimReminder
  <2>3. \A i \in Reminds \cup {"EDIT"}, x \in People : (x # c \/ i = "EDIT") => (<<i, x>> \in marks' <=> <<i, x>> \in marks)
    BY <1>3, <2>2 DEF Reminds
  <2>4. PingStep(a, v, c)
    BY <1>1, <1>2, <1>4, <2>1, <2>3 DEF PingStep, Pinging, TypeOK
  <2>5. marks' \subseteq (Reminds \cup {"EDIT"}) \X People
    BY <1>2, <1>3, <2>2 DEF TypeOK
  <2>6. TypeOK' /\ BooksSound'
    BY <1>2, <1>4, <2>1, <2>5 DEF TypeOK, Moves, Inv, BooksSound
  <2>7. late'[a] <= 1 /\ (late'[a] > 0 => Closed' /\ v.pc # "ping")
    BY <1>2, <1>4, <2>1 DEF Closed
  <2>8. ASSUME NEW i \in Reminds
        PROVE  pinged'[<<i, c>>] + One(v.pc \in {"state", "ping"} /\ v.cmd = i /\ v.who = c)
                   - unsure'[c] - One(<<i, c>> \in marks')
               <= pinged[<<i, c>>] + One(Reminding(a, i, c)) - unsure[c] - One(<<i, c>> \in marks)
    <3>1. pinged[<<i, c>>] \in Nat /\ unsure[c] \in Nat /\ ~Reminding(a, i, c)
      BY <1>1, <1>2 DEF TypeOK, Reminding
    <3>2. i # "auto"
      BY DEF Reminds
    <3>3. CASE i = k
      <4>1. <<i, c>> \in marks' /\ <<i, c>> \notin marks
        BY <1>6, <2>2, <3>2, <3>3
      <4> QED
        BY <1>4, <2>1, <3>1, <3>3, <4>1 DEF One
    <3>4. CASE i # k
      <4>1. <<i, c>> \in marks' <=> <<i, c>> \in marks
        BY <2>2, <3>4
      <4> QED
        BY <1>4, <2>1, <3>1, <3>4, <4>1 DEF One
    <3> QED
      BY <3>3, <3>4
  <2> QED
    BY <2>4, <2>6, <2>7, <2>8, PingKeeps
<1> QED
  BY <1>5, <1>6

LEMMA ReadReminderStateKeeps ==
    ASSUME Inv, NEW a \in Actors, ReadReminderState(a)
    PROVE  Inv'
<1> DEFINE k == run[a].cmd
           c == run[a].who
<1>1. run[a].pc = "state"
  BY DEF ReadReminderState, At
<1>2. /\ TypeOK /\ a \in Pingers /\ run[a] \in Locals /\ c \in People /\ "text" \in known[c]
      /\ late[a] <= 1 /\ (late[a] > 0 => Closed) /\ \A x \in People : keys[x] \subseteq screen[x]
  BY <1>1, PingFrom DEF Pinging
<1>3. UNCHANGED <<to, post, delivery, row, known, tap, outbox, tries, done, job, may, trouble, screen, keys, told, pinged, asked,
                  unsure, late, cleaned, bare>>
  BY DEF ReadReminderState, Smoothly, scene, chats
<1>4. PICK v \in Locals : /\ Moves(a, v) /\ v.cmd = k /\ v.seen = run[a].seen
                          /\ \/ Closed /\ v.pc = "remind" /\ marks' = marks \ {<<k, c>>}
                             \/ ~Closed /\ v.pc = "ping" /\ v.who = c /\ marks' = marks
  <2>1. CASE Closed
    <3>1. run[a].bad \in BOOLEAN /\ Resume(a, "remind", run[a].bad) /\ marks' = marks \ {<<k, c>>}
      BY <1>2, <2>1 DEF ReadReminderState, Locals
    <3> QED
      BY <1>2, <2>1, <3>1, ResumeMoves
  <2>2. CASE ~Closed
    <3>1. Goto(a, "ping") /\ marks' = marks
      BY <2>2 DEF ReadReminderState
    <3> QED
      BY <1>2, <2>2, <3>1, GotoMoves
  <2> QED
    BY <2>1, <2>2
<1>5. k # "EDIT"
  BY <1>1, PingerIs DEF Pinging, Reminds
<1>6. \A i \in Reminds \cup {"EDIT"}, x \in People : (x # c \/ i = "EDIT") => (<<i, x>> \in marks' <=> <<i, x>> \in marks)
  BY <1>4, <1>5
<1>7. PingStep(a, v, c)
  <2>1. /\ Moves(a, v) /\ v.cmd = k /\ v.seen = run[a].seen /\ v.pc \in Pinging \cup {"remind"}
        /\ v.pc \in Pinging => v.who = c
    BY <1>4 DEF Pinging
  <2>2. unsure'[c] >= unsure[c]
    BY <1>2, <1>3 DEF TypeOK
  <2> QED
    BY <1>1, <1>2, <1>3, <1>6, <2>1, <2>2 DEF PingStep, Pinging
<1>8. TypeOK' /\ BooksSound'
  <2>1. marks' \subseteq (Reminds \cup {"EDIT"}) \X People
    BY <1>2, <1>4 DEF TypeOK
  <2> QED
    BY <1>2, <1>3, <1>4, <2>1 DEF TypeOK, Moves, Inv, BooksSound
<1>9. late'[a] <= 1 /\ (late'[a] > 0 => Closed' /\ v.pc # "ping")
  BY <1>2, <1>3, <1>4 DEF Closed
<1>10. ASSUME NEW i \in Reminds
       PROVE  pinged'[<<i, c>>] + One(v.pc \in {"state", "ping"} /\ v.cmd = i /\ v.who = c)
                   - unsure'[c] - One(<<i, c>> \in marks')
               <= pinged[<<i, c>>] + One(Reminding(a, i, c)) - unsure[c] - One(<<i, c>> \in marks)
  <2>1. pinged[<<i, c>>] \in Nat /\ unsure[c] \in Nat /\ (Reminding(a, i, c) <=> i = k)
    BY <1>1, <1>2 DEF TypeOK, Reminding
  <2>2. i # k \/ ~Closed => (<<i, c>> \in marks' <=> <<i, c>> \in marks)
    BY <1>4
  <2> QED
    BY <1>3, <1>4, <2>1, <2>2 DEF One
<1> QED
  BY <1>2, <1>7, <1>8, <1>9, <1>10, PingKeeps

LEMMA RecordPingKeeps ==
    ASSUME Inv, NEW a \in Actors, RecordPing(a)
    PROVE  Inv'
<1> DEFINE k == run[a].cmd
           c == run[a].who
<1>1. run[a].pc = "record"
  BY DEF RecordPing, At
<1>2. /\ TypeOK /\ a \in Pingers /\ run[a] \in Locals /\ c \in People /\ "text" \in known[c]
      /\ late[a] <= 1 /\ (late[a] > 0 => Closed) /\ \A x \in People : keys[x] \subseteq screen[x]
  BY <1>1, PingFrom DEF Pinging
<1>3. UNCHANGED <<to, post, delivery, marks, tap, outbox, tries, done, job, may, trouble, screen, keys, told, pinged, asked,
                  unsure, late, cleaned, bare>>
  BY DEF RecordPing, Smoothly, scene, chats
<1>4. PICK v \in Locals : Moves(a, v) /\ v.pc = "remind" /\ v.cmd = k /\ v.seen = run[a].seen
  <2>1. run[a].bad \in BOOLEAN /\ Resume(a, "remind", run[a].bad)
    BY <1>2 DEF RecordPing, Locals
  <2> QED
    BY <1>2, <2>1, ResumeMoves
<1>5. known' = [known EXCEPT ![c] = @ \cup {"ping"}] /\ row' \in [People -> RowType] /\ \A x \in People : row'[x].reply = row[x].reply
  BY <1>2, SMTT(30) DEF RecordPing, TypeOK, RowType, Times
<1>6. PingStep(a, v, c)
  BY <1>1, <1>2, <1>3, <1>4, <1>5 DEF PingStep, Pinging, TypeOK
<1>7. TypeOK' /\ BooksSound'
  BY <1>2, <1>3, <1>4, <1>5 DEF TypeOK, Moves, Inv, BooksSound, Messages
<1>8. late'[a] <= 1 /\ (late'[a] > 0 => Closed' /\ v.pc # "ping")
  BY <1>2, <1>3, <1>4 DEF Closed
<1>9. ASSUME NEW i \in Reminds
      PROVE  pinged'[<<i, c>>] + One(v.pc \in {"state", "ping"} /\ v.cmd = i /\ v.who = c)
                   - unsure'[c] - One(<<i, c>> \in marks')
               <= pinged[<<i, c>>] + One(Reminding(a, i, c)) - unsure[c] - One(<<i, c>> \in marks)
  <2>1. pinged[<<i, c>>] \in Nat /\ unsure[c] \in Nat /\ ~Reminding(a, i, c)
    BY <1>1, <1>2 DEF TypeOK, Reminding
  <2> QED
    BY <1>3, <1>4, <2>1 DEF One
<1> QED
  BY <1>2, <1>6, <1>7, <1>8, <1>9, PingKeeps

LEMMA SendPingKeeps ==
    ASSUME Inv, NEW a \in Actors, SendPing(a)
    PROVE  Inv'
<1> DEFINE k == run[a].cmd
           c == run[a].who
<1>1. run[a].pc = "ping"
  BY DEF SendPing, At
<1>2. /\ TypeOK /\ a \in Pingers /\ run[a] \in Locals /\ c \in People /\ "text" \in known[c] /\ k \in Reminds \cup {"auto"}
      /\ late[a] = 0 /\ \A x \in People : keys[x] \subseteq screen[x]
  <2>1. late[a] \in Nat
    BY DEF Inv, TypeOK
  <2> QED
    BY <1>1, <2>1, PingFrom, PingerIs DEF Pinging
<1>3. UNCHANGED <<to, post, delivery, row, marks, tap, outbox, tries, done, job, may, trouble, told, asked, unsure, cleaned, bare>>
  BY DEF SendPing, Smoothly, scene
<1>4. PICK v \in Locals : Moves(a, v) /\ v.pc = "record" /\ v.cmd = k /\ v.seen = run[a].seen /\ v.who = c
  BY <1>2, GotoMoves DEF SendPing
<1>5. /\ known' = [known EXCEPT ![c] = @ \ {"ping"}]
      /\ screen' = [screen EXCEPT ![c] = @ \cup {"ping"}] /\ keys' = [keys EXCEPT ![c] = @ \cup {"ping"}]
      /\ pinged' = IF k = "auto" THEN pinged ELSE [pinged EXCEPT ![<<k, c>>] = @ + 1]
      /\ late' = IF Closed THEN [late EXCEPT ![a] = @ + 1] ELSE late
  BY DEF SendPing, Shows, Count
<1>6. \A i \in Reminds, x \in People : <<i, x>> # <<k, c>> => pinged'[<<i, x>>] = pinged[<<i, x>>]
  BY <1>2, <1>5 DEF TypeOK
<1>7. PingStep(a, v, c)
  <2>1. \A x \in People \ {c} :
          /\ known'[x] = known[x] /\ screen'[x] = screen[x] /\ keys'[x] = keys[x]
          /\ \A i \in Reminds : pinged'[<<i, x>>] = pinged[<<i, x>>]
    BY <1>2, <1>5, <1>6 DEF TypeOK
  <2>2. /\ known'[c] = known[c] \ {"ping"} /\ screen'[c] = screen[c] \cup {"ping"} /\ keys'[c] = keys[c] \cup {"ping"}
    BY <1>2, <1>5 DEF TypeOK
  <2>3. \A b \in Actors : b # a => late'[b] = late[b]
    BY <1>2, <1>5 DEF TypeOK
  <2> QED
    BY <1>1, <1>2, <1>3, <1>4, <2>1, <2>2, <2>3 DEF PingStep, Pinging, TypeOK
<1>8. TypeOK' /\ BooksSound'
  <2>1. known' \in [People -> SUBSET Messages] /\ screen' \in [People -> SUBSET Messages] /\ keys' \in [People -> SUBSET Messages]
    BY <1>2, <1>5 DEF TypeOK, Messages
  <2>2. pinged' \in [Reminds \X People -> Nat] /\ late' \in [Actors -> Nat]
    BY <1>2, <1>5 DEF TypeOK
  <2> QED
    BY <1>2, <1>3, <1>4, <2>1, <2>2 DEF TypeOK, Moves, Inv, BooksSound
<1>9. late'[a] <= 1 /\ (late'[a] > 0 => Closed' /\ v.pc # "ping")
  BY <1>2, <1>3, <1>4, <1>5 DEF Closed, TypeOK
<1>10. ASSUME NEW i \in Reminds
       PROVE  pinged'[<<i, c>>] + One(v.pc \in {"state", "ping"} /\ v.cmd = i /\ v.who = c)
                   - unsure'[c] - One(<<i, c>> \in marks')
               <= pinged[<<i, c>>] + One(Reminding(a, i, c)) - unsure[c] - One(<<i, c>> \in marks)
  <2>1. pinged[<<i, c>>] \in Nat /\ unsure[c] \in Nat /\ (Reminding(a, i, c) <=> i = k)
    BY <1>1, <1>2 DEF TypeOK, Reminding
  <2>2. pinged'[<<i, c>>] = pinged[<<i, c>>] + One(i = k)
    <3>1. CASE i = k
      <4>1. k # "auto" /\ <<k, c>> \in Reminds \X People
        BY <1>2, <3>1 DEF Reminds
      <4> QED
        BY <1>2, <1>5, <3>1, <4>1 DEF One, TypeOK
    <3>2. CASE i # k
      BY <1>2, <1>6, <2>1, <3>2 DEF One
    <3> QED
      BY <3>1, <3>2
  <2> QED
    BY <1>3, <1>4, <2>1, <2>2 DEF One
<1> QED
  BY <1>2, <1>7, <1>8, <1>9, <1>10, PingKeeps

LEMMA PingFailsKeeps ==
    ASSUME Inv, NEW a \in Actors, NEW ends \in BOOLEAN, PingFails(a, ends)
    PROVE  Inv'
<1> DEFINE k == run[a].cmd
           c == run[a].who
<1>1. run[a].pc = "ping"
  BY DEF PingFails, At
<1>2. /\ TypeOK /\ a \in Pingers /\ run[a] \in Locals /\ c \in People /\ "text" \in known[c] /\ k # "EDIT"
      /\ late[a] <= 1 /\ (late[a] > 0 => Closed) /\ \A x \in People : keys[x] \subseteq screen[x]
  BY <1>1, PingFrom, PingerIs DEF Pinging, Reminds
<1>3. UNCHANGED <<to, post, delivery, known, tap, outbox, tries, done, job, may, trouble, told, pinged, asked, unsure, late, cleaned, bare>>
  BY DEF PingFails, Smoothly, scene
<1>4. PICK v \in Locals : Moves(a, v) /\ v.pc = "remind" /\ v.cmd = k /\ v.seen = run[a].seen
  <2>1. \E bad \in BOOLEAN : Resume(a, "remind", bad)
    BY <1>2 DEF PingFails, Locals
  <2> QED
    BY <1>2, <2>1, ResumeMoves
<1>5. /\ screen' = [screen EXCEPT ![c] = @ \ ({"ping"} \cap known[c])]
      /\ keys' = [keys EXCEPT ![c] = @ \ ({"ping"} \cap known[c])]
      /\ marks' = marks \/ marks' = marks \ {<<k, c>>}
  BY DEF PingFails, OldPing
<1>6. row' \in [People -> RowType] /\ \A x \in People : row'[x].reply = row[x].reply
  <2>1. row' = row \/ row' = [row EXCEPT ![c].next = "never"]
    BY DEF PingFails
  <2> QED
    BY <1>2, <2>1, NextAlone DEF Times, TypeOK
<1>7. /\ marks' \subseteq (Reminds \cup {"EDIT"}) \X People
      /\ \A i \in Reminds \cup {"EDIT"}, x \in People : (x # c \/ i # k) => (<<i, x>> \in marks' <=> <<i, x>> \in marks)
  BY <1>2, <1>5 DEF TypeOK
<1>8. PingStep(a, v, c)
  <2>1. /\ \A x \in People \ {c} : screen'[x] = screen[x] /\ keys'[x] = keys[x]
        /\ screen'[c] = screen[c] \ ({"ping"} \cap known[c])
        /\ keys'[c] = keys[c] \ ({"ping"} \cap known[c])
        /\ unsure'[c] >= unsure[c]
    BY <1>2, <1>3, <1>5 DEF TypeOK
  <2>2. \A i \in Reminds \cup {"EDIT"}, x \in People : (x # c \/ i = "EDIT") => (<<i, x>> \in marks' <=> <<i, x>> \in marks)
    BY <1>2, <1>7
  <2> QED
    BY <1>1, <1>2, <1>3, <1>4, <1>6, <2>1, <2>2 DEF PingStep, Pinging
<1>9. TypeOK' /\ BooksSound'
  <2>1. screen' \in [People -> SUBSET Messages] /\ keys' \in [People -> SUBSET Messages]
    BY <1>2, <1>5 DEF TypeOK
  <2> QED
    BY <1>2, <1>3, <1>4, <1>6, <1>7, <2>1 DEF TypeOK, Moves, Inv, BooksSound
<1>10. late'[a] <= 1 /\ (late'[a] > 0 => Closed' /\ v.pc # "ping")
  BY <1>2, <1>3, <1>4 DEF Closed
<1>11. ASSUME NEW i \in Reminds
       PROVE  pinged'[<<i, c>>] + One(v.pc \in {"state", "ping"} /\ v.cmd = i /\ v.who = c)
                   - unsure'[c] - One(<<i, c>> \in marks')
               <= pinged[<<i, c>>] + One(Reminding(a, i, c)) - unsure[c] - One(<<i, c>> \in marks)
  <2>1. pinged[<<i, c>>] \in Nat /\ unsure[c] \in Nat /\ (Reminding(a, i, c) <=> i = k)
    BY <1>1, <1>2 DEF TypeOK, Reminding
  <2>2. i # k => (<<i, c>> \in marks' <=> <<i, c>> \in marks)
    BY <1>2, <1>7
  <2> QED
    BY <1>3, <1>4, <2>1, <2>2 DEF One
<1> QED
  BY <1>2, <1>8, <1>9, <1>10, <1>11, PingKeeps

LEMMA PingUnsureKeeps ==
    ASSUME Inv, NEW a \in Actors, PingUnsure(a)
    PROVE  Inv'
<1> DEFINE k == run[a].cmd
           c == run[a].who
<1>1. run[a].pc = "ping"
  BY DEF PingUnsure, At
<1>2. /\ TypeOK /\ a \in Pingers /\ run[a] \in Locals /\ c \in People /\ "text" \in known[c]
      /\ k \in Reminds \cup {"auto"} /\ k # "EDIT"
      /\ late[a] = 0 /\ \A x \in People : keys[x] \subseteq screen[x]
  <2>1. late[a] \in Nat
    BY DEF Inv, TypeOK
  <2> QED
    BY <1>1, <2>1, PingFrom, PingerIs DEF Pinging, Reminds
<1>3. UNCHANGED <<to, post, delivery, row, known, tap, outbox, tries, done, job, may, told, asked, cleaned, bare>>
      /\ trouble' \in 0..MaxTrouble
  BY AnnouncementAssumption DEF PingUnsure, Trouble, scene, Inv, TypeOK
<1>4. PICK v \in Locals : Moves(a, v) /\ v.pc = "remind" /\ v.cmd = k /\ v.seen = run[a].seen
  BY <1>2, ResumeMoves DEF PingUnsure
<1>5. /\ screen' = [screen EXCEPT ![c] = (@ \ ({"ping"} \cap known[c])) \cup {"stray"}]
      /\ keys' = [keys EXCEPT ![c] = (@ \ ({"ping"} \cap known[c])) \cup {"stray"}]
      /\ marks' = marks \ {<<k, c>>}
      /\ unsure' = [unsure EXCEPT ![c] = @ + 1]
      /\ pinged' = IF k = "auto" THEN pinged ELSE [pinged EXCEPT ![<<k, c>>] = @ + 1]
      /\ late' = IF Closed THEN [late EXCEPT ![a] = @ + 1] ELSE late
  BY DEF PingUnsure, OldPing, Count
<1>6. \A i \in Reminds, x \in People : <<i, x>> # <<k, c>> => pinged'[<<i, x>>] = pinged[<<i, x>>]
  BY <1>2, <1>5 DEF TypeOK
<1>7. /\ marks' \subseteq (Reminds \cup {"EDIT"}) \X People
      /\ \A i \in Reminds \cup {"EDIT"}, x \in People : (x # c \/ i # k) => (<<i, x>> \in marks' <=> <<i, x>> \in marks)
  BY <1>2, <1>5 DEF TypeOK
<1>8. unsure[c] \in Nat /\ unsure'[c] = unsure[c] + 1 /\ \A x \in People \ {c} : unsure'[x] = unsure[x]
  BY <1>2, <1>5 DEF TypeOK
<1>9. PingStep(a, v, c)
  <2>1. \A x \in People \ {c} :
          /\ screen'[x] = screen[x] /\ keys'[x] = keys[x]
          /\ \A i \in Reminds : pinged'[<<i, x>>] = pinged[<<i, x>>]
    BY <1>2, <1>5, <1>6 DEF TypeOK
  <2>2. /\ screen'[c] = (screen[c] \ ({"ping"} \cap known[c])) \cup {"stray"}
        /\ keys'[c] = (keys[c] \ ({"ping"} \cap known[c])) \cup {"stray"}
    BY <1>2, <1>5 DEF TypeOK
  <2>3. \A b \in Actors : b # a => late'[b] = late[b]
    BY <1>2, <1>5 DEF TypeOK
  <2>4. \A i \in Reminds \cup {"EDIT"}, x \in People : (x # c \/ i = "EDIT") => (<<i, x>> \in marks' <=> <<i, x>> \in marks)
    BY <1>2, <1>7
  <2>5. unsure'[c] >= unsure[c]
    BY <1>8
  <2> QED
    BY <1>1, <1>2, <1>3, <1>4, <1>8, <2>1, <2>2, <2>3, <2>4, <2>5 DEF PingStep, Pinging
<1>10. TypeOK' /\ BooksSound'
  <2>1. screen' \in [People -> SUBSET Messages] /\ keys' \in [People -> SUBSET Messages]
    BY <1>2, <1>5 DEF TypeOK, Messages
  <2>2. pinged' \in [Reminds \X People -> Nat] /\ late' \in [Actors -> Nat] /\ unsure' \in [People -> Nat]
    BY <1>2, <1>5 DEF TypeOK
  <2> QED
    BY <1>2, <1>3, <1>4, <1>7, <2>1, <2>2 DEF TypeOK, Moves, Inv, BooksSound
<1>11. late'[a] <= 1 /\ (late'[a] > 0 => Closed' /\ v.pc # "ping")
  BY <1>2, <1>3, <1>4, <1>5 DEF Closed, TypeOK
<1>12. ASSUME NEW i \in Reminds
       PROVE  pinged'[<<i, c>>] + One(v.pc \in {"state", "ping"} /\ v.cmd = i /\ v.who = c)
                   - unsure'[c] - One(<<i, c>> \in marks')
               <= pinged[<<i, c>>] + One(Reminding(a, i, c)) - unsure[c] - One(<<i, c>> \in marks)
  <2>1. pinged[<<i, c>>] \in Nat /\ (Reminding(a, i, c) <=> i = k)
    BY <1>1, <1>2 DEF TypeOK, Reminding
  <2>2. pinged'[<<i, c>>] = pinged[<<i, c>>] + One(i = k)
    <3>1. CASE i = k
      <4>1. k # "auto" /\ <<k, c>> \in Reminds \X People
        BY <1>2, <3>1 DEF Reminds
      <4> QED
        BY <1>2, <1>5, <3>1, <4>1 DEF One, TypeOK
    <3>2. CASE i # k
      BY <1>2, <1>6, <2>1, <3>2 DEF One
    <3> QED
      BY <3>1, <3>2
  <2>3. i # k => (<<i, c>> \in marks' <=> <<i, c>> \in marks)
    BY <1>2, <1>7
  <2> QED
    BY <1>4, <1>8, <2>1, <2>2, <2>3 DEF One
<1> QED
  BY <1>2, <1>9, <1>10, <1>11, <1>12, PingKeeps

\* The pinger takes somebody off its list without reminding her.
LEMMA PassedOverKeeps ==
    ASSUME Inv, NEW c \in People, PutOff(c) \/ StopTracking(c)
    PROVE  Inv'
<1>1. run["pinger"].pc = "remind" /\ "pinger" \in Actors
  BY ActorsAre DEF PutOff, StopTracking, At
<1>2. /\ TypeOK /\ run["pinger"] \in Locals
      /\ late["pinger"] <= 1 /\ (late["pinger"] > 0 => Closed) /\ \A x \in People : keys[x] \subseteq screen[x]
  BY <1>1, PingFrom DEF Pinging
<1>3. UNCHANGED <<to, post, delivery, known, marks, tap, outbox, tries, done, job, may, trouble, told, pinged, asked, unsure,
                  late, cleaned, bare>>
  BY DEF PutOff, StopTracking, Smoothly, scene, chats
<1>4. PICK v \in Locals : Moves("pinger", v) /\ v.pc = "remind" /\ v.cmd = run["pinger"].cmd /\ v.seen = run["pinger"].seen
  <2> DEFINE v == [run["pinger"] EXCEPT !.todo = @ \ {c}]
  <2>1. v \in Locals /\ v.pc = "remind" /\ v.cmd = run["pinger"].cmd /\ v.seen = run["pinger"].seen
    BY <1>1, <1>2 DEF Locals
  <2>2. Moves("pinger", v)
    BY <1>1, <1>2, <2>1, SetMoves DEF PutOff, StopTracking
  <2> HIDE DEF v
  <2> QED
    BY <2>1, <2>2
<1>5. row' \in [People -> RowType] /\ \A x \in People : row'[x].reply = row[x].reply
  <2>1. \E next \in Times : row' = [row EXCEPT ![c].next = next]
    BY DEF PutOff, StopTracking, Times
  <2> QED
    BY <1>2, <2>1, NextAlone
<1>6. \E gone \in SUBSET {"ping"} : screen' = [screen EXCEPT ![c] = @ \ gone] /\ keys' = [keys EXCEPT ![c] = @ \ gone]
  <2>1. CASE PutOff(c)
    <3>1. screen' = [screen EXCEPT ![c] = @ \ {}] /\ keys' = [keys EXCEPT ![c] = @ \ {}]
      BY <1>2, <2>1 DEF PutOff, chats, TypeOK
    <3> QED
      BY <3>1
  <2>2. CASE StopTracking(c)
    BY <2>2 DEF StopTracking
  <2> QED
    BY <2>1, <2>2
<1>7. PingStep("pinger", v, c)
  <2>1. PICK gone \in SUBSET {"ping"} : screen' = [screen EXCEPT ![c] = @ \ gone] /\ keys' = [keys EXCEPT ![c] = @ \ gone]
    BY <1>6
  <2>2. /\ \A x \in People \ {c} : screen'[x] = screen[x] /\ keys'[x] = keys[x]
        /\ screen'[c] = screen[c] \ gone /\ keys'[c] = keys[c] \ gone /\ unsure'[c] >= unsure[c]
    BY <1>2, <1>3, <2>1 DEF TypeOK
  <2> QED
    BY <1>1, <1>2, <1>3, <1>4, <1>5, <2>2 DEF PingStep, Pinging
<1>8. TypeOK' /\ BooksSound'
  <2>1. screen' \in [People -> SUBSET Messages] /\ keys' \in [People -> SUBSET Messages]
    BY <1>2, <1>6 DEF TypeOK
  <2> QED
    BY <1>2, <1>3, <1>4, <1>5, <2>1 DEF TypeOK, Moves, Inv, BooksSound
<1>9. late'["pinger"] <= 1 /\ (late'["pinger"] > 0 => Closed' /\ v.pc # "ping")
  BY <1>2, <1>3, <1>4 DEF Closed
<1>10. ASSUME NEW i \in Reminds
       PROVE  pinged'[<<i, c>>] + One(v.pc \in {"state", "ping"} /\ v.cmd = i /\ v.who = c)
                   - unsure'[c] - One(<<i, c>> \in marks')
               <= pinged[<<i, c>>] + One(Reminding("pinger", i, c)) - unsure[c] - One(<<i, c>> \in marks)
  <2>1. pinged[<<i, c>>] \in Nat /\ unsure[c] \in Nat /\ ~Reminding("pinger", i, c)
    BY <1>1, <1>2 DEF TypeOK, Reminding
  <2> QED
    BY <1>3, <1>4, <2>1 DEF One
<1> QED
  BY <1>1, <1>7, <1>8, <1>9, <1>10, PingKeeps

---------------------------------------------------------------------------
(* The job.                                                                *)

LEMMA JobIs ==
    ASSUME Inv, run["job"].pc \in Sending
    PROVE  /\ run["job"].who \in People /\ delivery[run["job"].who] = "SENDING"
           /\ run["job"].pc = "send" => New(run["job"].who)
           /\ run["job"].pc = "track" => /\ told[run["job"].who] = 1 /\ known[run["job"].who] = {}
                                         /\ row[run["job"].who].reply = "none" /\ "text" \in keys[run["job"].who]
           /\ run["job"].pc = "expect" => /\ told[run["job"].who] = 1 /\ "text" \in known[run["job"].who]
                                          /\ row[run["job"].who].reply = "none" /\ Held(run["job"].who)
           /\ run["job"].pc = "mark" => /\ told[run["job"].who] = 1 /\ "text" \in known[run["job"].who]
                                        /\ row[run["job"].who].reply # "none"
BY ActorsAre DEF Inv, ActorSound, Shape, JobSound, Sending, At

\* The job takes another step: what it does to the chats is told of one by one.
JobStep(v) ==
    /\ Moves("job", v) /\ v.cmd # "auto"
    /\ run["job"].pc \in {"idle", "next"} \cup Sending /\ v.pc \in {"next"} \cup Sending
    /\ v.pc \in Sending => v.who \in People
    /\ UNCHANGED <<to, post, outbox, tries, marks, late, cleaned, bare, pinged, asked>>
    /\ \A x \in People : unsure'[x] >= unsure[x]

LEMMA JobKeeps ==
    ASSUME Inv, NEW v \in Locals, JobStep(v), TypeOK', Gentle, DispatcherAside, JobSound',
           \A x \in People : Delivered(x)' /\ CanAnswer(x)'
    PROVE  Inv'
<1>1. "job" \in Actors
  BY ActorsAre
<1>2. \A x \in People : SameTurn(x)
  BY <1>1, TurnAside DEF JobStep, Turns, Sending
<1>3. ASSUME NEW x \in People PROVE Counted(x)'
  <2>1. /\ asked'[x] = asked[x] /\ unsure'[x] >= unsure[x] /\ unsure[x] \in Nat /\ unsure'[x] \in Nat
        /\ \A k \in Reminds : pinged'[<<k, x>>] = pinged[<<k, x>>]
        /\ marks' = marks /\ Counted(x) /\ SameTurn(x)
    BY <1>2 DEF JobStep, Inv, PersonSound, TypeOK
  <2>2. asked[x] \in Nat /\ \A k \in Reminds : pinged[<<k, x>>] \in Nat
    BY DEF Inv, TypeOK
  <2> QED
    BY <2>1, <2>2 DEF Counted, SameTurn, One
<1>4. \A x \in People : PersonSound(x)'
  BY <1>3 DEF PersonSound
<1>5. ActorSound("job")'
  <2>1. run'["job"] = v /\ v.pc \in Places("job") /\ v.cmd # "auto"
    BY <1>1, DispatcherPlaces DEF JobStep, Moves
  <2>2. Shape("job")' /\ PingSound("job")' /\ SweepSound("job")'
    BY <2>1 DEF Shape, PingSound, SweepSound, Pinging, Asking, Sweeping, Deferring, Sending, At, JobStep
  <2>3. QuietSound("job")'
    BY <1>1, <2>1 DEF Inv, ActorSound, QuietSound, JobStep, Gentle, Closed, Sending, At
  <2> QED
    BY <2>2, <2>3 DEF ActorSound
<1>6. /\ Moves("job", v) /\ BooksSound' /\ to' = to /\ post' = post /\ cleaned' = cleaned /\ late' = late /\ Tidy
  BY DEF JobStep, Inv, BooksSound, DispatcherAside
<1> QED
  BY <1>1, <1>4, <1>5, <1>6, StepKept

\* The chats are as they were; the rows of the deliveries go forward.
Forward ==
    \A x \in People : /\ delivery'[x] \in {"none", "PENDING"} => delivery[x] \in {"none", "PENDING"}
                      /\ delivery[x] = "SENT" => delivery'[x] = "SENT"
                      /\ delivery'[x] = "SENT" => delivery[x] = "SENT" \/ (told[x] = 1 /\ row[x].reply # "none")
LEMMA DeliveriesKeep ==
    ASSUME Inv, NEW v \in Locals, JobStep(v), TypeOK', JobSound', Forward,
           UNCHANGED <<row, known, tap, screen, keys, told, unsure>>
    PROVE  Inv'
<1>1. Gentle /\ DispatcherAside
  BY DEF JobStep, Gentle, DispatcherAside, Tidy, Forward
<1>2. \A x \in People : SameTurn(x)
  BY ActorsAre, TurnAside DEF JobStep, Turns, Sending
<1>3. ASSUME NEW x \in People PROVE Delivered(x)' /\ CanAnswer(x)'
  <2>1. Delivered(x) /\ CanAnswer(x) /\ SameTurn(x)
    BY <1>2 DEF Inv, PersonSound
  <2> QED
    BY <2>1 DEF Delivered, CanAnswer, New, SameTurn, JobStep, Unasked, Forward
<1> QED
  BY <1>1, <1>3, JobKeeps

LEMMA StartJobKeeps ==
    ASSUME Inv, StartJob
    PROVE  Inv'
<1>1. TypeOK /\ run["job"].pc = "idle" /\ to \in SUBSET People
  BY DEF Inv, TypeOK, StartJob, At
<1>2. PICK v \in Locals : Moves("job", v) /\ v.pc = "next" /\ v.cmd = "none"
  <2> DEFINE v == [Idle EXCEPT !.pc = "next", !.todo = to]
  <2>1. v \in Locals /\ v.pc = "next" /\ v.cmd = "none"
    BY <1>1, IdleLocal DEF Locals, Idle
  <2>2. Moves("job", v)
    BY <1>1, <2>1, SetMoves, ActorsAre DEF StartJob
  <2> HIDE DEF v
  <2> QED
    BY <2>1, <2>2
<1>3. /\ Forward
      /\ delivery' \in [People -> {"none", "PENDING", "SENDING", "SENT", "FAILED"}]
  BY <1>1 DEF StartJob, TypeOK, Forward
<1>4. UNCHANGED <<may, to, post, row, marks, done, known, outbox, tries, tap, screen, keys, told, pinged, asked, unsure,
                  late, cleaned, bare, trouble>> /\ job' = "active"
  BY DEF StartJob, Smoothly, scene, chats
<1>5. TypeOK'
  BY <1>1, <1>2, <1>3, <1>4 DEF TypeOK, Moves
<1>6. JobStep(v) /\ JobSound'
  <2>1. \A x \in People : unsure'[x] >= unsure[x]
    BY <1>1, <1>4 DEF TypeOK
  <2> QED
    BY <1>1, <1>2, <1>4, <2>1 DEF JobStep, JobSound, Moves, At, Sending
<1>8. UNCHANGED <<row, known, tap, screen, keys, told, unsure>> /\ JobStep(v) /\ JobSound' /\ TypeOK'
  BY <1>4, <1>5, <1>6
<1> QED
  BY <1>8, <1>3, DeliveriesKeep

\* What the job has in hand, and that only its own variable cmd says so.
LEMMA JobCmd == ASSUME Inv PROVE TypeOK /\ run["job"] \in Locals /\ run["job"].cmd # "auto" /\ "job" \in Actors
BY ActorsAre DEF Inv, ActorSound, Shape, TypeOK

LEMMA ClaimPendingKeeps ==
    ASSUME Inv, NEW c \in People, ClaimPending(c)
    PROVE  Inv'
<1>1. TypeOK /\ run["job"].pc = "next" /\ run["job"] \in Locals /\ run["job"].cmd # "auto" /\ "job" \in Actors
  BY JobCmd DEF ClaimPending, At
<1>2. PICK v \in Locals : Moves("job", v) /\ v.pc = "send" /\ v.cmd = run["job"].cmd /\ v.who = c
  <2> DEFINE v == [run["job"] EXCEPT !.pc = "send", !.who = c, !.todo = @ \ {c}]
  <2>1. v \in Locals /\ v.pc = "send" /\ v.cmd = run["job"].cmd /\ v.who = c
    BY <1>1 DEF Locals
  <2>2. Moves("job", v)
    BY <1>1, <2>1, SetMoves DEF ClaimPending
  <2> HIDE DEF v
  <2> QED
    BY <2>1, <2>2
<1>3. /\ Forward
      /\ delivery' \in [People -> {"none", "PENDING", "SENDING", "SENT", "FAILED"}]
      /\ delivery'[c] = "SENDING" /\ delivery[c] = "PENDING"
  BY <1>1 DEF ClaimPending, TypeOK, Forward
<1>4. UNCHANGED <<may, to, post, row, marks, done, known, outbox, tries, tap, screen, keys, told, pinged, asked, unsure,
                  late, cleaned, bare, trouble, job>>
  BY DEF ClaimPending, Smoothly, scene, chats
<1>5. TypeOK'
  BY <1>1, <1>2, <1>3, <1>4 DEF TypeOK, Moves
<1>6. New(c)
  BY <1>3 DEF Inv, PersonSound, Delivered
<1>7. JobStep(v) /\ JobSound'
  <2>1. \A x \in People : unsure'[x] >= unsure[x]
    BY <1>1, <1>4 DEF TypeOK
  <2>2. JobSound'
    BY <1>2, <1>3, <1>4, <1>6 DEF JobSound, Moves, At, New
  <2> QED
    BY <1>1, <1>2, <1>4, <2>1, <2>2 DEF JobStep, Moves, Sending
<1>8. UNCHANGED <<row, known, tap, screen, keys, told, unsure>> /\ JobStep(v) /\ JobSound' /\ TypeOK'
  BY <1>4, <1>5, <1>7
<1> QED
  BY <1>8, <1>3, DeliveriesKeep

LEMMA MarkSentKeeps ==
    ASSUME Inv, MarkSent
    PROVE  Inv'
<1> DEFINE c == run["job"].who
<1>1. TypeOK /\ run["job"].pc = "mark" /\ run["job"] \in Locals /\ run["job"].cmd # "auto" /\ "job" \in Actors
  BY JobCmd DEF MarkSent, At
<1>2. c \in People /\ told[c] = 1 /\ row[c].reply # "none"
  BY <1>1, JobIs DEF Sending
<1>3. PICK v \in Locals : Moves("job", v) /\ v.pc = "next" /\ v.cmd = run["job"].cmd
  BY <1>1, ResumeMoves DEF MarkSent
<1>4. /\ Forward
      /\ delivery' \in [People -> {"none", "PENDING", "SENDING", "SENT", "FAILED"}]
  BY <1>1, <1>2 DEF MarkSent, TypeOK, Forward
<1>5. UNCHANGED <<may, to, post, row, marks, done, known, outbox, tries, tap, screen, keys, told, pinged, asked, unsure,
                  late, cleaned, bare, trouble, job>>
  BY DEF MarkSent, Smoothly, scene, chats
<1>6. TypeOK'
  BY <1>1, <1>3, <1>4, <1>5 DEF TypeOK, Moves
<1>7. JobStep(v) /\ JobSound'
  <2>1. \A x \in People : unsure'[x] >= unsure[x]
    BY <1>1, <1>5 DEF TypeOK
  <2> QED
    BY <1>1, <1>3, <1>5, <2>1 DEF JobStep, JobSound, Moves, At, Sending
<1>8. UNCHANGED <<row, known, tap, screen, keys, told, unsure>> /\ JobStep(v) /\ JobSound' /\ TypeOK'
  BY <1>5, <1>6, <1>7
<1> QED
  BY <1>8, <1>4, DeliveriesKeep

LEMMA EndJobKeeps ==
    ASSUME Inv, EndJob
    PROVE  Inv'
<1>1. TypeOK /\ run["job"].pc = "next" /\ run["job"] \in Locals /\ "job" \in Actors
  BY JobCmd DEF EndJob, At
<1>2. Moves("job", Idle) /\ Idle \in Locals /\ Idle.pc = "idle" /\ Idle.cmd = "none"
  BY <1>1, IdleMoves DEF EndJob
<1>3. /\ post' \in [made : BOOLEAN, withdrawn : BOOLEAN, stopped : BOOLEAN, completed : BOOLEAN,
                     action : Reminds \cup {"none"}, at : Times, tries : 0..MaxTries]
      /\ post'.at = post.at /\ post'.action = post.action /\ post'.tries = post.tries
      /\ post'.withdrawn = post.withdrawn /\ post'.stopped = post.stopped
      /\ post'.completed = (post.completed \/ \A c \in to : delivery[c] = "SENT")
      /\ job' \in {"done", "failed"}
  BY PostTyped DEF EndJob
<1>4. ChatsAlone /\ UNCHANGED <<row, may, done, outbox, tries, cleaned, bare, trouble>>
  BY DEF EndJob, Smoothly, ChatsAlone, scene, chats
<1>5. TypeOK' /\ BooksSound'
  BY <1>1, <1>2, <1>3, <1>4 DEF TypeOK, Inv, BooksSound, Moves, ChatsAlone
<1>6. CompletedReachedAll'
  <2>1. ASSUME \A c \in to : delivery[c] = "SENT" PROVE \A c \in to : told[c] = 1 /\ "text" \in known[c]
    BY <1>1, <2>1 DEF Inv, PersonSound, Delivered, TypeOK
  <2> QED
    BY <1>3, <1>4, <2>1 DEF Inv, CompletedReachedAll, ChatsAlone
<1>7. PostGrows /\ run["job"].pc \notin Turns
  BY <1>1, <1>3 DEF PostGrows, Turns
<1> QED
  BY <1>1, <1>2, <1>4, <1>5, <1>6, <1>7, DispatcherPlaces, BooksRest DEF Resting

\* A step for the person in hand, whose delivery nobody else touches: the others
\* keep their chats, but that a delivery may be given up.
Single(c) ==
    /\ \A x \in People \ {c} :
          /\ delivery'[x] = delivery[x] \/ (delivery[x] = "PENDING" /\ delivery'[x] = "FAILED")
          /\ row'[x].reply = row[x].reply /\ known'[x] = known[x] /\ tap'[x] = tap[x] /\ screen'[x] = screen[x]
          /\ keys'[x] = keys[x] /\ told'[x] = told[x] /\ unsure'[x] = unsure[x]

LEMMA SingleKeeps ==
    ASSUME Inv, NEW v \in Locals, NEW c \in People, JobStep(v), TypeOK', JobSound', Single(c),
           delivery[c] = "SENDING", known[c] = {}, row[c].reply = "none", told[c] = 1 => told'[c] = 1,
           Delivered(c)', CanAnswer(c)'
    PROVE  Inv'
<1>1. post' = post /\ outbox' = outbox /\ cleaned' = cleaned
  BY DEF JobStep
<1>2. Gentle
  BY <1>1 DEF Single, Gentle
<1>3. DispatcherAside
  BY <1>1 DEF Single, DispatcherAside, Tidy, Answered
<1>4. ASSUME NEW x \in People, x # c PROVE Delivered(x)' /\ CanAnswer(x)'
  <2>1. Delivered(x) /\ CanAnswer(x)
    BY DEF Inv, PersonSound
  <2>2. SameTurn(x)
    BY ActorsAre, TurnAside DEF JobStep, Turns, Sending
  <2>3. /\ delivery'[x] = delivery[x] \/ (delivery[x] = "PENDING" /\ delivery'[x] = "FAILED")
        /\ row'[x].reply = row[x].reply /\ known'[x] = known[x] /\ tap'[x] = tap[x] /\ screen'[x] = screen[x]
        /\ keys'[x] = keys[x] /\ told'[x] = told[x] /\ unsure'[x] = unsure[x] /\ marks' = marks /\ asked' = asked
        /\ post' = post /\ bare' = bare
    BY <1>4 DEF Single, JobStep
  <2>4. Delivered(x)'
    BY <2>1, <2>2, <2>3 DEF Delivered, New, SameTurn
  <2>5. CanAnswer(x)'
    BY <2>1, <2>2, <2>3 DEF CanAnswer, SameTurn, Unasked
  <2> QED
    BY <2>4, <2>5
<1>5. \A x \in People : Delivered(x)' /\ CanAnswer(x)'
  BY <1>4
<1> QED
  BY <1>2, <1>3, <1>5, JobKeeps

\* What is known of a person whose text is being sent.
LEMMA BareIs ==
    ASSUME Inv, NEW c \in People, known[c] = {}, row[c].reply = "none"
    PROVE  /\ tap[c] = Untouched /\ tap[c].to = "none" /\ tap[c].on = "none"
           /\ "part" \notin screen[c] /\ keys[c] \subseteq screen[c] /\ "prompt" \notin screen[c]
           /\ (told[c] = 0 => "text" \notin screen[c]) /\ ~Appends(c)
<1>1. Delivered(c) /\ CanAnswer(c)
  BY DEF Inv, PersonSound
<1>2. ~Appends(c)
  BY DEF Inv, EditSound, Appends, At, Asking
<1> QED
  BY <1>1, <1>2 DEF Delivered, Untouched

LEMMA SendTextKeeps ==
    ASSUME Inv, SendText
    PROVE  Inv'
<1>1. TypeOK /\ run["job"].pc = "send" /\ run["job"] \in Locals /\ run["job"].cmd # "auto" /\ "job" \in Actors
  BY JobCmd DEF SendText, At
<1>2. PICK c \in People : /\ c = run["job"].who /\ delivery[c] = "SENDING" /\ told[c] = 0
                           /\ known[c] = {} /\ row[c].reply = "none"
  BY <1>1, JobIs DEF Sending, New
<1>3. PICK v \in Locals : Moves("job", v) /\ v.pc = "track" /\ v.cmd = run["job"].cmd /\ v.who = c
  BY <1>1, <1>2, GotoMoves DEF SendText
<1>4. UNCHANGED <<may, to, post, delivery, row, marks, done, known, outbox, tries, tap, pinged, asked, unsure, late, cleaned, bare,
                  trouble, job>>
  BY DEF SendText, Smoothly, scene, rows
<1>5. /\ screen' = [screen EXCEPT ![c] = @ \cup {"text"}] /\ keys' = [keys EXCEPT ![c] = @ \cup {"text"}]
      /\ told' = [told EXCEPT ![c] = @ + 1]
  BY <1>2 DEF SendText, Shows, Count
<1>6. TypeOK'
  BY <1>1, <1>2, <1>3, <1>4, <1>5 DEF TypeOK, Moves, Messages
<1>7. /\ screen'[c] = screen[c] \cup {"text"} /\ keys'[c] = keys[c] \cup {"text"} /\ told'[c] = 1
      /\ \A x \in People \ {c} : screen'[x] = screen[x] /\ keys'[x] = keys[x] /\ told'[x] = told[x]
  BY <1>1, <1>2, <1>5 DEF TypeOK
<1>8. JobStep(v) /\ JobSound' /\ Single(c)
  <2>1. \A x \in People : unsure'[x] >= unsure[x]
    BY <1>1, <1>4 DEF TypeOK
  <2>2. JobSound'
    BY <1>2, <1>3, <1>4, <1>7 DEF JobSound, Moves, At
  <2>3. Single(c)
    BY <1>4, <1>7 DEF Single
  <2> QED
    BY <1>1, <1>2, <1>3, <1>4, <2>1, <2>2, <2>3 DEF JobStep, Sending
<1>9. Delivered(c)' /\ CanAnswer(c)'
  <2>1. Delivered(c) /\ CanAnswer(c)
    BY <1>2 DEF Inv, PersonSound
  <2>2. SameTurn(c)
    BY <1>1, <1>3, TurnAside DEF Turns
  <2>3. Delivered(c)'
    BY <1>2, <1>4, <1>7, <2>1, <2>2 DEF Delivered, New, SameTurn
  <2>4. CanAnswer(c)'
    BY <1>2, <1>4, <1>7, <2>1, <2>2 DEF CanAnswer, SameTurn
  <2> QED
    BY <2>3, <2>4
<1> QED
  BY <1>2, <1>6, <1>8, <1>9, SingleKeeps

LEMMA SendFailsKeeps ==
    ASSUME Inv, NEW gone \in BOOLEAN, NEW partly \in BOOLEAN, SendFails(gone, partly)
    PROVE  Inv'
<1> DEFINE parts == IF partly THEN {"part"} ELSE {}
<1>1. TypeOK /\ run["job"].pc = "send" /\ run["job"] \in Locals /\ run["job"].cmd # "auto" /\ "job" \in Actors
  BY JobCmd DEF SendFails, At
<1>2. PICK c \in People : /\ c = run["job"].who /\ delivery[c] = "SENDING" /\ told[c] = 0
                           /\ known[c] = {} /\ row[c].reply = "none"
  BY <1>1, JobIs DEF Sending, New
<1>3. PICK v \in Locals : Moves("job", v) /\ v.pc = "next" /\ v.cmd = run["job"].cmd
  BY <1>1, ResumeMoves DEF SendFails
<1>4. UNCHANGED <<may, to, post, row, marks, done, outbox, tries, tap, keys, told, pinged, asked, unsure, late, cleaned, bare,
                  trouble, job>>
  BY DEF SendFails, Smoothly, scene
<1>5. /\ screen' = [screen EXCEPT ![c] = @ \cup parts] /\ known' = [known EXCEPT ![c] = @ \cup parts]
      /\ delivery' = [x \in People |-> IF x = c \/ (gone /\ delivery[x] = "PENDING") THEN "FAILED" ELSE delivery[x]]
  BY <1>2 DEF SendFails
<1>6. parts \subseteq {"part"}
  OBVIOUS
<1> HIDE DEF parts
<1>7. TypeOK'
  BY <1>1, <1>2, <1>3, <1>4, <1>5, <1>6, ZenonT(30) DEF TypeOK, Moves, Messages
<1>8. /\ screen'[c] = screen[c] \cup parts /\ known'[c] = parts /\ delivery'[c] = "FAILED"
      /\ \A x \in People \ {c} : /\ screen'[x] = screen[x] /\ known'[x] = known[x]
                                 /\ delivery'[x] = delivery[x] \/ (delivery[x] = "PENDING" /\ delivery'[x] = "FAILED")
  BY <1>1, <1>2, <1>5 DEF TypeOK
<1>9. JobStep(v) /\ JobSound' /\ Single(c)
  <2>1. \A x \in People : unsure'[x] >= unsure[x]
    BY <1>1, <1>4 DEF TypeOK
  <2>2. JobSound'
    BY <1>3 DEF JobSound, Moves, At
  <2>3. Single(c)
    BY <1>4, <1>8 DEF Single
  <2> QED
    BY <1>1, <1>3, <1>4, <2>1, <2>2, <2>3 DEF JobStep, Sending
<1>10. Delivered(c)' /\ CanAnswer(c)'
  <2>1. Delivered(c) /\ CanAnswer(c)
    BY <1>2 DEF Inv, PersonSound
  <2>2. SameTurn(c)
    BY <1>1, <1>3, TurnAside DEF Turns
  <2>3. /\ "part" \notin screen[c] /\ "text" \notin screen[c] /\ "prompt" \notin screen[c] /\ tap[c] = Untouched
    BY <1>2, BareIs
  <2>4. \A m \in {"text", "prompt", "stray"} : m \notin known'[c] /\ (m \in screen'[c] <=> m \in screen[c])
    BY <1>6, <1>8
  <2>5. "part" \in screen'[c] => "part" \in known'[c]
    BY <1>8, <2>3
  <2>6. keys'[c] \subseteq screen'[c]
    BY <1>4, <1>8, <2>1 DEF Delivered
  <2>7. Delivered(c)'
    BY <1>2, <1>4, <1>8, <2>1, <2>2, <2>3, <2>4, <2>5, <2>6 DEF Delivered, New, SameTurn
  <2>8. CanAnswer(c)'
    BY <1>2, <1>4, <2>1, <2>2, <2>4 DEF CanAnswer, SameTurn
  <2> QED
    BY <2>7, <2>8
<1> QED
  BY <1>2, <1>4, <1>7, <1>9, <1>10, SingleKeeps

LEMMA SendUnsureKeeps ==
    ASSUME Inv, SendUnsure
    PROVE  Inv'
<1>1. TypeOK /\ run["job"].pc = "send" /\ run["job"] \in Locals /\ run["job"].cmd # "auto" /\ "job" \in Actors
  BY JobCmd DEF SendUnsure, At
<1>2. PICK c \in People : /\ c = run["job"].who /\ delivery[c] = "SENDING" /\ told[c] = 0
                           /\ known[c] = {} /\ row[c].reply = "none"
  BY <1>1, JobIs DEF Sending, New
<1>3. PICK v \in Locals : Moves("job", v) /\ v.pc = "next" /\ v.cmd = run["job"].cmd
  BY <1>1, ResumeMoves DEF SendUnsure
<1>4. UNCHANGED <<may, to, post, row, marks, done, known, outbox, tries, tap, pinged, asked, late, cleaned, bare, job>>
      /\ trouble' \in 0..MaxTrouble
  BY <1>1, AnnouncementAssumption DEF SendUnsure, Trouble, scene, TypeOK
<1>5. /\ screen' = [screen EXCEPT ![c] = @ \cup {"text"}] /\ keys' = [keys EXCEPT ![c] = @ \cup {"text"}]
      /\ told' = [told EXCEPT ![c] = @ + 1] /\ unsure' = [unsure EXCEPT ![c] = @ + 1]
      /\ delivery' = [delivery EXCEPT ![c] = "FAILED"]
  BY <1>2 DEF SendUnsure, Shows, Count
<1>6. TypeOK'
  BY <1>1, <1>2, <1>3, <1>4, <1>5 DEF TypeOK, Moves, Messages
<1>7. /\ screen'[c] = screen[c] \cup {"text"} /\ keys'[c] = keys[c] \cup {"text"} /\ told'[c] = 1
      /\ delivery'[c] = "FAILED" /\ unsure'[c] = unsure[c] + 1
      /\ \A x \in People \ {c} : /\ screen'[x] = screen[x] /\ keys'[x] = keys[x] /\ told'[x] = told[x]
                                 /\ unsure'[x] = unsure[x] /\ delivery'[x] = delivery[x]
  BY <1>1, <1>2, <1>5 DEF TypeOK
<1>8. JobStep(v) /\ JobSound' /\ Single(c)
  <2>1. \A x \in People : unsure'[x] >= unsure[x]
    BY <1>1, <1>7, SMTT(30) DEF TypeOK
  <2>2. JobSound'
    BY <1>3 DEF JobSound, Moves, At
  <2>3. Single(c)
    BY <1>4, <1>7 DEF Single
  <2> QED
    BY <1>1, <1>3, <1>4, <2>1, <2>2, <2>3 DEF JobStep, Sending
<1>9. Delivered(c)' /\ CanAnswer(c)'
  <2>1. Delivered(c) /\ CanAnswer(c)
    BY <1>2 DEF Inv, PersonSound
  <2>2. SameTurn(c)
    BY <1>1, <1>3, TurnAside DEF Turns
  <2>3. Delivered(c)'
    BY <1>2, <1>4, <1>7, <2>1, <2>2 DEF Delivered, New, SameTurn
  <2>4. CanAnswer(c)'
    BY <1>2, <1>4, <1>7, <2>1, <2>2 DEF CanAnswer, SameTurn
  <2> QED
    BY <2>3, <2>4
<1> QED
  BY <1>2, <1>6, <1>8, <1>9, SingleKeeps

LEMMA TrackKeeps ==
    ASSUME Inv, Track
    PROVE  Inv'
<1>1. TypeOK /\ run["job"].pc = "track" /\ run["job"] \in Locals /\ run["job"].cmd # "auto" /\ "job" \in Actors
  BY JobCmd DEF Track, At
<1>2. PICK c \in People : /\ c = run["job"].who /\ delivery[c] = "SENDING" /\ told[c] = 1
                           /\ known[c] = {} /\ row[c].reply = "none" /\ "text" \in keys[c]
  BY <1>1, JobIs DEF Sending
<1>3. PICK v \in Locals : Moves("job", v) /\ v.pc = "expect" /\ v.cmd = run["job"].cmd /\ v.who = c
  BY <1>1, <1>2, GotoMoves DEF Track
<1>4. UNCHANGED <<may, to, post, delivery, marks, done, outbox, tries, tap, screen, keys, told, pinged, asked, unsure, late,
                  cleaned, bare, trouble, job>>
  BY DEF Track, Smoothly, scene, chats
<1>5. /\ row' = [row EXCEPT ![c].next = "later"]
      /\ known' = [known EXCEPT ![c] = @ \cup {"text"}]
  BY <1>2 DEF Track
<1>6. row' \in [People -> RowType] /\ \A x \in People : row'[x].reply = row[x].reply
  BY <1>1, <1>5, NextAlone DEF Times
<1>7. /\ known' \in [People -> SUBSET Messages] /\ known'[c] = {"text"}
      /\ \A x \in People \ {c} : known'[x] = known[x]
  BY <1>1, <1>2, <1>5 DEF TypeOK, Messages
<1>10. TypeOK'
  BY <1>1, <1>3, <1>4, <1>6, <1>7 DEF TypeOK, Moves
<1>8. JobStep(v) /\ JobSound' /\ Single(c)
  <2>1. \A x \in People : unsure'[x] >= unsure[x]
    BY <1>1, <1>4 DEF TypeOK
  <2>2. JobSound'
    BY <1>2, <1>3, <1>4, <1>6, <1>7 DEF JobSound, Moves, At, Held
  <2>3. Single(c)
    BY <1>4, <1>6, <1>7 DEF Single
  <2> QED
    BY <1>1, <1>2, <1>3, <1>4, <2>1, <2>2, <2>3 DEF JobStep, Sending
<1>9. Delivered(c)' /\ CanAnswer(c)'
  <2>1. Delivered(c) /\ CanAnswer(c)
    BY <1>2 DEF Inv, PersonSound
  <2>2. SameTurn(c)
    BY <1>1, <1>3, TurnAside DEF Turns
  <2>3. /\ "part" \notin screen[c] /\ "prompt" \notin screen[c] /\ tap[c].to = "none" /\ tap[c].on = "none"
    BY <1>2, BareIs
  <2>4. Delivered(c)'
    BY <1>2, <1>4, <1>6, <1>7, <2>1, <2>2, <2>3 DEF Delivered, New, SameTurn
  <2>5. CanAnswer(c)'
    BY <1>2, <1>4, <1>6, <1>7, <2>1, <2>2, <2>3 DEF CanAnswer, SameTurn
  <2> QED
    BY <2>4, <2>5
<1> QED
  BY <1>2, <1>4, <1>8, <1>9, <1>10, SingleKeeps

LEMMA AwaitReplyKeeps ==
    ASSUME Inv, AwaitReply
    PROVE  Inv'
<1>1. TypeOK /\ run["job"].pc = "expect" /\ run["job"] \in Locals /\ run["job"].cmd # "auto" /\ "job" \in Actors
  BY JobCmd DEF AwaitReply, At
<1>2. PICK c \in People : /\ c = run["job"].who /\ delivery[c] = "SENDING" /\ told[c] = 1
                           /\ "text" \in known[c] /\ row[c].reply = "none" /\ Held(c)
  BY <1>1, JobIs DEF Sending
<1>3. PICK v \in Locals : Moves("job", v) /\ v.pc = "mark" /\ v.cmd = run["job"].cmd /\ v.who = c
  BY <1>1, <1>2, GotoMoves DEF AwaitReply
<1>4. UNCHANGED <<may, to, post, delivery, marks, done, known, outbox, tries, tap, screen, keys, told, pinged, asked, unsure,
                  late, cleaned, bare, trouble, job>>
  BY DEF AwaitReply, Smoothly, scene, chats
<1>5. row' \in [People -> RowType] /\ row'[c].reply = "pending" /\ \A x \in People \ {c} : row'[x] = row[x]
  <2>1. row' = [row EXCEPT ![c].reply = "pending"]
    BY <1>2 DEF AwaitReply
  <2> QED
    BY <1>1, <2>1, ReplyAlone DEF Replies
<1>6. TypeOK'
  BY <1>1, <1>3, <1>4, <1>5 DEF TypeOK, Moves
<1>7. JobStep(v) /\ JobSound'
  <2>1. \A x \in People : unsure'[x] >= unsure[x]
    BY <1>1, <1>4 DEF TypeOK
  <2>2. JobSound'
    BY <1>2, <1>3, <1>4, <1>5 DEF JobSound, Moves, At
  <2> QED
    BY <1>1, <1>2, <1>3, <1>4, <2>1, <2>2 DEF JobStep, Sending
<1>8. Gentle /\ DispatcherAside
  BY <1>2, <1>4, <1>5 DEF Gentle, DispatcherAside, Tidy, Answered
<1>9. ASSUME NEW x \in People PROVE Delivered(x)' /\ CanAnswer(x)'
  <2>1. Delivered(x) /\ CanAnswer(x) /\ SameTurn(x)
    BY <1>1, <1>3, TurnAside DEF Inv, PersonSound, Turns
  <2>2. CASE x = c
    <3>1. tap[c].to = "none" /\ tap[c].on = "none" /\ delivery[c] \notin {"none", "PENDING"}
      BY <1>2, <2>1, <2>2 DEF Delivered, Untouched
    <3>2. Delivered(c)'
      BY <1>2, <1>4, <1>5, <2>1, <2>2, <3>1 DEF Delivered, SameTurn
    <3>3. CanAnswer(c)'
      BY <1>2, <1>4, <2>1, <2>2, <3>1 DEF CanAnswer, SameTurn, Held
    <3> QED
      BY <2>2, <3>2, <3>3
  <2>3. CASE x # c
    BY <1>4, <1>5, <2>1, <2>3 DEF Delivered, CanAnswer, New, SameTurn, Unasked
  <2> QED
    BY <2>2, <2>3
<1> QED
  BY <1>6, <1>7, <1>8, <1>9, JobKeeps

---------------------------------------------------------------------------
(* STOP and WITHDRAW.                                                      *)

Enders == {"dispatcher", "admin"}

LEMMA SweepsOn ==
    ASSUME Inv, NEW a \in Enders, NEW v, Moves(a, v), v.pc \in Sweeping, v.cmd # "auto",
           a = "dispatcher" => v.cmd \in Commands /\ outbox'[v.cmd] = "offered",
           Gentle, late'[a] = late[a], SweepSound(a)'
    PROVE  ActorSound(a)' /\ (a = "dispatcher" => EditSound')
<1>1. run'[a] = v /\ a \in Actors /\ v.pc \in Places(a)
  BY DispatcherPlaces DEF Moves, Enders, Actors
<1>2. Shape(a)' /\ PingSound(a)'
  BY <1>1 DEF Shape, PingSound, Sweeping, Sending, Pinging, Asking, Deferring
<1>3. QuietSound(a)'
  BY <1>1 DEF Inv, ActorSound, QuietSound, Gentle, Closed, Sweeping, At
<1>4. a = "dispatcher" => EditSound'
  BY <1>1 DEF EditSound, Sweeping, Asking
<1> QED
  BY <1>2, <1>3, <1>4 DEF ActorSound

LEMMA EnderIs ==
    ASSUME Inv, NEW a \in Enders
    PROVE  /\ a \in Actors /\ a # "job" /\ TypeOK /\ run[a] \in Locals /\ SweepSound(a)
           /\ run[a].pc \in Sweeping => run[a].cmd # "auto"
           /\ a = "dispatcher" /\ run[a].pc # "idle" => run[a].cmd \in Commands /\ outbox[run[a].cmd] = "offered"
BY ActorsAre DEF Inv, ActorSound, Shape, Enders, TypeOK

LEMMA EndBeginsKeeps ==
    ASSUME Inv, NEW a \in Enders, Stop(a) \/ Withdraw(a)
    PROVE  Inv'
<1>1. PICK k \in {"STOP", "WITHDRAW"} : /\ Does(a, k) /\ Set(a, [Idle EXCEPT !.pc = "quieten", !.cmd = k])
                                        /\ post' = IF k = "STOP"
                                             THEN [post EXCEPT !.stopped = TRUE, !.action = "none", !.at = "never"]
                                             ELSE [post EXCEPT !.withdrawn = TRUE, !.action = "none", !.at = "never"]
  BY DEF Stop, Withdraw
<1>2. /\ a \in Actors /\ a # "job" /\ TypeOK /\ run[a].pc \notin Turns
      /\ a = "dispatcher" => k \in Commands /\ outbox[k] = "offered"
  BY <1>1, EnderIs DEF Does, At, Turns
<1>3. PICK v \in Locals : Moves(a, v) /\ v.pc = "quieten" /\ v.cmd = k
  <2> DEFINE v == [Idle EXCEPT !.pc = "quieten", !.cmd = k]
  <2>1. v \in Locals /\ v.pc = "quieten" /\ v.cmd = k
    BY IdleLocal DEF Locals, Idle, Commands
  <2>2. Moves(a, v)
    BY <1>1, <1>2, <2>1, SetMoves
  <2> HIDE DEF v
  <2> QED
    BY <2>1, <2>2
<1>4. /\ post' \in [made : BOOLEAN, withdrawn : BOOLEAN, stopped : BOOLEAN, completed : BOOLEAN,
                     action : Reminds \cup {"none"}, at : Times, tries : 0..MaxTries]
      /\ post'.at = "never" /\ post'.tries = post.tries /\ post'.completed = post.completed
      /\ post.withdrawn => post'.withdrawn
      /\ post.stopped => post'.stopped
      /\ k # "STOP" => post'.withdrawn
  BY <1>1, PostTyped DEF Times
<1>5. ChatsAlone /\ UNCHANGED <<row, may, done, outbox, tries, cleaned, bare, trouble, job>>
  BY DEF Stop, Withdraw, Smoothly, ChatsAlone, scene, chats
<1>6. TypeOK' /\ BooksSound'
  BY <1>2, <1>3, <1>4, <1>5 DEF TypeOK, Inv, BooksSound, Moves, ChatsAlone
<1>7. PostGrows /\ Gentle
  BY <1>4, <1>5, AloneIs DEF PostGrows
<1>8. SweepSound(a)'
  BY <1>2, <1>3, <1>4 DEF SweepSound, Moves, At
<1>9. ActorSound(a)' /\ (a = "dispatcher" => EditSound')
  <2>1. late'[a] = late[a]
    BY <1>5 DEF ChatsAlone
  <2>2. v.pc \in Sweeping /\ v.cmd # "auto"
    BY <1>3 DEF Sweeping
  <2> QED
    BY <1>2, <1>3, <1>5, <1>7, <1>8, <2>1, <2>2, SweepsOn
<1>10. v.pc \notin Turns
  BY <1>3 DEF Turns
<1>11. /\ (a # "dispatcher" => UNCHANGED <<outbox, cleaned>>) /\ PostGrows /\ ChatsAlone
       /\ post'.completed => post.completed
  BY <1>4, <1>5, <1>7
<1> QED
  BY <1>2, <1>3, <1>5, <1>6, <1>9, <1>10, <1>11, Bookkeeping

LEMMA QuietenKeeps ==
    ASSUME Inv, NEW a \in Enders, Quieten(a)
    PROVE  Inv'
<1>1. /\ a \in Actors /\ a # "job" /\ TypeOK /\ run[a] \in Locals /\ SweepSound(a) /\ run[a].pc = "quieten"
      /\ run[a].pc \notin Turns /\ run[a].cmd # "auto"
      /\ a = "dispatcher" => run[a].cmd \in Commands /\ outbox[run[a].cmd] = "offered"
  BY EnderIs DEF Quieten, At, Turns, Sweeping
<1>2. row' \in [People -> RowType] /\ \A x \in People : row'[x].reply = row[x].reply
  <2>1. row \in [People -> RowType] /\ row' = [x \in People |-> [row[x] EXCEPT !.next = "never"]]
    BY <1>1 DEF Quieten, TypeOK
  <2>2. \A x \in People : /\ row'[x] = [row[x] EXCEPT !.next = "never"]
                          /\ row'[x] \in RowType /\ row'[x].reply = row[x].reply
    BY <2>1 DEF RowType, Times
  <2> QED
    BY <2>1, <2>2
<1>3. ChatsAlone /\ PostGrows /\ UNCHANGED <<post, may, outbox, tries, cleaned, bare, trouble, job>>
  BY <1>2 DEF Quieten, Smoothly, ChatsAlone, PostGrows, scene, chats
<1>4. done' \subseteq Commands
  <2>1. done' = done \/ done' = done \cup {"STOP"}
    BY DEF Quieten
  <2> QED
    BY <1>1, <2>1 DEF TypeOK, Commands
<1>5. CASE run[a].cmd = "STOP" /\ a = "admin"
  <2>1. Moves(a, Idle) /\ Idle \in Locals /\ Idle.pc = "idle" /\ Idle.cmd = "none"
    BY <1>1, <1>5, IdleMoves DEF Quieten
  <2>2. TypeOK' /\ BooksSound'
    BY <1>1, <1>2, <1>3, <1>4, <2>1 DEF TypeOK, Inv, BooksSound, Moves, ChatsAlone
  <2> QED
    BY <1>1, <1>3, <1>5, <2>1, <2>2, BooksRest, DispatcherPlaces DEF Resting
<1>6. CASE run[a].cmd = "STOP" /\ a # "admin"
  <2>1. PICK v \in Locals : Moves(a, v) /\ v.pc = "ack" /\ v.cmd = run[a].cmd
    BY <1>1, <1>6, AnswersMoves DEF Quieten
  <2>2. TypeOK' /\ BooksSound'
    BY <1>1, <1>2, <1>3, <1>4, <2>1 DEF TypeOK, Inv, BooksSound, Moves, ChatsAlone
  <2>3. a = "dispatcher"
    BY <1>6 DEF Enders
  <2> QED
    BY <1>1, <1>3, <2>1, <2>2, <2>3, BooksRest, DispatcherPlaces DEF Resting
<1>7. CASE run[a].cmd # "STOP"
  <2>0. Goto(a, "targets")
    BY <1>7 DEF Quieten
  <2>1. PICK v \in Locals : Moves(a, v) /\ v.pc = "targets" /\ v.cmd = run[a].cmd
    BY <1>1, <2>0, GotoMoves
  <2>2. TypeOK' /\ BooksSound'
    BY <1>1, <1>2, <1>3, <1>4, <2>1 DEF TypeOK, Inv, BooksSound, Moves, ChatsAlone
  <2>3. SweepSound(a)'
    BY <1>1, <1>3, <1>7, <2>1 DEF SweepSound, Moves, At, Sweeping
  <2>4. ActorSound(a)' /\ (a = "dispatcher" => EditSound')
    <3>1. late'[a] = late[a] /\ Gentle
      BY <1>3, AloneIs DEF ChatsAlone
    <3>2. v.pc \in Sweeping
      BY <2>1 DEF Sweeping
    <3> QED
      BY <1>1, <1>3, <2>1, <2>3, <3>1, <3>2, SweepsOn
  <2>5. v.pc \notin Turns
    BY <2>1 DEF Turns
  <2> QED
    BY <1>1, <1>3, <2>1, <2>2, <2>4, <2>5, Bookkeeping
<1> QED
  BY <1>5, <1>6, <1>7

LEMMA ReadTargetsKeeps ==
    ASSUME Inv, NEW a \in Enders, ReadTargets(a)
    PROVE  Inv'
<1>1. /\ a \in Actors /\ a # "job" /\ TypeOK /\ run[a] \in Locals /\ SweepSound(a) /\ run[a].pc = "targets"
      /\ run[a].pc \notin Turns /\ run[a].cmd # "auto"
      /\ a = "dispatcher" => run[a].cmd \in Commands /\ outbox[run[a].cmd] = "offered"
  BY EnderIs DEF ReadTargets, At, Turns, Sweeping
<1>2. PICK v \in Locals : /\ Moves(a, v) /\ v.pc = "erase" /\ v.cmd = run[a].cmd
                          /\ v.found = known /\ v.seen = {c \in People : known[c] # {}}
  <2> DEFINE v == [run[a] EXCEPT !.pc = "erase", !.found = known, !.seen = {c \in People : known[c] # {}}]
  <2>1. /\ v \in Locals /\ v.pc = "erase" /\ v.cmd = run[a].cmd
        /\ v.found = known /\ v.seen = {c \in People : known[c] # {}}
    <3>1. known \in [People -> SUBSET Messages] /\ {c \in People : known[c] # {}} \in SUBSET People
      BY <1>1 DEF TypeOK
    <3> QED
      BY <1>1, <3>1 DEF Locals
  <2>2. Moves(a, v)
    <3>1. Set(a, v)
      BY DEF ReadTargets
    <3> QED
      BY <1>1, <2>1, <3>1, SetMoves
  <2> HIDE DEF v
  <2> QED
    BY <2>1, <2>2, SMTT(60)
<1>3. ChatsAlone /\ PostGrows /\ UNCHANGED <<row, post, may, done, outbox, tries, cleaned, bare, trouble, job>>
  BY DEF ReadTargets, Smoothly, ChatsAlone, PostGrows, scene, rows, chats
<1>4. TypeOK' /\ BooksSound'
  BY <1>1, <1>2, <1>3 DEF TypeOK, Inv, BooksSound, Moves, ChatsAlone
\* A chat shows of the announcement what is known: nobody is being asked just now.
<1>5. ASSUME NEW c \in People, a = "dispatcher", known[c] # {} PROVE screen[c] \cap Own \subseteq known[c]
  <2>1. ~Appends(c) /\ Delivered(c)
    BY <1>1, <1>5 DEF Appends, At, Inv, PersonSound
  <2> QED
    BY <1>5, <2>1 DEF Delivered, Own
<1>7. SweepSound(a)'
  <2>1. run'[a] = v /\ UNCHANGED <<known, screen, post>>
    BY <1>2, <1>3 DEF Moves, ChatsAlone
  <2>2. v.cmd # "STOP" /\ post'.withdrawn
    BY <1>1, <1>2, <2>1 DEF SweepSound, Sweeping
  <2>3. \A c \in People : v.found[c] \ {"ping"} \subseteq known'[c]
    BY <1>2, <2>1
  <2>4. a = "dispatcher" => \A c \in v.seen : known'[c] # {} /\ screen'[c] \cap Own \subseteq v.found[c]
    BY <1>2, <1>5, <2>1
  <2> QED
    BY <2>1, <2>2, <2>3, <2>4 DEF SweepSound, At
<1>8. ActorSound(a)' /\ (a = "dispatcher" => EditSound')
  <2>1. late'[a] = late[a] /\ Gentle
    BY <1>3, AloneIs DEF ChatsAlone
  <2>2. v.pc \in Sweeping
    BY <1>2 DEF Sweeping
  <2> QED
    BY <1>1, <1>2, <1>3, <1>7, <2>1, <2>2, SweepsOn
<1>9. v.pc \notin Turns
  BY <1>2 DEF Turns
<1> QED
  BY <1>1, <1>2, <1>3, <1>4, <1>8, <1>9, Bookkeeping

LEMMA EraseKeeps ==
    ASSUME Inv, NEW a \in Enders, NEW c \in People, NEW m \in Messages, NEW deletes \in BOOLEAN, Erase(a, c, m, deletes)
    PROVE  Inv'
<1> DEFINE gone == IF deletes THEN {m} ELSE {}
<1>1. /\ a \in Actors /\ a # "job" /\ TypeOK /\ run[a] \in Locals /\ SweepSound(a) /\ run[a].pc = "erase"
      /\ run[a].pc \notin Turns /\ run[a].cmd # "auto" /\ m \in run[a].found[c]
      /\ run[a].cmd # "STOP" /\ post.withdrawn
      /\ a = "dispatcher" => run[a].cmd \in Commands /\ outbox[run[a].cmd] = "offered"
  BY EnderIs DEF Erase, At, Turns, Sweeping, SweepSound
<1>2. PICK v \in Locals : /\ Moves(a, v) /\ v.pc = "erase" /\ v.cmd = run[a].cmd
                          /\ v.found = [run[a].found EXCEPT ![c] = @ \ {m}]
                          /\ v.seen = IF deletes THEN run[a].seen ELSE run[a].seen \ {c}
  <2> DEFINE v == [run[a] EXCEPT !.found[c] = @ \ {m}, !.seen = IF deletes THEN @ ELSE @ \ {c}]
  <2>1. /\ v.pc = "erase" /\ v.cmd = run[a].cmd
        /\ v.found = [run[a].found EXCEPT ![c] = @ \ {m}]
        /\ v.seen = IF deletes THEN run[a].seen ELSE run[a].seen \ {c}
    BY <1>1 DEF Locals
  <2>2. v \in Locals
    <3>1. [run[a].found EXCEPT ![c] = @ \ {m}] \in [People -> SUBSET Messages]
      BY <1>1 DEF Locals
    <3>2. (IF deletes THEN run[a].seen ELSE run[a].seen \ {c}) \in SUBSET People
      BY <1>1 DEF Locals
    <3>3. v = [run[a] EXCEPT !.found = [run[a].found EXCEPT ![c] = @ \ {m}],
                             !.seen = IF deletes THEN run[a].seen ELSE run[a].seen \ {c}]
      BY <1>1 DEF Locals
    <3> QED
      BY <1>1, <3>1, <3>2, <3>3 DEF Locals
  <2>3. Moves(a, v)
    <3>1. Set(a, v)
      BY DEF Erase
    <3> QED
      BY <1>1, <2>2, <3>1, SetMoves
  <2> HIDE DEF v
  <2> QED
    BY <2>1, <2>2, <2>3
<1>3. UNCHANGED <<may, to, post, delivery, row, marks, done, known, job, outbox, tries, tap, told, pinged, asked, unsure,
                  late, cleaned, bare, trouble>>
  BY DEF Erase, Smoothly, scene, rows
<1>4. screen' = [screen EXCEPT ![c] = @ \ gone] /\ keys' = [keys EXCEPT ![c] = @ \ gone]
  BY DEF Erase
<1>5. /\ gone \ {"ping"} \subseteq known[c]
      /\ gone \subseteq {m} /\ (deletes => gone = {m})
  BY <1>1 DEF SweepSound, At
<1> HIDE DEF gone
<1>6. /\ screen'[c] = screen[c] \ gone /\ keys'[c] = keys[c] \ gone
      /\ \A x \in People \ {c} : screen'[x] = screen[x] /\ keys'[x] = keys[x]
      /\ screen' \in [People -> SUBSET Messages] /\ keys' \in [People -> SUBSET Messages]
  BY <1>1, <1>4 DEF TypeOK
<1>7. TypeOK' /\ BooksSound'
  BY <1>1, <1>2, <1>3, <1>6 DEF TypeOK, Inv, BooksSound, Moves
<1>8. Delivered(c) /\ Counted(c) /\ CanAnswer(c)
  BY DEF Inv, PersonSound
<1>9. Gentle /\ Tidy /\ DispatcherAside /\ JobAside
  <2>1. \A x \in People : screen'[x] \subseteq screen[x]
    BY <1>6
  <2>2. Gentle /\ Tidy
    BY <1>3, <2>1 DEF Gentle, Tidy
  <2>3. known[c] = {} => "text" \notin gone
    BY <1>5
  <2>4. \A x \in People : Held(x) => Held(x)'
    BY <1>6 DEF Held
  <2> QED
    BY <1>3, <1>6, <2>2, <2>3, <2>4 DEF DispatcherAside, JobAside
<1>10. SweepSound(a)'
  <2>1. run'[a] = v /\ UNCHANGED <<known, post>>
    BY <1>2, <1>3 DEF Moves
  <2>2. /\ v.found[c] = run[a].found[c] \ {m} /\ \A x \in People \ {c} : v.found[x] = run[a].found[x]
    BY <1>1, <1>2 DEF Locals
  <2>3. \A x \in People : v.found[x] \ {"ping"} \subseteq known'[x]
    BY <1>1, <2>1, <2>2 DEF SweepSound, At
  <2>4. ASSUME a = "dispatcher", NEW x \in v.seen
        PROVE  known'[x] # {} /\ screen'[x] \cap Own \subseteq v.found[x]
    <3>1. x \in People /\ x \in run[a].seen /\ (x = c => deletes)
      BY <1>1, <1>2, <2>4 DEF Locals
    <3>2. known[x] # {} /\ screen[x] \cap Own \subseteq run[a].found[x]
      BY <1>1, <2>4, <3>1 DEF SweepSound, At
    <3>3. CASE x = c
      BY <1>5, <1>6, <2>1, <2>2, <3>1, <3>2, <3>3
    <3>4. CASE x # c
      BY <1>6, <2>1, <2>2, <3>1, <3>2, <3>4
    <3> QED
      BY <3>3, <3>4
  <2>5. v.cmd # "STOP" /\ post'.withdrawn
    BY <1>1, <1>2, <2>1
  <2> QED
    BY <1>2, <2>1, <2>3, <2>4, <2>5 DEF SweepSound, At
<1>11. ActorSound(a)' /\ (a = "dispatcher" => EditSound')
  <2>1. late'[a] = late[a]
    BY <1>3
  <2>2. v.pc \in Sweeping
    BY <1>2 DEF Sweeping
  <2> QED
    BY <1>1, <1>2, <1>3, <1>9, <1>10, <2>1, <2>2, SweepsOn
<1>12. \A x \in People : SameCounts(x) /\ SameTurn(x)
  <2>1. v.pc \notin Turns
    BY <1>2 DEF Turns
  <2> QED
    BY <1>1, <1>2, <1>3, <2>1, TurnAside DEF SameCounts
<1>13. PersonSound(c)'
  <2>1. Counted(c)'
    BY <1>8, <1>12, CountedKept
  <2>2. Delivered(c)'
    BY <1>3, <1>6, <1>8, <1>12 DEF Delivered, New, SameTurn
  <2>3. CanAnswer(c)'
    BY <1>1, <1>3, <1>6, <1>8, <1>12 DEF CanAnswer, SameTurn
  <2> QED
    BY <2>1, <2>2, <2>3 DEF PersonSound
<1>14. ASSUME NEW x \in People, x # c PROVE PersonSound(x)'
  <2>1. SameChat(x)
    BY <1>3, <1>6, <1>14 DEF SameChat
  <2> QED
    BY <1>12, <2>1, PersonKept
<1>15. \A x \in People : PersonSound(x)'
  BY <1>13, <1>14
<1> QED
  BY <1>1, <1>2, <1>3, <1>7, <1>9, <1>11, <1>15, StepKept

LEMMA EndWithdrawalKeeps ==
    ASSUME Inv, NEW a \in Enders, EndWithdrawal(a)
    PROVE  Inv'
<1>1. /\ a \in Actors /\ a # "job" /\ TypeOK /\ run[a] \in Locals /\ SweepSound(a) /\ run[a].pc = "erase"
      /\ run[a].pc \notin Turns /\ run[a].cmd # "auto"
      /\ a = "dispatcher" => run[a].cmd \in Commands /\ outbox[run[a].cmd] = "offered"
  BY EnderIs DEF EndWithdrawal, At, Turns, Sweeping
<1>2. ChatsAlone /\ PostGrows /\ UNCHANGED <<row, post, may, outbox, tries, trouble, job>>
  BY DEF EndWithdrawal, Smoothly, ChatsAlone, PostGrows, scene
<1>3. CASE a = "admin"
  <2>1. UNCHANGED <<done, cleaned>> /\ Set(a, Idle)
    BY <1>3 DEF EndWithdrawal
  <2>2. Moves(a, Idle) /\ Idle \in Locals /\ Idle.pc = "idle" /\ Idle.cmd = "none"
    BY <1>1, <2>1, IdleMoves
  <2>3. TypeOK' /\ BooksSound'
    BY <1>1, <1>2, <2>1, <2>2 DEF TypeOK, Inv, BooksSound, Moves, ChatsAlone
  <2> QED
    BY <1>1, <1>2, <1>3, <2>1, <2>2, <2>3, BooksRest, DispatcherPlaces DEF Resting
<1>4. CASE a = "dispatcher"
  <2>1. Answers(a, TRUE) /\ done' = done \cup {"WITHDRAW"} /\ cleaned' = run[a].seen
    BY <1>4 DEF EndWithdrawal
  <2>2. PICK v \in Locals : Moves(a, v) /\ v.pc = "ack" /\ v.cmd = run[a].cmd
    BY <1>1, <2>1, AnswersMoves
  <2>3. done' \subseteq Commands /\ cleaned' \subseteq People
    BY <1>1, <2>1 DEF TypeOK, Commands, Locals
  <2>4. TypeOK' /\ BooksSound'
    BY <1>1, <1>2, <2>2, <2>3 DEF TypeOK, Inv, BooksSound, Moves, ChatsAlone
  <2>5. CleanedSound'
    <3>0. run[a].seen \subseteq People /\ \A c \in People : run[a].found[c] = {}
      BY <1>1 DEF Locals, EndWithdrawal
    <3>1. post.withdrawn /\ \A c \in run[a].seen : known[c] # {} /\ screen[c] \cap Own = {}
      BY <1>1, <1>4, <3>0 DEF SweepSound, At, Sweeping
    <3>2. post'.withdrawn /\ known' = known /\ screen' = screen
      BY <1>2, <3>1 DEF ChatsAlone
    <3> QED
      BY <2>1, <3>1, <3>2 DEF CleanedSound, Empty
  <2>6. v.pc \in Resting /\ v.pc \notin Turns /\ v.pc \in Places(a) /\ v.cmd # "auto"
    BY <1>1, <1>4, <2>2, DispatcherPlaces DEF Resting, Turns
  <2>7. ActorSound(a)' /\ EditSound'
    <3>1. late'[a] = late[a] /\ Gentle
      BY <1>2, AloneIs DEF ChatsAlone
    <3> QED
      BY <1>1, <1>2, <1>4, <2>2, <2>6, <3>1, Rests
  <2> QED
    BY <1>1, <1>2, <1>4, <2>2, <2>4, <2>5, <2>6, <2>7, Bookkeeping
<1> QED
  BY <1>3, <1>4 DEF Enders

---------------------------------------------------------------------------
(* EDIT.                                                                   *)

\* What every step of the edit has in hand.
LEMMA EditIs ==
    ASSUME Inv, run["dispatcher"].pc \in Asking \cup {"edit"}
    PROVE  LET me == run["dispatcher"]
           IN  /\ TypeOK /\ me \in Locals /\ me.cmd \in Commands /\ outbox[me.cmd] = "offered" /\ me.cmd # "auto"
               /\ \A c \in me.todo : /\ c \in People /\ "text" \in known[c] /\ row[c].reply # "none"
                                     /\ Answered(me.was[c]) => Answered(row[c])
               /\ me.pc \in Asking => /\ me.who \in People /\ me.who \notin me.todo
                                      /\ "text" \in known[me.who] /\ row[me.who].reply # "none"
               /\ me.pc \in {"claim", "reset", "await", "prompt"} => Answered(me.was[me.who])
<1>1. TypeOK /\ EditSound /\ run["dispatcher"] \in Locals /\ Shape("dispatcher") /\ "dispatcher" \in Actors
  BY ActorsAre DEF Inv, ActorSound, TypeOK
<1>2. run["dispatcher"].cmd \in Commands /\ outbox[run["dispatcher"].cmd] = "offered" /\ run["dispatcher"].cmd # "auto"
  BY DispatcherIs DEF Asking, Commands, Reminds
<1>3. ASSUME NEW c \in run["dispatcher"].todo
      PROVE  /\ c \in People /\ "text" \in known[c] /\ row[c].reply # "none"
             /\ Answered(run["dispatcher"].was[c]) => Answered(row[c])
  <2>1. c \in People
    BY <1>1 DEF Locals
  <2>2. Delivered(c)
    BY <2>1 DEF Inv, PersonSound
  <2>3. delivery[c] = "SENT"
    BY <1>1 DEF EditSound
  <2> QED
    BY <1>1, <2>1, <2>2, <2>3 DEF EditSound, Delivered
<1>4. run["dispatcher"].pc \in Asking => run["dispatcher"].who \in People
  BY <1>1 DEF Shape
<1>5. run["dispatcher"].pc \in Asking => run["dispatcher"].pc # "edit"
  BY DEF Asking
<1> QED
  BY <1>1, <1>2, <1>3, <1>4, <1>5 DEF EditSound

\* A step of the edit for c: the other people keep all they have.
EditStep(v, c) ==
    LET me == run["dispatcher"]
    IN  /\ Moves("dispatcher", v) /\ v.cmd = me.cmd /\ v.was = me.was /\ v.todo \subseteq me.todo \ {c}
        /\ me.pc \in Asking \cup {"edit"} /\ (me.pc \in Asking => me.who = c)
        /\ v.pc \in Asking \cup {"edit"} /\ (v.pc \in Asking => v.who = c)
        /\ v.pc \in {"claim", "reset", "await", "prompt"} => Answered(v.was[c])
        /\ UNCHANGED <<to, post, delivery, outbox, tries, tap, told, pinged, late, cleaned>>
        /\ \A x \in People \ {c} :
              /\ x \in bare' <=> x \in bare
              /\ row'[x] = row[x] /\ known'[x] = known[x] /\ screen'[x] = screen[x] /\ keys'[x] = keys[x]
              /\ asked'[x] = asked[x] /\ unsure'[x] = unsure[x]
        /\ \A k \in Reminds \cup {"EDIT"}, x \in People :
              (x # c \/ k # "EDIT") => (<<k, x>> \in marks' <=> <<k, x>> \in marks)
        /\ "text" \in known[c] /\ known[c] \subseteq known'[c]
        /\ row[c].reply # "none" /\ row'[c].reply # "none"
        /\ unsure'[c] >= unsure[c]

LEMMA EditKeeps ==
    ASSUME Inv, NEW v \in Locals, NEW c \in People, EditStep(v, c), TypeOK',
           asked'[c] + One(Asks(c)') <= unsure'[c] + One(<<"EDIT", c>> \in marks'),
           Delivered(c)', CanAnswer(c)'
    PROVE  Inv'
<1>1. /\ "dispatcher" \in Actors /\ run["dispatcher"] \in Locals /\ run'["dispatcher"] = v
      /\ run["dispatcher"].cmd \in Commands /\ outbox[run["dispatcher"].cmd] = "offered" /\ run["dispatcher"].cmd # "auto"
  BY EditIs, ActorsAre DEF EditStep, Moves
<1>2. Gentle /\ JobAside
  BY DEF EditStep, Gentle, JobAside, Held
<1>3. cleaned = {} /\ cleaned' = cleaned
  BY DEF Inv, EditSound, EditStep
<1>4. EditSound'
  <2>1. \A x \in v.todo : /\ x \in People /\ delivery'[x] = "SENT"
                          /\ Answered(v.was[x]) => Answered(row'[x])
    <3>1. run["dispatcher"].todo \subseteq People
      BY <1>1 DEF Locals
    <3> QED
      BY <3>1 DEF Inv, EditSound, EditStep
  <2>2. v.pc \in {"claim", "reset", "await", "prompt", "append"} => v.who = c /\ c \notin v.todo /\ "text" \in known'[c] /\ row'[c].reply # "none"
    BY DEF EditStep, Asking
  <2>3. v.pc \in {"claim", "reset", "await", "prompt"} => Answered(v.was[c])
    BY DEF EditStep
  <2>4. v.pc # "sent"
    BY DEF EditStep, Asking
  <2> QED
    BY <1>1, <1>3, <2>1, <2>2, <2>3, <2>4 DEF EditSound, Asking
<1>5. ActorSound("dispatcher")'
  <2>1. v.pc \in Asking \cup {"edit"} /\ v.cmd = run["dispatcher"].cmd /\ (v.pc \in Asking => v.who = c)
    BY DEF EditStep
  <2>2. Shape("dispatcher")' /\ PingSound("dispatcher")' /\ SweepSound("dispatcher")'
    <3>1. outbox' = outbox
      BY DEF EditStep
    <3> QED
      BY <1>1, <2>1, <3>1, DispatcherPlaces DEF Shape, PingSound, SweepSound, Asking, Sending, Pinging, Sweeping,
         Deferring, At
  <2>3. QuietSound("dispatcher")'
    <3>1. late'["dispatcher"] = late["dispatcher"]
      BY DEF EditStep
    <3> QED
      BY <1>1, <1>2, <2>1, <3>1 DEF Inv, ActorSound, QuietSound, Gentle, Closed, At, Asking
  <2> QED
    BY <2>2, <2>3 DEF ActorSound
<1>6. ASSUME NEW x \in People, x # c PROVE PersonSound(x)'
  <2>1. SameTurn(x)
    BY <1>1, <1>6, TurnAside DEF EditStep, Turns, Asking
  <2>2. SameChat(x) /\ SameCounts(x)
    BY <1>6 DEF EditStep, SameChat, SameCounts
  <2> QED
    BY <2>1, <2>2, PersonKept
<1>7. Counted(c)'
  <2>1. /\ unsure[c] \in Nat /\ unsure'[c] \in Nat /\ unsure'[c] >= unsure[c]
        /\ \A k \in Reminds : pinged[<<k, c>>] \in Nat /\ pinged'[<<k, c>>] = pinged[<<k, c>>]
    BY DEF Inv, TypeOK, EditStep
  <2>2. ASSUME NEW k \in Reminds
        PROVE  /\ Reminding("dispatcher", k, c) <=> FALSE
               /\ Reminding("dispatcher", k, c)' <=> FALSE
               /\ Reminding("pinger", k, c)' <=> Reminding("pinger", k, c)
               /\ <<k, c>> \in marks' <=> <<k, c>> \in marks
    <3>1. run'["pinger"] = run["pinger"]
      BY ActorsAre DEF EditStep, Moves
    <3>2. k # "EDIT"
      BY DEF Reminds
    <3> QED
      BY <1>1, <3>1, <3>2 DEF EditStep, Reminding, Asking
  <2>3. ASSUME NEW k \in Reminds
        PROVE  pinged'[<<k, c>>] + One(Reminding("dispatcher", k, c))' + One(Reminding("pinger", k, c))'
                  <= unsure'[c] + One(<<k, c>> \in marks)'
    <3>1. pinged[<<k, c>>] + One(Reminding("dispatcher", k, c)) + One(Reminding("pinger", k, c))
            <= unsure[c] + One(<<k, c>> \in marks)
      BY DEF Inv, PersonSound, Counted
    <3> QED
      BY <2>1, <2>2, <3>1 DEF One
  <2> QED
    BY <2>3 DEF Counted, One
<1>8. \A x \in People : PersonSound(x)'
  BY <1>6, <1>7 DEF PersonSound
<1>9. BooksSound' /\ to' = to /\ post' = post /\ late' = late
  BY DEF Inv, BooksSound, EditStep
<1> QED
  BY <1>1, <1>2, <1>3, <1>4, <1>5, <1>8, <1>9, ActorsAre, StepKept DEF EditStep

\* The dispatcher reads, and leaves all as it is.
LEMMA ReadsOn ==
    ASSUME Inv, NEW v \in Locals, Moves("dispatcher", v), ChatsAlone,
           UNCHANGED <<row, post, may, done, outbox, tries, cleaned, trouble, job>>,
           run["dispatcher"].pc \in {"look", "sent"}, v.pc \in {"sent", "edit"}, v.cmd = run["dispatcher"].cmd, EditSound'
    PROVE  Inv'
<1>1. v.cmd \in Commands /\ outbox[v.cmd] = "offered" /\ v.cmd # "auto" /\ "dispatcher" \in Actors
  BY DispatcherIs, ActorsAre DEF Commands, Reminds
<1>2. TypeOK' /\ BooksSound'
  BY DEF TypeOK, Inv, BooksSound, Moves, ChatsAlone
<1>3. run'["dispatcher"] = v
  BY DEF Moves
<1>4. Shape("dispatcher")' /\ PingSound("dispatcher")' /\ SweepSound("dispatcher")'
  BY <1>1, <1>3, DispatcherPlaces
     DEF Shape, PingSound, SweepSound, Asking, Sending, Pinging, Sweeping, Deferring, At
<1>5. QuietSound("dispatcher")'
  BY <1>1, <1>3 DEF Inv, ActorSound, QuietSound, ChatsAlone, Closed, At
<1>6. PostGrows /\ v.pc \notin Turns /\ run["dispatcher"].pc \notin Turns
  BY DEF PostGrows, Turns
<1> QED
  BY <1>1, <1>2, <1>4, <1>5, <1>6, Bookkeeping DEF ActorSound

LEMMA ReadForEditKeeps ==
    ASSUME Inv, ReadForEdit
    PROVE  Inv'
<1> DEFINE v == [run["dispatcher"] EXCEPT !.pc = "sent", !.was = row, !.calm = Closed]
<1>1. /\ TypeOK /\ "dispatcher" \in Actors /\ run["dispatcher"] \in Locals /\ run["dispatcher"].pc = "look"
      /\ run["dispatcher"].cmd = "EDIT" /\ ~post.withdrawn
  BY ActorsAre DEF ReadForEdit, Edits, At, Inv, TypeOK
<1>2. v \in Locals /\ v.pc = "sent" /\ v.cmd = run["dispatcher"].cmd /\ v.was = row
  <2>1. row \in [People -> RowType] /\ Closed \in BOOLEAN
    BY <1>1, PostTyped DEF TypeOK, Closed
  <2> QED
    BY <1>1, <2>1 DEF Locals
<1>3. Moves("dispatcher", v)
  <2>1. Set("dispatcher", v)
    BY DEF ReadForEdit, Edit
  <2> QED
    BY <1>1, <1>2, <2>1, SetMoves
<1> HIDE DEF v
<1>4. ChatsAlone /\ UNCHANGED <<row, post, may, done, outbox, tries, cleaned, trouble, job>>
  BY DEF ReadForEdit, Smoothly, ChatsAlone, scene, rows, chats
<1>5. cleaned = {}
  BY <1>1 DEF Inv, CleanedSound
<1>6. EditSound'
  <2>1. run'["dispatcher"] = v
    BY <1>3 DEF Moves
  <2> QED
    BY <1>2, <1>4, <1>5, <2>1 DEF EditSound, Asking
<1> QED
  BY <1>1, <1>2, <1>3, <1>4, <1>6, ReadsOn

LEMMA ReadDeliveriesKeeps ==
    ASSUME Inv, ReadDeliveries
    PROVE  Inv'
<1> DEFINE me == run["dispatcher"]
           sent == {c \in People : delivery[c] = "SENT"}
           again == {c \in People : <<"EDIT", c>> \in marks}
           v == [me EXCEPT !.pc = "edit", !.todo = sent, !.bad = sent # {}, !.seen = again]
<1>1. TypeOK /\ "dispatcher" \in Actors /\ me \in Locals /\ me.pc = "sent"
  BY ActorsAre DEF ReadDeliveries, Edits, At, Inv, TypeOK
<1>2. cleaned = {} /\ \A c \in People : Answered(me.was[c]) => Answered(row[c])
  BY <1>1, SMTT(60) DEF Inv, EditSound
<1>3. v \in Locals /\ v.pc = "edit" /\ v.cmd = me.cmd /\ v.was = me.was /\ v.todo = sent
  BY <1>1 DEF Locals
<1>4. Moves("dispatcher", v)
  <2>1. Set("dispatcher", v)
    BY DEF ReadDeliveries, Edit
  <2> QED
    BY <1>1, <1>3, <2>1, SetMoves
<1> HIDE DEF v
<1>5. ChatsAlone /\ UNCHANGED <<row, post, may, done, outbox, tries, cleaned, trouble, job>>
  BY DEF ReadDeliveries, Smoothly, ChatsAlone, scene, rows, chats
<1>6. EditSound'
  <2>1. run'["dispatcher"] = v /\ delivery' = delivery
    BY <1>4, <1>5 DEF Moves, ChatsAlone
  <2>2. \A c \in v.todo : delivery'[c] = "SENT" /\ (Answered(v.was[c]) => Answered(row'[c]))
    BY <1>2, <1>3, <1>5, <2>1
  <2> QED
    BY <1>2, <1>3, <1>5, <2>1, <2>2 DEF EditSound, Asking
<1> QED
  BY <1>1, <1>3, <1>4, <1>5, <1>6, ReadsOn

LEMMA EditTextKeeps ==
    ASSUME Inv, NEW c \in People, EditText(c) \/ EditFails(c)
    PROVE  Inv'
<1>1. /\ TypeOK /\ run["dispatcher"] \in Locals /\ run["dispatcher"].pc = "edit" /\ c \in run["dispatcher"].todo
      /\ "text" \in known[c] /\ row[c].reply # "none"
      /\ Answered(run["dispatcher"].was[c]) => Answered(row[c])
  BY EditIs DEF EditText, EditFails, Edits, At, Asking
<1>2. UNCHANGED <<may, to, post, delivery, row, marks, done, known, job, outbox, tries, tap, screen, told, pinged, asked,
                  unsure, late, cleaned, trouble>>
  BY DEF EditText, EditFails, Smoothly, scene, rows, chats
<1>3. PICK v \in Locals :
         /\ Moves("dispatcher", v) /\ v.cmd = run["dispatcher"].cmd /\ v.was = run["dispatcher"].was
         /\ v.todo = run["dispatcher"].todo \ {c}
         /\ v.pc = "edit" \/ (v.pc = "claim" /\ v.who = c /\ Answered(v.was[c]))
  <2> DEFINE me == run["dispatcher"]
             asks == [me EXCEPT !.pc = "claim", !.who = c, !.todo = @ \ {c}, !.bad = FALSE]
             passes == [me EXCEPT !.todo = @ \ {c}, !.bad = FALSE]
             fails == [me EXCEPT !.todo = @ \ {c}]
  <2>1. /\ asks \in Locals /\ asks.cmd = me.cmd /\ asks.was = me.was /\ asks.todo = me.todo \ {c}
        /\ asks.pc = "claim" /\ asks.who = c
    BY <1>1 DEF Locals
  <2>2. /\ passes \in Locals /\ passes.cmd = me.cmd /\ passes.was = me.was /\ passes.todo = me.todo \ {c}
        /\ passes.pc = "edit"
    BY <1>1 DEF Locals
  <2>3. /\ fails \in Locals /\ fails.cmd = me.cmd /\ fails.was = me.was /\ fails.todo = me.todo \ {c}
        /\ fails.pc = "edit"
    BY <1>1 DEF Locals
  <2>4. \/ Answered(me.was[c]) /\ Set("dispatcher", asks)
        \/ Set("dispatcher", passes)
        \/ Set("dispatcher", fails)
    BY DEF EditText, EditFails, Edit
  <2> HIDE DEF asks, passes, fails
  <2> QED
    BY <1>1, <2>1, <2>2, <2>3, <2>4, ActorsAre, SetMoves
<1>4. /\ \A x \in People \ {c} : keys'[x] = keys[x]
      /\ keys' \in [People -> SUBSET Messages]
      /\ keys'[c] \ {"text"} = keys[c] \ {"text"} /\ keys'[c] \subseteq keys[c] \cup screen[c]
      /\ \/ "text" \in keys'[c] \/ keys'[c] = keys[c] \/ c \in bare'
         \/ run["dispatcher"].was[c].reply \notin {"none", "pending"}
      /\ bare' = bare \/ bare' = bare \cup {c}
  <2>1. CASE EditFails(c)
    <3>1. keys' = keys /\ bare' = bare
      BY <2>1 DEF EditFails, chats
    <3> QED
      BY <1>1, <3>1 DEF TypeOK
  <2>2. CASE EditText(c)
    <3>1. PICK buttons \in {{}, {"text"}} : /\ keys' = [keys EXCEPT ![c] = (@ \ {"text"}) \cup buttons]
                                            /\ buttons = {} => run["dispatcher"].was[c].reply # "pending"
                                            /\ "text" \in screen[c]
      BY <2>2 DEF EditText
    <3>2. bare' = IF run["dispatcher"].was[c].reply = "none" THEN bare \cup {c} ELSE bare
      BY <2>2 DEF EditText
    <3> QED
      BY <1>1, <3>1, <3>2 DEF TypeOK, Messages
  <2> QED
    BY <2>1, <2>2
<1>5. TypeOK'
  BY <1>1, <1>2, <1>3, <1>4 DEF TypeOK, Moves
<1>6. EditStep(v, c)
  <2>1. unsure'[c] >= unsure[c]
    BY <1>1, <1>2 DEF TypeOK
  <2> QED
    BY <1>1, <1>2, <1>3, <1>4, <2>1 DEF EditStep, Asking
<1>7. Delivered(c) /\ Counted(c) /\ CanAnswer(c)
  BY DEF Inv, PersonSound
<1>8. /\ ~Asks(c) /\ ~Asks(c)' /\ ~Appends(c) /\ ~Appends(c)'
  BY <1>1, <1>3, ActorsAre DEF Asks, Appends, At, Moves
<1>9. asked'[c] + One(Asks(c)') <= unsure'[c] + One(<<"EDIT", c>> \in marks')
  BY <1>1, <1>2, <1>7, <1>8 DEF Counted, One, TypeOK
<1>10. Delivered(c)'
  BY <1>2, <1>4, <1>7, <1>8 DEF Delivered, New
<1>11. CanAnswer(c)'
  <2>1. row[c].reply = "pending" => run["dispatcher"].was[c].reply \in {"none", "pending"}
    <3>1. run["dispatcher"].was[c] \in RowType
      BY <1>1 DEF Locals
    <3> QED
      BY <1>1, <3>1 DEF Answered, RowType, Replies
  <2>2. \A m \in {"prompt", "stray"} : m \in keys'[c] <=> m \in keys[c]
    BY <1>4
  <2> QED
    BY <1>2, <1>4, <1>7, <1>8, <2>1, <2>2 DEF CanAnswer, Unasked
<1> QED
  BY <1>5, <1>6, <1>9, <1>10, <1>11, EditKeeps

LEMMA ClaimPromptKeeps ==
    ASSUME Inv, ClaimPrompt
    PROVE  Inv'
<1>1. /\ TypeOK /\ run["dispatcher"] \in Locals /\ run["dispatcher"].pc = "claim" /\ "dispatcher" \in Actors
  BY EditIs, ActorsAre DEF ClaimPrompt, Edits, At, Asking
<1>2. PICK c \in People : /\ c = run["dispatcher"].who /\ c \notin run["dispatcher"].todo /\ "text" \in known[c]
                          /\ row[c].reply # "none" /\ Answered(run["dispatcher"].was[c])
  BY <1>1, EditIs DEF Asking
<1>3. UNCHANGED <<may, to, post, delivery, row, done, known, job, outbox, tries, tap, screen, keys, told, pinged, asked,
                  unsure, late, cleaned, bare, trouble>> /\ marks' = marks \cup {<<"EDIT", c>>}
  BY <1>2 DEF ClaimPrompt, Smoothly, scene, chats
<1>4. PICK v \in Locals :
         /\ Moves("dispatcher", v) /\ v.cmd = run["dispatcher"].cmd /\ v.was = run["dispatcher"].was
         /\ v.todo = run["dispatcher"].todo
         /\ \/ v.pc = "edit" /\ <<"EDIT", c>> \in marks
            \/ v.pc = "reset" /\ v.who = c /\ <<"EDIT", c>> \notin marks
  <2>1. CASE <<"EDIT", c>> \in marks
    <3>1. Resume("dispatcher", "edit", FALSE)
      BY <1>2, <2>1 DEF ClaimPrompt
    <3> QED
      BY <1>1, <2>1, <3>1, ResumeMoves
  <2>2. CASE <<"EDIT", c>> \notin marks
    <3>1. Goto("dispatcher", "reset")
      BY <1>2, <2>2 DEF ClaimPrompt
    <3> QED
      BY <1>1, <1>2, <2>2, <3>1, GotoMoves, SMTT(30)
  <2> QED
    BY <2>1, <2>2
<1>5. TypeOK'
  BY <1>1, <1>2, <1>3, <1>4 DEF TypeOK, Moves
<1>6. EditStep(v, c)
  <2>1. unsure'[c] >= unsure[c]
    BY <1>1, <1>3 DEF TypeOK
  <2> QED
    BY <1>1, <1>2, <1>3, <1>4, <2>1 DEF EditStep, Asking
<1>7. Delivered(c) /\ Counted(c) /\ CanAnswer(c)
  BY DEF Inv, PersonSound
<1>8. /\ ~Asks(c) /\ (Asks(c)' <=> v.pc = "reset") /\ ~Appends(c) /\ ~Appends(c)'
  BY <1>1, <1>4, ActorsAre DEF Asks, Appends, At, Moves
<1>9. asked'[c] + One(Asks(c)') <= unsure'[c] + One(<<"EDIT", c>> \in marks')
  <2>1. asked[c] \in Nat /\ unsure[c] \in Nat /\ asked[c] <= unsure[c] + One(<<"EDIT", c>> \in marks)
    BY <1>1, <1>7, <1>8 DEF TypeOK, Counted, One
  <2> QED
    BY <1>3, <1>4, <1>8, <2>1 DEF One
<1>10. Delivered(c)'
  BY <1>3, <1>7, <1>8 DEF Delivered, New
<1>11. CanAnswer(c)'
  <2>1. CASE v.pc = "edit"
    BY <1>3, <1>4, <1>7, <1>8, <2>1 DEF CanAnswer, Unasked
  <2>2. CASE v.pc = "reset"
    <3>1. asked[c] <= unsure[c] /\ <<"EDIT", c>> \notin marks
      BY <1>1, <1>4, <1>7, <1>8, <2>2 DEF TypeOK, Counted, One
    <3> QED
      BY <1>3, <1>7, <1>8, <2>2, <3>1 DEF CanAnswer, Unasked
  <2> QED
    BY <1>4, <2>1, <2>2
<1> QED
  BY <1>5, <1>6, <1>9, <1>10, <1>11, EditKeeps

LEMMA ResumeRemindersKeeps ==
    ASSUME Inv, ResumeReminders
    PROVE  Inv'
<1>1. /\ TypeOK /\ run["dispatcher"] \in Locals /\ run["dispatcher"].pc = "reset" /\ "dispatcher" \in Actors
  BY EditIs, ActorsAre DEF ResumeReminders, Edits, At, Asking
<1>2. PICK c \in People : /\ c = run["dispatcher"].who /\ c \notin run["dispatcher"].todo /\ "text" \in known[c]
                          /\ row[c].reply # "none" /\ Answered(run["dispatcher"].was[c])
  BY <1>1, EditIs DEF Asking
<1>3. UNCHANGED <<may, to, post, delivery, marks, done, known, job, outbox, tries, tap, screen, keys, told, pinged, asked,
                  unsure, late, cleaned, bare, trouble>>
  BY DEF ResumeReminders, Smoothly, scene, chats
<1>4. PICK v \in Locals :
         /\ Moves("dispatcher", v) /\ v.cmd = run["dispatcher"].cmd /\ v.was = run["dispatcher"].was
         /\ v.todo = run["dispatcher"].todo /\ v.pc = "await" /\ v.who = c
  <2>1. Goto("dispatcher", "await")
    BY DEF ResumeReminders
  <2> QED
    BY <1>1, <1>2, <2>1, GotoMoves
<1>5. /\ row' \in [People -> RowType] /\ row'[c].reply = row[c].reply
      /\ \A x \in People \ {c} : row'[x] = row[x]
  <2>1. row' = row \/ row' = [row EXCEPT ![c].next = "later"]
    BY <1>2 DEF ResumeReminders
  <2>2. row \in [People -> RowType]
    BY <1>1 DEF TypeOK
  <2>3. CASE row' = [row EXCEPT ![c].next = "later"]
    BY <1>1, <2>2, <2>3, NextAlone DEF Times
  <2> QED
    BY <2>1, <2>2, <2>3
<1>6. TypeOK'
  BY <1>1, <1>2, <1>3, <1>4, <1>5 DEF TypeOK, Moves
<1>7. EditStep(v, c)
  <2>1. unsure'[c] >= unsure[c]
    BY <1>1, <1>3 DEF TypeOK
  <2> QED
    BY <1>1, <1>2, <1>3, <1>4, <1>5, <2>1 DEF EditStep, Asking
<1>8. Delivered(c) /\ Counted(c) /\ CanAnswer(c)
  BY DEF Inv, PersonSound
<1>9. Asks(c) /\ Asks(c)' /\ ~Appends(c) /\ ~Appends(c)'
  BY <1>1, <1>2, <1>4, ActorsAre DEF Asks, Appends, At, Moves
<1>10. asked[c] + 1 <= unsure[c] + 1 /\ <<"EDIT", c>> \in marks
  BY <1>1, <1>8, <1>9 DEF TypeOK, Counted, CanAnswer, One
<1>11. asked'[c] + One(Asks(c)') <= unsure'[c] + One(<<"EDIT", c>> \in marks')
  BY <1>3, <1>9, <1>10 DEF One
<1>12. Delivered(c)'
  BY <1>2, <1>3, <1>5, <1>8, <1>9 DEF Delivered, New
<1>13. CanAnswer(c)'
  <2>1. asked[c] <= unsure[c]
    BY <1>1, <1>10 DEF TypeOK
  <2> QED
    BY <1>3, <1>8, <1>9, <1>10, <2>1 DEF CanAnswer, Unasked
<1> QED
  BY <1>6, <1>7, <1>11, <1>12, <1>13, EditKeeps

LEMMA ResetReplyKeeps ==
    ASSUME Inv, ResetReply
    PROVE  Inv'
<1>1. /\ TypeOK /\ run["dispatcher"] \in Locals /\ run["dispatcher"].pc = "await" /\ "dispatcher" \in Actors
  BY EditIs, ActorsAre DEF ResetReply, Edits, At, Asking
<1>2. PICK c \in People : /\ c = run["dispatcher"].who /\ c \notin run["dispatcher"].todo /\ "text" \in known[c]
                          /\ row[c].reply # "none" /\ Answered(run["dispatcher"].was[c])
  BY <1>1, EditIs DEF Asking
<1>3. UNCHANGED <<may, to, post, delivery, marks, done, known, job, outbox, tries, tap, screen, keys, told, pinged, asked,
                  unsure, late, cleaned, bare, trouble>>
  BY DEF ResetReply, Smoothly, scene, chats
<1>4. PICK v \in Locals :
         /\ Moves("dispatcher", v) /\ v.cmd = run["dispatcher"].cmd /\ v.was = run["dispatcher"].was
         /\ v.todo = run["dispatcher"].todo /\ v.pc = "prompt" /\ v.who = c
  <2>1. Goto("dispatcher", "prompt")
    BY DEF ResetReply
  <2> QED
    BY <1>1, <1>2, <2>1, GotoMoves
<1>5. /\ row' \in [People -> RowType] /\ row'[c].reply = "pending" /\ \A x \in People \ {c} : row'[x] = row[x]
  <2>1. row' = [row EXCEPT ![c].reply = "pending"]
    BY <1>2 DEF ResetReply
  <2> QED
    BY <1>1, <2>1, ReplyAlone DEF Replies
<1>6. TypeOK'
  BY <1>1, <1>2, <1>3, <1>4, <1>5 DEF TypeOK, Moves
<1>7. EditStep(v, c)
  <2>1. unsure'[c] >= unsure[c]
    BY <1>1, <1>3 DEF TypeOK
  <2> QED
    BY <1>1, <1>2, <1>3, <1>4, <1>5, <2>1 DEF EditStep, Asking
<1>8. Delivered(c) /\ Counted(c) /\ CanAnswer(c)
  BY DEF Inv, PersonSound
<1>9. Asks(c) /\ Asks(c)' /\ ~Appends(c) /\ ~Appends(c)'
  BY <1>1, <1>2, <1>4, ActorsAre DEF Asks, Appends, At, Moves
<1>10. asked[c] + 1 <= unsure[c] + 1 /\ <<"EDIT", c>> \in marks
  BY <1>1, <1>8, <1>9 DEF TypeOK, Counted, CanAnswer, One
<1>11. asked'[c] + One(Asks(c)') <= unsure'[c] + One(<<"EDIT", c>> \in marks')
  BY <1>3, <1>9, <1>10 DEF One
<1>12. Delivered(c)'
  BY <1>2, <1>3, <1>5, <1>8, <1>9 DEF Delivered, New
<1>13. CanAnswer(c)'
  <2>1. asked[c] <= unsure[c]
    BY <1>1, <1>10 DEF TypeOK
  <2> QED
    BY <1>3, <1>8, <1>9, <1>10, <2>1 DEF CanAnswer, Unasked
<1> QED
  BY <1>6, <1>7, <1>11, <1>12, <1>13, EditKeeps

LEMMA SendPromptKeeps ==
    ASSUME Inv, SendPrompt
    PROVE  Inv'
<1>1. /\ TypeOK /\ run["dispatcher"] \in Locals /\ run["dispatcher"].pc = "prompt" /\ "dispatcher" \in Actors
  BY EditIs, ActorsAre DEF SendPrompt, Edits, At, Asking
<1>2. PICK c \in People : /\ c = run["dispatcher"].who /\ c \notin run["dispatcher"].todo /\ "text" \in known[c]
                          /\ row[c].reply # "none"
  BY <1>1, EditIs DEF Asking
<1>3. UNCHANGED <<may, to, post, delivery, row, marks, done, known, job, outbox, tries, tap, told, pinged, unsure, late,
                  cleaned, bare, trouble>>
  BY DEF SendPrompt, Smoothly, scene, rows
<1>4. PICK v \in Locals :
         /\ Moves("dispatcher", v) /\ v.cmd = run["dispatcher"].cmd /\ v.was = run["dispatcher"].was
         /\ v.todo = run["dispatcher"].todo /\ v.pc = "append" /\ v.who = c
  <2>1. Goto("dispatcher", "append")
    BY DEF SendPrompt
  <2> QED
    BY <1>1, <1>2, <2>1, GotoMoves
<1>5. /\ screen' = [screen EXCEPT ![c] = @ \cup {"prompt"}] /\ keys' = [keys EXCEPT ![c] = @ \cup {"prompt"}]
      /\ asked' = [asked EXCEPT ![c] = @ + 1]
  BY <1>2 DEF SendPrompt, Shows, Count
<1>6. TypeOK'
  BY <1>1, <1>2, <1>3, <1>4, <1>5 DEF TypeOK, Moves, Messages
<1>7. /\ screen'[c] = screen[c] \cup {"prompt"} /\ keys'[c] = keys[c] \cup {"prompt"} /\ asked'[c] = asked[c] + 1
      /\ \A x \in People \ {c} : screen'[x] = screen[x] /\ keys'[x] = keys[x] /\ asked'[x] = asked[x]
  BY <1>1, <1>5 DEF TypeOK
<1>8. EditStep(v, c)
  <2>1. unsure'[c] >= unsure[c]
    BY <1>1, <1>3 DEF TypeOK
  <2> QED
    BY <1>1, <1>2, <1>3, <1>4, <1>7, <2>1 DEF EditStep, Asking
<1>9. Delivered(c) /\ Counted(c) /\ CanAnswer(c)
  BY DEF Inv, PersonSound
<1>10. Asks(c) /\ ~Asks(c)' /\ ~Appends(c) /\ Appends(c)'
  BY <1>1, <1>2, <1>4, ActorsAre DEF Asks, Appends, At, Moves
<1>11. asked'[c] + One(Asks(c)') <= unsure'[c] + One(<<"EDIT", c>> \in marks')
  <2>1. asked[c] \in Nat /\ asked[c] + 1 <= unsure[c] + One(<<"EDIT", c>> \in marks)
    BY <1>1, <1>9, <1>10 DEF TypeOK, Counted, One
  <2> QED
    BY <1>3, <1>7, <1>10, <2>1 DEF One
<1>12. Delivered(c)'
  <2>1. \A m \in {"text", "part"} : m \in screen'[c] <=> m \in screen[c]
    BY <1>7
  <2>2. keys'[c] \subseteq screen'[c]
    BY <1>7, <1>9 DEF Delivered
  <2> QED
    BY <1>3, <1>9, <1>10, <2>1, <2>2 DEF Delivered, New
<1>13. CanAnswer(c)'
  <2>1. "prompt" \in keys'[c]
    BY <1>7
  <2>2. tap[c].on # "prompt" /\ <<"EDIT", c>> \in marks
    BY <1>9, <1>10 DEF CanAnswer
  <2> QED
    BY <1>3, <1>10, <2>1, <2>2 DEF CanAnswer
<1> QED
  BY <1>6, <1>8, <1>11, <1>12, <1>13, EditKeeps

LEMMA PromptFailsKeeps ==
    ASSUME Inv, PromptFails \/ PromptUnsure
    PROVE  Inv'
<1>1. /\ TypeOK /\ run["dispatcher"] \in Locals /\ run["dispatcher"].pc = "prompt" /\ "dispatcher" \in Actors
  BY EditIs, ActorsAre DEF PromptFails, PromptUnsure, Edits, At, Asking
<1>2. PICK c \in People : /\ c = run["dispatcher"].who /\ c \notin run["dispatcher"].todo /\ "text" \in known[c]
                          /\ row[c].reply # "none" /\ Answered(run["dispatcher"].was[c])
  BY <1>1, EditIs DEF Asking
<1>3. UNCHANGED <<may, to, post, delivery, done, known, job, outbox, tries, tap, told, pinged, late, cleaned, bare>>
      /\ trouble' \in 0..MaxTrouble
  BY <1>1, AnnouncementAssumption DEF PromptFails, PromptUnsure, Trouble, Smoothly, scene, chats, TypeOK
<1>4. /\ row' = [row EXCEPT ![c] = [reply |-> run["dispatcher"].was[c].reply,
                     next |-> IF run["dispatcher"].calm THEN @.next ELSE run["dispatcher"].was[c].next]]
      /\ marks' = marks \ {<<"EDIT", c>>} /\ Resume("dispatcher", "edit", FALSE)
  BY <1>2 DEF PromptFails, PromptUnsure, Restored
<1>5. PICK v \in Locals :
         /\ Moves("dispatcher", v) /\ v.cmd = run["dispatcher"].cmd /\ v.was = run["dispatcher"].was
         /\ v.todo = run["dispatcher"].todo /\ v.pc = "edit"
  BY <1>1, <1>4, ResumeMoves
<1>6. /\ row' \in [People -> RowType] /\ Answered(row'[c]) /\ \A x \in People \ {c} : row'[x] = row[x]
  <2>1. row[c] \in RowType /\ run["dispatcher"].was[c] \in RowType
    BY <1>1 DEF TypeOK, Locals
  <2>2. PICK r \in RowType : row' = [row EXCEPT ![c] = r] /\ Answered(r)
    <3> DEFINE r == [reply |-> run["dispatcher"].was[c].reply,
                     next |-> IF run["dispatcher"].calm THEN row[c].next ELSE run["dispatcher"].was[c].next]
    <3>1. r \in RowType /\ Answered(r)
      BY <1>2, <2>1 DEF RowType, Answered
    <3>2. row' = [row EXCEPT ![c] = r]
      BY <1>4
    <3> HIDE DEF r
    <3> QED
      BY <3>1, <3>2
  <2> QED
    BY <1>1, <2>2 DEF TypeOK
<1>7. \/ UNCHANGED <<screen, keys, asked, unsure>>
      \/ /\ screen' = [screen EXCEPT ![c] = @ \cup {"stray"}] /\ keys' = [keys EXCEPT ![c] = @ \cup {"stray"}]
         /\ asked' = [asked EXCEPT ![c] = @ + 1] /\ unsure' = [unsure EXCEPT ![c] = @ + 1]
  BY <1>2 DEF PromptFails, PromptUnsure, Shows, Count, chats
<1>8. /\ screen' \in [People -> SUBSET Messages] /\ keys' \in [People -> SUBSET Messages]
      /\ asked' \in [People -> Nat] /\ unsure' \in [People -> Nat]
      /\ screen'[c] \ {"stray"} = screen[c] \ {"stray"} /\ (keys[c] \subseteq screen[c] => keys'[c] \subseteq screen'[c])
      /\ asked'[c] - unsure'[c] = asked[c] - unsure[c] /\ unsure'[c] >= unsure[c]
      /\ \A x \in People \ {c} : /\ screen'[x] = screen[x] /\ keys'[x] = keys[x]
                                 /\ asked'[x] = asked[x] /\ unsure'[x] = unsure[x]
  <2>1. CASE UNCHANGED <<screen, keys, asked, unsure>>
    BY <1>1, <2>1 DEF TypeOK
  <2>2. CASE /\ screen' = [screen EXCEPT ![c] = @ \cup {"stray"}] /\ keys' = [keys EXCEPT ![c] = @ \cup {"stray"}]
             /\ asked' = [asked EXCEPT ![c] = @ + 1] /\ unsure' = [unsure EXCEPT ![c] = @ + 1]
    <3>1. /\ screen'[c] = screen[c] \cup {"stray"} /\ keys'[c] = keys[c] \cup {"stray"}
          /\ \A x \in People \ {c} : screen'[x] = screen[x] /\ keys'[x] = keys[x]
          /\ screen' \in [People -> SUBSET Messages] /\ keys' \in [People -> SUBSET Messages]
      BY <1>1, <2>2 DEF TypeOK, Messages
    <3>2. /\ asked[c] \in Nat /\ unsure[c] \in Nat /\ asked'[c] = asked[c] + 1 /\ unsure'[c] = unsure[c] + 1
          /\ \A x \in People \ {c} : asked'[x] = asked[x] /\ unsure'[x] = unsure[x]
          /\ asked' \in [People -> Nat] /\ unsure' \in [People -> Nat]
      BY <1>1, <2>2, SMTT(60) DEF TypeOK
    <3> QED
      BY <3>1, <3>2
  <2> QED
    BY <1>7, <2>1, <2>2
<1>9. TypeOK'
  BY <1>1, <1>2, <1>3, <1>4, <1>5, <1>6, <1>8, SMTT(60) DEF TypeOK, Moves
<1>10. EditStep(v, c)
  BY <1>1, <1>2, <1>3, <1>4, <1>5, <1>6, <1>8 DEF EditStep, Asking, Answered
<1>11. Delivered(c) /\ Counted(c) /\ CanAnswer(c)
  BY DEF Inv, PersonSound
<1>12. Asks(c) /\ ~Asks(c)' /\ ~Appends(c) /\ ~Appends(c)'
  BY <1>1, <1>2, <1>5, ActorsAre DEF Asks, Appends, At, Moves
<1>13. asked'[c] + One(Asks(c)') <= unsure'[c] + One(<<"EDIT", c>> \in marks')
  <2>1. /\ asked[c] \in Nat /\ unsure[c] \in Nat /\ asked'[c] \in Nat /\ unsure'[c] \in Nat
        /\ asked[c] + 1 <= unsure[c] + One(<<"EDIT", c>> \in marks)
    BY <1>1, <1>8, <1>11, <1>12 DEF TypeOK, Counted, One
  <2>2. asked[c] <= unsure[c]
    BY <2>1 DEF One
  <2> QED
    BY <1>4, <1>8, <1>12, <2>1, <2>2 DEF One
<1>14. "prompt" \notin screen[c] /\ tap[c].on # "prompt"
  BY <1>11, <1>12 DEF CanAnswer
<1>15. Delivered(c)'
  <2>1. \A m \in {"text", "part", "prompt"} : m \in screen'[c] <=> m \in screen[c]
    BY <1>8
  <2>2. row'[c].reply # "none"
    BY <1>6 DEF Answered
  <2> QED
    BY <1>2, <1>3, <1>8, <1>11, <1>12, <2>1, <2>2 DEF Delivered, New
<1>16. CanAnswer(c)'
  BY <1>3, <1>6, <1>8, <1>12, <1>14 DEF CanAnswer, Answered
<1> QED
  BY <1>9, <1>10, <1>13, <1>15, <1>16, EditKeeps

LEMMA AppendPromptKeeps ==
    ASSUME Inv, AppendPrompt
    PROVE  Inv'
<1>1. /\ TypeOK /\ run["dispatcher"] \in Locals /\ run["dispatcher"].pc = "append" /\ "dispatcher" \in Actors
  BY EditIs, ActorsAre DEF AppendPrompt, Edits, At, Asking
<1>2. PICK c \in People : /\ c = run["dispatcher"].who /\ c \notin run["dispatcher"].todo /\ "text" \in known[c]
                          /\ row[c].reply # "none"
  BY <1>1, EditIs DEF Asking
<1>3. UNCHANGED <<may, to, post, delivery, row, marks, done, job, outbox, tries, tap, screen, keys, told, pinged, asked,
                  unsure, late, cleaned, bare, trouble>>
  BY DEF AppendPrompt, Smoothly, scene, chats
<1>4. PICK v \in Locals :
         /\ Moves("dispatcher", v) /\ v.cmd = run["dispatcher"].cmd /\ v.was = run["dispatcher"].was
         /\ v.todo = run["dispatcher"].todo /\ v.pc = "edit"
  <2>1. Resume("dispatcher", "edit", FALSE)
    BY DEF AppendPrompt
  <2> QED
    BY <1>1, <2>1, ResumeMoves
<1>5. known' = [known EXCEPT ![c] = @ \cup {"prompt"}]
  BY <1>2 DEF AppendPrompt
<1>6. TypeOK'
  BY <1>1, <1>2, <1>3, <1>4, <1>5 DEF TypeOK, Moves, Messages
<1>7. known'[c] = known[c] \cup {"prompt"} /\ \A x \in People \ {c} : known'[x] = known[x]
  BY <1>1, <1>5 DEF TypeOK
<1>8. EditStep(v, c)
  <2>1. unsure'[c] >= unsure[c]
    BY <1>1, <1>3 DEF TypeOK
  <2> QED
    BY <1>1, <1>2, <1>3, <1>4, <1>7, <2>1 DEF EditStep, Asking
<1>9. Delivered(c) /\ Counted(c) /\ CanAnswer(c)
  BY DEF Inv, PersonSound
<1>10. ~Asks(c) /\ ~Asks(c)' /\ Appends(c) /\ ~Appends(c)'
  BY <1>1, <1>2, <1>4, ActorsAre DEF Asks, Appends, At, Moves
<1>11. asked'[c] + One(Asks(c)') <= unsure'[c] + One(<<"EDIT", c>> \in marks')
  BY <1>1, <1>3, <1>9, <1>10 DEF TypeOK, Counted, One
<1>12. Delivered(c)'
  BY <1>2, <1>3, <1>7, <1>9, <1>10 DEF Delivered, New
<1>13. CanAnswer(c)'
  BY <1>3, <1>9, <1>10 DEF CanAnswer, Unasked
<1> QED
  BY <1>6, <1>8, <1>11, <1>12, <1>13, EditKeeps

LEMMA EndEditKeeps ==
    ASSUME Inv, EndEdit
    PROVE  Inv'
<1>1. /\ TypeOK /\ run["dispatcher"] \in Locals /\ run["dispatcher"].pc = "edit" /\ "dispatcher" \in Actors
      /\ run["dispatcher"].cmd \in Commands /\ outbox[run["dispatcher"].cmd] = "offered" /\ run["dispatcher"].cmd # "auto"
  BY EditIs, ActorsAre DEF EndEdit, Edits, At, Asking
<1>2. PICK v \in Locals : Moves("dispatcher", v) /\ v.pc = "ack" /\ v.cmd = run["dispatcher"].cmd
  BY <1>1, AnswersMoves DEF EndEdit
<1>3. ChatsAlone /\ PostGrows /\ UNCHANGED <<row, post, may, outbox, tries, cleaned, bare, trouble, job>>
  BY DEF EndEdit, Smoothly, ChatsAlone, PostGrows, scene, chats
<1>4. done' \subseteq Commands
  BY <1>1 DEF EndEdit, TypeOK, Commands
<1>5. TypeOK' /\ BooksSound'
  BY <1>1, <1>2, <1>3, <1>4 DEF TypeOK, Inv, BooksSound, Moves, ChatsAlone
<1>6. run["dispatcher"].pc \notin Turns
  BY <1>1 DEF Turns
<1> QED
  BY <1>1, <1>2, <1>3, <1>5, <1>6, BooksRest, DispatcherPlaces DEF Resting

---------------------------------------------------------------------------
(* The people, time and crashes.                                           *)

\* No actor moves.
LEMMA StillKeeps ==
    ASSUME Inv, UNCHANGED <<run, late, to, post, outbox, tries, cleaned, bare>>, TypeOK', Gentle, DispatcherAside, JobAside,
           \A x \in People : PersonSound(x)'
    PROVE  Inv'
<1>1. \A a \in Actors : Moves(a, run[a])
  BY DEF Inv, TypeOK, Moves
<1>2. "admin" \in Actors /\ "pinger" \in Actors /\ Tidy
  BY DEF Actors, DispatcherAside
<1>3. ActorSound("admin")'
  BY <1>1, <1>2, OthersKept
<1>4. BooksSound'
  BY DEF Inv, BooksSound
<1> QED
  BY <1>1, <1>2, <1>3, <1>4, StepKept

LEMMA StillTurns ==
    ASSUME UNCHANGED run
    PROVE  \A x : SameTurn(x)
BY DEF SameTurn, Asks, Appends, Reminding, At

\* A step of one person's reply: c has a row.
Replies1(c) ==
    /\ UNCHANGED <<to, post, delivery, marks, known, outbox, tries, run, screen, told, pinged, asked, unsure, late, cleaned, bare>>
    /\ \A x \in People \ {c} : row'[x] = row[x] /\ tap'[x] = tap[x] /\ keys'[x] = keys[x]
    /\ row[c].reply # "none" /\ (row'[c].reply = row[c].reply \/ Answered(row'[c]))
    /\ keys'[c] \subseteq keys[c]

LEMMA RepliesKeep ==
    ASSUME Inv, NEW c \in People, Replies1(c), TypeOK', tap'[c].to # "pending", CanAnswer(c)'
    PROVE  Inv'
<1>1. Delivered(c) /\ Counted(c)
  BY DEF Inv, PersonSound
<1>2. "text" \in known[c] /\ row'[c].reply # "none" /\ (Answered(row[c]) => Answered(row'[c]))
  BY <1>1 DEF Delivered, Replies1, Answered
<1>3. Gentle /\ Tidy /\ DispatcherAside /\ JobAside
  BY <1>2 DEF Replies1, Gentle, Tidy, DispatcherAside, JobAside, Held
<1>4. \A x \in People : SameTurn(x) /\ SameCounts(x)
  BY StillTurns DEF Replies1, SameCounts
<1>5. Delivered(c)' /\ Counted(c)'
  <2>1. Delivered(c)'
    BY <1>1, <1>2, <1>4 DEF Delivered, Replies1, SameTurn, New
  <2> QED
    BY <1>1, <1>4, <2>1, CountedKept
<1>6. ASSUME NEW x \in People, x # c PROVE PersonSound(x)'
  <2>1. SameChat(x)
    BY <1>6 DEF Replies1, SameChat
  <2> QED
    BY <1>4, <2>1, PersonKept
<1>7. \A x \in People : PersonSound(x)'
  BY <1>5, <1>6 DEF PersonSound
<1> QED
  BY <1>3, <1>7, StillKeeps DEF Replies1

LEMMA PressKeeps ==
    ASSUME Inv, NEW c \in People, NEW m \in Messages, NEW reply \in {"confirmed", "declined"}, Press(c, m, reply)
    PROVE  Inv'
<1>1. TypeOK /\ Delivered(c) /\ CanAnswer(c)
  BY DEF Inv, PersonSound
<1>2. UNCHANGED <<may, to, post, delivery, row, marks, done, known, job, outbox, tries, run, screen, keys, told, pinged, asked,
                  unsure, late, cleaned, bare, trouble>>
  BY DEF Press, Smoothly, scene, rows, chats
<1>3. tap' = [tap EXCEPT ![c] = [to |-> reply, on |-> m]] /\ m \in keys[c] /\ row[c].reply # "none"
  BY DEF Press
<1>4. tap' \in [People -> [to : Replies, on : Messages \cup {"none"}]]
  <2>1. [to |-> reply, on |-> m] \in [to : Replies, on : Messages \cup {"none"}]
    BY DEF Replies
  <2> QED
    BY <1>1, <1>3, <2>1 DEF TypeOK
<1>5. tap'[c] = [to |-> reply, on |-> m] /\ \A x \in People \ {c} : tap'[x] = tap[x]
  BY <1>1, <1>3 DEF TypeOK
<1>6. TypeOK'
  BY <1>1, <1>2, <1>4 DEF TypeOK
<1>7. Replies1(c)
  BY <1>2, <1>3, <1>5 DEF Replies1
<1>8. tap'[c].to = reply /\ tap'[c].on = m /\ (m = "prompt" => "prompt" \in screen[c])
  BY <1>1, <1>3, <1>5 DEF Delivered
<1>9. CanAnswer(c)'
  <2>1. SameTurn(c)
    BY <1>2, StillTurns
  <2> QED
    BY <1>1, <1>2, <1>8, <2>1 DEF CanAnswer, SameTurn, Unasked
<1> QED
  BY <1>6, <1>7, <1>8, <1>9, RepliesKeep

LEMMA AnswerKeeps ==
    ASSUME Inv, NEW c \in People, Answer(c)
    PROVE  Inv'
<1>1. TypeOK /\ Delivered(c) /\ CanAnswer(c)
  BY DEF Inv, PersonSound
<1>2. UNCHANGED <<may, to, post, delivery, marks, done, known, job, outbox, tries, run, screen, keys, told, pinged, asked,
                  unsure, late, cleaned, bare, trouble>>
  BY DEF Answer, Smoothly, scene, chats
<1>3. row' = [row EXCEPT ![c].reply = tap[c].to] /\ tap' = [tap EXCEPT ![c].to = "none"] /\ tap[c].to # "none"
  BY DEF Answer
<1>4. /\ row[c] \in RowType /\ tap[c] \in [to : Replies, on : Messages \cup {"none"}]
      /\ tap[c].to \in {"confirmed", "declined"} /\ row[c].reply # "none"
  <2>1. row[c] \in RowType /\ tap[c] \in [to : Replies, on : Messages \cup {"none"}]
    BY <1>1 DEF TypeOK
  <2>2. tap[c].to # "pending" /\ row[c].reply # "none"
    BY <1>1, <1>3 DEF Delivered, Untouched
  <2> QED
    BY <1>3, <2>1, <2>2 DEF Replies
<1>5. /\ row' \in [People -> RowType] /\ Answered(row'[c]) /\ \A x \in People \ {c} : row'[x] = row[x]
  <2>1. [row[c] EXCEPT !.reply = tap[c].to] \in RowType /\ Answered([row[c] EXCEPT !.reply = tap[c].to])
    BY <1>4 DEF RowType, Replies, Answered
  <2>2. row \in [People -> RowType] /\ row' = [row EXCEPT ![c] = [row[c] EXCEPT !.reply = tap[c].to]]
    BY <1>1, <1>3 DEF TypeOK
  <2> QED
    BY <2>1, <2>2
<1>6. /\ tap' \in [People -> [to : Replies, on : Messages \cup {"none"}]]
      /\ tap'[c].to = "none" /\ tap'[c].on = tap[c].on /\ \A x \in People \ {c} : tap'[x] = tap[x]
  <2>1. /\ [tap[c] EXCEPT !.to = "none"] \in [to : Replies, on : Messages \cup {"none"}]
        /\ [tap[c] EXCEPT !.to = "none"].to = "none" /\ [tap[c] EXCEPT !.to = "none"].on = tap[c].on
    BY <1>4 DEF Replies
  <2>2. tap \in [People -> [to : Replies, on : Messages \cup {"none"}]] /\ tap' = [tap EXCEPT ![c] = [tap[c] EXCEPT !.to = "none"]]
    BY <1>1, <1>3 DEF TypeOK
  <2> QED
    BY <2>1, <2>2
<1>7. TypeOK'
  BY <1>1, <1>2, <1>5, <1>6 DEF TypeOK
<1>8. Replies1(c)
  BY <1>2, <1>4, <1>5, <1>6 DEF Replies1
<1>9. CanAnswer(c)'
  <2>1. SameTurn(c)
    BY <1>2, StillTurns
  <2> QED
    BY <1>1, <1>2, <1>5, <1>6, <2>1 DEF CanAnswer, SameTurn, Answered
<1> QED
  BY <1>6, <1>7, <1>8, <1>9, RepliesKeep

LEMMA LoseButtonsKeeps ==
    ASSUME Inv, NEW c \in People, LoseButtons(c)
    PROVE  Inv'
<1>1. TypeOK /\ Delivered(c) /\ CanAnswer(c)
  BY DEF Inv, PersonSound
<1>2. UNCHANGED <<may, to, post, delivery, row, marks, done, known, job, outbox, tries, run, screen, told, pinged, asked,
                  unsure, late, cleaned, bare, trouble>>
  BY DEF LoseButtons, Smoothly, scene, rows
<1>3. /\ keys' = [keys EXCEPT ![c] = @ \ {tap[c].on}] /\ tap' = [tap EXCEPT ![c] = Untouched]
      /\ tap[c].to = "none" /\ tap[c].on # "none"
  BY DEF LoseButtons
<1>4. row[c].reply # "none"
  BY <1>1, <1>3 DEF Delivered, Untouched
<1>5. /\ tap' \in [People -> [to : Replies, on : Messages \cup {"none"}]]
      /\ tap'[c].to = "none" /\ tap'[c].on = "none" /\ \A x \in People \ {c} : tap'[x] = tap[x]
  <2>1. Untouched \in [to : Replies, on : Messages \cup {"none"}] /\ Untouched.to = "none" /\ Untouched.on = "none"
    BY DEF Untouched, Replies
  <2> QED
    BY <1>1, <1>3, <2>1 DEF TypeOK
<1>6. /\ keys' \in [People -> SUBSET Messages] /\ keys'[c] = keys[c] \ {tap[c].on}
      /\ \A x \in People \ {c} : keys'[x] = keys[x]
  BY <1>1, <1>3 DEF TypeOK
<1>7. TypeOK'
  BY <1>1, <1>2, <1>5, <1>6 DEF TypeOK
<1>8. Replies1(c)
  BY <1>2, <1>4, <1>5, <1>6 DEF Replies1
<1>9. CanAnswer(c)'
  <2>1. SameTurn(c)
    BY <1>2, StillTurns
  <2>2. tap[c].on # "prompt" /\ "prompt" \in keys[c] => "prompt" \in keys'[c]
    BY <1>6
  <2> QED
    BY <1>1, <1>2, <1>3, <1>5, <2>1, <2>2 DEF CanAnswer, SameTurn, Unasked
<1> QED
  BY <1>5, <1>7, <1>8, <1>9, RepliesKeep

LEMMA TimeKeeps ==
    ASSUME Inv, DeferredDue \/ \E c \in People : ReminderDue(c)
    PROVE  Inv'
<1>1. row' \in [People -> RowType] /\ \A x \in People : row'[x].reply = row[x].reply
  <2>1. CASE DeferredDue
    BY <2>1 DEF DeferredDue, Inv, TypeOK
  <2>2. ASSUME NEW c \in People, ReminderDue(c) PROVE row' \in [People -> RowType] /\ \A x \in People : row'[x].reply = row[x].reply
    BY <2>2, NextAlone DEF ReminderDue, Inv, Times
  <2> QED
    BY <2>1, <2>2
<1>2. /\ post' \in [made : BOOLEAN, withdrawn : BOOLEAN, stopped : BOOLEAN, completed : BOOLEAN,
                     action : Reminds \cup {"none"}, at : Times, tries : 0..MaxTries]
      /\ post'.tries = post.tries /\ post'.completed = post.completed
      /\ post'.withdrawn = post.withdrawn /\ post'.stopped = post.stopped /\ post'.action = post.action
      /\ post'.at # "never" => post.at # "never"
  BY PostTyped DEF DeferredDue, ReminderDue, Times
<1>3. ChatsAlone /\ PostGrows /\ UNCHANGED <<run, may, done, outbox, tries, cleaned, bare, trouble, job>>
  BY <1>1, <1>2 DEF DeferredDue, ReminderDue, ChatsAlone, PostGrows, Smoothly, scene, chats
<1>4. TypeOK' /\ BooksSound'
  BY <1>1, <1>2, <1>3 DEF TypeOK, Inv, BooksSound, ChatsAlone
<1>5. \A a \in Actors : Moves(a, run[a])
  BY <1>3 DEF Inv, TypeOK, Moves
<1>6. "admin" \in Actors /\ "pinger" \in Actors
  BY DEF Actors
<1>7. Gentle /\ Tidy /\ DispatcherAside /\ JobAside /\ \A x \in People : SameChat(x) /\ SameCounts(x)
  BY <1>3, AloneIs
<1>8. ActorSound("admin")'
  BY <1>3, <1>5, <1>6, <1>7, OthersKept DEF ChatsAlone
<1>9. \A x \in People : PersonSound(x)'
  BY <1>3, <1>7, StillTurns, PersonKept
<1> QED
  BY <1>2, <1>3, <1>4, <1>5, <1>6, <1>7, <1>8, <1>9, StepKept DEF ChatsAlone

LEMMA CrashKeeps ==
    ASSUME Inv, Crash
    PROVE  Inv'
<1> DEFINE lost(c) == {m \in {"ping", "prompt"} : m \in screen[c] \ known[c]}
           stray(c) == IF lost(c) = {} THEN {} ELSE {"stray"}
<1>1. TypeOK
  BY DEF Inv
<1>2. UNCHANGED <<may, to, post, delivery, row, marks, done, known, outbox, tries, told, pinged, asked, unsure, late, cleaned, bare>>
  BY DEF Crash, scene, rows
<1>3. /\ run' = [a \in Actors |-> Idle] /\ tap' = [c \in People |-> Untouched]
      /\ job' = IF job = "active" THEN "waiting" ELSE job
      /\ trouble' \in 0..MaxTrouble
  BY <1>1, AnnouncementAssumption DEF Crash, Trouble, TypeOK
<1>4. /\ screen' = [c \in People |-> (screen[c] \ lost(c)) \cup stray(c)]
      /\ keys' = [c \in People |-> (keys[c] \ lost(c)) \cup stray(c)]
  BY DEF Crash
<1>5. ASSUME NEW c \in People
      PROVE  /\ screen'[c] = (screen[c] \ lost(c)) \cup stray(c) /\ screen'[c] \in SUBSET Messages
             /\ keys'[c] = (keys[c] \ lost(c)) \cup stray(c) /\ keys'[c] \in SUBSET Messages
             /\ stray(c) \subseteq {"stray"} /\ (lost(c) # {} => stray(c) = {"stray"})
             /\ lost(c) \subseteq {"ping", "prompt"}
             /\ "prompt" \in screen[c] \ lost(c) => "prompt" \in known[c]
  BY <1>1, <1>4 DEF TypeOK, Messages
<1> HIDE DEF lost, stray
<1>6. TypeOK'
  <2>1. run' \in [Actors -> Locals]
    BY <1>3, IdleLocal
  <2>2. tap' \in [People -> [to : Replies, on : Messages \cup {"none"}]]
    BY <1>3 DEF Untouched, Replies
  <2>3. screen' \in [People -> SUBSET Messages] /\ keys' \in [People -> SUBSET Messages]
    BY <1>4, <1>5
  <2>4. job' \in {"none", "waiting", "active", "failed", "done"}
    BY <1>1, <1>3 DEF TypeOK
  <2> QED
    BY <1>1, <1>2, <1>3, <2>1, <2>2, <2>3, <2>4 DEF TypeOK
<1>7. \A a \in Actors : run'[a].pc = "idle" /\ run'[a].cmd = "none"
  BY <1>3, IdleLocal
<1>8. BooksSound' /\ JobSound' /\ EditSound' /\ CompletedReachedAll'
  BY <1>2, <1>7, ActorsAre DEF Inv, BooksSound, JobSound, EditSound, CompletedReachedAll, At, Asking
<1>9. CleanedSound'
  <2>1. \A c \in People : screen'[c] \cap Own \subseteq screen[c]
    BY <1>5 DEF Own
  <2> QED
    BY <1>1, <1>2, <2>1 DEF Inv, CleanedSound, Empty, TypeOK
<1>10. ASSUME NEW a \in Actors PROVE ActorSound(a)'
  <2>1. Shape(a)' /\ PingSound(a)' /\ SweepSound(a)'
    BY <1>7, ActorsAre DEF Shape, Places, PingSound, SweepSound, At, Sending, Pinging, Asking, Sweeping, Deferring
  <2>2. QuietSound(a)'
    BY <1>2, <1>7 DEF Inv, ActorSound, QuietSound, Closed, At
  <2> QED
    BY <2>1, <2>2 DEF ActorSound
<1>11. ASSUME NEW c \in People PROVE PersonSound(c)'
  <2>1. Delivered(c) /\ Counted(c) /\ CanAnswer(c)
    BY DEF Inv, PersonSound
  <2>2. /\ ~Asks(c)' /\ ~Appends(c)'
        /\ \A k \in Reminds : ~Reminding("dispatcher", k, c)' /\ ~Reminding("pinger", k, c)'
    BY <1>7, ActorsAre DEF Asks, Appends, Reminding, At
  <2>3. tap'[c] = Untouched
    BY <1>3
  <2>4. /\ \A m \in {"text", "part"} : m \in screen'[c] <=> m \in screen[c]
        /\ "prompt" \in screen'[c] => "prompt" \in screen[c] /\ "prompt" \in known[c]
        /\ keys[c] \subseteq screen[c] => keys'[c] \subseteq screen'[c]
        /\ keys[c] \cap {"text", "prompt", "stray"} # {} => keys'[c] \cap {"text", "prompt", "stray"} # {}
    BY <1>5
  <2>5. Delivered(c)'
    BY <1>2, <2>1, <2>3, <2>4 DEF Delivered, New, Untouched
  <2>6. Counted(c)'
    <3>1. asked[c] \in Nat /\ unsure[c] \in Nat /\ \A k \in Reminds : pinged[<<k, c>>] \in Nat
      BY <1>1 DEF TypeOK
    <3> QED
      BY <1>2, <2>1, <2>2, <3>1 DEF Counted, One
  <2>7. CanAnswer(c)'
    BY <1>2, <2>1, <2>2, <2>3, <2>4 DEF CanAnswer, Unasked, Untouched
  <2> QED
    BY <2>5, <2>6, <2>7 DEF PersonSound
<1> QED
  BY <1>6, <1>8, <1>9, <1>10, <1>11 DEF Inv

---------------------------------------------------------------------------
(* The invariant holds.                                                    *)

LEMMA InvInit == Init => Inv
<1> SUFFICES ASSUME Init PROVE Inv
  OBVIOUS
<1>1. to \subseteq People /\ 0 \in 0..MaxTries /\ 0 \in 0..MaxTrouble /\ 0 < MaxTries
  BY AnnouncementAssumption DEF Init
<1>2. Untouched \in [to : Replies, on : Messages \cup {"none"}] /\ Untouched.to = "none" /\ Untouched.on = "none"
  BY DEF Untouched, Replies
<1>3. TypeOK
  <2>1. post \in [made : BOOLEAN, withdrawn : BOOLEAN, stopped : BOOLEAN, completed : BOOLEAN,
                  action : Reminds \cup {"none"}, at : Times, tries : 0..MaxTries]
    BY <1>1 DEF Init, Times
  <2>2. row \in [People -> RowType] /\ run \in [Actors -> Locals]
    BY IdleLocal DEF Init, RowType, Replies, Times
  <2>3. outbox \in [Commands -> {"none", "offered", "accepted", "refused"}] /\ tries \in [Commands -> 0..MaxTries]
    BY <1>1 DEF Init
  <2> QED
    BY <1>1, <1>2, <2>1, <2>2, <2>3 DEF Init, TypeOK
<1>4. \A a \in Actors : run[a].pc = "idle" /\ run[a].cmd = "none"
  BY IdleLocal DEF Init
<1>5. BooksSound /\ JobSound /\ EditSound /\ CleanedSound /\ CompletedReachedAll
  BY <1>1, <1>4, ActorsAre DEF Init, BooksSound, JobSound, EditSound, CleanedSound, CompletedReachedAll, At, Asking
<1>6. ASSUME NEW a \in Actors PROVE ActorSound(a)
  <2>1. Shape(a) /\ PingSound(a) /\ SweepSound(a)
    BY <1>4, ActorsAre DEF Shape, Places, PingSound, SweepSound, At, Sending, Pinging, Asking, Sweeping, Deferring
  <2>2. QuietSound(a)
    BY DEF Init, QuietSound
  <2> QED
    BY <2>1, <2>2 DEF ActorSound
<1>7. ASSUME NEW c \in People PROVE PersonSound(c)
  <2>1. /\ ~Asks(c) /\ ~Appends(c)
        /\ \A k \in Reminds : ~Reminding("dispatcher", k, c) /\ ~Reminding("pinger", k, c)
    BY <1>4, ActorsAre DEF Asks, Appends, Reminding, At
  <2>2. /\ delivery[c] = "none" /\ row[c].reply = "none" /\ known[c] = {} /\ told[c] = 0 /\ screen[c] = {} /\ keys[c] = {}
        /\ tap[c] = Untouched /\ asked[c] = 0 /\ unsure[c] = 0 /\ marks = {}
        /\ \A k \in Reminds : pinged[<<k, c>>] = 0
    BY DEF Init
  <2>3. Delivered(c)
    BY <1>2, <2>2 DEF Delivered, New
  <2>4. Counted(c)
    BY <2>1, <2>2 DEF Counted, One
  <2>5. CanAnswer(c)
    BY <1>2, <2>1, <2>2 DEF CanAnswer
  <2> QED
    BY <2>3, <2>4, <2>5 DEF PersonSound
<1> QED
  BY <1>3, <1>5, <1>6, <1>7 DEF Inv

LEMMA RemindersKeep ==
    ASSUME Inv, NEW a \in Pingers, Reminders(a)
    PROVE  Inv'
<1>1. a \in Actors
  BY DEF Pingers, Actors
<1> QED
  BY <1>1, ClaimReminderKeeps, ReadReminderStateKeeps, SendPingKeeps, RecordPingKeeps, EndRemindersKeeps, PingFailsKeeps,
     PingUnsureKeeps DEF Reminders

LEMMA EndsKeep ==
    ASSUME Inv, NEW a \in Enders, Ends(a)
    PROVE  Inv'
BY EndBeginsKeeps, QuietenKeeps, ReadTargetsKeeps, EndWithdrawalKeeps, EraseKeeps DEF Ends

LEMMA DispatchesKeep ==
    ASSUME Inv, Dispatches
    PROVE  Inv'
<1>1. CASE \E k \in Commands : Take(k)
  BY <1>1, TakeKeeps
<1>2. CASE Ack \/ LoseAck \/ CreateRow \/ Enqueue \/ EnqueueFails \/ AlreadyDone
  BY <1>2, AckKeeps, CreateRowKeeps, EnqueueKeeps, AlreadyDoneKeeps
<1>3. CASE Defer \/ Displace \/ Postpone \/ RemindNow
  BY <1>3, DeferKeeps, DisplaceKeeps, PostponeKeeps, RemindNowKeeps
<1>4. CASE Reminders("dispatcher")
  <2>1. "dispatcher" \in Pingers
    BY DEF Pingers
  <2> QED
    BY <1>4, <2>1, RemindersKeep
<1>5. CASE Ends("dispatcher")
  <2>1. "dispatcher" \in Enders
    BY DEF Enders
  <2> QED
    BY <1>5, <2>1, EndsKeep
<1>6. CASE Editing
  BY <1>6, ReadForEditKeeps, ReadDeliveriesKeeps, ClaimPromptKeeps, ResumeRemindersKeeps, ResetReplyKeeps, SendPromptKeeps, AppendPromptKeeps, EndEditKeeps,
     EditTextKeeps, PromptFailsKeeps DEF Editing
<1> QED
  BY <1>1, <1>2, <1>3, <1>4, <1>5, <1>6 DEF Dispatches

LEMMA SendsKeep ==
    ASSUME Inv, Sends
    PROVE  Inv'
BY StartJobKeeps, SendTextKeeps, TrackKeeps, AwaitReplyKeeps, MarkSentKeeps, EndJobKeeps, ClaimPendingKeeps, SendFailsKeeps, SendUnsureKeeps
   DEF Sends

LEMMA PingsKeep ==
    ASSUME Inv, Pings
    PROVE  Inv'
<1>1. "pinger" \in Pingers
  BY DEF Pingers
<1> QED
  BY <1>1, RemindDeferredKeeps, RemindDueKeeps, ClearDeferredKeeps, RemindersKeep, PassedOverKeeps DEF Pings

LEMMA InvNext == Inv /\ [Next]_vars => Inv'
<1> SUFFICES ASSUME Inv, [Next]_vars PROVE Inv'
  OBVIOUS
<1>1. CASE Dispatches
  BY <1>1, DispatchesKeep
<1>2. CASE Sends
  BY <1>2, SendsKeep
<1>3. CASE Pings
  BY <1>3, PingsKeep
<1>4. CASE Ends("admin")
  <2>1. "admin" \in Enders
    BY DEF Enders
  <2> QED
    BY <1>4, <2>1, EndsKeep
<1>5. CASE \E c \in People : Replying(c)
  BY <1>5, PressKeeps, AnswerKeeps, LoseButtonsKeeps DEF Replying
<1>6. CASE DeferredDue \/ \E c \in People : ReminderDue(c)
  BY <1>6, TimeKeeps
<1>7. CASE Crash
  BY <1>7, CrashKeeps, SMTT(60)
<1>8. CASE UNCHANGED vars
  BY <1>8, SMTT(30) DEF vars, Inv, TypeOK, BooksSound, JobSound, New, EditSound, CleanedSound, Empty, CompletedReachedAll,
     ActorSound, Shape, PingSound, SweepSound, QuietSound, Closed, Held, PersonSound, Delivered, Appends, Counted, Reminding, Asks,
     CanAnswer, Unasked, At
<1> QED
  BY <1>1, <1>2, <1>3, <1>4, <1>5, <1>6, <1>7, <1>8 DEF Next

\* The invariant that the proofs rest on holds of announcement-commands.ts,
\* announcement-edit.ts, broadcast.ts and pinger.ts together.
THEOREM AnnouncementInvariant == Spec => []Inv
BY InvInit, InvNext, PTL DEF Spec

---------------------------------------------------------------------------
(* What follows from it.                                                   *)

\* Nobody gets the announcement twice, however often the command, the job or the
\* send is tried, and a broadcast marked complete has reached everybody
\* (processBroadcast).
THEOREM AnnouncedOnceForAll == Spec => []EveryoneOnce
<1>1. Inv => EveryoneOnce
  BY DEF Inv, PersonSound, Delivered, EveryoneOnce, AnnouncedOnce
<1> QED
  BY <1>1, AnnouncementInvariant, PTL

\* By one action nobody is reminded twice, and by one edit nobody is asked twice,
\* but for a send that arrived and failed: the mark of remindBroadcast and of
\* reconfirmChat is there before the send.
THEOREM NobodyAskedTwice == Spec => []AskedOnce
<1>1. Inv => AskedOnce
  <2> SUFFICES ASSUME Inv PROVE AskedOnce
    OBVIOUS
  <2>1. ASSUME NEW c \in People
        PROVE  asked[c] <= 1 + unsure[c] /\ \A k \in Reminds : pinged[<<k, c>>] <= 1 + unsure[c]
    <3>1. asked[c] \in Nat /\ unsure[c] \in Nat /\ \A k \in Reminds : pinged[<<k, c>>] \in Nat
      BY DEF Inv, TypeOK
    <3>2. Counted(c)
      BY DEF Inv, PersonSound
    <3> QED
      BY <3>1, <3>2 DEF Counted, One
  <2> QED
    BY <2>1 DEF AskedOnce, RemindedOncePerAction, AskedAgainOnce
<1> QED
  BY <1>1, AnnouncementInvariant, PTL

\* After stopPinging and withdrawBroadcast each actor sends at most the reminder
\* whose row it had read, and a chat that was reported as cleaned keeps nothing of
\* the announcement.
THEOREM EndsAreKept == Spec => []EndIsKept
<1>1. Inv => EndIsKept
  BY DEF Inv, ActorSound, QuietSound, CleanedSound, Empty, Own, EndIsKept, StoppedStaysQuiet, CleanedChatsAreClean
<1> QED
  BY <1>1, AnnouncementInvariant, PTL

\* Until the announcement is withdrawn, whoever is waited for has a button to
\* answer with, however the job, the reminders and her own presses meet the reads
\* of an edit; only an edit that read the replies before she was tracked and the
\* deliveries after hers was marked takes it from her (applyAnnouncementEdit,
\* announcement-edit.ts:70 and 79; confirmRead, confirmDecline).
THEOREM WaitedForCanAnswer == Spec => []AskedCanAnswer
<1>1. Inv => AskedCanAnswer
  BY DEF Inv, PersonSound, CanAnswer, AskedCanAnswer
<1> QED
  BY <1>1, AnnouncementInvariant, PTL

=============================================================================
