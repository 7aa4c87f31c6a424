--------------------------- MODULE ChannelAccessProofs ---------------------------
(* For any chats and scenes: she is not where a processed revocation closed, a  *)
(* link that is sent opens the channel and is one for its row, and the registry *)
(* knows the chats that the bot administers.                                    *)
EXTENDS ChannelAccess, FiniteSetTheorems, TLAPS

---------------------------------------------------------------------------
(* The inductive invariant.                                                *)

\* She is shut out of c, by her standing m: not in it, and the channel's link is
\* closed to her unless its revocation may have been overlooked (it is in over).
Out(c, m, over) == m[c] # "in" /\ (c = Channel /\ c \notin over => m[c] \in {"banned", "never"})

\* The row's handler before it has done anything of a revocation.
Early == {"idle", "invite", "scope", "unban", "link", "send", "revoke", "wait"}

\* The dispatcher acknowledges what it ends, and says "removed" of nothing that
\* it has not seen closed.
RowSound(v, m, over) ==
    /\ v.pc # "sync" /\ (v.pc # "idle" => v.then = "ack")
    /\ v.pc \in Early => v.saw = {} /\ ~v.failed
    /\ v.pc = "ack" /\ ~v.failed => \A c \in v.saw : Out(c, m, over)

\* A revocation under way: what it has done with, and not failed at, is closed;
\* it asks whether she is in the channel only when the channel was not known.
BanSound(v, m, over) ==
    v.pc \in {"chat", "ban"} =>
        /\ ~v.failed => \A c \in v.saw \ v.todo : Out(c, m, over)
        /\ Channel \in v.asks => Channel \in over
        /\ v.pc = "ban" => v.on \in v.todo

\* A restoration past the channel's unban: her ban there is newer, or Telegram
\* refused something (as t, the trouble there was, tells), or it was overlooked.
LinkSound(v, m, over, t) ==
    (v.pc \in {"link", "send"} \/ (v.pc = "unban" /\ Channel \notin v.todo)) /\ m[Channel] = "banned"
        => v.undone \/ (\E i \in DOMAIN t : t[i] = "telegram") \/ Channel \in over

Sound(a, v, m, over, t) ==
    /\ a = "row" => RowSound(v, m, over)
    /\ BanSound(v, m, over)
    /\ LinkSound(v, m, over, t)

ActorsSound == \A a \in Actors : Sound(a, run[a], member, missed, trouble)
KeptClosed == \A c \in kept : Out(c, member, missed)

\* What the registry has lost, or cannot yet tell, is counted as missed.
MissedCounted == bot[Channel] = "admin" /\ \A c \in Chats : known[c] # "active" => c \in missed

\* The last update of a chat tells the bot's standing there; once it has been
\* handled, the registry has the chat or the sweep is about to record it, be it
\* found by the bot itself or on the registry's own list.
NewsSound == \A c \in Chats : news[c] # << >> => news[c][Len(news[c])] = bot[c]
Found(c) == sweep.on = c /\ sweep.verdict # "none"
Recorded(c) ==
    c \notin raced /\ news[c] = << >> /\ bot[c] = "admin" /\ ~Happened("blip")
        => /\ Found(c) => sweep.verdict = "present"
           /\ c \notin Seeds /\ known[c] # "absent" => c \in Known
           /\ c \in Seeds /\ ~sweep.due /\ c \notin sweep.todo /\ ~Found(c) => c \in Known
RegistrySound == NewsSound /\ \A c \in Chats : Recorded(c)

\* A row has a link more than its repetitions only when it is processed, or is
\* the one in hand and past its link.
Linked(i) ==
    /\ i \in DOMAIN rows
    /\ \/ rows[i].status = "PROCESSED"
       \/ Oldest(i) /\ run["row"].pc \in {"send", "ack"} /\ ~run["row"].failed
LinksCounted ==
    /\ \A i \in batch : rows[i].status = "PENDING"
    /\ \A i \in 1..MaxTurns : links[i] <= Cardinality(Repeated) + (IF Linked(i) THEN 1 ELSE 0)

Inv == TypeOK /\ ActorsSound /\ KeptClosed /\ MissedCounted /\ RegistrySound /\ LinksCounted

---------------------------------------------------------------------------
(* Lemmas.                                                                 *)

LEMMA IdleLocal == Idle \in Local
BY DEF Idle, Local, Places, Chats

LEMMA LocalReplaced ==
    ASSUME run \in [Actors -> Local], NEW a \in Actors, NEW v \in Local, Set(a, v)
    PROVE  /\ run' \in [Actors -> Local] /\ run'[a] = v
           /\ \A b \in Actors : b # a => run'[b] = run[b]
BY DEF Set

\* Where an actor is when the access has been revoked or restored.
LEMMA OnwardLocal ==
    ASSUME NEW v \in Local
    PROVE  /\ Onward(v) \in Local /\ Onward(v).pc \in {"ack", "invite", "idle"}
           /\ v.then = "ack" => /\ Onward(v).pc = "ack" /\ Onward(v).then = "ack"
                                /\ Onward(v).saw = v.saw /\ Onward(v).failed = v.failed
<1>1. CASE v.then = "ack"
  BY <1>1 DEF Onward, Local, Places
<1>2. CASE v.then = "invite"
  BY <1>2 DEF Onward, Local, Places
<1>3. CASE v.then \notin {"ack", "invite"}
  BY <1>3, IdleLocal DEF Onward, Idle
<1> QED
  BY <1>1, <1>2, <1>3

LEMMA OnwardSound ==
    ASSUME NEW a, NEW v \in Local, NEW m, NEW over, NEW t,
           a = "row" => v.then = "ack" /\ (~v.failed => \A c \in v.saw : Out(c, m, over))
    PROVE  Sound(a, Onward(v), m, over, t)
BY OnwardLocal DEF Sound, RowSound, BanSound, LinkSound, Early

\* What is overlooked, and the trouble there was, only grow.
Remembers(t, u) == (\E i \in DOMAIN t : t[i] = "telegram") => (\E i \in DOMAIN u : u[i] = "telegram")
LEMMA SoundGrows ==
    ASSUME NEW a, NEW v, NEW m, NEW over, NEW t, Sound(a, v, m, over, t),
           NEW more, over \subseteq more, NEW u, Remembers(t, u)
    PROVE  Sound(a, v, m, more, u)
<1>1. \A c : Out(c, m, over) => Out(c, m, more)
  BY DEF Out
<1>2. a = "row" => RowSound(v, m, more)
  BY <1>1 DEF Sound, RowSound
<1>3. BanSound(v, m, more)
  BY <1>1 DEF Sound, BanSound
<1>4. LinkSound(v, m, more, u)
  BY DEF Sound, LinkSound, Remembers
<1> QED
  BY <1>2, <1>3, <1>4 DEF Sound

Quiet == Smoothly \/ \E k \in Troubles : Trouble(k)

LEMMA TroubleGrows ==
    ASSUME TypeOK, Quiet
    PROVE  /\ trouble' \in Seq(Troubles) /\ Len(trouble') <= MaxTrouble
           /\ Remembers(trouble, trouble')
           /\ Happened("blip") => Happened("blip")'
           /\ Repeated \subseteq Repeated'
<1>1. CASE Smoothly
  BY <1>1 DEF Smoothly, TypeOK, Remembers, Happened, Repeated
<1>2. CASE \E k \in Troubles : Trouble(k)
  <2>1. PICK k \in Troubles : Trouble(k)
    BY <1>2
  <2>2. trouble' \in Seq(Troubles) /\ Len(trouble') = Len(trouble) + 1 /\ Len(trouble') <= MaxTrouble
    BY <2>1, BoundsAssumption DEF Trouble, TypeOK
  <2>3. \A i \in DOMAIN trouble : i \in DOMAIN trouble' /\ trouble'[i] = trouble[i]
    BY <2>1 DEF Trouble, TypeOK
  <2> QED
    BY <2>2, <2>3 DEF Remembers, Happened, Repeated
<1> QED
  BY <1>1, <1>2 DEF Quiet

\* A mark that was lost, and a crash, are one repetition more.
LEMMA RepeatedFinite ==
    ASSUME TypeOK
    PROVE  IsFiniteSet(Repeated) /\ Cardinality(Repeated) \in Nat
<1>1. IsFiniteSet(1..Len(trouble))
  BY FS_Interval DEF TypeOK
<1>2. Repeated \subseteq 1..Len(trouble)
  BY DEF Repeated, TypeOK
<1> QED
  BY <1>1, <1>2, FS_Subset, FS_CardinalityType

LEMMA RepeatedOnce ==
    ASSUME TypeOK, NEW k \in {"ack", "crash"}, Trouble(k)
    PROVE  Cardinality(Repeated') = Cardinality(Repeated) + 1
<1>1. Repeated' = Repeated \cup {Len(trouble) + 1} /\ Len(trouble) + 1 \notin Repeated
  BY DEF Repeated, Trouble, TypeOK
<1> QED
  BY <1>1, RepeatedFinite, FS_AddElement

LEMMA RepeatedMore ==
    ASSUME TypeOK, Quiet
    PROVE  /\ Cardinality(Repeated') \in Nat /\ Cardinality(Repeated) \in Nat
           /\ Cardinality(Repeated) <= Cardinality(Repeated')
<1>1. IsFiniteSet(1..Len(trouble')) /\ Repeated' \subseteq 1..Len(trouble')
  BY TroubleGrows, FS_Interval DEF Repeated
<1>2. IsFiniteSet(Repeated')
  BY <1>1, FS_Subset
<1> QED
  BY <1>2, TroubleGrows, RepeatedFinite, FS_Subset, FS_CardinalityType

---------------------------------------------------------------------------
(* What the steps leave alone.                                             *)

LEMMA MissedKept ==
    ASSUME MissedCounted, UNCHANGED <<bot, known, missed>>
    PROVE  MissedCounted'
BY DEF MissedCounted

LEMMA RegistryKept ==
    ASSUME RegistrySound, UNCHANGED <<may, bot, news, known, sweep, raced>>,
           Happened("blip") => Happened("blip")'
    PROVE  RegistrySound'
BY DEF RegistrySound, NewsSound, Recorded, Known, Found, Seeds

LEMMA KeptKept ==
    ASSUME KeptClosed, UNCHANGED <<member, kept, missed>>
    PROVE  KeptClosed'
BY DEF KeptClosed

LEMMA NobodyMoves ==
    ASSUME Inv, Quiet, run' = run, member' = member, missed \subseteq missed'
    PROVE  ActorsSound'
<1>1. \A a \in Actors : Sound(a, run[a], member, missed', trouble')
  BY TroubleGrows, SoundGrows DEF Inv, ActorsSound
<1> QED
  BY <1>1 DEF ActorsSound

LEMMA OneActorMoves ==
    ASSUME Inv, Quiet, NEW a \in Actors, NEW v \in Local, Set(a, v), member' = member, missed \subseteq missed',
           Sound(a, v, member, missed, trouble)
    PROVE  ActorsSound'
<1>1. /\ run'[a] = v /\ \A b \in Actors : b # a => run'[b] = run[b]
  BY LocalReplaced DEF Inv, TypeOK
<1>2. \A b \in Actors : Sound(b, run'[b], member, missed, trouble)
  BY <1>1 DEF Inv, ActorsSound
<1>3. \A b \in Actors : Sound(b, run'[b], member', missed', trouble')
  BY <1>2, TroubleGrows, SoundGrows DEF Inv
<1> QED
  BY <1>3 DEF ActorsSound

\* The queue is left alone, and the row in hand stays past its link.
LEMMA LinksKept ==
    ASSUME TypeOK, Quiet, LinksCounted, UNCHANGED <<rows, batch, links>>,
           run["row"].pc \in {"send", "ack"} /\ ~run["row"].failed
               => run'["row"].pc \in {"send", "ack"} /\ ~run'["row"].failed
    PROVE  LinksCounted'
<1>1. \A i \in 1..MaxTurns : Linked(i) => Linked(i)'
  BY DEF Linked, Oldest
<1>2. \A i \in 1..MaxTurns : links[i] \in Nat
  BY DEF TypeOK
<1>3. \A i \in 1..MaxTurns : links'[i] <= Cardinality(Repeated') + (IF Linked(i)' THEN 1 ELSE 0)
  <2> SUFFICES ASSUME NEW i \in 1..MaxTurns
               PROVE  links'[i] <= Cardinality(Repeated') + (IF Linked(i)' THEN 1 ELSE 0)
    OBVIOUS
  <2>1. links[i] <= Cardinality(Repeated) + (IF Linked(i) THEN 1 ELSE 0)
    BY DEF LinksCounted
  <2> QED
    BY <1>1, <1>2, <2>1, RepeatedMore
<1> QED
  BY <1>3 DEF LinksCounted

\* One actor goes on, and nothing of the world but her profile moves.
LEMMA LocalStep ==
    ASSUME Inv, NEW a \in Actors, NEW v \in Local, Set(a, v), Quiet,
           active' \in BOOLEAN, UNCHANGED <<world, member, registry, queue, history>>,
           \/ flight' = flight /\ (flight = a => v.pc \in {"chat", "ban"})
           \/ flight' = a /\ v.pc \in {"chat", "ban"},
           Sound(a, v, member, missed, trouble),
           a = "row" /\ run["row"].pc \in {"send", "ack"} /\ ~run["row"].failed
               => v.pc \in {"send", "ack"} /\ ~v.failed
    PROVE  Inv'
<1>1. /\ run' \in [Actors -> Local] /\ run'[a] = v
      /\ \A b \in Actors : b # a => run'[b] = run[b]
  BY LocalReplaced DEF Inv, TypeOK
<1>2. TypeOK'
  BY <1>1, TroubleGrows DEF Inv, TypeOK, world, registry, queue, history
<1>3. ActorsSound'
  BY OneActorMoves DEF Inv, registry
<1>4. KeptClosed' /\ MissedCounted' /\ RegistrySound'
  BY TroubleGrows, KeptKept, MissedKept, RegistryKept DEF Inv, world, registry, history
<1>5. LinksCounted'
  BY <1>1, LinksKept DEF Inv, queue, history, Actors
<1> QED
  BY <1>2, <1>3, <1>4, <1>5 DEF Inv

---------------------------------------------------------------------------
(* syncUserAccess and createInviteLink.                                    *)

\* An actor changes only what its place allows: this is what a step needs of it.
LEMMA ActorFacts ==
    ASSUME Inv, NEW a \in Actors
    PROVE  /\ run[a] \in Local /\ run[a].pc \in Places /\ run[a].failed \in BOOLEAN
           /\ Sound(a, run[a], member, missed, trouble)
           /\ flight = a => run[a].pc \in {"chat", "ban"}
           /\ a = "row" => RowSound(run[a], member, missed)
           /\ BanSound(run[a], member, missed)
           /\ LinkSound(run[a], member, missed, trouble)
<1>1. run[a] \in Local /\ Sound(a, run[a], member, missed, trouble)
  BY DEF Inv, TypeOK, ActorsSound
<1>2. flight = a => run[a].pc \in {"chat", "ban"}
  BY DEF Inv, TypeOK, Actors
<1> QED
  BY <1>1, <1>2 DEF Sound, Local

\* The actor ends what it was doing, or gives it up.
LEMMA CallEnds ==
    ASSUME Inv, NEW a \in Actors, NEW v \in Local, Set(a, Onward(v)), Quiet,
           run[a].pc \in {"invite", "scope", "unban", "link", "send", "revoke"},
           v.then = run[a].then, v.saw = run[a].saw,
           run[a].pc = "send" => v.failed = run[a].failed,
           UNCHANGED <<world, active, member, registry, queue, flight, history>>
    PROVE  Inv'
<1>1. Onward(v) \in Local
  BY OnwardLocal
<1>2. flight # a /\ (a = "row" => v.then = "ack" /\ v.saw = {})
  BY ActorFacts DEF RowSound, Early
<1>3. Sound(a, Onward(v), member, missed, trouble)
  BY <1>2, OnwardSound
<1>4. a = "row" /\ run["row"].pc \in {"send", "ack"} /\ ~run["row"].failed
        => Onward(v).pc \in {"send", "ack"} /\ ~Onward(v).failed
  BY <1>2, OnwardLocal
<1>5. active' \in BOOLEAN
  BY DEF Inv, TypeOK
<1> QED
  BY <1>1, <1>2, <1>3, <1>4, <1>5, LocalStep

\* Another place of the same handler, between which nothing is decided.
LEMMA Going ==
    ASSUME Inv, NEW a \in Actors, NEW pc \in {"scope", "revoke", "wait", "link"}, Goto(a, pc), Smoothly,
           \/ run[a].pc \in {"invite", "revoke"}
           \/ run[a].pc = "sync" /\ pc # "link"
           \/ run[a].pc = "unban" /\ run[a].todo = {},
           pc = "link" => run[a].pc = "unban",
           UNCHANGED <<world, active, member, registry, queue, flight, history>>
    PROVE  Inv'
<1> DEFINE v == [run[a] EXCEPT !.pc = pc]
<1>1. run[a] \in Local
  BY ActorFacts
<1>2. /\ v \in Local /\ v.pc = pc /\ v.then = run[a].then /\ v.saw = run[a].saw
      /\ v.failed = run[a].failed /\ v.undone = run[a].undone
  BY <1>1 DEF Local, Places
<1>3. a = "row" => RowSound(v, member, missed)
  BY <1>2, ActorFacts DEF RowSound, Early
<1>4. BanSound(v, member, missed)
  BY <1>2 DEF BanSound
<1>5. LinkSound(v, member, missed, trouble)
  BY <1>2, ActorFacts DEF LinkSound
<1>6. Sound(a, v, member, missed, trouble)
  BY <1>3, <1>4, <1>5 DEF Sound
<1>7. flight # a /\ active' \in BOOLEAN /\ Quiet /\ Set(a, v)
  BY ActorFacts DEF Inv, TypeOK, Quiet, Goto
<1> HIDE DEF v
<1> QED
  BY <1>2, <1>6, <1>7, LocalStep

LEMMA SyncUserAccessStep ==
    ASSUME Inv, NEW a \in Actors, SyncUserAccess(a)
    PROVE  Inv'
BY Going DEF SyncUserAccess, At

LEMMA CreateInviteLinkStep ==
    ASSUME Inv, NEW a \in Actors, CreateInviteLink(a)
    PROVE  Inv'
<1>1. CASE active
  BY <1>1, Going DEF CreateInviteLink, At
<1>2. CASE ~active
  BY <1>2, ActorFacts, CallEnds DEF CreateInviteLink, At, Quiet
<1> QED
  BY <1>1, <1>2

LEMMA ReadScopeStep ==
    ASSUME Inv, NEW a \in Actors, ReadScope(a)
    PROVE  Inv'
<1>1. run[a] \in Local /\ run[a].pc = "scope"
  BY ActorFacts DEF ReadScope, At
<1>2. CASE Smoothly /\ Set(a, [run[a] EXCEPT !.pc = "unban", !.todo = Known])
  <2> DEFINE v == [run[a] EXCEPT !.pc = "unban", !.todo = Known]
  <2>1. /\ v \in Local /\ v.pc = "unban" /\ v.todo = Known /\ v.then = run[a].then
        /\ v.saw = run[a].saw /\ v.failed = run[a].failed
    BY <1>1 DEF Local, Places, Known
  <2>2. a = "row" => RowSound(v, member, missed)
    BY <1>1, <2>1, ActorFacts DEF RowSound, Early
  <2>3. BanSound(v, member, missed)
    BY <2>1 DEF BanSound
  <2>4. LinkSound(v, member, missed, trouble)
    BY <2>1 DEF LinkSound, Inv, MissedCounted, Known, Chats
  <2>5. Sound(a, v, member, missed, trouble)
    BY <2>2, <2>3, <2>4 DEF Sound
  <2>6. flight # a /\ active' \in BOOLEAN /\ Quiet /\ Set(a, v)
    BY <1>1, <1>2, ActorFacts DEF Inv, TypeOK, Quiet, ReadScope
  <2> HIDE DEF v
  <2> QED
    BY <1>1, <2>1, <2>5, <2>6, LocalStep DEF ReadScope
<1>3. CASE Quiet /\ Set(a, Onward([run[a] EXCEPT !.failed = TRUE]))
  <2> DEFINE v == [run[a] EXCEPT !.failed = TRUE]
  <2>1. v \in Local /\ v.then = run[a].then /\ v.saw = run[a].saw
    BY <1>1 DEF Local
  <2> HIDE DEF v
  <2>2. Set(a, Onward(v))
    BY <1>3 DEF v
  <2> QED
    BY <1>1, <1>3, <2>1, <2>2, CallEnds DEF ReadScope
<1> QED
  BY <1>2, <1>3 DEF ReadScope, Quiet, Troubles

LEMMA UnbannedStep ==
    ASSUME Inv, NEW a \in Actors, Unbanned(a)
    PROVE  Inv'
<1>1. CASE Makes(run[a])
  BY <1>1, Going DEF Unbanned, At
<1>2. CASE ~Makes(run[a])
  BY <1>2, ActorFacts, CallEnds DEF Unbanned, At, Quiet
<1> QED
  BY <1>1, <1>2

LEMMA SendLinkStep ==
    ASSUME Inv, NEW a \in Actors, SendLink(a)
    PROVE  Inv'
<1>1. Quiet
  BY DEF SendLink, Quiet, Troubles
<1> QED
  BY <1>1, ActorFacts, CallEnds DEF SendLink, At

LEMMA UnbanStep ==
    ASSUME Inv, NEW a \in Actors, Unban(a)
    PROVE  Inv'
<1>1. PICK c \in run[a].todo :
        /\ run[a].pc = "unban" /\ Quiet /\ shutOut' \in BOOLEAN
        /\ \/ bot[c] = "admin" /\ member' = [member EXCEPT ![c] = IF @ = "banned" THEN "left" ELSE @]
           \/ bot[c] # "admin" /\ member' = member
           \/ Trouble("telegram") /\ member' = member
        /\ kept' = kept \ {c}
        /\ run' = Readmitted(c, [run EXCEPT ![a].todo = @ \ {c}])
        /\ UNCHANGED <<world, active, registry, queue, flight, links>>
  BY DEF Unban, At, Quiet, Troubles, Inv, TypeOK
<1>2. c \in Chats
  BY DEF Inv, TypeOK, Local
<1>3. /\ \A b \in Actors :
           /\ run'[b] \in Local
           /\ run'[b].pc = run[b].pc /\ run'[b].then = run[b].then /\ run'[b].failed = run[b].failed
           /\ run'[b].undone = run[b].undone /\ run'[b].asks = run[b].asks /\ run'[b].on = run[b].on
           /\ run'[b].saw = run[b].saw \ {c}
           /\ run'[b].todo = IF b = a THEN run[b].todo \ {c} ELSE run[b].todo
      /\ run' \in [Actors -> Local]
  <2>1. \A b \in Actors : run[b] \in Local
    BY DEF Inv, TypeOK
  <2>2. \A b \in Actors : run'[b] =
            IF b = a THEN [run[b] EXCEPT !.todo = @ \ {c}, !.saw = @ \ {c}] ELSE [run[b] EXCEPT !.saw = @ \ {c}]
    BY <1>1, <2>1 DEF Readmitted, Inv, TypeOK, Local
  <2>3. ASSUME NEW b \in Actors
        PROVE  /\ run'[b] \in Local
               /\ run'[b].pc = run[b].pc /\ run'[b].then = run[b].then /\ run'[b].failed = run[b].failed
               /\ run'[b].undone = run[b].undone /\ run'[b].asks = run[b].asks /\ run'[b].on = run[b].on
               /\ run'[b].saw = run[b].saw \ {c}
               /\ run'[b].todo = IF b = a THEN run[b].todo \ {c} ELSE run[b].todo
    <3>1. CASE b = a
      <4> DEFINE v == [run[b] EXCEPT !.todo = @ \ {c}, !.saw = @ \ {c}]
      <4>1. /\ v \in Local /\ v.pc = run[b].pc /\ v.then = run[b].then /\ v.failed = run[b].failed
            /\ v.undone = run[b].undone /\ v.asks = run[b].asks /\ v.on = run[b].on
            /\ v.saw = run[b].saw \ {c} /\ v.todo = run[b].todo \ {c}
        BY <2>1 DEF Local
      <4>2. run'[b] = v
        BY <2>2, <3>1
      <4> HIDE DEF v
      <4> QED
        BY <3>1, <4>1, <4>2
    <3>2. CASE b # a
      <4> DEFINE v == [run[b] EXCEPT !.saw = @ \ {c}]
      <4>1. /\ v \in Local /\ v.pc = run[b].pc /\ v.then = run[b].then /\ v.failed = run[b].failed
            /\ v.undone = run[b].undone /\ v.asks = run[b].asks /\ v.on = run[b].on
            /\ v.saw = run[b].saw \ {c} /\ v.todo = run[b].todo
        BY <2>1 DEF Local
      <4>2. run'[b] = v
        BY <2>2, <3>2
      <4> HIDE DEF v
      <4> QED
        BY <3>2, <4>1, <4>2
    <3> QED
      BY <3>1, <3>2
  <2>4. run' = [b \in Actors |-> run'[b]]
    BY <1>1 DEF Readmitted
  <2> QED
    BY <2>3, <2>4
<1>4. /\ member' \in [Chats -> Standing]
      /\ \A d \in Chats : d # c => member'[d] = member[d]
      /\ c = Channel => member'[Channel] # "banned" \/ \E i \in DOMAIN trouble' : trouble'[i] = "telegram"
  <2>1. CASE member' = [member EXCEPT ![c] = IF @ = "banned" THEN "left" ELSE @]
    BY <1>2, <2>1 DEF Inv, TypeOK, Standing
  <2>2. CASE Trouble("telegram") /\ member' = member
    <3>1. Len(trouble) + 1 \in DOMAIN trouble' /\ trouble'[Len(trouble) + 1] = "telegram"
      BY <2>2 DEF Trouble, Inv, TypeOK
    <3> QED
      BY <2>2, <3>1 DEF Inv, TypeOK
  <2>3. CASE bot[c] # "admin" /\ member' = member
    BY <2>3 DEF Inv, TypeOK, MissedCounted
  <2> QED
    BY <1>1, <2>1, <2>2, <2>3
<1>5. TypeOK'
  <2>1. flight' # "none" => run'[flight'].pc \in {"chat", "ban"}
    BY <1>1, <1>3 DEF Inv, TypeOK
  <2> QED
    BY <1>1, <1>3, <1>4, <2>1, TroubleGrows DEF Inv, TypeOK, world, registry, queue
<1>6. ActorsSound'
  <2> SUFFICES ASSUME NEW b \in Actors PROVE Sound(b, run'[b], member', missed', trouble')
    BY DEF ActorsSound
  <2>1. \A d \in Chats : d # c /\ Out(d, member, missed) => Out(d, member', missed')
    BY <1>1, <1>4 DEF Out, registry
  <2>2. run[b].saw \subseteq Chats
    BY DEF Inv, TypeOK, Local
  <2>3. b = "row" => RowSound(run'[b], member', missed')
    BY <1>3, <2>1, <2>2, ActorFacts, ZenonT(30) DEF RowSound
  <2>4. BanSound(run'[b], member', missed')
    <3>1. CASE run[b].pc \notin {"chat", "ban"}
      BY <1>3, <3>1 DEF BanSound
    <3>2. CASE run[b].pc \in {"chat", "ban"}
      <4>1. b # a /\ run'[b].todo = run[b].todo /\ missed' = missed
        BY <1>1, <1>3, <3>2 DEF registry
      <4> QED
        BY <1>3, <2>1, <2>2, <4>1, ActorFacts DEF BanSound
    <3> QED
      BY <3>1, <3>2
  <2>5. LinkSound(run'[b], member', missed', trouble')
    <3>1. CASE c = Channel
      BY <1>4, <3>1 DEF LinkSound
    <3>2. CASE c # Channel
      <4>1. member'[Channel] = member[Channel] /\ missed' = missed
        BY <1>1, <1>4, <3>2 DEF Chats, registry
      <4>2. Channel \notin run'[b].todo => Channel \notin run[b].todo
        BY <1>3, <3>2
      <4>3. Remembers(trouble, trouble')
        BY <1>1, TroubleGrows DEF Inv
      <4> QED
        BY <1>3, <4>1, <4>2, <4>3, ActorFacts DEF LinkSound, Remembers
    <3> QED
      BY <3>1, <3>2
  <2> QED
    BY <2>3, <2>4, <2>5 DEF Sound
<1>7. KeptClosed'
  BY <1>1, <1>4 DEF Inv, TypeOK, KeptClosed, Out, registry
<1>8. MissedCounted' /\ RegistrySound'
  BY <1>1, TroubleGrows, MissedKept, RegistryKept DEF Inv, world, registry
<1>9. LinksCounted'
  BY <1>1, <1>3, LinksKept DEF Inv, queue, Actors
<1> QED
  BY <1>5, <1>6, <1>7, <1>8, <1>9 DEF Inv

LEMMA MakeLinkStep ==
    ASSUME Inv, NEW a \in Actors, MakeLink(a)
    PROVE  Inv'
<1>1. run[a].pc = "link" /\ run[a] \in Local
  BY ActorFacts DEF MakeLink, At
<1>2. CASE Quiet /\ Set(a, Onward(run[a])) /\ UNCHANGED links
  BY <1>1, <1>2, CallEnds DEF MakeLink, history
<1>3. CASE Smoothly /\ Goto(a, "send")
           /\ links' = IF a = "row" THEN [i \in DOMAIN links |-> IF Oldest(i) THEN links[i] + 1 ELSE links[i]] ELSE links
  <2> DEFINE v == [run[a] EXCEPT !.pc = "send"]
  <2>1. /\ v \in Local /\ v.pc = "send" /\ v.then = run[a].then /\ v.saw = run[a].saw
        /\ v.failed = run[a].failed /\ v.undone = run[a].undone
    BY <1>1 DEF Local, Places
  <2>2. a = "row" => RowSound(v, member, missed) /\ ~v.failed
    BY <1>1, <2>1, ActorFacts DEF RowSound, Early
  <2>3. BanSound(v, member, missed) /\ LinkSound(v, member, missed, trouble)
    BY <1>1, <2>1, ActorFacts DEF BanSound, LinkSound
  <2>4. Sound(a, v, member, missed, trouble)
    BY <2>2, <2>3 DEF Sound
  <2>5. flight # a /\ Quiet /\ Set(a, v)
    BY <1>1, <1>3, ActorFacts DEF Quiet, Goto
  <2> HIDE DEF v
  <2>6. run' \in [Actors -> Local] /\ run'[a] = v /\ \A b \in Actors : b # a => run'[b] = run[b]
    BY <2>1, <2>5, LocalReplaced DEF Inv, TypeOK
  <2>7. links' \in [1..MaxTurns -> Nat]
    BY <1>3 DEF Inv, TypeOK
  <2>8. TypeOK'
    BY <2>5, <2>6, <2>7, TroubleGrows DEF MakeLink, Inv, TypeOK, world, registry, queue
  <2>9. ActorsSound' /\ KeptClosed' /\ MissedCounted' /\ RegistrySound'
    BY <2>1, <2>4, <2>5, OneActorMoves, TroubleGrows, KeptKept, MissedKept, RegistryKept
    DEF MakeLink, Inv, world, registry
  <2>10. CASE a # "row"
    BY <1>3, <2>5, <2>6, <2>8, <2>9, <2>10, LinksKept DEF MakeLink, Inv, queue, Actors
  <2>11. CASE a = "row"
    <3> SUFFICES ASSUME NEW i \in 1..MaxTurns
                 PROVE  links'[i] <= Cardinality(Repeated') + (IF Linked(i)' THEN 1 ELSE 0)
      BY <2>8, <2>9 DEF MakeLink, Inv, LinksCounted, queue
    <3>1. links[i] <= Cardinality(Repeated) + (IF Linked(i) THEN 1 ELSE 0)
      BY DEF Inv, LinksCounted
    <3>2. links[i] \in Nat /\ links'[i] = IF Oldest(i) THEN links[i] + 1 ELSE links[i]
      BY <1>3, <2>11 DEF Inv, TypeOK
    <3>3. CASE Oldest(i)
      <4>1. i \in DOMAIN rows /\ rows[i].status # "PROCESSED"
        BY <3>3 DEF Inv, TypeOK, LinksCounted, Oldest
      <4>2. ~Linked(i)
        BY <1>1, <2>11, <4>1 DEF Linked
      <4>3. Linked(i)'
        BY <2>1, <2>2, <2>6, <2>11, <3>3, <4>1 DEF Linked, Oldest, MakeLink, queue
      <4> QED
        BY <2>5, <3>1, <3>2, <3>3, <4>2, <4>3, RepeatedMore DEF Inv
    <3>4. CASE ~Oldest(i)
      <4>1. Linked(i) => Linked(i)'
        BY <3>4 DEF Linked, MakeLink, queue
      <4> QED
        BY <2>5, <3>1, <3>2, <3>4, <4>1, RepeatedMore DEF Inv
    <3> QED
      BY <3>3, <3>4
  <2> QED
    BY <2>8, <2>9, <2>10, <2>11 DEF Inv
<1> QED
  BY <1>2, <1>3 DEF MakeLink, Quiet, Troubles

---------------------------------------------------------------------------
(* revokeAccess.                                                           *)

\* A revocation is begun: nothing has been done with yet.
LEMMA RevocationBegins ==
    ASSUME Inv, NEW a \in Actors, run[a].pc = "revoke",
           Set(a, [run[a] EXCEPT !.pc = "chat", !.todo = Known, !.saw = Known,
                                 !.asks = Known \ {c \in {Channel} : known[c] = "active"}]),
           Smoothly, flight' = a, UNCHANGED <<world, active, member, registry, queue, history>>
    PROVE  Inv'
<1> DEFINE v == [run[a] EXCEPT !.pc = "chat", !.todo = Known, !.saw = Known,
                               !.asks = Known \ {c \in {Channel} : known[c] = "active"}]
<1>1. run[a] \in Local /\ Known \subseteq Chats
  BY ActorFacts DEF Known
<1>2. /\ v \in Local /\ v.pc = "chat" /\ v.then = run[a].then /\ v.todo = Known /\ v.saw = Known
      /\ v.asks = Known \ {c \in {Channel} : known[c] = "active"}
  BY <1>1 DEF Local, Places
<1>3. a = "row" => RowSound(v, member, missed)
  BY <1>2, ActorFacts DEF RowSound, Early
<1>4. BanSound(v, member, missed)
  BY <1>2 DEF BanSound, Inv, MissedCounted, Known
<1>5. LinkSound(v, member, missed, trouble)
  BY <1>2 DEF LinkSound
<1>6. Sound(a, v, member, missed, trouble)
  BY <1>3, <1>4, <1>5 DEF Sound
<1>7. active' \in BOOLEAN /\ Quiet /\ Set(a, v)
  BY DEF Inv, TypeOK, Quiet
<1> HIDE DEF v
<1> QED
  BY <1>2, <1>6, <1>7, LocalStep

LEMMA RevokeAccessStep ==
    ASSUME Inv, NEW a \in Actors, RevokeAccess(a)
    PROVE  Inv'
<1>1. run[a] \in Local /\ run[a].pc = "revoke"
  BY ActorFacts DEF RevokeAccess, At
<1>2. CASE Goto(a, "wait") /\ UNCHANGED flight /\ Smoothly
  BY <1>1, <1>2, Going DEF RevokeAccess
<1>3. CASE /\ Smoothly /\ flight' = a
           /\ Set(a, [run[a] EXCEPT !.pc = "chat", !.todo = Known, !.saw = Known,
                                    !.asks = Known \ {c \in {Channel} : known[c] = "active"}])
  BY <1>1, <1>3, RevocationBegins DEF RevokeAccess
<1>4. CASE Quiet /\ Set(a, Onward([run[a] EXCEPT !.failed = TRUE])) /\ UNCHANGED flight
  <2> DEFINE v == [run[a] EXCEPT !.failed = TRUE]
  <2>1. v \in Local /\ v.then = run[a].then /\ v.saw = run[a].saw
    BY <1>1 DEF Local
  <2> HIDE DEF v
  <2>2. Set(a, Onward(v))
    BY <1>4 DEF v
  <2> QED
    BY <1>1, <1>4, <2>1, <2>2, CallEnds DEF RevokeAccess
<1> QED
  BY <1>2, <1>3, <1>4 DEF RevokeAccess, Quiet, Troubles

\* A revocation goes on to another chat: c is done with, or is left as failed.
LEMMA ChatDone ==
    ASSUME Inv, NEW a \in Actors, run[a].pc \in {"chat", "ban"}, NEW c \in Chats, NEW v \in Local, Set(a, v), Quiet,
           v.pc = "chat", v.then = run[a].then, v.asks = run[a].asks, v.saw = run[a].saw, v.todo = run[a].todo \ {c},
           v.failed \/ (v.failed = run[a].failed /\ Out(c, member, missed)),
           UNCHANGED <<world, active, member, registry, queue, flight, history>>
    PROVE  Inv'
<1>1. a = "row" => RowSound(v, member, missed)
  BY ActorFacts DEF RowSound, Early
<1>2. BanSound(v, member, missed)
  BY ActorFacts DEF BanSound
<1>3. LinkSound(v, member, missed, trouble)
  BY DEF LinkSound
<1>4. Sound(a, v, member, missed, trouble)
  BY <1>1, <1>2, <1>3 DEF Sound
<1>5. active' \in BOOLEAN
  BY DEF Inv, TypeOK
<1> QED
  BY <1>4, <1>5, LocalStep

LEMMA CheckPresenceStep ==
    ASSUME Inv, NEW a \in Actors, CheckPresence(a)
    PROVE  Inv'
<1>1. run[a] \in Local /\ run[a].pc = "chat"
  BY ActorFacts, SMTT(60) DEF CheckPresence, At
<1>2. PICK c \in run[a].todo :
        /\ \/ Smoothly /\ Set(a, [run[a] EXCEPT !.pc = "ban", !.on = c])
           \/ /\ Smoothly /\ c \in run[a].asks /\ member[c] # "in"
              /\ Set(a, [run[a] EXCEPT !.todo = @ \ {c}])
           \/ (Smoothly \/ Trouble("telegram")) /\ Set(a, [run[a] EXCEPT !.todo = @ \ {c}, !.failed = TRUE])
        /\ UNCHANGED <<world, active, member, registry, queue, flight, history>>
  BY DEF CheckPresence
<1>3. c \in Chats
  BY <1>1 DEF Local
<1>4. CASE Smoothly /\ Set(a, [run[a] EXCEPT !.pc = "ban", !.on = c])
  <2> DEFINE v == [run[a] EXCEPT !.pc = "ban", !.on = c]
  <2>1. /\ v \in Local /\ v.pc = "ban" /\ v.on = c /\ v.then = run[a].then /\ v.saw = run[a].saw
        /\ v.todo = run[a].todo /\ v.asks = run[a].asks /\ v.failed = run[a].failed
    BY <1>1, <1>3 DEF Local, Places
  <2>2. a = "row" => RowSound(v, member, missed)
    BY <1>1, <2>1, ActorFacts DEF RowSound, Early
  <2>3. BanSound(v, member, missed)
    BY <1>1, <2>1, ActorFacts DEF BanSound
  <2>4. LinkSound(v, member, missed, trouble)
    BY <2>1 DEF LinkSound
  <2>5. Sound(a, v, member, missed, trouble)
    BY <2>2, <2>3, <2>4 DEF Sound
  <2>6. active' \in BOOLEAN /\ Quiet /\ Set(a, v)
    BY <1>2, <1>4 DEF Inv, TypeOK, Quiet
  <2> HIDE DEF v
  <2> QED
    BY <1>1, <1>2, <2>1, <2>5, <2>6, LocalStep
<1>5. CASE /\ Smoothly /\ c \in run[a].asks /\ member[c] # "in"
           /\ Set(a, [run[a] EXCEPT !.todo = @ \ {c}])
  <2> DEFINE v == [run[a] EXCEPT !.todo = @ \ {c}]
  <2>1. /\ v \in Local /\ v.pc = "chat" /\ v.then = run[a].then /\ v.saw = run[a].saw
        /\ v.todo = run[a].todo \ {c} /\ v.asks = run[a].asks /\ v.failed = run[a].failed
    BY <1>1 DEF Local, Places
  <2>2. Out(c, member, missed)
    BY <1>1, <1>5, ActorFacts DEF BanSound, Out
  <2>3. Quiet /\ Set(a, v)
    BY <1>5 DEF Quiet
  <2> HIDE DEF v
  <2> QED
    BY <1>1, <1>2, <1>3, <2>1, <2>2, <2>3, ChatDone
<1>6. CASE (Smoothly \/ Trouble("telegram")) /\ Set(a, [run[a] EXCEPT !.todo = @ \ {c}, !.failed = TRUE])
  <2> DEFINE v == [run[a] EXCEPT !.todo = @ \ {c}, !.failed = TRUE]
  <2>1. /\ v \in Local /\ v.pc = "chat" /\ v.then = run[a].then /\ v.saw = run[a].saw
        /\ v.todo = run[a].todo \ {c} /\ v.asks = run[a].asks /\ v.failed
    BY <1>1 DEF Local, Places
  <2>2. Quiet /\ Set(a, v)
    BY <1>6 DEF Quiet, Troubles
  <2> HIDE DEF v
  <2> QED
    BY <1>1, <1>2, <1>3, <2>1, <2>2, ChatDone
<1> QED
  BY <1>2, <1>4, <1>5, <1>6

\* She is banned: whoever is restoring her learns that the channel's unban is undone.
LEMMA BanMade ==
    ASSUME Inv, NEW a \in Actors, NEW c \in Chats, c = run[a].on, run[a].pc = "ban", Smoothly,
           member' = [member EXCEPT ![c] = IF @ = "never" THEN @ ELSE "banned"],
           shutOut' \in BOOLEAN,
           run' = [[b \in Actors |->
                     [run[b] EXCEPT !.undone = @ \/ (c = Channel /\ run[b].pc \in {"unban", "link", "send"})]]
                     EXCEPT ![a] = [run[a] EXCEPT !.pc = "chat", !.todo = @ \ {c}, !.saw = @ \cup {c}]],
           UNCHANGED <<world, active, registry, queue, flight, links, kept>>
    PROVE  Inv'
<1>1. \A b \in Actors : run[b] \in Local
  BY DEF Inv, TypeOK
<1>2. /\ run'[a] \in Local /\ run'[a].pc = "chat" /\ run'[a].todo = run[a].todo \ {c}
      /\ run'[a].saw = run[a].saw \cup {c} /\ run'[a].then = run[a].then
      /\ run'[a].failed = run[a].failed /\ run'[a].asks = run[a].asks
  BY <1>1, ZenonT(60) DEF Local, Places
<1>3. ASSUME NEW b \in Actors, b # a
      PROVE  /\ run'[b] \in Local /\ run'[b].pc = run[b].pc /\ run'[b].todo = run[b].todo
             /\ run'[b].saw = run[b].saw /\ run'[b].then = run[b].then /\ run'[b].on = run[b].on
             /\ run'[b].failed = run[b].failed /\ run'[b].asks = run[b].asks
             /\ run[b].undone => run'[b].undone
             /\ c = Channel /\ run[b].pc \in {"unban", "link", "send"} => run'[b].undone
  <2> DEFINE u == run[b].undone \/ (c = Channel /\ run[b].pc \in {"unban", "link", "send"})
             v == [run[b] EXCEPT !.undone = u]
  <2>1. u \in BOOLEAN /\ run[b] \in Local
    BY <1>1 DEF Local
  <2>2. run'[b] = v
    BY <1>3
  <2> HIDE DEF u
  <2>3. /\ v \in Local /\ v.pc = run[b].pc /\ v.todo = run[b].todo /\ v.saw = run[b].saw
        /\ v.then = run[b].then /\ v.on = run[b].on /\ v.failed = run[b].failed /\ v.asks = run[b].asks
        /\ v.undone = u
    BY <2>1 DEF Local
  <2> QED
    BY <2>2, <2>3 DEF u
<1>4. run' \in [Actors -> Local]
  <2>1. \A b \in Actors : run'[b] \in Local
    BY <1>2, <1>3
  <2>2. run' = [b \in Actors |-> run'[b]]
    OBVIOUS
  <2> QED
    BY <2>1, <2>2
<1>5. /\ member' \in [Chats -> Standing] /\ member'[c] \in {"banned", "never"}
      /\ \A d \in Chats : d # c => member'[d] = member[d]
  BY DEF Inv, TypeOK, Standing
<1>6. \A d \in Chats : Out(d, member, missed) => Out(d, member', missed')
  BY <1>5 DEF Out, registry
<1>7. Out(c, member', missed')
  BY <1>5 DEF Out
<1>8. TypeOK'
  <2>1. flight' # "none" => run'[flight'].pc \in {"chat", "ban"}
    <3>1. flight' = flight /\ flight \in Actors \cup {"none"}
          /\ (flight # "none" => run[flight].pc \in {"chat", "ban"})
      BY DEF Inv, TypeOK
    <3> QED
      BY <1>2, <1>3, <3>1, SMTT(30)
  <2> QED
    BY <1>4, <1>5, <2>1, SMTT(60) DEF Inv, TypeOK, world, registry, queue, Smoothly
<1>9. ActorsSound'
  <2> SUFFICES ASSUME NEW b \in Actors PROVE Sound(b, run'[b], member', missed', trouble')
    BY DEF ActorsSound
  <2>1. run[b].saw \subseteq Chats /\ missed' = missed /\ trouble' = trouble
    BY <1>1 DEF Local, registry, Smoothly
  <2>2. CASE b = a
    <3>1. a = "row" => RowSound(run'[a], member', missed')
      BY <1>2, ActorFacts DEF RowSound, Early
    <3>2. BanSound(run'[a], member', missed')
      BY <1>2, <1>6, <1>7, <2>1, <2>2, ActorFacts DEF BanSound
    <3>3. LinkSound(run'[a], member', missed', trouble')
      BY <1>2 DEF LinkSound
    <3> QED
      BY <2>2, <3>1, <3>2, <3>3 DEF Sound
  <2>3. CASE b # a
    <3>1. ASSUME b = "row" PROVE RowSound(run'[b], member', missed')
      <4>1. RowSound(run[b], member, missed)
        BY <3>1, ActorFacts
      <4>2. /\ run'[b].pc = run[b].pc /\ run'[b].saw = run[b].saw
            /\ run'[b].then = run[b].then /\ run'[b].failed = run[b].failed
        BY <1>3, <2>3
      <4>3. \A d \in run[b].saw : Out(d, member, missed) => Out(d, member', missed')
        BY <1>6, <2>1
      <4> QED
        BY <4>1, <4>2, <4>3 DEF RowSound
    <3>2. BanSound(run'[b], member', missed')
      BY <1>3, <1>6, <2>1, <2>3, ActorFacts, ZenonT(90) DEF BanSound
    <3>3. LinkSound(run'[b], member', missed', trouble')
      BY <1>3, <1>5, <2>1, <2>3, ActorFacts, SMTT(30) DEF LinkSound, Chats
    <3> QED
      BY <3>1, <3>2, <3>3, SMTT(60) DEF Sound
  <2> QED
    BY <2>2, <2>3
<1>10. KeptClosed'
  BY <1>6 DEF Inv, TypeOK, KeptClosed
<1>11. MissedCounted' /\ RegistrySound'
  BY TroubleGrows, MissedKept, RegistryKept DEF Inv, world, registry, Quiet
<1>12. LinksCounted'
  <2>1. run'["row"].pc \in {"send", "ack"} \/ run["row"].pc \notin {"send", "ack"}
    BY <1>2, <1>3, ZenonT(60) DEF Actors
  <2>2. run'["row"].failed = run["row"].failed
    BY <1>2, <1>3 DEF Actors
  <2> QED
    BY <2>1, <2>2, LinksKept DEF Inv, queue, Quiet
<1> QED
  BY <1>8, <1>9, <1>10, <1>11, <1>12 DEF Inv

LEMMA BanStep ==
    ASSUME Inv, NEW a \in Actors, Ban(a)
    PROVE  Inv'
<1> DEFINE c == run[a].on
<1>1. run[a] \in Local /\ run[a].pc = "ban" /\ c \in Chats
  BY ActorFacts DEF Ban, At, Local
<1>2. CASE /\ bot[c] = "admin" /\ Smoothly
           /\ member' = [member EXCEPT ![c] = IF @ = "never" THEN @ ELSE "banned"]
           /\ shutOut' = (shutOut \/ IF a = "row" THEN employed /\ \A i \in Pending : rows[i].kind = "REVOKE" ELSE active)
           /\ run' = [[b \in Actors |->
                        [run[b] EXCEPT !.undone = @ \/ (c = Channel /\ run[b].pc \in {"unban", "link", "send"})]]
                        EXCEPT ![a] = [[run[a] EXCEPT !.pc = "chat", !.todo = @ \ {c}] EXCEPT !.saw = @ \cup {c}]]
  <2>1. shutOut' \in BOOLEAN
    BY <1>2 DEF Inv, TypeOK
  <2>2. [[run[a] EXCEPT !.pc = "chat", !.todo = @ \ {c}] EXCEPT !.saw = @ \cup {c}]
          = [run[a] EXCEPT !.pc = "chat", !.todo = @ \ {c}, !.saw = @ \cup {c}]
    BY <1>1 DEF Local
  <2> QED
    BY <1>1, <1>2, <2>1, <2>2, BanMade DEF Ban
<1>3. CASE /\ Quiet /\ UNCHANGED <<member, shutOut>>
           /\ Set(a, [[run[a] EXCEPT !.pc = "chat", !.todo = @ \ {c}] EXCEPT !.failed = TRUE])
  <2> DEFINE v == [[run[a] EXCEPT !.pc = "chat", !.todo = @ \ {c}] EXCEPT !.failed = TRUE]
  <2>1. /\ v \in Local /\ v.pc = "chat" /\ v.then = run[a].then /\ v.saw = run[a].saw
        /\ v.todo = run[a].todo \ {c} /\ v.asks = run[a].asks /\ v.failed
    BY <1>1 DEF Local, Places
  <2> HIDE DEF v
  <2>2. Set(a, v)
    BY <1>3 DEF v
  <2> QED
    BY <1>1, <1>3, <2>1, <2>2, ChatDone DEF Ban, history
<1> QED
  BY <1>2, <1>3 DEF Ban, Quiet, Troubles

\* Whoever waited for the revocation has what it had.
LEMMA RevokedStep ==
    ASSUME Inv, NEW a \in Actors, Revoked(a)
    PROVE  Inv'
<1> DEFINE w(b) == [run[b] EXCEPT !.failed = run[a].failed, !.saw = run[a].saw]
           ends(b) == b = a \/ run[b].pc = "wait"
<1>1. \A b \in Actors : run[b] \in Local
  BY DEF Inv, TypeOK
<1>2. run[a].pc = "chat" /\ run[a].todo = {} /\ Smoothly /\ flight' = "none"
  BY DEF Revoked, At
<1>3. \A b \in Actors : /\ w(b) \in Local /\ w(b).then = run[b].then
                        /\ w(b).failed = run[a].failed /\ w(b).saw = run[a].saw
  BY <1>1 DEF Local
<1>4. run' = [b \in Actors |-> IF ends(b) THEN Onward(w(b)) ELSE run[b]]
  BY DEF Revoked, At
<1> HIDE DEF w
<1>5. run' \in [Actors -> Local] /\ \A b \in Actors : run'[b] = IF ends(b) THEN Onward(w(b)) ELSE run[b]
  BY <1>1, <1>3, <1>4, OnwardLocal
<1>6. UNCHANGED <<world, active, member, registry, queue, history>>
  BY DEF Revoked
<1>7. TypeOK'
  BY <1>2, <1>5, <1>6 DEF Inv, TypeOK, world, registry, queue, history, Smoothly
<1>8. ActorsSound'
  <2> SUFFICES ASSUME NEW b \in Actors PROVE Sound(b, run'[b], member, missed, trouble)
    BY <1>2, <1>6 DEF ActorsSound, registry, Smoothly
  <2>1. CASE ends(b)
    <3>1. ~run[a].failed => \A c \in run[a].saw : Out(c, member, missed)
      BY <1>2, ActorFacts DEF BanSound
    <3>2. b = "row" => w(b).then = "ack"
      BY <1>2, <1>3, <2>1, ActorFacts DEF RowSound
    <3>3. Sound(b, Onward(w(b)), member, missed, trouble)
      BY <1>3, <3>1, <3>2, OnwardSound
    <3> QED
      BY <1>5, <2>1, <3>3
  <2>2. CASE ~ends(b)
    BY <1>5, <2>2, ActorFacts
  <2> QED
    BY <2>1, <2>2
<1>9. KeptClosed' /\ MissedCounted' /\ RegistrySound'
  BY <1>2, <1>6, TroubleGrows, KeptKept, MissedKept, RegistryKept DEF Inv, world, registry, history, Quiet
<1>10. LinksCounted'
  <2>1. "row" \in Actors /\ (run["row"].pc \in {"send", "ack"} => ~ends("row"))
    BY <1>2 DEF Actors
  <2>2. run["row"].pc \in {"send", "ack"} => run'["row"] = run["row"]
    BY <1>5, <2>1
  <2> QED
    BY <1>2, <1>6, <2>2, LinksKept DEF Inv, queue, history, Quiet
<1> QED
  BY <1>7, <1>8, <1>9, <1>10 DEF Inv

---------------------------------------------------------------------------
(* The dispatcher.                                                         *)

\* The rows and their links move, and the row's handler is where it was or idle.
LEMMA FetchRowsStep ==
    ASSUME Inv, FetchRows
    PROVE  Inv'
<1>1. run["row"].pc = "idle" /\ batch' = Pending /\ Smoothly /\ Quiet
      /\ UNCHANGED <<world, active, member, registry, rows, run, flight, history>>
  BY DEF FetchRows, At, Quiet
<1>2. TypeOK'
  BY <1>1 DEF Inv, TypeOK, world, registry, history, Smoothly, Pending
<1>3. ActorsSound' /\ KeptClosed' /\ MissedCounted' /\ RegistrySound'
  BY <1>1, NobodyMoves, TroubleGrows, KeptKept, MissedKept, RegistryKept DEF Inv, world, registry, history
<1>4. LinksCounted'
  <2>1. \A i \in 1..MaxTurns : Linked(i)' <=> Linked(i)
    BY <1>1 DEF Linked
  <2>2. Repeated' = Repeated /\ rows' = rows /\ links' = links
    BY <1>1 DEF Repeated, Smoothly, history
  <2> QED
    BY <1>1, <2>1, <2>2 DEF Inv, LinksCounted, Pending
<1> QED
  BY <1>2, <1>3, <1>4 DEF Inv

LEMMA ProcessRowStep ==
    ASSUME Inv, ProcessRow
    PROVE  Inv'
<1>1. PICK pc \in {"revoke", "invite"} :
        /\ run["row"].pc = "idle" /\ Smoothly
        /\ Set("row", [Idle EXCEPT !.pc = pc, !.then = "ack"])
        /\ UNCHANGED <<world, active, member, registry, queue, flight, history>>
  BY DEF ProcessRow, At
<1> DEFINE v == [Idle EXCEPT !.pc = pc, !.then = "ack"]
<1>2. v \in Local /\ v.pc = pc /\ v.then = "ack" /\ v.saw = {} /\ ~v.failed
  BY IdleLocal DEF Idle, Local, Places
<1>3. "row" \in Actors
  BY DEF Actors
<1>4. Sound("row", v, member, missed, trouble)
  BY <1>2 DEF Sound, RowSound, BanSound, LinkSound, Early
<1>5. flight # "row" /\ active' \in BOOLEAN /\ Quiet /\ Set("row", v)
  BY <1>1, <1>3, ActorFacts DEF Inv, TypeOK, Quiet
<1> HIDE DEF v
<1> QED
  BY <1>1, <1>2, <1>3, <1>4, <1>5, LocalStep

LEMMA MarkRow ==
    ASSUME TypeOK, NEW r \in DOMAIN rows
    PROVE  LET q == [rows EXCEPT ![r].status = "PROCESSED"]
           IN  /\ q \in Seq([kind : {"REVOKE", "RESTORE"}, status : {"PENDING", "PROCESSED"}])
               /\ Len(q) = Len(rows) /\ DOMAIN q = DOMAIN rows
               /\ q[r].status = "PROCESSED" /\ \A i \in DOMAIN rows : i # r => q[i] = rows[i]
<1> DEFINE Row == [kind : {"REVOKE", "RESTORE"}, status : {"PENDING", "PROCESSED"}]
           e == [rows[r] EXCEPT !.status = "PROCESSED"]
           q == [rows EXCEPT ![r] = e]
<1>1. rows \in Seq(Row)
  BY DEF TypeOK
<1>2. \A d \in Row : [d EXCEPT !.status = "PROCESSED"] \in Row /\ [d EXCEPT !.status = "PROCESSED"].status = "PROCESSED"
  OBVIOUS
<1> HIDE DEF Row
<1>3. rows[r] \in Row
  BY <1>1
<1>4. e \in Row /\ e.status = "PROCESSED"
  BY <1>2, <1>3
<1> HIDE DEF e
<1>5. DOMAIN q = DOMAIN rows /\ q[r] = e /\ \A i \in DOMAIN rows : i # r => q[i] = rows[i]
  BY <1>1
<1>6. q \in Seq(Row)
  BY <1>1, <1>4
<1>7. Len(q) = Len(rows)
  BY <1>1, <1>5, <1>6
<1> QED
  BY <1>4, <1>5, <1>6, <1>7 DEF Row, e

LEMMA ReportRowStep ==
    ASSUME Inv, ReportRow
    PROVE  Inv'
<1> DEFINE done == ~run["row"].failed
<1>1. PICK r \in batch :
        /\ run["row"].pc = "ack" /\ Oldest(r)
        /\ \/ Smoothly /\ rows' = IF done THEN [rows EXCEPT ![r].status = "PROCESSED"] ELSE rows
           \/ Trouble("ack") /\ UNCHANGED rows
        /\ batch' = batch \ {r}
        /\ kept' = IF done /\ rows[r].kind = "REVOKE" THEN kept \cup run["row"].saw ELSE kept
        /\ Set("row", Idle)
        /\ UNCHANGED <<world, active, member, registry, flight, links, shutOut>>
  BY DEF ReportRow, At
<1>2. "row" \in Actors /\ Quiet /\ flight # "row" /\ r \in DOMAIN rows /\ run["row"] \in Local
  BY <1>1, ActorFacts DEF Inv, TypeOK, Quiet, Actors, Troubles
<1>3. run' \in [Actors -> Local] /\ run'["row"] = Idle /\ \A b \in Actors : b # "row" => run'[b] = run[b]
  BY <1>1, <1>2, IdleLocal, LocalReplaced DEF Inv, TypeOK
<1>4. /\ rows' \in Seq([kind : {"REVOKE", "RESTORE"}, status : {"PENDING", "PROCESSED"}])
      /\ Len(rows') = Len(rows) /\ DOMAIN rows' = DOMAIN rows
      /\ \A i \in DOMAIN rows : i # r => rows'[i] = rows[i]
      /\ rows[r].status = "PROCESSED" => rows'[r].status = "PROCESSED"
      /\ done /\ ~Trouble("ack") => rows'[r].status = "PROCESSED"
  <2>1. CASE rows' = [rows EXCEPT ![r].status = "PROCESSED"]
    BY <1>2, <2>1, MarkRow DEF Inv
  <2>2. CASE rows' = rows /\ (Trouble("ack") \/ ~done)
    BY <2>2 DEF Inv, TypeOK
  <2> QED
    BY <1>1, <2>1, <2>2
<1>5. TypeOK'
  <2>1. kept' \subseteq Chats
    BY <1>1, <1>2 DEF Inv, TypeOK, Local
  <2> QED
    BY <1>1, <1>2, <1>3, <1>4, <2>1, TroubleGrows DEF Inv, TypeOK, world, registry
<1>6. ActorsSound'
  <2>1. Sound("row", Idle, member, missed, trouble)
    BY DEF Sound, RowSound, BanSound, LinkSound, Early, Idle
  <2> QED
    BY <1>1, <1>2, <2>1, IdleLocal, OneActorMoves DEF registry
<1>7. KeptClosed'
  <2>1. done => \A c \in run["row"].saw : Out(c, member, missed)
    BY <1>1, <1>2, ActorFacts DEF RowSound
  <2> QED
    BY <1>1, <2>1 DEF Inv, KeptClosed, registry
<1>8. MissedCounted' /\ RegistrySound'
  BY <1>1, <1>2, TroubleGrows, MissedKept, RegistryKept DEF Inv, world, registry
<1>9. LinksCounted'
  <2>1. \A i \in batch' : rows'[i].status = "PENDING"
    BY <1>1, <1>4 DEF Inv, TypeOK, LinksCounted
  <2>2. ASSUME NEW i \in 1..MaxTurns
        PROVE  links'[i] <= Cardinality(Repeated') + (IF Linked(i)' THEN 1 ELSE 0)
    <3>1. links' = links /\ links[i] \in Nat /\ links[i] <= Cardinality(Repeated) + (IF Linked(i) THEN 1 ELSE 0)
      BY <1>1 DEF Inv, TypeOK, LinksCounted
    <3>2. Cardinality(Repeated) \in Nat /\ Cardinality(Repeated') \in Nat
          /\ Cardinality(Repeated) <= Cardinality(Repeated')
      BY <1>2, RepeatedMore DEF Inv
    <3>3. CASE Trouble("ack")
      <4>1. Cardinality(Repeated') = Cardinality(Repeated) + 1
        BY <3>3, RepeatedOnce DEF Inv
      <4> QED
        BY <3>1, <3>2, <4>1
    <3>4. CASE ~Trouble("ack")
      <4>1. ASSUME Linked(i) PROVE Linked(i)'
        <5>1. CASE rows[i].status = "PROCESSED"
          BY <1>4, <4>1, <5>1 DEF Linked
        <5>2. CASE Oldest(i) /\ done
          <6>1. i = r
            BY <1>1, <5>2 DEF Oldest, Inv, TypeOK
          <6>2. rows'[i].status = "PROCESSED"
            BY <1>4, <3>4, <5>2, <6>1
          <6> QED
            BY <1>2, <1>4, <6>1, <6>2 DEF Linked
        <5> QED
          BY <4>1, <5>1, <5>2 DEF Linked
      <4> QED
        BY <3>1, <3>2, <4>1
    <3> QED
      BY <3>3, <3>4
  <2> QED
    BY <2>1, <2>2 DEF LinksCounted
<1> QED
  BY <1>5, <1>6, <1>7, <1>8, <1>9 DEF Inv

---------------------------------------------------------------------------
(* The profile, the channel's door and the registry.                       *)

LEMMA ChangeEmploymentStep ==
    ASSUME Inv, ChangeEmployment
    PROVE  Inv'
<1>1. PICK e \in [kind : {"REVOKE", "RESTORE"}, status : {"PENDING"}] : rows' = Append(rows, e)
  BY DEF ChangeEmployment
<1>2. /\ rows' \in Seq([kind : {"REVOKE", "RESTORE"}, status : {"PENDING", "PROCESSED"}])
      /\ Len(rows') = Len(rows) + 1 /\ DOMAIN rows \subseteq DOMAIN rows'
      /\ \A i \in DOMAIN rows : rows'[i] = rows[i]
  BY <1>1 DEF Inv, TypeOK
<1>3. /\ Quiet /\ Smoothly /\ turns < MaxTurns /\ turns' = turns + 1 /\ employed' \in BOOLEAN
      /\ UNCHANGED <<may, bot, news, active, member, registry, batch, run, flight, history>>
  BY DEF ChangeEmployment, Turn, Quiet, Inv, TypeOK
<1>4. TypeOK'
  BY <1>2, <1>3, BoundsAssumption, SMTT(30) DEF Inv, TypeOK, registry, history, Smoothly
<1>5. ActorsSound' /\ KeptClosed' /\ MissedCounted' /\ RegistrySound'
  BY <1>3, NobodyMoves, TroubleGrows, KeptKept, MissedKept, RegistryKept DEF Inv, registry, history
<1>6. LinksCounted'
  <2>1. \A i \in batch' : rows'[i].status = "PENDING"
    BY <1>2, <1>3 DEF Inv, TypeOK, LinksCounted
  <2>2. \A i \in 1..MaxTurns : Linked(i) => Linked(i)'
    BY <1>2, <1>3 DEF Linked, Oldest
  <2>3. Repeated' = Repeated /\ links' = links /\ Cardinality(Repeated) \in Nat
        /\ \A i \in 1..MaxTurns : links[i] \in Nat
    BY <1>3, RepeatedFinite DEF Repeated, Smoothly, history, Inv, TypeOK
  <2> QED
    BY <2>1, <2>2, <2>3 DEF Inv, LinksCounted
<1> QED
  BY <1>4, <1>5, <1>6 DEF Inv

LEMMA UpdateProfileStep ==
    ASSUME Inv, UpdateProfile
    PROVE  Inv'
<1>1. PICK then \in {"none", "invite"} :
        /\ run["sync"].pc = "idle" /\ active' = employed /\ Smoothly
        /\ Set("sync", [Idle EXCEPT !.pc = "sync", !.then = then])
        /\ UNCHANGED <<world, member, registry, queue, flight, history>>
  BY DEF UpdateProfile, At
<1> DEFINE v == [Idle EXCEPT !.pc = "sync", !.then = then]
<1>2. v \in Local /\ v.pc = "sync"
  BY IdleLocal DEF Idle, Local, Places
<1>3. "sync" \in Actors
  BY DEF Actors
<1>4. Sound("sync", v, member, missed, trouble)
  BY <1>2 DEF Sound, BanSound, LinkSound
<1>5. flight # "sync" /\ active' \in BOOLEAN /\ Quiet /\ Set("sync", v)
  BY <1>1, <1>3, ActorFacts DEF Inv, TypeOK, Quiet
<1> HIDE DEF v
<1> QED
  BY <1>1, <1>2, <1>3, <1>4, <1>5, LocalStep

\* She moves where nothing is known to be closed.
LEMMA LeaveStep ==
    ASSUME Inv, Leave
    PROVE  Inv'
<1>1. PICK c \in Chats : member[c] = "in" /\ member' = [member EXCEPT ![c] = "left"]
  BY DEF Leave
<1>2. /\ Quiet /\ Smoothly /\ turns < MaxTurns /\ turns' = turns + 1
      /\ UNCHANGED <<may, employed, active, bot, news, registry, queue, run, flight, history>>
  BY DEF Leave, Turn, Quiet
<1>3. TypeOK'
  BY <1>1, <1>2, BoundsAssumption DEF Inv, TypeOK, registry, queue, history, Smoothly, Standing
<1>4. \A d \in Chats : /\ Out(d, member, missed) => Out(d, member', missed')
                       /\ member'[d] = "banned" => member[d] = "banned"
  BY <1>1, <1>2 DEF Out, registry, Inv, TypeOK
<1>5. ActorsSound'
  <2> SUFFICES ASSUME NEW a \in Actors PROVE Sound(a, run[a], member', missed', trouble')
    BY <1>2 DEF ActorsSound
  <2>1. run[a].saw \subseteq Chats /\ missed' = missed /\ trouble' = trouble
    BY <1>2 DEF Inv, TypeOK, Local, registry, Smoothly
  <2>2. ASSUME a = "row" PROVE RowSound(run[a], member', missed')
    <3>1. RowSound(run[a], member, missed)
      BY <2>2, ActorFacts
    <3> QED
      BY <1>4, <2>1, <3>1 DEF RowSound
  <2>3. BanSound(run[a], member', missed')
    BY <1>4, <2>1, ActorFacts DEF BanSound
  <2>4. LinkSound(run[a], member', missed', trouble')
    BY <1>4, <2>1, ActorFacts DEF LinkSound, Chats
  <2> QED
    BY <2>2, <2>3, <2>4 DEF Sound
<1>6. KeptClosed'
  BY <1>2, <1>4 DEF Inv, TypeOK, KeptClosed, history
<1>7. MissedCounted' /\ RegistrySound'
  BY <1>2, TroubleGrows, MissedKept, RegistryKept DEF Inv, registry
<1>8. LinksCounted'
  BY <1>2, LinksKept DEF Inv, queue, history
<1> QED
  BY <1>3, <1>5, <1>6, <1>7, <1>8 DEF Inv

\* She comes by the channel's link: either it was never closed to her, and nobody
\* takes it for closed any more, or nobody took it for closed.
LEMMA JoinChannelStep ==
    ASSUME Inv, JoinChannel
    PROVE  Inv'
<1> DEFINE unclosed == member[Channel] = "never" \/ Channel \in missed
<1>1. /\ Quiet /\ Smoothly /\ turns < MaxTurns /\ turns' = turns + 1
      /\ run["join"].pc = "idle" /\ member[Channel] \in {"never", "left"}
      /\ member' = [member EXCEPT ![Channel] = "in"]
      /\ kept' = IF unclosed THEN kept \ {Channel} ELSE kept
      /\ run' = [IF unclosed THEN Readmitted(Channel, run) ELSE run
                    EXCEPT !["join"] = [Idle EXCEPT !.pc = "sync"]]
      /\ missed' = IF flight # "none" THEN missed \cup {Channel} ELSE missed
      /\ UNCHANGED <<may, employed, active, bot, news, known, sweep, raced, queue, flight, links, shutOut>>
  BY DEF JoinChannel, Turn, Quiet, At
<1>2. Channel \in Chats /\ "join" \in Actors /\ flight # "join"
  BY <1>1, ActorFacts DEF Chats, Actors
<1>3. \A b \in Actors : run[b] \in Local
  BY DEF Inv, TypeOK
<1>4. run'["join"] = [Idle EXCEPT !.pc = "sync"] /\ run'["join"] \in Local /\ run'["join"].pc = "sync"
  <2>1. run'["join"] = [Idle EXCEPT !.pc = "sync"]
    BY <1>1, <1>2 DEF Readmitted, Inv, TypeOK
  <2> QED
    BY <2>1, IdleLocal DEF Idle, Local, Places
<1>5. ASSUME NEW b \in Actors, b # "join"
      PROVE  /\ run'[b] \in Local /\ run'[b].pc = run[b].pc /\ run'[b].todo = run[b].todo
             /\ run'[b].then = run[b].then /\ run'[b].on = run[b].on /\ run'[b].undone = run[b].undone
             /\ run'[b].failed = run[b].failed /\ run'[b].asks = run[b].asks
             /\ run'[b].saw \subseteq run[b].saw /\ (unclosed => Channel \notin run'[b].saw)
  <2>1. CASE unclosed
    <3>1. run'[b] = [run[b] EXCEPT !.saw = @ \ {Channel}]
      BY <1>1, <1>5, <2>1 DEF Readmitted
    <3> QED
      BY <1>3, <3>1 DEF Local
  <2>2. CASE ~unclosed
    BY <1>1, <1>3, <1>5, <2>2 DEF Inv, TypeOK
  <2> QED
    BY <2>1, <2>2
<1>6. run' \in [Actors -> Local]
  <2>1. \A b \in Actors : run'[b] \in Local
    BY <1>4, <1>5
  <2>2. run' = [b \in Actors |-> run'[b]]
    BY <1>1 DEF Readmitted, Inv, TypeOK
  <2> QED
    BY <2>1, <2>2
<1>7. /\ member' \in [Chats -> Standing] /\ member'[Channel] = "in"
      /\ missed \subseteq missed' /\ missed' \subseteq Chats
      /\ \A d \in Chats : d # Channel /\ Out(d, member, missed) => Out(d, member', missed')
  BY <1>1, <1>2 DEF Inv, TypeOK, Standing, Out
<1>8. ~unclosed => ~Out(Channel, member, missed)
  BY <1>1 DEF Out
<1>9. TypeOK'
  <2>1. flight' # "none" => run'[flight'].pc \in {"chat", "ban"}
    <3>1. flight' = flight /\ flight \in Actors \cup {"none"}
          /\ (flight # "none" => run[flight].pc \in {"chat", "ban"})
      BY <1>1 DEF Inv, TypeOK
    <3> QED
      BY <1>2, <1>5, <3>1
  <2> QED
    BY <1>1, <1>6, <1>7, <2>1, BoundsAssumption DEF Inv, TypeOK, queue, Smoothly
<1> HIDE DEF unclosed
<1>10. ActorsSound'
  <2> SUFFICES ASSUME NEW b \in Actors PROVE Sound(b, run'[b], member', missed', trouble')
    BY DEF ActorsSound
  <2>1. CASE b = "join"
    BY <1>4, <2>1 DEF Sound, BanSound, LinkSound
  <2>2. CASE b # "join"
    <3>1. /\ run'[b].pc = run[b].pc /\ run'[b].todo = run[b].todo /\ run'[b].then = run[b].then
          /\ run'[b].on = run[b].on /\ run'[b].failed = run[b].failed /\ run'[b].asks = run[b].asks
          /\ run'[b].saw \subseteq run[b].saw /\ (unclosed => Channel \notin run'[b].saw)
      BY <1>5, <2>2
    <3>2. \A d \in run'[b].saw : Out(d, member, missed) => Out(d, member', missed')
      BY <1>3, <1>7, <1>8, <3>1 DEF Local
    <3>3. ASSUME b = "row" PROVE RowSound(run'[b], member', missed')
      <4>1. RowSound(run[b], member, missed)
        BY <3>3, ActorFacts
      <4> QED
        BY <3>1, <3>2, <4>1 DEF RowSound
    <3>4. BanSound(run'[b], member', missed')
      <4>1. BanSound(run[b], member, missed)
        BY ActorFacts
      <4> QED
        BY <1>7, <3>1, <3>2, <4>1 DEF BanSound
    <3>5. LinkSound(run'[b], member', missed', trouble')
      BY <1>7 DEF LinkSound
    <3> QED
      BY <3>3, <3>4, <3>5 DEF Sound
  <2> QED
    BY <2>1, <2>2
<1>11. KeptClosed'
  BY <1>1, <1>7, <1>8 DEF Inv, TypeOK, KeptClosed
<1>12. MissedCounted' /\ RegistrySound'
  BY <1>1, <1>7, TroubleGrows, RegistryKept DEF Inv, MissedCounted
<1>13. LinksCounted'
  <2>1. run'["row"].pc = run["row"].pc /\ run'["row"].failed = run["row"].failed
    BY <1>5 DEF Actors
  <2> QED
    BY <1>1, <2>1, LinksKept DEF Inv, queue
<1> QED
  BY <1>9, <1>10, <1>11, <1>12, <1>13 DEF Inv

---------------------------------------------------------------------------
(* The registry.  Nothing here moves her, or an actor; what is missed grows. *)

LEMMA RegistryMoves ==
    ASSUME Inv, Quiet, UNCHANGED <<may, employed, active, member, queue, run, flight, history>>,
           missed \subseteq missed', TypeOK'
    PROVE  ActorsSound' /\ KeptClosed' /\ LinksCounted'
<1>1. ActorsSound'
  BY NobodyMoves
<1>2. KeptClosed'
  BY DEF Inv, KeptClosed, Out, history
<1>3. LinksCounted'
  BY LinksKept DEF Inv, queue, history
<1> QED
  BY <1>1, <1>2, <1>3

LEMMA Appended ==
    ASSUME NEW S, NEW q \in Seq(S), NEW e \in S
    PROVE  Append(q, e) \in Seq(S) /\ Append(q, e) # << >> /\ Append(q, e)[Len(Append(q, e))] = e
<1>1. Append(q, e) \in Seq(S) /\ Len(Append(q, e)) = Len(q) + 1 /\ Append(q, e)[Len(q) + 1] = e
  OBVIOUS
<1>2. Len(q) + 1 # 0
  OBVIOUS
<1> QED
  BY <1>1, <1>2

\* The last of what is left is the last, unless the head was.
LEMMA Tailed ==
    ASSUME NEW S, NEW q \in Seq(S), q # << >>
    PROVE  /\ Tail(q) \in Seq(S)
           /\ Tail(q) # << >> => Tail(q)[Len(Tail(q))] = q[Len(q)]
           /\ Tail(q) = << >> => Head(q) = q[Len(q)]
<1>1. Len(q) \in Nat \ {0} /\ Tail(q) \in Seq(S) /\ Len(Tail(q)) = Len(q) - 1
  OBVIOUS
<1>2. \A i \in 1..(Len(q) - 1) : Tail(q)[i] = q[i + 1]
  OBVIOUS
<1>3. Tail(q) # << >> => Len(Tail(q)) \in 1..(Len(q) - 1)
  BY <1>1
<1>4. Tail(q) = << >> => Len(q) = 1
  <2>1. Len(<< >>) = 0
    OBVIOUS
  <2>2. ASSUME Tail(q) = << >> PROVE Len(Tail(q)) = 0
    BY <2>1, <2>2
  <2> QED
    BY <1>1, <2>2
<1> QED
  BY <1>1, <1>2, <1>3, <1>4

LEMMA BotMovesStep ==
    ASSUME Inv, BotMoves
    PROVE  Inv'
<1>1. PICK c \in Groups, s \in {"admin", "member", "out"} :
        /\ bot' = [bot EXCEPT ![c] = s]
        /\ news' = [news EXCEPT ![c] = Append(@, s)]
  BY DEF BotMoves
<1>2. /\ Quiet /\ Smoothly /\ turns < MaxTurns /\ turns' = turns + 1
      /\ UNCHANGED <<may, employed, active, member, registry, queue, run, flight, history>>
  BY DEF BotMoves, Turn, Quiet
<1>3. c \in Chats /\ c # Channel /\ news[c] \in Seq({"admin", "member", "out"})
  BY ChannelIsNoGroup DEF Chats, Inv, TypeOK
<1> DEFINE q == Append(news[c], s)
<1>4. q \in Seq({"admin", "member", "out"}) /\ q # << >> /\ q[Len(q)] = s
  BY <1>3, Appended
<1>5. /\ news'[c] = q /\ bot'[c] = s
      /\ \A d \in Chats : d # c => news'[d] = news[d] /\ bot'[d] = bot[d]
  BY <1>1, <1>3 DEF Inv, TypeOK
<1> HIDE DEF q
<1>6. /\ news' \in [Chats -> Seq({"admin", "member", "out"})]
      /\ bot' \in [Chats -> {"admin", "member", "out"}]
  BY <1>1, <1>3, <1>4 DEF Inv, TypeOK, q
<1>7. TypeOK'
  BY <1>2, <1>6, BoundsAssumption DEF Inv, TypeOK, registry, queue, history, Smoothly
<1>8. MissedCounted'
  BY <1>2, <1>3, <1>5 DEF Inv, MissedCounted, registry, Chats
<1>9. RegistrySound'
  <2>1. NewsSound'
    BY <1>4, <1>5 DEF Inv, RegistrySound, NewsSound
  <2>2. ASSUME NEW d \in Chats PROVE Recorded(d)'
    <3>1. CASE d = c
      BY <1>4, <1>5, <3>1 DEF Recorded
    <3>2. CASE d # c
      <4>1. Recorded(d) /\ news'[d] = news[d] /\ bot'[d] = bot[d]
        BY <1>5, <3>2 DEF Inv, RegistrySound
      <4> QED
        BY <1>2, <4>1 DEF Recorded, Known, Found, Seeds, Happened, registry, Smoothly
    <3> QED
      BY <3>1, <3>2
  <2> QED
    BY <2>1, <2>2 DEF RegistrySound
<1> QED
  BY <1>2, <1>7, <1>8, <1>9, RegistryMoves DEF Inv, registry

\* A write of one chat's row.
LEMMA Recording ==
    ASSUME TypeOK, NEW c \in Chats, NEW s \in {"active", "untyped", "lost"},
           \/ known' = [known EXCEPT ![c] = s]
           \/ known' = [known EXCEPT ![c] = IF @ = "absent" THEN @ ELSE s]
    PROVE  /\ known' \in [Chats -> {"absent", "active", "untyped", "lost"}]
           /\ \A d \in Chats : d # c => known'[d] = known[d]
BY ZenonT(30) DEF TypeOK

LEMMA HandleMyChatMemberStep ==
    ASSUME Inv, HandleMyChatMember
    PROVE  Inv'
<1>1. PICK c \in Chats :
        /\ news[c] # << >>
        /\ known' = IF Head(news[c]) = "out" THEN RecordLost(c) ELSE RecordPresent(c)
        /\ news' = [news EXCEPT ![c] = Tail(@)] /\ Watched
        /\ raced' = IF sweep.on = c /\ sweep.verdict # "none" THEN raced \cup {c} ELSE raced \ {c}
        /\ Smoothly /\ Quiet
        /\ UNCHANGED <<may, employed, turns, bot, active, member, sweep, queue, run, flight, history>>
  BY DEF HandleMyChatMember, Quiet
<1>2. news[c] \in Seq({"admin", "member", "out"}) /\ news[c] # << >>
  BY <1>1 DEF Inv, TypeOK
<1>3. /\ Tail(news[c]) \in Seq({"admin", "member", "out"})
      /\ Tail(news[c]) # << >> => Tail(news[c])[Len(Tail(news[c]))] = news[c][Len(news[c])]
      /\ Tail(news[c]) = << >> => Head(news[c]) = news[c][Len(news[c])]
  BY <1>2, Tailed
<1>4. news'[c] = Tail(news[c]) /\ \A d \in Chats : d # c => news'[d] = news[d]
  BY <1>1 DEF Inv, TypeOK
<1>5. /\ known' \in [Chats -> {"absent", "active", "untyped", "lost"}]
      /\ \A d \in Chats : d # c => known'[d] = known[d]
      /\ Head(news[c]) # "out" => known'[c] = "active"
  <2>1. CASE Head(news[c]) = "out"
    BY <1>1, <2>1, Recording DEF Inv, RecordLost
  <2>2. CASE Head(news[c]) # "out"
    BY <1>1, <2>2, Recording DEF Inv, TypeOK, RecordPresent
  <2> QED
    BY <2>1, <2>2
<1>6. missed' = missed \cup {d \in Chats : known'[d] # "active"}
  BY <1>1 DEF Watched
<1>7. news' \in [Chats -> Seq({"admin", "member", "out"})]
  BY <1>1, <1>3 DEF Inv, TypeOK
<1>8. TypeOK'
  BY <1>1, <1>5, <1>6, <1>7 DEF Inv, TypeOK, queue, history, Smoothly
<1>9. MissedCounted'
  BY <1>1, <1>6 DEF Inv, MissedCounted
<1>10. RegistrySound'
  <2>1. NewsSound'
    BY <1>1, <1>3, <1>4 DEF Inv, RegistrySound, NewsSound
  <2>2. ASSUME NEW d \in Chats PROVE Recorded(d)'
    <3>1. CASE d = c
      <4>1. c \notin raced' => ~(sweep.on = c /\ sweep.verdict # "none")
        BY <1>1
      <4>2. news'[c] = << >> /\ bot[c] = "admin" => known'[c] = "active"
        BY <1>1, <1>3, <1>4, <1>5 DEF Inv, RegistrySound, NewsSound
      <4> QED
        BY <1>1, <3>1, <4>1, <4>2 DEF Recorded, Known, Found
    <3>2. CASE d # c
      <4>1. Recorded(d) /\ news'[d] = news[d] /\ known'[d] = known[d] /\ (d \in raced <=> d \in raced')
        BY <1>1, <1>4, <1>5, <3>2 DEF Inv, RegistrySound
      <4> QED
        BY <1>1, <4>1 DEF Recorded, Known, Found, Seeds, Happened, Smoothly
    <3> QED
      BY <3>1, <3>2
  <2> QED
    BY <2>1, <2>2 DEF RegistrySound
<1> QED
  BY <1>1, <1>6, <1>8, <1>9, <1>10, RegistryMoves DEF Inv

\* The registry's list is swept, and whatever the bot knows of itself.
LEMMA SweepStartStep ==
    ASSUME Inv, SweepStart
    PROVE  Inv'
<1>1. /\ Quiet /\ sweep.due
      /\ Trouble("blip") \/ (Smoothly /\ sweep' = [NoSweep EXCEPT !.todo = Known \cup Seeds, !.listed = Known])
      /\ UNCHANGED <<world, active, member, known, raced, missed, queue, run, flight, history>>
  BY DEF SweepStart, Quiet, Troubles
<1>2. /\ sweep' \in Sweeps /\ ~sweep'.due /\ sweep'.verdict = "none"
      /\ Smoothly => Seeds \subseteq sweep'.todo
  <2>1. Known \subseteq Chats /\ Seeds \subseteq Chats /\ Channel \in Chats
    BY DEF Known, Seeds, Chats
  <2>2. CASE sweep' = NoSweep /\ Trouble("blip")
    BY <2>1, <2>2, TroubleGrows DEF NoSweep, Sweeps, Smoothly, Trouble, Inv, TypeOK
  <2>3. CASE sweep' = [NoSweep EXCEPT !.todo = Known \cup Seeds, !.listed = Known]
    BY <2>1, <2>3 DEF NoSweep, Sweeps
  <2> QED
    BY <2>2, <2>3 DEF SweepStart
<1>3. TypeOK'
  BY <1>1, <1>2, TroubleGrows DEF Inv, TypeOK, Sweeps, world, queue, history
<1>4. MissedCounted'
  BY <1>1, MissedKept DEF Inv, world
<1>5. RegistrySound'
  <2>1. NewsSound'
    BY <1>1 DEF Inv, RegistrySound, NewsSound, world
  <2>2. CASE Trouble("blip")
    <3>1. Len(trouble) + 1 \in DOMAIN trouble' /\ trouble'[Len(trouble) + 1] = "blip"
      BY <2>2 DEF Trouble, Inv, TypeOK
    <3>2. Happened("blip")'
      BY <3>1 DEF Happened
    <3> QED
      BY <2>1, <3>2 DEF RegistrySound, Recorded
  <2>3. CASE Smoothly
    <3> SUFFICES ASSUME NEW c \in Chats PROVE Recorded(c)'
      BY <2>1 DEF RegistrySound
    <3>1. Recorded(c)
      BY DEF Inv, RegistrySound
    <3> QED
      BY <1>1, <1>2, <2>3, <3>1 DEF Recorded, Known, Found, Seeds, Happened, Smoothly, world
  <2> QED
    BY <1>1, <2>2, <2>3
<1> QED
  BY <1>1, <1>3, <1>4, <1>5, RegistryMoves DEF Inv, world

LEMMA SweepReadStep ==
    ASSUME Inv, SweepRead
    PROVE  Inv'
<1>1. PICK c \in sweep.todo, verdict \in {"present", "untyped", "lost"} :
        /\ sweep.verdict = "none" /\ Quiet
        /\ Finds(c, verdict)
        /\ Trouble("blip") \/ verdict = IF bot[c] = "admin" THEN "present" ELSE "lost"
        /\ UNCHANGED <<world, active, member, known, raced, missed, queue, run, flight, history>>
  BY DEF SweepRead, Quiet, Troubles
<1>2. c \in Chats
  BY DEF Inv, TypeOK, Sweeps
<1>3. sweep' \in Sweeps
      /\ sweep'.todo = sweep.todo \ {c} /\ sweep'.on = c /\ sweep'.verdict = verdict /\ sweep'.due = sweep.due
  BY <1>1, <1>2 DEF Inv, TypeOK, Sweeps, Finds
<1>4. TypeOK'
  BY <1>1, <1>3, TroubleGrows DEF Inv, TypeOK, Sweeps, world, queue, history
<1>5. MissedCounted'
  BY <1>1, MissedKept DEF Inv, world
<1>6. RegistrySound'
  <2>1. NewsSound'
    BY <1>1 DEF Inv, RegistrySound, NewsSound, world
  <2>2. Happened("blip") => Happened("blip")'
    BY <1>1, TroubleGrows DEF Inv
  <2>3. Trouble("blip") => Happened("blip")'
    <3>1. ASSUME Trouble("blip") PROVE Happened("blip")'
      <4>1. Len(trouble) + 1 \in DOMAIN trouble' /\ trouble'[Len(trouble) + 1] = "blip"
        BY <3>1 DEF Trouble, Inv, TypeOK
      <4> QED
        BY <4>1 DEF Happened
    <3> QED
      BY <3>1
  <2>4. Recorded(c)
    BY <1>2 DEF Inv, RegistrySound
  <2>5. ASSUME NEW d \in Chats PROVE Recorded(d)'
    <3>1. CASE d = c
      BY <1>1, <1>3, <2>2, <2>3, <3>1, <2>4 DEF Recorded, Known, Found, Seeds, world
    <3>2. CASE d # c
      <4>1. Recorded(d)
        BY DEF Inv, RegistrySound
      <4> QED
        BY <1>1, <1>3, <2>2, <3>2, <4>1 DEF Recorded, Known, Found, Seeds, world
    <3> QED
      BY <3>1, <3>2
  <2> QED
    BY <2>1, <2>5 DEF RegistrySound
<1> QED
  BY <1>1, <1>4, <1>5, <1>6, RegistryMoves DEF Inv, world

LEMMA SweepWriteStep ==
    ASSUME Inv, SweepWrite
    PROVE  Inv'
<1> DEFINE c == sweep.on
<1>1. /\ sweep.verdict # "none" /\ Watched /\ Smoothly /\ Quiet
      /\ sweep' = [sweep EXCEPT !.verdict = "none"]
      /\ UNCHANGED <<world, active, member, raced, queue, run, flight, history>>
  BY DEF SweepWrite, Quiet
<1>2. c \in Chats /\ sweep.verdict \in {"present", "untyped", "lost"}
  BY <1>1 DEF Inv, TypeOK, Sweeps
<1>3. /\ known' \in [Chats -> {"absent", "active", "untyped", "lost"}]
      /\ \A d \in Chats : d # c => known'[d] = known[d]
      /\ sweep.verdict = "present" => known'[c] = "active"
  <2>1. CASE sweep.verdict = "present"
    <3>1. known' = RecordPresent(c)
      BY <2>1 DEF SweepWrite
    <3> QED
      BY <1>2, <3>1, Recording DEF Inv, TypeOK, RecordPresent
  <2>2. CASE sweep.verdict = "untyped"
    <3>1. known' = [known EXCEPT ![c] = "untyped"]
      BY <2>2 DEF SweepWrite
    <3> QED
      BY <1>2, <2>2, <3>1, Recording DEF Inv
  <2>3. CASE sweep.verdict = "lost"
    <3>1. known' = RecordLost(c) \/ known' = known
      BY <2>3 DEF SweepWrite
    <3>2. CASE known' = RecordLost(c)
      BY <1>2, <2>3, <3>2, Recording DEF Inv, RecordLost
    <3>3. CASE known' = known
      BY <2>3, <3>3 DEF Inv, TypeOK
    <3> QED
      BY <3>1, <3>2, <3>3
  <2> QED
    BY <1>2, <2>1, <2>2, <2>3
<1>4. /\ sweep' \in Sweeps
      /\ sweep'.todo = sweep.todo /\ sweep'.on = c /\ sweep'.verdict = "none" /\ sweep'.due = sweep.due
  BY <1>1 DEF Inv, TypeOK, Sweeps
<1>5. missed' = missed \cup {d \in Chats : known'[d] # "active"}
  BY <1>1 DEF Watched
<1>6. TypeOK'
  BY <1>1, <1>3, <1>4, <1>5 DEF Inv, TypeOK, Sweeps, world, queue, history, Smoothly
<1>7. MissedCounted'
  BY <1>1, <1>5 DEF Inv, MissedCounted, world
<1>8. RegistrySound'
  <2>1. NewsSound'
    BY <1>1 DEF Inv, RegistrySound, NewsSound, world
  <2>2. ASSUME NEW d \in Chats PROVE Recorded(d)'
    <3>1. Recorded(d)
      BY DEF Inv, RegistrySound
    <3>2. CASE d = c
      BY <1>1, <1>3, <1>4, <3>1, <3>2 DEF Recorded, Known, Found, Seeds, Happened, world, Smoothly
    <3>3. CASE d # c
      BY <1>1, <1>3, <1>4, <3>1, <3>3 DEF Recorded, Known, Found, Seeds, Happened, world, Smoothly
    <3> QED
      BY <3>2, <3>3
  <2> QED
    BY <2>1, <2>2 DEF RegistrySound
<1> QED
  BY <1>1, <1>5, <1>6, <1>7, <1>8, RegistryMoves DEF Inv, world

\* Everything is to be swept again, and the row in hand is offered again.
LEMMA RestartStep ==
    ASSUME Inv, Restart
    PROVE  Inv'
<1>1. /\ Trouble("crash") /\ Quiet
      /\ run' = [a \in Actors |-> Idle] /\ flight' = "none" /\ batch' = {}
      /\ sweep' = [NoSweep EXCEPT !.due = TRUE]
      /\ UNCHANGED <<world, active, member, known, raced, missed, rows, history>>
  BY DEF Restart, Quiet, Troubles, NoSweep
<1>2. sweep' \in Sweeps
  BY <1>1 DEF NoSweep, Chats, Sweeps
<1>3. TypeOK'
  BY <1>1, <1>2, IdleLocal, TroubleGrows DEF Inv, TypeOK, Sweeps, world, history
<1>4. ActorsSound'
  BY <1>1 DEF ActorsSound, Sound, RowSound, BanSound, LinkSound, Early, Idle
<1>5. KeptClosed' /\ MissedCounted'
  BY <1>1, KeptKept, MissedKept DEF Inv, world, history
<1>6. RegistrySound'
  <2>1. NewsSound'
    BY <1>1 DEF Inv, RegistrySound, NewsSound, world
  <2>2. Happened("blip") => Happened("blip")'
    BY <1>1, TroubleGrows DEF Inv
  <2>3. ASSUME NEW c \in Chats PROVE Recorded(c)'
    <3>1. Recorded(c)
      BY DEF Inv, RegistrySound
    <3>2. sweep'.due /\ sweep'.verdict = "none"
      BY <1>1 DEF NoSweep
    <3> QED
      BY <1>1, <2>2, <3>1, <3>2 DEF Recorded, Known, Found, Seeds, world
  <2> QED
    BY <2>1, <2>3 DEF RegistrySound
<1>7. LinksCounted'
  <2> SUFFICES ASSUME NEW i \in 1..MaxTurns
               PROVE  links'[i] <= Cardinality(Repeated') + (IF Linked(i)' THEN 1 ELSE 0)
    BY <1>1 DEF LinksCounted
  <2>1. links' = links /\ links[i] \in Nat /\ links[i] <= Cardinality(Repeated) + (IF Linked(i) THEN 1 ELSE 0)
    BY <1>1 DEF Inv, TypeOK, LinksCounted, history
  <2>2. Cardinality(Repeated) \in Nat /\ Cardinality(Repeated') = Cardinality(Repeated) + 1
    BY <1>1, RepeatedFinite, RepeatedOnce DEF Inv
  <2> QED
    BY <2>1, <2>2
<1> QED
  BY <1>3, <1>4, <1>5, <1>6, <1>7 DEF Inv

---------------------------------------------------------------------------
(* The theorems.                                                           *)

LEMMA InitInv == ASSUME Init PROVE Inv
<1>1. TypeOK
  <2>1. member \in [Chats -> Standing] /\ known \in [Chats -> {"absent", "active", "untyped", "lost"}]
    BY DEF Init, Standing
  <2>2. bot \in [Chats -> {"admin", "member", "out"}] /\ news \in [Chats -> Seq({"admin", "member", "out"})]
    BY DEF Init
  <2>3. sweep \in Sweeps
    <3>1. NoSweep \in Sweeps /\ ("sweep" \in may) \in BOOLEAN
      BY DEF NoSweep, Sweeps, Chats
    <3> QED
      BY <3>1 DEF Init, Sweeps
  <2>4. run \in [Actors -> Local] /\ links \in [1..MaxTurns -> Nat]
    BY IdleLocal DEF Init
  <2>5. /\ rows \in Seq([kind : {"REVOKE", "RESTORE"}, status : {"PENDING", "PROCESSED"}]) /\ Len(rows) = 0
        /\ trouble \in Seq(Troubles) /\ Len(trouble) = 0
    BY DEF Init
  <2>6. turns \in 0..MaxTurns /\ Len(rows) <= turns /\ Len(trouble) <= MaxTrouble
    BY <2>5, BoundsAssumption DEF Init
  <2>7. /\ employed \in BOOLEAN /\ active \in BOOLEAN /\ shutOut \in BOOLEAN /\ flight = "none"
        /\ batch \subseteq DOMAIN rows /\ kept \subseteq Chats /\ raced \subseteq Chats /\ missed \subseteq Chats
    BY DEF Init
  <2> QED
    BY <2>1, <2>2, <2>3, <2>4, <2>5, <2>6, <2>7 DEF TypeOK, Sweeps
<1>2. ActorsSound
  BY DEF Init, ActorsSound, Sound, RowSound, BanSound, LinkSound, Early, Idle
<1>3. KeptClosed /\ MissedCounted
  BY DEF Init, KeptClosed, MissedCounted, Chats
<1>4. RegistrySound
  BY DEF Init, RegistrySound, NewsSound, Recorded, Known, Found, NoSweep
<1>5. LinksCounted
  <2>1. Cardinality(Repeated) \in Nat
    BY <1>1, RepeatedFinite
  <2> QED
    BY <2>1 DEF Init, LinksCounted
<1> QED
  BY <1>1, <1>2, <1>3, <1>4, <1>5 DEF Inv

LEMMA NextInv == ASSUME Inv, [Next]_vars PROVE Inv'
<1>1. CASE UNCHANGED vars
  BY <1>1 DEF vars, Inv, TypeOK, ActorsSound, KeptClosed, MissedCounted, RegistrySound, NewsSound,
      Recorded, Known, Found, Seeds, Happened, LinksCounted, Linked, Oldest, Repeated
<1>2. ASSUME NEW a \in Actors, Calls(a) PROVE Inv'
  BY <1>2, SyncUserAccessStep, CreateInviteLinkStep, ReadScopeStep, UnbanStep, UnbannedStep, MakeLinkStep,
     SendLinkStep, RevokeAccessStep, CheckPresenceStep, BanStep, RevokedStep DEF Calls
<1>3. CASE Dispatch
  BY <1>3, FetchRowsStep, ProcessRowStep, ReportRowStep DEF Dispatch
<1>4. CASE Watch
  BY <1>4, HandleMyChatMemberStep, SweepStartStep, SweepReadStep, SweepWriteStep DEF Watch
<1>5. CASE UpdateProfile \/ ChangeEmployment \/ Leave \/ JoinChannel \/ BotMoves \/ Restart
  BY <1>5, UpdateProfileStep, ChangeEmploymentStep, LeaveStep, JoinChannelStep, BotMovesStep, RestartStep
<1> QED
  BY <1>1, <1>2, <1>3, <1>4, <1>5 DEF Next

\* The state keeps its shape, and what the actors, the queue and the registry
\* know of her stays true.
THEOREM AccessInvariant == Spec => []Inv
BY InitInv, NextInv, PTL DEF Spec

\* Where a processed revocation looked she is not, nor can she come back to the
\* channel by its link, until somebody lets her in again.
THEOREM RevokedStaysOut == Spec => []RevokedIsOut
<1>1. Inv => RevokedIsOut
  BY DEF Inv, KeptClosed, Out, RevokedIsOut
<1> QED
  BY <1>1, AccessInvariant, PTL

\* A link that is sent opens the channel, and a row has one link but for the
\* marks that were lost and the crashes.
THEOREM LinksStayGood == Spec => []LinksAreGood
<1>1. Inv => LinkOpens
  BY DEF Inv, ActorsSound, Sound, LinkSound, LinkOpens, At, Happened
<1>2. ASSUME Inv PROVE OneLinkPerRow
  <2> SUFFICES ASSUME NEW i \in DOMAIN rows PROVE links[i] <= 1 + Cardinality(Repeated)
    BY DEF OneLinkPerRow
  <2>1. i \in 1..MaxTurns
    BY <1>2, BoundsAssumption DEF Inv, TypeOK
  <2>2. links[i] \in Nat /\ Cardinality(Repeated) \in Nat
        /\ links[i] <= Cardinality(Repeated) + (IF Linked(i) THEN 1 ELSE 0)
    BY <1>2, <2>1, RepeatedFinite DEF Inv, TypeOK, LinksCounted
  <2> QED
    BY <2>2
<1>3. Inv => LinksAreGood
  BY <1>1, <1>2 DEF Inv, LinksAreGood
<1> QED
  BY <1>3, AccessInvariant, PTL

\* Once the updates and the sweep are through, the registry has the chats that
\* the bot administers.
THEOREM RegistryStaysTrue == Spec => []RegistryIsTrue
<1>1. Inv => RegistryIsTrue
  BY DEF Inv, RegistrySound, Recorded, Found, RegistryIsTrue
<1> QED
  BY <1>1, AccessInvariant, PTL
=============================================================================
