------------------------------ MODULE ChannelAccess ------------------------------
(***************************************************************************)
(* Who may be in the team channel and the chats of the locations: one      *)
(* employee, the registry of the chats the bot is in, and                  *)
(*   "row"   access-revocation-dispatcher.ts, the web app's queue          *)
(*   "sync"  staff-repository.ts, after her profile is switched on or off  *)
(*   "join"  handlers/access.ts, after she has joined the channel          *)
(* which revoke and restore by access-service.ts, call by call.            *)
(***************************************************************************)
EXTENDS Naturals, Sequences, FiniteSets

CONSTANTS
    Channel,        \* the team channel, which has a permanent link
    Groups,         \* chats where somebody lets her in: of locations, or others
    Scenes,         \* what may happen, to choose from
    MaxTurns,       \* changes of her employment and of the bot's chats
    MaxTrouble

Chats == {Channel} \cup Groups
Actors == {"row", "sync", "join"}

VARIABLES
    may,        \* the events of this behaviour
    employed,   \* what the web app says
    active,     \* staffProfile.isActive
    member,     \* her standing in each chat, in Telegram
    bot,        \* the bot's own
    news,       \* my_chat_member updates to come, by chat
    known,      \* the KnownChat rows
    sweep,      \* reconcileKnownChats at the start
    rows,       \* the web app's queue
    batch,      \* the rows that the pass under way has still to do, oldest first
    run,        \* the local variables of each actor
    flight,     \* revokeInFlight: the actor whose revocation is shared
    links,      \* one-time links made for each row (history)
    kept,       \* chats a processed revocation has closed to her (history)
    raced,      \* chats whose news crossed the sweep (history)
    missed,     \* chats a revocation may have overlooked (history): the registry
                \* had not got them or their kind, or she came while one ran
    shutOut,    \* she was banned though employed again with no row to restore
                \* her, or an unban was refused (history)
    turns, trouble
vars == <<may, employed, active, member, bot, news, known, sweep, rows, batch, run, flight, links, kept, raced, missed, shutOut, turns, trouble>>

Events == {"staff", "leave", "never", "join", "bot", "sweep", "location"}
Troubles == {"telegram", "registry", "ack", "blip", "crash"}
ASSUME ScenesAreEvents == Scenes \subseteq SUBSET (Events \cup Troubles)
ASSUME BoundsAssumption == MaxTurns \in Nat /\ MaxTrouble \in Nat
ASSUME ChannelIsNoGroup == Channel \notin Groups
Standing == {"never", "in", "left", "banned"}
Idle == [pc |-> "idle", todo |-> {}, on |-> Channel, asks |-> {}, saw |-> {}, failed |-> FALSE, undone |-> FALSE, then |-> "none"]
NoSweep == [due |-> FALSE, todo |-> {}, listed |-> {}, on |-> Channel, verdict |-> "none"]
Known == {c \in Chats : known[c] \in {"active", "untyped"}}
\* The chats that the bot knows of outside the registry (seedChatIds).
Seeds == {Channel} \cup (IF "location" \in may THEN Groups ELSE {})
Pending == {i \in DOMAIN rows : rows[i].status = "PENDING"}
Trouble(k) == k \in may /\ Len(trouble) < MaxTrouble /\ trouble' = Append(trouble, k)
Happened(k) == \E i \in DOMAIN trouble : trouble[i] = k
Smoothly == UNCHANGED trouble
Oldest(i) == i \in batch /\ \A j \in batch : i <= j
world == <<may, employed, turns, bot, news>>
registry == <<known, sweep, raced, missed>>
history == <<links, kept, shutOut>>
queue == <<rows, batch>>

Places == {"idle", "sync", "invite", "revoke", "wait", "chat", "ban", "scope", "unban", "link", "send", "ack"}
Local == [pc : Places, todo : SUBSET Chats, on : Chats, asks : SUBSET Chats, saw : SUBSET Chats,
          failed : BOOLEAN, undone : BOOLEAN, then : {"none", "invite", "link", "ack"}]
Sweeps == [due : BOOLEAN, todo : SUBSET Chats, listed : SUBSET Chats, on : Chats,
           verdict : {"none", "present", "untyped", "lost"}]

TypeOK ==
    /\ employed \in BOOLEAN /\ active \in BOOLEAN
    /\ member \in [Chats -> Standing]
    /\ bot \in [Chats -> {"admin", "member", "out"}]
    /\ news \in [Chats -> Seq({"admin", "member", "out"})]
    /\ known \in [Chats -> {"absent", "active", "untyped", "lost"}]
    /\ sweep \in Sweeps
    /\ rows \in Seq([kind : {"REVOKE", "RESTORE"}, status : {"PENDING", "PROCESSED"}])
    /\ batch \subseteq DOMAIN rows
    /\ run \in [Actors -> Local]
    /\ flight \in Actors \cup {"none"}
    /\ flight # "none" => run[flight].pc \in {"chat", "ban"}
    /\ links \in [1..MaxTurns -> Nat]
    /\ kept \subseteq Chats /\ raced \subseteq Chats /\ missed \subseteq Chats
    /\ shutOut \in BOOLEAN
    /\ turns \in 0..MaxTurns /\ Len(rows) <= turns
    /\ trouble \in Seq(Troubles) /\ Len(trouble) <= MaxTrouble

Init ==
    /\ may \in Scenes
    /\ employed = TRUE /\ active = TRUE
    /\ member = [c \in Chats |-> IF "never" \in may /\ c = Channel THEN "never" ELSE "in"]
    /\ bot = [c \in Chats |-> "admin"]
    /\ news = [c \in Chats |-> << >>]
    /\ known = [c \in Chats |-> IF "sweep" \in may THEN "absent" ELSE "active"]
    /\ sweep = [NoSweep EXCEPT !.due = "sweep" \in may]
    /\ rows = << >> /\ batch = {}
    /\ run = [a \in Actors |-> Idle]
    /\ flight = "none"
    /\ links = [i \in 1..MaxTurns |-> 0]
    /\ kept = {} /\ raced = {} /\ shutOut = FALSE
    /\ missed = IF "sweep" \in may THEN Chats ELSE {}
    /\ turns = 0 /\ trouble = << >>

At(a, pc) == run[a].pc = pc
Set(a, local) == run' = [run EXCEPT ![a] = local]
Goto(a, pc) == Set(a, [run[a] EXCEPT !.pc = pc])

\* What an actor does when the access has been revoked or restored.
Onward(local) ==
    CASE local.then = "ack" -> [local EXCEPT !.pc = "ack", !.todo = {}]
      [] local.then = "invite" -> [local EXCEPT !.pc = "invite", !.then = "link", !.todo = {}]
      [] OTHER -> Idle

-----------------------------------------------------------------------------
(* syncUserAccess and createInviteLink *)

\* isAuthorized of an employee: her profile is active.
SyncUserAccess(a) ==
    /\ At(a, "sync")
    /\ Goto(a, IF active THEN "scope" ELSE "revoke")
    /\ Smoothly
    /\ UNCHANGED <<world, active, member, registry, queue, flight, history>>

CreateInviteLink(a) ==
    /\ At(a, "invite")
    /\ IF active THEN Goto(a, "scope") ELSE Set(a, Onward(run[a]))
    /\ Smoothly
    /\ UNCHANGED <<world, active, member, registry, queue, flight, history>>

\* Somebody or something lets her into c again.
Readmitted(c, locals) == [a \in Actors |-> [locals[a] EXCEPT !.saw = @ \ {c}]]

Makes(local) == local.then # "none" /\ local.then # "invite"

\* Mutant: what cannot be looked up is taken for nothing to lift.
ReadScopeAnyway(a) ==
    /\ At(a, "scope")
    /\ \/ Smoothly /\ Set(a, [run[a] EXCEPT !.pc = "unban", !.todo = Known])
       \/ Trouble("registry") /\ Set(a, [run[a] EXCEPT !.pc = "unban", !.todo = {}])
    /\ UNCHANGED <<world, active, member, registry, queue, flight, history>>

\* Mutant: only the channel is opened again.
ReadScopeOfChannel(a) ==
    /\ At(a, "scope")
    /\ \/ Known # {} /\ Smoothly /\ Set(a, [run[a] EXCEPT !.pc = "unban", !.todo = {Channel}])
       \/ Known = {} /\ Smoothly /\ Set(a, Onward([run[a] EXCEPT !.failed = TRUE]))
       \/ Trouble("registry") /\ Set(a, Onward([run[a] EXCEPT !.failed = TRUE]))
    /\ UNCHANGED <<world, active, member, registry, queue, flight, history>>

\* clearProtectedChatBan: a registry that cannot be read, or is empty, says
\* nothing of where she is banned.
ReadScope(a) ==
    /\ At(a, "scope")
    /\ \/ Known # {} /\ Smoothly /\ Set(a, [run[a] EXCEPT !.pc = "unban", !.todo = Known])
       \/ Known = {} /\ Smoothly /\ Set(a, Onward([run[a] EXCEPT !.failed = TRUE]))
       \/ Trouble("registry") /\ Set(a, Onward([run[a] EXCEPT !.failed = TRUE]))
    /\ UNCHANGED <<world, active, member, registry, queue, flight, history>>

\* A chat that refuses is only logged.
Unban(a) ==
    \E c \in run[a].todo :
        /\ At(a, "unban")
        /\ \/ /\ bot[c] = "admin" /\ Smoothly
              /\ member' = [member EXCEPT ![c] = IF @ = "banned" THEN "left" ELSE @]
              /\ UNCHANGED shutOut
           \/ /\ bot[c] # "admin" /\ Smoothly
              /\ shutOut' = TRUE /\ UNCHANGED member
           \/ /\ Trouble("telegram")
              /\ shutOut' = TRUE /\ UNCHANGED member
        /\ kept' = kept \ {c}
        /\ run' = Readmitted(c, [run EXCEPT ![a].todo = @ \ {c}])
        /\ UNCHANGED <<world, active, registry, queue, flight, links>>

Unbanned(a) ==
    /\ At(a, "unban") /\ run[a].todo = {}
    /\ IF Makes(run[a]) THEN Goto(a, "link") ELSE Set(a, Onward(run[a]))
    /\ Smoothly
    /\ UNCHANGED <<world, active, member, registry, queue, flight, history>>

\* A link that cannot be made reads as no authorization.
MakeLink(a) ==
    /\ At(a, "link")
    /\ \/ /\ bot[Channel] = "admin" /\ Smoothly
          /\ links' = IF a = "row" THEN [i \in DOMAIN links |-> IF Oldest(i) THEN links[i] + 1 ELSE links[i]] ELSE links
          /\ Goto(a, "send")
       \/ /\ bot[Channel] # "admin" /\ Smoothly
          /\ Set(a, Onward(run[a])) /\ UNCHANGED links
       \/ /\ Trouble("telegram")
          /\ Set(a, Onward(run[a])) /\ UNCHANGED links
    /\ UNCHANGED <<world, active, member, registry, queue, flight, kept, shutOut>>

\* Mutant: a link that does not reach her is a failure of the row.
SendOrFail(a) ==
    /\ At(a, "send")
    /\ \/ Smoothly /\ Set(a, Onward(run[a]))
       \/ Trouble("telegram") /\ Set(a, Onward([run[a] EXCEPT !.failed = TRUE]))
    /\ UNCHANGED <<world, active, member, registry, queue, flight, history>>

\* She is sent the link, or is not: her access is back either way.
SendLink(a) ==
    /\ At(a, "send")
    /\ Smoothly \/ Trouble("telegram")
    /\ Set(a, Onward(run[a]))
    /\ UNCHANGED <<world, active, member, registry, queue, flight, history>>

-----------------------------------------------------------------------------
(* revokeAccess *)

\* A revocation under way is shared by whoever asks for another.
RevokeAccess(a) ==
    /\ At(a, "revoke")
    /\ IF flight # "none" THEN Goto(a, "wait") /\ UNCHANGED flight /\ Smoothly
       ELSE \/ /\ Known # {} /\ Smoothly
               /\ Set(a, [run[a] EXCEPT !.pc = "chat", !.todo = Known, !.saw = Known,
                                       !.asks = Known \ {c \in {Channel} : known[c] = "active"}])
               /\ flight' = a
            \/ /\ Known = {} \/ "registry" \in may
               /\ IF Known = {} THEN Smoothly ELSE Trouble("registry")
               /\ Set(a, Onward([run[a] EXCEPT !.failed = TRUE]))
               /\ UNCHANGED flight
    /\ UNCHANGED <<world, active, member, registry, queue, history>>

\* Mutant: who is not in the channel now is left alone.
SkipAbsent(a) ==
    \E c \in run[a].todo :
        /\ At(a, "chat")
        /\ \/ /\ c \in run[a].asks => bot[c] # "out"
              /\ Smoothly
              /\ IF member[c] = "in" THEN Set(a, [run[a] EXCEPT !.pc = "ban", !.on = c])
                 ELSE Set(a, [run[a] EXCEPT !.todo = @ \ {c}])
           \/ /\ c \in run[a].asks
              /\ IF bot[c] = "out" THEN Smoothly ELSE Trouble("telegram")
              /\ Set(a, [run[a] EXCEPT !.todo = @ \ {c}, !.failed = TRUE])
        /\ UNCHANGED <<world, active, member, registry, queue, flight, history>>

\* In the channel the ban closes the permanent link; elsewhere it is for those
\* who are in, and a chat that the bot has left cannot be asked.
CheckPresence(a) ==
    \E c \in run[a].todo :
        /\ At(a, "chat")
        /\ \/ /\ c \in run[a].asks => bot[c] # "out"
              /\ Smoothly
              /\ IF c \notin run[a].asks \/ member[c] = "in" THEN Set(a, [run[a] EXCEPT !.pc = "ban", !.on = c])
                 ELSE Set(a, [run[a] EXCEPT !.todo = @ \ {c}])
           \/ /\ c \in run[a].asks
              /\ IF bot[c] = "out" THEN Smoothly ELSE Trouble("telegram")
              /\ Set(a, [run[a] EXCEPT !.todo = @ \ {c}, !.failed = TRUE])
        /\ UNCHANGED <<world, active, member, registry, queue, flight, history>>

\* Whoever never was there cannot be banned, which is no failure.
Ban(a) ==
    LET c == run[a].on
        next == [run[a] EXCEPT !.pc = "chat", !.todo = @ \ {c}]
        others == [b \in Actors |->
            [run[b] EXCEPT !.undone = @ \/ (c = Channel /\ run[b].pc \in {"unban", "link", "send"})]]
    IN  /\ At(a, "ban")
        /\ \/ /\ bot[c] = "admin" /\ Smoothly
              /\ member' = [member EXCEPT ![c] = IF @ = "never" THEN @ ELSE "banned"]
              /\ shutOut' = (shutOut \/ IF a = "row" THEN employed /\ \A i \in Pending : rows[i].kind = "REVOKE" ELSE active)
              /\ run' = [others EXCEPT ![a] = [next EXCEPT !.saw = @ \cup {c}]]
           \/ /\ bot[c] # "admin" /\ Smoothly
              /\ Set(a, [next EXCEPT !.failed = TRUE]) /\ UNCHANGED <<member, shutOut>>
           \/ /\ Trouble("telegram")
              /\ Set(a, [next EXCEPT !.failed = TRUE]) /\ UNCHANGED <<member, shutOut>>
        /\ UNCHANGED <<world, active, registry, queue, flight, links, kept>>

\* Mutant: the chats that refused are only logged.
RevokedAtBest(a) ==
    LET waiting == {b \in Actors : At(b, "wait")}
        result(b) == [run[b] EXCEPT !.failed = FALSE, !.saw = run[a].saw]
    IN  /\ At(a, "chat") /\ run[a].todo = {}
        /\ run' = [b \in Actors |-> IF b = a \/ b \in waiting THEN Onward(result(b)) ELSE run[b]]
        /\ flight' = "none"
        /\ Smoothly
        /\ UNCHANGED <<world, active, member, registry, queue, history>>

\* Mutant: the shared revocation is not forgotten when it ends.
RevokedForGood(a) ==
    LET waiting == {b \in Actors : At(b, "wait")}
        result(b) == [run[b] EXCEPT !.failed = run[a].failed, !.saw = run[a].saw]
    IN  /\ At(a, "chat") /\ run[a].todo = {}
        /\ run' = [b \in Actors |-> IF b = a \/ b \in waiting THEN Onward(result(b)) ELSE run[b]]
        /\ Smoothly
        /\ UNCHANGED <<world, active, member, registry, queue, flight, history>>

\* Whoever waits for the revocation under way gets its outcome.
Revoked(a) ==
    LET waiting == {b \in Actors : At(b, "wait")}
        result(b) == [run[b] EXCEPT !.failed = run[a].failed, !.saw = run[a].saw]
    IN  /\ At(a, "chat") /\ run[a].todo = {}
        /\ run' = [b \in Actors |-> IF b = a \/ b \in waiting THEN Onward(result(b)) ELSE run[b]]
        /\ flight' = "none"
        /\ Smoothly
        /\ UNCHANGED <<world, active, member, registry, queue, history>>

-----------------------------------------------------------------------------
(* The dispatcher: runAccessRevocations *)

FetchRows ==
    /\ At("row", "idle") /\ batch = {} /\ Pending # {}
    /\ batch' = Pending
    /\ Smoothly
    /\ UNCHANGED <<world, active, member, registry, rows, run, flight, history>>

ProcessRow ==
    \E r \in batch :
        /\ At("row", "idle") /\ Oldest(r)
        /\ Set("row", [Idle EXCEPT !.pc = IF rows[r].kind = "REVOKE" THEN "revoke" ELSE "invite", !.then = "ack"])
        /\ Smoothly
        /\ UNCHANGED <<world, active, member, registry, queue, flight, history>>

\* A row marked as failed is offered again, as is one whose mark is lost.
ReportRow ==
    LET done == ~ run["row"].failed
    IN  \E r \in batch :
        /\ At("row", "ack") /\ Oldest(r)
        /\ \/ Smoothly /\ rows' = IF done THEN [rows EXCEPT ![r].status = "PROCESSED"] ELSE rows
           \/ Trouble("ack") /\ UNCHANGED rows
        /\ batch' = batch \ {r}
        /\ kept' = IF done /\ rows[r].kind = "REVOKE" THEN kept \cup run["row"].saw ELSE kept
        /\ Set("row", Idle)
        /\ UNCHANGED <<world, active, member, registry, flight, links, shutOut>>

-----------------------------------------------------------------------------
(* The profile, the channel's door and the registry *)

Turn == turns < MaxTurns /\ turns' = turns + 1

\* She is dismissed or comes back: the web app queues a row.
ChangeEmployment ==
    /\ "staff" \in may /\ Turn
    /\ employed' = ~employed
    /\ rows' = Append(rows, [kind |-> IF employed THEN "REVOKE" ELSE "RESTORE", status |-> "PENDING"])
    /\ Smoothly
    /\ UNCHANGED <<may, bot, news, active, member, registry, batch, run, flight, history>>

\* StaffRepository.update, when the flag really changes.
UpdateProfile ==
    /\ At("sync", "idle") /\ active # employed
    /\ active' = employed
    /\ Set("sync", [Idle EXCEPT !.pc = "sync", !.then = IF employed THEN "invite" ELSE "none"])
    /\ Smoothly
    /\ UNCHANGED <<world, member, registry, queue, flight, history>>

Leave ==
    /\ "leave" \in may /\ Turn
    /\ \E c \in Chats : member[c] = "in" /\ member' = [member EXCEPT ![c] = "left"]
    /\ Smoothly
    /\ UNCHANGED <<may, employed, active, bot, news, registry, queue, run, flight, history>>

\* By the permanent link, which closes only to her who is banned; the bot looks
\* whether she may be there.
JoinChannel ==
    LET unclosed == member[Channel] = "never" \/ Channel \in missed
    IN
    /\ "join" \in may /\ Turn
    /\ At("join", "idle") /\ member[Channel] \in {"never", "left"}
    /\ member' = [member EXCEPT ![Channel] = "in"]
    /\ kept' = IF unclosed THEN kept \ {Channel} ELSE kept
    /\ run' = [IF unclosed THEN Readmitted(Channel, run) ELSE run
                  EXCEPT !["join"] = [Idle EXCEPT !.pc = "sync"]]
    /\ missed' = IF flight # "none" THEN missed \cup {Channel} ELSE missed
    /\ Smoothly
    /\ UNCHANGED <<may, employed, active, bot, news, known, sweep, raced, queue, flight, links, shutOut>>

\* The bot is demoted, removed, or made an administrator of a chat.
BotMoves ==
    /\ "bot" \in may /\ Turn
    /\ \E c \in Groups, s \in {"admin", "member", "out"} :
        /\ bot[c] # s
        /\ bot' = [bot EXCEPT ![c] = s]
        /\ news' = [news EXCEPT ![c] = Append(@, s)]
    /\ Smoothly
    /\ UNCHANGED <<may, employed, active, member, registry, queue, run, flight, history>>

\* Mutant: a chat once lost is not found again.
PresentStaysLost(c) == [known EXCEPT ![c] = IF @ = "absent" THEN "active" ELSE @]
RecordPresent(c) == [known EXCEPT ![c] = "active"]
RecordLost(c) == [known EXCEPT ![c] = IF @ = "absent" THEN @ ELSE "lost"]
Watched == missed' = missed \cup {c \in Chats : known'[c] # "active"}

HandleMyChatMember ==
    \E c \in Chats :
        /\ news[c] # << >>
        /\ known' = IF Head(news[c]) = "out" THEN RecordLost(c) ELSE RecordPresent(c)
        /\ news' = [news EXCEPT ![c] = Tail(@)] /\ Watched
        /\ raced' = IF sweep.on = c /\ sweep.verdict # "none" THEN raced \cup {c} ELSE raced \ {c}
        /\ Smoothly
        /\ UNCHANGED <<may, employed, turns, bot, active, member, sweep, queue, run, flight, history>>

\* The registry and the bot's own account are read first: without them nothing
\* is swept.
SweepStart ==
    /\ sweep.due
    /\ \/ Smoothly /\ sweep' = [NoSweep EXCEPT !.todo = Known \cup Seeds, !.listed = Known]
       \/ Trouble("blip") /\ sweep' = NoSweep
    /\ UNCHANGED <<world, active, member, known, raced, missed, queue, run, flight, history>>

Finds(c, verdict) == sweep' = [sweep EXCEPT !.todo = @ \ {c}, !.on = c, !.verdict = verdict]

SweepRead ==
    \E c \in sweep.todo :
        /\ sweep.verdict = "none"
        /\ \/ Smoothly /\ Finds(c, IF bot[c] = "admin" THEN "present" ELSE "lost")
           \/ bot[c] = "admin" /\ Trouble("blip") /\ Finds(c, "untyped")
           \/ Trouble("blip") /\ Finds(c, "lost")
        /\ UNCHANGED <<world, active, member, known, raced, missed, queue, run, flight, history>>

\* A chat that was not in the registry when it was listed is not written as lost.
SweepWrite ==
    /\ sweep.verdict # "none"
    /\ known' = CASE sweep.verdict = "present" -> RecordPresent(sweep.on)
                  [] sweep.verdict = "untyped" -> [known EXCEPT ![sweep.on] = "untyped"]
                  [] sweep.verdict = "lost" /\ sweep.on \in sweep.listed -> RecordLost(sweep.on)
                  [] OTHER -> known
    /\ Watched
    /\ sweep' = [sweep EXCEPT !.verdict = "none"]
    /\ Smoothly
    /\ UNCHANGED <<world, active, member, raced, queue, run, flight, history>>

\* The process dies, and sweeps its chats when it is back.
Restart ==
    /\ Trouble("crash")
    /\ run' = [a \in Actors |-> Idle]
    /\ flight' = "none" /\ batch' = {}
    /\ sweep' = [NoSweep EXCEPT !.due = TRUE]
    /\ UNCHANGED <<world, active, member, known, raced, missed, rows, history>>

-----------------------------------------------------------------------------
(* The specification *)

Calls(a) ==
    \/ SyncUserAccess(a) \/ CreateInviteLink(a) \/ ReadScope(a) \/ Unban(a) \/ Unbanned(a)
    \/ MakeLink(a) \/ SendLink(a)
    \/ RevokeAccess(a) \/ CheckPresence(a) \/ Ban(a) \/ Revoked(a)
Dispatch == FetchRows \/ ProcessRow \/ ReportRow
Watch == HandleMyChatMember \/ SweepStart \/ SweepRead \/ SweepWrite

Next ==
    \/ \E a \in Actors : Calls(a)
    \/ Dispatch \/ UpdateProfile \/ Watch
    \/ ChangeEmployment \/ Leave \/ JoinChannel \/ BotMoves \/ Restart

Spec == Init /\ [][Next]_vars

\* Handlers that have begun go on, the poll and the synchronisation come back,
\* and Telegram delivers its updates.
FairSpec ==
    /\ Spec
    /\ \A a \in Actors : WF_vars(Calls(a))
    /\ WF_vars(Dispatch) /\ WF_vars(UpdateProfile) /\ WF_vars(Watch)

-----------------------------------------------------------------------------
(* Properties *)

\* Where a processed revocation looked, she is not, nor can she come back to
\* the channel by its link, until somebody lets her in again: a chat that could
\* not be asked or refused is no "removed" (revokeAccess, processRow).
RevokedIsOut ==
    \A c \in kept : member[c] # "in" /\ (c = Channel /\ c \notin missed => member[c] \in {"banned", "never"})

\* The link she is sent opens the channel: her ban there does not stand since
\* before it was made, unless the unban was refused (clearProtectedChatBan).
LinkOpens ==
    \A a \in Actors :
        At(a, "send") /\ member[Channel] = "banned"
            => run[a].undone \/ Happened("telegram") \/ Channel \in missed

\* The marks that were lost, and the crashes.
Repeated == {i \in DOMAIN trouble : trouble[i] \in {"ack", "crash"}}

\* One link for one row, but for a lost mark or a crash: a link whose message did
\* not arrive is not replaced (processRestore).
OneLinkPerRow ==
    \A i \in DOMAIN rows : links[i] <= 1 + Cardinality(Repeated)

\* The registry knows the chats the bot administers once the updates and the
\* sweep are through, unless the two crossed or the sweep was refused an answer;
\* but for chats it never heard of, which the bot does not know of otherwise.
RegistryIsTrue ==
    \A c \in Chats \ raced :
        (/\ c \in Seeds \/ known[c] # "absent"
         /\ news[c] = << >> /\ ~sweep.due /\ sweep.todo = {} /\ sweep.verdict = "none"
         /\ bot[c] = "admin" /\ ~Happened("blip"))
            => c \in Known

\* An employee who was dismissed is in the end in no chat the bot administers.
DismissedIsOut ==
    <>[](~employed => \A c \in Chats \ missed : bot[c] = "admin" => member[c] # "in")

\* One who came back is in the end banned in no chat the bot administers.
RehiredGetsIn ==
    <>[](employed /\ ~shutOut /\ ~Happened("crash") /\ ~Happened("registry")
            => \A c \in Chats \ missed : bot[c] = "admin" => member[c] # "banned")

\* The link of a row is one and opens the channel; and the rows keep their shape.
LinksAreGood == TypeOK /\ LinkOpens /\ OneLinkPerRow

\* Access follows employment in the end, both ways.
AccessFollowsEmployment == DismissedIsOut /\ RehiredGetsIn
=============================================================================
