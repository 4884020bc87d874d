----------------------------- MODULE ServerFrame ------------------------------
(***************************************************************************)
(* The game server between its two kinds of threads.  Network threads list *)
(* and remove clients, queue packets and events, and answer digests; the   *)
(* game thread runs one frame after another: the delayed packets, the      *)
(* events, the rules of the game, the cheaters.  A step is what a thread   *)
(* does between two places where the other can see or disturb it.          *)
(*                                                                         *)
(* The clients are remote ones, and an id is used once.  The server stops  *)
(* on a failed assertion, a null pointer or a deadlock: halted says where. *)
(***************************************************************************)
EXTENDS GameEventQueue, AntiCheat

CONSTANTS
    Residents,     \* the clients that play already when a run begins
    Budgets        \* bound: what may happen in a run, one of these

ASSUME FrameAssumption ==
    /\ NoSender \notin Clients
    /\ Residents \subseteq Clients
    /\ Budgets \subseteq [losses : Nat, hits : Nat, reports : Nat, commands : Nat, rounds : Nat,
                         strays : Nat]

VARIABLES
    listed,       \* net_players
    connected,    \* flags.bConnected
    states,       \* the clients with a player state, ps
    accepted,     \* net_Accepted
    delayed,      \* m_aDelayedPackets
    posting,      \* packets of the network thread that holds csMessage and waits to queue one
    frame,        \* where the game thread is, and after a report whether it is still in front
    hand,         \* the packet it is handling
    phase,        \* the phase of the round
    removal,      \* how far a client's removal has come
    ending,       \* the clients DestroyClient was called for
    stage,        \* what a client has done so far
    toStart,      \* the clients about to send GAME_EVENT_PLAYER_STARTED
    budget,       \* bound: losses, hits, reports, commands, rounds and messages out of turn to come
    liable,       \* history: the most a client can be charged for what has been sent
    heard,        \* history: the clients a message has come from
    halted,       \* where the server stopped
    refused,      \* history: the clients CheckNewPlayer refused
    parted,       \* history: the clients that had a player state when they were removed
    told,         \* history: the clients OnPlayerDisconnect was called for
    discarded     \* history: events a round change or a stray Release threw away,
                  \* and notices of a round that name another map

clientVars == <<listed, connected, states, accepted, removal, ending>>
packetVars == <<delayed, posting>>
remoteVars == <<stage, toStart, liable, heard, budget>>
historyVars == <<refused, parted, told, discarded>>

vars == <<queueVars, antiCheatVars, clientVars, packetVars, frame, hand, phase,
          remoteVars, halted, historyVars>>

\* A round is under way.
Init ==
    /\ QueueInit
    /\ AntiCheatInit
    /\ listed = Residents /\ connected = Residents /\ states = Residents /\ accepted = Residents
    /\ ending = {} /\ delayed = << >> /\ posting = {} /\ hand = << >> /\ toStart = {}
    /\ refused = {} /\ heard = {} /\ parted = {} /\ told = {} /\ discarded = {}
    /\ frame = "packets" /\ halted = "no"
    /\ phase = "progress"
    /\ removal = [c \in Clients |-> "none"]
    /\ stage = [c \in Clients |-> IF c \in Residents THEN "playing" ELSE "out"]
    /\ liable = [c \in Clients |-> 0]
    /\ budget \in Budgets

\* One of the bounded things happens.
Spend(what) ==
    /\ budget[what] > 0
    /\ budget' = [budget EXCEPT ![what] = @ - 1]

------------------------------------------------------------------------------
(* Network threads. *)

\* Something comes that client c can be charged for.
Owes(c, score) == liable' = [liable EXCEPT ![c] = @ + score]

Packet(kind, client) == [kind |-> kind, client |-> client]

\* A callback for client c: none is running for it yet, and none comes after
\* the one that removes it.
Calls(c) ==
    /\ halted = "no"
    /\ removal[c] = "none"
    /\ \A packet \in posting : packet.client # c

\* new_client(): the client is listed before its event is queued.
ListClient(c) ==
    /\ Calls(c)
    /\ stage[c] = "out"
    /\ stage' = [stage EXCEPT ![c] = "listed"]
    /\ listed' = listed \cup {c}
    /\ UNCHANGED <<queueVars, antiCheatVars, connected, states, accepted, removal, ending, packetVars,
                   frame, hand, phase, toStart, liable, heard, budget, halted, historyVars>>

QueueCreateClient(c) ==
    /\ Calls(c)
    /\ stage[c] = "listed"
    /\ stage' = [stage EXCEPT ![c] = "waiting"]
    /\ CreateSafe(Event("create", c, c))
    /\ UNCHANGED <<antiCheatVars, clientVars, packetVars, frame, hand, phase, toStart, liable, heard,
                   budget, halted, historyVars>>

\* OnMessage holds csMessage, so it waits while another message is being queued.
\* It asks for nothing but a client that is listed.
Receives(c) ==
    /\ Calls(c)
    /\ c \in listed
    /\ stage[c] \notin {"out", "listed"}
    /\ posting = {}
    /\ heard' = heard \cup {c}

\* The message a client sends in its turn, or sooner or later than that.
Takes(c, from, to) ==
    \/ stage[c] = from /\ stage' = [stage EXCEPT ![c] = to] /\ UNCHANGED budget
    \/ Spend("strays") /\ UNCHANGED stage

\* The answer to M_AUTH_CHALLENGE comes in two messages.
ReceivePlayerState(c) ==
    /\ Receives(c)
    /\ Takes(c, "challenged", "answering")
    /\ Create(Event("state", c, c))
    /\ UNCHANGED <<antiCheatVars, clientVars, packetVars, frame, hand, phase, toStart, liable,
                   halted, historyVars>>

ReceiveAuth(c) ==
    /\ Receives(c)
    /\ Takes(c, "answering", "answered")
    /\ Owes(c, DigestScore)
    /\ Create(Event("auth", c, c))
    /\ UNCHANGED <<antiCheatVars, clientVars, packetVars, frame, hand, phase, toStart, halted,
                   historyVars>>

\* M_SV_DIGEST is handled at once; a banned client is disconnected.
ReceiveDigest(c) ==
    /\ Receives(c)
    /\ \/ Takes(c, "asked", "verified") /\ UNCHANGED ending
       \/ Takes(c, "asked", "banned") /\ ending' = ending \cup {c}
    /\ UNCHANGED <<queueVars, antiCheatVars, listed, connected, states, accepted, removal, packetVars,
                   frame, hand, phase, toStart, liable, halted, historyVars>>

ReceiveConnectionRequest(c) ==
    /\ Receives(c)
    /\ Takes(c, "verified", "requested")
    /\ Owes(c, LimitedScore)
    /\ posting' = {Packet("request", c)}
    /\ UNCHANGED <<queueVars, antiCheatVars, clientVars, delayed, frame, hand, phase, toStart,
                   halted, historyVars>>

ReceiveCommand(c) ==
    /\ Spend("commands")
    /\ Receives(c)
    /\ Owes(c, LimitedScore)
    /\ posting' = {Packet("command", c)}
    /\ UNCHANGED <<queueVars, antiCheatVars, clientVars, delayed, frame, hand, phase, stage, toStart,
                   halted, historyVars>>

\* A hit that names an entity of player d as the hitter: nobody compares it with
\* who has sent the hit.
QueueHit(d) ==
    /\ Spend("hits")
    /\ stage[d] = "playing"
    /\ Owes(d, 2 * RegisteredScore)
    /\ CreateSafe(Event("hit", NoSender, d))

ReceiveHit(c, d) ==
    /\ Receives(c)
    /\ QueueHit(d)
    /\ UNCHANGED <<antiCheatVars, clientVars, packetVars, frame, hand, phase, stage, toStart, halted,
                   historyVars>>

\* A report that player d was hit or killed, by whoever sends one.
QueueReport(sender, d) ==
    /\ Spend("reports")
    /\ stage[d] = "playing"
    /\ CreateSafe(Event("report", sender, d))

ReceiveReport(c, d) ==
    /\ Receives(c)
    /\ QueueReport(c, d)
    /\ UNCHANGED <<antiCheatVars, clientVars, packetVars, frame, hand, phase, stage, toStart, liable,
                   halted, historyVars>>

\* Deviation: the event is queued like most others.
QueueStarted_Safe(c) == CreateSafe(Event("started", c, c))

QueueStarted(c) == Create(Event("started", c, c))

\* The notice of a round, in its turn or out of it: it names the map the client has
\* loaded, the server's or another one.
ReceiveStarted(c) ==
    /\ Receives(c)
    /\ \/ c \in toStart /\ toStart' = toStart \ {c} /\ UNCHANGED budget
       \/ Spend("strays") /\ UNCHANGED toStart
    /\ QueueStarted(c) \/ Create(Event("elsewhere", c, c))
    /\ UNCHANGED <<antiCheatVars, clientVars, packetVars, frame, hand, phase, stage, liable, halted,
                   historyVars>>

\* AddDelayedPacket(): the game thread holds DelayedPackestCS while it handles them.
AddDelayedPacket ==
    /\ halted = "no"
    /\ posting # {}
    /\ frame # "packets"
    /\ \E packet \in posting : delayed' = Append(delayed, packet)
    /\ posting' = {}
    /\ UNCHANGED <<queueVars, antiCheatVars, clientVars, frame, hand, phase, remoteVars, halted,
                   historyVars>>

\* Deviation: the departure is queued in the client's own name.
QueueDisconnected_OwnName(c) == CreateSafe(Event("disconnected", c, c))

QueueDisconnected(c) == CreateSafe(Event("disconnected", NoSender, c))

\* OnCL_Disconnected(): the first step of a removal.
Disconnected(c) ==
    /\ Calls(c)
    /\ c \in listed
    /\ stage[c] # "listed"
    /\ IF c \in ending THEN UNCHANGED budget ELSE Spend("losses")
    /\ removal' = [removal EXCEPT ![c] = "parted"]
    /\ connected' = connected \ {c}
    /\ \/ c \in states /\ QueueDisconnected(c) /\ parted' = parted \cup {c}
       \/ c \notin states /\ UNCHANGED <<queueVars, parted>>
    /\ UNCHANGED <<antiCheatVars, listed, states, accepted, ending, packetVars, frame, hand, phase,
                   stage, toStart, liable, heard, halted, refused, told, discarded>>

\* client_Destroy() begins: the client is found no more, nor what it holds.
Delist(c) ==
    /\ halted = "no"
    /\ removal[c] = "parted"
    /\ removal' = [removal EXCEPT ![c] = "delisted"]
    /\ listed' = listed \ {c}
    /\ states' = states \ {c}
    /\ accepted' = accepted \ {c}
    /\ toStart' = toStart \ {c}
    /\ ending' = ending \ {c}
    /\ UNCHANGED <<queueVars, antiCheatVars, connected, packetVars, frame, hand, phase, stage,
                   liable, heard, budget, halted, historyVars>>

\* client_Destroy() looks for the first packet of the client and erases it, until
\* it finds none.  It does not take DelayedPackestCS.
PacketsOf(c) == {i \in DOMAIN delayed : delayed[i].client = c}

ErasePacket(c) ==
    /\ halted = "no"
    /\ removal[c] = "delisted"
    /\ \E i \in PacketsOf(c) :
          /\ \A j \in PacketsOf(c) : i <= j
          /\ delayed' = [n \in 1..Len(delayed) - 1 |-> delayed[IF n < i THEN n ELSE n + 1]]
    /\ UNCHANGED <<queueVars, antiCheatVars, clientVars, posting, frame, hand, phase, remoteVars,
                   halted, historyVars>>

\* What it does to the list may end badly while somebody else is at it.
RaceOverPackets(c) ==
    /\ halted = "no"
    /\ removal[c] = "delisted"
    /\ hand # << >> \/ (posting # {} /\ frame # "packets")
    /\ halted' = "race"
    /\ UNCHANGED <<queueVars, antiCheatVars, clientVars, packetVars, frame, hand, phase, remoteVars,
                   historyVars>>

\* Deviation: the first packet of the client ends the search.
Cleared_First(c) == \A i, j \in PacketsOf(c) : i = j

Cleared(c) == PacketsOf(c) = {}

\* client_Destroy() ends: the reports on the entity the client owns by now, if any,
\* are erased, the one the game thread is handling with them.
EraseReports(c) ==
    /\ halted = "no"
    /\ removal[c] = "delisted"
    /\ Cleared(c)
    /\ removal' = [removal EXCEPT ![c] = "removed"]
    /\ \/ UNCHANGED <<ready, frame>>
       \/ \E positions \in SUBSET ReportsOn(c) \ {{}} :
             /\ EraseEventsAt(positions)
             /\ frame' = IF frame = "handled" /\ 1 \in positions THEN "release" ELSE frame
    /\ UNCHANGED <<blocked, antiCheatVars, listed, connected, states, accepted, ending, packetVars,
                   hand, phase, remoteVars, halted, historyVars>>

------------------------------------------------------------------------------
(* The game thread: ProceedDelayedPackets(). *)

GameAt(place) == halted = "no" /\ frame = place

\* Between two frames the server's own game sends too, through the same OnMessage.
SendOwnMessage(c) ==
    /\ GameAt("packets")
    /\ hand = << >>
    /\ posting = {}
    /\ \/ QueueHit(c)
       \/ QueueReport(NoSender, c) /\ UNCHANGED liable
    /\ UNCHANGED <<antiCheatVars, clientVars, packetVars, frame, hand, phase, stage, toStart, heard,
                   halted, historyVars>>

\* OnDelayedMessage() begins with the oldest packet.
Handles(kind, client) ==
    /\ GameAt("packets")
    /\ hand = << >>
    /\ delayed # << >>
    /\ Head(delayed) = Packet(kind, client)
    /\ hand' = <<Head(delayed)>>
    /\ UNCHANGED <<queueVars, packetVars, frame, phase, historyVars>>

\* Its sender is gone: both handlers use the client without asking.
HandleOrphan(c) ==
    /\ \E kind \in {"request", "command"} : Handles(kind, c)
    /\ c \notin listed
    /\ halted' = "client"
    /\ UNCHANGED <<antiCheatVars, clientVars, remoteVars>>

\* AntiCheatValidateMessage() finds one packet too many.
HandleLimited(c) ==
    /\ \E kind \in {"request", "command"} : Handles(kind, c)
    /\ c \in listed
    /\ RegisterViolation(c, 0, LimitedScore)
    /\ UNCHANGED <<clientVars, remoteVars, halted>>

\* OnCL_Connected().  Without a player state the client gets its data, and
\* is never entered into the game.
HandleRequest(c) ==
    /\ Handles("request", c)
    /\ c \in listed
    /\ accepted' = accepted \cup {c}
    /\ \/ /\ c \in states
          /\ stage' = [stage EXCEPT ![c] = "playing"]
          /\ toStart' = toStart \cup {c}
       \/ c \notin states /\ UNCHANGED <<stage, toStart>>
    /\ UNCHANGED <<antiCheatVars, listed, connected, states, removal, ending, liable, heard, budget,
                   halted>>

\* A console command.  One that changes the level sends a message through
\* OnMessageSync(), which enters csMessage.
HandleCommand(c) ==
    /\ Handles("command", c)
    /\ c \in listed
    /\ \/ halted' = halted
       \/ posting # {} /\ halted' = "locks"
    /\ UNCHANGED <<antiCheatVars, clientVars, remoteVars>>

\* pop_front() takes off whatever is in front by now, if anything is.
PopPacket ==
    /\ GameAt("packets")
    /\ hand # << >>
    /\ hand' = << >>
    /\ \/ delayed # << >> /\ delayed' = Tail(delayed) /\ UNCHANGED halted
       \/ delayed = << >> /\ halted' = "pop" /\ UNCHANGED delayed
    /\ UNCHANGED <<queueVars, antiCheatVars, clientVars, posting, frame, phase, remoteVars,
                   historyVars>>

EndPackets ==
    /\ GameAt("packets")
    /\ hand = << >>
    /\ delayed = << >>
    /\ frame' = "events"
    /\ UNCHANGED <<queueVars, antiCheatVars, clientVars, packetVars, hand, phase, remoteVars,
                   halted, historyVars>>

------------------------------------------------------------------------------
(* The game thread: ProcessDelayedEvent(). *)

\* The game thread is in the loop, with this event in front.
InFront(type, c) ==
    /\ GameAt("events")
    /\ ready # << >>
    /\ Head(ready).type = type
    /\ Head(ready).client = c

\* OnEvent() and Release() of an event other than a report.  Network threads append
\* to the queue and erase reports from it, so unless its handler erases it the event
\* is still in front after it: one step.
Handled(type, c) ==
    /\ InFront(type, c)
    /\ Release
    /\ UNCHANGED <<blocked, packetVars, frame, hand, phase, liable, heard, budget, parted>>

\* A report changes nothing here, but its victim may leave while it is handled.
OnReport(c) ==
    /\ InFront("report", c)
    /\ frame' = "handled"
    /\ UNCHANGED <<queueVars, antiCheatVars, clientVars, packetVars, hand, phase, remoteVars, halted,
                   historyVars>>

ReleaseReport ==
    /\ GameAt("handled")
    /\ Release
    /\ frame' = "events"
    /\ UNCHANGED <<blocked, antiCheatVars, clientVars, packetVars, hand, phase, remoteVars, halted,
                   historyVars>>

\* The handled event has been erased: Release() asserts that there is an event, and
\* takes off another one.
ReleaseAfterErasure ==
    /\ GameAt("release")
    /\ frame' = "events"
    /\ \/ /\ ready # << >>
          /\ Release
          /\ discarded' = discarded \cup {Head(ready)}
          /\ UNCHANGED <<blocked, halted>>
       \/ /\ ready = << >>
          /\ halted' = "release"
          /\ UNCHANGED <<queueVars, discarded>>
    /\ UNCHANGED <<antiCheatVars, clientVars, packetVars, hand, phase, remoteVars, refused, parted,
                   told>>

\* Deviation: the client is used without asking whether it is still there.
AttachIfFound_Unchecked(c) ==
    /\ connected' = connected \cup {c}
    /\ halted' = IF c \in listed THEN halted ELSE "client"
    /\ frame' = IF c \in listed THEN "attach" ELSE frame
    /\ UNCHANGED ready

\* The client is looked up once, and attached if it is there.
AttachIfFound(c) ==
    \/ c \in listed /\ connected' = connected \cup {c} /\ frame' = "attach" /\ UNCHANGED <<ready, halted>>
    \/ c \notin listed /\ Release /\ UNCHANGED <<connected, frame, halted>>

OnCreateClient(c) ==
    /\ InFront("create", c)
    /\ AttachIfFound(c)
    /\ UNCHANGED <<blocked, antiCheatVars, listed, states, accepted, removal, ending, packetVars, hand,
                   phase, remoteVars, historyVars>>

\* AttachNewClient(): what it sends looks the client up again, and does not ask
\* whether it is still there.
AttachNewClient(c) ==
    /\ GameAt("attach")
    /\ Head(ready).client = c
    /\ \/ /\ c \in listed
          /\ stage' = [stage EXCEPT ![c] = IF @ = "waiting" THEN "challenged" ELSE @]
          /\ Release
          /\ frame' = "events"
          /\ UNCHANGED halted
       \/ /\ c \notin listed
          /\ halted' = "client"
          /\ UNCHANGED <<ready, stage, frame>>
    /\ UNCHANGED <<blocked, antiCheatVars, clientVars, packetVars, hand, phase, toStart, liable, heard,
                   budget, historyVars>>

\* R_ASSERT2 that the client is there, which then has a player state.
OnCreatePlayerState(c) ==
    /\ Handled("state", c)
    /\ \/ c \in listed /\ states' = states \cup {c} /\ UNCHANGED halted
       \/ c \notin listed /\ halted' = "client" /\ UNCHANGED states
    /\ UNCHANGED <<antiCheatVars, listed, connected, accepted, removal, ending, stage, toStart,
                   refused, told, discarded>>

\* Another outcome of the same event: CheckNewPlayer() disconnects the client
\* and erases its events, the one being handled with them.
OnRefusedPlayerState(c) ==
    /\ InFront("state", c)
    /\ c \in listed
    /\ states' = states \cup {c}
    /\ ending' = ending \cup {c}
    /\ refused' = refused \cup {c}
    /\ EraseEventsAt(EventsFrom(c))
    /\ frame' = "release"
    /\ UNCHANGED <<blocked, antiCheatVars, listed, connected, accepted, removal, packetVars, hand,
                   phase, remoteVars, halted, parted, told, discarded>>

\* OnBuildVersionRespond() of a client that is there: its digest differs, its
\* password is wrong, or it is asked for its own digest.
JudgeAuth(c) ==
    \/ RegisterViolation(c, 0, DigestScore) /\ ending' = ending \cup {c} /\ UNCHANGED stage
    \/ ending' = ending \cup {c} /\ UNCHANGED <<antiCheatVars, stage>>
    \/ /\ stage' = [stage EXCEPT ![c] = IF @ = "answered" THEN "asked" ELSE @]
       /\ UNCHANGED <<antiCheatVars, ending>>

OnPlayerAuth(c) ==
    /\ Handled("auth", c)
    /\ \/ c \in listed /\ JudgeAuth(c) /\ UNCHANGED halted
       \/ c \notin listed /\ halted' = "client" /\ UNCHANGED <<antiCheatVars, ending, stage>>
    /\ UNCHANGED <<listed, connected, states, accepted, removal, toStart, refused, told, discarded>>

\* A hit with an unknown entity is ignored, an authorized one changes nothing here,
\* and a refused one is charged to the owner of the hitter.
OnHit(c) ==
    /\ Handled("hit", c)
    /\ UNCHANGED antiCheatVars \/ RefuseHit(c)
    /\ UNCHANGED <<clientVars, stage, toStart, halted, refused, told, discarded>>

\* CheckPlayerMapName() holds: the client is heard again.
OnPlayerStarted(c) ==
    /\ InFront("started", c)
    /\ Release
    /\ SetIgnoreEventsFor(FALSE, {c})
    /\ UNCHANGED <<antiCheatVars, clientVars, packetVars, frame, hand, phase, remoteVars, halted,
                   historyVars>>

\* It does not, and nothing happens.
OnStartedElsewhere(c) ==
    /\ Handled("elsewhere", c)
    /\ discarded' = discarded \cup {Head(ready)}
    /\ UNCHANGED <<antiCheatVars, clientVars, stage, toStart, halted, refused, told>>

OnPlayerDisconnect(c) ==
    /\ Handled("disconnected", c)
    /\ told' = told \cup {c}
    /\ UNCHANGED <<antiCheatVars, clientVars, stage, toStart, halted, refused, discarded>>

EndEvents ==
    /\ GameAt("events")
    /\ ready = << >>
    /\ frame' = "update"
    /\ UNCHANGED <<queueVars, antiCheatVars, clientVars, packetVars, hand, phase, remoteVars,
                   halted, historyVars>>

------------------------------------------------------------------------------
(* The game thread: the rules of the game, and the cheaters. *)

Members(queue) == {queue[i] : i \in DOMAIN queue}

\* KickCheaters() ends the frame.  Nothing a network thread does between the
\* rules and it makes a difference to it, so both are one step.
EndFrame ==
    /\ ending' = ending \cup Kicked(listed)
    /\ KickCheaters
    /\ frame' = "packets"

Plays(from, to) ==
    /\ GameAt("update")
    /\ phase = from
    /\ phase' = to
    /\ UNCHANGED <<listed, connected, states, accepted, removal, packetVars, hand, stage, liable,
                   heard, halted, refused, parted, told>>

NothingNew ==
    /\ Plays(phase, phase)
    /\ EndFrame
    /\ UNCHANGED <<queueVars, toStart, budget, discarded>>

\* What has come since the events were handled is erased unread; the clients
\* that can be reached are told of the round.
OnRoundStart ==
    /\ Plays("pending", "progress")
    /\ EndFrame
    /\ EraseEvents
    /\ discarded' = discarded \cup Members(ready)
    /\ toStart' = toStart \cup {c \in accepted \cap connected : stage[c] = "playing"}
    /\ UNCHANGED <<blocked, budget>>

OnPlayerScores ==
    /\ Spend("rounds")
    /\ Plays("progress", "scores")
    /\ EndFrame
    /\ UNCHANGED <<queueVars, toStart, discarded>>

OnRoundEnd ==
    /\ Plays("scores", "pending")
    /\ frame' = "ignore"
    /\ EraseEvents
    /\ discarded' = discarded \cup Members(ready)
    /\ UNCHANGED <<blocked, antiCheatVars, ending, toStart, budget>>

\* Every client on the list is ignored until it has started the next round.
IgnoreClients ==
    /\ GameAt("ignore")
    /\ SetIgnoreEventsFor(TRUE, listed)
    /\ EndFrame
    /\ UNCHANGED <<ready, listed, connected, states, accepted, removal, packetVars, hand, phase,
                   remoteVars, halted, historyVars>>

------------------------------------------------------------------------------
GameThread ==
    \/ PopPacket \/ EndPackets
    \/ \E c \in Clients : HandleOrphan(c) \/ HandleLimited(c) \/ HandleRequest(c) \/ HandleCommand(c)
    \/ \E c \in Clients : OnCreateClient(c) \/ AttachNewClient(c) \/ OnCreatePlayerState(c)
                            \/ OnRefusedPlayerState(c) \/ OnPlayerAuth(c) \/ OnHit(c) \/ OnReport(c)
                            \/ OnPlayerStarted(c) \/ OnStartedElsewhere(c) \/ OnPlayerDisconnect(c)
    \/ ReleaseReport \/ ReleaseAfterErasure \/ EndEvents
    \/ NothingNew \/ OnRoundStart \/ OnPlayerScores \/ OnRoundEnd \/ IgnoreClients

Removal(c) ==
    Disconnected(c) \/ Delist(c) \/ ErasePacket(c) \/ RaceOverPackets(c) \/ EraseReports(c)

Message(c) ==
    \/ ReceivePlayerState(c) \/ ReceiveAuth(c) \/ ReceiveDigest(c) \/ ReceiveConnectionRequest(c)
    \/ ReceiveCommand(c) \/ ReceiveStarted(c)
    \/ \E d \in Clients : ReceiveHit(c, d) \/ ReceiveReport(c, d)

Next ==
    \/ GameThread
    \/ \E c \in Clients : ListClient(c) \/ QueueCreateClient(c) \/ Message(c) \/ Removal(c)
                            \/ SendOwnMessage(c)
    \/ AddDelayedPacket

\* What network threads and clients will do in the end, each a bounded number
\* of times: go on with a callback that has begun, get the lock they wait for,
\* remove the clients the server disconnects, say that a round has started.
Pending ==
    \/ AddDelayedPacket
    \/ \E c \in Clients :
          \/ QueueCreateClient(c) \/ ReceiveStarted(c)
          \/ c \in ending /\ Disconnected(c)
          \/ Delist(c) \/ ErasePacket(c) \/ EraseReports(c)

\* Locks and messages may have to wait, so what is pending need not stay enabled.
Fairness == WF_vars(GameThread) /\ SF_vars(Pending)

Spec == Init /\ [][Next]_vars

FairSpec == Spec /\ Fairness
------------------------------------------------------------------------------
Stages == {"out", "listed", "waiting", "challenged", "answering", "answered", "asked",
           "verified", "banned", "requested", "playing"}

EventTypes == {"create", "state", "auth", "hit", "report", "started", "elsewhere", "disconnected"}

\* The tables are well typed.
TypeOK ==
    /\ ready \in Seq([type : EventTypes, sender : Clients \cup {NoSender}, client : Clients])
    /\ delayed \in Seq([kind : {"request", "command"}, client : Clients])
    /\ posting \subseteq [kind : {"request", "command"}, client : Clients]
    /\ suspicion \in [Clients -> Nat]
    /\ cheaters \in Seq(Clients)
    /\ blocked \subseteq Clients
    /\ listed \subseteq Clients
    /\ removal \in [Clients -> {"none", "parted", "delisted", "removed"}]
    /\ stage \in [Clients -> Stages]

\* Clients come and go, but over one that is gone the server stops only if it has
\* sent a message before, or went after it was looked up to be attached (the lookup
\* of game_sv_base.cpp:729 finds it, that of NET_Server.cpp:631 does not).  The list
\* of packets is short of the one in hand only if a client that has sent something
\* has gone, and breaks only while one is removed.  An event is taken off an empty
\* queue only if CheckNewPlayer refused somebody or a player was removed, whose
\* reports are erased with the one being handled.
HaltsExplained ==
    /\ halted = "client" => heard \ listed # {} \/ (frame = "attach" /\ Head(ready).client \notin listed)
    /\ halted = "pop" => heard \ listed # {}
    /\ halted = "race" => \E c \in Clients : removal[c] = "delisted"
    /\ halted = "release" =>
           refused # {} \/ \E c \in Clients : removal[c] = "removed" /\ stage[c] = "playing"

\* R_ASSERT(!ready.empty()), game_sv_event_queue.cpp:126.
ReleaseFindsEvent == halted # "release"

\* The game is told of every player that leaves, whether the rules ignore it or
\* its events were erased, unless a round change erased that event as well or a
\* stray Release took it off: after CheckNewPlayer refused somebody, or after
\* client_Destroy() erased the report that was being handled.
DepartureTold ==
    \A c \in parted :
        LET departure == Event("disconnected", NoSender, c) IN
        departure \in Members(ready) \cup discarded \/ c \in told

\* No packet of a client outlives it: between the look at the list and the
\* erasures some may wait, after them none, though network threads go on adding.
NoOrphanPackets ==
    \A i \in DOMAIN delayed : removal[delayed[i].client] # "removed"

\* Nothing is charged twice, whatever is erased or taken off while it is handled: a
\* client's score is covered by the packets and the answers it has sent and by the
\* hits that name its entity as the hitter, whoever sent those.
KickEarned ==
    \A c \in Clients : suspicion[c] <= liable[c]

\* A client on the list gets its challenge, unless a round change erased the
\* event that attaches it or a stray Release took it off (or the event was not even
\* queued, because a round ended between the listing and the queueing).
AttachedEventually ==
    \A c \in Clients :
        stage[c] = "waiting" /\ Event("create", c, c) \in Members(ready) ~>
            \/ stage[c] # "waiting" \/ c \notin listed \/ halted # "no"
            \/ Event("create", c, c) \in discarded

\* When a frame ends the server is disconnecting every client on the list whose
\* score has reached the threshold, whoever else was kicked or left in it.
KickedInFrame ==
    [][frame # "packets" /\ frame' = "packets" =>
          \A c \in listed : suspicion[c] >= KickThreshold => c \in ending']_vars

\* A client that was attached and plays a round is not ignored for the rest of it,
\* unless a round change or a stray Release took its notice, or the notice names
\* another map (CheckPlayerMapName, game_sv_mp.cpp:436): then nothing ends it.
HeardInRound ==
    \A c \in Clients :
        stage[c] = "playing" /\ c \in connected /\ c \in blocked /\ phase = "progress" ~>
            \/ c \notin blocked \/ phase # "progress" \/ c \notin listed \/ halted # "no"
            \/ {Event("started", c, c), Event("elsewhere", c, c)} \cap discarded # {}
==============================================================================
