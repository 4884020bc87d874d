# A TLA+ development of xrMPNet and its game server

The repository is a fork of OpenXRay (the X-Ray 1.6 engine) with a custom
multiplayer stack. The stack's own logic is the library `xrMPNet`
(`src/game/xray-16-dev/src/xrMPNet`, about 6,800 lines of C++), which its
README describes as "transport, handshake, replication-core, snapshot
pipeline, input authority, script replication, NPC authority, and anti-cheat".
The library is driven by the engine's game server (`xrGame/xrServer.cpp`,
`game_sv_*.cpp`), where network threads and the game thread meet and where the
library's anti-cheat is applied. This directory models both: TLA+ modules, the
TLC configurations that check them on small instances, and TLAPS proofs of the
main results for every value of the constants. The rest of the repository
(renderer, sound, physics, AI, scripting engine, tools) is the upstream engine
and is not modelled; `PROJECT.json` lists its parts with the reason.

Paths below are relative to `src/game/xray-16-dev/src/xrMPNet` or, when they
start with `xrGame/`, to the directory above it.

## Inventory

| Component | State it keeps | Operations | Interacts with |
|---|---|---|---|
| Transport (`ITransport.h`, `GNSTransport.cpp`) | connection ids, queue of pending events, metrics | `listen`, `connect`, `disconnect`, `send`, `poll`, `shutdown`; status callback of GameNetworkingSockets | sessions poll it; it never calls back |
| Handshake (`Handshake.cpp`) | none | encode / decode, `validateHandshake` | server session |
| Client session (`TransportSession.cpp`, `ClientTransportSession`) | state, connection, nonce, accept, attempt counter, retry time, pending notice | `start`, `pump`, `send` | its transport; the game pumps it every frame |
| Server session (`TransportSession.cpp`, `ServerTransportSession`) | sessions by id, ids by connection, ids by nonce, counters | `pump`, `send`, `disconnect` | its transport; the game pumps it and reads its events |
| Entities (`NetEntity.cpp`, `EntityRegistry.cpp`, `ReplicationComponents.h`) | replicated components with dirty flags, registry by id and type | create, destroy, enable, set, `clearDirty` | snapshots, hit validation, scripts |
| Interest (`InterestManager.cpp`) | default radius | `isRelevant`, `collect` | snapshot builder |
| Snapshots (`SnapshotBuilder`, `SnapshotSerializer`, `SnapshotChannels`, `SnapshotBuffer`) | per client: next sequence, visible set, full-sync repeats; on the client: ring of frames | build, serialise, send on the unreliable channel; push, sample | server session, entities |
| Input authority (`InputBuffer`, `InputCommand`, `ServerPlayerController`, `ClientPrediction`) | per client: queued inputs, authoritative state; on the client: predicted state and pending inputs | `receiveInput`, `simulatePending`, `processHitRequest`; `predict`, `reconcile` | rate limiter, suspicion, validator |
| Anti-cheat (`RateLimiter`, `SuspicionTracker`, `CommandValidator`, `HitValidator`, `ServerSideHitAuthority`, `AssetIntegrityCheck`) | sliding windows, scores, rewind history | `allow`, `add`, `validate`, `authorizeAndApply` | input authority; `xrGame/xrServer.cpp` |
| Script replication (`SyncVar`, `NetRpc`, `ScriptReplicationAPI`) | registered variables and RPCs, outgoing deltas | register, set, flush, dispatch | Luabind bindings |
| NPC authority (`AIAuthorityController`, `NpcReplication`) | NPC records with dirty masks, last sync time per NPC | register, update, `buildSyncPackets`, `applySyncPacket` | level-of-detail policy |
| Message gate (`xrGame/xrServer.cpp`, `AntiCheat*`) | buckets and scores per client, list of cheaters | validate a message, authorise a hit, register a violation, kick | limiter, suspicion, hit authority; server frame |
| Game event queue (`xrGame/game_sv_event_queue.cpp`) | events in order, clients whose events are ignored | `Create`, `CreateSafe`, `Retreive`, `Release`, `EraseEvents`, `SetIgnoreEventsFor` | filled by network threads, emptied by the game thread |
| Server frame (`xrGame/xrServer*.cpp`, `game_sv_base.cpp`, `game_sv_mp.cpp`) | clients and what each has (player state, acceptance), delayed packets, phase of the round | callbacks: `new_client`, `OnMessage`, `OnCL_Disconnected`, `client_Destroy`; `Update`: delayed packets, events, rules, cheaters | both of the above; the engine's network layer calls it |
| Engine bindings (`OpenXRay*`) | none | copy engine objects into the library's | the engine |

The library has no thread of its own: every object is driven by its host's
frame loop. What is hard there is the protocol between two hosts. In the game
server it is the threads: the callbacks of the network layer run while a frame
does, under locks that cover a part of what they touch. A client leaves while
the game thread handles its packet, or between two looks at the list; the event
being handled is erased by its handler, or by the removal of the player it is
about; a round ends between the listing of a client and its event; the packets
of a client that left are erased under the hands of the loop.

Between the hosts, both ends of a
connection learn of events at different times; a lost connection is replaced
by a new one before or after the server has noticed; a session outlives its
connections, is resumed by nonce, superseded, expired; messages sent just
before a close may or may not arrive; refusals race with notices and time
outs; unreliable frames are lost and reordered; inputs are predicted before
the server has judged them.

What makes each component correct:

* server session: three indexes that agree; identity kept across resumes; no
  connection left open without an owner; the reconnect window honoured;
* client session: bounded retries, one connection at a time, it settles;
* both together: the two ends agree on who is connected as whom, a session
  never changes hands, messages are attributed to their sender, and everything
  settles once faults stop;
* snapshots: a client that folds the frames it gets holds the visible world,
  in spite of loss within the repeats; the ring stays sorted and keeps the newest;
* input authority: an input is simulated at most once and in order (until the
  largest sequence is applied), the client's prediction is the server's state plus exactly the inputs the server
  has not judged, refusals are accounted for;
* NPC authority: every observer ends up with the server's state;
* anti-cheat: the window limit holds in every window but those that begin just
  before the clock wraps, nothing is charged twice, and whoever reaches the
  threshold is disconnected in that frame;
* server frame: the server stops because a client left only in the few ways the
  code leaves open, the game learns of every departure, no packet of a client
  outlives it, and who joins or plays is heard.

## Modules

| Module | What it models |
|---|---|
| `Handshake` | the request as far as the session logic reads it, and the verdict of `validateHandshake` |
| `ServerSession` | `ServerTransportSession`: one action per outcome of `pump()`, `disconnect()`, the clock |
| `SessionDirectory` | what the server session promises, seen by ids and connections only (abstract specification) |
| `SessionHistory` | `ServerSession` with the events the game receives and the true time since each loss |
| `ClientSession` | `ClientTransportSession`: `start()` and one action per outcome of `pump()` |
| `ClientLink` | clients over arbitrary transports and servers |
| `SessionSystem` | `ServerSession` with several clients, the connections in between and crashes of the server |
| `RateLimit`, `RateLimiter` | `RateLimiter::allow()` as an operator; one client's requests against it in true time |
| `InputCommand` | the fields of inputs and player states that the control logic reads; `simulatePlayerState` |
| `PlayerInput` | `ServerPlayerController` with its buffer, limiter and suspicion: register, receive, simulate, refuse a hit |
| `ClientPrediction` | `reset`, `predict` and `reconcile` |
| `InputSystem` | honest predicting clients and the server, joined by two ordered channels each |
| `SnapshotBuilder` | entities with dirty components and the frames built of them for each client |
| `SnapshotBuffer` | the client's ring of frames, and the pair of frames a sample is made of |
| `SnapshotStream` | builder and buffers joined by a channel that loses and reorders |
| `NpcSync` | `AIAuthorityController` on the server and its observers, packets and heartbeats in between |
| `GameEventQueue` | `GameEventQueue`: the events, in order, and the clients that are ignored |
| `AntiCheat` | scores, the list of cheaters, `KickCheaters()` |
| `ServerFrame` | the game server: callbacks of network threads between the steps of the game thread's frame |
| `ServerSessionProofs`, `SessionSystemProofs`, `ClientLinkProofs`, `RateLimiterProofs`, `InputProofs`, `SnapshotProofs`, `NpcProofs`, `ServerFrameProofs` | the TLAPS proofs, each about the module it is named for (`ServerSessionProofs` also about `SessionHistory`, `InputProofs` about `InputSystem`, `SnapshotProofs` about `SnapshotBuilder` and `SnapshotStream`, `NpcProofs` about `NpcSync`) |
| `MC*` | instances for TLC |

### How state and actions correspond to the code

*ServerSession.* `sessionsByClientId`, `clientIdByConnection`,
`clientIdBySessionNonce`, `nextClientId` and `nextSessionNonce` are the fields
of the class. A record's `lastSeen` becomes its `age`, `now - lastSeen`,
saturated above the window, because only that difference is ever read; `Tick`
advances every age. A nonce is the number `makeSessionNonce()` prints, 0 being
the empty string. `pump()` prunes before it polls, so every pump action starts
from `KeptSessions` and `KeptNonces`. `closed` records the connections given
to `transport_.disconnect`, and `inbound` what the transport has delivered on
each: nothing yet, a handshake request, or its loss. Both stand for the
transport's side: it reports nothing after a loss. A client's connection
carries at most one request (`OneRequestPerConnection` checks that in the
composed model), so `FirstRequest` is a precondition on the environment, not
something the server enforces.

*ClientSession.* One record per client with the members of the class;
`reconnectAt_` is kept as the ticks left. Each `Pump...` action first opens
the next connection if the retry is due, as `pump()` does, then handles one
event. The filter on foreign connections is `Current`.

*SessionSystem.* A connection is `unused`, `opening`, `up` or `cut`, and
carries two queues of events, one per end. The server closing a connection
sends a notice and a close with a reason; the client may see both, either, or
a mere close, with any suffix of what was sent before lost (`Closings`, after
`GNSTransport::disconnect` and the linger option). A cut connection is
noticed by each end on its own. `Crash` empties the server and drops its ends.

*RateLimit and PlayerInput.* `allow()` is a function from the state of a bucket
to its next state; `RateLimiter` drives it in true time while the clock it is
given is taken modulo its width. `PlayerInput` has one action per outcome of
`receiveInput()` in the order of its early returns: unknown or kicked client,
malformed, rate limited, wrong checksum or implausible, refused by the buffer,
buffered. A command that fails a check names the check (`fault`), since
checksums and plausibility are arithmetic of no interest to the control logic.
`simulatePending()` serves all clients in one step. A player state holds the
list of the moves applied, each a sequence and its time step, instead of a
position: two states are equal exactly when the same moves made them. The
successor of a sequence wraps at `SequenceModulus`, and the sums of a time and
a window at `ClockModulus`; a client that is not honest sends the largest value
of both. Both ends read one clock, the server to limit and prune, the client to
stamp.
`InputSystem` joins it to clients that do what `ClientPrediction` does. The
loops that simulate a queue and replay what is pending are recursive functions
of the number of commands done (`Simulated`, `Replayed`), and a queue emptied
from the front is what is left of it from the first place that stays
(`FromFirst`). Three histories speak of a client. `lost` is what became of its
refused inputs. It is `steady` while no input is lost, no frame is longer than
the server allows, and it has the body it was given first, at a known time. It
is `prompt` while each input is received in the tick it was sent in, within the
lead the buffer allows of the one before and no denser than the rate limit
allows on average.

*Snapshots.* The value of a component is the number of its last change, 0 when
it is not enabled. `BuildFrames` is a server tick: a frame for every client,
then `clearDirty()` for every entity. Nothing in the library calls
`NetEntity::clearDirty`; the order is that of the repository's test
(`tests/SnapshotSystemTests.cpp:57`) and the only one under which the flags
mean "changed since the last tick". The view of a client is any set of
registered entities. `world` is a history: what a client that got every frame
would have. `SnapshotStream` sends the frames over a channel from which any
frame can be lost or taken in any order, but none twice, and gives every
client the `SnapshotBuffer` the frames are pushed to.

*NpcSync.* `npcs`, `state`, `dirty` are the records of the server,
`age` is `nowMs - lastSyncTimeMs_`, saturated at the longest interval, with
"never" as the longest age. `known` and `copy` are the observers' records. The
repository has no code that sends the packets; they are taken to arrive in
order and a build at a time. `sent`, `served` and `missed` are histories that
only the properties read.

*ServerFrame.* A step is what one thread does between two places where the
other can see or disturb it. `ListClient` and `QueueCreateClient` are the two
halves of `new_client()`. A removal is `Disconnected` (`OnCL_Disconnected()`),
then `client_Destroy()`: `Delist`, `ErasePacket` for each of its packets, which
takes no lock (`RaceOverPackets` is the outcome in which that breaks the list),
and `EraseReports`, which erases the reports about the player
(`xrGame/xrServer.cpp:217`, `xrGame/game_sv_base.cpp:892`) from the queue the
game thread works on. `posting` is the packet of a network thread that holds
`csMessage` and waits for the lock of the delayed packets. The game thread's
`frame` goes through the places `packets`, `events`, `update` and, at the end
of a round, `ignore`. Within the events it is at `attach` between the lookup of
a new client and what is sent to it, which looks again; at `handled` between a
report and the `Release()` after it; and at `release` when the event it handles
has been erased, by `OnRefusedPlayerState` or `EraseReports`. A packet in
`hand` has been taken from the front of `delayed` but not off it.

A client may send its messages in turn or, within a budget, out of turn
(`Takes`): the code asks for nothing but a client that is listed. `stage` is
how far one has come that keeps the order. A hit or a report names any player
(`ReceiveHit(c, d)`): the packet says whose entity hit, and the charge goes to
that entity's owner (`xrGame/xrServer_process_event.cpp:139`,
`xrGame/game_sv_base.cpp:708`, `xrGame/xrServer.cpp:1290`); nobody compares it
with the sender. The server's own game sends them too (`SendOwnMessage`). The
notice that a round has started names the server's map (`started`) or another
one (`elsewhere`), after which `CheckPlayerMapName()` fails and the client stays
ignored.

Steps are merged where no other thread can tell. An event other than a report
is still in front when its handler has ended, unless the handler erases it, so
both are one step: network threads append to the queue and erase reports, no
more. Handlers that send after their first lookup of a client, other than the
one that attaches it, end as if the client had gone before the lookup. The
rules and `KickCheaters()` are one step, since nothing a callback does in
between changes who is kicked. The clients are remote ones, and ids are not
used twice (the engine counts them up). The rules of the gate per message type
are any verdict. The server stops on a failed assertion, a null pointer, an
empty `pop_front()`, a broken list or a deadlock, and `halted` says on which;
the build is one without debug assertions (`VERIFY2` at
`xrGame/game_sv_base.cpp:730`). `liable`, `heard`, `refused`, `parted`, `told`
and `discarded` are histories that only the properties read; `liable` is what
has been sent that a client can be charged for, by whomever. Scores are in
fifths of the code's.

## Runs

| Run | Instance | What it shows |
|---|---|---|
| `server_session` | 4 connections, 3 tokens (one refused), 3 ids, window 2 | the three tables agree, no link is leaked, identities are stable, the directory is implemented, the players the events announce are the attached sessions, the window is kept in full after a loss and not exceeded |
| `window_after_disconnect` | 3 connections, 1 token, window 1 | violated: see Findings |
| `client_link` | 1 client, 2 connections, 4 attempts, delays 1 to 5 | attempt budget, no forgotten link; it connects or gives up |
| `session_system` | 2 clients with their own tokens, 3 connections, 1 fault or kick, 1 crash | agreement of the two ends, ownership also after a restart that reuses nonces, attribution, one request per connection, return to the same id |
| `session_system_live` | 2 clients, one refused, 3 connections, 1 fault, fairness | everything settles, orphan sessions are reclaimed |
| `rate_limiter` | 2 events in 3 ticks, back-off 1 to 3, 14 ticks, half of them before the clock wraps | the limit in every window of true time that does not begin in the last window before the wrap |
| `input_system` | 1 client, honest or not, 3 inputs, 6 ticks, 1 respawn, any delays, fairness | prediction and server agree, also step by step; nothing pending is forgotten, inputs are applied once and in order until the largest sequence is applied, prompt clients are not suspected, pending inputs are resolved |
| `snapshot_stream` | 2 clients, 1 entity of 2 components, 3 ticks, 2 full resends, loss and reordering to one client | differences suffice, no ghosts, one frame of a resend is enough; buffer sorted, newest kept, samples bracketed |
| `npc_sync` | 1 observer, 1 NPC of 3 components, 2 levels of detail, fairness | no change leaves the mask unsent, a served observer is up to date, heartbeats repair |
| `npc_observers` | the same with 2 observers | violated: see Findings |
| `server_frame` | 1 client that joins, 1 that plays, 5 budgets of losses, commands, reports, hits, rounds and messages out of turn, fairness of the game thread | stops are explained, departures are told, no packets of who is gone, nothing is charged twice, kicks come in the frame, joining clients are attached and playing ones heard |
| `release_finds_event` | the same with an empty budget, no fairness | violated: see Findings |

*Bounds.* `MaxClientId` bounds the sessions created, `Connections` the
connections opened, `MaxFaults` the cuts and kicks, `MaxCrashes` the restarts.
A resume that supersedes a live connection needs two connections of one client
and one session; a late loss after it, a third party's id in between, and a
second loss need more connections and two ids. A window of two ticks lets
expiry fall before, at and after the boundary. Four attempts and delays 1, 2,
4, 5 are the code's default ratios and reach the clamp. In `session_system` the
clients have tokens of their own: after a restart nonces are issued again, and
only the token then tells the session of one client from that of another, so
`SessionOwner` would not hold of clients that share one.

`MaxInputs`, `MaxSequence`, `MaxClock`, `MaxSpawns` and `MaxElapsed` bound the
length of the input runs: the queue of two overflows, inputs get older than the
history window, the score passes the threshold of three, and a respawn finds
inputs of the life before in every place they can be. There are five sequences
(`SequenceModulus`), one more than honest inputs need, so that the largest one
is applied and a low one after it. The rate limiter sees its limit, three
strikes and the longest back-off on both sides of the wrap: its clock starts
seven ticks before (`Start`), and the run ends seven after. `MaxStrikes` bounds
its refusals. Three
snapshot ticks with two full resends are a first frame, a repeat and a
difference, or a frame, a gap and a return to view, and overflow a ring of two;
`Listeners` names the client whose channel is followed, the other only shares
the dirty flags. In `npc_sync` `MaxValue` bounds the changes of a component and
`MaxFlight` the builds on their way. In `server_frame` `Budgets` bounds what
happens of its own accord, and each of its five members is a story of its own:
two departures and a command are a removal while a packet of the client and one
of the other are queued; a departure and a report erase the report while it is
handled; a departure and a change of rounds erase, in the worst place, the
events of one that joins or leaves; two hits are a kick by scores; a message
out of turn comes at any point of a client's life. One client joins from the
start, the other plays already, so that every stage of joining meets every
callback of another client. The constants are the code's, divided by five.

*Fairness.* The host calls `pump()` every frame and the clock runs: weak
fairness of each pump and of `Tick`. GameNetworkingSockets reports a failed or
timed-out connection after a bounded time, so opening connections come up or
fail and cut ones are noticed. Nothing is assumed of the game's calls, of new
clients, or of faults; faults are bounded, so that they end. In `input_system`
the server calls `simulatePending()` every frame and the reliable channels
deliver; clients need not act, and their clock may stop. In `npc_sync` the host
builds and applies packets every frame with the observer near the NPCs, as
`Repaired` speaks of one that stays in range. In `server_frame` the game
thread goes on (weak fairness), and network threads and clients finish what
they have begun: they get the lock they wait for, queue the event of a client
they listed, remove a client the server disconnects, and a client told of a
round says when it has started, on whatever map. These may have to wait for a
lock or for another message again and again, each is done a bounded number of
times, and the engine's locks are fair enough for that: strong fairness. No new
client, command, hit, loss or round is assumed to come.

*Symmetry* is used for connections and tokens in safety runs only.

## Proofs

`ServerSessionProofs` proves for `Spec`, for any connections, tokens,
window and id bound: `TypeCorrect`, `DirectoryCorrect`, `NonceIndexCorrect`,
`LinksAccounted`, `IdentityCorrect`, `DirectoryImplemented`. The inductive
invariant `Inv` is the conjunction of the safety invariants, which support
each other, with two facts about the transport: a bound connection has carried
a request, and a closed one is not fresh. Without them a first request on a
fresh connection could find it already bound, and the two indexes would
diverge. `Pruning` says what a prune leaves and is used by every action; then
there is one lemma per outcome of `pump()`, and for the refinement one per
outcome that is not a stutter (`DetachRefines`, `ResumeRefines`,
`CreateRefines`, `DisconnectRefines`).

For `HSpec`, of `SessionHistory`: `PlayersCorrect`, `WindowCorrect` and
`ExpiryCorrect`. The strengthening `Ages` relates the true time since a loss to
the age the server keeps: equal for a session detached by its link, not larger
for one the game disconnected, which is exactly where the finding lies.

`SessionSystemProofs` proves for `SafeSpec`, for any clients and connections
and any number of cuts, kicks and crashes: `ConnectedAgreesCorrect`,
`MessageAttributionCorrect`, `OneRequestCorrect`, `SessionOwnerCorrect` and
`ReturnCorrect`. The inductive invariant has one part for each place where the
two ends can come to disagree: the server's `Inv` and its numbering, nonces
being issued with the ids they belong to (`ServerFits`); a client and the
connection it uses (`ClientFits`); and, for each connection, its stage
(`StageFits`), both of its queues (`ToClientFits`, `ToServerFits`) and the
binding of the two ends (`BindingFits`). The crucial part is `AcceptFits`: an
accept on its way names the id its connection is bound to as long as the link
is up, so what a client is about to believe is still true when it reads it; and
a client that held another id has lost that session for good, since the server
made a new one. `InUse` and `Awaited` say why no event of a connection given up
is ever mistaken for one of the connection in use. `SessionOwnerCorrect` has
the hypothesis that the server does not restart or that tokens differ: after a
restart nonces are issued again, and one client's old nonce is another's new
one, which only the token can tell.

`InputProofs` proves for `SSpec`, for any clients, honest or not, any bounds of
the queues, windows and scores, and any delays. `AppliedInOrderCorrect`,
`PendingAccountedCorrect` and `PredictionAgreesCorrect` come from one invariant
`IInv`: the buffer is ordered whoever fills it (`QueueFits`), so are the moves
made of it from one largest sequence to the next (`MovesFit`), a client's pending inputs are numbered in order
(`HistoryFits`), and the newest message on the way to a client holds the state
the server has (`AgreeFits`), so that with none on its way what the client
replayed last was that state. `Replayed` and `Simulated` are recursive
functions: the library's induction theorems cannot be instantiated by the
provers, so induction is derived from well-foundedness for a set instead of a
predicate (`NatSet`), and the existence of the recursive function from that.

`PromptNotSuspectedCorrect` has the hypothesis `NeverWraps`, that the clock
does not reach its width during the run. Its invariant `PInv` chains a prompt
client's inputs from the server's buffer over the channel to its last frame
(`ChainFits`): each follows the one before within the lead, and the times the
rate limiter remembers are `Spaced`, so that no window holds more than
`MaxEvents` of them. That inputs be a tick apart is enough only on the instance
TLC checks, with two events allowed in two ticks; the density that `prompt`
asks for is what the rule of the limiter grants for every limit and window.

`PredictionExactCorrect`, without a hypothesis: `SInv` says of a steady client
that there is a function `time` that gives when each of its inputs was issued,
such that what the server has simulated, has queued, and what is still on the
way are consecutive parts of the moves the client has predicted
(`InputsFit`), and every correction on the way is of a state the client has
gone through, none older than what it still holds (`CorrectionsFit`). The step
the server makes of a command is the difference of two such times, whatever
tick it is simulated in, which is why bunching and delay do not matter.

`SnapshotProofs` proves for any clients, entities, components and number of
repeats that differences suffice (`DeltasCorrect`), that nothing is left of
what is out of view (`GhostsCorrect`), and that only visible entities are due
full resends (`RepeatsCorrect`). `DeltasSuffice` is not inductive alone: an
entity that comes into view is sent in full, but a component it does not have
must also be absent at the client, which is `NoGhosts`; and a dirty flag must
never speak of a component that is not enabled (`DirtyEnabled`).

The second part is about `SnapshotStream`, for any clients, capacity, loss and
reordering. `BufferCorrect`, `NewestCorrect` and `SamplesCorrect`: the
sequences on a channel are its times, below the next one and each used once
(`ChannelFits`), and a frame received is in the ring or older than `Capacity`
others (`BufferFits`); a late frame is inserted where its sequence belongs
(`InsertKeeps`), and the pair of a sample then encloses its time.
`SyncCorrect` (one frame of a resend is enough) adds `Shown`: since an entity
came into view at sequence `since`, the resends left are the repeats less the
frames since then, and no frame has removed it.

`NpcProofs` proves `ChangesSent`: whatever the levels of detail do, a mask is
only cleared of what a packet carried; the invariant is `CleanMeansSent` with
the types of the server's records. `ServedCorrect` proves `ServedSynced` for
any single observer, under that hypothesis since `npc_observers` refutes it for
two. Its invariant `Brought` follows every component to the newest build on its
way that carries it.

`ClientLinkProofs` proves `OneLink` and `BudgetKept`. The invariant `Fits`
relates a client's record, the phases of its connections and the number it has
opened since its last accept: it has used an attempt for each of these but one,
and for each while it waits to retry.

`RateLimiterProofs` proves `LimitHolds` for a clock that starts anywhere and
wraps any number of times. The invariant `Remembers`: the window of the limiter
is the tail of the true admissions as the clock showed them, and what is
missing in front of it has run out: it is a whole window old, or it came in the
last window before a wrap. That what the clock shows to be old is old
(`OldOnTheClock`) is arithmetic over the whole turns of the clock.

`ServerFrameProofs` proves, for any clients, scores and budgets, that stops are
explained (`HaltsCorrect`), that departures are told (`DeparturesCorrect`),
that no packet outlives its client (`NoOrphans`), that kicks come in the frame
(`KicksCorrect`), and that nothing is charged twice (`ScoresEarned`). Clients
may keep no order at all, so the invariant `IInv` rests on what the code asks
for: that a client is listed before anything is taken from it. A queue holds
answers only of clients that have been heard, and reports only about players
(`EventsFit`); packets belong to clients that have been heard and are not
removed (`PacketsFit`); the packet in hand is still there or such a client has
left (`HandFits`); the event the game thread is at is in front, or the reason
why it is gone has happened (`FrontFits`, `Missed`); a client is listed and
removed once (`ClientsFit`); and one whose score reached the threshold is on the
list of cheaters or being disconnected (`ScoresFit`). The departure that is told
needs no more than the queue itself: its event has no sender, so neither the
erasure of a refused client's events nor the set of ignored clients meets it,
it is no report, and `DepartureTold` is inductive with the types. Erasing leaves
the elements of a queue in order (`KeptWithin`), so what holds of every element
still holds. For `ScoresEarned`, `KInv` counts what still waits: a score, with
the packets, hits and answers of its client that wait to be charged for, is
covered by what has been sent (`Covered`). The packet in hand no longer waits,
so popping another one loses nothing. The hypothesis `HitsCovered` says that
the hit authority adds no more for a hit than its caller does after it, as in
the code. The theorem bounds a charge by the hits that name the client's
entity; it cannot say that the client sent them (see Findings).

The assumptions are the named ASSUMEs of the modules: the null connection is
no connection, the window is a natural number, and so on; TLC evaluates them.
Four theorems have a hypothesis of their own: `ServedCorrect` (`OneObserver`),
`PromptNotSuspectedCorrect` (`NeverWraps`), `ScoresEarned` (`HitsCovered`), and
`SessionOwnerCorrect`.

What stays with TLC: all liveness (`GivesUpOrConnects`, `Converges`,
`PendingResolves`, `Repaired`, `AttachedEventually`, `HeardInRound`), which needs
fairness and ENABLED. Every other property of a passing run is proved for every
value of the constants, under the hypotheses named above.

## Findings

* `disconnect()` does not refresh `lastSeen` (`TransportSession.cpp:314-324`),
  while its comment (`TransportSession.h:123`) promises that "the reconnect
  window remains available until it expires". A player disconnected by the
  game later than the window after the handshake loses the session at the next
  pump. `window_after_disconnect` exhibits it; `WindowKeptAfterLinkLoss` shows
  that the same promise holds after a lost link.
* `buildSyncPackets()` is documented to build "for one observer"
  (`AIAuthorityController.h:37`) and clears the dirty mask that all observers
  share (`AIAuthorityController.cpp:86`). The second observer of a frame gets
  no packet for the change (`npc_observers`).
* `Release()` asserts that there is an event
  (`xrGame/game_sv_event_queue.cpp:126`). `CheckNewPlayer()` erases every event
  of the client it refuses (`xrGame/game_sv_base.cpp:807-813`), the one being
  handled with them; the queue may then be empty, or another client's event is
  taken off unread (`release_finds_event`). `client_Destroy()` can do the same
  from a network thread: it erases the reports of kills and hits about the
  player that leaves, the one being handled with them
  (`xrGame/xrServer.cpp:217`, `xrGame/game_sv_base.cpp:892-896`). The models
  know no third way (`HaltsExplained`), and `DepartureTold` says what a stray
  release can cost.

Read in the code while modelling, without a run of their own.

In the library: `SnapshotBuffer::sample()` takes entities and components from
two frames only (`SnapshotBuffer.cpp:100-128`), but frames are differences, so
an entity that did not change disappears from the sample although no frame was
lost; what the frames do add up to is `DeltasSuffice`, and no code of the
library adds them up. The sum in
`RateLimiter.cpp:23` wraps with the 32-bit clock, so in the last window before
the wrap everything admitted is forgotten at once (the exception in
`WindowLimit`); afterwards a `blockedUntil` or a time of before the wrap lies in
the future, and a client that was blocked or at its limit is refused until the
clock comes round to it. `InputBuffer::push` skips all checks when the queue is
empty, as it is after every simulation, so only `replayFrom` keeps a processed
sequence from being applied again, and that fails once: the successor of the
last sequence applied is taken in 32 bits (`ServerPlayerController.cpp:107`), so
a client that gets the largest one applied can have any sequence applied again
and in any order (the exception in `AppliedInOrder`). The sums of times in
`InputBuffer.cpp:28` and `:35` wrap too, so a command whose time is near the
largest passes a check it should not, or the reverse. A frame inserted late is
not followed by a trim (`SnapshotBuffer.cpp:20-27`), so the ring outgrows its
capacity until the next frame in order.

In the game server: of the handlers of delayed events and packets only the one
that attaches a client asks whether it is still there
(`xrGame/game_sv_base.cpp:731`; without asking: 743, 749, and
`xrGame/xrServer.cpp:442`), and what that one then sends looks the client up
again without asking (`xrNetServer/NET_Server.cpp:631`), so a client that leaves
at the right moment stops the server; `HaltsExplained` says who can. No stage of
joining is enforced: whoever is listed may send any message
(`xrGame/xrServer.cpp:500-741`). The game thread holds the lock of
the delayed packets when a console command enters `csMessage`
(`xrGame/xrServer.cpp:1048`), and a network thread holds `csMessage` when it
queues a packet: both wait for ever (`halted = "locks"`). A client listed
before its event is queued can be blocked by a round that ends in between, and
is then never attached (`AttachedEventually` follows only an event that was
queued). A client whose notice of a round names another map stays ignored for
the round: `CheckPlayerMapName()` (`xrGame/game_sv_mp.cpp:389-392`, 436-449)
says so in the log and does nothing else (the exception in `HeardInRound`). The
event of a hit has no sender, so it is not ignored while its client is blocked.
A refused hit is charged to the owner of the entity its packet names
(`xrGame/game_sv_base.cpp:708-709`, `xrGame/xrServer.cpp:1290-1324`), which
nobody compares with the sender: a client can be charged, and kicked, for hits
that others or the server's own game have sent. `KickEarned` therefore counts
the hits that name a client's entity, not the ones it has sent. Hits that name a
departed client's entity are not dropped, so they are still charged.

## Deviations

Operators named `X_Something` next to an operator `X` are deviations: the form
the code would have with one plausible mistake in it (a dropped reset, a guard
left out, an index not updated). No specification uses them. Each property is
checked to fail when `X` is replaced by its deviation, which shows that the
property speaks about the code and that the instance is large enough to reach
the mistake; the pairs are in `PROJECT.json`.

## Not modelled

* Byte and bit encodings (`ByteStream`, `BitStream`, `NetMessageCodec`,
  `SnapshotSerializer`): the identity on the fields they carry but for
  quantisation, which the models leave out.
* The geometry of hits, movement and interpolation: floating-point arithmetic.
* `AssetIntegrityCheck`: a computation over files.
* Script replication (`SyncVar`, `NetRpc`): registered variables with dirty
  flags that one collection clears for all, as in `NpcSync`; a late joiner gets
  nothing. Left for a later module.
* The rewind history of `HitValidator`: the server makes a validator for each
  hit, so the history never holds more than the pose of the moment.
* Of the game server: the rules per message type (they are any verdict), the
  manifest of assets, updates and spawns of entities, votes, chat, screenshots,
  the local client, migration, and file transfers that wait as delayed packets.
  A client that puts one of the game's own event types (`CREATE_CLIENT`,
  `PLAYER_DISCONNECTED`, `ON_HIT`) into a `GE_GAME_EVENT` is not modelled; the
  reports and the notice are.
* Memory under a race: an erased event or packet may be used again, or freed,
  while the game thread still reads it. The models keep what it has read, and
  take two threads inside the list of packets as an outcome that stops the
  server.
* The wrap of the host's own clock in `PlayerInput` (`RateLimiter` has it), and
  the drift between the clocks of the two hosts.
* Metrics, logs, error texts; `RateLimiter::reset`, `SuspicionTracker::clear`,
  `NpcNetworkLodPolicy::reset` and `EntityRegistry::clear`, which have no
  caller.
* The upstream engine, its tools and its vendored libraries.

## Plan

Done: the session core with its abstract directory, composition and proofs;
the rate limiter; the input authority with prediction; snapshots from the
builder to the samples; NPC authority; the game server's frame with its event
queue and scores. Every invariant the passing runs check is proved. What is
left, in this order:

1. The refinement of the abstract directory by the server inside
   `SessionSystem`, with a crash as a step of the directory that forgets all.
2. Script replication (`ScriptReplication`): registered variables and RPCs,
   outgoing deltas, dispatch; abstractly, a log that every client applies in
   order.
3. `EntityRegistry::clear` in `SnapshotBuilder`, and the ids it starts again.
