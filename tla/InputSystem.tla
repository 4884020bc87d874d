----------------------------- MODULE InputSystem -----------------------------
(***************************************************************************)
(* Clients that predict their own inputs and the server that judges them,  *)
(* joined by two reliable, ordered channels each: inputs travel one way,   *)
(* corrections and spawns the other.  Honest clients number their inputs,  *)
(* stamp them with the shared clock and predict with the time since their  *)
(* last frame.  The others send any input and hit at any time.             *)
(***************************************************************************)
EXTENDS PlayerInput

CONSTANTS
    MaxInputs,     \* bound: inputs a client issues
    MaxSpawns,     \* bound: times a client is registered
    MaxClock,      \* bound: length of the run
    MaxSequence    \* bound: sequences and times the other clients make up

ASSUME InputSystemAssumption ==
    /\ {MaxInputs, MaxSpawns, MaxSequence} \subseteq Nat /\ MaxClock \in Nat \ {0}
    /\ MaxInputs < SequenceModulus - 1    \* no run of an honest client reaches the last sequence

VARIABLES
    honest,      \* the honest clients
    predicted, history,
    uplink,      \* inputs on their way to the server
    downlink,    \* corrections and spawns on their way to the client
    issued,      \* number of the client's last input
    lastFrame,   \* when the client issued its last input
    lost,        \* history: the inputs the server refused or dropped
    steady,      \* history: nothing has happened that prediction cannot foresee
    prompt       \* history: no input was late at the server, long in coming or early, in the first life

Client == INSTANCE ClientPrediction

systemVars == <<vars, honest, predicted, history, uplink, downlink, issued, lastFrame, lost,
                steady, prompt>>

SInit ==
    /\ Init
    /\ clock = 1
    /\ honest \in SUBSET Clients
    /\ predicted = [c \in Clients |-> PlayerState(0, 0)]
    /\ history = [c \in Clients |-> << >>]
    /\ uplink = [c \in Clients |-> << >>]
    /\ downlink = [c \in Clients |-> << >>]
    /\ issued = [c \in Clients |-> 0]
    /\ lastFrame = [c \in Clients |-> 0]
    /\ lost = [c \in Clients |-> {}]
    /\ steady = [c \in Clients |-> TRUE]
    /\ prompt = [c \in Clients |-> TRUE]

------------------------------------------------------------------------------
\* The messages of the channel downlink.
Correction(state) == [kind |-> "correction", body |-> PlayerCorrection(state)]
Spawned(state) == [kind |-> "spawn", body |-> state]

Sent(channel, c, message) == [channel EXCEPT ![c] = Append(@, message)]
Taken(channel, c) == [channel EXCEPT ![c] = Tail(@)]

\* The game gives a client a body, with or without the time it starts at.
Spawn(c) ==
    LET actorId == IF c \in DOMAIN players THEN players[c].actorId + 1 ELSE 1 IN
    /\ actorId <= MaxSpawns
    /\ \E time \in {0, clock} :
          /\ registerPlayer(c, PlayerState(actorId, time))
          /\ downlink' = IF c \in honest
                         THEN Sent(downlink, c, Spawned(PlayerState(actorId, time)))
                         ELSE downlink
          /\ steady' = [steady EXCEPT ![c] = time # 0 /\ actorId = 1 /\ c \in honest]
          /\ prompt' = [prompt EXCEPT ![c] = actorId = 1 /\ c \in honest]
    /\ UNCHANGED <<honest, predicted, history, uplink, issued, lastFrame, lost>>

\* A frame of a client that has a body.
Frame(c) ==
    LET command == InputCmd(issued[c] + 1, clock, "none")
        dt == clock - lastFrame[c] IN
    /\ predicted[c].actorId # 0
    /\ issued[c] < MaxInputs
    /\ dt > 0
    /\ Client!predict(c, command, dt)
    /\ uplink' = Sent(uplink, c, command)
    /\ issued' = [issued EXCEPT ![c] = @ + 1]
    /\ lastFrame' = [lastFrame EXCEPT ![c] = clock]
    /\ steady' = [steady EXCEPT ![c] = @ /\ dt <= MaxClientDelta]
    /\ prompt' = [prompt EXCEPT ![c] = @ /\ dt <= MaxClientLead /\ dt * MaxEvents >= Window]
    /\ UNCHANGED <<vars, honest, downlink, lost>>

\* The sequences of the commands in a queue or on the uplink.
Sequences(commands) == {commands[i].sequence : i \in DOMAIN commands}

Deliver(c) ==
    /\ uplink[c] # << >>
    /\ LET command == Head(uplink[c]) IN
       /\ \/ /\ ReceiveInputFails(c, command)
             /\ lost' = [lost EXCEPT ![c] = @ \cup {command.sequence}]
          \/ /\ ReceiveBuffered(c, command)
             /\ lost' = [lost EXCEPT ![c] = @ \cup (Sequences(queues[c]) \ Sequences(queues'[c]))]
       /\ steady' = [steady EXCEPT ![c] = @ /\ lost'[c] = {}]
       /\ prompt' = [prompt EXCEPT ![c] = @ /\ command.timestamp = clock]
    /\ uplink' = Taken(uplink, c)
    /\ UNCHANGED <<honest, predicted, history, downlink, issued, lastFrame>>

\* What a client that is not honest may send: any sequence and time, the largest
\* of both included, and commands that are malformed, altered or implausible.
Forgeries ==
    {InputCmd(n, t, "none") : n \in 0..MaxSequence \cup {SequenceModulus - 1},
                              t \in 1..MaxSequence - 1 \cup {ClockModulus - 1}}
        \cup {InputCmd(1, 1, fault) : fault \in {"malformed", "checksum", "implausible"}}

Forge(c) ==
    /\ c \notin honest
    /\ clock <= MaxSequence
    /\ \/ \E command \in Forgeries : ReceiveInput(c, command)
       \/ \E shooter \in 1..MaxSpawns, verdict \in {"accepted", "refused"} :
             RefuseHit(c, shooter, verdict)
    /\ UNCHANGED <<honest, predicted, history, uplink, downlink, issued, lastFrame, lost, steady, prompt>>

ServerTick ==
    /\ SimulatePending
    /\ downlink' = [c \in Clients |-> IF c \in honest /\ Advances(c)
                                      THEN Append(downlink[c], Correction(players'[c]))
                                      ELSE downlink[c]]
    /\ lost' = [c \in Clients |-> IF c \in honest
                                  THEN lost[c] \cup (Sequences(queues[c]) \ Sequences(prune(queues[c])))
                                  ELSE {}]
    /\ steady' = [c \in Clients |-> steady[c] /\ lost'[c] = {}]
    /\ UNCHANGED <<honest, predicted, history, uplink, issued, lastFrame, prompt>>

Correct(c) ==
    /\ downlink[c] # << >>
    /\ LET message == Head(downlink[c]) IN
       \/ /\ message.kind = "correction"
          /\ Client!reconcile(c, message.body)
          /\ UNCHANGED lastFrame
       \/ /\ message.kind = "spawn"
          /\ Client!reset(c, message.body)
          /\ lastFrame' = [lastFrame EXCEPT ![c] = IF message.body.simulationTime = 0
                                                   THEN clock
                                                   ELSE message.body.simulationTime]
    /\ downlink' = Taken(downlink, c)
    /\ UNCHANGED <<vars, honest, uplink, issued, lost, steady, prompt>>

ClockTick ==
    /\ clock < MaxClock
    /\ Tick
    /\ UNCHANGED <<honest, predicted, history, uplink, downlink, issued, lastFrame, lost, steady, prompt>>

SNext ==
    \/ \E c \in Clients : Spawn(c) \/ Frame(c) \/ Deliver(c) \/ Correct(c) \/ Forge(c)
    \/ ServerTick
    \/ ClockTick

\* Both hosts run their frame loops, and the channels are reliable.
Fairness ==
    /\ WF_systemVars(ServerTick)
    /\ \A c \in Clients : WF_systemVars(Deliver(c)) /\ WF_systemVars(Correct(c))

SSpec == SInit /\ [][SNext]_systemVars

FairSpec == SSpec /\ Fairness

------------------------------------------------------------------------------
\* The server replays exactly what the client predicted (InputCommand.h:85:
\* "the same rules on the client and the server"), so no correction is ever
\* visible, as long as frames are no longer than the server allows and no input
\* is lost, however late and bunched inputs and corrections come.
PredictionExact ==
    \A c \in honest \cap DOMAIN players :
        steady[c] /\ predicted[c].actorId # 0 => IsPrefix(players[c].moves, predicted[c].moves)

\* With no correction on its way, a client shows the server's state and its own
\* pending inputs on top, whatever was refused, capped or respawned before.
PredictionAgrees ==
    \A c \in honest \cap DOMAIN players :
        downlink[c] = << >> => predicted[c] = Client!Replayed(players[c], history[c])

\* Every pending input of a client is still on its way, or queued, or covered
\* by a correction on its way, or was refused or dropped: none is forgotten.
PendingAccounted ==
    \A c \in Clients : \A i \in DOMAIN history[c] :
        LET n == history[c][i].command.sequence IN
        \/ n \in Sequences(uplink[c]) \cup Sequences(queues[c]) \cup lost[c]
        \/ \E k \in DOMAIN downlink[c] :
              downlink[c][k].kind = "correction" /\ n <= downlink[c][k].body.lastProcessedSequence

\* A client whose inputs come in time, with no gap longer than the lead the
\* input buffer allows and none so short that the rate limiter's window could
\* hold more than MaxEvents of them, is never suspected.
PromptNotSuspected == \A c \in honest : prompt[c] => suspicion[c] = 0

\* Pending inputs are resolved, unless the client was kicked or its last input
\* was lost: then only the next accepted one covers it.
PendingResolves ==
    \A c \in Clients :
        history[c] # << >> ~>
            history[c] = << >> \/ isKicked(c) \/ Last(history[c]).command.sequence \in lost[c]
==============================================================================
