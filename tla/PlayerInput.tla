----------------------------- MODULE PlayerInput -----------------------------
(***************************************************************************)
(* ServerPlayerController with its InputBuffer, SuspicionTracker and       *)
(* RateLimiter: one action per outcome of receiveInput() and               *)
(* processHitRequest(), one for simulatePending(), which serves every      *)
(* client.  Sequences, and the sums of times a client or the limits bring  *)
(* in, have the code's width and wrap; the host's own clock, and the       *)
(* simulation times that follow it, do not reach theirs in a run.          *)
(***************************************************************************)
EXTENDS InputCommand, RateLimit

CONSTANTS
    Clients,
    Capacity,               \* InputBufferConfig::perClientCapacity
    MaxHistory,             \* InputBufferConfig::maxHistoryMs
    MaxClientLead,          \* InputBufferConfig::maxClientLeadMs
    FirstInputDelta,        \* ServerPlayerControllerConfig::firstInputDeltaMs
    MaxClientDelta,         \* MovementConfig::maxClientDeltaMs
    KickThreshold,          \* SuspicionConfig::kickThreshold
    InvalidChecksumScore, InvalidInputScore, RateLimitScore, InvalidHitScore,
    SequenceModulus         \* net::Sequence: 2^32 in the code

ASSUME PlayerInputAssumption ==
    /\ SequenceModulus \in Nat \ {0}
    /\ {MaxHistory, MaxClientLead} \subseteq Nat
    /\ {Capacity, FirstInputDelta, MaxClientDelta, KickThreshold} \subseteq Nat \ {0}
    /\ {InvalidChecksumScore, InvalidInputScore, RateLimitScore, InvalidHitScore} \subseteq Nat

VARIABLES
    players,      \* clients_: the state of every registered client
    queues,       \* inputBuffer_: the commands of every client, oldest first
    suspicion,    \* suspicionTracker_: every client's score
    limiters,     \* rateLimiter_: every client's "input" bucket
    clock         \* the host's milliseconds, as the caller passes them

vars == <<players, queues, suspicion, limiters, clock>>

Init ==
    /\ players = << >>
    /\ queues = [c \in Clients |-> << >>]
    /\ suspicion = [c \in Clients |-> 0]
    /\ limiters = [c \in Clients |-> Fresh]

------------------------------------------------------------------------------
(* InputBuffer. *)

\* Deviation: the lead is counted from one tick earlier.
Pushable_StrictLead(queue, command) ==
    queue # << >> =>
        LET newest == Last(queue) IN
        /\ command.sequence > newest.sequence
        /\ Wrapped(command.timestamp + MaxHistory) >= newest.timestamp
        /\ command.timestamp < Wrapped(newest.timestamp + MaxClientLead)

\* Nothing is asked of a command when the queue is empty.
Pushable(queue, command) ==
    queue # << >> =>
        LET newest == Last(queue) IN
        /\ command.sequence > newest.sequence
        /\ Wrapped(command.timestamp + MaxHistory) >= newest.timestamp
        /\ command.timestamp <= Wrapped(newest.timestamp + MaxClientLead)

push(queue, command) ==
    LET grown == Append(queue, [sequence |-> command.sequence, timestamp |-> command.timestamp,
                                received |-> clock])
    IN SubSeq(grown, Max({1, Len(grown) - Capacity + 1}), Len(grown))

prune(queue) ==
    FromFirst(queue, {i \in DOMAIN queue : Wrapped(queue[i].received + MaxHistory) >= clock})

\* Deviation: everything queued is replayed, stale sequences too.
replayFrom_All(queue, first) == queue

\* Deviation: the replay begins one sequence later.
replayFrom_SkipsNext(queue, first) ==
    FromFirst(queue, {i \in DOMAIN queue : queue[i].sequence > first})

\* Sequences increase along a queue, so the commands to replay are its end.
replayFrom(queue, first) ==
    FromFirst(queue, {i \in DOMAIN queue : queue[i].sequence >= first})

acknowledge(queue, last) ==
    FromFirst(queue, {i \in DOMAIN queue : queue[i].sequence > last})

------------------------------------------------------------------------------
isKicked(c) == suspicion[c] >= KickThreshold

addSuspicion(c, score) == suspicion' = [suspicion EXCEPT ![c] = @ + score]

registerPlayer(c, state) ==
    /\ players' = [d \in DOMAIN players \cup {c} |-> IF d = c THEN state ELSE players[d]]
    /\ UNCHANGED <<queues, suspicion, limiters, clock>>

\* receiveInput() of a client that is unknown or was kicked.
ReceiveIgnored(c) ==
    /\ c \in DOMAIN players => isKicked(c)
    /\ UNCHANGED vars

Judges(c) == c \in DOMAIN players /\ ~isKicked(c)

ReceiveMalformed(c, command) ==
    /\ Judges(c)
    /\ command.fault = "malformed"
    /\ addSuspicion(c, InvalidInputScore)
    /\ UNCHANGED <<players, queues, limiters, clock>>

\* A readable command reaches the rate limiter.
Limits(c, command) ==
    /\ Judges(c)
    /\ command.fault # "malformed"
    /\ limiters' = [limiters EXCEPT ![c] = allow(@, clock)]

ReceiveLimited(c, command) ==
    /\ Limits(c, command)
    /\ ~Allowed(limiters[c], clock)
    /\ addSuspicion(c, RateLimitScore)
    /\ UNCHANGED <<players, queues, clock>>

ReceiveFaulty(c, command) ==
    /\ Limits(c, command)
    /\ Allowed(limiters[c], clock)
    /\ \/ command.fault = "checksum" /\ addSuspicion(c, InvalidChecksumScore)
       \/ command.fault = "implausible" /\ addSuspicion(c, InvalidInputScore)
    /\ UNCHANGED <<players, queues, clock>>

ReceiveRefused(c, command) ==
    /\ Limits(c, command)
    /\ Allowed(limiters[c], clock)
    /\ command.fault = "none"
    /\ ~Pushable(queues[c], command)
    /\ addSuspicion(c, InvalidInputScore)
    /\ UNCHANGED <<players, queues, clock>>

ReceiveBuffered(c, command) ==
    /\ Limits(c, command)
    /\ Allowed(limiters[c], clock)
    /\ command.fault = "none"
    /\ Pushable(queues[c], command)
    /\ queues' = [queues EXCEPT ![c] = push(@, command)]
    /\ UNCHANGED <<players, suspicion, clock>>

\* receiveInput() that returns false.
ReceiveInputFails(c, command) ==
    \/ ReceiveIgnored(c)
    \/ ReceiveMalformed(c, command)
    \/ ReceiveLimited(c, command)
    \/ ReceiveFaulty(c, command)
    \/ ReceiveRefused(c, command)

ReceiveInput(c, command) ==
    \/ ReceiveInputFails(c, command)
    \/ ReceiveBuffered(c, command)

\* processHitRequest(): a shot for another entity, or one the validators
\* refuse.  An accepted one changes nothing here.
RefuseHit(c, shooter, verdict) ==
    /\ Judges(c)
    /\ shooter # players[c].actorId \/ verdict = "refused"
    /\ addSuspicion(c, InvalidHitScore)
    /\ UNCHANGED <<players, queues, limiters, clock>>

------------------------------------------------------------------------------
\* Deviation: the step is counted from when the command was received.
ServerDelta_ByArrival(state, command) ==
    CASE state.simulationTime = 0 -> FirstInputDelta
      [] state.simulationTime # 0 /\ command.received > state.simulationTime ->
            Min({command.received - state.simulationTime, MaxClientDelta})
      [] OTHER -> 1

ServerDelta(state, command) ==
    CASE state.simulationTime = 0 -> FirstInputDelta
      [] state.simulationTime # 0 /\ command.timestamp > state.simulationTime ->
            Min({command.timestamp - state.simulationTime, MaxClientDelta})
      [] OTHER -> 1

Simulated(state, commands) ==
    LET after[n \in 0..Len(commands)] ==
            IF n = 0 THEN state
            ELSE LET s == after[n - 1]
                 IN simulatePlayerState(s, commands[n], ServerDelta(s, commands[n]))
    IN after[Len(commands)]

\* The successor of the largest sequence is 0.
NextSequence(sequence) == (sequence + 1) % SequenceModulus

Pending(c) == replayFrom(prune(queues[c]), NextSequence(players[c].lastProcessedSequence))

\* The clients simulatePending() advances, and sends a correction each.
Advances(c) == Judges(c) /\ Pending(c) # << >>

SimulatePending ==
    /\ players' = [c \in DOMAIN players |->
                     IF Advances(c) THEN Simulated(players[c], Pending(c)) ELSE players[c]]
    /\ queues' = [c \in Clients |->
                    IF Advances(c)
                    THEN acknowledge(prune(queues[c]), players'[c].lastProcessedSequence)
                    ELSE prune(queues[c])]
    /\ UNCHANGED <<suspicion, limiters, clock>>

Tick ==
    /\ clock' = clock + 1
    /\ UNCHANGED <<players, queues, suspicion, limiters>>

------------------------------------------------------------------------------
\* The tables' domains, and the capacity of every queue.
TypeOK ==
    /\ DOMAIN players \subseteq Clients
    /\ \A c \in DOMAIN players :
          players[c].simulationTime \in Nat /\ players[c].lastProcessedSequence \in Nat
    /\ \A c \in Clients : Len(queues[c]) <= Capacity
    /\ suspicion \in [Clients -> Nat]
    /\ \A c \in Clients : Len(limiters[c].timestamps) <= MaxEvents

\* An input is applied at most once and in the order of the sequences, for
\* duplicates, rewinds and gaps, until the largest sequence is applied: its
\* successor wraps (ServerPlayerController.cpp:107), and the code, which checks
\* nothing of a command for an empty queue, starts again from any sequence.
AppliedInOrder ==
    \A c \in DOMAIN players :
        LET moves == players[c].moves IN
        \A i, j \in DOMAIN moves :
            i < j => \/ moves[i][1] < moves[j][1]
                     \/ \E k \in i..j - 1 : NextSequence(moves[k][1]) <= moves[k][1]

==============================================================================
