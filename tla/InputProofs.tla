----------------------------- MODULE InputProofs ------------------------------
(***************************************************************************)
(* Proofs about InputSystem: what holds of a client's inputs between its   *)
(* prediction and the server's state, for any clients, buffer capacity,    *)
(* windows, rates and scores, honest clients or not, and any delay of the  *)
(* two channels.                                                           *)
(***************************************************************************)
EXTENDS InputSystem, WellFoundedInduction, SequenceTheorems, TLAPS

Faults == {"none", "malformed", "checksum", "implausible"}

Commands == [sequence : Nat, timestamp : Nat, fault : Faults]

Moves == Seq(Nat \X Nat)

States == [actorId : Nat, simulationTime : Nat, lastProcessedSequence : Nat, moves : Moves]

\* The state of a client that has been given a body.
Bodies == {state \in States : state.actorId # 0}

Buffered == [sequence : Nat, timestamp : Nat, received : Nat]

Predictions == [command : Commands, dt : Nat]

Messages ==
    [kind : {"correction"}, body : [state : Bodies, lastProcessedSequence : Nat]]
        \cup [kind : {"spawn"}, body : Bodies]

Typed ==
    /\ clock \in Nat \ {0}
    /\ DOMAIN players \subseteq Clients
    /\ \A c \in DOMAIN players : players[c] \in Bodies
    /\ queues \in [Clients -> Seq(Buffered)]
    /\ suspicion \in [Clients -> Nat]
    /\ DOMAIN limiters = Clients
    /\ honest \subseteq Clients
    /\ predicted \in [Clients -> States]
    /\ history \in [Clients -> Seq(Predictions)]
    /\ uplink \in [Clients -> Seq(Commands)]
    /\ downlink \in [Clients -> Seq(Messages)]
    /\ issued \in [Clients -> 0..MaxInputs]
    /\ lastFrame \in [Clients -> Nat]
    /\ lost \in [Clients -> SUBSET Nat]
    /\ steady \in [Clients -> BOOLEAN]
    /\ prompt \in [Clients -> BOOLEAN]

\* In the order of the sequences.
Ordered(queue) ==
    \A i, j \in 1..Len(queue) : i < j => queue[i].sequence < queue[j].sequence

\* The server's buffer is, whoever fills it.
QueueFits(c) == Ordered(queues[c])

\* The successor of sequence wraps.
LastSequence(sequence) == NextSequence(sequence) <= sequence

\* So are the moves it has made of them, from one wrap to the next, and the
\* newest is acknowledged.
MovesInOrder(state) ==
    /\ \A i, j \in DOMAIN state.moves :
          i < j => \/ state.moves[i][1] < state.moves[j][1]
                   \/ \E k \in i..j - 1 : LastSequence(state.moves[k][1])
    /\ state.moves # << >> =>
          state.moves[Len(state.moves)][1] = state.lastProcessedSequence

MovesFit(c) == c \in DOMAIN players => MovesInOrder(players[c])

\* Nothing has happened to a client that was never given a body.
NewcomerFits(c) ==
    c \notin DOMAIN players =>
        /\ predicted[c].actorId = 0 /\ issued[c] = 0
        /\ history[c] = << >> /\ uplink[c] = << >> /\ downlink[c] = << >>
        /\ queues[c] = << >> /\ suspicion[c] = 0 /\ limiters[c] = Fresh

\* A client that is not honest does not use what the honest ones run.
OutsiderFits(c) ==
    c \notin honest =>
        /\ predicted[c].actorId = 0
        /\ history[c] = << >> /\ uplink[c] = << >> /\ downlink[c] = << >>

\* What a client has issued is numbered, and so is what waits for a correction.
HistoryFits(c) ==
    /\ \A i, j \in DOMAIN history[c] :
          i < j => history[c][i].command.sequence < history[c][j].command.sequence
    /\ \A i \in DOMAIN history[c] : history[c][i].command.sequence <= issued[c]

\* Where input n of client c is.
Accounted(c, n) ==
    \/ n \in Sequences(uplink[c]) \cup Sequences(queues[c]) \cup lost[c]
    \/ \E k \in DOMAIN downlink[c] :
          downlink[c][k].kind = "correction" /\ n <= downlink[c][k].body.lastProcessedSequence

PendingFits(c) == \A i \in DOMAIN history[c] : Accounted(c, history[c][i].command.sequence)

\* The state a message makes a client start from.
StateOf(message) == IF message.kind = "correction" THEN message.body.state ELSE message.body

\* The newest message tells the server's state; with none on its way the client
\* has replayed its pending inputs on that.
AgreeFits(c) ==
    c \in honest /\ c \in DOMAIN players =>
        IF downlink[c] = << >> THEN predicted[c] = Client!Replayed(players[c], history[c])
        ELSE StateOf(Last(downlink[c])) = players[c]

ClientFits(c) ==
    /\ QueueFits(c) /\ MovesFit(c) /\ NewcomerFits(c) /\ OutsiderFits(c)
    /\ HistoryFits(c) /\ PendingFits(c) /\ AgreeFits(c)

\* The inductive invariant of what holds for every client.
IInv == Typed /\ \A c \in Clients : ClientFits(c)

------------------------------------------------------------------------------
(* Prompt clients. *)

\* Two inputs a prompt client sends one after the other.
Follows(earlier, later) ==
    /\ later.sequence > earlier.sequence
    /\ later.timestamp > earlier.timestamp
    /\ later.timestamp <= earlier.timestamp + MaxClientLead

\* No window of time holds more than MaxEvents of the times.
Spaced(times) ==
    \A i, j \in DOMAIN times : i <= j => (times[j] - times[i]) * MaxEvents >= (j - i) * Window

\* A time far enough after all of them.
After(times, time) ==
    times # << >> => (time - Last(times)) * MaxEvents >= Window

\* Its inputs follow each other from the server's buffer to its last frame.
ChainFits(c) ==
    LET queue == queues[c] sent == uplink[c] times == limiters[c].timestamps
    IN /\ \A i \in DOMAIN sent : sent[i].fault = "none"
       /\ \A i \in DOMAIN sent :
             i + 1 \in DOMAIN sent => /\ Follows(sent[i], sent[i + 1])
                                      /\ (sent[i + 1].timestamp - sent[i].timestamp) * MaxEvents >= Window
       /\ sent # << >> =>
             /\ Last(sent).timestamp = lastFrame[c] /\ Last(sent).sequence = issued[c]
             /\ queue # << >> => Follows(Last(queue), sent[1])
             /\ After(times, sent[1].timestamp)
       /\ sent = << >> =>
             /\ queue # << >> =>
                   Last(queue).timestamp = lastFrame[c] /\ Last(queue).sequence = issued[c]
             /\ times # << >> => Last(times) = lastFrame[c]

PromptFits(c) ==
    /\ c \notin DOMAIN players => lastFrame[c] = 0
    /\ c \in honest /\ prompt[c] =>
          /\ suspicion[c] = 0
          /\ limiters[c] \in [timestamps : Seq(Nat), blockedUntil : {0}, strikes : {0}]
          /\ Spaced(limiters[c].timestamps)
          /\ \A i \in DOMAIN limiters[c].timestamps : limiters[c].timestamps[i] <= clock
          /\ lastFrame[c] <= clock
          /\ IF predicted[c].actorId = 0
             THEN /\ issued[c] = 0 /\ uplink[c] = << >> /\ queues[c] = << >>
                  /\ limiters[c].timestamps = << >>
                  /\ c \in DOMAIN players => /\ downlink[c] = <<Spawned(players[c])>>
                                            /\ players[c].simulationTime <= clock
             ELSE /\ ChainFits(c)
                  /\ \A i \in DOMAIN downlink[c] : downlink[c][i].kind = "correction"

PInv == IInv /\ clock <= MaxClock /\ \A c \in Clients : PromptFits(c)

------------------------------------------------------------------------------
(* Steady clients. *)

\* The inputs of a steady client, of which it has made `count`: number i was
\* issued at time[i], and predicted with the time since the one before.  The
\* server has simulated as many as its body has moves.
InputsFit(body, made, queue, sent, pending, count, time) ==
    LET done == Len(body.moves)
        old == count - Len(pending)
    IN /\ Len(made) = count /\ old \in 0..done
       /\ \A i \in 1..count : made[i][1] = i /\ made[i][2] \in 1..MaxClientDelta
       /\ body.lastProcessedSequence = done
       /\ \A i \in 1..done : body.moves[i] = made[i]
       /\ time \in [0..count -> Nat \ {0}]
       /\ time[done] = body.simulationTime
       /\ \A i \in done + 1..count : time[i] = time[i - 1] + made[i][2]
       /\ count = done + Len(queue) + Len(sent)
       /\ \A i \in 1..Len(queue) :
             queue[i].sequence = done + i /\ queue[i].timestamp = time[done + i]
       /\ \A i \in 1..Len(sent) :
             /\ sent[i].sequence = done + Len(queue) + i
             /\ sent[i].timestamp = time[done + Len(queue) + i]
       /\ \A i \in 1..Len(pending) :
             pending[i].command.sequence = old + i /\ pending[i].dt = made[old + i][2]

\* A correction on its way is of a state the client has gone through, and no
\* older than the inputs it still holds.
CorrectionFits(message, old, done, made) ==
    /\ message.kind = "correction"
    /\ message.body.lastProcessedSequence = Len(message.body.state.moves)
    /\ message.body.lastProcessedSequence \in old..done
    /\ \A i \in 1..Len(message.body.state.moves) : message.body.state.moves[i] = made[i]

\* Corrections come in order.
CorrectionsFit(messages, old, done, made) ==
    /\ \A i \in 1..Len(messages) : CorrectionFits(messages[i], old, done, made)
    /\ \A i, j \in 1..Len(messages) :
          i < j => messages[i].body.lastProcessedSequence <= messages[j].body.lastProcessedSequence

SteadyFits(c) ==
    c \in honest /\ c \in DOMAIN players /\ steady[c] =>
        /\ players[c].simulationTime # 0
        /\ IF predicted[c].actorId = 0
           THEN /\ issued[c] = 0 /\ uplink[c] = << >> /\ queues[c] = << >> /\ history[c] = << >>
                /\ players[c].moves = << >> /\ players[c].lastProcessedSequence = 0
                /\ downlink[c] = <<Spawned(players[c])>>
           ELSE /\ \E time : /\ InputsFit(players[c], predicted[c].moves, queues[c], uplink[c],
                                          history[c], issued[c], time)
                             /\ time[issued[c]] = lastFrame[c]
                /\ CorrectionsFit(downlink[c], issued[c] - Len(history[c]), Len(players[c].moves),
                                  predicted[c].moves)

SInv == IInv /\ \A c \in Clients : SteadyFits(c)

------------------------------------------------------------------------------
(* Queues and folds. *)

\* Induction, with a set for the predicate.
LEMMA NatSet ==
    ASSUME NEW S, 0 \in S, \A n \in Nat : n \in S => n + 1 \in S
    PROVE  \A n \in Nat : n \in S
<1> DEFINE before == {pair \in Nat \X Nat : pair[1] < pair[2]}
           T == Nat \ S
<1>1. IsWellFoundedOn(before, Nat)
  BY NatLessThanWellFounded DEF OpToRel
<1>2. SUFFICES ASSUME T # {}
               PROVE  FALSE
  OBVIOUS
<1> HIDE DEF before, T
<1>3. T \subseteq Nat
  BY DEF T
<1>4. PICK x \in T : \A y \in T : ~ (<<y, x>> \in before)
  BY <1>1, <1>2, <1>3, WFMin
<1>5. x \in Nat /\ x # 0 /\ x \notin S
  BY <1>4 DEF T
<1>6. x - 1 \in Nat /\ (x - 1) + 1 = x
  BY <1>5
<1>7. x - 1 \notin S
  BY <1>5, <1>6
<1>8. x - 1 \in T
  BY <1>6, <1>7 DEF T
<1>9. <<x - 1, x>> \in before
  BY <1>5, <1>6 DEF before
<1> QED
  BY <1>4, <1>8, <1>9

\* The smallest of a set of positions.
LEMMA MinPosition ==
    ASSUME NEW S, S \subseteq Nat, S # {}
    PROVE  Min(S) \in S /\ \A i \in S : Min(S) <= i
<1>1. \E x \in S : \A y \in S : x <= y
  <2> DEFINE before == {pair \in Nat \X Nat : pair[1] < pair[2]}
  <2>1. IsWellFoundedOn(before, Nat)
    BY NatLessThanWellFounded DEF OpToRel
  <2> HIDE DEF before
  <2>2. PICK x \in S : \A y \in S : ~ (<<y, x>> \in before)
    BY <2>1, WFMin
  <2>3. ASSUME NEW y \in S PROVE x <= y
    <3>1. x \in Nat /\ y \in Nat
      OBVIOUS
    <3>2. <<y, x>> \in Nat \X Nat /\ <<y, x>>[1] = y /\ <<y, x>>[2] = x
      BY <3>1
    <3>3. y < x => <<y, x>> \in before
      BY <3>2 DEF before
    <3> QED
      BY <2>2, <3>1, <3>3
  <2> QED
    BY <2>3
<1> QED
  BY <1>1 DEF Min

\* FromFirst drops a prefix that has none of the places in it.
LEMMA FromFirstDrops ==
    ASSUME NEW T, NEW queue \in Seq(T), NEW places, places \subseteq DOMAIN queue
    PROVE  \E d \in 0..Len(queue) :
              /\ FromFirst(queue, places) \in Seq(T)
              /\ Len(FromFirst(queue, places)) = Len(queue) - d
              /\ \A i \in 1..Len(queue) - d : FromFirst(queue, places)[i] = queue[i + d]
              /\ \A i \in 1..d : i \notin places
              /\ d < Len(queue) => d + 1 \in places
<1>1. Len(queue) \in Nat /\ DOMAIN queue = 1..Len(queue)
  BY LenProperties
<1>2. CASE places = {}
  <2>1. FromFirst(queue, places) = << >>
    BY <1>2 DEF FromFirst
  <2>2. << >> \in Seq(T) /\ Len(<< >>) = 0
    BY EmptySeq
  <2>3. PICK d \in 0..Len(queue) : d = Len(queue)
    <3>1. Len(queue) \in 0..Len(queue)
      BY <1>1
    <3> QED
      BY <3>1, Zenon
  <2>4. Len(queue) - d = 0 /\ 1..Len(queue) - d = {} /\ ~ (d < Len(queue))
    BY <1>1, <2>3
  <2> QED
    BY <1>2, <2>1, <2>2, <2>4
<1>3. CASE places # {}
  <2>1. PICK m : m = Min(places)
    OBVIOUS
  <2>2. m \in places /\ \A i \in places : m <= i
    BY <1>1, <1>3, <2>1, MinPosition
  <2>3. m \in 1..Len(queue) /\ m - 1 \in 0..Len(queue) /\ m - 1 + 1 = m
    BY <1>1, <2>2
  <2>4. FromFirst(queue, places) = SubSeq(queue, m, Len(queue))
    BY <1>3, <2>1 DEF FromFirst
  <2>5. \A i \in m..Len(queue) : queue[i] \in T
    BY <1>1, <2>3, ElementOfSeq
  <2>6. /\ SubSeq(queue, m, Len(queue)) \in Seq(T)
        /\ Len(SubSeq(queue, m, Len(queue))) =
               IF m <= Len(queue) THEN Len(queue) - m + 1 ELSE 0
        /\ \A i \in 1..Len(queue) - m + 1 : SubSeq(queue, m, Len(queue))[i] = queue[m + i - 1]
    <3>1. m \in Int /\ Len(queue) \in Int
      BY <1>1, <2>3
    <3> QED
      BY <3>1, <2>5, SubSeqProperties
  <2>7. \A i \in 1..m - 1 : i \notin places
    BY <1>1, <2>2, <2>3
  <2>8. PICK rest : rest = FromFirst(queue, places)
    OBVIOUS
  <2>9. /\ rest \in Seq(T) /\ Len(rest) = Len(queue) - (m - 1)
        /\ \A i \in 1..Len(queue) - (m - 1) : rest[i] = queue[i + (m - 1)]
    <3>1. \A i \in 1..Len(queue) - (m - 1) : i \in 1..Len(queue) - m + 1 /\ m + i - 1 = i + (m - 1)
      BY <1>1, <2>3
    <3>2. Len(rest) = Len(queue) - (m - 1)
      BY <1>1, <2>3, <2>4, <2>6, <2>8
    <3> QED
      BY <2>4, <2>6, <2>8, <3>1, <3>2
  <2>10. PICK d \in 0..Len(queue) : d = m - 1
    BY <2>3
  <2> QED
    BY <2>2, <2>3, <2>7, <2>8, <2>9, <2>10
<1> QED
  BY <1>2, <1>3

\* after[n] is the state once the first n pending inputs are replayed.
Replays(after, state, pending, last) ==
    after = [n \in 0..last |->
                IF n = 0 THEN state
                ELSE Client!simulatePlayerState(after[n - 1], pending[n].command, pending[n].dt)]

LEMMA ReplaysExist ==
    ASSUME NEW state, NEW pending
    PROVE  \A last \in Nat : \E after : Replays(after, state, pending, last)
<1> DEFINE S == {last \in Nat : \E after : Replays(after, state, pending, last)}
<1>1. 0 \in S
  <2>1. Replays([n \in 0..0 |-> state], state, pending, 0)
    BY DEF Replays
  <2> QED
    BY <2>1
<1>2. ASSUME NEW last \in Nat, last \in S
      PROVE  last + 1 \in S
  <2>1. PICK after : Replays(after, state, pending, last)
    BY <1>2
  <2> DEFINE next == Client!simulatePlayerState(after[last], pending[last + 1].command,
                                                pending[last + 1].dt)
             more == [n \in 0..last + 1 |-> IF n = last + 1 THEN next ELSE after[n]]
  <2>2. \A n \in 0..last :
            after[n] = IF n = 0 THEN state
                       ELSE Client!simulatePlayerState(after[n - 1], pending[n].command, pending[n].dt)
    BY <2>1 DEF Replays
  <2>3. \A n \in 0..last : more[n] = after[n]
    OBVIOUS
  <2>4. more[last + 1] = next /\ last + 1 # 0 /\ last + 1 - 1 = last
    OBVIOUS
  <2>5. \A n \in 0..last + 1 :
            more[n] = IF n = 0 THEN state
                      ELSE Client!simulatePlayerState(more[n - 1], pending[n].command, pending[n].dt)
    <3> HIDE DEF more, next
    <3> SUFFICES ASSUME NEW n \in 0..last + 1
                 PROVE  more[n] = IF n = 0 THEN state
                            ELSE Client!simulatePlayerState(more[n - 1], pending[n].command, pending[n].dt)
      OBVIOUS
    <3>1. CASE n = last + 1
      BY <2>3, <2>4, <3>1 DEF next
    <3>2. CASE n # last + 1
      <4>1. n \in 0..last /\ (n # 0 => n - 1 \in 0..last)
        BY <3>2
      <4> QED
        BY <2>2, <2>3, <4>1
    <3> QED
      BY <3>1, <3>2
  <2>6. Replays(more, state, pending, last + 1)
    BY <2>5 DEF Replays
  <2> QED
    BY <2>6
<1> HIDE DEF S
<1>3. \A last \in Nat : last \in S
  BY <1>1, <1>2, NatSet
<1> QED
  BY <1>3 DEF S

\* The inputs replayed one by one.
LEMMA ReplayedFold ==
    ASSUME NEW state, NEW pending, Len(pending) \in Nat
    PROVE  \E after : /\ Replays(after, state, pending, Len(pending))
                      /\ Client!Replayed(state, pending) = after[Len(pending)]
<1> DEFINE run == CHOOSE after : Replays(after, state, pending, Len(pending))
<1>1. Replays(run, state, pending, Len(pending))
  BY ReplaysExist
<1>2. Client!Replayed(state, pending) = run[Len(pending)]
  BY DEF Client!Replayed, Replays
<1> QED
  BY <1>1, <1>2

LEMMA ReplayedEmpty ==
    ASSUME NEW state
    PROVE  Client!Replayed(state, << >>) = state
<1>1. Len(<< >>) = 0
  BY EmptySeq
<1>2. PICK after : Replays(after, state, << >>, 0) /\ Client!Replayed(state, << >>) = after[0]
  BY <1>1, ReplayedFold
<1> QED
  BY <1>2 DEF Replays

LEMMA ReplayedAppend ==
    ASSUME NEW state, NEW pending \in Seq(Predictions), NEW x \in Predictions
    PROVE  Client!Replayed(state, Append(pending, x))
               = Client!simulatePlayerState(Client!Replayed(state, pending), x.command, x.dt)
<1> DEFINE longer == Append(pending, x)
<1>1. /\ Len(pending) \in Nat /\ Len(longer) = Len(pending) + 1
      /\ \A i \in 1..Len(pending) : longer[i] = pending[i]
      /\ longer[Len(pending) + 1] = x
  BY AppendProperties, LenProperties
<1> HIDE DEF longer
<1>2. PICK after : /\ Replays(after, state, pending, Len(pending))
                   /\ Client!Replayed(state, pending) = after[Len(pending)]
  BY <1>1, ReplayedFold
<1>3. PICK more : /\ Replays(more, state, longer, Len(pending) + 1)
                  /\ Client!Replayed(state, longer) = more[Len(pending) + 1]
  BY <1>1, ReplayedFold
<1>4. \A n \in 0..Len(pending) :
          after[n] = IF n = 0 THEN state
                     ELSE Client!simulatePlayerState(after[n - 1], pending[n].command, pending[n].dt)
  BY <1>2 DEF Replays
<1>5. \A n \in 0..Len(pending) + 1 :
          more[n] = IF n = 0 THEN state
                    ELSE Client!simulatePlayerState(more[n - 1], longer[n].command, longer[n].dt)
  BY <1>3 DEF Replays
<1> DEFINE S == {n \in Nat : n <= Len(pending) => more[n] = after[n]}
<1>6. 0 \in S
  BY <1>1, <1>4, <1>5
<1>7. ASSUME NEW n \in Nat, n \in S
      PROVE  n + 1 \in S
  <2>1. SUFFICES ASSUME n + 1 <= Len(pending)
                 PROVE  more[n + 1] = after[n + 1]
    OBVIOUS
  <2>2. /\ n + 1 \in 0..Len(pending) /\ n + 1 \in 0..Len(pending) + 1
        /\ n + 1 # 0 /\ n + 1 - 1 = n /\ n + 1 \in 1..Len(pending)
    BY <1>1, <2>1
  <2>3. more[n] = after[n]
    BY <1>1, <1>7, <2>1
  <2>4. longer[n + 1] = pending[n + 1]
    BY <1>1, <2>2
  <2> QED
    BY <1>4, <1>5, <2>2, <2>3, <2>4
<1> HIDE DEF S
<1>8. \A n \in Nat : n \in S
  BY <1>6, <1>7, NatSet
<1>9. more[Len(pending)] = after[Len(pending)]
  BY <1>1, <1>8 DEF S
<1>10. more[Len(pending) + 1] =
           Client!simulatePlayerState(more[Len(pending)], longer[Len(pending) + 1].command,
                                      longer[Len(pending) + 1].dt)
  <2>1. Len(pending) + 1 \in 0..Len(pending) + 1 /\ Len(pending) + 1 # 0 /\ Len(pending) + 1 - 1 = Len(pending)
    BY <1>1
  <2> QED
    BY <1>5, <2>1
<1> QED
  BY <1>1, <1>2, <1>3, <1>9, <1>10 DEF longer

\* One step of the movement rules.
LEMMA SimulateStep ==
    ASSUME NEW state \in States, NEW command, command.sequence \in Nat, NEW dt \in Nat
    PROVE  /\ simulatePlayerState(state, command, dt) \in States
           /\ simulatePlayerState(state, command, dt).actorId = state.actorId
           /\ simulatePlayerState(state, command, dt).simulationTime = state.simulationTime + dt
           /\ simulatePlayerState(state, command, dt).lastProcessedSequence = command.sequence
           /\ simulatePlayerState(state, command, dt).moves =
                  Append(state.moves, <<command.sequence, dt>>)
<1>1. state.moves \in Seq(Nat \X Nat) /\ <<command.sequence, dt>> \in Nat \X Nat
  BY DEF States, Moves
<1>2. Append(state.moves, <<command.sequence, dt>>) \in Seq(Nat \X Nat)
  BY <1>1, AppendProperties
<1>3. /\ simulatePlayerState(state, command, dt).actorId = state.actorId
      /\ simulatePlayerState(state, command, dt).simulationTime = state.simulationTime + dt
      /\ simulatePlayerState(state, command, dt).lastProcessedSequence = command.sequence
      /\ simulatePlayerState(state, command, dt).moves =
             Append(state.moves, <<command.sequence, dt>>)
  BY DEF simulatePlayerState, States
<1>4. simulatePlayerState(state, command, dt) \in States
  <2>1. PICK first : first = [state EXCEPT !.simulationTime = @ + dt]
    OBVIOUS
  <2>2. PICK second : second = [first EXCEPT !.lastProcessedSequence = command.sequence]
    OBVIOUS
  <2>3. PICK third : third = [second EXCEPT !.moves = Append(@, <<command.sequence, dt>>)]
    OBVIOUS
  <2>4. first \in States /\ first.moves = state.moves
    BY <2>1 DEF States
  <2>5. second \in States /\ second.moves = state.moves
    BY <2>2, <2>4 DEF States
  <2>6. third \in States
    BY <1>2, <2>3, <2>5 DEF States, Moves
  <2>7. simulatePlayerState(state, command, dt) = third
    BY <2>1, <2>2, <2>3 DEF simulatePlayerState
  <2> QED
    BY <2>6, <2>7
<1> QED
  BY <1>3, <1>4

\* The client runs the same rules.
LEMMA SameRules ==
    ASSUME NEW state, NEW command, NEW dt
    PROVE  Client!simulatePlayerState(state, command, dt) = simulatePlayerState(state, command, dt)
BY DEF Client!simulatePlayerState, simulatePlayerState

LEMMA ReplayedTyped ==
    ASSUME NEW state \in States, NEW pending \in Seq(Predictions)
    PROVE  /\ Client!Replayed(state, pending) \in States
           /\ Client!Replayed(state, pending).actorId = state.actorId
<1>1. Len(pending) \in Nat /\ \A i \in 1..Len(pending) : pending[i] \in Predictions
  BY LenProperties, ElementOfSeq
<1>2. PICK after : /\ Replays(after, state, pending, Len(pending))
                   /\ Client!Replayed(state, pending) = after[Len(pending)]
  BY <1>1, ReplayedFold
<1>3. \A n \in 0..Len(pending) :
          after[n] = IF n = 0 THEN state
                     ELSE Client!simulatePlayerState(after[n - 1], pending[n].command, pending[n].dt)
  BY <1>2 DEF Replays
<1> DEFINE S == {n \in Nat : n <= Len(pending) => after[n] \in States /\ after[n].actorId = state.actorId}
<1>4. 0 \in S
  BY <1>1, <1>3
<1>5. ASSUME NEW n \in Nat, n \in S
      PROVE  n + 1 \in S
  <2>1. SUFFICES ASSUME n + 1 <= Len(pending)
                 PROVE  after[n + 1] \in States /\ after[n + 1].actorId = state.actorId
    OBVIOUS
  <2>2. n + 1 \in 0..Len(pending) /\ n + 1 # 0 /\ n + 1 - 1 = n /\ n + 1 \in 1..Len(pending)
    BY <1>1, <2>1
  <2>3. after[n] \in States /\ after[n].actorId = state.actorId
    BY <1>1, <1>5, <2>1
  <2>4. after[n + 1] = simulatePlayerState(after[n], pending[n + 1].command, pending[n + 1].dt)
    BY <1>3, <2>2, SameRules
  <2>5. PICK command, dt : command = pending[n + 1].command /\ dt = pending[n + 1].dt
    OBVIOUS
  <2>6. command.sequence \in Nat /\ dt \in Nat
    BY <1>1, <2>2, <2>5 DEF Predictions, Commands
  <2>7. PICK s \in States : s = after[n]
    BY <2>3
  <2>8. after[n + 1] = simulatePlayerState(s, command, dt)
    BY <2>4, <2>5, <2>7
  <2>9. simulatePlayerState(s, command, dt) \in States
        /\ simulatePlayerState(s, command, dt).actorId = s.actorId
    BY ZenonT(30), <2>6, SimulateStep
  <2> QED
    BY <2>3, <2>7, <2>8, <2>9
<1> HIDE DEF S
<1>6. \A n \in Nat : n \in S
  BY <1>4, <1>5, NatSet
<1> QED
  BY <1>1, <1>2, <1>6 DEF S

\* after[n] is the state once the first n commands are simulated.
Simulates(after, state, commands, last) ==
    after = [n \in 0..last |->
                IF n = 0 THEN state
                ELSE simulatePlayerState(after[n - 1], commands[n],
                                         ServerDelta(after[n - 1], commands[n]))]

LEMMA SimulatesExist ==
    ASSUME NEW state, NEW commands
    PROVE  \A last \in Nat : \E after : Simulates(after, state, commands, last)
<1> DEFINE S == {last \in Nat : \E after : Simulates(after, state, commands, last)}
<1>1. 0 \in S
  <2>1. Simulates([n \in 0..0 |-> state], state, commands, 0)
    BY DEF Simulates
  <2> QED
    BY <2>1
<1>2. ASSUME NEW last \in Nat, last \in S
      PROVE  last + 1 \in S
  <2>1. PICK after : Simulates(after, state, commands, last)
    BY <1>2
  <2> DEFINE next == simulatePlayerState(after[last], commands[last + 1],
                                         ServerDelta(after[last], commands[last + 1]))
             more == [n \in 0..last + 1 |-> IF n = last + 1 THEN next ELSE after[n]]
  <2>2. \A n \in 0..last :
            after[n] = IF n = 0 THEN state
                       ELSE simulatePlayerState(after[n - 1], commands[n],
                                                ServerDelta(after[n - 1], commands[n]))
    BY <2>1 DEF Simulates
  <2>3. \A n \in 0..last : more[n] = after[n]
    OBVIOUS
  <2>4. more[last + 1] = next /\ last + 1 # 0 /\ last + 1 - 1 = last
    OBVIOUS
  <2>5. \A n \in 0..last + 1 :
            more[n] = IF n = 0 THEN state
                      ELSE simulatePlayerState(more[n - 1], commands[n],
                                               ServerDelta(more[n - 1], commands[n]))
    <3> HIDE DEF more, next
    <3> SUFFICES ASSUME NEW n \in 0..last + 1
                 PROVE  more[n] = IF n = 0 THEN state
                            ELSE simulatePlayerState(more[n - 1], commands[n],
                                                     ServerDelta(more[n - 1], commands[n]))
      OBVIOUS
    <3>1. CASE n = last + 1
      BY <2>3, <2>4, <3>1 DEF next
    <3>2. CASE n # last + 1
      <4>1. n \in 0..last /\ (n # 0 => n - 1 \in 0..last)
        BY <3>2
      <4> QED
        BY <2>2, <2>3, <4>1
    <3> QED
      BY <3>1, <3>2
  <2>6. Simulates(more, state, commands, last + 1)
    BY <2>5 DEF Simulates
  <2> QED
    BY <2>6
<1> HIDE DEF S
<1>3. \A last \in Nat : last \in S
  BY <1>1, <1>2, NatSet
<1> QED
  BY <1>3 DEF S

\* The commands simulated one by one.
LEMMA SimulatedFold ==
    ASSUME NEW state, NEW commands, Len(commands) \in Nat
    PROVE  \E after : /\ Simulates(after, state, commands, Len(commands))
                      /\ Simulated(state, commands) = after[Len(commands)]
<1> DEFINE run == CHOOSE after : Simulates(after, state, commands, Len(commands))
<1>1. Simulates(run, state, commands, Len(commands))
  BY SimulatesExist
<1>2. Simulated(state, commands) = run[Len(commands)]
  BY DEF Simulated, Simulates
<1> QED
  BY <1>1, <1>2

\* A step of the server's simulation is a time, and the whole of the time that
\* passed if that is no more than it allows.
LEMMA DeltaTyped ==
    ASSUME NEW state, state.simulationTime \in Nat, NEW command, command.timestamp \in Nat
    PROVE  /\ ServerDelta(state, command) \in Nat
           /\ state.simulationTime # 0 /\ command.timestamp > state.simulationTime
                 /\ command.timestamp - state.simulationTime <= MaxClientDelta
              => ServerDelta(state, command) = command.timestamp - state.simulationTime
<1>1. MaxClientDelta \in Nat /\ FirstInputDelta \in Nat
  BY PlayerInputAssumption
<1>2. CASE state.simulationTime = 0
  BY <1>1, <1>2 DEF ServerDelta
<1>3. CASE state.simulationTime # 0 /\ command.timestamp > state.simulationTime
  <2>1. PICK gap : gap = command.timestamp - state.simulationTime
    OBVIOUS
  <2>2. gap \in Nat
    BY <1>3, <2>1
  <2>3. PICK least : least = Min({gap, MaxClientDelta})
    OBVIOUS
  <2>4. least \in {gap, MaxClientDelta} /\ \A i \in {gap, MaxClientDelta} : least <= i
    BY <1>1, <2>2, <2>3, MinPosition
  <2>5. ServerDelta(state, command) = least
    BY <1>3, <2>1, <2>3 DEF ServerDelta
  <2> QED
    BY <1>1, <2>1, <2>2, <2>4, <2>5
<1>4. CASE state.simulationTime # 0 /\ ~ (command.timestamp > state.simulationTime)
  <2>1. ServerDelta(state, command) = 1
    BY <1>4 DEF ServerDelta
  <2> QED
    BY <1>4, <2>1
<1> QED
  BY <1>2, <1>3, <1>4

\* What simulating a queue makes of a state.
LEMMA SimulatedTyped ==
    ASSUME NEW state \in Bodies, NEW commands \in Seq(Buffered), commands # << >>
    PROVE  /\ Simulated(state, commands) \in Bodies
           /\ Simulated(state, commands).actorId = state.actorId
           /\ Simulated(state, commands).lastProcessedSequence = commands[Len(commands)].sequence
           /\ Len(Simulated(state, commands).moves) = Len(state.moves) + Len(commands)
           /\ \A i \in 1..Len(state.moves) : Simulated(state, commands).moves[i] = state.moves[i]
           /\ \A i \in 1..Len(commands) :
                 Simulated(state, commands).moves[Len(state.moves) + i][1] = commands[i].sequence
<1>1. /\ Len(commands) \in Nat \ {0}
      /\ \A i \in 1..Len(commands) : commands[i] \in Buffered
  BY EmptySeq, LenProperties, ElementOfSeq
<1>2. PICK after : /\ Simulates(after, state, commands, Len(commands))
                   /\ Simulated(state, commands) = after[Len(commands)]
  BY <1>1, SimulatedFold
<1>3. \A n \in 0..Len(commands) :
          after[n] = IF n = 0 THEN state
                     ELSE simulatePlayerState(after[n - 1], commands[n],
                                              ServerDelta(after[n - 1], commands[n]))
  BY <1>2 DEF Simulates
<1>4. state \in States /\ state.moves \in Seq(Nat \X Nat) /\ Len(state.moves) \in Nat /\ state.actorId # 0
  BY LenProperties DEF Bodies, States, Moves
<1> DEFINE Good(s, n) ==
             /\ s \in States
             /\ s.actorId = state.actorId
             /\ n # 0 => s.lastProcessedSequence = commands[n].sequence
             /\ Len(s.moves) = Len(state.moves) + n
             /\ \A i \in 1..Len(state.moves) : s.moves[i] = state.moves[i]
             /\ \A i \in 1..n : s.moves[Len(state.moves) + i][1] = commands[i].sequence
           S == {n \in Nat : n <= Len(commands) => Good(after[n], n)}
<1> HIDE DEF Good
<1>5. 0 \in S
  <2>1. after[0] = state
    BY <1>1, <1>3
  <2>2. Good(state, 0)
    BY <1>4 DEF Good
  <2> QED
    BY <2>1, <2>2
<1>6. ASSUME NEW n \in Nat, n \in S
      PROVE  n + 1 \in S
  <2>1. SUFFICES ASSUME n + 1 <= Len(commands)
                 PROVE  Good(after[n + 1], n + 1)
    OBVIOUS
  <2>2. n + 1 \in 0..Len(commands) /\ n + 1 # 0 /\ n + 1 - 1 = n /\ n + 1 \in 1..Len(commands)
    BY <1>1, <2>1
  <2>3. Good(after[n], n)
    BY <1>1, <1>6, <2>1
  <2>4. PICK s, base : s = after[n] /\ base = Len(state.moves)
    OBVIOUS
  <2>5. PICK command, dt : command = commands[n + 1] /\ dt = ServerDelta(s, command)
    OBVIOUS
  <2>6. command \in Buffered /\ command.sequence \in Nat /\ command.timestamp \in Nat
    BY <1>1, <2>2, <2>5 DEF Buffered
  <2>7. s \in States /\ s.simulationTime \in Nat /\ s.moves \in Seq(Nat \X Nat)
    <3>1. s \in States
      BY <2>3, <2>4 DEF Good
    <3> QED
      BY <3>1 DEF States, Moves
  <2>8. dt \in Nat
    BY <2>5, <2>6, <2>7, DeltaTyped
  <2>9. PICK t : t = simulatePlayerState(s, command, dt)
    OBVIOUS
  <2>10. after[n + 1] = t
    BY <1>3, <2>2, <2>4, <2>5, <2>9
  <2>11. /\ t \in States /\ t.actorId = s.actorId
         /\ t.lastProcessedSequence = command.sequence
         /\ t.moves = Append(s.moves, <<command.sequence, dt>>)
    BY ZenonT(30), <2>6, <2>7, <2>8, <2>9, SimulateStep
  <2>12. /\ Len(t.moves) = Len(s.moves) + 1
         /\ \A i \in 1..Len(s.moves) : t.moves[i] = s.moves[i]
         /\ t.moves[Len(s.moves) + 1] = <<command.sequence, dt>>
    <3>1. PICK x : x = <<command.sequence, dt>>
      OBVIOUS
    <3>2. x \in Nat \X Nat
      BY <2>6, <2>8, <3>1
    <3>3. t.moves = Append(s.moves, x)
      BY <2>11, <3>1
    <3> QED
      BY <2>7, <3>1, <3>2, <3>3, AppendProperties
  <2>13. /\ Len(s.moves) = base + n /\ base \in Nat
         /\ s.actorId = state.actorId
         /\ \A i \in 1..base : s.moves[i] = state.moves[i]
         /\ \A i \in 1..n : s.moves[base + i][1] = commands[i].sequence
    BY <1>4, <2>3, <2>4 DEF Good
  <2>14. Good(t, n + 1)
    <3>1. t \in States /\ t.actorId = state.actorId
      BY <2>11, <2>13
    <3>2. t.lastProcessedSequence = commands[n + 1].sequence
      BY <2>5, <2>11
    <3>3. PICK len : len = Len(s.moves)
      OBVIOUS
    <3>4. Len(t.moves) = len + 1 /\ len = base + n
      BY <2>12, <2>13, <3>3
    <3>5. Len(t.moves) = base + (n + 1)
      BY <2>13, <3>4
    <3>6. ASSUME NEW i \in 1..base PROVE t.moves[i] = state.moves[i]
      <4>1. i \in 1..len
        BY <2>13, <3>4
      <4> QED
        BY <2>12, <2>13, <3>3, <4>1
    <3>7. ASSUME NEW i \in 1..n + 1
          PROVE  t.moves[base + i][1] = commands[i].sequence
      <4>1. CASE i = n + 1
        <5>1. len + 1 = base + i
          BY <2>13, <3>4, <4>1
        <5>2. t.moves[base + i] = <<command.sequence, dt>>
          BY <2>12, <3>3, <5>1
        <5> QED
          BY <2>5, <4>1, <5>2
      <4>2. CASE i # n + 1
        <5>1. i \in 1..n /\ base + i \in 1..len
          BY <2>13, <3>4, <4>2
        <5>2. t.moves[base + i] = s.moves[base + i]
          BY <2>12, <3>3, <5>1
        <5> QED
          BY <2>13, <5>1, <5>2
      <4> QED
        BY <4>1, <4>2
    <3> QED
      BY <2>4, <3>1, <3>2, <3>5, <3>6, <3>7 DEF Good
  <2> QED
    BY <2>10, <2>14
<1> HIDE DEF S
<1>7. \A n \in Nat : n \in S
  BY <1>5, <1>6, NatSet
<1>8. Good(after[Len(commands)], Len(commands))
  BY <1>1, <1>7 DEF S
<1> QED
  BY <1>1, <1>2, <1>4, <1>8 DEF Bodies, Good

------------------------------------------------------------------------------
(* The buffer, from either end. *)

LEMMA DomainLen ==
    ASSUME NEW T, NEW queue \in Seq(T)
    PROVE  Len(queue) \in Nat /\ DOMAIN queue = 1..Len(queue)
BY LenProperties

LEMMA PruneDrops ==
    ASSUME NEW queue \in Seq(Buffered)
    PROVE  \E d \in 0..Len(queue) :
              /\ prune(queue) \in Seq(Buffered) /\ Len(prune(queue)) = Len(queue) - d
              /\ \A i \in 1..Len(queue) - d : prune(queue)[i] = queue[i + d]
<1>1. PICK places : places = {i \in DOMAIN queue : Wrapped(queue[i].received + MaxHistory) >= clock}
  OBVIOUS
<1>2. prune(queue) = FromFirst(queue, places)
  BY <1>1 DEF prune
<1>3. places \subseteq DOMAIN queue
  BY <1>1
<1> QED
  BY <1>2, <1>3, FromFirstDrops

\* What is replayed begins with the first command not yet simulated.
LEMMA ReplayDrops ==
    ASSUME NEW queue \in Seq(Buffered), Ordered(queue), NEW first \in Nat
    PROVE  \E d \in 0..Len(queue) :
              /\ replayFrom(queue, first) \in Seq(Buffered)
              /\ Len(replayFrom(queue, first)) = Len(queue) - d
              /\ \A i \in 1..Len(queue) - d : replayFrom(queue, first)[i] = queue[i + d]
              /\ \A i \in 1..d : queue[i].sequence < first
              /\ \A i \in 1..Len(queue) - d : queue[i + d].sequence >= first
<1>1. PICK places : places = {i \in DOMAIN queue : queue[i].sequence >= first}
  OBVIOUS
<1>2. replayFrom(queue, first) = FromFirst(queue, places)
  BY <1>1 DEF replayFrom
<1>3. places \subseteq DOMAIN queue /\ Len(queue) \in Nat /\ DOMAIN queue = 1..Len(queue)
  BY <1>1, DomainLen
<1>4. PICK d \in 0..Len(queue) :
         /\ FromFirst(queue, places) \in Seq(Buffered)
         /\ Len(FromFirst(queue, places)) = Len(queue) - d
         /\ \A i \in 1..Len(queue) - d : FromFirst(queue, places)[i] = queue[i + d]
         /\ \A i \in 1..d : i \notin places
         /\ d < Len(queue) => d + 1 \in places
  BY <1>3, FromFirstDrops
<1>5. \A i \in 1..Len(queue) : queue[i].sequence \in Nat
  <2>1. \A i \in 1..Len(queue) : queue[i] \in Buffered
    BY <1>3, ElementOfSeq
  <2> QED
    BY <2>1 DEF Buffered
<1>6. \A i \in 1..d : queue[i].sequence < first
  BY <1>1, <1>3, <1>4, <1>5
<1>7. ASSUME NEW i \in 1..Len(queue) - d
      PROVE  queue[i + d].sequence >= first
  <2>1. d < Len(queue) /\ d + 1 \in 1..Len(queue) /\ i + d \in 1..Len(queue)
    BY <1>3
  <2>2. queue[d + 1].sequence >= first
    BY <1>1, <1>4, <2>1
  <2>3. i + d = d + 1 \/ d + 1 < i + d
    BY <1>3
  <2>4. i + d = d + 1 \/ queue[d + 1].sequence < queue[i + d].sequence
    BY <2>1, <2>3 DEF Ordered
  <2>5. queue[d + 1].sequence \in Nat /\ queue[i + d].sequence \in Nat
    BY <1>5, <2>1
  <2> QED
    BY <2>2, <2>4, <2>5
<1> QED
  BY <1>2, <1>4, <1>6, <1>7

\* What is acknowledged is no later than the last simulated command.
LEMMA AcknowledgeDrops ==
    ASSUME NEW queue \in Seq(Buffered), NEW last \in Nat
    PROVE  \E d \in 0..Len(queue) :
              /\ acknowledge(queue, last) \in Seq(Buffered)
              /\ Len(acknowledge(queue, last)) = Len(queue) - d
              /\ \A i \in 1..Len(queue) - d : acknowledge(queue, last)[i] = queue[i + d]
              /\ \A i \in 1..d : queue[i].sequence <= last
              /\ d < Len(queue) => queue[d + 1].sequence > last
<1>1. PICK places : places = {i \in DOMAIN queue : queue[i].sequence > last}
  OBVIOUS
<1>2. acknowledge(queue, last) = FromFirst(queue, places)
  BY <1>1 DEF acknowledge
<1>3. places \subseteq DOMAIN queue /\ Len(queue) \in Nat /\ DOMAIN queue = 1..Len(queue)
  BY <1>1, DomainLen
<1>4. PICK d \in 0..Len(queue) :
         /\ FromFirst(queue, places) \in Seq(Buffered)
         /\ Len(FromFirst(queue, places)) = Len(queue) - d
         /\ \A i \in 1..Len(queue) - d : FromFirst(queue, places)[i] = queue[i + d]
         /\ \A i \in 1..d : i \notin places
         /\ d < Len(queue) => d + 1 \in places
  BY <1>3, FromFirstDrops
<1>5. \A i \in 1..Len(queue) : queue[i].sequence \in Nat
  <2>1. \A i \in 1..Len(queue) : queue[i] \in Buffered
    BY <1>3, ElementOfSeq
  <2> QED
    BY <2>1 DEF Buffered
<1>6. \A i \in 1..d : queue[i].sequence <= last
  BY <1>1, <1>3, <1>4, <1>5
<1>7. d < Len(queue) => queue[d + 1].sequence > last
  BY <1>1, <1>4
<1> QED
  BY <1>2, <1>4, <1>6, <1>7

\* What a correction leaves pending is newer than it, as pending inputs are in order.
LEMMA UncoveredDrops ==
    ASSUME NEW pending \in Seq(Predictions), NEW last \in Nat,
           \A i, j \in DOMAIN pending : i < j => pending[i].command.sequence < pending[j].command.sequence
    PROVE  \E d \in 0..Len(pending) :
              /\ Client!Uncovered(pending, last) \in Seq(Predictions)
              /\ Len(Client!Uncovered(pending, last)) = Len(pending) - d
              /\ \A i \in 1..Len(pending) - d : Client!Uncovered(pending, last)[i] = pending[i + d]
              /\ \A i \in 1..d : pending[i].command.sequence <= last
              /\ \A i \in 1..Len(pending) - d : pending[i + d].command.sequence > last
<1>1. PICK places : places = {i \in DOMAIN pending : pending[i].command.sequence > last}
  OBVIOUS
<1>2. Client!Uncovered(pending, last) = FromFirst(pending, places)
  BY <1>1 DEF Client!Uncovered, Client!FromFirst, FromFirst, Client!Min, Min
<1>3. places \subseteq DOMAIN pending /\ Len(pending) \in Nat /\ DOMAIN pending = 1..Len(pending)
  BY <1>1, DomainLen
<1>4. PICK d \in 0..Len(pending) :
         /\ FromFirst(pending, places) \in Seq(Predictions)
         /\ Len(FromFirst(pending, places)) = Len(pending) - d
         /\ \A i \in 1..Len(pending) - d : FromFirst(pending, places)[i] = pending[i + d]
         /\ \A i \in 1..d : i \notin places
         /\ d < Len(pending) => d + 1 \in places
  BY <1>3, FromFirstDrops
<1>5. \A i \in 1..Len(pending) : pending[i].command.sequence \in Nat
  <2>1. \A i \in 1..Len(pending) : pending[i] \in Predictions
    BY <1>3, ElementOfSeq
  <2> QED
    BY <2>1 DEF Predictions, Commands
<1>6. \A i \in 1..d : pending[i].command.sequence <= last
  BY <1>1, <1>3, <1>4, <1>5
<1>7. ASSUME NEW i \in 1..Len(pending) - d
      PROVE  pending[i + d].command.sequence > last
  <2>1. d < Len(pending) /\ d + 1 \in 1..Len(pending) /\ i + d \in 1..Len(pending)
    BY <1>3
  <2>2. pending[d + 1].command.sequence > last
    BY <1>1, <1>4, <2>1
  <2>3. i + d = d + 1 \/ d + 1 < i + d
    BY <1>3
  <2>4. i + d = d + 1 \/ pending[d + 1].command.sequence < pending[i + d].command.sequence
    BY <1>3, <2>1, <2>3
  <2>5. pending[d + 1].command.sequence \in Nat /\ pending[i + d].command.sequence \in Nat
    BY <1>5, <2>1
  <2> QED
    BY SMTT(30), <2>2, <2>4, <2>5
<1> QED
  BY <1>2, <1>4, <1>6, <1>7

\* A command is appended, and the oldest give way when the buffer is full.
LEMMA PushDrops ==
    ASSUME NEW queue \in Seq(Buffered), NEW command, command.sequence \in Nat,
           command.timestamp \in Nat, clock \in Nat
    PROVE  \E d \in 0..Len(queue) :
              /\ push(queue, command) \in Seq(Buffered)
              /\ Len(push(queue, command)) = Len(queue) - d + 1
              /\ \A i \in 1..Len(queue) - d : push(queue, command)[i] = queue[i + d]
              /\ push(queue, command)[Len(queue) - d + 1] =
                     [sequence |-> command.sequence, timestamp |-> command.timestamp,
                      received |-> clock]
<1>1. PICK item : item = [sequence |-> command.sequence, timestamp |-> command.timestamp,
                          received |-> clock]
  OBVIOUS
<1>2. item \in Buffered
  BY <1>1 DEF Buffered
<1>3. PICK grown : grown = Append(queue, item)
  OBVIOUS
<1>4. PICK len : len = Len(queue)
  OBVIOUS
<1>5. /\ grown \in Seq(Buffered) /\ Len(grown) = len + 1 /\ len \in Nat
      /\ \A i \in 1..len : grown[i] = queue[i]
      /\ grown[len + 1] = item
  BY <1>2, <1>3, <1>4, AppendProperties, LenProperties
<1>6. Capacity \in Nat \ {0}
  BY PlayerInputAssumption
<1>7. PICK from : from = Max({1, Len(grown) - Capacity + 1})
  OBVIOUS
<1>8. from \in 1..len + 1
  <2>1. PICK other \in Int : other = Len(grown) - Capacity + 1
    BY <1>5, <1>6
  <2>2. \E x \in {1, other} : \A y \in {1, other} : x >= y
    OBVIOUS
  <2>3. from \in {1, other} /\ \A y \in {1, other} : from >= y
    BY <1>7, <2>1, <2>2 DEF Max
  <2> QED
    BY <1>5, <1>6, <2>1, <2>3
<1>9. PICK last : last = len + 1
  OBVIOUS
<1>10. PICK rest : rest = SubSeq(grown, from, last)
  OBVIOUS
<1>11. /\ rest \in Seq(Buffered) /\ Len(rest) = last - from + 1
       /\ \A i \in 1..last - from + 1 : rest[i] = grown[from + i - 1]
       /\ push(queue, command) = rest
  <2>1. from \in Int /\ last \in Int /\ from <= last /\ Len(grown) = last
    BY <1>5, <1>8, <1>9
  <2>2. \A i \in from..last : grown[i] \in Buffered
    BY <1>5, <1>8, <1>9, ElementOfSeq
  <2>3. /\ SubSeq(grown, from, last) \in Seq(Buffered)
        /\ Len(SubSeq(grown, from, last)) = IF from <= last THEN last - from + 1 ELSE 0
        /\ \A i \in 1..last - from + 1 : SubSeq(grown, from, last)[i] = grown[from + i - 1]
    BY <2>1, <2>2, SubSeqProperties
  <2>4. Len(rest) = last - from + 1
    BY <1>10, <2>1, <2>3
  <2>5. push(queue, command) = SubSeq(grown, Max({1, Len(grown) - Capacity + 1}), Len(grown))
    BY <1>1, <1>3 DEF push
  <2>6. push(queue, command) = SubSeq(grown, from, Len(grown))
    BY <1>7, <2>5, Zenon
  <2> QED
    BY <1>10, <2>1, <2>3, <2>4, <2>6
<1>12. PICK d \in 0..len : d = from - 1
  <2>1. from - 1 \in 0..len
    BY <1>5, <1>8
  <2> QED
    BY <2>1, Zenon
<1>13. Len(rest) = len - d + 1
  BY <1>5, <1>8, <1>9, <1>11, <1>12
<1>14. ASSUME NEW i \in 1..len - d PROVE rest[i] = queue[i + d]
  <2>1. i \in 1..last - from + 1 /\ from + i - 1 = i + d /\ i + d \in 1..len
    BY <1>5, <1>8, <1>9, <1>12
  <2> QED
    BY <1>5, <1>11, <2>1
<1>15. rest[len - d + 1] = item
  <2>1. len - d + 1 \in 1..last - from + 1 /\ from + (len - d + 1) - 1 = len + 1
    BY <1>5, <1>8, <1>9, <1>12
  <2> QED
    BY <1>5, <1>11, <2>1
<1> QED
  BY <1>1, <1>4, <1>11, <1>13, <1>14, <1>15

------------------------------------------------------------------------------
(* The invariant of every client. *)

LEMMA InvariantInit == SInit => IInv
<1> SUFFICES ASSUME SInit PROVE IInv
  OBVIOUS
<1>1. DOMAIN players = {} /\ players = << >>
  BY DEF SInit, Init
<1>2. PlayerState(0, 0) \in States /\ PlayerState(0, 0).actorId = 0
  <2>1. << >> \in Moves
    BY EmptySeq DEF Moves
  <2> QED
    BY <2>1 DEF PlayerState, States
<1>3. Typed
  <2>1. /\ << >> \in Seq(Buffered) /\ << >> \in Seq(Predictions)
        /\ << >> \in Seq(Commands) /\ << >> \in Seq(Messages)
    BY EmptySeq
  <2>2. /\ queues \in [Clients -> Seq(Buffered)] /\ history \in [Clients -> Seq(Predictions)]
        /\ uplink \in [Clients -> Seq(Commands)] /\ downlink \in [Clients -> Seq(Messages)]
    BY <2>1 DEF SInit, Init
  <2>3. predicted \in [Clients -> States]
    BY <1>2 DEF SInit
  <2>4. /\ clock \in Nat \ {0} /\ suspicion \in [Clients -> Nat] /\ DOMAIN limiters = Clients
        /\ honest \subseteq Clients /\ issued \in [Clients -> 0..MaxInputs]
        /\ lastFrame \in [Clients -> Nat] /\ lost \in [Clients -> SUBSET Nat]
        /\ steady \in [Clients -> BOOLEAN] /\ prompt \in [Clients -> BOOLEAN]
    BY InputSystemAssumption DEF SInit, Init
  <2> QED
    BY <1>1, <2>2, <2>3, <2>4 DEF Typed
<1>4. ASSUME NEW c \in Clients PROVE ClientFits(c)
  <2>1. /\ queues[c] = << >> /\ history[c] = << >> /\ uplink[c] = << >> /\ downlink[c] = << >>
        /\ issued[c] = 0 /\ suspicion[c] = 0 /\ limiters[c] = Fresh
        /\ predicted[c].actorId = 0
    BY <1>2 DEF SInit, Init
  <2>2. Len(<< >>) = 0 /\ DOMAIN << >> = {}
    BY EmptySeq
  <2>3. QueueFits(c)
    BY <2>1, <2>2 DEF QueueFits, Ordered
  <2>4. HistoryFits(c) /\ PendingFits(c)
    BY <2>1, <2>2 DEF HistoryFits, PendingFits
  <2> QED
    BY <1>1, <2>1, <2>3, <2>4 DEF ClientFits, MovesFit, NewcomerFits, OutsiderFits, AgreeFits
<1> QED
  BY <1>3, <1>4 DEF IInv

\* What an action that leaves a client alone keeps.
Untouched(d) ==
    /\ honest' = honest
    /\ d \in DOMAIN players' <=> d \in DOMAIN players
    /\ d \in DOMAIN players => players'[d] = players[d]
    /\ queues'[d] = queues[d] /\ suspicion'[d] = suspicion[d] /\ limiters'[d] = limiters[d]
    /\ predicted'[d] = predicted[d] /\ history'[d] = history[d] /\ issued'[d] = issued[d]
    /\ uplink'[d] = uplink[d] /\ downlink'[d] = downlink[d] /\ lost'[d] = lost[d]

LEMMA UntouchedFits ==
    ASSUME NEW d \in Clients, ClientFits(d), Untouched(d)
    PROVE  ClientFits(d)'
<1>1. QueueFits(d)'
  BY DEF ClientFits, QueueFits, Untouched
<1>2. MovesFit(d)'
  BY DEF ClientFits, MovesFit, Untouched
<1>3. NewcomerFits(d)'
  BY DEF ClientFits, NewcomerFits, Untouched
<1>4. OutsiderFits(d)'
  BY DEF ClientFits, OutsiderFits, Untouched
<1>5. HistoryFits(d)'
  BY DEF ClientFits, HistoryFits, Untouched
<1>6. PendingFits(d)'
  BY DEF ClientFits, PendingFits, Accounted, Untouched
<1>7. AgreeFits(d)'
  BY DEF ClientFits, AgreeFits, Untouched
<1> QED
  BY <1>1, <1>2, <1>3, <1>4, <1>5, <1>6, <1>7 DEF ClientFits

LEMMA ClockTickFits ==
    ASSUME IInv, ClockTick
    PROVE  IInv'
<1>1. Typed'
  BY DEF IInv, Typed, ClockTick, Tick
<1>2. ASSUME NEW d \in Clients PROVE ClientFits(d)'
  <2>1. Untouched(d)
    BY DEF ClockTick, Tick, Untouched
  <2> QED
    BY <2>1, UntouchedFits DEF IInv
<1> QED
  BY <1>1, <1>2 DEF IInv

LEMMA StutterFits ==
    ASSUME IInv, UNCHANGED systemVars
    PROVE  IInv'
<1>1. Typed'
  BY DEF IInv, Typed, systemVars, vars
<1>2. ASSUME NEW d \in Clients PROVE ClientFits(d)'
  <2>1. Untouched(d)
    BY DEF systemVars, vars, Untouched
  <2> QED
    BY <2>1, UntouchedFits DEF IInv
<1> QED
  BY <1>1, <1>2 DEF IInv

LEMMA SpawnFits ==
    ASSUME IInv, NEW c \in Clients, Spawn(c)
    PROVE  IInv'
<1> USE DEF IInv
<1>1. PICK actorId : actorId = IF c \in DOMAIN players THEN players[c].actorId + 1 ELSE 1
  OBVIOUS
<1>2. PICK time \in {0, clock} :
         /\ registerPlayer(c, PlayerState(actorId, time))
         /\ downlink' = IF c \in honest
                        THEN Sent(downlink, c, Spawned(PlayerState(actorId, time)))
                        ELSE downlink
         /\ steady' = [steady EXCEPT ![c] = time # 0 /\ actorId = 1 /\ c \in honest]
         /\ prompt' = [prompt EXCEPT ![c] = actorId = 1 /\ c \in honest]
  BY <1>1 DEF Spawn
<1>3. UNCHANGED <<queues, suspicion, limiters, clock, honest, predicted, history, uplink, issued,
                  lastFrame, lost>>
  BY <1>2 DEF Spawn, registerPlayer
<1>4. actorId \in Nat \ {0} /\ time \in Nat
  BY SMTT(30), <1>2, <1>1 DEF Typed, Bodies, States
<1>5. PICK body : body = PlayerState(actorId, time)
  OBVIOUS
<1>6. body \in Bodies /\ body.moves = << >>
  <2>1. << >> \in Moves
    BY EmptySeq DEF Moves
  <2> QED
    BY <1>4, <1>5, <2>1 DEF PlayerState, Bodies, States
<1>7. /\ DOMAIN players' = DOMAIN players \cup {c} /\ players'[c] = body
      /\ \A d \in DOMAIN players : d # c => players'[d] = players[d]
  BY <1>2, <1>5 DEF registerPlayer
<1>8. PICK message : message = Spawned(body)
  OBVIOUS
<1>9. message \in Messages /\ message.kind = "spawn" /\ message.body = body
  BY <1>6, <1>8 DEF Messages, Spawned
<1>10. /\ \A d \in Clients : d # c => downlink'[d] = downlink[d]
       /\ downlink'[c] = IF c \in honest THEN Append(downlink[c], message) ELSE downlink[c]
       /\ downlink' \in [Clients -> Seq(Messages)]
  <2>1. downlink \in [Clients -> Seq(Messages)]
    BY DEF Typed
  <2>2. Append(downlink[c], message) \in Seq(Messages)
    BY <1>9, <2>1, AppendProperties
  <2>3. downlink' = IF c \in honest
                    THEN [downlink EXCEPT ![c] = Append(downlink[c], message)]
                    ELSE downlink
    BY <1>2, <1>5, <1>8 DEF Sent
  <2> QED
    BY <2>1, <2>2, <2>3
<1>11. Typed'
  <2>1. steady' \in [Clients -> BOOLEAN] /\ prompt' \in [Clients -> BOOLEAN]
    BY <1>2 DEF Typed
  <2>2. DOMAIN players' \subseteq Clients /\ \A d \in DOMAIN players' : players'[d] \in Bodies
    BY <1>6, <1>7 DEF Typed
  <2> QED
    BY <1>3, <1>10, <2>1, <2>2 DEF Typed
<1>12. ASSUME NEW d \in Clients, d # c PROVE ClientFits(d)'
  <2>1. Untouched(d)
    BY <1>3, <1>7, <1>10, <1>12 DEF Untouched
  <2> QED
    BY <2>1, UntouchedFits
<1>13. ClientFits(c)'
  <2>1. ClientFits(c)
    OBVIOUS
  <2>2. QueueFits(c)'
    BY <1>3, <2>1 DEF ClientFits, QueueFits
  <2>3. MovesFit(c)'
    BY <1>6, <1>7, EmptySeq DEF MovesFit, MovesInOrder
  <2>4. NewcomerFits(c)'
    BY <1>7 DEF NewcomerFits
  <2>5. OutsiderFits(c)'
    BY <1>3, <1>10, <2>1 DEF ClientFits, OutsiderFits
  <2>6. HistoryFits(c)'
    BY <1>3, <2>1 DEF ClientFits, HistoryFits
  <2>7. PendingFits(c)'
    <3>1. \A k \in DOMAIN downlink[c] :
              k \in DOMAIN downlink'[c] /\ downlink'[c][k] = downlink[c][k]
      <4>1. downlink[c] \in Seq(Messages)
        BY DEF Typed
      <4> QED
        BY <1>9, <1>10, <4>1, AppendProperties, DomainLen
    <3> QED
      BY <1>3, <2>1, <3>1 DEF ClientFits, PendingFits, Accounted
  <2>8. AgreeFits(c)'
    <3>1. c \in honest => downlink'[c] # << >> /\ Last(downlink'[c]) = message
      <4>1. downlink[c] \in Seq(Messages)
        BY DEF Typed
      <4> QED
        BY <1>9, <1>10, <4>1, AppendProperties, EmptySeq, LenProperties DEF Last
    <3> QED
      BY <1>3, <1>7, <1>9, <3>1 DEF AgreeFits, StateOf
  <2> QED
    BY <2>2, <2>3, <2>4, <2>5, <2>6, <2>7, <2>8 DEF ClientFits
<1> QED
  BY <1>11, <1>12, <1>13

LEMMA FrameFits ==
    ASSUME IInv, NEW c \in Clients, Frame(c)
    PROVE  IInv'
<1> USE DEF IInv
<1>1. PICK command, dt :
         /\ command = InputCmd(issued[c] + 1, clock, "none")
         /\ dt = clock - lastFrame[c]
  OBVIOUS
<1>2. /\ predicted[c].actorId # 0 /\ dt > 0
      /\ Client!predict(c, command, dt)
      /\ uplink' = Sent(uplink, c, command)
      /\ issued' = [issued EXCEPT ![c] = @ + 1]
      /\ lastFrame' = [lastFrame EXCEPT ![c] = clock]
      /\ steady' = [steady EXCEPT ![c] = @ /\ dt <= MaxClientDelta]
      /\ prompt' = [prompt EXCEPT ![c] = @ /\ dt <= MaxClientLead /\ dt * MaxEvents >= Window]
  BY <1>1 DEF Frame
<1>3. UNCHANGED <<players, queues, suspicion, limiters, clock, honest, downlink, lost>>
  BY DEF Frame, vars
<1>4. /\ command \in Commands /\ command.sequence = issued[c] + 1 /\ dt \in Nat
      /\ issued[c] \in Nat
  <2>1. clock \in Nat /\ issued[c] \in Nat /\ lastFrame[c] \in Nat
    BY DEF Typed
  <2> QED
    BY <1>1, <1>2, <2>1 DEF InputCmd, Commands, Faults
<1>5. /\ predicted[c] \in States /\ history[c] \in Seq(Predictions)
      /\ uplink[c] \in Seq(Commands) /\ downlink[c] \in Seq(Messages)
  BY DEF Typed
<1>6. PICK item : item = [command |-> command, dt |-> dt]
  OBVIOUS
<1>7. item \in Predictions /\ item.command = command /\ item.dt = dt
  BY <1>4, <1>6 DEF Predictions
<1>8. /\ history' = [history EXCEPT ![c] = Append(history[c], item)]
      /\ predicted' = [predicted EXCEPT ![c] = simulatePlayerState(predicted[c], command, dt)]
      /\ uplink' = [uplink EXCEPT ![c] = Append(uplink[c], command)]
  BY <1>2, <1>6, SameRules DEF Client!predict, Sent
<1>9. /\ simulatePlayerState(predicted[c], command, dt) \in States
      /\ simulatePlayerState(predicted[c], command, dt).actorId = predicted[c].actorId
  <2>1. PICK s : s = predicted[c]
    OBVIOUS
  <2>2. command.sequence \in Nat /\ s \in States
    BY <1>4, <1>5, <2>1
  <2> QED
    BY <1>4, <2>1, <2>2, SimulateStep
<1>10. /\ Append(history[c], item) \in Seq(Predictions)
       /\ Append(uplink[c], command) \in Seq(Commands)
  BY <1>4, <1>5, <1>7, AppendProperties
<1>11. Typed'
  <2>1. /\ predicted' \in [Clients -> States] /\ history' \in [Clients -> Seq(Predictions)]
        /\ uplink' \in [Clients -> Seq(Commands)]
    BY <1>8, <1>9, <1>10 DEF Typed
  <2>2. issued' \in [Clients -> 0..MaxInputs] /\ lastFrame' \in [Clients -> Nat]
    <3>1. issued[c] + 1 \in 0..MaxInputs
      BY InputSystemAssumption DEF Frame, Typed
    <3> QED
      BY <1>2, <3>1 DEF Typed
  <2>3. steady' \in [Clients -> BOOLEAN] /\ prompt' \in [Clients -> BOOLEAN]
    BY <1>2 DEF Typed
  <2> QED
    BY <1>3, <2>1, <2>2, <2>3 DEF Typed
<1>12. ASSUME NEW d \in Clients, d # c PROVE ClientFits(d)'
  <2>1. Untouched(d)
    BY <1>2, <1>3, <1>8, <1>12 DEF Untouched, Typed
  <2> QED
    BY <2>1, UntouchedFits
<1>13. ClientFits(c)'
  <2>1. ClientFits(c)
    OBVIOUS
  <2>2. c \in honest /\ c \in DOMAIN players
    BY <1>2, <2>1 DEF ClientFits, OutsiderFits, NewcomerFits
  <2>3. QueueFits(c)'
    BY <1>3, <2>1 DEF ClientFits, QueueFits
  <2>4. MovesFit(c)'
    BY <1>3, <2>1 DEF ClientFits, MovesFit
  <2>5. NewcomerFits(c)' /\ OutsiderFits(c)'
    BY <1>3, <2>2 DEF NewcomerFits, OutsiderFits
  <2>6. PICK n : n = Len(history[c])
    OBVIOUS
  <2>7. /\ n \in Nat /\ DOMAIN history[c] = 1..n /\ DOMAIN history'[c] = 1..n + 1
        /\ \A i \in 1..n : history'[c][i] = history[c][i]
        /\ history'[c][n + 1] = item /\ history'[c] = Append(history[c], item)
    BY <1>5, <1>7, <1>8, <1>10, <2>6, AppendProperties, DomainLen DEF Typed
  <2>8. \A i \in 1..n : history[c][i].command.sequence \in Nat
                        /\ history[c][i].command.sequence <= issued[c]
    <3>1. \A i \in 1..n : history[c][i] \in Predictions
      BY <1>5, <2>6, ElementOfSeq
    <3>2. \A i \in 1..n : history[c][i].command.sequence <= issued[c]
      BY <2>1, <2>7 DEF ClientFits, HistoryFits
    <3> QED
      BY <3>1, <3>2 DEF Predictions, Commands
  <2>9. issued'[c] = issued[c] + 1
    BY <1>2 DEF Typed
  <2>10. HistoryFits(c)'
    <3>1. ASSUME NEW i \in 1..n + 1, NEW j \in 1..n + 1, i < j
          PROVE  history'[c][i].command.sequence < history'[c][j].command.sequence
      <4>1. i \in 1..n
        BY <2>7, <3>1
      <4>2. CASE j \in 1..n
        BY <2>1, <2>7, <3>1, <4>1, <4>2 DEF ClientFits, HistoryFits
      <4>3. CASE j = n + 1
        <5>1. history'[c][j].command.sequence = issued[c] + 1
          BY <1>4, <1>7, <2>7, <4>3
        <5>2. history'[c][i].command.sequence <= issued[c] /\ history'[c][i].command.sequence \in Nat
          BY <2>7, <2>8, <4>1
        <5> QED
          BY <1>4, <5>1, <5>2
      <4> QED
        BY <2>7, <4>2, <4>3
    <3>2. ASSUME NEW i \in 1..n + 1
          PROVE  history'[c][i].command.sequence <= issued'[c]
      <4>1. CASE i \in 1..n
        BY <1>4, <2>7, <2>8, <2>9, <4>1
      <4>2. CASE i = n + 1
        BY <1>4, <1>7, <2>7, <2>9, <4>2
      <4> QED
        BY <2>7, <4>1, <4>2
    <3> QED
      BY <2>7, <3>1, <3>2 DEF HistoryFits
  <2>11. PICK m : m = Len(uplink[c])
    OBVIOUS
  <2>12. /\ m \in Nat /\ DOMAIN uplink[c] = 1..m /\ DOMAIN uplink'[c] = 1..m + 1
         /\ \A i \in 1..m : uplink'[c][i] = uplink[c][i]
         /\ uplink'[c][m + 1] = command
    BY <1>4, <1>5, <1>8, <1>10, <2>11, AppendProperties, DomainLen DEF Typed
  <2>13. Sequences(uplink[c]) \subseteq Sequences(uplink'[c]) /\ command.sequence \in Sequences(uplink'[c])
    <3>1. ASSUME NEW x \in Sequences(uplink[c]) PROVE x \in Sequences(uplink'[c])
      <4>1. PICK i \in 1..m : x = uplink[c][i].sequence
        BY <2>12 DEF Sequences
      <4>2. i \in 1..m + 1 /\ uplink'[c][i] = uplink[c][i]
        BY <2>12
      <4> QED
        BY <2>12, <4>1, <4>2 DEF Sequences
    <3>2. m + 1 \in DOMAIN uplink'[c]
      BY <2>12
    <3> QED
      BY <2>12, <3>1, <3>2 DEF Sequences
  <2>14. PendingFits(c)'
    <3>1. ASSUME NEW i \in 1..n + 1
          PROVE  \E x : x = history'[c][i].command.sequence /\ Accounted(c, x)'
      <4>1. PICK x : x = history'[c][i].command.sequence
        OBVIOUS
      <4>2. CASE i \in 1..n
        <5>1. Accounted(c, x)
          BY <2>1, <2>7, <4>1, <4>2 DEF ClientFits, PendingFits, Accounted
        <5> QED
          BY <1>3, <2>13, <4>1, <5>1 DEF Accounted
      <4>3. CASE i = n + 1
        <5>1. x = command.sequence
          BY <1>7, <2>7, <4>1, <4>3
        <5> QED
          BY <2>13, <4>1, <5>1 DEF Accounted
      <4> QED
        BY <2>7, <4>2, <4>3
    <3> QED
      BY <2>7, <3>1 DEF PendingFits, Accounted
  <2>15. AgreeFits(c)'
    <3>1. CASE downlink[c] = << >>
      <4>1. predicted[c] = Client!Replayed(players[c], history[c])
        BY <2>1, <2>2, <3>1 DEF ClientFits, AgreeFits
      <4>2. predicted'[c] = simulatePlayerState(predicted[c], command, dt)
        BY <1>8 DEF Typed
      <4>3. PICK state, pending : state = players[c] /\ pending = history[c]
        OBVIOUS
      <4>4. /\ Client!Replayed(state, Append(pending, item))
                   = Client!simulatePlayerState(Client!Replayed(state, pending), item.command, item.dt)
        BY <1>5, <1>7, <4>3, ReplayedAppend
      <4>5. predicted'[c] = Client!Replayed(state, Append(pending, item))
        BY <1>7, <4>1, <4>2, <4>3, <4>4, SameRules
      <4> QED
        BY <1>3, <2>7, <3>1, <4>3, <4>5 DEF AgreeFits
    <3>2. CASE downlink[c] # << >>
      BY <1>3, <2>1, <2>2, <3>2 DEF ClientFits, AgreeFits
    <3> QED
      BY <3>1, <3>2
  <2> QED
    BY <2>3, <2>4, <2>5, <2>10, <2>14, <2>15 DEF ClientFits
<1> QED
  BY <1>11, <1>12, <1>13

\* What a received command may change, whatever becomes of it.
LEMMA ReceiveChanges ==
    ASSUME Typed, NEW c \in Clients, NEW command, ReceiveInput(c, command)
    PROVE  /\ UNCHANGED <<players, clock>>
           /\ suspicion' \in [Clients -> Nat] /\ DOMAIN limiters' = Clients
           /\ \A d \in Clients : d # c => /\ queues'[d] = queues[d] /\ suspicion'[d] = suspicion[d]
                                          /\ limiters'[d] = limiters[d]
           /\ c \notin DOMAIN players => UNCHANGED <<queues, suspicion, limiters>>
           /\ ReceiveInputFails(c, command) => UNCHANGED queues
<1>1. /\ DOMAIN queues = Clients /\ suspicion \in [Clients -> Nat] /\ DOMAIN limiters = Clients
  BY DEF Typed
<1>2. {InvalidChecksumScore, InvalidInputScore, RateLimitScore} \subseteq Nat
  BY PlayerInputAssumption
<1>3. ASSUME NEW score \in Nat, addSuspicion(c, score)
      PROVE  /\ suspicion' \in [Clients -> Nat]
             /\ \A d \in Clients : d # c => suspicion'[d] = suspicion[d]
  BY <1>1, <1>3 DEF addSuspicion
<1>4. ASSUME Limits(c, command)
      PROVE  /\ c \in DOMAIN players /\ DOMAIN limiters' = Clients
             /\ \A d \in Clients : d # c => limiters'[d] = limiters[d]
  BY <1>1, <1>4 DEF Limits, Judges
<1>5. CASE ReceiveIgnored(c)
  BY <1>1, <1>5 DEF ReceiveIgnored, vars
<1>6. CASE ReceiveMalformed(c, command)
  BY <1>1, <1>2, <1>3, <1>6 DEF ReceiveMalformed, Judges
<1>7. CASE ReceiveLimited(c, command)
  BY <1>1, <1>2, <1>3, <1>4, <1>7 DEF ReceiveLimited
<1>8. CASE ReceiveFaulty(c, command)
  BY <1>1, <1>2, <1>3, <1>4, <1>8 DEF ReceiveFaulty
<1>9. CASE ReceiveRefused(c, command)
  BY <1>1, <1>2, <1>3, <1>4, <1>9 DEF ReceiveRefused
<1>10. CASE ReceiveBuffered(c, command)
  <2>1. UNCHANGED <<players, clock, suspicion>> /\ Limits(c, command)
    BY <1>10 DEF ReceiveBuffered
  <2>2. \A d \in Clients : d # c => queues'[d] = queues[d]
    BY <1>1, <1>10 DEF ReceiveBuffered
  <2>3. ReceiveInputFails(c, command) => UNCHANGED queues
    BY DEF ReceiveInputFails, ReceiveIgnored, ReceiveMalformed, ReceiveLimited, ReceiveFaulty,
           ReceiveRefused, vars
  <2> QED
    BY <1>1, <1>4, <2>1, <2>2, <2>3
<1> QED
  BY <1>5, <1>6, <1>7, <1>8, <1>9, <1>10 DEF ReceiveInput, ReceiveInputFails

\* The buffer takes a command only behind what it has.
LEMMA BufferedOrdered ==
    ASSUME NEW queue \in Seq(Buffered), Ordered(queue), clock \in Nat,
           NEW command \in Commands, Pushable(queue, command)
    PROVE  push(queue, command) \in Seq(Buffered) /\ Ordered(push(queue, command))
<1>1. command.sequence \in Nat /\ command.timestamp \in Nat
  BY DEF Commands
<1>2. PICK d \in 0..Len(queue) :
         /\ push(queue, command) \in Seq(Buffered)
         /\ Len(push(queue, command)) = Len(queue) - d + 1
         /\ \A i \in 1..Len(queue) - d : push(queue, command)[i] = queue[i + d]
         /\ push(queue, command)[Len(queue) - d + 1] =
                [sequence |-> command.sequence, timestamp |-> command.timestamp,
                 received |-> clock]
  BY <1>1, PushDrops
<1>3. PICK len, grown : len = Len(queue) /\ grown = push(queue, command)
  OBVIOUS
<1>4. /\ len \in Nat /\ d \in 0..len
      /\ \A i \in 1..len : queue[i].sequence \in Nat
  <2>1. \A i \in 1..len : queue[i] \in Buffered
    BY <1>3, ElementOfSeq
  <2> QED
    BY <1>2, <1>3, <2>1, LenProperties DEF Buffered
<1>5. \A i \in 1..len : queue[i].sequence < command.sequence
  <2>1. SUFFICES ASSUME NEW i \in 1..len
                 PROVE  queue[i].sequence < command.sequence
    OBVIOUS
  <2>2. queue # << >>
    BY <1>3, <1>4, EmptySeq
  <2>3. command.sequence > queue[len].sequence
    BY <1>3, <2>2 DEF Pushable, Last
  <2>4. i = len \/ queue[i].sequence < queue[len].sequence
    BY <1>3, <1>4 DEF Ordered
  <2>5. len \in 1..len
    BY <1>4
  <2> QED
    BY <1>1, <1>4, <2>3, <2>4, <2>5
<1>6. ASSUME NEW i \in 1..len - d + 1, NEW j \in 1..len - d + 1, i < j
      PROVE  grown[i].sequence < grown[j].sequence
  <2>1. i \in 1..len - d /\ i + d \in 1..len /\ grown[i] = queue[i + d]
    BY <1>2, <1>3, <1>4, <1>6
  <2>2. CASE j \in 1..len - d
    <3>1. j + d \in 1..len /\ i + d < j + d /\ grown[j] = queue[j + d]
      BY <1>2, <1>3, <1>4, <1>6, <2>2
    <3> QED
      BY <1>3, <2>1, <3>1 DEF Ordered
  <2>3. CASE j = len - d + 1
    <3>1. grown[j].sequence = command.sequence
      BY <1>2, <1>3, <2>3
    <3> QED
      BY <1>5, <2>1, <3>1
  <2> QED
    BY <1>4, <2>2, <2>3
<1> QED
  BY <1>2, <1>3, <1>6 DEF Ordered

LEMMA DeliverFits ==
    ASSUME IInv, NEW c \in Clients, Deliver(c)
    PROVE  IInv'
<1> USE DEF IInv
<1>1. PICK command : command = Head(uplink[c])
  OBVIOUS
<1>2. /\ uplink[c] \in Seq(Commands) /\ uplink[c] # << >> /\ queues[c] \in Seq(Buffered)
      /\ clock \in Nat /\ c \in DOMAIN lost /\ lost[c] \subseteq Nat
  BY DEF Deliver, Typed
<1>3. /\ ReceiveInput(c, command)
      /\ UNCHANGED <<honest, predicted, history, downlink, issued, lastFrame>>
      /\ steady' = [steady EXCEPT ![c] = @ /\ lost'[c] = {}]
      /\ prompt' = [prompt EXCEPT ![c] = @ /\ command.timestamp = clock]
      /\ uplink' = [uplink EXCEPT ![c] = Tail(uplink[c])]
  BY <1>1 DEF Deliver, ReceiveInput, Taken
<1>4. \/ /\ ReceiveInputFails(c, command)
         /\ lost' = [lost EXCEPT ![c] = @ \cup {command.sequence}]
      \/ /\ ReceiveBuffered(c, command)
         /\ lost' = [lost EXCEPT ![c] = @ \cup (Sequences(queues[c]) \ Sequences(queues'[c]))]
  BY <1>1 DEF Deliver
<1>5. /\ UNCHANGED <<players, clock>>
      /\ suspicion' \in [Clients -> Nat] /\ DOMAIN limiters' = Clients
      /\ \A d \in Clients : d # c => /\ queues'[d] = queues[d] /\ suspicion'[d] = suspicion[d]
                                     /\ limiters'[d] = limiters[d]
      /\ ReceiveInputFails(c, command) => UNCHANGED queues
  BY <1>3, ReceiveChanges
<1>6. PICK len, rest : len = Len(uplink[c]) /\ rest = Tail(uplink[c])
  OBVIOUS
<1>7. /\ len \in Nat \ {0} /\ rest \in Seq(Commands) /\ Len(rest) = len - 1
      /\ \A i \in 1..len - 1 : rest[i] = uplink[c][i + 1]
      /\ command = uplink[c][1] /\ command \in Commands
      /\ DOMAIN uplink[c] = 1..len /\ DOMAIN rest = 1..len - 1
  <2>1. len \in Nat \ {0} /\ command = uplink[c][1] /\ command \in Commands
    BY <1>1, <1>2, <1>6, HeadTailProperties, EmptySeq, LenProperties
  <2>2. rest \in Seq(Commands) /\ Len(rest) = len - 1
    BY <1>2, <1>6, HeadTailProperties
  <2>3. \A i \in 1..len - 1 : rest[i] = uplink[c][i + 1]
    BY <1>2, <1>6, <2>2, HeadTailProperties
  <2> QED
    BY <1>2, <1>6, <2>1, <2>2, <2>3, DomainLen
<1>8. command.sequence \in Nat
  BY <1>7 DEF Commands
<1>9. ReceiveBuffered(c, command) =>
          /\ queues' = [queues EXCEPT ![c] = push(queues[c], command)]
          /\ push(queues[c], command) \in Seq(Buffered)
          /\ Ordered(push(queues[c], command))
  <2>1. SUFFICES ASSUME ReceiveBuffered(c, command)
                 PROVE  /\ queues' = [queues EXCEPT ![c] = push(queues[c], command)]
                        /\ push(queues[c], command) \in Seq(Buffered)
                        /\ Ordered(push(queues[c], command))
    OBVIOUS
  <2>2. /\ Pushable(queues[c], command)
        /\ queues' = [queues EXCEPT ![c] = push(queues[c], command)]
    BY <2>1 DEF ReceiveBuffered
  <2>3. Ordered(queues[c])
    BY DEF ClientFits, QueueFits
  <2>4. PICK queue : queue = queues[c]
    OBVIOUS
  <2> QED
    BY <1>2, <1>7, <2>2, <2>3, <2>4, BufferedOrdered
<1>10. queues' \in [Clients -> Seq(Buffered)] /\ Ordered(queues'[c])
  <2>1. queues \in [Clients -> Seq(Buffered)] /\ Ordered(queues[c])
    BY DEF Typed, ClientFits, QueueFits
  <2>2. CASE ReceiveInputFails(c, command)
    BY <1>5, <2>1, <2>2
  <2>3. CASE ReceiveBuffered(c, command)
    <3>1. PICK grown : grown = push(queues[c], command)
      OBVIOUS
    <3>2. grown \in Seq(Buffered) /\ Ordered(grown) /\ queues' = [queues EXCEPT ![c] = grown]
      BY <1>9, <2>3, <3>1
    <3> QED
      BY <2>1, <3>2
  <2> QED
    BY <1>4, <2>2, <2>3
<1>11. Typed'
  <2>1. lost' \in [Clients -> SUBSET Nat]
    <3>1. Sequences(queues[c]) \subseteq Nat
      <4>1. \A i \in DOMAIN queues[c] : queues[c][i] \in Buffered
        BY <1>2, DomainLen, ElementOfSeq
      <4> QED
        BY <4>1 DEF Sequences, Buffered
    <3>2. PICK more \in SUBSET Nat : lost' = [lost EXCEPT ![c] = @ \cup more]
      <4>1. {command.sequence} \in SUBSET Nat
            /\ Sequences(queues[c]) \ Sequences(queues'[c]) \in SUBSET Nat
        BY <1>8, <3>1
      <4> QED
        BY <1>4, <4>1
    <3> QED
      BY <3>2 DEF Typed
  <2>2. uplink' \in [Clients -> Seq(Commands)]
    BY <1>3, <1>6, <1>7 DEF Typed
  <2>3. steady' \in [Clients -> BOOLEAN] /\ prompt' \in [Clients -> BOOLEAN]
    BY <1>3 DEF Typed
  <2> QED
    BY <1>3, <1>5, <1>10, <2>1, <2>2, <2>3 DEF Typed
<1>12. ASSUME NEW d \in Clients, d # c PROVE ClientFits(d)'
  <2>1. lost'[d] = lost[d] /\ uplink'[d] = uplink[d]
    BY <1>3, <1>4, <1>12 DEF Typed
  <2>2. Untouched(d)
    BY <1>3, <1>5, <1>12, <2>1 DEF Untouched
  <2> QED
    BY <2>2, UntouchedFits
<1>13. ClientFits(c)'
  <2>1. ClientFits(c)
    OBVIOUS
  <2>2. c \in honest /\ c \in DOMAIN players
    BY <1>2, <2>1 DEF ClientFits, OutsiderFits, NewcomerFits
  <2>3. QueueFits(c)'
    BY <1>10 DEF QueueFits
  <2>4. MovesFit(c)'
    BY <1>5, <2>1 DEF ClientFits, MovesFit
  <2>5. NewcomerFits(c)' /\ OutsiderFits(c)'
    BY <1>3, <1>5, <2>2 DEF NewcomerFits, OutsiderFits
  <2>6. HistoryFits(c)'
    BY <1>3, <2>1 DEF ClientFits, HistoryFits
  <2>7. uplink'[c] = rest
    BY <1>3, <1>6 DEF Typed
  <2>8. \A x \in Sequences(uplink[c]) : x = command.sequence \/ x \in Sequences(uplink'[c])
    <3>1. SUFFICES ASSUME NEW x \in Sequences(uplink[c]), x # command.sequence
                   PROVE  x \in Sequences(rest)
      BY <2>7
    <3>2. PICK i \in 1..len : x = uplink[c][i].sequence
      BY <1>7 DEF Sequences
    <3>3. i - 1 \in 1..len - 1 /\ i - 1 + 1 = i
      BY <1>7, <3>1, <3>2
    <3>4. rest[i - 1] = uplink[c][i]
      BY <1>7, <3>3
    <3> QED
      BY <1>7, <3>2, <3>3, <3>4 DEF Sequences
  <2>9. lost[c] \subseteq lost'[c]
    BY <1>4 DEF Typed
  <2>10. command.sequence \in Sequences(queues'[c]) \cup lost'[c]
    <3>1. CASE ReceiveInputFails(c, command) /\ lost' = [lost EXCEPT ![c] = @ \cup {command.sequence}]
      BY <1>2, <3>1
    <3>2. CASE ReceiveBuffered(c, command)
      <4>1. PICK queue, grown : queue = queues[c] /\ grown = push(queues[c], command)
        OBVIOUS
      <4>2. PICK d \in 0..Len(queue) :
               /\ grown \in Seq(Buffered) /\ Len(grown) = Len(queue) - d + 1
               /\ grown[Len(queue) - d + 1].sequence = command.sequence
        <5>1. command.timestamp \in Nat
          BY <1>7 DEF Commands
        <5>2. PICK d \in 0..Len(queue) :
                 /\ push(queue, command) \in Seq(Buffered)
                 /\ Len(push(queue, command)) = Len(queue) - d + 1
                 /\ push(queue, command)[Len(queue) - d + 1] =
                        [sequence |-> command.sequence, timestamp |-> command.timestamp,
                         received |-> clock]
          BY <1>2, <1>8, <4>1, <5>1, PushDrops
        <5>3. grown[Len(queue) - d + 1].sequence = command.sequence
          BY <4>1, <5>2
        <5> QED
          BY <4>1, <5>2, <5>3
      <4>3. Len(queue) - d + 1 \in DOMAIN grown
        BY <1>2, <4>1, <4>2, DomainLen
      <4>4. queues'[c] = grown
        BY <1>9, <3>2, <4>1 DEF Typed
      <4> QED
        BY <4>2, <4>3, <4>4 DEF Sequences
    <3> QED
      BY <1>4, <3>1, <3>2
  <2>11. Sequences(queues[c]) \subseteq Sequences(queues'[c]) \cup lost'[c]
    <3>1. CASE ReceiveInputFails(c, command)
      BY <1>5, <3>1
    <3>2. CASE lost' = [lost EXCEPT ![c] = @ \cup (Sequences(queues[c]) \ Sequences(queues'[c]))]
      BY <1>2, <3>2
    <3> QED
      BY <1>4, <3>1, <3>2
  <2>12. \A x : Accounted(c, x) => Accounted(c, x)'
    BY <1>3, <2>8, <2>9, <2>10, <2>11 DEF Accounted
  <2>13. PendingFits(c)'
    BY <1>3, <2>1, <2>12 DEF ClientFits, PendingFits, Accounted
  <2>14. AgreeFits(c)'
    BY <1>3, <1>5, <2>1 DEF ClientFits, AgreeFits
  <2> QED
    BY <2>3, <2>4, <2>5, <2>6, <2>13, <2>14 DEF ClientFits
<1> QED
  BY <1>11, <1>12, <1>13

LEMMA ForgeFits ==
    ASSUME IInv, NEW c \in Clients, Forge(c)
    PROVE  IInv'
<1> USE DEF IInv
<1>1. /\ c \notin honest
      /\ UNCHANGED <<honest, predicted, history, uplink, downlink, issued, lastFrame, lost, steady,
                     prompt>>
  BY DEF Forge
<1>2. \/ \E command \in Commands : ReceiveInput(c, command)
      \/ \E shooter, verdict : RefuseHit(c, shooter, verdict)
  <2>1. Forgeries \subseteq Commands
    <3>1. \A n \in 0..MaxSequence \cup {SequenceModulus - 1} : n \in Nat
      BY InputSystemAssumption, PlayerInputAssumption
    <3>2. \A n \in 1..MaxSequence - 1 \cup {ClockModulus - 1} : n \in Nat
      BY InputSystemAssumption, RateLimitAssumption
    <3> QED
      BY <3>1, <3>2 DEF Forgeries, InputCmd, Commands, Faults
  <2> QED
    BY <2>1 DEF Forge
<1>3. /\ queues[c] \in Seq(Buffered) /\ Ordered(queues[c]) /\ clock \in Nat
      /\ queues \in [Clients -> Seq(Buffered)]
  BY DEF Typed, ClientFits, QueueFits
<1>4. /\ UNCHANGED <<players, clock>>
      /\ suspicion' \in [Clients -> Nat] /\ DOMAIN limiters' = Clients
      /\ queues' \in [Clients -> Seq(Buffered)] /\ Ordered(queues'[c])
      /\ c \notin DOMAIN players => UNCHANGED <<queues, suspicion, limiters>>
      /\ \A d \in Clients : d # c => /\ queues'[d] = queues[d] /\ suspicion'[d] = suspicion[d]
                                     /\ limiters'[d] = limiters[d]
  <2>1. ASSUME NEW command \in Commands, ReceiveInput(c, command)
        PROVE  /\ UNCHANGED <<players, clock>>
               /\ suspicion' \in [Clients -> Nat] /\ DOMAIN limiters' = Clients
               /\ queues' \in [Clients -> Seq(Buffered)] /\ Ordered(queues'[c])
               /\ c \notin DOMAIN players => UNCHANGED <<queues, suspicion, limiters>>
               /\ \A d \in Clients : d # c => /\ queues'[d] = queues[d] /\ suspicion'[d] = suspicion[d]
                                              /\ limiters'[d] = limiters[d]
    <3>1. /\ UNCHANGED <<players, clock>>
          /\ suspicion' \in [Clients -> Nat] /\ DOMAIN limiters' = Clients
          /\ \A d \in Clients : d # c => /\ queues'[d] = queues[d] /\ suspicion'[d] = suspicion[d]
                                         /\ limiters'[d] = limiters[d]
          /\ c \notin DOMAIN players => UNCHANGED <<queues, suspicion, limiters>>
          /\ ReceiveInputFails(c, command) => UNCHANGED queues
      BY <2>1, ReceiveChanges
    <3>2. CASE ReceiveInputFails(c, command)
      BY <1>3, <3>1, <3>2
    <3>3. CASE ReceiveBuffered(c, command)
      <4>1. PICK queue, grown : queue = queues[c] /\ grown = push(queue, command)
        OBVIOUS
      <4>2. Pushable(queue, command) /\ queues' = [queues EXCEPT ![c] = grown]
        BY <3>3, <4>1 DEF ReceiveBuffered
      <4>3. grown \in Seq(Buffered) /\ Ordered(grown)
        BY <1>3, <4>1, <4>2, BufferedOrdered
      <4>4. queues' \in [Clients -> Seq(Buffered)] /\ Ordered(queues'[c])
        BY <1>3, <4>2, <4>3
      <4> QED
        BY <3>1, <4>4
    <3> QED
      BY <2>1, <3>2, <3>3 DEF ReceiveInput
  <2>2. ASSUME NEW shooter, NEW verdict, RefuseHit(c, shooter, verdict)
        PROVE  /\ UNCHANGED <<players, clock, queues, limiters>> /\ c \in DOMAIN players
               /\ suspicion' \in [Clients -> Nat]
               /\ \A d \in Clients : d # c => suspicion'[d] = suspicion[d]
    BY SMTT(30), <2>2, PlayerInputAssumption DEF RefuseHit, Judges, addSuspicion, Typed
  <2>3. CASE \E command \in Commands : ReceiveInput(c, command)
    BY <2>1, <2>3
  <2>4. CASE \E shooter, verdict : RefuseHit(c, shooter, verdict)
    BY <1>3, <2>2, <2>4 DEF Typed
  <2> QED
    BY <1>2, <2>3, <2>4
<1>5. Typed'
  BY <1>1, <1>4 DEF Typed
<1>6. ASSUME NEW d \in Clients, d # c PROVE ClientFits(d)'
  <2>1. Untouched(d)
    BY <1>1, <1>4, <1>6 DEF Untouched
  <2> QED
    BY <2>1, UntouchedFits
<1>7. ClientFits(c)'
  <2>1. ClientFits(c)
    OBVIOUS
  <2>2. history[c] = << >>
    BY <1>1, <2>1 DEF ClientFits, OutsiderFits
  <2>3. QueueFits(c)'
    BY <1>4 DEF QueueFits
  <2>4. MovesFit(c)'
    BY <1>4, <2>1 DEF ClientFits, MovesFit
  <2>5. NewcomerFits(c)' /\ OutsiderFits(c)'
    BY <1>1, <1>4, <2>1 DEF ClientFits, NewcomerFits, OutsiderFits
  <2>6. HistoryFits(c)'
    BY <1>1, <2>1 DEF ClientFits, HistoryFits
  <2>7. PendingFits(c)'
    BY <1>1, <2>2 DEF PendingFits
  <2>8. AgreeFits(c)'
    BY <1>1 DEF AgreeFits
  <2> QED
    BY <2>3, <2>4, <2>5, <2>6, <2>7, <2>8 DEF ClientFits
<1> QED
  BY <1>5, <1>6, <1>7

LEMMA CorrectFits ==
    ASSUME IInv, NEW c \in Clients, Correct(c)
    PROVE  IInv'
<1> USE DEF IInv
<1>1. PICK message : message = Head(downlink[c])
  OBVIOUS
<1>2. /\ downlink[c] # << >> /\ downlink' = [downlink EXCEPT ![c] = Tail(downlink[c])]
      /\ UNCHANGED <<players, queues, suspicion, limiters, clock, honest, uplink, issued, lost,
                     steady, prompt>>
  BY DEF Correct, Taken, vars
<1>3. \/ /\ message.kind = "correction"
         /\ Client!reconcile(c, message.body)
         /\ UNCHANGED lastFrame
      \/ /\ message.kind = "spawn"
         /\ Client!reset(c, message.body)
         /\ lastFrame' = [lastFrame EXCEPT ![c] = IF message.body.simulationTime = 0
                                                  THEN clock
                                                  ELSE message.body.simulationTime]
  BY <1>1 DEF Correct
<1>4. PICK len, rest : len = Len(downlink[c]) /\ rest = Tail(downlink[c])
  OBVIOUS
<1>5. /\ downlink[c] \in Seq(Messages) /\ history[c] \in Seq(Predictions)
  BY DEF Typed
<1>6. /\ len \in Nat \ {0} /\ rest \in Seq(Messages) /\ Len(rest) = len - 1
      /\ \A i \in 1..len - 1 : rest[i] = downlink[c][i + 1]
      /\ message = downlink[c][1] /\ message \in Messages
      /\ DOMAIN downlink[c] = 1..len /\ DOMAIN rest = 1..len - 1
  <2>1. len \in Nat \ {0} /\ message = downlink[c][1] /\ message \in Messages
    BY <1>1, <1>2, <1>4, <1>5, HeadTailProperties, EmptySeq, LenProperties
  <2>2. rest \in Seq(Messages) /\ Len(rest) = len - 1
    BY <1>2, <1>4, <1>5, HeadTailProperties
  <2>3. \A i \in 1..len - 1 : rest[i] = downlink[c][i + 1]
    BY <1>2, <1>4, <1>5, <2>2, HeadTailProperties
  <2> QED
    BY <1>4, <1>5, <2>1, <2>2, <2>3, DomainLen
<1>7. downlink'[c] = rest /\ downlink' \in [Clients -> Seq(Messages)]
  BY <1>2, <1>4, <1>6 DEF Typed
<1>8. ClientFits(c) /\ c \in honest /\ c \in DOMAIN players
  BY <1>2 DEF ClientFits, OutsiderFits, NewcomerFits
\* With no message behind this one, it tells the server's state.
<1>9. IF len = 1 THEN rest = << >> /\ StateOf(message) = players[c]
      ELSE rest # << >> /\ StateOf(Last(rest)) = players[c]
  <2>1. StateOf(downlink[c][len]) = players[c]
    BY <1>2, <1>4, <1>8 DEF ClientFits, AgreeFits, Last
  <2>2. CASE len = 1
    BY <1>6, <2>1, <2>2, EmptySeq
  <2>3. CASE len # 1
    <3>1. len - 1 \in 1..len - 1 /\ len - 1 + 1 = len
      BY <1>6, <2>3
    <3>2. rest[len - 1] = downlink[c][len]
      BY <1>6, <3>1
    <3> QED
      BY <1>6, <2>1, <2>3, <3>1, <3>2, EmptySeq DEF Last
  <2> QED
    BY <2>2, <2>3
<1>10. CASE message.kind = "spawn"
  <2>1. message.body \in Bodies /\ StateOf(message) = message.body
    BY <1>6, <1>10 DEF Messages, StateOf
  <2>2. /\ predicted' = [predicted EXCEPT ![c] = message.body]
        /\ history' = [history EXCEPT ![c] = << >>]
        /\ lastFrame' \in [Clients -> Nat]
    <3>1. message.body.simulationTime \in Nat /\ clock \in Nat /\ lastFrame \in [Clients -> Nat]
      BY <2>1 DEF Bodies, States, Typed
    <3> QED
      BY <1>3, <1>10, <3>1 DEF Client!reset
  <2>3. Typed'
    <3>1. predicted' \in [Clients -> States] /\ history' \in [Clients -> Seq(Predictions)]
      BY <2>1, <2>2, EmptySeq DEF Typed, Bodies
    <3> QED
      BY <1>2, <1>7, <2>2, <3>1 DEF Typed
  <2>4. ASSUME NEW d \in Clients, d # c PROVE ClientFits(d)'
    <3>1. Untouched(d)
      BY <1>2, <2>2, <2>4 DEF Untouched, Typed
    <3> QED
      BY <3>1, UntouchedFits
  <2>5. predicted'[c] = message.body /\ history'[c] = << >>
    BY <2>2 DEF Typed
  <2>6. QueueFits(c)' /\ MovesFit(c)'
    BY <1>2, <1>8 DEF ClientFits, QueueFits, MovesFit
  <2>7. NewcomerFits(c)' /\ OutsiderFits(c)'
    BY <1>2, <1>8 DEF NewcomerFits, OutsiderFits
  <2>8. HistoryFits(c)' /\ PendingFits(c)'
    BY <2>5, EmptySeq DEF HistoryFits, PendingFits
  <2>9. AgreeFits(c)'
    <3>1. Client!Replayed(message.body, << >>) = message.body
      BY ReplayedEmpty
    <3> QED
      BY <1>2, <1>7, <1>9, <2>1, <2>5, <3>1 DEF AgreeFits
  <2> QED
    BY <2>3, <2>4, <2>6, <2>7, <2>8, <2>9 DEF ClientFits
<1>11. CASE message.kind = "correction"
  <2>1. PICK state, last, pending :
           /\ state = message.body.state /\ last = message.body.lastProcessedSequence
           /\ pending = Client!Uncovered(history[c], last)
    OBVIOUS
  <2>2. state \in Bodies /\ last \in Nat /\ StateOf(message) = state
    BY <1>6, <1>11, <2>1 DEF Messages, StateOf
  <2>3. /\ history' = [history EXCEPT ![c] = pending]
        /\ predicted' = [predicted EXCEPT ![c] = Client!Replayed(state, pending)]
        /\ UNCHANGED lastFrame
    BY <1>3, <1>11, <2>1 DEF Client!reconcile
  <2>4. \A i, j \in DOMAIN history[c] :
            i < j => history[c][i].command.sequence < history[c][j].command.sequence
    BY <1>8 DEF ClientFits, HistoryFits
  <2>5. PICK d \in 0..Len(history[c]) :
           /\ pending \in Seq(Predictions) /\ Len(pending) = Len(history[c]) - d
           /\ \A i \in 1..Len(history[c]) - d : pending[i] = history[c][i + d]
           /\ \A i \in 1..Len(history[c]) - d : history[c][i + d].command.sequence > last
    <3>1. PICK old : old = history[c]
      OBVIOUS
    <3>2. old \in Seq(Predictions)
          /\ \A i, j \in DOMAIN old : i < j => old[i].command.sequence < old[j].command.sequence
      BY <1>5, <2>4, <3>1
    <3>3. pending = Client!Uncovered(old, last)
      BY <2>1, <3>1
    <3>4. PICK d \in 0..Len(old) :
             /\ Client!Uncovered(old, last) \in Seq(Predictions)
             /\ Len(Client!Uncovered(old, last)) = Len(old) - d
             /\ \A i \in 1..Len(old) - d : Client!Uncovered(old, last)[i] = old[i + d]
             /\ \A i \in 1..d : old[i].command.sequence <= last
             /\ \A i \in 1..Len(old) - d : old[i + d].command.sequence > last
      BY <2>2, <3>2, UncoveredDrops
    <3> QED
      BY <3>1, <3>3, <3>4
  <2>6. PICK n : n = Len(history[c])
    OBVIOUS
  <2>7. /\ n \in Nat /\ d \in 0..n /\ DOMAIN history[c] = 1..n /\ DOMAIN pending = 1..n - d
        /\ history'[c] = pending
    BY <1>5, <2>3, <2>5, <2>6, DomainLen DEF Typed
  <2>8. Client!Replayed(state, pending) \in States
    <3>1. state \in States
      BY <2>2 DEF Bodies
    <3> QED
      BY <2>5, <3>1, ReplayedTyped
  <2>9. Typed'
    <3>1. predicted' \in [Clients -> States] /\ history' \in [Clients -> Seq(Predictions)]
      BY <2>3, <2>5, <2>8 DEF Typed
    <3> QED
      BY <1>2, <1>7, <2>3, <3>1 DEF Typed
  <2>10. ASSUME NEW e \in Clients, e # c PROVE ClientFits(e)'
    <3>1. Untouched(e)
      BY <1>2, <2>3, <2>10 DEF Untouched, Typed
    <3> QED
      BY <3>1, UntouchedFits
  <2>11. QueueFits(c)' /\ MovesFit(c)'
    BY <1>2, <1>8 DEF ClientFits, QueueFits, MovesFit
  <2>12. NewcomerFits(c)' /\ OutsiderFits(c)'
    BY <1>2, <1>8 DEF NewcomerFits, OutsiderFits
  <2>13. \A i \in 1..n - d : i + d \in 1..n /\ pending[i] = history[c][i + d]
    BY <2>5, <2>6, <2>7
  <2>14. HistoryFits(c)'
    <3>1. ASSUME NEW i \in 1..n - d, NEW j \in 1..n - d, i < j
          PROVE  pending[i].command.sequence < pending[j].command.sequence
      <4>1. i + d < j + d
        BY <2>7, <3>1
      <4> QED
        BY <2>4, <2>7, <2>13, <4>1
    <3>2. ASSUME NEW i \in 1..n - d
          PROVE  pending[i].command.sequence <= issued[c]
      BY <1>8, <2>7, <2>13 DEF ClientFits, HistoryFits
    <3> QED
      BY <1>2, <2>7, <3>1, <3>2 DEF HistoryFits
  <2>15. PendingFits(c)'
    <3>1. ASSUME NEW i \in 1..n - d
          PROVE  \E x : x = pending[i].command.sequence /\ Accounted(c, x)'
      <4>1. PICK x : x = pending[i].command.sequence
        OBVIOUS
      <4>2. x = history[c][i + d].command.sequence /\ i + d \in 1..n
        BY <2>13, <4>1
      <4>3. Accounted(c, x)
        BY <1>8, <2>7, <4>2 DEF ClientFits, PendingFits, Accounted
      <4>4. x > last /\ x \in Nat
        <5>1. history[c][i + d] \in Predictions
          BY <1>5, <2>6, <4>2, ElementOfSeq
        <5> QED
          BY <2>5, <2>6, <4>2, <5>1 DEF Predictions, Commands
      <4>5. ASSUME NEW k \in 1..len, downlink[c][k].kind = "correction",
                   x <= downlink[c][k].body.lastProcessedSequence
            PROVE  \E j \in DOMAIN rest : /\ rest[j].kind = "correction"
                                          /\ x <= rest[j].body.lastProcessedSequence
        <5>1. k # 1
          BY <1>6, <2>1, <2>2, <4>4, <4>5
        <5>2. k - 1 \in 1..len - 1 /\ k - 1 + 1 = k
          BY <1>6, <5>1
        <5> QED
          BY <1>6, <4>5, <5>2
      <4>6. Accounted(c, x)'
        BY <1>2, <1>6, <1>7, <4>3, <4>5 DEF Accounted
      <4> QED
        BY <4>1, <4>6
    <3> QED
      BY <2>7, <3>1 DEF PendingFits, Accounted
  <2>16. AgreeFits(c)'
    <3>1. predicted'[c] = Client!Replayed(state, pending)
      BY <2>3 DEF Typed
    <3> QED
      BY <1>2, <1>7, <1>9, <2>2, <2>7, <3>1 DEF AgreeFits
  <2> QED
    BY <2>9, <2>10, <2>11, <2>12, <2>14, <2>15, <2>16 DEF ClientFits
<1> QED
  BY <1>3, <1>10, <1>11

\* A suffix of an ordered buffer is ordered.
LEMMA SuffixOrdered ==
    ASSUME NEW queue \in Seq(Buffered), Ordered(queue), NEW rest, NEW d \in 0..Len(queue),
           Len(rest) = Len(queue) - d,
           \A i \in 1..Len(queue) - d : rest[i] = queue[i + d]
    PROVE  Ordered(rest)
<1>1. Len(queue) \in Nat
  BY LenProperties
<1>2. ASSUME NEW i \in 1..Len(queue) - d, NEW j \in 1..Len(queue) - d, i < j
      PROVE  rest[i].sequence < rest[j].sequence
  <2>1. i + d \in 1..Len(queue) /\ j + d \in 1..Len(queue) /\ i + d < j + d
    BY <1>1, <1>2
  <2> QED
    BY <2>1 DEF Ordered
<1> QED
  BY <1>2 DEF Ordered

\* Simulating newer commands in order keeps the moves in order.
LEMMA SimulatedInOrder ==
    ASSUME NEW state \in Bodies, MovesInOrder(state),
           NEW commands \in Seq(Buffered), commands # << >>, Ordered(commands),
           \/ LastSequence(state.lastProcessedSequence)
           \/ \A i \in 1..Len(commands) : commands[i].sequence > state.lastProcessedSequence
    PROVE  MovesInOrder(Simulated(state, commands))
<1>1. PICK next : next = Simulated(state, commands)
  OBVIOUS
<1>2. /\ next \in Bodies
      /\ next.lastProcessedSequence = commands[Len(commands)].sequence
      /\ Len(next.moves) = Len(state.moves) + Len(commands)
      /\ \A i \in 1..Len(state.moves) : next.moves[i] = state.moves[i]
      /\ \A i \in 1..Len(commands) : next.moves[Len(state.moves) + i][1] = commands[i].sequence
  BY <1>1, SimulatedTyped
<1>3. PICK base, len : base = Len(state.moves) /\ len = Len(commands)
  OBVIOUS
<1>4. /\ base \in Nat /\ DOMAIN state.moves = 1..base
      /\ DOMAIN next.moves = 1..base + len
      /\ len \in Nat \ {0} /\ state.lastProcessedSequence \in Nat
      /\ \A i \in 1..base : state.moves[i] \in Nat \X Nat
      /\ \A i \in 1..len : commands[i].sequence \in Nat
  <2>1. state.moves \in Seq(Nat \X Nat) /\ next.moves \in Seq(Nat \X Nat)
        /\ state.lastProcessedSequence \in Nat
    BY <1>2 DEF Bodies, States, Moves
  <2>2. \A i \in 1..len : commands[i] \in Buffered
    BY <1>3, ElementOfSeq
  <2>3. \A i \in 1..base : state.moves[i] \in Nat \X Nat
    BY <1>3, <2>1, ElementOfSeq
  <2>4. base \in Nat /\ DOMAIN state.moves = 1..base
    BY <1>3, <2>1, DomainLen
  <2>5. DOMAIN next.moves = 1..Len(next.moves) /\ Len(next.moves) = base + len
    BY <1>2, <1>3, <2>1, DomainLen
  <2>6. len \in Nat \ {0}
    BY <1>3, EmptySeq, LenProperties
  <2>7. \A i \in 1..len : commands[i].sequence \in Nat
    BY <2>2 DEF Buffered
  <2> QED
    BY <2>1, <2>3, <2>4, <2>5, <2>6, <2>7
<1>5. \A i \in 1..base : next.moves[i] = state.moves[i] /\ next.moves[i][1] \in Nat
  BY <1>2, <1>3, <1>4
<1>6. ASSUME NEW i \in 1..base + len, i \notin 1..base
      PROVE  /\ i - base \in 1..len /\ next.moves[i][1] = commands[i - base].sequence
             /\ next.moves[i][1] \in Nat
  <2>1. PICK k \in 1..len : k = i - base /\ base + k = i
    <3>1. i - base \in 1..len /\ base + (i - base) = i
      BY <1>4, <1>6
    <3> QED
      BY <3>1, Zenon
  <2>2. next.moves[base + k][1] = commands[k].sequence /\ commands[k].sequence \in Nat
    BY <1>2, <1>3, <1>4
  <2> QED
    BY <2>1, <2>2
\* The newest move before is the one the commands come after.
<1>7. ASSUME base # 0
      PROVE  base \in 1..base /\ next.moves[base][1] = state.lastProcessedSequence
  <2>1. base \in 1..base /\ state.moves # << >>
    BY <1>3, <1>4, <1>7, EmptySeq
  <2> QED
    BY <1>3, <1>5, <2>1 DEF MovesInOrder
<1>8. ASSUME NEW i \in 1..base + len, NEW j \in 1..base + len, i < j
      PROVE  \/ next.moves[i][1] < next.moves[j][1]
             \/ \E k \in i..j - 1 : LastSequence(next.moves[k][1])
  <2>1. CASE j \in 1..base
    <3>1. i \in 1..base /\ \A k \in i..j - 1 : k \in 1..base
      BY <1>4, <1>8, <2>1
    <3>2. \/ state.moves[i][1] < state.moves[j][1]
          \/ \E k \in i..j - 1 : LastSequence(state.moves[k][1])
      BY <1>4, <1>8, <2>1, <3>1 DEF MovesInOrder
    <3> QED
      BY <1>5, <2>1, <3>1, <3>2
  <2>2. CASE j \notin 1..base
    <3>1. /\ j - base \in 1..len /\ next.moves[j][1] = commands[j - base].sequence
          /\ next.moves[j][1] \in Nat
      BY <1>6, <2>2
    <3>2. CASE i \notin 1..base
      <4>1. i - base \in 1..len /\ next.moves[i][1] = commands[i - base].sequence
        BY <1>6, <3>2
      <4>2. i - base < j - base
        BY <1>4, <1>8
      <4> QED
        BY <1>3, <3>1, <4>1, <4>2 DEF Ordered
    <3>3. CASE i \in 1..base
      <4>1. /\ base \in 1..base /\ base \in i..j - 1
            /\ next.moves[base][1] = state.lastProcessedSequence
        <5>1. base # 0 /\ base \in i..j - 1
          BY <1>4, <2>2, <3>3
        <5> QED
          BY <1>7, <5>1
      <4>2. CASE LastSequence(state.lastProcessedSequence)
        BY <4>1, <4>2
      <4>3. CASE \A k \in 1..len : commands[k].sequence > state.lastProcessedSequence
        <5>1. next.moves[j][1] > next.moves[base][1]
          BY <3>1, <4>1, <4>3
        <5>2. \/ i = base \/ next.moves[i][1] < next.moves[base][1]
              \/ \E k \in i..base - 1 : LastSequence(next.moves[k][1])
          <6>1. SUFFICES ASSUME i # base
                         PROVE  \/ next.moves[i][1] < next.moves[base][1]
                                \/ \E k \in i..base - 1 : LastSequence(next.moves[k][1])
            OBVIOUS
          <6>2. i < base /\ \A k \in i..base - 1 : k \in 1..base
            BY <1>4, <3>3, <6>1
          <6>3. \/ state.moves[i][1] < state.moves[base][1]
                \/ \E k \in i..base - 1 : LastSequence(state.moves[k][1])
            BY <1>4, <3>3, <4>1, <6>2 DEF MovesInOrder
          <6> QED
            BY <1>5, <3>3, <4>1, <6>2, <6>3
        <5>3. \A k \in i..base - 1 : k \in i..j - 1
          BY <1>4, <3>3, <4>1
        <5>4. next.moves[i][1] \in Nat /\ next.moves[base][1] \in Nat
          BY <1>5, <3>3, <4>1
        <5> QED
          BY <3>1, <5>1, <5>2, <5>3, <5>4
      <4> QED
        BY <1>3, <4>2, <4>3
    <3> QED
      BY <3>2, <3>3
  <2> QED
    BY <2>1, <2>2
<1>9. next.moves[Len(next.moves)][1] = next.lastProcessedSequence
  BY <1>2, <1>3, <1>4
<1> QED
  BY <1>1, <1>4, <1>8, <1>9 DEF MovesInOrder

\* The successor of a sequence, short of the wrap.
LEMMA Successor ==
    ASSUME NEW sequence \in Nat
    PROVE  /\ NextSequence(sequence) \in Nat
           /\ sequence + 1 < SequenceModulus => NextSequence(sequence) = sequence + 1
<1>1. SequenceModulus \in Nat /\ SequenceModulus > 0 /\ sequence + 1 \in Nat
  BY PlayerInputAssumption
<1> QED
  BY <1>1 DEF NextSequence

\* What serving a client does to its state and its buffer.
LEMMA TickServes ==
    ASSUME IInv, ServerTick, NEW c \in Clients
    PROVE  /\ queues'[c] \in Seq(Buffered) /\ Ordered(queues'[c])
           /\ c \in DOMAIN players => players'[c] \in Bodies
           /\ MovesFit(c)'
           /\ \A x \in Sequences(queues[c]) :
                 \/ x \in Sequences(queues'[c])
                 \/ x \in Sequences(queues[c]) \ Sequences(prune(queues[c]))
                 \/ Advances(c) /\ x <= players'[c].lastProcessedSequence
           /\ ~Advances(c) /\ c \in DOMAIN players => players'[c] = players[c]
           /\ Advances(c) => c \in DOMAIN players
           /\ queues[c] = << >> => queues'[c] = << >> /\ ~Advances(c)
           /\ \E d \in 0..Len(queues[c]) :
                 /\ Len(queues'[c]) = Len(queues[c]) - d
                 /\ \A i \in 1..Len(queues[c]) - d : queues'[c][i] = queues[c][i + d]
<1>1. PICK queue, fresh : queue = queues[c] /\ fresh = prune(queue)
  OBVIOUS
<1>2. queue \in Seq(Buffered) /\ Ordered(queue) /\ Len(queue) \in Nat
  BY <1>1, LenProperties DEF IInv, Typed, ClientFits, QueueFits
<1>3. PICK d \in 0..Len(queue) :
         /\ fresh \in Seq(Buffered) /\ Len(fresh) = Len(queue) - d
         /\ \A i \in 1..Len(queue) - d : fresh[i] = queue[i + d]
  BY <1>1, <1>2, PruneDrops
<1>4. Ordered(fresh)
  BY <1>2, <1>3, SuffixOrdered
<1>5. DOMAIN players' = DOMAIN players
  BY DEF ServerTick, SimulatePending
<1>6. queue = << >> => fresh = << >>
  BY <1>2, <1>3, EmptySeq
<1>7. /\ c \in DOMAIN players =>
            players'[c] = IF Advances(c) THEN Simulated(players[c], Pending(c)) ELSE players[c]
      /\ queues'[c] = IF Advances(c)
                      THEN acknowledge(fresh, players'[c].lastProcessedSequence)
                      ELSE fresh
  BY <1>1 DEF ServerTick, SimulatePending
<1>8. /\ c \in DOMAIN players => players[c] \in Bodies /\ MovesInOrder(players[c])
  BY DEF IInv, Typed, ClientFits, MovesFit
<1>9. CASE ~Advances(c)
  <2>1. \A x \in Sequences(queue) : x \in Sequences(fresh) \/ x \in Sequences(queue) \ Sequences(fresh)
    OBVIOUS
  <2> QED
    BY <1>1, <1>3, <1>4, <1>5, <1>6, <1>7, <1>8, <1>9, <2>1 DEF MovesFit
<1>10. CASE Advances(c)
  <2>1. c \in DOMAIN players
    BY <1>10 DEF Advances, Judges
  <2>2. PICK state, pending, first :
           /\ state = players[c] /\ first = NextSequence(state.lastProcessedSequence)
           /\ pending = replayFrom(fresh, first)
    OBVIOUS
  <2>3. state \in Bodies /\ MovesInOrder(state) /\ state.lastProcessedSequence \in Nat /\ first \in Nat
    <3>1. state \in Bodies /\ MovesInOrder(state) /\ state.lastProcessedSequence \in Nat
      BY <1>8, <2>1, <2>2 DEF Bodies, States
    <3>2. NextSequence(state.lastProcessedSequence) \in Nat
      BY <3>1, Successor
    <3> QED
      BY <2>2, <3>1, <3>2
  <2>4. pending = Pending(c) /\ pending # << >>
    BY <1>1, <1>10, <2>2 DEF Pending, Advances
  <2>5. PICK e \in 0..Len(fresh) :
           /\ pending \in Seq(Buffered) /\ Len(pending) = Len(fresh) - e
           /\ \A i \in 1..Len(fresh) - e : pending[i] = fresh[i + e]
           /\ \A i \in 1..Len(fresh) - e : fresh[i + e].sequence >= first
    BY ZenonT(30), <1>3, <1>4, <2>2, <2>3, ReplayDrops
  <2>6. Ordered(pending)
    BY <1>3, <1>4, <2>5, SuffixOrdered
  <2>7. \/ LastSequence(state.lastProcessedSequence)
        \/ \A i \in 1..Len(pending) : pending[i].sequence > state.lastProcessedSequence
    <3>1. SUFFICES ASSUME first > state.lastProcessedSequence, NEW i \in 1..Len(pending)
                   PROVE  pending[i].sequence > state.lastProcessedSequence
      BY <2>2, <2>3 DEF LastSequence
    <3>2. pending[i] \in Buffered
      BY <2>5, ElementOfSeq
    <3>3. pending[i].sequence \in Nat /\ pending[i].sequence >= first
      BY <2>5, <3>2 DEF Buffered
    <3> QED
      BY <2>3, <3>1, <3>3
  <2>8. PICK next : next = Simulated(state, pending)
    OBVIOUS
  <2>9. next \in Bodies /\ MovesInOrder(next)
    <3>1. MovesInOrder(Simulated(state, pending))
      BY <2>3, <2>4, <2>5, <2>6, <2>7, SimulatedInOrder
    <3>2. Simulated(state, pending) \in Bodies
      BY <2>3, <2>4, <2>5, SimulatedTyped
    <3> QED
      BY <2>8, <3>1, <3>2
  <2>10. players'[c] = next
    BY <1>7, <1>10, <2>1, <2>2, <2>4, <2>8
  <2>11. PICK last, rest : last = next.lastProcessedSequence /\ rest = acknowledge(fresh, last)
    OBVIOUS
  <2>12. last \in Nat
    BY <2>9, <2>11 DEF Bodies, States
  <2>13. PICK k \in 0..Len(fresh) :
            /\ rest \in Seq(Buffered) /\ Len(rest) = Len(fresh) - k
            /\ \A i \in 1..Len(fresh) - k : rest[i] = fresh[i + k]
            /\ \A i \in 1..k : fresh[i].sequence <= last
    BY <1>3, <2>11, <2>12, AcknowledgeDrops
  <2>14. Ordered(rest)
    BY <1>3, <1>4, <2>13, SuffixOrdered
  <2>15. queues'[c] = rest
    BY <1>7, <1>10, <2>10, <2>11
  <2>16. ASSUME NEW x \in Sequences(fresh) PROVE x \in Sequences(rest) \/ x <= last
    <3>1. DOMAIN fresh = 1..Len(fresh) /\ DOMAIN rest = 1..Len(rest) /\ Len(fresh) \in Nat
      BY <1>3, <2>13, DomainLen
    <3>2. PICK i \in 1..Len(fresh) : x = fresh[i].sequence
      BY <3>1 DEF Sequences
    <3>3. CASE i \in 1..k
      BY <2>13, <3>2, <3>3
    <3>4. CASE i \notin 1..k
      <4>1. i - k \in 1..Len(fresh) - k /\ i - k + k = i
        BY <3>1, <3>4
      <4>2. rest[i - k] = fresh[i] /\ i - k \in DOMAIN rest
        BY <2>13, <3>1, <4>1
      <4> QED
        BY <3>2, <4>2 DEF Sequences
    <3> QED
      BY <3>3, <3>4
  <2>17. queue = << >> => FALSE
    <3>1. SUFFICES ASSUME queue = << >> PROVE pending = << >>
      BY <2>4
    <3>2. Len(fresh) = 0
      BY <1>3, <1>6, <3>1, EmptySeq
    <3> QED
      BY <2>5, <3>2, EmptySeq
  <2>18. PICK len, more : len = Len(queue) /\ more = d + k
    OBVIOUS
  <2>19. /\ len \in Nat /\ more \in 0..len /\ Len(rest) = len - more
         /\ \A i \in 1..len - more : rest[i] = queue[i + more]
    <3>1. len \in Nat /\ d \in 0..len /\ k \in 0..len - d /\ Len(fresh) = len - d
      BY <1>2, <1>3, <2>13, <2>18
    <3>2. Len(rest) = len - more /\ more \in 0..len
      BY <2>13, <2>18, <3>1
    <3>3. ASSUME NEW i \in 1..len - more PROVE rest[i] = queue[i + more]
      <4>1. i \in 1..len - d - k /\ i + k \in 1..len - d /\ i + k + d = i + more
        BY <2>18, <3>1
      <4>2. rest[i] = fresh[i + k]
        BY <2>13, <3>1, <4>1
      <4>3. fresh[i + k] = queue[i + k + d]
        BY <1>3, <2>18, <4>1
      <4> QED
        BY <4>1, <4>2, <4>3
    <3> QED
      BY <3>1, <3>2, <3>3
  <2> QED
    BY <1>1, <1>5, <1>10, <2>1, <2>9, <2>10, <2>11, <2>13, <2>14, <2>15, <2>16, <2>17, <2>18, <2>19
       DEF MovesFit
<1> QED
  BY <1>9, <1>10

LEMMA ServerTickFits ==
    ASSUME IInv, ServerTick
    PROVE  IInv'
<1>1. UNCHANGED <<suspicion, limiters, clock, honest, predicted, history, uplink, issued,
                  lastFrame, prompt>>
  BY DEF ServerTick, SimulatePending
<1>2. /\ DOMAIN players' = DOMAIN players /\ DOMAIN queues' = Clients
      /\ DOMAIN downlink' = Clients /\ DOMAIN lost' = Clients /\ DOMAIN steady' = Clients
  BY DEF ServerTick, SimulatePending
<1>3. \A c \in Clients :
         /\ downlink'[c] = IF c \in honest /\ Advances(c)
                           THEN Append(downlink[c], Correction(players'[c]))
                           ELSE downlink[c]
         /\ lost'[c] = IF c \in honest
                       THEN lost[c] \cup (Sequences(queues[c]) \ Sequences(prune(queues[c])))
                       ELSE {}
         /\ steady'[c] \in BOOLEAN
  BY DEF ServerTick
\* A client's corrections, with the one of this tick.
<1>4. ASSUME NEW c \in Clients
      PROVE  /\ downlink'[c] \in Seq(Messages)
             /\ \A k \in DOMAIN downlink[c] :
                   k \in DOMAIN downlink'[c] /\ downlink'[c][k] = downlink[c][k]
             /\ c \in honest /\ Advances(c) =>
                   /\ downlink'[c] # << >>
                   /\ Last(downlink'[c]) = Correction(players'[c])
                   /\ Len(downlink'[c]) \in DOMAIN downlink'[c]
  <2>1. downlink[c] \in Seq(Messages)
    BY DEF IInv, Typed
  <2>2. CASE ~ (c \in honest /\ Advances(c))
    BY <1>3, <2>1, <2>2
  <2>3. CASE c \in honest /\ Advances(c)
    <3>1. players'[c] \in Bodies
      BY <2>3, TickServes
    <3>2. PICK message : message = Correction(players'[c])
      OBVIOUS
    <3>3. message \in Messages
      BY <3>1, <3>2 DEF Correction, PlayerCorrection, Messages, Bodies, States
    <3>4. downlink'[c] = Append(downlink[c], message)
      BY <1>3, <2>3, <3>2
    <3>5. PICK old, new : old = downlink[c] /\ new = downlink'[c]
      OBVIOUS
    <3>6. /\ new \in Seq(Messages) /\ Len(new) = Len(old) + 1 /\ Len(old) \in Nat
          /\ \A i \in 1..Len(old) : new[i] = old[i]
          /\ new[Len(old) + 1] = message
          /\ DOMAIN old = 1..Len(old) /\ DOMAIN new = 1..Len(new)
      BY <2>1, <3>3, <3>4, <3>5, AppendProperties, DomainLen
    <3>7. new # << >> /\ Last(new) = message /\ Len(new) \in DOMAIN new
      BY <3>6, EmptySeq DEF Last
    <3> QED
      BY <3>2, <3>5, <3>6, <3>7
  <2> QED
    BY <2>2, <2>3
<1>5. Typed'
  <2>1. queues' \in [Clients -> Seq(Buffered)] /\ downlink' \in [Clients -> Seq(Messages)]
    <3>1. \A c \in Clients : queues'[c] \in Seq(Buffered)
      BY TickServes
    <3>2. \A c \in Clients : downlink'[c] \in Seq(Messages)
      BY <1>4
    <3>3. queues' = [c \in Clients |-> queues'[c]] /\ downlink' = [c \in Clients |-> downlink'[c]]
      BY DEF ServerTick, SimulatePending
    <3> QED
      BY <3>1, <3>2, <3>3
  <2>2. DOMAIN players' \subseteq Clients /\ \A c \in DOMAIN players' : players'[c] \in Bodies
    <3>1. DOMAIN players \subseteq Clients
      BY DEF IInv, Typed
    <3> QED
      BY <1>2, <3>1, TickServes
  <2>3. lost' \in [Clients -> SUBSET Nat]
    <3>1. ASSUME NEW c \in Clients PROVE lost'[c] \subseteq Nat
      <4>1. queues[c] \in Seq(Buffered) /\ lost[c] \subseteq Nat
        BY DEF IInv, Typed
      <4>2. \A i \in DOMAIN queues[c] : queues[c][i] \in Buffered
        BY <4>1, DomainLen, ElementOfSeq
      <4>3. Sequences(queues[c]) \subseteq Nat
        BY <4>2 DEF Sequences, Buffered
      <4> QED
        BY <1>3, <4>1, <4>3
    <3>2. lost' = [c \in Clients |-> lost'[c]]
      BY DEF ServerTick
    <3> QED
      BY <3>1, <3>2
  <2>4. steady' \in [Clients -> BOOLEAN]
    BY DEF ServerTick
  <2> QED
    BY <1>1, <2>1, <2>2, <2>3, <2>4 DEF IInv, Typed
<1>6. ASSUME NEW c \in Clients PROVE ClientFits(c)'
  <2>1. ClientFits(c)
    BY DEF IInv
  <2>2. QueueFits(c)' /\ MovesFit(c)'
    BY TickServes DEF QueueFits
  <2>3. NewcomerFits(c)'
    <3>1. c \notin DOMAIN players => ~Advances(c) /\ queues'[c] = queues[c] /\ downlink'[c] = downlink[c]
      BY <1>3, <2>1, TickServes DEF ClientFits, NewcomerFits
    <3> QED
      BY <1>1, <1>2, <2>1, <3>1 DEF ClientFits, NewcomerFits
  <2>4. OutsiderFits(c)'
    BY <1>1, <1>3, <2>1 DEF ClientFits, OutsiderFits
  <2>5. HistoryFits(c)'
    BY <1>1, <2>1 DEF ClientFits, HistoryFits
  <2>6. PendingFits(c)'
    <3>1. CASE c \notin honest
      BY <1>1, <2>1, <3>1, EmptySeq DEF ClientFits, OutsiderFits, PendingFits
    <3>2. CASE c \in honest
      <4>1. ASSUME NEW x, Accounted(c, x)
            PROVE  Accounted(c, x)'
        <5>1. CASE x \in Sequences(queues[c])
          <6>1. CASE Advances(c) /\ x <= players'[c].lastProcessedSequence
            <7>1. PICK k : k = Len(downlink'[c])
              OBVIOUS
            <7>2. k \in DOMAIN downlink'[c] /\ downlink'[c][k] = Correction(players'[c])
              BY <1>4, <3>2, <6>1, <7>1 DEF Last
            <7>3. downlink'[c][k].kind = "correction"
                  /\ x <= downlink'[c][k].body.lastProcessedSequence
              BY <6>1, <7>2 DEF Correction, PlayerCorrection
            <7> QED
              BY <7>2, <7>3 DEF Accounted
          <6>2. CASE x \in Sequences(queues[c]) \ Sequences(prune(queues[c]))
            BY <1>3, <3>2, <6>2 DEF Accounted
          <6>3. CASE x \in Sequences(queues'[c])
            BY <6>3 DEF Accounted
          <6> QED
            BY <5>1, <6>1, <6>2, <6>3, TickServes
        <5>2. CASE x \in Sequences(uplink[c]) \cup lost[c]
          BY <1>1, <1>3, <3>2, <5>2 DEF Accounted
        <5>3. CASE \E k \in DOMAIN downlink[c] :
                      downlink[c][k].kind = "correction" /\ x <= downlink[c][k].body.lastProcessedSequence
          BY <1>4, <5>3 DEF Accounted
        <5> QED
          BY <4>1, <5>1, <5>2, <5>3 DEF Accounted
      <4> QED
        BY <1>1, <2>1, <4>1 DEF ClientFits, PendingFits, Accounted
    <3> QED
      BY <3>1, <3>2
  <2>7. AgreeFits(c)'
    <3>1. SUFFICES ASSUME c \in honest, c \in DOMAIN players
                   PROVE  AgreeFits(c)'
      BY <1>1, <1>2 DEF AgreeFits
    <3>2. CASE Advances(c)
      <4>1. downlink'[c] # << >> /\ Last(downlink'[c]) = Correction(players'[c])
        BY <1>4, <3>1, <3>2
      <4>2. StateOf(Last(downlink'[c])) = players'[c]
        BY <4>1 DEF StateOf, Correction, PlayerCorrection
      <4> QED
        BY <4>1, <4>2 DEF AgreeFits
    <3>3. CASE ~Advances(c)
      <4>1. players'[c] = players[c] /\ downlink'[c] = downlink[c]
        BY <1>3, <3>1, <3>3, TickServes
      <4> QED
        BY <1>1, <2>1, <3>1, <4>1 DEF ClientFits, AgreeFits
    <3> QED
      BY <3>2, <3>3
  <2> QED
    BY <2>2, <2>3, <2>4, <2>5, <2>6, <2>7 DEF ClientFits
<1> QED
  BY <1>5, <1>6 DEF IInv

LEMMA Invariance == SSpec => []IInv
<1>1. SInit => IInv
  BY InvariantInit
<1>2. IInv /\ [SNext]_systemVars => IInv'
  <2>1. SUFFICES ASSUME IInv, [SNext]_systemVars
                 PROVE  IInv'
    OBVIOUS
  <2>2. ASSUME NEW c \in Clients, Spawn(c) PROVE IInv'
    BY <2>1, <2>2, SpawnFits
  <2>3. ASSUME NEW c \in Clients, Frame(c) PROVE IInv'
    BY <2>1, <2>3, FrameFits
  <2>4. ASSUME NEW c \in Clients, Deliver(c) PROVE IInv'
    BY <2>1, <2>4, DeliverFits
  <2>5. ASSUME NEW c \in Clients, Correct(c) PROVE IInv'
    BY <2>1, <2>5, CorrectFits
  <2>6. ASSUME NEW c \in Clients, Forge(c) PROVE IInv'
    BY <2>1, <2>6, ForgeFits
  <2>7. CASE ServerTick
    BY <2>1, <2>7, ServerTickFits
  <2>8. CASE ClockTick
    BY <2>1, <2>8, ClockTickFits
  <2>9. CASE UNCHANGED systemVars
    BY <2>1, <2>9, StutterFits
  <2> QED
    BY <2>1, <2>2, <2>3, <2>4, <2>5, <2>6, <2>7, <2>8, <2>9 DEF SNext
<1> QED
  BY <1>1, <1>2, PTL DEF SSpec

\* An input is applied at most once and in the order of the sequences, whatever
\* the clients send, however late and however often, until a client gets the
\* largest 32-bit sequence applied: it is the one whose successor wraps
\* (ServerPlayerController.cpp:107), and only from there the code starts again.
THEOREM AppliedInOrderCorrect == SSpec => []AppliedInOrder
<1>1. IInv => AppliedInOrder
  <2>1. SUFFICES ASSUME IInv, NEW c \in DOMAIN players
                 PROVE  MovesInOrder(players[c])
    BY DEF AppliedInOrder, MovesInOrder, LastSequence
  <2> QED
    BY <2>1 DEF IInv, Typed, ClientFits, MovesFit
<1> QED
  BY <1>1, Invariance, PTL

\* Every input a client still holds is on its way, or queued, or covered by a
\* correction on its way, or was refused or dropped, through respawns, full
\* buffers and expired commands: none is forgotten.
THEOREM PendingAccountedCorrect == SSpec => []PendingAccounted
<1>1. IInv => PendingAccounted
  BY DEF IInv, ClientFits, PendingFits, Accounted, PendingAccounted
<1> QED
  BY <1>1, Invariance, PTL

\* With no correction on its way a client shows the server's state and its own
\* pending inputs on top, whatever was refused, capped or respawned before.
THEOREM PredictionAgreesCorrect == SSpec => []PredictionAgrees
<1>1. IInv => PredictionAgrees
  <2>1. SUFFICES ASSUME IInv, NEW c \in honest, c \in DOMAIN players, downlink[c] = << >>
                 PROVE  predicted[c] = Client!Replayed(players[c], history[c])
    BY DEF PredictionAgrees
  <2>2. AgreeFits(c)
    BY <2>1 DEF IInv, Typed, ClientFits
  <2> QED
    BY <2>1, <2>2 DEF AgreeFits
<1> QED
  BY <1>1, Invariance, PTL

------------------------------------------------------------------------------
(* Prompt clients. *)

\* No time that the clock of the run enters reaches its width.
NeverWraps ==
    \A span \in {Window, MaxHistory, MaxClientLead} : MaxClock + span < ClockModulus

LEMMA Scaled ==
    ASSUME NEW a \in Int, NEW b \in Int, NEW m \in Nat
    PROVE  /\ (b - a) * m = b * m - a * m
           /\ m # 0 /\ a < b => a * m < b * m
           /\ a <= b => a * m <= b * m
<1>1. (b - a) * m = b * m - a * m
  OBVIOUS
<1>2. ASSUME a < b, m # 0 PROVE a * m < b * m
  <2>1. PICK k \in Nat \ {0} : k = b - a
    BY <1>2
  <2>2. k * m > 0
    BY <1>2
  <2>3. k * m = b * m - a * m
    BY <1>1, <2>1
  <2>4. a * m \in Int /\ b * m \in Int
    OBVIOUS
  <2> QED
    BY <2>2, <2>3, <2>4
<1>3. a <= b => a * m <= b * m
  <2>1. CASE m = 0
    BY <2>1
  <2>2. CASE m # 0
    <3>1. a <= b => a = b \/ a < b
      OBVIOUS
    <3>2. a * m \in Int /\ b * m \in Int
      OBVIOUS
    <3> QED
      BY <1>2, <2>2, <3>1, <3>2
  <2> QED
    BY <2>1, <2>2
<1> QED
  BY <1>1, <1>2, <1>3

\* The window drops the times that have run out, from the front.
LEMMA RecentDrops ==
    ASSUME NEW times \in Seq(Nat), NEW now \in Nat, now + Window < ClockModulus,
           \A i \in DOMAIN times : times[i] <= now
    PROVE  \E d \in 0..Len(times) :
              /\ Recent(times, now) \in Seq(Nat) /\ Len(Recent(times, now)) = Len(times) - d
              /\ \A i \in 1..Len(times) - d : Recent(times, now)[i] = times[i + d]
              /\ d < Len(times) => times[d + 1] + Window > now
<1>1. PICK live : live = {i \in DOMAIN times : Wrapped(times[i] + Window) > now}
  OBVIOUS
<1>2. Recent(times, now) = FromFirst(times, live)
  BY <1>1 DEF Recent, FromFirst
<1>3. live \subseteq DOMAIN times /\ Len(times) \in Nat /\ DOMAIN times = 1..Len(times)
  BY <1>1, DomainLen
<1>4. PICK d \in 0..Len(times) :
         /\ FromFirst(times, live) \in Seq(Nat)
         /\ Len(FromFirst(times, live)) = Len(times) - d
         /\ \A i \in 1..Len(times) - d : FromFirst(times, live)[i] = times[i + d]
         /\ \A i \in 1..d : i \notin live
         /\ d < Len(times) => d + 1 \in live
  BY <1>3, FromFirstDrops
<1>5. ASSUME d < Len(times) PROVE times[d + 1] + Window > now
  <2>1. PICK t : t = times[d + 1]
    OBVIOUS
  <2>2. d + 1 \in DOMAIN times
    BY <1>1, <1>4, <1>5
  <2>3. t \in Nat /\ t <= now
    BY <1>3, <2>1, <2>2, ElementOfSeq
  <2>4. Window \in Nat /\ ClockModulus \in Nat \ {0}
    BY RateLimitAssumption
  <2>5. PICK sum \in Nat : sum = t + Window /\ sum < ClockModulus
    BY <2>3, <2>4
  <2>6. PICK m \in Nat \ {0} : m = ClockModulus /\ sum % m = sum
    <3>1. \A m \in Nat \ {0} : sum < m => sum % m = sum
      OBVIOUS
    <3> QED
      BY <2>4, <2>5, <3>1
  <2>7. Wrapped(t + Window) > now
    BY <1>1, <1>4, <1>5, <2>1
  <2> QED
    BY <2>1, <2>5, <2>6, <2>7 DEF Wrapped
<1> QED
  BY <1>2, <1>4, <1>5

\* Spaced events do not fill the window, and stay spaced with the next one.
LEMMA SpacedAdmitted ==
    ASSUME NEW times \in Seq(Nat), NEW now \in Nat, now + Window < ClockModulus,
           \A i \in DOMAIN times : times[i] <= now, Spaced(times), After(times, now)
    PROVE  /\ Len(Recent(times, now)) < MaxEvents
           /\ Append(Recent(times, now), now) \in Seq(Nat)
           /\ Spaced(Append(Recent(times, now), now))
           /\ \A i \in DOMAIN Append(Recent(times, now), now) : Append(Recent(times, now), now)[i] <= now
           /\ Append(Recent(times, now), now) # << >>
           /\ Last(Append(Recent(times, now), now)) = now
<1>1. PICK d \in 0..Len(times) :
         /\ Recent(times, now) \in Seq(Nat) /\ Len(Recent(times, now)) = Len(times) - d
         /\ \A i \in 1..Len(times) - d : Recent(times, now)[i] = times[i + d]
         /\ d < Len(times) => times[d + 1] + Window > now
  BY RecentDrops
<1>2. PICK len, rest, n, grown : /\ len = Len(times) /\ rest = Recent(times, now) /\ n = len - d
                                 /\ grown = Append(rest, now)
  OBVIOUS
<1>3. /\ len \in Nat /\ DOMAIN times = 1..len /\ n \in Nat /\ d \in 0..len
      /\ Len(rest) = n /\ rest \in Seq(Nat)
      /\ \A i \in 1..n : rest[i] = times[i + d] /\ i + d \in 1..len
      /\ \A i \in 1..len : times[i] \in Nat /\ times[i] <= now
  <2>1. len \in Nat /\ DOMAIN times = 1..len
    BY <1>2, DomainLen
  <2>2. d \in 0..len /\ n \in Nat /\ Len(rest) = n /\ rest \in Seq(Nat)
    BY <1>1, <1>2, <2>1
  <2>3. \A i \in 1..n : rest[i] = times[i + d] /\ i + d \in 1..len
    BY <1>1, <1>2, <2>1, <2>2
  <2>4. \A i \in 1..len : times[i] \in Nat
    BY <1>2, ElementOfSeq
  <2> QED
    BY <2>1, <2>2, <2>3, <2>4
<1>4. /\ grown \in Seq(Nat) /\ Len(grown) = n + 1 /\ DOMAIN grown = 1..n + 1
      /\ \A i \in 1..n : grown[i] = rest[i]
      /\ grown[n + 1] = now
  BY <1>2, <1>3, AppendProperties, DomainLen
<1>5. MaxEvents \in Nat \ {0} /\ Window \in Nat \ {0}
  BY RateLimitAssumption
\* How long ago each remembered event was.
<1>6. ASSUME NEW i \in 1..n, NEW j \in Nat, j = n + 1
      PROVE  (now - rest[i]) * MaxEvents >= (j - i) * Window
  <2>1. times # << >> /\ len \in 1..len /\ i + d \in 1..len
    BY <1>2, <1>3, EmptySeq
  <2>2. PICK last, this : last = times[len] /\ this = times[i + d]
    OBVIOUS
  <2>3. last \in Nat /\ this \in Nat /\ rest[i] = this
    BY <1>3, <2>1, <2>2
  <2>4. (now - last) * MaxEvents >= Window
    BY <1>2, <2>1, <2>2 DEF After, Last
  <2>5. (last - this) * MaxEvents >= (len - (i + d)) * Window
    <3>1. i + d <= len
      BY <1>3, <2>1
    <3> QED
      BY <1>3, <2>1, <2>2, <3>1 DEF Spaced
  <2>6. (now - last) * MaxEvents + (last - this) * MaxEvents = (now - this) * MaxEvents
    BY <1>5, <2>3
  <2>7. Window + (len - (i + d)) * Window = (j - i) * Window
    <3>1. PICK k \in Int : k = len - (i + d) /\ j - i = k + 1
      <4>1. len - (i + d) \in Int /\ j - i = (len - (i + d)) + 1
        BY <1>2, <1>3, <1>6
      <4> QED
        BY <4>1, Zenon
    <3>2. Window + k * Window = (k + 1) * Window
      BY <1>5
    <3> QED
      BY <3>1, <3>2
  <2>8. PICK a, b, x, y : /\ a = (now - last) * MaxEvents /\ b = (last - this) * MaxEvents
                          /\ x = (len - (i + d)) * Window /\ y = (j - i) * Window
    OBVIOUS
  <2>9. a \in Int /\ b \in Int /\ x \in Int /\ y \in Int
    BY <1>3, <1>5, <2>3, <2>8
  <2>10. a >= Window /\ b >= x /\ Window + x = y
    BY <2>4, <2>5, <2>7, <2>8
  <2>11. a + b >= y
    BY <1>5, <2>9, <2>10
  <2> QED
    BY <2>3, <2>6, <2>8, <2>11
<1>7. n < MaxEvents
  <2>1. SUFFICES ASSUME n >= MaxEvents PROVE FALSE
    BY <1>3, <1>5
  <2>2. 1 \in 1..n /\ d < len
    BY <1>2, <1>3, <1>5, <2>1
  <2>3. PICK this : this = rest[1]
    OBVIOUS
  <2>4. this \in Nat /\ this + Window > now
    BY SMTT(30), <1>1, <1>2, <1>3, <2>2, <2>3
  <2>5. PICK passed \in Int : passed = now - this /\ passed < Window
    BY <1>5, <2>4
  <2>6. passed * MaxEvents >= n * Window
    <3>1. PICK j \in Nat : j = n + 1 /\ j - 1 = n
      <4>1. n + 1 \in Nat /\ (n + 1) - 1 = n
        BY <1>3
      <4> QED
        BY <4>1, Zenon
    <3> QED
      BY <1>6, <2>2, <2>3, <2>5, <3>1
  <2>7. passed * MaxEvents < Window * MaxEvents
    BY <1>5, <2>5, Scaled
  <2>8. MaxEvents * Window <= n * Window
    BY <1>3, <1>5, <2>1, Scaled
  <2>9. MaxEvents * Window = Window * MaxEvents
    BY <1>5
  <2>10. PICK a, b, c \in Int : a = passed * MaxEvents /\ b = n * Window /\ c = Window * MaxEvents
    <3>1. passed * MaxEvents \in Int /\ n * Window \in Int /\ Window * MaxEvents \in Int
      BY <1>3, <1>5
    <3> QED
      BY <3>1, Zenon
  <2>11. a >= b /\ a < c /\ c <= b
    BY <2>6, <2>7, <2>8, <2>9, <2>10
  <2> QED
    BY <2>10, <2>11
<1>8. Spaced(grown)
  <2>1. SUFFICES ASSUME NEW i \in 1..n + 1, NEW j \in 1..n + 1, i <= j
                 PROVE  (grown[j] - grown[i]) * MaxEvents >= (j - i) * Window
    BY <1>4 DEF Spaced
  <2>2. CASE j \in 1..n
    <3>1. i \in 1..n
      BY <1>3, <2>1, <2>2
    <3>2. i + d \in 1..len /\ j + d \in 1..len /\ i + d <= j + d /\ (j + d) - (i + d) = j - i
      BY <1>3, <2>1, <2>2, <3>1
    <3>3. grown[i] = times[i + d] /\ grown[j] = times[j + d]
      BY <1>3, <1>4, <2>2, <3>1
    <3>4. (times[j + d] - times[i + d]) * MaxEvents >= ((j + d) - (i + d)) * Window
      BY <1>3, <3>2 DEF Spaced
    <3>5. PICK gap : gap = (j + d) - (i + d)
      OBVIOUS
    <3>6. gap = j - i
      BY <3>2, <3>5
    <3>7. (times[j + d] - times[i + d]) * MaxEvents >= gap * Window
      BY <3>4, <3>5
    <3> QED
      BY <3>3, <3>6, <3>7
  <2>3. CASE j = n + 1 /\ i \in 1..n
    <3>1. j \in Nat /\ j = n + 1
      BY <1>3, <2>3
    <3>2. (now - rest[i]) * MaxEvents >= (j - i) * Window
      BY <1>6, <2>3, <3>1
    <3>3. grown[j] = now /\ grown[i] = rest[i]
      BY <1>4, <2>3
    <3> QED
      BY <3>2, <3>3
  <2>4. CASE j = n + 1 /\ i = n + 1
    <3>1. grown[j] - grown[i] = 0 /\ j - i = 0
      BY <1>3, <1>4, <2>4
    <3>2. 0 * MaxEvents >= 0 * Window
      BY <1>5
    <3> QED
      BY <3>1, <3>2
  <2> QED
    BY <1>3, <2>2, <2>3, <2>4
<1>9. \A i \in DOMAIN grown : grown[i] <= now
  <2>1. SUFFICES ASSUME NEW i \in 1..n + 1 PROVE grown[i] <= now
    BY <1>4
  <2>2. CASE i \in 1..n
    BY <1>3, <1>4, <2>2
  <2>3. CASE i = n + 1
    BY <1>4, <2>3
  <2> QED
    BY <1>3, <2>2, <2>3
<1>10. grown # << >> /\ Last(grown) = now
  BY <1>3, <1>4, EmptySeq DEF Last
<1> QED
  BY <1>2, <1>3, <1>4, <1>7, <1>8, <1>9, <1>10

LEMMA PromptInit == SInit /\ IInv => PInv
<1>1. SInit => clock = 1 /\ clock <= MaxClock
  BY InputSystemAssumption DEF SInit
<1> SUFFICES ASSUME SInit, IInv, NEW c \in Clients
             PROVE  PromptFits(c)
  BY <1>1 DEF PInv
<1>2. lastFrame[c] = 0
  BY DEF SInit
<1>3. DOMAIN players = {}
  BY DEF SInit, Init
<1>4. NewcomerFits(c)
  BY DEF IInv, ClientFits
<1>5. /\ predicted[c].actorId = 0 /\ issued[c] = 0 /\ uplink[c] = << >> /\ queues[c] = << >>
      /\ suspicion[c] = 0 /\ limiters[c] = Fresh
  BY <1>3, <1>4 DEF NewcomerFits
<1>6. << >> \in Seq(Nat) /\ DOMAIN << >> = {} /\ Spaced(<< >>)
  BY EmptySeq DEF Spaced
<1>7. /\ limiters[c].timestamps = << >>
      /\ limiters[c] \in [timestamps : Seq(Nat), blockedUntil : {0}, strikes : {0}]
  BY <1>5, <1>6 DEF Fresh
<1> QED
  BY <1>1, <1>2, <1>3, <1>5, <1>7, <1>6 DEF PromptFits

LEMMA PromptUntouched ==
    ASSUME NEW d \in Clients, PromptFits(d), Untouched(d), Typed,
           lastFrame'[d] = lastFrame[d], prompt'[d] = prompt[d], clock' \in {clock, clock + 1}
    PROVE  PromptFits(d)'
<1>1. SUFFICES ASSUME d \in honest, prompt[d]
               PROVE  PromptFits(d)'
  BY DEF PromptFits, Untouched
<1>2. clock \in Nat /\ lastFrame[d] \in Nat
  BY DEF Typed
<1>3. lastFrame'[d] <= clock'
  BY <1>1, <1>2 DEF PromptFits
<1>4. \A i \in DOMAIN limiters'[d].timestamps : limiters'[d].timestamps[i] <= clock'
  <2>1. \A i \in DOMAIN limiters[d].timestamps :
            limiters[d].timestamps[i] \in Nat /\ limiters[d].timestamps[i] <= clock
    BY <1>1, DomainLen, ElementOfSeq DEF PromptFits
  <2> QED
    BY <1>2, <2>1 DEF Untouched
<1>5. CASE predicted[d].actorId = 0
  <2>1. d \in DOMAIN players' => /\ downlink'[d] = <<Spawned(players'[d])>>
                                 /\ players'[d].simulationTime <= clock'
    <3>1. d \in DOMAIN players => players[d].simulationTime \in Nat
      BY DEF Typed, Bodies, States
    <3> QED
      BY <1>1, <1>2, <1>5, <3>1 DEF PromptFits, Untouched
  <2> QED
    BY <1>1, <1>3, <1>4, <1>5, <2>1 DEF PromptFits, Untouched
<1>6. CASE predicted[d].actorId # 0
  <2>1. ChainFits(d)'
    BY <1>1, <1>6 DEF PromptFits, ChainFits, Untouched
  <2> QED
    BY <1>1, <1>3, <1>4, <1>6, <2>1 DEF PromptFits, Untouched
<1> QED
  BY <1>5, <1>6

LEMMA PromptSpawn ==
    ASSUME PInv, NEW c \in Clients, Spawn(c)
    PROVE  \A d \in Clients : PromptFits(d)'
<1>1. PICK actorId : actorId = IF c \in DOMAIN players THEN players[c].actorId + 1 ELSE 1
  OBVIOUS
<1>2. PICK time \in {0, clock} :
         /\ registerPlayer(c, PlayerState(actorId, time))
         /\ downlink' = IF c \in honest
                        THEN Sent(downlink, c, Spawned(PlayerState(actorId, time)))
                        ELSE downlink
         /\ prompt' = [prompt EXCEPT ![c] = actorId = 1 /\ c \in honest]
  BY <1>1 DEF Spawn
<1>3. UNCHANGED <<queues, suspicion, limiters, clock, honest, predicted, history, uplink, issued,
                  lastFrame, lost>>
  BY <1>2 DEF Spawn, registerPlayer
<1>4. PICK body : body = PlayerState(actorId, time)
  OBVIOUS
<1>5. /\ DOMAIN players' = DOMAIN players \cup {c} /\ players'[c] = body
      /\ \A d \in DOMAIN players : d # c => players'[d] = players[d]
  BY <1>2, <1>4 DEF registerPlayer
<1>6. Typed /\ \A d \in Clients : ClientFits(d) /\ PromptFits(d)
  BY DEF PInv, IInv
<1>7. /\ \A d \in Clients : d # c => downlink'[d] = downlink[d] /\ prompt'[d] = prompt[d]
      /\ c \in honest => downlink'[c] = Append(downlink[c], Spawned(body))
      /\ prompt'[c] => actorId = 1 /\ c \in honest
  BY <1>2, <1>4, <1>6 DEF Typed, Sent
<1>8. ASSUME NEW d \in Clients, d # c PROVE PromptFits(d)'
  <2>1. Untouched(d)
    BY <1>3, <1>5, <1>7, <1>8 DEF Untouched
  <2> QED
    BY <1>3, <1>6, <1>7, <1>8, <2>1, PromptUntouched
<1>9. PromptFits(c)'
  <2>1. SUFFICES ASSUME c \in honest, prompt'[c]
                 PROVE  PromptFits(c)'
    BY <1>3, <1>5 DEF PromptFits
  <2>2. c \notin DOMAIN players
    <3>1. c \in DOMAIN players => players[c].actorId \in Nat \ {0}
      BY <1>6 DEF Typed, Bodies, States
    <3> QED
      BY <1>1, <1>7, <2>1, <3>1
  <2>3. /\ predicted[c].actorId = 0 /\ issued[c] = 0 /\ uplink[c] = << >> /\ queues[c] = << >>
        /\ downlink[c] = << >> /\ suspicion[c] = 0 /\ limiters[c] = Fresh /\ lastFrame[c] = 0
    BY <1>6, <2>2 DEF ClientFits, NewcomerFits, PromptFits
  <2>4. << >> \in Seq(Nat) /\ DOMAIN << >> = {} /\ Spaced(<< >>)
    BY EmptySeq DEF Spaced
  <2>5. /\ limiters[c].timestamps = << >>
        /\ limiters[c] \in [timestamps : Seq(Nat), blockedUntil : {0}, strikes : {0}]
    BY <2>3, <2>4 DEF Fresh
  <2>6. downlink'[c] = <<Spawned(body)>>
    <3>1. PICK message : message = Spawned(body)
      OBVIOUS
    <3>2. downlink'[c] = Append(<< >>, message)
      BY <1>7, <2>1, <2>3, <3>1
    <3> QED
      BY <3>1, <3>2
  <2>7. clock \in Nat /\ body.simulationTime <= clock
    BY <1>2, <1>4, <1>6 DEF Typed, PlayerState
  <2> QED
    BY <1>3, <1>5, <2>3, <2>5, <2>4, <2>6, <2>7 DEF PromptFits
<1> QED
  BY <1>8, <1>9

LEMMA PromptFrame ==
    ASSUME PInv, NEW c \in Clients, Frame(c)
    PROVE  \A d \in Clients : PromptFits(d)'
<1>1. PICK command, dt :
         /\ command = InputCmd(issued[c] + 1, clock, "none")
         /\ dt = clock - lastFrame[c]
  OBVIOUS
<1>2. /\ predicted[c].actorId # 0 /\ dt > 0
      /\ Client!predict(c, command, dt)
      /\ uplink' = Sent(uplink, c, command)
      /\ issued' = [issued EXCEPT ![c] = @ + 1]
      /\ lastFrame' = [lastFrame EXCEPT ![c] = clock]
      /\ prompt' = [prompt EXCEPT ![c] = @ /\ dt <= MaxClientLead /\ dt * MaxEvents >= Window]
  BY <1>1 DEF Frame
<1>3. UNCHANGED <<players, queues, suspicion, limiters, clock, honest, downlink, lost>>
  BY DEF Frame, vars
<1>4. Typed /\ \A d \in Clients : ClientFits(d) /\ PromptFits(d)
  BY DEF PInv, IInv
<1>5. ASSUME NEW d \in Clients, d # c PROVE PromptFits(d)'
  <2>1. /\ lastFrame'[d] = lastFrame[d] /\ prompt'[d] = prompt[d] /\ issued'[d] = issued[d]
        /\ uplink'[d] = uplink[d] /\ predicted'[d] = predicted[d] /\ history'[d] = history[d]
    BY <1>2, <1>4, <1>5 DEF Typed, Sent, Client!predict
  <2>2. Untouched(d)
    BY <1>3, <2>1 DEF Untouched
  <2> QED
    BY <1>3, <1>4, <2>1, <2>2, PromptUntouched
<1>6. PromptFits(c)'
  <2>1. c \in honest /\ c \in DOMAIN players
    BY <1>2, <1>4 DEF ClientFits, OutsiderFits, NewcomerFits
  <2>2. SUFFICES ASSUME prompt'[c]
                 PROVE  PromptFits(c)'
    BY <1>3, <2>1 DEF PromptFits
  <2>3. /\ prompt[c] /\ dt <= MaxClientLead /\ dt * MaxEvents >= Window
        /\ lastFrame'[c] = clock /\ issued'[c] = issued[c] + 1
        /\ uplink'[c] = Append(uplink[c], command)
        /\ predicted'[c].actorId # 0
    <3>1. predicted'[c] = simulatePlayerState(predicted[c], command, dt)
      BY <1>2, <1>4, SameRules DEF Client!predict, Typed
    <3>2. predicted'[c].actorId = predicted[c].actorId
      BY <1>4, <3>1 DEF simulatePlayerState, Typed, States
    <3> QED
      BY <1>2, <1>4, <2>2, <3>2 DEF Typed, Sent
  <2>4. clock \in Nat /\ lastFrame[c] \in Nat /\ issued[c] \in Nat /\ MaxClientLead \in Nat
    BY <1>4, PlayerInputAssumption DEF Typed
  <2>5. /\ command.fault = "none" /\ command.timestamp = clock /\ command.sequence = issued[c] + 1
        /\ command \in Commands
    BY <1>1, <2>4 DEF InputCmd, Commands, Faults
  <2>6. PICK sent, len, grown : /\ sent = uplink[c] /\ len = Len(sent)
                                /\ grown = Append(sent, command)
    OBVIOUS
  <2>7. /\ sent \in Seq(Commands) /\ len \in Nat /\ DOMAIN sent = 1..len
        /\ grown \in Seq(Commands) /\ DOMAIN grown = 1..len + 1 /\ Len(grown) = len + 1
        /\ \A i \in 1..len : grown[i] = sent[i]
        /\ grown[len + 1] = command /\ grown # << >> /\ Last(grown) = command
    <3>1. sent \in Seq(Commands)
      BY <1>4, <2>6 DEF Typed
    <3>2. /\ grown \in Seq(Commands) /\ Len(grown) = len + 1 /\ len \in Nat
          /\ \A i \in 1..len : grown[i] = sent[i]
          /\ grown[len + 1] = command
      BY <2>5, <2>6, <3>1, AppendProperties, LenProperties
    <3> QED
      BY <2>6, <3>1, <3>2, DomainLen, EmptySeq DEF Last
  <2>8. ChainFits(c)
    BY <1>2, <1>4, <2>1, <2>3 DEF PromptFits
  <2>9. PICK times : times = limiters[c].timestamps
    OBVIOUS
  \* The input follows whatever was the last one.
  <2>10. ASSUME NEW last, last.timestamp = lastFrame[c], last.sequence = issued[c]
         PROVE  /\ Follows(last, command)
                /\ (command.timestamp - last.timestamp) * MaxEvents >= Window
    <3>1. command.timestamp - last.timestamp = dt
      BY <1>1, <2>5, <2>10
    <3>2. command.timestamp > last.timestamp /\ command.timestamp <= last.timestamp + MaxClientLead
      BY <1>1, <1>2, <2>3, <2>4, <2>5, <2>10
    <3> QED
      BY <2>3, <2>4, <2>5, <2>10, <3>1, <3>2 DEF Follows
  <2>11. \A i \in 1..len + 1 : grown[i].fault = "none"
    <3>1. \A i \in 1..len : sent[i].fault = "none"
      BY <2>6, <2>7, <2>8 DEF ChainFits
    <3> QED
      BY <2>5, <2>7, <3>1
  <2>12. ASSUME NEW i \in 1..len + 1, i + 1 \in 1..len + 1
         PROVE  /\ Follows(grown[i], grown[i + 1])
                /\ (grown[i + 1].timestamp - grown[i].timestamp) * MaxEvents >= Window
    <3>1. i \in 1..len /\ grown[i] = sent[i]
      BY <2>7, <2>12
    <3>2. CASE i = len
      <4>1. sent # << >> /\ sent[i] = Last(sent)
        BY <2>6, <2>7, <3>1, <3>2, EmptySeq DEF Last
      <4>2. sent[i].timestamp = lastFrame[c] /\ sent[i].sequence = issued[c]
        BY <2>6, <2>8, <4>1 DEF ChainFits
      <4>3. grown[i + 1] = command
        BY <2>7, <3>2
      <4>4. PICK last : last = sent[i]
        OBVIOUS
      <4> QED
        BY <2>10, <3>1, <4>2, <4>3, <4>4
    <3>3. CASE i # len
      <4>1. i + 1 \in 1..len /\ grown[i + 1] = sent[i + 1]
        BY <2>7, <3>1, <3>3
      <4>2. /\ Follows(sent[i], sent[i + 1])
            /\ (sent[i + 1].timestamp - sent[i].timestamp) * MaxEvents >= Window
        BY <2>6, <2>7, <2>8, <3>1, <4>1 DEF ChainFits
      <4> QED
        BY <3>1, <4>1, <4>2
    <3> QED
      BY <3>2, <3>3
  <2>13. /\ queues[c] # << >> => Follows(Last(queues[c]), grown[1])
         /\ After(times, grown[1].timestamp)
    <3>1. CASE sent = << >>
      <4>1. grown[1] = command
        BY <2>6, <2>7, <3>1, EmptySeq
      <4>2. /\ queues[c] # << >> => Last(queues[c]).timestamp = lastFrame[c]
                                    /\ Last(queues[c]).sequence = issued[c]
            /\ times # << >> => Last(times) = lastFrame[c]
        BY <2>6, <2>8, <2>9, <3>1 DEF ChainFits
      <4>3. PICK last : last = Last(queues[c])
        OBVIOUS
      <4>4. queues[c] # << >> => Follows(last, command)
        BY <2>10, <4>2, <4>3
      <4>5. times # << >> => clock - Last(times) = dt
        BY <1>1, <4>2
      <4>6. After(times, clock)
        BY <2>3, <4>5 DEF After
      <4> QED
        BY <2>5, <4>1, <4>3, <4>4, <4>6
    <3>2. CASE sent # << >>
      <4>1. 1 \in 1..len /\ grown[1] = sent[1]
        BY <2>6, <2>7, <3>2, EmptySeq
      <4> QED
        BY <2>6, <2>8, <2>9, <3>2, <4>1 DEF ChainFits
    <3> QED
      BY <3>1, <3>2
  <2>14. uplink'[c] = grown
    BY <2>3, <2>6
  <2>15. ChainFits(c)'
    BY <1>3, <2>3, <2>5, <2>7, <2>9, <2>11, <2>12, <2>13, <2>14 DEF ChainFits
  <2> QED
    BY <1>2, <1>3, <1>4, <2>1, <2>3, <2>4, <2>15 DEF PromptFits
<1> QED
  BY <1>5, <1>6

LEMMA PromptCorrect ==
    ASSUME PInv, NEW c \in Clients, Correct(c)
    PROVE  \A d \in Clients : PromptFits(d)'
<1>1. PICK message : message = Head(downlink[c])
  OBVIOUS
<1>2. /\ downlink[c] # << >> /\ downlink' = [downlink EXCEPT ![c] = Tail(downlink[c])]
      /\ UNCHANGED <<players, queues, suspicion, limiters, clock, honest, uplink, issued, lost,
                     steady, prompt>>
  BY DEF Correct, Taken, vars
<1>3. \/ /\ message.kind = "correction"
         /\ Client!reconcile(c, message.body)
         /\ UNCHANGED lastFrame
      \/ /\ message.kind = "spawn"
         /\ Client!reset(c, message.body)
         /\ lastFrame' = [lastFrame EXCEPT ![c] = IF message.body.simulationTime = 0
                                                  THEN clock
                                                  ELSE message.body.simulationTime]
  BY <1>1 DEF Correct
<1>4. Typed /\ \A d \in Clients : ClientFits(d) /\ PromptFits(d)
  BY DEF PInv, IInv
<1>5. ASSUME NEW d \in Clients, d # c PROVE PromptFits(d)'
  <2>1. /\ lastFrame'[d] = lastFrame[d] /\ downlink'[d] = downlink[d]
        /\ predicted'[d] = predicted[d] /\ history'[d] = history[d]
    BY <1>2, <1>3, <1>4, <1>5 DEF Typed, Client!reconcile, Client!reset
  <2>2. Untouched(d)
    BY <1>2, <2>1 DEF Untouched
  <2> QED
    BY <1>2, <1>4, <2>1, <2>2, PromptUntouched
<1>6. PromptFits(c)'
  <2>1. c \in honest /\ c \in DOMAIN players
    BY <1>2, <1>4 DEF ClientFits, OutsiderFits, NewcomerFits
  <2>2. SUFFICES ASSUME prompt[c]
                 PROVE  PromptFits(c)'
    BY <1>2, <2>1 DEF PromptFits
  <2>3. /\ downlink[c] \in Seq(Messages) /\ history[c] \in Seq(Predictions)
        /\ players[c] \in Bodies /\ clock \in Nat
    BY <1>4, <2>1 DEF Typed
  <2>4. PICK old, rest, len : old = downlink[c] /\ rest = Tail(old) /\ len = Len(old)
    OBVIOUS
  <2>5. /\ len \in Nat \ {0} /\ rest \in Seq(Messages) /\ Len(rest) = len - 1
        /\ \A i \in 1..len - 1 : rest[i] = old[i + 1]
        /\ message = old[1] /\ message \in Messages
        /\ DOMAIN old = 1..len /\ DOMAIN rest = 1..len - 1 /\ downlink'[c] = rest
    <3>1. old \in Seq(Messages) /\ old # << >>
      BY <1>2, <2>3, <2>4
    <3>2. len \in Nat \ {0} /\ message = old[1] /\ message \in Messages
      BY <1>1, <2>4, <3>1, HeadTailProperties, EmptySeq, LenProperties
    <3>3. rest \in Seq(Messages) /\ Len(rest) = len - 1
      BY <2>4, <3>1, HeadTailProperties
    <3>4. \A i \in 1..len - 1 : rest[i] = old[i + 1]
      BY <2>4, <3>1, <3>3, HeadTailProperties
    <3>5. downlink'[c] = rest
      BY <1>2, <1>4, <2>4 DEF Typed
    <3> QED
      BY <2>4, <3>1, <3>2, <3>3, <3>4, <3>5, DomainLen
  <2>6. CASE predicted[c].actorId = 0
    <3>1. old = <<Spawned(players[c])>>
      BY <2>1, <2>2, <1>4, <2>4, <2>6 DEF PromptFits
    <3>2. PICK spawned : spawned = Spawned(players[c])
      OBVIOUS
    <3>3. message = spawned /\ len = 1
      BY <2>4, <2>5, <3>1, <3>2
    <3>4. message.kind = "spawn" /\ message.body = players[c]
      BY <3>2, <3>3 DEF Spawned
    <3>5. /\ predicted'[c] = players[c]
          /\ lastFrame'[c] = IF players[c].simulationTime = 0 THEN clock ELSE players[c].simulationTime
      BY <1>3, <1>4, <3>4 DEF Client!reset, Typed
    <3>6. players[c].simulationTime \in Nat /\ players[c].simulationTime <= clock
          /\ players[c].actorId # 0
      BY <1>4, <2>1, <2>2, <2>3, <2>6 DEF PromptFits, Bodies, States
    <3>7. lastFrame'[c] <= clock /\ predicted'[c].actorId # 0
      BY <2>3, <3>5, <3>6
    <3>8. \A i \in DOMAIN downlink'[c] : downlink'[c][i].kind = "correction"
      BY <2>5, <3>3
    <3>9. uplink[c] = << >> /\ queues[c] = << >> /\ limiters[c].timestamps = << >>
      BY <1>4, <2>1, <2>2, <2>6 DEF PromptFits
    <3>10. ChainFits(c)'
      BY <1>2, <3>9, EmptySeq DEF ChainFits
    <3> QED
      BY <1>2, <1>4, <2>1, <2>2, <3>7, <3>8, <3>10 DEF PromptFits
  <2>7. CASE predicted[c].actorId # 0
    <3>1. \A i \in 1..len : old[i].kind = "correction"
      BY <1>4, <2>1, <2>2, <2>4, <2>5, <2>7 DEF PromptFits
    <3>2. message.kind = "correction"
      BY <2>5, <3>1
    <3>3. \A i \in DOMAIN downlink'[c] : downlink'[c][i].kind = "correction"
      BY <2>5, <3>1
    <3>4. PICK state, last, pending :
             /\ state = message.body.state /\ last = message.body.lastProcessedSequence
             /\ pending = Client!Uncovered(history[c], last)
      OBVIOUS
    <3>5. state \in Bodies /\ last \in Nat
      BY <2>5, <3>2, <3>4 DEF Messages
    <3>6. predicted'[c] = Client!Replayed(state, pending) /\ UNCHANGED lastFrame
      BY <1>3, <1>4, <3>2, <3>4 DEF Client!reconcile, Typed
    <3>7. pending \in Seq(Predictions)
      <4>1. PICK held : held = history[c]
        OBVIOUS
      <4>2. /\ held \in Seq(Predictions)
            /\ \A i, j \in DOMAIN held : i < j => held[i].command.sequence < held[j].command.sequence
        BY <1>4, <2>3, <4>1 DEF ClientFits, HistoryFits
      <4>3. Client!Uncovered(held, last) \in Seq(Predictions)
        BY <3>5, <4>2, UncoveredDrops
      <4> QED
        BY <3>4, <4>1, <4>3
    <3>8. predicted'[c].actorId # 0
      <4>1. state \in States /\ state.actorId # 0
        BY <3>5 DEF Bodies
      <4>2. Client!Replayed(state, pending).actorId = state.actorId
        BY <3>7, <4>1, ReplayedTyped
      <4> QED
        BY <3>6, <4>1, <4>2
    <3>9. ChainFits(c)'
      BY <1>2, <1>4, <2>1, <2>2, <2>7, <3>6 DEF PromptFits, ChainFits
    <3> QED
      BY <1>2, <1>4, <2>1, <2>2, <2>7, <3>3, <3>6, <3>8, <3>9 DEF PromptFits
  <2> QED
    BY <2>6, <2>7
<1> QED
  BY <1>5, <1>6

LEMMA PromptForge ==
    ASSUME PInv, NEW c \in Clients, Forge(c)
    PROVE  \A d \in Clients : PromptFits(d)'
<1>1. /\ c \notin honest
      /\ UNCHANGED <<honest, predicted, history, uplink, downlink, issued, lastFrame, lost, steady,
                     prompt>>
  BY DEF Forge
<1>2. Typed /\ \A d \in Clients : ClientFits(d) /\ PromptFits(d)
  BY DEF PInv, IInv
<1>3. /\ UNCHANGED <<players, clock>>
      /\ \A d \in Clients : d # c => /\ queues'[d] = queues[d] /\ suspicion'[d] = suspicion[d]
                                     /\ limiters'[d] = limiters[d]
  <2>1. CASE \E command \in Forgeries : ReceiveInput(c, command)
    BY <1>2, <2>1, ReceiveChanges
  <2>2. CASE \E shooter \in 1..MaxSpawns, verdict \in {"accepted", "refused"} :
                RefuseHit(c, shooter, verdict)
    <3>1. PICK shooter, verdict : RefuseHit(c, shooter, verdict)
      BY <2>2
    <3> QED
      BY <1>2, <3>1 DEF RefuseHit, addSuspicion, Typed
  <2> QED
    BY <2>1, <2>2 DEF Forge
<1>4. ASSUME NEW d \in Clients, d # c PROVE PromptFits(d)'
  <2>1. Untouched(d)
    BY <1>1, <1>3, <1>4 DEF Untouched
  <2> QED
    BY <1>1, <1>2, <1>3, <2>1, PromptUntouched
<1>5. PromptFits(c)'
  BY <1>1, <1>2, <1>3 DEF PromptFits
<1> QED
  BY <1>4, <1>5

LEMMA PromptTick ==
    ASSUME PInv, ServerTick
    PROVE  \A d \in Clients : PromptFits(d)'
<1> SUFFICES ASSUME NEW c \in Clients
             PROVE  PromptFits(c)'
  OBVIOUS
<1>1. UNCHANGED <<suspicion, limiters, clock, honest, predicted, history, uplink, issued,
                  lastFrame, prompt>>
  BY DEF ServerTick, SimulatePending
<1>2. DOMAIN players' = DOMAIN players
  BY DEF ServerTick, SimulatePending
<1>3. downlink'[c] = IF c \in honest /\ Advances(c)
                     THEN Append(downlink[c], Correction(players'[c]))
                     ELSE downlink[c]
  BY DEF ServerTick
<1>4. IInv /\ Typed /\ ClientFits(c) /\ PromptFits(c)
  BY DEF PInv, IInv
<1>5. SUFFICES ASSUME c \in honest, prompt[c]
               PROVE  PromptFits(c)'
  BY <1>1, <1>2, <1>4 DEF PromptFits
<1>6. CASE predicted[c].actorId = 0
  <2>1. queues[c] = << >>
    BY <1>4, <1>5, <1>6 DEF PromptFits
  <2>2. queues'[c] = << >> /\ ~Advances(c)
    BY <1>4, <2>1, TickServes
  <2>3. downlink'[c] = downlink[c] /\ (c \in DOMAIN players => players'[c] = players[c])
    BY <1>3, <1>4, <2>2, TickServes
  <2> QED
    BY <1>1, <1>2, <1>4, <1>5, <1>6, <2>2, <2>3 DEF PromptFits
<1>7. CASE predicted[c].actorId # 0
  <2>1. PICK queue, rest : queue = queues[c] /\ rest = queues'[c]
    OBVIOUS
  <2>2. queue \in Seq(Buffered) /\ rest \in Seq(Buffered)
    BY <1>4, <2>1, TickServes DEF Typed
  <2>3. PICK d \in 0..Len(queue) :
           /\ Len(rest) = Len(queue) - d
           /\ \A i \in 1..Len(queue) - d : rest[i] = queue[i + d]
    <3>1. \E d \in 0..Len(queues[c]) :
             /\ Len(queues'[c]) = Len(queues[c]) - d
             /\ \A i \in 1..Len(queues[c]) - d : queues'[c][i] = queues[c][i + d]
      BY <1>4, TickServes
    <3> QED
      BY <2>1, <3>1
  <2>4. rest # << >> => queue # << >> /\ Last(rest) = Last(queue)
    <3>1. SUFFICES ASSUME rest # << >>
                   PROVE  queue # << >> /\ Last(rest) = Last(queue)
      OBVIOUS
    <3>2. PICK n, len \in Nat : n = Len(rest) /\ len = Len(queue) /\ n # 0
      BY <2>2, <3>1, EmptySeq, LenProperties
    <3>3. n = len - d /\ n \in 1..len - d /\ n + d = len /\ len # 0
      BY <2>3, <3>2
    <3>4. rest[n] = queue[len]
      BY <2>3, <3>2, <3>3
    <3> QED
      BY <3>2, <3>3, <3>4, EmptySeq DEF Last
  <2>5. ChainFits(c)'
    BY <1>1, <1>4, <1>5, <1>7, <2>1, <2>4 DEF PromptFits, ChainFits
  <2>6. \A i \in DOMAIN downlink'[c] : downlink'[c][i].kind = "correction"
    <3>1. \A i \in DOMAIN downlink[c] : downlink[c][i].kind = "correction"
      BY <1>4, <1>5, <1>7 DEF PromptFits
    <3>2. CASE ~Advances(c)
      BY <1>3, <3>1, <3>2
    <3>3. CASE Advances(c)
      <4>1. PICK old, message : old = downlink[c] /\ message = Correction(players'[c])
        OBVIOUS
      <4>2. old \in Seq(Messages) /\ downlink'[c] = Append(old, message)
        BY <1>3, <1>4, <1>5, <3>3, <4>1 DEF Typed
      <4>3. c \in DOMAIN players /\ players'[c] \in Bodies
        BY <1>4, <3>3, TickServes
      <4>4. message \in Messages /\ message.kind = "correction"
        BY <4>1, <4>3 DEF Correction, PlayerCorrection, Messages, Bodies, States
      <4>5. PICK new : new = Append(old, message)
        OBVIOUS
      <4>6. /\ new \in Seq(Messages) /\ Len(new) = Len(old) + 1 /\ Len(old) \in Nat
            /\ \A i \in 1..Len(old) : new[i] = old[i]
            /\ new[Len(old) + 1] = message
            /\ DOMAIN old = 1..Len(old) /\ DOMAIN new = 1..Len(new)
        BY <4>2, <4>4, <4>5, AppendProperties, DomainLen
      <4>7. ASSUME NEW i \in DOMAIN new PROVE new[i].kind = "correction"
        <5>1. i \in 1..Len(old) \/ i = Len(old) + 1
          BY <4>6, <4>7
        <5> QED
          BY <3>1, <4>1, <4>4, <4>6, <5>1
      <4> QED
        BY <4>2, <4>5, <4>7
    <3> QED
      BY <3>2, <3>3
  <2> QED
    BY <1>1, <1>2, <1>4, <1>5, <1>7, <2>5, <2>6 DEF PromptFits
<1> QED
  BY <1>6, <1>7

LEMMA PromptDeliver ==
    ASSUME NeverWraps, PInv, NEW c \in Clients, Deliver(c)
    PROVE  \A d \in Clients : PromptFits(d)'
<1>1. PICK command : command = Head(uplink[c])
  OBVIOUS
<1>2. /\ ReceiveInput(c, command) /\ uplink[c] # << >>
      /\ UNCHANGED <<honest, predicted, history, downlink, issued, lastFrame>>
      /\ prompt' = [prompt EXCEPT ![c] = @ /\ command.timestamp = clock]
      /\ uplink' = [uplink EXCEPT ![c] = Tail(uplink[c])]
  BY <1>1 DEF Deliver, ReceiveInput, Taken
<1>3. Typed /\ \A d \in Clients : ClientFits(d) /\ PromptFits(d)
  BY DEF PInv, IInv
<1>4. /\ UNCHANGED <<players, clock>>
      /\ \A d \in Clients : d # c => /\ queues'[d] = queues[d] /\ suspicion'[d] = suspicion[d]
                                     /\ limiters'[d] = limiters[d]
  BY <1>2, <1>3, ReceiveChanges
<1>5. ASSUME NEW d \in Clients, d # c PROVE PromptFits(d)'
  <2>1. /\ prompt'[d] = prompt[d] /\ uplink'[d] = uplink[d] /\ lost'[d] = lost[d]
    BY <1>2, <1>3, <1>5 DEF Typed, Deliver
  <2>2. Untouched(d)
    BY <1>2, <1>4, <1>5, <2>1 DEF Untouched
  <2> QED
    BY <1>2, <1>3, <1>4, <2>1, <2>2, PromptUntouched
<1>6. PromptFits(c)'
  <2>1. c \in honest /\ c \in DOMAIN players
    BY <1>2, <1>3 DEF ClientFits, OutsiderFits, NewcomerFits
  <2>2. SUFFICES ASSUME prompt'[c]
                 PROVE  PromptFits(c)'
    BY <1>2, <1>4, <2>1 DEF PromptFits
  <2>3. prompt[c] /\ command.timestamp = clock /\ clock \in Nat /\ lastFrame[c] \in Nat
    BY <1>2, <1>3, <2>2 DEF Typed
  <2>4. predicted[c].actorId # 0 /\ ChainFits(c)
    BY <1>2, <1>3, <2>1, <2>3 DEF PromptFits
  <2>5. PICK sent, len, rest : sent = uplink[c] /\ len = Len(sent) /\ rest = Tail(sent)
    OBVIOUS
  <2>6. /\ len \in Nat \ {0} /\ rest \in Seq(Commands) /\ Len(rest) = len - 1
        /\ \A i \in 1..len - 1 : rest[i] = sent[i + 1]
        /\ command = sent[1] /\ command \in Commands /\ sent # << >>
        /\ DOMAIN sent = 1..len /\ DOMAIN rest = 1..len - 1 /\ uplink'[c] = rest
        /\ Last(sent) = sent[len]
    <3>1. sent \in Seq(Commands) /\ sent # << >>
      BY <1>2, <1>3, <2>5 DEF Typed
    <3>2. len \in Nat \ {0} /\ command = sent[1] /\ command \in Commands
      BY <1>1, <2>5, <3>1, HeadTailProperties, EmptySeq, LenProperties
    <3>3. rest \in Seq(Commands) /\ Len(rest) = len - 1
      BY <2>5, <3>1, HeadTailProperties
    <3>4. \A i \in 1..len - 1 : rest[i] = sent[i + 1]
      BY <2>5, <3>1, <3>3, HeadTailProperties
    <3>5. uplink'[c] = rest
      BY <1>2, <1>3, <2>5 DEF Typed
    <3> QED
      BY <2>5, <3>1, <3>2, <3>3, <3>4, <3>5, DomainLen DEF Last
  <2>7. PICK times : times = limiters[c].timestamps
    OBVIOUS
  <2>8. /\ suspicion[c] = 0 /\ times \in Seq(Nat) /\ Spaced(times)
        /\ \A i \in DOMAIN times : times[i] <= clock
        /\ limiters[c] \in [timestamps : Seq(Nat), blockedUntil : {0}, strikes : {0}]
        /\ lastFrame[c] <= clock
        /\ \A i \in DOMAIN downlink[c] : downlink[c][i].kind = "correction"
    BY <1>3, <2>1, <2>3, <2>4, <2>7 DEF PromptFits
  <2>9. /\ command.fault = "none" /\ After(times, clock)
        /\ queues[c] # << >> => Follows(Last(queues[c]), command)
    BY <2>3, <2>4, <2>5, <2>6, <2>7 DEF ChainFits
  \* The rate limiter lets it through.
  <2>10. PICK more : more = Append(Recent(times, clock), clock)
    OBVIOUS
  <2>11. /\ Len(Recent(times, clock)) < MaxEvents
         /\ more \in Seq(Nat) /\ Spaced(more)
         /\ \A i \in DOMAIN more : more[i] <= clock
         /\ more # << >> /\ Last(more) = clock
    <3>1. PICK now \in Nat : now = clock /\ now + Window < ClockModulus
      BY <2>3, RateLimitAssumption, InputSystemAssumption DEF PInv, NeverWraps
    <3>2. \A i \in DOMAIN times : times[i] <= now
      BY <2>8, <3>1
    <3>3. times \in Seq(Nat) /\ Spaced(times) /\ After(times, now)
      BY <2>8, <2>9, <3>1
    <3>4. more = Append(Recent(times, now), now)
      BY <2>10, <3>1
    <3>5. /\ Len(Recent(times, now)) < MaxEvents
          /\ Append(Recent(times, now), now) \in Seq(Nat)
          /\ Spaced(Append(Recent(times, now), now))
          /\ \A i \in DOMAIN Append(Recent(times, now), now) : Append(Recent(times, now), now)[i] <= now
          /\ Append(Recent(times, now), now) # << >>
          /\ Last(Append(Recent(times, now), now)) = now
      BY <3>1, <3>2, <3>3, SpacedAdmitted
    <3> QED
      BY <3>1, <3>4, <3>5
  <2>12. Allowed(limiters[c], clock)
    <3>1. ~Blocked(limiters[c], clock)
      BY <2>3, <2>8 DEF Blocked
    <3>2. ~Full(limiters[c], clock)
      <4>1. Len(Recent(times, clock)) \in Nat
        <5>1. clock + Window < ClockModulus
          BY <2>3, RateLimitAssumption, InputSystemAssumption DEF PInv, NeverWraps
        <5>2. Recent(times, clock) \in Seq(Nat)
          BY <2>3, <2>8, <5>1, RecentDrops
        <5> QED
          BY <5>2, LenProperties
      <4> QED
        BY <2>7, <2>11, <4>1, RateLimitAssumption DEF Full
    <3> QED
      BY <3>1, <3>2 DEF Allowed
  \* So does the input buffer.
  <2>13. PICK queue : queue = queues[c]
    OBVIOUS
  <2>14. queue \in Seq(Buffered) /\ (queue # << >> => Last(queue) \in Buffered)
    <3>1. queue \in Seq(Buffered)
      BY <1>3, <2>13 DEF Typed
    <3>2. queue # << >> => Len(queue) \in 1..Len(queue)
      BY <3>1, EmptySeq, LenProperties
    <3> QED
      BY <3>1, <3>2, ElementOfSeq DEF Last
  <2>15. Pushable(queue, command)
    <3>1. MaxHistory \in Nat
      BY PlayerInputAssumption
    <3>2. SUFFICES ASSUME queue # << >>
                   PROVE  /\ command.sequence > Last(queue).sequence
                          /\ Wrapped(command.timestamp + MaxHistory) >= Last(queue).timestamp
                          /\ command.timestamp <= Wrapped(Last(queue).timestamp + MaxClientLead)
      BY DEF Pushable
    <3>3. Last(queue).timestamp \in Nat
      BY <2>14, <3>2 DEF Buffered
    <3>4. Follows(Last(queue), command)
      BY <2>9, <2>13, <3>2
    <3>5. /\ command.sequence > Last(queue).sequence
          /\ command.timestamp > Last(queue).timestamp
          /\ command.timestamp <= Last(queue).timestamp + MaxClientLead
      BY <3>4 DEF Follows
    <3>6. PICK old, new : old = Last(queue).timestamp /\ new = command.timestamp
      OBVIOUS
    <3>7. /\ old \in Nat /\ new \in Nat /\ old < new /\ new <= old + MaxClientLead
          /\ new + MaxHistory < ClockModulus /\ old + MaxClientLead < ClockModulus
      <4>1. old \in Nat /\ new \in Nat /\ old < new /\ new <= MaxClock
        BY <2>3, <3>3, <3>5, <3>6 DEF PInv
      <4>2. MaxClock \in Nat /\ MaxClientLead \in Nat /\ ClockModulus \in Nat
            /\ MaxClock + MaxHistory < ClockModulus /\ MaxClock + MaxClientLead < ClockModulus
        BY InputSystemAssumption, PlayerInputAssumption, RateLimitAssumption DEF NeverWraps
      <4> QED
        BY <3>1, <3>5, <3>6, <4>1, <4>2
    <3>8. Wrapped(new + MaxHistory) = new + MaxHistory /\ Wrapped(old + MaxClientLead) = old + MaxClientLead
      BY <3>1, <3>7, PlayerInputAssumption, RateLimitAssumption DEF Wrapped
    <3>9. Wrapped(new + MaxHistory) >= old /\ new <= Wrapped(old + MaxClientLead)
      BY <3>1, <3>7, <3>8
    <3> QED
      BY <3>5, <3>6, <3>9
  <2>16. ~isKicked(c) /\ Judges(c)
    BY <2>1, <2>8, PlayerInputAssumption DEF isKicked, Judges
  <2>17. ReceiveBuffered(c, command)
    <3>1. ~ReceiveIgnored(c)
      BY <2>1, <2>16 DEF ReceiveIgnored
    <3>2. command.fault = "none"
      BY <2>9
    <3>3. ~ReceiveMalformed(c, command) /\ ~ReceiveFaulty(c, command)
      <4>1. ~ReceiveMalformed(c, command)
        BY <3>2 DEF ReceiveMalformed
      <4>2. ~ReceiveFaulty(c, command)
        BY <3>2 DEF ReceiveFaulty
      <4> QED
        BY <4>1, <4>2
    <3>4. ~ReceiveLimited(c, command)
      BY <2>12 DEF ReceiveLimited
    <3>5. ~ReceiveRefused(c, command)
      BY <2>13, <2>15 DEF ReceiveRefused
    <3> QED
      BY <1>2, <3>1, <3>3, <3>4, <3>5 DEF ReceiveInput, ReceiveInputFails
  <2>18. PICK pushed : pushed = push(queue, command)
    OBVIOUS
  <2>19. /\ suspicion' = suspicion /\ queues'[c] = pushed
         /\ limiters'[c] = allow(limiters[c], clock)
    BY <1>3, <2>13, <2>17, <2>18 DEF ReceiveBuffered, Limits, Typed
  <2>20. pushed # << >> /\ Last(pushed).sequence = command.sequence
         /\ Last(pushed).timestamp = command.timestamp
    <3>1. command.sequence \in Nat /\ command.timestamp \in Nat
      BY <2>6 DEF Commands
    <3>2. PICK d \in 0..Len(queue) :
             /\ pushed \in Seq(Buffered)
             /\ Len(pushed) = Len(queue) - d + 1
             /\ pushed[Len(queue) - d + 1] =
                    [sequence |-> command.sequence, timestamp |-> command.timestamp,
                     received |-> clock]
      BY <2>3, <2>14, <2>18, <3>1, PushDrops
    <3>3. Len(queue) \in Nat
      BY <2>14, LenProperties
    <3>4. pushed # << >> /\ Last(pushed) = pushed[Len(queue) - d + 1]
      BY <3>2, <3>3, EmptySeq DEF Last
    <3> QED
      BY <3>2, <3>4
  <2>21. /\ limiters'[c].timestamps = more
         /\ limiters'[c] \in [timestamps : Seq(Nat), blockedUntil : {0}, strikes : {0}]
    <3>1. allow(limiters[c], clock) =
              [limiters[c] EXCEPT !.timestamps = Append(Recent(limiters[c].timestamps, clock), clock)]
      BY <2>12 DEF allow, Allowed
    <3>2. PICK limiter \in [timestamps : Seq(Nat), blockedUntil : {0}, strikes : {0}] :
             limiter = limiters[c]
      BY <2>8
    <3>3. limiters'[c] = [limiter EXCEPT !.timestamps = more]
      BY <2>7, <2>10, <2>19, <3>1, <3>2
    <3> QED
      BY <2>11, <3>3
  <2>22. ChainFits(c)'
    <3>1. \A i \in DOMAIN rest : rest[i].fault = "none"
      BY SMTT(30), <2>4, <2>5, <2>6 DEF ChainFits
    <3>2. ASSUME NEW i \in DOMAIN rest, i + 1 \in DOMAIN rest
          PROVE  /\ Follows(rest[i], rest[i + 1])
                 /\ (rest[i + 1].timestamp - rest[i].timestamp) * MaxEvents >= Window
      <4>1. i + 1 \in 1..len /\ (i + 1) + 1 \in 1..len
        BY <2>6, <3>2
      <4>2. rest[i] = sent[i + 1] /\ rest[i + 1] = sent[(i + 1) + 1]
        BY <2>6, <3>2
      <4> QED
        BY <2>4, <2>5, <2>6, <4>1, <4>2 DEF ChainFits
    <3>3. Last(sent).timestamp = lastFrame[c] /\ Last(sent).sequence = issued[c]
      BY <2>4, <2>5, <2>6 DEF ChainFits
    <3>4. CASE rest = << >>
      <4>1. Last(sent) = command
        BY <2>6, <3>4, EmptySeq
      <4> QED
        BY <1>2, <2>3, <2>6, <2>11, <2>19, <2>20, <2>21, <3>1, <3>2, <3>3, <3>4, <4>1 DEF ChainFits
    <3>5. CASE rest # << >>
      <4>1. /\ 1 \in 1..len /\ 1 + 1 \in 1..len /\ rest[1] = sent[1 + 1]
            /\ Last(rest) = Last(sent)
        <5>1. len - 1 \in 1..len - 1 /\ 1 \in 1..len - 1 /\ len - 1 + 1 = len
          BY <2>6, <3>5, EmptySeq
        <5> QED
          BY <2>6, <5>1 DEF Last
      <4>2. /\ Follows(command, rest[1])
            /\ (rest[1].timestamp - command.timestamp) * MaxEvents >= Window
        BY <2>4, <2>5, <2>6, <4>1 DEF ChainFits
      <4>3. Follows(Last(pushed), rest[1])
        BY <2>20, <4>2 DEF Follows
      <4>4. After(more, rest[1].timestamp)
        BY <2>3, <2>11, <4>2 DEF After
      <4> QED
        BY <1>2, <2>6, <2>19, <2>21, <3>1, <3>2, <3>3, <3>5, <4>1, <4>3, <4>4 DEF ChainFits
    <3> QED
      BY <3>4, <3>5
  <2> QED
    BY <1>2, <1>4, <2>1, <2>4, <2>8, <2>11, <2>19, <2>21, <2>22 DEF PromptFits
<1> QED
  BY <1>5, <1>6

LEMMA PromptInvariance == ASSUME NeverWraps PROVE SSpec => []PInv
<1>1. SInit /\ IInv => PInv
  BY PromptInit
<1>2. PInv /\ IInv' /\ [SNext]_systemVars => PInv'
  <2>1. SUFFICES ASSUME PInv, IInv', [SNext]_systemVars
                 PROVE  clock' <= MaxClock /\ \A d \in Clients : PromptFits(d)'
    BY DEF PInv
  <2>2. Typed /\ clock \in Nat /\ clock <= MaxClock /\ MaxClock \in Nat
    BY <2>1, InputSystemAssumption DEF PInv, IInv, Typed
  <2>3. ASSUME NEW c \in Clients, Spawn(c) \/ Frame(c) \/ Deliver(c) \/ Correct(c) \/ Forge(c)
        PROVE  clock' <= MaxClock /\ \A d \in Clients : PromptFits(d)'
    <3>1. CASE Spawn(c)
      BY <2>1, <2>2, <3>1, PromptSpawn DEF Spawn, registerPlayer
    <3>2. CASE Frame(c)
      BY <2>1, <2>2, <3>2, PromptFrame DEF Frame, vars
    <3>3. CASE Deliver(c)
      <4>1. UNCHANGED clock
        <5>1. PICK command : ReceiveInput(c, command)
          BY <3>3 DEF Deliver, ReceiveInput
        <5> QED
          BY <2>2, <5>1, ReceiveChanges
      <4> QED
        BY <2>1, <2>2, <3>3, <4>1, PromptDeliver
    <3>4. CASE Correct(c)
      BY <2>1, <2>2, <3>4, PromptCorrect DEF Correct, vars
    <3>5. CASE Forge(c)
      <4>1. UNCHANGED clock
        <5>1. CASE \E command \in Forgeries : ReceiveInput(c, command)
          BY <2>2, <5>1, ReceiveChanges
        <5>2. CASE \E shooter \in 1..MaxSpawns, verdict \in {"accepted", "refused"} :
                      RefuseHit(c, shooter, verdict)
          BY <5>2 DEF RefuseHit
        <5> QED
          BY <3>5, <5>1, <5>2 DEF Forge
      <4> QED
        BY <2>1, <2>2, <3>5, <4>1, PromptForge
    <3> QED
      BY <2>3, <3>1, <3>2, <3>3, <3>4, <3>5
  <2>4. CASE ServerTick
    BY <2>1, <2>2, <2>4, PromptTick DEF ServerTick, SimulatePending
  <2>5. CASE ClockTick \/ UNCHANGED systemVars
    <3>1. clock' \in {clock, clock + 1} /\ clock' <= MaxClock
      BY <2>2, <2>5 DEF ClockTick, Tick, systemVars, vars
    <3>2. ASSUME NEW d \in Clients PROVE PromptFits(d)'
      <4>1. Untouched(d) /\ lastFrame'[d] = lastFrame[d] /\ prompt'[d] = prompt[d]
        BY <2>5 DEF ClockTick, Tick, systemVars, vars, Untouched
      <4> QED
        BY <2>1, <2>2, <3>1, <4>1, PromptUntouched DEF PInv
    <3> QED
      BY <3>1, <3>2
  <2> QED
    BY <2>1, <2>3, <2>4, <2>5 DEF SNext
<1> QED
  BY <1>1, <1>2, Invariance, PTL DEF SSpec

\* A client whose inputs come in time, no further apart than the lead the input
\* buffer allows and no closer than the rate limiter's rule allows on average,
\* is never suspected: neither the limiter nor the buffer refuses one of them.
THEOREM PromptNotSuspectedCorrect == ASSUME NeverWraps PROVE SSpec => []PromptNotSuspected
<1>1. PInv => PromptNotSuspected
  BY DEF PInv, IInv, Typed, PromptFits, PromptNotSuspected
<1> QED
  BY <1>1, PromptInvariance, PTL

------------------------------------------------------------------------------
(* Steady clients. *)

\* A pair is its two members.
LEMMA PairIs ==
    ASSUME NEW pair \in Nat \X Nat
    PROVE  pair = <<pair[1], pair[2]>> /\ pair[1] \in Nat /\ pair[2] \in Nat
OBVIOUS

\* What replaying makes of the moves.
LEMMA ReplayedMoves ==
    ASSUME NEW state \in States, NEW pending \in Seq(Predictions)
    PROVE  /\ Len(Client!Replayed(state, pending).moves) = Len(state.moves) + Len(pending)
           /\ \A i \in 1..Len(state.moves) : Client!Replayed(state, pending).moves[i] = state.moves[i]
           /\ \A i \in 1..Len(pending) :
                 Client!Replayed(state, pending).moves[Len(state.moves) + i]
                     = <<pending[i].command.sequence, pending[i].dt>>
<1>1. Len(pending) \in Nat /\ \A i \in 1..Len(pending) : pending[i] \in Predictions
  BY LenProperties, ElementOfSeq
<1>2. PICK after : /\ Replays(after, state, pending, Len(pending))
                   /\ Client!Replayed(state, pending) = after[Len(pending)]
  BY <1>1, ReplayedFold
<1>3. \A n \in 0..Len(pending) :
          after[n] = IF n = 0 THEN state
                     ELSE Client!simulatePlayerState(after[n - 1], pending[n].command, pending[n].dt)
  BY <1>2 DEF Replays
<1>4. state.moves \in Seq(Nat \X Nat) /\ Len(state.moves) \in Nat
  BY LenProperties DEF States, Moves
<1> DEFINE Good(s, n) ==
             /\ s \in States
             /\ Len(s.moves) = Len(state.moves) + n
             /\ \A i \in 1..Len(state.moves) : s.moves[i] = state.moves[i]
             /\ \A i \in 1..n :
                   s.moves[Len(state.moves) + i] = <<pending[i].command.sequence, pending[i].dt>>
           S == {n \in Nat : n <= Len(pending) => Good(after[n], n)}
<1> HIDE DEF Good
<1>5. 0 \in S
  <2>1. after[0] = state
    BY <1>1, <1>3
  <2>2. Good(state, 0)
    BY <1>4 DEF Good
  <2> QED
    BY <2>1, <2>2
<1>6. ASSUME NEW n \in Nat, n \in S
      PROVE  n + 1 \in S
  <2>1. SUFFICES ASSUME n + 1 <= Len(pending)
                 PROVE  Good(after[n + 1], n + 1)
    OBVIOUS
  <2>2. n + 1 \in 0..Len(pending) /\ n + 1 # 0 /\ n + 1 - 1 = n /\ n + 1 \in 1..Len(pending)
    BY <1>1, <2>1
  <2>3. Good(after[n], n)
    BY <1>1, <1>6, <2>1
  <2>4. PICK s, base : s = after[n] /\ base = Len(state.moves)
    OBVIOUS
  <2>5. PICK command, dt : command = pending[n + 1].command /\ dt = pending[n + 1].dt
    OBVIOUS
  <2>6. command.sequence \in Nat /\ dt \in Nat
    BY <1>1, <2>2, <2>5 DEF Predictions, Commands
  <2>7. s \in States /\ s.moves \in Seq(Nat \X Nat)
    <3>1. s \in States
      BY <2>3, <2>4 DEF Good
    <3> QED
      BY <3>1 DEF States, Moves
  <2>8. PICK t, x : t = simulatePlayerState(s, command, dt) /\ x = <<command.sequence, dt>>
    OBVIOUS
  <2>9. after[n + 1] = t
    BY <1>3, <2>2, <2>4, <2>5, <2>8, SameRules
  <2>10. t \in States /\ t.moves = Append(s.moves, x)
    BY <2>6, <2>7, <2>8, SimulateStep
  <2>11. x \in Nat \X Nat
    BY <2>6, <2>8
  <2>12. PICK len : len = Len(s.moves)
    OBVIOUS
  <2>13. /\ Len(t.moves) = len + 1
         /\ \A i \in 1..len : t.moves[i] = s.moves[i]
         /\ t.moves[len + 1] = x
    BY <2>7, <2>10, <2>11, <2>12, AppendProperties
  <2>14. /\ len = base + n /\ base \in Nat
         /\ \A i \in 1..base : s.moves[i] = state.moves[i]
         /\ \A i \in 1..n : s.moves[base + i] = <<pending[i].command.sequence, pending[i].dt>>
    BY <1>4, <2>3, <2>4, <2>12 DEF Good
  <2>15. Len(t.moves) = base + (n + 1)
    BY <2>13, <2>14
  <2>16. ASSUME NEW i \in 1..base PROVE t.moves[i] = state.moves[i]
    <3>1. i \in 1..len
      BY <2>14
    <3> QED
      BY <2>13, <2>14, <3>1
  <2>17. ASSUME NEW i \in 1..n + 1
         PROVE  t.moves[base + i] = <<pending[i].command.sequence, pending[i].dt>>
    <3>1. CASE i = n + 1
      <4>1. len + 1 = base + i
        BY <2>14, <3>1
      <4> QED
        BY <2>5, <2>8, <2>13, <3>1, <4>1
    <3>2. CASE i # n + 1
      <4>1. i \in 1..n /\ base + i \in 1..len
        BY <2>14, <3>2
      <4> QED
        BY <2>13, <2>14, <4>1
    <3> QED
      BY <3>1, <3>2
  <2>18. Good(t, n + 1)
    BY <2>4, <2>10, <2>15, <2>16, <2>17 DEF Good
  <2> QED
    BY <2>9, <2>18
<1> HIDE DEF S
<1>7. \A n \in Nat : n \in S
  BY <1>5, <1>6, NatSet
<1>8. Good(after[Len(pending)], Len(pending))
  BY <1>1, <1>7 DEF S
<1> QED
  BY <1>2, <1>8 DEF Good

\* A frame extends the prediction by one step and the times by the present.
LEMMA InputsFrame ==
    ASSUME NEW body \in Bodies, NEW made \in Moves, NEW queue \in Seq(Buffered),
           NEW sent \in Seq(Commands), NEW pending \in Seq(Predictions), NEW count \in Nat, NEW time,
           InputsFit(body, made, queue, sent, pending, count, time),
           NEW dt \in 1..MaxClientDelta, NEW move \in Nat \X Nat, move[1] = count + 1, move[2] = dt,
           NEW command \in Commands, command.sequence = count + 1,
           command.timestamp = time[count] + dt,
           NEW item \in Predictions, item.command = command, item.dt = dt
    PROVE  \E more : /\ InputsFit(body, Append(made, move), queue, Append(sent, command),
                                  Append(pending, item), count + 1, more)
                     /\ more[count + 1] = command.timestamp
<1>1. PICK done, old, n, q, m : /\ done = Len(body.moves) /\ n = Len(pending) /\ old = count - n
                                /\ q = Len(queue) /\ m = Len(sent)
  OBVIOUS
<1>2. done \in Nat /\ n \in Nat /\ q \in Nat /\ m \in Nat
  <2>1. body.moves \in Seq(Nat \X Nat)
    BY DEF Bodies, States, Moves
  <2> QED
    BY <1>1, <2>1, LenProperties
<1>3. Len(made) = count /\ old \in 0..done /\ count = done + q + m /\ old = count - n
  BY <1>1 DEF InputsFit
<1>4. \A i \in 1..count : made[i][1] = i /\ made[i][2] \in 1..MaxClientDelta
  BY DEF InputsFit
<1>5. body.lastProcessedSequence = done /\ \A i \in 1..done : body.moves[i] = made[i]
  BY <1>1 DEF InputsFit
<1>6. /\ time \in [0..count -> Nat \ {0}]
      /\ time[done] = body.simulationTime
      /\ \A i \in done + 1..count : time[i] = time[i - 1] + made[i][2]
  BY <1>1 DEF InputsFit
<1>7. \A i \in 1..q : queue[i].sequence = done + i /\ queue[i].timestamp = time[done + i]
  BY <1>1 DEF InputsFit
<1>8. \A i \in 1..m : sent[i].sequence = done + q + i /\ sent[i].timestamp = time[done + q + i]
  BY <1>1 DEF InputsFit
<1>9. \A i \in 1..n : pending[i].command.sequence = old + i /\ pending[i].dt = made[old + i][2]
  BY <1>1 DEF InputsFit
<1>10. PICK now, more : /\ now = command.timestamp
                        /\ more = [i \in 0..count + 1 |-> IF i = count + 1 THEN now ELSE time[i]]
  OBVIOUS
<1>11. PICK made2, sent2, pending2 :
         made2 = Append(made, move) /\ sent2 = Append(sent, command) /\ pending2 = Append(pending, item)
  OBVIOUS
<1>12. /\ Len(made2) = count + 1 /\ made2[count + 1] = move
       /\ \A i \in 1..count : made2[i] = made[i]
  <2>1. made \in Seq(Nat \X Nat) /\ Len(made) = count
    BY <1>3 DEF Moves
  <2> QED
    BY <1>11, <2>1, AppendProperties
<1>13. /\ Len(sent2) = m + 1 /\ sent2[m + 1] = command
       /\ \A i \in 1..m : sent2[i] = sent[i]
  BY <1>1, <1>11, AppendProperties
<1>14. /\ Len(pending2) = n + 1 /\ pending2[n + 1] = item
       /\ \A i \in 1..n : pending2[i] = pending[i]
  BY <1>1, <1>11, AppendProperties
<1>15. now \in Nat \ {0} /\ now = time[count] + dt /\ time[count] \in Nat
  <2>1. time[count] \in Nat
    BY <1>6
  <2>2. MaxClientDelta \in Nat
    BY PlayerInputAssumption
  <2> QED
    BY <1>10, <2>1, <2>2 DEF Commands
<1>16. /\ more \in [0..count + 1 -> Nat \ {0}] /\ more[count + 1] = now
       /\ \A i \in 0..count : more[i] = time[i]
  <2>1. \A i \in 0..count + 1 : i # count + 1 => i \in 0..count /\ time[i] \in Nat \ {0}
    <3>1. \A i \in 0..count + 1 : i # count + 1 => i \in 0..count
      OBVIOUS
    <3> QED
      BY <1>6, <3>1
  <2>2. \A i \in 0..count + 1 : (IF i = count + 1 THEN now ELSE time[i]) \in Nat \ {0}
    BY <1>15, <2>1
  <2>3. count + 1 \in 0..count + 1 /\ \A i \in 0..count : i \in 0..count + 1 /\ i # count + 1
    OBVIOUS
  <2> QED
    BY <1>10, <2>2, <2>3
<1>17. \A i \in 1..count + 1 : made2[i][1] = i /\ made2[i][2] \in 1..MaxClientDelta
  <2>1. \A i \in 1..count + 1 : i \in 1..count \/ i = count + 1
    OBVIOUS
  <2>2. made2[count + 1][1] = count + 1 /\ made2[count + 1][2] = dt
    BY <1>12
  <2>3. \A i \in 1..count : made2[i][1] = i /\ made2[i][2] \in 1..MaxClientDelta
    BY <1>4, <1>12
  <2> QED
    BY <2>1, <2>2, <2>3
<1>18. \A i \in 1..done : body.moves[i] = made2[i]
  <2>1. \A i \in 1..done : i \in 1..count
    <3>1. count = done + q + m
      BY <1>3
    <3> QED
      BY SMTT(30), <1>2, <3>1
  <2> QED
    BY <1>5, <1>12, <2>1
<1>19. more[done] = body.simulationTime
  <2>1. done \in 0..count
    BY SMTT(30), <1>2, <1>3
  <2> QED
    BY <1>6, <1>16, <2>1
<1>20. ASSUME NEW i \in done + 1..count + 1
       PROVE  more[i] = more[i - 1] + made2[i][2]
  <2>1. CASE i = count + 1
    <3>1. i - 1 = count /\ count \in 0..count
      BY <2>1
    <3>2. more[i - 1] = time[count] /\ made2[i][2] = dt
      BY <1>12, <1>16, <2>1, <3>1
    <3> QED
      BY <1>15, <1>16, <2>1, <3>2
  <2>2. CASE i # count + 1
    <3>1. i \in done + 1..count /\ i \in 0..count /\ i - 1 \in 0..count /\ i \in 1..count
      BY <1>2, <2>2
    <3>2. more[i] = time[i] /\ more[i - 1] = time[i - 1] /\ made2[i] = made[i]
      BY <1>12, <1>16, <3>1
    <3> QED
      BY <1>6, <3>1, <3>2
  <2> QED
    BY <2>1, <2>2
<1>21. \A i \in 1..q : queue[i].sequence = done + i /\ queue[i].timestamp = more[done + i]
  <2>1. \A i \in 1..q : done + i \in 0..count
    BY <1>2, <1>3
  <2> QED
    BY <1>7, <1>16, <2>1
<1>22. ASSUME NEW i \in 1..m + 1
       PROVE  sent2[i].sequence = done + q + i /\ sent2[i].timestamp = more[done + q + i]
  <2>1. CASE i = m + 1
    <3>1. done + q + i = count + 1
      BY <1>2, <1>3, <2>1
    <3>2. sent2[i] = command
      BY <1>13, <2>1
    <3> QED
      BY <1>10, <1>16, <3>1, <3>2
  <2>2. CASE i # m + 1
    <3>1. count = done + q + m
      BY <1>3
    <3>2. i \in 1..m /\ done + q + i \in 0..count
      BY <1>2, <2>2, <3>1
    <3>3. sent2[i] = sent[i] /\ more[done + q + i] = time[done + q + i]
      BY <1>13, <1>16, <3>2
    <3> QED
      BY <1>8, <3>2, <3>3
  <2> QED
    BY <2>1, <2>2
<1>23. ASSUME NEW i \in 1..n + 1
       PROVE  pending2[i].command.sequence = old + i /\ pending2[i].dt = made2[old + i][2]
  <2>1. CASE i = n + 1
    <3>1. old + i = count + 1
      BY <1>2, <1>3, <2>1
    <3>2. pending2[i] = item
      BY <1>14, <2>1
    <3> QED
      BY <1>12, <3>1, <3>2
  <2>2. CASE i # n + 1
    <3>1. i \in 1..n /\ old + i \in 1..count
      BY <1>2, <1>3, <2>2
    <3>2. pending2[i] = pending[i] /\ made2[old + i] = made[old + i]
      BY <1>12, <1>14, <3>1
    <3> QED
      BY <1>9, <3>1, <3>2
  <2> QED
    BY <2>1, <2>2
<1>24. count + 1 - Len(pending2) = old /\ count + 1 = done + q + Len(sent2)
  BY <1>2, <1>3, <1>13, <1>14
<1>25. PICK rest : rest = count + 1 - Len(pending2)
  OBVIOUS
<1>26. InputsFit(body, made2, queue, sent2, pending2, count + 1, more)
  <2>1. Len(made2) = count + 1 /\ rest \in 0..Len(body.moves)
    BY <1>1, <1>3, <1>12, <1>24, <1>25
  <2>2. /\ body.lastProcessedSequence = Len(body.moves)
        /\ \A i \in 1..Len(body.moves) : body.moves[i] = made2[i]
        /\ more[Len(body.moves)] = body.simulationTime
        /\ \A i \in Len(body.moves) + 1..count + 1 : more[i] = more[i - 1] + made2[i][2]
    BY <1>1, <1>5, <1>18, <1>19, <1>20
  <2>3. count + 1 = Len(body.moves) + Len(queue) + Len(sent2)
    BY <1>1, <1>24
  <2>4. \A i \in 1..Len(queue) :
           /\ queue[i].sequence = Len(body.moves) + i
           /\ queue[i].timestamp = more[Len(body.moves) + i]
    BY <1>1, <1>21
  <2>5. \A i \in 1..Len(sent2) :
           /\ sent2[i].sequence = Len(body.moves) + Len(queue) + i
           /\ sent2[i].timestamp = more[Len(body.moves) + Len(queue) + i]
    BY <1>1, <1>13, <1>22
  <2>6. \A i \in 1..Len(pending2) :
           pending2[i].command.sequence = rest + i /\ pending2[i].dt = made2[rest + i][2]
    BY <1>14, <1>23, <1>24, <1>25
  <2>7. more \in [0..count + 1 -> Nat \ {0}]
    BY <1>16
  <2> QED
    BY SMTT(30), <1>17, <1>25, <2>1, <2>2, <2>3, <2>4, <2>5, <2>6, <2>7 DEF InputsFit
<1> QED
  BY <1>10, <1>11, <1>16, <1>26

\* The server buffers the first input that is on its way.
LEMMA InputsDeliver ==
    ASSUME NEW body \in Bodies, NEW made, NEW queue \in Seq(Buffered),
           NEW sent \in Seq(Commands), sent # << >>, NEW pending, NEW count \in Nat, NEW time,
           InputsFit(body, made, queue, sent, pending, count, time),
           NEW item \in Buffered, item.sequence = Head(sent).sequence,
           item.timestamp = Head(sent).timestamp
    PROVE  InputsFit(body, made, Append(queue, item), Tail(sent), pending, count, time)
<1>1. PICK done, q, m : done = Len(body.moves) /\ q = Len(queue) /\ m = Len(sent)
  OBVIOUS
<1>2. done \in Nat /\ q \in Nat /\ m \in Nat \ {0}
  <2>1. body.moves \in Seq(Nat \X Nat)
    BY DEF Bodies, States, Moves
  <2>2. m # 0
    BY <1>1, EmptySeq
  <2> QED
    BY <1>1, <2>1, <2>2, LenProperties
<1>3. \A i \in 1..q : queue[i].sequence = done + i /\ queue[i].timestamp = time[done + i]
  BY <1>1 DEF InputsFit
<1>4. \A i \in 1..m : sent[i].sequence = done + q + i /\ sent[i].timestamp = time[done + q + i]
  BY <1>1 DEF InputsFit
<1>5. PICK queue2, sent2 : queue2 = Append(queue, item) /\ sent2 = Tail(sent)
  OBVIOUS
<1>6. /\ Len(queue2) = q + 1 /\ queue2[q + 1] = item
      /\ \A i \in 1..q : queue2[i] = queue[i]
  BY <1>1, <1>5, AppendProperties
<1>7. /\ Len(sent2) = m - 1
      /\ \A i \in 1..m - 1 : sent2[i] = sent[i + 1]
  BY <1>1, <1>5, HeadTailProperties
<1>8. item.sequence = done + (q + 1) /\ item.timestamp = time[done + (q + 1)]
  <2>1. Head(sent) = sent[1]
    BY HeadTailProperties
  <2>2. 1 \in 1..m /\ done + q + 1 = done + (q + 1)
    BY <1>2
  <2> QED
    BY <1>4, <2>1, <2>2
<1>9. ASSUME NEW i \in 1..q + 1
      PROVE  queue2[i].sequence = done + i /\ queue2[i].timestamp = time[done + i]
  <2>1. i \in 1..q \/ i = q + 1
    BY <1>2
  <2> QED
    BY <1>3, <1>6, <1>8, <2>1
<1>10. ASSUME NEW i \in 1..m - 1
       PROVE  /\ sent2[i].sequence = done + (q + 1) + i
              /\ sent2[i].timestamp = time[done + (q + 1) + i]
  <2>1. i + 1 \in 1..m /\ done + q + (i + 1) = done + (q + 1) + i
    BY <1>2
  <2> QED
    BY <1>4, <1>7, <2>1
<1>11. count = done + (q + 1) + (m - 1)
  <2>1. count = done + q + m
    BY <1>1 DEF InputsFit
  <2> QED
    BY <1>2, <2>1
<1>12. \A i \in 1..Len(queue2) :
          /\ queue2[i].sequence = Len(body.moves) + i
          /\ queue2[i].timestamp = time[Len(body.moves) + i]
  BY <1>1, <1>6, <1>9
<1>13. \A i \in 1..Len(sent2) :
          /\ sent2[i].sequence = Len(body.moves) + Len(queue2) + i
          /\ sent2[i].timestamp = time[Len(body.moves) + Len(queue2) + i]
  BY <1>1, <1>6, <1>7, <1>10
<1>14. count = Len(body.moves) + Len(queue2) + Len(sent2)
  BY <1>1, <1>6, <1>7, <1>11
<1>15. InputsFit(body, made, queue2, sent2, pending, count, time)
  BY <1>12, <1>13, <1>14 DEF InputsFit
<1> QED
  BY <1>5, <1>15

\* What is left of the pending inputs begins after the first k.
LeftAfter(k, rest, state, made, count) ==
    /\ rest \in Seq(Predictions) /\ count - Len(rest) = k
    /\ Client!Replayed(state, rest).moves = made

\* A correction drops the pending inputs it covers, and replaying the others
\* makes what was predicted.
LEMMA InputsReconcile ==
    ASSUME NEW body \in Bodies, NEW made \in Moves, NEW queue \in Seq(Buffered),
           NEW sent \in Seq(Commands), NEW pending \in Seq(Predictions), NEW count \in Nat, NEW time,
           InputsFit(body, made, queue, sent, pending, count, time),
           NEW state \in Bodies, NEW k \in Nat,
           k = Len(state.moves), k \in count - Len(pending)..Len(body.moves),
           \A i \in 1..k : state.moves[i] = made[i],
           NEW rest, rest = Client!Uncovered(pending, k)
    PROVE  /\ LeftAfter(k, rest, state, made, count)
           /\ InputsFit(body, made, queue, sent, rest, count, time)
<1>1. PICK done, old, n : done = Len(body.moves) /\ n = Len(pending) /\ old = count - n
  OBVIOUS
<1>2. done \in Nat /\ n \in Nat
  <2>1. body.moves \in Seq(Nat \X Nat)
    BY DEF Bodies, States, Moves
  <2> QED
    BY <1>1, <2>1, LenProperties
<1>3. Len(made) = count /\ old \in 0..done /\ done <= count /\ k \in old..done /\ k <= count
  <2>1. Len(made) = count /\ old \in 0..done /\ count = done + Len(queue) + Len(sent)
    BY <1>1 DEF InputsFit
  <2>2. Len(queue) \in Nat /\ Len(sent) \in Nat
    BY LenProperties
  <2>3. k \in old..done
    BY <1>1
  <2> QED
    BY <1>2, <2>1, <2>2, <2>3
<1>4. \A i \in 1..n : pending[i].command.sequence = old + i /\ pending[i].dt = made[old + i][2]
  BY <1>1 DEF InputsFit
<1>5. \A i \in 1..count : made[i][1] = i /\ made[i] \in Nat \X Nat
  <2>1. \A i \in 1..count : made[i][1] = i
    BY DEF InputsFit
  <2>2. made \in Seq(Nat \X Nat)
    BY DEF Moves
  <2> QED
    BY <1>3, <2>1, <2>2, ElementOfSeq
<1>6. \A i, j \in DOMAIN pending : i < j => pending[i].command.sequence < pending[j].command.sequence
  <2>1. DOMAIN pending = 1..n
    BY <1>1, DomainLen
  <2>2. old \in Nat
    BY <1>3
  <2> QED
    BY <1>2, <1>4, <2>1, <2>2
<1>7. PICK d \in 0..n :
         /\ rest \in Seq(Predictions) /\ Len(rest) = n - d
         /\ \A i \in 1..n - d : rest[i] = pending[i + d]
         /\ \A i \in 1..d : pending[i].command.sequence <= k
         /\ \A i \in 1..n - d : pending[i + d].command.sequence > k
  BY <1>1, <1>6, UncoveredDrops
<1>8. d = k - old
  <2>1. old \in Nat /\ count = old + n
    BY <1>1, <1>2, <1>3
  <2>2. d = 0 \/ old + d <= k
    <3>1. d = 0 \/ (d \in 1..d /\ d \in 1..n)
      BY <1>2
    <3> QED
      BY <1>4, <1>7, <3>1
  <2>3. d = n \/ old + (1 + d) > k
    <3>1. d = n \/ (1 \in 1..n - d /\ 1 + d \in 1..n)
      BY <1>2
    <3> QED
      BY <1>4, <1>7, <3>1
  <2> QED
    BY <1>2, <1>3, <2>1, <2>2, <2>3
<1>9. PICK len : len = n - d
  OBVIOUS
<1>10. len \in Nat /\ count - len = k /\ count = k + len /\ Len(rest) = len
  <2>1. old = count - n /\ k <= count
    BY <1>1, <1>3
  <2>2. Len(rest) = len /\ d \in 0..n
    BY <1>7, <1>9
  <2>3. old \in Int /\ d \in Nat /\ d <= n /\ n \in Nat /\ d = k - old
    BY <1>2, <1>8, <2>1, <2>2
  <2>4. len = n - d /\ len \in Nat
    BY <1>9, <2>3
  <2>5. count = k + len
    BY <2>1, <2>3, <2>4
  <2> QED
    BY <2>2, <2>4, <2>5
<1>11. ASSUME NEW i \in 1..len
       PROVE  rest[i].command.sequence = k + i /\ rest[i].dt = made[k + i][2]
  <2>1. i + d \in 1..n /\ old + (i + d) = k + i /\ i \in 1..n - d
    BY <1>2, <1>3, <1>8, <1>9
  <2> QED
    BY <1>4, <1>7, <2>1
<1>12. PICK moves : moves = Client!Replayed(state, rest).moves
  OBVIOUS
<1>13. state \in States /\ rest \in Seq(Predictions)
  BY <1>7 DEF Bodies
<1>14. /\ moves \in Seq(Nat \X Nat)
       /\ Len(moves) = k + len
       /\ \A i \in 1..k : moves[i] = state.moves[i]
       /\ \A i \in 1..len : moves[k + i] = <<rest[i].command.sequence, rest[i].dt>>
  <2>1. Client!Replayed(state, rest) \in States
    BY <1>13, ReplayedTyped
  <2>2. moves \in Seq(Nat \X Nat)
    BY <1>12, <2>1 DEF States, Moves
  <2>3. /\ Len(moves) = Len(state.moves) + Len(rest)
        /\ \A i \in 1..Len(state.moves) : moves[i] = state.moves[i]
        /\ \A i \in 1..Len(rest) :
              moves[Len(state.moves) + i] = <<rest[i].command.sequence, rest[i].dt>>
    BY ZenonT(30), <1>12, <1>13, ReplayedMoves
  <2> QED
    BY <1>10, <2>2, <2>3
<1>15. ASSUME NEW i \in 1..count PROVE moves[i] = made[i]
  <2>1. CASE i <= k
    <3>1. i \in 1..k
      BY <2>1
    <3> QED
      BY <1>14, <3>1
  <2>2. CASE i > k
    <3>1. PICK j \in 1..len : k + j = i
      <4>1. i - k \in 1..len /\ k + (i - k) = i
        BY <1>10, <2>2
      <4> QED
        BY <4>1
    <3>2. moves[i] = <<rest[j].command.sequence, rest[j].dt>>
      BY <1>14, <3>1
    <3>3. rest[j].command.sequence = i /\ rest[j].dt = made[i][2]
      BY <1>11, <3>1
    <3>4. made[i] = <<made[i][1], made[i][2]>> /\ made[i][1] = i
      BY <1>5, PairIs
    <3> QED
      BY <3>2, <3>3, <3>4
  <2> QED
    BY <2>1, <2>2
<1>16. moves = made
  <2>1. made \in Seq(Nat \X Nat) /\ Len(moves) = Len(made) /\ Len(made) = count
    BY <1>3, <1>10, <1>14 DEF Moves
  <2> QED
    BY <1>14, <1>15, <2>1, SeqEqual
<1>17. InputsFit(body, made, queue, sent, rest, count, time)
  <2>1. count - Len(rest) = k /\ k \in 0..Len(body.moves)
    BY <1>1, <1>3, <1>10
  <2>2. \A i \in 1..Len(rest) : rest[i].command.sequence = k + i /\ rest[i].dt = made[k + i][2]
    BY <1>10, <1>11
  <2> QED
    BY ZenonT(30), <2>1, <2>2 DEF InputsFit
<1>18. LeftAfter(k, rest, state, made, count)
  BY <1>7, <1>10, <1>12, <1>16 DEF LeftAfter
<1> QED
  BY <1>17, <1>18

\* Simulating all that is queued makes the steps the client has predicted.
LEMMA InputsSimulate ==
    ASSUME NEW body \in Bodies, NEW made \in Moves, NEW queue \in Seq(Buffered), queue # << >>,
           NEW sent \in Seq(Commands), NEW pending, NEW count \in Nat, NEW time,
           InputsFit(body, made, queue, sent, pending, count, time),
           NEW next, next = Simulated(body, queue)
    PROVE  /\ next.simulationTime # 0
           /\ Len(next.moves) = Len(body.moves) + Len(queue)
           /\ next.lastProcessedSequence = Len(next.moves)
           /\ \A i \in 1..Len(next.moves) : next.moves[i] = made[i]
           /\ InputsFit(next, made, << >>, sent, pending, count, time)
<1>1. PICK done, q, m : done = Len(body.moves) /\ q = Len(queue) /\ m = Len(sent)
  OBVIOUS
<1>2. done \in Nat /\ q \in Nat \ {0} /\ m \in Nat
  <2>1. body.moves \in Seq(Nat \X Nat)
    BY DEF Bodies, States, Moves
  <2>2. q # 0
    BY <1>1, EmptySeq
  <2> QED
    BY <1>1, <2>1, <2>2, LenProperties
<1>3. Len(made) = count /\ count = done + q + m
  BY <1>1 DEF InputsFit
<1>4. body.lastProcessedSequence = done /\ \A i \in 1..done : body.moves[i] = made[i]
  BY <1>1 DEF InputsFit
<1>5. \A i \in 1..count : made[i][1] = i /\ made[i][2] \in 1..MaxClientDelta /\ made[i] \in Nat \X Nat
  <2>1. \A i \in 1..count : made[i][1] = i /\ made[i][2] \in 1..MaxClientDelta
    BY DEF InputsFit
  <2>2. made \in Seq(Nat \X Nat)
    BY DEF Moves
  <2> QED
    BY <1>3, <2>1, <2>2, ElementOfSeq
<1>6. /\ time \in [0..count -> Nat \ {0}]
      /\ time[done] = body.simulationTime
      /\ \A i \in done + 1..count : time[i] = time[i - 1] + made[i][2]
  BY <1>1 DEF InputsFit
<1>7. \A i \in 1..q : queue[i].sequence = done + i /\ queue[i].timestamp = time[done + i]
  BY <1>1 DEF InputsFit
<1>8. \A i \in 1..m : sent[i].sequence = done + q + i /\ sent[i].timestamp = time[done + q + i]
  BY <1>1 DEF InputsFit
<1>9. PICK after : Simulates(after, body, queue, q) /\ next = after[q]
  BY <1>1, <1>2, SimulatedFold
<1>10. \A n \in 0..q :
          after[n] = IF n = 0 THEN body
                     ELSE simulatePlayerState(after[n - 1], queue[n], ServerDelta(after[n - 1], queue[n]))
  BY <1>9 DEF Simulates
<1> DEFINE Good(s, total) ==
             /\ s \in States
             /\ s.simulationTime = time[total] /\ s.lastProcessedSequence = total
             /\ Len(s.moves) = total
             /\ \A i \in 1..total : s.moves[i] = made[i]
           S == {n \in Nat : n <= q => Good(after[n], done + n)}
<1> HIDE DEF Good
<1>11. 0 \in S
  <2>1. after[0] = body /\ done + 0 = done
    BY <1>2, <1>10
  <2>2. Good(body, done)
    BY <1>1, <1>4, <1>6 DEF Good, Bodies
  <2> QED
    BY <2>1, <2>2
<1>12. ASSUME NEW n \in Nat, n \in S
       PROVE  n + 1 \in S
  <2>1. SUFFICES ASSUME n + 1 <= q
                 PROVE  Good(after[n + 1], done + (n + 1))
    OBVIOUS
  <2>2. PICK old, new : old = done + n /\ new = done + (n + 1)
    OBVIOUS
  <2>3. /\ old \in 0..count /\ new \in 1..count /\ new \in done + 1..count
        /\ new - 1 = old /\ new = old + 1
    BY <1>2, <1>3, <2>1, <2>2
  <2>4. n + 1 \in 0..q /\ n + 1 # 0 /\ n + 1 - 1 = n /\ n + 1 \in 1..q
    BY <1>2, <2>1
  <2>5. PICK s, command : s = after[n] /\ command = queue[n + 1]
    OBVIOUS
  <2>6. Good(s, old)
    BY <1>2, <1>12, <2>1, <2>2, <2>5
  <2>7. s \in States /\ s.simulationTime = time[old] /\ Len(s.moves) = old
        /\ \A i \in 1..old : s.moves[i] = made[i]
    BY <2>6 DEF Good
  <2>8. PICK dt : dt = ServerDelta(s, command)
    OBVIOUS
  <2>9. PICK before, step : before = time[old] /\ step = made[new][2]
    OBVIOUS
  <2>10. before \in Nat \ {0} /\ step \in 1..MaxClientDelta /\ time[new] = before + step
    BY <1>5, <1>6, <2>3, <2>9
  <2>11. command.sequence = new /\ command.timestamp = before + step
    BY <1>7, <2>2, <2>4, <2>5, <2>10
  <2>12. dt = step
    <3>1. MaxClientDelta \in Nat
      BY PlayerInputAssumption
    <3>2. /\ before + step \in Nat /\ before + step > before /\ before + step - before = step
          /\ step <= MaxClientDelta
      BY <2>10, <3>1
    <3>3. s.simulationTime = before /\ before \in Nat \ {0}
      BY <2>7, <2>9, <2>10
    <3>4. PICK from, to : from = s.simulationTime /\ to = command.timestamp
      OBVIOUS
    <3>5. from = before /\ to = before + step
      BY <2>11, <3>3, <3>4
    <3>6. from \in Nat /\ from # 0 /\ to \in Nat /\ to > from /\ to - from = step
          /\ to - from <= MaxClientDelta
      BY <2>10, <3>1, <3>3, <3>5
    <3>7. ServerDelta(s, command) = to - from
      BY <3>4, <3>6, DeltaTyped
    <3> QED
      BY <2>8, <3>6, <3>7
<2>13. PICK t, x : t = simulatePlayerState(s, command, dt) /\ x = <<command.sequence, dt>>
    OBVIOUS
  <2>14. after[n + 1] = t
    BY <1>10, <2>4, <2>5, <2>8, <2>13
  <2>15. dt \in Nat /\ command.sequence \in Nat
    <3>1. MaxClientDelta \in Nat
      BY PlayerInputAssumption
    <3> QED
      BY <2>3, <2>10, <2>11, <2>12, <3>1
  <2>16. /\ t \in States /\ t.simulationTime = before + dt /\ t.lastProcessedSequence = new
         /\ t.moves = Append(s.moves, x)
    <3>1. s \in States
      BY <2>7
    <3>2. /\ t \in States /\ t.simulationTime = s.simulationTime + dt
          /\ t.lastProcessedSequence = command.sequence
          /\ t.moves = Append(s.moves, <<command.sequence, dt>>)
      BY <2>13, <2>15, <3>1, SimulateStep
    <3> QED
      BY <2>7, <2>9, <2>11, <2>13, <3>2
  <2>17. x = made[new] /\ x \in Nat \X Nat
    <3>1. made[new] = <<made[new][1], made[new][2]>> /\ made[new] \in Nat \X Nat /\ made[new][1] = new
      BY <1>5, <2>3, PairIs
    <3> QED
      BY <2>9, <2>11, <2>12, <2>13, <3>1
  <2>18. s.moves \in Seq(Nat \X Nat)
    BY <2>7 DEF States, Moves
  <2>19. /\ Len(t.moves) = old + 1
         /\ \A i \in 1..old : t.moves[i] = s.moves[i]
         /\ t.moves[old + 1] = x
    BY <2>7, <2>16, <2>17, <2>18, AppendProperties
  <2>20. ASSUME NEW i \in 1..new PROVE t.moves[i] = made[i]
    <3>1. i \in 1..old \/ i = old + 1
      BY <2>3
    <3> QED
      BY <2>3, <2>7, <2>17, <2>19, <3>1
  <2>21. Good(t, new)
    BY <2>3, <2>10, <2>12, <2>16, <2>19, <2>20 DEF Good
  <2> QED
    BY <2>2, <2>14, <2>21
<1> HIDE DEF S
<1>13. \A n \in Nat : n \in S
  BY <1>11, <1>12, NatSet
<1>14. Good(next, done + q)
  BY <1>2, <1>9, <1>13 DEF S
<1>15. PICK total : total = done + q
  OBVIOUS
<1>16. /\ next.simulationTime = time[total] /\ next.lastProcessedSequence = total
       /\ Len(next.moves) = total
       /\ \A i \in 1..total : next.moves[i] = made[i]
  BY <1>14, <1>15 DEF Good
<1>17. total \in 0..count /\ total \in Nat /\ count = total + m /\ done <= total
  BY <1>2, <1>3, <1>15
<1>18. next.simulationTime # 0
  BY <1>6, <1>16, <1>17
<1>19. InputsFit(next, made, << >>, sent, pending, count, time)
  <2>1. count - Len(pending) \in 0..total
    <3>1. count - Len(pending) \in 0..done
      BY <1>1 DEF InputsFit
    <3> QED
      BY <1>2, <1>17, <3>1
  <2>2. \A i \in total + 1..count : time[i] = time[i - 1] + made[i][2]
    <3>1. \A i \in total + 1..count : i \in done + 1..count
      BY <1>2, <1>17
    <3> QED
      BY <1>6, <3>1
  <2>3. Len(<< >>) = 0 /\ count = total + 0 + m /\ 1..0 = {}
    BY <1>2, <1>17, EmptySeq
  <2>4. \A i \in 1..m : sent[i].sequence = total + 0 + i /\ sent[i].timestamp = time[total + 0 + i]
    <3>1. \A i \in 1..m : done + q + i = total + 0 + i
      BY <1>2, <1>15, <1>17
    <3> QED
      BY <1>8, <3>1
  <2>5. \A i \in 1..Len(sent) :
           /\ sent[i].sequence = Len(next.moves) + Len(<< >>) + i
           /\ sent[i].timestamp = time[Len(next.moves) + Len(<< >>) + i]
    BY <1>1, <1>16, <2>3, <2>4
  <2>6. count = Len(next.moves) + Len(<< >>) + Len(sent)
    BY <1>1, <1>16, <2>3
  <2>7. \A i \in 1..Len(<< >>) :
           << >>[i].sequence = Len(next.moves) + i /\ << >>[i].timestamp = time[Len(next.moves) + i]
    BY <2>3
  <2>8. count - Len(pending) \in 0..Len(next.moves)
    BY <1>16, <2>1
  <2>9. /\ next.lastProcessedSequence = Len(next.moves)
        /\ \A i \in 1..Len(next.moves) : next.moves[i] = made[i]
        /\ time[Len(next.moves)] = next.simulationTime
        /\ \A i \in Len(next.moves) + 1..count : time[i] = time[i - 1] + made[i][2]
    BY <1>16, <2>2
  <2> QED
    BY <2>5, <2>6, <2>7, <2>8, <2>9 DEF InputsFit
<1> QED
  BY <1>1, <1>15, <1>16, <1>18, <1>19

\* Corrections stay right when the client predicts more.
LEMMA CorrectionsFrame ==
    ASSUME NEW messages, NEW old \in Nat, NEW done \in Nat, NEW made \in Moves, done <= Len(made),
           CorrectionsFit(messages, old, done, made), NEW move \in Nat \X Nat
    PROVE  CorrectionsFit(messages, old, done, Append(made, move))
<1>1. PICK made2 : made2 = Append(made, move)
  OBVIOUS
<1>2. Len(made) \in Nat /\ \A i \in 1..Len(made) : made2[i] = made[i]
  <2>1. made \in Seq(Nat \X Nat)
    BY DEF Moves
  <2> QED
    BY <1>1, <2>1, AppendProperties, LenProperties
<1>3. \A i \in 1..done : made2[i] = made[i]
  <2>1. \A i \in 1..done : i \in 1..Len(made)
    BY <1>2
  <2> QED
    BY <1>2, <2>1
<1>4. ASSUME NEW message, CorrectionFits(message, old, done, made)
      PROVE  CorrectionFits(message, old, done, made2)
  <2>1. PICK k, moves : k = message.body.lastProcessedSequence /\ moves = message.body.state.moves
    OBVIOUS
  <2>2. k = Len(moves) /\ k \in old..done /\ \A i \in 1..Len(moves) : moves[i] = made[i]
    BY <1>4, <2>1 DEF CorrectionFits
  <2>3. \A i \in 1..Len(moves) : i \in 1..done
    BY <2>2
  <2>4. \A i \in 1..Len(moves) : moves[i] = made2[i]
    BY <1>3, <2>2, <2>3
  <2> QED
    BY <1>4, <2>1, <2>4 DEF CorrectionFits
<1>5. CorrectionsFit(messages, old, done, made2)
  BY <1>4 DEF CorrectionsFit
<1> QED
  BY <1>1, <1>5

\* The server adds the correction of its newest state.
LEMMA CorrectionsSent ==
    ASSUME NEW messages \in Seq(Messages), NEW old \in Nat, NEW done \in Nat, NEW made,
           CorrectionsFit(messages, old, done, made),
           NEW next \in Bodies, NEW now \in Nat, now = Len(next.moves), old <= done, done <= now,
           next.lastProcessedSequence = now, \A i \in 1..now : next.moves[i] = made[i],
           NEW message \in Messages, message = Correction(next)
    PROVE  CorrectionsFit(Append(messages, message), old, now, made)
<1>1. PICK n, messages2 : n = Len(messages) /\ messages2 = Append(messages, message)
  OBVIOUS
<1>2. /\ n \in Nat /\ Len(messages2) = n + 1 /\ messages2[n + 1] = message
      /\ \A i \in 1..n : messages2[i] = messages[i]
  BY <1>1, AppendProperties, LenProperties
<1>3. CorrectionFits(message, old, now, made)
  <2>1. /\ message.kind = "correction" /\ message.body.lastProcessedSequence = now
        /\ message.body.state = next
    BY DEF Correction, PlayerCorrection
  <2>2. now \in old..now
    OBVIOUS
  <2> QED
    BY <2>1, <2>2 DEF CorrectionFits
<1>4. ASSUME NEW i \in 1..n PROVE CorrectionFits(messages[i], old, now, made)
  <2>1. CorrectionFits(messages[i], old, done, made)
    BY <1>1 DEF CorrectionsFit
  <2>2. messages[i].body.lastProcessedSequence \in old..done
    BY <2>1 DEF CorrectionFits
  <2>3. messages[i].body.lastProcessedSequence \in old..now
    BY <2>2
  <2> QED
    BY <2>1, <2>3 DEF CorrectionFits
<1>5. \A i \in 1..n + 1 : CorrectionFits(messages2[i], old, now, made)
  <2>1. \A i \in 1..n + 1 : i \in 1..n \/ i = n + 1
    BY <1>2
  <2> QED
    BY <1>2, <1>3, <1>4, <2>1
<1>6. ASSUME NEW i \in 1..n + 1, NEW j \in 1..n + 1, i < j
      PROVE  messages2[i].body.lastProcessedSequence <= messages2[j].body.lastProcessedSequence
  <2>1. i \in 1..n
    BY <1>2, <1>6
  <2>2. CASE j = n + 1
    <3>1. messages2[j].body.lastProcessedSequence = now
      BY <1>2, <2>2 DEF Correction, PlayerCorrection
    <3>2. messages2[i].body.lastProcessedSequence \in old..now
      BY <1>2, <1>4, <2>1 DEF CorrectionFits
    <3> QED
      BY <3>1, <3>2
  <2>3. CASE j # n + 1
    <3>1. j \in 1..n
      BY <1>2, <2>3
    <3>2. messages[i].body.lastProcessedSequence <= messages[j].body.lastProcessedSequence
      BY <1>1, <1>6, <2>1, <3>1 DEF CorrectionsFit
    <3> QED
      BY <1>2, <2>1, <3>1, <3>2
  <2> QED
    BY <2>2, <2>3
<1>7. CorrectionsFit(messages2, old, now, made)
  BY <1>2, <1>5, <1>6 DEF CorrectionsFit
<1> QED
  BY <1>1, <1>7

\* The corrections behind the first are no older than it.
LEMMA CorrectionsTaken ==
    ASSUME NEW messages \in Seq(Messages), messages # << >>, NEW old \in Nat, NEW done \in Nat, NEW made,
           CorrectionsFit(messages, old, done, made),
           NEW k \in Nat, k = Head(messages).body.lastProcessedSequence
    PROVE  CorrectionsFit(Tail(messages), k, done, made)
<1>1. PICK n, rest : n = Len(messages) /\ rest = Tail(messages)
  OBVIOUS
<1>2. /\ n \in Nat \ {0} /\ Len(rest) = n - 1 /\ Head(messages) = messages[1]
      /\ \A i \in 1..n - 1 : rest[i] = messages[i + 1]
  <2>1. Len(rest) = n - 1 /\ Head(messages) = messages[1] /\ \A i \in 1..n - 1 : rest[i] = messages[i + 1]
    BY <1>1, HeadTailProperties
  <2> QED
    BY <1>1, <2>1, EmptySeq, LenProperties
<1>3. /\ \A i \in 1..n : CorrectionFits(messages[i], old, done, made)
      /\ \A i, j \in 1..n :
            i < j => messages[i].body.lastProcessedSequence <= messages[j].body.lastProcessedSequence
  BY <1>1 DEF CorrectionsFit
<1>4. ASSUME NEW i \in 1..n - 1 PROVE CorrectionFits(rest[i], k, done, made)
  <2>1. i + 1 \in 1..n /\ 1 \in 1..n /\ 1 < i + 1 /\ rest[i] = messages[i + 1]
    BY <1>2
  <2>2. PICK message : message = messages[i + 1]
    OBVIOUS
  <2>3. CorrectionFits(message, old, done, made)
    BY <1>3, <2>1, <2>2
  <2>4. message.body.lastProcessedSequence \in old..done
    BY <2>3 DEF CorrectionFits
  <2>5. k <= message.body.lastProcessedSequence
    BY <1>2, <1>3, <2>1, <2>2
  <2>6. message.body.lastProcessedSequence \in k..done
    BY <2>4, <2>5
  <2> QED
    BY <2>1, <2>2, <2>3, <2>6 DEF CorrectionFits
<1>5. ASSUME NEW i \in 1..n - 1, NEW j \in 1..n - 1, i < j
      PROVE  rest[i].body.lastProcessedSequence <= rest[j].body.lastProcessedSequence
  <2>1. i + 1 \in 1..n /\ j + 1 \in 1..n /\ i + 1 < j + 1
    BY <1>2, <1>5
  <2> QED
    BY <1>2, <1>3, <2>1
<1>6. CorrectionsFit(rest, k, done, made)
  BY <1>2, <1>4, <1>5 DEF CorrectionsFit
<1> QED
  BY <1>1, <1>6

\* Nothing of a queue whose sequences increase is missing from its own end part
\* that has them all.
LEMMA NoneLost ==
    ASSUME NEW queue \in Seq(Buffered), Ordered(queue), NEW rest, NEW d \in 0..Len(queue),
           NEW extra \in Nat, Sequences(queue) \ Sequences(rest) = {},
           DOMAIN rest = 1..Len(queue) - d + extra,
           \A i \in 1..Len(queue) - d : rest[i] = queue[i + d],
           \A i \in Len(queue) - d + 1..Len(queue) - d + extra :
              Len(queue) > 0 => rest[i].sequence > queue[Len(queue)].sequence
    PROVE  d = 0
<1>1. SUFFICES ASSUME d # 0 PROVE FALSE
  OBVIOUS
<1>2. PICK q : q = Len(queue)
  OBVIOUS
<1>3. q \in Nat \ {0} /\ d \in 1..q /\ DOMAIN queue = 1..q
  BY <1>1, <1>2, DomainLen
<1>4. \A i \in 1..q : queue[i].sequence \in Nat
  <2>1. \A i \in 1..q : queue[i] \in Buffered
    BY <1>2, ElementOfSeq
  <2> QED
    BY <2>1 DEF Buffered
<1>5. \A i, j \in 1..q : i < j => queue[i].sequence < queue[j].sequence
  BY <1>2 DEF Ordered
<1>6. queue[1].sequence \in Sequences(queue)
  <2>1. 1 \in DOMAIN queue
    BY <1>3
  <2> QED
    BY <2>1 DEF Sequences
<1>7. PICK i \in 1..q - d + extra : queue[1].sequence = rest[i].sequence
  <2>1. queue[1].sequence \in Sequences(rest)
    BY <1>6
  <2>2. DOMAIN rest = 1..q - d + extra
    BY <1>2
  <2> QED
    BY <2>1, <2>2 DEF Sequences
<1>8. CASE i \in 1..q - d
  <2>1. i + d \in 1..q /\ 1 < i + d /\ 1 \in 1..q
    BY <1>3, <1>8
  <2>2. rest[i] = queue[i + d]
    BY <1>2, <1>8
  <2>3. queue[1].sequence < queue[i + d].sequence /\ queue[1].sequence \in Nat
    BY <1>4, <1>5, <2>1
  <2> QED
    BY <1>7, <2>2, <2>3
<1>9. CASE i \notin 1..q - d
  <2>1. i \in q - d + 1..q - d + extra /\ q > 0 /\ 1 \in 1..q /\ q \in 1..q /\ (1 = q \/ 1 < q)
    BY <1>3, <1>7, <1>9
  <2>2. rest[i].sequence > queue[q].sequence
    BY <1>2, <2>1
  <2>3. queue[1].sequence = queue[q].sequence \/ queue[1].sequence < queue[q].sequence
    BY <1>5, <2>1
  <2>4. queue[1].sequence \in Nat /\ queue[q].sequence \in Nat
    BY <1>4, <2>1
  <2> QED
    BY <1>7, <2>2, <2>3, <2>4
<1> QED
  BY <1>8, <1>9

LEMMA SteadyUntouched ==
    ASSUME NEW d \in Clients, SteadyFits(d), Untouched(d),
           lastFrame'[d] = lastFrame[d], steady'[d] => steady[d]
    PROVE  SteadyFits(d)'
<1>1. SUFFICES ASSUME d \in honest, d \in DOMAIN players, steady[d]
               PROVE  SteadyFits(d)'
  BY DEF SteadyFits, Untouched
<1>2. CASE predicted[d].actorId = 0
  BY <1>1, <1>2 DEF SteadyFits, Untouched
<1>3. CASE predicted[d].actorId # 0
  <2>1. PICK time : /\ InputsFit(players[d], predicted[d].moves, queues[d], uplink[d],
                                 history[d], issued[d], time)
                    /\ time[issued[d]] = lastFrame[d]
    BY <1>1, <1>3 DEF SteadyFits
  <2>2. CorrectionsFit(downlink[d], issued[d] - Len(history[d]), Len(players[d].moves),
                       predicted[d].moves)
    BY <1>1, <1>3 DEF SteadyFits
  <2>3. players[d].simulationTime # 0
    BY <1>1 DEF SteadyFits
  <2> QED
    BY <1>1, <1>3, <2>1, <2>2, <2>3 DEF SteadyFits, Untouched
<1> QED
  BY <1>2, <1>3

\* A client's inputs begin with its body: none has been made.
LEMMA InputsInit ==
    ASSUME NEW body \in Bodies, body.moves = << >>, body.lastProcessedSequence = 0,
           body.simulationTime # 0
    PROVE  \E time : /\ InputsFit(body, << >>, << >>, << >>, << >>, 0, time)
                     /\ time[0] = body.simulationTime
<1>1. PICK time : time = [i \in 0..0 |-> body.simulationTime]
  OBVIOUS
<1>2. body.simulationTime \in Nat \ {0}
  BY DEF Bodies, States
<1>3. time \in [0..0 -> Nat \ {0}] /\ time[0] = body.simulationTime
  BY <1>1, <1>2
<1>4. Len(<< >>) = 0 /\ 1..0 = {} /\ 0 + 1..0 = {} /\ 0 - 0 = 0 /\ 0 \in 0..0 /\ 0 = 0 + 0 + 0
  BY EmptySeq
<1>5. InputsFit(body, << >>, << >>, << >>, << >>, 0, time)
  BY <1>3, <1>4 DEF InputsFit
<1> QED
  BY <1>3, <1>5

LEMMA SteadySpawn ==
    ASSUME SInv, NEW c \in Clients, Spawn(c)
    PROVE  \A d \in Clients : SteadyFits(d)'
<1>1. PICK actorId : actorId = IF c \in DOMAIN players THEN players[c].actorId + 1 ELSE 1
  OBVIOUS
<1>2. PICK time \in {0, clock} :
         /\ registerPlayer(c, PlayerState(actorId, time))
         /\ downlink' = IF c \in honest
                        THEN Sent(downlink, c, Spawned(PlayerState(actorId, time)))
                        ELSE downlink
         /\ steady' = [steady EXCEPT ![c] = time # 0 /\ actorId = 1 /\ c \in honest]
  BY <1>1 DEF Spawn
<1>3. UNCHANGED <<queues, suspicion, limiters, clock, honest, predicted, history, uplink, issued,
                  lastFrame, lost>>
  BY <1>2 DEF Spawn, registerPlayer
<1>4. PICK body : body = PlayerState(actorId, time)
  OBVIOUS
<1>5. /\ DOMAIN players' = DOMAIN players \cup {c} /\ players'[c] = body
      /\ \A d \in DOMAIN players : d # c => players'[d] = players[d]
  BY <1>2, <1>4 DEF registerPlayer
<1>6. Typed /\ \A d \in Clients : ClientFits(d) /\ SteadyFits(d)
  BY DEF SInv, IInv
<1>7. /\ \A d \in Clients : d # c => downlink'[d] = downlink[d] /\ steady'[d] = steady[d]
      /\ c \in honest => downlink'[c] = Append(downlink[c], Spawned(body))
      /\ steady'[c] => time # 0 /\ actorId = 1 /\ c \in honest
  BY <1>2, <1>4, <1>6 DEF Typed, Sent
<1>8. ASSUME NEW d \in Clients, d # c PROVE SteadyFits(d)'
  <2>1. Untouched(d)
    BY <1>3, <1>5, <1>7, <1>8 DEF Untouched
  <2> QED
    BY <1>3, <1>6, <1>7, <1>8, <2>1, SteadyUntouched
<1>9. SteadyFits(c)'
  <2>1. SUFFICES ASSUME c \in honest, steady'[c]
                 PROVE  SteadyFits(c)'
    BY <1>3 DEF SteadyFits
  <2>2. c \notin DOMAIN players
    <3>1. c \in DOMAIN players => players[c].actorId \in Nat \ {0}
      BY <1>6 DEF Typed, Bodies, States
    <3> QED
      BY <1>1, <1>7, <2>1, <3>1
  <2>3. /\ predicted[c].actorId = 0 /\ issued[c] = 0 /\ uplink[c] = << >> /\ queues[c] = << >>
        /\ history[c] = << >> /\ downlink[c] = << >>
    BY <1>6, <2>2 DEF ClientFits, NewcomerFits
  <2>4. downlink'[c] = <<Spawned(body)>>
    <3>1. PICK message : message = Spawned(body)
      OBVIOUS
    <3>2. downlink'[c] = Append(<< >>, message)
      BY <1>7, <2>1, <2>3, <3>1
    <3> QED
      BY <3>1, <3>2
  <2>5. body.simulationTime # 0 /\ body.moves = << >> /\ body.lastProcessedSequence = 0
    BY <1>4, <1>7, <2>1 DEF PlayerState
  <2> QED
    BY <1>3, <1>5, <2>3, <2>4, <2>5 DEF SteadyFits
<1> QED
  BY <1>8, <1>9

LEMMA SteadyFrame ==
    ASSUME SInv, NEW c \in Clients, Frame(c)
    PROVE  \A d \in Clients : SteadyFits(d)'
<1>1. PICK command, dt :
         /\ command = InputCmd(issued[c] + 1, clock, "none")
         /\ dt = clock - lastFrame[c]
  OBVIOUS
<1>2. /\ predicted[c].actorId # 0 /\ dt > 0
      /\ Client!predict(c, command, dt)
      /\ uplink' = Sent(uplink, c, command)
      /\ issued' = [issued EXCEPT ![c] = @ + 1]
      /\ lastFrame' = [lastFrame EXCEPT ![c] = clock]
      /\ steady' = [steady EXCEPT ![c] = @ /\ dt <= MaxClientDelta]
  BY <1>1 DEF Frame
<1>3. UNCHANGED <<players, queues, suspicion, limiters, clock, honest, downlink, lost>>
  BY DEF Frame, vars
<1>4. Typed /\ \A d \in Clients : ClientFits(d) /\ SteadyFits(d)
  BY DEF SInv, IInv
<1>5. \A d \in Clients :
         d # c => /\ predicted'[d] = predicted[d] /\ history'[d] = history[d]
                  /\ uplink'[d] = uplink[d] /\ issued'[d] = issued[d]
                  /\ lastFrame'[d] = lastFrame[d] /\ steady'[d] = steady[d]
  BY <1>2, <1>4 DEF Typed, Sent, Client!predict
<1>6. ASSUME NEW d \in Clients, d # c PROVE SteadyFits(d)'
  <2>1. Untouched(d)
    BY <1>3, <1>5, <1>6 DEF Untouched
  <2> QED
    BY <1>4, <1>5, <1>6, <2>1, SteadyUntouched
<1>7. SteadyFits(c)'
  <2>1. SUFFICES ASSUME c \in honest, c \in DOMAIN players, steady'[c]
                 PROVE  SteadyFits(c)'
    BY <1>3 DEF SteadyFits
  <2>2. PICK body, made, queue, sent, pending, count, messages, old, done :
           /\ body = players[c] /\ made = predicted[c].moves /\ queue = queues[c] /\ sent = uplink[c]
           /\ pending = history[c] /\ count = issued[c] /\ messages = downlink[c]
           /\ old = count - Len(pending) /\ done = Len(body.moves)
    OBVIOUS
  <2>3. steady[c] /\ dt <= MaxClientDelta
    BY <1>2, <1>4, <2>1 DEF Typed
  <2>4. PICK time : InputsFit(body, made, queue, sent, pending, count, time) /\ time[count] = lastFrame[c]
    BY <1>2, <1>4, <2>1, <2>2, <2>3 DEF SteadyFits
  <2>5. CorrectionsFit(messages, old, done, made) /\ body.simulationTime # 0
    BY <1>2, <1>4, <2>1, <2>2, <2>3 DEF SteadyFits
  <2>6. predicted[c] \in States
    BY <1>4 DEF Typed
  <2>7. /\ body \in Bodies /\ made \in Moves /\ queue \in Seq(Buffered) /\ sent \in Seq(Commands)
        /\ pending \in Seq(Predictions) /\ count \in Nat
    BY <1>4, <2>1, <2>2, <2>6 DEF Typed, States
  <2>8. lastFrame[c] \in Nat /\ clock \in Nat \ {0}
    BY <1>4 DEF Typed
  <2>9. dt \in 1..MaxClientDelta /\ dt \in Nat /\ clock = time[count] + dt
    <3>1. MaxClientDelta \in Nat
      BY PlayerInputAssumption
    <3> QED
      BY <1>1, <1>2, <2>3, <2>4, <2>8, <3>1
  <2>10. PICK move, item : move = <<count + 1, dt>> /\ item = [command |-> command, dt |-> dt]
    OBVIOUS
  <2>11. /\ command \in Commands /\ command.sequence = count + 1 /\ command.timestamp = clock
         /\ item \in Predictions /\ item.command = command /\ item.dt = dt
         /\ move \in Nat \X Nat /\ move[1] = count + 1 /\ move[2] = dt
    <3>1. /\ command = [sequence |-> count + 1, timestamp |-> clock, fault |-> "none"]
          /\ count + 1 \in Nat /\ clock \in Nat
      BY <1>1, <2>2, <2>7, <2>8 DEF InputCmd
    <3>2. command \in Commands /\ command.sequence = count + 1 /\ command.timestamp = clock
      BY <3>1 DEF Commands, Faults
    <3>3. item \in Predictions /\ item.command = command /\ item.dt = dt
      BY <2>9, <2>10, <3>2 DEF Predictions
    <3>4. move \in Nat \X Nat /\ move[1] = count + 1 /\ move[2] = dt
      BY <2>9, <2>10, <3>1
    <3> QED
      BY <3>2, <3>3, <3>4
  <2>12. \E more : /\ InputsFit(body, Append(made, move), queue, Append(sent, command),
                                Append(pending, item), count + 1, more)
                   /\ more[count + 1] = command.timestamp
    <3>1. PICK num \in Nat : num = count
      BY <2>7, Zenon
    <3>2. PICK step \in Nat : step = dt
      BY <2>9, Zenon
    <3>3. command.timestamp = time[num] + step /\ step \in 1..MaxClientDelta
      BY <2>9, <2>11, <3>1, <3>2
    <3>4. InputsFit(body, made, queue, sent, pending, num, time)
      BY <2>4, <3>1
    <3>5. /\ command \in Commands /\ command.sequence = num + 1
          /\ item \in Predictions /\ item.command = command /\ item.dt = step
          /\ move \in Nat \X Nat /\ move[1] = num + 1 /\ move[2] = step
      BY <2>11, <3>1, <3>2
    <3>6. \E more : /\ InputsFit(body, Append(made, move), queue, Append(sent, command),
                                 Append(pending, item), num + 1, more)
                    /\ more[num + 1] = command.timestamp
      BY SMTT(30), <2>7, <3>1, <3>2, <3>3, <3>4, <3>5, InputsFrame
    <3> QED
      BY <3>1, <3>6
  <2>13. /\ uplink'[c] = Append(sent, command) /\ history'[c] = Append(pending, item)
         /\ issued'[c] = count + 1 /\ lastFrame'[c] = clock
    BY <1>2, <1>4, <2>2, <2>10 DEF Typed, Sent, Client!predict
  <2>14. predicted'[c].moves = Append(made, move) /\ predicted'[c].actorId # 0
    <3>1. PICK s, t, x : /\ s = predicted[c] /\ t = simulatePlayerState(s, command, dt)
                         /\ x = <<command.sequence, dt>>
      OBVIOUS
    <3>2. predicted'[c] = t
      BY <1>2, <1>4, <3>1, SameRules DEF Typed, Client!predict
    <3>3. t.moves = Append(s.moves, x) /\ t.actorId = s.actorId
      <4>1. dt \in Nat /\ command.sequence \in Nat /\ s \in States
        BY <2>6, <2>7, <2>9, <2>11, <3>1
      <4>2. t.actorId = s.actorId
        BY <3>1, <4>1, SimulateStep
      <4>3. t.moves = Append(s.moves, x)
        BY <3>1, <4>1, SimulateStep
      <4> QED
        BY <4>2, <4>3
    <3>4. x = move
      BY <2>10, <2>11, <3>1
    <3> QED
      BY <1>2, <2>2, <3>1, <3>2, <3>3, <3>4
  <2>15. old \in 0..done /\ done \in Nat /\ done <= Len(made)
    <3>1. old \in 0..done /\ count = done + Len(queue) + Len(sent) /\ Len(made) = count
      BY <2>2, <2>4 DEF InputsFit
    <3>2. body.moves \in Seq(Nat \X Nat)
      BY <2>7 DEF Bodies, States, Moves
    <3>3. Len(queue) \in Nat /\ Len(sent) \in Nat /\ done \in Nat
      BY <2>2, <2>7, <3>2, LenProperties
    <3> QED
      BY <3>1, <3>3
  <2>16. CorrectionsFit(messages, old, done, Append(made, move))
    BY <2>5, <2>7, <2>11, <2>15, CorrectionsFrame
  <2>17. (count + 1) - Len(Append(pending, item)) = old
    <3>1. Len(Append(pending, item)) = Len(pending) + 1 /\ Len(pending) \in Nat
      BY <2>7, <2>11, AppendProperties, LenProperties
    <3>2. PICK n, n2 : n = Len(pending) /\ n2 = Len(Append(pending, item))
      OBVIOUS
    <3>3. old = count - n /\ n2 = n + 1 /\ n \in Nat /\ count \in Nat
      BY <2>2, <2>7, <3>1, <3>2
    <3>4. (count + 1) - n2 = old
      BY <3>3
    <3> QED
      BY <3>2, <3>4
  <2> QED
    <3>1. UNCHANGED <<players, queues, downlink>>
      BY <1>3
    <3>2. \E more : /\ InputsFit(players'[c], predicted'[c].moves, queues'[c], uplink'[c],
                                 history'[c], issued'[c], more)
                    /\ more[issued'[c]] = lastFrame'[c]
      BY <2>2, <2>11, <2>12, <2>13, <2>14, <3>1
    <3>3. CorrectionsFit(downlink'[c], issued'[c] - Len(history'[c]), Len(players'[c].moves),
                         predicted'[c].moves)
      <4>1. /\ downlink'[c] = messages /\ issued'[c] - Len(history'[c]) = old
            /\ Len(players'[c].moves) = done /\ predicted'[c].moves = Append(made, move)
        <5>1. issued'[c] - Len(history'[c]) = old
          BY <2>13, <2>17
        <5>2. downlink'[c] = messages /\ players'[c] = body
          BY <2>2, <3>1
        <5>3. Len(players'[c].moves) = done
          BY <2>2, <5>2
        <5> QED
          BY <2>14, <5>1, <5>2, <5>3
      <4> QED
        BY <2>16, <4>1
    <3>4. players'[c].simulationTime # 0
      BY <2>2, <2>5, <3>1
    <3> QED
      BY <2>14, <3>2, <3>3, <3>4 DEF SteadyFits
<1> QED
  BY <1>6, <1>7

\* Delivering an input to a steady client's queue loses none of it.
LEMMA PushKeeps ==
    ASSUME NEW queue \in Seq(Buffered), Ordered(queue), NEW command \in Commands, clock \in Nat,
           Pushable(queue, command),
           Sequences(queue) \ Sequences(push(queue, command)) = {}
    PROVE  \E item \in Buffered : /\ item.sequence = command.sequence
                                  /\ item.timestamp = command.timestamp
                                  /\ push(queue, command) = Append(queue, item)
<1>1. PICK rest, item : /\ rest = push(queue, command)
                        /\ item = [sequence |-> command.sequence, timestamp |-> command.timestamp,
                                   received |-> clock]
  OBVIOUS
<1>2. item \in Buffered /\ item.sequence = command.sequence /\ item.timestamp = command.timestamp
  BY <1>1 DEF Buffered, Commands
<1>3. PICK d \in 0..Len(queue) :
         /\ rest \in Seq(Buffered) /\ Len(rest) = Len(queue) - d + 1
         /\ \A i \in 1..Len(queue) - d : rest[i] = queue[i + d]
         /\ rest[Len(queue) - d + 1] = item
  <2>1. command.sequence \in Nat /\ command.timestamp \in Nat
    BY DEF Commands
  <2> QED
    BY <1>1, <2>1, PushDrops
<1>4. PICK q : q = Len(queue)
  OBVIOUS
<1>5. q \in Nat /\ DOMAIN queue = 1..q /\ DOMAIN rest = 1..q - d + 1 /\ d \in 0..q
  BY <1>3, <1>4, DomainLen
<1>6. q > 0 => item.sequence > queue[q].sequence
  <2>1. q > 0 => queue # << >> /\ Last(queue) = queue[q]
    BY <1>4, EmptySeq DEF Last
  <2> QED
    BY <1>2, <2>1 DEF Pushable
<1>7. d = 0
  <2>1. Sequences(queue) \ Sequences(rest) = {}
    BY <1>1
  <2>2. DOMAIN rest = 1..Len(queue) - d + 1
    BY <1>4, <1>5
  <2>3. \A i \in Len(queue) - d + 1..Len(queue) - d + 1 :
           Len(queue) > 0 => rest[i].sequence > queue[Len(queue)].sequence
    <3>1. \A i \in Len(queue) - d + 1..Len(queue) - d + 1 : i = Len(queue) - d + 1
      BY <1>4, <1>5
    <3> QED
      BY <1>3, <1>4, <1>6, <3>1
  <2> QED
    BY <1>3, <2>1, <2>2, <2>3, NoneLost
<1>8. PICK grown : grown = Append(queue, item)
  OBVIOUS
<1>9. /\ grown \in Seq(Buffered) /\ Len(grown) = q + 1 /\ grown[q + 1] = item
      /\ \A i \in 1..q : grown[i] = queue[i]
  BY <1>2, <1>4, <1>8, AppendProperties
<1>10. Len(rest) = q + 1 /\ rest[q + 1] = item /\ \A i \in 1..q : rest[i] = queue[i]
  <2>1. Len(rest) = q - d + 1 /\ \A i \in 1..q - d : rest[i] = queue[i + d]
    BY <1>3, <1>4
  <2>2. rest[q - d + 1] = item
    BY <1>3, <1>4
  <2>3. q - d + 1 = q + 1 /\ q - d = q
    BY <1>5, <1>7
  <2>4. \A i \in 1..q : rest[i] = queue[i + d] /\ i + d = i
    BY <1>7, <2>1, <2>3
  <2> QED
    BY <2>1, <2>2, <2>3, <2>4
<1>11. rest = grown
  <2>1. \A i \in 1..q + 1 : i \in 1..q \/ i = q + 1
    BY <1>5
  <2>2. \A i \in 1..q + 1 : rest[i] = grown[i]
    BY <1>9, <1>10, <2>1
  <2>3. Len(rest) = Len(grown) /\ \A i \in 1..Len(rest) : rest[i] = grown[i]
    BY <1>9, <1>10, <2>2
  <2> QED
    BY <1>3, <1>9, <2>3, SeqEqual
<1> QED
  BY <1>1, <1>2, <1>8, <1>11

\* Pruning that loses none of a queue leaves it as it is.
LEMMA PruneKeeps ==
    ASSUME NEW queue \in Seq(Buffered), Ordered(queue),
           Sequences(queue) \ Sequences(prune(queue)) = {}
    PROVE  prune(queue) = queue
<1>1. PICK rest : rest = prune(queue)
  OBVIOUS
<1>2. PICK d \in 0..Len(queue) :
         /\ rest \in Seq(Buffered) /\ Len(rest) = Len(queue) - d
         /\ \A i \in 1..Len(queue) - d : rest[i] = queue[i + d]
  BY <1>1, PruneDrops
<1>3. PICK q : q = Len(queue)
  OBVIOUS
<1>4. q \in Nat /\ DOMAIN queue = 1..q /\ DOMAIN rest = 1..q - d /\ d \in 0..q
  BY <1>2, <1>3, DomainLen
<1>5. d = 0
  <2>1. Sequences(queue) \ Sequences(rest) = {}
    BY <1>1
  <2>2. DOMAIN rest = 1..Len(queue) - d + 0
    BY <1>3, <1>4
  <2>3. \A i \in Len(queue) - d + 1..Len(queue) - d + 0 :
           Len(queue) > 0 => rest[i].sequence > queue[Len(queue)].sequence
    BY <1>3, <1>4
  <2> QED
    BY <1>2, <2>1, <2>2, <2>3, NoneLost
<1>6. Len(rest) = q /\ \A i \in 1..q : rest[i] = queue[i]
  <2>1. Len(rest) = q - d /\ \A i \in 1..q - d : rest[i] = queue[i + d]
    BY <1>2, <1>3
  <2>2. q - d = q
    BY <1>4, <1>5
  <2>3. \A i \in 1..q : i + d = i
    BY <1>5
  <2> QED
    BY <2>1, <2>2, <2>3
<1>7. rest = queue
  BY <1>2, <1>3, <1>6, SeqEqual
<1> QED
  BY <1>1, <1>7

\* All that is queued is to be replayed if none of it was, and acknowledged after.
LEMMA ReplayKeeps ==
    ASSUME NEW queue \in Seq(Buffered), Ordered(queue), NEW done \in Nat,
           \A i \in 1..Len(queue) : queue[i].sequence = done + i
    PROVE  /\ replayFrom(queue, done + 1) = queue
           /\ acknowledge(queue, done + Len(queue)) = << >>
<1>1. PICK q : q = Len(queue)
  OBVIOUS
<1>2. q \in Nat /\ \A i \in 1..q : queue[i].sequence = done + i
  BY <1>1, LenProperties
<1>3. PICK rest, left : rest = replayFrom(queue, done + 1) /\ left = acknowledge(queue, done + q)
  OBVIOUS
<1>4. PICK d \in 0..Len(queue) :
         /\ rest \in Seq(Buffered) /\ Len(rest) = Len(queue) - d
         /\ \A i \in 1..Len(queue) - d : rest[i] = queue[i + d]
         /\ \A i \in 1..d : queue[i].sequence < done + 1
  <2>1. done + 1 \in Nat
    OBVIOUS
  <2> QED
    BY <1>3, <2>1, ReplayDrops
<1>5. d = 0
  <2>1. SUFFICES ASSUME d # 0 PROVE FALSE
    OBVIOUS
  <2>2. 1 \in 1..d /\ 1 \in 1..q
    BY <1>1, <1>2, <1>4, <2>1
  <2>3. queue[1].sequence < done + 1
    BY <1>4, <2>2
  <2> QED
    BY <1>2, <2>2, <2>3
<1>6. rest = queue
  <2>1. Len(rest) = q - d /\ \A i \in 1..q - d : rest[i] = queue[i + d]
    BY <1>1, <1>4
  <2>2. q - d = q /\ \A i \in 1..q : i + d = i
    BY <1>2, <1>5
  <2>3. Len(rest) = Len(queue) /\ \A i \in 1..Len(rest) : rest[i] = queue[i]
    BY <1>1, <2>1, <2>2
  <2> QED
    BY <1>4, <2>3, SeqEqual
<1>7. PICK k \in 0..Len(queue) :
         /\ left \in Seq(Buffered) /\ Len(left) = Len(queue) - k
         /\ k < Len(queue) => queue[k + 1].sequence > done + q
  <2>1. done + q \in Nat
    BY <1>2
  <2> QED
    BY <1>3, <2>1, AcknowledgeDrops
<1>8. k = q
  <2>1. SUFFICES ASSUME k < q PROVE FALSE
    BY <1>1, <1>2, <1>7
  <2>2. k + 1 \in 1..q /\ k + 1 <= q
    BY <1>1, <1>2, <1>7, <2>1
  <2>3. queue[k + 1].sequence > done + q /\ queue[k + 1].sequence = done + (k + 1)
    BY <1>1, <1>2, <1>7, <2>1, <2>2
  <2> QED
    BY <1>2, <2>2, <2>3
<1>9. left = << >>
  <2>1. Len(left) = 0
    BY <1>1, <1>2, <1>7, <1>8
  <2> QED
    BY <1>7, <2>1, EmptySeq
<1> QED
  BY <1>1, <1>3, <1>6, <1>9

LEMMA SteadyDeliver ==
    ASSUME SInv, NEW c \in Clients, Deliver(c)
    PROVE  \A d \in Clients : SteadyFits(d)'
<1>1. PICK command : command = Head(uplink[c])
  OBVIOUS
<1>2. /\ ReceiveInput(c, command) /\ uplink[c] # << >>
      /\ UNCHANGED <<honest, predicted, history, downlink, issued, lastFrame>>
      /\ steady' = [steady EXCEPT ![c] = @ /\ lost'[c] = {}]
      /\ uplink' = [uplink EXCEPT ![c] = Tail(uplink[c])]
  BY <1>1 DEF Deliver, ReceiveInput, Taken
<1>3. Typed /\ \A d \in Clients : ClientFits(d) /\ SteadyFits(d)
  BY DEF SInv, IInv
<1>4. /\ UNCHANGED <<players, clock>>
      /\ \A d \in Clients : d # c => /\ queues'[d] = queues[d] /\ suspicion'[d] = suspicion[d]
                                     /\ limiters'[d] = limiters[d]
  BY <1>2, <1>3, ReceiveChanges
<1>5. ASSUME NEW d \in Clients, d # c PROVE SteadyFits(d)'
  <2>1. /\ steady'[d] = steady[d] /\ uplink'[d] = uplink[d] /\ lost'[d] = lost[d]
    BY <1>2, <1>3, <1>5 DEF Typed, Deliver
  <2>2. Untouched(d)
    BY <1>2, <1>4, <1>5, <2>1 DEF Untouched
  <2> QED
    BY <1>2, <1>3, <2>1, <2>2, SteadyUntouched
<1>6. SteadyFits(c)'
  <2>1. c \in honest /\ c \in DOMAIN players
    BY <1>2, <1>3 DEF ClientFits, OutsiderFits, NewcomerFits
  <2>2. SUFFICES ASSUME steady'[c]
                 PROVE  SteadyFits(c)'
    BY <1>2, <1>4, <2>1 DEF SteadyFits
  <2>3. steady[c] /\ lost'[c] = {}
    BY <1>2, <1>3, <2>2 DEF Typed
  <2>4. predicted[c].actorId # 0 /\ players[c].simulationTime # 0
    BY <1>2, <1>3, <2>1, <2>3 DEF SteadyFits
  <2>5. PICK body, made, queue, sent, pending, count :
           /\ body = players[c] /\ made = predicted[c].moves /\ queue = queues[c] /\ sent = uplink[c]
           /\ pending = history[c] /\ count = issued[c]
    OBVIOUS
  <2>6. PICK time : InputsFit(body, made, queue, sent, pending, count, time) /\ time[count] = lastFrame[c]
    BY <1>3, <2>1, <2>3, <2>4, <2>5 DEF SteadyFits
  <2>7. CorrectionsFit(downlink[c], issued[c] - Len(history[c]), Len(players[c].moves),
                       predicted[c].moves)
    BY <1>3, <2>1, <2>3, <2>4 DEF SteadyFits
  <2>8. /\ body \in Bodies /\ queue \in Seq(Buffered) /\ sent \in Seq(Commands) /\ count \in Nat
        /\ Ordered(queue) /\ clock \in Nat /\ sent # << >> /\ command = Head(sent)
    BY <1>1, <1>2, <1>3, <2>1, <2>5 DEF Typed, ClientFits, QueueFits
  <2>9. command \in Commands
    BY <2>8, HeadTailProperties
  <2>10. ReceiveBuffered(c, command) /\ Sequences(queues[c]) \ Sequences(queues'[c]) = {}
    <3>1. DOMAIN lost = Clients
      BY <1>3 DEF Typed
    <3> QED
      BY <1>1, <2>3, <3>1 DEF Deliver
  <2>11. Pushable(queue, command) /\ queues'[c] = push(queue, command)
    BY <1>3, <2>5, <2>10 DEF ReceiveBuffered, Typed
  <2>12. Sequences(queue) \ Sequences(push(queue, command)) = {}
    BY <2>5, <2>10, <2>11
  <2>13. PICK item \in Buffered : /\ item.sequence = command.sequence
                                  /\ item.timestamp = command.timestamp
                                  /\ push(queue, command) = Append(queue, item)
    BY <2>8, <2>9, <2>11, <2>12, PushKeeps
  <2>14. item.sequence = Head(sent).sequence /\ item.timestamp = Head(sent).timestamp
    BY <2>8, <2>13
  <2>15. PICK queue2, sent2 : queue2 = Append(queue, item) /\ sent2 = Tail(sent)
    OBVIOUS
  <2>16. InputsFit(body, made, queue2, sent2, pending, count, time)
    <3>1. PICK num \in Nat : num = count
      BY <2>8, Zenon
    <3>2. InputsFit(body, made, queue, sent, pending, num, time)
      BY <2>6, <3>1
    <3>3. InputsFit(body, made, queue2, sent2, pending, num, time)
      BY <2>8, <2>13, <2>14, <2>15, <3>2, InputsDeliver
    <3> QED
      BY <3>1, <3>3
  <2>17. queues'[c] = queue2 /\ uplink'[c] = sent2
    BY <1>2, <1>3, <2>5, <2>11, <2>13, <2>15 DEF Typed
  <2>18. \E more : /\ InputsFit(players'[c], predicted'[c].moves, queues'[c], uplink'[c],
                                history'[c], issued'[c], more)
                   /\ more[issued'[c]] = lastFrame'[c]
    BY <1>2, <1>4, <2>5, <2>6, <2>16, <2>17
  <2>19. CorrectionsFit(downlink'[c], issued'[c] - Len(history'[c]), Len(players'[c].moves),
                        predicted'[c].moves)
    BY <1>2, <1>4, <2>7
  <2>20. predicted'[c].actorId # 0 /\ players'[c].simulationTime # 0
    BY <1>2, <1>4, <2>4
  <2> QED
    BY <2>18, <2>19, <2>20 DEF SteadyFits
<1> QED
  BY <1>5, <1>6

LEMMA SteadyForge ==
    ASSUME SInv, NEW c \in Clients, Forge(c)
    PROVE  \A d \in Clients : SteadyFits(d)'
<1>1. /\ c \notin honest
      /\ UNCHANGED <<honest, predicted, history, uplink, downlink, issued, lastFrame, lost, steady,
                     prompt>>
  BY DEF Forge
<1>2. Typed /\ \A d \in Clients : ClientFits(d) /\ SteadyFits(d)
  BY DEF SInv, IInv
<1>3. /\ UNCHANGED <<players, clock>>
      /\ \A d \in Clients : d # c => /\ queues'[d] = queues[d] /\ suspicion'[d] = suspicion[d]
                                     /\ limiters'[d] = limiters[d]
  <2>1. CASE \E command \in Forgeries : ReceiveInput(c, command)
    BY <1>2, <2>1, ReceiveChanges
  <2>2. CASE \E shooter \in 1..MaxSpawns, verdict \in {"accepted", "refused"} :
                RefuseHit(c, shooter, verdict)
    <3>1. PICK shooter, verdict : RefuseHit(c, shooter, verdict)
      BY <2>2
    <3> QED
      BY <1>2, <3>1 DEF RefuseHit, addSuspicion, Typed
  <2> QED
    BY <2>1, <2>2 DEF Forge
<1>4. ASSUME NEW d \in Clients, d # c PROVE SteadyFits(d)'
  <2>1. Untouched(d)
    BY <1>1, <1>3, <1>4 DEF Untouched
  <2> QED
    BY <1>1, <1>2, <1>3, <2>1, SteadyUntouched
<1>5. SteadyFits(c)'
  BY <1>1, <1>2, <1>3 DEF SteadyFits
<1> QED
  BY <1>4, <1>5

LEMMA SteadyTick ==
    ASSUME SInv, ServerTick
    PROVE  \A d \in Clients : SteadyFits(d)'
<1> SUFFICES ASSUME NEW c \in Clients
             PROVE  SteadyFits(c)'
  OBVIOUS
<1>1. UNCHANGED <<suspicion, limiters, clock, honest, predicted, history, uplink, issued,
                  lastFrame, prompt>>
  BY DEF ServerTick, SimulatePending
<1>2. DOMAIN players' = DOMAIN players
  BY DEF ServerTick, SimulatePending
<1>3. /\ downlink'[c] = IF c \in honest /\ Advances(c)
                        THEN Append(downlink[c], Correction(players'[c]))
                        ELSE downlink[c]
      /\ steady'[c] = (steady[c] /\ lost'[c] = {})
      /\ c \in honest => lost'[c] = lost[c] \cup (Sequences(queues[c]) \ Sequences(prune(queues[c])))
  BY DEF ServerTick
<1>4. IInv /\ Typed /\ ClientFits(c) /\ SteadyFits(c)
  BY DEF SInv, IInv
<1>5. SUFFICES ASSUME c \in honest, c \in DOMAIN players, steady'[c]
               PROVE  SteadyFits(c)'
  BY <1>1, <1>2 DEF SteadyFits
<1>6. steady[c] /\ Sequences(queues[c]) \ Sequences(prune(queues[c])) = {}
  BY <1>3, <1>5
<1>7. CASE predicted[c].actorId = 0
  <2>1. queues[c] = << >>
    BY <1>4, <1>5, <1>6, <1>7 DEF SteadyFits
  <2>2. queues'[c] = << >> /\ ~Advances(c)
    BY <1>4, <2>1, TickServes
  <2>3. downlink'[c] = downlink[c] /\ players'[c] = players[c]
    BY <1>3, <1>4, <1>5, <2>2, TickServes
  <2> QED
    BY <1>1, <1>4, <1>5, <1>6, <1>7, <2>2, <2>3 DEF SteadyFits
<1>8. CASE predicted[c].actorId # 0
  <2>1. PICK body, made, queue, sent, pending, count, messages :
           /\ body = players[c] /\ made = predicted[c].moves /\ queue = queues[c] /\ sent = uplink[c]
           /\ pending = history[c] /\ count = issued[c] /\ messages = downlink[c]
    OBVIOUS
  <2>2. PICK old, done : old = count - Len(pending) /\ done = Len(body.moves)
    OBVIOUS
  <2>3. PICK time : InputsFit(body, made, queue, sent, pending, count, time) /\ time[count] = lastFrame[c]
    BY <1>4, <1>5, <1>6, <1>8, <2>1 DEF SteadyFits
  <2>4. CorrectionsFit(messages, old, done, made) /\ body.simulationTime # 0
    BY <1>4, <1>5, <1>6, <1>8, <2>1, <2>2 DEF SteadyFits
  <2>5. /\ body \in Bodies /\ made \in Moves /\ queue \in Seq(Buffered) /\ sent \in Seq(Commands)
        /\ count \in Nat /\ Ordered(queue) /\ messages \in Seq(Messages)
    BY <1>4, <1>5, <2>1 DEF Typed, ClientFits, QueueFits, States
  <2>6. prune(queue) = queue
    BY <1>6, <2>1, <2>5, PruneKeeps
  <2>7. /\ old \in 0..done /\ body.lastProcessedSequence = done
        /\ \A i \in 1..Len(queue) : queue[i].sequence = done + i
    BY <2>2, <2>3 DEF InputsFit
  <2>8. done \in Nat /\ Len(queue) \in Nat
    <3>1. body.moves \in Seq(Nat \X Nat)
      BY <2>5 DEF Bodies, States, Moves
    <3> QED
      BY <2>2, <2>5, <3>1, LenProperties
  <2>9. PICK first : first = done + 1
    OBVIOUS
  <2>10. replayFrom(queue, first) = queue /\ acknowledge(queue, done + Len(queue)) = << >>
    BY <2>5, <2>7, <2>8, <2>9, ReplayKeeps
  <2>11. Pending(c) = queue
    <3>1. NextSequence(done) = first
      <4>1. count = done + Len(queue) + Len(sent)
        BY <2>2, <2>3 DEF InputsFit
      <4>2. Len(sent) \in Nat /\ count \in 0..MaxInputs
        BY <1>4, <2>1, <2>5, LenProperties DEF Typed
      <4>3. done + 1 < SequenceModulus
        BY SMTT(30), <2>8, <4>1, <4>2, PlayerInputAssumption, InputSystemAssumption
      <4> QED
        BY <2>8, <2>9, <4>3, Successor
    <3> QED
      BY <2>1, <2>6, <2>7, <2>9, <2>10, <3>1 DEF Pending
  <2>12. CASE ~Advances(c)
    <3>1. players'[c] = body /\ downlink'[c] = messages
      BY <1>3, <1>4, <1>5, <2>1, <2>12, TickServes
    <3>2. queues'[c] = queue
      BY <2>1, <2>6, <2>12 DEF ServerTick, SimulatePending
    <3>3. \E more : /\ InputsFit(players'[c], predicted'[c].moves, queues'[c], uplink'[c],
                                 history'[c], issued'[c], more)
                    /\ more[issued'[c]] = lastFrame'[c]
      BY <1>1, <2>1, <2>3, <3>1, <3>2
    <3>4. CorrectionsFit(downlink'[c], issued'[c] - Len(history'[c]), Len(players'[c].moves),
                         predicted'[c].moves)
      BY <1>1, <2>1, <2>2, <2>4, <3>1
    <3>5. predicted'[c].actorId # 0 /\ players'[c].simulationTime # 0
      BY <1>1, <1>8, <2>4, <3>1
    <3> QED
      BY <3>3, <3>4, <3>5 DEF SteadyFits
  <2>13. CASE Advances(c)
    <3>1. queue # << >>
      BY <2>11, <2>13 DEF Advances
    <3>2. PICK next : next = Simulated(body, queue)
      OBVIOUS
    <3>3. players'[c] = next
      BY <1>5, <2>1, <2>11, <2>13, <3>2 DEF ServerTick, SimulatePending
    <3>4. PICK num \in Nat : num = count
      BY <2>5, Zenon
    <3>5. InputsFit(body, made, queue, sent, pending, num, time)
      BY <2>3, <3>4
    <3>6. /\ next.simulationTime # 0
          /\ Len(next.moves) = Len(body.moves) + Len(queue)
          /\ next.lastProcessedSequence = Len(next.moves)
          /\ \A i \in 1..Len(next.moves) : next.moves[i] = made[i]
          /\ InputsFit(next, made, << >>, sent, pending, num, time)
      BY <2>5, <3>1, <3>2, <3>5, InputsSimulate
    <3>7. PICK now \in Nat : now = done + Len(queue)
      BY <2>8
    <3>8. Len(next.moves) = now /\ next.lastProcessedSequence = now
      BY <2>2, <3>6, <3>7
    <3>9. queues'[c] = << >>
      <4>1. queues'[c] = acknowledge(prune(queues[c]), players'[c].lastProcessedSequence)
        BY <2>13 DEF ServerTick, SimulatePending
      <4> QED
        BY <2>1, <2>6, <2>10, <3>3, <3>7, <3>8, <4>1
    <3>10. next \in Bodies
      BY <2>5, <3>1, <3>2, SimulatedTyped
    <3>11. PICK message : message = Correction(next)
      OBVIOUS
    <3>12. message \in Messages
      BY <3>10, <3>11 DEF Correction, PlayerCorrection, Messages, Bodies, States
    <3>13. downlink'[c] = Append(messages, message)
      BY <1>3, <1>5, <2>1, <2>13, <3>3, <3>11
    <3>14. CorrectionsFit(Append(messages, message), old, now, made)
      <4>1. PICK from \in Nat : from = old
        <5>1. old \in Nat
          BY <2>7
        <5> QED
          BY <5>1, Zenon
      <4>2. PICK till \in Nat : till = done
        BY <2>8, Zenon
      <4>3. from <= till /\ till <= now
        BY <2>7, <2>8, <3>7, <4>1, <4>2
      <4>4. CorrectionsFit(messages, from, till, made)
        BY <2>4, <4>1, <4>2
      <4>5. /\ now = Len(next.moves) /\ next.lastProcessedSequence = now
            /\ \A i \in 1..now : next.moves[i] = made[i]
        BY <3>6, <3>8
      <4>6. CorrectionsFit(Append(messages, message), from, now, made)
        BY <2>5, <3>10, <3>11, <3>12, <4>3, <4>4, <4>5, CorrectionsSent
      <4> QED
        BY <4>1, <4>6
    <3>15. \E more : /\ InputsFit(players'[c], predicted'[c].moves, queues'[c], uplink'[c],
                                  history'[c], issued'[c], more)
                     /\ more[issued'[c]] = lastFrame'[c]
      BY <1>1, <2>1, <2>3, <3>3, <3>4, <3>6, <3>9
    <3>16. CorrectionsFit(downlink'[c], issued'[c] - Len(history'[c]), Len(players'[c].moves),
                          predicted'[c].moves)
      BY <1>1, <2>1, <2>2, <3>3, <3>8, <3>13, <3>14
    <3>17. predicted'[c].actorId # 0 /\ players'[c].simulationTime # 0
      BY <1>1, <1>8, <3>3, <3>6
    <3> QED
      BY <3>15, <3>16, <3>17 DEF SteadyFits
  <2> QED
    BY <2>12, <2>13
<1> QED
  BY <1>7, <1>8

LEMMA SteadyCorrect ==
    ASSUME SInv, NEW c \in Clients, Correct(c)
    PROVE  \A d \in Clients : SteadyFits(d)'
<1>1. PICK message : message = Head(downlink[c])
  OBVIOUS
<1>2. /\ downlink[c] # << >> /\ downlink' = [downlink EXCEPT ![c] = Tail(downlink[c])]
      /\ UNCHANGED <<players, queues, suspicion, limiters, clock, honest, uplink, issued, lost,
                     steady, prompt>>
  BY DEF Correct, Taken, vars
<1>3. \/ /\ message.kind = "correction"
         /\ Client!reconcile(c, message.body)
         /\ UNCHANGED lastFrame
      \/ /\ message.kind = "spawn"
         /\ Client!reset(c, message.body)
         /\ lastFrame' = [lastFrame EXCEPT ![c] = IF message.body.simulationTime = 0
                                                  THEN clock
                                                  ELSE message.body.simulationTime]
  BY <1>1 DEF Correct
<1>4. Typed /\ \A d \in Clients : ClientFits(d) /\ SteadyFits(d)
  BY DEF SInv, IInv
<1>5. ASSUME NEW d \in Clients, d # c PROVE SteadyFits(d)'
  <2>1. /\ lastFrame'[d] = lastFrame[d] /\ downlink'[d] = downlink[d]
        /\ predicted'[d] = predicted[d] /\ history'[d] = history[d]
    BY <1>2, <1>3, <1>4, <1>5 DEF Typed, Client!reconcile, Client!reset
  <2>2. Untouched(d)
    BY <1>2, <2>1 DEF Untouched
  <2> QED
    BY <1>2, <1>4, <2>1, <2>2, SteadyUntouched
<1>6. SteadyFits(c)'
  <2>1. c \in honest /\ c \in DOMAIN players
    BY <1>2, <1>4 DEF ClientFits, OutsiderFits, NewcomerFits
  <2>2. SUFFICES ASSUME steady[c]
                 PROVE  SteadyFits(c)'
    BY <1>2 DEF SteadyFits
  <2>3. PICK messages, body : messages = downlink[c] /\ body = players[c]
    OBVIOUS
  <2>4. /\ messages \in Seq(Messages) /\ messages # << >> /\ message = Head(messages)
        /\ body \in Bodies /\ message \in Messages /\ downlink'[c] = Tail(messages)
    <3>1. messages \in Seq(Messages) /\ messages # << >> /\ message = Head(messages)
      BY <1>1, <1>2, <1>4, <2>3 DEF Typed
    <3>2. message \in Messages
      BY <3>1, HeadTailProperties
    <3>3. body \in Bodies /\ downlink'[c] = Tail(messages)
      BY <1>2, <1>4, <2>1, <2>3 DEF Typed
    <3> QED
      BY <3>1, <3>2, <3>3
  <2>5. body.simulationTime # 0
    BY <1>4, <2>1, <2>2, <2>3 DEF SteadyFits
  <2>6. CASE predicted[c].actorId = 0
    <3>1. /\ issued[c] = 0 /\ uplink[c] = << >> /\ queues[c] = << >>
          /\ body.moves = << >> /\ body.lastProcessedSequence = 0
          /\ messages = <<Spawned(body)>>
      BY <1>4, <2>1, <2>2, <2>3, <2>6 DEF SteadyFits
    <3>2. PICK spawned : spawned = Spawned(body)
      OBVIOUS
    <3>3. message = spawned /\ downlink'[c] = << >>
      BY <2>4, <3>1, <3>2
    <3>4. message.kind = "spawn" /\ message.body = body
      BY <3>2, <3>3 DEF Spawned
    <3>5. predicted'[c] = body /\ history'[c] = << >> /\ lastFrame'[c] = body.simulationTime
      BY <1>3, <1>4, <2>5, <3>4 DEF Client!reset, Typed
    <3>6. PICK time : /\ InputsFit(body, << >>, << >>, << >>, << >>, 0, time)
                      /\ time[0] = body.simulationTime
      BY <2>4, <2>5, <3>1, InputsInit
    <3>7. players'[c] = body /\ queues'[c] = << >> /\ uplink'[c] = << >> /\ issued'[c] = 0
      BY <1>2, <2>3, <3>1
    <3>8. predicted'[c].moves = << >> /\ predicted'[c].actorId # 0
      BY <2>4, <3>1, <3>5 DEF Bodies
    <3>9. \E more : /\ InputsFit(players'[c], predicted'[c].moves, queues'[c], uplink'[c],
                                 history'[c], issued'[c], more)
                    /\ more[issued'[c]] = lastFrame'[c]
      BY <3>5, <3>6, <3>7, <3>8
    <3>10. CorrectionsFit(downlink'[c], issued'[c] - Len(history'[c]), Len(players'[c].moves),
                          predicted'[c].moves)
      BY <3>3, EmptySeq DEF CorrectionsFit
    <3> QED
      BY <2>5, <3>7, <3>8, <3>9, <3>10 DEF SteadyFits
  <2>7. CASE predicted[c].actorId # 0
    <3>1. PICK made, queue, sent, pending, count, old, done :
             /\ made = predicted[c].moves /\ queue = queues[c] /\ sent = uplink[c]
             /\ pending = history[c] /\ count = issued[c]
             /\ old = count - Len(pending) /\ done = Len(body.moves)
      OBVIOUS
    <3>2. PICK time : InputsFit(body, made, queue, sent, pending, count, time) /\ time[count] = lastFrame[c]
      BY <1>4, <2>1, <2>2, <2>3, <2>7, <3>1 DEF SteadyFits
    <3>3. CorrectionsFit(messages, old, done, made)
      BY <1>4, <2>1, <2>2, <2>3, <2>7, <3>1 DEF SteadyFits
    <3>4. /\ made \in Moves /\ queue \in Seq(Buffered) /\ sent \in Seq(Commands)
          /\ pending \in Seq(Predictions) /\ count \in Nat
      BY <1>4, <3>1 DEF Typed, States
    <3>5. CorrectionFits(message, old, done, made)
      <4>1. 1 \in 1..Len(messages) /\ message = messages[1]
        BY <2>4, HeadTailProperties, EmptySeq, LenProperties
      <4> QED
        BY <3>3, <4>1 DEF CorrectionsFit
    <3>6. message.kind = "correction"
      BY <3>5 DEF CorrectionFits
    <3>7. PICK state, k, rest : /\ state = message.body.state
                                /\ k = message.body.lastProcessedSequence
                                /\ rest = Client!Uncovered(pending, k)
      OBVIOUS
    <3>8. state \in Bodies /\ k \in Nat
      BY <2>4, <3>6, <3>7 DEF Messages
    <3>9. k = Len(state.moves) /\ k \in old..done /\ \A i \in 1..k : state.moves[i] = made[i]
      BY <3>5, <3>7 DEF CorrectionFits
    <3>10. /\ predicted'[c] = Client!Replayed(state, rest) /\ history'[c] = rest
           /\ UNCHANGED lastFrame
      BY <1>3, <1>4, <3>1, <3>6, <3>7 DEF Client!reconcile, Typed
    <3>11. /\ rest \in Seq(Predictions) /\ count - Len(rest) = k
           /\ Client!Replayed(state, rest).moves = made
           /\ InputsFit(body, made, queue, sent, rest, count, time)
      <4>1. PICK num \in Nat : num = count
        BY <3>4, Zenon
      <4>2. PICK last \in Nat : last = k
        BY <3>8, Zenon
      <4>3. InputsFit(body, made, queue, sent, pending, num, time)
        BY <3>2, <4>1
      <4>4. /\ last = Len(state.moves) /\ last \in num - Len(pending)..Len(body.moves)
            /\ \A i \in 1..last : state.moves[i] = made[i]
        BY <3>1, <3>9, <4>1, <4>2
      <4>5. rest = Client!Uncovered(pending, last)
        BY <3>7, <4>2
      <4>6. /\ rest \in Seq(Predictions) /\ num - Len(rest) = last
            /\ Client!Replayed(state, rest).moves = made
            /\ InputsFit(body, made, queue, sent, rest, num, time)
        <5>1. InputsFit(body, made, queue, sent, rest, num, time)
          BY <2>4, <3>4, <3>8, <4>1, <4>2, <4>3, <4>4, <4>5, InputsReconcile
        <5>2. LeftAfter(last, rest, state, made, num)
          BY <2>4, <3>4, <3>8, <4>1, <4>2, <4>3, <4>4, <4>5, InputsReconcile
        <5> QED
          BY <5>1, <5>2 DEF LeftAfter
      <4> QED
        BY <4>1, <4>2, <4>6
    <3>12. predicted'[c].actorId # 0
      <4>1. state \in States /\ state.actorId # 0
        BY <3>8 DEF Bodies
      <4>2. Client!Replayed(state, rest).actorId = state.actorId
        BY <3>11, <4>1, ReplayedTyped
      <4> QED
        BY <3>10, <4>1, <4>2
    <3>13. CorrectionsFit(Tail(messages), k, done, made)
      <4>1. old \in Nat /\ done \in Nat
        <5>1. old \in 0..done
          BY <3>1, <3>2 DEF InputsFit
        <5>2. body.moves \in Seq(Nat \X Nat)
          BY <2>4 DEF Bodies, States, Moves
        <5> QED
          BY <3>1, <5>1, <5>2, LenProperties
      <4>2. PICK from \in Nat : from = old
        BY <4>1, Zenon
      <4>3. PICK till \in Nat : till = done
        BY <4>1, Zenon
      <4>4. PICK last \in Nat : last = k
        BY <3>8, Zenon
      <4>5. CorrectionsFit(messages, from, till, made) /\ last = Head(messages).body.lastProcessedSequence
        BY <2>4, <3>3, <3>7, <4>2, <4>3, <4>4
      <4>6. CorrectionsFit(Tail(messages), last, till, made)
        BY <2>4, <4>5, CorrectionsTaken
      <4> QED
        BY <4>3, <4>4, <4>6
    <3>14. predicted'[c].moves = made
      BY <3>10, <3>11
    <3>15. players'[c] = body /\ queues'[c] = queue /\ uplink'[c] = sent /\ issued'[c] = count
           /\ lastFrame'[c] = lastFrame[c]
      BY <1>2, <2>3, <3>1, <3>10
    <3>16. \E more : /\ InputsFit(players'[c], predicted'[c].moves, queues'[c], uplink'[c],
                                  history'[c], issued'[c], more)
                     /\ more[issued'[c]] = lastFrame'[c]
      BY <3>2, <3>10, <3>11, <3>14, <3>15
    <3>17. CorrectionsFit(downlink'[c], issued'[c] - Len(history'[c]), Len(players'[c].moves),
                          predicted'[c].moves)
      <4>1. issued'[c] - Len(history'[c]) = k
        BY <3>10, <3>11, <3>15
      <4>2. Len(players'[c].moves) = done
        BY <3>1, <3>15
      <4> QED
        BY <2>4, <3>13, <3>14, <4>1, <4>2
    <3> QED
      BY <2>5, <3>12, <3>15, <3>16, <3>17 DEF SteadyFits
  <2> QED
    BY <2>6, <2>7
<1> QED
  BY <1>5, <1>6

LEMMA SteadyInvariance == SSpec => []SInv
<1>1. SInit /\ IInv => SInv
  <2>1. SUFFICES ASSUME SInit, IInv PROVE \A c \in Clients : SteadyFits(c)
    BY DEF SInv
  <2>2. DOMAIN players = {}
    BY <2>1 DEF SInit, Init
  <2> QED
    BY <2>2 DEF SteadyFits
<1>2. SInv /\ IInv' /\ [SNext]_systemVars => SInv'
  <2>1. SUFFICES ASSUME SInv, IInv', [SNext]_systemVars
                 PROVE  \A d \in Clients : SteadyFits(d)'
    BY DEF SInv
  <2>2. CASE \E c \in Clients : Spawn(c) \/ Frame(c) \/ Deliver(c) \/ Correct(c) \/ Forge(c)
    <3>1. PICK c \in Clients : Spawn(c) \/ Frame(c) \/ Deliver(c) \/ Correct(c) \/ Forge(c)
      BY <2>2
    <3>2. CASE Spawn(c)
      BY <2>1, <3>2, SteadySpawn
    <3>3. CASE Frame(c)
      BY <2>1, <3>3, SteadyFrame
    <3>4. CASE Deliver(c)
      BY <2>1, <3>4, SteadyDeliver
    <3>5. CASE Correct(c)
      BY <2>1, <3>5, SteadyCorrect
    <3>6. CASE Forge(c)
      BY <2>1, <3>6, SteadyForge
    <3> QED
      BY <3>1, <3>2, <3>3, <3>4, <3>5, <3>6
  <2>3. CASE ServerTick
    BY <2>1, <2>3, SteadyTick
  <2>4. CASE ClockTick \/ UNCHANGED systemVars
    <3>1. ASSUME NEW d \in Clients PROVE SteadyFits(d)'
      <4>1. Untouched(d) /\ lastFrame'[d] = lastFrame[d] /\ steady'[d] = steady[d]
        BY <2>4 DEF ClockTick, Tick, systemVars, vars, Untouched
      <4> QED
        BY <2>1, <4>1, SteadyUntouched DEF SInv
    <3> QED
      BY <3>1
  <2> QED
    BY <2>1, <2>2, <2>3, <2>4 DEF SNext
<1> QED
  BY <1>1, <1>2, Invariance, PTL DEF SSpec

\* The server's moves are the first of those its client has predicted.
LEMMA MovesPredicted ==
    ASSUME NEW body \in Bodies, NEW made \in Moves, NEW queue \in Seq(Buffered),
           NEW sent \in Seq(Commands), NEW pending, NEW count \in Nat, NEW time,
           InputsFit(body, made, queue, sent, pending, count, time)
    PROVE  IsPrefix(body.moves, made)
<1>1. PICK moves, done : moves = body.moves /\ done = Len(body.moves)
  OBVIOUS
<1>2. moves \in Seq(Nat \X Nat) /\ made \in Seq(Nat \X Nat) /\ done \in Nat /\ Len(moves) = done
  <2>1. moves \in Seq(Nat \X Nat) /\ made \in Seq(Nat \X Nat)
    BY <1>1 DEF Bodies, States, Moves
  <2> QED
    BY <1>1, <2>1, LenProperties
<1>3. done <= Len(made) /\ Len(made) \in Nat /\ \A i \in 1..done : moves[i] = made[i]
  <2>1. Len(made) = count /\ count = done + Len(queue) + Len(sent)
    BY <1>1 DEF InputsFit
  <2>2. Len(queue) \in Nat /\ Len(sent) \in Nat
    BY LenProperties
  <2>3. done <= Len(made)
    BY <1>2, <2>1, <2>2
  <2> QED
    BY <1>1, <2>1, <2>3 DEF InputsFit
<1>4. PICK mine, theirs : mine = SubSeq(moves, 1, done) /\ theirs = SubSeq(made, 1, done)
  OBVIOUS
<1>5. /\ mine \in Seq(Nat \X Nat) /\ Len(mine) = done
      /\ \A i \in 1..done : mine[i] = moves[i]
  <2>1. \A i \in 1..done : moves[i] \in Nat \X Nat
    BY <1>2, ElementOfSeq
  <2> QED
    BY <1>2, <1>4, <2>1, SubSeqProperties
<1>6. /\ theirs \in Seq(Nat \X Nat) /\ Len(theirs) = done
      /\ \A i \in 1..done : theirs[i] = made[i]
  <2>1. \A i \in 1..done : i \in 1..Len(made)
    BY <1>2, <1>3
  <2>2. \A i \in 1..done : made[i] \in Nat \X Nat
    BY <1>2, <2>1, ElementOfSeq
  <2> QED
    BY <1>2, <1>4, <2>2, SubSeqProperties
<1>7. mine = theirs
  BY <1>3, <1>5, <1>6, SeqEqual
<1>8. IsPrefix(moves, made)
  BY <1>2, <1>3, <1>4, <1>7 DEF IsPrefix
<1> QED
  BY <1>1, <1>8

\* As long as frames are no longer than the server allows and no input is lost, the
\* server takes exactly the steps its client has predicted, however late and bunched
\* inputs and corrections come: no correction is ever visible.
THEOREM PredictionExactCorrect == SSpec => []PredictionExact
<1>1. SInv => PredictionExact
  <2>1. SUFFICES ASSUME SInv, NEW c \in honest \cap DOMAIN players, steady[c], predicted[c].actorId # 0
                 PROVE  IsPrefix(players[c].moves, predicted[c].moves)
    BY DEF PredictionExact
  <2>2. PICK body, made, queue, sent, pending :
           /\ body = players[c] /\ made = predicted[c].moves /\ queue = queues[c] /\ sent = uplink[c]
           /\ pending = history[c]
    OBVIOUS
  <2>3. c \in Clients /\ Typed
    BY <2>1 DEF SInv, IInv, Typed
  <2>4. PICK time : InputsFit(body, made, queue, sent, pending, issued[c], time)
    BY <2>1, <2>2, <2>3 DEF SInv, SteadyFits
  <2>5. /\ body \in Bodies /\ made \in Moves /\ queue \in Seq(Buffered) /\ sent \in Seq(Commands)
        /\ issued[c] \in Nat
    BY <2>1, <2>2, <2>3 DEF Typed, States
  <2>6. PICK count \in Nat : count = issued[c]
    BY <2>5, Zenon
  <2>7. InputsFit(body, made, queue, sent, pending, count, time)
    BY <2>4, <2>6
  <2>8. IsPrefix(body.moves, made)
    BY <2>5, <2>7, MovesPredicted
  <2> QED
    BY <2>2, <2>8
<1> QED
  BY <1>1, SteadyInvariance, PTL
==============================================================================
