-------------------------- MODULE ServerFrameProofs ---------------------------
(***************************************************************************)
(* Proofs about ServerFrame, for any clients, scores and budgets.  What    *)
(* clients are charged for is in the second half.                          *)
(***************************************************************************)
EXTENDS ServerFrame, FiniteSetTheorems, TLAPS

\* The events in a queue agree with what their clients have done.
EventsFit(queue, stages, speakers) ==
    \A i \in DOMAIN queue :
        /\ stages[queue[i].client] # "out"
        /\ queue[i].type \in {"state", "auth"} => queue[i].client \in speakers
        /\ queue[i].type = "report" => stages[queue[i].client] = "playing"

\* Only clients that have sent something have packets, and none is removed while
\* one of its packets waits to be queued.
PacketsFit ==
    /\ \A i \in DOMAIN delayed :
        delayed[i].client \in heard /\ removal[delayed[i].client] # "removed"
    /\ \A packet \in posting : packet.client \in heard /\ removal[packet.client] = "none"

\* The game thread finds the packet it handles, unless its client is gone.
HandFits == hand # << >> /\ delayed = << >> => heard \ listed # {}

\* Why the handled event may be gone when it is to be taken off.
Missed == refused # {} \/ \E c \in Clients : removal[c] = "removed" /\ stage[c] = "playing"

\* The event in front is the one the game thread is at, or there is a reason.
FrontFits ==
    /\ frame = "attach" => ready # << >> /\ Head(ready).type = "create"
    /\ frame = "handled" =>
           ready # << >> /\ Head(ready).type = "report" /\ stage[Head(ready).client] = "playing"
    /\ frame = "release" => Missed

\* A client is listed once, and removed once; before that it has sent nothing.
ClientsFit ==
    \A c \in Clients :
        /\ c \in listed => stage[c] # "out" /\ removal[c] \in {"none", "parted"}
        /\ stage[c] = "out" => c \notin heard /\ removal[c] = "none" /\ suspicion[c] < KickThreshold

\* A client whose score has reached the threshold is on the list of cheaters
\* until it is disconnected.
ScoresFit ==
    \A c \in listed : suspicion[c] >= KickThreshold => c \in ending \cup Members(cheaters)

\* The inductive invariant.
IInv ==
    /\ TypeOK
    /\ EventsFit(ready, stage, heard)
    /\ PacketsFit
    /\ HandFits
    /\ FrontFits
    /\ ClientsFit
    /\ ScoresFit
    /\ HaltsExplained
    /\ DepartureTold

EventType == [type : EventTypes, sender : Clients \cup {NoSender}, client : Clients]

PacketType == [kind : {"request", "command"}, client : Clients]

------------------------------------------------------------------------------
(* Queues. *)

\* rest is made of elements of queue, each used once at most.
Within(rest, queue) ==
    \E from \in [DOMAIN rest -> DOMAIN queue] :
        /\ \A m, n \in DOMAIN rest : from[m] = from[n] => m = n
        /\ \A n \in DOMAIN rest : rest[n] = queue[from[n]]

\* Taking off the front leaves the rest.
LEMMA TailWithin ==
    ASSUME NEW S, NEW queue \in Seq(S), queue # << >>
    PROVE  /\ Tail(queue) \in Seq(S)
           /\ Within(Tail(queue), queue)
           /\ Members(queue) = Members(Tail(queue)) \cup {Head(queue)}
           /\ Head(queue) \in S
           /\ 1 \in DOMAIN queue /\ queue[1] = Head(queue)
           /\ \A n \in DOMAIN Tail(queue) :
                 n + 1 \in DOMAIN queue /\ n + 1 # 1 /\ Tail(queue)[n] = queue[n + 1]
<1>1. /\ Tail(queue) \in Seq(S)
      /\ 1 \in DOMAIN queue /\ queue[1] = Head(queue) /\ Head(queue) \in S
      /\ \A n \in DOMAIN Tail(queue) :
            n + 1 \in DOMAIN queue /\ n + 1 # 1 /\ Tail(queue)[n] = queue[n + 1]
  OBVIOUS
<1>2. Within(Tail(queue), queue)
  <2> DEFINE from == [n \in DOMAIN Tail(queue) |-> n + 1]
  <2>1. from \in [DOMAIN Tail(queue) -> DOMAIN queue]
    BY <1>1
  <2>2. \A m, n \in DOMAIN Tail(queue) : from[m] = from[n] => m = n
    <3>1. DOMAIN Tail(queue) \subseteq Nat
      BY <1>1
    <3> QED
      BY <3>1
  <2>3. \A n \in DOMAIN Tail(queue) : Tail(queue)[n] = queue[from[n]]
    BY <1>1
  <2> HIDE DEF from
  <2> QED
    BY <2>1, <2>2, <2>3 DEF Within
<1>3. Members(queue) = Members(Tail(queue)) \cup {Head(queue)}
  <2>1. Len(queue) \in Nat /\ DOMAIN queue = 1..Len(queue)
    OBVIOUS
  <2>2. DOMAIN Tail(queue) = 1..(Len(queue) - 1)
    OBVIOUS
  <2>3. ASSUME NEW i \in DOMAIN queue, i # 1
        PROVE  i - 1 \in DOMAIN Tail(queue) /\ Tail(queue)[i - 1] = queue[i]
    <3>1. i - 1 \in DOMAIN Tail(queue)
      BY <2>1, <2>2, <2>3
    <3>2. Tail(queue)[i - 1] = queue[(i - 1) + 1]
      BY <1>1, <3>1
    <3> QED
      BY <2>1, <3>1, <3>2
  <2>4. Members(Tail(queue)) \cup {Head(queue)} \subseteq Members(queue)
    BY <1>1 DEF Members
  <2>5. ASSUME NEW i \in DOMAIN queue
        PROVE  queue[i] \in Members(Tail(queue)) \cup {Head(queue)}
    BY <1>1, <2>3 DEF Members
  <2> QED
    BY <2>4, <2>5 DEF Members
<1> QED
  BY <1>1, <1>2, <1>3

\* Keeping some positions keeps what is there, and nothing else.
LEMMA KeptWithin ==
    ASSUME NEW S, NEW queue \in Seq(S), NEW kept \in SUBSET DOMAIN queue,
           NEW order \in InOrder(kept), NEW rest,
           rest = [n \in DOMAIN order |-> queue[order[n]]]
    PROVE  /\ rest \in Seq(S)
           /\ Within(rest, queue)
           /\ Members(rest) = {queue[i] : i \in kept}
           /\ kept # {} => rest # << >>
           /\ 1 \in kept => rest # << >> /\ Head(rest) = queue[1]
<1>1. IsFiniteSet(DOMAIN queue)
  BY FS_Interval
<1>2. Cardinality(kept) \in Nat
  BY <1>1, FS_Subset, FS_CardinalityType
<1>3. /\ order \in [1..Cardinality(kept) -> kept]
      /\ \A i \in kept : \E n \in DOMAIN order : order[n] = i
      /\ \A m, n \in DOMAIN order : m < n => order[m] < order[n]
  BY DEF InOrder
<1>4. rest \in [1..Cardinality(kept) -> S]
  BY <1>3
<1>5. rest \in Seq(S)
  BY <1>2, <1>4
<1>6. DOMAIN rest = DOMAIN order /\ DOMAIN order = 1..Cardinality(kept)
  BY <1>3
<1>7. \A m, n \in DOMAIN order : order[m] = order[n] => m = n
  <2> SUFFICES ASSUME NEW m \in DOMAIN order, NEW n \in DOMAIN order, m # n
               PROVE  order[m] # order[n]
    OBVIOUS
  <2>1. m \in Nat /\ n \in Nat
    BY <1>2, <1>6
  <2>2. order[m] \in Nat /\ order[n] \in Nat
    BY <1>3
  <2> QED
    BY <1>3, <2>1, <2>2
<1>8. Within(rest, queue)
  <2>1. order \in [DOMAIN rest -> DOMAIN queue]
    BY <1>3, <1>6
  <2> QED
    BY <1>6, <1>7, <2>1 DEF Within
<1>9. Members(rest) = {queue[i] : i \in kept}
  BY <1>3, <1>6 DEF Members
<1>10. kept # {} => rest # << >>
  <2> SUFFICES ASSUME NEW i \in kept PROVE rest # << >>
    OBVIOUS
  <2>1. PICK n \in DOMAIN order : order[n] = i
    BY <1>3
  <2> QED
    BY <1>6, <2>1
<1>11. 1 \in kept => rest # << >> /\ Head(rest) = queue[1]
  <2> SUFFICES ASSUME 1 \in kept PROVE rest # << >> /\ Head(rest) = queue[1]
    OBVIOUS
  <2>1. PICK n \in DOMAIN order : order[n] = 1
    BY <1>3
  <2>2. n \in Nat /\ n >= 1 /\ n <= Cardinality(kept)
    BY <1>2, <1>6
  <2>3. 1 \in DOMAIN order
    BY <1>2, <1>6, <2>2
  <2>4. order[1] \in DOMAIN queue
    BY <1>3, <2>3
  <2>5. order[1] >= 1
    BY <2>4
  <2>6. n = 1
    BY <1>3, <2>1, <2>2, <2>3, <2>4, <2>5
  <2>7. rest[1] = queue[1]
    BY <2>1, <2>3, <2>6
  <2> QED
    BY <1>5, <1>6, <2>3, <2>7
<1> QED
  BY <1>5, <1>8, <1>9, <1>10, <1>11

\* What is within a fitting queue fits.
LEMMA WithinFits ==
    ASSUME NEW queue, NEW rest, NEW stages, NEW speakers,
           EventsFit(queue, stages, speakers), Within(rest, queue)
    PROVE  EventsFit(rest, stages, speakers)
<1>1. PICK from \in [DOMAIN rest -> DOMAIN queue] :
        /\ \A m, n \in DOMAIN rest : from[m] = from[n] => m = n
        /\ \A n \in DOMAIN rest : rest[n] = queue[from[n]]
  BY DEF Within
<1> QED
  BY <1>1 DEF EventsFit

\* So does a fitting queue with one event more.
LEMMA AppendFits ==
    ASSUME NEW queue \in Seq(EventType), NEW event \in EventType, NEW stages, NEW speakers,
           EventsFit(queue, stages, speakers),
           EventsFit(<<event>>, stages, speakers)
    PROVE  EventsFit(Append(queue, event), stages, speakers)
<1>1. ASSUME NEW i \in DOMAIN Append(queue, event)
      PROVE  \/ i \in DOMAIN queue /\ Append(queue, event)[i] = queue[i]
             \/ i = Len(queue) + 1 /\ Append(queue, event)[i] = event
  OBVIOUS
<1>2. 1 \in DOMAIN <<event>> /\ <<event>>[1] = event
  OBVIOUS
<1> HIDE DEF EventType
<1> QED
  BY <1>1, <1>2 DEF EventsFit

\* Appending adds one member, at the end.
LEMMA AppendMembers ==
    ASSUME NEW S, NEW queue \in Seq(S), NEW x \in S
    PROVE  /\ Append(queue, x) \in Seq(S)
           /\ Members(Append(queue, x)) = Members(queue) \cup {x}
           /\ queue # << >> => Head(Append(queue, x)) = Head(queue)
           /\ Append(queue, x) # << >>
<1>1. ASSUME NEW i \in DOMAIN queue
      PROVE  i \in DOMAIN Append(queue, x) /\ Append(queue, x)[i] = queue[i]
  OBVIOUS
<1>2. Len(queue) + 1 \in DOMAIN Append(queue, x) /\ Append(queue, x)[Len(queue) + 1] = x
  OBVIOUS
<1>3. ASSUME NEW i \in DOMAIN Append(queue, x)
      PROVE  \/ i \in DOMAIN queue /\ Append(queue, x)[i] = queue[i]
             \/ Append(queue, x)[i] = x
  OBVIOUS
<1>4. Members(Append(queue, x)) = Members(queue) \cup {x}
  BY <1>1, <1>2, <1>3 DEF Members
<1>5. Append(queue, x) \in Seq(S) /\ Append(queue, x) # << >>
  BY <1>2
<1>6. queue # << >> => Head(Append(queue, x)) = Head(queue)
  <2> SUFFICES ASSUME queue # << >> PROVE Head(Append(queue, x)) = Head(queue)
    OBVIOUS
  <2>1. 1 \in DOMAIN queue
    OBVIOUS
  <2>2. Append(queue, x)[1] = queue[1]
    BY <1>1, <2>1
  <2> QED
    BY <2>2
<1> QED
  BY <1>4, <1>5, <1>6

------------------------------------------------------------------------------
(* The network threads. *)

\* Clients go forward, and what is recorded of them is never taken back.
Forward ==
    /\ stage' \in [Clients -> Stages]
    /\ heard \subseteq heard'
    /\ refused \subseteq refused'
    /\ \A c \in Clients :
        /\ stage'[c] = "out" => stage[c] = "out"
        /\ stage[c] = "playing" => stage'[c] = "playing"
        /\ removal[c] = "removed" => removal'[c] = "removed"

\* The queue still has the event in front.
SameFront == frame \in {"attach", "handled"} => ready' # << >> /\ Head(ready') = Head(ready)

\* A step forward disturbs nothing that depends on the stages alone.
LEMMA ForwardFits ==
    ASSUME IInv, Forward
    PROVE  /\ EventsFit(ready, stage', heard')
           /\ UNCHANGED <<delayed, posting, removal>> => PacketsFit'
           /\ (UNCHANGED <<delayed, hand>> /\ listed' \subseteq listed) => HandFits'
           /\ Missed => Missed'
           /\ SameFront /\ frame' = frame => FrontFits'
<1>1. ready \in Seq(EventType)
  BY DEF IInv, TypeOK, EventType
<1>2. \A i \in DOMAIN ready : ready[i] \in EventType
  BY <1>1
<1>3. EventsFit(ready, stage', heard')
  BY <1>2 DEF IInv, EventsFit, Forward, EventType
<1>4. UNCHANGED <<delayed, posting, removal>> => PacketsFit'
  BY DEF IInv, PacketsFit, Forward
<1>5. UNCHANGED <<delayed, hand>> /\ listed' \subseteq listed => HandFits'
  BY DEF IInv, HandFits, Forward
<1>6. Missed => Missed'
  BY DEF Missed, Forward
<1>7. SameFront /\ frame' = frame => FrontFits'
  <2> SUFFICES ASSUME SameFront, frame' = frame PROVE FrontFits'
    OBVIOUS
  <2>1. CASE frame \in {"attach", "handled"}
    <3>1. ready # << >>
      BY <2>1 DEF IInv, FrontFits
    <3>2. Head(ready) \in EventType
      BY <1>1, <3>1, TailWithin
    <3>3. Head(ready).client \in Clients
      BY <3>2 DEF EventType
    <3> QED
      BY <2>1, <3>3 DEF IInv, FrontFits, SameFront, Forward
  <2>2. CASE frame \notin {"attach", "handled"}
    BY <1>6, <2>2 DEF IInv, FrontFits
  <2> QED
    BY <2>1, <2>2
<1> QED
  BY <1>3, <1>4, <1>5, <1>6, <1>7

\* What queueing an event does to the queue.
LEMMA CreateFits ==
    ASSUME ready \in Seq(EventType), NEW event \in EventType,
           Create(event) \/ CreateSafe(event),
           EventsFit(ready, stage', heard'),
           stage'[event.client] # "out",
           event.type \in {"state", "auth"} => event.client \in heard',
           event.type = "report" => stage'[event.client] = "playing"
    PROVE  /\ ready' \in Seq(EventType)
           /\ EventsFit(ready', stage', heard')
           /\ Members(ready) \subseteq Members(ready')
           /\ ready # << >> => ready' # << >> /\ Head(ready') = Head(ready)
<1>1. ready' = ready \/ ready' = Append(ready, event)
  BY DEF Create, CreateSafe
<1>2. CASE ready' = ready
  BY <1>2
<1>3. CASE ready' = Append(ready, event)
  <2>1. DOMAIN <<event>> = {1} /\ <<event>>[1] = event
    OBVIOUS
  <2>2. EventsFit(<<event>>, stage', heard')
    BY <2>1 DEF EventsFit
  <2> QED
    BY <1>3, <2>2, AppendFits, AppendMembers
<1> QED
  BY <1>1, <1>2, <1>3

\* A message comes from a client that is there.
LEMMA ReceivesFacts ==
    ASSUME NEW c \in Clients, Receives(c)
    PROVE  /\ c \in listed /\ halted = "no" /\ removal[c] = "none"
           /\ heard' = heard \cup {c}
           /\ stage[c] \notin {"out", "listed"}
BY DEF Receives, Calls

\* Where a message leads a client it goes forward.
LEMMA TakesForward ==
    ASSUME IInv, NEW c \in Clients, NEW from \in Stages \ {"out", "playing"}, NEW to \in Stages \ {"out"},
           Takes(c, from, to), heard \subseteq heard', UNCHANGED <<removal, refused>>
    PROVE  Forward
BY DEF IInv, TypeOK, Takes, Forward

\* A new client has sent nothing and been charged for nothing.
LEMMA ListClientInv == ASSUME IInv, NEW c \in Clients, ListClient(c) PROVE IInv'
<1> USE DEF ListClient, Calls
<1>1. UNCHANGED <<ready, blocked, suspicion, cheaters, removal, ending, delayed, posting, frame, hand,
                  heard, halted, refused, parted, told, discarded>>
  BY DEF queueVars, antiCheatVars, packetVars, historyVars
<1>2. Forward
  BY <1>1 DEF IInv, TypeOK, Forward, Stages
<1>3. TypeOK'
  BY <1>1, <1>2 DEF IInv, TypeOK, Forward
<1>4. EventsFit(ready', stage', heard') /\ PacketsFit'
  BY <1>1, <1>2, ForwardFits
<1>5. SameFront
  BY <1>1 DEF IInv, FrontFits, SameFront
<1>6. FrontFits'
  BY <1>1, <1>2, <1>5, ForwardFits
<1>7. HandFits'
  <2>1. c \notin heard
    BY DEF IInv, ClientsFit
  <2> QED
    BY <1>1, <2>1 DEF IInv, HandFits
<1>8. ClientsFit' /\ ScoresFit'
  <2>1. ClientsFit'
    BY <1>1 DEF IInv, TypeOK, ClientsFit, Stages
  <2>2. suspicion[c] < KickThreshold /\ suspicion[c] \in Nat /\ KickThreshold \in Nat
    BY AntiCheatAssumption DEF IInv, TypeOK, ClientsFit
  <2>3. ScoresFit'
    BY <1>1, <2>2 DEF IInv, TypeOK, ScoresFit, Members
  <2> QED
    BY <2>1, <2>3
<1>9. HaltsExplained'
  BY <1>1 DEF HaltsExplained
<1>10. DepartureTold'
  BY <1>1 DEF IInv, DepartureTold, Members
<1> QED
  BY <1>3, <1>4, <1>6, <1>7, <1>8, <1>9, <1>10 DEF IInv

\* A step of a network thread that leads a client forward and queues an event or a
\* packet that fits, at most.
LEMMA MessageKeeps ==
    ASSUME IInv, Forward,
           \A c \in Clients : c \in heard' => c \in heard \/ stage'[c] # "out",
           ready' \in Seq(EventType), EventsFit(ready', stage', heard'),
           Members(ready) \subseteq Members(ready'), SameFront,
           posting' \subseteq PacketType, PacketsFit', ending \subseteq ending', halted = "no",
           UNCHANGED <<blocked, suspicion, cheaters, listed, removal, delayed, hand, frame, halted,
                       parted, told, discarded>>
    PROVE  IInv'
<1>1. TypeOK'
  BY DEF IInv, TypeOK, Forward, EventType, PacketType
<1>2. HandFits' /\ FrontFits'
  BY ForwardFits
<1>3. ClientsFit' /\ ScoresFit'
  <2>1. ClientsFit'
    BY DEF IInv, TypeOK, ClientsFit, Forward
  <2>2. ScoresFit'
    BY DEF IInv, TypeOK, ScoresFit, Members
  <2> QED
    BY <2>1, <2>2
<1>4. HaltsExplained'
  BY DEF HaltsExplained
<1>5. DepartureTold'
  BY DEF IInv, DepartureTold
<1> QED
  BY <1>1, <1>2, <1>3, <1>4, <1>5 DEF IInv

\* A step that leads a client forward, and queues an event at most.
LEMMA QueueingKeeps ==
    ASSUME IInv, Forward, NEW event \in EventType, Create(event) \/ CreateSafe(event),
           \A c \in Clients : c \in heard' => c \in heard \/ stage'[c] # "out",
           stage'[event.client] # "out",
           event.type \in {"state", "auth"} => event.client \in heard',
           event.type = "report" => stage'[event.client] = "playing",
           ending \subseteq ending', halted = "no",
           UNCHANGED <<blocked, suspicion, cheaters, listed, removal, delayed, posting, hand, frame,
                       halted, parted, told, discarded>>
    PROVE  IInv'
<1>1. ready \in Seq(EventType) /\ EventsFit(ready, stage', heard')
  BY ForwardFits DEF IInv, TypeOK, EventType
<1>2. /\ ready' \in Seq(EventType) /\ EventsFit(ready', stage', heard')
      /\ Members(ready) \subseteq Members(ready')
      /\ ready # << >> => ready' # << >> /\ Head(ready') = Head(ready)
  BY <1>1, CreateFits
<1>3. SameFront
  BY <1>2 DEF IInv, FrontFits, SameFront
<1>4. PacketsFit' /\ posting' \subseteq PacketType
  BY ForwardFits DEF IInv, TypeOK, PacketType
<1> QED
  BY <1>2, <1>3, <1>4, MessageKeeps

\* The event that attaches a client.
LEMMA QueueCreateClientInv == ASSUME IInv, NEW c \in Clients, QueueCreateClient(c) PROVE IInv'
<1> DEFINE event == Event("create", c, c)
<1>1. event \in EventType /\ event.client = c /\ event.type = "create"
  BY DEF Event, EventType, EventTypes
<1>2. /\ UNCHANGED <<suspicion, cheaters, listed, removal, delayed, posting, hand, frame, heard, halted,
                     refused, parted, told, discarded, ending>>
      /\ CreateSafe(event) /\ halted = "no" /\ blocked' = blocked
  BY DEF QueueCreateClient, CreateSafe, Calls, antiCheatVars, clientVars, packetVars, historyVars
<1>3. Forward /\ stage'[c] # "out"
  BY <1>2 DEF QueueCreateClient, IInv, TypeOK, Forward, Stages
<1> HIDE DEF event
<1> QED
  BY <1>1, <1>2, <1>3, QueueingKeeps

\* The answers to the challenge.
LEMMA AnswerInv ==
    ASSUME IInv, NEW c \in Clients, ReceivePlayerState(c) \/ ReceiveAuth(c)
    PROVE  IInv'
<1>1. PICK event \in EventType : Create(event) /\ event.client = c /\ event.type \in {"state", "auth"}
  BY DEF ReceivePlayerState, ReceiveAuth, Event, EventType, EventTypes
<1>2. /\ UNCHANGED <<suspicion, cheaters, listed, removal, delayed, posting, hand, frame, halted,
                     refused, parted, told, discarded, ending>>
      /\ Receives(c) /\ blocked' = blocked
  BY DEF ReceivePlayerState, ReceiveAuth, Create, antiCheatVars, clientVars, packetVars, historyVars
<1>3. heard' = heard \cup {c} /\ halted = "no" /\ stage[c] # "out"
  BY <1>2, ReceivesFacts
<1>4. Forward
  <2>1. PICK from \in Stages \ {"out", "playing"}, to \in Stages \ {"out"} : Takes(c, from, to)
    BY DEF ReceivePlayerState, ReceiveAuth, Stages
  <2> QED
    BY <1>2, <1>3, <2>1, TakesForward
<1>5. stage'[c] # "out"
  BY <1>3, <1>4 DEF Forward
<1> QED
  BY <1>1, <1>2, <1>3, <1>4, <1>5, QueueingKeeps

\* Hits, reports and notices, and what the server's own game sends.
LEMMA ReportingInv ==
    ASSUME IInv, NEW c \in Clients, NEW d \in Clients,
           ReceiveHit(c, d) \/ ReceiveReport(c, d) \/ ReceiveStarted(c) \/ SendOwnMessage(c)
    PROVE  IInv'
<1>1. /\ UNCHANGED <<suspicion, cheaters, listed, removal, delayed, posting, hand, frame, halted, stage,
                     refused, parted, told, discarded, ending>>
      /\ blocked' = blocked /\ halted = "no"
      /\ heard' = heard \/ (heard' = heard \cup {c} /\ stage[c] # "out")
  BY ReceivesFacts
     DEF ReceiveHit, ReceiveReport, ReceiveStarted, SendOwnMessage, QueueHit, QueueReport, QueueStarted,
         Create, CreateSafe, GameAt, antiCheatVars, clientVars, packetVars, historyVars
<1>2. Forward
  BY <1>1 DEF IInv, TypeOK, Forward
<1>3. PICK event \in EventType :
        /\ Create(event) \/ CreateSafe(event)
        /\ event.type \notin {"state", "auth"}
        /\ \/ stage[event.client] = "playing"
           \/ event.type # "report" /\ stage[event.client] # "out"
  <2>1. CASE ReceiveHit(c, d)
    <3>1. Event("hit", NoSender, d) \in EventType
      BY DEF Event, EventType, EventTypes
    <3>2. CreateSafe(Event("hit", NoSender, d)) /\ stage[d] = "playing"
      BY <2>1 DEF ReceiveHit, QueueHit
    <3> QED
      BY <3>1, <3>2 DEF Event
  <2>2. CASE ReceiveReport(c, d)
    <3>1. Event("report", c, d) \in EventType
      BY DEF Event, EventType, EventTypes
    <3>2. CreateSafe(Event("report", c, d)) /\ stage[d] = "playing"
      BY <2>2 DEF ReceiveReport, QueueReport
    <3> QED
      BY <3>1, <3>2 DEF Event
  <2>3. CASE ReceiveStarted(c)
    <3>1. Event("started", c, c) \in EventType /\ Event("elsewhere", c, c) \in EventType
      BY DEF Event, EventType, EventTypes
    <3>2. Create(Event("started", c, c)) \/ Create(Event("elsewhere", c, c))
      BY <2>3 DEF ReceiveStarted, QueueStarted
    <3>3. stage[c] # "out"
      BY <2>3, ReceivesFacts DEF ReceiveStarted
    <3> QED
      BY <3>1, <3>2, <3>3 DEF Event
  <2>4. CASE SendOwnMessage(c)
    <3>1. Event("report", NoSender, c) \in EventType /\ Event("hit", NoSender, c) \in EventType
      BY DEF Event, EventType, EventTypes
    <3>2. /\ CreateSafe(Event("report", NoSender, c)) \/ CreateSafe(Event("hit", NoSender, c))
          /\ stage[c] = "playing"
      BY <2>4 DEF SendOwnMessage, QueueReport, QueueHit
    <3> QED
      BY <3>1, <3>2 DEF Event
  <2> QED
    BY <2>1, <2>2, <2>3, <2>4
<1> QED
  BY <1>1, <1>2, <1>3, QueueingKeeps

\* A message that is answered at once.
LEMMA ReceiveDigestInv == ASSUME IInv, NEW c \in Clients, ReceiveDigest(c) PROVE IInv'
<1>1. UNCHANGED <<ready, blocked, suspicion, cheaters, listed, removal, delayed, posting, hand, frame,
                  halted, refused, parted, told, discarded>> /\ ending \subseteq ending'
  BY DEF ReceiveDigest, queueVars, antiCheatVars, packetVars, historyVars
<1>2. heard' = heard \cup {c} /\ halted = "no" /\ stage[c] # "out"
  BY ReceivesFacts DEF ReceiveDigest
<1>3. Forward
  <2>1. PICK to \in Stages \ {"out"} : Takes(c, "asked", to)
    BY DEF ReceiveDigest, Stages
  <2> QED
    BY <1>1, <1>2, <2>1, TakesForward DEF Stages
<1>4. stage'[c] # "out"
  BY <1>2, <1>3 DEF Forward
<1>5. ready' \in Seq(EventType) /\ EventsFit(ready', stage', heard') /\ Members(ready) \subseteq Members(ready')
  BY <1>1, <1>3, ForwardFits DEF IInv, TypeOK, EventType
<1>6. SameFront
  BY <1>1 DEF IInv, FrontFits, SameFront
<1>7. PacketsFit' /\ posting' \subseteq PacketType
  BY <1>1, <1>3, ForwardFits DEF IInv, TypeOK, PacketType
<1> QED
  BY <1>1, <1>2, <1>3, <1>4, <1>5, <1>6, <1>7, MessageKeeps

\* Messages that wait to queue a packet.
LEMMA PostingInv ==
    ASSUME IInv, NEW c \in Clients, ReceiveConnectionRequest(c) \/ ReceiveCommand(c)
    PROVE  IInv'
<1>1. PICK packet \in PacketType : packet.client = c /\ posting' = {packet}
  BY DEF ReceiveConnectionRequest, ReceiveCommand, Packet, PacketType
<1>2. UNCHANGED <<ready, blocked, suspicion, cheaters, listed, removal, delayed, hand, frame,
                  halted, refused, parted, told, discarded, ending>>
  BY DEF ReceiveConnectionRequest, ReceiveCommand, queueVars, antiCheatVars, clientVars, historyVars
<1>3. heard' = heard \cup {c} /\ halted = "no" /\ stage[c] # "out" /\ removal[c] = "none"
  BY ReceivesFacts DEF ReceiveConnectionRequest, ReceiveCommand
<1>4. Forward
  <2>1. CASE ReceiveConnectionRequest(c)
    <3>1. Takes(c, "verified", "requested")
      BY <2>1 DEF ReceiveConnectionRequest
    <3> QED
      BY <1>2, <1>3, <3>1, TakesForward DEF Stages
  <2>2. CASE stage' = stage
    BY <1>2, <1>3, <2>2 DEF IInv, TypeOK, Forward
  <2> QED
    BY <2>1, <2>2 DEF ReceiveCommand
<1>5. stage'[c] # "out"
  BY <1>3, <1>4 DEF Forward
<1>6. ready' \in Seq(EventType) /\ EventsFit(ready', stage', heard') /\ Members(ready) \subseteq Members(ready')
  BY <1>2, <1>4, ForwardFits DEF IInv, TypeOK, EventType
<1>7. SameFront
  BY <1>2 DEF IInv, FrontFits, SameFront
<1>8. PacketsFit'
  BY <1>1, <1>2, <1>3 DEF IInv, PacketsFit
<1> QED
  BY <1>1, <1>2, <1>3, <1>4, <1>5, <1>6, <1>7, <1>8, MessageKeeps

\* The packet gets into the list while its client is still there.
LEMMA AddDelayedPacketInv == ASSUME IInv, AddDelayedPacket PROVE IInv'
<1> USE DEF AddDelayedPacket
<1>1. PICK packet \in posting : delayed' = Append(delayed, packet)
  OBVIOUS
<1>2. packet \in PacketType /\ delayed \in Seq(PacketType)
  BY DEF IInv, TypeOK, PacketType
<1>3. /\ delayed' \in Seq(PacketType) /\ delayed' # << >>
      /\ \A i \in DOMAIN delayed' :
            (i \in DOMAIN delayed /\ delayed'[i] = delayed[i]) \/ delayed'[i] = packet
  BY <1>1, <1>2
<1>4. /\ UNCHANGED <<stage, ready, blocked, removal, listed, heard, suspicion, cheaters, ending, frame,
                     hand, refused, parted, told, discarded, halted>>
      /\ halted = "no"
  BY DEF queueVars, antiCheatVars, clientVars, remoteVars, historyVars
<1>5. TypeOK'
  BY <1>3, <1>4 DEF IInv, TypeOK, PacketType
<1>6. EventsFit(ready', stage', heard') /\ PacketsFit' /\ HandFits'
  BY <1>3, <1>4 DEF IInv, PacketsFit, HandFits
<1>7. ClientsFit' /\ ScoresFit' /\ FrontFits'
  BY <1>4 DEF IInv, ClientsFit, ScoresFit, Members, FrontFits, Missed
<1>8. HaltsExplained' /\ DepartureTold'
  BY <1>4 DEF IInv, HaltsExplained, DepartureTold, Members
<1> QED
  BY <1>5, <1>6, <1>7, <1>8 DEF IInv

\* No client is removed while one of its packets waits.
LEMMA DisconnectedInv == ASSUME IInv, NEW c \in Clients, Disconnected(c) PROVE IInv'
<1> USE DEF Disconnected, Calls
<1> DEFINE departure == Event("disconnected", NoSender, c)
<1>1. /\ stage' = stage /\ listed' = listed /\ delayed' = delayed /\ posting' = posting
      /\ hand' = hand /\ suspicion' = suspicion /\ cheaters' = cheaters /\ ending' = ending
      /\ blocked' = blocked /\ frame' = frame /\ refused' = refused /\ halted' = halted
      /\ told' = told /\ discarded' = discarded /\ heard' = heard /\ halted = "no"
  BY DEF packetVars, antiCheatVars, QueueDisconnected, CreateSafe, queueVars
<1>2. departure \in EventType /\ departure.client = c /\ departure.type = "disconnected"
  BY DEF Event, EventType, EventTypes
<1>3. ready \in Seq(EventType) /\ EventsFit(ready, stage, heard) /\ stage[c] # "out"
  BY DEF IInv, TypeOK, EventType, ClientsFit
<1>4. /\ ready' \in Seq(EventType) /\ EventsFit(ready', stage', heard')
      /\ Members(ready) \subseteq Members(ready')
      /\ ready # << >> => ready' # << >> /\ Head(ready') = Head(ready)
  <2>1. CASE UNCHANGED queueVars
    BY <1>1, <1>3, <2>1 DEF queueVars
  <2>2. CASE QueueDisconnected(c)
    <3>1. CreateSafe(departure)
      BY <2>2 DEF QueueDisconnected
    <3>2. /\ EventsFit(ready, stage', heard') /\ stage'[departure.client] # "out"
      BY <1>1, <1>2, <1>3
    <3> HIDE DEF departure
    <3> QED
      BY <1>2, <1>3, <3>1, <3>2, CreateFits
  <2> QED
    BY <2>1, <2>2
<1>5. parted' = parted \/ (parted' = parted \cup {c} /\ departure \in Members(ready'))
  <2>1. departure.sender \notin blocked
    BY FrameAssumption DEF Event, IInv, TypeOK
  <2>2. CASE QueueDisconnected(c)
    <3>1. ready' = Append(ready, departure)
      BY <2>1, <2>2 DEF QueueDisconnected, CreateSafe
    <3> HIDE DEF departure
    <3> QED
      BY <1>2, <1>3, <3>1, AppendMembers
  <2> QED
    BY <2>2
<1>6. removal' \in [Clients -> {"none", "parted", "delisted", "removed"}]
      /\ removal'[c] = "parted" /\ \A d \in Clients \ {c} : removal'[d] = removal[d]
  BY DEF IInv, TypeOK
<1>7. TypeOK'
  BY <1>1, <1>4, <1>6 DEF IInv, TypeOK, EventType
<1>8. removal[c] = "none" /\ (\A packet \in posting : packet.client # c)
      /\ parted' \in {parted, parted \cup {c}}
  OBVIOUS
<1> HIDE DEF Disconnected
<1>9. PacketsFit'
  <2>1. delayed \in Seq(PacketType) /\ posting \subseteq PacketType
    BY DEF IInv, TypeOK, PacketType
  <2>2. \A i \in DOMAIN delayed : delayed[i] \in PacketType
    BY <2>1
  <2>3. \A packet \in PacketType : packet.client \in Clients
    BY DEF PacketType
  <2> QED
    BY <1>1, <1>6, <1>8, <2>1, <2>2, <2>3 DEF IInv, PacketsFit
<1>10. HandFits' /\ ClientsFit' /\ ScoresFit'
  <2>1. HandFits' /\ ScoresFit'
    BY <1>1 DEF IInv, HandFits, ScoresFit, Members
  <2>2. ClientsFit'
    BY <1>1, <1>3, <1>6 DEF IInv, TypeOK, ClientsFit
  <2> QED
    BY <2>1, <2>2
<1>11. FrontFits' /\ HaltsExplained'
  <2>1. Forward
    BY <1>1, <1>6, <1>8 DEF IInv, TypeOK, Forward
  <2>2. SameFront
    BY <1>1, <1>4 DEF IInv, FrontFits, SameFront
  <2> QED
    BY <1>1, <2>1, <2>2, ForwardFits DEF HaltsExplained
<1>12. DepartureTold'
  BY <1>1, <1>4, <1>5 DEF IInv, DepartureTold
<1> QED
  BY <1>4, <1>7, <1>9, <1>10, <1>11, <1>12 DEF IInv

\* Off the list, a client owes nobody anything.
LEMMA DelistInv == ASSUME IInv, NEW c \in Clients, Delist(c) PROVE IInv'
<1> USE DEF Delist
<1>1. /\ UNCHANGED <<stage, ready, blocked, delayed, posting, hand, suspicion, cheaters, heard, frame,
                     refused, parted, told, discarded, halted>>
      /\ halted = "no"
  BY DEF queueVars, packetVars, antiCheatVars, historyVars
<1>2. TypeOK'
  BY <1>1 DEF IInv, TypeOK
<1>3. \A d \in Clients : removal'[d] = removal[d] \/ (d = c /\ removal[d] = "parted" /\ removal'[d] = "delisted")
  BY DEF IInv, TypeOK
<1>4. Forward /\ SameFront
  BY <1>1, <1>3 DEF IInv, TypeOK, Forward, FrontFits, SameFront
<1>5. EventsFit(ready', stage', heard') /\ HandFits' /\ FrontFits'
  BY <1>1, <1>4, ForwardFits
<1>6. PacketsFit'
  <2>1. delayed \in Seq(PacketType) /\ posting \subseteq PacketType
    BY DEF IInv, TypeOK, PacketType
  <2>2. \A i \in DOMAIN delayed : delayed[i] \in PacketType
    BY <2>1
  <2>3. \A packet \in PacketType : packet.client \in Clients
    BY DEF PacketType
  <2> QED
    BY <1>1, <1>3, <2>1, <2>2, <2>3 DEF IInv, PacketsFit
<1>7. ClientsFit' /\ ScoresFit'
  <2>1. ScoresFit'
    BY <1>1 DEF IInv, ScoresFit, Members
  <2>2. ClientsFit'
    BY <1>1, <1>3 DEF IInv, TypeOK, ClientsFit
  <2> QED
    BY <2>1, <2>2
<1>8. HaltsExplained' /\ DepartureTold'
  BY <1>1 DEF IInv, HaltsExplained, DepartureTold, Members
<1> QED
  BY <1>1, <1>2, <1>5, <1>6, <1>7, <1>8 DEF IInv

\* What the packets in the list are.
LEMMA PacketsKnown ==
    ASSUME IInv
    PROVE  /\ delayed \in Seq(PacketType)
           /\ \A i \in DOMAIN delayed :
                 delayed[i] \in PacketType /\ delayed[i].client \in Clients
                 /\ delayed[i].client \in heard /\ removal[delayed[i].client] # "removed"
<1>1. delayed \in Seq(PacketType)
  BY DEF IInv, TypeOK, PacketType
<1>2. \A i \in DOMAIN delayed : delayed[i] \in PacketType
  BY <1>1
<1>3. \A packet \in PacketType : packet.client \in Clients
  BY DEF PacketType
<1> QED
  BY <1>1, <1>2, <1>3 DEF IInv, PacketsFit

\* A packet of the client goes, and the game thread may lose the one it handles.
LEMMA ErasePacketInv == ASSUME IInv, NEW c \in Clients, ErasePacket(c) PROVE IInv'
<1>1. /\ UNCHANGED <<stage, ready, blocked, listed, removal, ending, posting, hand, suspicion, cheaters,
                     heard, frame, refused, parted, told, discarded, halted>>
      /\ halted = "no" /\ removal[c] = "delisted"
  BY DEF ErasePacket, queueVars, remoteVars, antiCheatVars, clientVars, historyVars
<1>2. PICK i \in PacketsOf(c) :
        delayed' = [n \in 1..Len(delayed) - 1 |-> delayed[IF n < i THEN n ELSE n + 1]]
  BY DEF ErasePacket
<1>3. delayed \in Seq(PacketType) /\ i \in DOMAIN delayed /\ delayed[i].client = c
  BY PacketsKnown DEF PacketsOf
<1>4. Len(delayed) \in Nat /\ DOMAIN delayed = 1..Len(delayed) /\ i \in Nat /\ i <= Len(delayed) /\ 1 <= i
  BY <1>3
<1>5. ASSUME NEW n \in 1..Len(delayed) - 1
      PROVE  (IF n < i THEN n ELSE n + 1) \in DOMAIN delayed
  BY <1>4
<1>6. /\ DOMAIN delayed' = 1..Len(delayed) - 1
      /\ \A n \in DOMAIN delayed' : \E j \in DOMAIN delayed : delayed'[n] = delayed[j]
  BY <1>2, <1>5
<1>7. delayed' \in Seq(PacketType)
  <2>1. delayed' \in [1..Len(delayed) - 1 -> PacketType]
    BY <1>2, <1>3, <1>5
  <2>2. Len(delayed) - 1 \in Nat
    BY <1>4
  <2> QED
    BY <2>1, <2>2
<1>8. TypeOK'
  BY <1>1, <1>7 DEF IInv, TypeOK, PacketType
<1>9. PacketsFit'
  BY <1>1, <1>6 DEF IInv, PacketsFit
<1>10. HandFits'
  <2>1. c \in heard /\ c \notin listed
    BY <1>1, <1>3, PacketsKnown DEF IInv, ClientsFit
  <2> QED
    BY <1>1, <2>1 DEF HandFits
<1>11. EventsFit(ready', stage', heard') /\ FrontFits' /\ ClientsFit' /\ ScoresFit'
  BY <1>1 DEF IInv, FrontFits, Missed, ClientsFit, ScoresFit, Members
<1>12. HaltsExplained' /\ DepartureTold'
  BY <1>1 DEF IInv, HaltsExplained, DepartureTold, Members
<1> QED
  BY <1>8, <1>9, <1>10, <1>11, <1>12 DEF IInv

\* The list of packets breaks only under a removal.
LEMMA RaceOverPacketsInv == ASSUME IInv, NEW c \in Clients, RaceOverPackets(c) PROVE IInv'
<1>1. /\ UNCHANGED <<stage, ready, blocked, listed, removal, ending, delayed, posting, hand, suspicion,
                     cheaters, heard, frame, refused, parted, told, discarded>>
      /\ halted' = "race" /\ removal[c] = "delisted"
  BY DEF RaceOverPackets, queueVars, remoteVars, antiCheatVars, clientVars, packetVars, historyVars
<1>2. HaltsExplained'
  BY <1>1 DEF HaltsExplained
<1>3. TypeOK' /\ EventsFit(ready', stage', heard') /\ PacketsFit' /\ HandFits' /\ FrontFits'
  BY <1>1 DEF IInv, TypeOK, PacketsFit, HandFits, FrontFits, Missed
<1>4. ClientsFit' /\ ScoresFit' /\ DepartureTold'
  BY <1>1 DEF IInv, ClientsFit, ScoresFit, DepartureTold, Members
<1> QED
  BY <1>2, <1>3, <1>4 DEF IInv

\* What erasing events leaves of the queue.
LEMMA ErasedFits ==
    ASSUME IInv, NEW positions \in SUBSET DOMAIN ready, EraseEventsAt(positions)
    PROVE  /\ ready' \in Seq(EventType) /\ EventsFit(ready', stage, heard)
           /\ Within(ready', ready)
           /\ Members(ready') = {ready[i] : i \in DOMAIN ready \ positions}
           /\ ready # << >> /\ 1 \notin positions => ready' # << >> /\ Head(ready') = Head(ready)
<1>1. ready \in Seq(EventType) /\ EventsFit(ready, stage, heard)
  BY DEF IInv, TypeOK, EventType
<1> DEFINE kept == DOMAIN ready \ positions
<1>2. PICK order \in InOrder(kept) : ready' = [n \in DOMAIN order |-> ready[order[n]]]
  BY DEF EraseEventsAt
<1>3. kept \in SUBSET DOMAIN ready
  OBVIOUS
<1>4. ready # << >> => 1 \in DOMAIN ready /\ ready[1] = Head(ready)
  BY <1>1
<1>5. 1 \notin positions /\ ready # << >> => 1 \in kept
  BY <1>4
<1> HIDE DEF kept
<1>6. /\ ready' \in Seq(EventType) /\ Within(ready', ready)
      /\ Members(ready') = {ready[i] : i \in kept}
      /\ 1 \in kept => ready' # << >> /\ Head(ready') = ready[1]
  BY <1>1, <1>2, <1>3, KeptWithin
<1>7. EventsFit(ready', stage, heard)
  BY <1>1, <1>6, WithinFits
<1> QED
  BY <1>4, <1>5, <1>6, <1>7 DEF kept

\* The reports on a client that leaves go, and with them perhaps the event in front.
LEMMA EraseReportsInv == ASSUME IInv, NEW c \in Clients, EraseReports(c) PROVE IInv'
<1>1. /\ UNCHANGED <<stage, blocked, listed, ending, delayed, posting, hand, suspicion, cheaters, heard,
                     refused, parted, told, discarded, halted>>
      /\ halted = "no" /\ removal[c] = "delisted" /\ Cleared(c)
      /\ removal' = [removal EXCEPT ![c] = "removed"]
  BY DEF EraseReports, remoteVars, antiCheatVars, packetVars, historyVars
<1>2. /\ \A d \in Clients : removal'[d] = removal[d] \/ (d = c /\ removal'[d] = "removed")
      /\ removal' \in [Clients -> {"none", "parted", "delisted", "removed"}]
  BY <1>1 DEF IInv, TypeOK
<1>3. /\ ready \in Seq(EventType) /\ EventsFit(ready, stage, heard)
      /\ ready # << >> => 1 \in DOMAIN ready /\ ready[1] = Head(ready)
  BY DEF IInv, TypeOK, EventType
<1>4. /\ ready' \in Seq(EventType) /\ EventsFit(ready', stage', heard')
      /\ \A d : Event("disconnected", NoSender, d) \in Members(ready) =>
                Event("disconnected", NoSender, d) \in Members(ready')
      /\ \/ frame' = frame /\ SameFront
         \/ frame' = "release" /\ stage[c] = "playing"
  <2>1. CASE UNCHANGED <<ready, frame>>
    <3>1. SameFront
      BY <2>1 DEF IInv, FrontFits, SameFront
    <3> QED
      BY <1>1, <1>3, <2>1, <3>1 DEF Members
  <2>2. CASE \E positions \in SUBSET ReportsOn(c) :
               EraseEventsAt(positions)
               /\ frame' = IF frame = "handled" /\ 1 \in positions THEN "release" ELSE frame
    <3>1. PICK positions \in SUBSET ReportsOn(c) :
            EraseEventsAt(positions)
            /\ frame' = IF frame = "handled" /\ 1 \in positions THEN "release" ELSE frame
      BY <2>2
    <3>2. /\ positions \in SUBSET DOMAIN ready
          /\ \A i \in positions : ready[i].type = "report" /\ ready[i].client = c
      BY <3>1 DEF ReportsOn
    <3>3. /\ ready' \in Seq(EventType) /\ EventsFit(ready', stage, heard)
          /\ Members(ready') = {ready[i] : i \in DOMAIN ready \ positions}
          /\ ready # << >> /\ 1 \notin positions => ready' # << >> /\ Head(ready') = Head(ready)
      BY <3>1, <3>2, ErasedFits
    <3>4. ASSUME NEW d, Event("disconnected", NoSender, d) \in Members(ready)
          PROVE  Event("disconnected", NoSender, d) \in Members(ready')
      <4>1. PICK i \in DOMAIN ready : ready[i] = Event("disconnected", NoSender, d)
        BY <3>4 DEF Members
      <4>2. ready[i].type = "disconnected"
        BY <4>1 DEF Event
      <4> QED
        BY <3>2, <3>3, <4>1, <4>2
    <3>5. 1 \in positions => stage[c] = "playing"
      <4> SUFFICES ASSUME 1 \in positions PROVE stage[c] = "playing"
        OBVIOUS
      <4>1. 1 \in DOMAIN ready /\ ready[1].type = "report" /\ ready[1].client = c
        BY <3>2
      <4> QED
        BY <1>3, <4>1 DEF EventsFit
    <3>6. frame = "attach" => 1 \notin positions
      BY <1>3, <3>2 DEF IInv, FrontFits
    <3>7. 1 \notin positions => SameFront
      BY <3>3 DEF IInv, FrontFits, SameFront
    <3>8. frame \notin {"attach", "handled"} => SameFront
      BY DEF SameFront
    <3> QED
      BY <1>1, <3>1, <3>3, <3>4, <3>5, <3>6, <3>7, <3>8
  <2> QED
    BY <2>1, <2>2 DEF EraseReports
<1>5. TypeOK'
  BY <1>1, <1>2, <1>4 DEF IInv, TypeOK, EventType
<1>6. Forward
  BY <1>1, <1>2 DEF IInv, TypeOK, Forward
<1>7. FrontFits'
  <2>1. CASE frame' = frame /\ SameFront
    BY <1>6, <2>1, ForwardFits
  <2>2. CASE frame' = "release" /\ stage[c] = "playing"
    BY <1>1, <1>2, <2>2 DEF FrontFits, Missed, IInv, TypeOK
  <2> QED
    BY <1>4, <2>1, <2>2
<1>8. PacketsFit'
  <2>1. \A i \in DOMAIN delayed : delayed[i].client # c
    BY <1>1 DEF Cleared, PacketsOf
  <2>2. \A packet \in posting : packet.client # c
    BY <1>1 DEF IInv, PacketsFit
  <2>3. posting \subseteq PacketType /\ \A packet \in PacketType : packet.client \in Clients
    BY DEF IInv, TypeOK, PacketType
  <2> QED
    BY <1>1, <1>2, <2>1, <2>2, <2>3, PacketsKnown DEF IInv, PacketsFit
<1>9. HandFits' /\ ClientsFit' /\ ScoresFit'
  <2>1. HandFits' /\ ScoresFit'
    BY <1>1 DEF IInv, HandFits, ScoresFit, Members
  <2>2. ClientsFit'
    BY <1>1, <1>2 DEF IInv, TypeOK, ClientsFit
  <2> QED
    BY <2>1, <2>2
<1>10. HaltsExplained' /\ DepartureTold'
  BY <1>1, <1>4 DEF IInv, HaltsExplained, DepartureTold
<1> QED
  BY <1>4, <1>5, <1>7, <1>8, <1>9, <1>10 DEF IInv

------------------------------------------------------------------------------
(* The game thread. *)

\* What a step does to the scores: those of clients that are out stay, and
\* whoever reaches the threshold is on the list or being disconnected.
ScoresKept ==
    /\ suspicion' \in [Clients -> Nat]
    /\ cheaters' \in Seq(Clients)
    /\ \A c \in Clients : stage[c] = "out" => suspicion'[c] = suspicion[c]
    /\ ScoresFit'

\* Scores nobody touches fit as before.
LEMMA SameScores ==
    ASSUME IInv, UNCHANGED antiCheatVars, listed' = listed, ending \subseteq ending'
    PROVE  ScoresKept
BY DEF IInv, TypeOK, ScoresKept, ScoresFit, Members, antiCheatVars

\* A client that is charged is on the list of clients.
LEMMA RegisterScores ==
    ASSUME IInv, NEW c \in Clients, NEW extra \in Nat, NEW score \in Nat,
           RegisterViolation(c, extra, score), stage[c] # "out",
           listed' = listed, ending \subseteq ending'
    PROVE  ScoresKept
<1>1. suspicion \in [Clients -> Nat] /\ cheaters \in Seq(Clients)
  BY DEF IInv, TypeOK
<1>2. /\ suspicion' \in [Clients -> Nat]
      /\ \A d \in Clients \ {c} : suspicion'[d] = suspicion[d]
  BY <1>1 DEF RegisterViolation
<1>3. /\ cheaters' \in Seq(Clients)
      /\ Members(cheaters) \subseteq Members(cheaters')
      /\ suspicion'[c] >= KickThreshold => c \in Members(cheaters')
  <2>1. CASE suspicion'[c] >= KickThreshold
    <3>1. cheaters' = Append(cheaters, c)
      BY <2>1 DEF RegisterViolation
    <3> QED
      BY <1>1, <3>1, AppendMembers
  <2>2. CASE ~ (suspicion'[c] >= KickThreshold)
    BY <1>1, <2>2 DEF RegisterViolation
  <2> QED
    BY <2>1, <2>2
<1>4. ScoresFit'
  BY <1>2, <1>3 DEF IInv, TypeOK, ScoresFit
<1> QED
  BY <1>2, <1>3, <1>4 DEF ScoresKept

\* KickCheaters() empties the list, and whoever was on it is being disconnected.
LEMMA EndFrameScores ==
    ASSUME IInv, EndFrame, listed' = listed
    PROVE  ScoresKept /\ ending \subseteq ending'
BY DEF IInv, TypeOK, EndFrame, KickCheaters, Kicked, ScoresKept, ScoresFit, Members

\* A departure stays where it is looked for, or the game is told.
LEMMA DeparturesKept ==
    ASSUME IInv, parted' = parted, told \subseteq told', discarded \subseteq discarded',
           \A c \in parted :
              LET departure == Event("disconnected", NoSender, c) IN
              departure \in Members(ready) =>
                  departure \in Members(ready') \cup discarded' \/ c \in told'
    PROVE  DepartureTold'
BY DEF IInv, DepartureTold

\* A step of the game thread lists and removes nobody.
LEMMA GameKeeps ==
    ASSUME IInv, ScoresKept, Forward,
           UNCHANGED <<listed, removal, posting, heard>>,
           \A c \in Clients : stage[c] = "out" => stage'[c] = "out",
           blocked' \subseteq Clients,
           ready' \in Seq(EventType), EventsFit(ready', stage', heard'),
           delayed' \in Seq(PacketType),
           \A i \in DOMAIN delayed' : \E j \in DOMAIN delayed : delayed'[i] = delayed[j],
           HandFits', FrontFits', HaltsExplained', DepartureTold'
    PROVE  IInv'
<1>1. TypeOK'
  BY DEF IInv, TypeOK, ScoresKept, EventType, PacketType, Forward
<1>2. PacketsFit'
  BY DEF IInv, PacketsFit
<1>3. ClientsFit' /\ ScoresFit'
  <2>1. ClientsFit'
    BY DEF IInv, TypeOK, ClientsFit, ScoresKept, Forward
  <2> QED
    BY <2>1 DEF ScoresKept
<1> QED
  BY <1>1, <1>2, <1>3 DEF IInv

\* A step that leaves the stages and the packets alone.
LEMMA QuietStep ==
    ASSUME IInv, ScoresKept,
           UNCHANGED <<listed, removal, posting, heard, delayed, hand, stage>>, refused \subseteq refused',
           blocked' \subseteq Clients,
           ready' \in Seq(EventType), EventsFit(ready', stage, heard),
           FrontFits', HaltsExplained', DepartureTold'
    PROVE  IInv'
<1>1. delayed' \in Seq(PacketType) /\ HandFits'
  BY DEF IInv, TypeOK, PacketType, HandFits
<1>2. Forward
  BY DEF IInv, TypeOK, Forward
<1> QED
  BY <1>1, <1>2, GameKeeps

\* The oldest packet, and what is known of its client.
LEMMA HeadPacket ==
    ASSUME IInv, NEW kind, NEW c \in Clients, Handles(kind, c)
    PROVE  /\ c \in heard /\ stage[c] # "out"
           /\ UNCHANGED <<ready, blocked, delayed, posting, frame, refused, parted, told, discarded>>
           /\ delayed' # << >> /\ halted = "no" /\ frame = "packets"
           /\ delayed \in Seq(PacketType) /\ ready \in Seq(EventType) /\ EventsFit(ready, stage, heard)
           /\ blocked \subseteq Clients /\ stage \in [Clients -> Stages]
<1>1. /\ delayed \in Seq(PacketType) /\ ready \in Seq(EventType) /\ blocked \subseteq Clients
      /\ stage \in [Clients -> Stages] /\ EventsFit(ready, stage, heard)
  BY DEF IInv, TypeOK, PacketType, EventType
<1>2. delayed # << >> /\ Head(delayed).client = c
  BY DEF Handles, Packet
<1>3. 1 \in DOMAIN delayed /\ delayed[1].client = c
  BY <1>1, <1>2
<1>4. c \in heard /\ stage[c] # "out"
  BY <1>3 DEF IInv, PacketsFit, ClientsFit
<1> QED
  BY <1>1, <1>2, <1>4 DEF Handles, GameAt, queueVars, packetVars, historyVars

\* The four outcomes of a packet.
LEMMA PacketInv ==
    ASSUME IInv, NEW c \in Clients,
           HandleOrphan(c) \/ HandleLimited(c) \/ HandleRequest(c) \/ HandleCommand(c)
    PROVE  IInv'
<1>1. PICK kind \in {"request", "command"} : Handles(kind, c)
  BY DEF HandleOrphan, HandleLimited, HandleRequest, HandleCommand
<1>2. /\ c \in heard /\ stage[c] # "out"
      /\ UNCHANGED <<ready, blocked, delayed, posting, frame, refused, parted, told, discarded>>
      /\ delayed' # << >> /\ halted = "no" /\ frame = "packets"
      /\ delayed \in Seq(PacketType) /\ ready \in Seq(EventType) /\ EventsFit(ready, stage, heard)
      /\ blocked \subseteq Clients /\ stage \in [Clients -> Stages]
  BY <1>1, HeadPacket
<1>3. listed' = listed /\ removal' = removal /\ ending' = ending /\ heard' = heard
  BY DEF HandleOrphan, HandleLimited, HandleRequest, HandleCommand, clientVars, remoteVars
<1>4. ScoresKept
  <2>1. CASE UNCHANGED antiCheatVars
    BY <1>3, <2>1, SameScores
  <2>2. CASE RegisterViolation(c, 0, LimitedScore)
    <3>1. LimitedScore \in Nat
      BY AntiCheatAssumption
    <3> QED
      BY <1>2, <1>3, <2>2, <3>1, RegisterScores
  <2> QED
    BY <2>1, <2>2 DEF HandleOrphan, HandleLimited, HandleRequest, HandleCommand
<1>5. stage' = stage \/ stage' = [stage EXCEPT ![c] = "playing"]
  BY DEF HandleOrphan, HandleLimited, HandleRequest, HandleCommand, remoteVars
<1>6. Forward /\ \A d \in Clients : stage[d] = "out" => stage'[d] = "out"
  BY <1>2, <1>3, <1>5 DEF Forward, Stages
<1>7. HaltsExplained'
  <2>1. halted' \in {"no", "locks"} \/ (halted' = "client" /\ c \notin listed)
    BY <1>2 DEF HandleOrphan, HandleLimited, HandleRequest, HandleCommand
  <2> QED
    BY <1>2, <1>3, <2>1 DEF HaltsExplained
<1>8. DepartureTold' /\ HandFits' /\ EventsFit(ready', stage', heard') /\ FrontFits'
  <2>1. EventsFit(ready, stage', heard')
    BY <1>6, ForwardFits
  <2> QED
    BY <1>2, <2>1 DEF IInv, DepartureTold, Members, HandFits, FrontFits
<1> QED
  BY <1>2, <1>3, <1>4, <1>6, <1>7, <1>8, GameKeeps

\* The packet is taken off, whichever it is by now.
LEMMA PopPacketInv == ASSUME IInv, PopPacket PROVE IInv'
<1>1. /\ UNCHANGED <<listed, removal, posting, stage, ready, blocked, ending, frame, heard, refused, parted,
                     told, discarded>>
      /\ UNCHANGED antiCheatVars /\ hand' = << >> /\ halted = "no" /\ hand # << >> /\ frame = "packets"
  BY DEF PopPacket, GameAt, clientVars, remoteVars, queueVars, historyVars
<1>2. /\ delayed \in Seq(PacketType) /\ ready \in Seq(EventType) /\ blocked \subseteq Clients
      /\ stage \in [Clients -> Stages] /\ EventsFit(ready, stage, heard)
  BY DEF IInv, TypeOK, PacketType, EventType
<1>3. /\ delayed' \in Seq(PacketType)
      /\ \A i \in DOMAIN delayed' : \E j \in DOMAIN delayed : delayed'[i] = delayed[j]
  <2>1. CASE delayed' = delayed
    BY <1>2, <2>1
  <2>2. CASE delayed # << >> /\ delayed' = Tail(delayed)
    BY <1>2, <2>2, TailWithin
  <2> QED
    BY <2>1, <2>2 DEF PopPacket
<1>4. HaltsExplained'
  <2>1. halted' = "no" \/ (halted' = "pop" /\ delayed = << >>)
    BY <1>1 DEF PopPacket
  <2> QED
    BY <1>1, <2>1 DEF IInv, HandFits, HaltsExplained
<1>5. HandFits' /\ DepartureTold' /\ FrontFits'
  BY <1>1 DEF IInv, HandFits, DepartureTold, Members, FrontFits
<1>6. ScoresKept /\ Forward
  BY <1>1, <1>2, SameScores DEF Forward
<1> QED
  BY <1>1, <1>2, <1>3, <1>4, <1>5, <1>6, GameKeeps

\* The event in front, and what is known of its client.
LEMMA HeadEvent ==
    ASSUME IInv, NEW type, NEW c \in Clients, InFront(type, c)
    PROVE  /\ ready \in Seq(EventType) /\ ready # << >>
           /\ Head(ready) \in EventType /\ Head(ready).type = type /\ Head(ready).client = c
           /\ EventsFit(ready, stage, heard)
           /\ stage[c] # "out" /\ stage \in [Clients -> Stages]
           /\ type \in {"state", "auth"} => c \in heard
           /\ type = "report" => stage[c] = "playing"
           /\ halted = "no" /\ frame = "events"
<1>1. ready \in Seq(EventType) /\ EventsFit(ready, stage, heard) /\ stage \in [Clients -> Stages]
  BY DEF IInv, TypeOK, EventType
<1>2. ready # << >> /\ Head(ready).type = type /\ Head(ready).client = c
  BY DEF InFront
<1>3. Head(ready) \in EventType /\ 1 \in DOMAIN ready /\ ready[1] = Head(ready)
  BY <1>1, <1>2, TailWithin
<1> QED
  BY <1>1, <1>2, <1>3 DEF EventsFit, InFront, GameAt

\* What Release() leaves.
LEMMA ReleaseFits ==
    ASSUME IInv, ready # << >>, Release
    PROVE  /\ ready' \in Seq(EventType) /\ EventsFit(ready', stage, heard)
           /\ Members(ready) = Members(ready') \cup {Head(ready)}
<1>1. ready \in Seq(EventType) /\ EventsFit(ready, stage, heard)
  BY DEF IInv, TypeOK, EventType
<1>2. /\ ready' \in Seq(EventType) /\ Within(ready', ready)
      /\ Members(ready) = Members(ready') \cup {Head(ready)}
  BY <1>1, TailWithin DEF Release
<1> QED
  BY <1>1, <1>2, WithinFits

\* An event that is taken off, and is no departure or is recorded.
LEMMA ReleaseKeeps ==
    ASSUME IInv, ScoresKept, ready # << >>, Release, frame' = "events",
           UNCHANGED <<listed, removal, posting, heard, delayed, hand, stage, parted>>,
           blocked' \subseteq Clients, refused \subseteq refused', discarded \subseteq discarded',
           told \subseteq told', HaltsExplained',
           \A d \in Clients : Head(ready) = Event("disconnected", NoSender, d) =>
                d \in told' \/ Head(ready) \in discarded'
    PROVE  IInv'
<1>1. /\ ready' \in Seq(EventType) /\ EventsFit(ready', stage, heard)
      /\ Members(ready) = Members(ready') \cup {Head(ready)}
  BY ReleaseFits
<1>2. DepartureTold'
  <2> SUFFICES ASSUME NEW c \in parted,
                      Event("disconnected", NoSender, c) \notin Members(ready') \cup discarded', c \notin told'
               PROVE  FALSE
    BY DEF DepartureTold
  <2>1. Event("disconnected", NoSender, c) \in Members(ready)
    BY DEF IInv, DepartureTold
  <2>2. Head(ready) = Event("disconnected", NoSender, c)
    BY <1>1, <2>1
  <2>3. Head(ready) \in EventType
    BY TailWithin DEF IInv, TypeOK, EventType
  <2>4. c \in Clients
    BY <2>2, <2>3 DEF Event, EventType
  <2> QED
    BY <2>2, <2>4
<1>3. FrontFits'
  BY DEF FrontFits
<1> QED
  BY <1>1, <1>2, <1>3, QuietStep

\* An event other than a departure, whose handler leaves the stages alone.
LEMMA HandledQuietly ==
    ASSUME IInv, NEW type, NEW c \in Clients, InFront(type, c), Release, ScoresKept,
           UNCHANGED <<listed, removal, stage, posting, heard, delayed, hand, frame, parted>>,
           blocked' \subseteq Clients, refused \subseteq refused', discarded \subseteq discarded',
           told \subseteq told', type # "disconnected" \/ c \in told',
           \/ halted' = halted
           \/ halted' = "client" /\ c \notin listed /\ type \in {"state", "auth"}
    PROVE  IInv'
<1>1. /\ ready # << >> /\ Head(ready).type = type /\ Head(ready).client = c
      /\ frame' = "events" /\ halted = "no"
      /\ type \in {"state", "auth"} => c \in heard
  BY HeadEvent
<1>2. HaltsExplained'
  BY <1>1 DEF HaltsExplained
<1>3. \A d \in Clients : Head(ready) = Event("disconnected", NoSender, d) => d \in told'
  BY <1>1 DEF Event
<1> QED
  BY <1>1, <1>2, <1>3, ReleaseKeeps

\* The client is looked up: attached next, or left out.
LEMMA OnCreateClientInv == ASSUME IInv, NEW c \in Clients, OnCreateClient(c) PROVE IInv'
<1>1. /\ UNCHANGED <<blocked, listed, removal, ending, refused, told, discarded, parted, delayed, posting,
                     hand, stage, heard>>
      /\ UNCHANGED antiCheatVars /\ InFront("create", c) /\ halted' = halted
  BY DEF OnCreateClient, AttachIfFound, packetVars, remoteVars, historyVars
<1>2. /\ ready \in Seq(EventType) /\ ready # << >> /\ Head(ready).type = "create"
      /\ EventsFit(ready, stage, heard) /\ halted = "no" /\ frame = "events"
  BY <1>1, HeadEvent
<1>3. ScoresKept /\ blocked' \subseteq Clients
  BY <1>1, SameScores DEF IInv, TypeOK
<1>4. CASE ready' = ready /\ frame' = "attach"
  <2>1. FrontFits' /\ HaltsExplained' /\ DepartureTold'
    BY <1>1, <1>2, <1>4 DEF IInv, FrontFits, HaltsExplained, DepartureTold, Members
  <2> QED
    BY <1>1, <1>2, <1>3, <1>4, <2>1, QuietStep
<1>5. CASE Release /\ frame' = frame
  BY <1>1, <1>3, <1>5, HandledQuietly
<1> QED
  BY <1>4, <1>5 DEF OnCreateClient, AttachIfFound

\* Attached, a client is challenged, unless it has gone since it was looked up.
LEMMA AttachNewClientInv == ASSUME IInv, NEW c \in Clients, AttachNewClient(c) PROVE IInv'
<1>1. /\ UNCHANGED <<blocked, listed, removal, ending, refused, told, discarded, parted, delayed, posting,
                     hand, heard>>
      /\ UNCHANGED antiCheatVars /\ halted = "no" /\ frame = "attach" /\ Head(ready).client = c
  BY DEF AttachNewClient, clientVars, packetVars, historyVars, GameAt
<1>2. /\ ready \in Seq(EventType) /\ ready # << >> /\ Head(ready).type = "create"
      /\ EventsFit(ready, stage, heard) /\ stage \in [Clients -> Stages]
  BY <1>1 DEF IInv, TypeOK, EventType, FrontFits
<1>3. ScoresKept /\ blocked' \subseteq Clients
  BY <1>1, SameScores DEF IInv, TypeOK
<1>4. CASE /\ c \in listed /\ Release /\ frame' = "events" /\ halted' = halted
           /\ stage' = [stage EXCEPT ![c] = IF @ = "waiting" THEN "challenged" ELSE @]
  <2>1. Forward /\ \A d \in Clients : stage[d] = "out" => stage'[d] = "out"
    BY <1>1, <1>2, <1>4 DEF Forward, Stages
  <2>2. /\ ready' \in Seq(EventType) /\ EventsFit(ready', stage, heard)
        /\ Members(ready) = Members(ready') \cup {Head(ready)}
    BY <1>2, <1>4, ReleaseFits
  <2>3. \A i \in DOMAIN ready' : ready'[i].client \in Clients
    <3>1. \A i \in DOMAIN ready' : ready'[i] \in EventType
      BY <2>2
    <3> QED
      BY <3>1 DEF EventType
  <2>4. EventsFit(ready', stage', heard')
    BY <1>1, <2>1, <2>2, <2>3 DEF EventsFit, Forward
  <2>5. DepartureTold'
    <3>1. \A d : Event("disconnected", NoSender, d) # Head(ready)
      BY <1>2 DEF Event
    <3> QED
      BY <1>1, <2>2, <3>1, DeparturesKept
  <2>6. HandFits' /\ FrontFits' /\ HaltsExplained'
    BY <1>1, <1>4 DEF IInv, HandFits, FrontFits, HaltsExplained
  <2>7. delayed' \in Seq(PacketType)
    BY <1>1 DEF IInv, TypeOK, PacketType
  <2> QED
    BY <1>1, <1>3, <2>1, <2>2, <2>4, <2>5, <2>6, <2>7, GameKeeps
<1>5. CASE c \notin listed /\ halted' = "client" /\ UNCHANGED <<ready, stage, frame>>
  <2>1. HaltsExplained'
    BY <1>1, <1>5 DEF HaltsExplained
  <2>2. FrontFits' /\ DepartureTold'
    BY <1>1, <1>5 DEF IInv, FrontFits, DepartureTold, Members
  <2> QED
    BY <1>1, <1>2, <1>3, <1>5, <2>1, <2>2, QuietStep
<1> QED
  BY <1>4, <1>5 DEF AttachNewClient

\* A player state for a client that is gone stops the server.
LEMMA OnCreatePlayerStateInv == ASSUME IInv, NEW c \in Clients, OnCreatePlayerState(c) PROVE IInv'
<1>1. /\ UNCHANGED <<blocked, listed, removal, ending, stage, refused, told, discarded, posting, heard,
                     delayed, hand, frame, parted>>
      /\ UNCHANGED antiCheatVars /\ InFront("state", c) /\ Release
      /\ halted' = halted \/ (halted' = "client" /\ c \notin listed)
  BY DEF OnCreatePlayerState, Handled, packetVars
<1>2. ScoresKept /\ blocked' \subseteq Clients
  BY <1>1, SameScores DEF IInv, TypeOK
<1> QED
  BY <1>1, <1>2, HandledQuietly

\* A refusal erases what the client sent; nothing it left is told in its name.
LEMMA OnRefusedPlayerStateInv ==
    ASSUME IInv, NEW c \in Clients, OnRefusedPlayerState(c) PROVE IInv'
<1>1. /\ UNCHANGED <<blocked, listed, removal, delayed, posting, hand, stage, heard, halted, parted, told,
                     discarded>>
      /\ UNCHANGED antiCheatVars /\ frame' = "release" /\ halted = "no"
      /\ refused' = refused \cup {c} /\ ending' = ending \cup {c}
      /\ EraseEventsAt(EventsFrom(c))
  BY DEF OnRefusedPlayerState, packetVars, remoteVars, InFront, GameAt
<1>2. EventsFrom(c) \in SUBSET DOMAIN ready /\ blocked \subseteq Clients
  BY DEF IInv, TypeOK, EventsFrom
<1>3. /\ ready' \in Seq(EventType) /\ EventsFit(ready', stage, heard)
      /\ Members(ready') = {ready[i] : i \in DOMAIN ready \ EventsFrom(c)}
  BY <1>1, <1>2, ErasedFits
<1>4. DepartureTold'
  <2>1. ASSUME NEW d, Event("disconnected", NoSender, d) \in Members(ready)
        PROVE  Event("disconnected", NoSender, d) \in Members(ready')
    <3>1. PICK i \in DOMAIN ready : ready[i] = Event("disconnected", NoSender, d)
      BY <2>1 DEF Members
    <3>2. i \notin EventsFrom(c)
      BY <3>1, FrameAssumption DEF Event, EventsFrom
    <3> QED
      BY <1>3, <3>1, <3>2
  <2> QED
    BY <1>1, <2>1, DeparturesKept
<1>5. ScoresKept
  BY <1>1, SameScores
<1>6. HaltsExplained' /\ FrontFits'
  BY <1>1 DEF HaltsExplained, FrontFits, Missed
<1> QED
  BY <1>1, <1>2, <1>3, <1>4, <1>5, <1>6, QuietStep

\* A report is being handled, and is taken off if it is still there.
LEMMA ReportInv ==
    ASSUME IInv, ReleaseReport \/ \E c \in Clients : OnReport(c)
    PROVE  IInv'
<1>1. /\ UNCHANGED <<blocked, listed, removal, ending, delayed, posting, hand, stage, heard, halted,
                     refused, parted, told, discarded>>
      /\ UNCHANGED antiCheatVars /\ halted = "no"
  BY DEF OnReport, ReleaseReport, InFront, GameAt, queueVars, clientVars, packetVars, remoteVars, historyVars
<1>2. ScoresKept /\ blocked' \subseteq Clients /\ HaltsExplained'
  BY <1>1, SameScores DEF IInv, TypeOK, HaltsExplained
<1>3. ASSUME NEW c \in Clients, OnReport(c) PROVE IInv'
  <2>1. InFront("report", c) /\ frame' = "handled" /\ ready' = ready
    BY <1>3 DEF OnReport, queueVars
  <2>2. /\ ready \in Seq(EventType) /\ ready # << >> /\ Head(ready).type = "report"
        /\ Head(ready).client = c /\ stage[c] = "playing" /\ EventsFit(ready, stage, heard)
    BY <2>1, HeadEvent
  <2>3. FrontFits' /\ DepartureTold'
    BY <1>1, <2>1, <2>2 DEF IInv, FrontFits, DepartureTold, Members
  <2> QED
    BY <1>1, <1>2, <2>1, <2>2, <2>3, QuietStep
<1>4. CASE ReleaseReport
  <2>1. Release /\ frame = "handled" /\ frame' = "events"
    BY <1>4 DEF ReleaseReport, GameAt
  <2>2. ready # << >> /\ \A d : Head(ready) # Event("disconnected", NoSender, d)
    BY <2>1 DEF IInv, FrontFits, Event
  <2> QED
    BY <1>1, <1>2, <2>1, <2>2, ReleaseKeeps
<1> QED
  BY <1>3, <1>4

\* The stray Release() records what it throws away.
LEMMA ReleaseAfterErasureInv == ASSUME IInv, ReleaseAfterErasure PROVE IInv'
<1>1. /\ UNCHANGED <<blocked, listed, removal, ending, delayed, posting, hand, stage, heard, refused,
                     parted, told>>
      /\ UNCHANGED antiCheatVars /\ frame' = "events" /\ frame = "release" /\ halted = "no"
  BY DEF ReleaseAfterErasure, clientVars, packetVars, remoteVars, queueVars, GameAt
<1>2. ScoresKept /\ blocked' \subseteq Clients
  BY <1>1, SameScores DEF IInv, TypeOK
<1>3. CASE ready # << >> /\ Release /\ discarded' = discarded \cup {Head(ready)} /\ halted' = halted
  <2>1. HaltsExplained'
    BY <1>1, <1>3 DEF HaltsExplained
  <2> QED
    BY <1>1, <1>2, <1>3, <2>1, ReleaseKeeps
<1>4. CASE halted' = "release" /\ UNCHANGED <<queueVars, discarded>>
  <2>1. ready' = ready /\ discarded' = discarded
    BY <1>4 DEF queueVars
  <2>2. Missed
    BY <1>1 DEF IInv, FrontFits
  <2>3. HaltsExplained'
    BY <1>1, <1>4, <2>2 DEF HaltsExplained, Missed
  <2>4. FrontFits' /\ DepartureTold'
    BY <1>1, <2>1 DEF IInv, FrontFits, DepartureTold, Members
  <2>5. ready \in Seq(EventType) /\ EventsFit(ready, stage, heard)
    BY DEF IInv, TypeOK, EventType
  <2> QED
    BY <1>1, <1>2, <2>1, <2>3, <2>4, <2>5, QuietStep
<1> QED
  BY <1>3, <1>4 DEF ReleaseAfterErasure

\* An answer to the challenge may be charged for, and asks for a digest.
LEMMA OnPlayerAuthInv == ASSUME IInv, NEW c \in Clients, OnPlayerAuth(c) PROVE IInv'
<1>1. /\ UNCHANGED <<blocked, listed, removal, refused, told, discarded, parted, delayed, posting, hand,
                     frame, heard>>
      /\ ending \subseteq ending' /\ InFront("auth", c) /\ Release
      /\ halted' = halted \/ (halted' = "client" /\ c \notin listed)
  BY DEF OnPlayerAuth, JudgeAuth, Handled, packetVars
<1>2. /\ ready \in Seq(EventType) /\ ready # << >> /\ Head(ready).type = "auth"
      /\ c \in heard /\ stage[c] # "out" /\ stage \in [Clients -> Stages]
      /\ halted = "no" /\ frame = "events"
  BY <1>1, HeadEvent
<1>3. ScoresKept
  <2>1. CASE UNCHANGED antiCheatVars
    BY <1>1, <2>1, SameScores
  <2>2. CASE RegisterViolation(c, 0, DigestScore)
    <3>1. DigestScore \in Nat
      BY AntiCheatAssumption
    <3> QED
      BY <1>1, <1>2, <2>2, <3>1, RegisterScores
  <2> QED
    BY <2>1, <2>2 DEF OnPlayerAuth, JudgeAuth
<1>4. stage' = stage \/ stage' = [stage EXCEPT ![c] = IF @ = "answered" THEN "asked" ELSE @]
  BY DEF OnPlayerAuth, JudgeAuth
<1>5. Forward /\ \A d \in Clients : stage[d] = "out" => stage'[d] = "out"
  BY <1>1, <1>2, <1>4 DEF Forward, Stages
<1>6. /\ ready' \in Seq(EventType) /\ EventsFit(ready', stage, heard)
      /\ Members(ready) = Members(ready') \cup {Head(ready)}
  BY <1>1, <1>2, ReleaseFits
<1>7. \A i \in DOMAIN ready' : ready'[i].client \in Clients
  <2>1. \A i \in DOMAIN ready' : ready'[i] \in EventType
    BY <1>6
  <2> QED
    BY <2>1 DEF EventType
<1>8. EventsFit(ready', stage', heard')
  BY <1>5, <1>6, <1>7 DEF EventsFit, Forward
<1>9. DepartureTold'
  <2>1. \A d : Event("disconnected", NoSender, d) # Head(ready)
    BY <1>2 DEF Event
  <2> QED
    BY <1>1, <1>6, <2>1, DeparturesKept
<1>10. HandFits' /\ FrontFits' /\ HaltsExplained'
  BY <1>1, <1>2 DEF IInv, HandFits, FrontFits, HaltsExplained
<1>11. delayed' \in Seq(PacketType) /\ blocked' \subseteq Clients
  BY <1>1 DEF IInv, TypeOK, PacketType
<1> QED
  BY <1>1, <1>3, <1>5, <1>6, <1>8, <1>9, <1>10, <1>11, GameKeeps

\* The other events: hits are charged for, started clients are heard again,
\* the game is told of departures.
LEMMA OtherEventInv ==
    ASSUME IInv, NEW c \in Clients,
           OnHit(c) \/ OnPlayerStarted(c) \/ OnStartedElsewhere(c) \/ OnPlayerDisconnect(c)
    PROVE  IInv'
<1>1. /\ UNCHANGED <<listed, removal, ending, stage, halted, refused, delayed, posting, hand, heard,
                     frame, parted>>
      /\ told \subseteq told' /\ discarded \subseteq discarded' /\ blocked' \subseteq blocked /\ Release
  BY DEF OnHit, OnPlayerStarted, OnStartedElsewhere, OnPlayerDisconnect, Handled, clientVars,
         packetVars, remoteVars, historyVars, SetIgnoreEventsFor
<1>2. blocked' \subseteq Clients
  BY <1>1 DEF IInv, TypeOK
<1>3. CASE OnHit(c)
  <2>1. InFront("hit", c)
    BY <1>3 DEF OnHit, Handled
  <2>2. stage[c] # "out"
    BY <2>1, HeadEvent
  <2>3. ScoresKept
    <3>1. CASE UNCHANGED antiCheatVars
      BY <1>1, <3>1, SameScores
    <3>2. CASE RefuseHit(c)
      <4>1. PICK extra \in HitScores : RegisterViolation(c, extra, RegisteredScore)
        BY <3>2 DEF RefuseHit
      <4>2. extra \in Nat /\ RegisteredScore \in Nat
        BY AntiCheatAssumption
      <4> QED
        BY <1>1, <2>2, <4>1, <4>2, RegisterScores
    <3> QED
      BY <1>3, <3>1, <3>2 DEF OnHit
  <2> QED
    BY <1>1, <1>2, <2>1, <2>3, HandledQuietly
<1>4. CASE OnPlayerStarted(c) \/ OnStartedElsewhere(c) \/ OnPlayerDisconnect(c)
  <2>1. UNCHANGED antiCheatVars
    BY <1>4 DEF OnPlayerStarted, OnStartedElsewhere, OnPlayerDisconnect
  <2>2. ScoresKept
    BY <1>1, <2>1, SameScores
  <2>3. \/ InFront("started", c) \/ InFront("elsewhere", c)
        \/ InFront("disconnected", c) /\ c \in told'
    BY <1>4 DEF OnPlayerStarted, OnStartedElsewhere, OnPlayerDisconnect, Handled
  <2>4. CASE InFront("started", c)
    BY <1>1, <1>2, <2>2, <2>4, HandledQuietly
  <2>5. CASE InFront("elsewhere", c)
    BY <1>1, <1>2, <2>2, <2>5, HandledQuietly
  <2>6. CASE InFront("disconnected", c) /\ c \in told'
    BY <1>1, <1>2, <2>2, <2>6, HandledQuietly
  <2> QED
    BY <2>3, <2>4, <2>5, <2>6
<1> QED
  BY <1>3, <1>4

\* The game thread goes on to its next place.
LEMMA EndStageInv == ASSUME IInv, EndPackets \/ EndEvents PROVE IInv'
<1>1. /\ UNCHANGED <<ready, blocked, listed, removal, ending, delayed, posting, hand, stage, heard, halted,
                     refused, parted, told, discarded>>
      /\ UNCHANGED antiCheatVars /\ frame' \in {"events", "update"}
  BY DEF EndPackets, EndEvents, clientVars, packetVars, remoteVars, queueVars, historyVars, GameAt
<1>2. ready \in Seq(EventType) /\ EventsFit(ready, stage, heard) /\ blocked \subseteq Clients
  BY DEF IInv, TypeOK, EventType
<1>3. halted = "no"
  BY DEF EndPackets, EndEvents, GameAt
<1>4. HaltsExplained' /\ DepartureTold' /\ FrontFits'
  BY <1>1, <1>3 DEF IInv, HaltsExplained, DepartureTold, Members, FrontFits
<1>5. ScoresKept
  BY <1>1, SameScores
<1> QED
  BY <1>1, <1>2, <1>4, <1>5, QuietStep

\* Erasing every event records them all.
LEMMA EraseEventsKeeps ==
    ASSUME IInv, EraseEvents, discarded' = discarded \cup Members(ready),
           UNCHANGED <<parted, told>>
    PROVE  ready' \in Seq(EventType) /\ EventsFit(ready', stage, heard) /\ DepartureTold'
<1>1. ready' = << >>
  BY DEF EraseEvents
<1>2. ready' \in Seq(EventType) /\ EventsFit(ready', stage, heard)
  BY <1>1 DEF EventsFit
<1>3. DepartureTold'
  BY DeparturesKept
<1> QED
  BY <1>2, <1>3

\* The rules of the game, and the cheaters.
LEMMA RulesInv ==
    ASSUME IInv, NothingNew \/ OnRoundStart \/ OnPlayerScores \/ OnRoundEnd \/ IgnoreClients
    PROVE  IInv'
<1>1. /\ UNCHANGED <<listed, removal, delayed, posting, hand, stage, heard, halted, refused, parted, told>>
      /\ frame' \in {"packets", "ignore"} /\ halted = "no"
  BY DEF NothingNew, OnRoundStart, OnPlayerScores, OnRoundEnd, IgnoreClients, Plays, EndFrame,
         packetVars, remoteVars, historyVars, GameAt
<1>2. ScoresKept
  <2>1. CASE EndFrame
    BY <1>1, <2>1, EndFrameScores
  <2>2. CASE OnRoundEnd
    <3>1. UNCHANGED antiCheatVars /\ ending' = ending
      BY <2>2 DEF OnRoundEnd
    <3> QED
      BY <1>1, <3>1, SameScores
  <2> QED
    BY <2>1, <2>2 DEF NothingNew, OnRoundStart, OnPlayerScores, IgnoreClients
<1>3. ready' \in Seq(EventType) /\ EventsFit(ready', stage, heard) /\ DepartureTold'
  <2>1. CASE OnRoundStart \/ OnRoundEnd
    BY <1>1, <2>1, EraseEventsKeeps DEF OnRoundStart, OnRoundEnd
  <2>2. CASE NothingNew \/ OnPlayerScores \/ IgnoreClients
    <3>1. ready' = ready /\ discarded' = discarded
      BY <2>2 DEF NothingNew, OnPlayerScores, IgnoreClients, queueVars, historyVars
    <3> QED
      BY <1>1, <3>1 DEF IInv, TypeOK, EventType, DepartureTold, Members
  <2> QED
    BY <2>1, <2>2
<1>4. blocked' \subseteq Clients
  BY DEF IInv, TypeOK, NothingNew, OnRoundStart, OnPlayerScores, OnRoundEnd, IgnoreClients,
         SetIgnoreEventsFor, queueVars
<1>5. HaltsExplained' /\ FrontFits'
  BY <1>1 DEF HaltsExplained, FrontFits
<1> QED
  BY <1>1, <1>2, <1>3, <1>4, <1>5, QuietStep

------------------------------------------------------------------------------
(* The specification. *)

LEMMA InitInv == Init => IInv
<1> SUFFICES ASSUME Init PROVE IInv
  OBVIOUS
<1> USE DEF Init, QueueInit, AntiCheatInit
<1>1. TypeOK
  BY FrameAssumption DEF TypeOK, Stages
<1>2. EventsFit(ready, stage, heard) /\ PacketsFit /\ HandFits /\ FrontFits
  BY DEF EventsFit, PacketsFit, HandFits, FrontFits
<1>3. ClientsFit /\ ScoresFit
  <2>1. \A c \in Clients : suspicion[c] < KickThreshold
    BY AntiCheatAssumption
  <2>2. \A c \in Clients : ~ (suspicion[c] >= KickThreshold)
    BY AntiCheatAssumption
  <2> QED
    BY <2>1, <2>2, FrameAssumption DEF ClientsFit, ScoresFit
<1>4. HaltsExplained /\ DepartureTold
  BY DEF HaltsExplained, DepartureTold
<1> QED
  BY <1>1, <1>2, <1>3, <1>4 DEF IInv

\* Every message keeps the invariant.
LEMMA MessageInv == ASSUME IInv, NEW c \in Clients, Message(c) PROVE IInv'
<1>1. ASSUME NEW d \in Clients, ReceiveHit(c, d) \/ ReceiveReport(c, d) PROVE IInv'
  BY <1>1, ReportingInv
<1>2. CASE ReceiveStarted(c)
  BY <1>2, ReportingInv
<1>3. CASE ReceivePlayerState(c) \/ ReceiveAuth(c)
  BY <1>3, AnswerInv
<1>4. CASE ReceiveDigest(c)
  BY <1>4, ReceiveDigestInv
<1>5. CASE ReceiveConnectionRequest(c) \/ ReceiveCommand(c)
  BY <1>5, PostingInv
<1> QED
  BY <1>1, <1>2, <1>3, <1>4, <1>5 DEF Message

\* So does every step of the game thread.
LEMMA GameThreadInv == ASSUME IInv, GameThread PROVE IInv'
<1>1. ASSUME NEW c \in Clients,
             HandleOrphan(c) \/ HandleLimited(c) \/ HandleRequest(c) \/ HandleCommand(c)
      PROVE  IInv'
  BY <1>1, PacketInv
<1>2. ASSUME NEW c \in Clients,
             \/ OnCreateClient(c) \/ AttachNewClient(c) \/ OnCreatePlayerState(c)
             \/ OnRefusedPlayerState(c) \/ OnPlayerAuth(c)
      PROVE  IInv'
  BY <1>2, OnCreateClientInv, AttachNewClientInv, OnCreatePlayerStateInv, OnRefusedPlayerStateInv,
     OnPlayerAuthInv
<1>3. ASSUME NEW c \in Clients,
             OnHit(c) \/ OnPlayerStarted(c) \/ OnStartedElsewhere(c) \/ OnPlayerDisconnect(c)
      PROVE  IInv'
  BY <1>3, OtherEventInv
<1>4. CASE \E c \in Clients : OnReport(c)
  BY <1>4, ReportInv
<1>5. CASE ReleaseReport
  BY <1>5, ReportInv
<1>6. CASE NothingNew \/ OnRoundStart \/ OnPlayerScores \/ OnRoundEnd \/ IgnoreClients
  BY <1>6, RulesInv
<1>7. CASE PopPacket \/ EndPackets \/ EndEvents \/ ReleaseAfterErasure
  BY <1>7, PopPacketInv, EndStageInv, ReleaseAfterErasureInv
<1> QED
  BY <1>1, <1>2, <1>3, <1>4, <1>5, <1>6, <1>7 DEF GameThread

\* Every step of every thread keeps the invariant.
LEMMA NextInv == ASSUME IInv, [Next]_vars PROVE IInv'
<1>1. CASE UNCHANGED vars
  BY <1>1 DEF IInv, TypeOK, EventsFit, PacketsFit, HandFits, FrontFits, Missed, ClientsFit, ScoresFit,
              HaltsExplained, DepartureTold, Members, vars, queueVars, antiCheatVars, clientVars,
              packetVars, remoteVars, historyVars
<1>2. ASSUME NEW c \in Clients, ListClient(c) \/ QueueCreateClient(c) \/ SendOwnMessage(c) PROVE IInv'
  BY <1>2, ListClientInv, QueueCreateClientInv, ReportingInv
<1>3. ASSUME NEW c \in Clients, Removal(c) PROVE IInv'
  BY <1>3, DisconnectedInv, DelistInv, ErasePacketInv, RaceOverPacketsInv, EraseReportsInv DEF Removal
<1>4. CASE AddDelayedPacket
  BY <1>4, AddDelayedPacketInv
<1> QED
  BY <1>1, <1>2, <1>3, <1>4, MessageInv, GameThreadInv DEF Next

\* The inductive invariant holds of every behaviour.
THEOREM Invariance == Spec => []IInv
<1>1. Init => IInv
  BY InitInv
<1>2. IInv /\ [Next]_vars => IInv'
  BY NextInv
<1> QED
  BY <1>1, <1>2, PTL DEF Spec

\* The tables, queues and scores keep their types, whatever threads interleave.
THEOREM FrameTypeCorrect == Spec => []TypeOK
<1>1. IInv => TypeOK
  BY DEF IInv
<1> QED
  BY <1>1, Invariance, PTL

\* No delayed packet outlives its client, although client_Destroy() erases
\* them without the lock the other threads add them under.
THEOREM NoOrphans == Spec => []NoOrphanPackets
<1>1. IInv => NoOrphanPackets
  BY DEF IInv, PacketsFit, NoOrphanPackets
<1> QED
  BY <1>1, Invariance, PTL

\* The server stops over a client that is gone only if that client had sent
\* something or went while it was being attached, over the list of packets only
\* because of a removal, and over a missing event only after a refusal or after a
\* player was removed.
THEOREM HaltsCorrect == Spec => []HaltsExplained
<1>1. IInv => HaltsExplained
  BY DEF IInv
<1> QED
  BY <1>1, Invariance, PTL

\* The game is told of every player that left, or a round change or a stray
\* Release() threw the event away.
THEOREM DeparturesCorrect == Spec => []DepartureTold
<1>1. IInv => DepartureTold
  BY DEF IInv
<1> QED
  BY <1>1, Invariance, PTL

\* Whoever has reached the threshold is being disconnected when the frame ends.
THEOREM KicksCorrect == Spec => KickedInFrame
<1> DEFINE Kicks == frame # "packets" /\ frame' = "packets" =>
          \A c \in listed : suspicion[c] >= KickThreshold => c \in ending'
<1>1. ASSUME IInv, [Next]_vars PROVE [Kicks]_vars
  <2> SUFFICES ASSUME frame # "packets", frame' = "packets", Next,
                      NEW c \in listed, suspicion[c] >= KickThreshold
               PROVE  c \in ending'
    BY <1>1
  <2>1. ASSUME NEW d \in Clients PROVE ~ Message(d)
    BY <2>1 DEF Message, ReceivePlayerState, ReceiveAuth, ReceiveDigest, ReceiveConnectionRequest,
                ReceiveCommand, ReceiveHit, ReceiveReport, ReceiveStarted
  <2>2. ASSUME NEW d \in Clients
        PROVE  ~ (ListClient(d) \/ QueueCreateClient(d) \/ Removal(d) \/ SendOwnMessage(d))
    BY <2>2 DEF ListClient, QueueCreateClient, Removal, Disconnected, Delist, ErasePacket,
                RaceOverPackets, EraseReports, SendOwnMessage
  <2>3. ~ AddDelayedPacket
    BY DEF AddDelayedPacket
  <2>4. GameThread
    BY <2>1, <2>2, <2>3 DEF Next
  <2>5. EndFrame
    BY <2>4 DEF GameThread, PopPacket, EndPackets, HandleOrphan, HandleLimited, HandleRequest,
           HandleCommand, Handles, OnCreateClient, AttachIfFound, AttachNewClient, OnCreatePlayerState,
           OnRefusedPlayerState, OnPlayerAuth, OnHit, OnReport, OnPlayerStarted, OnStartedElsewhere,
           OnPlayerDisconnect, Handled, ReleaseReport, ReleaseAfterErasure, EndEvents, NothingNew,
           OnRoundStart, OnPlayerScores, OnRoundEnd, IgnoreClients, GameAt, InFront
  <2>6. c \in ending \cup Members(cheaters)
    BY <1>1 DEF IInv, TypeOK, ScoresFit
  <2> QED
    BY <2>5, <2>6 DEF EndFrame, Kicked, Members
<1>2. IInv /\ [Next]_vars => [Kicks]_vars
  BY <1>1
<1> QED
  BY <1>2, Invariance, PTL DEF Spec, KickedInFrame

------------------------------------------------------------------------------
(* What a score is made of. *)

\* What the hit authority adds to a score is at most what its caller adds after it.
HitsCovered == \A extra \in HitScores : extra <= RegisteredScore

\* The packets of client c that wait to be handled, and the events of a type about it.
Waits(packets, busy, c) == {i \in DOMAIN packets : packets[i].client = c /\ ~ (busy /\ i = 1)}
About(queue, type, c) == {i \in DOMAIN queue : queue[i].type = type /\ queue[i].client = c}

Waiting(c) ==
    Cardinality(Waits(delayed, hand # << >>, c)) + (IF \E packet \in posting : packet.client = c THEN 1 ELSE 0)

Hitting(c) == Cardinality(About(ready, "hit", c))
Answering(c) == Cardinality(About(ready, "auth", c))

\* A score when n packets, h hits and a answers that wait have been charged for.
Total(score, n, h, a) == score + LimitedScore * n + (2 * RegisteredScore) * h + DigestScore * a

Covered(c) == Total(suspicion[c], Waiting(c), Hitting(c), Answering(c)) <= liable[c]

\* The inductive invariant, beside the other one.
KInv ==
    /\ liable \in [Clients -> Nat]
    /\ \A c \in Clients : Covered(c)

\* A product grows with its second factor.
LEMMA ProductGrows ==
    ASSUME NEW x \in Nat, NEW a \in Nat, NEW b \in Nat, a <= b
    PROVE  x * a \in Nat /\ x * b \in Nat /\ x * a <= x * b
<1>1. PICK c \in Nat : b = a + c
  <2>1. b - a \in Nat /\ b = a + (b - a)
    OBVIOUS
  <2> QED
    BY <2>1
<1>2. x * b = x * a + x * c /\ x * c \in Nat /\ x * a \in Nat
  BY <1>1
<1> QED
  BY <1>2

\* More is covered by more.
LEMMA TotalGrows ==
    ASSUME NEW s \in Nat, NEW n \in Nat, NEW h \in Nat, NEW a \in Nat,
           NEW m \in Nat, NEW k \in Nat, NEW b \in Nat, m <= n, k <= h, b <= a
    PROVE  /\ Total(s, m, k, b) \in Nat /\ Total(s, n, h, a) \in Nat
           /\ Total(s, m, k, b) <= Total(s, n, h, a)
<1> DEFINE L == LimitedScore
           R == 2 * RegisteredScore
           D == DigestScore
<1>1. L \in Nat /\ R \in Nat /\ D \in Nat
  BY AntiCheatAssumption
<1>2. \A t, p, q, r : Total(t, p, q, r) = t + L * p + R * q + D * r
  BY DEF Total
<1> HIDE DEF L, R, D
<1>3. L * m \in Nat /\ L * n \in Nat /\ L * m <= L * n
  BY <1>1, ProductGrows
<1>4. R * k \in Nat /\ R * h \in Nat /\ R * k <= R * h
  BY <1>1, ProductGrows
<1>5. D * b \in Nat /\ D * a \in Nat /\ D * b <= D * a
  BY <1>1, ProductGrows
<1> QED
  BY <1>2, <1>3, <1>4, <1>5

\* What one packet, one hit and one answer more add.
LEMMA TotalSteps ==
    ASSUME NEW s \in Nat, NEW n \in Nat, NEW h \in Nat, NEW a \in Nat
    PROVE  /\ Total(s, n + 1, h, a) = Total(s, n, h, a) + LimitedScore
           /\ Total(s, n, h + 1, a) = Total(s, n, h, a) + 2 * RegisteredScore
           /\ Total(s, n, h, a + 1) = Total(s, n, h, a) + DigestScore
           /\ Total(s, n, h, a) \in Nat
<1> DEFINE L == LimitedScore
           R == 2 * RegisteredScore
           D == DigestScore
<1>1. L \in Nat /\ R \in Nat /\ D \in Nat
  BY AntiCheatAssumption
<1>2. \A t, p, q, r : Total(t, p, q, r) = t + L * p + R * q + D * r
  BY DEF Total
<1>3. ASSUME NEW x \in Nat, NEW p \in Nat PROVE x * (p + 1) = x * p + x /\ x * p \in Nat
  OBVIOUS
<1> HIDE DEF L, R, D
<1>4. /\ L * (n + 1) = L * n + L /\ L * n \in Nat
      /\ R * (h + 1) = R * h + R /\ R * h \in Nat
      /\ D * (a + 1) = D * a + D /\ D * a \in Nat
  BY <1>1, <1>3
<1>5. /\ Total(s, n + 1, h, a) = Total(s, n, h, a) + L
      /\ Total(s, n, h + 1, a) = Total(s, n, h, a) + R
      /\ Total(s, n, h, a + 1) = Total(s, n, h, a) + D
  BY <1>1, <1>2, <1>4
<1>6. Total(s, n, h, a) \in Nat
  BY <1>2, <1>4
<1> QED
  BY <1>5, <1>6 DEF L, R, D

\* A charge adds what it is.
LEMMA TotalCharge ==
    ASSUME NEW s \in Nat, NEW n \in Nat, NEW h \in Nat, NEW a \in Nat, NEW x \in Nat
    PROVE  Total(s + x, n, h, a) = Total(s, n, h, a) + x /\ Total(s, n, h, a) \in Nat
<1> DEFINE L == LimitedScore
           R == 2 * RegisteredScore
           D == DigestScore
<1>1. L \in Nat /\ R \in Nat /\ D \in Nat
  BY AntiCheatAssumption
<1>2. \A t, p, q, r : Total(t, p, q, r) = t + L * p + R * q + D * r
  BY DEF Total
<1> HIDE DEF L, R, D
<1>3. L * n \in Nat /\ R * h \in Nat /\ D * a \in Nat
  BY <1>1, ProductGrows
<1> QED
  BY <1>2, <1>3

\* A set that fits into a finite one is not larger.
LEMMA Embedding ==
    ASSUME NEW S, NEW T, IsFiniteSet(T), NEW f \in [S -> T],
           \A x, y \in S : f[x] = f[y] => x = y
    PROVE  IsFiniteSet(S) /\ Cardinality(S) <= Cardinality(T)
BY FS_Injection DEF Injection, IsInjective

\* Counts of positions are numbers.
LEMMA Counts ==
    ASSUME NEW S, NEW queue \in Seq(S), NEW P \in SUBSET DOMAIN queue
    PROVE  IsFiniteSet(P) /\ Cardinality(P) \in Nat
<1>1. IsFiniteSet(DOMAIN queue)
  <2>1. DOMAIN queue = 1..Len(queue) /\ Len(queue) \in Int
    OBVIOUS
  <2> QED
    BY <2>1, FS_Interval
<1> QED
  BY <1>1, FS_Subset, FS_CardinalityType

------------------------------------------------------------------------------
(* Events. *)

\* What is left of a queue holds no more events about anybody.
LEMMA AboutWithin ==
    ASSUME NEW queue \in Seq(EventType), NEW rest, Within(rest, queue), NEW type, NEW c
    PROVE  Cardinality(About(rest, type, c)) <= Cardinality(About(queue, type, c))
<1>1. PICK from \in [DOMAIN rest -> DOMAIN queue] :
        /\ \A m, n \in DOMAIN rest : from[m] = from[n] => m = n
        /\ \A n \in DOMAIN rest : rest[n] = queue[from[n]]
  BY DEF Within
<1> DEFINE f == [i \in About(rest, type, c) |-> from[i]]
<1>2. f \in [About(rest, type, c) -> About(queue, type, c)]
  BY <1>1 DEF About
<1>3. \A x, y \in About(rest, type, c) : f[x] = f[y] => x = y
  BY <1>1 DEF About
<1>4. IsFiniteSet(About(queue, type, c))
  <2>1. About(queue, type, c) \in SUBSET DOMAIN queue
    BY DEF About
  <2> QED
    BY <2>1, Counts
<1> HIDE DEF f
<1> QED
  BY <1>2, <1>3, <1>4, Embedding

\* A queue whose oldest event is about c holds one less without it.
LEMMA AboutTail ==
    ASSUME NEW queue \in Seq(EventType), queue # << >>, NEW type, NEW c,
           Head(queue).type = type, Head(queue).client = c
    PROVE  Cardinality(About(Tail(queue), type, c)) + 1 <= Cardinality(About(queue, type, c))
<1>1. /\ 1 \in DOMAIN queue /\ queue[1] = Head(queue)
      /\ \A n \in DOMAIN Tail(queue) :
            n + 1 \in DOMAIN queue /\ n + 1 # 1 /\ Tail(queue)[n] = queue[n + 1]
      /\ Tail(queue) \in Seq(EventType)
  BY TailWithin
<1> DEFINE T == About(queue, type, c) \ {1}
           f == [i \in About(Tail(queue), type, c) |-> i + 1]
<1>2. f \in [About(Tail(queue), type, c) -> T]
  BY <1>1 DEF About
<1>3. \A x, y \in About(Tail(queue), type, c) : f[x] = f[y] => x = y
  <2>1. About(Tail(queue), type, c) \subseteq Nat
    BY <1>1 DEF About
  <2> QED
    BY <2>1
<1>4. IsFiniteSet(About(queue, type, c)) /\ Cardinality(About(queue, type, c)) \in Nat
  <2>1. About(queue, type, c) \in SUBSET DOMAIN queue
    BY DEF About
  <2> QED
    BY <2>1, Counts
<1>5. 1 \in About(queue, type, c)
  BY <1>1 DEF About
<1>6. IsFiniteSet(T) /\ Cardinality(T) = Cardinality(About(queue, type, c)) - 1
  BY <1>4, <1>5, FS_RemoveElement
<1>7. Cardinality(About(Tail(queue), type, c)) \in Nat
  <2>1. About(Tail(queue), type, c) \in SUBSET DOMAIN Tail(queue)
    BY DEF About
  <2> QED
    BY <1>1, <2>1, Counts
<1>8. Cardinality(About(Tail(queue), type, c)) <= Cardinality(T)
  <2> HIDE DEF f, T
  <2> QED
    BY <1>2, <1>3, <1>6, Embedding
<1> QED
  BY <1>4, <1>6, <1>7, <1>8

\* One event more is one more of its type at most.
LEMMA AboutAppend ==
    ASSUME NEW queue \in Seq(EventType), NEW event \in EventType, NEW type, NEW c
    PROVE  /\ Cardinality(About(Append(queue, event), type, c)) <= Cardinality(About(queue, type, c)) + 1
           /\ event.type # type \/ event.client # c =>
                 Cardinality(About(Append(queue, event), type, c)) <= Cardinality(About(queue, type, c))
<1> DEFINE longer == Append(queue, event)
           last == Len(queue) + 1
<1>1. ASSUME NEW i \in DOMAIN longer
      PROVE  \/ i \in DOMAIN queue /\ longer[i] = queue[i]
             \/ i = last /\ longer[i] = event
  OBVIOUS
<1> HIDE DEF longer, last
<1>2. About(longer, type, c) \subseteq About(queue, type, c) \cup {last}
  BY <1>1 DEF About
<1>3. event.type # type \/ event.client # c => About(longer, type, c) \subseteq About(queue, type, c)
  BY <1>1 DEF About
<1>4. IsFiniteSet(About(queue, type, c)) /\ Cardinality(About(queue, type, c)) \in Nat
  <2>1. About(queue, type, c) \in SUBSET DOMAIN queue
    BY DEF About
  <2> QED
    BY <2>1, Counts
<1>5. /\ IsFiniteSet(About(queue, type, c) \cup {last})
      /\ Cardinality(About(queue, type, c) \cup {last}) \in Nat
      /\ Cardinality(About(queue, type, c) \cup {last}) <= Cardinality(About(queue, type, c)) + 1
  <2>1. /\ IsFiniteSet(About(queue, type, c) \cup {last})
        /\ Cardinality(About(queue, type, c) \cup {last}) =
              IF last \in About(queue, type, c) THEN Cardinality(About(queue, type, c))
              ELSE Cardinality(About(queue, type, c)) + 1
    BY <1>4, FS_AddElement
  <2> QED
    BY <1>4, <2>1
<1>6. Cardinality(About(longer, type, c)) <= Cardinality(About(queue, type, c) \cup {last})
  BY <1>2, <1>5, FS_Subset
<1>7. Cardinality(About(longer, type, c)) \in Nat
  BY <1>2, <1>5, FS_Subset, FS_CardinalityType
<1>8. event.type # type \/ event.client # c =>
          Cardinality(About(longer, type, c)) <= Cardinality(About(queue, type, c))
  BY <1>3, <1>4, FS_Subset
<1> QED
  BY <1>4, <1>5, <1>6, <1>7, <1>8 DEF longer

------------------------------------------------------------------------------
(* Packets. *)

\* The packets of a client that wait are finitely many.
LEMMA WaitsCount ==
    ASSUME NEW packets \in Seq(PacketType), NEW busy, NEW c
    PROVE  IsFiniteSet(Waits(packets, busy, c)) /\ Cardinality(Waits(packets, busy, c)) \in Nat
<1>1. Waits(packets, busy, c) \in SUBSET DOMAIN packets
  BY DEF Waits
<1> QED
  BY <1>1, Counts

\* A packet that joins the others waits.
LEMMA WaitsAppend ==
    ASSUME NEW packets \in Seq(PacketType), NEW packet \in PacketType, NEW busy, NEW c
    PROVE  /\ Cardinality(Waits(Append(packets, packet), busy, c)) <= Cardinality(Waits(packets, busy, c)) + 1
           /\ packet.client # c =>
                 Cardinality(Waits(Append(packets, packet), busy, c)) <= Cardinality(Waits(packets, busy, c))
<1> DEFINE longer == Append(packets, packet)
           last == Len(packets) + 1
           before == Waits(packets, busy, c)
<1>1. ASSUME NEW i \in DOMAIN longer
      PROVE  \/ i \in DOMAIN packets /\ longer[i] = packets[i]
             \/ i = last /\ longer[i] = packet
  OBVIOUS
<1>2. IsFiniteSet(before) /\ Cardinality(before) \in Nat
  BY WaitsCount
<1> HIDE DEF longer, last
<1>3. Waits(longer, busy, c) \subseteq before \cup {last}
  BY <1>1 DEF Waits
<1>4. packet.client # c => Waits(longer, busy, c) \subseteq before
  BY <1>1 DEF Waits
<1> HIDE DEF before
<1>5. /\ IsFiniteSet(before \cup {last})
      /\ Cardinality(before \cup {last}) \in Nat
      /\ Cardinality(before \cup {last}) <= Cardinality(before) + 1
  <2>1. /\ IsFiniteSet(before \cup {last})
        /\ Cardinality(before \cup {last}) =
              IF last \in before THEN Cardinality(before) ELSE Cardinality(before) + 1
    BY <1>2, FS_AddElement
  <2> QED
    BY <1>2, <2>1
<1>6. Cardinality(Waits(longer, busy, c)) <= Cardinality(before \cup {last})
  BY <1>3, <1>5, FS_Subset
<1>7. Cardinality(Waits(longer, busy, c)) \in Nat
  BY <1>3, <1>5, FS_Subset, FS_CardinalityType
<1>8. packet.client # c => Cardinality(Waits(longer, busy, c)) <= Cardinality(before)
  BY <1>2, <1>4, FS_Subset
<1> QED
  BY <1>2, <1>5, <1>6, <1>7, <1>8 DEF longer, before

\* The oldest packet waits no more once the game thread has it in hand.
LEMMA WaitsHead ==
    ASSUME NEW packets \in Seq(PacketType), packets # << >>, NEW c
    PROVE  /\ Cardinality(Waits(packets, TRUE, c)) <= Cardinality(Waits(packets, FALSE, c))
           /\ Head(packets).client = c =>
                 Cardinality(Waits(packets, TRUE, c)) + 1 <= Cardinality(Waits(packets, FALSE, c))
<1> DEFINE before == Waits(packets, FALSE, c)
<1>1. IsFiniteSet(before) /\ Cardinality(before) \in Nat
  BY WaitsCount
<1>2. 1 \in DOMAIN packets /\ packets[1] = Head(packets)
  BY TailWithin
<1>3. Waits(packets, TRUE, c) = before \ {1}
  BY DEF Waits
<1>4. Head(packets).client = c => 1 \in before
  BY <1>2 DEF Waits
<1> HIDE DEF before
<1>5. Cardinality(before \ {1}) = IF 1 \in before THEN Cardinality(before) - 1 ELSE Cardinality(before)
  BY <1>1, FS_RemoveElement
<1> DEFINE after == Waits(packets, TRUE, c)
<1> HIDE DEF after
<1>6. /\ Cardinality(after) <= Cardinality(before)
      /\ Head(packets).client = c => Cardinality(after) + 1 <= Cardinality(before)
  <2>1. Cardinality(after) = Cardinality(before \ {1})
    BY <1>3 DEF after
  <2> QED
    BY <1>1, <1>4, <1>5, <2>1
<1> QED
  BY <1>6 DEF before, after

\* Taking off the one in hand leaves those that wait.
LEMMA WaitsTail ==
    ASSUME NEW packets \in Seq(PacketType), packets # << >>, NEW c
    PROVE  Cardinality(Waits(Tail(packets), FALSE, c)) <= Cardinality(Waits(packets, TRUE, c))
<1>1. /\ \A n \in DOMAIN Tail(packets) :
            n + 1 \in DOMAIN packets /\ n + 1 # 1 /\ Tail(packets)[n] = packets[n + 1]
      /\ Tail(packets) \in Seq(PacketType)
  BY TailWithin
<1> DEFINE S == Waits(Tail(packets), FALSE, c)
           T == Waits(packets, TRUE, c)
           f == [i \in S |-> i + 1]
<1>2. f \in [S -> T]
  BY <1>1 DEF Waits
<1>3. \A x, y \in S : f[x] = f[y] => x = y
  <2>1. DOMAIN Tail(packets) \subseteq Nat
    BY <1>1
  <2>2. S \subseteq Nat
    BY <2>1 DEF Waits
  <2> HIDE DEF S
  <2> QED
    BY <2>2
<1>4. IsFiniteSet(T)
  BY WaitsCount
<1> HIDE DEF f, S, T
<1>5. Cardinality(S) <= Cardinality(T)
  BY <1>2, <1>3, <1>4, Embedding
<1> QED
  BY <1>5 DEF S, T
\* What an erasure leaves waits as before, whatever is in hand: the front comes
\* from no further ahead.
LEMMA WaitsWithout ==
    ASSUME NEW packets \in Seq(PacketType), NEW i \in DOMAIN packets, NEW rest \in Seq(PacketType),
           rest = [n \in 1..Len(packets) - 1 |-> packets[IF n < i THEN n ELSE n + 1]],
           NEW busy \in BOOLEAN, NEW c
    PROVE  Cardinality(Waits(rest, busy, c)) <= Cardinality(Waits(packets, busy, c))
<1> DEFINE S == Waits(rest, busy, c)
           T == Waits(packets, busy, c)
           from(n) == IF n < i THEN n ELSE n + 1
           f == [n \in S |-> from(n)]
<1>1. DOMAIN packets = 1..Len(packets) /\ Len(packets) \in Nat /\ DOMAIN rest = 1..Len(packets) - 1
  OBVIOUS
<1>2. \A n \in DOMAIN rest : from(n) \in DOMAIN packets /\ rest[n] = packets[from(n)] /\ (from(n) = 1 => n = 1)
  BY <1>1
<1>3. \A m, n \in DOMAIN rest : from(m) = from(n) => m = n
  BY <1>1
<1> HIDE DEF from
<1>4. f \in [S -> T]
  BY <1>2 DEF Waits
<1>5. \A x, y \in S : f[x] = f[y] => x = y
  BY <1>3 DEF Waits
<1>6. IsFiniteSet(T)
  BY WaitsCount
<1> HIDE DEF f, S, T
<1>7. Cardinality(S) <= Cardinality(T)
  BY <1>4, <1>5, <1>6, Embedding
<1> QED
  BY <1>7 DEF S, T

------------------------------------------------------------------------------
(* The steps. *)

\* What is counted is a number.
LEMMA CountsNow ==
    ASSUME IInv, NEW c \in Clients
    PROVE  Waiting(c) \in Nat /\ Hitting(c) \in Nat /\ Answering(c) \in Nat /\ suspicion[c] \in Nat
<1>1. ready \in Seq(EventType) /\ delayed \in Seq(PacketType) /\ suspicion[c] \in Nat
  BY DEF IInv, TypeOK, EventType, PacketType
<1>2. Cardinality(Waits(delayed, hand # << >>, c)) \in Nat
  BY <1>1, WaitsCount
<1>3. \A type : Cardinality(About(ready, type, c)) \in Nat
  <2> SUFFICES ASSUME NEW type PROVE Cardinality(About(ready, type, c)) \in Nat
    OBVIOUS
  <2>1. About(ready, type, c) \in SUBSET DOMAIN ready
    BY DEF About
  <2> QED
    BY <1>1, <2>1, Counts
<1>4. Waiting(c) \in Nat
  BY <1>2 DEF Waiting
<1> QED
  BY <1>1, <1>3, <1>4 DEF Hitting, Answering

\* Before and after a step.
LEMMA CountsTyped ==
    ASSUME IInv, IInv', NEW c \in Clients
    PROVE  /\ Waiting(c) \in Nat /\ Hitting(c) \in Nat /\ Answering(c) \in Nat /\ suspicion[c] \in Nat
           /\ Waiting(c)' \in Nat /\ Hitting(c)' \in Nat /\ Answering(c)' \in Nat /\ suspicion'[c] \in Nat
<1>1. ready' \in Seq(EventType) /\ delayed' \in Seq(PacketType) /\ suspicion'[c] \in Nat
  BY DEF IInv, TypeOK, EventType, PacketType
<1>2. Cardinality(Waits(delayed', hand' # << >>, c)) \in Nat
  BY <1>1, WaitsCount
<1>3. \A type : Cardinality(About(ready', type, c)) \in Nat
  <2> SUFFICES ASSUME NEW type PROVE Cardinality(About(ready', type, c)) \in Nat
    OBVIOUS
  <2>1. About(ready', type, c) \in SUBSET DOMAIN ready'
    BY DEF About
  <2> QED
    BY <1>1, <2>1, Counts
<1>4. Waiting(c)' \in Nat
  BY <1>2 DEF Waiting
<1> QED
  BY <1>1, <1>3, <1>4, CountsNow DEF Hitting, Answering

\* A client stays covered if no more than n, h and a wait for it after the step,
\* and its score grows by x and what it can be charged for by y.
LEMMA StaysCovered ==
    ASSUME IInv, IInv', KInv, NEW c \in Clients,
           NEW n \in Nat, NEW h \in Nat, NEW a \in Nat, NEW x \in Nat, NEW y \in Nat,
           Waiting(c)' <= n, Hitting(c)' <= h, Answering(c)' <= a,
           suspicion'[c] = suspicion[c] + x, liable'[c] = liable[c] + y,
           Total(suspicion[c], n, h, a) + x
               <= Total(suspicion[c], Waiting(c), Hitting(c), Answering(c)) + y
    PROVE  Covered(c)'
<1> DEFINE s == suspicion[c]
           before == Total(s, Waiting(c), Hitting(c), Answering(c))
           m == Waiting(c)'
           k == Hitting(c)'
           b == Answering(c)'
<1>1. /\ s \in Nat /\ m \in Nat /\ k \in Nat /\ b \in Nat
      /\ Waiting(c) \in Nat /\ Hitting(c) \in Nat /\ Answering(c) \in Nat
  BY CountsTyped
<1>2. m <= n /\ k <= h /\ b <= a
  OBVIOUS
<1>3. liable[c] \in Nat /\ before <= liable[c]
  BY DEF KInv, Covered
<1>4. before \in Nat
  BY <1>1, TotalSteps
<1>5. suspicion'[c] = s + x /\ Total(s, n, h, a) + x <= before + y
  OBVIOUS
<1> HIDE DEF s, before, m, k, b
<1>6. s + x \in Nat
  BY <1>1
<1>7. /\ Total(s + x, m, k, b) \in Nat /\ Total(s + x, n, h, a) \in Nat
      /\ Total(s + x, m, k, b) <= Total(s + x, n, h, a)
  BY <1>1, <1>2, <1>6, TotalGrows
<1>8. Total(s + x, n, h, a) = Total(s, n, h, a) + x /\ Total(s, n, h, a) \in Nat
  <2>1. s \in Nat
    BY <1>1
  <2>2. \A t, p, q, r, e \in Nat : Total(t + e, p, q, r) = Total(t, p, q, r) + e
    BY SMTT(30), TotalCharge
  <2>3. \A t, p, q, r \in Nat : Total(t, p, q, r) \in Nat
    BY TotalSteps
  <2> QED
    BY ONLY <2>1, <2>2, <2>3, n \in Nat, h \in Nat, a \in Nat, x \in Nat
<1>9. Total(s + x, m, k, b) <= liable[c] + y
  BY <1>3, <1>4, <1>5, <1>7, <1>8
<1>10. Total(suspicion'[c], m, k, b) <= liable'[c]
  BY <1>5, <1>9
<1> QED
  BY <1>10 DEF Covered, m, k, b

\* One that is not charged does, if nothing more waits for it.
LEMMA StaysUncharged ==
    ASSUME IInv, IInv', KInv, NEW c \in Clients,
           suspicion'[c] = suspicion[c], liable'[c] = liable[c],
           Waiting(c)' <= Waiting(c), Hitting(c)' <= Hitting(c), Answering(c)' <= Answering(c)
    PROVE  Covered(c)'
<1> DEFINE n == Waiting(c)
           h == Hitting(c)
           a == Answering(c)
<1>1. n \in Nat /\ h \in Nat /\ a \in Nat /\ suspicion[c] \in Nat /\ liable[c] \in Nat
  BY CountsTyped DEF KInv
<1>2. Total(suspicion[c], n, h, a) \in Nat
  BY <1>1, TotalSteps
<1>3. suspicion'[c] = suspicion[c] + 0 /\ liable'[c] = liable[c] + 0
  BY <1>1
<1>4. Total(suspicion[c], n, h, a) + 0 <= Total(suspicion[c], n, h, a) + 0
  BY <1>2
<1>5. Waiting(c)' <= n /\ Hitting(c)' <= h /\ Answering(c)' <= a
  OBVIOUS
<1>6. Total(suspicion[c], n, h, a) + 0 <= Total(suspicion[c], Waiting(c), Hitting(c), Answering(c)) + 0
  BY <1>4
<1> HIDE DEF n, h, a
<1> QED
  BY <1>1, <1>3, <1>5, <1>6, StaysCovered

\* A queue is within itself, and so is nothing.
LEMMA SelfWithin == ASSUME NEW S, NEW queue \in Seq(S) PROVE Within(queue, queue) /\ Within(<< >>, queue)
<1>1. Within(queue, queue)
  <2> DEFINE from == [n \in DOMAIN queue |-> n]
  <2>1. /\ from \in [DOMAIN queue -> DOMAIN queue]
        /\ \A m, n \in DOMAIN queue : from[m] = from[n] => m = n
        /\ \A n \in DOMAIN queue : queue[n] = queue[from[n]]
    OBVIOUS
  <2> HIDE DEF from
  <2> QED
    BY <2>1 DEF Within
<1>2. Within(<< >>, queue)
  <2> DEFINE from == [n \in {} |-> 1]
  <2>1. DOMAIN << >> = {} /\ from \in [{} -> DOMAIN queue]
    OBVIOUS
  <2> HIDE DEF from
  <2> QED
    BY <2>1 DEF Within
<1> QED
  BY <1>1, <1>2

\* What becomes of the events when some go, or one comes.
LEMMA AboutGoes ==
    ASSUME IInv, IInv', Within(ready', ready), NEW c \in Clients
    PROVE  Hitting(c)' <= Hitting(c) /\ Answering(c)' <= Answering(c)
<1>1. ready \in Seq(EventType)
  BY DEF IInv, TypeOK, EventType
<1> QED
  BY <1>1, AboutWithin DEF Hitting, Answering

LEMMA AboutComes ==
    ASSUME IInv, IInv', NEW event \in EventType, ready' = ready \/ ready' = Append(ready, event),
           NEW c \in Clients
    PROVE  /\ Hitting(c)' <= Hitting(c) + 1 /\ Answering(c)' <= Answering(c) + 1
           /\ event.type # "hit" \/ event.client # c => Hitting(c)' <= Hitting(c)
           /\ event.type # "auth" \/ event.client # c => Answering(c)' <= Answering(c)
<1>1. ready \in Seq(EventType)
  BY DEF IInv, TypeOK, EventType
<1>2. Hitting(c) \in Nat /\ Answering(c) \in Nat
  BY CountsNow
<1>3. CASE ready' = ready
  <2>1. Hitting(c)' = Hitting(c) /\ Answering(c)' = Answering(c)
    BY <1>3 DEF Hitting, Answering
  <2> QED
    BY <1>2, <2>1
<1>4. CASE ready' = Append(ready, event)
  <2>1. /\ Hitting(c)' <= Hitting(c) + 1
        /\ event.type # "hit" \/ event.client # c => Hitting(c)' <= Hitting(c)
    BY <1>1, <1>4, AboutAppend DEF Hitting
  <2>2. /\ Answering(c)' <= Answering(c) + 1
        /\ event.type # "auth" \/ event.client # c => Answering(c)' <= Answering(c)
    BY <1>1, <1>4, AboutAppend DEF Answering
  <2> QED
    BY <2>1, <2>2
<1> QED
  BY <1>3, <1>4

\* The packets that wait, when nothing happens to them.
LEMMA SamePackets ==
    ASSUME IInv, IInv', UNCHANGED <<delayed, hand, posting>>, NEW c \in Clients
    PROVE  Waiting(c)' = Waiting(c) /\ Waiting(c)' <= Waiting(c)
<1>1. Waiting(c)' = Waiting(c) /\ Waiting(c) \in Nat
  BY CountsTyped DEF Waiting
<1> QED
  BY <1>1

\* The events that wait, when nothing happens to them.
LEMMA SameEvents ==
    ASSUME IInv, IInv', ready' = ready, NEW c \in Clients
    PROVE  /\ Hitting(c)' = Hitting(c) /\ Hitting(c)' <= Hitting(c)
           /\ Answering(c)' = Answering(c) /\ Answering(c)' <= Answering(c)
<1>1. Hitting(c)' = Hitting(c) /\ Answering(c)' = Answering(c) /\ Hitting(c) \in Nat /\ Answering(c) \in Nat
  BY CountsTyped DEF Hitting, Answering
<1> QED
  BY <1>1

\* A step that charges nobody, and only loses events or adds one that costs nothing.
LEMMA EventStep ==
    ASSUME IInv, IInv', KInv, UNCHANGED <<suspicion, liable, delayed, hand, posting>>,
           \/ Within(ready', ready)
           \/ \E event \in EventType :
                 /\ ready' = ready \/ ready' = Append(ready, event)
                 /\ event.type \notin {"hit", "auth"}
    PROVE  KInv'
<1>1. ASSUME NEW c \in Clients PROVE Hitting(c)' <= Hitting(c) /\ Answering(c)' <= Answering(c)
  <2>1. CASE Within(ready', ready)
    BY <2>1, AboutGoes
  <2>2. ASSUME NEW event \in EventType, ready' = ready \/ ready' = Append(ready, event),
               event.type \notin {"hit", "auth"}
        PROVE  Hitting(c)' <= Hitting(c) /\ Answering(c)' <= Answering(c)
    <3>1. event.type # "hit" /\ event.type # "auth"
      BY <2>2
    <3> QED
      BY <2>2, <3>1, AboutComes
  <2> QED
    BY <2>1, <2>2
<1>2. \A c \in Clients : Waiting(c)' <= Waiting(c)
  BY SamePackets
<1>3. \A c \in Clients : Covered(c)'
  BY <1>1, <1>2, StaysUncharged
<1> QED
  BY <1>3 DEF KInv

\* A step that charges nobody and no more packets wait after.
LEMMA PacketStep ==
    ASSUME IInv, IInv', KInv, UNCHANGED <<suspicion, liable, ready>>,
           \A c \in Clients : Waiting(c)' <= Waiting(c)
    PROVE  KInv'
<1>1. \A c \in Clients : Covered(c)'
  BY SameEvents, StaysUncharged
<1> QED
  BY <1>1 DEF KInv

\* The steps of network threads that charge nobody.
LEMMA NetworkCharge ==
    ASSUME IInv, IInv', KInv, NEW c \in Clients, NEW d \in Clients,
           \/ ListClient(c) \/ QueueCreateClient(c)
           \/ ReceivePlayerState(c) \/ ReceiveDigest(c) \/ ReceiveStarted(c) \/ ReceiveReport(c, d)
           \/ Disconnected(c) \/ Delist(c) \/ RaceOverPackets(c) \/ EraseReports(c)
    PROVE  KInv'
<1>1. UNCHANGED <<suspicion, liable, delayed, hand, posting>>
  BY DEF ListClient, QueueCreateClient, ReceivePlayerState, ReceiveDigest, ReceiveStarted, ReceiveReport,
         Disconnected, Delist, RaceOverPackets, EraseReports, antiCheatVars, packetVars, remoteVars, historyVars
<1>2. ready \in Seq(EventType)
  BY DEF IInv, TypeOK, EventType
<1>3. CASE ready' = ready
  <2>1. Within(ready', ready)
    BY <1>2, <1>3, SelfWithin
  <2> QED
    BY <1>1, <2>1, EventStep
<1>4. CASE ListClient(c) \/ ReceiveDigest(c) \/ Delist(c) \/ RaceOverPackets(c)
  BY <1>3, <1>4 DEF ListClient, ReceiveDigest, Delist, RaceOverPackets, queueVars
<1>5. CASE EraseReports(c)
  <2>1. CASE ready' = ready
    BY <1>3, <2>1
  <2>2. ASSUME NEW positions \in SUBSET ReportsOn(c), EraseEventsAt(positions) PROVE KInv'
    <3>1. positions \in SUBSET DOMAIN ready
      BY DEF ReportsOn
    <3>2. Within(ready', ready)
      BY <2>2, <3>1, ErasedFits
    <3> QED
      BY <1>1, <3>2, EventStep
  <2> QED
    BY <1>5, <2>1, <2>2 DEF EraseReports
<1>6. CASE \/ QueueCreateClient(c) \/ ReceivePlayerState(c) \/ ReceiveStarted(c)
           \/ ReceiveReport(c, d) \/ Disconnected(c)
  <2>1. \/ ready' = ready
        \/ \E event \in EventType :
              /\ ready' = Append(ready, event)
              /\ event.type \in {"create", "state", "started", "elsewhere", "report", "disconnected"}
    BY <1>6 DEF QueueCreateClient, ReceivePlayerState, ReceiveStarted, ReceiveReport, Disconnected,
                CreateSafe, Create, QueueStarted, QueueReport, QueueDisconnected, queueVars, Event,
                EventType, EventTypes
  <2>2. CASE \E event \in EventType :
              /\ ready' = Append(ready, event)
              /\ event.type \in {"create", "state", "started", "elsewhere", "report", "disconnected"}
    BY <1>1, <2>2, EventStep
  <2> QED
    BY <1>3, <2>1, <2>2
<1> QED
  BY <1>4, <1>5, <1>6

\* What is charged for leaves its share of the total, and is covered by it.
LEMMA PacketShare ==
    ASSUME NEW s \in Nat, NEW n \in Nat, NEW h \in Nat, NEW a \in Nat
    PROVE  /\ Total(s, n + 1, h, a) + 0 <= Total(s, n, h, a) + LimitedScore
           /\ \A m \in Nat : n + 1 <= m => Total(s, n, h, a) + LimitedScore <= Total(s, m, h, a) + 0
<1> DEFINE L == LimitedScore
<1>1. L \in Nat
  BY AntiCheatAssumption
<1>2. Total(s, n + 1, h, a) = Total(s, n, h, a) + L /\ Total(s, n, h, a) \in Nat
  BY TotalSteps
<1>3. ASSUME NEW m \in Nat, n + 1 <= m PROVE Total(s, n, h, a) + L <= Total(s, m, h, a) + 0
  <2>1. Total(s, n + 1, h, a) <= Total(s, m, h, a) /\ Total(s, m, h, a) \in Nat
    <3>1. n + 1 \in Nat /\ h <= h /\ a <= a
      OBVIOUS
    <3> QED
      BY <1>3, <3>1, TotalGrows
  <2> HIDE DEF L
  <2> QED
    BY <1>1, <1>2, <2>1
<1>4. Total(s, n + 1, h, a) + 0 <= Total(s, n, h, a) + L
  <2> HIDE DEF L
  <2> QED
    BY <1>1, <1>2
<1> QED
  BY <1>3, <1>4

LEMMA HitShare ==
    ASSUME NEW s \in Nat, NEW n \in Nat, NEW h \in Nat, NEW a \in Nat
    PROVE  /\ Total(s, n, h + 1, a) + 0 <= Total(s, n, h, a) + 2 * RegisteredScore
           /\ \A k \in Nat, x \in Nat : h + 1 <= k /\ x <= 2 * RegisteredScore =>
                 Total(s, n, h, a) + x <= Total(s, n, k, a) + 0
<1> DEFINE R == 2 * RegisteredScore
<1>1. R \in Nat
  BY AntiCheatAssumption
<1>2. Total(s, n, h + 1, a) = Total(s, n, h, a) + R /\ Total(s, n, h, a) \in Nat
  BY TotalSteps
<1>3. ASSUME NEW k \in Nat, NEW x \in Nat, h + 1 <= k, x <= R
      PROVE  Total(s, n, h, a) + x <= Total(s, n, k, a) + 0
  <2>1. Total(s, n, h + 1, a) <= Total(s, n, k, a) /\ Total(s, n, k, a) \in Nat
    <3>1. h + 1 \in Nat /\ n <= n /\ a <= a
      OBVIOUS
    <3> QED
      BY <1>3, <3>1, TotalGrows
  <2> HIDE DEF R
  <2> QED
    BY <1>1, <1>2, <1>3, <2>1
<1>4. Total(s, n, h + 1, a) + 0 <= Total(s, n, h, a) + R
  <2> HIDE DEF R
  <2> QED
    BY <1>1, <1>2
<1> QED
  BY <1>3, <1>4

LEMMA AnswerShare ==
    ASSUME NEW s \in Nat, NEW n \in Nat, NEW h \in Nat, NEW a \in Nat
    PROVE  /\ Total(s, n, h, a + 1) + 0 <= Total(s, n, h, a) + DigestScore
           /\ \A b \in Nat : a + 1 <= b => Total(s, n, h, a) + DigestScore <= Total(s, n, h, b) + 0
<1> DEFINE D == DigestScore
<1>1. D \in Nat
  BY AntiCheatAssumption
<1>2. Total(s, n, h, a + 1) = Total(s, n, h, a) + D /\ Total(s, n, h, a) \in Nat
  BY TotalSteps
<1>3. ASSUME NEW b \in Nat, a + 1 <= b PROVE Total(s, n, h, a) + D <= Total(s, n, h, b) + 0
  <2>1. Total(s, n, h, a + 1) <= Total(s, n, h, b) /\ Total(s, n, h, b) \in Nat
    <3>1. a + 1 \in Nat /\ n <= n /\ h <= h
      OBVIOUS
    <3> QED
      BY <1>3, <3>1, TotalGrows
  <2> HIDE DEF D
  <2> QED
    BY <1>1, <1>2, <2>1
<1>4. Total(s, n, h, a + 1) + 0 <= Total(s, n, h, a) + D
  <2> HIDE DEF D
  <2> QED
    BY <1>1, <1>2
<1> QED
  BY <1>3, <1>4

\* What is owed raises what can be charged.
LEMMA OwesMore ==
    ASSUME KInv, NEW c \in Clients, NEW y \in Nat, Owes(c, y)
    PROVE  /\ liable' \in [Clients -> Nat] /\ liable'[c] = liable[c] + y
           /\ \A d \in Clients \ {c} : liable'[d] = liable[d]
BY DEF KInv, Owes

\* A packet is owed for when it comes.
LEMMA PostingCharge ==
    ASSUME IInv, IInv', KInv, NEW c \in Clients, ReceiveConnectionRequest(c) \/ ReceiveCommand(c)
    PROVE  KInv'
<1> USE DEF ReceiveConnectionRequest, ReceiveCommand
<1>1. UNCHANGED <<suspicion, delayed, hand, ready>>
  BY DEF antiCheatVars, historyVars, queueVars
<1>2. posting = {} /\ \E packet : packet.client = c /\ posting' = {packet}
  BY DEF Receives, Packet
<1>3. LimitedScore \in Nat /\ Owes(c, LimitedScore)
  BY AntiCheatAssumption
<1>4. /\ liable' \in [Clients -> Nat] /\ liable'[c] = liable[c] + LimitedScore
      /\ \A d \in Clients \ {c} : liable'[d] = liable[d]
  BY <1>3, OwesMore
<1>5. \A d \in Clients \ {c} : Waiting(d)' = Waiting(d)
  BY <1>1, <1>2 DEF Waiting
<1>6. /\ Waiting(c) \in Nat /\ Hitting(c) \in Nat /\ Answering(c) \in Nat /\ suspicion[c] \in Nat
      /\ Waiting(c)' \in Nat
  BY CountsTyped
<1>7. Waiting(c)' = Waiting(c) + 1
  <2>1. Waiting(c) = Cardinality(Waits(delayed, hand # << >>, c)) + 0
    BY <1>2 DEF Waiting
  <2>2. Waiting(c)' = Cardinality(Waits(delayed, hand # << >>, c)) + 1
    BY <1>1, <1>2 DEF Waiting
  <2>3. Cardinality(Waits(delayed, hand # << >>, c)) \in Nat
    <3>1. delayed \in Seq(PacketType)
      BY DEF IInv, TypeOK, PacketType
    <3> QED
      BY <3>1, WaitsCount
  <2> QED
    BY <2>1, <2>2, <2>3
<1>8. Covered(c)'
  <2> DEFINE n == Waiting(c) + 1
  <2>1. n \in Nat /\ Waiting(c)' <= n
    BY <1>6, <1>7
  <2>2. Hitting(c)' <= Hitting(c) /\ Answering(c)' <= Answering(c)
    BY <1>1, SameEvents
  <2>3. suspicion'[c] = suspicion[c] + 0
    BY <1>1, <1>6
  <2>4. Total(suspicion[c], n, Hitting(c), Answering(c)) + 0
            <= Total(suspicion[c], Waiting(c), Hitting(c), Answering(c)) + LimitedScore
    BY <1>6, PacketShare
  <2> HIDE DEF n
  <2> QED
    BY <1>3, <1>4, <1>6, <2>1, <2>2, <2>3, <2>4, StaysCovered
<1>9. ASSUME NEW d \in Clients \ {c} PROVE Covered(d)'
  <2>1. Waiting(d)' <= Waiting(d)
    BY <1>5, CountsTyped
  <2> QED
    BY <1>1, <1>4, <2>1, SameEvents, StaysUncharged
<1> QED
  BY <1>4, <1>8, <1>9 DEF KInv

\* So is an answer, or a hit for both its charges.
LEMMA EventOwed ==
    ASSUME IInv, IInv', KInv, NEW event \in EventType, NEW y \in Nat, Owes(event.client, y),
           UNCHANGED <<suspicion, delayed, hand, posting>>, ready' = ready \/ ready' = Append(ready, event),
           \/ event.type = "hit" /\ y = 2 * RegisteredScore
           \/ event.type = "auth" /\ y = DigestScore
    PROVE  KInv'
<1> DEFINE c == event.client
<1>1. c \in Clients
  BY DEF EventType
<1>2. /\ liable' \in [Clients -> Nat] /\ liable'[c] = liable[c] + y
      /\ \A d \in Clients \ {c} : liable'[d] = liable[d]
  BY <1>1, OwesMore
<1>3. /\ Waiting(c) \in Nat /\ Hitting(c) \in Nat /\ Answering(c) \in Nat /\ suspicion[c] \in Nat
      /\ Hitting(c) + 1 \in Nat /\ Answering(c) + 1 \in Nat
  BY <1>1, CountsNow
<1>4. Waiting(c)' <= Waiting(c)
  BY <1>1, SamePackets
<1>5. suspicion'[c] = suspicion[c] + 0
  BY <1>3
<1>6. ASSUME event.type = "hit" /\ y = 2 * RegisteredScore PROVE Covered(c)'
  <2> DEFINE h == Hitting(c) + 1
  <2>1. h \in Nat /\ Hitting(c)' <= h
    BY <1>1, <1>3, AboutComes
  <2>2. Answering(c)' <= Answering(c)
    <3>1. event.type # "auth"
      BY <1>6
    <3> QED
      BY <1>1, <3>1, AboutComes
  <2>3. Total(suspicion[c], Waiting(c), h, Answering(c)) + 0
            <= Total(suspicion[c], Waiting(c), Hitting(c), Answering(c)) + y
    BY <1>3, <1>6, HitShare
  <2> HIDE DEF h, c
  <2> QED
    BY <1>1, <1>2, <1>3, <1>4, <1>5, <2>1, <2>2, <2>3, StaysCovered
<1>7. ASSUME event.type = "auth" /\ y = DigestScore PROVE Covered(c)'
  <2> DEFINE a == Answering(c) + 1
  <2>1. a \in Nat /\ Answering(c)' <= a
    BY <1>1, <1>3, AboutComes
  <2>2. Hitting(c)' <= Hitting(c)
    <3>1. event.type # "hit"
      BY <1>7
    <3> QED
      BY <1>1, <3>1, AboutComes
  <2>3. Total(suspicion[c], Waiting(c), Hitting(c), a) + 0
            <= Total(suspicion[c], Waiting(c), Hitting(c), Answering(c)) + y
    BY <1>3, <1>7, AnswerShare
  <2> HIDE DEF a, c
  <2> QED
    BY <1>1, <1>2, <1>3, <1>4, <1>5, <2>1, <2>2, <2>3, StaysCovered
<1>8. ASSUME NEW d \in Clients \ {c} PROVE Covered(d)'
  <2>1. event.client # d
    OBVIOUS
  <2>2. Hitting(d)' <= Hitting(d) /\ Answering(d)' <= Answering(d)
    BY <2>1, AboutComes
  <2> QED
    BY <1>2, <2>2, SamePackets, StaysUncharged
<1>9. Covered(c)'
  BY <1>6, <1>7
<1> HIDE DEF c
<1> QED
  BY <1>2, <1>8, <1>9 DEF KInv

\* Answers and hits that network threads, or the server's own game, queue.
LEMMA QueueingCharge ==
    ASSUME IInv, IInv', KInv, NEW c \in Clients, NEW d \in Clients,
           ReceiveAuth(c) \/ ReceiveHit(c, d) \/ SendOwnMessage(c)
    PROVE  KInv'
<1>1. UNCHANGED <<suspicion, delayed, hand, posting>>
  BY DEF ReceiveAuth, ReceiveHit, SendOwnMessage, antiCheatVars, packetVars
<1>2. DigestScore \in Nat /\ 2 * RegisteredScore \in Nat
  BY AntiCheatAssumption
<1>3. CASE ReceiveAuth(c)
  <2> DEFINE event == Event("auth", c, c)
  <2>1. event \in EventType /\ event.type = "auth" /\ event.client = c
    BY DEF Event, EventType, EventTypes
  <2>2. ready' = Append(ready, event) /\ Owes(c, DigestScore)
    BY <1>3 DEF ReceiveAuth, Create
  <2> HIDE DEF event
  <2> QED
    BY <1>1, <1>2, <2>1, <2>2, EventOwed
<1>4. ASSUME NEW e \in Clients, QueueHit(e) PROVE KInv'
  <2> DEFINE event == Event("hit", NoSender, e)
  <2>1. event \in EventType /\ event.type = "hit" /\ event.client = e
    BY DEF Event, EventType, EventTypes
  <2>2. (ready' = ready \/ ready' = Append(ready, event)) /\ Owes(e, 2 * RegisteredScore)
    BY <1>4 DEF QueueHit, CreateSafe
  <2> HIDE DEF event
  <2> QED
    BY <1>1, <1>2, <2>1, <2>2, EventOwed
<1>5. CASE QueueReport(NoSender, c) /\ liable' = liable
  <2> DEFINE event == Event("report", NoSender, c)
  <2>1. event \in EventType /\ event.type \notin {"hit", "auth"}
    BY DEF Event, EventType, EventTypes
  <2>2. ready' = ready \/ ready' = Append(ready, event)
    BY <1>5 DEF QueueReport, CreateSafe
  <2> HIDE DEF event
  <2> QED
    BY <1>1, <1>5, <2>1, <2>2, EventStep
<1> QED
  BY <1>3, <1>4, <1>5 DEF ReceiveHit, SendOwnMessage

\* A packet that was waiting to be queued is waiting to be handled.
LEMMA AddCharge == ASSUME IInv, IInv', KInv, AddDelayedPacket PROVE KInv'
<1> USE DEF AddDelayedPacket
<1>1. UNCHANGED <<suspicion, liable, ready, hand>> /\ posting' = {}
  BY DEF antiCheatVars, remoteVars, historyVars, queueVars
<1>2. PICK packet \in posting : delayed' = Append(delayed, packet)
  OBVIOUS
<1>3. delayed \in Seq(PacketType) /\ packet \in PacketType
  BY DEF IInv, TypeOK, PacketType
<1>4. ASSUME NEW c \in Clients PROVE Waiting(c)' <= Waiting(c)
  <2> DEFINE before == Cardinality(Waits(delayed, hand # << >>, c))
             after == Cardinality(Waits(delayed', hand # << >>, c))
  <2>1. Waiting(c)' = after + 0
    BY <1>1 DEF Waiting
  <2>2. Waiting(c) = before + (IF \E p \in posting : p.client = c THEN 1 ELSE 0)
    BY DEF Waiting
  <2>3. after <= before + 1 /\ (packet.client # c => after <= before)
    BY <1>2, <1>3, WaitsAppend
  <2>4. before \in Nat /\ after \in Nat
    <3>1. delayed' \in Seq(PacketType)
      BY DEF IInv, TypeOK, PacketType
    <3> QED
      BY <1>3, <3>1, WaitsCount
  <2> HIDE DEF before, after
  <2>5. CASE packet.client = c
    BY <2>1, <2>2, <2>3, <2>4, <2>5
  <2>6. CASE packet.client # c
    BY <2>1, <2>2, <2>3, <2>4, <2>6
  <2> QED
    BY <2>5, <2>6
<1> QED
  BY <1>1, <1>4, PacketStep

\* A packet that is erased is not charged for.
LEMMA EraseCharge == ASSUME IInv, IInv', KInv, NEW c \in Clients, ErasePacket(c) PROVE KInv'
<1> USE DEF ErasePacket
<1>1. UNCHANGED <<suspicion, liable, ready, hand, posting>>
  BY DEF antiCheatVars, remoteVars, historyVars, queueVars
<1>2. delayed \in Seq(PacketType) /\ delayed' \in Seq(PacketType)
  BY DEF IInv, TypeOK, PacketType
<1>3. PICK i \in DOMAIN delayed : delayed' = [n \in 1..Len(delayed) - 1 |-> delayed[IF n < i THEN n ELSE n + 1]]
  BY DEF PacketsOf
<1>4. ASSUME NEW d \in Clients PROVE Waiting(d)' <= Waiting(d)
  <2> DEFINE before == Cardinality(Waits(delayed, hand # << >>, d))
             after == Cardinality(Waits(delayed', hand # << >>, d))
             more == IF \E p \in posting : p.client = d THEN 1 ELSE 0
  <2>1. Waiting(d)' = after + more /\ Waiting(d) = before + more /\ more \in Nat
    BY <1>1 DEF Waiting
  <2>2. after <= before
    BY <1>2, <1>3, WaitsWithout
  <2>3. before \in Nat /\ after \in Nat
    BY <1>2, WaitsCount
  <2> HIDE DEF before, after, more
  <2> QED
    BY <2>1, <2>2, <2>3
<1> QED
  BY <1>1, <1>4, PacketStep

\* Nor is one that is taken off.
LEMMA PopCharge == ASSUME IInv, IInv', KInv, PopPacket PROVE KInv'
<1>1. UNCHANGED <<suspicion, liable, ready, posting>> /\ hand # << >> /\ hand' = << >>
  BY DEF PopPacket, antiCheatVars, remoteVars, historyVars, queueVars
<1>2. delayed \in Seq(PacketType) /\ delayed' \in Seq(PacketType)
  BY DEF IInv, TypeOK, PacketType
<1>3. ASSUME NEW d \in Clients PROVE Waiting(d)' <= Waiting(d)
  <2> DEFINE before == Cardinality(Waits(delayed, TRUE, d))
             after == Cardinality(Waits(delayed', FALSE, d))
             more == IF \E p \in posting : p.client = d THEN 1 ELSE 0
  <2>1. Waiting(d)' = after + more /\ Waiting(d) = before + more /\ more \in Nat
    <3>1. (hand # << >>) = TRUE /\ (hand' # << >>) = FALSE
      BY <1>1
    <3> QED
      BY <1>1, <3>1 DEF Waiting
  <2>2. before \in Nat /\ after \in Nat
    BY <1>2, WaitsCount
  <2>3. after <= before
    <3>1. CASE delayed # << >> /\ delayed' = Tail(delayed)
      <4>1. Cardinality(Waits(Tail(delayed), FALSE, d)) <= Cardinality(Waits(delayed, TRUE, d))
        BY <1>2, <3>1, WaitsTail
      <4> QED
        BY <3>1, <4>1
    <3>2. CASE delayed = << >> /\ delayed' = << >>
      <4>1. Waits(<< >>, FALSE, d) = {} /\ Waits(<< >>, TRUE, d) = {}
        BY DEF Waits
      <4>2. after = Cardinality({}) /\ before = Cardinality({})
        BY <3>2, <4>1
      <4> HIDE DEF before, after
      <4> QED
        BY <2>2, <4>2
    <3> QED
      BY <3>1, <3>2 DEF PopPacket
  <2> HIDE DEF before, after, more
  <2> QED
    BY <2>1, <2>2, <2>3
<1> QED
  BY <1>1, <1>3, PacketStep

\* The packet taken in hand waits no more.
LEMMA HandleWaits ==
    ASSUME IInv, IInv', NEW kind, NEW c \in Clients, Handles(kind, c), NEW d \in Clients
    PROVE  /\ Waiting(d)' <= Waiting(d)
           /\ Waiting(c)' + 1 <= Waiting(c)
<1>1. /\ hand = << >> /\ hand' # << >> /\ posting' = posting /\ delayed' = delayed
      /\ delayed # << >> /\ Head(delayed).client = c
  BY DEF Handles, packetVars, Packet
<1>2. delayed \in Seq(PacketType)
  BY DEF IInv, TypeOK, PacketType
<1>3. ASSUME NEW e \in Clients
      PROVE  Waiting(e)' <= Waiting(e) /\ (e = c => Waiting(e)' + 1 <= Waiting(e))
  <2> DEFINE before == Cardinality(Waits(delayed, FALSE, e))
             after == Cardinality(Waits(delayed, TRUE, e))
             more == IF \E p \in posting : p.client = e THEN 1 ELSE 0
  <2>1. Waiting(e)' = after + more /\ Waiting(e) = before + more /\ more \in Nat
    <3>1. (hand # << >>) = FALSE /\ (hand' # << >>) = TRUE
      BY <1>1
    <3> QED
      BY <1>1, <3>1 DEF Waiting
  <2>2. before \in Nat /\ after \in Nat
    BY <1>2, WaitsCount
  <2>3. after <= before /\ (e = c => after + 1 <= before)
    BY <1>1, <1>2, WaitsHead
  <2> HIDE DEF before, after, more
  <2> QED
    BY <2>1, <2>2, <2>3
<1> QED
  BY <1>3

\* A packet is charged for once.
LEMMA PacketCharge ==
    ASSUME IInv, IInv', KInv, NEW c \in Clients,
           HandleOrphan(c) \/ HandleLimited(c) \/ HandleRequest(c) \/ HandleCommand(c)
    PROVE  KInv'
<1>1. PICK kind \in {"request", "command"} : Handles(kind, c)
  BY DEF HandleOrphan, HandleLimited, HandleRequest, HandleCommand
<1>2. UNCHANGED <<liable, ready>>
  BY <1>1 DEF HandleOrphan, HandleLimited, HandleRequest, HandleCommand, Handles, remoteVars, queueVars
<1>3. \A d \in Clients : Waiting(d)' <= Waiting(d)
  BY <1>1, HandleWaits
<1>4. CASE suspicion' = suspicion
  BY <1>2, <1>3, <1>4, PacketStep
<1>5. CASE HandleLimited(c)
  <2>1. suspicion' = [suspicion EXCEPT ![c] = @ + 0 + LimitedScore] /\ LimitedScore \in Nat
    BY <1>5, AntiCheatAssumption DEF HandleLimited, RegisterViolation
  <2>2. suspicion \in [Clients -> Nat] /\ liable \in [Clients -> Nat]
    BY DEF IInv, TypeOK, KInv
  <2>3. /\ suspicion'[c] = suspicion[c] + LimitedScore
        /\ \A d \in Clients \ {c} : suspicion'[d] = suspicion[d]
    BY <2>1, <2>2
  <2>4. Covered(c)'
    <3> DEFINE n == Waiting(c)'
    <3>1. /\ n \in Nat /\ Waiting(c) \in Nat /\ Hitting(c) \in Nat /\ Answering(c) \in Nat
          /\ suspicion[c] \in Nat
      BY CountsTyped
    <3>2. n + 1 <= Waiting(c)
      BY <1>1, HandleWaits
    <3>3. n <= n
      BY <3>1
    <3>4. Hitting(c)' <= Hitting(c) /\ Answering(c)' <= Answering(c)
      BY <1>2, SameEvents
    <3>5. liable'[c] = liable[c] + 0
      BY <1>2, <2>2
    <3>6. Waiting(c)' <= n
      BY <3>3
    <3> HIDE DEF n
    <3>7. Total(suspicion[c], n, Hitting(c), Answering(c)) + LimitedScore
              <= Total(suspicion[c], Waiting(c), Hitting(c), Answering(c)) + 0
      BY <3>1, <3>2, PacketShare
    <3> QED
      BY <2>1, <2>3, <3>1, <3>4, <3>5, <3>6, <3>7, StaysCovered
  <2>5. ASSUME NEW d \in Clients \ {c} PROVE Covered(d)'
    BY <1>2, <1>3, <2>3, SameEvents, StaysUncharged
  <2> QED
    BY <1>2, <2>2, <2>4, <2>5 DEF KInv
<1> QED
  BY <1>4, <1>5 DEF HandleOrphan, HandleLimited, HandleRequest, HandleCommand, antiCheatVars

\* An event that is taken off.
LEMMA HandledWithin ==
    ASSUME IInv, ready # << >>, Release
    PROVE  Within(ready', ready)
BY TailWithin DEF IInv, TypeOK, EventType, Release

\* An answer, or a refused hit for both its charges, is charged for once.
LEMMA EventCharged ==
    ASSUME IInv, IInv', KInv, NEW type, NEW c \in Clients, Handled(type, c), NEW x \in Nat,
           suspicion'[c] = suspicion[c] + x, \A d \in Clients \ {c} : suspicion'[d] = suspicion[d],
           \/ type = "hit" /\ x <= 2 * RegisteredScore
           \/ type = "auth" /\ x = DigestScore
    PROVE  KInv'
<1>1. /\ UNCHANGED <<liable, delayed, hand, posting>> /\ ready' = Tail(ready)
      /\ Head(ready).type = type /\ Head(ready).client = c /\ ready # << >>
  BY DEF Handled, Release, packetVars, InFront
<1>2. ready \in Seq(EventType) /\ liable \in [Clients -> Nat]
  BY DEF IInv, TypeOK, EventType, KInv
<1>3. Within(ready', ready)
  BY <1>1, HandledWithin DEF Release
<1>4. \A d \in Clients : Hitting(d)' <= Hitting(d) /\ Answering(d)' <= Answering(d)
  BY <1>3, AboutGoes
<1>5. \A d \in Clients : Waiting(d)' <= Waiting(d)
  BY <1>1, SamePackets
<1>6. /\ Waiting(c) \in Nat /\ Hitting(c) \in Nat /\ Answering(c) \in Nat /\ suspicion[c] \in Nat
      /\ Hitting(c)' \in Nat /\ Answering(c)' \in Nat
  BY CountsTyped
<1>7. liable'[c] = liable[c] + 0
  BY <1>1, <1>2
<1>8. Cardinality(About(Tail(ready), type, c)) + 1 <= Cardinality(About(ready, type, c))
  BY <1>1, <1>2, AboutTail
<1>9. CASE type = "hit" /\ x <= 2 * RegisteredScore
  <2> DEFINE h == Hitting(c)'
  <2>1. h + 1 <= Hitting(c)
    BY <1>1, <1>8, <1>9 DEF Hitting
  <2>2. h \in Nat /\ Hitting(c)' <= h
    BY <1>6
  <2> HIDE DEF h
  <2>3. Total(suspicion[c], Waiting(c), h, Answering(c)) + x
            <= Total(suspicion[c], Waiting(c), Hitting(c), Answering(c)) + 0
    BY <1>6, <1>9, <2>1, <2>2, HitShare
  <2> QED
    <3>1. Covered(c)'
      BY <1>4, <1>5, <1>6, <1>7, <2>2, <2>3, StaysCovered
    <3>2. ASSUME NEW d \in Clients \ {c} PROVE Covered(d)'
      BY <1>1, <1>4, <1>5, StaysUncharged
    <3> QED
      BY <1>1, <1>2, <3>1, <3>2 DEF KInv
<1>10. CASE type = "auth" /\ x = DigestScore
  <2> DEFINE a == Answering(c)'
  <2>1. a + 1 <= Answering(c)
    BY <1>1, <1>8, <1>10 DEF Answering
  <2>2. a \in Nat /\ Answering(c)' <= a
    BY <1>6
  <2> HIDE DEF a
  <2>3. Total(suspicion[c], Waiting(c), Hitting(c), a) + x
            <= Total(suspicion[c], Waiting(c), Hitting(c), Answering(c)) + 0
    BY <1>6, <1>10, <2>1, <2>2, AnswerShare
  <2> QED
    <3>1. Covered(c)'
      BY <1>4, <1>5, <1>6, <1>7, <2>2, <2>3, StaysCovered
    <3>2. ASSUME NEW d \in Clients \ {c} PROVE Covered(d)'
      BY <1>1, <1>4, <1>5, StaysUncharged
    <3> QED
      BY <1>1, <1>2, <3>1, <3>2 DEF KInv
<1> QED
  BY <1>9, <1>10

\* Events that cost nothing.
LEMMA FreeEvents ==
    ASSUME IInv, IInv', KInv, NEW c \in Clients,
           \/ OnCreateClient(c) \/ OnCreatePlayerState(c) \/ OnReport(c) \/ OnPlayerStarted(c)
           \/ OnStartedElsewhere(c) \/ OnPlayerDisconnect(c)
    PROVE  KInv'
<1>1. UNCHANGED <<suspicion, liable, delayed, hand, posting>>
  BY DEF OnCreateClient, OnCreatePlayerState, OnReport, OnPlayerStarted, OnStartedElsewhere,
         OnPlayerDisconnect, Handled, antiCheatVars, packetVars, remoteVars
<1>2. ready' = ready \/ (ready # << >> /\ Release)
  BY DEF OnCreateClient, AttachIfFound, OnCreatePlayerState, OnReport, OnPlayerStarted,
         OnStartedElsewhere, OnPlayerDisconnect, Handled, InFront, queueVars
<1>3. ready \in Seq(EventType)
  BY DEF IInv, TypeOK, EventType
<1>4. Within(ready', ready)
  BY <1>2, <1>3, SelfWithin, HandledWithin
<1> QED
  BY <1>1, <1>4, EventStep

\* An answer with a differing digest is charged for.
LEMMA AuthCharge == ASSUME IInv, IInv', KInv, NEW c \in Clients, OnPlayerAuth(c) PROVE KInv'
<1>1. Handled("auth", c)
  BY DEF OnPlayerAuth
<1>2. /\ UNCHANGED <<liable, delayed, hand, posting>> /\ ready # << >> /\ Release
  BY <1>1 DEF Handled, InFront, packetVars
<1>3. CASE suspicion' = suspicion
  <2>1. Within(ready', ready)
    BY <1>2, HandledWithin
  <2> QED
    BY <1>2, <1>3, <2>1, EventStep
<1>4. CASE RegisterViolation(c, 0, DigestScore)
  <2>1. suspicion \in [Clients -> Nat] /\ DigestScore \in Nat
    BY AntiCheatAssumption DEF IInv, TypeOK
  <2>2. /\ suspicion'[c] = suspicion[c] + DigestScore
        /\ \A d \in Clients \ {c} : suspicion'[d] = suspicion[d]
    BY <1>4, <2>1 DEF RegisterViolation
  <2> QED
    BY <1>1, <2>1, <2>2, EventCharged
<1> QED
  BY <1>3, <1>4 DEF OnPlayerAuth, JudgeAuth, antiCheatVars

\* A refused hit is charged for once, by the authority and by its caller.
LEMMA RefusalCharge ==
    ASSUME HitsCovered, IInv, IInv', KInv, NEW c \in Clients, OnHit(c)
    PROVE  KInv'
<1>1. Handled("hit", c)
  BY DEF OnHit
<1>2. /\ UNCHANGED <<liable, delayed, hand, posting>> /\ ready # << >> /\ Release
  BY <1>1 DEF Handled, InFront, packetVars
<1>3. CASE suspicion' = suspicion
  <2>1. Within(ready', ready)
    BY <1>2, HandledWithin
  <2> QED
    BY <1>2, <1>3, <2>1, EventStep
<1>4. CASE RefuseHit(c)
  <2>1. PICK extra \in HitScores : suspicion' = [suspicion EXCEPT ![c] = @ + extra + RegisteredScore]
    BY <1>4 DEF RefuseHit, RegisterViolation
  <2>2. suspicion \in [Clients -> Nat] /\ extra \in Nat /\ RegisteredScore \in Nat /\ extra <= RegisteredScore
    BY AntiCheatAssumption DEF IInv, TypeOK, HitsCovered
  <2> DEFINE x == extra + RegisteredScore
  <2>3. x \in Nat /\ x <= 2 * RegisteredScore
    BY <2>2
  <2>4. suspicion'[c] = suspicion[c] + x /\ \A d \in Clients \ {c} : suspicion'[d] = suspicion[d]
    <3>1. suspicion'[c] = suspicion[c] + extra + RegisteredScore /\ suspicion[c] \in Nat
      BY <2>1, <2>2
    <3> QED
      BY <2>1, <2>2, <3>1
  <2> HIDE DEF x
  <2> QED
    BY <1>1, <2>3, <2>4, EventCharged
<1> QED
  BY <1>3, <1>4 DEF OnHit, antiCheatVars

\* What is erased or thrown away is not charged for.
LEMMA ErasureCharge ==
    ASSUME IInv, IInv', KInv,
           \/ \E c \in Clients : OnRefusedPlayerState(c) \/ AttachNewClient(c)
           \/ ReleaseReport \/ ReleaseAfterErasure \/ EndPackets \/ EndEvents
           \/ NothingNew \/ OnRoundStart \/ OnPlayerScores \/ OnRoundEnd \/ IgnoreClients
    PROVE  KInv'
<1>1. UNCHANGED <<suspicion, liable, delayed, hand, posting>>
  BY DEF OnRefusedPlayerState, AttachNewClient, ReleaseReport, ReleaseAfterErasure, EndPackets, EndEvents,
         NothingNew, OnRoundStart, OnPlayerScores, OnRoundEnd, IgnoreClients, Plays, EndFrame,
         KickCheaters, antiCheatVars, packetVars, remoteVars, historyVars
<1>2. ready \in Seq(EventType)
  BY DEF IInv, TypeOK, EventType
<1>3. Within(ready', ready)
  <2>1. CASE ready' = ready
    BY <1>2, <2>1, SelfWithin
  <2>2. CASE ready' = << >>
    BY <1>2, <2>2, SelfWithin
  <2>3. CASE ready # << >> /\ Release
    BY <2>3, HandledWithin
  <2>4. ASSUME NEW c \in Clients, OnRefusedPlayerState(c) PROVE Within(ready', ready)
    <3>1. EventsFrom(c) \in SUBSET DOMAIN ready /\ EraseEventsAt(EventsFrom(c))
      BY <2>4 DEF OnRefusedPlayerState, EventsFrom
    <3> QED
      BY <3>1, ErasedFits
  <2>5. CASE \E c \in Clients : AttachNewClient(c)
    <3>1. frame = "attach" /\ (ready' = ready \/ Release)
      BY <2>5 DEF AttachNewClient, GameAt
    <3>2. ready # << >>
      BY <3>1 DEF IInv, FrontFits
    <3> QED
      BY <2>1, <2>3, <3>1, <3>2
  <2>6. CASE ReleaseReport
    <3>1. frame = "handled" /\ Release
      BY <2>6 DEF ReleaseReport, GameAt
    <3>2. ready # << >>
      BY <3>1 DEF IInv, FrontFits
    <3> QED
      BY <2>3, <3>1, <3>2
  <2>7. CASE ReleaseAfterErasure
    BY <2>1, <2>3, <2>7 DEF ReleaseAfterErasure, queueVars
  <2>8. CASE EndPackets \/ EndEvents \/ NothingNew \/ OnRoundStart \/ OnPlayerScores \/ OnRoundEnd \/ IgnoreClients
    BY <2>1, <2>2, <2>8 DEF EndPackets, EndEvents, NothingNew, OnRoundStart, OnPlayerScores, OnRoundEnd,
       IgnoreClients, EraseEvents, queueVars
  <2> QED
    BY <2>4, <2>5, <2>6, <2>7, <2>8
<1> QED
  BY <1>1, <1>3, EventStep

\* Nobody has sent anything.
LEMMA InitCharge == Init => KInv
<1> SUFFICES ASSUME Init PROVE KInv
  OBVIOUS
<1> USE DEF Init, QueueInit, AntiCheatInit
<1>1. liable \in [Clients -> Nat]
  OBVIOUS
<1>2. ASSUME NEW c \in Clients PROVE Covered(c)
  <2>1. Waits(delayed, hand # << >>, c) = {} /\ \A type : About(ready, type, c) = {}
    BY DEF Waits, About
  <2>2. Cardinality({}) = 0
    BY FS_EmptySet
  <2>3. Hitting(c) = 0 /\ Answering(c) = 0
    BY <2>1, <2>2 DEF Hitting, Answering
  <2>4. Waiting(c) = 0
    <3>1. ~ \E packet \in posting : packet.client = c
      OBVIOUS
    <3>2. Waiting(c) = 0 + 0
      BY <2>1, <2>2, <3>1 DEF Waiting
    <3> QED
      BY <3>2
  <2>5. Total(0, 0, 0, 0) = 0
    BY AntiCheatAssumption DEF Total
  <2>6. suspicion[c] = 0 /\ liable[c] = 0
    OBVIOUS
  <2> QED
    BY <2>3, <2>4, <2>5, <2>6 DEF Covered
<1> QED
  BY <1>1, <1>2 DEF KInv

\* What the game thread does keeps the scores covered.
LEMMA GameThreadCharge == ASSUME HitsCovered, IInv, IInv', KInv, GameThread PROVE KInv'
<1>1. ASSUME NEW c \in Clients,
             HandleOrphan(c) \/ HandleLimited(c) \/ HandleRequest(c) \/ HandleCommand(c)
      PROVE  KInv'
  BY <1>1, PacketCharge
<1>2. ASSUME NEW c \in Clients,
             \/ OnCreateClient(c) \/ OnCreatePlayerState(c) \/ OnReport(c) \/ OnPlayerStarted(c)
             \/ OnStartedElsewhere(c) \/ OnPlayerDisconnect(c)
      PROVE  KInv'
  BY <1>2, FreeEvents
<1>3. ASSUME NEW c \in Clients, OnPlayerAuth(c) \/ OnHit(c) PROVE KInv'
  BY <1>3, AuthCharge, RefusalCharge
<1>4. CASE \E c \in Clients : OnRefusedPlayerState(c) \/ AttachNewClient(c)
  BY <1>4, ErasureCharge
<1>5. CASE \/ ReleaseReport \/ ReleaseAfterErasure \/ EndPackets \/ EndEvents
           \/ NothingNew \/ OnRoundStart \/ OnPlayerScores \/ OnRoundEnd \/ IgnoreClients
  BY <1>5, ErasureCharge
<1>6. CASE PopPacket
  BY <1>6, PopCharge
<1> QED
  BY <1>1, <1>2, <1>3, <1>4, <1>5, <1>6 DEF GameThread

\* Every step of every thread does.
LEMMA NextCharge == ASSUME HitsCovered, IInv, IInv', KInv, [Next]_vars PROVE KInv'
<1>1. CASE UNCHANGED vars
  BY <1>1 DEF KInv, Covered, Waiting, Hitting, Answering, vars, queueVars, antiCheatVars, clientVars,
              packetVars, remoteVars, historyVars
<1>2. ASSUME NEW c \in Clients, NEW d \in Clients,
             \/ ListClient(c) \/ QueueCreateClient(c)
             \/ ReceivePlayerState(c) \/ ReceiveDigest(c) \/ ReceiveStarted(c) \/ ReceiveReport(c, d)
             \/ Disconnected(c) \/ Delist(c) \/ RaceOverPackets(c) \/ EraseReports(c)
      PROVE  KInv'
  BY <1>2, NetworkCharge
<1>3. ASSUME NEW c \in Clients, NEW d \in Clients, ReceiveAuth(c) \/ ReceiveHit(c, d) \/ SendOwnMessage(c)
      PROVE  KInv'
  BY <1>3, QueueingCharge
<1>4. ASSUME NEW c \in Clients, ReceiveConnectionRequest(c) \/ ReceiveCommand(c) PROVE KInv'
  BY <1>4, PostingCharge
<1>5. ASSUME NEW c \in Clients, ErasePacket(c) PROVE KInv'
  BY <1>5, EraseCharge
<1>6. CASE AddDelayedPacket
  BY <1>6, AddCharge
<1>7. ASSUME NEW c \in Clients, Message(c) PROVE KInv'
  BY <1>2, <1>3, <1>4, <1>7 DEF Message
<1>8. ASSUME NEW c \in Clients, Removal(c) PROVE KInv'
  BY <1>2, <1>5, <1>8 DEF Removal
<1> QED
  BY <1>1, <1>2, <1>3, <1>6, <1>7, <1>8, GameThreadCharge DEF Next

\* Nothing is charged twice, if the hit authority charges a hit no higher than
\* its caller does: a score is covered by the packets and answers the client has
\* sent and by the hits that name its entity, whatever is erased under the hands
\* of the game thread.
THEOREM ScoresEarned == ASSUME HitsCovered PROVE Spec => []KickEarned
<1>1. Init => IInv /\ KInv
  BY InitInv, InitCharge
<1>2. (IInv /\ KInv) /\ [Next]_vars => (IInv /\ KInv)'
  BY NextInv, NextCharge
<1>3. IInv /\ KInv => KickEarned
  <2> SUFFICES ASSUME IInv, KInv, NEW c \in Clients PROVE suspicion[c] <= liable[c]
    BY DEF KickEarned
  <2> DEFINE s == suspicion[c]
             n == Waiting(c)
             h == Hitting(c)
             a == Answering(c)
  <2>1. Total(s, n, h, a) <= liable[c] /\ liable[c] \in Nat
    BY DEF KInv, Covered
  <2>2. s \in Nat /\ n \in Nat /\ h \in Nat /\ a \in Nat
    BY CountsNow
  <2>3. Total(s, 0, 0, 0) = s
    BY <2>2, AntiCheatAssumption DEF Total
  <2> HIDE DEF s, n, h, a
  <2>4. 0 <= n /\ 0 <= h /\ 0 <= a /\ 0 \in Nat
    BY <2>2
  <2>5. Total(s, 0, 0, 0) <= Total(s, n, h, a) /\ Total(s, n, h, a) \in Nat
    BY <2>2, <2>4, TotalGrows
  <2>6. s <= liable[c]
    BY <2>1, <2>2, <2>3, <2>5
  <2> QED
    BY <2>6 DEF s
<1> QED
  BY <1>1, <1>2, <1>3, PTL DEF Spec
==============================================================================
