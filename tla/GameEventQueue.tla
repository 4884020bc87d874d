--------------------------- MODULE GameEventQueue ----------------------------
(***************************************************************************)
(* GameEventQueue: the events network threads leave for the game thread.   *)
(* The game thread looks at the oldest event, handles it, and only then    *)
(* takes it off.  The free list the code keeps beside it is memory only.   *)
(***************************************************************************)
EXTENDS Integers, Sequences, FiniteSets

VARIABLES
    ready,     \* the events in order
    blocked    \* m_blocked_clients: the clients whose events are ignored

queueVars == <<ready, blocked>>

\* Events that name their client in the packet have no sender.
NoSender == "no sender"

\* One event: who sent it, and the client it is about: of a report the victim, of a
\* hit the owner of the entity that is named as the hitter.
Event(type, sender, client) == [type |-> type, sender |-> sender, client |-> client]

QueueInit == ready = << >> /\ blocked = {}

Create(event) ==
    /\ ready' = Append(ready, event)
    /\ UNCHANGED blocked

\* A blocked client's event is dropped without a word.
CreateSafe(event) ==
    /\ ready' = IF event.sender \in blocked THEN ready ELSE Append(ready, event)
    /\ UNCHANGED blocked

\* Deviation: the event goes to the free list and stays in the queue.
Release_KeepsFront == ready' = ready

\* Deviation: the newest event is taken off.
Release_Newest == ready' = SubSeq(ready, 1, Len(ready) - 1)

\* Takes off whatever is in front by now.
Release == ready' = Tail(ready)

\* The positions in kept, in their order: what erasing the others leaves.
InOrder(kept) ==
    {order \in [1..Cardinality(kept) -> kept] :
        /\ \A i \in kept : \E n \in DOMAIN order : order[n] = i
        /\ \A m, n \in DOMAIN order : m < n => order[m] < order[n]}

\* EraseEvents: the events at these positions go, the others keep their order.
EraseEventsAt(positions) ==
    \E order \in InOrder(DOMAIN ready \ positions) :
        ready' = [n \in DOMAIN order |-> ready[order[n]]]

\* The predicate of CleanDelayedEventFor(ClientID): what the client has sent.
EventsFrom(client) == {i \in DOMAIN ready : ready[i].sender = client}

\* The predicate of CleanDelayedEventFor(u16): reports of hits on an entity, here of
\* any entity the client has had.
ReportsOn(client) == {i \in DOMAIN ready : ready[i].type = "report" /\ ready[i].client = client}

\* EraseEvents with PredicateForAll.
EraseEvents == ready' = << >>

SetIgnoreEventsFor(ignore, clients) ==
    blocked' = IF ignore THEN blocked \cup clients ELSE blocked \ clients
==============================================================================
