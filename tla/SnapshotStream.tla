---------------------------- MODULE SnapshotStream ----------------------------
(***************************************************************************)
(* The frames of SnapshotBuilder on the unreliable channel, which may lose *)
(* and reorder them, and the buffer each client keeps of what arrives.     *)
(***************************************************************************)
EXTENDS SnapshotBuilder, SnapshotBuffer

CONSTANTS
    MaxValue, MaxSequence,    \* bounds: changes of a component, frames built
    Listeners                 \* bound: the clients whose channel is followed; the others lose all

ASSUME StreamAssumption == {MaxValue, MaxSequence} \subseteq Nat /\ Listeners \subseteq Clients

VARIABLES
    inflight,    \* the frames on their way to each client
    received,    \* history: the frames each client got
    buffers,     \* every client's SnapshotBuffer
    since        \* history: the sequence of the frame that first showed an entity

streamVars == <<vars, inflight, received, buffers, since>>

StreamInit ==
    /\ Init
    /\ inflight = [c \in Clients |-> {}]
    /\ received = [c \in Clients |-> {}]
    /\ buffers = [c \in Clients |-> << >>]
    /\ since = [c \in Clients |-> [e \in Entities |-> 0]]

World ==
    /\ \/ \E e \in Entities : create(e) \/ destroy(e)
       \/ \E e \in Entities, k \in Components : value[e][k] < MaxValue /\ Change(e, k)
    /\ UNCHANGED <<inflight, received, buffers, since>>

\* A tick of the server; the clients' sequences count the ticks.
SendFrames ==
    \E visible \in Views :
        /\ \A c \in Clients : nextSequence[c] <= MaxSequence
        /\ BuildFrames(visible, Max({nextSequence[c] : c \in Clients}))
        /\ inflight' = [c \in Clients |-> inflight[c] \cup
                {Frame(d, visible[d], Max({nextSequence[b] : b \in Clients})) :
                    d \in Listeners \cap {c}}]
        /\ since' = [c \in Clients |-> [e \in Entities |->
                IF e \in visible[c] /\ FirstVisible(c, e) THEN nextSequence[c] ELSE since[c][e]]]
        /\ UNCHANGED <<received, buffers>>

Lose(c) ==
    \E frame \in inflight[c] :
        /\ inflight' = [inflight EXCEPT ![c] = @ \ {frame}]
        /\ UNCHANGED <<vars, received, buffers, since>>

Receive(c) ==
    \E frame \in inflight[c] :
        /\ inflight' = [inflight EXCEPT ![c] = @ \ {frame}]
        /\ received' = [received EXCEPT ![c] = @ \cup {frame}]
        /\ buffers' = [buffers EXCEPT ![c] = push(@, frame)]
        /\ UNCHANGED <<vars, since>>

StreamNext ==
    \/ World
    \/ SendFrames
    \/ \E c \in Clients : Lose(c) \/ Receive(c)

StreamSpec == StreamInit /\ [][StreamNext]_streamVars

------------------------------------------------------------------------------
\* The components of e that the frames, taken in the order of their sequences,
\* leave a client with.
Known(frames, e) ==
    {k \in Components :
        \E f \in frames :
            /\ k \in f.mask[e]
            /\ \A g \in frames : e \in g.removed => g.sequence < f.sequence}

\* Every entity in view becomes known with all the components it appeared with,
\* unless all the frames of its full resend are lost.
GuaranteedSync ==
    \A c \in Clients : \A e \in lastVisible[c] : \A frame \in received[c] :
        frame.sequence \in since[c][e]..since[c][e] + FullSyncRepeatCount - 1 =>
            {k \in Components : frame.value[e][k] # 0} \subseteq Known(received[c], e)

\* However frames are reordered and lost, the buffer is in the order of the
\* sequences and holds each frame once.
BufferSorted ==
    \A c \in Clients : \A i, j \in DOMAIN buffers[c] :
        i < j => buffers[c][i].sequence < buffers[c][j].sequence

\* The newest Capacity frames a client got are all in its buffer.
NewestKept ==
    \A c \in Clients : \A frame \in received[c] :
        Cardinality({f \in received[c] : f.sequence > frame.sequence}) < Capacity =>
            \E i \in DOMAIN buffers[c] : buffers[c][i] = frame

RenderTimes == 0..MaxSequence + InterpolationDelay + MaxExtrapolation + 1

\* A sample is made of two neighbours in time, with no frame of the buffer
\* between them, and they enclose its time unless the buffer does not.
SampleBracketed ==
    \A c \in Clients, renderTime \in RenderTimes :
        buffers[c] # << >> =>
            LET target == Target(renderTime)
                older == buffers[c][Older(buffers[c], target)].serverTime
                newer == buffers[c][Newer(buffers[c], target)].serverTime
                times == {buffers[c][i].serverTime : i \in DOMAIN buffers[c]} IN
            /\ older <= newer
            /\ \A time \in times : ~(older < time /\ time < newer)
            /\ target \in Min(times)..Max(times) => older <= target /\ target <= newer

==============================================================================
