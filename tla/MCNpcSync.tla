------------------------------ MODULE MCNpcSync ------------------------------
EXTENDS NpcSync

CONSTANTS MaxValue, MaxFlight    \* bounds: changes of a component, builds on their way

Intervals == [tier \in Tiers |-> IF tier = "near" THEN 1 ELSE MaxInterval]

Register(n) == state[n]["Velocity"] < MaxValue /\ registerNpc(n)

Change(n, k) == state[n][k] < MaxValue /\ updateNpcState(n, k)

Build(o, tierOf) == Len(channel[o]) < MaxFlight /\ buildSyncPackets(o, tierOf)

MCNext ==
    \/ \E n \in Npcs : Register(n)
    \/ \E n \in Npcs, k \in Components : Change(n, k)
    \/ \E o \in Observers, n \in Npcs : registerCopy(o, n)
    \/ \E o \in Observers, tierOf \in TierOf : Build(o, tierOf)
    \/ \E o \in Observers : applySyncPacket(o)
    \/ Tick

MCSpec == Init /\ [][MCNext]_vars

\* The host builds and applies packets every frame, and the observer stays near.
FairSpec ==
    /\ MCSpec
    /\ WF_vars(Tick)
    /\ \A o \in Observers : WF_vars(applySyncPacket(o)) /\ WF_vars(Build(o, [n \in Npcs |-> "near"]))
==============================================================================
