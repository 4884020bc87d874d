------------------------------- MODULE NpcSync -------------------------------
(***************************************************************************)
(* AIAuthorityController on the server and on its observers: NPC states    *)
(* with a dirty mask (NpcRepComponent), packets per observer by level of   *)
(* detail (NpcNetworkLodPolicy), and their application.  The value of a    *)
(* component is the number of its last change; quantisation is left out.   *)
(* Packets reach an observer in order, a build's at once.                  *)
(***************************************************************************)
EXTENDS Integers, Sequences

CONSTANTS
    Observers,
    Npcs,
    Components,    \* what a bit of the dirty mask stands for
    Tiers,         \* the levels of detail that are not Dormant
    Dormant,
    Interval,      \* NpcLodConfig: the time between heartbeats at each tier
    MaxInterval    \* the longest of them

ASSUME NpcAssumption ==
    /\ "Velocity" \in Components
    /\ Dormant \notin Tiers
    /\ MaxInterval \in Nat
    /\ Interval \in [Tiers -> 0..MaxInterval]

VARIABLES
    npcs,       \* npcs_ of the server: the ids registered
    state,      \* their components
    dirty,      \* their dirty masks
    age,        \* time since lastSyncTimeMs_, MaxInterval when longer or never
    known,      \* npcs_ of every observer
    copy,       \* their components there
    channel,    \* the packets on their way to every observer, build by build
    sent,       \* history: the component as the last packet carrying it had it
    served,     \* history: the NPCs an observer was in range of at a build since their last change
    missed      \* history: what an observer refused, or came too late for, and did not get since

serverVars == <<npcs, state, dirty, age>>
observerVars == <<known, copy>>
vars == <<serverVars, observerVars, channel, sent, served, missed>>

Unset == [k \in Components |-> 0]

Init ==
    /\ npcs = {}
    /\ state = [n \in Npcs |-> Unset]
    /\ dirty = [n \in Npcs |-> {}]
    /\ age = [n \in Npcs |-> MaxInterval]
    /\ known = [o \in Observers |-> {}]
    /\ copy = [o \in Observers |-> [n \in Npcs |-> Unset]]
    /\ channel = [o \in Observers |-> << >>]
    /\ sent = [n \in Npcs |-> Unset]
    /\ served = [o \in Observers |-> {}]
    /\ missed = [o \in Observers |-> [n \in Npcs |-> {}]]

\* The components ks of n change: nobody has been served its latest state any
\* more, and everybody is owed the changes, late or not.
Owed(n, ks) ==
    /\ served' = [o \in Observers |-> served[o] \ {n}]
    /\ missed' = [o \in Observers |-> [missed[o] EXCEPT ![n] = @ \ ks]]

------------------------------------------------------------------------------
\* The server registers n, or registers it anew with another state.
registerNpc(n) ==
    /\ npcs' = npcs \cup {n}
    /\ state' = [state EXCEPT ![n] = [k \in Components |-> @[k] + 1]]
    /\ dirty' = [dirty EXCEPT ![n] = Components]
    /\ Owed(n, Components)
    /\ UNCHANGED <<age, observerVars, channel, sent>>

\* updateNpcState() that changes one component; changes of several are
\* several such steps.
updateNpcState(n, k) ==
    /\ n \in npcs
    /\ state' = [state EXCEPT ![n][k] = @ + 1]
    /\ dirty' = [dirty EXCEPT ![n] = @ \cup {k}]
    /\ Owed(n, {k})
    /\ UNCHANGED <<npcs, age, observerVars, channel, sent>>

\* An observer registers n with the state it starts the level with.
registerCopy(o, n) ==
    /\ n \notin known[o]
    /\ known' = [known EXCEPT ![o] = @ \cup {n}]
    /\ missed' = [missed EXCEPT ![o][n] = Components]
    /\ UNCHANGED <<serverVars, copy, channel, sent, served>>

------------------------------------------------------------------------------
Heartbeat == Components \ {"Velocity"}

\* Deviation: a heartbeat leaves out the position.
Mask_NoPosition(n) ==
    IF dirty[n] # {} THEN dirty[n] ELSE Heartbeat \ {"Position"}

\* Deviation: a heartbeat is sent when there are changes, too.
Mask_Heartbeat(n) == Heartbeat

Mask(n) == IF dirty[n] # {} THEN dirty[n] ELSE Heartbeat

shouldSync(n, tier) == tier # Dormant /\ age[n] >= Interval[tier]

\* What buildSyncPackets() sends of n: changes at once, heartbeats in time.
Sends(n, tier) == tier # Dormant /\ (dirty[n] # {} \/ shouldSync(n, tier))

\* Deviation: a dormant NPC's mask is cleared like the others'.
Cleared_Dormant(n, tier) == tier = Dormant \/ Sends(n, tier)

Cleared(n, tier) == Sends(n, tier)

AgeAfter(n, tier) == IF dirty[n] = {} /\ shouldSync(n, tier) THEN 0 ELSE age[n]

\* A build for o, to which every NPC has its tier.
buildSyncPackets(o, tierOf) ==
    LET out == {n \in npcs : Sends(n, tierOf[n])} IN
    /\ channel' = [channel EXCEPT ![o] = IF out = {} THEN @ ELSE Append(@,
            [mask |-> [n \in Npcs |-> IF n \in out THEN Mask(n) ELSE {}], state |-> state])]
    /\ dirty' = [n \in Npcs |-> IF n \in npcs /\ Cleared(n, tierOf[n]) THEN {} ELSE dirty[n]]
    /\ age' = [n \in Npcs |-> IF n \in npcs THEN AgeAfter(n, tierOf[n]) ELSE age[n]]
    /\ sent' = [n \in Npcs |-> [k \in Components |->
            IF n \in out /\ k \in Mask(n) THEN state[n][k] ELSE sent[n][k]]]
    /\ served' = [served EXCEPT ![o] = @ \cup {n \in npcs : tierOf[n] # Dormant}]
    /\ UNCHANGED <<npcs, state, observerVars, missed>>

\* An observer applies the packets of a build; those of NPCs it does not know
\* are refused.
applySyncPacket(o) ==
    /\ channel[o] # << >>
    /\ LET build == Head(channel[o]) IN
       /\ copy' = [copy EXCEPT ![o] = [n \in Npcs |-> [k \in Components |->
              IF n \in known[o] /\ k \in build.mask[n] THEN build.state[n][k] ELSE @[n][k]]]]
       /\ missed' = [missed EXCEPT ![o] = [n \in Npcs |->
              IF n \in known[o] THEN @[n] \ build.mask[n] ELSE @[n] \cup build.mask[n]]]
    /\ channel' = [channel EXCEPT ![o] = Tail(@)]
    /\ UNCHANGED <<serverVars, known, sent, served>>

Tick ==
    /\ age' = [n \in Npcs |-> IF age[n] < MaxInterval THEN age[n] + 1 ELSE MaxInterval]
    /\ UNCHANGED <<npcs, state, dirty, observerVars, channel, sent, served, missed>>

TierOf == [Npcs -> Tiers \cup {Dormant}]

Next ==
    \/ \E n \in Npcs : registerNpc(n)
    \/ \E n \in Npcs, k \in Components : updateNpcState(n, k)
    \/ \E o \in Observers, n \in Npcs : registerCopy(o, n)
    \/ \E o \in Observers, tierOf \in TierOf : buildSyncPackets(o, tierOf)
    \/ \E o \in Observers : applySyncPacket(o)
    \/ Tick

Spec == Init /\ [][Next]_vars

------------------------------------------------------------------------------
\* The types of what buildSyncPackets() reads and writes.
ServerTypeOK ==
    /\ npcs \subseteq Npcs
    /\ state \in [Npcs -> [Components -> Nat]]
    /\ dirty \in [Npcs -> SUBSET Components]
    /\ age \in [Npcs -> 0..MaxInterval]
    /\ sent \in [Npcs -> [Components -> Nat]]

\* A mask is cleared only of what a packet carried: a change is never dropped
\* because an NPC was out of range, or because a heartbeat was due.
CleanMeansSent ==
    \A n \in npcs : \A k \in Components \ dirty[n] : sent[n][k] = state[n][k]

\* AIAuthorityController.h:37: "Builds compressed NPC packets for one
\* observer."  An observer in range of an NPC when packets were built for it
\* has the NPC's state once it has applied them, except for what it refused or
\* came too late for.
ServedSynced ==
    \A o \in Observers : \A n \in served[o] \cap known[o] : \A k \in Components \ missed[o][n] :
        channel[o] = << >> => copy[o][n][k] = state[n][k]

\* Heartbeats bring an observer up to date that came late, with everything but
\* the velocity, if it stays in range.
Repaired ==
    \A o \in Observers, n \in Npcs :
        <>[](n \in npcs \cap known[o] => \A k \in Heartbeat : copy[o][n][k] = state[n][k])
==============================================================================
