--------------------------- MODULE SnapshotBuilder ---------------------------
(***************************************************************************)
(* The replicated entities and the frames SnapshotBuilder makes of them:   *)
(* components with dirty flags (NetEntity, RepComponent), and per client   *)
(* the entities its last frame covered and the full resends they are due.  *)
(* A component's value is the number of its last change, 0 standing for a  *)
(* component that is not enabled.  Which entities concern a client is      *)
(* InterestManager's answer for its position, any set here.                *)
(*                                                                         *)
(* The host's tick builds a frame for every client and then clears the     *)
(* dirty flags: they are shared by all clients.                            *)
(***************************************************************************)
EXTENDS Integers, FiniteSets

CONSTANTS
    Clients,
    Entities,              \* ids, each allocated at most once
    Components,
    FullSyncRepeatCount    \* SnapshotBuilder::fullSyncRepeatCount_

ASSUME SnapshotAssumption == FullSyncRepeatCount \in Nat

VARIABLES
    registry,       \* the ids of the entities there are
    allocated,      \* the ids allocateId() has returned
    value,          \* every entity's components
    dirty,          \* their dirty flags
    nextSequence,   \* ClientState::nextSequence
    repeats,        \* ClientState::guaranteedFullSyncRepeats, 0 where absent
    lastVisible,    \* ClientState::lastVisibleEntities
    world           \* history: what all the frames of a client add up to

builderVars == <<nextSequence, repeats, lastVisible>>
entityVars == <<registry, allocated, value, dirty>>
vars == <<entityVars, builderVars, world>>

Nothing == [k \in Components |-> 0]

Init ==
    /\ registry = {}
    /\ allocated = {}
    /\ value = [e \in Entities |-> Nothing]
    /\ dirty = [e \in Entities |-> {}]
    /\ nextSequence = [c \in Clients |-> 1]
    /\ repeats = [c \in Clients |-> [e \in Entities |-> 0]]
    /\ lastVisible = [c \in Clients |-> {}]
    /\ world = [c \in Clients |-> [e \in Entities |-> Nothing]]

------------------------------------------------------------------------------
create(e) ==
    /\ e \notin allocated
    /\ allocated' = allocated \cup {e}
    /\ registry' = registry \cup {e}
    /\ UNCHANGED <<value, dirty, builderVars, world>>

\* enable...() of a component, or set() of a new value.
Change(e, k) ==
    /\ e \in registry
    /\ value' = [value EXCEPT ![e][k] = @ + 1]
    /\ dirty' = [dirty EXCEPT ![e] = @ \cup {k}]
    /\ UNCHANGED <<registry, allocated, builderVars, world>>

destroy(e) ==
    /\ e \in registry
    /\ registry' = registry \ {e}
    /\ value' = [value EXCEPT ![e] = Nothing]
    /\ dirty' = [dirty EXCEPT ![e] = {}]
    /\ UNCHANGED <<allocated, builderVars, world>>

------------------------------------------------------------------------------
componentMask(e) == {k \in Components : value[e][k] # 0}

FirstVisible(c, e) == e \notin lastVisible[c]

\* Deviation: an entity that comes back into view is not sent in full.
Mask_OnlyFirstTime(c, e) == IF repeats[c][e] > 0 THEN componentMask(e) ELSE dirty[e]

\* The components of a visible entity that the frame carries.
Mask(c, e) ==
    IF FirstVisible(c, e) \/ repeats[c][e] > 0 THEN componentMask(e) ELSE dirty[e]

\* Deviation: the frame that first shows an entity counts twice.
Repeated_OneShort(c, e, visible) ==
    LET due == IF FirstVisible(c, e) THEN FullSyncRepeatCount - 1 ELSE repeats[c][e] IN
    CASE e \in visible /\ due > 0 -> due - 1
      [] e \in visible /\ due <= 0 -> 0
      [] e \in lastVisible[c] \ visible -> 0
      [] OTHER -> repeats[c][e]

\* The repeats left after a frame that shows the entities visible.
Repeated(c, e, visible) ==
    LET due == IF FirstVisible(c, e) THEN FullSyncRepeatCount ELSE repeats[c][e] IN
    CASE e \in visible /\ due > 0 -> due - 1
      [] e \in visible /\ due = 0 -> 0
      [] e \in lastVisible[c] \ visible -> 0
      [] OTHER -> repeats[c][e]

\* Deviation: what left the view is not removed.
Removed_None(c, visible) == {}

Removed(c, visible) == lastVisible[c] \ visible

Frame(c, visible, time) ==
    [sequence |-> nextSequence[c],
     serverTime |-> time,
     mask |-> [e \in Entities |-> IF e \in visible THEN Mask(c, e) ELSE {}],
     value |-> value,
     removed |-> Removed(c, visible)]

\* What a frame makes of a client's picture of the world.
Applied(picture, frame) ==
    [e \in Entities |-> [k \in Components |->
        CASE k \in frame.mask[e] -> frame.value[e][k]
          [] k \notin frame.mask[e] /\ e \in frame.removed -> 0
          [] OTHER -> picture[e][k]]]

\* buildForClient() for every client, and clearDirty() of every entity.
BuildFrames(visible, time) ==
    /\ nextSequence' = [c \in Clients |-> nextSequence[c] + 1]
    /\ repeats' = [c \in Clients |-> [e \in Entities |-> Repeated(c, e, visible[c])]]
    /\ lastVisible' = visible
    /\ world' = [c \in Clients |-> Applied(world[c], Frame(c, visible[c], time))]
    /\ dirty' = [e \in Entities |-> {}]
    /\ UNCHANGED <<registry, allocated, value>>

Views == [Clients -> SUBSET registry]

Next ==
    \/ \E e \in Entities : create(e) \/ destroy(e)
    \/ \E e \in Entities, k \in Components : Change(e, k)
    \/ \E visible \in Views : BuildFrames(visible, 0)

Spec == Init /\ [][Next]_vars

------------------------------------------------------------------------------
\* Entities that are gone, or were never there, have no state left.
TypeOK ==
    /\ registry \subseteq allocated /\ allocated \subseteq Entities
    /\ value \in [Entities -> [Components -> Nat]]
    /\ dirty \in [Entities -> SUBSET Components]
    /\ nextSequence \in [Clients -> Nat \ {0}]
    /\ repeats \in [Clients -> [Entities -> 0..FullSyncRepeatCount]]
    /\ lastVisible \in [Clients -> SUBSET allocated]
    /\ world \in [Clients -> [Entities -> [Components -> Nat]]]

\* A client that got every frame has, of each entity it sees, every component
\* that has not changed since, although frames carry differences only and all
\* clients share the dirty flags.
DeltasSuffice ==
    \A c \in Clients : \A e \in registry \cap lastVisible[c] : \A k \in Components \ dirty[e] :
        world[c][e][k] = value[e][k]

\* ... and nothing of an entity that left its view or was destroyed.
NoGhosts ==
    \A c \in Clients : \A e \in Entities \ lastVisible[c] : world[c][e] = Nothing

\* Full resends are due to visible entities only, so an entity that comes back
\* into view starts with all of them again.
RepeatsOfVisible ==
    \A c \in Clients, e \in Entities : repeats[c][e] > 0 => e \in lastVisible[c]
==============================================================================
