------------------------------ MODULE NpcProofs ------------------------------
(***************************************************************************)
(* Proofs about NpcSync, for any observers, NPCs, components and levels of *)
(* detail.                                                                 *)
(***************************************************************************)
EXTENDS NpcSync, TLAPS

IInv == ServerTypeOK /\ CleanMeansSent

------------------------------------------------------------------------------
\* Before any NPC is registered there is nothing to send.
LEMMA InitInv == Init => IInv
<1> SUFFICES ASSUME Init PROVE IInv
  OBVIOUS
<1>1. ServerTypeOK
  BY NpcAssumption DEF Init, ServerTypeOK, Unset
<1>2. CleanMeansSent
  BY DEF Init, CleanMeansSent
<1> QED
  BY <1>1, <1>2 DEF IInv

\* A registration leaves the whole mask dirty.
LEMMA RegisterInv == ASSUME IInv, NEW n \in Npcs, registerNpc(n) PROVE IInv'
<1> USE DEF IInv, ServerTypeOK
<1>1. ServerTypeOK'
  BY DEF registerNpc
<1>2. CleanMeansSent'
  <2> SUFFICES ASSUME NEW m \in npcs', NEW k \in Components \ dirty'[m]
               PROVE sent'[m][k] = state'[m][k]
    BY DEF CleanMeansSent
  <2>1. CASE m = n
    BY <2>1 DEF registerNpc
  <2>2. CASE m # n
    BY <2>2 DEF registerNpc, CleanMeansSent
  <2> QED
    BY <2>1, <2>2
<1> QED
  BY <1>1, <1>2

\* A change leaves its component dirty.
LEMMA UpdateInv ==
    ASSUME IInv, NEW n \in Npcs, NEW k \in Components, updateNpcState(n, k) PROVE IInv'
<1> USE DEF IInv, ServerTypeOK
<1>1. ServerTypeOK'
  BY DEF updateNpcState
<1>2. CleanMeansSent'
  <2> SUFFICES ASSUME NEW m \in npcs', NEW j \in Components \ dirty'[m]
               PROVE sent'[m][j] = state'[m][j]
    BY DEF CleanMeansSent
  <2>1. ~(m = n /\ j = k)
    BY DEF updateNpcState
  <2>2. j \in Components \ dirty[m] /\ m \in npcs
    BY DEF updateNpcState
  <2> QED
    BY <2>1, <2>2 DEF updateNpcState, CleanMeansSent
<1> QED
  BY <1>1, <1>2

\* A build clears the mask of the NPCs it makes packets of, which carry it.
LEMMA BuildInv ==
    ASSUME IInv, NEW o \in Observers, NEW tierOf \in TierOf, buildSyncPackets(o, tierOf)
    PROVE IInv'
<1> USE DEF IInv, ServerTypeOK
<1>1. ServerTypeOK'
  <2>1. /\ npcs' \subseteq Npcs /\ state' \in [Npcs -> [Components -> Nat]]
        /\ dirty' \in [Npcs -> SUBSET Components]
        /\ sent' \in [Npcs -> [Components -> Nat]]
    BY DEF buildSyncPackets
  <2>2. age' \in [Npcs -> 0..MaxInterval]
    BY NpcAssumption DEF buildSyncPackets, AgeAfter
  <2> QED
    BY <2>1, <2>2
<1>2. CleanMeansSent'
  <2> SUFFICES ASSUME NEW n \in npcs', NEW k \in Components \ dirty'[n]
               PROVE sent'[n][k] = state'[n][k]
    BY DEF CleanMeansSent
  <2>1. n \in npcs /\ n \in Npcs /\ state' = state
    BY DEF buildSyncPackets
  <2>2. sent'[n][k] = IF Sends(n, tierOf[n]) /\ k \in Mask(n) THEN state[n][k] ELSE sent[n][k]
    BY <2>1 DEF buildSyncPackets
  <2>3. k \in dirty[n] => Sends(n, tierOf[n]) /\ k \in Mask(n)
    BY <2>1 DEF buildSyncPackets, Cleared, Mask
  <2> QED
    BY <2>1, <2>2, <2>3 DEF CleanMeansSent
<1> QED
  BY <1>1, <1>2

\* The other steps leave masks and packets alone.
LEMMA OtherInv ==
    ASSUME IInv,
           \/ \E o \in Observers, n \in Npcs : registerCopy(o, n)
           \/ \E o \in Observers : applySyncPacket(o)
           \/ Tick
           \/ UNCHANGED vars
    PROVE IInv'
<1>1. UNCHANGED <<npcs, state, dirty, sent>>
  BY DEF registerCopy, applySyncPacket, Tick, vars, serverVars
<1>2. age' \in [Npcs -> 0..MaxInterval]
  BY NpcAssumption DEF IInv, ServerTypeOK, registerCopy, applySyncPacket, Tick, vars, serverVars
<1> QED
  BY <1>1, <1>2 DEF IInv, ServerTypeOK, CleanMeansSent

LEMMA NextInv == IInv /\ [Next]_vars => IInv'
<1> SUFFICES ASSUME IInv, [Next]_vars PROVE IInv'
  OBVIOUS
<1>1. CASE \E n \in Npcs : registerNpc(n)
  BY <1>1, RegisterInv
<1>2. CASE \E n \in Npcs, k \in Components : updateNpcState(n, k)
  BY <1>2, UpdateInv
<1>3. CASE \E o \in Observers, tierOf \in TierOf : buildSyncPackets(o, tierOf)
  BY <1>3, BuildInv
<1>4. CASE \/ \E o \in Observers, n \in Npcs : registerCopy(o, n)
           \/ \E o \in Observers : applySyncPacket(o)
           \/ Tick
           \/ UNCHANGED vars
  BY <1>4, OtherInv
<1> QED
  BY <1>1, <1>2, <1>3, <1>4 DEF Next

------------------------------------------------------------------------------
\* No change of an NPC is dropped from its dirty mask before a packet carried it.
THEOREM ChangesSent == Spec => []CleanMeansSent
<1>1. IInv => CleanMeansSent
  BY DEF IInv
<1> QED
  BY <1>1, InitInv, NextInv, PTL DEF Spec

------------------------------------------------------------------------------
(* One observer. *)

\* Nobody else is there to take what clears the masks.
OneObserver(o) == Observers = {o}

\* The builds in builds that carry component k of n.
Carriers(builds, n, k) == {i \in DOMAIN builds : k \in builds[i].mask[n]}

\* The newest build on its way that carries a component has its latest value; when
\* there is none, the observer has it, or has not been served.
Brought(builds, o, n, k) ==
    /\ \A i \in Carriers(builds, n, k) :
          (\A j \in Carriers(builds, n, k) : j <= i) => builds[i].state[n][k] = state[n][k]
    /\ Carriers(builds, n, k) = {} /\ n \in known[o] /\ k \notin missed[o][n] =>
          copy[o][n][k] = state[n][k]

BuildType == [mask : [Npcs -> SUBSET Components], state : [Npcs -> [Components -> Nat]]]

ObserverTypeOK ==
    /\ known \in [Observers -> SUBSET Npcs]
    /\ copy \in [Observers -> [Npcs -> [Components -> Nat]]]
    /\ channel \in [Observers -> Seq(BuildType)]
    /\ served \in [Observers -> SUBSET Npcs]
    /\ missed \in [Observers -> [Npcs -> SUBSET Components]]

\* The inductive invariant for the observer o: what it has been served is clean.
SInv(o) ==
    /\ ServerTypeOK
    /\ ObserverTypeOK
    /\ \A n \in served[o] : n \in npcs /\ dirty[n] = {}
    /\ \A n \in Npcs : \A k \in Components \ dirty[n] : Brought(channel[o], o, n, k)

\* Nothing is registered, sent or known.
LEMMA InitServed == ASSUME NEW o, OneObserver(o), Init PROVE SInv(o)
<1> USE DEF OneObserver, Init, Unset
<1>1. ServerTypeOK
  BY NpcAssumption DEF ServerTypeOK
<1>2. ObserverTypeOK
  BY DEF ObserverTypeOK
<1>3. \A n \in Npcs : \A k \in Components \ dirty[n] : Brought(channel[o], o, n, k)
  BY DEF Brought, Carriers
<1> QED
  BY <1>1, <1>2, <1>3 DEF SInv

\* A change makes its component dirty, and nobody has been served it.
LEMMA ChangeServed ==
    ASSUME NEW o, OneObserver(o), SInv(o), NEW n \in Npcs, NEW ks \in SUBSET Components,
           Owed(n, ks), ServerTypeOK', npcs \subseteq npcs',
           dirty' = [dirty EXCEPT ![n] = @ \cup ks],
           \A m \in Npcs : \A k \in Components :
              ~ (m = n /\ k \in ks) => state'[m][k] = state[m][k],
           UNCHANGED <<observerVars, channel>>
    PROVE  SInv(o)'
<1> USE DEF OneObserver
<1>1. ObserverTypeOK'
  BY DEF SInv, ObserverTypeOK, Owed, observerVars
<1>2. served'[o] = served[o] \ {n} /\ missed'[o] = [missed[o] EXCEPT ![n] = @ \ ks]
  BY DEF Owed
<1>3. ASSUME NEW m \in served'[o] PROVE m \in npcs' /\ dirty'[m] = {}
  BY <1>2 DEF SInv, ServerTypeOK
<1>4. ASSUME NEW m \in Npcs, NEW k \in Components \ dirty'[m]
      PROVE  Brought(channel[o], o, m, k)'
  <2>1. k \in Components \ dirty[m] /\ ~ (m = n /\ k \in ks)
    BY DEF SInv, ServerTypeOK
  <2>2. Brought(channel[o], o, m, k) /\ state'[m][k] = state[m][k]
    BY <2>1 DEF SInv
  <2>3. k \notin missed'[o][m] => k \notin missed[o][m]
    BY <1>2, <2>1 DEF SInv, ObserverTypeOK
  <2>4. UNCHANGED <<channel, known, copy>>
    BY DEF observerVars
  <2> QED
    BY <2>2, <2>3, <2>4 DEF Brought
<1> QED
  BY <1>1, <1>3, <1>4 DEF SInv

\* An observer that comes late is owed everything.
LEMMA CopyServed ==
    ASSUME NEW o, OneObserver(o), SInv(o), NEW n \in Npcs, registerCopy(o, n)
    PROVE  SInv(o)'
<1> USE DEF OneObserver, registerCopy, serverVars
<1>1. ServerTypeOK'
  BY DEF SInv, ServerTypeOK
<1>2. ObserverTypeOK'
  BY DEF SInv, ObserverTypeOK
<1>3. ASSUME NEW m \in Npcs, NEW k \in Components \ dirty'[m]
      PROVE  Brought(channel[o], o, m, k)'
  <2>1. Brought(channel[o], o, m, k)
    BY DEF SInv
  <2>2. missed'[o][m] = IF m = n THEN Components ELSE missed[o][m]
    BY DEF SInv, ObserverTypeOK
  <2>3. m \in known'[o] => m \in known[o] \/ m = n
    BY DEF SInv, ObserverTypeOK
  <2> QED
    BY <2>1, <2>2, <2>3 DEF Brought
<1> QED
  BY <1>1, <1>2, <1>3 DEF SInv

\* The observer takes the first build: the others carry what is newer.
LEMMA ApplyServed ==
    ASSUME NEW o, OneObserver(o), SInv(o), applySyncPacket(o)
    PROVE  SInv(o)'
<1> USE DEF OneObserver
<1> DEFINE builds == channel[o]
           rest == Tail(builds)
           build == Head(builds)
<1>1. /\ builds \in Seq(BuildType) /\ builds # << >> /\ channel'[o] = rest
      /\ channel' \in [Observers -> Seq(BuildType)]
  BY DEF SInv, ObserverTypeOK, applySyncPacket
<1>2. /\ build \in BuildType /\ build = builds[1] /\ 1 \in DOMAIN builds
      /\ \A i \in DOMAIN rest : i + 1 \in DOMAIN builds /\ rest[i] = builds[i + 1]
      /\ \A i \in DOMAIN builds : i = 1 \/ i - 1 \in DOMAIN rest
      /\ DOMAIN rest \subseteq Nat \ {0} /\ DOMAIN builds \subseteq Nat \ {0}
  BY <1>1
<1>3. /\ \A n \in Npcs : \A k \in Components : copy'[o][n][k] =
            IF n \in known[o] /\ k \in build.mask[n] THEN build.state[n][k] ELSE copy[o][n][k]
      /\ \A n \in Npcs : missed'[o][n] =
            IF n \in known[o] THEN missed[o][n] \ build.mask[n] ELSE missed[o][n] \cup build.mask[n]
      /\ UNCHANGED <<serverVars, known, sent, served>>
  BY DEF applySyncPacket, SInv, ObserverTypeOK
<1>4. ServerTypeOK'
  BY <1>3 DEF SInv, ServerTypeOK, serverVars
<1>5. ObserverTypeOK'
  <2>1. copy' \in [Observers -> [Npcs -> [Components -> Nat]]]
    BY <1>2 DEF applySyncPacket, SInv, ObserverTypeOK, BuildType
  <2>2. missed' \in [Observers -> [Npcs -> SUBSET Components]]
    BY <1>2 DEF applySyncPacket, SInv, ObserverTypeOK, BuildType
  <2> QED
    BY <1>1, <1>3, <2>1, <2>2 DEF SInv, ObserverTypeOK
<1> HIDE DEF builds, rest, build
<1>6. ASSUME NEW n \in Npcs, NEW k \in Components \ dirty[n]
      PROVE  Brought(channel[o], o, n, k)'
  <2> DEFINE before == Carriers(builds, n, k)
             after == Carriers(rest, n, k)
  <2>1. /\ \A i \in before : (\A j \in before : j <= i) => builds[i].state[n][k] = state[n][k]
        /\ before = {} /\ n \in known[o] /\ k \notin missed[o][n] => copy[o][n][k] = state[n][k]
    BY DEF SInv, Brought, builds
  <2>2. \A i \in after : i + 1 \in before /\ i \in Nat
    BY <1>2 DEF Carriers
  <2>3. \A i \in before : (i = 1 /\ k \in build.mask[n]) \/ i - 1 \in after
    BY <1>2 DEF Carriers
  <2>4. before \subseteq Nat \ {0} /\ (k \in build.mask[n] => 1 \in before)
    BY <1>2 DEF Carriers
  <2>5. state' = state /\ known' = known /\ channel'[o] = rest
    BY <1>1, <1>3 DEF serverVars
  <2> HIDE DEF before, after
  <2>6. ASSUME NEW i \in after, \A j \in after : j <= i PROVE rest[i].state[n][k] = state[n][k]
    <3>1. ASSUME NEW j \in before PROVE j <= i + 1
      <4>1. j = 1 \/ j - 1 <= i
        BY <2>3, <2>6
      <4> QED
        BY <2>2, <2>4, <4>1
    <3>2. builds[i + 1].state[n][k] = state[n][k]
      BY <2>1, <2>2, <3>1
    <3> QED
      BY <1>2, <3>2 DEF after, Carriers
  <2>7. ASSUME after = {}, n \in known[o], k \notin missed'[o][n]
        PROVE  copy'[o][n][k] = state[n][k]
    <3>1. CASE k \in build.mask[n]
      <4>1. 1 \in before /\ \A j \in before : j <= 1
        BY <2>3, <2>4, <2>7, <3>1
      <4>2. build.state[n][k] = state[n][k]
        BY <1>2, <2>1, <4>1
      <4> QED
        BY <1>3, <2>7, <3>1, <4>2
    <3>2. CASE k \notin build.mask[n]
      <4>1. before = {}
        BY <2>3, <2>7, <3>2
      <4>2. k \notin missed[o][n]
        BY <1>3, <2>7, <3>2
      <4> QED
        BY <1>3, <2>1, <2>7, <3>2, <4>1, <4>2
    <3> QED
      BY <3>1, <3>2
  <2> QED
    BY <2>5, <2>6, <2>7 DEF Brought, after
<1>7. dirty' = dirty /\ served' = served /\ npcs' = npcs
  BY <1>3 DEF serverVars
<1> QED
  BY <1>1, <1>4, <1>5, <1>6, <1>7 DEF SInv

\* A build that carries nothing of a component brings it as before; one that
\* carries it brings the latest.
LEMMA OneMoreBuild ==
    ASSUME NEW o, NEW n \in Npcs, NEW k \in Components,
           NEW builds \in Seq(BuildType), NEW build \in BuildType,
           \/ k \in build.mask[n] /\ build.state[n][k] = state[n][k]
           \/ k \notin build.mask[n] /\ Brought(builds, o, n, k)
    PROVE  Brought(Append(builds, build), o, n, k)
<1> DEFINE more == Append(builds, build)
           last == Len(builds) + 1
           before == Carriers(builds, n, k)
           after == Carriers(more, n, k)
<1>1. /\ last \in Nat /\ last >= 1 /\ DOMAIN more = 1..last /\ DOMAIN builds = 1..last - 1
      /\ more[last] = build /\ \A i \in 1..last - 1 : more[i] = builds[i]
  OBVIOUS
<1> HIDE DEF more, last
<1>2. CASE k \in build.mask[n] /\ build.state[n][k] = state[n][k]
  <2>1. last \in 1..last
    BY <1>1
  <2>2. last \in after
    BY <1>1, <1>2, <2>1 DEF Carriers
  <2>3. \A i \in after : i <= last /\ i \in Nat
    BY <1>1 DEF Carriers
  <2>4. ASSUME NEW i \in after, \A j \in after : j <= i PROVE more[i].state[n][k] = state[n][k]
    <3>1. i = last
      <4>1. last <= i /\ i <= last /\ i \in Nat /\ last \in Nat
        BY <1>1, <2>2, <2>3, <2>4
      <4> QED
        BY <4>1
    <3> QED
      BY <1>1, <1>2, <3>1
  <2> QED
    BY <2>2, <2>4 DEF Brought, more
<1>3. CASE k \notin build.mask[n] /\ Brought(builds, o, n, k)
  <2>1. after = before
    BY <1>1, <1>3 DEF Carriers
  <2>2. \A i \in before : more[i] = builds[i]
    BY <1>1 DEF Carriers
  <2> QED
    BY <1>3, <2>1, <2>2 DEF Brought, more
<1> QED
  BY <1>2, <1>3

\* What a build clears it carries to the only observer.
LEMMA BuildServed ==
    ASSUME NEW o, OneObserver(o), SInv(o), NEW tierOf \in TierOf, buildSyncPackets(o, tierOf),
           ServerTypeOK'
    PROVE  SInv(o)'
<1> USE DEF OneObserver
<1> DEFINE out == {n \in npcs : Sends(n, tierOf[n])}
           build == [mask |-> [n \in Npcs |-> IF n \in out THEN Mask(n) ELSE {}], state |-> state]
<1>1. /\ channel' = [channel EXCEPT ![o] = IF out = {} THEN @ ELSE Append(@, build)]
      /\ \A n \in Npcs : dirty'[n] =
            IF n \in npcs /\ Cleared(n, tierOf[n]) THEN {} ELSE dirty[n]
      /\ served' = [served EXCEPT ![o] = @ \cup {n \in npcs : tierOf[n] # Dormant}]
      /\ UNCHANGED <<npcs, state, observerVars, missed>>
  BY DEF buildSyncPackets
<1>2. \A n \in npcs : Mask(n) \subseteq Components
  BY DEF Mask, Heartbeat, SInv, ServerTypeOK
<1>3. build \in BuildType
  BY <1>2 DEF BuildType, SInv, ServerTypeOK
<1>4. channel[o] \in Seq(BuildType) /\ channel \in [Observers -> Seq(BuildType)]
  BY DEF SInv, ObserverTypeOK
<1>5. \A n \in Npcs : build.mask[n] = IF n \in out THEN Mask(n) ELSE {}
  OBVIOUS
<1>6. build.state = state
  OBVIOUS
<1>7. out = {} => \A n \in Npcs : n \notin out
  OBVIOUS
<1>8. \A n \in Npcs : n \in out <=> n \in npcs /\ Cleared(n, tierOf[n])
  BY DEF Cleared
<1>9. \A n \in npcs : tierOf[n] # Dormant /\ dirty[n] # {} => Cleared(n, tierOf[n])
  BY DEF Cleared, Sends
<1> HIDE DEF build, out
<1>10. channel' \in [Observers -> Seq(BuildType)]
  <2>1. Append(channel[o], build) \in Seq(BuildType)
    BY <1>3, <1>4
  <2> QED
    BY <1>1, <1>4, <2>1
<1>11. ObserverTypeOK'
  <2>1. served' \in [Observers -> SUBSET Npcs]
    BY <1>1 DEF SInv, ObserverTypeOK, ServerTypeOK
  <2> QED
    BY <1>1, <1>10, <2>1 DEF SInv, ObserverTypeOK, observerVars
<1>12. ASSUME NEW n \in served'[o] PROVE n \in npcs' /\ dirty'[n] = {}
  <2>1. n \in npcs /\ n \in Npcs /\ (dirty[n] = {} \/ tierOf[n] # Dormant)
    BY <1>1 DEF SInv, ServerTypeOK, ObserverTypeOK
  <2> QED
    BY <1>1, <1>9, <2>1
<1>13. ASSUME NEW n \in Npcs, NEW k \in Components \ dirty'[n]
       PROVE  Brought(channel[o], o, n, k)'
  <2>1. k \notin dirty[n] => Brought(channel[o], o, n, k)
    BY DEF SInv
  <2>2. k \in dirty[n] => n \in out /\ k \in build.mask[n]
    BY <1>1, <1>5, <1>8 DEF Mask
  <2>3. Brought(channel'[o], o, n, k)
    <3>1. CASE out = {}
      <4>1. channel'[o] = channel[o]
        BY <1>1, <1>4, <3>1
      <4> QED
        BY <1>7, <2>1, <2>2, <3>1, <4>1
    <3>2. CASE out # {}
      <4>1. channel'[o] = Append(channel[o], build)
        BY <1>1, <1>4, <3>2
      <4> QED
        BY <1>3, <1>4, <1>6, <2>1, <2>2, <4>1, OneMoreBuild
    <3> QED
      BY <3>1, <3>2
  <2> QED
    BY <1>1, <2>3 DEF Brought, observerVars
<1> QED
  BY <1>11, <1>12, <1>13 DEF SInv

\* Every step keeps the observer's invariant.
LEMMA NextServed ==
    ASSUME NEW o, OneObserver(o), SInv(o), ServerTypeOK', [Next]_vars
    PROVE  SInv(o)'
<1> USE DEF OneObserver
<1>1. ASSUME NEW n \in Npcs, registerNpc(n) PROVE SInv(o)'
  <2>1. dirty' = [dirty EXCEPT ![n] = @ \cup Components]
    <3>1. dirty' = [dirty EXCEPT ![n] = Components] /\ dirty[n] \cup Components = Components
      BY <1>1 DEF registerNpc, SInv, ServerTypeOK
    <3> QED
      BY <3>1
  <2>2. \A m \in Npcs : \A k \in Components : ~ (m = n) => state'[m][k] = state[m][k]
    BY <1>1 DEF registerNpc, SInv, ServerTypeOK
  <2>3. npcs \subseteq npcs' /\ Owed(n, Components) /\ UNCHANGED <<observerVars, channel>>
    BY <1>1 DEF registerNpc
  <2> QED
    BY ZenonT(30), <2>1, <2>2, <2>3, ChangeServed
<1>2. ASSUME NEW n \in Npcs, NEW k \in Components, updateNpcState(n, k) PROVE SInv(o)'
  <2>1. \A m \in Npcs : \A j \in Components :
           ~ (m = n /\ j \in {k}) => state'[m][j] = state[m][j]
    BY <1>2 DEF updateNpcState, SInv, ServerTypeOK
  <2>2. /\ npcs \subseteq npcs' /\ Owed(n, {k}) /\ UNCHANGED <<observerVars, channel>>
        /\ dirty' = [dirty EXCEPT ![n] = @ \cup {k}]
    BY <1>2 DEF updateNpcState
  <2>3. {k} \in SUBSET Components
    OBVIOUS
  <2> QED
    BY <2>1, <2>2, <2>3, ChangeServed
<1>3. CASE Tick \/ UNCHANGED vars
  <2>1. UNCHANGED <<npcs, state, dirty, observerVars, channel, served, missed>>
    BY <1>3 DEF Tick, vars, serverVars
  <2> QED
    BY <2>1 DEF SInv, ObserverTypeOK, observerVars, Brought
<1> QED
  BY <1>1, <1>2, <1>3, CopyServed, ApplyServed, BuildServed DEF Next

\* A single observer that was in range of an NPC when packets were built has the
\* NPC's state once it has applied them: what clears the mask is on its way.
THEOREM ServedCorrect == ASSUME NEW o, OneObserver(o) PROVE Spec => []ServedSynced
<1>1. SInv(o) => ServedSynced
  <2> SUFFICES ASSUME SInv(o), NEW n \in served[o] \cap known[o],
                      NEW k \in Components \ missed[o][n], channel[o] = << >>
               PROVE  copy[o][n][k] = state[n][k]
    BY DEF ServedSynced, OneObserver
  <2>1. n \in Npcs /\ dirty[n] = {}
    BY DEF SInv, ServerTypeOK
  <2>2. Brought(channel[o], o, n, k) /\ Carriers(channel[o], n, k) = {}
    BY <2>1 DEF SInv, Carriers
  <2> QED
    BY <2>2 DEF Brought
<1>2. Init => IInv /\ SInv(o)
  BY InitInv, InitServed
<1>3. IInv /\ SInv(o) /\ [Next]_vars => IInv' /\ SInv(o)'
  <2>1. IInv /\ [Next]_vars => IInv' /\ ServerTypeOK'
    BY NextInv DEF IInv
  <2> QED
    BY <2>1, NextServed
<1> QED
  BY <1>1, <1>2, <1>3, PTL DEF Spec
==============================================================================
