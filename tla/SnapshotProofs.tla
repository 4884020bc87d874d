---------------------------- MODULE SnapshotProofs ----------------------------
(***************************************************************************)
(* Proofs about the frames of SnapshotBuilder and the buffers of           *)
(* SnapshotStream, for any clients, entities, components, repeats,         *)
(* capacity and bounds, and any loss and reordering.                       *)
(***************************************************************************)
EXTENDS SnapshotStream, FiniteSetTheorems, SequenceTheorems, WellFoundedInduction, TLAPS

------------------------------------------------------------------------------
(* The builder: its frames are enough.  DeltasSuffice is inductive together *)
(* with NoGhosts (an entity coming into view starts from nothing) and with  *)
(* the fact that only enabled components are dirty.                         *)

DirtyEnabled == \A e \in Entities : \A k \in dirty[e] : value[e][k] # 0

BuilderInv == TypeOK /\ DirtyEnabled /\ DeltasSuffice /\ NoGhosts /\ RepeatsOfVisible

\* A frame keeps the repeats in range.
LEMMA RepeatedType ==
    ASSUME TypeOK, NEW c \in Clients, NEW e \in Entities, NEW visible
    PROVE  Repeated(c, e, visible) \in 0..FullSyncRepeatCount
<1>1. repeats[c][e] \in 0..FullSyncRepeatCount
  BY DEF TypeOK
<1> QED
  BY <1>1, SnapshotAssumption DEF Repeated

\* What a frame makes of the picture of one entity.
LEMMA AppliedAt ==
    ASSUME NEW c \in Clients, NEW visible, NEW time, NEW e \in Entities, NEW k \in Components
    PROVE  Applied(world[c], Frame(c, visible, time))[e][k] =
             IF e \in visible /\ k \in Mask(c, e) THEN value[e][k]
             ELSE IF e \in lastVisible[c] /\ e \notin visible THEN 0
             ELSE world[c][e][k]
<1> DEFINE frame == Frame(c, visible, time)
<1>1. k \in frame.mask[e] <=> e \in visible /\ k \in Mask(c, e)
  BY DEF Frame
<1>2. frame.value = value /\ (e \in frame.removed <=> e \in lastVisible[c] /\ e \notin visible)
  BY DEF Frame, Removed
<1> HIDE DEF frame
<1>3. Applied(world[c], frame)[e][k] =
        IF k \in frame.mask[e] THEN frame.value[e][k]
        ELSE IF e \in frame.removed THEN 0 ELSE world[c][e][k]
  BY DEF Applied
<1> QED
  BY <1>1, <1>2, <1>3 DEF frame

LEMMA BuilderInitInv == Init => BuilderInv
BY SnapshotAssumption
   DEF Init, BuilderInv, TypeOK, DirtyEnabled, DeltasSuffice, NoGhosts, RepeatsOfVisible, Nothing

LEMMA CreateInv ==
    ASSUME BuilderInv, NEW e \in Entities, create(e)
    PROVE  BuilderInv'
<1> USE DEF create, builderVars
<1>1. TypeOK'
  BY DEF BuilderInv, TypeOK
<1>2. (DirtyEnabled /\ NoGhosts /\ RepeatsOfVisible)'
  BY DEF BuilderInv, DirtyEnabled, NoGhosts, RepeatsOfVisible
<1>3. DeltasSuffice'
  \* Only e is new, and no client has seen it.
  BY DEF BuilderInv, TypeOK, DeltasSuffice
<1> QED
  BY <1>1, <1>2, <1>3 DEF BuilderInv

LEMMA ChangeInv ==
    ASSUME BuilderInv, NEW e \in Entities, NEW k \in Components, Change(e, k)
    PROVE  BuilderInv'
<1> USE DEF Change, builderVars
<1>1. TypeOK'
  BY DEF BuilderInv, TypeOK
<1>2. DirtyEnabled'
  <2> SUFFICES ASSUME NEW f \in Entities, NEW j \in dirty'[f]
               PROVE  value'[f][j] # 0
    BY DEF DirtyEnabled
  <2>1. CASE f = e /\ j = k
    BY <2>1 DEF BuilderInv, TypeOK
  <2>2. CASE ~(f = e /\ j = k)
    BY <2>2 DEF BuilderInv, TypeOK, DirtyEnabled
  <2> QED
    BY <2>1, <2>2
<1>3. (NoGhosts /\ RepeatsOfVisible)'
  BY DEF BuilderInv, NoGhosts, RepeatsOfVisible
<1>4. DeltasSuffice'
  BY DEF BuilderInv, TypeOK, DeltasSuffice
<1> QED
  BY <1>1, <1>2, <1>3, <1>4 DEF BuilderInv

LEMMA DestroyInv ==
    ASSUME BuilderInv, NEW e \in Entities, destroy(e)
    PROVE  BuilderInv'
<1> USE DEF destroy, builderVars
<1>1. TypeOK'
  BY DEF BuilderInv, TypeOK, Nothing
<1>2. DirtyEnabled'
  BY DEF BuilderInv, TypeOK, DirtyEnabled
<1>3. (NoGhosts /\ RepeatsOfVisible)'
  BY DEF BuilderInv, NoGhosts, RepeatsOfVisible
<1>4. DeltasSuffice'
  BY DEF BuilderInv, TypeOK, DeltasSuffice
<1> QED
  BY <1>1, <1>2, <1>3, <1>4 DEF BuilderInv

LEMMA BuildInv ==
    ASSUME BuilderInv, NEW visible \in Views, NEW time, BuildFrames(visible, time)
    PROVE  BuilderInv'
<1> USE DEF BuildFrames
<1>1. TypeOK'
  <2>1. \A c \in Clients, e \in Entities, k \in Components :
          Applied(world[c], Frame(c, visible[c], time))[e][k] \in Nat
    <3> SUFFICES ASSUME NEW c \in Clients, NEW e \in Entities, NEW k \in Components
                 PROVE  Applied(world[c], Frame(c, visible[c], time))[e][k] \in Nat
      OBVIOUS
    <3>1. value[e][k] \in Nat /\ world[c][e][k] \in Nat
      BY DEF BuilderInv, TypeOK
    <3>2. Applied(world[c], Frame(c, visible[c], time))[e][k] \in {value[e][k], 0, world[c][e][k]}
      <4>1. Applied(world[c], Frame(c, visible[c], time))[e][k] =
              IF e \in visible[c] /\ k \in Mask(c, e) THEN value[e][k]
              ELSE IF e \in lastVisible[c] /\ e \notin visible[c] THEN 0
              ELSE world[c][e][k]
        BY AppliedAt
      <4> QED
        BY <4>1
    <3> QED
      BY <3>1, <3>2
  <2>2. world' \in [Clients -> [Entities -> [Components -> Nat]]]
    BY <2>1 DEF Applied
  <2>3. repeats' \in [Clients -> [Entities -> 0..FullSyncRepeatCount]]
    BY RepeatedType DEF BuilderInv
  <2>4. lastVisible' \in [Clients -> SUBSET allocated]
    BY DEF BuilderInv, TypeOK, Views
  <2> QED
    BY <2>2, <2>3, <2>4 DEF BuilderInv, TypeOK
<1>2. DirtyEnabled'
  BY DEF DirtyEnabled
<1>3. DeltasSuffice'
  <2> SUFFICES ASSUME NEW c \in Clients, NEW e \in registry, e \in visible[c],
                      NEW k \in Components
               PROVE  world'[c][e][k] = value[e][k]
    BY DEF DeltasSuffice
  <2>1. e \in Entities
    BY DEF BuilderInv, TypeOK
  <2>2. world'[c][e][k] = IF k \in Mask(c, e) THEN value[e][k] ELSE world[c][e][k]
    BY <2>1, AppliedAt
  <2>3. CASE FirstVisible(c, e)
    \* What is not sent is not enabled, and the client has nothing of e.
    BY <2>1, <2>2, <2>3 DEF BuilderInv, NoGhosts, Nothing, FirstVisible, Mask, componentMask
  <2>4. CASE ~FirstVisible(c, e) /\ repeats[c][e] > 0
    \* What is not sent is not enabled, hence clean.
    BY <2>1, <2>2, <2>4
       DEF BuilderInv, DirtyEnabled, DeltasSuffice, FirstVisible, Mask, componentMask
  <2>5. CASE ~FirstVisible(c, e) /\ ~(repeats[c][e] > 0)
    BY <2>1, <2>2, <2>5 DEF BuilderInv, DeltasSuffice, FirstVisible, Mask
  <2> QED
    BY <2>3, <2>4, <2>5
<1>4. NoGhosts'
  <2> SUFFICES ASSUME NEW c \in Clients, NEW e \in Entities, e \notin visible[c]
               PROVE  world'[c][e] = Nothing
    BY DEF NoGhosts
  <2>1. \A k \in Components : world'[c][e][k] =
          IF e \in lastVisible[c] THEN 0 ELSE world[c][e][k]
    BY AppliedAt
  <2>2. \A k \in Components : world'[c][e][k] = 0
    BY <2>1 DEF BuilderInv, NoGhosts, Nothing
  <2>3. world'[c][e] = [k \in Components |-> world'[c][e][k]]
    BY DEF Applied
  <2> QED
    BY <2>2, <2>3 DEF Nothing
<1>5. RepeatsOfVisible'
  <2> SUFFICES ASSUME NEW c \in Clients, NEW e \in Entities, e \notin visible[c]
               PROVE  ~(Repeated(c, e, visible[c]) > 0)
    BY DEF RepeatsOfVisible
  <2> QED
    BY DEF BuilderInv, RepeatsOfVisible, Repeated
<1> QED
  BY <1>1, <1>2, <1>3, <1>4, <1>5 DEF BuilderInv

LEMMA BuilderStepInv == BuilderInv /\ [Next]_vars => BuilderInv'
<1> SUFFICES ASSUME BuilderInv, [Next]_vars
             PROVE  BuilderInv'
  OBVIOUS
<1>1. ASSUME NEW e \in Entities, create(e) PROVE BuilderInv'
  BY <1>1, CreateInv
<1>2. ASSUME NEW e \in Entities, destroy(e) PROVE BuilderInv'
  BY <1>2, DestroyInv
<1>3. ASSUME NEW e \in Entities, NEW k \in Components, Change(e, k) PROVE BuilderInv'
  BY <1>3, ChangeInv
<1>4. ASSUME NEW visible \in Views, BuildFrames(visible, 0) PROVE BuilderInv'
  BY <1>4, BuildInv
<1>5. CASE UNCHANGED vars
  BY <1>5 DEF vars, entityVars, builderVars, BuilderInv, TypeOK, DirtyEnabled, DeltasSuffice, NoGhosts,
              RepeatsOfVisible
<1> QED
  BY <1>1, <1>2, <1>3, <1>4, <1>5 DEF Next

THEOREM BuilderInvariance == Spec => []BuilderInv
BY BuilderInitInv, BuilderStepInv, PTL DEF Spec

\* The builder's tables stay well typed: no entity is shown before it was
\* allocated, and no count of repeats underflows.
THEOREM SnapshotTypeCorrect == Spec => []TypeOK
BY BuilderInvariance, PTL DEF BuilderInv

\* Differences and shared dirty flags lose nothing: a client that gets every
\* frame has the current value of every clean component in its view.
THEOREM DeltasCorrect == Spec => []DeltasSuffice
BY BuilderInvariance, PTL DEF BuilderInv

\* Nothing is left of an entity that went out of view or was destroyed.
THEOREM GhostsCorrect == Spec => []NoGhosts
BY BuilderInvariance, PTL DEF BuilderInv

\* An entity that comes back into view is due all its full resends.
THEOREM RepeatsCorrect == Spec => []RepeatsOfVisible
BY BuilderInvariance, PTL DEF BuilderInv

------------------------------------------------------------------------------
(* The stream. *)

\* The frames are in the order of their sequences, each once.
Sorted(frames) ==
    \A i, j \in DOMAIN frames : i < j => frames[i].sequence < frames[j].sequence

Holds(frames, frame) == \E i \in DOMAIN frames : frames[i] = frame

\* The frames a client got that are newer than this one.
NewerThan(c, frame) == {f \in received[c] : f.sequence > frame.sequence}

\* One client's channel: sequences, which are the times, below the next one, no two
\* frames with the same; a buffer made of what was received.
ChannelFits(c) ==
    /\ nextSequence[c] \in Nat
    /\ \A f \in inflight[c] \cup received[c] :
          f.sequence \in Nat /\ f.sequence < nextSequence[c] /\ f.serverTime = f.sequence
    /\ \A f \in inflight[c] : \A g \in inflight[c] \cup received[c] :
          f.sequence = g.sequence => f = g
    /\ inflight[c] \cap received[c] = {}

BufferFits(c) ==
    /\ IsFiniteSet(received[c])
    /\ buffers[c] \in Seq(received[c])
    /\ Sorted(buffers[c])
    /\ \A f \in received[c] : Holds(buffers[c], f) \/ Cardinality(NewerThan(c, f)) >= Capacity

\* The inductive invariant.
IInv ==
    /\ nextSequence = [c \in Clients |-> nextSequence[c]]
    /\ inflight = [c \in Clients |-> inflight[c]]
    /\ received = [c \in Clients |-> received[c]]
    /\ buffers = [c \in Clients |-> buffers[c]]
    /\ \A c \in Clients : ChannelFits(c) /\ BufferFits(c)
    /\ \A b, c \in Clients : nextSequence[b] = nextSequence[c]

------------------------------------------------------------------------------
(* The buffer. *)

\* The smallest of a set of positions.
LEMMA MinPosition ==
    ASSUME NEW S, S \subseteq Nat, S # {}
    PROVE  Min(S) \in S /\ \A i \in S : Min(S) <= i
<1> DEFINE before == {pair \in Nat \X Nat : pair[1] < pair[2]}
<1>1. IsWellFoundedOn(before, Nat)
  BY NatLessThanWellFounded DEF OpToRel
<1> HIDE DEF before
<1>2. PICK x \in S : \A y \in S : ~ (<<y, x>> \in before)
  BY <1>1, WFMin
<1>3. ASSUME NEW y \in S PROVE x <= y
  <2>1. x \in Nat /\ y \in Nat
    OBVIOUS
  <2>2. <<y, x>> \in Nat \X Nat /\ <<y, x>>[1] = y /\ <<y, x>>[2] = x
    BY <2>1
  <2>3. y < x => <<y, x>> \in before
    BY <2>2 DEF before
  <2> QED
    BY <1>2, <2>1, <2>3
<1> QED
  BY <1>3 DEF Min

\* Taking off the front keeps the newest frames.
LEMMA TrimmedKeeps ==
    ASSUME NEW S, \A x \in S : x.sequence \in Nat,
           NEW frames \in Seq(S), Sorted(frames)
    PROVE  /\ Trimmed(frames) \in Seq(S)
           /\ Sorted(Trimmed(frames))
           /\ \A x \in S : Holds(frames, x) =>
                 \/ Holds(Trimmed(frames), x)
                 \/ /\ Len(Trimmed(frames)) = Capacity
                    /\ \A i \in DOMAIN Trimmed(frames) : x.sequence < Trimmed(frames)[i].sequence
<1> DEFINE n == Len(frames)
           m == IF n - Capacity + 1 > 1 THEN n - Capacity + 1 ELSE 1
           rest == SubSeq(frames, m, n)
<1>1. n \in Nat /\ Capacity \in Nat /\ Capacity >= 2 /\ DOMAIN frames = 1..n
  BY BufferAssumption
<1>2. Trimmed(frames) = rest
  <2>1. Max({1, n - Capacity + 1}) = m
    BY <1>1 DEF Max
  <2> QED
    BY <2>1 DEF Trimmed
<1>3. m \in Nat /\ m >= 1 /\ m <= n + 1 /\ (m # 1 => n - m + 1 = Capacity)
  BY <1>1
<1> HIDE DEF n, m, rest
<1>4. /\ rest \in Seq(S) /\ Len(rest) = n - m + 1 /\ DOMAIN rest = 1..n - m + 1
      /\ \A i \in DOMAIN rest : rest[i] = frames[i + m - 1] /\ i + m - 1 \in DOMAIN frames
  <2>1. m \in 1..Len(frames) + 1 /\ n = Len(frames)
    BY <1>1, <1>3 DEF n
  <2> QED
    BY <1>1, <1>3, <2>1 DEF rest
<1>5. Sorted(rest)
  BY <1>1, <1>3, <1>4 DEF Sorted
<1>6. ASSUME NEW x \in S, NEW k \in DOMAIN frames, frames[k] = x
      PROVE  \/ Holds(rest, x)
             \/ Len(rest) = Capacity /\ \A i \in DOMAIN rest : x.sequence < rest[i].sequence
  <2>1. CASE k >= m
    <3> DEFINE i == k - m + 1
    <3>1. n \in Nat /\ m \in Nat /\ m >= 1 /\ m <= n + 1 /\ k \in 1..n
      BY <1>1, <1>3
    <3>2. i \in 1..n - m + 1 /\ i + m - 1 = k
      BY <2>1, <3>1
    <3> HIDE DEF i
    <3>3. i \in DOMAIN rest /\ rest[i] = x
      BY <1>4, <1>6, <3>2
    <3> QED
      BY <3>3 DEF Holds
  <2>2. CASE k < m
    <3>1. Len(rest) = Capacity
      BY <1>1, <1>3, <1>4, <2>2
    <3>2. ASSUME NEW i \in DOMAIN rest PROVE x.sequence < rest[i].sequence
      <4>1. i + m - 1 \in DOMAIN frames /\ k < i + m - 1 /\ rest[i] = frames[i + m - 1]
        BY <1>1, <1>3, <1>4, <2>2
      <4> QED
        BY <1>6, <4>1 DEF Sorted
    <3> QED
      BY <3>1, <3>2
  <2> QED
    BY <1>1, <1>3, <2>1, <2>2
<1> QED
  BY <1>2, <1>4, <1>5, <1>6 DEF Holds

\* A frame that is the newest goes to the end.
LEMMA AppendKeeps ==
    ASSUME NEW S, \A x \in S : x.sequence \in Nat,
           NEW frames \in Seq(S), Sorted(frames), NEW frame \in S, ~ Late(frames, frame)
    PROVE  /\ Append(frames, frame) \in Seq(S)
           /\ Sorted(Append(frames, frame))
           /\ \A x \in S : Holds(frames, x) \/ x = frame => Holds(Append(frames, frame), x)
<1> DEFINE grown == Append(frames, frame)
           n == Len(frames)
<1>1. /\ grown \in Seq(S) /\ n \in Nat /\ DOMAIN frames = 1..n /\ DOMAIN grown = 1..n + 1
      /\ grown[n + 1] = frame /\ \A i \in 1..n : grown[i] = frames[i]
  OBVIOUS
<1>2. \A i \in 1..n : frames[i].sequence \in Nat
  BY <1>1
<1>3. ASSUME NEW i \in 1..n PROVE frames[i].sequence < frame.sequence
  <2>1. frames # << >> /\ n \in 1..n
    BY <1>1
  <2>2. ~ (frame.sequence <= frames[n].sequence)
    BY <2>1 DEF Late
  <2>3. frames[n].sequence < frame.sequence
    BY <1>2, <2>1, <2>2
  <2>4. i = n \/ frames[i].sequence < frames[n].sequence
    <3>1. i \in DOMAIN frames /\ n \in DOMAIN frames
      BY <1>1, <2>1
    <3> HIDE DEF n
    <3>2. i = n \/ i < n
      BY <1>1
    <3> QED
      BY <3>1, <3>2 DEF Sorted
  <2> QED
    BY <1>2, <2>1, <2>3, <2>4
<1> HIDE DEF grown, n
<1>4. Sorted(grown)
  <2> SUFFICES ASSUME NEW i \in 1..n + 1, NEW j \in 1..n + 1, i < j
               PROVE  grown[i].sequence < grown[j].sequence
    BY <1>1 DEF Sorted
  <2>1. i \in 1..n
    BY <1>1
  <2>2. CASE j = n + 1
    BY <1>1, <1>3, <2>1, <2>2
  <2>3. CASE j \in 1..n
    BY <1>1, <2>1, <2>3 DEF Sorted
  <2> QED
    BY <1>1, <2>2, <2>3
<1>5. ASSUME NEW x \in S, Holds(frames, x) \/ x = frame PROVE Holds(grown, x)
  <2>1. n + 1 \in 1..n + 1 /\ \A i \in 1..n : i \in 1..n + 1
    BY <1>1
  <2> QED
    BY <1>1, <1>5, <2>1 DEF Holds
<1> QED
  BY <1>1, <1>4, <1>5 DEF grown

\* A late frame goes where its sequence belongs.
LEMMA InsertKeeps ==
    ASSUME NEW S, \A x \in S : x.sequence \in Nat,
           NEW frames \in Seq(S), Sorted(frames), NEW frame \in S, Late(frames, frame),
           \A i \in DOMAIN frames : frames[i].sequence # frame.sequence
    PROVE  LET grown == InsertedAt(frames, Insertion(frames, frame), frame) IN
           /\ grown \in Seq(S)
           /\ Sorted(grown)
           /\ \A x \in S : Holds(frames, x) \/ x = frame => Holds(grown, x)
<1> DEFINE n == Len(frames)
           after == {i \in DOMAIN frames : frame.sequence < frames[i].sequence}
           m == Insertion(frames, frame)
           grown == InsertedAt(frames, m, frame)
<1>1. /\ n \in Nat /\ DOMAIN frames = 1..n /\ n \in DOMAIN frames
      /\ \A i \in DOMAIN frames : frames[i] \in S
  BY DEF Late
<1>2. \A i \in DOMAIN frames : frames[i].sequence \in Nat
  BY <1>1
<1>3. n \in after
  BY <1>1, <1>2 DEF Late
<1>4. m \in after /\ \A i \in after : m <= i
  <2>1. after \subseteq Nat /\ after # {}
    BY <1>1, <1>3
  <2>2. m = Min(after)
    BY DEF Insertion
  <2> HIDE DEF after, m
  <2> QED
    BY <2>1, <2>2, MinPosition
<1>5. m \in 1..n /\ frame.sequence < frames[m].sequence
  BY <1>1, <1>4
<1> HIDE DEF m, after
<1>6. ASSUME NEW i \in 1..n, i < m PROVE frames[i].sequence < frame.sequence
  <2>1. i \notin after
    BY <1>1, <1>4, <1>5, <1>6
  <2>2. ~ (frame.sequence < frames[i].sequence) /\ frames[i].sequence # frame.sequence
    BY <1>1, <2>1 DEF after
  <2> QED
    BY <1>1, <1>2, <2>2
<1>7. ASSUME NEW i \in 1..n, i >= m PROVE frame.sequence < frames[i].sequence
  <2>1. i = m \/ frames[m].sequence < frames[i].sequence
    <3>1. m \in DOMAIN frames /\ i \in DOMAIN frames /\ (i = m \/ m < i)
      BY <1>1, <1>5, <1>7
    <3> QED
      BY <3>1 DEF Sorted
  <2> QED
    BY <1>1, <1>2, <1>5, <2>1
<1>8. /\ grown \in Seq(S) /\ DOMAIN grown = 1..n + 1
      /\ \A i \in 1..m - 1 : grown[i] = frames[i]
      /\ grown[m] = frame
      /\ \A i \in m + 1..n + 1 : grown[i] = frames[i - 1]
  <2> DEFINE low == SubSeq(frames, 1, m - 1)
             high == SubSeq(frames, m, n)
  <2>1. /\ low \in Seq(S) /\ Len(low) = m - 1 /\ \A i \in 1..m - 1 : low[i] = frames[i]
    BY <1>1, <1>5
  <2>2. /\ high \in Seq(S) /\ Len(high) = n - m + 1
        /\ \A i \in 1..n - m + 1 : high[i] = frames[i + m - 1]
    BY <1>1, <1>5
  <2>3. grown = low \o <<frame>> \o high
    BY DEF InsertedAt
  <2> HIDE DEF low, high, grown
  <2> DEFINE front == low \o <<frame>>
  <2>4. /\ front \in Seq(S) /\ Len(front) = m /\ front[m] = frame
        /\ \A i \in 1..m - 1 : front[i] = frames[i]
    BY <1>5, <2>1
  <2>5. grown = front \o high
    BY <2>3
  <2> HIDE DEF front
  <2>6. grown \in Seq(S) /\ DOMAIN grown = 1..n + 1
    <3> HIDE DEF n
    <3>1. grown \in Seq(S) /\ Len(grown) = Len(front) + Len(high)
      BY ZenonT(30), <2>2, <2>4, <2>5, ConcatProperties
    <3>2. Len(grown) = n + 1
      BY <1>1, <1>5, <2>2, <2>4, <3>1
    <3> QED
      BY <3>1, <3>2
  <2>7. \A i \in 1..m : grown[i] = front[i]
    BY <1>5, <2>2, <2>4, <2>5
  <2>8. ASSUME NEW i \in m + 1..n + 1 PROVE grown[i] = frames[i - 1]
    <3>1. i - m \in 1..n - m + 1 /\ (i - m) + m - 1 = i - 1
      BY <1>1, <1>5
    <3>2. grown[i] = high[i - m]
      BY <1>1, <1>5, <2>2, <2>4, <2>5
    <3> QED
      BY <2>2, <3>1, <3>2
  <2> QED
    BY <1>5, <2>4, <2>6, <2>7, <2>8
<1> HIDE DEF grown, n
<1>9. Sorted(grown)
  <2> SUFFICES ASSUME NEW i \in 1..n + 1, NEW j \in 1..n + 1, i < j
               PROVE  grown[i].sequence < grown[j].sequence
    BY <1>8 DEF Sorted
  <2>1. CASE j < m
    <3>1. i \in 1..m - 1 /\ j \in 1..m - 1 /\ i \in DOMAIN frames /\ j \in DOMAIN frames
      BY <1>1, <1>5, <2>1
    <3> QED
      BY <1>8, <3>1 DEF Sorted
  <2>2. CASE j = m
    <3>1. i \in 1..m - 1 /\ i \in 1..n /\ i < m
      BY <1>1, <1>5, <2>2
    <3> QED
      BY <1>6, <1>8, <2>2, <3>1
  <2>3. CASE j > m /\ i < m
    <3>1. /\ i \in 1..m - 1 /\ i \in DOMAIN frames /\ i < j - 1
          /\ j \in m + 1..n + 1 /\ j - 1 \in DOMAIN frames
      BY <1>1, <1>5, <2>3
    <3> QED
      BY <1>8, <3>1 DEF Sorted
  <2>4. CASE j > m /\ i = m
    <3>1. j \in m + 1..n + 1 /\ j - 1 \in 1..n /\ j - 1 >= m
      BY <1>1, <1>5, <2>4
    <3> QED
      BY <1>7, <1>8, <2>4, <3>1
  <2>5. CASE j > m /\ i > m
    <3>1. /\ i \in m + 1..n + 1 /\ i - 1 \in DOMAIN frames /\ i - 1 < j - 1
          /\ j \in m + 1..n + 1 /\ j - 1 \in DOMAIN frames
      BY <1>1, <1>5, <2>5
    <3> QED
      BY <1>8, <3>1 DEF Sorted
  <2> QED
    BY <1>1, <1>5, <2>1, <2>2, <2>3, <2>4, <2>5
<1>10. ASSUME NEW x \in S, Holds(frames, x) \/ x = frame PROVE Holds(grown, x)
  <2>1. CASE x = frame
    <3>1. m \in 1..n + 1
      BY <1>1, <1>5
    <3> QED
      BY <1>8, <2>1, <3>1 DEF Holds
  <2>2. CASE Holds(frames, x)
    <3>1. PICK i \in 1..n : frames[i] = x
      BY <1>1, <2>2 DEF Holds
    <3>2. CASE i < m
      <4>1. i \in 1..m - 1 /\ i \in 1..n + 1
        BY <1>1, <1>5, <3>2
      <4> QED
        BY <1>8, <3>1, <4>1 DEF Holds
    <3>3. CASE i >= m
      <4>1. i + 1 \in m + 1..n + 1 /\ i + 1 \in 1..n + 1 /\ (i + 1) - 1 = i
        BY <1>1, <1>5, <3>3
      <4> QED
        BY <1>8, <3>1, <4>1 DEF Holds
    <3> QED
      BY <1>1, <1>5, <3>2, <3>3
  <2> QED
    BY <1>10, <2>1, <2>2
<1> QED
  BY <1>8, <1>9, <1>10 DEF grown, m

\* A new frame is put where it belongs; what falls out is older than all of a
\* full buffer.
LEMMA PushKeeps ==
    ASSUME NEW S, \A x \in S : x.sequence \in Nat,
           NEW frames \in Seq(S), Sorted(frames), NEW frame \in S,
           \A i \in DOMAIN frames : frames[i].sequence # frame.sequence
    PROVE  /\ push(frames, frame) \in Seq(S)
           /\ Sorted(push(frames, frame))
           /\ \A x \in S : Holds(frames, x) \/ x = frame =>
                 \/ Holds(push(frames, frame), x)
                 \/ /\ Len(push(frames, frame)) = Capacity
                    /\ \A i \in DOMAIN push(frames, frame) :
                          x.sequence < push(frames, frame)[i].sequence
<1>1. CASE ~ Late(frames, frame)
  <2> DEFINE grown == Append(frames, frame)
  <2>1. /\ grown \in Seq(S) /\ Sorted(grown)
        /\ \A x \in S : Holds(frames, x) \/ x = frame => Holds(grown, x)
    BY <1>1, AppendKeeps
  <2>2. ~ Duplicate(frames, frame)
    BY DEF Duplicate
  <2>3. push(frames, frame) = Trimmed(grown)
    BY <1>1, <2>2 DEF push
  <2> HIDE DEF grown
  <2> QED
    BY <2>1, <2>3, TrimmedKeeps
<1>2. CASE Late(frames, frame)
  <2> DEFINE grown == InsertedAt(frames, Insertion(frames, frame), frame)
  <2>1. /\ grown \in Seq(S) /\ Sorted(grown)
        /\ \A x \in S : Holds(frames, x) \/ x = frame => Holds(grown, x)
    BY <1>2, InsertKeeps
  <2>2. ~ Duplicate(frames, frame)
    BY DEF Duplicate
  <2>3. push(frames, frame) = grown
    BY <1>2, <2>2 DEF push
  <2> HIDE DEF grown
  <2> QED
    BY <2>1, <2>3
<1> QED
  BY <1>1, <1>2

\* A full buffer of newer frames is as many newer frames received.
LEMMA FullOfNewer ==
    ASSUME NEW S, IsFiniteSet(S), \A f \in S : f.sequence \in Nat,
           NEW frames \in Seq(S), Sorted(frames), Len(frames) = Capacity, NEW x \in S,
           \A i \in DOMAIN frames : x.sequence < frames[i].sequence
    PROVE  Cardinality({f \in S : f.sequence > x.sequence}) >= Capacity
<1> DEFINE newer == {f \in S : f.sequence > x.sequence}
<1>1. Capacity \in Nat /\ DOMAIN frames = 1..Capacity /\ \A i \in 1..Capacity : frames[i] \in S
  BY BufferAssumption
<1>2. ASSUME NEW i \in 1..Capacity PROVE frames[i] \in newer
  BY <1>1
<1>3. ASSUME NEW i \in 1..Capacity, NEW j \in 1..Capacity, i # j PROVE frames[i] # frames[j]
  <2>1. frames[i].sequence \in Nat /\ frames[j].sequence \in Nat /\ (i < j \/ j < i)
    BY <1>1, <1>3
  <2>2. frames[i].sequence < frames[j].sequence \/ frames[j].sequence < frames[i].sequence
    BY <1>1, <2>1 DEF Sorted
  <2> QED
    BY <2>1, <2>2
<1>4. IsFiniteSet(newer) /\ Cardinality(newer) \in Nat
  BY FS_Subset, FS_CardinalityType
<1>5. IsFiniteSet(1..Capacity) /\ Cardinality(1..Capacity) = Capacity
  BY <1>1, FS_Interval
<1> HIDE DEF newer
<1>6. SUFFICES ASSUME Cardinality(newer) < Capacity PROVE FALSE
  BY <1>1, <1>4 DEF newer
<1> DEFINE at == [i \in 1..Capacity |-> frames[i]]
<1>7. at \in [1..Capacity -> newer]
  BY <1>2
<1>8. \E i, j \in 1..Capacity : i # j /\ at[i] = at[j]
  BY <1>4, <1>5, <1>6, <1>7, FS_PigeonHole
<1> QED
  BY <1>3, <1>8

------------------------------------------------------------------------------
(* The steps. *)

\* Nothing is on its way at first, and the buffers are empty.
LEMMA Initially == StreamInit => IInv
<1> SUFFICES ASSUME StreamInit PROVE IInv
  OBVIOUS
<1> USE DEF StreamInit, Init
<1>1. ASSUME NEW c \in Clients PROVE ChannelFits(c)
  BY DEF ChannelFits
<1>2. ASSUME NEW c \in Clients PROVE BufferFits(c)
  <2>1. received[c] = {} /\ buffers[c] = << >> /\ IsFiniteSet({})
    BY FS_EmptySet
  <2> QED
    BY <2>1 DEF BufferFits, Sorted
<1> QED
  BY <1>1, <1>2 DEF IInv

\* The sequences and the channels alone decide the invariant.
LEMMA Untouched ==
    IInv /\ UNCHANGED <<nextSequence, inflight, received, buffers>> => IInv'
BY DEF IInv, ChannelFits, BufferFits, NewerThan

\* A tick numbers its frames by the sequences it then advances.
LEMMA Sending ==
    ASSUME IInv, SendFrames
    PROVE  IInv'
<1>1. PICK visible \in Views :
      LET time == Max({nextSequence[b] : b \in Clients}) IN
      /\ BuildFrames(visible, time)
      /\ inflight' = [c \in Clients |-> inflight[c] \cup
            {Frame(d, visible[d], time) : d \in Listeners \cap {c}}]
      /\ UNCHANGED <<received, buffers>>
  BY DEF SendFrames
<1> DEFINE new(c) == Frame(c, visible[c], Max({nextSequence[b] : b \in Clients}))
<1>2. nextSequence' = [c \in Clients |-> nextSequence[c] + 1]
  BY <1>1 DEF BuildFrames
<1>3. inflight' = [c \in Clients |-> inflight[c] \cup {new(d) : d \in Listeners \cap {c}}]
  BY <1>1
<1>4. received' = received /\ buffers' = buffers
  BY <1>1
<1>5. ASSUME NEW c \in Clients
      PROVE  new(c).sequence = nextSequence[c] /\ new(c).serverTime = nextSequence[c]
  <2>1. {nextSequence[b] : b \in Clients} = {nextSequence[c]}
    BY DEF IInv
  <2>2. nextSequence[c] \in Nat
    BY DEF IInv, ChannelFits
  <2>3. Max({nextSequence[c]}) = nextSequence[c]
    BY <2>2 DEF Max
  <2> QED
    BY <2>1, <2>3 DEF Frame
<1> HIDE DEF new
<1>6. ASSUME NEW c \in Clients PROVE ChannelFits(c)'
  <2>1. ChannelFits(c) /\ nextSequence'[c] = nextSequence[c] + 1
    BY <1>2 DEF IInv
  <2>2. inflight'[c] \subseteq inflight[c] \cup {new(c)} /\ received'[c] = received[c]
    BY <1>3, <1>4
  <2>3. nextSequence[c] \in Nat
    BY <2>1 DEF ChannelFits
  <2>4. ASSUME NEW f \in inflight'[c] \cup received'[c]
        PROVE  /\ f.sequence \in Nat /\ f.sequence < nextSequence'[c]
               /\ f.serverTime = f.sequence
    <3>1. CASE f = new(c)
      BY <1>5, <2>1, <2>3, <3>1
    <3>2. CASE f \in inflight[c] \cup received[c]
      BY <2>1, <2>3, <3>2 DEF ChannelFits
    <3> QED
      BY <2>2, <3>1, <3>2
  <2>5. \A f \in inflight[c] \cup received[c] : f.sequence # new(c).sequence
    BY <1>5, <2>1, <2>3 DEF ChannelFits
  <2>6. ASSUME NEW f \in inflight'[c], NEW g \in inflight'[c] \cup received'[c],
               f.sequence = g.sequence
        PROVE  f = g
    BY <2>1, <2>2, <2>5, <2>6 DEF ChannelFits
  <2>7. inflight'[c] \cap received'[c] = {}
    BY <2>1, <2>2, <2>5 DEF ChannelFits
  <2>8. nextSequence'[c] \in Nat
    BY <2>1, <2>3
  <2> QED
    BY <2>4, <2>6, <2>7, <2>8 DEF ChannelFits
<1>7. ASSUME NEW c \in Clients PROVE BufferFits(c)'
  BY <1>4 DEF IInv, BufferFits, NewerThan
<1>8. \A b, c \in Clients : nextSequence'[b] = nextSequence'[c]
  BY <1>2 DEF IInv
<1> QED
  BY <1>2, <1>3, <1>4, <1>6, <1>7, <1>8 DEF IInv

\* A frame is lost.
LEMMA Losing ==
    ASSUME IInv, NEW c \in Clients, Lose(c)
    PROVE  IInv'
<1> USE DEF IInv
<1> PICK frame \in inflight[c] :
      /\ inflight' = [inflight EXCEPT ![c] = @ \ {frame}]
      /\ UNCHANGED <<nextSequence, received, buffers>>
  BY DEF Lose, vars, builderVars
<1>1. ASSUME NEW d \in Clients PROVE ChannelFits(d)'
  <2>1. ChannelFits(d) /\ inflight'[d] \subseteq inflight[d]
    OBVIOUS
  <2> QED
    BY <2>1 DEF ChannelFits
<1>2. ASSUME NEW d \in Clients PROVE BufferFits(d)'
  BY DEF BufferFits, NewerThan
<1> QED
  BY <1>1, <1>2

\* A frame arrives: no other has its sequence, so it finds its place.
LEMMA Receiving ==
    ASSUME IInv, NEW c \in Clients, Receive(c)
    PROVE  IInv'
<1> USE DEF IInv
<1> PICK frame \in inflight[c] :
      /\ inflight' = [inflight EXCEPT ![c] = @ \ {frame}]
      /\ received' = [received EXCEPT ![c] = @ \cup {frame}]
      /\ buffers' = [buffers EXCEPT ![c] = push(@, frame)]
      /\ UNCHANGED nextSequence
  BY DEF Receive, vars, builderVars
<1>1. ASSUME NEW d \in Clients PROVE ChannelFits(d)'
  <2>1. ChannelFits(d)
    OBVIOUS
  <2>2. CASE d = c
    <3>1. inflight'[d] = inflight[d] \ {frame} /\ received'[d] = received[d] \cup {frame}
      BY <2>2
    <3>2. frame \in inflight[d]
      BY <2>2
    <3> QED
      BY <2>1, <3>1, <3>2 DEF ChannelFits
  <2>3. CASE d # c
    BY <2>1, <2>3 DEF ChannelFits
  <2> QED
    BY <2>2, <2>3
<1>2. ASSUME NEW d \in Clients PROVE BufferFits(d)'
  <2>1. CASE d # c
    BY <2>1 DEF BufferFits, NewerThan
  <2>2. CASE d = c
    <3> DEFINE S == received[c] \cup {frame}
               old == buffers[c]
               new == push(old, frame)
    <3>1. received'[d] = S /\ buffers'[d] = new
      BY <2>2
    <3>2. IsFiniteSet(received[c]) /\ IsFiniteSet(S)
      BY FS_AddElement DEF BufferFits
    <3>3. \A f \in S : f.sequence \in Nat
      BY DEF ChannelFits
    <3>4. old \in Seq(received[c]) /\ Sorted(old)
      BY DEF BufferFits
    <3>5. \A f \in received[c] : f.sequence # frame.sequence
      BY DEF ChannelFits
    <3>6. \A i \in DOMAIN old : old[i].sequence # frame.sequence
      BY <3>4, <3>5
    <3>7. frame \in S /\ received[c] \subseteq S /\ old \in Seq(S)
      BY <3>4
    <3>8. \A x \in received[c] : Holds(old, x) \/ Cardinality(NewerThan(c, x)) >= Capacity
      BY DEF BufferFits
    <3> HIDE DEF S, old
    <3>9. /\ new \in Seq(S) /\ Sorted(new)
          /\ \A x \in S : Holds(old, x) \/ x = frame =>
                \/ Holds(new, x)
                \/ Len(new) = Capacity /\ \A i \in DOMAIN new : x.sequence < new[i].sequence
      BY <3>3, <3>4, <3>6, <3>7, PushKeeps
    <3> HIDE DEF new
    <3>10. ASSUME NEW x \in S, ~ Holds(new, x)
           PROVE  Cardinality({f \in S : f.sequence > x.sequence}) >= Capacity
      <4>1. CASE Holds(old, x) \/ x = frame
        BY <3>2, <3>3, <3>9, <3>10, <4>1, FullOfNewer
      <4>2. CASE ~ Holds(old, x) /\ x # frame
        <5> DEFINE newer == {f \in S : f.sequence > x.sequence}
        <5>1. x \in received[c] /\ Cardinality(NewerThan(c, x)) >= Capacity
          BY <3>8, <3>10, <4>2 DEF S
        <5>2. NewerThan(c, x) \subseteq newer
          BY <3>7 DEF NewerThan
        <5>3. IsFiniteSet(newer)
          BY <3>2, FS_Subset
        <5> HIDE DEF newer
        <5>4. /\ Cardinality(NewerThan(c, x)) <= Cardinality(newer)
              /\ IsFiniteSet(NewerThan(c, x))
          BY <5>2, <5>3, FS_Subset
        <5>5. Cardinality(NewerThan(c, x)) \in Nat /\ Cardinality(newer) \in Nat /\ Capacity \in Nat
          BY <5>3, <5>4, FS_CardinalityType, BufferAssumption
        <5>6. Cardinality(newer) >= Capacity
          BY <5>1, <5>4, <5>5
        <5> QED
          BY <5>6 DEF newer
      <4> QED
        BY <4>1, <4>2
    <3> QED
      BY <3>1, <3>2, <3>9, <3>10 DEF BufferFits, NewerThan
  <2> QED
    BY <2>1, <2>2
<1> QED
  BY <1>1, <1>2

\* Every step keeps the invariant.
LEMMA Inductive == IInv /\ [StreamNext]_streamVars => IInv'
<1> SUFFICES ASSUME IInv, [StreamNext]_streamVars PROVE IInv'
  OBVIOUS
<1>1. CASE World
  <2>1. UNCHANGED <<nextSequence, inflight, received, buffers>>
    BY <1>1 DEF World, create, destroy, Change, builderVars
  <2> QED
    BY <2>1, Untouched
<1>2. CASE SendFrames
  BY <1>2, Sending
<1>3. CASE \E c \in Clients : Lose(c) \/ Receive(c)
  BY <1>3, Losing, Receiving
<1>4. CASE UNCHANGED streamVars
  <2>1. UNCHANGED <<nextSequence, inflight, received, buffers>>
    BY <1>4 DEF streamVars, vars, builderVars
  <2> QED
    BY <2>1, Untouched
<1> QED
  BY <1>1, <1>2, <1>3, <1>4 DEF StreamNext

\* The invariant holds of every behaviour.
LEMMA Invariance == StreamSpec => []IInv
BY Initially, Inductive, PTL DEF StreamSpec

------------------------------------------------------------------------------
\* A client's buffer is in the order of the sequences and holds each frame
\* once, although late frames are inserted before later ones.
THEOREM BufferCorrect == StreamSpec => []BufferSorted
<1>1. IInv => BufferSorted
  BY DEF IInv, BufferFits, Sorted, BufferSorted
<1> QED
  BY <1>1, Invariance, PTL

\* A frame that has left the buffer, or never stayed in it, is older than
\* Capacity frames the client has received.
THEOREM NewestCorrect == StreamSpec => []NewestKept
<1>1. ASSUME IInv PROVE NewestKept
  <2> SUFFICES ASSUME NEW c \in Clients, NEW frame \in received[c],
                      Cardinality(NewerThan(c, frame)) < Capacity
               PROVE  Holds(buffers[c], frame)
    BY DEF NewestKept, NewerThan, Holds
  <2>1. IsFiniteSet(NewerThan(c, frame))
    BY <1>1, FS_Subset DEF IInv, BufferFits, NewerThan
  <2>2. Cardinality(NewerThan(c, frame)) \in Nat /\ Capacity \in Nat
    BY <2>1, FS_CardinalityType, BufferAssumption
  <2>3. Holds(buffers[c], frame) \/ Cardinality(NewerThan(c, frame)) >= Capacity
    BY <1>1 DEF IInv, BufferFits
  <2> QED
    BY <2>2, <2>3
<1> QED
  BY <1>1, Invariance, PTL

------------------------------------------------------------------------------
(* The samples. *)

\* The largest of a bounded set of positions.
LEMMA MaxPosition ==
    ASSUME NEW n \in Nat, NEW S, S \subseteq 1..n, S # {}
    PROVE  Max(S) \in S /\ \A i \in S : i <= Max(S)
<1> DEFINE gaps == {n - i : i \in S}
<1>1. gaps \subseteq Nat /\ gaps # {}
  <2>1. ASSUME NEW i \in S PROVE n - i \in Nat
    <3>1. i \in 1..n
      OBVIOUS
    <3> QED
      BY <3>1
  <2>2. PICK i \in S : TRUE
    OBVIOUS
  <2>3. n - i \in gaps
    BY <2>2
  <2> QED
    BY <2>1, <2>3
<1>2. Min(gaps) \in gaps /\ \A gap \in gaps : Min(gaps) <= gap
  BY <1>1, MinPosition
<1>3. PICK x \in S : \A i \in S : n - x <= n - i
  BY <1>2
<1>4. \A i \in S : x >= i
  BY <1>3
<1> QED
  BY <1>3, <1>4 DEF Max

\* The frames are in the order of their times.
InTime(frames) ==
    /\ \A i \in DOMAIN frames : frames[i].serverTime \in Nat
    /\ \A i, j \in DOMAIN frames : i < j => frames[i].serverTime < frames[j].serverTime

\* The two frames of a sample: positions of the buffer, the older one first.
LEMMA SampleOrdered ==
    ASSUME NEW S, NEW frames \in Seq(S), frames # << >>, InTime(frames), NEW target \in Nat,
           NEW newer, newer = Newer(frames, target), NEW older, older = Older(frames, target)
    PROVE  /\ newer \in 1..Len(frames) /\ older \in 1..newer
           /\ newer = Len(frames) \/ frames[newer].serverTime >= target
           /\ \A i \in 1..newer - 1 : frames[i].serverTime < target
           /\ older = 1 \/ frames[older].serverTime <= target
           /\ \A i \in 1..newer : frames[i].serverTime <= target => i <= older
<1> DEFINE n == Len(frames)
           late == {i \in DOMAIN frames : frames[i].serverTime >= target} \cup {n}
           early == {i \in 1..newer : frames[i].serverTime <= target} \cup {1}
<1>1. n \in Nat /\ n >= 1 /\ DOMAIN frames = 1..n
  OBVIOUS
<1>2. newer = Min(late) /\ older = Max(early)
  BY DEF Newer, Older
<1>3. late \subseteq 1..n /\ late # {}
  BY <1>1
<1>4. newer \in late /\ \A i \in late : newer <= i
  <2>1. late \subseteq Nat
    BY <1>1, <1>3
  <2> HIDE DEF late
  <2> QED
    BY <1>2, <1>3, <2>1, MinPosition
<1>5. newer \in 1..n /\ (newer = n \/ frames[newer].serverTime >= target)
  BY <1>3, <1>4
<1>6. \A i \in 1..newer - 1 : frames[i].serverTime < target
  <2> SUFFICES ASSUME NEW i \in 1..newer - 1, ~ (frames[i].serverTime < target) PROVE FALSE
    OBVIOUS
  <2> HIDE DEF n
  <2>1. i \in 1..n /\ i < newer
    BY <1>1, <1>5
  <2>2. frames[i].serverTime >= target
    BY <1>1, <2>1 DEF InTime
  <2> QED
    BY <1>1, <1>4, <2>1, <2>2
<1>7. early \subseteq 1..newer /\ early # {} /\ newer \in Nat
  <2> HIDE DEF n
  <2> QED
    BY <1>1, <1>5
<1>8. older \in early /\ \A i \in early : i <= older
  <2> HIDE DEF early, late, n
  <2> QED
    BY <1>2, <1>7, MaxPosition
<1> QED
  BY <1>5, <1>6, <1>7, <1>8

\* ... enclose the time, and nothing is between them.
LEMMA SampleEncloses ==
    ASSUME NEW S, NEW frames \in Seq(S), frames # << >>, InTime(frames), NEW target \in Nat
    PROVE  LET older == frames[Older(frames, target)].serverTime
               newer == frames[Newer(frames, target)].serverTime
               times == {frames[i].serverTime : i \in DOMAIN frames} IN
           /\ older <= newer
           /\ \A time \in times : ~(older < time /\ time < newer)
           /\ target \in Min(times)..Max(times) => older <= target /\ target <= newer
<1> DEFINE n == Len(frames)
           times == {frames[i].serverTime : i \in DOMAIN frames}
           newer == Newer(frames, target)
           older == Older(frames, target)
<1>1. /\ newer \in 1..n /\ older \in 1..newer
      /\ newer = n \/ frames[newer].serverTime >= target
      /\ \A i \in 1..newer - 1 : frames[i].serverTime < target
      /\ older = 1 \/ frames[older].serverTime <= target
      /\ \A i \in 1..newer : frames[i].serverTime <= target => i <= older
  BY SampleOrdered
<1> HIDE DEF newer, older
<1>2. n \in Nat /\ n >= 1 /\ DOMAIN frames = 1..n
  OBVIOUS
<1> HIDE DEF n
<1>3. older \in 1..n /\ 1 \in 1..n /\ n \in 1..n
  BY <1>1, <1>2
<1>4. \A i \in 1..n : frames[i].serverTime \in Nat
  BY <1>2 DEF InTime
<1>5. \A i, j \in 1..n : i <= j => frames[i].serverTime <= frames[j].serverTime
  <2> SUFFICES ASSUME NEW i \in 1..n, NEW j \in 1..n, i <= j
               PROVE  frames[i].serverTime <= frames[j].serverTime
    OBVIOUS
  <2>1. CASE i = j
    BY <1>4, <2>1
  <2>2. CASE i # j
    <3>1. i < j
      BY <1>2, <2>2
    <3>2. frames[i].serverTime < frames[j].serverTime
      BY <1>2, <3>1 DEF InTime
    <3> QED
      BY <1>4, <3>2
  <2> QED
    BY <2>1, <2>2
<1>6. frames[older].serverTime <= frames[newer].serverTime
  BY <1>1, <1>2, <1>3, <1>5
<1>7. ASSUME NEW i \in 1..n, frames[older].serverTime < frames[i].serverTime,
             frames[i].serverTime < frames[newer].serverTime
      PROVE  FALSE
  <2>1. ~ (i <= older)
    BY <1>3, <1>4, <1>5, <1>7
  <2>2. ~ (newer <= i)
    BY <1>1, <1>4, <1>5, <1>7
  <2>3. i \in 1..newer - 1 /\ i \in 1..newer
    BY <1>1, <1>2, <2>2
  <2>4. frames[i].serverTime <= target
    BY <1>1, <1>4, <2>3
  <2> QED
    BY <1>1, <2>1, <2>3, <2>4
<1>8. ASSUME target \in Min(times)..Max(times)
      PROVE  frames[older].serverTime <= target /\ target <= frames[newer].serverTime
  <2>1. times \subseteq Nat /\ times # {}
    BY <1>2, <1>4
  <2>2. PICK i \in 1..n : Min(times) = frames[i].serverTime
    <3>1. Min(times) \in times
      <4> HIDE DEF times
      <4> QED
        BY <2>1, MinPosition
    <3> QED
      BY <1>2, <3>1
  <2>3. PICK j \in 1..n : Max(times) = frames[j].serverTime
    <3>1. frames[n].serverTime \in times /\ \A time \in times : frames[n].serverTime >= time
      BY <1>2, <1>3, <1>4, <1>5
    <3>2. Max(times) \in times
      BY <3>1 DEF Max
    <3> QED
      BY <1>2, <3>2
  <2>4. frames[i].serverTime <= target /\ target <= frames[j].serverTime
    BY <1>4, <1>8, <2>2, <2>3
  <2>5. frames[1].serverTime <= target
    <3>1. frames[1].serverTime <= frames[i].serverTime
      BY <1>2, <1>3, <1>5
    <3> QED
      BY <1>3, <1>4, <2>4, <3>1
  <2>6. target <= frames[n].serverTime
    <3>1. frames[j].serverTime <= frames[n].serverTime
      BY <1>2, <1>3, <1>5
    <3> QED
      BY <1>3, <1>4, <2>4, <3>1
  <2> QED
    BY <1>1, <1>4, <2>5, <2>6
<1> QED
  BY <1>2, <1>6, <1>7, <1>8 DEF newer, older

\* A sample is made of the two frames of the buffer around its time.
THEOREM SamplesCorrect == StreamSpec => []SampleBracketed
<1>1. ASSUME IInv PROVE SampleBracketed
  <2> SUFFICES ASSUME NEW c \in Clients, NEW renderTime \in RenderTimes, buffers[c] # << >>
               PROVE  LET target == Target(renderTime)
                          older == buffers[c][Older(buffers[c], target)].serverTime
                          newer == buffers[c][Newer(buffers[c], target)].serverTime
                          times == {buffers[c][i].serverTime : i \in DOMAIN buffers[c]} IN
                      /\ older <= newer
                      /\ \A time \in times : ~(older < time /\ time < newer)
                      /\ target \in Min(times)..Max(times) => older <= target /\ target <= newer
    BY DEF SampleBracketed
  <2>1. Target(renderTime) \in Nat
    BY BufferAssumption, StreamAssumption DEF Target, RenderTimes
  <2>2. /\ buffers[c] \in Seq(received[c]) /\ Sorted(buffers[c])
        /\ \A f \in received[c] : f.sequence \in Nat /\ f.serverTime = f.sequence
    BY <1>1 DEF IInv, BufferFits, ChannelFits
  <2>3. \A i \in DOMAIN buffers[c] : buffers[c][i] \in received[c]
    BY <2>2
  <2>4. InTime(buffers[c])
    BY <2>2, <2>3 DEF InTime, Sorted
  <2> QED
    BY <2>1, <2>2, <2>4, SampleEncloses
<1> QED
  BY <1>1, Invariance, PTL

------------------------------------------------------------------------------
(* Full resends. *)

\* The full resends an entity is still due after this many frames that show it.
Left(frames) == IF FullSyncRepeatCount > frames THEN FullSyncRepeatCount - frames ELSE 0

\* The frames of one entity's full resend.
InResend(c, e, frame) == frame.sequence \in since[c][e]..since[c][e] + FullSyncRepeatCount - 1

\* What one client's frames say of an entity in its view: it has not been removed
\* since it appeared, and every frame of its full resend carries all it has.
Shown(c, e) ==
    /\ since[c][e] \in Nat /\ since[c][e] < nextSequence[c]
    /\ repeats[c][e] = Left(nextSequence[c] - since[c][e])
    /\ \A f \in inflight[c] \cup received[c] :
        /\ e \in f.removed => f.sequence < since[c][e]
        /\ InResend(c, e, f) => \A k \in Components : f.value[e][k] # 0 => k \in f.mask[e]

SyncTypes ==
    /\ registry \subseteq Entities
    /\ \A c \in Clients : lastVisible[c] \subseteq Entities
    /\ since = [c \in Clients |-> [e \in Entities |-> since[c][e]]]
    /\ repeats = [c \in Clients |-> [e \in Entities |-> repeats[c][e]]]

\* The inductive invariant, beside the other one.
SyncInv ==
    /\ SyncTypes
    /\ \A c \in Clients : \A e \in lastVisible[c] : Shown(c, e)

\* No entity is in view at first.
LEMMA InitSync == StreamInit => SyncInv
BY DEF StreamInit, Init, SyncInv, SyncTypes

\* Frames that come and go, and what happens to entities, change nothing of it.
LEMMA QuietSync ==
    ASSUME IInv, SyncInv,
           UNCHANGED <<nextSequence, repeats, lastVisible, since>>, registry' \subseteq Entities,
           \A c \in Clients :
              inflight'[c] \cup received'[c] \subseteq inflight[c] \cup received[c]
    PROVE  SyncInv'
<1>1. SyncTypes'
  BY DEF SyncInv, SyncTypes
<1>2. ASSUME NEW c \in Clients, NEW e \in lastVisible'[c] PROVE Shown(c, e)'
  <2>1. Shown(c, e)
    BY DEF SyncInv
  <2> QED
    BY <2>1 DEF Shown, InResend
<1> QED
  BY <1>1, <1>2 DEF SyncInv

\* A tick: what appears starts its full resend, what stays goes on with it.
LEMMA SendSync ==
    ASSUME IInv, SyncInv, SendFrames
    PROVE  SyncInv'
<1>1. PICK visible \in Views :
      LET time == Max({nextSequence[b] : b \in Clients}) IN
      /\ BuildFrames(visible, time)
      /\ inflight' = [c \in Clients |-> inflight[c] \cup
            {Frame(d, visible[d], time) : d \in Listeners \cap {c}}]
      /\ since' = [c \in Clients |-> [e \in Entities |->
            IF e \in visible[c] /\ FirstVisible(c, e) THEN nextSequence[c] ELSE since[c][e]]]
      /\ UNCHANGED <<received, buffers>>
  BY DEF SendFrames
<1> DEFINE new(c) == Frame(c, visible[c], Max({nextSequence[b] : b \in Clients}))
<1>2. /\ nextSequence' = [c \in Clients |-> nextSequence[c] + 1]
      /\ repeats' = [c \in Clients |-> [e \in Entities |-> Repeated(c, e, visible[c])]]
      /\ lastVisible' = visible /\ registry' = registry
      /\ received' = received
  BY <1>1 DEF BuildFrames
<1>3. \A c \in Clients : inflight'[c] \subseteq inflight[c] \cup {new(c)}
  BY <1>1
<1>4. \A c \in Clients : visible[c] \subseteq Entities
  BY DEF Views, SyncInv, SyncTypes
<1>5. SyncTypes'
  BY <1>1, <1>2, <1>4 DEF SyncInv, SyncTypes
<1>6. ASSUME NEW c \in Clients, NEW e \in lastVisible'[c] PROVE Shown(c, e)'
  <2>1. e \in visible[c] /\ e \in Entities
    BY <1>2, <1>4
  <2>2. /\ new(c).sequence = nextSequence[c]
        /\ e \notin new(c).removed
        /\ new(c).mask[e] = Mask(c, e) /\ new(c).value[e] = value[e]
    BY <2>1 DEF Frame, Removed
  <2> HIDE DEF new
  <2>3. nextSequence[c] \in Nat /\ nextSequence'[c] = nextSequence[c] + 1
    BY <1>2 DEF IInv, ChannelFits
  <2>4. repeats'[c][e] = Repeated(c, e, visible[c])
    BY <1>2, <2>1
  <2>5. \A f \in inflight[c] \cup received[c] : f.sequence \in Nat /\ f.sequence < nextSequence[c]
    BY DEF IInv, ChannelFits
  <2>6. FullSyncRepeatCount \in Nat
    BY SnapshotAssumption
  <2>7. CASE FirstVisible(c, e)
    <3>1. since'[c][e] = nextSequence[c]
      BY <1>1, <2>1, <2>7
    <3>2. repeats'[c][e] = Left(nextSequence'[c] - since'[c][e])
      <4>1. nextSequence'[c] - since'[c][e] = 1
        BY <2>3, <3>1
      <4>2. repeats'[c][e] = IF FullSyncRepeatCount > 0 THEN FullSyncRepeatCount - 1 ELSE 0
        BY <2>1, <2>4, <2>6, <2>7 DEF Repeated
      <4> QED
        BY <2>6, <4>1, <4>2 DEF Left
    <3>3. ASSUME NEW f \in inflight'[c] \cup received'[c]
          PROVE  /\ e \in f.removed => f.sequence < since'[c][e]
                 /\ InResend(c, e, f)' => \A k \in Components : f.value[e][k] # 0 => k \in f.mask[e]
      <4>1. CASE f = new(c)
        BY <2>2, <2>7, <4>1 DEF Mask, componentMask
      <4>2. CASE f \in inflight[c] \cup received[c]
        <5>1. ~ InResend(c, e, f)'
          BY <2>3, <2>5, <2>6, <3>1, <4>2 DEF InResend
        <5> QED
          BY <2>5, <3>1, <4>2, <5>1
      <4> QED
        BY <1>2, <1>3, <4>1, <4>2
    <3> QED
      BY <2>3, <3>1, <3>2, <3>3 DEF Shown
  <2>8. CASE ~ FirstVisible(c, e)
    <3>1. since'[c][e] = since[c][e]
      BY <1>1, <2>1, <2>8
    <3>2. Shown(c, e)
      BY <2>8 DEF SyncInv, FirstVisible
    <3>3. since[c][e] \in Nat /\ since[c][e] < nextSequence[c]
      BY <3>2 DEF Shown
    <3>4. repeats[c][e] = Left(nextSequence[c] - since[c][e])
      BY <3>2 DEF Shown
    <3>5. repeats'[c][e] = Left(nextSequence'[c] - since'[c][e])
      <4> DEFINE m == nextSequence[c] - since[c][e]
      <4>1. m \in Nat /\ nextSequence'[c] - since'[c][e] = m + 1
        BY <2>3, <3>1, <3>3
      <4> HIDE DEF m
      <4>2. Left(m) \in Nat /\ Left(m + 1) = IF Left(m) > 0 THEN Left(m) - 1 ELSE 0
        BY <2>6, <4>1 DEF Left
      <4>3. repeats'[c][e] = IF Left(m) > 0 THEN Left(m) - 1 ELSE 0
        <5>1. repeats[c][e] = Left(m)
          BY <3>4 DEF m
        <5> QED
          BY <2>1, <2>4, <2>8, <4>2, <5>1 DEF Repeated
      <4> QED
        BY <4>1, <4>2, <4>3
    <3>6. ASSUME NEW f \in inflight'[c] \cup received'[c]
          PROVE  /\ e \in f.removed => f.sequence < since'[c][e]
                 /\ InResend(c, e, f)' => \A k \in Components : f.value[e][k] # 0 => k \in f.mask[e]
      <4>1. CASE f = new(c)
        <5>1. InResend(c, e, f)' => repeats[c][e] > 0
          BY <2>2, <2>3, <2>6, <3>1, <3>3, <3>4, <4>1 DEF InResend, Left
        <5> QED
          BY <2>2, <4>1, <5>1 DEF Mask, componentMask
      <4>2. CASE f \in inflight[c] \cup received[c]
        BY <3>1, <3>2, <4>2 DEF Shown, InResend
      <4> QED
        BY <1>2, <1>3, <4>1, <4>2
    <3>7. since'[c][e] \in Nat /\ since'[c][e] < nextSequence'[c]
      BY <2>3, <3>1, <3>3
    <3> QED
      BY <3>5, <3>6, <3>7 DEF Shown
  <2> QED
    BY <2>7, <2>8
<1> QED
  BY <1>5, <1>6 DEF SyncInv

\* Every step keeps it.
LEMMA NextSync == IInv /\ SyncInv /\ [StreamNext]_streamVars => SyncInv'
<1> SUFFICES ASSUME IInv, SyncInv, [StreamNext]_streamVars PROVE SyncInv'
  OBVIOUS
<1>1. registry \subseteq Entities
  BY DEF SyncInv, SyncTypes
<1>2. CASE World
  <2>1. UNCHANGED <<nextSequence, repeats, lastVisible, since, inflight, received>>
    BY <1>2 DEF World, create, destroy, Change, builderVars
  <2>2. registry' \subseteq Entities
    BY <1>1, <1>2 DEF World, create, destroy, Change
  <2> QED
    BY <2>1, <2>2, QuietSync
<1>3. CASE SendFrames
  BY <1>3, SendSync
<1>4. ASSUME NEW c \in Clients, Lose(c) \/ Receive(c) PROVE SyncInv'
  <2>1. UNCHANGED <<nextSequence, repeats, lastVisible, since, registry>>
    BY <1>4 DEF Lose, Receive, vars, builderVars, entityVars
  <2>2. ASSUME NEW d \in Clients
        PROVE  inflight'[d] \cup received'[d] \subseteq inflight[d] \cup received[d]
    BY <1>4 DEF Lose, Receive, IInv
  <2> QED
    BY <1>1, <2>1, <2>2, QuietSync
<1>5. CASE UNCHANGED streamVars
  <2>1. UNCHANGED <<nextSequence, repeats, lastVisible, since, inflight, received, registry>>
    BY <1>5 DEF streamVars, vars, builderVars, entityVars
  <2> QED
    BY <1>1, <2>1, QuietSync
<1> QED
  BY <1>2, <1>3, <1>4, <1>5 DEF StreamNext

\* One frame of an entity's full resend is enough, whatever else is lost, late or
\* out of order: the client knows all the components the entity appeared with.
THEOREM SyncCorrect == StreamSpec => []GuaranteedSync
<1>1. ASSUME IInv, SyncInv PROVE GuaranteedSync
  <2> SUFFICES ASSUME NEW c \in Clients, NEW e \in lastVisible[c], NEW frame \in received[c],
                      InResend(c, e, frame), NEW k \in Components, frame.value[e][k] # 0
               PROVE  k \in Known(received[c], e)
    BY DEF GuaranteedSync, InResend
  <2>1. Shown(c, e)
    BY <1>1 DEF SyncInv
  <2>2. k \in frame.mask[e]
    BY <2>1 DEF Shown
  <2>3. \A g \in received[c] : e \in g.removed => g.sequence < since[c][e]
    BY <2>1 DEF Shown
  <2>4. /\ \A g \in received[c] : g.sequence \in Nat
        /\ since[c][e] \in Nat /\ since[c][e] <= frame.sequence
    BY <1>1, <2>1, SnapshotAssumption DEF IInv, ChannelFits, Shown, InResend
  <2>5. \A g \in received[c] : e \in g.removed => g.sequence < frame.sequence
    BY <2>3, <2>4
  <2> QED
    BY <2>2, <2>5 DEF Known
<1> QED
  BY <1>1, InitSync, Initially, NextSync, Inductive, PTL DEF StreamSpec
==============================================================================
