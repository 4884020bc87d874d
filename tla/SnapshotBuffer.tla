---------------------------- MODULE SnapshotBuffer ----------------------------
(***************************************************************************)
(* SnapshotBuffer: the frames a client holds, and the two of them a sample *)
(* for a render time is made of.  A frame is used by its sequence, its     *)
(* time and the components it carries of each entity.                      *)
(***************************************************************************)
EXTENDS Integers, Sequences, FiniteSetsExt

CONSTANTS
    Capacity,             \* SnapshotBuffer::capacity_, at least 2
    InterpolationDelay,   \* SnapshotInterpolationConfig::interpolationDelayMs
    MaxExtrapolation      \* SnapshotInterpolationConfig::maxExtrapolationMs

ASSUME BufferAssumption ==
    Capacity \in Nat /\ Capacity >= 2 /\ InterpolationDelay \in Nat /\ MaxExtrapolation \in Nat

\* Deviation: a late frame goes to the front.
Insertion_Front(frames, frame) == 1

\* Where a late frame goes: before the first frame with a greater sequence.
Insertion(frames, frame) ==
    Min({i \in DOMAIN frames : frame.sequence < frames[i].sequence})

Late(frames, frame) == frames # << >> /\ frame.sequence <= frames[Len(frames)].sequence

Duplicate(frames, frame) == frames # << >> /\ frame.sequence = frames[Len(frames)].sequence

InsertedAt(frames, i, frame) ==
    SubSeq(frames, 1, i - 1) \o <<frame>> \o SubSeq(frames, i, Len(frames))

\* Deviation: the ring drops its newest frames.
Trimmed_DropsNewest(frames) == SubSeq(frames, 1, Min({Capacity, Len(frames)}))

\* The newest Capacity frames.
Trimmed(frames) == SubSeq(frames, Max({1, Len(frames) - Capacity + 1}), Len(frames))

\* Only a frame that is the newest makes room for itself.
push(frames, frame) ==
    CASE ~Late(frames, frame) -> Trimmed(Append(frames, frame))
      [] Duplicate(frames, frame) -> frames
      [] OTHER -> InsertedAt(frames, Insertion(frames, frame), frame)

------------------------------------------------------------------------------
Target(renderTime) ==
    IF renderTime > InterpolationDelay THEN renderTime - InterpolationDelay ELSE 0

\* The first frame not before the target, or the last one.
Newer(frames, target) ==
    Min({i \in DOMAIN frames : frames[i].serverTime >= target} \cup {Len(frames)})

\* Deviation: the frame before it may be any that is early enough.
Older_First(frames, target) == 1

\* The last frame up to there that is not after the target, or the first one.
Older(frames, target) ==
    Max({i \in 1..Newer(frames, target) : frames[i].serverTime <= target} \cup {1})

==============================================================================
