---------------------------- MODULE InputCommand ----------------------------
(***************************************************************************)
(* The input commands and player states both hosts compute with.  A state  *)
(* is the body it was spawned with, what was applied to it and in which    *)
(* steps, and nothing of what the movement rules make of that: the rules   *)
(* are one pure function, so equal bodies and equal steps are equal states.*)
(***************************************************************************)
EXTENDS Integers, Sequences, SequencesExt

\* A command as received; fault says what the server's checks find in it.
InputCmd(sequence, timestamp, fault) ==
    [sequence |-> sequence, timestamp |-> timestamp, fault |-> fault]

\* The state a player is registered with.
PlayerState(actorId, simulationTime) ==
    [actorId |-> actorId, simulationTime |-> simulationTime,
     lastProcessedSequence |-> 0, moves |-> << >>]

simulatePlayerState(state, command, dt) ==
    [state EXCEPT !.simulationTime = @ + dt,
                  !.lastProcessedSequence = command.sequence,
                  !.moves = Append(@, <<command.sequence, dt>>)]

\* What is left of a queue that is emptied from the front up to the first of places.
FromFirst(queue, places) ==
    IF places = {} THEN << >> ELSE SubSeq(queue, Min(places), Len(queue))

PlayerCorrection(state) ==
    [state |-> state, lastProcessedSequence |-> state.lastProcessedSequence]
==============================================================================
