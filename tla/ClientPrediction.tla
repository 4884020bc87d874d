--------------------------- MODULE ClientPrediction ---------------------------
(***************************************************************************)
(* ClientPrediction: the state a client shows, and the commands it has     *)
(* predicted that no correction has covered yet.  Checksums of corrections *)
(* hold on the reliable channel; a forged one is refused without effect.   *)
(***************************************************************************)
EXTENDS InputCommand

CONSTANTS Clients

VARIABLES
    predicted,    \* predictedState_
    history       \* history_: the pending commands, each with its time step

\* Deviation: the commands of the life before stay.
reset_KeepsHistory(c, state) ==
    /\ predicted' = [predicted EXCEPT ![c] = state]
    /\ UNCHANGED history

reset(c, state) ==
    /\ predicted' = [predicted EXCEPT ![c] = state]
    /\ history' = [history EXCEPT ![c] = << >>]

predict(c, command, dt) ==
    /\ predicted' = [predicted EXCEPT ![c] = simulatePlayerState(@, command, dt)]
    /\ history' = [history EXCEPT ![c] = Append(@, [command |-> command, dt |-> dt])]

\* Deviation: the newest covered command stays.
Uncovered_KeepsLast(pending, last) ==
    FromFirst(pending, {i \in DOMAIN pending : pending[i].command.sequence >= last})

Uncovered(pending, last) ==
    FromFirst(pending, {i \in DOMAIN pending : pending[i].command.sequence > last})

Replayed(state, pending) ==
    LET after[n \in 0..Len(pending)] ==
            IF n = 0 THEN state
            ELSE simulatePlayerState(after[n - 1], pending[n].command, pending[n].dt)
    IN after[Len(pending)]

reconcile(c, correction) ==
    LET pending == Uncovered(history[c], correction.lastProcessedSequence) IN
    /\ history' = [history EXCEPT ![c] = pending]
    /\ predicted' = [predicted EXCEPT ![c] = Replayed(correction.state, pending)]
==============================================================================
