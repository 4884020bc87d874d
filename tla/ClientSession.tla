---------------------------- MODULE ClientSession ----------------------------
(***************************************************************************)
(* ClientTransportSession: the client's side of a session, one record per  *)
(* client.  Every pump() first opens the next connection when a retry is   *)
(* due, then handles at most one transport event; each Pump... action is   *)
(* one such event, and `opened` is what transport_.connect returns if the  *)
(* retry is due (it is ignored otherwise).                                 *)
(*                                                                         *)
(* The retry time is kept as the ticks left until reconnectAt_.            *)
(***************************************************************************)
EXTENDS Handshake, FiniteSets

CONSTANTS
    Clients,
    Connections,
    NoConnection,   \* InvalidConnectionId
    MaxAttempts,    \* ReconnectPolicy::maxAttempts
    InitialDelay,   \* ReconnectPolicy::initialDelay, in clock ticks
    MaxDelay,       \* ReconnectPolicy::maxDelay
    Multiplier      \* ReconnectPolicy::backoffMultiplier

ASSUME ClientAssumption ==
    /\ NoConnection \notin Connections
    /\ MaxAttempts \in Nat
    /\ InitialDelay \in Nat
    /\ MaxDelay \in Nat /\ InitialDelay <= MaxDelay
    /\ Multiplier \in Nat \ {0}

VARIABLE session

\* The empty pendingDisconnectNotice_, and the accept_ of no session.
NoNotice == "NoNotice"
NoClientId == 0

SessionState == {"Idle", "ConnectingTransport", "WaitingHandshake", "Connected",
                 "Reconnecting", "Closed", "Failed"}

ClientRecord == [state : SessionState,
                 connection : Connections \cup {NoConnection},
                 nonce : Nat,                  \* config_.handshake.requestedSessionNonce
                 clientId : Nat,               \* accept_.assignedClientId
                 attempt : 0..MaxAttempts,     \* reconnectAttempt_
                 retryIn : 0..MaxDelay,
                 notice : DisconnectReason \cup {NoNotice}]

Init ==
    session = [c \in Clients |->
        [state |-> "Idle", connection |-> NoConnection, nonce |-> NoNonce,
         clientId |-> NoClientId, attempt |-> 0, retryIn |-> 0, notice |-> NoNotice]]

------------------------------------------------------------------------------
shouldReconnect(reason) == reason \in {"Timeout", "TransportError", "RemoteClosed"}

\* computeReconnectDelay: geometric growth, clamped to InitialDelay..MaxDelay.
computeReconnectDelay(attempt) ==
    LET raw == InitialDelay * Multiplier ^ (attempt - 1)
    IN IF raw > MaxDelay THEN MaxDelay ELSE raw

RetryDue(c) == session[c].state = "Reconnecting" /\ session[c].retryIn = 0

\* The record after the retry, if any, at the start of pump().
Reopened(c, opened) ==
    IF ~RetryDue(c) THEN session[c]
    ELSE [session[c] EXCEPT
             !.connection = opened,
             !.state = IF opened = NoConnection THEN "Failed" ELSE "ConnectingTransport"]

\* An event of a connection that is not the current one is dropped.
Current(record, conn) == record.connection \in {NoConnection, conn}

Becomes(c, record) == session' = [session EXCEPT ![c] = record]

------------------------------------------------------------------------------
\* start(): a failed connect leaves the state as it was.
start(c, opened) ==
    /\ session[c].state = "Idle"
    /\ Becomes(c, [session[c] EXCEPT
           !.attempt = 0, !.notice = NoNotice, !.clientId = NoClientId,
           !.connection = opened,
           !.state = IF opened = NoConnection THEN @ ELSE "ConnectingTransport"])

\* No event, an event of another connection, or a user message.
PumpNothing(c, opened) == Becomes(c, Reopened(c, opened))

\* X_... is X with a mistake in it, to show which property would notice (README,
\* "Deviations"); the specification does not use them.
PumpConnected_ResetsAttempts(c, opened, conn, sent) ==
    Becomes(c, [Reopened(c, opened) EXCEPT
        !.connection = conn, !.notice = NoNotice, !.attempt = 0,
        !.state = IF sent THEN "WaitingHandshake" ELSE "Failed"])

\* The transport is up; `sent` is the outcome of sending the HandshakeRequest.
PumpConnected(c, opened, conn, sent) ==
    Becomes(c, [Reopened(c, opened) EXCEPT
        !.connection = conn, !.notice = NoNotice,
        !.state = IF sent THEN "WaitingHandshake" ELSE "Failed"])

PumpAccept_KeepsFirstId(c, opened, conn, clientId, nonce) ==
    LET record == Reopened(c, opened)
    IN /\ Current(record, conn)
       /\ Becomes(c, [record EXCEPT !.clientId = IF @ = NoClientId THEN clientId ELSE @,
                                    !.nonce = nonce, !.attempt = 0, !.state = "Connected"])

PumpAccept_ForgetsNonce(c, opened, conn, clientId, nonce) ==
    LET record == Reopened(c, opened)
    IN /\ Current(record, conn)
       /\ Becomes(c, [record EXCEPT !.clientId = clientId, !.attempt = 0, !.state = "Connected"])

PumpAccept(c, opened, conn, clientId, nonce) ==
    LET record == Reopened(c, opened)
    IN /\ Current(record, conn)
       /\ Becomes(c, [record EXCEPT !.clientId = clientId, !.nonce = nonce,
                                    !.attempt = 0, !.state = "Connected"])

PumpReject_DropsConnection(c, opened, conn) ==
    LET record == Reopened(c, opened)
    IN /\ Current(record, conn)
       /\ Becomes(c, [record EXCEPT !.state = "Failed", !.connection = NoConnection])

PumpReject(c, opened, conn) ==
    LET record == Reopened(c, opened)
    IN Current(record, conn) /\ Becomes(c, [record EXCEPT !.state = "Failed"])

PumpNotice_RetriesAtOnce(c, opened, conn, reason) ==
    LET record == Reopened(c, opened)
    IN /\ Current(record, conn)
       /\ Becomes(c, [record EXCEPT !.connection = NoConnection, !.state = "Reconnecting",
                                    !.retryIn = InitialDelay])

PumpNotice(c, opened, conn, reason) ==
    LET record == Reopened(c, opened)
    IN Current(record, conn) /\ Becomes(c, [record EXCEPT !.notice = reason])

PumpDisconnected_KeepsState(c, opened, conn, reason) ==
    LET record == Reopened(c, opened)
        lost == [record EXCEPT !.notice = NoNotice, !.connection = NoConnection]
    IN /\ Current(record, conn)
       /\ Becomes(c,
              IF shouldReconnect(reason) /\ record.attempt < MaxAttempts
              THEN [lost EXCEPT !.attempt = @ + 1, !.state = "Reconnecting",
                                !.retryIn = computeReconnectDelay(record.attempt + 1)]
              ELSE lost)

PumpDisconnected(c, opened, conn, reason) ==
    LET record == Reopened(c, opened)
        why == IF record.notice = NoNotice THEN reason ELSE record.notice
        lost == [record EXCEPT !.notice = NoNotice, !.connection = NoConnection]
    IN /\ Current(record, conn)
       /\ Becomes(c,
              IF shouldReconnect(why) /\ record.attempt < MaxAttempts
              THEN [lost EXCEPT !.attempt = @ + 1, !.state = "Reconnecting",
                                !.retryIn = computeReconnectDelay(record.attempt + 1)]
              ELSE [lost EXCEPT !.state =
                        IF why \in {"ProtocolMismatch", "AssetMismatch", "AuthFailed"}
                        THEN "Failed" ELSE "Closed"])

\* The steady clock moves one tick: retries come closer.
ClockTick ==
    session' = [c \in Clients |->
        [session[c] EXCEPT !.retryIn = IF @ = 0 THEN 0 ELSE @ - 1]]

\* The request sent when the transport is up carries the last accepted nonce.
RequestOf(c, token) ==
    [sameProtocol |-> TRUE, sameAssets |-> TRUE, authToken |-> token,
     requestedSessionNonce |-> session[c].nonce]
==============================================================================
