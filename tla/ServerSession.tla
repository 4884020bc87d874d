---------------------------- MODULE ServerSession ----------------------------
(***************************************************************************)
(* ServerTransportSession: the table of client sessions kept by the game   *)
(* server, indexed by client id, by transport connection and by session    *)
(* nonce.  One action per outcome of pump() plus the disconnect() call of  *)
(* the game.  Every pump first prunes the expired sessions, so each pump   *)
(* action starts from the pruned table.                                    *)
(*                                                                         *)
(* Time is kept as the age of each record, now - lastSeen, saturated just  *)
(* above the reconnect window: the code only ever uses that difference.    *)
(***************************************************************************)
EXTENDS Handshake, Functions, FiniteSets

CONSTANTS
    Connections,      \* transport connection ids; a transport never reuses one
    NoConnection,     \* InvalidConnectionId
    ReconnectWindow,  \* ServerSessionConfig::reconnectWindow, in clock ticks
    MaxClientId       \* bound: sessions ever created

ASSUME ServerAssumption ==
    /\ NoConnection \notin Connections
    /\ Connections \cap {"absent", "detached", "expired"} = {}
    /\ ReconnectWindow \in Nat
    /\ MaxClientId \in Nat \ {0}

VARIABLES
    sessionsByClientId,
    clientIdByConnection,
    clientIdBySessionNonce,
    nextClientId,
    nextSessionNonce,
    closed,    \* connections handed to transport_.disconnect
    inbound    \* per connection, what the transport has delivered on it so far

vars == <<sessionsByClientId, clientIdByConnection, clientIdBySessionNonce,
          nextClientId, nextSessionNonce, closed, inbound>>

SessionRecord == [authToken : Tokens, sessionNonce : Nat \ {NoNonce},
                  connection : Connections \cup {NoConnection},
                  age : 0..ReconnectWindow + 1, connected : BOOLEAN]

ClientIds == 1..MaxClientId

Init ==
    /\ sessionsByClientId = << >>
    /\ clientIdByConnection = << >>
    /\ clientIdBySessionNonce = << >>
    /\ nextClientId = 1
    /\ nextSessionNonce = 1
    /\ closed = {}
    /\ inbound = [conn \in Connections |-> "fresh"]

------------------------------------------------------------------------------
Without(f, keys) == Restrict(f, DOMAIN f \ keys)

With(f, key, value) == [x \in DOMAIN f \cup {key} |-> IF x = key THEN value ELSE f[x]]

\* The operators named X_... are X with a mistake in it: each breaks one of the
\* properties below (README, "Deviations"), none is used by the specification.
Expired_Inverted ==
    {id \in DOMAIN sessionsByClientId :
        sessionsByClientId[id].connected /\ sessionsByClientId[id].age > ReconnectWindow}

Expired_EvenAttached ==
    {id \in DOMAIN sessionsByClientId : sessionsByClientId[id].age > ReconnectWindow}

\* pruneExpiredSessions: a detached session older than the window.
Expired == {id \in DOMAIN sessionsByClientId :
               /\ ~sessionsByClientId[id].connected
               /\ sessionsByClientId[id].age > ReconnectWindow}

KeptSessions_Stamped ==
    [id \in DOMAIN sessionsByClientId \ Expired |->
        [sessionsByClientId[id] EXCEPT !.age = 0]]

KeptSessions == Without(sessionsByClientId, Expired)

KeptNonces_All == clientIdBySessionNonce

KeptNonces ==
    Without(clientIdBySessionNonce, {sessionsByClientId[id].sessionNonce : id \in Expired})

Resumable_AnyToken(request) ==
    {id \in DOMAIN KeptSessions :
        /\ request.requestedSessionNonce \in DOMAIN KeptNonces
        /\ KeptNonces[request.requestedSessionNonce] = id}

\* tryResumeSession: the session the request may continue, over the pruned table.
Resumable(request) ==
    {id \in DOMAIN KeptSessions :
        /\ request.requestedSessionNonce # NoNonce
        /\ request.requestedSessionNonce \in DOMAIN KeptNonces
        /\ KeptNonces[request.requestedSessionNonce] = id
        /\ KeptSessions[id].authToken = request.authToken
        /\ KeptSessions[id].connected \/ KeptSessions[id].age <= ReconnectWindow}

\* The live connections, other than conn, a resume of session id takes over.
Superseded(id, conn) ==
    {old \in Connections \ {conn} :
        KeptSessions[id].connected /\ KeptSessions[id].connection = old}

Attached(request, nonce, conn) ==
    [authToken |-> request.authToken, sessionNonce |-> nonce,
     connection |-> conn, age |-> 0, connected |-> TRUE]

------------------------------------------------------------------------------
(* Outcomes of pump. *)

\* No transport event, or one the session ignores: only the pruning happens.
PumpNothing ==
    /\ sessionsByClientId' = KeptSessions
    /\ clientIdBySessionNonce' = KeptNonces
    /\ UNCHANGED <<clientIdByConnection, nextClientId, nextSessionNonce, closed, inbound>>

PumpDisconnected_NoStamp(conn) ==
    /\ inbound[conn] # "gone"
    /\ conn \in DOMAIN clientIdByConnection
    /\ LET id == clientIdByConnection[conn]
       IN /\ id \in DOMAIN KeptSessions
          /\ sessionsByClientId' = [KeptSessions EXCEPT ![id] =
                 [@ EXCEPT !.connected = FALSE, !.connection = NoConnection]]
    /\ clientIdBySessionNonce' = KeptNonces
    /\ clientIdByConnection' = Without(clientIdByConnection, {conn})
    /\ inbound' = [inbound EXCEPT ![conn] = "gone"]
    /\ UNCHANGED <<nextClientId, nextSessionNonce, closed>>

\* The transport lost the connection of a session: the session is detached.
PumpDisconnected(conn) ==
    /\ inbound[conn] # "gone"
    /\ conn \in DOMAIN clientIdByConnection
    /\ LET id == clientIdByConnection[conn]
       IN /\ id \in DOMAIN KeptSessions
          /\ sessionsByClientId' = [KeptSessions EXCEPT ![id] =
                 [@ EXCEPT !.connected = FALSE, !.connection = NoConnection, !.age = 0]]
    /\ clientIdBySessionNonce' = KeptNonces
    /\ clientIdByConnection' = Without(clientIdByConnection, {conn})
    /\ inbound' = [inbound EXCEPT ![conn] = "gone"]
    /\ UNCHANGED <<nextClientId, nextSessionNonce, closed>>

\* The transport lost a connection no session is bound to: never accepted,
\* superseded, or closed by the server itself.
PumpStrayDisconnected(conn) ==
    /\ inbound[conn] # "gone"
    /\ conn \in DOMAIN clientIdByConnection =>
           clientIdByConnection[conn] \notin DOMAIN KeptSessions
    /\ sessionsByClientId' = KeptSessions
    /\ clientIdBySessionNonce' = KeptNonces
    /\ inbound' = [inbound EXCEPT ![conn] = "gone"]
    /\ UNCHANGED <<clientIdByConnection, nextClientId, nextSessionNonce, closed>>

\* A HandshakeRequest arrives.  ClientTransportSession sends exactly one per
\* connection, as the first message, when the transport reports it connected.
FirstRequest(conn) ==
    /\ inbound[conn] = "fresh"
    /\ inbound' = [inbound EXCEPT ![conn] = "asked"]

PumpReject(conn, request) ==
    /\ FirstRequest(conn)
    /\ validateHandshake(request) # Accepted
    /\ sessionsByClientId' = KeptSessions
    /\ clientIdBySessionNonce' = KeptNonces
    /\ closed' = closed \cup {conn}
    /\ UNCHANGED <<clientIdByConnection, nextClientId, nextSessionNonce>>

PumpResume_KeepsOldBinding(conn, request) ==
    /\ FirstRequest(conn)
    /\ validateHandshake(request) = Accepted
    /\ \E id \in Resumable(request) :
          /\ sessionsByClientId' = [KeptSessions EXCEPT ![id] =
                 Attached(request, KeptSessions[id].sessionNonce, conn)]
          /\ clientIdByConnection' = With(clientIdByConnection, conn, id)
          /\ closed' = closed \cup Superseded(id, conn)
    /\ clientIdBySessionNonce' = KeptNonces
    /\ UNCHANGED <<nextClientId, nextSessionNonce>>

PumpResume_LeavesOldOpen(conn, request) ==
    /\ FirstRequest(conn)
    /\ validateHandshake(request) = Accepted
    /\ \E id \in Resumable(request) :
          /\ sessionsByClientId' = [KeptSessions EXCEPT ![id] =
                 Attached(request, KeptSessions[id].sessionNonce, conn)]
          /\ clientIdByConnection' = With(Without(clientIdByConnection, Superseded(id, conn)), conn, id)
          /\ closed' = closed
    /\ clientIdBySessionNonce' = KeptNonces
    /\ UNCHANGED <<nextClientId, nextSessionNonce>>

PumpResume(conn, request) ==
    /\ FirstRequest(conn)
    /\ validateHandshake(request) = Accepted
    /\ \E id \in Resumable(request) :
          /\ sessionsByClientId' = [KeptSessions EXCEPT ![id] =
                 Attached(request, KeptSessions[id].sessionNonce, conn)]
          /\ clientIdByConnection' =
                 With(Without(clientIdByConnection, Superseded(id, conn)), conn, id)
          /\ closed' = closed \cup Superseded(id, conn)
    /\ clientIdBySessionNonce' = KeptNonces
    /\ UNCHANGED <<nextClientId, nextSessionNonce>>

PumpCreate(conn, request) ==
    /\ FirstRequest(conn)
    /\ validateHandshake(request) = Accepted
    /\ Resumable(request) = {}
    /\ nextClientId <= MaxClientId
    /\ nextClientId' = nextClientId + 1
    /\ nextSessionNonce' = nextSessionNonce + 1
    /\ sessionsByClientId' =
           With(KeptSessions, nextClientId, Attached(request, nextSessionNonce, conn))
    /\ clientIdBySessionNonce' = With(KeptNonces, nextSessionNonce, nextClientId)
    /\ clientIdByConnection' = With(clientIdByConnection, conn, nextClientId)
    /\ UNCHANGED closed

\* A user message on a connection no session is bound to: the server hangs up.
\* (On a bound connection the message is handed to the game and only the
\* pruning happens, which is PumpNothing.)
PumpUnboundMessage(conn) ==
    /\ inbound[conn] = "asked"
    /\ conn \notin DOMAIN clientIdByConnection
    /\ sessionsByClientId' = KeptSessions
    /\ clientIdBySessionNonce' = KeptNonces
    /\ closed' = closed \cup {conn}
    /\ UNCHANGED <<clientIdByConnection, nextClientId, nextSessionNonce, inbound>>

\* disconnect(clientId, ...), called by the game.  lastSeen is left alone.
Disconnect(id) ==
    /\ id \in DOMAIN sessionsByClientId
    /\ LET conn == sessionsByClientId[id].connection
       IN /\ conn # NoConnection
          /\ closed' = closed \cup {conn}
          /\ clientIdByConnection' = Without(clientIdByConnection, {conn})
    /\ sessionsByClientId' = [sessionsByClientId EXCEPT ![id] =
           [@ EXCEPT !.connection = NoConnection, !.connected = FALSE]]
    /\ UNCHANGED <<clientIdBySessionNonce, nextClientId, nextSessionNonce, inbound>>

\* The steady clock moves one tick.
Tick ==
    /\ sessionsByClientId' = [id \in DOMAIN sessionsByClientId |->
           [sessionsByClientId[id] EXCEPT
               !.age = IF @ > ReconnectWindow THEN @ ELSE @ + 1]]
    /\ UNCHANGED <<clientIdByConnection, clientIdBySessionNonce,
                   nextClientId, nextSessionNonce, closed, inbound>>

------------------------------------------------------------------------------
\* A client asks to resume a nonce it was once given, or none.
Requests == [sameProtocol : BOOLEAN, sameAssets : BOOLEAN, authToken : Tokens,
             requestedSessionNonce : 0..nextSessionNonce - 1]

Pump ==
    \/ PumpNothing
    \/ \E conn \in Connections :
          \/ PumpDisconnected(conn)
          \/ PumpStrayDisconnected(conn)
          \/ PumpUnboundMessage(conn)
          \/ \E request \in Requests :
                \/ PumpReject(conn, request)
                \/ PumpResume(conn, request)
                \/ PumpCreate(conn, request)

Next ==
    \/ Pump
    \/ \E id \in ClientIds : Disconnect(id)
    \/ Tick

Spec == Init /\ [][Next]_vars

------------------------------------------------------------------------------
(* Properties. *)

\* The types of the table and of its indexes.
TypeOK ==
    /\ nextClientId \in 1..MaxClientId + 1
    /\ nextSessionNonce \in Nat \ {NoNonce}
    /\ DOMAIN sessionsByClientId \subseteq 1..nextClientId - 1
    /\ sessionsByClientId \in [DOMAIN sessionsByClientId -> SessionRecord]
    /\ DOMAIN clientIdByConnection \subseteq Connections
    /\ clientIdByConnection \in [DOMAIN clientIdByConnection -> ClientIds]
    /\ DOMAIN clientIdBySessionNonce \subseteq 1..nextSessionNonce - 1
    /\ clientIdBySessionNonce \in [DOMAIN clientIdBySessionNonce -> ClientIds]
    /\ closed \subseteq Connections
    /\ inbound \in [Connections -> {"fresh", "asked", "gone"}]

\* clientIdByConnection_ and the connection fields of the records are inverse
\* to each other: a message is attributed to the session that owns the
\* connection it came in on, whatever resumes and losses came before, and a
\* connected session can be reached by exactly one connection.
DirectoryConsistent ==
    /\ \A conn \in DOMAIN clientIdByConnection :
          LET id == clientIdByConnection[conn]
          IN /\ id \in DOMAIN sessionsByClientId
             /\ sessionsByClientId[id].connected
             /\ sessionsByClientId[id].connection = conn
    /\ \A id \in DOMAIN sessionsByClientId :
          LET session == sessionsByClientId[id]
          IN IF session.connected
             THEN /\ session.connection \in DOMAIN clientIdByConnection
                  /\ clientIdByConnection[session.connection] = id
             ELSE session.connection = NoConnection

\* The nonces that can be resumed are exactly those of the live sessions: an
\* erased session leaves no nonce behind, and no live one loses its nonce.
NonceIndexConsistent ==
    /\ \A id \in DOMAIN sessionsByClientId :
          LET nonce == sessionsByClientId[id].sessionNonce
          IN /\ nonce \in DOMAIN clientIdBySessionNonce
             /\ clientIdBySessionNonce[nonce] = id
    /\ \A nonce \in DOMAIN clientIdBySessionNonce :
          LET id == clientIdBySessionNonce[nonce]
          IN /\ id \in DOMAIN sessionsByClientId
             /\ sessionsByClientId[id].sessionNonce = nonce

\* A connection whose handshake was answered and that the transport still
\* holds is either bound to a session or has been closed by the server: a
\* resume that supersedes a live connection never leaves it dangling.
NoLeakedLink ==
    \A conn \in Connections :
        inbound[conn] = "asked" => conn \in DOMAIN clientIdByConnection \cup closed

\* The server never keeps a session on a connection it has hung up.
NoSessionOnClosedLink == DOMAIN clientIdByConnection \cap closed = {}

\* The identity the client holds (client id, nonce, token) never changes while
\* the session lives, and neither an id nor a nonce is ever issued again.
IdentityKept ==
    /\ \A id \in DOMAIN sessionsByClientId \cap DOMAIN sessionsByClientId' :
          /\ sessionsByClientId'[id].sessionNonce = sessionsByClientId[id].sessionNonce
          /\ sessionsByClientId'[id].authToken = sessionsByClientId[id].authToken
    /\ \A id \in DOMAIN sessionsByClientId' \ DOMAIN sessionsByClientId :
          /\ id = nextClientId
          /\ sessionsByClientId'[id].sessionNonce = nextSessionNonce
          /\ nextClientId < nextClientId' /\ nextSessionNonce < nextSessionNonce'

IdentityStable == [][IdentityKept]_vars

------------------------------------------------------------------------------
(* The table implements SessionDirectory. *)

StatusOf(id) ==
    IF id >= nextClientId THEN "absent"
    ELSE IF id \notin DOMAIN sessionsByClientId THEN "expired"
    ELSE IF sessionsByClientId[id].connected THEN sessionsByClientId[id].connection
    ELSE "detached"

Directory == INSTANCE SessionDirectory WITH
    status <- [id \in ClientIds |-> StatusOf(id)],
    used <- {conn \in Connections : inbound[conn] # "fresh"}

\* Seen by client ids and connections only, the server's table behaves as the
\* abstract directory: ids in order and once, a connection serving one session
\* once, sessions forgotten only while detached.
ImplementsDirectory == Directory!Spec
==============================================================================
