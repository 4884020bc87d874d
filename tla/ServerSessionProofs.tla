------------------------- MODULE ServerSessionProofs -------------------------
(***************************************************************************)
(* Proofs about ServerSession and the histories SessionHistory adds to it, *)
(* for every value of their constants.                                     *)
(***************************************************************************)
EXTENDS SessionHistory, TLAPS

\* The inductive invariant.  DirectoryConsistent alone is not inductive: a
\* connection that is already bound must not be able to hand in a second
\* request, which the last conjunct says.
Inv ==
    /\ TypeOK
    /\ DirectoryConsistent
    /\ NonceIndexConsistent
    /\ NoLeakedLink
    /\ NoSessionOnClosedLink
    /\ \A conn \in DOMAIN clientIdByConnection : inbound[conn] = "asked"
    /\ \A conn \in closed : inbound[conn] # "fresh"

------------------------------------------------------------------------------
\* What pruneExpiredSessions leaves: the records that are not expired,
\* unchanged, every attached one among them, and exactly their nonces.
LEMMA Pruning ==
    ASSUME Inv
    PROVE  /\ DOMAIN KeptSessions = DOMAIN sessionsByClientId \ Expired
           /\ \A id \in DOMAIN KeptSessions :
                 /\ id \in DOMAIN sessionsByClientId
                 /\ KeptSessions[id] = sessionsByClientId[id]
           /\ \A id \in DOMAIN sessionsByClientId :
                 sessionsByClientId[id].connected => id \in DOMAIN KeptSessions
           /\ KeptSessions \in [DOMAIN KeptSessions -> SessionRecord]
           /\ DOMAIN KeptNonces \subseteq DOMAIN clientIdBySessionNonce
           /\ KeptNonces \in [DOMAIN KeptNonces -> ClientIds]
           /\ \A nonce \in DOMAIN KeptNonces :
                 /\ KeptNonces[nonce] = clientIdBySessionNonce[nonce]
                 /\ KeptNonces[nonce] \in DOMAIN KeptSessions
                 /\ KeptSessions[KeptNonces[nonce]].sessionNonce = nonce
           /\ \A id \in DOMAIN KeptSessions :
                 /\ KeptSessions[id].sessionNonce \in DOMAIN KeptNonces
                 /\ KeptNonces[KeptSessions[id].sessionNonce] = id
<1> USE DEF Inv, TypeOK
<1>1. /\ DOMAIN KeptSessions = DOMAIN sessionsByClientId \ Expired
      /\ \A id \in DOMAIN KeptSessions :
            /\ id \in DOMAIN sessionsByClientId
            /\ KeptSessions[id] = sessionsByClientId[id]
      /\ KeptSessions \in [DOMAIN KeptSessions -> SessionRecord]
  BY DEF KeptSessions, Without, Restrict
<1>2. \A id \in DOMAIN sessionsByClientId :
          sessionsByClientId[id].connected => id \in DOMAIN KeptSessions
  BY <1>1 DEF Expired
<1> DEFINE dropped == {sessionsByClientId[id].sessionNonce : id \in Expired}
<1>3. /\ DOMAIN KeptNonces = DOMAIN clientIdBySessionNonce \ dropped
      /\ \A nonce \in DOMAIN KeptNonces : KeptNonces[nonce] = clientIdBySessionNonce[nonce]
      /\ KeptNonces \in [DOMAIN KeptNonces -> ClientIds]
  BY DEF KeptNonces, Without, Restrict
<1>4. ASSUME NEW nonce \in DOMAIN KeptNonces
      PROVE  /\ KeptNonces[nonce] \in DOMAIN KeptSessions
             /\ KeptSessions[KeptNonces[nonce]].sessionNonce = nonce
  <2>1. /\ clientIdBySessionNonce[nonce] \in DOMAIN sessionsByClientId
        /\ sessionsByClientId[clientIdBySessionNonce[nonce]].sessionNonce = nonce
    BY <1>3 DEF NonceIndexConsistent
  <2>2. clientIdBySessionNonce[nonce] \notin Expired
    BY <1>3, <2>1
  <2> QED
    BY <1>1, <1>3, <2>1, <2>2
<1>5. ASSUME NEW id \in DOMAIN KeptSessions
      PROVE  /\ KeptSessions[id].sessionNonce \in DOMAIN KeptNonces
             /\ KeptNonces[KeptSessions[id].sessionNonce] = id
  <2> DEFINE nonce == sessionsByClientId[id].sessionNonce
  <2>1. /\ nonce \in DOMAIN clientIdBySessionNonce
        /\ clientIdBySessionNonce[nonce] = id
    BY <1>1 DEF NonceIndexConsistent
  <2>2. nonce \notin dropped
    BY <1>1, <2>1 DEF NonceIndexConsistent, Expired
  <2> QED
    BY <1>1, <1>3, <2>1, <2>2
<1> QED
  BY <1>1, <1>2, <1>3, <1>4, <1>5

------------------------------------------------------------------------------
(* One lemma per action: it preserves the invariant. *)

LEMMA NothingStep == Inv /\ PumpNothing => Inv'
<1> SUFFICES ASSUME Inv, PumpNothing PROVE Inv'
  OBVIOUS
<1> USE Pruning DEF Inv, PumpNothing
<1>1. TypeOK'
  BY DEF TypeOK
<1>2. DirectoryConsistent'
  BY DEF DirectoryConsistent
<1>3. NonceIndexConsistent'
  BY DEF NonceIndexConsistent
<1> QED
  BY <1>1, <1>2, <1>3 DEF NoLeakedLink, NoSessionOnClosedLink

LEMMA DisconnectedStep ==
    ASSUME NEW conn \in Connections
    PROVE  Inv /\ PumpDisconnected(conn) => Inv'
<1> SUFFICES ASSUME Inv, PumpDisconnected(conn) PROVE Inv'
  OBVIOUS
<1> DEFINE id == clientIdByConnection[conn]
<1> USE Pruning DEF Inv
<1>1. /\ id \in DOMAIN KeptSessions
      /\ sessionsByClientId' = [KeptSessions EXCEPT ![id] =
             [@ EXCEPT !.connected = FALSE, !.connection = NoConnection, !.age = 0]]
      /\ clientIdBySessionNonce' = KeptNonces
      /\ inbound' = [inbound EXCEPT ![conn] = "gone"]
      /\ conn \in DOMAIN clientIdByConnection
      /\ UNCHANGED <<nextClientId, nextSessionNonce, closed>>
  BY DEF PumpDisconnected
<1>2. /\ DOMAIN clientIdByConnection' = DOMAIN clientIdByConnection \ {conn}
      /\ \A c \in DOMAIN clientIdByConnection' :
            clientIdByConnection'[c] = clientIdByConnection[c]
      /\ clientIdByConnection' \in [DOMAIN clientIdByConnection' -> ClientIds]
  BY DEF PumpDisconnected, Without, Restrict, TypeOK
<1>3. TypeOK'
  <2>1. KeptSessions[id] \in SessionRecord
    BY <1>1
  <2>2. \A record \in SessionRecord :
            [record EXCEPT !.connected = FALSE, !.connection = NoConnection, !.age = 0]
                \in SessionRecord
    <3>1. 0 \in 0..ReconnectWindow + 1
      BY ServerAssumption
    <3> HIDE DEF Inv
    <3> QED
      BY ONLY <3>1 DEF SessionRecord
  <2>3. sessionsByClientId' \in [DOMAIN KeptSessions -> SessionRecord]
    BY <1>1, <2>1, <2>2
  <2>4. DOMAIN KeptSessions \subseteq 1..nextClientId - 1
    BY DEF TypeOK
  <2> QED
    BY <1>1, <1>2, <2>3, <2>4 DEF TypeOK
<1>4. DirectoryConsistent'
  BY <1>1, <1>2 DEF TypeOK, SessionRecord, DirectoryConsistent
<1>5. NonceIndexConsistent'
  BY <1>1 DEF TypeOK, SessionRecord, NonceIndexConsistent
<1> QED
  BY <1>1, <1>2, <1>3, <1>4, <1>5 DEF TypeOK, NoLeakedLink, NoSessionOnClosedLink

LEMMA StrayDisconnectedStep ==
    ASSUME NEW conn \in Connections
    PROVE  Inv /\ PumpStrayDisconnected(conn) => Inv'
<1> SUFFICES ASSUME Inv, PumpStrayDisconnected(conn) PROVE Inv'
  OBVIOUS
<1> USE Pruning DEF Inv, PumpStrayDisconnected
<1>1. conn \notin DOMAIN clientIdByConnection
  BY DEF DirectoryConsistent
<1>2. TypeOK'
  BY DEF TypeOK
<1>3. DirectoryConsistent'
  BY DEF DirectoryConsistent
<1>4. NonceIndexConsistent'
  BY DEF NonceIndexConsistent
<1> QED
  BY <1>1, <1>2, <1>3, <1>4 DEF TypeOK, NoLeakedLink, NoSessionOnClosedLink

LEMMA RejectStep ==
    ASSUME NEW conn \in Connections, NEW request
    PROVE  Inv /\ PumpReject(conn, request) => Inv'
<1> SUFFICES ASSUME Inv, PumpReject(conn, request) PROVE Inv'
  OBVIOUS
<1> USE Pruning DEF Inv, PumpReject, FirstRequest
<1>1. TypeOK'
  BY DEF TypeOK
<1>2. DirectoryConsistent'
  BY DEF DirectoryConsistent
<1>3. NonceIndexConsistent'
  BY DEF NonceIndexConsistent
<1> QED
  BY <1>1, <1>2, <1>3 DEF TypeOK, NoLeakedLink, NoSessionOnClosedLink

LEMMA UnboundMessageStep ==
    ASSUME NEW conn \in Connections
    PROVE  Inv /\ PumpUnboundMessage(conn) => Inv'
<1> SUFFICES ASSUME Inv, PumpUnboundMessage(conn) PROVE Inv'
  OBVIOUS
<1> USE Pruning DEF Inv, PumpUnboundMessage
<1>1. TypeOK'
  BY DEF TypeOK
<1>2. DirectoryConsistent'
  BY DEF DirectoryConsistent
<1>3. NonceIndexConsistent'
  BY DEF NonceIndexConsistent
<1> QED
  BY <1>1, <1>2, <1>3 DEF TypeOK, NoLeakedLink, NoSessionOnClosedLink

LEMMA TickStep == Inv /\ Tick => Inv'
<1> SUFFICES ASSUME Inv, Tick PROVE Inv'
  OBVIOUS
<1> USE DEF Inv
<1>1. /\ DOMAIN sessionsByClientId' = DOMAIN sessionsByClientId
      /\ \A id \in DOMAIN sessionsByClientId :
            LET old == sessionsByClientId[id]
                new == sessionsByClientId'[id]
            IN /\ new \in SessionRecord
               /\ new.connected = old.connected /\ new.connection = old.connection
               /\ new.sessionNonce = old.sessionNonce /\ new.authToken = old.authToken
  BY ServerAssumption DEF Tick, TypeOK, SessionRecord
<1>2. TypeOK'
  BY <1>1 DEF Tick, TypeOK
<1>3. DirectoryConsistent'
  BY <1>1 DEF Tick, DirectoryConsistent
<1>4. NonceIndexConsistent'
  BY <1>1 DEF Tick, NonceIndexConsistent
<1> QED
  BY <1>2, <1>3, <1>4 DEF Tick, NoLeakedLink, NoSessionOnClosedLink

LEMMA DisconnectStep ==
    ASSUME NEW id \in ClientIds
    PROVE  Inv /\ Disconnect(id) => Inv'
<1> SUFFICES ASSUME Inv, Disconnect(id) PROVE Inv'
  OBVIOUS
<1> DEFINE conn == sessionsByClientId[id].connection
<1> USE DEF Inv
<1>1. /\ id \in DOMAIN sessionsByClientId
      /\ conn # NoConnection
      /\ closed' = closed \cup {conn}
      /\ sessionsByClientId' = [sessionsByClientId EXCEPT ![id] =
             [@ EXCEPT !.connection = NoConnection, !.connected = FALSE]]
      /\ UNCHANGED <<clientIdBySessionNonce, nextClientId, nextSessionNonce, inbound>>
  BY DEF Disconnect
<1>2. /\ conn \in DOMAIN clientIdByConnection
      /\ clientIdByConnection[conn] = id
      /\ conn \in Connections
  BY <1>1 DEF DirectoryConsistent, TypeOK
<1>3. /\ DOMAIN clientIdByConnection' = DOMAIN clientIdByConnection \ {conn}
      /\ \A c \in DOMAIN clientIdByConnection' :
            clientIdByConnection'[c] = clientIdByConnection[c]
      /\ clientIdByConnection' \in [DOMAIN clientIdByConnection' -> ClientIds]
  BY DEF Disconnect, Without, Restrict, TypeOK
<1>4. TypeOK'
  <2>1. [sessionsByClientId[id] EXCEPT !.connection = NoConnection, !.connected = FALSE]
            \in SessionRecord
    BY <1>1 DEF TypeOK, SessionRecord
  <2>2. sessionsByClientId' \in [DOMAIN sessionsByClientId -> SessionRecord]
    BY <1>1, <2>1 DEF TypeOK
  <2> QED
    BY <1>1, <1>2, <1>3, <2>2 DEF TypeOK
<1>5. DirectoryConsistent'
  BY <1>1, <1>2, <1>3 DEF TypeOK, SessionRecord, DirectoryConsistent
<1>6. NonceIndexConsistent'
  BY <1>1 DEF TypeOK, SessionRecord, NonceIndexConsistent
<1> QED
  BY <1>1, <1>2, <1>3, <1>4, <1>5, <1>6 DEF TypeOK, NoLeakedLink, NoSessionOnClosedLink

LEMMA ResumeStep ==
    ASSUME NEW conn \in Connections, NEW request \in HandshakeRequest
    PROVE  Inv /\ PumpResume(conn, request) => Inv'
<1> SUFFICES ASSUME Inv, FirstRequest(conn),
                    NEW id \in Resumable(request),
                    sessionsByClientId' = [KeptSessions EXCEPT ![id] =
                        Attached(request, KeptSessions[id].sessionNonce, conn)],
                    clientIdByConnection' =
                        With(Without(clientIdByConnection, Superseded(id, conn)), conn, id),
                    closed' = closed \cup Superseded(id, conn),
                    clientIdBySessionNonce' = KeptNonces,
                    UNCHANGED <<nextClientId, nextSessionNonce>>
             PROVE  Inv'
  BY DEF PumpResume
<1> DEFINE old == Superseded(id, conn)
<1> USE Pruning DEF Inv
<1>1. /\ id \in DOMAIN KeptSessions
      /\ KeptSessions[id] \in SessionRecord
      /\ KeptSessions[id] = sessionsByClientId[id]
      /\ id \in ClientIds
  BY ServerAssumption DEF Resumable, TypeOK, ClientIds
<1>2. /\ inbound[conn] = "fresh"
      /\ inbound' = [inbound EXCEPT ![conn] = "asked"]
      /\ conn \notin DOMAIN clientIdByConnection
      /\ conn \notin closed
  BY DEF FirstRequest
\* The superseded connections are exactly those bound to the session.
<1>3. \A c \in Connections : c \in old <=>
          c \in DOMAIN clientIdByConnection /\ clientIdByConnection[c] = id
  BY <1>1, <1>2 DEF Superseded, DirectoryConsistent
<1> HIDE DEF old
<1>4. /\ DOMAIN clientIdByConnection' = (DOMAIN clientIdByConnection \ old) \cup {conn}
      /\ clientIdByConnection'[conn] = id
      /\ \A c \in DOMAIN clientIdByConnection \ old :
            c # conn => clientIdByConnection'[c] = clientIdByConnection[c]
      /\ clientIdByConnection' \in [DOMAIN clientIdByConnection' -> ClientIds]
  <2>1. clientIdByConnection' = With(Without(clientIdByConnection, old), conn, id)
    BY DEF old
  <2>2. /\ DOMAIN Without(clientIdByConnection, old) = DOMAIN clientIdByConnection \ old
        /\ \A c \in DOMAIN clientIdByConnection \ old :
              Without(clientIdByConnection, old)[c] = clientIdByConnection[c]
    BY DEF Without, Restrict
  <2>3. \A c \in DOMAIN clientIdByConnection : clientIdByConnection[c] \in ClientIds
    BY DEF TypeOK
  <2> HIDE DEF Inv
  <2> QED
    BY ONLY <1>1, <2>1, <2>2, <2>3 DEF With
<1>5. Attached(request, KeptSessions[id].sessionNonce, conn) \in SessionRecord
  BY <1>1, ServerAssumption DEF Attached, SessionRecord, HandshakeRequest
<1>6. TypeOK'
  <2>1. sessionsByClientId' \in [DOMAIN KeptSessions -> SessionRecord]
    BY <1>1, <1>5
  <2>2. DOMAIN KeptSessions \subseteq 1..nextClientId - 1
    BY DEF TypeOK
  <2>3. closed' \subseteq Connections
    BY DEF TypeOK, Superseded
  <2>4. DOMAIN clientIdByConnection' \subseteq Connections
    BY <1>4 DEF TypeOK
  <2> QED
    BY <1>2, <1>4, <2>1, <2>2, <2>3, <2>4 DEF TypeOK
<1>7. /\ DOMAIN sessionsByClientId' = DOMAIN KeptSessions
      /\ \A other \in DOMAIN KeptSessions \ {id} :
            sessionsByClientId'[other] = KeptSessions[other]
      /\ sessionsByClientId'[id].connected
      /\ sessionsByClientId'[id].connection = conn
      /\ sessionsByClientId'[id].sessionNonce = KeptSessions[id].sessionNonce
  BY <1>1 DEF Attached
<1>8. DirectoryConsistent'
  BY <1>1, <1>2, <1>3, <1>4, <1>7 DEF DirectoryConsistent, TypeOK
<1>9. NonceIndexConsistent'
  BY <1>1, <1>7 DEF NonceIndexConsistent
<1>10. closed' = closed \cup old
  BY DEF old
<1>11. NoSessionOnClosedLink'
  BY <1>2, <1>3, <1>4, <1>10 DEF NoSessionOnClosedLink, TypeOK
<1>12. NoLeakedLink'
  BY <1>2, <1>4, <1>10 DEF NoLeakedLink, TypeOK
<1> QED
  BY <1>2, <1>3, <1>4, <1>6, <1>8, <1>9, <1>10, <1>11, <1>12 DEF TypeOK

LEMMA CreateStep ==
    ASSUME NEW conn \in Connections, NEW request \in HandshakeRequest
    PROVE  Inv /\ PumpCreate(conn, request) => Inv'
<1> SUFFICES ASSUME Inv, PumpCreate(conn, request) PROVE Inv'
  OBVIOUS
<1> DEFINE id == nextClientId
           record == Attached(request, nextSessionNonce, conn)
<1> USE Pruning DEF Inv
<1>1. /\ inbound[conn] = "fresh"
      /\ inbound' = [inbound EXCEPT ![conn] = "asked"]
      /\ conn \notin DOMAIN clientIdByConnection
      /\ conn \notin closed
      /\ closed' = closed
      /\ nextClientId' = nextClientId + 1
      /\ nextSessionNonce' = nextSessionNonce + 1
      /\ id \in ClientIds
  BY ServerAssumption DEF PumpCreate, FirstRequest, TypeOK, ClientIds
\* The next id and the next nonce are new to the table.
<1>2. /\ id \notin DOMAIN KeptSessions
      /\ nextSessionNonce \notin DOMAIN KeptNonces
  BY DEF TypeOK
<1>3. /\ DOMAIN sessionsByClientId' = DOMAIN KeptSessions \cup {id}
      /\ sessionsByClientId'[id] = record
      /\ \A other \in DOMAIN KeptSessions : sessionsByClientId'[other] = KeptSessions[other]
      /\ sessionsByClientId' = [x \in DOMAIN sessionsByClientId' |-> sessionsByClientId'[x]]
  BY <1>2 DEF PumpCreate, With
<1>4. /\ DOMAIN clientIdBySessionNonce' = DOMAIN KeptNonces \cup {nextSessionNonce}
      /\ clientIdBySessionNonce'[nextSessionNonce] = id
      /\ \A nonce \in DOMAIN KeptNonces : clientIdBySessionNonce'[nonce] = KeptNonces[nonce]
      /\ clientIdBySessionNonce' = [x \in DOMAIN clientIdBySessionNonce' |->
                                        clientIdBySessionNonce'[x]]
  BY <1>2 DEF PumpCreate, With
<1>5. /\ DOMAIN clientIdByConnection' = DOMAIN clientIdByConnection \cup {conn}
      /\ clientIdByConnection'[conn] = id
      /\ \A c \in DOMAIN clientIdByConnection :
            clientIdByConnection'[c] = clientIdByConnection[c]
      /\ clientIdByConnection' = [x \in DOMAIN clientIdByConnection' |->
                                      clientIdByConnection'[x]]
  BY <1>1 DEF PumpCreate, With
<1>6. /\ record \in SessionRecord
      /\ record.connected /\ record.connection = conn
      /\ record.sessionNonce = nextSessionNonce
  BY ServerAssumption DEF Attached, SessionRecord, HandshakeRequest, TypeOK
<1> HIDE DEF record
<1>7. TypeOK'
  <2>1. sessionsByClientId' \in [DOMAIN sessionsByClientId' -> SessionRecord]
    BY <1>3, <1>6
  <2>2. /\ nextClientId' \in 1..MaxClientId + 1
        /\ nextSessionNonce' \in Nat \ {NoNonce}
    BY <1>1, ServerAssumption DEF TypeOK, ClientIds, NoNonce
  <2>3. DOMAIN sessionsByClientId' \subseteq 1..nextClientId' - 1
    BY <1>1, <1>3, ServerAssumption DEF TypeOK
  <2>4. /\ clientIdByConnection' \in [DOMAIN clientIdByConnection' -> ClientIds]
        /\ DOMAIN clientIdByConnection' \subseteq Connections
    BY <1>1, <1>5 DEF TypeOK
  <2>5. clientIdBySessionNonce' \in [DOMAIN clientIdBySessionNonce' -> ClientIds]
    BY <1>1, <1>4
  <2>6. DOMAIN clientIdBySessionNonce' \subseteq 1..nextSessionNonce' - 1
    BY <1>1, <1>4 DEF TypeOK, NoNonce
  <2> QED
    BY <1>1, <2>1, <2>2, <2>3, <2>4, <2>5, <2>6 DEF TypeOK
<1>8. DirectoryConsistent'
  BY <1>1, <1>2, <1>3, <1>5, <1>6 DEF DirectoryConsistent
<1>9. NonceIndexConsistent'
  BY <1>2, <1>3, <1>4, <1>6 DEF NonceIndexConsistent
<1> QED
  BY <1>1, <1>5, <1>7, <1>8, <1>9 DEF TypeOK, NoLeakedLink, NoSessionOnClosedLink

------------------------------------------------------------------------------
LEMMA InitInv == Init => Inv
BY ServerAssumption
   DEF Init, Inv, TypeOK, NoNonce, DirectoryConsistent, NonceIndexConsistent, NoLeakedLink,
       NoSessionOnClosedLink

LEMMA RequestsTyped == Inv => Requests \subseteq HandshakeRequest
BY DEF Inv, TypeOK, Requests, HandshakeRequest

LEMMA NextInv == Inv /\ [Next]_vars => Inv'
<1> SUFFICES ASSUME Inv, [Next]_vars PROVE Inv'
  OBVIOUS
<1>1. CASE PumpNothing
  BY <1>1, NothingStep
<1>2. ASSUME NEW conn \in Connections,
             \/ PumpDisconnected(conn)
             \/ PumpStrayDisconnected(conn)
             \/ PumpUnboundMessage(conn)
      PROVE  Inv'
  BY <1>2, DisconnectedStep, StrayDisconnectedStep, UnboundMessageStep
<1>3. ASSUME NEW conn \in Connections, NEW request \in Requests,
             \/ PumpReject(conn, request)
             \/ PumpResume(conn, request)
             \/ PumpCreate(conn, request)
      PROVE  Inv'
  BY <1>3, RequestsTyped, RejectStep, ResumeStep, CreateStep
<1>4. ASSUME NEW id \in ClientIds, Disconnect(id)
      PROVE  Inv'
  BY <1>4, DisconnectStep
<1>5. CASE Tick
  BY <1>5, TickStep
<1>6. CASE UNCHANGED vars
  BY <1>6 DEF vars, Inv, TypeOK, DirectoryConsistent, NonceIndexConsistent, NoLeakedLink,
              NoSessionOnClosedLink
<1> QED
  BY <1>1, <1>2, <1>3, <1>4, <1>5, <1>6 DEF Next, Pump

\* The table and its indexes keep their types, for any number of connections,
\* clients and tokens and any reconnect window.
THEOREM TypeCorrect == Spec => []TypeOK
<1>1. Inv => TypeOK
  BY DEF Inv
<1> QED
  BY <1>1, InitInv, NextInv, PTL DEF Spec

\* Messages are attributed to the session that owns the connection, and each
\* attached session has exactly one connection, under every interleaving of
\* handshakes, resumes, losses, disconnects and expiry.
THEOREM DirectoryCorrect == Spec => []DirectoryConsistent
<1>1. Inv => DirectoryConsistent
  BY DEF Inv
<1> QED
  BY <1>1, InitInv, NextInv, PTL DEF Spec

\* A nonce can be resumed exactly as long as its session is in the table.
THEOREM NonceIndexCorrect == Spec => []NonceIndexConsistent
<1>1. Inv => NonceIndexConsistent
  BY DEF Inv
<1> QED
  BY <1>1, InitInv, NextInv, PTL DEF Spec

\* Every answered connection is bound or closed, and none is both.
THEOREM LinksAccounted == Spec => [](NoLeakedLink /\ NoSessionOnClosedLink)
<1>1. Inv => NoLeakedLink /\ NoSessionOnClosedLink
  BY DEF Inv
<1> QED
  BY <1>1, InitInv, NextInv, PTL DEF Spec

------------------------------------------------------------------------------
LEMMA IdentityStep == Inv /\ [Next]_vars => [IdentityKept]_vars
<1> SUFFICES ASSUME Inv, Next PROVE IdentityKept
  OBVIOUS
<1> USE Pruning DEF Inv
<1>1. ASSUME sessionsByClientId' = KeptSessions PROVE IdentityKept
  BY <1>1 DEF IdentityKept
<1>2. CASE PumpNothing
  BY <1>1, <1>2 DEF PumpNothing
<1>3. ASSUME NEW conn \in Connections, PumpDisconnected(conn) PROVE IdentityKept
  <2> DEFINE id == clientIdByConnection[conn]
  <2>1. /\ id \in DOMAIN KeptSessions
        /\ sessionsByClientId' = [KeptSessions EXCEPT ![id] =
               [@ EXCEPT !.connected = FALSE, !.connection = NoConnection, !.age = 0]]
    BY <1>3 DEF PumpDisconnected
  <2>2. KeptSessions[id] \in SessionRecord
    BY <2>1
  <2> HIDE DEF id
  <2> QED
    BY <2>1, <2>2 DEF IdentityKept, SessionRecord
<1>4. ASSUME NEW conn \in Connections,
             PumpStrayDisconnected(conn) \/ PumpUnboundMessage(conn)
      PROVE  IdentityKept
  BY <1>1, <1>4 DEF PumpStrayDisconnected, PumpUnboundMessage
<1>5. ASSUME NEW conn \in Connections, NEW request \in Requests, PumpReject(conn, request)
      PROVE  IdentityKept
  BY <1>1, <1>5 DEF PumpReject
<1>6. ASSUME NEW conn \in Connections, NEW request \in Requests, PumpResume(conn, request)
      PROVE  IdentityKept
  BY <1>6 DEF PumpResume, Resumable, Attached, IdentityKept
<1>7. ASSUME NEW conn \in Connections, NEW request \in Requests, PumpCreate(conn, request)
      PROVE  IdentityKept
  BY <1>7 DEF PumpCreate, With, Attached, IdentityKept, TypeOK
<1>8. ASSUME NEW id \in ClientIds, Disconnect(id) PROVE IdentityKept
  BY <1>8 DEF Disconnect, IdentityKept, TypeOK, SessionRecord
<1>9. CASE Tick
  BY <1>9 DEF Tick, IdentityKept, TypeOK, SessionRecord
<1> QED
  BY <1>2, <1>3, <1>4, <1>5, <1>6, <1>7, <1>8, <1>9 DEF Next, Pump

\* A session keeps its client id, nonce and token for life, and neither an id
\* nor a nonce is issued twice.
THEOREM IdentityCorrect == Spec => IdentityStable
BY InitInv, NextInv, IdentityStep, PTL DEF Spec, IdentityStable

------------------------------------------------------------------------------
(* The refinement of SessionDirectory. *)

status == [id \in ClientIds |-> StatusOf(id)]
used == {conn \in Connections : inbound[conn] # "fresh"}

\* The mapping tells the four kinds of client id apart.
LEMMA StatusCases ==
    ASSUME Inv, NEW id \in ClientIds
    PROVE  /\ status[id] = "absent" <=> id >= nextClientId
           /\ status[id] = "detached" <=>
                 id \in DOMAIN sessionsByClientId /\ ~sessionsByClientId[id].connected
           /\ status[id] \in Connections <=>
                 id \in DOMAIN sessionsByClientId /\ sessionsByClientId[id].connected
           /\ status[id] \in Connections => status[id] = sessionsByClientId[id].connection
           /\ status[id] = StatusOf(id)
<1>1. status[id] = StatusOf(id)
  BY DEF status
<1>2. id \in Nat /\ nextClientId \in Nat /\ \A i \in DOMAIN sessionsByClientId : i < nextClientId
  BY ServerAssumption DEF Inv, TypeOK, ClientIds
<1>3. id \in DOMAIN sessionsByClientId /\ sessionsByClientId[id].connected =>
          sessionsByClientId[id].connection \in Connections
  BY DEF Inv, TypeOK, DirectoryConsistent
<1> QED
  BY <1>1, <1>2, <1>3, ServerAssumption DEF StatusOf

LEMMA ExpiredDetached ==
    Inv => Expired \in SUBSET {id \in ClientIds : status[id] = "detached"}
BY StatusCases, ServerAssumption DEF Expired, Inv, TypeOK, ClientIds

\* A step whose forgotten sessions are expired ones is an abstract step.
LEMMA AbstractStep ==
    ASSUME Inv, NEW forgotten, forgotten \subseteq Expired,
           \/ Directory!Expire(forgotten)
           \/ \E id \in ClientIds : Directory!Detach(id, forgotten)
           \/ \E id \in ClientIds, conn \in Connections :
                 Directory!Admit(id, conn, forgotten) \/ Directory!Resume(id, conn, forgotten)
    PROVE  Directory!Next
<1>1. forgotten \in SUBSET {id \in ClientIds : status[id] = "detached"}
  BY ExpiredDetached
<1>2. Directory!Next <=>
        \E f \in SUBSET {id \in ClientIds : status[id] = "detached"} :
            \/ Directory!Expire(f)
            \/ \E id \in ClientIds :
                  \/ Directory!Detach(id, f)
                  \/ \E conn \in Connections :
                        Directory!Admit(id, conn, f) \/ Directory!Resume(id, conn, f)
  BY Zenon DEF Directory!Next, Directory!ClientIds, ClientIds, status
<1> QED
  BY <1>1, <1>2

\* Pruning alone is the abstract Forget.
LEMMA PruneForgets ==
    ASSUME Inv, sessionsByClientId' = KeptSessions, nextClientId' = nextClientId
    PROVE  status' = Directory!Forget(Expired)
<1>1. ASSUME NEW id \in ClientIds
      PROVE  StatusOf(id)' = IF id \in Expired THEN "expired" ELSE status[id]
  BY Pruning, StatusCases DEF StatusOf, Expired, Inv, TypeOK, ClientIds
<1> QED
  BY <1>1 DEF status, Directory!Forget, Directory!ClientIds, ClientIds

\* A step that re-attaches or detaches session id, and prunes the others.
LEMMA OneSessionChanges ==
    ASSUME Inv, NEW id \in ClientIds, NEW value, id \notin Expired,
           nextClientId' >= nextClientId,
           nextClientId' \in Nat,
           StatusOf(id)' = value,
           \A other \in ClientIds \ {id} :
               /\ other \in DOMAIN sessionsByClientId' <=> other \in DOMAIN KeptSessions
               /\ other \in DOMAIN KeptSessions =>
                      sessionsByClientId'[other] = KeptSessions[other]
               /\ other >= nextClientId <=> other >= nextClientId'
    PROVE  status' = [Directory!Forget(Expired) EXCEPT ![id] = value]
<1>1. ASSUME NEW other \in ClientIds \ {id}
      PROVE  StatusOf(other)' = IF other \in Expired THEN "expired" ELSE status[other]
  BY Pruning, StatusCases DEF StatusOf, Expired, Inv, TypeOK, ClientIds
<1> QED
  BY <1>1 DEF status, Directory!Forget, Directory!ClientIds, ClientIds

LEMMA InitRefines == Init => Directory!Init
BY ServerAssumption
   DEF Init, Directory!Init, Directory!ClientIds, ClientIds, StatusOf

\* A step that only prunes and spends at most one connection is Expire.
LEMMA PruneRefines ==
    ASSUME Inv, sessionsByClientId' = KeptSessions, nextClientId' = nextClientId,
           \/ used' = used
           \/ \E conn \in Connections : used' = used \cup {conn}
    PROVE  Directory!Next
<1> PICK forgotten : forgotten = Expired
  OBVIOUS
<1>1. Directory!Expire(forgotten)
  BY PruneForgets DEF Directory!Expire, status, used
<1> QED
  BY <1>1, AbstractStep

LEMMA SpendConnection ==
    ASSUME Inv, NEW conn \in Connections, NEW mark \in {"asked", "gone"},
           inbound' = [inbound EXCEPT ![conn] = mark]
    PROVE  used' = used \cup {conn}
BY DEF used, Inv, TypeOK

LEMMA DetachRefines ==
    ASSUME Inv, NEW conn \in Connections, PumpDisconnected(conn)
    PROVE  Directory!Next
<1> PICK forgotten : forgotten = Expired
  OBVIOUS
<1>1. PICK id \in ClientIds :
          /\ id = clientIdByConnection[conn]
          /\ id \in DOMAIN KeptSessions
          /\ sessionsByClientId' = [KeptSessions EXCEPT ![id] =
                 [@ EXCEPT !.connected = FALSE, !.connection = NoConnection, !.age = 0]]
  BY DEF PumpDisconnected, Inv, TypeOK
<1>2. /\ id \notin Expired
      /\ id \in DOMAIN sessionsByClientId
      /\ sessionsByClientId[id].connected
      /\ KeptSessions[id] \in SessionRecord
  BY <1>1, Pruning DEF PumpDisconnected, Inv, DirectoryConsistent
<1>3. /\ nextClientId' = nextClientId /\ nextClientId \in Nat
      /\ \A i \in DOMAIN KeptSessions : ~(i >= nextClientId)
  BY Pruning, ServerAssumption DEF PumpDisconnected, Inv, TypeOK
<1>4. ~sessionsByClientId'[id].connected
  BY <1>1, <1>2 DEF SessionRecord
<1>5. StatusOf(id)' = "detached"
  BY <1>1, <1>3, <1>4 DEF StatusOf
<1>6. status' = [Directory!Forget(Expired) EXCEPT ![id] = "detached"]
  BY <1>1, <1>2, <1>3, <1>5, OneSessionChanges
<1>7. used' = used
  BY DEF PumpDisconnected, used, Inv, TypeOK
<1>8. Directory!Detach(id, forgotten)
  BY <1>2, <1>6, <1>7, StatusCases DEF Directory!Detach, status, used
<1> QED
  BY <1>8, AbstractStep

LEMMA ResumeRefines ==
    ASSUME Inv, NEW conn \in Connections, NEW request, PumpResume(conn, request)
    PROVE  Directory!Next
<1> PICK forgotten : forgotten = Expired
  OBVIOUS
<1>1. PICK id \in Resumable(request) :
          sessionsByClientId' = [KeptSessions EXCEPT ![id] =
              Attached(request, KeptSessions[id].sessionNonce, conn)]
  BY DEF PumpResume
<1>2. /\ id \in DOMAIN KeptSessions
      /\ id \in DOMAIN sessionsByClientId
      /\ id \in ClientIds
      /\ id \notin Expired
  BY Pruning, ServerAssumption DEF Resumable, Inv, TypeOK, ClientIds
<1>3. nextClientId' = nextClientId /\ conn \notin used /\ used' = used \cup {conn}
  BY SpendConnection DEF PumpResume, FirstRequest, used
<1>4. StatusOf(id)' = conn
  BY <1>1, <1>2, <1>3 DEF StatusOf, Attached, Inv, TypeOK
<1>5. status' = [Directory!Forget(Expired) EXCEPT ![id] = conn]
  BY <1>1, <1>2, <1>3, <1>4, OneSessionChanges DEF Inv, TypeOK
<1>6. status[id] \in Connections \cup {"detached"}
  BY <1>2, StatusCases
<1>7. Directory!Resume(id, conn, forgotten)
  BY <1>2, <1>3, <1>5, <1>6 DEF Directory!Resume, status, used
<1> QED
  BY <1>2, <1>7, AbstractStep

LEMMA CreateRefines ==
    ASSUME Inv, NEW conn \in Connections, NEW request, PumpCreate(conn, request)
    PROVE  Directory!Next
<1> PICK forgotten : forgotten = Expired
  OBVIOUS
<1>1. PICK id \in ClientIds : id = nextClientId
  BY ServerAssumption DEF PumpCreate, Inv, TypeOK, ClientIds
<1>2. /\ nextClientId' = id + 1
      /\ id \in Nat
      /\ id \notin DOMAIN sessionsByClientId
      /\ id \notin DOMAIN KeptSessions
      /\ id \notin Expired
      /\ sessionsByClientId' = With(KeptSessions, id, Attached(request, nextSessionNonce, conn))
  BY <1>1, Pruning, ServerAssumption DEF PumpCreate, Inv, TypeOK, ClientIds, Expired
<1>3. conn \notin used /\ used' = used \cup {conn}
  BY SpendConnection DEF PumpCreate, FirstRequest, used
<1>4. /\ DOMAIN sessionsByClientId' = DOMAIN KeptSessions \cup {id}
      /\ sessionsByClientId'[id].connected
      /\ sessionsByClientId'[id].connection = conn
      /\ \A other \in DOMAIN KeptSessions : sessionsByClientId'[other] = KeptSessions[other]
  BY <1>2 DEF With, Attached
<1>5. StatusOf(id)' = conn
  BY <1>2, <1>4 DEF StatusOf
<1>6. \A other \in ClientIds \ {id} : other >= nextClientId <=> other >= nextClientId'
  BY <1>1, <1>2, ServerAssumption DEF ClientIds
<1>7. nextClientId' >= nextClientId /\ nextClientId' \in Nat
  BY <1>1, <1>2
<1>8. status' = [Directory!Forget(Expired) EXCEPT ![id] = conn]
  BY <1>2, <1>4, <1>5, <1>6, <1>7, OneSessionChanges
<1>9. status[id] = "absent"
  BY <1>1, <1>2, StatusCases
<1>10. \A lower \in 1..id - 1 : status[lower] # "absent"
  BY <1>1, StatusCases, ServerAssumption DEF ClientIds
<1>11. Directory!Admit(id, conn, forgotten)
  BY <1>3, <1>8, <1>9, <1>10 DEF Directory!Admit, status, used
<1> QED
  BY <1>11, AbstractStep

LEMMA DisconnectRefines ==
    ASSUME Inv, NEW id \in ClientIds, Disconnect(id)
    PROVE  Directory!Next
<1>1. /\ id \in DOMAIN sessionsByClientId
      /\ sessionsByClientId' = [sessionsByClientId EXCEPT ![id] =
             [@ EXCEPT !.connection = NoConnection, !.connected = FALSE]]
      /\ UNCHANGED <<nextClientId, inbound>>
      /\ sessionsByClientId[id].connection # NoConnection
  BY DEF Disconnect
<1>2. /\ sessionsByClientId[id] \in SessionRecord
      /\ sessionsByClientId[id].connected
      /\ nextClientId \in Nat
      /\ \A i \in DOMAIN sessionsByClientId : ~(i >= nextClientId)
  BY <1>1, ServerAssumption DEF Inv, TypeOK, DirectoryConsistent
<1>3. ~sessionsByClientId'[id].connected
  BY <1>1, <1>2 DEF SessionRecord
<1>4. StatusOf(id)' = "detached"
  BY <1>1, <1>2, <1>3 DEF StatusOf
<1>5. \A other \in ClientIds \ {id} : StatusOf(other)' = status[other]
  BY <1>1, StatusCases DEF StatusOf
<1>6. status' = [Directory!Forget({}) EXCEPT ![id] = "detached"]
  BY <1>4, <1>5 DEF status, Directory!Forget, Directory!ClientIds, ClientIds
<1>7. used' = used
  BY <1>1 DEF used
<1>8. Directory!Detach(id, {})
  BY <1>1, <1>2, <1>6, <1>7, StatusCases DEF Directory!Detach, status, used
<1> QED
  BY <1>8, AbstractStep

LEMMA TickRefines ==
    ASSUME Inv, Tick
    PROVE  UNCHANGED Directory!vars
<1>1. /\ DOMAIN sessionsByClientId' = DOMAIN sessionsByClientId
      /\ \A id \in DOMAIN sessionsByClientId :
            /\ sessionsByClientId'[id].connected = sessionsByClientId[id].connected
            /\ sessionsByClientId'[id].connection = sessionsByClientId[id].connection
      /\ UNCHANGED <<nextClientId, inbound>>
  BY DEF Tick, Inv, TypeOK, SessionRecord
<1>2. \A id \in ClientIds : StatusOf(id)' = StatusOf(id)
  BY <1>1 DEF StatusOf
<1>3. status' = status /\ used' = used
  BY <1>1, <1>2 DEF status, used, ClientIds
<1> QED
  BY <1>3 DEF Directory!vars, status, used

LEMMA NextRefines == Inv /\ [Next]_vars => [Directory!Next]_Directory!vars
<1> SUFFICES ASSUME Inv, [Next]_vars PROVE [Directory!Next]_Directory!vars
  OBVIOUS
<1>1. CASE PumpNothing
  BY <1>1, PruneRefines DEF PumpNothing, used
<1>2. ASSUME NEW conn \in Connections, PumpStrayDisconnected(conn)
      PROVE  Directory!Next
  BY <1>2, PruneRefines, SpendConnection DEF PumpStrayDisconnected
<1>3. ASSUME NEW conn \in Connections, PumpUnboundMessage(conn)
      PROVE  Directory!Next
  BY <1>3, PruneRefines DEF PumpUnboundMessage, used
<1>4. ASSUME NEW conn \in Connections, NEW request \in Requests, PumpReject(conn, request)
      PROVE  Directory!Next
  BY <1>4, PruneRefines, SpendConnection DEF PumpReject, FirstRequest
<1>5. ASSUME NEW conn \in Connections, NEW request \in Requests,
             PumpResume(conn, request) \/ PumpCreate(conn, request)
      PROVE  Directory!Next
  BY <1>5, ResumeRefines, CreateRefines
<1>6. ASSUME NEW conn \in Connections, PumpDisconnected(conn)
      PROVE  Directory!Next
  BY <1>6, DetachRefines
<1>7. ASSUME NEW id \in ClientIds, Disconnect(id)
      PROVE  Directory!Next
  BY <1>7, DisconnectRefines
<1>8. CASE Tick
  BY <1>8, TickRefines
<1>9. CASE UNCHANGED vars
  <2>1. \A id \in ClientIds : StatusOf(id)' = StatusOf(id)
    BY <1>9 DEF vars, StatusOf
  <2>2. status' = status /\ used' = used
    BY <1>9, <2>1 DEF vars, status, used, ClientIds
  <2> QED
    BY <2>2 DEF Directory!vars, status, used
<1> QED
  BY <1>1, <1>2, <1>3, <1>4, <1>5, <1>6, <1>7, <1>8, <1>9 DEF Next, Pump

\* Client ids are handed out once and in order, a connection serves one
\* session once, and only detached sessions are ever forgotten.
THEOREM DirectoryImplemented == Spec => ImplementsDirectory
<1>1. Init => Directory!Init
  BY InitRefines
<1>2. Inv /\ [Next]_vars => [Directory!Next]_Directory!vars
  BY NextRefines
<1> QED
  BY <1>1, <1>2, InitInv, NextInv, PTL DEF Spec, ImplementsDirectory, Directory!Spec

------------------------------------------------------------------------------
(* The histories. *)

AllDetached == {id \in DOMAIN sessionsByClientId : ~sessionsByClientId[id].connected}

\* The record's own age never runs behind the time really spent detached, and
\* equals it when the link was lost: pump() restarts it then, disconnect() does not.
Ages ==
    /\ DOMAIN detachedFor = AllDetached
    /\ DOMAIN detachedBy = AllDetached
    /\ \A id \in AllDetached :
          /\ detachedFor[id] \in Nat
          /\ detachedBy[id] \in {"link", "host"}
          /\ detachedFor[id] <= sessionsByClientId[id].age
          /\ detachedBy[id] = "link" => detachedFor[id] = sessionsByClientId[id].age

HInv == Inv /\ PlayersAreAttached /\ Ages

------------------------------------------------------------------------------
\* The histories keep step with the ages if those of the sessions that stay
\* detached advance by the time elapsed.
LEMMA AgesKept ==
    ASSUME Inv, Inv', Ages,
           NEW elapsed \in {0, 1}, NEW by \in {"link", "host"}, Record(elapsed, by),
           \A id \in AllDetached' :
               IF id \in AllDetached
               THEN sessionsByClientId'[id].age =
                        IF sessionsByClientId[id].age > ReconnectWindow
                        THEN sessionsByClientId[id].age
                        ELSE sessionsByClientId[id].age + elapsed
               ELSE by = "link" => sessionsByClientId'[id].age = 0
    PROVE  Ages'
<1>1. /\ DOMAIN detachedFor' = AllDetached' /\ DOMAIN detachedBy' = AllDetached'
      /\ \A id \in AllDetached' :
            /\ detachedFor'[id] = IF id \notin AllDetached THEN 0
                                  ELSE IF detachedFor[id] > ReconnectWindow THEN detachedFor[id]
                                  ELSE detachedFor[id] + elapsed
            /\ detachedBy'[id] = IF id \in AllDetached THEN detachedBy[id] ELSE by
  BY DEF Record, AllDetached, Ages
<1>2. ASSUME NEW id \in AllDetached'
      PROVE  /\ detachedFor'[id] \in Nat
             /\ detachedBy'[id] \in {"link", "host"}
             /\ detachedFor'[id] <= sessionsByClientId'[id].age
             /\ detachedBy'[id] = "link" => detachedFor'[id] = sessionsByClientId'[id].age
  <2>1. sessionsByClientId'[id].age \in 0..ReconnectWindow + 1
    BY DEF Inv, TypeOK, AllDetached, SessionRecord
  <2>2. CASE id \in AllDetached
    <3>1. sessionsByClientId[id].age \in 0..ReconnectWindow + 1
      BY <2>2 DEF Inv, TypeOK, AllDetached, SessionRecord
    <3> QED
      BY <1>1, <2>1, <2>2, <3>1, ServerAssumption DEF Ages
  <2>3. CASE id \notin AllDetached
    BY <1>1, <2>1, <2>3, ServerAssumption
  <2> QED
    BY <2>2, <2>3
<1> QED
  BY <1>1, <1>2 DEF Ages

\* What a pump does to the detached sessions: those it keeps it leaves alone,
\* those it adds are stamped with the current time, and the expired are gone.
LEMMA PumpDetached ==
    ASSUME Inv, Pump
    PROVE  /\ \A id \in AllDetached' :
                 IF id \in AllDetached
                 THEN sessionsByClientId'[id].age = sessionsByClientId[id].age
                 ELSE sessionsByClientId'[id].age = 0
           /\ \A id \in Expired : id \notin DOMAIN sessionsByClientId'
           /\ DOMAIN sessionsByClientId \ DOMAIN sessionsByClientId' \subseteq Expired
<1> USE Pruning DEF AllDetached, Expired
<1>1. ASSUME sessionsByClientId' = KeptSessions
      PROVE  /\ \A id \in AllDetached' :
                 IF id \in AllDetached
                 THEN sessionsByClientId'[id].age = sessionsByClientId[id].age
                 ELSE sessionsByClientId'[id].age = 0
             /\ \A id \in Expired : id \notin DOMAIN sessionsByClientId'
             /\ DOMAIN sessionsByClientId \ DOMAIN sessionsByClientId' \subseteq Expired
  BY <1>1
<1>2. ASSUME NEW conn \in Connections, PumpDisconnected(conn)
      PROVE  /\ \A id \in AllDetached' :
                 IF id \in AllDetached
                 THEN sessionsByClientId'[id].age = sessionsByClientId[id].age
                 ELSE sessionsByClientId'[id].age = 0
             /\ \A id \in Expired : id \notin DOMAIN sessionsByClientId'
             /\ DOMAIN sessionsByClientId \ DOMAIN sessionsByClientId' \subseteq Expired
  <2> DEFINE lost == clientIdByConnection[conn]
  <2>1. /\ lost \in DOMAIN KeptSessions
        /\ sessionsByClientId' = [KeptSessions EXCEPT ![lost] =
               [@ EXCEPT !.connected = FALSE, !.connection = NoConnection, !.age = 0]]
        /\ conn \in DOMAIN clientIdByConnection
    BY <1>2 DEF PumpDisconnected
  <2>2. sessionsByClientId[lost].connected
    BY <2>1 DEF Inv, DirectoryConsistent
  <2>3. KeptSessions[lost] \in SessionRecord
    BY <2>1
  <2>4. sessionsByClientId'[lost].age = 0
    BY <2>1, <2>3 DEF SessionRecord
  <2> QED
    BY <2>1, <2>2, <2>4
<1>3. ASSUME NEW conn \in Connections, NEW request \in Requests,
             PumpResume(conn, request) \/ PumpCreate(conn, request)
      PROVE  /\ \A id \in AllDetached' :
                 IF id \in AllDetached
                 THEN sessionsByClientId'[id].age = sessionsByClientId[id].age
                 ELSE sessionsByClientId'[id].age = 0
             /\ \A id \in Expired : id \notin DOMAIN sessionsByClientId'
             /\ DOMAIN sessionsByClientId \ DOMAIN sessionsByClientId' \subseteq Expired
  <2>1. CASE PumpResume(conn, request)
    <3>1. PICK id \in Resumable(request) :
              sessionsByClientId' = [KeptSessions EXCEPT ![id] =
                  Attached(request, KeptSessions[id].sessionNonce, conn)]
      BY <2>1 DEF PumpResume
    <3>2. id \in DOMAIN KeptSessions
      BY <3>1 DEF Resumable
    <3>3. sessionsByClientId'[id].connected
      BY <3>1, <3>2 DEF Attached
    <3> QED
      BY <3>1, <3>2, <3>3
  <2>2. CASE PumpCreate(conn, request)
    <3>1. sessionsByClientId' =
              With(KeptSessions, nextClientId, Attached(request, nextSessionNonce, conn))
      BY <2>2 DEF PumpCreate
    <3>2. sessionsByClientId'[nextClientId].connected
      BY <3>1 DEF With, Attached
    <3>3. /\ DOMAIN sessionsByClientId' = DOMAIN KeptSessions \cup {nextClientId}
          /\ \A id \in DOMAIN KeptSessions \ {nextClientId} :
                sessionsByClientId'[id] = KeptSessions[id]
      BY <3>1 DEF With
    <3>4. nextClientId \notin DOMAIN sessionsByClientId
      BY DEF Inv, TypeOK
    <3> QED
      BY <3>2, <3>3, <3>4
  <2> QED
    BY <1>3, <2>1, <2>2
<1> QED
  BY <1>1, <1>2, <1>3
     DEF Pump, PumpNothing, PumpStrayDisconnected, PumpUnboundMessage, PumpReject

LEMMA HPumpIsPump == HPump => Pump
BY DEF HPump, EventNothing, EventClientAccepted, EventClientDisconnected, Pump

LEMMA PumpInv == Inv /\ Pump => Inv'
BY NextInv DEF Next

\* disconnect() turns one attached session into a detached one.
LEMMA DisconnectDetached ==
    ASSUME Inv, NEW id \in ClientIds, Disconnect(id)
    PROVE  /\ id \in DOMAIN sessionsByClientId /\ sessionsByClientId[id].connected
           /\ DOMAIN sessionsByClientId' = DOMAIN sessionsByClientId
           /\ ~sessionsByClientId'[id].connected
           /\ \A other \in DOMAIN sessionsByClientId \ {id} :
                 sessionsByClientId'[other] = sessionsByClientId[other]
<1>1. /\ id \in DOMAIN sessionsByClientId
      /\ sessionsByClientId[id].connection # NoConnection
      /\ sessionsByClientId' = [sessionsByClientId EXCEPT ![id] =
             [@ EXCEPT !.connection = NoConnection, !.connected = FALSE]]
  BY DEF Disconnect
<1>2. sessionsByClientId[id] \in SessionRecord
  BY <1>1 DEF Inv, TypeOK
<1>3. ~[sessionsByClientId[id] EXCEPT !.connection = NoConnection, !.connected = FALSE].connected
  BY <1>2 DEF SessionRecord
<1> QED
  BY <1>1, <1>3 DEF Inv, DirectoryConsistent

\* A tick changes nothing but ages.
LEMMA TickDetached ==
    ASSUME Inv, Tick
    PROVE  /\ DOMAIN sessionsByClientId' = DOMAIN sessionsByClientId
           /\ \A id \in DOMAIN sessionsByClientId :
                 /\ sessionsByClientId'[id].connected = sessionsByClientId[id].connected
                 /\ sessionsByClientId'[id].age =
                        IF sessionsByClientId[id].age > ReconnectWindow
                        THEN sessionsByClientId[id].age ELSE sessionsByClientId[id].age + 1
BY DEF Inv, TypeOK, Tick, SessionRecord

------------------------------------------------------------------------------
LEMMA HInitInv == HInit => HInv
<1> SUFFICES ASSUME HInit PROVE HInv
  OBVIOUS
<1>1. Inv
  BY InitInv DEF HInit
<1>2. sessionsByClientId = << >> /\ DOMAIN sessionsByClientId = {}
  BY DEF HInit, Init
<1>3. PlayersAreAttached
  BY <1>2 DEF HInit, PlayersAreAttached
<1>4. Ages
  BY <1>2 DEF HInit, Ages, AllDetached
<1> QED
  BY <1>1, <1>3, <1>4 DEF HInv

\* The events of a pump keep the game's list of players right.
LEMMA PumpPlayers ==
    ASSUME Inv, PlayersAreAttached, HPump
    PROVE  PlayersAreAttached'
<1> USE Pruning DEF PlayersAreAttached
<1>1. CASE EventNothing
  <2>1. sessionsByClientId' = KeptSessions /\ players' = players
    BY <1>1 DEF EventNothing, PumpNothing, PumpStrayDisconnected, PumpUnboundMessage, PumpReject
  <2> QED
    BY <2>1
<1>2. ASSUME NEW conn \in Connections, EventClientDisconnected(conn)
      PROVE  PlayersAreAttached'
  <2> DEFINE lost == clientIdByConnection[conn]
             detach(record) ==
                 [record EXCEPT !.connected = FALSE, !.connection = NoConnection, !.age = 0]
  <2>1. /\ lost \in DOMAIN KeptSessions
        /\ sessionsByClientId' = [KeptSessions EXCEPT ![lost] = detach(KeptSessions[lost])]
        /\ players' = players \ {lost}
    BY <1>2 DEF EventClientDisconnected, PumpDisconnected
  <2>2. KeptSessions[lost] \in SessionRecord
    BY <2>1
  <2>3. ~detach(KeptSessions[lost]).connected
    BY <2>2 DEF SessionRecord
  <2> HIDE DEF detach, lost
  <2> QED
    BY <2>1, <2>3
<1>3. ASSUME NEW conn \in Connections, EventClientAccepted(conn)
      PROVE  PlayersAreAttached'
  <2>1. PICK request \in Requests : PumpResume(conn, request) \/ PumpCreate(conn, request)
    BY <1>3 DEF EventClientAccepted
  <2>2. players' = players \cup {clientIdByConnection'[conn]}
    BY <1>3 DEF EventClientAccepted
  <2>3. CASE PumpResume(conn, request)
    <3>1. PICK id \in Resumable(request) :
              /\ sessionsByClientId' = [KeptSessions EXCEPT ![id] =
                     Attached(request, KeptSessions[id].sessionNonce, conn)]
              /\ clientIdByConnection' =
                     With(Without(clientIdByConnection, Superseded(id, conn)), conn, id)
      BY <2>3 DEF PumpResume
    <3>2. id \in DOMAIN KeptSessions
      BY DEF Resumable
    <3>3. clientIdByConnection'[conn] = id
      BY <3>1 DEF With
    <3>4. Attached(request, KeptSessions[id].sessionNonce, conn).connected
      BY DEF Attached
    <3> QED
      BY <2>2, <3>1, <3>2, <3>3, <3>4
  <2>4. CASE PumpCreate(conn, request)
    <3>1. /\ sessionsByClientId' =
                 With(KeptSessions, nextClientId, Attached(request, nextSessionNonce, conn))
          /\ clientIdByConnection' = With(clientIdByConnection, conn, nextClientId)
      BY <2>4 DEF PumpCreate
    <3>2. clientIdByConnection'[conn] = nextClientId
      BY <3>1 DEF With
    <3>3. Attached(request, nextSessionNonce, conn).connected
      BY DEF Attached
    <3>4. /\ DOMAIN sessionsByClientId' = DOMAIN KeptSessions \cup {nextClientId}
          /\ sessionsByClientId'[nextClientId] = Attached(request, nextSessionNonce, conn)
          /\ \A id \in DOMAIN KeptSessions \ {nextClientId} :
                sessionsByClientId'[id] = KeptSessions[id]
      BY <3>1 DEF With
    <3>5. nextClientId \notin DOMAIN sessionsByClientId
      BY DEF Inv, TypeOK
    <3> QED
      BY <2>2, <3>2, <3>3, <3>4, <3>5
  <2> QED
    BY <2>1, <2>3, <2>4
<1> QED
  BY <1>1, <1>2, <1>3 DEF HPump

LEMMA HNextInv == HInv /\ [HNext]_allVars => HInv'
<1> SUFFICES ASSUME HInv, [HNext]_allVars PROVE HInv'
  OBVIOUS
<1> USE DEF HInv
<1>1. CASE HPump
  <2>1. Inv'
    BY <1>1, HPumpIsPump, PumpInv
  <2>2. Ages'
    <3>1. Record(0, "link")
      BY <1>1 DEF HPump
    <3>2. \A id \in AllDetached : sessionsByClientId[id].age \in Nat
      BY DEF Inv, TypeOK, AllDetached, SessionRecord
    <3>3. \A id \in AllDetached' :
              IF id \in AllDetached
              THEN sessionsByClientId'[id].age =
                       IF sessionsByClientId[id].age > ReconnectWindow
                       THEN sessionsByClientId[id].age
                       ELSE sessionsByClientId[id].age + 0
              ELSE "link" = "link" => sessionsByClientId'[id].age = 0
      BY <1>1, <3>2, HPumpIsPump, PumpDetached
    <3> QED
      BY <2>1, <3>1, <3>3, AgesKept
  <2> QED
    BY <1>1, <2>1, <2>2, PumpPlayers
<1>2. ASSUME NEW id \in ClientIds, HDisconnect(id)
      PROVE  HInv'
  <2>1. Disconnect(id) /\ players' = players \ {id} /\ Record(0, "host")
    BY <1>2 DEF HDisconnect
  <2>2. Inv'
    BY <2>1, DisconnectStep
  <2>3. \A other \in AllDetached : sessionsByClientId[other].age \in Nat
    BY DEF Inv, TypeOK, AllDetached, SessionRecord
  <2>4. \A other \in AllDetached' :
            IF other \in AllDetached
            THEN sessionsByClientId'[other].age =
                     IF sessionsByClientId[other].age > ReconnectWindow
                     THEN sessionsByClientId[other].age
                     ELSE sessionsByClientId[other].age + 0
            ELSE "host" = "link" => sessionsByClientId'[other].age = 0
    BY <2>1, <2>3, DisconnectDetached DEF AllDetached
  <2>5. Ages'
    BY <2>1, <2>2, <2>4, AgesKept
  <2>6. PlayersAreAttached'
    BY <2>1, DisconnectDetached DEF PlayersAreAttached
  <2> QED
    BY <2>2, <2>5, <2>6
<1>3. CASE HTick
  <2>1. Tick /\ players' = players /\ Record(1, "link")
    BY <1>3 DEF HTick
  <2>2. Inv'
    BY <2>1, TickStep
  <2>3. \A id \in AllDetached' :
            IF id \in AllDetached
            THEN sessionsByClientId'[id].age =
                     IF sessionsByClientId[id].age > ReconnectWindow
                     THEN sessionsByClientId[id].age
                     ELSE sessionsByClientId[id].age + 1
            ELSE "link" = "link" => sessionsByClientId'[id].age = 0
    BY <2>1, TickDetached DEF AllDetached
  <2>4. Ages'
    BY <2>1, <2>2, <2>3, AgesKept
  <2>5. PlayersAreAttached'
    BY <2>1, TickDetached DEF PlayersAreAttached
  <2> QED
    BY <2>2, <2>4, <2>5
<1>4. CASE UNCHANGED allVars
  <2>1. UNCHANGED vars /\ UNCHANGED <<detachedFor, detachedBy, players>>
    BY <1>4 DEF allVars, historyVars
  <2>2. Inv'
    BY <2>1, NextInv
  <2>3. sessionsByClientId' = sessionsByClientId
    BY <2>1 DEF vars
  <2> QED
    BY <2>1, <2>2, <2>3 DEF PlayersAreAttached, Ages, AllDetached
<1> QED
  BY <1>1, <1>2, <1>3, <1>4 DEF HNext

\* The game's players are the attached sessions, in every history.
THEOREM PlayersCorrect == HSpec => []PlayersAreAttached
<1>1. HInv => PlayersAreAttached
  BY DEF HInv
<1> QED
  BY <1>1, HInitInv, HNextInv, PTL DEF HSpec

------------------------------------------------------------------------------
\* Only expired sessions are ever erased, and an expired session does not come
\* back to life in the step that finds it expired.
LEMMA Erasure ==
    ASSUME HInv, [HNext]_allVars
    PROVE  /\ DOMAIN sessionsByClientId \ DOMAIN sessionsByClientId' \subseteq Expired
           /\ \A id \in Expired :
                 ~(id \in DOMAIN sessionsByClientId' /\ sessionsByClientId'[id].connected)
<1> USE DEF HInv, Expired
<1>1. CASE HPump
  BY <1>1, HPumpIsPump, PumpDetached
<1>2. ASSUME NEW id \in ClientIds, HDisconnect(id)
      PROVE  /\ DOMAIN sessionsByClientId \ DOMAIN sessionsByClientId' \subseteq Expired
             /\ \A other \in Expired :
                   ~(/\ other \in DOMAIN sessionsByClientId'
                     /\ sessionsByClientId'[other].connected)
  BY <1>2, DisconnectDetached DEF HDisconnect
<1>3. CASE HTick
  BY <1>3, TickDetached DEF HTick
<1>4. CASE UNCHANGED allVars
  BY <1>4 DEF allVars, vars
<1> QED
  BY <1>1, <1>2, <1>3, <1>4 DEF HNext

\* No session whose link was lost is erased within the reconnect window.
THEOREM WindowCorrect == HSpec => WindowKeptAfterLinkLoss
<1>1. HInv /\ [HNext]_allVars =>
          [\A id \in DOMAIN sessionsByClientId :
              ErasedEarly(id) => detachedBy[id] # "link"]_allVars
  <2> SUFFICES ASSUME HInv, [HNext]_allVars,
                      NEW id \in DOMAIN sessionsByClientId, ErasedEarly(id),
                      detachedBy[id] = "link"
               PROVE  FALSE
    OBVIOUS
  <2>1. id \in Expired
    BY Erasure DEF ErasedEarly
  <2>2. detachedFor[id] = sessionsByClientId[id].age /\ detachedFor[id] \in Nat
    BY <2>1 DEF HInv, Ages, AllDetached, Expired
  <2> QED
    BY <2>1, <2>2, ServerAssumption DEF ErasedEarly, Expired
<1> QED
  BY <1>1, HInitInv, HNextInv, PTL DEF HSpec, WindowKeptAfterLinkLoss

\* No session is resumed once it has been detached for longer than the window.
THEOREM ExpiryCorrect == HSpec => ExpiredNotResumed
<1>1. HInv /\ [HNext]_allVars =>
          [\A id \in DOMAIN detachedFor :
              detachedFor[id] > ReconnectWindow =>
                 ~(id \in DOMAIN sessionsByClientId' /\ sessionsByClientId'[id].connected)]_allVars
  <2> SUFFICES ASSUME HInv, [HNext]_allVars,
                      NEW id \in DOMAIN detachedFor, detachedFor[id] > ReconnectWindow
               PROVE  ~(id \in DOMAIN sessionsByClientId' /\ sessionsByClientId'[id].connected)
    OBVIOUS
  <2>1. id \in AllDetached /\ detachedFor[id] \in Nat
        /\ detachedFor[id] <= sessionsByClientId[id].age
    BY DEF HInv, Ages
  <2>2. sessionsByClientId[id].age \in Nat
    BY <2>1 DEF HInv, Inv, TypeOK, AllDetached, SessionRecord
  <2>3. id \in Expired
    BY <2>1, <2>2, ServerAssumption DEF AllDetached, Expired
  <2> QED
    BY <2>3, Erasure
<1> QED
  BY <1>1, HInitInv, HNextInv, PTL DEF HSpec, ExpiredNotResumed
==============================================================================
