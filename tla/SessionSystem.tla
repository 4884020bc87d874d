---------------------------- MODULE SessionSystem ----------------------------
(***************************************************************************)
(* Client sessions and the server session over a network: ClientSession    *)
(* and ServerSession joined by connections that carry events in order to   *)
(* each end, that may fail to open or be cut at any point, and whose two   *)
(* ends learn of the loss independently.  The server may crash and come    *)
(* back empty; clients may leave; the game may disconnect a player.        *)
(*                                                                         *)
(* A pump that both opens a retry and handles an event is two steps here:  *)
(* the retry, then the event, as when the poll finds nothing at first.     *)
(***************************************************************************)
EXTENDS ServerSession, Sequences

CONSTANTS
    Clients,
    Nobody,       \* the owner of an unused connection
    Numbering,    \* the order in which transports hand out connection ids
    MaxAttempts, InitialDelay, MaxDelay, Multiplier,
    TokenOf,      \* the auth token each client is configured with
    MaxFaults,    \* bound: connections refused or cut, players disconnected by the game
    MaxCrashes    \* bound: server crashes

ASSUME SystemAssumption ==
    /\ Nobody \notin Clients
    /\ Numbering \in [1..Cardinality(Connections) -> Connections]
    /\ Range(Numbering) = Connections
    /\ TokenOf \in [Clients -> Tokens]
    /\ MaxFaults \in Nat /\ MaxCrashes \in Nat

VARIABLES
    session,     \* the ClientSession of each client
    stage,       \* connection -> "unused", "opening", "up" or "cut"
    owner,       \* connection -> the client that opened it
    toClient,    \* connection -> events its client's transport will report, in order
    toServer,    \* connection -> events the server's transport will report, in order
    gone,        \* clients whose process has ended
    faults, crashes,
    holder       \* history: client id -> the client it was issued to

clientVars == <<session>>
linkVars == <<stage, owner, toClient, toServer>>
systemVars == <<clientVars, vars, linkVars, gone, faults, crashes, holder>>

Client == INSTANCE ClientSession

Connected == [kind |-> "Connected"]
Accept(id, nonce) == [kind |-> "Accept", clientId |-> id, nonce |-> nonce]
Reject == [kind |-> "Reject"]
Notice(reason) == [kind |-> "Notice", reason |-> reason]
Lost(reason) == [kind |-> "Lost", reason |-> reason]
Request(request) == [kind |-> "Request", request |-> request]
User(id) == [kind |-> "User", clientId |-> id]   \* a game message of client id

SystemInit ==
    /\ Client!Init
    /\ Init
    /\ stage = [conn \in Connections |-> "unused"]
    /\ owner = [conn \in Connections |-> Nobody]
    /\ toClient = [conn \in Connections |-> << >>]
    /\ toServer = [conn \in Connections |-> << >>]
    /\ gone = {}
    /\ faults = 0 /\ crashes = 0
    /\ holder = << >>

------------------------------------------------------------------------------
Kinds(queue) == {queue[i].kind : i \in DOMAIN queue}

Cuts(queue) == {SubSeq(queue, 1, n) : n \in 0..Len(queue)}

\* Messages in flight can be lost from any point on; the report that the
\* connection came up is local and cannot.
Kept(queue) == {cut \in Cuts(queue) : "Connected" \in Kinds(queue) => "Connected" \in Kinds(cut)}

\* The server's end of conn is open, so what the client sends is delivered.
ServerListens(conn) ==
    /\ stage[conn] = "up"
    /\ conn \notin closed /\ inbound[conn] # "gone"

\* What the client's end may still report of conn when the server sends
\* `messages` and closes it: GNSTransport::disconnect sends a notice and closes
\* with the reason, and a poll may report the close with messages left unread.
Closings(conn, messages, reason) ==
    IF stage[conn] # "up" \/ conn \in closed THEN {toClient[conn]}
    ELSE {Append(cut, Lost(reason)) :
             cut \in Kept(toClient[conn] \o messages \o <<Notice(reason)>>)}

------------------------------------------------------------------------------
(* Clients. *)

\* The connection id a transport returns next.
Unused == {conn \in Connections : stage[conn] = "unused"}
NextConnection == Numbering[Cardinality(Connections) - Cardinality(Unused) + 1]

Opens(c, conn) ==
    /\ conn \in Unused /\ conn = NextConnection
    /\ stage' = [stage EXCEPT ![conn] = "opening"]
    /\ owner' = [owner EXCEPT ![conn] = c]
    /\ UNCHANGED <<vars, toClient, toServer, gone, faults, crashes, holder>>

Start(c) ==
    \E conn \in Connections : c \notin gone /\ Client!start(c, conn) /\ Opens(c, conn)

Retry(c) ==
    /\ c \notin gone /\ Client!RetryDue(c)
    /\ \E conn \in Connections : Client!PumpNothing(c, conn) /\ Opens(c, conn)

\* The pump of client c handles the next event of connection conn.
ClientEvent(c, conn) ==
    /\ c \notin gone /\ ~Client!RetryDue(c)
    /\ owner[conn] = c /\ toClient[conn] # << >>
    /\ toClient' = [toClient EXCEPT ![conn] = Tail(@)]
    /\ LET event == Head(toClient[conn])
           sent == "Lost" \notin Kinds(toClient[conn])
       IN /\ \/ /\ event.kind = "Connected"
                /\ Client!PumpConnected(c, NoConnection, conn, sent)
             \/ /\ event.kind = "Accept"
                /\ Client!PumpAccept(c, NoConnection, conn, event.clientId, event.nonce)
             \/ event.kind = "Reject" /\ Client!PumpReject(c, NoConnection, conn)
             \/ event.kind = "Notice" /\ Client!PumpNotice(c, NoConnection, conn, event.reason)
             \/ event.kind = "Lost" /\ Client!PumpDisconnected(c, NoConnection, conn, event.reason)
             \/ /\ event.kind # "Connected" /\ ~Client!Current(session[c], conn)
                /\ Client!PumpNothing(c, NoConnection)
          /\ toServer' = [toServer EXCEPT ![conn] =
                 IF event.kind = "Connected" /\ sent /\ ServerListens(conn)
                 THEN Append(@, Request(Client!RequestOf(c, TokenOf[c]))) ELSE @]
    /\ UNCHANGED <<vars, stage, owner, gone, faults, crashes, holder>>

\* send(): the game of client c sends a message in its session.
Send(c) ==
    LET conn == session[c].connection
    IN /\ c \notin gone
       /\ session[c].state = "Connected" /\ conn # NoConnection
       /\ ServerListens(conn)
       /\ "User" \notin Kinds(toServer[conn])
       /\ toServer' = [toServer EXCEPT ![conn] = Append(@, User(session[c].clientId))]
       /\ UNCHANGED <<clientVars, vars, stage, owner, toClient, gone, faults, crashes, holder>>

\* The process of client c ends, and its connection with it.
Quit(c) ==
    /\ c \notin gone /\ session[c].state # "Idle"
    /\ gone' = gone \cup {c}
    /\ stage' = [conn \in Connections |-> IF owner[conn] = c THEN "cut" ELSE stage[conn]]
    /\ toClient' = [conn \in Connections |-> IF owner[conn] = c THEN << >> ELSE toClient[conn]]
    /\ UNCHANGED <<clientVars, vars, owner, toServer, faults, crashes, holder>>

------------------------------------------------------------------------------
(* The server: its pump handles the next event of connection conn. *)

Reads(conn, kind) ==
    /\ toServer[conn] # << >>
    /\ Head(toServer[conn]).kind = kind

\* conn is closed by the server: of the client's events `toClientNow` those of
\* Closings remain, and of `unread` those its own transport had already taken in.
HangsUp(conn, messages, reason, toClientNow, unread) ==
    /\ \E seen \in Closings(conn, messages, reason) :
          toClient' = [toClientNow EXCEPT ![conn] = seen]
    /\ \E cut \in Cuts(unread[conn]) : toServer' = [unread EXCEPT ![conn] = cut]

Consumed(conn) == [toServer EXCEPT ![conn] = Tail(@)]

ServerRejects(conn) ==
    /\ Reads(conn, "Request")
    /\ LET request == Head(toServer[conn]).request
       IN /\ PumpReject(conn, request)
          /\ HangsUp(conn, <<Reject>>, validateHandshake(request), toClient, Consumed(conn))
    /\ UNCHANGED <<clientVars, stage, owner, gone, faults, crashes, holder>>

ServerAccepts(conn) ==
    /\ Reads(conn, "Request")
    /\ LET request == Head(toServer[conn]).request
       IN PumpResume(conn, request) \/ PumpCreate(conn, request)
    /\ LET id == clientIdByConnection'[conn]
           accept == Accept(id, sessionsByClientId'[id].sessionNonce)
           answered == IF stage[conn] = "up" THEN [toClient EXCEPT ![conn] = Append(@, accept)]
                       ELSE toClient
           superseded == closed' \ closed
       IN /\ IF superseded = {}
             THEN toClient' = answered /\ toServer' = Consumed(conn)
             ELSE \E old \in superseded :
                      HangsUp(old, << >>, "LocalRequest", answered, Consumed(conn))
          /\ holder' = [other \in DOMAIN holder \cup {id} |->
                 IF other \in DOMAIN holder THEN holder[other] ELSE owner[conn]]
    /\ UNCHANGED <<clientVars, stage, owner, gone, faults, crashes>>

ServerLoses(conn) ==
    /\ Reads(conn, "Lost")
    /\ PumpDisconnected(conn) \/ PumpStrayDisconnected(conn)
    /\ toServer' = Consumed(conn)
    /\ UNCHANGED <<clientVars, stage, owner, toClient, gone, faults, crashes, holder>>

ServerHears(conn) ==
    /\ Reads(conn, "User")
    /\ \/ /\ conn \in DOMAIN clientIdByConnection
          /\ PumpNothing
          /\ toServer' = Consumed(conn)
          /\ UNCHANGED toClient
       \/ /\ PumpUnboundMessage(conn)
          /\ HangsUp(conn, << >>, "ProtocolMismatch", toClient, Consumed(conn))
    /\ UNCHANGED <<clientVars, stage, owner, gone, faults, crashes, holder>>

ServerIdle == PumpNothing /\ UNCHANGED <<clientVars, linkVars, gone, faults, crashes, holder>>

\* The game disconnects a player, for a reason of its choice: one a client
\* accepts as final, or one it reconnects after.
Kick(id) ==
    /\ faults < MaxFaults /\ faults' = faults + 1
    /\ Disconnect(id)
    /\ \E reason \in {"LocalRequest", "RemoteClosed"} :
          HangsUp(sessionsByClientId[id].connection, << >>, reason, toClient, toServer)
    /\ UNCHANGED <<clientVars, stage, owner, gone, crashes, holder>>

\* The server process dies, taking its ends of the connections and all its
\* tables and counters with it, and is started again.
Crash ==
    /\ crashes < MaxCrashes /\ crashes' = crashes + 1
    /\ sessionsByClientId' = << >> /\ clientIdByConnection' = << >>
    /\ clientIdBySessionNonce' = << >>
    /\ nextClientId' = 1 /\ nextSessionNonce' = 1
    /\ closed' = {}
    /\ inbound' = [conn \in Connections |->
           IF stage[conn] \in {"unused", "opening"} THEN "fresh" ELSE "gone"]
    /\ stage' = [conn \in Connections |-> IF stage[conn] = "up" THEN "cut" ELSE stage[conn]]
    /\ toServer' = [conn \in Connections |-> << >>]
    /\ holder' = << >>
    /\ UNCHANGED <<clientVars, owner, toClient, gone, faults>>

------------------------------------------------------------------------------
(* The network. *)

Establish(conn) ==
    /\ stage[conn] = "opening"
    /\ stage' = [stage EXCEPT ![conn] = "up"]
    /\ toClient' = [toClient EXCEPT ![conn] = Append(@, Connected)]
    /\ UNCHANGED <<clientVars, vars, owner, toServer, gone, faults, crashes, holder>>

\* A connection does not come up, or goes down while either end still uses it.
Cut(conn) ==
    /\ faults < MaxFaults /\ faults' = faults + 1
    /\ stage[conn] \in {"opening", "up"}
    /\ session[owner[conn]].connection = conn
    /\ stage' = [stage EXCEPT ![conn] = "cut"]
    /\ UNCHANGED <<clientVars, vars, owner, toClient, toServer, gone, crashes, holder>>

\* An end of a cut connection times out; what was in flight may be lost.
ClientNotices(conn) ==
    /\ stage[conn] = "cut"
    /\ owner[conn] \notin gone
    /\ session[owner[conn]].connection = conn
    /\ Lost("Timeout") \notin Range(toClient[conn])
    /\ \E cut \in Kept(toClient[conn]) :
          /\ "Lost" \notin Kinds(cut)
          /\ toClient' = [toClient EXCEPT ![conn] = Append(cut, Lost("Timeout"))]
    /\ UNCHANGED <<clientVars, vars, stage, owner, toServer, gone, faults, crashes, holder>>

ServerNotices(conn) ==
    /\ stage[conn] = "cut"
    /\ conn \notin closed /\ inbound[conn] # "gone"
    /\ "Lost" \notin Kinds(toServer[conn])
    /\ \E cut \in Cuts(toServer[conn]) :
          toServer' = [toServer EXCEPT ![conn] = Append(cut, Lost("Timeout"))]
    /\ UNCHANGED <<clientVars, vars, stage, owner, toClient, gone, faults, crashes, holder>>

SystemTick ==
    /\ Tick /\ Client!ClockTick
    /\ UNCHANGED <<linkVars, gone, faults, crashes, holder>>

------------------------------------------------------------------------------
ClientPump(c) == Retry(c) \/ \E conn \in Connections : ClientEvent(c, conn)

ServerPump(conn) ==
    ServerRejects(conn) \/ ServerAccepts(conn) \/ ServerLoses(conn) \/ ServerHears(conn)

Settle(conn) == Establish(conn) \/ ClientNotices(conn)

SystemNext ==
    \/ \E c \in Clients : Start(c) \/ ClientPump(c) \/ Send(c) \/ Quit(c)
    \/ \E conn \in Connections :
          ServerPump(conn) \/ Settle(conn) \/ ServerNotices(conn) \/ Cut(conn)
    \/ ServerIdle
    \/ \E id \in 1..MaxClientId : Kick(id)
    \/ Crash
    \/ SystemTick

SafeSpec == SystemInit /\ [][SystemNext]_systemVars

\* Both ends pump every frame, the clock runs, a connection comes up or fails,
\* and each end of a cut one times out.
Fairness ==
    /\ \A c \in Clients : WF_systemVars(ClientPump(c))
    /\ \A conn \in Connections :
          WF_systemVars(ServerPump(conn)) /\ WF_systemVars(Settle(conn)) /\ WF_systemVars(ServerNotices(conn))
    /\ WF_systemVars(ServerIdle)
    /\ WF_systemVars(SystemTick)

FairSpec == SafeSpec /\ Fairness

------------------------------------------------------------------------------
(* Properties. *)

Present(c) == c \notin gone /\ session[c].state = "Connected"

\* The two ends agree: while the link is up and the server has not closed it,
\* a connected client's connection is bound to the session it was told of.
ConnectedAgrees ==
    \A c \in Clients :
        LET conn == session[c].connection
        IN Present(c) /\ ServerListens(conn) =>
              /\ conn \in DOMAIN clientIdByConnection
              /\ clientIdByConnection[conn] = session[c].clientId

\* A session belongs to the client it was created for: no resume, whatever was
\* lost or superseded, binds a client to the session of another, and (until the
\* server restarts) no client is told the id of another.
SessionOwner ==
    /\ \A conn \in DOMAIN clientIdByConnection :
          holder[clientIdByConnection[conn]] = owner[conn]
    /\ crashes = 0 =>
          \A c \in Clients :
              session[c].clientId # 0 => holder[session[c].clientId] = c

\* A game message, if the server takes it at all, is attributed to the id under
\* which its client sent it, even when it is read after resumes or disconnects.
MessageAttribution ==
    \A conn \in DOMAIN clientIdByConnection :
        \A message \in Range(toServer[conn]) :
            message.kind = "User" => clientIdByConnection[conn] = message.clientId

\* What ServerSession assumes of its clients: a connection carries at most one
\* HandshakeRequest, before any game message, and the client's pump is never
\* left with events while it waits to retry.
OneRequestPerConnection ==
    \A conn \in Connections :
        /\ \A i \in DOMAIN toServer[conn] :
              toServer[conn][i].kind = "Request" => i = 1 /\ inbound[conn] = "fresh"
        /\ \A c \in Clients :
              owner[conn] = c /\ session[c].state = "Reconnecting" => toClient[conn] = << >>

\* A client that comes back under a new id had lost its session: as long as the
\* server keeps the session (and has not crashed), every reconnection returns to it.
ReturnKeepsIdentity ==
    [][\A c \in Clients :
          crashes = 0 /\ session[c].clientId # 0 /\ session'[c].clientId # session[c].clientId =>
              session[c].clientId \notin DOMAIN sessionsByClientId]_systemVars

\* Every client is at rest, and the server keeps exactly the sessions of the
\* clients that are connected, under the ids they know.
Settled ==
    /\ \A c \in Clients \ gone :
          session[c].state \in {"Idle", "Connected", "Closed", "Failed"}
    /\ {<<id, sessionsByClientId[id].connection>> : id \in DOMAIN sessionsByClientId}
          = {<<session[c].clientId, session[c].connection>> : c \in {d \in Clients : Present(d)}}

\* Once faults stop, the two ends settle: no client retries for ever, and every
\* orphaned session, one whose accept was lost for instance, is reclaimed.
Converges == <>[]Settled
==============================================================================
