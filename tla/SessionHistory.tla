---------------------------- MODULE SessionHistory ---------------------------
(***************************************************************************)
(* ServerSession with the two histories its promises to the game and to    *)
(* the players are about: how long each session has really been detached   *)
(* and who detached it, and which players the game believes are in, from   *)
(* the ServerSessionEvents pump() returned and its own disconnect() calls. *)
(***************************************************************************)
EXTENDS ServerSession

VARIABLES
    detachedFor,   \* ticks since the session was detached, saturated
    detachedBy,    \* "link" (transport event) or "host" (disconnect())
    players        \* client ids the game counts as present

historyVars == <<detachedFor, detachedBy, players>>
allVars == <<vars, historyVars>>

HInit ==
    /\ Init
    /\ detachedFor = << >>
    /\ detachedBy = << >>
    /\ players = {}

\* Ages the histories by elapsed ticks; a session detached in this step starts at 0.
Record(elapsed, by) ==
    LET nowDetached == {id \in DOMAIN sessionsByClientId' : ~sessionsByClientId'[id].connected}
    IN /\ detachedFor' = [id \in nowDetached |->
              IF id \notin DOMAIN detachedFor THEN 0
              ELSE IF detachedFor[id] > ReconnectWindow THEN detachedFor[id]
              ELSE detachedFor[id] + elapsed]
       /\ detachedBy' = [id \in nowDetached |->
              IF id \in DOMAIN detachedBy THEN detachedBy[id] ELSE by]

\* The ServerSessionEvent each outcome of pump returns, as the game hears it.
EventNothing ==
    /\ \/ PumpNothing
       \/ \E conn \in Connections :
             \/ PumpStrayDisconnected(conn)
             \/ PumpUnboundMessage(conn)
             \/ \E request \in Requests : PumpReject(conn, request)
    /\ UNCHANGED players

EventClientAccepted(conn) ==
    /\ \E request \in Requests : PumpResume(conn, request) \/ PumpCreate(conn, request)
    /\ players' = players \cup {clientIdByConnection'[conn]}

EventClientDisconnected(conn) ==
    /\ PumpDisconnected(conn)
    /\ players' = players \ {clientIdByConnection[conn]}

HPump ==
    /\ \/ EventNothing
       \/ \E conn \in Connections : EventClientAccepted(conn) \/ EventClientDisconnected(conn)
    /\ Record(0, "link")

HDisconnect(id) ==
    /\ Disconnect(id)
    /\ players' = players \ {id}
    /\ Record(0, "host")

HTick == Tick /\ Record(1, "link") /\ UNCHANGED players

HNext == HPump \/ (\E id \in ClientIds : HDisconnect(id)) \/ HTick

HSpec == HInit /\ [][HNext]_allVars

------------------------------------------------------------------------------
\* The game's list of players, built from the events alone, is the set of
\* attached sessions: a resume that supersedes a live connection, and the late
\* loss of the old one, never make the game drop a player who is there.
PlayersAreAttached ==
    players = {id \in DOMAIN sessionsByClientId : sessionsByClientId[id].connected}

ErasedEarly(id) ==
    /\ id \in DOMAIN sessionsByClientId \ DOMAIN sessionsByClientId'
    /\ detachedFor[id] <= ReconnectWindow

\* A session whose link was lost stays resumable for the whole reconnect
\* window, counted from the loss, and not just from when it was last accepted.
WindowKeptAfterLinkLoss ==
    [][\A id \in DOMAIN sessionsByClientId :
          ErasedEarly(id) => detachedBy[id] # "link"]_allVars

\* TransportSession.h:123 says of disconnect(): "Closes a client session. The
\* reconnect window remains available until it expires."  The same promise,
\* for a session the game disconnected.
WindowKeptAfterDisconnect ==
    [][\A id \in DOMAIN sessionsByClientId :
          ErasedEarly(id) => detachedBy[id] # "host"]_allVars

\* A session is not kept much longer than promised either: once the window is
\* over, no pump leaves it resumable.
ExpiredNotResumed ==
    [][\A id \in DOMAIN detachedFor :
          detachedFor[id] > ReconnectWindow =>
             ~(id \in DOMAIN sessionsByClientId' /\ sessionsByClientId'[id].connected)]_allVars
==============================================================================
