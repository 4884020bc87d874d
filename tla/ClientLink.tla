----------------------------- MODULE ClientLink ------------------------------
(***************************************************************************)
(* Clients running ClientSession over transports of their own, against     *)
(* servers and networks that may do anything a connection can go through:  *)
(* never come up, be accepted, refused, closed with or without a notice,   *)
(* or time out at any point.  A connection id is free again once the       *)
(* client has been told of its loss: transports deliver nothing after it.  *)
(***************************************************************************)
EXTENDS ClientSession

CONSTANT Nonces   \* bound: the session nonces servers hand out

ASSUME NoncesAssumption == Nonces \subseteq Nat \ {NoNonce}

VARIABLES
    link,    \* per client and connection, what the transport has reported
    opens    \* history: connect() calls since start() or the last accept

vars == <<session, link, opens>>

Phase == {"free", "opening", "broken", "asked", "accepted", "refused", "closing"}

LInit ==
    /\ Init
    /\ link = [c \in Clients |-> [conn \in Connections |-> "free"]]
    /\ opens = [c \in Clients |-> 0]

\* What transport_.connect may return when it is called.
Connectable(c) == {conn \in Connections : link[c][conn] = "free"} \cup {NoConnection}

Openings(c) == IF RetryDue(c) THEN Connectable(c) ELSE {NoConnection}

\* The link, with the connection opened in this step if any.
Linked(c, opened) ==
    IF opened = NoConnection THEN link[c] ELSE [link[c] EXCEPT ![opened] = "opening"]

Opens(c) == IF RetryDue(c) THEN opens[c] + 1 ELSE opens[c]

LStart(c, opened) ==
    /\ start(c, opened)
    /\ link' = [link EXCEPT ![c] = Linked(c, opened)]
    /\ opens' = [opens EXCEPT ![c] = 1]

LNothing(c, opened) ==
    /\ PumpNothing(c, opened)
    /\ link' = [link EXCEPT ![c] = Linked(c, opened)]
    /\ opens' = [opens EXCEPT ![c] = Opens(c)]

\* The transport reports on connection conn, taking it from a phase to another.
Reports(c, opened, conn, from, to) ==
    /\ Linked(c, opened)[conn] \in from
    /\ link' = [link EXCEPT ![c] = [Linked(c, opened) EXCEPT ![conn] = to]]

LConnected(c, opened, conn) ==
    /\ \/ PumpConnected(c, opened, conn, TRUE) /\ Reports(c, opened, conn, {"opening"}, "asked")
       \/ PumpConnected(c, opened, conn, FALSE) /\ Reports(c, opened, conn, {"opening"}, "broken")
    /\ opens' = [opens EXCEPT ![c] = Opens(c)]

LAccept(c, opened, conn) ==
    /\ Reports(c, opened, conn, {"asked"}, "accepted")
    /\ \E nonce \in Nonces : PumpAccept(c, opened, conn, nonce, nonce)
    /\ opens' = [opens EXCEPT ![c] = 0]

LReject(c, opened, conn) ==
    /\ Reports(c, opened, conn, {"asked"}, "refused")
    /\ PumpReject(c, opened, conn)
    /\ opens' = [opens EXCEPT ![c] = Opens(c)]

\* The reasons ServerTransportSession hangs up for.
LNotice(c, opened, conn) ==
    /\ Reports(c, opened, conn, {"accepted", "refused"}, "closing")
    /\ \E reason \in {"LocalRequest", "ProtocolMismatch", "AssetMismatch", "AuthFailed"} :
          PumpNotice(c, opened, conn, reason)
    /\ opens' = [opens EXCEPT ![c] = Opens(c)]

LDisconnected(c, opened, conn) ==
    /\ Reports(c, opened, conn, Phase \ {"free"}, "free")
    /\ \E reason \in DisconnectReason : PumpDisconnected(c, opened, conn, reason)
    /\ opens' = [opens EXCEPT ![c] = Opens(c)]

Tick == ClockTick /\ UNCHANGED <<link, opens>>

\* A report that settles the fate of a connection.
Report(c) ==
    \E opened \in Openings(c), conn \in Connections :
        \/ LConnected(c, opened, conn)
        \/ LAccept(c, opened, conn)
        \/ LReject(c, opened, conn)
        \/ LDisconnected(c, opened, conn)

Idle(c) == \E opened \in Openings(c) : LNothing(c, opened)

Next ==
    \/ \E c \in Clients :
          \/ \E opened \in Connectable(c) : LStart(c, opened)
          \/ Idle(c)
          \/ Report(c)
          \/ \E opened \in Openings(c), conn \in Connections : LNotice(c, opened, conn)
    \/ Tick

SafeSpec == LInit /\ [][Next]_vars

\* A connection under way does not stay undecided: it comes up or fails, and a
\* request on it is answered or the connection is lost.
Settles(c) ==
    \E conn \in Connections :
        /\ link[c][conn] \in {"opening", "asked", "broken", "refused", "closing"}
        /\ \E opened \in Openings(c) :
              \/ LConnected(c, opened, conn)
              \/ LAccept(c, opened, conn)
              \/ LReject(c, opened, conn)
              \/ LDisconnected(c, opened, conn)

\* The host calls pump() every frame, the clock runs, and transports and
\* servers settle every connection under way.
Fairness ==
    /\ WF_vars(Tick)
    /\ \A c \in Clients : WF_vars(Idle(c)) /\ WF_vars(Settles(c))

Spec == SafeSpec /\ Fairness

------------------------------------------------------------------------------
\* The records of the clients and the phases of their connections are well
\* typed; in particular every retry is within the configured delays.
TypeOK ==
    /\ session \in [Clients -> ClientRecord]
    /\ link \in [Clients -> [Connections -> Phase]]
    /\ opens \in [Clients -> Nat]

\* Every connection the transport still holds is the client's current one: no
\* retry opens a second one and none is forgotten.  (The session never closes a
\* connection itself, so a forgotten one would stay up for ever.)
NoForgottenLink ==
    \A c \in Clients, conn \in Connections :
        link[c][conn] # "free" => session[c].connection = conn

\* Without an accept, connect() is called at most once more than the attempts
\* allowed, however far each of the connections gets before it fails.
AttemptBudget == \A c \in Clients : opens[c] <= MaxAttempts + 1

\* A started client does not retry for ever without success: it is accepted
\* again and again, stays connected, or comes to rest.
GivesUpOrConnects ==
    \A c \in Clients :
        \/ []<>(session[c].state = "Connected")
        \/ <>[](session[c].state \in {"Idle", "Closed", "Failed"})
==============================================================================
