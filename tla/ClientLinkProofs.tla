--------------------------- MODULE ClientLinkProofs ----------------------------
(***************************************************************************)
(* Proofs about ClientLink, for any clients, connections, delays and       *)
(* number of attempts.                                                     *)
(***************************************************************************)
EXTENDS ClientLink, TLAPS

\* A client's record has the members of ClientTransportSession.
Members == {"state", "connection", "nonce", "clientId", "attempt", "retryIn", "notice"}

IsRecord(r) == r = [member \in Members |-> r[member]]

\* What a client's record r, the phases l of its connections and the number o of
\* connections it opened since its last accept say of each other.  A client has used
\* an attempt for each of these but one, and while it waits to retry for each.
Fits(r, l, o) ==
    /\ IsRecord(r)
    /\ r.state \in SessionState
    /\ l \in [Connections -> Phase]
    /\ \A conn \in Connections : l[conn] # "free" => r.connection = conn
    /\ r.state \in {"Idle", "Reconnecting"} => r.connection = NoConnection
    /\ r.attempt \in 0..MaxAttempts
    /\ o \in Nat
    /\ o <= r.attempt + 1
    /\ r.state = "Reconnecting" => o <= r.attempt

\* The inductive invariant.
IInv ==
    /\ DOMAIN session = Clients /\ session = [c \in Clients |-> session[c]]
    /\ link = [c \in Clients |-> link[c]]
    /\ opens = [c \in Clients |-> opens[c]]
    /\ \A c \in Clients : Fits(session[c], link[c], opens[c])

\* Only the client that pumps changes.
LEMMA OneClientFits ==
    ASSUME IInv, NEW c \in Clients, NEW r, NEW l, NEW o, Fits(r, l, o),
           session' = [session EXCEPT ![c] = r],
           link' = [link EXCEPT ![c] = l],
           opens' = [opens EXCEPT ![c] = o]
    PROVE  IInv'
<1>1. /\ session'[c] = r /\ link'[c] = l /\ opens'[c] = o
      /\ \A d \in Clients \ {c} :
            session'[d] = session[d] /\ link'[d] = link[d] /\ opens'[d] = opens[d]
  BY DEF IInv
<1>2. /\ DOMAIN session' = Clients /\ session' = [d \in Clients |-> session'[d]]
      /\ link' = [d \in Clients |-> link'[d]]
      /\ opens' = [d \in Clients |-> opens'[d]]
  BY DEF IInv
<1>3. \A d \in Clients : Fits(session'[d], link'[d], opens'[d])
  BY <1>1 DEF IInv
<1> QED
  BY <1>2, <1>3 DEF IInv

\* The retry opens a connection when there is none.
LEMMA ReopenedFits ==
    ASSUME IInv, NEW c \in Clients, NEW opened \in Openings(c)
    PROVE  /\ Fits(Reopened(c, opened), Linked(c, opened), Opens(c))
           /\ opened \in Connections \cup {NoConnection}
<1>1. Fits(session[c], link[c], opens[c])
  BY DEF IInv
<1>2. CASE ~ RetryDue(c)
  <2>1. opened = NoConnection
    BY <1>2 DEF Openings
  <2> QED
    BY <1>1, <1>2, <2>1 DEF Reopened, Linked, Opens
<1>3. CASE RetryDue(c)
  <2>1. /\ session[c].state = "Reconnecting" /\ session[c].connection = NoConnection
        /\ opens[c] <= session[c].attempt /\ opens[c] \in Nat
        /\ session[c].attempt \in 0..MaxAttempts
    BY <1>1, <1>3 DEF RetryDue, Fits
  <2>2. opened \in Connections \cup {NoConnection}
    BY <1>3 DEF Openings, Connectable
  <2>3. Opens(c) = opens[c] + 1
    BY <1>3 DEF Opens
  <2>4. Opens(c) \in Nat /\ Opens(c) <= session[c].attempt + 1
    BY <2>1, <2>3, ClientAssumption
  <2>5. \A conn \in Connections : link[c][conn] = "free"
    BY <1>1, <2>1, ClientAssumption DEF Fits
  <2> DEFINE r == Reopened(c, opened)
  <2>6. r = [session[c] EXCEPT
                !.connection = opened,
                !.state = IF opened = NoConnection THEN "Failed" ELSE "ConnectingTransport"]
    BY <1>3 DEF Reopened
  <2>7. IsRecord(session[c])
    BY <1>1 DEF Fits
  <2>8. /\ IsRecord(r) /\ r.connection = opened /\ r.attempt = session[c].attempt
        /\ r.state \in {"Failed", "ConnectingTransport"}
    BY <2>6, <2>7 DEF IsRecord, Members
  <2>9. /\ Linked(c, opened) \in [Connections -> Phase]
        /\ \A conn \in Connections : Linked(c, opened)[conn] # "free" => opened = conn
    BY <1>1, <2>2, <2>5 DEF Linked, Fits, Phase
  <2> HIDE DEF r
  <2>10. Fits(r, Linked(c, opened), Opens(c))
    BY <2>1, <2>4, <2>8, <2>9 DEF Fits, SessionState
  <2> QED
    BY <2>2, <2>10 DEF r
<1> QED
  BY <1>2, <1>3 DEF Openings

\* A report of conn leaves the phases of the others alone.
LEMMA ReportFits ==
    ASSUME NEW r, NEW l, NEW o, Fits(r, l, o), NEW conn \in Connections, l[conn] # "free",
           NEW to \in Phase
    PROVE  /\ r.connection = conn
           /\ r.state \notin {"Idle", "Reconnecting"}
           /\ [l EXCEPT ![conn] = to] \in [Connections -> Phase]
           /\ \A d \in Connections :
                 [l EXCEPT ![conn] = to][d] # "free" => d = conn /\ to # "free"
BY ClientAssumption DEF Fits

\* start() begins with no connection at all.
LEMMA StartInv ==
    ASSUME IInv, NEW c \in Clients, NEW opened \in Connectable(c), LStart(c, opened)
    PROVE  IInv'
<1>1. Fits(session[c], link[c], opens[c])
  BY DEF IInv
<1> DEFINE r == [session[c] EXCEPT
           !.attempt = 0, !.notice = NoNotice, !.clientId = NoClientId,
           !.connection = opened,
           !.state = IF opened = NoConnection THEN @ ELSE "ConnectingTransport"]
<1>2. session[c].state = "Idle" /\ session' = [session EXCEPT ![c] = r]
  BY DEF LStart, start, Becomes
<1>3. IsRecord(session[c]) /\ session[c].connection = NoConnection
  BY <1>1, <1>2 DEF Fits
<1>4. /\ IsRecord(r) /\ r.attempt = 0 /\ r.connection = opened
      /\ r.state = IF opened = NoConnection THEN "Idle" ELSE "ConnectingTransport"
  BY <1>2, <1>3 DEF IsRecord, Members
<1>5. \A conn \in Connections : link[c][conn] = "free"
  BY <1>1, <1>3, ClientAssumption DEF Fits
<1>6. /\ Linked(c, opened) \in [Connections -> Phase]
      /\ \A conn \in Connections : Linked(c, opened)[conn] # "free" => opened = conn
  BY <1>1, <1>5 DEF Linked, Fits, Phase, Connectable
<1> HIDE DEF r
<1>7. Fits(r, Linked(c, opened), 1)
  BY <1>4, <1>6, ClientAssumption DEF Fits, SessionState
<1> QED
  BY <1>2, <1>7, OneClientFits DEF LStart

\* No event, or one that says nothing of the connection.
LEMMA IdleInv ==
    ASSUME IInv, NEW c \in Clients, NEW opened \in Openings(c), LNothing(c, opened)
    PROVE  IInv'
BY ReopenedFits, OneClientFits DEF LNothing, PumpNothing, Becomes

\* The connection that comes up is the current one.
LEMMA ConnectedInv ==
    ASSUME IInv, NEW c \in Clients, NEW opened \in Openings(c), NEW conn \in Connections,
           LConnected(c, opened, conn)
    PROVE  IInv'
<1>1. PICK sent \in BOOLEAN, to \in {"asked", "broken"} :
        PumpConnected(c, opened, conn, sent) /\ Reports(c, opened, conn, {"opening"}, to)
  BY DEF LConnected
<1> DEFINE r0 == Reopened(c, opened)
           r == [r0 EXCEPT !.connection = conn, !.notice = NoNotice,
                           !.state = IF sent THEN "WaitingHandshake" ELSE "Failed"]
           l0 == Linked(c, opened)
           l == [l0 EXCEPT ![conn] = to]
           o == Opens(c)
<1>2. Fits(r0, l0, o)
  BY ReopenedFits
<1>3. /\ session' = [session EXCEPT ![c] = r]
      /\ link' = [link EXCEPT ![c] = l] /\ opens' = [opens EXCEPT ![c] = o]
      /\ l0[conn] # "free" /\ to \in Phase /\ to # "free"
  BY <1>1 DEF PumpConnected, Reports, Becomes, LConnected, Phase
<1>4. /\ IsRecord(r) /\ r.connection = conn /\ r.attempt = r0.attempt
      /\ r.state \in {"WaitingHandshake", "Failed"}
  BY <1>2 DEF Fits, IsRecord, Members
<1> HIDE DEF r, r0, l0, o
<1>5. /\ l \in [Connections -> Phase]
      /\ \A d \in Connections : l[d] # "free" => d = conn
  BY <1>2, <1>3, ReportFits
<1> HIDE DEF l
<1>6. Fits(r, l, o)
  BY <1>2, <1>4, <1>5 DEF Fits, SessionState
<1> QED
  BY <1>3, <1>6, OneClientFits

\* An accept starts the attempts again.
LEMMA AcceptInv ==
    ASSUME IInv, NEW c \in Clients, NEW opened \in Openings(c), NEW conn \in Connections,
           LAccept(c, opened, conn)
    PROVE  IInv'
<1>1. PICK nonce \in Nonces : PumpAccept(c, opened, conn, nonce, nonce)
  BY DEF LAccept
<1> DEFINE r0 == Reopened(c, opened)
           r == [r0 EXCEPT !.clientId = nonce, !.nonce = nonce, !.attempt = 0, !.state = "Connected"]
           l0 == Linked(c, opened)
           l == [l0 EXCEPT ![conn] = "accepted"]
<1>2. Fits(r0, l0, Opens(c))
  BY ReopenedFits
<1>3. /\ session' = [session EXCEPT ![c] = r]
      /\ link' = [link EXCEPT ![c] = l] /\ opens' = [opens EXCEPT ![c] = 0]
      /\ l0[conn] # "free" /\ "accepted" \in Phase
  BY <1>1 DEF PumpAccept, Reports, Becomes, LAccept, Phase
<1>4. /\ IsRecord(r) /\ r.connection = r0.connection /\ r.attempt = 0 /\ r.state = "Connected"
  BY <1>2 DEF Fits, IsRecord, Members
<1> HIDE DEF r, r0, l0
<1>5. /\ r0.connection = conn /\ l \in [Connections -> Phase]
      /\ \A d \in Connections : l[d] # "free" => d = conn
  BY <1>2, <1>3, ReportFits
<1> HIDE DEF l
<1>6. Fits(r, l, 0)
  BY <1>4, <1>5, ClientAssumption DEF Fits, SessionState
<1> QED
  BY <1>3, <1>6, OneClientFits

\* A refusal and the notice of one keep the connection.
LEMMA RefusalInv ==
    ASSUME IInv, NEW c \in Clients, NEW opened \in Openings(c), NEW conn \in Connections,
           LReject(c, opened, conn) \/ LNotice(c, opened, conn)
    PROVE  IInv'
<1> DEFINE r0 == Reopened(c, opened)
           l0 == Linked(c, opened)
           o == Opens(c)
<1>1. Fits(r0, l0, o)
  BY ReopenedFits
<1>2. ASSUME NEW r, NEW to \in Phase \ {"free"},
             IsRecord(r), r.connection = r0.connection, r.attempt = r0.attempt,
             r.state \in {r0.state, "Failed"}, l0[conn] # "free"
      PROVE  Fits(r, [l0 EXCEPT ![conn] = to], o)
  <2> DEFINE l == [l0 EXCEPT ![conn] = to]
  <2> HIDE DEF r0, l0, o
  <2>1. /\ r0.connection = conn /\ r0.state \notin {"Idle", "Reconnecting"}
        /\ l \in [Connections -> Phase]
        /\ \A d \in Connections : l[d] # "free" => d = conn
    BY <1>1, <1>2, ReportFits
  <2> HIDE DEF l
  <2>2. Fits(r, l, o)
    BY <1>1, <1>2, <2>1 DEF Fits, SessionState
  <2> QED
    BY <2>2 DEF l
<1>3. CASE LReject(c, opened, conn)
  <2> DEFINE r == [r0 EXCEPT !.state = "Failed"]
  <2>1. /\ session' = [session EXCEPT ![c] = r]
        /\ link' = [link EXCEPT ![c] = [l0 EXCEPT ![conn] = "refused"]]
        /\ opens' = [opens EXCEPT ![c] = o]
        /\ l0[conn] # "free" /\ "refused" \in Phase \ {"free"}
    BY <1>3 DEF LReject, PumpReject, Reports, Becomes, Phase
  <2>2. /\ IsRecord(r) /\ r.connection = r0.connection /\ r.attempt = r0.attempt
        /\ r.state = "Failed"
    BY <1>1 DEF Fits, IsRecord, Members
  <2> HIDE DEF r, r0, l0, o
  <2>3. Fits(r, [l0 EXCEPT ![conn] = "refused"], o)
    BY <1>2, <2>1, <2>2
  <2> QED
    BY <2>1, <2>3, OneClientFits
<1>4. CASE LNotice(c, opened, conn)
  <2>1. PICK reason : PumpNotice(c, opened, conn, reason)
    BY <1>4 DEF LNotice
  <2> DEFINE r == [r0 EXCEPT !.notice = reason]
  <2>2. /\ session' = [session EXCEPT ![c] = r]
        /\ link' = [link EXCEPT ![c] = [l0 EXCEPT ![conn] = "closing"]]
        /\ opens' = [opens EXCEPT ![c] = o]
        /\ l0[conn] # "free" /\ "closing" \in Phase \ {"free"}
    BY <1>4, <2>1 DEF LNotice, PumpNotice, Reports, Becomes, Phase
  <2>3. /\ IsRecord(r) /\ r.connection = r0.connection /\ r.attempt = r0.attempt
        /\ r.state = r0.state
    BY <1>1 DEF Fits, IsRecord, Members
  <2> HIDE DEF r, r0, l0, o
  <2>4. Fits(r, [l0 EXCEPT ![conn] = "closing"], o)
    BY <1>2, <2>2, <2>3
  <2> QED
    BY <2>2, <2>4, OneClientFits
<1> QED
  BY <1>3, <1>4

\* A lost connection is the client's own, and the attempt it costs is counted.
LEMMA DisconnectedInv ==
    ASSUME IInv, NEW c \in Clients, NEW opened \in Openings(c), NEW conn \in Connections,
           LDisconnected(c, opened, conn)
    PROVE  IInv'
<1>1. PICK reason \in DisconnectReason : PumpDisconnected(c, opened, conn, reason)
  BY DEF LDisconnected
<1> DEFINE r0 == Reopened(c, opened)
           why == IF r0.notice = NoNotice THEN reason ELSE r0.notice
           lost == [r0 EXCEPT !.notice = NoNotice, !.connection = NoConnection]
           retry == [lost EXCEPT !.attempt = @ + 1, !.state = "Reconnecting",
                                 !.retryIn = computeReconnectDelay(r0.attempt + 1)]
           ended == [lost EXCEPT !.state =
                        IF why \in {"ProtocolMismatch", "AssetMismatch", "AuthFailed"}
                        THEN "Failed" ELSE "Closed"]
           l0 == Linked(c, opened)
           l == [l0 EXCEPT ![conn] = "free"]
           o == Opens(c)
<1>2. Fits(r0, l0, o)
  BY ReopenedFits
<1>3. PICK r : /\ session' = [session EXCEPT ![c] = r]
               /\ \/ r0.attempt < MaxAttempts /\ r = retry
                  \/ r = ended
  BY <1>1 DEF PumpDisconnected, Becomes
<1>4. /\ link' = [link EXCEPT ![c] = l] /\ opens' = [opens EXCEPT ![c] = o]
      /\ l0[conn] # "free" /\ "free" \in Phase
  BY DEF Reports, LDisconnected, Phase
<1>5. IsRecord(r0)
  BY <1>2 DEF Fits
<1>6. IsRecord(lost) /\ lost.connection = NoConnection /\ lost.attempt = r0.attempt
  BY <1>5 DEF IsRecord, Members
<1>7. /\ IsRecord(retry) /\ retry.connection = NoConnection /\ retry.attempt = r0.attempt + 1
      /\ retry.state = "Reconnecting"
  <2> HIDE DEF lost, r0
  <2> QED
    BY <1>6 DEF IsRecord, Members
<1>8. /\ IsRecord(ended) /\ ended.connection = NoConnection /\ ended.attempt = r0.attempt
      /\ ended.state \in {"Failed", "Closed"}
  <2> HIDE DEF lost, r0, why
  <2> QED
    BY <1>6 DEF IsRecord, Members
<1> HIDE DEF r0, why, lost, retry, ended, l0, o
<1>9. /\ l \in [Connections -> Phase]
      /\ \A d \in Connections : l[d] = "free"
  BY <1>2, <1>4, ReportFits
<1> HIDE DEF l
<1>10. Fits(r, l, o)
  <2>1. CASE r0.attempt < MaxAttempts /\ r = retry
    <3>1. /\ r0.attempt \in 0..MaxAttempts /\ MaxAttempts \in Nat
          /\ o \in Nat /\ o <= r0.attempt + 1
      BY <1>2, ClientAssumption DEF Fits
    <3>2. r.attempt \in 0..MaxAttempts /\ o <= r.attempt
      BY <1>7, <2>1, <3>1
    <3>3. r.attempt \in Nat
      BY <3>1, <3>2
    <3> QED
      BY <1>7, <1>9, <2>1, <3>1, <3>2, <3>3 DEF Fits, SessionState
  <2>2. CASE r = ended
    BY <1>2, <1>8, <1>9, <2>2 DEF Fits, SessionState
  <2> QED
    BY <1>3, <2>1, <2>2
<1> QED
  BY <1>3, <1>4, <1>10, OneClientFits

\* The clock changes nothing but the time left.
LEMMA TickInv == ASSUME IInv, Tick PROVE IInv'
<1>1. ASSUME NEW c \in Clients PROVE Fits(session'[c], link'[c], opens'[c])
  <2>1. Fits(session[c], link[c], opens[c])
    BY DEF IInv
  <2>2. session'[c] = [session[c] EXCEPT !.retryIn = IF @ = 0 THEN 0 ELSE @ - 1]
    BY DEF Tick, ClockTick
  <2>3. /\ IsRecord(session'[c]) /\ session'[c].state = session[c].state
        /\ session'[c].connection = session[c].connection
        /\ session'[c].attempt = session[c].attempt
    BY <2>1, <2>2 DEF Fits, IsRecord, Members
  <2>4. link'[c] = link[c] /\ opens'[c] = opens[c]
    BY DEF Tick
  <2> QED
    BY <2>1, <2>3, <2>4 DEF Fits
<1>2. /\ DOMAIN session' = Clients /\ session' = [c \in Clients |-> session'[c]]
      /\ link' = [c \in Clients |-> link'[c]]
      /\ opens' = [c \in Clients |-> opens'[c]]
  BY DEF IInv, Tick, ClockTick
<1> QED
  BY <1>1, <1>2 DEF IInv

------------------------------------------------------------------------------
\* No client has started.
LEMMA InitInv == LInit => IInv
<1> SUFFICES ASSUME LInit PROVE IInv
  OBVIOUS
<1>1. /\ session = [c \in Clients |-> session[c]] /\ link = [c \in Clients |-> link[c]]
      /\ opens = [c \in Clients |-> opens[c]] /\ DOMAIN session = Clients
  BY DEF LInit, Init
<1>2. ASSUME NEW c \in Clients PROVE Fits(session[c], link[c], opens[c])
  <2>1. /\ session[c] = [state |-> "Idle", connection |-> NoConnection, nonce |-> NoNonce,
                         clientId |-> NoClientId, attempt |-> 0, retryIn |-> 0, notice |-> NoNotice]
        /\ link[c] = [conn \in Connections |-> "free"] /\ opens[c] = 0
    BY DEF LInit, Init
  <2>2. IsRecord(session[c])
    BY <2>1 DEF IsRecord, Members
  <2> QED
    BY <2>1, <2>2, ClientAssumption DEF Fits, SessionState, Phase
<1> QED
  BY <1>1, <1>2 DEF IInv

\* Every step of every client keeps the invariant.
LEMMA NextInv == ASSUME IInv, [Next]_vars PROVE IInv'
<1>1. CASE UNCHANGED vars
  BY <1>1 DEF IInv, vars
<1>2. CASE Tick
  BY <1>2, TickInv
<1>3. ASSUME NEW c \in Clients, NEW opened \in Connectable(c), LStart(c, opened)
      PROVE  IInv'
  BY <1>3, StartInv
<1>4. ASSUME NEW c \in Clients, Idle(c) PROVE IInv'
  BY <1>4, IdleInv DEF Idle
<1>5. ASSUME NEW c \in Clients, Report(c) PROVE IInv'
  BY <1>5, ConnectedInv, AcceptInv, RefusalInv, DisconnectedInv DEF Report
<1>6. ASSUME NEW c \in Clients, NEW opened \in Openings(c), NEW conn \in Connections,
             LNotice(c, opened, conn)
      PROVE  IInv'
  BY <1>6, RefusalInv
<1> QED
  BY <1>1, <1>2, <1>3, <1>4, <1>5, <1>6 DEF Next

\* No retry opens a second connection or forgets the one there is, whatever the
\* transport and the server do: ClientTransportSession has one connection.
THEOREM OneLink == SafeSpec => []NoForgottenLink
<1>1. LInit => IInv
  BY InitInv
<1>2. IInv /\ [Next]_vars => IInv'
  BY NextInv
<1>3. IInv => NoForgottenLink
  BY DEF IInv, Fits, NoForgottenLink
<1> QED
  BY <1>1, <1>2, <1>3, PTL DEF SafeSpec

\* However far each connection gets before it fails, connect() is called at most
\* once more than ReconnectPolicy::maxAttempts without an accept in between.
THEOREM BudgetKept == SafeSpec => []AttemptBudget
<1>1. LInit => IInv
  BY InitInv
<1>2. IInv /\ [Next]_vars => IInv'
  BY NextInv
<1>3. IInv => AttemptBudget
  <2> SUFFICES ASSUME IInv, NEW c \in Clients PROVE opens[c] <= MaxAttempts + 1
    BY DEF AttemptBudget
  <2>1. opens[c] \in Nat /\ opens[c] <= session[c].attempt + 1 /\ session[c].attempt \in 0..MaxAttempts
    BY DEF IInv, Fits
  <2> QED
    BY <2>1, ClientAssumption
<1> QED
  BY <1>1, <1>2, <1>3, PTL DEF SafeSpec
==============================================================================
