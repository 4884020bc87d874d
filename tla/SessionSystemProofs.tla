------------------------- MODULE SessionSystemProofs --------------------------
(***************************************************************************)
(* Proofs about SessionSystem: what the two ends of a session agree on,    *)
(* for any clients, connections, windows and delays, any number of cut     *)
(* connections, kicks and server crashes.  The server's own invariant Inv  *)
(* and its lemmas come from ServerSessionProofs (the histories of          *)
(* SessionHistory, which they bring along, play no part here).             *)
(***************************************************************************)
EXTENDS SessionSystem, ServerSessionProofs, SequenceTheorems

Members == {"state", "connection", "nonce", "clientId", "attempt", "retryIn", "notice"}

IsRecord(s) == s = [member \in Members |-> s[member]]

ClientMessages ==
    {Connected, Reject} \cup [kind : {"Accept"}, clientId : Nat, nonce : Nat]
        \cup [kind : {"Notice", "Lost"}, reason : DisconnectReason]

ServerMessages ==
    [kind : {"Request"}, request : HandshakeRequest] \cup [kind : {"User"}, clientId : Nat]
        \cup [kind : {"Lost"}, reason : DisconnectReason]

LinkTypes ==
    /\ stage \in [Connections -> {"unused", "opening", "up", "cut"}]
    /\ owner \in [Connections -> Clients \cup {Nobody}]
    /\ toClient \in [Connections -> Seq(ClientMessages)]
    /\ toServer \in [Connections -> Seq(ServerMessages)]
    /\ gone \subseteq Clients
    /\ crashes \in 0..MaxCrashes
    /\ DOMAIN session = Clients

\* c was given client id `id`, and with it the nonce of the same number.  After
\* a crash the server counts from 1 again, and holder knows nothing of before.
WasIssued(c, id) == crashes = 0 => id \in DOMAIN holder /\ holder[id] = c

\* The tables of the server: nonces are numbered like ids, and a session keeps
\* the token of the client it was issued to.
ServerFits ==
    /\ nextSessionNonce = nextClientId
    /\ DOMAIN holder = 1..nextClientId - 1
    /\ \A id \in DOMAIN holder : holder[id] \in Clients
    /\ \A id \in DOMAIN sessionsByClientId :
          /\ sessionsByClientId[id].sessionNonce = id
          /\ sessionsByClientId[id].authToken = TokenOf[holder[id]]

\* A client has a connection, its own, as long as it is in a session or opens one.
ClientFits(c) ==
    /\ IsRecord(session[c])
    /\ session[c].state \in Client!SessionState
    /\ session[c].connection \in Connections \cup {NoConnection}
    /\ session[c].state \in {"Idle", "Closed", "Reconnecting"} => session[c].connection = NoConnection
    /\ session[c].state \in {"ConnectingTransport", "WaitingHandshake", "Connected"} =>
           session[c].connection \in Connections
    /\ session[c].connection \in Connections => owner[session[c].connection] = c
    /\ session[c].nonce \in Nat /\ session[c].clientId = session[c].nonce
    /\ session[c].state = "Idle" => session[c].nonce = NoNonce
    /\ session[c].nonce # NoNonce => WasIssued(c, session[c].nonce)

\* The server will not use conn any more: it is cut, or the server closed it.
Down(conn) == stage[conn] = "cut" \/ conn \in closed

\* The client of conn uses it.
InUse(conn) ==
    /\ owner[conn] \in Clients \ gone
    /\ session[owner[conn]].connection = conn

\* The client of conn has not handled the report that conn came up.
Awaited(conn) ==
    /\ owner[conn] \in Clients
    /\ session[owner[conn]].connection = conn
    /\ session[owner[conn]].state = "ConnectingTransport"

StageFits(conn) ==
    /\ owner[conn] = Nobody <=> stage[conn] = "unused"
    /\ stage[conn] \in {"unused", "opening"} =>
           toClient[conn] = << >> /\ toServer[conn] = << >> /\ inbound[conn] = "fresh"
    /\ stage[conn] = "opening" => Awaited(conn)
    /\ stage[conn] # "unused" /\ ~InUse(conn) => toClient[conn] = << >> /\ Down(conn)
    /\ inbound[conn] = "gone" => stage[conn] = "cut"
    /\ Awaited(conn) => inbound[conn] # "asked"

\* An accept on its way: while the link is up conn is bound to the id it tells,
\* and a client that held another id has lost that session.
AcceptFits(conn, accept) ==
    /\ accept.nonce = accept.clientId
    /\ ~Down(conn) => /\ conn \in DOMAIN clientIdByConnection
                      /\ clientIdByConnection[conn] = accept.clientId
    /\ WasIssued(owner[conn], accept.clientId)
    /\ crashes = 0 => session[owner[conn]].clientId \in {0, accept.clientId}
                         \/ session[owner[conn]].clientId \notin DOMAIN sessionsByClientId

\* What may be in the queue of a client: first the report that the connection
\* came up, nothing from the server before the request was sent, one accept, and
\* a loss as the last event.
ToClientFits(conn) ==
    \A i \in DOMAIN toClient[conn] :
        LET message == toClient[conn][i]
        IN /\ message.kind = "Connected" => i = 1 /\ Awaited(conn)
           /\ message.kind \in {"Accept", "Reject", "Notice"} =>
                  ~Awaited(conn) /\ inbound[conn] # "fresh"
           /\ message.kind = "Lost" => i = Len(toClient[conn]) /\ Down(conn)
           /\ message.kind = "Accept" =>
                  /\ AcceptFits(conn, message)
                  /\ \A j \in DOMAIN toClient[conn] : toClient[conn][j].kind = "Accept" => j = i

\* A request on its way carries its client's token and nonce.
RequestFits(conn, request) ==
    /\ request.authToken = TokenOf[owner[conn]]
    /\ request.requestedSessionNonce # NoNonce =>
           WasIssued(owner[conn], request.requestedSessionNonce)
    /\ InUse(conn) => request.requestedSessionNonce = session[owner[conn]].nonce

\* What may be in the server's queue of conn: a request as the first message on
\* it, game messages after the answer, and a loss only of a connection that is cut.
ToServerFits(conn) ==
    \A i \in DOMAIN toServer[conn] :
        LET message == toServer[conn][i]
        IN /\ message.kind = "Request" =>
                  /\ i = 1 /\ inbound[conn] = "fresh" /\ ~Awaited(conn)
                  /\ RequestFits(conn, message.request)
           /\ message.kind = "User" =>
                  /\ inbound[conn] # "fresh"
                  /\ conn \in DOMAIN clientIdByConnection =>
                         clientIdByConnection[conn] = message.clientId
           /\ message.kind = "Lost" => stage[conn] = "cut"

\* A client in a session on a link that is not down is bound to it.
BindingFits(conn) ==
    /\ owner[conn] \in Clients
    /\ session[owner[conn]].connection = conn
    /\ session[owner[conn]].state = "Connected"
    /\ ~Down(conn)
    => /\ conn \in DOMAIN clientIdByConnection
       /\ clientIdByConnection[conn] = session[owner[conn]].clientId

LinkFits(conn) ==
    StageFits(conn) /\ ToClientFits(conn) /\ ToServerFits(conn) /\ BindingFits(conn)

\* Only once the server has crashed and counts again from 1 does it take a
\* token to tell whose session a nonce stands for.
TokensTell == crashes = 0 \/ \A c, d \in Clients : TokenOf[c] = TokenOf[d] => c = d

Owned == TokensTell =>
    \A conn \in DOMAIN clientIdByConnection : holder[clientIdByConnection[conn]] = owner[conn]

\* The inductive invariant.
IInv ==
    /\ Inv
    /\ LinkTypes
    /\ ServerFits
    /\ \A c \in Clients : ClientFits(c)
    /\ \A conn \in Connections : LinkFits(conn)
    /\ Owned

------------------------------------------------------------------------------
(* Queues. *)

LEMMA CutFits ==
    ASSUME NEW S, NEW queue \in Seq(S), NEW cut \in Cuts(queue)
    PROVE  /\ cut \in Seq(S)
           /\ Len(cut) <= Len(queue)
           /\ \A i \in DOMAIN cut : i \in DOMAIN queue /\ cut[i] = queue[i]
<1>1. PICK n \in 0..Len(queue) : cut = SubSeq(queue, 1, n)
  BY DEF Cuts
<1>2. \A i \in 1..n : queue[i] \in S
  BY ElementOfSeq, LenProperties
<1>3. /\ cut \in Seq(S)
      /\ Len(cut) = IF 1 <= n THEN n - 1 + 1 ELSE 0
      /\ \A i \in 1..n - 1 + 1 : cut[i] = queue[1 + i - 1]
  BY <1>1, <1>2, SubSeqProperties, LenProperties
<1> QED
  BY <1>1, <1>3, LenProperties

LEMMA TailFits ==
    ASSUME NEW S, NEW queue \in Seq(S), queue # << >>
    PROVE  /\ Tail(queue) \in Seq(S)
           /\ Len(Tail(queue)) = Len(queue) - 1
           /\ 1 \in DOMAIN queue /\ Head(queue) = queue[1] /\ Head(queue) \in S
           /\ \A i \in DOMAIN Tail(queue) :
                 i + 1 \in DOMAIN queue /\ Tail(queue)[i] = queue[i + 1]
BY HeadTailProperties, LenProperties, EmptySeq

LEMMA AppendFits ==
    ASSUME NEW S, NEW queue \in Seq(S), NEW m \in S
    PROVE  /\ Append(queue, m) \in Seq(S)
           /\ Len(Append(queue, m)) = Len(queue) + 1
           /\ DOMAIN Append(queue, m) = DOMAIN queue \cup {Len(queue) + 1}
           /\ \A i \in DOMAIN queue : i # Len(queue) + 1 /\ Append(queue, m)[i] = queue[i]
           /\ Append(queue, m)[Len(queue) + 1] = m
BY AppendProperties, LenProperties

LEMMA OneElement ==
    ASSUME NEW m
    PROVE  DOMAIN <<m>> = {1} /\ <<m>>[1] = m
OBVIOUS

LEMMA MessageTypes ==
    /\ Connected \in ClientMessages /\ Connected.kind = "Connected"
    /\ Reject \in ClientMessages /\ Reject.kind = "Reject"
    /\ \A id, nonce \in Nat : /\ Accept(id, nonce) \in ClientMessages
                              /\ Accept(id, nonce).kind = "Accept"
                              /\ Accept(id, nonce).clientId = id /\ Accept(id, nonce).nonce = nonce
    /\ \A reason \in DisconnectReason :
          /\ Notice(reason) \in ClientMessages /\ Notice(reason).kind = "Notice"
          /\ Lost(reason) \in ClientMessages /\ Lost(reason).kind = "Lost"
          /\ Lost(reason) \in ServerMessages
    /\ \A request \in HandshakeRequest :
          /\ Request(request) \in ServerMessages /\ Request(request).kind = "Request"
          /\ Request(request).request = request
    /\ \A id \in Nat : /\ User(id) \in ServerMessages /\ User(id).kind = "User"
                       /\ User(id).clientId = id
    /\ \A message \in ClientMessages :
          /\ message.kind \in {"Connected", "Accept", "Reject", "Notice", "Lost"}
          /\ message.kind = "Accept" => message.clientId \in Nat /\ message.nonce \in Nat
    /\ \A message \in ServerMessages :
          /\ message.kind \in {"Request", "User", "Lost"}
          /\ message.kind = "Request" => message.request \in HandshakeRequest
          /\ message.kind = "User" => message.clientId \in Nat
BY DEF ClientMessages, ServerMessages, Connected, Reject, Accept, Notice, Lost, Request, User

\* What the client of a connection may still get to see when the server hangs up.
LEMMA ClosingsFit ==
    ASSUME NEW conn \in Connections, toClient[conn] \in Seq(ClientMessages),
           NEW messages \in Seq({Reject}), NEW reason \in DisconnectReason,
           NEW seen \in Closings(conn, messages, reason)
    PROVE  /\ seen \in Seq(ClientMessages)
           /\ stage[conn] # "up" \/ conn \in closed => seen = toClient[conn]
           /\ ~(stage[conn] # "up" \/ conn \in closed) =>
                  /\ seen[Len(seen)].kind = "Lost"
                  /\ \A i \in DOMAIN seen :
                        \/ i = Len(seen)
                        \/ i \in DOMAIN toClient[conn] /\ seen[i] = toClient[conn][i]
                        \/ seen[i].kind \in {"Reject", "Notice"}
<1>1. CASE stage[conn] # "up" \/ conn \in closed
  BY <1>1 DEF Closings
<1>2. CASE ~(stage[conn] # "up" \/ conn \in closed)
  <2> DEFINE sent == toClient[conn] \o messages
             all == sent \o <<Notice(reason)>>
  <2>1. messages \in Seq(ClientMessages) /\ <<Notice(reason)>> \in Seq(ClientMessages)
    BY MessageTypes, SeqMonotonic
  <2>2. /\ sent \in Seq(ClientMessages) /\ Len(sent) = Len(toClient[conn]) + Len(messages)
        /\ \A i \in 1..Len(toClient[conn]) + Len(messages) :
              sent[i] = IF i <= Len(toClient[conn]) THEN toClient[conn][i]
                        ELSE messages[i - Len(toClient[conn])]
    BY <2>1, ConcatProperties
  <2> HIDE DEF sent
  <2>3. /\ all \in Seq(ClientMessages) /\ Len(all) = Len(sent) + 1
        /\ \A i \in 1..Len(sent) + 1 : all[i] = IF i <= Len(sent) THEN sent[i] ELSE Notice(reason)
    <3>1. /\ all \in Seq(ClientMessages) /\ Len(all) = Len(sent) + Len(<<Notice(reason)>>)
          /\ \A i \in 1..Len(sent) + Len(<<Notice(reason)>>) :
                all[i] = IF i <= Len(sent) THEN sent[i] ELSE <<Notice(reason)>>[i - Len(sent)]
      BY <2>1, <2>2, ConcatProperties
    <3> QED
      BY <3>1, <2>2, LenProperties
  <2>4. \A i \in DOMAIN all :
            \/ i \in DOMAIN toClient[conn] /\ all[i] = toClient[conn][i]
            \/ all[i].kind \in {"Reject", "Notice"}
    <3> SUFFICES ASSUME NEW i \in DOMAIN all
                 PROVE  \/ i \in DOMAIN toClient[conn] /\ all[i] = toClient[conn][i]
                        \/ all[i].kind \in {"Reject", "Notice"}
      OBVIOUS
    <3>1. /\ Len(toClient[conn]) \in Nat /\ Len(messages) \in Nat /\ Len(sent) \in Nat
          /\ DOMAIN toClient[conn] = 1..Len(toClient[conn]) /\ DOMAIN all = 1..Len(all)
      BY <2>1, <2>2, <2>3, LenProperties
    <3>2. CASE i <= Len(toClient[conn])
      BY <3>1, <3>2, <2>2, <2>3
    <3>3. CASE i > Len(toClient[conn]) /\ i <= Len(sent)
      <4>1. all[i] = messages[i - Len(toClient[conn])]
        BY <3>1, <3>3, <2>2, <2>3
      <4>2. i - Len(toClient[conn]) \in 1..Len(messages)
        BY <3>1, <3>3, <2>2, <2>3
      <4>3. all[i] \in {Reject}
        BY <4>1, <4>2, ElementOfSeq
      <4> QED
        BY <4>3, MessageTypes
    <3>4. CASE i > Len(sent)
      <4>1. all[i] = Notice(reason)
        BY <3>1, <3>4, <2>2, <2>3
      <4> QED
        BY <4>1, MessageTypes
    <3> QED
      BY <3>1, <3>2, <3>3, <3>4
  <2>5. PICK cut \in Cuts(all) : seen = Append(cut, Lost(reason))
    BY <1>2 DEF Closings, Kept, sent
  <2> HIDE DEF all
  <2>6. cut \in Seq(ClientMessages) /\ \A i \in DOMAIN cut : i \in DOMAIN all /\ cut[i] = all[i]
    BY <2>3, CutFits
  <2>7. /\ seen \in Seq(ClientMessages) /\ Len(seen) = Len(cut) + 1
        /\ DOMAIN seen = DOMAIN cut \cup {Len(cut) + 1}
        /\ \A i \in DOMAIN cut : seen[i] = cut[i]
        /\ seen[Len(cut) + 1] = Lost(reason)
    BY <2>5, <2>6, AppendFits, MessageTypes
  <2> QED
    BY <1>2, <2>4, <2>6, <2>7, MessageTypes
<1> QED
  BY <1>1, <1>2

------------------------------------------------------------------------------
(* What a step leaves alone. *)

\* Ids are not issued twice, and no session comes back.
Grows ==
    /\ crashes' = crashes
    /\ \A id \in DOMAIN holder : id \in DOMAIN holder' /\ holder'[id] = holder[id]
    /\ \A id \in DOMAIN holder \cap DOMAIN sessionsByClientId' : id \in DOMAIN sessionsByClientId

LEMMA StillIssued ==
    ASSUME Grows, NEW c, NEW id, WasIssued(c, id)
    PROVE  crashes' = 0 => id \in DOMAIN holder' /\ holder'[id] = c
BY DEF Grows, WasIssued

LEMMA UnchangedGrows ==
    ASSUME UNCHANGED <<crashes, holder, sessionsByClientId>>
    PROVE  Grows
BY DEF Grows

LEMMA ClientKept ==
    ASSUME NEW c \in Clients, ClientFits(c), Grows, session'[c] = session[c],
           \A conn \in Connections : owner[conn] = c => owner'[conn] = c
    PROVE  ClientFits(c)'
<1> DEFINE nonce == session[c].nonce
<1>1. nonce # NoNonce => WasIssued(c, nonce)
  BY DEF ClientFits
<1>2. nonce # NoNonce /\ crashes' = 0 => nonce \in DOMAIN holder' /\ holder'[nonce] = c
  BY <1>1, StillIssued
<1>3. IsRecord(session[c])'
  BY DEF ClientFits, IsRecord
<1> QED
  BY <1>2, <1>3 DEF ClientFits, WasIssued

\* The server's end of a connection: its queue and its binding are as they were.
SameEnd(conn) ==
    /\ toServer'[conn] = toServer[conn]
    /\ inbound'[conn] = inbound[conn]
    /\ conn \in closed' <=> conn \in closed
    /\ conn \in DOMAIN clientIdByConnection' <=> conn \in DOMAIN clientIdByConnection
    /\ conn \in DOMAIN clientIdByConnection => clientIdByConnection'[conn] = clientIdByConnection[conn]

\* The client is as it was, but for its timer and the notice it remembers.
Alike(c) ==
    /\ session'[c].state = session[c].state
    /\ session'[c].connection = session[c].connection
    /\ session'[c].nonce = session[c].nonce
    /\ session'[c].clientId = session[c].clientId

\* The client of conn, if it has one, does not use it or is as it was.
SameClient(conn) ==
    /\ owner'[conn] = owner[conn]
    /\ \/ owner[conn] = Nobody
       \/ Alike(owner[conn])
       \/ session[owner[conn]].connection # conn /\ session'[owner[conn]].connection # conn

LEMMA LinkKept ==
    ASSUME NEW conn \in Connections, LinkTypes, ServerFits, LinkFits(conn),
           \A c \in Clients : ClientFits(c),
           Grows, SameEnd(conn), SameClient(conn), owner[conn] \in gone' <=> owner[conn] \in gone,
           stage'[conn] = stage[conn], toClient'[conn] = toClient[conn]
    PROVE  LinkFits(conn)'
<1>1. /\ owner[conn] \in Clients \cup {Nobody} /\ Nobody \notin Clients
      /\ toClient[conn] \in Seq(ClientMessages) /\ toServer[conn] \in Seq(ServerMessages)
  BY SystemAssumption DEF LinkTypes
<1>2. /\ InUse(conn)' <=> InUse(conn)
      /\ Awaited(conn)' <=> Awaited(conn)
      /\ Down(conn)' <=> Down(conn)
      /\ InUse(conn) => Alike(owner[conn])
      /\ owner[conn] \in Clients /\ session[owner[conn]].connection = conn => Alike(owner[conn])
  BY <1>1 DEF InUse, Awaited, Down, SameClient, SameEnd, Alike
<1>3. StageFits(conn)'
  BY <1>2 DEF LinkFits, StageFits, SameEnd, SameClient
<1>4. BindingFits(conn)'
  BY <1>1, <1>2 DEF LinkFits, BindingFits, SameEnd, SameClient, Alike
<1>5. ToServerFits(conn)'
  <2> SUFFICES ASSUME NEW i \in DOMAIN toServer[conn]
               PROVE  LET message == toServer[conn][i]
                      IN /\ message.kind = "Request" =>
                                /\ i = 1 /\ inbound'[conn] = "fresh" /\ ~Awaited(conn)'
                                /\ RequestFits(conn, message.request)'
                         /\ message.kind = "User" =>
                                /\ inbound'[conn] # "fresh"
                                /\ conn \in DOMAIN clientIdByConnection' =>
                                       clientIdByConnection'[conn] = message.clientId
                         /\ message.kind = "Lost" => stage'[conn] = "cut"
    BY DEF ToServerFits, SameEnd, RequestFits, InUse, WasIssued
  <2> DEFINE request == toServer[conn][i].request
  <2>1. ASSUME toServer[conn][i].kind = "Request"
        PROVE  RequestFits(conn, request)'
    <3>1. RequestFits(conn, request)
      BY <2>1 DEF LinkFits, ToServerFits
    <3>2. request.requestedSessionNonce # NoNonce /\ crashes' = 0 =>
             /\ request.requestedSessionNonce \in DOMAIN holder'
             /\ holder'[request.requestedSessionNonce] = owner[conn]
      BY <3>1, StillIssued DEF RequestFits
    <3>3. request' = request /\ owner'[conn] = owner[conn]
      BY DEF SameEnd, SameClient
    <3> HIDE DEF request
    <3> QED
      BY <1>2, <3>1, <3>2, <3>3 DEF RequestFits, WasIssued, Alike
  <2> QED
    BY <1>2, <2>1 DEF LinkFits, ToServerFits, SameEnd
<1>6. ToClientFits(conn)'
  <2> SUFFICES ASSUME NEW i \in DOMAIN toClient[conn]
               PROVE  LET message == toClient[conn][i]
                      IN /\ message.kind = "Connected" => i = 1 /\ Awaited(conn)'
                         /\ message.kind \in {"Accept", "Reject", "Notice"} =>
                                ~Awaited(conn)' /\ inbound'[conn] # "fresh"
                         /\ message.kind = "Lost" => i = Len(toClient[conn]) /\ Down(conn)'
                         /\ message.kind = "Accept" =>
                                /\ AcceptFits(conn, message)'
                                /\ \A j \in DOMAIN toClient[conn] :
                                      toClient[conn][j].kind = "Accept" => j = i
    BY DEF ToClientFits, AcceptFits, WasIssued, Down
  <2> DEFINE accept == toClient[conn][i]
  <2>1. ASSUME accept.kind = "Accept"
        PROVE  AcceptFits(conn, accept)'
    <3>1. AcceptFits(conn, accept) /\ toClient[conn] # << >>
      BY <1>1, <2>1 DEF LinkFits, ToClientFits
    <3>2. stage[conn] # "unused" /\ InUse(conn)
      BY <3>1 DEF LinkFits, StageFits
    <3>3. owner[conn] \in Clients /\ Alike(owner[conn])
      BY <1>2, <3>2 DEF InUse
    <3>4. crashes' = 0 => accept.clientId \in DOMAIN holder' /\ holder'[accept.clientId] = owner[conn]
      BY <3>1, StillIssued DEF AcceptFits
    <3>5. session[owner[conn]].clientId # 0 /\ crashes = 0 =>
             session[owner[conn]].clientId \in DOMAIN holder
      BY <3>3 DEF ClientFits, WasIssued, NoNonce
    <3>6. accept' = accept /\ owner'[conn] = owner[conn] /\ crashes' = crashes
      BY DEF Grows, SameClient
    <3> HIDE DEF accept
    <3> QED
      BY <1>2, <3>1, <3>3, <3>4, <3>5, <3>6 DEF AcceptFits, WasIssued, SameEnd, Grows, Alike
  <2> QED
    BY <1>2, <2>1 DEF LinkFits, ToClientFits, SameEnd
<1> QED
  BY <1>3, <1>4, <1>5, <1>6 DEF LinkFits

------------------------------------------------------------------------------
(* Steps of the clients and of the network: the server is as it was. *)

LEMMA BoundIsOwned ==
    ASSUME IInv, NEW conn \in DOMAIN clientIdByConnection
    PROVE  /\ conn \in Connections /\ inbound[conn] = "asked"
           /\ stage[conn] \in {"up", "cut"}
           /\ owner[conn] \in Clients
           /\ clientIdByConnection[conn] \in DOMAIN sessionsByClientId
           /\ conn \notin closed
<1>1. conn \in Connections /\ inbound[conn] = "asked"
  BY DEF IInv, Inv, TypeOK
<1>2. LinkFits(conn) /\ LinkTypes
  BY <1>1 DEF IInv
<1>3. stage[conn] \in {"up", "cut"} /\ owner[conn] \in Clients
  BY <1>1, <1>2 DEF LinkFits, StageFits, LinkTypes
<1> QED
  BY <1>1, <1>3 DEF IInv, Inv, DirectoryConsistent, NoSessionOnClosedLink

LEMMA ServerKept ==
    ASSUME IInv, UNCHANGED <<vars, holder, crashes>>,
           \A conn \in Connections : owner[conn] # Nobody => owner'[conn] = owner[conn]
    PROVE  /\ Inv' /\ ServerFits' /\ Owned' /\ Grows
           /\ \A conn : toServer'[conn] = toServer[conn] => SameEnd(conn)
<1>1. Inv'
  BY NextInv DEF IInv
<1>2. ServerFits' /\ Grows
  BY DEF IInv, ServerFits, Grows, vars
<1>3. Owned'
  <2>1. \A conn \in DOMAIN clientIdByConnection : owner'[conn] = owner[conn]
    BY BoundIsOwned, SystemAssumption
  <2> QED
    BY <2>1 DEF IInv, Owned, TokensTell, vars
<1> QED
  BY <1>1, <1>2, <1>3 DEF SameEnd, vars

LEMMA OpenStep ==
    ASSUME IInv, NEW c \in Clients, NEW conn \in Connections, c \notin gone, Opens(c, conn),
           session[c].connection = NoConnection,
           IsRecord(session'[c]),
           session'[c].connection = conn, session'[c].state = "ConnectingTransport",
           session'[c].nonce = session[c].nonce, session'[c].clientId = session'[c].nonce,
           DOMAIN session' = Clients,
           \A d \in Clients \ {c} : session'[d] = session[d]
    PROVE  IInv'
<1>1. /\ conn \in Unused /\ UNCHANGED <<vars, toClient, toServer, gone, crashes, holder>>
      /\ stage' = [stage EXCEPT ![conn] = "opening"]
      /\ owner' = [owner EXCEPT ![conn] = c]
  BY DEF Opens
<1>2. /\ stage[conn] = "unused" /\ owner[conn] = Nobody /\ Nobody \notin Clients
      /\ toClient[conn] = << >> /\ toServer[conn] = << >> /\ inbound[conn] = "fresh"
  BY <1>1, SystemAssumption DEF Unused, IInv, LinkFits, StageFits
<1>3. /\ owner'[conn] = c /\ stage'[conn] = "opening"
      /\ \A other \in Connections \ {conn} :
            owner'[other] = owner[other] /\ stage'[other] = stage[other]
      /\ LinkTypes'
  BY <1>1 DEF IInv, LinkTypes
<1>4. /\ Inv' /\ ServerFits' /\ Owned' /\ Grows
      /\ \A other : SameEnd(other)
  BY <1>1, <1>2, <1>3, ServerKept
<1>5. ASSUME NEW d \in Clients
      PROVE  ClientFits(d)'
  <2>1. CASE d = c
    BY <2>1, <1>1, <1>3, ServerAssumption
       DEF IInv, ClientFits, Client!SessionState, WasIssued
  <2>2. CASE d # c
    BY <2>2, <1>2, <1>3, <1>4, ClientKept DEF IInv
  <2> QED
    BY <2>1, <2>2
<1>6. ASSUME NEW other \in Connections \ {conn}
      PROVE  LinkFits(other)'
  <2>1. SameClient(other)
    <3>1. \A d \in Clients \ {c} : Alike(d)
      BY DEF Alike
    <3>2. session[c].connection # other /\ session'[c].connection # other
      BY ServerAssumption
    <3> QED
      BY <1>3, <3>1, <3>2 DEF SameClient, IInv, LinkTypes
  <2> QED
    BY <2>1, <1>1, <1>3, <1>4, LinkKept DEF IInv
<1>7. LinkFits(conn)'
  <2>1. Awaited(conn)' /\ InUse(conn)'
    BY <1>1, <1>3 DEF Awaited, InUse
  <2>2. toClient'[conn] = << >> /\ toServer'[conn] = << >> /\ inbound'[conn] = "fresh"
    BY <1>1, <1>2 DEF vars
  <2> QED
    BY <1>2, <1>3, <2>1, <2>2
       DEF LinkFits, StageFits, ToClientFits, ToServerFits, BindingFits
<1> QED
  BY <1>3, <1>4, <1>5, <1>6, <1>7 DEF IInv

LEMMA StartStep ==
    ASSUME IInv, NEW c \in Clients, Start(c)
    PROVE  IInv'
<1>1. PICK conn \in Connections : c \notin gone /\ Client!start(c, conn) /\ Opens(c, conn)
  BY DEF Start
<1> DEFINE r == [session[c] EXCEPT
           !.attempt = 0, !.notice = Client!NoNotice, !.clientId = Client!NoClientId,
           !.connection = conn,
           !.state = IF conn = NoConnection THEN @ ELSE "ConnectingTransport"]
<1>2. /\ session[c].state = "Idle" /\ session' = [session EXCEPT ![c] = r]
      /\ c \in DOMAIN session /\ DOMAIN session = Clients /\ ClientFits(c)
  BY <1>1 DEF Client!start, Client!Becomes, IInv, LinkTypes
<1>3. /\ r.connection = conn /\ r.state = "ConnectingTransport" /\ IsRecord(r)
      /\ r.nonce = session[c].nonce /\ r.clientId = 0
  BY <1>2, ServerAssumption DEF ClientFits, IsRecord, Members, Client!NoClientId
<1>4. session[c].nonce = 0 /\ session[c].connection = NoConnection
  BY <1>2 DEF ClientFits, NoNonce
<1> HIDE DEF r
<1> QED
  BY <1>1, <1>2, <1>3, <1>4, OpenStep

LEMMA RetryStep ==
    ASSUME IInv, NEW c \in Clients, Retry(c)
    PROVE  IInv'
<1>1. PICK conn \in Connections : Client!PumpNothing(c, conn) /\ Opens(c, conn)
  BY DEF Retry
<1> DEFINE r == [session[c] EXCEPT
             !.connection = conn,
             !.state = IF conn = NoConnection THEN "Failed" ELSE "ConnectingTransport"]
<1>2. /\ session[c].state = "Reconnecting" /\ c \notin gone
      /\ session' = [session EXCEPT ![c] = r]
      /\ c \in DOMAIN session /\ DOMAIN session = Clients /\ ClientFits(c)
  BY <1>1 DEF Retry, Client!RetryDue, Client!PumpNothing, Client!Reopened, Client!Becomes,
              IInv, LinkTypes
<1>3. /\ r.connection = conn /\ r.state = "ConnectingTransport" /\ IsRecord(r)
      /\ r.nonce = session[c].nonce /\ r.clientId = session[c].nonce
  BY <1>2, ServerAssumption DEF ClientFits, IsRecord, Members
<1>4. session[c].connection = NoConnection
  BY <1>2 DEF ClientFits
<1> HIDE DEF r
<1> QED
  BY <1>1, <1>2, <1>3, <1>4, OpenStep

\* Only the queues and the stage of one connection change.
LEMMA OneLink ==
    ASSUME IInv, NEW conn \in Connections,
           UNCHANGED <<session, vars, owner, gone, crashes, holder>>,
           \A other \in Connections \ {conn} :
               /\ stage'[other] = stage[other]
               /\ toClient'[other] = toClient[other] /\ toServer'[other] = toServer[other],
           LinkTypes', LinkFits(conn)'
    PROVE  IInv'
<1>1. Inv' /\ ServerFits' /\ Owned' /\ Grows
  BY ServerKept
<1>2. ASSUME NEW c \in Clients
      PROVE  ClientFits(c)'
  BY <1>1, ClientKept DEF IInv
<1>3. ASSUME NEW other \in Connections \ {conn}
      PROVE  LinkFits(other)'
  <2>1. SameEnd(other) /\ SameClient(other)
    BY ServerKept DEF SameClient, Alike
  <2> QED
    BY <2>1, <1>1, LinkKept DEF IInv
<1> QED
  BY <1>1, <1>2, <1>3 DEF IInv

LEMMA EstablishStep ==
    ASSUME IInv, NEW conn \in Connections, Establish(conn)
    PROVE  IInv'
<1>1. /\ stage[conn] = "opening"
      /\ stage' = [stage EXCEPT ![conn] = "up"]
      /\ toClient' = [toClient EXCEPT ![conn] = Append(@, Connected)]
      /\ UNCHANGED <<session, vars, owner, toServer, gone, crashes, holder>>
  BY DEF Establish, clientVars
<1>2. LinkTypes /\ LinkFits(conn)
  BY DEF IInv
<1>3. /\ toClient[conn] = << >> /\ toServer[conn] = << >> /\ inbound[conn] = "fresh"
      /\ Awaited(conn) /\ conn \notin closed /\ InUse(conn) /\ owner[conn] # Nobody
  BY <1>1, <1>2 DEF IInv, Inv, LinkFits, StageFits, Down
<1>4. toClient'[conn] = <<Connected>> /\ <<Connected>> \in Seq(ClientMessages)
  BY <1>1, <1>2, <1>3, MessageTypes DEF LinkTypes
<1>5. LinkTypes' /\ stage'[conn] = "up"
  BY <1>1, <1>2, <1>4 DEF LinkTypes
<1>6. LinkFits(conn)'
  <2>1. Awaited(conn)' /\ InUse(conn)' /\ toServer'[conn] = << >> /\ inbound'[conn] = "fresh"
    BY <1>1, <1>3 DEF Awaited, InUse, vars
  <2>2. ToClientFits(conn)'
    BY <1>4, <2>1, MessageTypes DEF ToClientFits
  <2> QED
    BY <1>1, <1>3, <1>5, <2>1, <2>2
       DEF LinkFits, StageFits, ToServerFits, BindingFits, Awaited
<1> QED
  BY <1>1, <1>5, <1>6, OneLink

LEMMA CutStep ==
    ASSUME IInv, NEW conn \in Connections, Cut(conn)
    PROVE  IInv'
<1>1. /\ stage[conn] \in {"opening", "up"}
      /\ stage' = [stage EXCEPT ![conn] = "cut"]
      /\ UNCHANGED <<session, vars, owner, toClient, toServer, gone, crashes, holder>>
  BY DEF Cut, clientVars
<1>2. LinkTypes /\ LinkFits(conn)
  BY DEF IInv
<1>3. LinkTypes' /\ stage'[conn] = "cut" /\ Down(conn)'
  BY <1>1, <1>2 DEF LinkTypes, Down
<1>4. /\ InUse(conn)' <=> InUse(conn)
      /\ Awaited(conn)' <=> Awaited(conn)
  BY <1>1 DEF InUse, Awaited
<1>5. StageFits(conn)' /\ BindingFits(conn)'
  BY <1>1, <1>2, <1>3, <1>4 DEF LinkFits, StageFits, BindingFits, vars
<1>6. ToServerFits(conn)'
  BY <1>1, <1>2, <1>3, <1>4
     DEF LinkFits, ToServerFits, RequestFits, InUse, WasIssued, vars
<1>7. ToClientFits(conn)'
  BY <1>1, <1>2, <1>3, <1>4
     DEF LinkFits, ToClientFits, AcceptFits, WasIssued, vars
<1> QED
  BY <1>1, <1>3, <1>5, <1>6, <1>7, OneLink DEF LinkFits

LEMMA ClientNoticesStep ==
    ASSUME IInv, NEW conn \in Connections, ClientNotices(conn)
    PROVE  IInv'
<1> DEFINE queue == toClient[conn]
<1>1. PICK cut \in Kept(queue) :
          /\ "Lost" \notin Kinds(cut)
          /\ toClient' = [toClient EXCEPT ![conn] = Append(cut, Lost("Timeout"))]
  BY DEF ClientNotices
<1>2. /\ stage[conn] = "cut" /\ owner[conn] \notin gone /\ session[owner[conn]].connection = conn
      /\ UNCHANGED <<session, vars, stage, owner, toServer, gone, crashes, holder>>
  BY DEF ClientNotices, clientVars
<1>3. LinkTypes /\ LinkFits(conn)
  BY DEF IInv
<1>4. /\ cut \in Seq(ClientMessages)
      /\ \A i \in DOMAIN cut : i \in DOMAIN queue /\ cut[i] = queue[i] /\ cut[i].kind # "Lost"
  <2>1. queue \in Seq(ClientMessages) /\ cut \in Cuts(queue)
    BY <1>1, <1>3 DEF LinkTypes, Kept
  <2> QED
    BY <2>1, <1>1, CutFits DEF Kinds
<1> DEFINE now == Append(cut, Lost("Timeout"))
<1>5. /\ now \in Seq(ClientMessages) /\ Len(now) = Len(cut) + 1
      /\ DOMAIN now = DOMAIN cut \cup {Len(now)}
      /\ \A i \in DOMAIN cut : now[i] = cut[i]
      /\ now[Len(now)].kind = "Lost"
  <2>1. Lost("Timeout") \in ClientMessages /\ Lost("Timeout").kind = "Lost"
    BY MessageTypes DEF DisconnectReason
  <2> QED
    BY <2>1, <1>4, AppendFits
<1> HIDE DEF now
<1>6. toClient'[conn] = now /\ LinkTypes'
  BY <1>1, <1>2, <1>3, <1>5 DEF LinkTypes, now
<1>7. InUse(conn)' /\ Down(conn)' /\ (Awaited(conn)' <=> Awaited(conn))
  BY <1>2, <1>3 DEF LinkTypes, LinkFits, StageFits, InUse, Down, Awaited
<1>8. StageFits(conn)' /\ BindingFits(conn)'
  BY <1>2, <1>3, <1>7 DEF LinkFits, StageFits, BindingFits, vars
<1>9. ToServerFits(conn)'
  BY <1>2, <1>3, <1>7 DEF LinkFits, ToServerFits, RequestFits, InUse, WasIssued, vars
<1>10. ToClientFits(conn)'
  <2> SUFFICES ASSUME NEW i \in DOMAIN now
               PROVE  /\ now[i].kind = "Connected" => i = 1 /\ Awaited(conn)'
                      /\ now[i].kind \in {"Accept", "Reject", "Notice"} =>
                             ~Awaited(conn)' /\ inbound'[conn] # "fresh"
                      /\ now[i].kind = "Lost" => i = Len(now) /\ Down(conn)'
                      /\ now[i].kind = "Accept" =>
                             /\ AcceptFits(conn, now[i])'
                             /\ \A j \in DOMAIN now : now[j].kind = "Accept" => j = i
    BY <1>6 DEF ToClientFits, AcceptFits, WasIssued
  <2>1. CASE i = Len(now)
    BY <2>1, <1>5, <1>7
  <2>2. CASE i \in DOMAIN cut
    <3>1. /\ i \in DOMAIN queue /\ now[i] = queue[i] /\ now[i].kind # "Lost"
          /\ \A j \in DOMAIN now : now[j].kind = "Accept" => j \in DOMAIN queue /\ now[j] = queue[j]
      BY <2>2, <1>4, <1>5
    <3>2. ASSUME now[i].kind = "Accept" PROVE AcceptFits(conn, now[i])'
      <4>1. AcceptFits(conn, queue[i])
        BY <3>1, <3>2, <1>3 DEF LinkFits, ToClientFits
      <4> QED
        BY <4>1, <3>1, <1>2, <1>6, <1>7 DEF AcceptFits, WasIssued, vars
    <3> QED
      BY <3>1, <3>2, <1>2, <1>3, <1>7 DEF LinkFits, ToClientFits, vars
  <2> QED
    BY <2>1, <2>2, <1>5
<1> QED
  BY <1>1, <1>2, <1>6, <1>8, <1>9, <1>10, OneLink DEF LinkFits

\* A message put at the end of the server's queue.
LEMMA Queued ==
    ASSUME IInv, NEW conn \in Connections, NEW m \in ServerMessages,
           UNCHANGED <<session, vars, owner, gone, crashes, holder, stage, toClient>>,
           NEW kept \in Cuts(toServer[conn]),
           toServer' = [toServer EXCEPT ![conn] = Append(kept, m)],
           stage[conn] # "unused" /\ stage[conn] # "opening",
           m.kind # "Request",
           m.kind = "User" => /\ inbound[conn] # "fresh"
                              /\ conn \in DOMAIN clientIdByConnection =>
                                     clientIdByConnection[conn] = m.clientId,
           m.kind = "Lost" => stage[conn] = "cut"
    PROVE  IInv'
<1> DEFINE now == Append(kept, m)
<1>1. LinkTypes /\ LinkFits(conn)
  BY DEF IInv
<1>2. /\ kept \in Seq(ServerMessages)
      /\ \A i \in DOMAIN kept : i \in DOMAIN toServer[conn] /\ kept[i] = toServer[conn][i]
  BY <1>1, CutFits DEF LinkTypes
<1>3. /\ now \in Seq(ServerMessages)
      /\ DOMAIN now = DOMAIN kept \cup {Len(kept) + 1}
      /\ \A i \in DOMAIN kept : now[i] = kept[i]
      /\ now[Len(kept) + 1] = m
  BY <1>2, AppendFits
<1> HIDE DEF now
<1>4. toServer'[conn] = now /\ LinkTypes'
  BY <1>1, <1>3 DEF LinkTypes, now
<1>5. /\ InUse(conn)' <=> InUse(conn)
      /\ Awaited(conn)' <=> Awaited(conn)
      /\ Down(conn)' <=> Down(conn)
  BY DEF InUse, Awaited, Down, vars
<1>6. StageFits(conn)' /\ BindingFits(conn)' /\ ToClientFits(conn)'
  BY <1>1, <1>5
     DEF LinkFits, StageFits, BindingFits, ToClientFits, AcceptFits, WasIssued, vars
<1>7. ToServerFits(conn)'
  BY <1>1, <1>2, <1>3, <1>4, <1>5
     DEF LinkFits, ToServerFits, RequestFits, InUse, WasIssued, vars
<1> QED
  BY <1>4, <1>6, <1>7, OneLink DEF LinkFits

LEMMA ServerNoticesStep ==
    ASSUME IInv, NEW conn \in Connections, ServerNotices(conn)
    PROVE  IInv'
<1>1. PICK cut \in Cuts(toServer[conn]) :
          toServer' = [toServer EXCEPT ![conn] = Append(cut, Lost("Timeout"))]
  BY DEF ServerNotices
<1>2. /\ stage[conn] = "cut"
      /\ UNCHANGED <<session, vars, owner, gone, crashes, holder, stage, toClient>>
  BY DEF ServerNotices, clientVars
<1>3. Lost("Timeout") \in ServerMessages /\ Lost("Timeout").kind = "Lost"
  BY MessageTypes DEF DisconnectReason
<1> QED
  BY <1>1, <1>2, <1>3, Queued

LEMMA SendStep ==
    ASSUME IInv, NEW c \in Clients, Send(c)
    PROVE  IInv'
<1> DEFINE conn == session[c].connection
<1>1. /\ session[c].state = "Connected" /\ ServerListens(conn)
      /\ toServer' = [toServer EXCEPT ![conn] = Append(@, User(session[c].clientId))]
      /\ UNCHANGED <<session, vars, owner, gone, crashes, holder, stage, toClient>>
  BY DEF Send, clientVars
<1>2. ClientFits(c) /\ LinkTypes
  BY DEF IInv
<1>3. conn \in Connections /\ owner[conn] = c /\ session[c].clientId \in Nat
  BY <1>1, <1>2, ServerAssumption DEF ClientFits
<1>4. /\ conn \in DOMAIN clientIdByConnection
      /\ clientIdByConnection[conn] = session[c].clientId
  BY <1>1, <1>3 DEF IInv, LinkFits, BindingFits, Down, ServerListens
<1>5. inbound[conn] = "asked" /\ stage[conn] = "up"
  BY <1>1, <1>4, BoundIsOwned DEF ServerListens
<1> DEFINE m == User(session[c].clientId)
<1>6. m \in ServerMessages /\ m.kind = "User" /\ m.clientId = session[c].clientId
  BY <1>3, MessageTypes
<1>7. toServer[conn] \in Cuts(toServer[conn])
  <2>1. toServer[conn] \in Seq(ServerMessages)
    BY <1>2, <1>3 DEF LinkTypes
  <2>2. toServer[conn] = SubSeq(toServer[conn], 1, Len(toServer[conn]))
    BY <2>1
  <2> QED
    BY <2>1, <2>2, LenProperties DEF Cuts
<1> HIDE DEF m, conn
<1>8. toServer' = [toServer EXCEPT ![conn] = Append(toServer[conn], m)]
  BY <1>1 DEF m, conn
<1> QED
  BY <1>1, <1>3, <1>4, <1>5, <1>6, <1>7, <1>8, Queued

LEMMA QuitStep ==
    ASSUME IInv, NEW c \in Clients, Quit(c)
    PROVE  IInv'
<1>1. /\ gone' = gone \cup {c}
      /\ stage' = [conn \in Connections |-> IF owner[conn] = c THEN "cut" ELSE stage[conn]]
      /\ toClient' = [conn \in Connections |-> IF owner[conn] = c THEN << >> ELSE toClient[conn]]
      /\ UNCHANGED <<session, vars, owner, toServer, crashes, holder>>
  BY DEF Quit, clientVars
<1>2. LinkTypes /\ Nobody \notin Clients
  BY SystemAssumption DEF IInv
<1>3. LinkTypes'
  BY <1>1, <1>2, EmptySeq DEF LinkTypes
<1>4. Inv' /\ ServerFits' /\ Owned' /\ Grows
  BY <1>1, ServerKept
<1>5. ASSUME NEW d \in Clients
      PROVE  ClientFits(d)'
  BY <1>1, <1>4, ClientKept DEF IInv
<1>6. ASSUME NEW conn \in Connections
      PROVE  LinkFits(conn)'
  <2>1. CASE owner[conn] # c
    <3>1. SameEnd(conn) /\ SameClient(conn)
      BY <1>1, ServerKept DEF SameClient, Alike
    <3> QED
      BY <2>1, <3>1, <1>1, <1>4, LinkKept DEF IInv
  <2>2. CASE owner[conn] = c
    <3>1. stage'[conn] = "cut" /\ Down(conn)' /\ toClient'[conn] = << >> /\ LinkFits(conn)
      BY <2>2, <1>1 DEF Down, IInv
    <3>2. ~InUse(conn)' /\ (Awaited(conn)' <=> Awaited(conn))
      BY <2>2, <1>1 DEF InUse, Awaited
    <3>3. StageFits(conn)' /\ BindingFits(conn)' /\ ToClientFits(conn)'
      BY <2>2, <1>1, <1>2, <3>1, <3>2
         DEF LinkFits, StageFits, BindingFits, ToClientFits, vars
    <3>4. ToServerFits(conn)'
      BY <1>1, <3>1, <3>2 DEF LinkFits, ToServerFits, RequestFits, WasIssued, vars
    <3> QED
      BY <3>3, <3>4 DEF LinkFits
  <2> QED
    BY <2>1, <2>2
<1> QED
  BY <1>3, <1>4, <1>5, <1>6 DEF IInv

\* The client of conn handles an event of it.
LEMMA Handles ==
    ASSUME IInv, NEW c \in Clients, NEW conn \in Connections, NEW r,
           owner[conn] = c, session[c].connection = conn,
           session' = [session EXCEPT ![c] = r],
           r.connection \in {conn, NoConnection},
           UNCHANGED <<vars, stage, owner, gone, crashes, holder>>,
           \A other \in Connections \ {conn} :
               toClient'[other] = toClient[other] /\ toServer'[other] = toServer[other],
           LinkTypes', ClientFits(c)', LinkFits(conn)'
    PROVE  IInv'
<1>1. Inv' /\ ServerFits' /\ Owned' /\ Grows
  BY ServerKept
<1>2. ASSUME NEW d \in Clients \ {c}
      PROVE  ClientFits(d)'
  BY <1>1, ClientKept DEF IInv, LinkTypes
<1>3. ASSUME NEW other \in Connections \ {conn}
      PROVE  LinkFits(other)'
  <2>1. SameEnd(other)
    BY ServerKept
  <2>2. SameClient(other)
    BY ServerAssumption DEF SameClient, Alike, IInv, LinkTypes
  <2> QED
    BY <2>1, <2>2, <1>1, LinkKept DEF IInv
<1> QED
  BY <1>1, <1>2, <1>3 DEF IInv

ClientEventGuard(c, conn) ==
    /\ c \notin gone /\ ~Client!RetryDue(c)
    /\ owner[conn] = c /\ toClient[conn] # << >>
    /\ toClient' = [toClient EXCEPT ![conn] = Tail(@)]
    /\ UNCHANGED <<vars, stage, owner, gone, faults, crashes, holder>>

LEMMA EventFacts ==
    ASSUME IInv, NEW c \in Clients, NEW conn \in Connections, ClientEventGuard(c, conn)
    PROVE  /\ Client!Reopened(c, NoConnection) = session[c]
           /\ InUse(conn) /\ session[c].connection = conn
           /\ stage[conn] \in {"up", "cut"}
           /\ Head(toClient[conn]) = toClient[conn][1] /\ 1 \in DOMAIN toClient[conn]
           /\ toClient[conn][1] \in ClientMessages
           /\ toClient'[conn] \in Seq(ClientMessages)
           /\ Len(toClient'[conn]) = Len(toClient[conn]) - 1
           /\ \A i \in DOMAIN toClient'[conn] :
                 /\ i + 1 \in DOMAIN toClient[conn] /\ i + 1 # 1
                 /\ toClient'[conn][i] = toClient[conn][i + 1]
           /\ \A other \in Connections \ {conn} : toClient'[other] = toClient[other]
           /\ toClient' \in [Connections -> Seq(ClientMessages)]
<1>1. Client!Reopened(c, NoConnection) = session[c]
  BY DEF ClientEventGuard, Client!Reopened
<1>2. LinkTypes /\ LinkFits(conn) /\ owner[conn] = c /\ toClient[conn] # << >>
  BY DEF IInv, ClientEventGuard
<1>3. InUse(conn) /\ session[c].connection = conn /\ stage[conn] \in {"up", "cut"}
  BY <1>2 DEF LinkFits, StageFits, InUse, LinkTypes
<1>4. toClient'[conn] = Tail(toClient[conn])
  BY <1>2 DEF ClientEventGuard, LinkTypes
<1>5. toClient[conn] \in Seq(ClientMessages)
  BY <1>2 DEF LinkTypes
<1>6. /\ Head(toClient[conn]) = toClient[conn][1] /\ 1 \in DOMAIN toClient[conn]
      /\ toClient[conn][1] \in ClientMessages
      /\ toClient'[conn] \in Seq(ClientMessages)
      /\ Len(toClient'[conn]) = Len(toClient[conn]) - 1
      /\ \A i \in DOMAIN toClient'[conn] :
            /\ i + 1 \in DOMAIN toClient[conn]
            /\ toClient'[conn][i] = toClient[conn][i + 1]
  BY <1>2, <1>4, <1>5, TailFits
<1>7. \A i \in DOMAIN toClient'[conn] : i + 1 # 1
  BY <1>6, LenProperties
<1>8. /\ \A other \in Connections \ {conn} : toClient'[other] = toClient[other]
      /\ toClient' \in [Connections -> Seq(ClientMessages)]
  BY <1>2, <1>6 DEF ClientEventGuard, LinkTypes
<1> QED
  BY <1>1, <1>3, <1>6, <1>7, <1>8

LEMMA ConnectedStep ==
    ASSUME IInv, NEW c \in Clients, NEW conn \in Connections, ClientEventGuard(c, conn),
           Head(toClient[conn]).kind = "Connected", NEW sent \in BOOLEAN,
           Client!PumpConnected(c, NoConnection, conn, sent),
           toServer' = [toServer EXCEPT ![conn] =
               IF sent /\ ServerListens(conn)
               THEN Append(@, Request(Client!RequestOf(c, TokenOf[c]))) ELSE @]
    PROVE  IInv'
<1> DEFINE r == [session[c] EXCEPT
        !.connection = conn, !.notice = Client!NoNotice,
        !.state = IF sent THEN "WaitingHandshake" ELSE "Failed"]
<1>1. PICK request : request = Client!RequestOf(c, TokenOf[c])
  OBVIOUS
<1>2. session' = [session EXCEPT ![c] = r]
  BY EventFacts DEF Client!PumpConnected, Client!Becomes
<1>3. /\ LinkTypes /\ LinkFits(conn) /\ ClientFits(c)
      /\ UNCHANGED <<vars, stage, owner, gone, crashes, holder>>
      /\ owner[conn] = c /\ session[c].connection = conn
  BY EventFacts DEF IInv, ClientEventGuard
<1>4. /\ Awaited(conn) /\ inbound[conn] # "asked"
      /\ \A i \in DOMAIN toClient[conn] :
            toClient[conn][i].kind \notin {"Accept", "Reject", "Notice"}
  BY <1>3, EventFacts DEF LinkFits, ToClientFits, StageFits
<1>5. /\ r.connection = conn /\ r.state \in {"WaitingHandshake", "Failed"} /\ IsRecord(r)
      /\ r.nonce = session[c].nonce /\ r.clientId = session[c].clientId
  BY <1>3 DEF ClientFits, IsRecord, Members
<1> HIDE DEF r
<1>6. session'[c] = r /\ DOMAIN session' = Clients
  BY <1>2, <1>3 DEF LinkTypes
<1>7. ClientFits(c)'
  BY <1>3, <1>5, <1>6, ServerAssumption DEF ClientFits, Client!SessionState, WasIssued
<1>8. ~Awaited(conn)' /\ InUse(conn)' /\ (Down(conn)' <=> Down(conn))
  BY <1>3, <1>5, <1>6, EventFacts DEF Awaited, InUse, Down, vars
<1>9. CASE ~(sent /\ ServerListens(conn))
  <2>1. toServer' = toServer
    BY <1>3, <1>9 DEF LinkTypes
  <2>2. LinkTypes'
    BY <1>3, <1>6, <2>1, EventFacts DEF LinkTypes
  <2>3. ToServerFits(conn)'
    BY <1>3, <1>4, <2>1 DEF LinkFits, ToServerFits, vars
  <2>4. ToClientFits(conn)'
    BY <1>3, <1>4, <1>8, EventFacts, MessageTypes DEF LinkFits, ToClientFits, vars
  <2>5. StageFits(conn)' /\ BindingFits(conn)'
    BY <1>3, <1>5, <1>6, <1>8, EventFacts DEF LinkFits, StageFits, BindingFits, vars
  <2> QED
    <3>1. LinkFits(conn)'
      BY <2>3, <2>4, <2>5 DEF LinkFits
    <3>2. \A other \in Connections \ {conn} : toClient'[other] = toClient[other]
      BY EventFacts
    <3> QED
      BY <1>2, <1>3, <1>5, <1>7, <2>1, <2>2, <3>1, <3>2, Handles
<1>10. CASE sent /\ ServerListens(conn)
  <2>1. /\ stage[conn] = "up" /\ inbound[conn] = "fresh"
        /\ toServer' = [toServer EXCEPT ![conn] = Append(@, Request(request))]
    BY <1>1, <1>3, <1>4, <1>10 DEF ServerListens, IInv, Inv, TypeOK
  <2>2. toServer[conn] = << >>
    <3>1. toServer[conn] \in Seq(ServerMessages)
      BY <1>3 DEF LinkTypes
    <3>2. ASSUME toServer[conn] # << >> PROVE FALSE
      <4>1. 1 \in DOMAIN toServer[conn] /\ toServer[conn][1] \in ServerMessages
        BY <3>1, <3>2, TailFits
      <4>2. toServer[conn][1].kind \in {"Request", "User", "Lost"}
        BY <4>1, MessageTypes
      <4> QED
        BY <1>3, <1>4, <2>1, <4>1, <4>2 DEF LinkFits, ToServerFits
    <3> QED
      BY <3>2
  <2>3. /\ request \in HandshakeRequest
        /\ request.authToken = TokenOf[c] /\ request.requestedSessionNonce = session[c].nonce
    BY <1>1, <1>3, SystemAssumption DEF Client!RequestOf, HandshakeRequest, ClientFits
  <2>4. Request(request) \in ServerMessages /\ Request(request).kind = "Request"
        /\ Request(request).request = request
    BY <2>3, MessageTypes
  <2>5. /\ toServer'[conn] = <<Request(request)>>
        /\ toServer' \in [Connections -> Seq(ServerMessages)]
    <3>1. <<Request(request)>> \in Seq(ServerMessages)
      BY <2>4
    <3>2. toServer'[conn] = Append(<< >>, Request(request))
      BY <1>3, <2>1, <2>2 DEF LinkTypes
    <3>3. toServer'[conn] = <<Request(request)>>
      BY <3>2
    <3> QED
      BY <1>3, <2>1, <3>1, <3>3 DEF LinkTypes
  <2>6. LinkTypes'
    BY <1>3, <1>6, <2>5, EventFacts DEF LinkTypes
  <2>7. RequestFits(conn, request)'
    BY <1>3, <1>5, <1>6, <2>3 DEF RequestFits, ClientFits, WasIssued
  <2>8. ToServerFits(conn)'
    <3>1. DOMAIN toServer'[conn] = {1} /\ toServer'[conn][1] = Request(request)
      BY <2>5, OneElement, Zenon
    <3> QED
      BY <1>3, <1>8, <2>1, <2>4, <2>7, <3>1 DEF ToServerFits, vars
  <2>9. ToClientFits(conn)'
    BY <1>3, <1>4, <1>8, EventFacts, MessageTypes DEF LinkFits, ToClientFits, vars
  <2>10. StageFits(conn)' /\ BindingFits(conn)'
    BY <1>3, <1>5, <1>6, <1>8, EventFacts DEF LinkFits, StageFits, BindingFits, vars
  <2>11. \A other \in Connections \ {conn} : toServer'[other] = toServer[other]
    BY <2>1
  <2> QED
    <3>1. LinkFits(conn)'
      BY <2>8, <2>9, <2>10 DEF LinkFits
    <3>2. \A other \in Connections \ {conn} : toClient'[other] = toClient[other]
      BY EventFacts
    <3> QED
      BY <1>2, <1>3, <1>5, <1>7, <2>6, <2>11, <3>1, <3>2, Handles
<1> QED
  BY <1>9, <1>10

\* The client handles an answer of the server.
LEMMA AnswerStep ==
    ASSUME IInv, NEW c \in Clients, NEW conn \in Connections, ClientEventGuard(c, conn),
           NEW message, message = Head(toClient[conn]),
           message.kind \in {"Accept", "Reject", "Notice"},
           NEW r, session' = [session EXCEPT ![c] = r], IsRecord(r), r.connection = conn,
           \/ /\ message.kind = "Accept" /\ r.state = "Connected"
              /\ r.nonce = message.nonce /\ r.clientId = message.clientId
           \/ /\ message.kind # "Accept" /\ r.state \in {"Failed", session[c].state}
              /\ r.nonce = session[c].nonce /\ r.clientId = session[c].clientId,
           toServer' = toServer
    PROVE  IInv'
<1>1. /\ LinkTypes /\ LinkFits(conn) /\ ClientFits(c)
      /\ UNCHANGED <<vars, stage, owner, gone, crashes, holder>>
      /\ owner[conn] = c /\ session[c].connection = conn
      /\ message = toClient[conn][1] /\ 1 \in DOMAIN toClient[conn]
  BY EventFacts DEF IInv, ClientEventGuard
<1>2. /\ ~Awaited(conn) /\ inbound[conn] # "fresh"
      /\ message.kind = "Accept" =>
             /\ AcceptFits(conn, message)
             /\ \A j \in DOMAIN toClient[conn] : toClient[conn][j].kind = "Accept" => j = 1
  BY <1>1 DEF LinkFits, ToClientFits
<1>3. session[c].state \in {"WaitingHandshake", "Connected", "Failed"}
  BY <1>1, <1>2, ServerAssumption DEF ClientFits, Awaited, Client!SessionState
<1>4. session'[c] = r /\ DOMAIN session' = Clients
  BY <1>1 DEF LinkTypes
<1>5. LinkTypes'
  BY <1>1, <1>4, EventFacts DEF LinkTypes
<1>6. ClientFits(c)'
  <2>1. message.kind = "Accept" => message.nonce \in Nat
    BY <1>1, EventFacts, MessageTypes
  <2> QED
    BY <1>1, <1>2, <1>3, <1>4, <2>1, ServerAssumption
       DEF ClientFits, AcceptFits, Client!SessionState, WasIssued
<1>7. ~Awaited(conn)' /\ InUse(conn)' /\ InUse(conn) /\ (Down(conn)' <=> Down(conn))
  BY <1>1, <1>3, <1>4, EventFacts DEF Awaited, InUse, Down, vars
<1>8. StageFits(conn)'
  BY <1>1, <1>7, EventFacts DEF LinkFits, StageFits, vars
<1>9. BindingFits(conn)'
  BY <1>1, <1>2, <1>4, <1>7 DEF LinkFits, BindingFits, AcceptFits, vars
<1>10. ToServerFits(conn)'
  BY <1>1, <1>2, <1>7 DEF LinkFits, ToServerFits, vars
<1>11. ToClientFits(conn)'
  <2> SUFFICES ASSUME NEW i \in DOMAIN toClient'[conn]
               PROVE  LET m == toClient'[conn][i]
                      IN /\ m.kind = "Connected" => i = 1 /\ Awaited(conn)'
                         /\ m.kind \in {"Accept", "Reject", "Notice"} =>
                                ~Awaited(conn)' /\ inbound'[conn] # "fresh"
                         /\ m.kind = "Lost" => i = Len(toClient'[conn]) /\ Down(conn)'
                         /\ m.kind = "Accept" =>
                                /\ AcceptFits(conn, toClient[conn][i])'
                                /\ \A j \in DOMAIN toClient'[conn] :
                                      toClient'[conn][j].kind = "Accept" => j = i
    BY DEF ToClientFits
  <2>1. /\ i + 1 \in DOMAIN toClient[conn] /\ i + 1 # 1 /\ i \in Nat
        /\ toClient'[conn][i] = toClient[conn][i + 1]
        /\ Len(toClient'[conn]) = Len(toClient[conn]) - 1 /\ Len(toClient[conn]) \in Nat
    <3>1. toClient[conn] \in Seq(ClientMessages) /\ toClient'[conn] \in Seq(ClientMessages)
      BY <1>1, EventFacts DEF LinkTypes
    <3> QED
      BY <3>1, EventFacts, LenProperties
  <2> DEFINE m == toClient[conn][i + 1]
  <2>2. /\ m.kind # "Connected"
        /\ m.kind = "Lost" => i + 1 = Len(toClient[conn]) /\ Down(conn)
        /\ m.kind = "Accept" =>
               /\ AcceptFits(conn, m)
               /\ \A j \in DOMAIN toClient[conn] : toClient[conn][j].kind = "Accept" => j = i + 1
    BY <1>1, <1>2, <2>1 DEF LinkFits, ToClientFits
  <2>3. ASSUME m.kind = "Accept" PROVE AcceptFits(conn, toClient[conn][i])'
    <3>1. r.clientId = session[c].clientId
      BY <1>1, <1>2, <2>1, <2>3
    <3> QED
      BY <1>1, <1>4, <1>7, <2>1, <2>2, <2>3, <3>1 DEF AcceptFits, WasIssued, vars
  <2>4. \A j \in DOMAIN toClient'[conn] :
            m.kind = "Accept" /\ toClient'[conn][j].kind = "Accept" => j = i
    <3> SUFFICES ASSUME NEW j \in DOMAIN toClient'[conn], m.kind = "Accept",
                        toClient'[conn][j].kind = "Accept"
                 PROVE  j = i
      OBVIOUS
    <3>1. j + 1 \in DOMAIN toClient[conn] /\ toClient'[conn][j] = toClient[conn][j + 1]
      BY EventFacts
    <3>2. j + 1 = i + 1 /\ j \in Nat
      <4>1. toClient'[conn] \in Seq(ClientMessages)
        BY EventFacts
      <4> QED
        BY <2>2, <3>1, <4>1, LenProperties
    <3> QED
      BY <2>1, <3>2
  <2> QED
    BY <1>1, <1>2, <1>7, <2>1, <2>2, <2>3, <2>4 DEF vars
<1> QED
  <2>1. LinkFits(conn)'
    BY <1>8, <1>9, <1>10, <1>11 DEF LinkFits
  <2>2. \A other \in Connections \ {conn} : toClient'[other] = toClient[other]
    BY EventFacts
  <2> QED
    BY <1>1, <1>5, <1>6, <2>1, <2>2, Handles

LEMMA LostStep ==
    ASSUME IInv, NEW c \in Clients, NEW conn \in Connections, ClientEventGuard(c, conn),
           Head(toClient[conn]).kind = "Lost",
           NEW r, session' = [session EXCEPT ![c] = r], IsRecord(r),
           r.connection = NoConnection, r.state \in {"Reconnecting", "Failed", "Closed"},
           r.nonce = session[c].nonce, r.clientId = session[c].clientId,
           toServer' = toServer
    PROVE  IInv'
<1>1. /\ LinkTypes /\ LinkFits(conn) /\ ClientFits(c)
      /\ UNCHANGED <<vars, stage, owner, gone, crashes, holder>>
      /\ owner[conn] = c /\ session[c].connection = conn
  BY EventFacts DEF IInv, ClientEventGuard
<1>2. toClient'[conn] = << >> /\ Down(conn)
  <2>1. 1 = Len(toClient[conn]) /\ Down(conn)
    <3>1. 1 \in DOMAIN toClient[conn] /\ toClient[conn][1].kind = "Lost"
      BY EventFacts
    <3> QED
      BY <1>1, <3>1 DEF LinkFits, ToClientFits
  <2>2. toClient'[conn] \in Seq(ClientMessages) /\ Len(toClient'[conn]) = 0
    BY <2>1, EventFacts
  <2> QED
    BY <2>1, <2>2, EmptySeq
<1>3. session'[c] = r /\ DOMAIN session' = Clients
  BY <1>1 DEF LinkTypes
<1>4. LinkTypes'
  BY <1>1, <1>3, EventFacts DEF LinkTypes
<1>5. ClientFits(c)'
  BY <1>1, <1>3, ServerAssumption DEF ClientFits, Client!SessionState, WasIssued
<1>6. ~Awaited(conn)' /\ ~InUse(conn)' /\ Down(conn)'
  BY <1>1, <1>2, <1>3, ServerAssumption DEF Awaited, InUse, Down, vars
<1>7. LinkFits(conn)'
  <2>1. StageFits(conn)' /\ BindingFits(conn)' /\ ToClientFits(conn)'
    BY <1>1, <1>2, <1>6, EventFacts DEF LinkFits, StageFits, BindingFits, ToClientFits, vars
  <2>2. ToServerFits(conn)'
    BY <1>1, <1>6 DEF LinkFits, ToServerFits, RequestFits, WasIssued, vars
  <2> QED
    BY <2>1, <2>2 DEF LinkFits
<1> QED
  <2>1. \A other \in Connections \ {conn} : toClient'[other] = toClient[other]
    BY EventFacts
  <2> QED
    BY <1>1, <1>4, <1>5, <1>7, <2>1, Handles

\* Every event its connection may report to a client.
LEMMA ClientEventStep ==
    ASSUME IInv, NEW c \in Clients, NEW conn \in Connections, ClientEvent(c, conn)
    PROVE  IInv'
<1> DEFINE event == Head(toClient[conn])
           sent == "Lost" \notin Kinds(toClient[conn])
<1>1. ClientEventGuard(c, conn)
  BY DEF ClientEvent, ClientEventGuard
<1>2. /\ Client!Reopened(c, NoConnection) = session[c]
      /\ session[c].connection = conn
      /\ event \in ClientMessages
      /\ ClientFits(c)
      /\ LinkTypes
  BY <1>1, EventFacts DEF IInv
<1>3. event.kind # "Connected" => toServer' = toServer
  BY <1>2 DEF ClientEvent, LinkTypes
<1>4. Client!Current(session[c], conn)
  BY <1>2 DEF Client!Current
<1>5. CASE event.kind = "Connected" /\ Client!PumpConnected(c, NoConnection, conn, sent)
  <2>1. toServer' = [toServer EXCEPT ![conn] =
            IF sent /\ ServerListens(conn)
            THEN Append(@, Request(Client!RequestOf(c, TokenOf[c]))) ELSE @]
    BY <1>5 DEF ClientEvent
  <2>2. sent \in BOOLEAN
    OBVIOUS
  <2> HIDE DEF sent
  <2> QED
    BY <1>1, <1>5, <2>1, <2>2, ConnectedStep
<1>6. CASE event.kind = "Accept"
           /\ Client!PumpAccept(c, NoConnection, conn, event.clientId, event.nonce)
  <2> DEFINE r == [session[c] EXCEPT !.clientId = event.clientId, !.nonce = event.nonce,
                                     !.attempt = 0, !.state = "Connected"]
  <2>1. session' = [session EXCEPT ![c] = r]
    BY <1>2, <1>6 DEF Client!PumpAccept, Client!Becomes
  <2>2. /\ IsRecord(r) /\ r.connection = conn /\ r.state = "Connected"
        /\ r.nonce = event.nonce /\ r.clientId = event.clientId
    BY <1>2 DEF ClientFits, IsRecord, Members
  <2> HIDE DEF r, event
  <2> QED
    BY <1>1, <1>3, <1>6, <2>1, <2>2, AnswerStep DEF event
<1>7. CASE event.kind = "Reject" /\ Client!PumpReject(c, NoConnection, conn)
  <2> DEFINE r == [session[c] EXCEPT !.state = "Failed"]
  <2>1. session' = [session EXCEPT ![c] = r]
    BY <1>2, <1>7 DEF Client!PumpReject, Client!Becomes
  <2>2. /\ IsRecord(r) /\ r.connection = conn /\ r.state = "Failed"
        /\ r.nonce = session[c].nonce /\ r.clientId = session[c].clientId
    BY <1>2 DEF ClientFits, IsRecord, Members
  <2> HIDE DEF r, event
  <2> QED
    BY <1>1, <1>3, <1>7, <2>1, <2>2, AnswerStep DEF event
<1>8. CASE event.kind = "Notice" /\ Client!PumpNotice(c, NoConnection, conn, event.reason)
  <2> DEFINE r == [session[c] EXCEPT !.notice = event.reason]
  <2>1. session' = [session EXCEPT ![c] = r]
    BY <1>2, <1>8 DEF Client!PumpNotice, Client!Becomes
  <2>2. /\ IsRecord(r) /\ r.connection = conn /\ r.state = session[c].state
        /\ r.nonce = session[c].nonce /\ r.clientId = session[c].clientId
    BY <1>2 DEF ClientFits, IsRecord, Members
  <2> HIDE DEF r, event
  <2> QED
    BY <1>1, <1>3, <1>8, <2>1, <2>2, AnswerStep DEF event
<1>9. CASE event.kind = "Lost"
           /\ Client!PumpDisconnected(c, NoConnection, conn, event.reason)
  <2> DEFINE why == IF session[c].notice = Client!NoNotice THEN event.reason
                    ELSE session[c].notice
             lost == [session[c] EXCEPT !.notice = Client!NoNotice,
                                        !.connection = NoConnection]
             r == IF Client!shouldReconnect(why) /\ session[c].attempt < MaxAttempts
                  THEN [lost EXCEPT !.attempt = @ + 1, !.state = "Reconnecting",
                            !.retryIn = Client!computeReconnectDelay(session[c].attempt + 1)]
                  ELSE [lost EXCEPT !.state =
                            IF why \in {"ProtocolMismatch", "AssetMismatch", "AuthFailed"}
                            THEN "Failed" ELSE "Closed"]
  <2>1. session' = [session EXCEPT ![c] = r]
    BY <1>2, <1>9 DEF Client!PumpDisconnected, Client!Becomes
  <2>2. /\ IsRecord(lost) /\ lost.connection = NoConnection
        /\ lost.nonce = session[c].nonce /\ lost.clientId = session[c].clientId
    BY <1>2 DEF ClientFits, IsRecord, Members
  <2> HIDE DEF lost, why
  <2>3. /\ IsRecord(r) /\ r.connection = NoConnection
        /\ r.state \in {"Reconnecting", "Failed", "Closed"}
        /\ r.nonce = session[c].nonce /\ r.clientId = session[c].clientId
    BY <2>2 DEF IsRecord, Members
  <2> HIDE DEF r, event
  <2> QED
    BY <1>1, <1>3, <1>9, <2>1, <2>3, LostStep DEF event
<1> QED
  BY <1>4, <1>5, <1>6, <1>7, <1>8, <1>9 DEF ClientEvent

------------------------------------------------------------------------------
(* Steps of the server. *)

LEMMA WithoutFits ==
    ASSUME NEW f, NEW keys
    PROVE  /\ DOMAIN Without(f, keys) = DOMAIN f \ keys
           /\ \A x \in DOMAIN f \ keys : Without(f, keys)[x] = f[x]
BY DEF Without, Restrict

LEMMA WithFits ==
    ASSUME NEW f, NEW key, NEW value
    PROVE  /\ DOMAIN With(f, key, value) = DOMAIN f \cup {key}
           /\ With(f, key, value)[key] = value
           /\ \A x \in DOMAIN f \ {key} : With(f, key, value)[x] = f[x]
BY DEF With

\* The bindings that are left are old ones.
LEMMA OwnedKept ==
    ASSUME IInv, UNCHANGED <<owner, holder, crashes>>,
           \A conn \in DOMAIN clientIdByConnection' :
               /\ conn \in DOMAIN clientIdByConnection
               /\ clientIdByConnection'[conn] = clientIdByConnection[conn]
    PROVE  Owned'
BY DEF IInv, Owned, TokensTell

\* No session is new, and none changes its nonce or its token.
LEMMA ServerFitsKept ==
    ASSUME IInv, UNCHANGED <<nextClientId, nextSessionNonce, holder, crashes>>,
           \A id \in DOMAIN sessionsByClientId' :
               /\ id \in DOMAIN sessionsByClientId
               /\ sessionsByClientId'[id].sessionNonce = sessionsByClientId[id].sessionNonce
               /\ sessionsByClientId'[id].authToken = sessionsByClientId[id].authToken
    PROVE  ServerFits' /\ Grows
BY DEF IInv, ServerFits, Grows

LEMMA ClientsKept ==
    ASSUME IInv, Grows, UNCHANGED <<session, owner>>
    PROVE  \A c \in Clients : ClientFits(c)'
BY ClientKept DEF IInv

\* All that a step of the server leaves as it was.
ServerStep == UNCHANGED <<session, stage, owner, gone>>

LEMMA OtherLink ==
    ASSUME IInv, Grows, ServerStep, NEW conn \in Connections, SameEnd(conn),
           toClient'[conn] = toClient[conn]
    PROVE  LinkFits(conn)'
<1>1. SameClient(conn)
  BY DEF ServerStep, SameClient, Alike
<1> QED
  BY <1>1, LinkKept DEF IInv, ServerStep

LEMMA IdleStep ==
    ASSUME IInv, ServerIdle
    PROVE  IInv'
<1>1. /\ PumpNothing /\ ServerStep
      /\ UNCHANGED <<toClient, toServer, crashes, holder>>
  BY DEF ServerIdle, ServerStep, clientVars, linkVars
<1>2. Inv'
  BY <1>1, NothingStep DEF IInv
<1>3. ServerFits' /\ Grows
  BY <1>1, Pruning, ServerFitsKept DEF PumpNothing, IInv
<1>4. Owned'
  BY <1>1, OwnedKept DEF PumpNothing, ServerStep
<1>5. \A c \in Clients : ClientFits(c)'
  BY <1>1, <1>3, ClientsKept DEF ServerStep
<1>6. ASSUME NEW conn \in Connections
      PROVE  LinkFits(conn)'
  <2>1. SameEnd(conn)
    BY <1>1 DEF SameEnd, PumpNothing
  <2> QED
    BY <2>1, <1>1, <1>3, OtherLink
<1>7. LinkTypes'
  BY <1>1 DEF IInv, LinkTypes, ServerStep
<1> QED
  BY <1>2, <1>3, <1>4, <1>5, <1>6, <1>7 DEF IInv

LEMMA SystemTickStep ==
    ASSUME IInv, SystemTick
    PROVE  IInv'
<1>1. /\ Tick /\ UNCHANGED <<stage, owner, toClient, toServer, gone, crashes, holder>>
      /\ session' = [c \in Clients |->
             [session[c] EXCEPT !.retryIn = IF @ = 0 THEN 0 ELSE @ - 1]]
  BY DEF SystemTick, linkVars, Client!ClockTick
<1>2. Inv'
  BY <1>1, TickStep DEF IInv
<1>3. ServerFits' /\ Grows
  <2>1. \A id \in DOMAIN sessionsByClientId' :
            /\ id \in DOMAIN sessionsByClientId
            /\ sessionsByClientId'[id].sessionNonce = sessionsByClientId[id].sessionNonce
            /\ sessionsByClientId'[id].authToken = sessionsByClientId[id].authToken
    BY <1>1 DEF Tick, IInv, Inv, TypeOK, SessionRecord
  <2> QED
    BY <1>1, <2>1, ServerFitsKept DEF Tick
<1>4. Owned'
  BY <1>1, OwnedKept DEF Tick
<1>5. ASSUME NEW c \in Clients
      PROVE  Alike(c) /\ IsRecord(session'[c]) /\ DOMAIN session' = Clients
  <2>1. IsRecord(session[c])
    BY DEF IInv, ClientFits
  <2> QED
    BY <1>1, <2>1 DEF Alike, IsRecord, Members
<1>6. ASSUME NEW c \in Clients
      PROVE  ClientFits(c)'
  BY <1>1, <1>5 DEF IInv, ClientFits, Alike, WasIssued
<1>7. ASSUME NEW conn \in Connections
      PROVE  LinkFits(conn)'
  <2>1. SameEnd(conn)
    BY <1>1 DEF SameEnd, Tick
  <2>2. SameClient(conn)
    BY <1>1, <1>5 DEF SameClient, IInv, LinkTypes
  <2> QED
    BY <2>1, <2>2, <1>1, <1>3, LinkKept DEF IInv
<1>8. LinkTypes'
  <2>1. DOMAIN session' = Clients
    BY <1>1
  <2> QED
    BY <1>1, <2>1 DEF IInv, LinkTypes
<1> QED
  BY <1>2, <1>3, <1>4, <1>6, <1>7, <1>8 DEF IInv

\* What the head of a server's queue tells.
LEMMA ReadFacts ==
    ASSUME IInv, NEW conn \in Connections, NEW kind, Reads(conn, kind)
    PROVE  /\ toServer[conn] \in Seq(ServerMessages) /\ toServer[conn] # << >>
           /\ 1 \in DOMAIN toServer[conn] /\ Head(toServer[conn]) = toServer[conn][1]
           /\ toServer[conn][1].kind = kind /\ toServer[conn][1] \in ServerMessages
           /\ stage[conn] \in {"up", "cut"} /\ owner[conn] \in Clients
           /\ Consumed(conn) \in [Connections -> Seq(ServerMessages)]
           /\ \A other \in Connections \ {conn} : Consumed(conn)[other] = toServer[other]
           /\ \A i \in DOMAIN Consumed(conn)[conn] :
                 /\ i + 1 \in DOMAIN toServer[conn] /\ i + 1 # 1
                 /\ Consumed(conn)[conn][i] = toServer[conn][i + 1]
                 /\ Consumed(conn)[conn][i].kind # "Request"
<1>1. LinkTypes /\ LinkFits(conn) /\ toServer[conn] # << >> /\ Head(toServer[conn]).kind = kind
  BY DEF IInv, Reads
<1>2. stage[conn] \in {"up", "cut"} /\ owner[conn] \in Clients
  BY <1>1 DEF LinkFits, StageFits, LinkTypes
<1>3. toServer[conn] \in Seq(ServerMessages)
  BY <1>1 DEF LinkTypes
<1>4. /\ Tail(toServer[conn]) \in Seq(ServerMessages)
      /\ 1 \in DOMAIN toServer[conn] /\ Head(toServer[conn]) = toServer[conn][1]
      /\ toServer[conn][1] \in ServerMessages
      /\ \A i \in DOMAIN Tail(toServer[conn]) :
            i + 1 \in DOMAIN toServer[conn] /\ Tail(toServer[conn])[i] = toServer[conn][i + 1]
  BY <1>1, <1>3, TailFits
<1>5. \A i \in DOMAIN Tail(toServer[conn]) : i + 1 # 1
  BY <1>4, LenProperties
<1>6. /\ Consumed(conn)[conn] = Tail(toServer[conn])
      /\ Consumed(conn) \in [Connections -> Seq(ServerMessages)]
      /\ \A other \in Connections \ {conn} : Consumed(conn)[other] = toServer[other]
  BY <1>1, <1>4 DEF Consumed, LinkTypes
<1>7. \A i \in DOMAIN toServer[conn] : toServer[conn][i].kind = "Request" => i = 1
  BY <1>1 DEF LinkFits, ToServerFits
<1> QED
  BY <1>1, <1>2, <1>3, <1>4, <1>5, <1>6, <1>7

LEMMA TailFacts ==
    ASSUME IInv, NEW conn \in Connections, NEW kind, Reads(conn, kind)
    PROVE  /\ Tail(toServer[conn]) \in Seq(ServerMessages)
           /\ \A i \in DOMAIN Tail(toServer[conn]) :
                 /\ Tail(toServer[conn])[i].kind # "Request"
                 /\ \E j \in DOMAIN toServer[conn] : Tail(toServer[conn])[i] = toServer[conn][j]
<1>1. Consumed(conn)[conn] = Tail(toServer[conn])
  BY DEF Consumed, IInv, LinkTypes
<1>2. toServer[conn] \in Seq(ServerMessages) /\ toServer[conn] # << >>
  BY ReadFacts
<1>3. Tail(toServer[conn]) \in Seq(ServerMessages)
  BY <1>2, TailFits
<1>4. \A i \in DOMAIN Tail(toServer[conn]) :
          /\ i + 1 \in DOMAIN toServer[conn]
          /\ Tail(toServer[conn])[i] = toServer[conn][i + 1]
  BY <1>2, TailFits
<1>5. ASSUME NEW i \in DOMAIN Tail(toServer[conn])
      PROVE  Tail(toServer[conn])[i].kind # "Request"
  <2>1. i + 1 # 1
    BY <1>3, LenProperties
  <2> QED
    BY <1>4, <2>1 DEF IInv, LinkFits, ToServerFits
<1> QED
  BY <1>3, <1>4, <1>5

\* The server only consumes an event of conn: everything else it knows of conn
\* stays, or the connection is cut and it forgets it.
LEMMA ConsumesFit ==
    ASSUME IInv, Grows, ServerStep, NEW conn \in Connections, NEW kind, Reads(conn, kind),
           toClient'[conn] = toClient[conn], toServer'[conn] = Consumed(conn)[conn],
           conn \in closed' <=> conn \in closed,
           \/ /\ inbound'[conn] = inbound[conn] /\ inbound[conn] # "fresh"
              /\ conn \in DOMAIN clientIdByConnection
              /\ conn \in DOMAIN clientIdByConnection'
              /\ clientIdByConnection'[conn] = clientIdByConnection[conn]
           \/ /\ inbound'[conn] = "gone" /\ stage[conn] = "cut"
              /\ conn \notin DOMAIN clientIdByConnection'
    PROVE  LinkFits(conn)'
<1>1. LinkTypes /\ LinkFits(conn) /\ UNCHANGED <<session, stage, owner, gone>>
  BY DEF IInv, ServerStep
<1>2. /\ InUse(conn)' <=> InUse(conn)
      /\ Awaited(conn)' <=> Awaited(conn)
      /\ Down(conn)' <=> Down(conn)
  BY <1>1 DEF InUse, Awaited, Down
<1>3. stage[conn] \in {"up", "cut"} /\ owner[conn] \in Clients
  BY ReadFacts
<1>4. StageFits(conn)' /\ BindingFits(conn)'
  BY <1>1, <1>2, <1>3 DEF LinkFits, StageFits, BindingFits, Down
<1>5. ToServerFits(conn)'
  <2>1. \A i \in DOMAIN toServer'[conn] :
            /\ i + 1 \in DOMAIN toServer[conn]
            /\ toServer'[conn][i] = toServer[conn][i + 1]
            /\ toServer'[conn][i].kind # "Request"
    BY ReadFacts
  <2> QED
    BY <1>1, <2>1 DEF LinkFits, ToServerFits
<1>6. ToClientFits(conn)'
  <2> SUFFICES ASSUME NEW i \in DOMAIN toClient[conn]
               PROVE  LET m == toClient[conn][i]
                      IN /\ m.kind = "Connected" => i = 1 /\ Awaited(conn)'
                         /\ m.kind \in {"Accept", "Reject", "Notice"} =>
                                ~Awaited(conn)' /\ inbound'[conn] # "fresh"
                         /\ m.kind = "Lost" => i = Len(toClient[conn]) /\ Down(conn)'
                         /\ m.kind = "Accept" =>
                                /\ AcceptFits(conn, m)'
                                /\ \A j \in DOMAIN toClient[conn] :
                                      toClient[conn][j].kind = "Accept" => j = i
    BY DEF ToClientFits, AcceptFits, WasIssued, Down
  <2> DEFINE accept == toClient[conn][i]
  <2>1. ASSUME accept.kind = "Accept"
        PROVE  AcceptFits(conn, accept)'
    <3>1. AcceptFits(conn, accept)
      BY <1>1, <2>1 DEF LinkFits, ToClientFits
    <3>2. crashes' = 0 => accept.clientId \in DOMAIN holder' /\ holder'[accept.clientId] = owner[conn]
      BY <3>1, StillIssued DEF AcceptFits
    <3>3. crashes = 0 /\ session[owner[conn]].clientId # 0 =>
              session[owner[conn]].clientId \in DOMAIN holder
      BY <1>3 DEF IInv, ClientFits, WasIssued, NoNonce
    <3>4. accept' = accept
      OBVIOUS
    <3> HIDE DEF accept
    <3> QED
      BY <1>1, <1>2, <3>1, <3>2, <3>3, <3>4 DEF AcceptFits, WasIssued, Grows, Down
  <2> QED
    BY <1>1, <1>2, <2>1 DEF LinkFits, ToClientFits
<1> QED
  BY <1>4, <1>5, <1>6 DEF LinkFits

LEMMA LosesStep ==
    ASSUME IInv, NEW conn \in Connections, ServerLoses(conn)
    PROVE  IInv'
<1>1. /\ Reads(conn, "Lost") /\ ServerStep
      /\ PumpDisconnected(conn) \/ PumpStrayDisconnected(conn)
      /\ toServer' = Consumed(conn)
      /\ UNCHANGED <<toClient, crashes, holder>>
  BY DEF ServerLoses, ServerStep, clientVars
<1>2. stage[conn] = "cut"
  BY <1>1, ReadFacts DEF IInv, LinkFits, ToServerFits
<1>3. Inv'
  BY <1>1, DisconnectedStep, StrayDisconnectedStep DEF IInv
<1>4. /\ inbound' = [inbound EXCEPT ![conn] = "gone"] /\ closed' = closed
      /\ DOMAIN clientIdByConnection' = DOMAIN clientIdByConnection \ {conn}
      /\ \A other \in DOMAIN clientIdByConnection' :
            clientIdByConnection'[other] = clientIdByConnection[other]
      /\ UNCHANGED <<nextClientId, nextSessionNonce>>
      /\ \A id \in DOMAIN sessionsByClientId' :
            /\ id \in DOMAIN sessionsByClientId
            /\ sessionsByClientId'[id].sessionNonce = sessionsByClientId[id].sessionNonce
            /\ sessionsByClientId'[id].authToken = sessionsByClientId[id].authToken
  <2>1. CASE PumpDisconnected(conn)
    <3>1. /\ inbound' = [inbound EXCEPT ![conn] = "gone"] /\ closed' = closed
          /\ DOMAIN clientIdByConnection' = DOMAIN clientIdByConnection \ {conn}
          /\ \A other \in DOMAIN clientIdByConnection' :
                clientIdByConnection'[other] = clientIdByConnection[other]
          /\ UNCHANGED <<nextClientId, nextSessionNonce>>
      <4>1. clientIdByConnection' = Without(clientIdByConnection, {conn})
        BY <2>1 DEF PumpDisconnected
      <4>2. /\ inbound' = [inbound EXCEPT ![conn] = "gone"] /\ closed' = closed
            /\ UNCHANGED <<nextClientId, nextSessionNonce>>
        BY <2>1 DEF PumpDisconnected
      <4>3. DOMAIN clientIdByConnection' = DOMAIN clientIdByConnection \ {conn}
        BY <4>1, WithoutFits
      <4>4. \A other \in DOMAIN clientIdByConnection \ {conn} :
                clientIdByConnection'[other] = clientIdByConnection[other]
        BY <4>1, WithoutFits
      <4> QED
        BY <4>2, <4>3, <4>4
    <3> DEFINE id == clientIdByConnection[conn]
    <3>2. /\ id \in DOMAIN KeptSessions
          /\ sessionsByClientId' = [KeptSessions EXCEPT ![id] =
                 [@ EXCEPT !.connected = FALSE, !.connection = NoConnection, !.age = 0]]
          /\ KeptSessions[id] \in SessionRecord
      BY <2>1, Pruning DEF PumpDisconnected, IInv
    <3>3. \A other \in DOMAIN sessionsByClientId' :
            /\ other \in DOMAIN KeptSessions
            /\ sessionsByClientId'[other].sessionNonce = KeptSessions[other].sessionNonce
            /\ sessionsByClientId'[other].authToken = KeptSessions[other].authToken
      BY <3>2 DEF SessionRecord
    <3> QED
      BY <3>1, <3>3, Pruning DEF IInv
  <2>2. CASE PumpStrayDisconnected(conn)
    <3>1. conn \notin DOMAIN clientIdByConnection
      BY <2>2, Pruning DEF PumpStrayDisconnected, IInv, Inv, DirectoryConsistent
    <3>2. /\ inbound' = [inbound EXCEPT ![conn] = "gone"] /\ closed' = closed
          /\ clientIdByConnection' = clientIdByConnection
          /\ UNCHANGED <<nextClientId, nextSessionNonce>>
          /\ sessionsByClientId' = KeptSessions
      BY <2>2 DEF PumpStrayDisconnected
    <3>3. DOMAIN clientIdByConnection' = DOMAIN clientIdByConnection \ {conn}
      BY <3>1, <3>2
    <3> QED
      BY <3>2, <3>3, Pruning DEF IInv
  <2> QED
    BY <1>1, <2>1, <2>2
<1>5. ServerFits' /\ Grows
  BY <1>1, <1>4, ServerFitsKept
<1>6. Owned'
  BY <1>1, <1>4, OwnedKept DEF ServerStep
<1>7. \A c \in Clients : ClientFits(c)'
  BY <1>1, <1>5, ClientsKept DEF ServerStep
<1>8. ASSUME NEW other \in Connections \ {conn}
      PROVE  LinkFits(other)'
  <2>1. SameEnd(other)
    BY <1>1, <1>4, ReadFacts DEF SameEnd, IInv, Inv, TypeOK
  <2> QED
    BY <2>1, <1>1, <1>5, OtherLink
<1>9. LinkFits(conn)'
  BY <1>1, <1>2, <1>4, <1>5, ConsumesFit DEF IInv, Inv, TypeOK
<1>10. LinkTypes'
  BY <1>1, ReadFacts DEF IInv, LinkTypes, ServerStep
<1> QED
  BY <1>3, <1>5, <1>6, <1>7, <1>8, <1>9, <1>10 DEF IInv

\* A connection the server hangs up.
LEMMA HungUp ==
    ASSUME IInv, Grows, ServerStep, NEW conn \in Connections,
           stage[conn] \in {"up", "cut"}, ~Awaited(conn),
           conn \in closed', conn \notin DOMAIN clientIdByConnection',
           inbound'[conn] # "fresh", inbound'[conn] = "gone" => inbound[conn] = "gone",
           toClient'[conn] \in Seq(ClientMessages),
           \A i \in DOMAIN toServer'[conn] :
               /\ toServer'[conn][i].kind # "Request"
               /\ \E j \in DOMAIN toServer[conn] : toServer'[conn][i] = toServer[conn][j],
           stage[conn] # "up" \/ conn \in closed => toClient'[conn] = toClient[conn],
           ~(stage[conn] # "up" \/ conn \in closed) =>
                  /\ toClient'[conn][Len(toClient'[conn])].kind = "Lost"
                  /\ \A i \in DOMAIN toClient'[conn] :
                        \/ i = Len(toClient'[conn])
                        \/ i \in DOMAIN toClient[conn] /\ toClient'[conn][i] = toClient[conn][i]
                        \/ toClient'[conn][i].kind \in {"Reject", "Notice"}
    PROVE  LinkFits(conn)'
<1>1. LinkTypes /\ LinkFits(conn) /\ UNCHANGED <<session, stage, owner, gone>>
  BY DEF IInv, ServerStep
<1>2. /\ InUse(conn)' <=> InUse(conn)
      /\ ~Awaited(conn)'
      /\ Down(conn)'
      /\ Down(conn) <=> stage[conn] # "up" \/ conn \in closed
  BY <1>1 DEF InUse, Awaited, Down
<1>3. owner[conn] \in Clients
  BY <1>1 DEF LinkFits, StageFits, LinkTypes
<1>4. StageFits(conn)' /\ BindingFits(conn)'
  BY <1>1, <1>2, <1>3 DEF LinkFits, StageFits, BindingFits
<1>5. ToServerFits(conn)'
  BY <1>1 DEF LinkFits, ToServerFits
<1>6. \A i \in DOMAIN toClient'[conn] :
          /\ toClient'[conn][i].kind = "Lost" => i = Len(toClient'[conn])
          /\ toClient'[conn][i].kind \in {"Connected", "Accept"} =>
                 i \in DOMAIN toClient[conn] /\ toClient'[conn][i] = toClient[conn][i]
  <2>1. CASE Down(conn)
    BY <1>1, <1>2, <2>1 DEF LinkFits, ToClientFits
  <2>2. CASE ~Down(conn)
    BY <1>1, <1>2, <2>2 DEF LinkFits, ToClientFits
  <2> QED
    BY <2>1, <2>2
<1>7. \A i \in DOMAIN toClient'[conn] : toClient'[conn][i].kind # "Connected"
  BY <1>1, <1>6 DEF LinkFits, ToClientFits
<1>8. ToClientFits(conn)'
  <2> SUFFICES ASSUME NEW i \in DOMAIN toClient'[conn]
               PROVE  toClient'[conn][i].kind = "Accept" =>
                          /\ AcceptFits(conn, toClient[conn][i])'
                          /\ \A j \in DOMAIN toClient'[conn] :
                                toClient'[conn][j].kind = "Accept" => j = i
    BY <1>2, <1>6, <1>7 DEF ToClientFits
  <2> DEFINE accept == toClient[conn][i]
  <2>1. ASSUME toClient'[conn][i].kind = "Accept"
        PROVE  /\ AcceptFits(conn, accept) /\ toClient'[conn][i] = accept
               /\ \A j \in DOMAIN toClient'[conn] :
                     toClient'[conn][j].kind = "Accept" => j = i
    BY <1>1, <1>6, <2>1 DEF LinkFits, ToClientFits
  <2>2. ASSUME toClient'[conn][i].kind = "Accept"
        PROVE  AcceptFits(conn, toClient[conn][i])'
    <3>1. crashes' = 0 => accept.clientId \in DOMAIN holder' /\ holder'[accept.clientId] = owner[conn]
      BY <2>1, <2>2, StillIssued DEF AcceptFits
    <3>2. crashes = 0 /\ session[owner[conn]].clientId # 0 =>
              session[owner[conn]].clientId \in DOMAIN holder
      BY <1>3 DEF IInv, ClientFits, WasIssued, NoNonce
    <3>3. AcceptFits(conn, accept) /\ toClient'[conn][i] = accept
      BY <2>1, <2>2
    <3> HIDE DEF accept
    <3> QED
      BY <1>1, <1>2, <3>1, <3>2, <3>3 DEF AcceptFits, WasIssued, Grows
  <2> QED
    BY <2>1, <2>2
<1> QED
  BY <1>4, <1>5, <1>8 DEF LinkFits

\* The same, for the queues that HangsUp may leave.
LEMMA ClosesFit ==
    ASSUME IInv, Grows, ServerStep, NEW conn \in Connections,
           stage[conn] \in {"up", "cut"}, ~Awaited(conn),
           conn \in closed', conn \notin DOMAIN clientIdByConnection',
           inbound'[conn] # "fresh", inbound'[conn] = "gone" => inbound[conn] = "gone",
           NEW messages \in Seq({Reject}), NEW reason \in DisconnectReason,
           NEW seen \in Closings(conn, messages, reason), toClient'[conn] = seen,
           NEW unread \in Seq(ServerMessages), NEW cut \in Cuts(unread), toServer'[conn] = cut,
           \A i \in DOMAIN unread :
               /\ unread[i].kind # "Request"
               /\ \E j \in DOMAIN toServer[conn] : unread[i] = toServer[conn][j]
    PROVE  /\ seen \in Seq(ClientMessages) /\ cut \in Seq(ServerMessages)
           /\ LinkFits(conn)'
<1>1. /\ toClient[conn] \in Seq(ClientMessages) /\ conn \in Connections
      /\ messages \in Seq({Reject}) /\ reason \in DisconnectReason
      /\ seen \in Closings(conn, messages, reason)
  BY DEF IInv, LinkTypes
<1>2. /\ seen \in Seq(ClientMessages)
      /\ stage[conn] # "up" \/ conn \in closed => seen = toClient[conn]
      /\ ~(stage[conn] # "up" \/ conn \in closed) =>
             /\ seen[Len(seen)].kind = "Lost"
             /\ \A i \in DOMAIN seen :
                   \/ i = Len(seen)
                   \/ i \in DOMAIN toClient[conn] /\ seen[i] = toClient[conn][i]
                   \/ seen[i].kind \in {"Reject", "Notice"}
  BY ONLY <1>1, ClosingsFit
<1>3. cut \in Seq(ServerMessages) /\ \A i \in DOMAIN cut : i \in DOMAIN unread /\ cut[i] = unread[i]
  BY CutFits
<1>4. \A i \in DOMAIN toServer'[conn] :
          /\ toServer'[conn][i].kind # "Request"
          /\ \E j \in DOMAIN toServer[conn] : toServer'[conn][i] = toServer[conn][j]
  BY <1>3
<1>5. LinkFits(conn)'
  BY <1>2, <1>4, HungUp
<1> QED
  BY <1>2, <1>3, <1>5

\* HangsUp, as one change of each of the two queues of conn.
LEMMA HangsUpChanges ==
    ASSUME NEW conn \in Connections, NEW messages, NEW reason, LinkTypes,
           HangsUp(conn, messages, reason, toClient, Consumed(conn))
    PROVE  \E seen \in Closings(conn, messages, reason), cut \in Cuts(Tail(toServer[conn])) :
               /\ toClient' = [toClient EXCEPT ![conn] = seen]
               /\ toServer' = [toServer EXCEPT ![conn] = cut]
<1>1. PICK seen \in Closings(conn, messages, reason) : toClient' = [toClient EXCEPT ![conn] = seen]
  BY DEF HangsUp
<1>2. PICK cut \in Cuts(Consumed(conn)[conn]) : toServer' = [Consumed(conn) EXCEPT ![conn] = cut]
  BY DEF HangsUp
<1>3. /\ Consumed(conn)[conn] = Tail(toServer[conn])
      /\ [Consumed(conn) EXCEPT ![conn] = cut] = [toServer EXCEPT ![conn] = cut]
  BY DEF Consumed, LinkTypes
<1> QED
  BY <1>1, <1>2, <1>3

LEMMA HearsStep ==
    ASSUME IInv, NEW conn \in Connections, ServerHears(conn)
    PROVE  IInv'
<1>1. Reads(conn, "User") /\ ServerStep /\ UNCHANGED <<crashes, holder>> /\ LinkTypes
  BY DEF ServerHears, ServerStep, clientVars, IInv
<1>2. inbound[conn] # "fresh"
  BY <1>1, ReadFacts DEF IInv, LinkFits, ToServerFits
<1>3. /\ sessionsByClientId' = KeptSessions
      /\ UNCHANGED <<clientIdByConnection, nextClientId, nextSessionNonce, inbound>>
      /\ Inv'
  BY NothingStep, UnboundMessageStep
     DEF ServerHears, PumpNothing, PumpUnboundMessage, IInv
<1>4. ServerFits' /\ Grows
  BY <1>1, <1>3, Pruning, ServerFitsKept DEF IInv
<1>5. Owned'
  BY <1>1, <1>3, OwnedKept DEF ServerStep
<1>6. \A c \in Clients : ClientFits(c)'
  BY <1>1, <1>4, ClientsKept DEF ServerStep
<1>7. CASE /\ conn \in DOMAIN clientIdByConnection
           /\ PumpNothing /\ toServer' = Consumed(conn) /\ UNCHANGED toClient
  <2>1. LinkTypes'
    BY <1>1, <1>7, ReadFacts DEF IInv, LinkTypes, ServerStep
  <2>2. ASSUME NEW other \in Connections \ {conn}
        PROVE  LinkFits(other)'
    <3>1. SameEnd(other)
      BY <1>1, <1>7, ReadFacts DEF SameEnd, PumpNothing
    <3> QED
      BY <3>1, <1>1, <1>4, <1>7, OtherLink
  <2>3. LinkFits(conn)'
    BY <1>1, <1>2, <1>4, <1>7, ConsumesFit DEF PumpNothing
  <2> QED
    BY <1>3, <1>4, <1>5, <1>6, <2>1, <2>2, <2>3 DEF IInv
<1>8. CASE /\ PumpUnboundMessage(conn)
           /\ HangsUp(conn, << >>, "ProtocolMismatch", toClient, Consumed(conn))
  <2>1. /\ inbound[conn] = "asked" /\ conn \notin DOMAIN clientIdByConnection
        /\ closed' = closed \cup {conn}
    BY <1>8 DEF PumpUnboundMessage
  <2>2. PICK seen \in Closings(conn, << >>, "ProtocolMismatch"), cut \in Cuts(Tail(toServer[conn])) :
            /\ toClient' = [toClient EXCEPT ![conn] = seen]
            /\ toServer' = [toServer EXCEPT ![conn] = cut]
    BY <1>1, <1>8, HangsUpChanges
  <2>3. toClient'[conn] = seen /\ toServer'[conn] = cut
    BY <1>1, <2>2 DEF LinkTypes
  <2>4. /\ Tail(toServer[conn]) \in Seq(ServerMessages)
        /\ \A i \in DOMAIN Tail(toServer[conn]) :
              /\ Tail(toServer[conn])[i].kind # "Request"
              /\ \E j \in DOMAIN toServer[conn] : Tail(toServer[conn])[i] = toServer[conn][j]
    BY <1>1, TailFacts
  <2>5. /\ << >> \in Seq({Reject}) /\ "ProtocolMismatch" \in DisconnectReason
        /\ stage[conn] \in {"up", "cut"} /\ ~Awaited(conn)
    BY <1>1, <2>1, ReadFacts, EmptySeq DEF IInv, LinkFits, StageFits, DisconnectReason
  <2>6. /\ seen \in Seq(ClientMessages) /\ cut \in Seq(ServerMessages)
        /\ LinkFits(conn)'
    BY ZenonT(30), <1>1, <1>2, <1>3, <1>4, <2>1, <2>3, <2>4, <2>5, ClosesFit
  <2>7. LinkTypes'
    BY <1>1, <2>2, <2>6 DEF LinkTypes, ServerStep
  <2>8. ASSUME NEW other \in Connections \ {conn}
        PROVE  LinkFits(other)'
    <3>1. SameEnd(other) /\ toClient'[other] = toClient[other]
      BY <1>1, <1>3, <2>1, <2>2 DEF SameEnd, LinkTypes
    <3> QED
      BY <3>1, <1>1, <1>4, OtherLink
  <2> QED
    BY <1>3, <1>4, <1>5, <1>6, <2>6, <2>7, <2>8 DEF IInv
<1> QED
  BY <1>7, <1>8 DEF ServerHears

LEMMA RejectsStep ==
    ASSUME IInv, NEW conn \in Connections, ServerRejects(conn)
    PROVE  IInv'
<1>1. Reads(conn, "Request") /\ ServerStep /\ UNCHANGED <<crashes, holder>> /\ LinkTypes
  BY DEF ServerRejects, ServerStep, clientVars, IInv
<1> DEFINE request == Head(toServer[conn]).request
           reason == validateHandshake(request)
<1>2. /\ PumpReject(conn, request)
      /\ HangsUp(conn, <<Reject>>, reason, toClient, Consumed(conn))
  BY DEF ServerRejects
<1>3. /\ inbound[conn] = "fresh" /\ inbound' = [inbound EXCEPT ![conn] = "asked"]
      /\ reason # Accepted
      /\ sessionsByClientId' = KeptSessions
      /\ closed' = closed \cup {conn}
      /\ UNCHANGED <<clientIdByConnection, nextClientId, nextSessionNonce>>
      /\ Inv'
  BY <1>2, RejectStep DEF PumpReject, FirstRequest, IInv
<1>4. ServerFits' /\ Grows
  BY <1>1, <1>3, Pruning, ServerFitsKept DEF IInv
<1>5. Owned'
  BY <1>1, <1>3, OwnedKept DEF ServerStep
<1>6. \A c \in Clients : ClientFits(c)'
  BY <1>1, <1>4, ClientsKept DEF ServerStep
<1>7. <<Reject>> \in Seq({Reject}) /\ reason \in DisconnectReason
  <2>1. reason \in DisconnectReason
    BY <1>3 DEF validateHandshake, Accepted, DisconnectReason
  <2> QED
    BY <2>1
<1> HIDE DEF request, reason
<1>8. PICK seen \in Closings(conn, <<Reject>>, reason), cut \in Cuts(Tail(toServer[conn])) :
          /\ toClient' = [toClient EXCEPT ![conn] = seen]
          /\ toServer' = [toServer EXCEPT ![conn] = cut]
  BY <1>1, <1>2, HangsUpChanges
<1>9. toClient'[conn] = seen /\ toServer'[conn] = cut /\ inbound'[conn] = "asked"
  BY <1>1, <1>3, <1>8 DEF LinkTypes, IInv, Inv, TypeOK
<1>10. /\ Tail(toServer[conn]) \in Seq(ServerMessages)
       /\ \A i \in DOMAIN Tail(toServer[conn]) :
             /\ Tail(toServer[conn])[i].kind # "Request"
             /\ \E j \in DOMAIN toServer[conn] : Tail(toServer[conn])[i] = toServer[conn][j]
  BY <1>1, TailFacts
<1>11. stage[conn] \in {"up", "cut"} /\ ~Awaited(conn) /\ conn \notin DOMAIN clientIdByConnection
  BY <1>1, <1>3, ReadFacts, BoundIsOwned DEF IInv, LinkFits, ToServerFits
<1>12. /\ seen \in Seq(ClientMessages) /\ cut \in Seq(ServerMessages)
       /\ LinkFits(conn)'
  BY ZenonT(30), <1>1, <1>3, <1>4, <1>7, <1>9, <1>10, <1>11, ClosesFit
<1>13. LinkTypes'
  BY <1>1, <1>8, <1>12 DEF LinkTypes, ServerStep
<1>14. ASSUME NEW other \in Connections \ {conn}
       PROVE  LinkFits(other)'
  <2>1. SameEnd(other) /\ toClient'[other] = toClient[other]
    BY <1>1, <1>3, <1>8 DEF SameEnd, LinkTypes, IInv, Inv, TypeOK
  <2> QED
    BY <2>1, <1>1, <1>4, OtherLink
<1> QED
  BY <1>3, <1>4, <1>5, <1>6, <1>12, <1>13, <1>14 DEF IInv

LEMMA KickStep ==
    ASSUME IInv, NEW id \in 1..MaxClientId, Kick(id)
    PROVE  IInv'
<1>1. PICK conn : conn = sessionsByClientId[id].connection
  OBVIOUS
<1>2. Disconnect(id) /\ ServerStep /\ UNCHANGED <<crashes, holder>> /\ LinkTypes
  BY DEF Kick, ServerStep, clientVars, IInv
<1>3. PICK reason \in {"LocalRequest", "RemoteClosed"} :
          HangsUp(conn, << >>, reason, toClient, toServer)
  BY <1>1 DEF Kick
<1>4. /\ id \in DOMAIN sessionsByClientId /\ conn # NoConnection
      /\ closed' = closed \cup {conn}
      /\ clientIdByConnection' = Without(clientIdByConnection, {conn})
      /\ sessionsByClientId' = [sessionsByClientId EXCEPT ![id] =
             [@ EXCEPT !.connection = NoConnection, !.connected = FALSE]]
      /\ UNCHANGED <<clientIdBySessionNonce, nextClientId, nextSessionNonce, inbound>>
  BY <1>1, <1>2 DEF Disconnect
<1>5. Inv'
  BY <1>2, DisconnectStep DEF IInv, ClientIds
<1>6. ServerFits' /\ Grows
  <2>1. sessionsByClientId[id] \in SessionRecord
    BY <1>4 DEF IInv, Inv, TypeOK
  <2>2. \A other \in DOMAIN sessionsByClientId' :
            /\ other \in DOMAIN sessionsByClientId
            /\ sessionsByClientId'[other].sessionNonce = sessionsByClientId[other].sessionNonce
            /\ sessionsByClientId'[other].authToken = sessionsByClientId[other].authToken
    BY <1>4, <2>1 DEF SessionRecord
  <2> QED
    BY <1>2, <1>4, <2>2, ServerFitsKept
<1>7. /\ conn \in Connections /\ inbound[conn] = "asked" /\ conn \notin closed
      /\ stage[conn] \in {"up", "cut"}
  <2>1. conn \in DOMAIN clientIdByConnection
    BY <1>1, <1>4 DEF IInv, Inv, DirectoryConsistent
  <2> QED
    BY <2>1, BoundIsOwned
<1>8. /\ DOMAIN clientIdByConnection' = DOMAIN clientIdByConnection \ {conn}
      /\ \A other \in DOMAIN clientIdByConnection \ {conn} :
            clientIdByConnection'[other] = clientIdByConnection[other]
  <2>1. DOMAIN clientIdByConnection' = DOMAIN clientIdByConnection \ {conn}
    BY <1>4, WithoutFits
  <2>2. \A other \in DOMAIN clientIdByConnection \ {conn} :
            clientIdByConnection'[other] = clientIdByConnection[other]
    BY <1>4, WithoutFits
  <2> QED
    BY <2>1, <2>2
<1>9. Owned'
  BY <1>2, <1>8, OwnedKept DEF ServerStep
<1>10. \A c \in Clients : ClientFits(c)'
  BY <1>2, <1>6, ClientsKept DEF ServerStep
<1>11. PICK seen \in Closings(conn, << >>, reason), cut \in Cuts(toServer[conn]) :
          /\ toClient' = [toClient EXCEPT ![conn] = seen]
          /\ toServer' = [toServer EXCEPT ![conn] = cut]
  BY <1>3 DEF HangsUp
<1>12. toClient'[conn] = seen /\ toServer'[conn] = cut
  BY <1>2, <1>7, <1>11 DEF LinkTypes
<1>13. /\ toServer[conn] \in Seq(ServerMessages)
       /\ \A i \in DOMAIN toServer[conn] : toServer[conn][i].kind # "Request"
       /\ << >> \in Seq({Reject}) /\ reason \in DisconnectReason
       /\ ~Awaited(conn)
  BY <1>2, <1>7, EmptySeq DEF IInv, LinkTypes, LinkFits, ToServerFits, StageFits, DisconnectReason
<1>14. /\ seen \in Seq(ClientMessages) /\ cut \in Seq(ServerMessages)
       /\ LinkFits(conn)'
  <2>1. PICK unread : unread = toServer[conn]
    OBVIOUS
  <2>2. \A i \in DOMAIN unread : /\ unread[i].kind # "Request"
                                 /\ \E j \in DOMAIN toServer[conn] : unread[i] = toServer[conn][j]
    BY <1>13, <2>1
  <2>3. conn \in closed' /\ conn \notin DOMAIN clientIdByConnection' /\ inbound'[conn] = "asked"
    BY <1>4, <1>7, <1>8
  <2> QED
    BY <1>2, <1>6, <1>7, <1>11, <1>12, <1>13, <2>1, <2>2, <2>3, ClosesFit
<1>15. LinkTypes'
  BY <1>2, <1>11, <1>14 DEF LinkTypes, ServerStep
<1>16. ASSUME NEW other \in Connections \ {conn}
       PROVE  LinkFits(other)'
  <2>1. SameEnd(other) /\ toClient'[other] = toClient[other]
    BY <1>2, <1>4, <1>8, <1>11 DEF SameEnd, LinkTypes, IInv, Inv, TypeOK
  <2> QED
    BY <2>1, <1>2, <1>6, OtherLink
<1> QED
  BY <1>5, <1>6, <1>9, <1>10, <1>14, <1>15, <1>16 DEF IInv

\* The server starts again with nothing: what its clients hold is of the past.
LEMMA CrashStep ==
    ASSUME IInv, Crash
    PROVE  IInv'
<1>1. /\ crashes < MaxCrashes /\ crashes' = crashes + 1
      /\ sessionsByClientId' = << >> /\ clientIdByConnection' = << >>
      /\ clientIdBySessionNonce' = << >>
      /\ nextClientId' = 1 /\ nextSessionNonce' = 1
      /\ closed' = {}
      /\ inbound' = [conn \in Connections |->
             IF stage[conn] \in {"unused", "opening"} THEN "fresh" ELSE "gone"]
      /\ stage' = [conn \in Connections |-> IF stage[conn] = "up" THEN "cut" ELSE stage[conn]]
      /\ toServer' = [conn \in Connections |-> << >>]
      /\ holder' = << >>
      /\ UNCHANGED <<session, owner, toClient, gone>>
  BY DEF Crash, clientVars
<1>2. DOMAIN << >> = {}
  OBVIOUS
<1>3. Inv'
  BY <1>1, <1>2, ServerAssumption
     DEF Inv, TypeOK, DirectoryConsistent, NonceIndexConsistent, NoLeakedLink,
         NoSessionOnClosedLink, NoNonce
<1>4. LinkTypes /\ crashes' \in 0..MaxCrashes /\ crashes' # 0
  BY <1>1, SystemAssumption DEF IInv, LinkTypes
<1>5. LinkTypes'
  BY <1>1, <1>4, EmptySeq DEF LinkTypes
<1>6. ServerFits' /\ Owned'
  BY <1>1, <1>2 DEF ServerFits, Owned
<1>7. ASSUME NEW c \in Clients
      PROVE  ClientFits(c)'
  BY <1>1, <1>4 DEF IInv, ClientFits, IsRecord, WasIssued
<1>8. ASSUME NEW conn \in Connections
      PROVE  LinkFits(conn)'
  <2>1. /\ InUse(conn)' <=> InUse(conn)
        /\ Awaited(conn)' <=> Awaited(conn)
        /\ LinkFits(conn) /\ toServer'[conn] = << >>
    BY <1>1 DEF InUse, Awaited, IInv
  <2>2. CASE stage[conn] \in {"unused", "opening"}
    <3>1. /\ stage'[conn] = stage[conn] /\ inbound'[conn] = "fresh" /\ toClient[conn] = << >>
          /\ ~Down(conn)
      BY <1>1, <2>1, <2>2 DEF LinkFits, StageFits, Down, IInv, Inv
    <3>2. StageFits(conn)' /\ BindingFits(conn)'
      BY <1>1, <2>1, <2>2, <3>1, SystemAssumption
         DEF LinkFits, StageFits, BindingFits, Awaited
    <3> QED
      BY <1>1, <2>1, <3>1, <3>2 DEF LinkFits, ToClientFits, ToServerFits
  <2>3. CASE stage[conn] \notin {"unused", "opening"}
    <3>1. stage'[conn] = "cut" /\ Down(conn)' /\ inbound'[conn] = "gone"
      BY <1>1, <1>4, <2>3 DEF LinkTypes, Down
    <3>2. StageFits(conn)' /\ BindingFits(conn)'
      BY <1>1, <2>1, <2>3, <3>1 DEF LinkFits, StageFits, BindingFits
    <3>3. ToClientFits(conn)'
      BY <1>1, <1>4, <2>1, <3>1 DEF LinkFits, ToClientFits, AcceptFits, WasIssued
    <3> QED
      BY <2>1, <3>2, <3>3 DEF LinkFits, ToServerFits
  <2> QED
    BY <2>2, <2>3
<1> QED
  BY <1>3, <1>5, <1>6, <1>7, <1>8 DEF IInv

------------------------------------------------------------------------------
(* The server accepts a request. *)

\* The connection that is answered.
LEMMA AcceptedFits ==
    ASSUME IInv, Grows, ServerStep, NEW conn \in Connections, Reads(conn, "Request"),
           inbound[conn] = "fresh", inbound'[conn] = "asked", conn \notin closed',
           NEW id \in Nat, conn \in DOMAIN clientIdByConnection', clientIdByConnection'[conn] = id,
           crashes = 0 => id \in DOMAIN holder' /\ holder'[id] = owner[conn],
           InUse(conn) /\ crashes = 0 =>
               session[owner[conn]].clientId \in {0, id}
                   \/ session[owner[conn]].clientId \notin DOMAIN sessionsByClientId',
           toServer'[conn] = Tail(toServer[conn]),
           toClient'[conn] = IF stage[conn] = "up" THEN Append(toClient[conn], Accept(id, id))
                             ELSE toClient[conn]
    PROVE  toClient'[conn] \in Seq(ClientMessages) /\ LinkFits(conn)'
<1>1. /\ LinkTypes /\ LinkFits(conn) /\ UNCHANGED <<session, stage, owner, gone>>
      /\ crashes' = crashes
  BY DEF IInv, ServerStep, Grows
<1>2. /\ stage[conn] \in {"up", "cut"} /\ owner[conn] \in Clients
      /\ conn \notin closed /\ conn \notin DOMAIN clientIdByConnection
      /\ ~Awaited(conn)
  BY <1>1, ReadFacts DEF IInv, Inv, LinkFits, ToServerFits
<1>3. /\ InUse(conn)' <=> InUse(conn)
      /\ ~Awaited(conn)'
      /\ Down(conn)' <=> stage[conn] = "cut"
      /\ Down(conn) <=> stage[conn] = "cut"
  BY <1>1, <1>2 DEF InUse, Awaited, Down
<1>4. toClient[conn] \in Seq(ClientMessages)
  BY <1>1 DEF LinkTypes
<1>5. \A i \in DOMAIN toClient[conn] :
          toClient[conn][i].kind \notin {"Connected", "Accept", "Reject", "Notice"}
  BY <1>1, <1>2 DEF LinkFits, ToClientFits
<1>6. StageFits(conn)'
  BY <1>1, <1>2, <1>3 DEF LinkFits, StageFits
<1>7. BindingFits(conn)'
  BY <1>1, <1>2, <1>3 DEF LinkFits, BindingFits
<1>8. ToServerFits(conn)'
  <2>1. \A i \in DOMAIN Tail(toServer[conn]) :
            /\ Tail(toServer[conn])[i].kind \notin {"Request", "User"}
            /\ Tail(toServer[conn])[i].kind = "Lost" => stage[conn] = "cut"
    BY <1>1, TailFacts DEF LinkFits, ToServerFits
  <2> QED
    BY <1>1, <2>1 DEF ToServerFits
<1>9. CASE stage[conn] = "cut"
  <2>1. toClient'[conn] = toClient[conn]
    BY <1>9
  <2>2. ToClientFits(conn)'
    BY <1>1, <1>3, <1>5, <1>9, <2>1 DEF LinkFits, ToClientFits
  <2> QED
    BY <1>4, <1>6, <1>7, <1>8, <2>1, <2>2 DEF LinkFits
<1>10. CASE stage[conn] = "up"
  <2>1. toClient[conn] = << >> /\ InUse(conn)
    <3>1. ASSUME toClient[conn] # << >> PROVE FALSE
      <4>1. 1 \in DOMAIN toClient[conn] /\ toClient[conn][1] \in ClientMessages
        BY <1>4, <3>1, TailFits
      <4>2. toClient[conn][1].kind = "Lost"
        BY <1>5, <4>1, MessageTypes
      <4> QED
        BY <1>1, <1>3, <1>10, <4>1, <4>2 DEF LinkFits, ToClientFits
    <3> QED
      BY <3>1, <1>1, <1>3, <1>10 DEF LinkFits, StageFits
  <2>2. PICK accept : accept = Accept(id, id)
    OBVIOUS
  <2>3. accept \in ClientMessages /\ accept.kind = "Accept" /\ accept.clientId = id /\ accept.nonce = id
    BY <2>2, MessageTypes
  <2>4. toClient'[conn] = <<accept>>
    BY <1>10, <2>1, <2>2
  <2>5. DOMAIN toClient'[conn] = {1} /\ toClient'[conn][1] = accept
    BY <2>4, OneElement, Zenon
  <2>6. toClient'[conn] \in Seq(ClientMessages)
    <3>1. <<accept>> \in Seq(ClientMessages)
      BY <2>3
    <3> QED
      BY <2>4, <3>1, Zenon
  <2>7. AcceptFits(conn, accept)'
    BY <1>1, <1>3, <2>1, <2>3 DEF AcceptFits, WasIssued
  <2>8. ToClientFits(conn)'
    BY <1>3, <2>3, <2>5, <2>7 DEF ToClientFits
  <2> QED
    BY <1>6, <1>7, <1>8, <2>6, <2>8 DEF LinkFits
<1> QED
  BY <1>2, <1>9, <1>10

\* The queues after an accept: the answer on conn, and the end of the connection
\* it supersedes, if any.
LEMMA AnswerQueues ==
    ASSUME LinkTypes, NEW conn \in Connections, NEW accept,
           NEW superseded, superseded \subseteq Connections \ {conn},
           \A x, y \in superseded : x = y,
           LET answered == IF stage[conn] = "up" THEN [toClient EXCEPT ![conn] = Append(@, accept)]
                           ELSE toClient
           IN IF superseded = {}
              THEN toClient' = answered /\ toServer' = Consumed(conn)
              ELSE \E old \in superseded :
                       HangsUp(old, << >>, "LocalRequest", answered, Consumed(conn))
    PROVE  /\ toClient' = [x \in Connections |-> toClient'[x]]
           /\ toServer' = [x \in Connections |-> toServer'[x]]
           /\ toServer'[conn] = Tail(toServer[conn])
           /\ toClient'[conn] = IF stage[conn] = "up" THEN Append(toClient[conn], accept)
                                ELSE toClient[conn]
           /\ \A other \in Connections \ (superseded \cup {conn}) :
                 toClient'[other] = toClient[other] /\ toServer'[other] = toServer[other]
           /\ \A old \in superseded :
                 /\ toClient'[old] \in Closings(old, << >>, "LocalRequest")
                 /\ toServer'[old] \in Cuts(toServer[old])
<1>1. PICK answered : answered = IF stage[conn] = "up"
                                 THEN [toClient EXCEPT ![conn] = Append(@, accept)]
                                 ELSE toClient
  OBVIOUS
<1>2. PICK unread : unread = [toServer EXCEPT ![conn] = Tail(@)]
  OBVIOUS
<1>3. /\ answered = [x \in Connections |-> answered[x]]
      /\ answered[conn] = IF stage[conn] = "up" THEN Append(toClient[conn], accept)
                          ELSE toClient[conn]
      /\ \A other \in Connections \ {conn} : answered[other] = toClient[other]
  BY <1>1 DEF LinkTypes
<1>4. /\ unread = [x \in Connections |-> unread[x]]
      /\ unread[conn] = Tail(toServer[conn])
      /\ \A other \in Connections \ {conn} : unread[other] = toServer[other]
  BY <1>2 DEF LinkTypes
<1>5. CASE superseded = {}
  <2>1. toClient' = answered /\ toServer' = unread
    BY <1>1, <1>2, <1>5 DEF Consumed
  <2> QED
    BY <1>3, <1>4, <1>5, <2>1
<1>6. CASE superseded # {}
  <2>1. PICK old \in superseded : HangsUp(old, << >>, "LocalRequest", answered, unread)
    BY <1>1, <1>2, <1>6 DEF Consumed
  <2>2. PICK seen \in Closings(old, << >>, "LocalRequest") : toClient' = [answered EXCEPT ![old] = seen]
    BY <2>1 DEF HangsUp
  <2>3. PICK cut \in Cuts(unread[old]) : toServer' = [unread EXCEPT ![old] = cut]
    BY <2>1 DEF HangsUp
  <2>4. old \in Connections /\ old # conn /\ superseded = {old}
    BY <2>1
  <2>5. /\ toClient' = [x \in Connections |-> toClient'[x]]
        /\ toClient'[old] = seen
        /\ \A other \in Connections \ {old} : toClient'[other] = answered[other]
    BY <1>3, <2>2, <2>4
  <2>6. /\ toServer' = [x \in Connections |-> toServer'[x]]
        /\ toServer'[old] = cut
        /\ \A other \in Connections \ {old} : toServer'[other] = unread[other]
    BY <1>4, <2>3, <2>4
  <2>7. cut \in Cuts(toServer[old])
    BY <1>4, <2>3, <2>4
  <2> QED
    BY <1>3, <1>4, <2>2, <2>4, <2>5, <2>6, <2>7
<1> QED
  BY <1>5, <1>6

\* A resume takes over the connection of the session, and no other.
LEMMA ResumeFacts ==
    ASSUME IInv, NEW conn \in Connections, NEW request \in HandshakeRequest,
           inbound[conn] = "fresh", RequestFits(conn, request), NEW id \in Resumable(request)
    PROVE  /\ id \in DOMAIN sessionsByClientId /\ id \in DOMAIN KeptSessions
           /\ KeptSessions[id] = sessionsByClientId[id]
           /\ id \in DOMAIN holder /\ id \in Nat /\ id # NoNonce
           /\ request.requestedSessionNonce = id
           /\ KeptSessions[id].sessionNonce = id
           /\ KeptSessions[id].authToken = request.authToken
           /\ request.authToken = TokenOf[owner[conn]]
           /\ request.authToken = TokenOf[holder[id]]
           /\ crashes = 0 => holder[id] = owner[conn]
           /\ Superseded(id, conn) \subseteq Connections \ {conn}
           /\ \A x, y \in Superseded(id, conn) : x = y
           /\ \A old \in Superseded(id, conn) :
                 old \in DOMAIN clientIdByConnection /\ clientIdByConnection[old] = id
           /\ Superseded(id, conn) \cap closed = {}
<1>1. Inv /\ ServerFits
  BY DEF IInv
<1>2. /\ id \in DOMAIN KeptSessions
      /\ request.requestedSessionNonce # NoNonce
      /\ request.requestedSessionNonce \in DOMAIN KeptNonces
      /\ KeptNonces[request.requestedSessionNonce] = id
      /\ KeptSessions[id].authToken = request.authToken
  BY DEF Resumable
<1>3. /\ id \in DOMAIN sessionsByClientId
      /\ KeptSessions[id] = sessionsByClientId[id]
      /\ KeptSessions[id].sessionNonce = request.requestedSessionNonce
  BY <1>1, <1>2, Pruning
<1>4. id \in DOMAIN holder /\ id \in Nat
  BY <1>1, <1>3 DEF Inv, TypeOK, ServerFits
<1>5. /\ KeptSessions[id].sessionNonce = id
      /\ KeptSessions[id].authToken = TokenOf[holder[id]]
  BY <1>1, <1>3 DEF ServerFits
<1>6. /\ request.authToken = TokenOf[owner[conn]]
      /\ crashes = 0 => holder[id] = owner[conn]
  BY <1>2, <1>3, <1>5 DEF RequestFits, WasIssued
<1>7. /\ Superseded(id, conn) \subseteq Connections \ {conn}
      /\ \A x, y \in Superseded(id, conn) : x = y
      /\ \A old \in Superseded(id, conn) :
            old \in DOMAIN clientIdByConnection /\ clientIdByConnection[old] = id
  BY <1>1, <1>3 DEF Superseded, Inv, DirectoryConsistent
<1>8. Superseded(id, conn) \cap closed = {}
  BY <1>7, BoundIsOwned
<1> QED
  BY <1>2, <1>3, <1>4, <1>5, <1>6, <1>7, <1>8

LEMMA ResumesStep ==
    ASSUME IInv, NEW conn \in Connections, ServerAccepts(conn),
           PumpResume(conn, Head(toServer[conn]).request)
    PROVE  IInv'
<1>1. PICK request : request = Head(toServer[conn]).request
  OBVIOUS
<1>2. PICK id \in Resumable(request) :
          /\ sessionsByClientId' = [KeptSessions EXCEPT ![id] =
                 Attached(request, KeptSessions[id].sessionNonce, conn)]
          /\ clientIdByConnection' =
                 With(Without(clientIdByConnection, Superseded(id, conn)), conn, id)
          /\ closed' = closed \cup Superseded(id, conn)
  BY <1>1 DEF PumpResume
<1>3. /\ inbound[conn] = "fresh" /\ inbound' = [inbound EXCEPT ![conn] = "asked"]
      /\ UNCHANGED <<nextClientId, nextSessionNonce>>
  BY DEF PumpResume, FirstRequest
<1>4. /\ Reads(conn, "Request") /\ ServerStep /\ UNCHANGED crashes /\ LinkTypes /\ Inv
  BY DEF ServerAccepts, ServerStep, clientVars, IInv
<1>5. /\ request \in HandshakeRequest /\ RequestFits(conn, request) /\ ~Awaited(conn)
      /\ stage[conn] \in {"up", "cut"} /\ owner[conn] \in Clients
  BY <1>1, <1>4, ReadFacts, MessageTypes DEF IInv, LinkFits, ToServerFits
<1>6. Inv'
  BY <1>1, <1>5, ResumeStep DEF IInv
<1>7. PICK superseded : superseded = Superseded(id, conn)
  OBVIOUS
<1>8. /\ id \in DOMAIN sessionsByClientId /\ id \in DOMAIN KeptSessions
      /\ KeptSessions[id] = sessionsByClientId[id]
      /\ id \in DOMAIN holder /\ id \in Nat /\ id # NoNonce
      /\ request.requestedSessionNonce = id
      /\ KeptSessions[id].sessionNonce = id
      /\ KeptSessions[id].authToken = request.authToken
      /\ request.authToken = TokenOf[owner[conn]]
      /\ request.authToken = TokenOf[holder[id]]
      /\ crashes = 0 => holder[id] = owner[conn]
  BY <1>3, <1>5, ResumeFacts
<1>9. /\ superseded \subseteq Connections \ {conn}
      /\ \A x, y \in superseded : x = y
      /\ \A old \in superseded :
            old \in DOMAIN clientIdByConnection /\ clientIdByConnection[old] = id
      /\ superseded \cap closed = {}
  BY <1>3, <1>5, <1>7, ResumeFacts
<1>10. conn \notin DOMAIN clientIdByConnection /\ conn \notin closed
  BY <1>3, <1>4, BoundIsOwned DEF Inv
<1>11. /\ DOMAIN clientIdByConnection' = (DOMAIN clientIdByConnection \ superseded) \cup {conn}
       /\ clientIdByConnection'[conn] = id
       /\ \A other \in DOMAIN clientIdByConnection \ superseded :
             clientIdByConnection'[other] = clientIdByConnection[other]
  <2>1. PICK left : left = Without(clientIdByConnection, superseded)
    OBVIOUS
  <2>2. DOMAIN left = DOMAIN clientIdByConnection \ superseded
    BY <2>1, WithoutFits
  <2>3. \A other \in DOMAIN clientIdByConnection \ superseded : left[other] = clientIdByConnection[other]
    BY <2>1, WithoutFits
  <2>4. clientIdByConnection' = With(left, conn, id)
    BY <1>2, <1>7, <2>1
  <2>5. /\ DOMAIN clientIdByConnection' = DOMAIN left \cup {conn}
        /\ clientIdByConnection'[conn] = id
        /\ \A other \in DOMAIN left \ {conn} : clientIdByConnection'[other] = left[other]
    BY <2>4 DEF With
  <2> QED
    BY <1>10, <2>2, <2>3, <2>5
<1>12. /\ DOMAIN sessionsByClientId' = DOMAIN KeptSessions
       /\ \A other \in DOMAIN sessionsByClientId' :
             /\ other \in DOMAIN sessionsByClientId
             /\ sessionsByClientId'[other].sessionNonce = sessionsByClientId[other].sessionNonce
             /\ sessionsByClientId'[other].authToken = sessionsByClientId[other].authToken
  BY <1>2, <1>4, <1>8, Pruning DEF Attached
<1>13. /\ DOMAIN holder' = DOMAIN holder
       /\ \A other \in DOMAIN holder : holder'[other] = holder[other]
  BY <1>8, <1>11 DEF ServerAccepts
<1>14. ServerFits' /\ Grows
  <2>1. ServerFits
    BY DEF IInv
  <2>2. \A other \in DOMAIN sessionsByClientId : other \in DOMAIN holder
    BY <1>4, <2>1 DEF ServerFits, Inv, TypeOK
  <2>3. ServerFits'
    BY <1>3, <1>12, <1>13, <2>1, <2>2 DEF ServerFits
  <2> QED
    BY <1>4, <1>12, <1>13, <2>3 DEF Grows
<1>15. Owned'
  <2> SUFFICES ASSUME TokensTell, NEW other \in DOMAIN clientIdByConnection'
               PROVE  holder'[clientIdByConnection'[other]] = owner[other]
    BY <1>4 DEF Owned, TokensTell, ServerStep
  <2>1. CASE other = conn
    <3>1. holder[id] \in Clients /\ TokenOf[holder[id]] = TokenOf[owner[conn]]
      BY <1>8 DEF IInv, ServerFits
    <3>2. holder[id] = owner[conn]
      BY <1>5, <1>8, <3>1 DEF TokensTell
    <3> QED
      BY <2>1, <3>2, <1>8, <1>11, <1>13
  <2>2. CASE other # conn
    <3>1. /\ other \in DOMAIN clientIdByConnection
          /\ clientIdByConnection'[other] = clientIdByConnection[other]
      BY <2>2, <1>11
    <3>2. clientIdByConnection[other] \in DOMAIN holder
      BY <3>1, <1>4, BoundIsOwned DEF Inv, TypeOK, IInv, ServerFits
    <3> QED
      BY <3>1, <3>2, <1>13 DEF IInv, Owned
  <2> QED
    BY <2>1, <2>2
<1>16. \A c \in Clients : ClientFits(c)'
  BY <1>4, <1>14, ClientsKept DEF ServerStep
<1>17. PICK accept : accept = Accept(id, id)
  OBVIOUS
<1>18. /\ toClient' = [x \in Connections |-> toClient'[x]]
       /\ toServer' = [x \in Connections |-> toServer'[x]]
       /\ toServer'[conn] = Tail(toServer[conn])
       /\ toClient'[conn] = IF stage[conn] = "up" THEN Append(toClient[conn], accept)
                            ELSE toClient[conn]
       /\ \A other \in Connections \ (superseded \cup {conn}) :
             toClient'[other] = toClient[other] /\ toServer'[other] = toServer[other]
       /\ \A old \in superseded :
             /\ toClient'[old] \in Closings(old, << >>, "LocalRequest")
             /\ toServer'[old] \in Cuts(toServer[old])
  <2>1. closed' \ closed = superseded
    BY <1>2, <1>7, <1>9
  <2>2. Accept(clientIdByConnection'[conn],
               sessionsByClientId'[clientIdByConnection'[conn]].sessionNonce) = accept
    BY <1>8, <1>11, <1>12, <1>17
  <2>3. LET answered == IF stage[conn] = "up" THEN [toClient EXCEPT ![conn] = Append(@, accept)]
                        ELSE toClient
        IN IF superseded = {}
           THEN toClient' = answered /\ toServer' = Consumed(conn)
           ELSE \E old \in superseded :
                    HangsUp(old, << >>, "LocalRequest", answered, Consumed(conn))
    BY <2>1, <2>2 DEF ServerAccepts
  <2> QED
    BY <1>4, <1>9, <2>3, AnswerQueues
<1>19. toClient'[conn] \in Seq(ClientMessages) /\ LinkFits(conn)'
  <2>1. InUse(conn) => session[owner[conn]].clientId = id
    BY <1>5, <1>8 DEF RequestFits, IInv, ClientFits
  <2>2. conn \notin closed' /\ inbound'[conn] = "asked"
    BY <1>2, <1>3, <1>4, <1>7, <1>9, <1>10 DEF Inv, TypeOK
  <2> QED
    BY <1>3, <1>4, <1>8, <1>11, <1>13, <1>14, <1>17, <1>18, <2>1, <2>2, AcceptedFits
<1>20. ASSUME NEW old \in superseded
       PROVE  /\ toClient'[old] \in Seq(ClientMessages) /\ toServer'[old] \in Seq(ServerMessages)
              /\ LinkFits(old)'
  <2>1. PICK seen \in Closings(old, << >>, "LocalRequest") : toClient'[old] = seen
    BY <1>18
  <2>2. PICK cut \in Cuts(toServer[old]) : toServer'[old] = cut
    BY <1>18
  <2>3. /\ old \in Connections /\ old # conn /\ old \in DOMAIN clientIdByConnection
        /\ inbound[old] = "asked" /\ stage[old] \in {"up", "cut"}
    BY <1>9, BoundIsOwned
  <2>4. PICK unread : unread = toServer[old]
    OBVIOUS
  <2>5. /\ unread \in Seq(ServerMessages)
        /\ \A i \in DOMAIN unread :
              /\ unread[i].kind # "Request"
              /\ \E j \in DOMAIN toServer[old] : unread[i] = toServer[old][j]
        /\ << >> \in Seq({Reject}) /\ "LocalRequest" \in DisconnectReason
        /\ ~Awaited(old)
    BY <1>4, <2>3, <2>4, EmptySeq
       DEF IInv, LinkTypes, LinkFits, ToServerFits, StageFits, DisconnectReason
  <2>6. old \in closed' /\ old \notin DOMAIN clientIdByConnection' /\ inbound'[old] = "asked"
    BY <1>2, <1>3, <1>4, <1>7, <1>11, <2>3 DEF Inv, TypeOK
  <2> QED
    BY <1>4, <1>14, <2>1, <2>2, <2>3, <2>4, <2>5, <2>6, ClosesFit
<1>21. ASSUME NEW other \in Connections \ (superseded \cup {conn})
       PROVE  LinkFits(other)'
  <2>1. SameEnd(other) /\ toClient'[other] = toClient[other]
    BY <1>2, <1>3, <1>4, <1>7, <1>11, <1>18 DEF SameEnd, Inv, TypeOK
  <2> QED
    BY <2>1, <1>4, <1>14, OtherLink
<1>22. LinkTypes'
  <2>1. \A x \in Connections : toClient'[x] \in Seq(ClientMessages)
    BY <1>4, <1>18, <1>19, <1>20 DEF LinkTypes
  <2>2. \A x \in Connections : toServer'[x] \in Seq(ServerMessages)
    BY <1>4, <1>18, <1>20, TailFacts DEF LinkTypes
  <2>3. toClient' \in [Connections -> Seq(ClientMessages)]
    BY <1>18, <2>1
  <2>4. toServer' \in [Connections -> Seq(ServerMessages)]
    BY <1>18, <2>2
  <2> QED
    BY <1>4, <2>3, <2>4 DEF LinkTypes, ServerStep
<1> QED
  BY <1>6, <1>14, <1>15, <1>16, <1>19, <1>20, <1>21, <1>22 DEF IInv

\* A client that asked for a session the server still keeps would have been
\* given it: the token and the nonce it sends are those of that session.
LEMMA AskedSessionIsGone ==
    ASSUME IInv, NEW conn \in Connections, NEW request, RequestFits(conn, request),
           Resumable(request) = {}, crashes = 0, request.requestedSessionNonce # NoNonce
    PROVE  /\ request.requestedSessionNonce \in DOMAIN holder
           /\ request.requestedSessionNonce \notin DOMAIN KeptSessions
<1> DEFINE id == request.requestedSessionNonce
<1>1. id \in DOMAIN holder /\ holder[id] = owner[conn] /\ request.authToken = TokenOf[owner[conn]]
  BY DEF RequestFits, WasIssued
<1>2. ASSUME id \in DOMAIN KeptSessions PROVE FALSE
  <2>1. /\ id \in DOMAIN sessionsByClientId /\ KeptSessions[id] = sessionsByClientId[id]
        /\ id \notin Expired
        /\ KeptSessions[id].sessionNonce \in DOMAIN KeptNonces
        /\ KeptNonces[KeptSessions[id].sessionNonce] = id
        /\ KeptSessions[id].age \in 0..ReconnectWindow + 1
    BY <1>2, Pruning DEF IInv, SessionRecord
  <2>2. KeptSessions[id].sessionNonce = id /\ KeptSessions[id].authToken = request.authToken
    BY <1>1, <2>1 DEF IInv, ServerFits
  <2>3. KeptSessions[id].connected \/ KeptSessions[id].age <= ReconnectWindow
    BY <2>1, ServerAssumption DEF Expired
  <2>4. id \in Resumable(request)
    BY <1>2, <2>1, <2>2, <2>3 DEF Resumable
  <2> QED
    BY <2>4
<1> QED
  BY <1>1, <1>2

LEMMA CreatesStep ==
    ASSUME IInv, NEW conn \in Connections, ServerAccepts(conn),
           PumpCreate(conn, Head(toServer[conn]).request)
    PROVE  IInv'
<1>1. PICK request : request = Head(toServer[conn]).request
  OBVIOUS
<1>2. PICK id : id = nextClientId
  OBVIOUS
<1>3. /\ Reads(conn, "Request") /\ ServerStep /\ UNCHANGED crashes /\ LinkTypes /\ Inv /\ ServerFits
  BY DEF ServerAccepts, ServerStep, clientVars, IInv
<1>4. /\ inbound[conn] = "fresh" /\ inbound' = [inbound EXCEPT ![conn] = "asked"]
      /\ Resumable(request) = {} /\ closed' = closed
      /\ nextClientId' = id + 1 /\ nextSessionNonce' = id + 1
      /\ sessionsByClientId' = With(KeptSessions, id, Attached(request, id, conn))
      /\ clientIdByConnection' = With(clientIdByConnection, conn, id)
  BY <1>1, <1>2, <1>3 DEF PumpCreate, FirstRequest, ServerFits
<1>5. /\ request \in HandshakeRequest /\ RequestFits(conn, request)
      /\ owner[conn] \in Clients
  BY <1>1, <1>3, ReadFacts, MessageTypes DEF IInv, LinkFits, ToServerFits
<1>6. Inv'
  BY <1>1, <1>5, CreateStep DEF IInv
<1>7. conn \notin DOMAIN clientIdByConnection /\ conn \notin closed
  BY <1>3, <1>4, BoundIsOwned DEF Inv
<1>8. /\ id \in Nat /\ id \notin DOMAIN holder /\ DOMAIN holder = 1..id - 1 /\ id # 0
      /\ \A other \in DOMAIN sessionsByClientId : other \in DOMAIN holder
  BY <1>2, <1>3 DEF Inv, TypeOK, ServerFits
<1>9. /\ DOMAIN clientIdByConnection' = DOMAIN clientIdByConnection \cup {conn}
      /\ clientIdByConnection'[conn] = id
      /\ \A other \in DOMAIN clientIdByConnection :
            clientIdByConnection'[other] = clientIdByConnection[other]
  BY <1>4, <1>7 DEF With
<1>10. /\ DOMAIN sessionsByClientId' = DOMAIN KeptSessions \cup {id}
       /\ sessionsByClientId'[id].sessionNonce = id
       /\ sessionsByClientId'[id].authToken = request.authToken
       /\ \A other \in DOMAIN KeptSessions :
             /\ other \in DOMAIN sessionsByClientId
             /\ sessionsByClientId'[other] = sessionsByClientId[other]
  <2>1. PICK record : record = Attached(request, id, conn)
    OBVIOUS
  <2>2. record.sessionNonce = id /\ record.authToken = request.authToken
    BY <2>1 DEF Attached
  <2>3. /\ DOMAIN KeptSessions \subseteq DOMAIN sessionsByClientId
        /\ \A other \in DOMAIN KeptSessions : KeptSessions[other] = sessionsByClientId[other]
    BY <1>3, Pruning
  <2>4. id \notin DOMAIN KeptSessions
    BY <1>8, <2>3
  <2>5. sessionsByClientId' = With(KeptSessions, id, record)
    BY <1>4, <2>1
  <2> QED
    BY <2>2, <2>3, <2>4, <2>5 DEF With
<1>11. /\ DOMAIN holder' = DOMAIN holder \cup {id}
       /\ holder'[id] = owner[conn]
       /\ \A other \in DOMAIN holder : holder'[other] = holder[other]
  BY <1>8, <1>9 DEF ServerAccepts
<1>12. ServerFits'
  <2>1. DOMAIN holder' = 1..nextClientId' - 1 /\ nextSessionNonce' = nextClientId'
    BY <1>4, <1>8, <1>11
  <2>2. \A other \in DOMAIN holder' : holder'[other] \in Clients
    BY <1>3, <1>5, <1>11 DEF ServerFits
  <2>3. ASSUME NEW other \in DOMAIN sessionsByClientId'
        PROVE  /\ sessionsByClientId'[other].sessionNonce = other
               /\ sessionsByClientId'[other].authToken = TokenOf[holder'[other]]
    <3>1. CASE other = id
      BY <3>1, <1>5, <1>10, <1>11 DEF RequestFits
    <3>2. CASE other # id
      BY <3>2, <1>3, <1>8, <1>10, <1>11 DEF ServerFits
    <3> QED
      BY <3>1, <3>2
  <2> QED
    BY <2>1, <2>2, <2>3 DEF ServerFits
<1>13. Grows
  BY <1>3, <1>8, <1>10, <1>11 DEF Grows
<1>14. Owned'
  <2> SUFFICES ASSUME TokensTell, NEW other \in DOMAIN clientIdByConnection'
               PROVE  holder'[clientIdByConnection'[other]] = owner[other]
    BY <1>3 DEF Owned, TokensTell, ServerStep
  <2>1. CASE other = conn
    BY <2>1, <1>9, <1>11
  <2>2. CASE other # conn
    <3>1. /\ other \in DOMAIN clientIdByConnection
          /\ clientIdByConnection'[other] = clientIdByConnection[other]
      BY <2>2, <1>9
    <3>2. clientIdByConnection[other] \in DOMAIN holder
      BY <3>1, <1>8, BoundIsOwned
    <3> QED
      BY <3>1, <3>2, <1>11 DEF IInv, Owned
  <2> QED
    BY <2>1, <2>2
<1>15. \A c \in Clients : ClientFits(c)'
  BY <1>3, <1>13, ClientsKept DEF ServerStep
<1>16. PICK accept : accept = Accept(id, id)
  OBVIOUS
<1>17. /\ toClient' = [x \in Connections |-> toClient'[x]]
       /\ toServer' = [x \in Connections |-> toServer'[x]]
       /\ toServer'[conn] = Tail(toServer[conn])
       /\ toClient'[conn] = IF stage[conn] = "up" THEN Append(toClient[conn], accept)
                            ELSE toClient[conn]
       /\ \A other \in Connections \ {conn} :
             toClient'[other] = toClient[other] /\ toServer'[other] = toServer[other]
  <2>1. closed' \ closed = {}
    BY <1>4
  <2>2. Accept(clientIdByConnection'[conn],
               sessionsByClientId'[clientIdByConnection'[conn]].sessionNonce) = accept
    BY <1>9, <1>10, <1>16
  <2>3. /\ toServer' = [toServer EXCEPT ![conn] = Tail(@)]
        /\ toClient' = IF stage[conn] = "up" THEN [toClient EXCEPT ![conn] = Append(@, accept)]
                       ELSE toClient
    BY <2>1, <2>2 DEF ServerAccepts, Consumed
  <2> QED
    BY <1>3, <2>3 DEF LinkTypes
<1>18. toClient'[conn] \in Seq(ClientMessages) /\ LinkFits(conn)'
  <2>1. /\ InUse(conn) /\ crashes = 0 =>
               session[owner[conn]].clientId \in {0, id}
                   \/ session[owner[conn]].clientId \notin DOMAIN sessionsByClientId'
    <3> SUFFICES ASSUME InUse(conn), crashes = 0, session[owner[conn]].clientId # 0
                 PROVE  session[owner[conn]].clientId \notin DOMAIN sessionsByClientId'
      OBVIOUS
    <3>1. request.requestedSessionNonce = session[owner[conn]].clientId
      BY <1>5 DEF RequestFits, IInv, ClientFits
    <3>2. /\ request.requestedSessionNonce \in DOMAIN holder
          /\ request.requestedSessionNonce \notin DOMAIN KeptSessions
      BY <1>4, <1>5, <3>1, AskedSessionIsGone DEF NoNonce
    <3> QED
      BY <1>8, <1>10, <3>1, <3>2
  <2>2. conn \notin closed' /\ inbound'[conn] = "asked"
    BY <1>3, <1>4, <1>7 DEF Inv, TypeOK
  <2> QED
    BY <1>3, <1>4, <1>8, <1>9, <1>11, <1>13, <1>16, <1>17, <2>1, <2>2, AcceptedFits
<1>19. ASSUME NEW other \in Connections \ {conn}
       PROVE  LinkFits(other)'
  <2>1. SameEnd(other) /\ toClient'[other] = toClient[other]
    BY <1>3, <1>4, <1>9, <1>17 DEF SameEnd, Inv, TypeOK
  <2> QED
    BY <2>1, <1>3, <1>13, OtherLink
<1>20. LinkTypes'
  <2>1. \A x \in Connections : toClient'[x] \in Seq(ClientMessages)
    BY <1>3, <1>17, <1>18 DEF LinkTypes
  <2>2. \A x \in Connections : toServer'[x] \in Seq(ServerMessages)
    BY <1>3, <1>17, TailFacts DEF LinkTypes
  <2>3. toClient' \in [Connections -> Seq(ClientMessages)]
    BY <1>17, <2>1
  <2>4. toServer' \in [Connections -> Seq(ServerMessages)]
    BY <1>17, <2>2
  <2> QED
    BY <1>3, <2>3, <2>4 DEF LinkTypes, ServerStep
<1> QED
  BY <1>6, <1>12, <1>13, <1>14, <1>15, <1>18, <1>19, <1>20 DEF IInv

LEMMA AcceptsStep ==
    ASSUME IInv, NEW conn \in Connections, ServerAccepts(conn)
    PROVE  IInv'
<1>1. \/ PumpResume(conn, Head(toServer[conn]).request)
      \/ PumpCreate(conn, Head(toServer[conn]).request)
  BY DEF ServerAccepts
<1> QED
  BY <1>1, ResumesStep, CreatesStep

------------------------------------------------------------------------------
LEMMA SystemInitInv == SystemInit => IInv
<1> SUFFICES ASSUME SystemInit PROVE IInv
  OBVIOUS
<1>1. Inv
  BY InitInv DEF SystemInit
<1>2. DOMAIN << >> = {} /\ << >> \in Seq(ClientMessages) /\ << >> \in Seq(ServerMessages)
  BY EmptySeq
<1>3. LinkTypes
  BY <1>2, SystemAssumption DEF SystemInit, LinkTypes, Client!Init
<1>4. ServerFits /\ Owned
  BY <1>2 DEF SystemInit, Init, ServerFits, Owned
<1>5. \A c \in Clients : ClientFits(c)
  BY ServerAssumption
     DEF SystemInit, Client!Init, ClientFits, IsRecord, Members, Client!SessionState,
         Client!NoClientId, NoNonce, Client!NoNonce
<1>6. \A conn \in Connections : LinkFits(conn)
  BY <1>2, SystemAssumption
     DEF SystemInit, Init, LinkFits, StageFits, ToClientFits, ToServerFits, BindingFits, Awaited
<1> QED
  BY <1>1, <1>3, <1>4, <1>5, <1>6 DEF IInv

LEMMA SystemStutter ==
    ASSUME IInv, UNCHANGED systemVars
    PROVE  IInv'
<1>1. UNCHANGED <<session, vars, stage, owner, toClient, toServer, gone, crashes, holder>>
  BY DEF systemVars, clientVars, linkVars
<1>2. Inv' /\ ServerFits' /\ Owned' /\ Grows
  BY <1>1, ServerKept
<1>3. \A c \in Clients : ClientFits(c)'
  BY <1>1, <1>2, ClientsKept
<1>4. ASSUME NEW conn \in Connections
      PROVE  LinkFits(conn)'
  <2>1. SameEnd(conn)
    BY <1>1, ServerKept
  <2> QED
    BY <2>1, <1>1, <1>2, OtherLink DEF ServerStep
<1>5. LinkTypes'
  BY <1>1 DEF IInv, LinkTypes
<1> QED
  BY <1>2, <1>3, <1>4, <1>5 DEF IInv

LEMMA SystemNextInv == IInv /\ [SystemNext]_systemVars => IInv'
<1> SUFFICES ASSUME IInv, [SystemNext]_systemVars PROVE IInv'
  OBVIOUS
<1>1. ASSUME NEW c \in Clients, Start(c) \/ ClientPump(c) \/ Send(c) \/ Quit(c)
      PROVE  IInv'
  BY <1>1, StartStep, RetryStep, ClientEventStep, SendStep, QuitStep DEF ClientPump
<1>2. ASSUME NEW conn \in Connections, ServerPump(conn)
      PROVE  IInv'
  BY <1>2, RejectsStep, AcceptsStep, LosesStep, HearsStep DEF ServerPump
<1>3. ASSUME NEW conn \in Connections, Settle(conn) \/ ServerNotices(conn) \/ Cut(conn)
      PROVE  IInv'
  BY <1>3, EstablishStep, ClientNoticesStep, ServerNoticesStep, CutStep DEF Settle
<1>4. ASSUME NEW id \in 1..MaxClientId, Kick(id)
      PROVE  IInv'
  BY <1>4, KickStep
<1>5. CASE ServerIdle
  BY <1>5, IdleStep
<1>6. CASE Crash
  BY <1>6, CrashStep
<1>7. CASE SystemTick
  BY <1>7, SystemTickStep
<1>8. CASE UNCHANGED systemVars
  BY <1>8, SystemStutter
<1> QED
  BY <1>1, <1>2, <1>3, <1>4, <1>5, <1>6, <1>7, <1>8 DEF SystemNext

THEOREM SystemInvariance == SafeSpec => []IInv
BY SystemInitInv, SystemNextInv, PTL DEF SafeSpec

------------------------------------------------------------------------------
(* The properties. *)

\* While the link of a connected client is up and the server has not closed it
\* (ServerTransportSession::disconnect, the handshake that supersedes it), the
\* server has the client's connection bound to the id the client was told.
THEOREM ConnectedAgreesCorrect == SafeSpec => []ConnectedAgrees
<1>1. IInv => ConnectedAgrees
  <2> SUFFICES ASSUME IInv, NEW c \in Clients, Present(c), NEW conn,
                      conn = session[c].connection, ServerListens(conn)
               PROVE  /\ conn \in DOMAIN clientIdByConnection
                      /\ clientIdByConnection[conn] = session[c].clientId
    BY DEF ConnectedAgrees
  <2>1. conn \in Connections /\ owner[conn] = c /\ session[c].state = "Connected"
    BY DEF IInv, ClientFits, Present
  <2>2. ~Down(conn)
    BY DEF Down, ServerListens
  <2> QED
    BY <2>1, <2>2 DEF IInv, LinkFits, BindingFits
<1> QED
  BY <1>1, SystemInvariance, PTL

\* A game message the server takes is attributed to the id under which its
\* client sent it: no resume rebinds a connection with messages unread.
THEOREM MessageAttributionCorrect == SafeSpec => []MessageAttribution
<1>1. IInv => MessageAttribution
  <2> SUFFICES ASSUME IInv, NEW conn \in DOMAIN clientIdByConnection,
                      NEW i \in DOMAIN toServer[conn], toServer[conn][i].kind = "User"
               PROVE  clientIdByConnection[conn] = toServer[conn][i].clientId
    <3>1. ASSUME NEW conn \in DOMAIN clientIdByConnection
          PROVE  Range(toServer[conn]) = {toServer[conn][i] : i \in DOMAIN toServer[conn]}
      BY DEF Range
    <3> QED
      BY <3>1 DEF MessageAttribution
  <2> QED
    BY BoundIsOwned DEF IInv, LinkFits, ToServerFits
<1> QED
  BY <1>1, SystemInvariance, PTL

\* A connection carries one HandshakeRequest, before any game message, and a
\* client that waits to retry has no event left: what ServerSession and the
\* split of a pump in two steps rest on.
THEOREM OneRequestCorrect == SafeSpec => []OneRequestPerConnection
<1>1. IInv => OneRequestPerConnection
  <2> SUFFICES ASSUME IInv, NEW conn \in Connections
               PROVE  /\ \A i \in DOMAIN toServer[conn] :
                            toServer[conn][i].kind = "Request" => i = 1 /\ inbound[conn] = "fresh"
                      /\ \A c \in Clients :
                            owner[conn] = c /\ session[c].state = "Reconnecting" =>
                                toClient[conn] = << >>
    BY DEF OneRequestPerConnection
  <2>1. LinkFits(conn)
    BY DEF IInv
  <2>2. ASSUME NEW c \in Clients, owner[conn] = c, session[c].state = "Reconnecting"
        PROVE  toClient[conn] = << >>
    <3>1. session[c].connection # conn
      BY <2>2, ServerAssumption DEF IInv, ClientFits
    <3> QED
      BY <2>1, <2>2, <3>1 DEF LinkFits, StageFits, InUse
  <2> QED
    BY <2>1, <2>2 DEF LinkFits, ToServerFits
<1> QED
  BY <1>1, SystemInvariance, PTL

\* A session stays with the client it was created for: a resume asks for the
\* token and the nonce, and a nonce is given to one client only.  Once the
\* server may restart, and count from 1 again, it takes tokens that differ.
THEOREM SessionOwnerCorrect ==
    ASSUME \/ MaxCrashes = 0
           \/ \A c, d \in Clients : TokenOf[c] = TokenOf[d] => c = d
    PROVE  SafeSpec => []SessionOwner
<1>1. IInv => SessionOwner
  <2> SUFFICES ASSUME IInv
               PROVE  SessionOwner
    OBVIOUS
  <2>1. TokensTell
    BY SystemAssumption DEF TokensTell, IInv, LinkTypes
  <2>2. ASSUME NEW c \in Clients, crashes = 0, session[c].clientId # 0
        PROVE  holder[session[c].clientId] = c
    BY <2>2 DEF IInv, ClientFits, WasIssued, NoNonce
  <2> QED
    BY <2>1, <2>2 DEF SessionOwner, IInv, Owned
<1> QED
  BY <1>1, SystemInvariance, PTL

\* Only an accept gives a client another id, and AcceptFits says of which session.
LEMMA NewIdIsAccepted ==
    ASSUME IInv, [SystemNext]_systemVars, NEW c \in Clients,
           session[c].clientId # 0, session'[c].clientId # session[c].clientId
    PROVE  \E conn \in Connections :
              /\ owner[conn] = c /\ 1 \in DOMAIN toClient[conn]
              /\ toClient[conn][1].kind = "Accept"
              /\ session'[c].clientId = toClient[conn][1].clientId
<1>1. session' # session /\ DOMAIN session = Clients /\ ClientFits(c)
  BY DEF IInv, LinkTypes
<1>2. ASSUME NEW d \in Clients, Start(d)
      PROVE  FALSE
  <2>1. PICK conn \in Connections : Client!start(d, conn)
    BY <1>2 DEF Start
  <2>2. session[d].state = "Idle" /\ \A other \in Clients \ {d} : session'[other] = session[other]
    BY <1>1, <2>1 DEF Client!start, Client!Becomes
  <2>3. session[c].state = "Idle"
    BY <2>2
  <2> QED
    BY <1>1, <2>3 DEF ClientFits, NoNonce
<1>3. ASSUME NEW d \in Clients, Retry(d)
      PROVE  FALSE
  <2>1. PICK conn \in Connections : Client!PumpNothing(d, conn)
    BY <1>3 DEF Retry
  <2> DEFINE r == [session[d] EXCEPT
             !.connection = conn,
             !.state = IF conn = NoConnection THEN "Failed" ELSE "ConnectingTransport"]
  <2>2. session' = [session EXCEPT ![d] = r]
    BY <1>3, <2>1 DEF Retry, Client!RetryDue, Client!PumpNothing, Client!Reopened, Client!Becomes
  <2>3. d = c
    BY <1>1, <2>2
  <2>4. r.clientId = session[c].clientId
    BY <1>1, <2>3 DEF ClientFits, IsRecord, Members
  <2> QED
    BY <1>1, <2>2, <2>3, <2>4
<1>4. ASSUME NEW d \in Clients, NEW conn \in Connections, ClientEvent(d, conn)
      PROVE  /\ d = c /\ owner[conn] = c /\ 1 \in DOMAIN toClient[conn]
             /\ toClient[conn][1].kind = "Accept"
             /\ session'[c].clientId = toClient[conn][1].clientId
  <2>1. ClientEventGuard(d, conn)
    BY <1>4 DEF ClientEvent, ClientEventGuard
  <2>2. PICK event : event = toClient[conn][1]
    OBVIOUS
  <2>3. /\ Client!Reopened(d, NoConnection) = session[d] /\ session[d].connection = conn
        /\ Head(toClient[conn]) = event /\ 1 \in DOMAIN toClient[conn] /\ owner[conn] = d
    BY <2>1, <2>2, EventFacts DEF ClientEventGuard
  <2>4. PICK r : session' = [session EXCEPT ![d] = r]
    BY <1>4 DEF ClientEvent, Client!PumpConnected, Client!PumpAccept, Client!PumpReject,
                Client!PumpNotice, Client!PumpDisconnected, Client!PumpNothing, Client!Becomes
  <2>5. d = c
    BY <1>1, <2>4
  <2>6. session[c] = [member \in Members |-> session[c][member]]
    BY <1>1 DEF ClientFits, IsRecord
  <2>7. \/ Client!PumpConnected(c, NoConnection, conn, "Lost" \notin Kinds(toClient[conn]))
        \/ /\ event.kind = "Accept"
           /\ Client!PumpAccept(c, NoConnection, conn, event.clientId, event.nonce)
        \/ Client!PumpReject(c, NoConnection, conn)
        \/ Client!PumpNotice(c, NoConnection, conn, event.reason)
        \/ Client!PumpDisconnected(c, NoConnection, conn, event.reason)
        \/ Client!PumpNothing(c, NoConnection)
    BY <1>4, <2>3, <2>5 DEF ClientEvent
  <2> DEFINE sent == "Lost" \notin Kinds(toClient[conn])
             Same == session'[c].clientId = session[c].clientId
  <2>8. Client!PumpConnected(c, NoConnection, conn, sent) => Same
    BY <1>1, <2>3, <2>5, <2>6 DEF Client!PumpConnected, Client!Becomes, Members
  <2>9. Client!PumpReject(c, NoConnection, conn) => Same
    BY <1>1, <2>3, <2>5, <2>6 DEF Client!PumpReject, Client!Becomes, Members
  <2>10. Client!PumpNotice(c, NoConnection, conn, event.reason) => Same
    BY <1>1, <2>3, <2>5, <2>6 DEF Client!PumpNotice, Client!Becomes, Members
  <2>11. Client!PumpDisconnected(c, NoConnection, conn, event.reason) => Same
    BY <1>1, <2>3, <2>5, <2>6 DEF Client!PumpDisconnected, Client!Becomes, Members
  <2>12. Client!PumpNothing(c, NoConnection) => Same
    BY <1>1, <2>3, <2>5, <2>6 DEF Client!PumpNothing, Client!Becomes, Members
  <2>13. /\ event.kind = "Accept"
         /\ Client!PumpAccept(c, NoConnection, conn, event.clientId, event.nonce)
    BY <2>7, <2>8, <2>9, <2>10, <2>11, <2>12
  <2>14. session'[c].clientId = event.clientId
    BY <1>1, <2>3, <2>5, <2>6, <2>13 DEF Client!PumpAccept, Client!Becomes, Members
  <2> QED
    BY <2>2, <2>3, <2>5, <2>13, <2>14
<1>5. CASE SystemTick
  <2>1. session'[c] = [session[c] EXCEPT !.retryIn = IF @ = 0 THEN 0 ELSE @ - 1]
    BY <1>5 DEF SystemTick, Client!ClockTick
  <2>2. session[c] = [member \in Members |-> session[c][member]]
    BY <1>1 DEF ClientFits, IsRecord
  <2>3. session'[c].clientId = session[c].clientId
    BY <2>1, <2>2 DEF Members
  <2> QED
    BY <2>3
<1>6. \/ \E d \in Clients : Start(d) \/ ClientPump(d)
      \/ SystemTick
  <2>1. ASSUME NEW d \in Clients, Send(d) \/ Quit(d)
        PROVE  FALSE
    BY <1>1, <2>1 DEF Send, Quit, clientVars
  <2>2. ASSUME NEW conn \in Connections,
               ServerPump(conn) \/ Settle(conn) \/ ServerNotices(conn) \/ Cut(conn)
        PROVE  FALSE
    BY <1>1, <2>2
       DEF ServerPump, ServerRejects, ServerAccepts, ServerLoses, ServerHears, Settle,
           Establish, ClientNotices, ServerNotices, Cut, clientVars
  <2>3. ASSUME NEW id \in 1..MaxClientId, Kick(id)
        PROVE  FALSE
    BY <1>1, <2>3 DEF Kick, clientVars
  <2>4. ~ServerIdle /\ ~Crash /\ ~UNCHANGED systemVars
    BY <1>1 DEF ServerIdle, Crash, systemVars, clientVars
  <2> QED
    BY <2>1, <2>2, <2>3, <2>4 DEF SystemNext
<1> QED
  BY <1>2, <1>3, <1>4, <1>5, <1>6 DEF ClientPump

\* A client that is given another id had lost its session at the server: as long
\* as the server keeps it (and has not crashed), the client comes back to it.
THEOREM ReturnCorrect == SafeSpec => ReturnKeepsIdentity
<1>1. IInv /\ [SystemNext]_systemVars =>
          [\A c \in Clients :
              crashes = 0 /\ session[c].clientId # 0 /\ session'[c].clientId # session[c].clientId =>
                  session[c].clientId \notin DOMAIN sessionsByClientId]_systemVars
  <2> SUFFICES ASSUME IInv, [SystemNext]_systemVars, NEW c \in Clients, crashes = 0,
                      session[c].clientId # 0, session'[c].clientId # session[c].clientId
               PROVE  session[c].clientId \notin DOMAIN sessionsByClientId
    OBVIOUS
  <2>1. PICK conn \in Connections :
            /\ owner[conn] = c /\ 1 \in DOMAIN toClient[conn]
            /\ toClient[conn][1].kind = "Accept"
            /\ session'[c].clientId = toClient[conn][1].clientId
    BY NewIdIsAccepted
  <2>2. AcceptFits(conn, toClient[conn][1])
    BY <2>1 DEF IInv, LinkFits, ToClientFits
  <2> QED
    BY <2>1, <2>2 DEF AcceptFits
<1> QED
  BY <1>1, SystemInitInv, SystemNextInv, PTL DEF SafeSpec, ReturnKeepsIdentity
==============================================================================
