------------------------------ MODULE Handshake ------------------------------
(***************************************************************************)
(* The vocabulary the two ends of a transport session share: disconnect    *)
(* reasons, the handshake request, and the server's validation of it.      *)
(* Checksums, build ids and version numbers are reduced to whether they    *)
(* equal the server's policy, the only thing the code compares.            *)
(***************************************************************************)
EXTENDS Naturals

CONSTANTS
    Tokens,          \* the auth tokens clients are configured with
    AcceptedTokens   \* HandshakePolicy::acceptedAuthTokens; {} accepts any token

ASSUME TokensAssumption == AcceptedTokens \subseteq Tokens

DisconnectReason == {"LocalRequest", "RemoteClosed", "Timeout", "ProtocolMismatch",
                     "AssetMismatch", "AuthFailed", "TransportError"}

\* The empty requestedSessionNonce of a client that holds no session.
NoNonce == 0

\* requestedSessionNonce is a number: makeSessionNonce prints a counter in
\* hexadecimal after a fixed prefix, so different counters give different strings.
HandshakeRequest == [sameProtocol : BOOLEAN, sameAssets : BOOLEAN,
                     authToken : Tokens, requestedSessionNonce : Nat]

\* The empty optional of validateHandshake.
Accepted == "Accepted"

validateHandshake(request) ==
    CASE ~request.sameProtocol -> "ProtocolMismatch"
      [] request.sameProtocol /\ ~request.sameAssets -> "AssetMismatch"
      [] /\ request.sameProtocol /\ request.sameAssets
         /\ AcceptedTokens # {} /\ request.authToken \notin AcceptedTokens -> "AuthFailed"
      [] OTHER -> Accepted
==============================================================================
