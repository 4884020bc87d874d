------------------------------ MODULE AntiCheat ------------------------------
(***************************************************************************)
(* The server's scores: what a client is charged for, and the list of      *)
(* clients KickCheaters() has yet to disconnect.  Scores are in fifths of  *)
(* the code's.                                                             *)
(***************************************************************************)
EXTENDS Integers, Sequences

CONSTANTS
    Clients,
    KickThreshold,      \* SuspicionConfig::kickThreshold, 100
    LimitedScore,       \* a message over its rate, 20
    RegisteredScore,    \* a refused hit, as AntiCheatAuthorizeHit registers it, 25
    DigestScore,        \* a build digest that differs, 100
    HitScores           \* a refused hit, as the hit authority adds it before: 20 or 25

ASSUME AntiCheatAssumption ==
    /\ {KickThreshold, LimitedScore, RegisteredScore, DigestScore} \subseteq Nat \ {0}
    /\ HitScores \subseteq Nat

VARIABLES
    suspicion,    \* every client's score
    cheaters      \* m_cheaters

antiCheatVars == <<suspicion, cheaters>>

AntiCheatInit ==
    /\ suspicion = [c \in Clients |-> 0]
    /\ cheaters = << >>

\* AntiCheatRegisterViolation after extra has been added to the score already.
RegisterViolation(c, extra, score) ==
    /\ suspicion' = [suspicion EXCEPT ![c] = @ + extra + score]
    /\ cheaters' = IF suspicion'[c] >= KickThreshold THEN Append(cheaters, c) ELSE cheaters

\* AntiCheatAuthorizeHit that refuses a hit of c.
RefuseHit(c) == \E extra \in HitScores : RegisterViolation(c, extra, RegisteredScore)

\* Deviation: a cheater that has left ends the round through the list.
Kicked_StopsAtGone(listed) ==
    {c \in Clients : \E i \in DOMAIN cheaters :
        cheaters[i] = c /\ \A j \in 1..i : cheaters[j] \in listed}

\* The clients KickCheaters() disconnects: those on the list and still there.
Kicked(listed) == {c \in listed : \E i \in DOMAIN cheaters : cheaters[i] = c}

KickCheaters ==
    /\ cheaters' = << >>
    /\ UNCHANGED suspicion
==============================================================================
