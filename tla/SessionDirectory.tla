--------------------------- MODULE SessionDirectory --------------------------
(***************************************************************************)
(* What a table of resumable client sessions promises, without nonces,     *)
(* tokens, indexes or clocks.  A client id is handed out once, in order;   *)
(* its session alternates between being attached to one connection and     *)
(* being detached; only a detached session is forgotten, and for good; a   *)
(* connection serves one session, once.                                    *)
(***************************************************************************)
EXTENDS Naturals

CONSTANTS Connections, MaxClientId

VARIABLES
    status,   \* client id -> "absent", "detached", "expired" or its connection
    used      \* connections that can no longer be attached

vars == <<status, used>>

ClientIds == 1..MaxClientId

Init ==
    /\ status = [id \in ClientIds |-> "absent"]
    /\ used = {}

\* The sessions of `forgotten`, all detached, are dropped in the same step.
Forget(forgotten) ==
    [id \in ClientIds |-> IF id \in forgotten THEN "expired" ELSE status[id]]

\* Sessions are dropped and unused connections may be spent.
Expire(forgotten) ==
    /\ status' = Forget(forgotten)
    /\ used' \in {used \cup {conn} : conn \in Connections} \cup {used}

Admit(id, conn, forgotten) ==
    /\ status[id] = "absent"
    /\ \A lower \in 1..id - 1 : status[lower] # "absent"
    /\ conn \notin used
    /\ status' = [Forget(forgotten) EXCEPT ![id] = conn]
    /\ used' = used \cup {conn}

Resume(id, conn, forgotten) ==
    /\ status[id] \in Connections \cup {"detached"}
    /\ id \notin forgotten
    /\ conn \notin used
    /\ status' = [Forget(forgotten) EXCEPT ![id] = conn]
    /\ used' = used \cup {conn}

Detach(id, forgotten) ==
    /\ status[id] \in Connections
    /\ status' = [Forget(forgotten) EXCEPT ![id] = "detached"]
    /\ used' = used

Next ==
    \E forgotten \in SUBSET {id \in ClientIds : status[id] = "detached"} :
        \/ Expire(forgotten)
        \/ \E id \in ClientIds :
              \/ Detach(id, forgotten)
              \/ \E conn \in Connections :
                    Admit(id, conn, forgotten) \/ Resume(id, conn, forgotten)

Spec == Init /\ [][Next]_vars
==============================================================================
