---------------------------- MODULE MCServerFrame -----------------------------
(* An instance of ServerFrame for TLC. *)
EXTENDS ServerFrame

CONSTANTS c1, c2

Nothing == [losses |-> 0, hits |-> 0, reports |-> 0, commands |-> 0, rounds |-> 0, strays |-> 0]

\* Losses of both clients with a console command, a loss with a report or with the end
\* of a round and the next one, two hits, and a message out of its turn.
MCBudgets ==
    {[Nothing EXCEPT !.losses = 2, !.commands = 1],
     [Nothing EXCEPT !.losses = 1, !.reports = 1],
     [Nothing EXCEPT !.losses = 1, !.rounds = 1],
     [Nothing EXCEPT !.hits = 2],
     [Nothing EXCEPT !.strays = 1]}

\* A client joins, and nothing else happens.
QuietBudgets == {Nothing}
==============================================================================
