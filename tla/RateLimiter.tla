----------------------------- MODULE RateLimiter -----------------------------
(***************************************************************************)
(* One client's requests against the rate limiter, in true time: the clock *)
(* the server passes to allow() stood at Start when the client came, and   *)
(* wraps.                                                                  *)
(***************************************************************************)
EXTENDS RateLimit

CONSTANTS
    Start,        \* the server's clock when the client's first request can come
    MaxElapsed,   \* bound: length of the run
    MaxStrikes    \* bound: requests that are refused and counted

ASSUME RunAssumption ==
    Start \in 0..ClockModulus - 1 /\ MaxElapsed \in Nat /\ MaxStrikes \in Nat

VARIABLES
    limiter,
    elapsed,    \* true time since Start
    admitted    \* history: when the last MaxEvents + 1 admitted requests came

vars == <<limiter, elapsed, admitted>>

Init ==
    /\ limiter = Fresh
    /\ elapsed = 0
    /\ admitted = << >>

now == Wrapped(Start + elapsed)

\* The last MaxEvents + 1 members of times.
LastOnes(times) ==
    IF Len(times) <= MaxEvents + 1 THEN times ELSE Tail(times)

Request ==
    /\ Allowed(limiter, now) \/ Blocked(limiter, now) \/ limiter.strikes < MaxStrikes
    /\ limiter' = allow(limiter, now)
    /\ admitted' = IF Allowed(limiter, now)
                   THEN LastOnes(Append(admitted, elapsed))
                   ELSE admitted
    /\ UNCHANGED elapsed

Tick ==
    /\ elapsed < MaxElapsed
    /\ elapsed' = elapsed + 1
    /\ UNCHANGED <<limiter, admitted>>

Next == Request \/ Tick

Spec == Init /\ [][Next]_vars

------------------------------------------------------------------------------
\* The times that have run out as soon as they are stamped: the end of their
\* window lies past the clock's last value, and wraps to before them.
ForgottenAtOnce(time) == Wrapped(Start + time) + Window >= ClockModulus

\* The limit holds in every window, wherever it starts, whatever refusals and
\* back-offs lie in it, before the clock wraps, while it wraps and after it: no
\* Window of time contains more than MaxEvents admitted requests, unless the
\* first of them came in the last Window before the clock wrapped
\* (RateLimiter.cpp:23), where the limiter forgets at once what it admits.
\* RateLimiter.h:31: "Applies one sliding-window rate limit for the given client
\* and bucket name."
WindowLimit ==
    Len(admitted) > MaxEvents =>
        \/ admitted[MaxEvents + 1] - admitted[1] >= Window
        \/ ForgottenAtOnce(admitted[1])
==============================================================================
