------------------------------ MODULE RateLimit ------------------------------
(***************************************************************************)
(* RateLimiter::allow for one client and one bucket: a sliding window of   *)
(* the times of the admitted events, and a back-off that grows with every  *)
(* refusal.  Times are 32-bit milliseconds in the code, here modulo        *)
(* ClockModulus.                                                           *)
(***************************************************************************)
EXTENDS Integers, Sequences, FiniteSetsExt

CONSTANTS
    Window,              \* RateLimitRule::windowMs
    MaxEvents,           \* RateLimitRule::maxEvents
    BaseBackoff,         \* RateLimitRule::baseBackoffMs
    MaxBackoff,          \* RateLimitRule::maxBackoffMs
    BackoffMultiplier,   \* RateLimitRule::backoffMultiplier
    ClockModulus         \* 2^32 in the code

ASSUME RateLimitAssumption ==
    /\ {Window, MaxEvents, BaseBackoff, MaxBackoff} \subseteq Nat \ {0}
    /\ BaseBackoff <= MaxBackoff
    /\ BackoffMultiplier \in Nat \ {0}
    /\ ClockModulus \in Nat \ {0}

Fresh == [timestamps |-> << >>, blockedUntil |-> 0, strikes |-> 0]

Wrapped(time) == time % ClockModulus

\* Deviation: an event is forgotten one tick before it is Window old.
Recent_ForgetsEarly(timestamps, now) ==
    LET live == {i \in DOMAIN timestamps : Wrapped(timestamps[i] + Window) > now + 1}
    IN IF live = {} THEN << >> ELSE SubSeq(timestamps, Min(live), Len(timestamps))

\* The window drops times from the front until one has not run out yet.
Recent(timestamps, now) ==
    LET live == {i \in DOMAIN timestamps : Wrapped(timestamps[i] + Window) > now}
    IN IF live = {} THEN << >> ELSE SubSeq(timestamps, Min(live), Len(timestamps))

Penalty(strikes) ==
    Max({BaseBackoff, Min({BaseBackoff * BackoffMultiplier ^ (strikes - 1), MaxBackoff})})

Blocked(state, now) == now < state.blockedUntil

Full(state, now) == Len(Recent(state.timestamps, now)) >= MaxEvents

Allowed(state, now) == ~Blocked(state, now) /\ ~Full(state, now)

allow(state, now) ==
    CASE Blocked(state, now) -> state
      [] ~Blocked(state, now) /\ Full(state, now) ->
            [timestamps |-> Recent(state.timestamps, now),
             blockedUntil |-> Wrapped(now + Penalty(state.strikes + 1)),
             strikes |-> state.strikes + 1]
      [] Allowed(state, now) ->
            [state EXCEPT !.timestamps = Append(Recent(state.timestamps, now), now)]
==============================================================================
