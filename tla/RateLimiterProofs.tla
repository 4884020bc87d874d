-------------------------- MODULE RateLimiterProofs ---------------------------
(***************************************************************************)
(* Proofs about RateLimiter, for any window, limit and back-off, and a     *)
(* clock that may stand anywhere and wrap any number of times.             *)
(***************************************************************************)
EXTENDS RateLimiter, WellFoundedInduction, TLAPS

Members == {"timestamps", "blockedUntil", "strikes"}

\* A request admitted at time is no longer counted at present.
RunOut(time, present) == time + Window <= present \/ ForgottenAtOnce(time)

\* The limiter's window holds the newest admitted requests, and those it has
\* dropped are a whole window old or were forgotten at once.
Remembers(timestamps, times, present) ==
    /\ timestamps \in Seq(Nat) /\ times \in Seq(Nat)
    /\ Len(timestamps) <= MaxEvents
    /\ Len(timestamps) <= Len(times)
    /\ Len(times) <= MaxEvents + 1
    /\ \A i \in 1..Len(timestamps) :
          timestamps[i] = Wrapped(Start + times[i + (Len(times) - Len(timestamps))])
    /\ \A i \in 1..Len(times) : times[i] <= present
    /\ \A i \in 1..Len(times) - Len(timestamps) : RunOut(times[i], present)

\* What WindowLimit says of a full list.
LimitKept(times) ==
    times[MaxEvents + 1] - times[1] >= Window \/ ForgottenAtOnce(times[1])

\* The inductive invariant.
IInv ==
    /\ elapsed \in 0..MaxElapsed
    /\ limiter = [member \in Members |-> limiter[member]]
    /\ Remembers(limiter.timestamps, admitted, elapsed)
    /\ WindowLimit

\* The whole turns of the clock, and where it stands.
LEMMA Turns ==
    ASSUME NEW time \in Nat
    PROVE  /\ Wrapped(time) \in Nat /\ Wrapped(time) < ClockModulus
           /\ time \div ClockModulus \in Nat
           /\ time = ClockModulus * (time \div ClockModulus) + Wrapped(time)
<1>1. ClockModulus \in Nat /\ ClockModulus > 0
  BY RateLimitAssumption
<1> QED
  BY <1>1 DEF Wrapped

\* A time below the clock's width is not changed by it.
LEMMA NoWrap == ASSUME NEW time \in Nat, time < ClockModulus PROVE Wrapped(time) = time
BY RateLimitAssumption DEF Wrapped

\* Later times have as many whole turns behind them.
LEMMA TurnsGrow ==
    ASSUME NEW p \in Nat, NEW q \in Nat, NEW modulus \in Nat, NEW r \in Nat, NEW s \in Nat,
           r < modulus, s < modulus, modulus * p + r <= modulus * q + s
    PROVE  p <= q
<1> SUFFICES ASSUME p > q PROVE FALSE
  OBVIOUS
<1>1. PICK d \in Nat : p = q + 1 + d
  <2>1. p - q - 1 \in Nat /\ p = q + 1 + (p - q - 1)
    OBVIOUS
  <2> QED
    BY <2>1
<1>2. modulus * p = modulus * q + modulus + modulus * d /\ modulus * d >= 0
  BY <1>1
<1> QED
  BY <1>2

\* What the wrapped clock shows to be a window old is a window old, unless the
\* end of its window wrapped.
LEMMA OldOnTheClock ==
    ASSUME NEW time \in Nat, NEW present \in Nat, time <= present,
           Wrapped(Wrapped(Start + time) + Window) <= Wrapped(Start + present)
    PROVE  RunOut(time, present)
<1>1. Start \in Nat /\ Window \in Nat /\ ClockModulus \in Nat
  BY RateLimitAssumption, RunAssumption
<1> DEFINE a == Start + time
           b == Start + present
           p == a \div ClockModulus
           q == b \div ClockModulus
           r == Wrapped(a)
           s == Wrapped(b)
<1>2. a \in Nat /\ b \in Nat /\ a <= b
  BY <1>1
<1>3. /\ r \in Nat /\ r < ClockModulus /\ p \in Nat /\ a = ClockModulus * p + r
      /\ s \in Nat /\ s < ClockModulus /\ q \in Nat /\ b = ClockModulus * q + s
  <2> HIDE DEF a, b
  <2> QED
    BY <1>2, Turns
<1>4. CASE r + Window >= ClockModulus
  BY <1>4 DEF RunOut, ForgottenAtOnce
<1>5. CASE r + Window < ClockModulus
  <2>1. r + Window \in Nat
    BY <1>1, <1>3
  <2>2. Wrapped(r + Window) = r + Window
    <3> HIDE DEF r
    <3> QED
      BY <1>5, <2>1, NoWrap
  <2>3. r + Window <= s
    BY <2>2
  <2> HIDE DEF p, q, r, s
  <2>4. p <= q
    <3> HIDE DEF a, b
    <3> QED
      BY <1>1, <1>2, <1>3, TurnsGrow
  <2>5. ClockModulus * p <= ClockModulus * q /\ ClockModulus * p \in Nat
    BY <1>1, <1>3, <2>4
  <2>6. a + Window <= b
    <3> HIDE DEF a, b
    <3> DEFINE x == ClockModulus * p
               y == ClockModulus * q
    <3>1. a = x + r /\ b = y + s /\ x <= y /\ x \in Nat /\ y \in Nat
      BY <1>1, <1>3, <2>5
    <3> HIDE DEF x, y
    <3> QED
      BY <1>1, <1>3, <2>3, <3>1
  <2>7. time + Window <= present
    BY <1>1, <2>6
  <2> QED
    BY <2>7 DEF RunOut
<1>6. r + Window >= ClockModulus \/ r + Window < ClockModulus
  <2> HIDE DEF r
  <2> QED
    BY <1>1, <1>3
<1> QED
  BY <1>4, <1>5, <1>6

\* The smallest of a set of positions.
LEMMA MinPosition ==
    ASSUME NEW S, S \subseteq Nat, S # {}
    PROVE  Min(S) \in S /\ \A i \in S : Min(S) <= i
<1>1. \E x \in S : \A y \in S : x <= y
  <2> DEFINE before == {pair \in Nat \X Nat : pair[1] < pair[2]}
  <2>1. IsWellFoundedOn(before, Nat)
    BY NatLessThanWellFounded DEF OpToRel
  <2> HIDE DEF before
  <2>2. PICK x \in S : \A y \in S : ~ (<<y, x>> \in before)
    BY <2>1, WFMin
  <2>3. ASSUME NEW y \in S PROVE x <= y
    <3>1. x \in Nat /\ y \in Nat
      OBVIOUS
    <3>2. <<y, x>> \in Nat \X Nat /\ <<y, x>>[1] = y /\ <<y, x>>[2] = x
      BY <3>1
    <3>3. y < x => <<y, x>> \in before
      BY <3>2 DEF before
    <3> QED
      BY <2>2, <3>1, <3>3
  <2> QED
    BY <2>3
<1> QED
  BY <1>1 DEF Min

\* What Recent() drops has run out on the clock, and it drops from the front.
LEMMA RecentDrops ==
    ASSUME IInv
    PROVE  \E d \in 0..Len(limiter.timestamps) :
              /\ Recent(limiter.timestamps, now) \in Seq(Nat)
              /\ Len(Recent(limiter.timestamps, now)) = Len(limiter.timestamps) - d
              /\ \A i \in 1..Len(limiter.timestamps) - d :
                    Recent(limiter.timestamps, now)[i] = limiter.timestamps[i + d]
              /\ \A i \in 1..d : Wrapped(limiter.timestamps[i] + Window) <= now
<1> DEFINE T == limiter.timestamps
           live == {i \in DOMAIN T : Wrapped(T[i] + Window) > now}
<1>1. /\ T \in Seq(Nat) /\ Len(T) \in Nat /\ DOMAIN T = 1..Len(T)
      /\ Start \in Nat /\ elapsed \in Nat /\ Window \in Nat
  BY RateLimitAssumption, RunAssumption DEF IInv, Remembers
<1>2. now \in Nat
  <2>1. Start + elapsed \in Nat
    BY <1>1
  <2> QED
    BY <2>1, Turns DEF now
<1>3. ASSUME NEW i \in DOMAIN T, i \notin live PROVE Wrapped(T[i] + Window) <= now
  <2>1. T[i] + Window \in Nat
    BY <1>1
  <2>2. Wrapped(T[i] + Window) \in Nat
    BY <2>1, Turns
  <2>3. ~ (Wrapped(T[i] + Window) > now)
    BY <1>3
  <2> QED
    BY <1>2, <2>2, <2>3
<1>4. CASE live = {}
  <2>1. Recent(T, now) = << >>
    BY <1>4 DEF Recent
  <2>2. \A i \in 1..Len(T) : Wrapped(T[i] + Window) <= now
    <3> HIDE DEF live
    <3> QED
      BY <1>1, <1>3, <1>4
  <2>3. << >> \in Seq(Nat) /\ Len(<< >>) = Len(T) - Len(T) /\ Len(T) \in 0..Len(T)
    BY <1>1
  <2>4. \A i \in 1..Len(T) - Len(T) : << >>[i] = T[i + Len(T)]
    BY <1>1
  <2> HIDE DEF T, live
  <2> QED
    BY <2>1, <2>2, <2>3, <2>4 DEF T
<1>5. CASE live # {}
  <2> DEFINE m == Min(live)
             d == m - 1
  <2>1. Recent(T, now) = SubSeq(T, m, Len(T))
    BY <1>5 DEF Recent
  <2>2. m \in live /\ \A i \in live : m <= i
    <3>1. live \subseteq Nat
      BY <1>1
    <3> HIDE DEF live
    <3> QED
      BY <1>5, <3>1, MinPosition
  <2>3. m \in 1..Len(T)
    BY <1>1, <2>2
  <2>4. \A i \in 1..d : Wrapped(T[i] + Window) <= now
    <3> SUFFICES ASSUME NEW i \in 1..d PROVE Wrapped(T[i] + Window) <= now
      OBVIOUS
    <3>1. i \in DOMAIN T /\ i \notin live
      <4> HIDE DEF live, m, T
      <4> QED
        BY <1>1, <2>2, <2>3 DEF T
    <3> QED
      BY <1>3, <3>1
  <2> HIDE DEF live, m, T
  <2>5. /\ SubSeq(T, m, Len(T)) \in Seq(Nat)
        /\ Len(SubSeq(T, m, Len(T))) = Len(T) - d
        /\ \A i \in 1..Len(T) - d : SubSeq(T, m, Len(T))[i] = T[i + d]
        /\ d \in 0..Len(T)
    BY SMTT(30), <1>1, <2>3
  <2> QED
    BY <2>1, <2>4, <2>5 DEF T
<1> QED
  BY <1>4, <1>5

\* The window after old requests are forgotten still holds the newest.
LEMMA StillRemembers ==
    ASSUME IInv
    PROVE  Remembers(Recent(limiter.timestamps, now), admitted, elapsed)
<1> DEFINE T == limiter.timestamps
           R == Recent(T, now)
<1>1. PICK d \in 0..Len(T) :
        /\ R \in Seq(Nat)
        /\ Len(R) = Len(T) - d
        /\ \A i \in 1..Len(T) - d : R[i] = T[i + d]
        /\ \A i \in 1..d : Wrapped(T[i] + Window) <= now
  BY RecentDrops
<1>2. /\ T \in Seq(Nat) /\ Len(T) \in Nat /\ admitted \in Seq(Nat) /\ Len(admitted) \in Nat
      /\ elapsed \in Nat /\ MaxEvents \in Nat
  BY RateLimitAssumption, RunAssumption DEF IInv, Remembers
<1>3. /\ Len(T) <= MaxEvents /\ Len(T) <= Len(admitted) /\ Len(admitted) <= MaxEvents + 1
      /\ \A i \in 1..Len(T) : T[i] = Wrapped(Start + admitted[i + (Len(admitted) - Len(T))])
      /\ \A i \in 1..Len(admitted) : admitted[i] <= elapsed
      /\ \A i \in 1..Len(admitted) - Len(T) : RunOut(admitted[i], elapsed)
  BY DEF IInv, Remembers
<1> DEFINE n == Len(admitted)
<1> HIDE DEF R, T
<1>4. Len(R) <= MaxEvents /\ Len(R) <= n
  BY <1>1, <1>2, <1>3
<1>5. ASSUME NEW i \in 1..Len(R)
      PROVE  R[i] = Wrapped(Start + admitted[i + (n - Len(R))])
  <2>1. R[i] = T[i + d] /\ i + d \in 1..Len(T)
    BY <1>1, <1>2
  <2>2. (i + d) + (n - Len(T)) = i + (n - Len(R))
    BY <1>1, <1>2
  <2> QED
    BY <1>3, <2>1, <2>2
<1>6. ASSUME NEW i \in 1..n - Len(R)
      PROVE  RunOut(admitted[i], elapsed)
  <2>1. CASE i <= n - Len(T)
    BY <1>1, <1>2, <1>3, <2>1
  <2>2. CASE i > n - Len(T)
    <3> DEFINE j == i - (n - Len(T))
    <3>1. d \in 0..Len(T) /\ n \in Nat /\ Len(T) \in Nat /\ i \in 1..n - (Len(T) - d)
      BY <1>1, <1>2
    <3>2. j \in 1..d /\ j \in 1..Len(T) /\ j + (n - Len(T)) = i
      <4> HIDE DEF n
      <4> QED
        BY <2>2, <3>1
    <3>3. T[j] = Wrapped(Start + admitted[i]) /\ Wrapped(T[j] + Window) <= Wrapped(Start + elapsed)
      <4>1. T[j] = Wrapped(Start + admitted[j + (n - Len(T))])
        BY <1>3, <3>2
      <4>2. Wrapped(T[j] + Window) <= now
        <5> HIDE DEF j
        <5> QED
          BY <1>1, <3>2
      <4> QED
        BY <3>2, <4>1, <4>2 DEF now
    <3>4. i \in 1..n /\ admitted[i] \in Nat /\ admitted[i] <= elapsed
      BY SMTT(30), <1>1, <1>2, <1>3, <1>4
    <3> QED
      BY <1>2, <3>3, <3>4, OldOnTheClock
  <2> QED
    BY <1>1, <1>2, <2>1, <2>2
<1>7. Remembers(R, admitted, elapsed)
  BY <1>1, <1>2, <1>3, <1>4, <1>5, <1>6 DEF Remembers
<1> QED
  BY <1>7 DEF R, T

\* An admitted request joins both ends, and only what is a window old is let go.
LEMMA AdmitRemembers ==
    ASSUME NEW R, NEW times, NEW present \in Nat,
           Remembers(R, times, present), Len(R) < MaxEvents
    PROVE  LET grown == LastOnes(Append(times, present)) IN
           /\ Remembers(Append(R, Wrapped(Start + present)), grown, present)
           /\ Len(grown) > MaxEvents => LimitKept(grown)
<1> DEFINE both == Append(times, present)
           grown == LastOnes(both)
           T == Append(R, Wrapped(Start + present))
           n == Len(times)
           r == Len(R)
<1>1. /\ R \in Seq(Nat) /\ times \in Seq(Nat) /\ r \in Nat /\ n \in Nat
      /\ r < MaxEvents /\ r <= n /\ n <= MaxEvents + 1
      /\ \A i \in 1..r : R[i] = Wrapped(Start + times[i + (n - r)])
      /\ \A i \in 1..n : times[i] <= present
      /\ \A i \in 1..n - r : RunOut(times[i], present)
  BY DEF Remembers
<1>2. Start \in Nat /\ Window \in Nat /\ MaxEvents \in Nat /\ MaxEvents # 0
  BY RateLimitAssumption, RunAssumption
<1>3. /\ T \in Seq(Nat) /\ Len(T) = r + 1 /\ T[r + 1] = Wrapped(Start + present)
      /\ \A i \in 1..r : T[i] = R[i]
  <2>1. Start + present \in Nat
    BY <1>2
  <2>2. Wrapped(Start + present) \in Nat
    BY <2>1, Turns
  <2> QED
    BY <1>1, <1>2, <2>2
<1>4. /\ both \in Seq(Nat) /\ Len(both) = n + 1 /\ both[n + 1] = present
      /\ \A i \in 1..n : both[i] = times[i]
  BY <1>1
\* o requests are let go of the list.
<1>5. PICK o \in 0..1 :
        /\ grown \in Seq(Nat) /\ Len(grown) = n + 1 - o /\ Len(grown) <= MaxEvents + 1
        /\ \A i \in 1..n + 1 - o : grown[i] = both[i + o]
        /\ o = 1 => n = MaxEvents + 1
  <2>1. CASE Len(both) <= MaxEvents + 1
    <3>1. grown = both
      BY <2>1 DEF LastOnes
    <3> HIDE DEF grown, both
    <3>2. /\ grown \in Seq(Nat) /\ Len(grown) = n + 1 - 0 /\ Len(grown) <= MaxEvents + 1
      <4>1. Len(both) = n + 1 - 0
        BY <1>1, <1>4
      <4> QED
        BY <1>4, <2>1, <3>1, <4>1
    <3>3. \A i \in 1..n + 1 - 0 : grown[i] = both[i + 0]
      BY <1>1, <3>1
    <3>4. 0 \in 0..1 /\ 0 # 1
      OBVIOUS
    <3> QED
      BY <3>2, <3>3, <3>4
  <2>2. CASE ~ (Len(both) <= MaxEvents + 1)
    <3>1. grown = Tail(both)
      BY <2>2 DEF LastOnes
    <3>2. both # << >> /\ n = MaxEvents + 1
      BY <1>1, <1>2, <1>4, <2>2
    <3> HIDE DEF grown, both
    <3>3. /\ grown \in Seq(Nat) /\ Len(grown) = n + 1 - 1 /\ Len(grown) <= MaxEvents + 1
          /\ \A i \in 1..n + 1 - 1 : grown[i] = both[i + 1]
          /\ n = MaxEvents + 1
      BY <1>1, <1>2, <1>4, <3>1, <3>2
    <3> QED
      BY <3>3
  <2> QED
    BY <2>1, <2>2
<1> HIDE DEF both, grown, T, n, r
<1>6. Len(T) <= MaxEvents /\ Len(T) <= Len(grown) /\ Len(grown) - Len(T) = n - r - o
  <2>1. CASE o = 0
    BY <1>1, <1>2, <1>3, <1>5, <2>1
  <2>2. CASE o = 1
    BY <1>1, <1>2, <1>3, <1>5, <2>2
  <2> QED
    BY <2>1, <2>2
<1>7. ASSUME NEW i \in 1..Len(T)
      PROVE  T[i] = Wrapped(Start + grown[i + (Len(grown) - Len(T))])
  <2> DEFINE j == i + (n - r - o)
  <2>1. j \in 1..n + 1 - o /\ j + o = i + (n - r)
    BY <1>1, <1>3, <1>5, <1>6
  <2>2. grown[j] = both[i + (n - r)]
    BY <1>5, <2>1
  <2>3. CASE i = r + 1
    <3>1. i + (n - r) = n + 1
      BY <1>1, <2>3
    <3> QED
      BY <1>3, <1>4, <1>6, <2>2, <2>3, <3>1
  <2>4. CASE i \in 1..r
    <3>1. i + (n - r) \in 1..n
      BY <1>1, <2>4
    <3> QED
      BY <1>1, <1>3, <1>4, <1>6, <2>2, <2>4, <3>1
  <2> QED
    BY <1>1, <1>3, <2>3, <2>4
<1>8. ASSUME NEW i \in 1..Len(grown) PROVE grown[i] <= present
  <2>1. i \in 1..n + 1 - o
    BY <1>5
  <2>2. i + o \in 1..n + 1 /\ grown[i] = both[i + o]
    BY <1>1, <1>5, <2>1
  <2>3. CASE i + o = n + 1
    BY <1>4, <2>2, <2>3
  <2>4. CASE i + o \in 1..n
    BY <1>1, <1>4, <2>2, <2>4
  <2> QED
    BY <1>1, <2>2, <2>3, <2>4
<1>9. ASSUME NEW i \in 1..Len(grown) - Len(T) PROVE RunOut(grown[i], present)
  <2>1. i + o \in 1..n - r /\ i \in 1..n + 1 - o /\ i + o \in 1..n
    <3>1. i \in Nat /\ 1 <= i /\ i <= n - r - o
      BY <1>1, <1>5, <1>6
    <3>2. n \in Nat /\ r \in Nat /\ r <= n /\ (o = 0 \/ o = 1)
      BY <1>1, <1>5
    <3> QED
      BY <3>1, <3>2
  <2>2. grown[i] = times[i + o]
    BY <1>4, <1>5, <2>1
  <2> QED
    BY <1>1, <2>1, <2>2
<1>10. Remembers(T, grown, present)
  BY <1>3, <1>5, <1>6, <1>7, <1>8, <1>9 DEF Remembers
<1>11. Len(grown) > MaxEvents => LimitKept(grown)
  <2> SUFFICES ASSUME Len(grown) > MaxEvents PROVE LimitKept(grown)
    OBVIOUS
  <2>1. n + 1 - o = MaxEvents + 1 /\ 1 \in 1..Len(grown) - Len(T)
    <3>1. /\ Len(grown) = n + 1 - o /\ Len(grown) <= MaxEvents + 1 /\ Len(grown) \in Nat
          /\ Len(T) \in Nat /\ Len(T) <= MaxEvents
      BY <1>3, <1>5, <1>6
    <3>2. Len(grown) = MaxEvents + 1
      BY <1>2, <3>1
    <3> QED
      BY <1>2, <3>1, <3>2
  <2>2. grown[MaxEvents + 1] = present
    <3>1. (MaxEvents + 1) + o = n + 1 /\ MaxEvents + 1 \in 1..n + 1 - o
      BY <1>1, <1>2, <2>1
    <3> QED
      BY <1>4, <1>5, <3>1
  <2>3. RunOut(grown[1], present) /\ grown[1] \in Nat
    BY <1>5, <1>9, <2>1
  <2> QED
    BY <1>2, <2>2, <2>3 DEF RunOut, LimitKept
<1> QED
  BY <1>10, <1>11 DEF T, grown, both

------------------------------------------------------------------------------
\* A request that is refused changes at most the window and the back-off.
LEMMA RequestInv == ASSUME IInv, Request PROVE IInv'
<1> DEFINE R == Recent(limiter.timestamps, now)
<1>1. Remembers(R, admitted, elapsed) /\ now = Wrapped(Start + elapsed)
  BY StillRemembers DEF now
<1>2. elapsed' = elapsed /\ elapsed \in Nat /\ MaxEvents \in Nat
  BY RateLimitAssumption, RunAssumption DEF Request, IInv
<1>3. CASE Blocked(limiter, now)
  <2>1. limiter' = limiter /\ admitted' = admitted
    BY <1>3 DEF Request, allow, Allowed
  <2> QED
    BY <1>2, <2>1 DEF IInv, WindowLimit
<1>4. CASE ~ Blocked(limiter, now) /\ Full(limiter, now)
  <2>1. /\ limiter' = [timestamps |-> R,
                       blockedUntil |-> Wrapped(now + Penalty(limiter.strikes + 1)),
                       strikes |-> limiter.strikes + 1]
        /\ admitted' = admitted
    BY <1>4 DEF Request, allow, Allowed
  <2> HIDE DEF R
  <2>2. limiter'.timestamps = R /\ limiter' = [member \in Members |-> limiter'[member]]
    BY <2>1 DEF Members
  <2> QED
    BY <1>1, <1>2, <2>1, <2>2 DEF IInv, WindowLimit
<1>5. CASE ~ Blocked(limiter, now) /\ ~ Full(limiter, now)
  <2>1. Allowed(limiter, now) /\ Len(R) < MaxEvents
    <3>1. Len(R) \in Nat
      BY <1>1 DEF Remembers
    <3> QED
      BY <1>2, <1>5, <3>1 DEF Allowed, Full
  <2>2. /\ limiter' = [limiter EXCEPT !.timestamps = Append(R, now)]
        /\ admitted' = LastOnes(Append(admitted, elapsed))
    BY <1>5, <2>1 DEF Request, allow
  <2> HIDE DEF R
  <2>3. limiter'.timestamps = Append(R, now) /\ limiter' = [member \in Members |-> limiter'[member]]
    BY <2>2 DEF IInv, Members
  <2>4. /\ Remembers(Append(R, now), admitted', elapsed)
        /\ Len(admitted') > MaxEvents => LimitKept(admitted')
    BY <1>1, <1>2, <2>1, <2>2, AdmitRemembers
  <2> QED
    BY <1>2, <2>3, <2>4 DEF IInv, WindowLimit, LimitKept, ForgottenAtOnce
<1> QED
  BY <1>3, <1>4, <1>5

\* Time only makes what was dropped older.
LEMMA TickInv == ASSUME IInv, Tick PROVE IInv'
<1>1. limiter' = limiter /\ admitted' = admitted /\ elapsed' = elapsed + 1
  BY DEF Tick
<1>2. elapsed \in Nat /\ elapsed' \in 0..MaxElapsed
  BY <1>1, RunAssumption DEF IInv, Tick
<1>3. admitted \in Seq(Nat) /\ Len(limiter.timestamps) \in Nat /\ Window \in Nat
  BY RateLimitAssumption DEF IInv, Remembers
<1>4. \A i \in 1..Len(admitted) : admitted[i] \in Nat
  BY <1>3
<1>5. /\ \A i \in 1..Len(admitted) : admitted[i] <= elapsed'
      /\ \A i \in 1..Len(admitted) - Len(limiter.timestamps) : RunOut(admitted[i], elapsed')
  <2>1. \A i \in 1..Len(admitted) : admitted[i] <= elapsed
    BY DEF IInv, Remembers
  <2>2. \A i \in 1..Len(admitted) - Len(limiter.timestamps) :
            RunOut(admitted[i], elapsed) /\ i \in 1..Len(admitted)
    BY <1>3 DEF IInv, Remembers
  <2> QED
    BY <1>1, <1>2, <1>3, <1>4, <2>1, <2>2 DEF RunOut
<1>6. Remembers(limiter.timestamps, admitted, elapsed')
  BY <1>5 DEF IInv, Remembers
<1> QED
  BY <1>1, <1>2, <1>6 DEF IInv, WindowLimit

\* Whatever the window, the limit, the back-offs and the clock's width, and
\* however often the clock wraps: no window of time holds more than maxEvents
\* requests RateLimiter::allow() admitted, unless the first of them came in the
\* last window before a wrap.
THEOREM LimitHolds == Spec => []WindowLimit
<1>1. Init => IInv
  <2> SUFFICES ASSUME Init PROVE IInv
    OBVIOUS
  <2>1. /\ elapsed = 0 /\ admitted = << >>
        /\ limiter = [timestamps |-> << >>, blockedUntil |-> 0, strikes |-> 0]
    BY DEF Init, Fresh
  <2>2. limiter = [member \in Members |-> limiter[member]] /\ limiter.timestamps = << >>
    BY <2>1 DEF Members
  <2>3. Remembers(<< >>, << >>, 0) /\ WindowLimit /\ 0 \in 0..MaxElapsed
    BY <2>1, RateLimitAssumption, RunAssumption DEF Remembers, WindowLimit
  <2> QED
    BY <2>1, <2>2, <2>3 DEF IInv
<1>2. IInv /\ [Next]_vars => IInv'
  <2>1. CASE UNCHANGED vars
    BY <2>1 DEF IInv, WindowLimit, vars
  <2> QED
    BY <2>1, RequestInv, TickInv DEF Next
<1>3. IInv => WindowLimit
  BY DEF IInv
<1> QED
  BY <1>1, <1>2, <1>3, PTL DEF Spec
==============================================================================
