------------------------------ MODULE Backoff -------------------------------
(***************************************************************************)
(* Exponential backoff with jitter (internal/retry/backoff.go), in units   *)
(* of time: the delay grows by Factor with every attempt up to MaxDelay,   *)
(* is moved by up to Jitter percent either way, and is at least MinDelay.  *)
(* The random number is a choice among the whole units it can produce.     *)
(***************************************************************************)
EXTENDS Naturals

CONSTANTS
    BaseDelay,
    MaxDelay,
    Factor,
    Jitter,      \* percent
    MinDelay,    \* the 100 ms floor
    MaxAttempts  \* retry.Config.MaxAttempts

ASSUME BackoffAssumption ==
    /\ {BaseDelay, MaxDelay, Factor, MinDelay, MaxAttempts} \subseteq Nat
    /\ Jitter \in 0..100
    /\ \A attempt \in 0..MaxAttempts : Factor ^ attempt \in Nat

AtLeast(a, b) == IF a < b THEN b ELSE a

Capped(attempt) ==
    LET delay == BaseDelay * Factor ^ attempt IN
    IF delay > MaxDelay THEN MaxDelay ELSE delay

\* Where the jitter may take a delay.
Jittered(delay) ==
    {d \in 0..2 * delay : (100 - Jitter) * delay <= 100 * d /\ 100 * d <= (100 + Jitter) * delay}

\* Mutated form of NextDelay: the floor comes before the jitter.
NextDelayFloorFirst(attempt) == Jittered(AtLeast(Capped(attempt), MinDelay))

\* The delays NextDelay may return.
NextDelay(attempt) == {AtLeast(d, MinDelay) : d \in Jittered(Capped(attempt))}

\* What a delay may never leave: the floor below, the cap with its jitter above.
InBounds(d) ==
    /\ MinDelay <= d
    /\ d > MinDelay => 100 * d <= (100 + Jitter) * MaxDelay
=============================================================================
