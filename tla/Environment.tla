---- MODULE Environment ----
(***************************************************************************)
(* What every component of the egress control program shares: the wall    *)
(* clock behind time.Now() and the addresses that DNS answers name.        *)
(*                                                                         *)
(* Time is a natural number of ticks.  Every instant and every duration of *)
(* the program (time.Time, time.Duration) is measured in ticks, so         *)
(*   time.Now().After(t)   is   now > t                                    *)
(*   time.Now().Before(t)  is   now < t                                    *)
(*   time.Now().Add(d)     is   now + d.                                   *)
(***************************************************************************)
EXTENDS Integers

CONSTANTS
    IPs,        \* the IPv4 addresses that answers may contain
    MaxTime     \* bound: the clock stops here

ASSUME MaxTimeAssumption == MaxTime \in Nat

VARIABLE now    \* time.Now()

ClockInit == now = 0

\* Time passes by one tick.
Tick == now < MaxTime /\ now' = now + 1

====
