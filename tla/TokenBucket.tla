---------------------------- MODULE TokenBucket ----------------------------
(***************************************************************************)
(* What the rate limiter promises, with no clock arithmetic: a bucket that *)
(* gains Rate units at every tick of the clock, overflows at Capacity, and *)
(* gives out whole tokens of Unit units each.                              *)
(***************************************************************************)
EXTENDS Integers

CONSTANTS Unit,     \* units that make one token
          Rate,     \* units gained per clock tick
          Capacity  \* units the bucket holds

VARIABLE level

Init == level = Capacity

Accrue == level' = IF level + Rate > Capacity THEN Capacity ELSE level + Rate

Take == /\ level >= Unit
        /\ level' = level - Unit

Next == Accrue \/ Take

Spec == Init /\ [][Next]_level
=============================================================================
