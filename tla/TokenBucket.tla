---------------------------- MODULE TokenBucket ----------------------------
(***************************************************************************)
(* What the rate limiter promises: every client address has one bucket of  *)
(* Burst tokens, refilled with Rate tokens per second, for ever; a request *)
(* goes through only by taking a token of its address.                     *)
(***************************************************************************)
EXTENDS Naturals

CONSTANTS IPs, Rate, Burst
VARIABLE level

Filled(n) == IF n + Rate < Burst THEN n + Rate ELSE Burst

Init == level = [ip \in IPs |-> Burst]

Refill == level' = [ip \in IPs |-> Filled(level[ip])]

Admit(ip) == /\ level[ip] > 0
             /\ level' = [level EXCEPT ![ip] = @ - 1]

Next == Refill \/ \E ip \in IPs : Admit(ip)

Spec == Init /\ [][Next]_level
=============================================================================
