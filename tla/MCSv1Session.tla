----------------------------- MODULE MCSv1Session -----------------------------
(***************************************************************************)
(* Two connections, two users, three bits of which the pool allows two,    *)
(* and an extranonce counter that wraps within the run.                    *)
(***************************************************************************)
EXTENDS Sv1Session, TLC

CONSTANTS s1, s2, alice, bob, b1, b2, b3

TwoMiners == {s1, s2}
Users == {alice, bob}
ThreeBits == {b1, b2, b3}
TwoBits == {b1, b2}

Alike == Permutations(TwoMiners) \cup Permutations(Users) \cup Permutations(TwoBits)
=============================================================================
