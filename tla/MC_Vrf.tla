------------------------------- MODULE MC_Vrf -------------------------------
(* The VRF over y^2 = x^3 + 2 mod 19: 12 points and infinity, a group of   *)
(* prime order 13 < 19 < 2^5, as secp256k1 has N < P < 2^256.             *)
EXTENDS Vrf

MCP == 19
MCB == 2
MCN == 13
MCG == <<4, 3>>
MCBits == 5
MCKeys == {3, 10}
MCMsgs == {1, 2}
\* Crafted proofs with scalars in 1 .. N-1, as an honest prover makes them.
MCCanonicalScalars == 1 .. MCN - 1
\* Crafted proofs with any scalar: 0, 1 .. N-1, and N for one >= N.
MCAnyScalars == 0 .. MCN
=============================================================================
