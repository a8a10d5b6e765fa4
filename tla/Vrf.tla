-------------------------------- MODULE Vrf --------------------------------
(***************************************************************************)
(* The VRF of pdx-chain crypto/vrf/vrf.go over a small curve of the same   *)
(* shape as secp256k1: y^2 = x^3 + B over the field 0 .. P-1 (a = 0), a    *)
(* group of prime order N < P with generator G.  Numbers stand for the     *)
(* big-endian byte strings the code reads and writes: byteLen bytes hold a *)
(* number below 2^Bits > P.  A point is <<x, y>> and, as in Go, <<0, 0>>   *)
(* stands for the point at infinity.                                       *)
(*                                                                         *)
(* Library calls the code makes are modelled by what they do:             *)
(*  - curve (secp256k1.S256(), the C library): IsOnCurve and ScalarMult    *)
(*    use the a = 0 group law; ScalarMult reads x and y mod P and returns  *)
(*    nil for a zero scalar or one >= N (secp256k1_ext_scalar_mul fails);  *)
(*    a nil point dereferences nil;                                        *)
(*  - params.Add (elliptic.CurveParams.Add, Go's generic code): the chord  *)
(*    rule, but doubling for y^2 = x^3 - 3x + b;                          *)
(*  - elliptic.Unmarshal: a point with coordinates below P on the curve;   *)
(*  - elliptic.CurveParams.Add, big.Int methods and IsOnCurve on a nil     *)
(*    point panic;                                                         *)
(*  - big.Int.ModSqrt for P = 3 mod 4: nil for a non-residue, else         *)
(*    x^((P+1)/4);                                                         *)
(*  - sha512: ToyHash, a fixed mixing of its input; sha256(vrf), the       *)
(*    index, is the vrf point itself.                                      *)
(***************************************************************************)
EXTENDS Integers, Sequences

CONSTANTS
  P, B,       \* the field and the curve's constant term
  N,          \* the group order (params.N)
  G,          \* the base point <<params.Gx, params.Gy>>
  Bits,       \* byteLen bytes hold numbers below 2^Bits
  Keys,       \* private keys D (in 1 .. N-1, as ecdsa.GenerateKey draws them)
  Msgs,       \* messages (numbers)
  ForgeScalars, \* the s and t a crafted proof may carry (below 2^Bits)
  Nil,        \* a nil *big.Int result
  Panic       \* the goroutine panicked

O    == <<0, 0>>
Field == 0 .. P - 1
Scalars == 1 .. N - 1

RECURSIVE PowMod(_, _, _)
PowMod(a, e, m) == IF e = 0 THEN 1 % m ELSE (a * PowMod(a, e - 1, m)) % m

InvMod(a) == CHOOSE b \in Field : (a * b) % P = 1

\* The reference: the points of the curve, infinity excluded.
OnCurve(p) == p # O /\ (p[2] * p[2]) % P = (p[1] * p[1] * p[1] + B) % P
Points == {p \in Field \X Field : OnCurve(p)}

\* Affine addition on y^2 = x^3 + A*x + B, infinity as <<0, 0>>.
AddWith(A, p1, p2) ==
  CASE p1 = O -> p2
    [] p2 = O -> p1
    [] p1[1] = p2[1] /\ (p1[2] + p2[2]) % P = 0 -> O
    [] OTHER ->
         LET l  == IF p1 = p2
                   THEN ((3 * p1[1] * p1[1] + A + P) * InvMod((2 * p1[2]) % P)) % P
                   ELSE (((p2[2] - p1[2]) % P) * InvMod((p2[1] - p1[1]) % P)) % P
             x3 == (l * l - p1[1] - p2[1]) % P
         IN <<x3, (l * (p1[1] - x3) - p1[2]) % P>>

\* secp256k1's own group law, and elliptic.CurveParams.Add.
CurveAdd(p1, p2)  == AddWith(0, p1, p2)
ParamsAdd(p1, p2) == AddWith(-3, p1, p2)

RECURSIVE Mul(_, _)
Mul(p, k) == IF k = 0 THEN O ELSE CurveAdd(Mul(p, k - 1), p)

\* BitCurve.ScalarMult / ScalarBaseMult.
ScalarMult(p, k) ==
  CASE p = Nil             -> Panic
    [] k = 0 \/ k >= N     -> Nil
    [] OTHER               -> Mul(<<p[1] % P, p[2] % P>>, k)
ScalarBaseMult(k) == ScalarMult(G, k)

\* sha512 of (i, data) standing in: a mixing of the counter and the data.
ToyHash(i, data) ==
  LET RECURSIVE mix(_, _)
      mix(acc, s) == IF s = <<>> THEN acc ELSE mix((acc * 31 + Head(s) + 1) % 65521, Tail(s))
  IN (mix(7, data) * 97 + 5 * i) % 65521

Coords(pts) ==
  LET RECURSIVE flat(_)
      flat(s) == IF s = <<>> THEN <<>> ELSE <<Head(s)[1], Head(s)[2]>> \o flat(Tail(s))
  IN flat(pts)

(***************************************************************************)
(* vrf.go                                                                  *)
(***************************************************************************)
\* Mutant of y2: the formula of its comment, x^3 - 3x + b.
y2FromComment(x) == (x * x * x + 3 * (P - 1) * x + B) % P

\* y2: x^3 + b mod P.
y2(x) == (x * x * x + B) % P

\* defaultSqrt: big.Int.ModSqrt, nil when x is not a square.
defaultSqrt(x) ==
  IF x # 0 /\ PowMod(x, (P - 1) \div 2, P) # 1 THEN Nil ELSE PowMod(x, (P + 1) \div 4, P)

\* Unmarshal of the compressed encoding <<prefix, x>>: nil for another
\* prefix, for a non-square y^2 or a wrong root; otherwise the root whose
\* parity is the prefix's low bit.
Unmarshal(data) ==
  LET tx == data[2]
      ty == defaultSqrt(y2(tx))
  IN IF data[1] \notin {2, 3} THEN Nil
     ELSE IF ty = Nil THEN Nil
     ELSE IF (ty * ty) % P # y2(tx) THEN Nil
     ELSE IF ty % 2 # data[1] % 2 THEN <<tx, P - ty>>
     ELSE <<tx, ty>>

\* h1: try counters 0 .. 99, the first byteLen bytes of the hash, with
\* prefix 2 (y even), as a compressed point.
h1(m) ==
  LET RECURSIVE try(_)
      try(i) == IF i >= 100 THEN Nil
                ELSE LET p == Unmarshal(<<2, ToyHash(i, <<m>>) % (2 ^ Bits)>>)
                     IN IF p # Nil THEN p ELSE try(i + 1)
  IN try(0)

\* h2: the simple discard method, the first candidate below N - 1, plus 1.
h2(pts) ==
  LET RECURSIVE try(_)
      try(i) == LET k == ToyHash(i, Coords(pts)) % (2 ^ Bits)
                IN IF k < N - 1 THEN k + 1 ELSE try(i + 1)
  IN try(0)

\* elliptic.Unmarshal of the uncompressed vrf point.
ellipticUnmarshal(v) == IF v \in Points THEN v ELSE Nil

\* BitCurve.IsOnCurve: y^2 = x^3 + B mod P; nil dereferences nil.
IsOnCurve(p) == p # Nil /\ (p[2] * p[2]) % P = (p[1] * p[1] * p[1] + B) % P

\* Mutant of Evaluate: [r]H and [r]G hashed in the other order.
EvaluateSwapsCommitments(k, m, r) ==
  LET H   == h1(m)
      vrf == ScalarMult(H, k)
      s   == h2(<<G, H, Mul(G, k), vrf, ScalarMult(H, r), ScalarBaseMult(r)>>)
  IN IF ~IsOnCurve(H) THEN Panic
     ELSE [index |-> vrf, proof |-> [s |-> s, t |-> (r - s * k) % N, vrf |-> vrf]]

\* Evaluate(m) with private key k and the nonce r of elliptic.GenerateKey:
\* panic("not on curve") unless h1 found a point; [k]H is on the curve
\* and survives Marshal/Unmarshal, so the later panics cannot fire.
Evaluate(k, m, r) ==
  LET H   == h1(m)
      vrf == ScalarMult(H, k)
      s   == h2(<<G, H, Mul(G, k), vrf, ScalarBaseMult(r), ScalarMult(H, r)>>)
  IN IF ~IsOnCurve(H) THEN Panic
     ELSE [index |-> vrf, proof |-> [s |-> s, t |-> (r - s * k) % N, vrf |-> vrf]]

\* Mutant of ProofToHash: the vrf point's Unmarshal result is not checked.
ProofToHashNoPointCheck(pk, m, proof) ==
  LET vrf  == IF proof.vrf \in Points THEN proof.vrf ELSE Nil
      tG   == ScalarBaseMult(proof.t)
      ksG  == ScalarMult(pk, proof.s)
      H    == h1(m)
      tH   == ScalarMult(H, proof.t)
      sH   == ScalarMult(vrf, proof.s)
  IN IF {tG, ksG, tH, sH} \cap {Nil, Panic} # {} THEN Panic
     ELSE IF h2(<<G, H, pk, proof.vrf, ParamsAdd(tG, ksG), ParamsAdd(tH, sH)>>) # proof.s
          THEN [err |-> "ErrInvalidVRF"]
     ELSE [err |-> "nil", index |-> proof.vrf]

\* ProofToHash(m, proof) for the public key pk: the index or an error.  A
\* nil result of a ScalarMult reaches params.Add (or, for H, ScalarMult)
\* and panics.
ProofToHash(pk, m, proof) ==
  LET vrf  == ellipticUnmarshal(proof.vrf)
      tG   == ScalarBaseMult(proof.t)
      ksG  == ScalarMult(pk, proof.s)
      H    == h1(m)
      tH   == ScalarMult(H, proof.t)
      sH   == ScalarMult(vrf, proof.s)
  IN IF vrf = Nil THEN [err |-> "ErrInvalidVRF"]
     ELSE IF {tG, ksG, tH, sH} \cap {Nil, Panic} # {} THEN Panic
     ELSE IF h2(<<G, H, pk, proof.vrf, ParamsAdd(tG, ksG), ParamsAdd(tH, sH)>>) # proof.s
          THEN [err |-> "ErrInvalidVRF"]
     ELSE [err |-> "nil", index |-> vrf]

\* NewVRFVerifier(pubkey): the curve is S256 by construction here; a key
\* that is not a curve point is refused.
NewVRFVerifier(pk) == IF IsOnCurve(pk) THEN "nil" ELSE "ErrPointNotOnCurve"

\* VerifyRandom(pub, msg, n, proof).
VerifyRandom(pk, m, n, proof) ==
  LET r == ProofToHash(pk, m, proof)
  IN CASE NewVRFVerifier(pk) # "nil" -> NewVRFVerifier(pk)
       [] r = Panic        -> Panic
       [] r.err # "nil"    -> r.err
       [] r.index = n      -> "nil"
       [] OTHER            -> "vrf verify fail"

(***************************************************************************)
(* A signer and a verifier.  out is the (index, proof) handed to the      *)
(* verifier, with the key and message it is for: one GenRandom made        *)
(* (honest), or one crafted by a peer; verdict is VerifyRandom's answer   *)
(* to the last proof it took.                                              *)
(***************************************************************************)
VARIABLES out, verdict, signer

vars == <<out, verdict, signer>>

NoOut == [honest |-> FALSE, key |-> 0, msg |-> 0, index |-> O,
          proof |-> [s |-> 0, t |-> 0, vrf |-> O]]

Init == out = NoOut /\ verdict = "none" /\ signer = "ok"

\* NewVRFSigner(key): the key's public point must be on the curve.
NewVRFSigner(k) == IF IsOnCurve(ScalarBaseMult(k)) THEN "nil" ELSE "ErrPointNotOnCurve"

\* GenRandom(k, msg) -> NewVRFSigner(k).Evaluate(msg), with nonce r: the
\* signer panics (on NewVRFSigner's error too), or hands over its index
\* and proof.
GenRandom(k, m, r) ==
  LET e == IF NewVRFSigner(k) = "nil" THEN Evaluate(k, m, r) ELSE Panic
  IN /\ out = NoOut
     /\ signer' = IF e = Panic THEN Panic ELSE "ok"
     /\ out' = IF e = Panic THEN NoOut
               ELSE [honest |-> TRUE, key |-> k, msg |-> m, index |-> e.index, proof |-> e.proof]
     /\ verdict' = "none"

\* A peer hands over a proof it made up and the index it claims.
Forge(k, m, s, t, v) ==
  /\ out = NoOut
  /\ out' = [honest |-> FALSE, key |-> k, msg |-> m, index |-> v,
             proof |-> [s |-> s, t |-> t, vrf |-> v]]
  /\ verdict' = "none"
  /\ UNCHANGED signer

\* VerifyRandom(pub, msg, n, proof) of the proof handed over; the verifier
\* then waits for the next one.
Verify ==
  /\ out # NoOut
  /\ verdict' = VerifyRandom(Mul(G, out.key), out.msg, out.index, out.proof)
  /\ out' = NoOut
  /\ UNCHANGED signer

\* What a crafted proof's vrf may be: a curve point, infinity, off the curve.
ForgeVrfs == Points \cup {O, <<1, 1>>}

Next ==
  \/ \E k \in Keys, m \in Msgs, r \in Scalars : GenRandom(k, m, r)
  \/ \E k \in Keys, m \in Msgs, s, t \in ForgeScalars, v \in ForgeVrfs : Forge(k, m, s, t, v)
  \/ Verify

Spec == Init /\ [][Next]_vars

(***************************************************************************)
(* Properties                                                              *)
(***************************************************************************)
\* GenRandom never panics: for every key, message and nonce h1 finds a
\* point Evaluate's IsOnCurve accepts (Unmarshal and y2 decode points of
\* the curve, within h1's 100 tries).
SignerNeverPanics == signer # Panic

\* Where params.Add only adds distinct points (no [t]G = [s]PK) and t is
\* not 0, a proof GenRandom made passes VerifyRandom for its key and index:
\* h2, t = r - s*k mod N and the verifier's sums agree.
Edge(o) == o.proof.t = 0 \/ ScalarBaseMult(o.proof.t) = ScalarMult(Mul(G, o.key), o.proof.s)
HonestProofsVerifyOffEdge ==
  [][(Verify /\ out.honest /\ ~Edge(out)) => verdict' = "nil"]_vars

\* Every proof GenRandom made with t # 0 passes VerifyRandom (the comment
\* of ProofToHash: [t]G + [s]([k]G) = [t+ks]G = [r]G); t = 0 is the case
\* of VerifierNeverPanics.
HonestProofsVerify ==
  [][(Verify /\ out.honest /\ out.proof.t # 0) => verdict' = "nil"]_vars

\* ProofToHash panics only on a proof with a scalar 0 or >= N: a vrf that
\* is not a curve point, or a point at infinity, is rejected with an error.
Malformed(o) == {o.proof.s, o.proof.t} \cap ({0} \cup N .. 2 ^ Bits - 1) # {}
PanicsOnlyOnBadScalar == [][(Verify /\ verdict' = Panic) => Malformed(out)]_vars

\* VerifyRandom answers every proof, honest or crafted, without panicking.
VerifierNeverPanics == verdict # Panic
=============================================================================
