------------------------------ MODULE VecLanes ------------------------------
(***************************************************************************)
(* How the operations of cop_vec.h that move elements between the lanes of *)
(* vectors do so, in each of its implementations: compiler builtins, SSE   *)
(* and AVX intrinsics, NEON, and the generic macros built on those.  A     *)
(* client holds some vectors and an array and applies operations to them.  *)
(* Elements are numbers that are only moved and compared.                  *)
(***************************************************************************)
EXTENDS Integers, Sequences, Functions

CONSTANTS
  Kinds,      \* Pairs of a vector type and an implementation of it.
  MaxSteps    \* Bound on the operations applied to one set of vectors.

\* What the constants may be.
KindsOK ==
  Kinds \subseteq ({"v4f", "v2d", "v8f", "v4d"} \X {"builtin", "intrinsic"})
                    \cup {<<"v4f", "neon">>}

VARIABLES
  type, implementation,
  regs,       \* The client's vectors: functions on the lanes.
  mem,        \* Its array, of the size of four vectors.
  last,       \* History: the last operation with its outputs and inputs.
  steps

vars == <<type, implementation, regs, mem, last, steps>>

W == CASE type = "v2d" -> 2 [] type = "v8f" -> 8 [] OTHER -> 4  \* lanes
L == IF type \in {"v4f", "v8f"} THEN 4 ELSE 2                  \* in 128 bits
Lanes == 0 .. W - 1
Registers == 1 .. IF W = 8 THEN 8 ELSE 4

-----------------------------------------------------------------------------
(* The instructions. Those of AVX work on each half of a vector apart.      *)

\* __builtin_shufflevector: lane k is element s[k + 1] of a followed by b.
Pick(a, b, s) == [k \in Lanes |-> IF s[k + 1] < W THEN a[s[k + 1]] ELSE b[s[k + 1] - W]]

\* _mm_unpacklo_ps and its kin for d = 0, _mm_unpackhi_ps for d = L \div 2.
Unpack(a, b, d) ==
  [k \in Lanes |-> LET j == k - (k % L) + (k % L) \div 2 + d
                   IN  IF k % 2 = 0 THEN a[j] ELSE b[j]]

\* _mm_shuffle_ps, _mm_permute_ps: s selects twice from a, then twice from b.
Shuffle(a, b, s) ==
  [k \in Lanes |-> LET j == k - (k % L) + s[(k % L) + 1]
                   IN  IF k % L < L \div 2 THEN a[j] ELSE b[j]]

\* _mm256_permute2f128_ps: x and y select from the halves of a and of b.
Halves(a, b, x, y) ==
  [k \in Lanes |-> LET h == IF k < L THEN x ELSE y
                   IN  IF h < 2 THEN a[h * L + (k % L)] ELSE b[(h - 2) * L + (k % L)]]

\* _mm256_blend_ps, _mm_move_ss: the lanes of m from b.
Blend(a, b, m) == [k \in Lanes |-> IF k \in m THEN b[k] ELSE a[k]]

-----------------------------------------------------------------------------
(* Each implementation's building blocks.                                   *)

\* The index lists the builtin functions are named for: shuf0415, shuf0246, ...
Shuf128 ==
  [v4f |-> [lo   |-> <<0, 4, 1, 5>>, hi  |-> <<2, 6, 3, 7>>,
            even |-> <<0, 2, 4, 6>>, odd |-> <<1, 3, 5, 7>>],
   v2d |-> [lo   |-> <<0, 2>>, hi  |-> <<1, 3>>,
            even |-> <<0, 2>>, odd |-> <<1, 3>>]]

Shuf256 ==
  [v4d |-> [lo   |-> <<0, 4, 2, 6>>, hi   |-> <<1, 5, 3, 7>>,
            even |-> <<0, 4, 2, 6>>, odd  |-> <<1, 5, 3, 7>>,
            low  |-> <<0, 1, 4, 5>>, high |-> <<2, 3, 6, 7>>],
   v8f |-> [lo   |-> <<0, 8, 1, 9, 4, 12, 5, 13>>, hi    |-> <<2, 10, 3, 11, 6, 14, 7, 15>>,
            even |-> <<0, 2, 8, 10, 4, 6, 12, 14>>, odd  |-> <<1, 3, 9, 11, 5, 7, 13, 15>>,
            lo2  |-> <<0, 1, 8, 9, 4, 5, 12, 13>>, hi2   |-> <<2, 3, 10, 11, 6, 7, 14, 15>>,
            low  |-> <<0, 1, 2, 3, 8, 9, 10, 11>>, high  |-> <<4, 5, 6, 7, 12, 13, 14, 15>>]]

Builtin(f, a, b) ==
  Pick(a, b, IF W = L THEN Shuf128[type][f] ELSE Shuf256[type][f])

\* The SSE macros of section 2, for vectors of 128 bits.
Sse(f, a, b) ==
  CASE f = "lo" \/ (f = "even" /\ L = 2) -> Unpack(a, b, 0)
    [] f = "hi" \/ (f = "odd" /\ L = 2)  -> Unpack(a, b, L \div 2)
    [] f = "even" /\ L = 4 -> Shuffle(a, b, <<0, 2, 0, 2>>)
    [] f = "odd" /\ L = 4  -> Shuffle(a, b, <<1, 3, 1, 3>>)

\* The AVX ones, which do in each half what the SSE ones do, or exchange halves.
Avx(f, a, b) ==
  CASE f = "lo2"  -> Shuffle(a, b, <<0, 1, 0, 1>>)
    [] f = "hi2"  -> Shuffle(a, b, <<2, 3, 2, 3>>)
    [] f = "low"  -> Halves(a, b, 0, 2)
    [] f = "high" -> Halves(a, b, 1, 3)
    [] OTHER      -> Sse(f, a, b)

\* vzipq_f32 and vuzpq_f32.
Neon(f, a, b) == Pick(a, b, Shuf128.v4f[f])

Instr(f, a, b) ==
  CASE implementation = "builtin" -> Builtin(f, a, b)
    [] implementation = "neon"    -> Neon(f, a, b)
    [] OTHER -> IF W = L THEN Sse(f, a, b) ELSE Avx(f, a, b)

Both(f, g, a, b) == <<Instr(f, a, b), Instr(g, a, b)>>

-----------------------------------------------------------------------------
(* INTERLEAVE, DEINTERLEAVE, rotl, reverse. A vector of 256 bits takes a    *)
(* step on each half and one across the halves.                             *)

Interleave(a, b) ==
  LET z == Both("lo", "hi", a, b)
  IN  IF W = L THEN z ELSE Both("low", "high", z[1], z[2])

Deinterleave(a, b) ==
  LET z == IF W = L THEN <<a, b>> ELSE Both("low", "high", a, b)
  IN  Both("even", "odd", z[1], z[2])

\* The blends of the 8-lane rotation put b's element where a half's last goes.
Rotl8(a, b) ==
  LET c == Blend(a, b, {0})
      d == Blend(a, Halves(c, c, 1, 0), {0, 4})
  IN  Shuffle(d, d, <<1, 2, 3, 0>>)

\* Slip: the second blend is left out.
Rotl4dSlip(a, b) == Shuffle(a, Halves(a, a, 1, 0), <<1, 0>>)

Rotl4d(a, b) ==
  LET c == Blend(a, b, {0})
  IN  Shuffle(a, Halves(c, c, 1, 0), <<1, 0>>)

Rotl4f(a, b) == LET c == Blend(a, b, {0}) IN Shuffle(c, c, <<1, 2, 3, 0>>)
Rotl2d(a, b) == Shuffle(a, b, <<1, 0>>)

Rotl(a, b) ==
  IF implementation # "intrinsic" THEN Pick(a, b, [k \in 1 .. W |-> k])
  ELSE CASE type = "v8f" -> Rotl8(a, b) [] type = "v4d" -> Rotl4d(a, b)
         [] type = "v4f" -> Rotl4f(a, b) [] type = "v2d" -> Rotl2d(a, b)

\* Within the halves, which AVX exchanges first and NEON (vrev64q_f32) last.
Reverse(a) ==
  LET turned == IF L = 4 THEN <<3, 2, 1, 0>> ELSE <<1, 0>>
      c == IF W = L THEN a ELSE Halves(a, a, 1, 0)
      d == Pick(a, a, <<1, 0, 3, 2>>)
  IN  CASE implementation = "builtin" -> Pick(a, a, [k \in 1 .. W |-> W - k])
        [] implementation = "neon" -> [k \in Lanes |-> d[(k + 2) % 4]]
        [] OTHER -> Shuffle(c, c, turned)

-----------------------------------------------------------------------------
(* The macros of section 3, and the transpositions that replace theirs.     *)

Interleave2(a, b, c, d) == Interleave(a, b) \o Interleave(c, d)
Deinterleave2(a, b, c, d) == Deinterleave(a, b) \o Deinterleave(c, d)

\* V4F_TRANSPOSE_INPLACE and V4D_TRANSPOSE_INPLACE of section 3.
Transpose4(r) ==
  LET t == Interleave2(r[1], r[3], r[2], r[4])
  IN  Interleave2(t[1], t[3], t[2], t[4])

\* V8F_TRANSPOSE_INPLACE of section 3, which every implementation replaces.
Transpose8(r) ==
  LET Pass(v) == Interleave2(v[1], v[5], v[2], v[6]) \o Interleave2(v[3], v[7], v[4], v[8])
  IN  Pass(Pass(Pass(r)))

\* The transposition of section 1 for v4d.
TransposeHalves4(r) ==
  LET t == Both("low", "high", r[1], r[3])
      u == Both("low", "high", r[2], r[4])
  IN  Both("lo", "hi", t[1], u[1]) \o Both("lo", "hi", t[2], u[2])

\* Those of sections 1 and 2 for v8f, by pairs of rows, of pairs, and halves.
TransposeHalves8(r) ==
  LET t(k) == Both("lo", "hi", r[2 * k - 1], r[2 * k])
      z(k) == Both("lo2", "hi2", t(k)[1], t(k + 1)[1]) \o
              Both("lo2", "hi2", t(k)[2], t(k + 1)[2])
      Join(k) == Both("low", "high", z(1)[k], z(3)[k])
  IN  [k \in 1 .. 8 |-> IF k <= 4 THEN Join(k)[1] ELSE Join(k - 4)[2]]

\* The ways in which the vectors of a type can be transposed.
Transposed(r) ==
  CASE type = "v2d" -> {Interleave(r[1], r[2]) \o <<r[3], r[4]>>}
    [] type = "v8f" -> {Transpose8(r), TransposeHalves8(r)}
    [] type = "v4d" /\ implementation = "builtin" -> {Transpose4(r), TransposeHalves4(r)}
    [] OTHER -> {Transpose4(r)}

\* min and max of two elements, and of two vectors lane by lane.
Extreme(op, x, y) == IF (op = "max" /\ x > y) \/ (op = "min" /\ x < y) THEN x ELSE y
Lanewise(op, a, b) == [k \in Lanes |-> Extreme(op, a[k], b[k])]

\* One round of comparing what interleaving a vector with itself puts together.
Round(op, v) == LET p == Interleave(v, v) IN Lanewise(op, p[1], p[2])

\* hmax and hmin: each round halves the elements left to compare.
Horizontal(op, a) ==
  CASE W = 2 -> Round(op, a)[0]
    [] W = 4 -> Round(op, Round(op, a))[0]
    [] W = 8 -> Round(op, Round(op, Round(op, a)))[0]

Load(n) == [k \in Lanes |-> mem[n * W + k]]
Stored(v) == [k \in 0 .. 4 * W - 1 |->
                IF k \div W < Len(v) THEN v[k \div W + 1][k % W] ELSE mem[k]]

-----------------------------------------------------------------------------
(* The client.                                                              *)

\* Elements of distinct values, in no order.
Scrambled(k) == (26 * (k + 1)) % 67

Init ==
  /\ \E k \in Kinds : type = k[1] /\ implementation = k[2]
  /\ regs = [r \in Registers |-> [k \in Lanes |-> Scrambled((r - 1) * W + k)]]
  /\ mem = [k \in 0 .. 4 * W - 1 |-> Scrambled(k)]
  /\ last = [op |-> "none", out |-> <<>>, in |-> <<>>]
  /\ steps = 0

\* op gives the vectors res to registers out.
Apply(op, out, in, res) ==
  /\ steps < MaxSteps /\ steps' = steps + 1
  /\ last' = [op |-> op, out |-> out, in |-> in]
  /\ regs' = [r \in Registers |->
                IF \E k \in DOMAIN out : out[k] = r
                  THEN res[CHOOSE k \in DOMAIN out : out[k] = r] ELSE regs[r]]
  /\ UNCHANGED <<type, implementation, mem>>

Store(op, in, res) ==
  /\ steps < MaxSteps /\ steps' = steps + 1
  /\ last' = [op |-> op, out |-> <<>>, in |-> in]
  /\ mem' = Stored(res)
  /\ UNCHANGED <<type, implementation, regs>>

\* Outputs are not inputs: some implementations assign one before they read the
\* inputs for the other.
InterleaveOp(i, j, x, y) == Apply("interleave", <<x, y>>, <<i, j>>, Interleave(regs[i], regs[j]))
DeinterleaveOp(i, j, x, y) ==
  Apply("deinterleave", <<x, y>>, <<i, j>>, Deinterleave(regs[i], regs[j]))

RotlOp(i, j, x) == Apply("rotl", <<x>>, <<i, j>>, <<Rotl(regs[i], regs[j])>>)
ReverseOp(i, x) == Apply("reverse", <<x>>, <<i>>, <<Reverse(regs[i])>>)
LanewiseOp(op, i, j, x) == Apply(op, <<x>>, <<i, j>>, <<Lanewise(op, regs[i], regs[j])>>)

Rows == [k \in 1 .. W |-> k]
TransposeOp ==
  \E res \in Transposed([k \in 1 .. 8 |-> regs[IF k \in Registers THEN k ELSE 1]]) :
    Apply("transpose", Rows, Rows, res)

\* LD2DINT, LD2X2DINT, ST2INT, ST2X2INT.
LD2DINT == Apply("ld2dint", <<1, 2>>, <<>>, Deinterleave(Load(0), Load(1)))
LD2X2DINT ==
  Apply("ld2x2dint", <<1, 2, 3, 4>>, <<>>, Deinterleave2(Load(0), Load(1), Load(2), Load(3)))
ST2INT == Store("st2int", <<1, 2>>, Interleave(regs[1], regs[2]))
ST2X2INT ==
  Store("st2x2int", <<1, 2, 3, 4>>, Interleave2(regs[1], regs[2], regs[3], regs[4]))

\* hmax or hmin of register i, broadcast to the first.
HmaxOp(i) == Apply("hmax", <<1>>, <<i>>, <<[k \in Lanes |-> Horizontal("max", regs[i])]>>)
HminOp(i) == Apply("hmin", <<1>>, <<i>>, <<[k \in Lanes |-> Horizontal("min", regs[i])]>>)

Next ==
  \/ \E i, j, x, y \in 1 .. 4 :
       /\ {i, j} \cap {x, y} = {} /\ x # y
       /\ InterleaveOp(i, j, x, y) \/ DeinterleaveOp(i, j, x, y)
  \/ \E i, j \in 1 .. 3 : RotlOp(i, j, 1) \/ \E op \in {"min", "max"} : LanewiseOp(op, i, j, 1)
  \/ \E i \in 1 .. 3 : ReverseOp(i, 2)
  \/ \E i \in Registers : HmaxOp(i) \/ HminOp(i)
  \/ TransposeOp \/ LD2DINT \/ LD2X2DINT \/ ST2INT \/ ST2X2INT

Spec == Init /\ [][Next]_vars

-----------------------------------------------------------------------------
(* What the operations promise, whatever the implementation.                *)

Zip(a, b) == [k \in 0 .. 2 * W - 1 |-> IF k % 2 = 0 THEN a[k \div 2] ELSE b[k \div 2]]
Cat(a, b) == [k \in 0 .. 2 * W - 1 |-> IF k < W THEN a[k] ELSE b[k - W]]
Array(n) == [k \in 0 .. 2 * W - 1 |-> mem[n * W + k]]

Does(op) == steps' # steps /\ last'.op = op
In(k) == regs[last'.in[k]]
Out(k) == regs'[last'.out[k]]

\* Interleaving takes elements from its inputs in turn, deinterleaving undoes it,
\* rotation moves the elements of two vectors down by one lane, and reversal and
\* transposition are what they say; hmax and hmin, which compare lanes only after
\* interleaving a vector with itself, give its greatest and least element: in every
\* implementation and after any other operations (the tests of cop_vec_tests.c
\* check one vector each, and no transposition).
LanesRight ==
  [][/\ Does("interleave") => Cat(Out(1), Out(2)) = Zip(In(1), In(2))
     /\ Does("deinterleave") => Zip(Out(1), Out(2)) = Cat(In(1), In(2))
     /\ Does("rotl") => \A k \in Lanes : Out(1)[k] = Cat(In(1), In(2))[k + 1]
     /\ Does("reverse") => \A k \in Lanes : Out(1)[k] = In(1)[W - 1 - k]
     /\ Does("transpose") => \A r \in 1 .. W, k \in Lanes : regs'[r][k] = regs[k + 1][r - 1]
     /\ Does("ld2dint") \/ Does("ld2x2dint") => Zip(Out(1), Out(2)) = Array(0)
     /\ Does("ld2x2dint") => Zip(Out(3), Out(4)) = Array(2)
     /\ Does("st2int") \/ Does("st2x2int") =>
          \A k \in 0 .. 2 * W - 1 : mem'[k] = Zip(In(1), In(2))[k]
     /\ Does("st2x2int") => \A k \in 0 .. 2 * W - 1 : mem'[2 * W + k] = Zip(In(3), In(4))[k]
     /\ Does("hmax") => /\ Out(1)[0] \in Range(In(1))
                        /\ \A k \in Lanes : In(1)[k] <= Out(1)[0]
     /\ Does("hmin") => /\ Out(1)[0] \in Range(In(1))
                        /\ \A k \in Lanes : Out(1)[0] <= In(1)[k]]_vars
=============================================================================
