----------------------------- MODULE BitVectors -----------------------------
(***************************************************************************)
(* src/src/bvec.c: vectors of functions as integers, the least significant *)
(* bit first, so that bitvec[n] is v[n + 1] here. An operation takes       *)
(* vectors and a ledger m of references and returns the vector (vec), for  *)
(* a division also the remainder (rem), and the ledger it leaves behind.   *)
(*                                                                         *)
(* What is referenced and released again within one round of a loop is     *)
(* left out; what lives longer is in the ledger at its place.              *)
(***************************************************************************)
EXTENDS References

And(f, g)  == f \cap g
Or(f, g)   == f \cup g
Xor(f, g)  == (f \ g) \cup (g \ f)
Same(f, g) == Not(Xor(f, g))

Zeros(n) == [i \in 1..n |-> Zero]

(* bvec_con: the lower bits of a number.                                   *)
Con(n, val) == [i \in 1..n |-> IF (val \div 2 ^ (i - 1)) % 2 = 1 THEN One ELSE Zero]

(* bvec_isconst and bvec_val, which is 0 if there is a bit that depends on *)
(* a variable.                                                             *)
IsConstant(v) == \A i \in DOMAIN v : IsConst(v[i])

Val(v) ==
  IF IsConstant(v) THEN FoldRight(LAMBDA bit, val : 2 * val + (IF bit = One THEN 1 ELSE 0), v, 0) ELSE 0

(* DEFAULT, the answer to vectors of different or no length.               *)
Default(m) == [vec |-> << >>, m |-> m]

Mismatch(l, r) == Len(l) = 0 \/ Len(l) # Len(r)

(* A result each bit of which is referenced.                               *)
Referenced(v, m) == [vec |-> v, m |-> AddRefs(v, m)]

Coerced(n, v) == [i \in 1..n |-> IF i <= Len(v) THEN v[i] ELSE Zero]

Copy(v, m)      == Referenced(v, m)
Coerce(n, v, m) == Referenced(Coerced(n, v), m)

(* bvec_map1, bvec_map2 and bvec_map3, for the functions in their          *)
(* documentation, and bvec_ite.                                            *)
Mapped(vs, fun(_), m) ==
  IF \E v, w \in ToSet(vs) : Len(v) # Len(w) THEN Default(m)
  ELSE Referenced([i \in DOMAIN vs[1] |-> fun([k \in DOMAIN vs |-> vs[k][i]])], m)

Map1Not(v, m)       == Mapped(<<v>>, LAMBDA bits : Not(bits[1]), m)
Map2Xor(l, r, m)    == Mapped(<<l, r>>, LAMBDA bits : Xor(bits[1], bits[2]), m)
Map3Ite(a, b, c, m) == Mapped(<<a, b, c>>, LAMBDA bits : Ite(bits[1], bits[2], bits[3]), m)

VecIte(a, b, c, m) ==
  IF Len(b) # Len(c) THEN Default(m) ELSE Referenced([i \in DOMAIN b |-> Ite(a, b[i], c[i])], m)

-----------------------------------------------------------------------------
(* bvec_add and bvec_sub: from bit to bit with a carry.                    *)

AddCarry(l, r, c) == Or(And(l, r), And(c, Or(l, r)))
SubUnborrowed(l, r, c) == And(Not(l), Or(r, c))

SubCarry(l, r, c) == Or(And(And(l, r), c), And(Not(l), Or(r, c)))

Rippled(s, bit, carry) ==
  [vec |-> Append(s.vec, bit), carry |-> carry,
   m |-> DelRef(s.carry, AddRef(carry, AddRef(bit, s.m)))]

NoCarry(m) == [vec |-> << >>, carry |-> Zero, m |-> m]

RippleEnd(s) == [vec |-> s.vec, m |-> DelRef(s.carry, s.m)]

Add(l, r, m) ==
  IF Mismatch(l, r) THEN Default(m)
  ELSE RippleEnd(FoldLeftDomain(LAMBDA s, i :
         Rippled(s, Xor(Xor(l[i], r[i]), s.carry), AddCarry(l[i], r[i], s.carry)), NoCarry(m), l))

Sub(l, r, m) ==
  IF Mismatch(l, r) THEN Default(m)
  ELSE RippleEnd(FoldLeftDomain(LAMBDA s, i :
         Rippled(s, Xor(Xor(l[i], r[i]), s.carry), SubCarry(l[i], r[i], s.carry)), NoCarry(m), l))

-----------------------------------------------------------------------------
(* Comparisons: from the lowest bit, the higher ones decide. They return a *)
(* node without a reference.                                               *)

Below(start, l, r) ==
  FoldLeftDomain(LAMBDA p, i : Or(And(Not(l[i]), r[i]), And(Same(l[i], r[i]), p)), start, l)

Compared(l, r, wrongSize, p) ==
  IF Len(l) = 0 \/ Len(r) = 0 THEN Zero ELSE IF Len(l) # Len(r) THEN wrongSize ELSE p

Lth(l, r) == Compared(l, r, Zero, Below(Zero, l, r))
Lte(l, r) == Compared(l, r, One, Below(One, l, r))
Gth(l, r) == Not(Lte(l, r))
Gte(l, r) == Not(Lth(l, r))

Equ(l, r) ==
  Compared(l, r, One, FoldLeftDomain(LAMBDA p, i : And(Same(l[i], r[i]), p), One, l))
Neq(l, r) == Not(Equ(l, r))

-----------------------------------------------------------------------------
(* Shifts.                                                                 *)

Left(v, pos, c)  == [i \in DOMAIN v |-> IF i <= pos THEN c ELSE v[i - pos]]
Right(v, pos, c) == [i \in DOMAIN v |-> IF i + pos <= Len(v) THEN v[i + pos] ELSE c]

ShlFixed(v, pos, c, m) == Referenced(Left(v, pos, c), m)
ShrFixed(v, pos, c, m) == Referenced(Right(v, pos, c), m)

(* bvec_shr asks whether "m+n <= 2" where it means the length of l.        *)
ShrBound == 2

RightBounded(v, pos, c) ==
  [i \in DOMAIN v |-> IF (i - 1) + pos <= ShrBound THEN v[i + pos] ELSE c]

(* Every distance up to the length of l, each one written with the bits r  *)
(* has, and c for those above.                                             *)
ShiftedBy(n, shifted, l, r) ==
  [i \in DOMAIN l |-> And(Equ(r, Con(Len(r), n)), shifted[i])]

OrBits(v, w) == [i \in DOMAIN v |-> Or(v[i], w[i])]

Above(l, r, c) == [i \in DOMAIN l |-> And(Gth(r, Con(Len(r), Len(l))), c)]

Unioned(vs, n) == FoldLeft(OrBits, Zeros(n), vs)

(* The node of r > length is not referenced, and released all the same.    *)
ShiftEnd(v, l, r, m) ==
  [vec |-> v, m |-> DelRef(Gth(r, Con(Len(r), Len(l))), AddRefs(v, m))]

Shl(l, r, c, m) ==
  IF Len(l) = 0 \/ Len(r) = 0 THEN Default(m)
  ELSE ShiftEnd(Unioned([k \in 1..(Len(l) + 1) |-> ShiftedBy(k - 1, Left(l, k - 1, c), l, r)]
                          \o <<Above(l, r, c)>>, Len(l)), l, r, m)

Shr(l, r, c, m) ==
  IF Len(l) = 0 \/ Len(r) = 0 THEN Default(m)
  ELSE ShiftEnd(Unioned([k \in 1..(Len(l) + 1) |-> ShiftedBy(k - 1, RightBounded(l, k - 1, c), l, r)]
                          \o <<Above(l, r, c)>>, Len(l)), l, r, m)

-----------------------------------------------------------------------------
(* bvec_mulfixed, by the bits of the constant. The shifted vector has no   *)
(* references of its own, and is released all the same.                    *)

MulFixedSum(next, sum, rest) == [vec |-> sum.vec, m |-> DelRefs(next, DelRefs(rest.vec, sum.m))]

MulFixedEnd(e, c, next, rest) ==
  IF c % 2 = 1 THEN MulFixedSum(next, Add(e, rest.vec, rest.m), rest)
  ELSE [vec |-> rest.vec, m |-> DelRefs(next, rest.m)]

MulFixed(e, c, m) ==
  LET product[v \in Seq(SUBSET Assignments), k \in Nat] ==
        CASE Len(v) = 0 -> Default(m)
          [] Len(v) # 0 /\ k = 0 -> [vec |-> Zeros(Len(v)), m |-> m]
          [] OTHER -> MulFixedEnd(v, k, Left(v, 1, Zero), product[Left(v, 1, Zero), k \div 2])
  IN  product[e, c]

(* bvec_mul: left, moved up, is added for every bit of right.              *)
Replaced(new, old, m) == [vec |-> new, m |-> DelRefs(old, AddRefs(new, m))]

MulKept(s, added, bit) == Replaced([i \in DOMAIN s.vec |-> Ite(bit, added.vec[i], s.vec[i])], s.vec, added.m)

MulUnreleased(kept, added, shift) ==
  [vec |-> kept.vec, shift |-> Left(shift, 1, Zero), m |-> DelRef(Last(shift), kept.m)]

MulShifted(kept, added, shift) ==
  [vec |-> kept.vec, shift |-> Left(shift, 1, Zero),
   m |-> DelRefs(added.vec, DelRef(Last(shift), kept.m))]

MulAdded(s, added, bit) == MulShifted(MulKept(s, added, bit), added, s.shift)

MulEnd(s) == [vec |-> s.vec, m |-> DelRefs(s.shift, s.m)]

MulFrom(copied, coerced, l, r) ==
  MulEnd(FoldLeft(LAMBDA s, bit : MulAdded(s, Add(s.vec, s.shift, s.m), bit),
                  [vec |-> Zeros(Len(l) + Len(r)), shift |-> coerced.vec,
                   m |-> DelRefs(copied.vec, coerced.m)], r))

MulCopied(copied, l, r) == MulFrom(copied, Coerce(Len(l) + Len(r), copied.vec, copied.m), l, r)

Mul(l, r, m) ==
  IF Len(l) = 0 \/ Len(r) = 0 THEN Default(m) ELSE MulCopied(Copy(l, m), l, r)

-----------------------------------------------------------------------------
(* bvec_divfixed. sub has no references, and is released all the same.     *)

(* A step of bvec_div_rec on its way down: the result and the remainder it *)
(* hands on, and what it has to release on its way back.                   *)
DivRecRound(s, small, sub, tmp, newRem) ==
  [vec |-> s.new, rem |-> newRem.vec, m |-> newRem.m,
   frees |-> <<tmp.vec, sub, <<small>>, s.rem, s.vec>>]

DivRecRem(s, small, sub, tmp) ==
  DivRecRound(s, small, sub, tmp, ShlFixed(tmp.vec, 1, Last(s.vec), tmp.m))

DivRecSub(s, small, sub) == DivRecRem(s, small, sub, Sub(s.rem, sub, s.m))

DivRecRes(divisor, s, small, res) ==
  DivRecSub([vec |-> s.vec, rem |-> s.rem, new |-> res.vec, m |-> res.m], small,
            [i \in DOMAIN divisor |-> Ite(small, divisor[i], Zero)])

DivRecFrom(divisor, s, small) ==
  DivRecRes(divisor, s, small, ShlFixed(s.vec, 1, small, AddRef(small, s.m)))

DivRecDown(divisor, s) == DivRecFrom(divisor, s, Lte(divisor, s.rem))

(* The way back, from the last step to the first.                          *)
DivRecEnd(round, s) == [s EXCEPT !.m = FoldLeft(LAMBDA m, v : DelRefs(v, m), @, round.frees)]

DivRecBack(rounds) ==
  FoldRight(DivRecEnd, Tail(rounds), [vec |-> Last(rounds).vec, rem |-> Last(rounds).rem, m |-> Last(rounds).m])

DivRec(divisor, s, step) ==
  DivRecBack(FoldLeft(LAMBDA rounds, n : Append(rounds, DivRecDown(divisor, Last(rounds))),
                      <<s>>, [n \in 1..step |-> n]))

DivFixedEnd(s, rem) == [vec |-> s.vec, rem |-> rem.vec, m |-> DelRefs(s.rem, rem.m)]

DivFixedRem(s) == DivFixedEnd(s, ShrFixed(s.rem, 1, Zero, s.m))

DivFixedFrom(e, c, rem, res) ==
  DivFixedRem(DivRec(Con(Len(e), c), [vec |-> res.vec, rem |-> rem.vec, m |-> res.m], Len(e)))

DivFixedStart(e, c, rem) == DivFixedFrom(e, c, rem, ShlFixed(e, 1, Zero, rem.m))

DivFixed(e, c, m) == DivFixedStart(e, c, ShlFixed(Zeros(Len(e)), 1, Last(e), m))

-----------------------------------------------------------------------------
(* bvec_div: the divisor, moved all the way up, comes down bit by bit. The *)
(* vectors in the places for the results, which it releases, are empty. The*)
(* comparison of round n belongs to the result, but for that of round 0;   *)
(* what is left of the divisor at the end is not released.                 *)

DivKept(s, lte, diff) ==
  Replaced([i \in DOMAIN s.rem |-> Ite(lte, diff.vec[i], s.rem[i])], s.rem, diff.m)

DivNext(s, n, lte, diff, kept) ==
  [vec |-> IF n > 0 THEN [s.vec EXCEPT ![Len(s.vec) - n + 1] = lte] ELSE s.vec,
   rem |-> kept.vec, div |-> Right(s.div, 1, Zero),
   m |-> DelRefs(diff.vec, DelRef(Head(s.div), kept.m))]

DivSub(s, n, lte, diff) == DivNext(s, n, lte, diff, DivKept(s, lte, diff))

DivRound(s, n, lte) == DivSub(s, n, lte, Sub(s.rem, s.div, AddRef(lte, s.m)))

DivEnd(s, rem) == [vec |-> s.vec, rem |-> rem.vec, m |-> DelRefs(s.rem, rem.m)]

DivRem(s, n) == DivEnd(s, Coerce(n, s.rem, s.m))

DivFrom(rem, div, r) ==
  DivRem(FoldLeftDomain(LAMBDA s, k : DivRound(s, k - 1, Lte(s.div, s.rem)),
                        [vec |-> Zeros(Len(r)), rem |-> rem, div |-> div.vec, m |-> div.m],
                        Append(r, One)), Len(r))

DivStart(rem, l, r) ==
  DivFrom(rem.vec, ShlFixed(Coerced(Len(l) + Len(r), r), Len(l), Zero, rem.m), r)

Div(l, r, m) ==
  IF Mismatch(l, r) THEN Default(m) @@ [rem |-> << >>]
  ELSE DivStart(Coerce(Len(l) + Len(r), l, m), l, r)
=============================================================================
