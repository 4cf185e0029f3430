--------------------------- MODULE BatchingProofs ---------------------------
(***************************************************************************)
(* Vmapped calls of any depth: whatever the axes, their sizes and kinds,   *)
(* every example gets its own result and every key head its own gradient,  *)
(* as long as a vmapped mha_bwd is Narrow.                                 *)
(*                                                                         *)
(* The argument follows an element of the call's own arrays inwards.  Down *)
(* is where one rule puts it, a trail where all rules so far have put it.  *)
(* On the way in the merged arrays hold, at the end of the trail of an     *)
(* element, that element, and elsewhere what the varlen rule makes between *)
(* two examples; on the way out the results are at the same places, and    *)
(* each rule takes them back along the trail it was merged by.             *)
(***************************************************************************)
EXTENDS Batching, SequenceTheorems, TLAPS

(* Indices on the axes 1 .. n of the call, as an operand has them, and the *)
(* elements of an array of the shape s that has them.                      *)
Own(c, n, operand)    == {i \in 1 .. n : Maps(c.axes[i], operand)}
Points(c, n, operand) ==
  {xs \in [Own(c, n, operand) -> Nat] : \A i \in Own(c, n, operand) : xs[i] < c.axes[i].size}
Of(c, n, operand, xs) == [i \in Own(c, n, operand) |-> xs[i]]

HeadsOf(operand, s) == IF operand = "k" THEN s.hk ELSE s.hq
Elements(c, n, operand, s) ==
  Points(c, n, operand) \X (0 .. s.n - 1) \X (0 .. HeadsOf(operand, s) - 1)

(* A call, the first n of its axes, and a shape of it.                     *)
Vmapped(c) ==
  /\ c.prim \in {"mha", "varlen"}
  /\ c.n \in Nat \ {0} /\ c.hk \in Nat \ {0} /\ c.ratio \in Nat \ {0}
  /\ Len(c.axes) \in Nat /\ DOMAIN c.axes = 1 .. Len(c.axes)
  /\ \A i \in 1 .. Len(c.axes) :
       c.axes[i].size \in Nat \ {0} /\ c.axes[i].kind \in Kinds(c.prim, c.bwd)
First(c, as, n) ==
  /\ n \in 0 .. Len(c.axes) /\ Len(as) = n /\ DOMAIN as = 1 .. n
  /\ \A i \in 1 .. n : as[i] = c.axes[i]
Sized(s) ==
  /\ s \in [n : Nat \ {0}, hq : Nat \ {0}, hk : Nat \ {0}]
  /\ \E r \in Nat \ {0} : s.hq = r * s.hk

-----------------------------------------------------------------------------
(* What is assumed of a call.                                              *)
LEMMA CallIs ==
  ASSUME NEW c \in Calls
  PROVE  Vmapped(c)
<1>. DEFINE S == [size : Nat \ {0}, kind : Kinds(c.prim, c.bwd)]
            as == c.axes
<1>1. as \in Seq(S)
  BY BatchingAssumption
<1>2. \A a \in S : a.size \in Nat \ {0} /\ a.kind \in Kinds(c.prim, c.bwd)
  OBVIOUS
<1>. HIDE DEF S, as
<1>3. Len(as) \in Nat /\ DOMAIN as = 1 .. Len(as) /\ \A i \in 1 .. Len(as) : as[i] \in S
  BY <1>1, ElementOfSeq, LenProperties
<1>4. \A i \in 1 .. Len(as) : as[i].size \in Nat \ {0} /\ as[i].kind \in Kinds(c.prim, c.bwd)
  BY <1>2, <1>3
<1> QED BY <1>3, <1>4, BatchingAssumption DEF Vmapped, as

(* The index set of an array, as a function of how many axes are left.     *)
LEMMA IndicesAre ==
  ASSUME NEW c, Vmapped(c), NEW as, NEW n, First(c, as, n), NEW operand
  PROVE  Mapped(as, operand) = Own(c, n, operand) /\ Indices(as, operand) = Points(c, n, operand)
<1>1. Mapped(as, operand) = Own(c, n, operand)
  BY DEF Mapped, Own, First
<1>2. \A i \in DOMAIN as : as[i] = c.axes[i] /\ as[i].size \in Nat
  <2>1. ASSUME NEW i \in DOMAIN as PROVE i \in 1 .. Len(c.axes) /\ as[i] = c.axes[i]
    <3>1. DOMAIN as = 1 .. n /\ n \in 0 .. Len(c.axes) /\ \A j \in 1 .. n : as[j] = c.axes[j]
      BY DEF First
    <3>2. Len(c.axes) \in Nat
      BY DEF Vmapped
    <3>. DEFINE z == Len(c.axes)
    <3>3. n \in Nat /\ n <= z /\ z \in Nat
      BY <3>1, <3>2
    <3>4. i \in 1 .. n /\ as[i] = c.axes[i]
      BY <3>1
    <3>. HIDE DEF z
    <3>5. i \in 1 .. z
      BY <3>3, <3>4
    <3> QED BY <3>4, <3>5 DEF z
  <2>2. \A i \in 1 .. Len(c.axes) : c.axes[i].size \in Nat
    BY DEF Vmapped
  <2> QED BY <2>1, <2>2
<1>0. Own(c, n, operand) \subseteq DOMAIN as
  BY DEF Own, First
<1>. DEFINE Values == UNION {0 .. as[j].size - 1 : j \in DOMAIN as}
<1>3. ASSUME NEW xs \in Indices(as, operand) PROVE xs \in Points(c, n, operand)
  <2>1. xs \in [Own(c, n, operand) -> Values] /\ \A i \in Own(c, n, operand) : xs[i] < as[i].size
    BY <1>1, <1>3 DEF Indices
  <2>2. \A x \in Values : x \in Nat
    <3>1. SUFFICES ASSUME NEW j \in DOMAIN as, NEW x \in 0 .. as[j].size - 1 PROVE x \in Nat
      OBVIOUS
    <3>2. as[j].size \in Nat
      BY <1>2
    <3> QED BY <3>2
  <2>. HIDE DEF Values
  <2>3. xs \in [Own(c, n, operand) -> Nat]
    BY <2>1, <2>2
  <2>4. \A i \in Own(c, n, operand) : xs[i] < c.axes[i].size
    BY <1>0, <1>2, <2>1
  <2> QED BY <2>3, <2>4 DEF Points
<1>4. ASSUME NEW xs \in Points(c, n, operand) PROVE xs \in Indices(as, operand)
  <2>1. xs \in [Own(c, n, operand) -> Nat] /\ \A i \in Own(c, n, operand) : xs[i] < as[i].size
    BY <1>0, <1>2 DEF Points
  <2>2. ASSUME NEW i \in Own(c, n, operand) PROVE xs[i] \in Values
    <3>1. i \in DOMAIN as /\ as[i].size \in Nat /\ xs[i] \in Nat /\ xs[i] < as[i].size
      BY <1>0, <1>2, <2>1
    <3>2. xs[i] \in 0 .. as[i].size - 1
      <4>. DEFINE v == xs[i]
                  z == as[i].size
      <4>1. v \in Nat /\ z \in Nat /\ v < z
        BY <3>1
      <4>. HIDE DEF v, z
      <4>2. v \in 0 .. z - 1
        BY <4>1
      <4> QED BY <4>2 DEF v, z
    <3> QED BY <3>1, <3>2
  <2>. HIDE DEF Values
  <2>3. xs \in [Own(c, n, operand) -> Values]
    BY <2>1, <2>2
  <2> QED BY <1>1, <2>1, <2>3 DEF Indices, Values
<1> QED BY <1>1, <1>3, <1>4

(* The domain of an operand, likewise.                                     *)
LEMMA DomainIs ==
  ASSUME NEW c, Vmapped(c), NEW as, NEW n, First(c, as, n), NEW operand, NEW s
  PROVE  Domain(as, operand, s) = Elements(c, n, operand, s)
BY IndicesAre DEF Domain, Elements, HeadsOf

(* Taking an index away and giving it back.                                *)
LEMMA Taken ==
  ASSUME NEW c, Vmapped(c), NEW n \in 1 .. Len(c.axes), NEW operand, Maps(c.axes[n], operand),
         NEW xs \in Points(c, n, operand)
  PROVE  /\ Without(xs, n) \in Points(c, n - 1, operand)
         /\ xs[n] \in Nat /\ xs[n] < c.axes[n].size
         /\ With(Without(xs, n), n, xs[n]) = xs
<1>1. Own(c, n, operand) = Own(c, n - 1, operand) \cup {n} /\ n \notin Own(c, n - 1, operand)
      /\ n \in Own(c, n, operand)
  BY DEF Own, Vmapped
<1>2. /\ xs \in [Own(c, n, operand) -> Nat] /\ DOMAIN xs = Own(c, n, operand)
      /\ \A i \in Own(c, n, operand) : xs[i] < c.axes[i].size
  BY DEF Points
<1>3. Without(xs, n) = [i \in Own(c, n - 1, operand) |-> xs[i]]
  BY <1>1, <1>2 DEF Without
<1>4. Without(xs, n) \in Points(c, n - 1, operand)
  BY <1>1, <1>2, <1>3 DEF Points
<1>5. With(Without(xs, n), n, xs[n]) = [i \in Own(c, n, operand) |-> xs[i]]
  <2>1. DOMAIN Without(xs, n) \cup {n} = Own(c, n, operand)
    BY <1>1, <1>3
  <2>2. \A i \in Own(c, n, operand) : i # n => Without(xs, n)[i] = xs[i]
    BY <1>1, <1>3
  <2> QED BY <2>1, <2>2 DEF With
<1> QED BY <1>1, <1>2, <1>4, <1>5

(* An index given to an axis that is not there yet.                        *)
LEMMA Given ==
  ASSUME NEW c, Vmapped(c), NEW n \in 1 .. Len(c.axes), NEW operand, Maps(c.axes[n], operand),
         NEW xs \in Points(c, n - 1, operand), NEW x \in Nat, x < c.axes[n].size
  PROVE  /\ With(xs, n, x) \in Points(c, n, operand) /\ With(xs, n, x)[n] = x
         /\ Without(With(xs, n, x), n) = xs
<1>1. Own(c, n, operand) = Own(c, n - 1, operand) \cup {n} /\ n \notin Own(c, n - 1, operand)
  BY DEF Own, Vmapped
<1>2. /\ xs \in [Own(c, n - 1, operand) -> Nat] /\ DOMAIN xs = Own(c, n - 1, operand)
      /\ \A i \in Own(c, n - 1, operand) : xs[i] < c.axes[i].size
  BY DEF Points
<1>. DEFINE ys == With(xs, n, x)
<1>3. ys = [i \in Own(c, n, operand) |-> IF i = n THEN x ELSE xs[i]]
  BY <1>1, <1>2 DEF With
<1>4. ys \in [Own(c, n, operand) -> Nat] /\ ys[n] = x
      /\ \A i \in Own(c, n - 1, operand) : ys[i] = xs[i]
  BY <1>1, <1>2, <1>3
<1>. HIDE DEF ys
<1>5. ys \in Points(c, n, operand)
  BY <1>1, <1>2, <1>4 DEF Points
<1>6. Without(ys, n) = xs
  <2>1. DOMAIN ys \ {n} = Own(c, n - 1, operand)
    BY <1>1, <1>4
  <2>2. Without(ys, n) = [i \in Own(c, n - 1, operand) |-> ys[i]]
    BY <2>1 DEF Without
  <2> QED BY <1>2, <1>4, <2>2
<1> QED BY <1>4, <1>5, <1>6 DEF ys

(* An axis the operand does not have.                                      *)
LEMMA Unmapped ==
  ASSUME NEW c, Vmapped(c), NEW n \in 1 .. Len(c.axes), NEW operand, ~ Maps(c.axes[n], operand)
  PROVE  Own(c, n, operand) = Own(c, n - 1, operand)
         /\ Points(c, n, operand) = Points(c, n - 1, operand)
<1>1. Own(c, n, operand) = Own(c, n - 1, operand)
  BY DEF Own, Vmapped
<1> QED BY <1>1 DEF Points

(* An operand's part of the indices of a query.                            *)
LEMMA PartIs ==
  ASSUME NEW c, Vmapped(c), NEW n \in 1 .. Len(c.axes), NEW operand \in {"q", "k"},
         NEW xs \in Points(c, n, "lse")
  PROVE  /\ Maps(c.axes[n], operand) =>
              /\ Of(c, n, operand, xs)[n] = xs[n]
              /\ Of(c, n - 1, operand, Without(xs, n)) = Without(Of(c, n, operand, xs), n)
         /\ ~ Maps(c.axes[n], operand) => Of(c, n - 1, operand, Without(xs, n))
            = Of(c, n, operand, xs)
<1>1. Own(c, n, "lse") = 1 .. n
  BY DEF Own, Maps
<1>2. xs \in [1 .. n -> Nat] /\ \A i \in 1 .. n : xs[i] < c.axes[i].size
  BY <1>1 DEF Points
<1>5. Without(xs, n) = [i \in 1 .. n - 1 |-> xs[i]]
  BY <1>2 DEF Without
<1>6. Of(c, n - 1, operand, Without(xs, n)) = [i \in Own(c, n - 1, operand) |-> xs[i]]
  <2>1. Own(c, n - 1, operand) \subseteq 1 .. n - 1
    BY DEF Own
  <2> QED BY <1>5, <2>1 DEF Of
<1>7. CASE Maps(c.axes[n], operand)
  <2>1. n \in Own(c, n, operand) /\ Own(c, n, operand) \ {n} = Own(c, n - 1, operand)
    BY <1>7 DEF Own, Vmapped
  <2>2. Without(Of(c, n, operand, xs), n) = [i \in Own(c, n - 1, operand) |-> xs[i]]
    BY <2>1 DEF Without, Of
  <2>3. Of(c, n, operand, xs)[n] = xs[n]
    BY <2>1 DEF Of
  <2> QED BY <1>6, <1>7, <2>2, <2>3
<1>8. CASE ~ Maps(c.axes[n], operand)
  BY <1>6, <1>8, Unmapped DEF Of
<1> QED BY <1>7, <1>8

(* That part is an index of the operand.                                   *)
LEMMA PartIn ==
  ASSUME NEW c, Vmapped(c), NEW n \in 0 .. Len(c.axes), NEW operand \in {"q", "k"},
         NEW xs \in Points(c, n, "lse")
  PROVE  Of(c, n, operand, xs) \in Points(c, n, operand)
<1>1. Own(c, n, "lse") = 1 .. n
  BY DEF Own, Maps
<1>2. xs \in [1 .. n -> Nat] /\ \A i \in 1 .. n : xs[i] < c.axes[i].size
  BY <1>1 DEF Points
<1>3. Own(c, n, operand) \subseteq 1 .. n
  BY DEF Own
<1> QED BY <1>2, <1>3 DEF Points, Of

-----------------------------------------------------------------------------
(* Arithmetic of merged sequences and heads.                               *)
LEMMA Quotient ==
  ASSUME NEW x \in Nat, NEW m \in Nat \ {0}, NEW r \in 0 .. m - 1
  PROVE  (x * m + r) \div m = x /\ (x * m + r) % m = r
<1>. DEFINE y == x * m + r
            p == y \div m
            z == y % m
<1>1. y \in Nat /\ y = x * m + r
  OBVIOUS
<1>. HIDE DEF y
<1>2. y = p * m + z /\ p \in Int /\ z \in 0 .. m - 1
  BY <1>1
<1>. HIDE DEF p, z
<1>3. (x - p) * m = z - r /\ - m < z - r /\ z - r < m
  BY <1>1, <1>2
<1>4. x - p = 0
  <2>1. x - p >= 1 => (x - p) * m >= m
    BY <1>2
  <2>2. x - p <= -1 => (x - p) * m <= - m
    BY <1>2
  <2> QED BY <1>2, <1>3, <2>1, <2>2
<1>5. p = x /\ z = r
  BY <1>2, <1>3, <1>4
<1> QED BY <1>5 DEF p, z, y

(* A number is made of quotient and remainder,                             *)
LEMMA Divided ==
  ASSUME NEW y \in Nat, NEW m \in Nat \ {0}
  PROVE  /\ y \div m \in Nat /\ y % m \in 0 .. m - 1
         /\ y = (y \div m) * m + (y % m)
<1>1. y = (y \div m) * m + (y % m)
  OBVIOUS
<1>2. y \div m \in Nat
  OBVIOUS
<1>3. y % m \in 0 .. m - 1
  OBVIOUS
<1> QED BY <1>1, <1>2, <1>3

(* a part below its bound gives a number below the product,                *)
LEMMA Within ==
  ASSUME NEW x \in Nat, NEW m \in Nat \ {0}, NEW r \in 0 .. m - 1, NEW z \in Nat \ {0}, x < z
  PROVE  x * m + r \in Nat /\ x * m + r <= z * m - m + r /\ x * m + r < z * m
<1>1. x + 1 <= z
  OBVIOUS
<1>2. (x + 1) * m <= z * m
  BY <1>1
<1>3. (x + 1) * m = x * m + m /\ x * m \in Nat /\ z * m \in Nat
  OBVIOUS
<1> QED BY <1>2, <1>3

(* and conversely.                                                         *)
LEMMA Below ==
  ASSUME NEW y \in Nat, NEW m \in Nat \ {0}, NEW z \in Nat, y < z * m
  PROVE  y \div m \in Nat /\ y \div m < z
<1>. DEFINE p == y \div m
<1>1. p \in Nat /\ y >= p * m
  BY Divided
<1>. HIDE DEF p
<1>2. p >= z => p * m >= z * m
  BY <1>1
<1> QED BY <1>1, <1>2 DEF p

(* The ratio of query heads to key heads, before and after a merge.        *)
LEMMA RatioIs ==
  ASSUME NEW u \in Nat \ {0}, NEW r \in Nat \ {0}
  PROVE  (r * u) \div u = r
<1>1. r * u = r * u + 0 /\ 0 \in 0 .. u - 1
  OBVIOUS
<1> QED BY <1>1, Quotient

Kept(h, x, z, r)    == (h * z + x) \div (r * z) = h \div r
Shifted(h, x, u, r) == (x * (r * u) + h) \div r = x * u + h \div r

(* The group of a head is kept by '(hq x)',                                *)
LEMMA GroupKept ==
  ASSUME NEW h \in Nat, NEW x \in Nat, NEW z \in Nat \ {0}, x < z, NEW r \in Nat \ {0}
  PROVE  Kept(h, x, z, r)
<1>. DEFINE p == h \div r
            w == h % r
            m == r * z
            v == w * z + x
<1>1. p \in Nat /\ w \in 0 .. r - 1 /\ h = p * r + w
  BY Divided
<1>. HIDE DEF p, w
<1>2. m \in Nat \ {0} /\ m = r * z
  OBVIOUS
<1>3. v \in 0 .. m - 1
  <2>1. w \in Nat /\ w < r /\ x \in 0 .. z - 1
    BY <1>1
  <2>2. w * z + x \in Nat /\ w * z + x < r * z
    BY <2>1, Within
  <2> QED BY <2>2
<1>4. h * z + x = p * m + v
  <2>1. h * z = (p * r) * z + w * z
    BY <1>1
  <2>2. (p * r) * z = p * (r * z)
    BY <1>1
  <2> QED BY <2>1, <2>2, <1>1
<1>. HIDE DEF m, v
<1>5. (p * m + v) \div m = p
  BY <1>1, <1>2, <1>3, Quotient
<1> QED BY <1>2, <1>4, <1>5 DEF p, Kept

(* and moves as a whole by '(x hq)'.                                       *)
LEMMA GroupShifted ==
  ASSUME NEW h \in Nat, NEW x \in Nat, NEW u \in Nat \ {0}, NEW r \in Nat \ {0}
  PROVE  Shifted(h, x, u, r)
<1>. DEFINE p == h \div r
            w == h % r
            v == x * u + p
<1>1. p \in Nat /\ w \in 0 .. r - 1 /\ h = p * r + w
  BY Divided
<1>. HIDE DEF p, w
<1>2. v \in Nat
  BY <1>1
<1>3. x * (r * u) + h = v * r + w
  <2>1. x * (r * u) = (x * u) * r
    OBVIOUS
  <2>2. (x * u + p) * r = (x * u) * r + p * r
    BY <1>1
  <2> QED BY <2>1, <2>2, <1>1
<1>4. (v * r + w) \div r = v
  <2>. HIDE DEF v
  <2> QED BY <1>1, <1>2, Quotient
<1> QED BY <1>3, <1>4 DEF p, Shifted

-----------------------------------------------------------------------------
GapOf(c) == IF c.prim = "varlen" THEN 1 ELSE 0

(* t is the shape s with the axis a merged into it.                        *)
Grown(c, a, s, t) ==
  /\ a.kind \in {"all", "kv"} =>
       t.n = a.size * (s.n + GapOf(c)) - GapOf(c) /\ t.hq = s.hq /\ t.hk = s.hk
  /\ a.kind = "q" => t.n = s.n /\ t.hq = s.hq * a.size /\ t.hk = s.hk
  /\ a.kind = "lens" => t.n = s.n /\ t.hq = s.hq * a.size /\ t.hk = s.hk * a.size

(* Where an element of a call with n axes is once axis n has been merged.  *)
Down(c, n, s, operand, p) ==
  LET a == c.axes[n]  x == p[1][n]  xs == Without(p[1], n) IN
  CASE a.kind \in {"all", "kv"} -> <<xs, x * (s.n + GapOf(c)) + p[2], p[3]>>
    [] a.kind = "q"    -> IF operand = "k" THEN p ELSE <<xs, p[2], p[3] * a.size + x>>
    [] a.kind = "lens" -> <<xs, p[2], x * HeadsOf(operand, s) + p[3]>>

(* The query and the key head an element of a call with n axes reads.      *)
QueryAt(c, n, p)  == <<Of(c, n, "q", p[1]), p[2], p[3]>>
KeyAt(c, n, s, p) == <<Of(c, n, "k", p[1]), p[2], p[3] \div (s.hq \div s.hk)>>

-----------------------------------------------------------------------------
(* Products of sizes.                                                      *)
LEMMA Times ==
  ASSUME NEW x \in Nat \ {0}, NEW y \in Nat \ {0}
  PROVE  x * y \in Nat \ {0} /\ x * y >= y /\ x * y = y * x
<1>1. x >= 1 /\ x \in Int /\ y \in Int /\ y >= 1
  OBVIOUS
<1>2. x * y >= 1 * y
  BY <1>1
<1> QED BY <1>1, <1>2

(* The sizes of merged heads may be multiplied in any order.               *)
LEMMA ThreeTimes ==
  ASSUME NEW x \in Nat \ {0}, NEW y \in Nat \ {0}, NEW z \in Nat \ {0}
  PROVE  (x * y) * z = (x * z) * y /\ (x * y) * z = x * (y * z)
OBVIOUS

(* The kinds and sizes of the axes.                                        *)
LEMMA KindIs ==
  ASSUME NEW c, Vmapped(c), NEW n \in 1 .. Len(c.axes)
  PROVE  /\ c.axes[n].kind \in {"all", "kv", "q", "lens"} /\ c.axes[n].size \in Nat \ {0}
         /\ GapOf(c) \in {0, 1}
BY DEF Vmapped, Kinds, GapOf

(* The shape a rule computes.                                              *)
LEMMA MergedIs ==
  ASSUME NEW s, Sized(s), NEW a, a.kind \in {"all", "kv", "q", "lens"}
  PROVE  Grown(call, a, s, Merged(a, s))
<1>1. s \in [n : Nat \ {0}, hq : Nat \ {0}, hk : Nat \ {0}]
  BY DEF Sized
<1>2. Gap = GapOf(call)
  BY DEF Gap, GapOf
<1>3. CASE a.kind \in {"all", "kv"}
  BY <1>1, <1>2, <1>3 DEF Grown, Merged, Slots
<1>4. CASE a.kind = "q"
  BY <1>1, <1>4 DEF Grown, Merged
<1>5. CASE a.kind = "lens"
  BY <1>1, <1>5 DEF Grown, Merged
<1> QED BY <1>3, <1>4, <1>5

(* The numbers of a shape.                                                 *)
LEMMA SizedNumbers ==
  ASSUME NEW s, Sized(s)
  PROVE  /\ s.n \in Nat \ {0} /\ s.hq \in Nat \ {0} /\ s.hk \in Nat \ {0}
         /\ s.hq \div s.hk \in Nat \ {0} /\ s.hq = (s.hq \div s.hk) * s.hk
<1>1. s.n \in Nat \ {0} /\ s.hq \in Nat \ {0} /\ s.hk \in Nat \ {0}
  BY DEF Sized
<1>2. PICK r \in Nat \ {0} : s.hq = r * s.hk
  BY DEF Sized
<1>3. (r * s.hk) \div s.hk = r
  BY <1>1, RatioIs
<1> QED BY <1>1, <1>2, <1>3

(* The shape stays one: sequences and groups of heads are merged whole.    *)
LEMMA GrownSized ==
  ASSUME NEW c, Vmapped(c), NEW n \in 1 .. Len(c.axes), NEW s, Sized(s),
         NEW t \in [n : Int, hq : Int, hk : Int], Grown(c, c.axes[n], s, t)
  PROVE  Sized(t)
<1>. DEFINE z == c.axes[n].size
            g == GapOf(c)
            r == s.hq \div s.hk
            u == s.hk
            v == s.n
<1>1. c.axes[n].kind \in {"all", "kv", "q", "lens"} /\ z \in Nat \ {0} /\ g \in {0, 1}
  BY KindIs
<1>2. v \in Nat \ {0} /\ s.hq \in Nat \ {0} /\ u \in Nat \ {0} /\ r \in Nat \ {0} /\ s.hq = r * u
  BY SizedNumbers
<1>3. CASE c.axes[n].kind \in {"all", "kv"}
  <2>1. t.n = z * (v + g) - g /\ t.hq = r * u /\ t.hk = u
    BY <1>2, <1>3 DEF Grown
  <2>2. z * (v + g) - g \in Nat \ {0}
    <3>. HIDE DEF z, g, v
    <3>1. z * (v + g) >= v + g
      <4>1. v + g \in Nat \ {0}
        BY <1>1, <1>2
      <4> QED BY <1>1, <4>1, Times
    <3>2. z * (v + g) \in Int
      BY <1>1, <1>2
    <3> QED BY <1>1, <1>2, <3>1, <3>2
  <2> QED BY <1>2, <2>1, <2>2 DEF Sized
<1>4. CASE c.axes[n].kind = "q"
  <2>1. t.n = v /\ t.hq = (r * u) * z /\ t.hk = u
    BY <1>2, <1>4 DEF Grown
  <2>2. (r * u) * z = (r * z) * u /\ r * z \in Nat \ {0} /\ (r * z) * u \in Nat \ {0}
    <3>. HIDE DEF r, u, z
    <3>1. r * z \in Nat \ {0}
      BY <1>1, <1>2, Times
    <3>2. (r * z) * u \in Nat \ {0}
      BY <1>2, <3>1, Times
    <3> QED BY <1>1, <1>2, <3>1, <3>2, ThreeTimes
  <2> QED BY <1>2, <2>1, <2>2 DEF Sized
<1>5. CASE c.axes[n].kind = "lens"
  <2>1. t.n = v /\ t.hq = (r * u) * z /\ t.hk = u * z
    BY <1>2, <1>5 DEF Grown
  <2>2. (r * u) * z = r * (u * z) /\ u * z \in Nat \ {0} /\ r * (u * z) \in Nat \ {0}
    <3>. HIDE DEF r, u, z
    <3>1. u * z \in Nat \ {0}
      BY <1>1, <1>2, Times
    <3>2. r * (u * z) \in Nat \ {0}
      BY <1>2, <3>1, Times
    <3> QED BY <1>1, <1>2, <3>1, <3>2, ThreeTimes
  <2> QED BY <1>2, <2>1, <2>2 DEF Sized
<1> QED BY <1>1, <1>3, <1>4, <1>5

(* A merge keeps an element within the merged array.                       *)
LEMMA DownIn ==
  ASSUME NEW c, Vmapped(c), NEW n \in 1 .. Len(c.axes), NEW s, Sized(s),
         NEW t, Grown(c, c.axes[n], s, t),
         NEW operand \in {"lse", "k"}, NEW p \in Elements(c, n, operand, s)
  PROVE  Down(c, n, s, operand, p) \in Elements(c, n - 1, operand, t)
<1>. DEFINE a == c.axes[n]
            z == a.size
            g == GapOf(c)
            h == HeadsOf(operand, s)
            v == s.n
            x == p[1][n]
            ys == Without(p[1], n)
            i == p[2]
            j == p[3]
<1>1. a.kind \in {"all", "kv", "q", "lens"} /\ z \in Nat \ {0} /\ g \in {0, 1}
  BY KindIs
<1>2. v \in Nat \ {0} /\ h \in Nat \ {0}
  BY SizedNumbers DEF HeadsOf
<1>3. p[1] \in Points(c, n, operand) /\ i \in 0 .. v - 1 /\ j \in 0 .. h - 1
  BY DEF Elements
<1>4. Maps(a, operand) => ys \in Points(c, n - 1, operand) /\ x \in Nat /\ x < z
  BY <1>3, Taken
<1>5. CASE a.kind \in {"all", "kv"}
  <2>1. Down(c, n, s, operand, p) = <<ys, x * (v + g) + i, j>>
    BY <1>5 DEF Down
  <2>2. Maps(a, operand)
    BY <1>5 DEF Maps
  <2>3. t.n = z * (v + g) - g /\ HeadsOf(operand, t) = h
    BY <1>5 DEF Grown, HeadsOf
  <2>4. x * (v + g) + i \in 0 .. z * (v + g) - g - 1
    <3>. HIDE DEF z, g, h, v, x, i, j, ys
    <3>. DEFINE m == v + g
    <3>1. m \in Nat \ {0} /\ i \in 0 .. m - 1 /\ x \in Nat /\ x < z /\ i < m - g
      BY <1>1, <1>2, <1>3, <1>4, <2>2
    <3>. HIDE DEF m
    <3>2. x * m + i \in Nat /\ x * m + i <= z * m - m + i
      BY <1>1, <3>1, Within
    <3>3. z * m \in Int
      BY <1>1, <3>1
    <3>4. x * m + i \in 0 .. z * m - g - 1
      BY <1>1, <3>1, <3>2, <3>3
    <3> QED BY <3>4 DEF m
  <2> QED BY <1>3, <1>4, <2>1, <2>2, <2>3, <2>4 DEF Elements
<1>6. CASE a.kind = "q" /\ operand = "k"
  <2>1. Down(c, n, s, operand, p) = p
    BY <1>6 DEF Down
  <2>2. Points(c, n, operand) = Points(c, n - 1, operand)
    BY <1>6, Unmapped DEF Maps
  <2>3. t.n = v /\ HeadsOf(operand, t) = h
    BY <1>6 DEF Grown, HeadsOf
  <2> QED BY <2>1, <2>2, <2>3 DEF Elements
<1>7. CASE a.kind = "q" /\ operand = "lse"
  <2>1. Down(c, n, s, operand, p) = <<ys, i, j * z + x>>
    BY <1>7 DEF Down
  <2>2. Maps(a, operand)
    BY <1>7 DEF Maps
  <2>3. t.n = v /\ HeadsOf(operand, t) = h * z
    BY <1>7 DEF Grown, HeadsOf
  <2>4. j * z + x \in 0 .. h * z - 1
    <3>. HIDE DEF z, g, h, v, x, i, j, ys
    <3>1. j \in Nat /\ j < h /\ x \in 0 .. z - 1
      BY <1>1, <1>2, <1>3, <1>4, <2>2
    <3>2. j * z + x \in Nat /\ j * z + x < h * z
      BY <1>1, <1>2, <3>1, Within
    <3> QED BY <1>1, <1>2, <3>2
  <2> QED BY <1>3, <1>4, <2>1, <2>2, <2>3, <2>4 DEF Elements
<1>8. CASE a.kind = "lens"
  <2>1. Down(c, n, s, operand, p) = <<ys, i, x * h + j>>
    BY <1>8 DEF Down
  <2>2. Maps(a, operand)
    BY <1>8 DEF Maps
  <2>3. t.n = v /\ HeadsOf(operand, t) = h * z
    BY <1>8 DEF Grown, HeadsOf
  <2>4. x * h + j \in 0 .. h * z - 1
    <3>. HIDE DEF z, g, h, v, x, i, j, ys
    <3>1. x \in Nat /\ x < z
      BY <1>4, <2>2
    <3>2. x * h + j \in Nat /\ x * h + j < z * h
      BY <1>1, <1>2, <1>3, <3>1, Within
    <3>3. z * h = h * z
      BY <1>1, <1>2
    <3> QED BY <1>1, <1>2, <3>2, <3>3
  <2> QED BY <1>3, <1>4, <2>1, <2>2, <2>3, <2>4 DEF Elements
<1> QED BY <1>1, <1>5, <1>6, <1>7, <1>8

-----------------------------------------------------------------------------
(* What a query reads is in the arrays.                                    *)
LEMMA ReadsIn ==
  ASSUME NEW c, Vmapped(c), NEW n \in 0 .. Len(c.axes), NEW s, Sized(s),
         NEW p \in Elements(c, n, "lse", s)
  PROVE  QueryAt(c, n, p) \in Elements(c, n, "q", s) /\ KeyAt(c, n, s, p) \in Elements(c, n, "k", s)
<1>. DEFINE r == s.hq \div s.hk
            j == p[3]
            u == s.hk
<1>1. p[1] \in Points(c, n, "lse") /\ p[2] \in 0 .. s.n - 1 /\ j \in 0 .. s.hq - 1
  BY DEF Elements, HeadsOf
<1>2. Of(c, n, "q", p[1]) \in Points(c, n, "q") /\ Of(c, n, "k", p[1]) \in Points(c, n, "k")
  BY <1>1, PartIn
<1>3. j \div r \in 0 .. u - 1
  <2>1. r \in Nat \ {0} /\ u \in Nat \ {0} /\ s.hq = r * u /\ s.hq \in Nat
    BY SizedNumbers
  <2>2. j \in Nat /\ j < u * r
    <3>1. r * u = u * r
      BY <2>1
    <3> QED BY <1>1, <2>1, <3>1
  <2>. HIDE DEF r, u, j
  <2>3. j \div r \in Nat /\ j \div r < u
    BY <2>1, <2>2, Below
  <2> QED BY <2>1, <2>3
<1> QED BY <1>1, <1>2, <1>3 DEF QueryAt, KeyAt, Elements, HeadsOf

(* The key head read by a merged query is the merged key head.             *)
LEMMA KeyDown ==
  ASSUME NEW c, Vmapped(c), NEW n \in 1 .. Len(c.axes), NEW s, Sized(s),
         NEW t, Grown(c, c.axes[n], s, t), NEW p \in Elements(c, n, "lse", s)
  PROVE  KeyAt(c, n - 1, t, Down(c, n, s, "lse", p)) = Down(c, n, s, "k", KeyAt(c, n, s, p))
<1>. DEFINE a == c.axes[n]
            z == a.size
            g == GapOf(c)
            v == s.n
            r == s.hq \div s.hk
            u == s.hk
            x == p[1][n]
            ys == Without(p[1], n)
            ks == Of(c, n, "k", p[1])
            i == p[2]
            j == p[3]
            f == KeyAt(c, n, s, p)
<1>1. a.kind \in {"all", "kv", "q", "lens"} /\ z \in Nat \ {0} /\ g \in {0, 1}
  BY KindIs
<1>2. v \in Nat \ {0} /\ r \in Nat \ {0} /\ u \in Nat \ {0} /\ s.hq \in Nat \ {0} /\ s.hq = r * u
  BY SizedNumbers
<1>3. p[1] \in Points(c, n, "lse") /\ i \in 0 .. v - 1 /\ j \in Nat
  BY <1>2 DEF Elements, HeadsOf
<1>4. x \in Nat /\ x < z
  BY <1>3, Taken DEF Maps
<1>5. /\ Maps(a, "k") => ks[n] = x /\ Of(c, n - 1, "k", ys) = Without(ks, n)
      /\ ~ Maps(a, "k") => Of(c, n - 1, "k", ys) = ks
  BY <1>3, PartIs
<1>6. f[1] = ks /\ f[2] = i /\ f[3] = j \div r /\ f = <<ks, i, j \div r>>
  BY DEF KeyAt
<1>7. CASE a.kind \in {"all", "kv"}
  <2>1. Down(c, n, s, "lse", p) = <<ys, x * (v + g) + i, j>>
    BY <1>7 DEF Down
  <2>2. Maps(a, "k")
    BY <1>7 DEF Maps
  <2>3. t.hq \div t.hk = r
    BY <1>7 DEF Grown
  <2>4. KeyAt(c, n - 1, t, <<ys, x * (v + g) + i, j>>)
            = <<Without(ks, n), x * (v + g) + i, j \div r>>
    BY <1>5, <2>2, <2>3 DEF KeyAt
  <2>5. Down(c, n, s, "k", f) = <<Without(ks, n), ks[n] * (v + g) + i, j \div r>>
    BY <1>6, <1>7 DEF Down
  <2> QED BY <1>5, <2>1, <2>2, <2>4, <2>5
<1>8. CASE a.kind = "q"
  <2>1. Down(c, n, s, "lse", p) = <<ys, i, j * z + x>>
    BY <1>8 DEF Down
  <2>2. ~ Maps(a, "k")
    BY <1>8 DEF Maps
  <2>3. t.hq \div t.hk = r * z
    <3>1. t.hq = (r * u) * z /\ t.hk = u
      <4>1. t.hq = s.hq * z /\ t.hk = u
        BY <1>8 DEF Grown
      <4>. HIDE DEF r, u, z
      <4> QED BY <1>2, <4>1
    <3>0. r \in Nat \ {0} /\ u \in Nat \ {0} /\ z \in Nat \ {0}
      BY <1>1, <1>2
    <3>. HIDE DEF r, u, z
    <3>2. (r * u) * z = (r * z) * u /\ r * z \in Nat \ {0}
      <4>1. (r * u) * z = (r * z) * u
        BY <3>0, ThreeTimes
      <4>2. r * z \in Nat \ {0}
        BY <3>0, Times
      <4> QED BY <4>1, <4>2
    <3>3. ((r * z) * u) \div u = r * z
      <4>. DEFINE w == r * z
      <4>1. w \in Nat \ {0} /\ u \in Nat \ {0}
        BY <1>2, <3>2
      <4>. HIDE DEF w
      <4>2. (w * u) \div u = w
        BY <4>1, RatioIs
      <4> QED BY <4>2 DEF w
    <3> QED BY <3>1, <3>2, <3>3
  <2>4. (j * z + x) \div (r * z) = j \div r
    <3>1. Kept(j, x, z, r)
      <4>. HIDE DEF r, z, x, j
      <4> QED BY <1>1, <1>2, <1>3, <1>4, GroupKept
    <3> QED BY <3>1 DEF Kept
  <2>5. KeyAt(c, n - 1, t, <<ys, i, j * z + x>>) = <<ks, i, j \div r>>
    BY <1>5, <2>2, <2>3, <2>4 DEF KeyAt
  <2>6. Down(c, n, s, "k", f) = f
    BY <1>8 DEF Down
  <2> QED BY <1>6, <2>1, <2>5, <2>6
<1>9. CASE a.kind = "lens"
  <2>1. Down(c, n, s, "lse", p) = <<ys, i, x * s.hq + j>>
    BY <1>9 DEF Down, HeadsOf
  <2>2. Maps(a, "k")
    BY <1>9 DEF Maps
  <2>3. t.hq \div t.hk = r
    <3>1. t.hq = (r * u) * z /\ t.hk = u * z
      <4>1. t.hq = s.hq * z /\ t.hk = u * z
        BY <1>9 DEF Grown
      <4>. HIDE DEF r, u, z
      <4> QED BY <1>2, <4>1
    <3>0. r \in Nat \ {0} /\ u \in Nat \ {0} /\ z \in Nat \ {0}
      BY <1>1, <1>2
    <3>. HIDE DEF r, u, z
    <3>2. (r * u) * z = r * (u * z) /\ u * z \in Nat \ {0}
      <4>1. (r * u) * z = r * (u * z)
        BY <3>0, ThreeTimes
      <4>2. u * z \in Nat \ {0}
        BY <3>0, Times
      <4> QED BY <4>1, <4>2
    <3>3. (r * (u * z)) \div (u * z) = r
      <4>. DEFINE w == u * z
      <4>1. w \in Nat \ {0} /\ r \in Nat \ {0}
        BY <1>2, <3>2
      <4>. HIDE DEF w
      <4>2. (r * w) \div w = r
        BY <4>1, RatioIs
      <4> QED BY <4>2 DEF w
    <3> QED BY <3>1, <3>2, <3>3
  <2>4. (x * s.hq + j) \div r = x * u + j \div r
    <3>1. (x * (r * u) + j) \div r = x * u + j \div r
      <4>1. Shifted(j, x, u, r)
        <5>. HIDE DEF r, u, x, j
        <5> QED BY <1>2, <1>3, <1>4, GroupShifted
      <4> QED BY <4>1 DEF Shifted
    <3> QED BY <1>2, <3>1
  <2>5. KeyAt(c, n - 1, t, <<ys, i, x * s.hq + j>>) = <<Without(ks, n), i, x * u + j \div r>>
    BY <1>5, <2>2, <2>3, <2>4 DEF KeyAt
  <2>6. Down(c, n, s, "k", f) = <<Without(ks, n), i, ks[n] * u + j \div r>>
    BY <1>6, <1>9 DEF Down, HeadsOf
  <2> QED BY <1>5, <2>1, <2>2, <2>5, <2>6
<1> QED BY <1>1, <1>7, <1>8, <1>9

(* Every element of the merged array is one that was merged, except where  *)
(* the varlen rule makes a sequence between two examples.                  *)
Between(c, n, s, e) ==
  c.axes[n].kind \in {"all", "kv"} /\ e[2] % (s.n + GapOf(c)) = s.n

(* And an element between no examples comes from above.                    *)
LEMMA FromAbove ==
  ASSUME NEW c, Vmapped(c), NEW n \in 1 .. Len(c.axes), NEW s, Sized(s),
         NEW t, Grown(c, c.axes[n], s, t), NEW e \in Elements(c, n - 1, "lse", t),
         ~ Between(c, n, s, e)
  PROVE  \E p \in Elements(c, n, "lse", s) : e = Down(c, n, s, "lse", p)
<1>. DEFINE a == c.axes[n]
            z == a.size
            g == GapOf(c)
            v == s.n
            h == s.hq
            i == e[2]
            j == e[3]
<1>1. a.kind \in {"all", "kv", "q", "lens"} /\ z \in Nat \ {0} /\ g \in {0, 1}
  BY KindIs
<1>2. v \in Nat \ {0} /\ h \in Nat \ {0}
  BY SizedNumbers
<1>3. e[1] \in Points(c, n - 1, "lse") /\ i \in 0 .. t.n - 1 /\ j \in 0 .. t.hq - 1
      /\ e = <<e[1], i, j>>
  BY DEF Elements, HeadsOf
<1>4. ASSUME NEW x \in Nat, x < z
      PROVE  /\ With(e[1], n, x) \in Points(c, n, "lse") /\ With(e[1], n, x)[n] = x
             /\ Without(With(e[1], n, x), n) = e[1]
  BY <1>3, <1>4, Given DEF Maps
<1>5. ASSUME NEW x \in Nat, x < z, NEW y \in 0 .. v - 1, NEW w \in 0 .. h - 1
      PROVE  <<With(e[1], n, x), y, w>> \in Elements(c, n, "lse", s)
  <2>1. With(e[1], n, x) \in Points(c, n, "lse")
    BY <1>4, <1>5
  <2> QED BY <2>1 DEF Elements, HeadsOf
<1>6. CASE a.kind \in {"all", "kv"}
  <2>. DEFINE m == v + g
              x == i \div m
              y == i % m
              p == <<With(e[1], n, x), y, j>>
  <2>1. t.n = z * m - g /\ t.hq = h
    BY <1>6 DEF Grown
  <2>2. m \in Nat \ {0} /\ i \in Nat /\ y # v
    <3>1. z * m \in Int
      BY <1>1, <1>2
    <3>2. i % (s.n + GapOf(c)) # s.n
      BY <1>6 DEF Between
    <3> QED BY <1>1, <1>2, <1>3, <2>1, <3>1, <3>2
  <2>3. x \in Nat /\ y \in 0 .. m - 1 /\ i = x * m + y
    <3>. HIDE DEF m
    <3> QED BY <2>2, Divided
  <2>4. x < z
    <3>1. i < z * m
      <4>. HIDE DEF m
      <4>1. z * m \in Int
        BY <1>1, <2>2
      <4> QED BY <1>1, <1>3, <2>1, <2>2, <4>1
    <3>2. i \in Nat /\ m \in Nat \ {0} /\ z \in Nat
      BY <1>1, <2>2
    <3>. HIDE DEF m, z, i
    <3>3. i \div m < z
      BY <3>1, <3>2, Below
    <3> QED BY <3>3
  <2>5. y \in 0 .. v - 1
    <3>. HIDE DEF x, y, i, v, g
    <3> QED BY <1>1, <1>2, <2>2, <2>3
  <2>6. j \in 0 .. h - 1
    BY <1>3, <2>1
  <2>. HIDE DEF x, y
  <2>7. p \in Elements(c, n, "lse", s)
    BY <1>5, <2>3, <2>4, <2>5, <2>6
  <2>8. p[1][n] = x /\ Without(p[1], n) = e[1]
    BY <1>4, <2>3, <2>4
  <2>9. Down(c, n, s, "lse", p) = <<e[1], x * (v + g) + y, j>>
    BY <1>6, <2>8 DEF Down
  <2> QED BY <1>3, <2>3, <2>7, <2>9
<1>7. CASE a.kind = "q"
  <2>. DEFINE x == j % z
              w == j \div z
              p == <<With(e[1], n, x), i, w>>
  <2>1. t.n = v /\ t.hq = h * z
    BY <1>7 DEF Grown
  <2>2. j \in Nat /\ j < h * z
    <3>1. h * z \in Int
      BY <1>1, <1>2
    <3> QED BY <1>3, <2>1, <3>1
  <2>3. w \in Nat /\ x \in 0 .. z - 1 /\ j = w * z + x /\ w < h
    <3>1. j \in Nat /\ h \in Nat \ {0} /\ z \in Nat \ {0}
      BY <1>1, <1>2, <2>2
    <3>. HIDE DEF z, j, h
    <3>2. w \in Nat /\ x \in 0 .. z - 1 /\ j = w * z + x
      BY <3>1, Divided
    <3>3. j \div z < h
      BY <2>2, <3>1, Below
    <3> QED BY <3>2, <3>3
  <2>. HIDE DEF x, w
  <2>4. x \in Nat /\ x < z /\ i \in 0 .. v - 1 /\ w \in 0 .. h - 1
    <3>1. i \in 0 .. v - 1
      BY <1>3, <2>1
    <3>2. h \in Nat \ {0} /\ z \in Nat \ {0}
      BY <1>1, <1>2
    <3>. HIDE DEF z, j, h
    <3>3. x \in Nat /\ x < z /\ w \in 0 .. h - 1
      BY <2>3, <3>2
    <3> QED BY <3>1, <3>3
  <2>5. p \in Elements(c, n, "lse", s)
    BY <1>5, <2>4
  <2>6. p[1][n] = x /\ Without(p[1], n) = e[1]
    BY <1>4, <2>4
  <2>7. Down(c, n, s, "lse", p) = <<e[1], i, w * z + x>>
    BY <1>7, <2>6 DEF Down
  <2> QED BY <1>3, <2>3, <2>5, <2>7
<1>8. CASE a.kind = "lens"
  <2>. DEFINE x == j \div h
              w == j % h
              p == <<With(e[1], n, x), i, w>>
  <2>1. t.n = v /\ t.hq = h * z
    BY <1>8 DEF Grown
  <2>2. j \in Nat /\ j < z * h
    <3>1. h * z \in Int /\ h * z = z * h
      BY <1>1, <1>2
    <3> QED BY <1>3, <2>1, <3>1
  <2>3. x \in Nat /\ w \in 0 .. h - 1 /\ j = x * h + w /\ x < z
    <3>1. j \in Nat /\ h \in Nat \ {0} /\ z \in Nat \ {0}
      BY <1>1, <1>2, <2>2
    <3>. HIDE DEF z, j, h
    <3>2. x \in Nat /\ w \in 0 .. h - 1 /\ j = x * h + w
      BY <3>1, Divided
    <3>3. j \div h < z
      BY <2>2, <3>1, Below
    <3> QED BY <3>2, <3>3
  <2>. HIDE DEF x, w
  <2>4. i \in 0 .. v - 1
    BY <1>3, <2>1
  <2>5. p \in Elements(c, n, "lse", s)
    BY <1>5, <2>3, <2>4
  <2>6. p[1][n] = x /\ Without(p[1], n) = e[1]
    BY <1>4, <2>3
  <2>7. Down(c, n, s, "lse", p) = <<e[1], i, x * h + w>>
    BY <1>8, <2>6 DEF Down, HeadsOf
  <2> QED BY <1>3, <2>3, <2>5, <2>7
<1> QED BY <1>1, <1>6, <1>7, <1>8

-----------------------------------------------------------------------------
(* An element of a merged operand, as Batch makes it.                      *)
OfQueries(a, A, operand, s, e) ==
  CASE a.kind \in {"all", "kv"} -> MergeSeqs(A, Maps(a, operand), s, e)
    [] a.kind = "q"             -> MergeHeads(A, a.size, s.hq, e)
    [] a.kind = "lens"          -> MergeHeadsX(A, a.size, s.hq, e)
OfKeys(a, A, s, e) ==
  CASE a.kind \in {"all", "kv"} -> MergeSeqs(A, TRUE, s, e)
    [] a.kind = "q"             -> A[e]
    [] a.kind = "lens"          -> MergeHeadsX(A, a.size, s.hk, e)

(* What the three merges read, of elements made by their inverses.         *)
SeqsRead(A, s, ys, x, i, w) ==
  /\ MergeSeqs(A, TRUE, s, <<ys, x * (s.n + Gap) + i, w>>) = A[<<With(ys, Len(axes), x), i, w>>]
  /\ MergeSeqs(A, FALSE, s, <<ys, x * (s.n + Gap) + i, w>>) = A[<<ys, i, w>>]

(* Sequences,                                                              *)
LEMMA SeqsAt ==
  ASSUME NEW s, s.n \in Nat \ {0}, NEW x \in Nat, NEW i \in 0 .. s.n - 1, NEW ys, NEW w, NEW A
  PROVE  SeqsRead(A, s, ys, x, i, w)
<1>. DEFINE v == s.n
            m == v + Gap
            y == x * m + i
<1>1. Gap \in {0, 1}
  BY DEF Gap
<1>2. m \in Nat \ {0} /\ i \in 0 .. m - 1 /\ i # v
  BY <1>1
<1>3. y \div m = x /\ y % m = i
  <2>. HIDE DEF m
  <2> QED BY <1>2, Quotient
<1>. HIDE DEF y
<1>4. /\ MergeSeqs(A, TRUE, s, <<ys, y, w>>) = A[<<With(ys, Len(axes), x), i, w>>]
      /\ MergeSeqs(A, FALSE, s, <<ys, y, w>>) = A[<<ys, i, w>>]
  BY <1>2, <1>3 DEF MergeSeqs
<1> QED BY <1>4 DEF y, SeqsRead

(* heads merged as '(hq x)',                                               *)
LEMMA HeadsAt ==
  ASSUME NEW z \in Nat \ {0}, NEW x \in 0 .. z - 1, NEW j \in Nat, NEW ys, NEW i, NEW h, NEW A
  PROVE  MergeHeads(A, z, h, <<ys, i, j * z + x>>) = A[<<With(ys, Len(axes), x), i, j>>]
<1>. DEFINE y == j * z + x
<1>1. y \div z = j /\ y % z = x
  BY Quotient
<1>. HIDE DEF y
<1>2. MergeHeads(A, z, h, <<ys, i, y>>) = A[<<With(ys, Len(axes), x), i, j>>]
  BY <1>1 DEF MergeHeads
<1> QED BY <1>2 DEF y

(* and as '(x hq)'.                                                        *)
LEMMA HeadsXAt ==
  ASSUME NEW h \in Nat \ {0}, NEW j \in 0 .. h - 1, NEW x \in Nat, NEW ys, NEW i, NEW z, NEW A
  PROVE  MergeHeadsX(A, z, h, <<ys, i, x * h + j>>) = A[<<With(ys, Len(axes), x), i, j>>]
<1>. DEFINE y == x * h + j
<1>1. y \div h = x /\ y % h = j
  BY Quotient
<1>. HIDE DEF y
<1>2. MergeHeadsX(A, z, h, <<ys, i, y>>) = A[<<With(ys, Len(axes), x), i, j>>]
  BY <1>1 DEF MergeHeadsX
<1> QED BY <1>2 DEF y

(* A merged array has, where Down puts an element, what the array had.     *)
LEMMA QueriesKept ==
  ASSUME Vmapped(call), NEW n \in 1 .. Len(call.axes), Len(axes) = n, NEW s, Sized(s),
         NEW p \in Elements(call, n, "lse", s), NEW A
  PROVE  OfQueries(call.axes[n], A, "lse", s, Down(call, n, s, "lse", p)) = A[p]
<1>. DEFINE a == call.axes[n]
            x == p[1][n]
            ys == Without(p[1], n)
            e == Down(call, n, s, "lse", p)
<1>1. a.kind \in {"all", "kv", "q", "lens"} /\ a.size \in Nat \ {0}
  BY KindIs
<1>2. s.n \in Nat \ {0} /\ s.hq \in Nat \ {0}
  BY SizedNumbers
<1>3. /\ p[1] \in Points(call, n, "lse") /\ p[2] \in 0 .. s.n - 1 /\ p[3] \in 0 .. s.hq - 1
      /\ p = <<p[1], p[2], p[3]>>
  BY DEF Elements, HeadsOf
<1>4. x \in Nat /\ x < a.size /\ With(ys, n, x) = p[1]
  BY <1>3, Taken DEF Maps
<1>5. Gap = GapOf(call)
  BY DEF Gap, GapOf
<1>6. CASE a.kind \in {"all", "kv"}
  <2>1. e = <<ys, x * (s.n + Gap) + p[2], p[3]>>
    BY <1>5, <1>6 DEF Down
  <2>2. MergeSeqs(A, TRUE, s, e) = A[<<With(ys, n, x), p[2], p[3]>>]
    <3>1. SeqsRead(A, s, ys, x, p[2], p[3])
      <4>. HIDE DEF x, ys
      <4> QED BY <1>2, <1>3, <1>4, SeqsAt
    <3> QED BY <2>1, <3>1 DEF SeqsRead
  <2>3. OfQueries(a, A, "lse", s, e) = MergeSeqs(A, TRUE, s, e)
    BY <1>6 DEF OfQueries, Maps
  <2> QED BY <1>3, <1>4, <2>2, <2>3
<1>7. CASE a.kind = "q"
  <2>1. e = <<ys, p[2], p[3] * a.size + x>>
    BY <1>7 DEF Down
  <2>2. MergeHeads(A, a.size, s.hq, e) = A[<<With(ys, n, x), p[2], p[3]>>]
    <3>1. x \in 0 .. a.size - 1 /\ p[3] \in Nat
      BY <1>1, <1>2, <1>3, <1>4
    <3> QED BY <1>1, <2>1, <3>1, HeadsAt
  <2>3. OfQueries(a, A, "lse", s, e) = MergeHeads(A, a.size, s.hq, e)
    BY <1>7 DEF OfQueries
  <2> QED BY <1>3, <1>4, <2>2, <2>3
<1>8. CASE a.kind = "lens"
  <2>1. e = <<ys, p[2], x * s.hq + p[3]>>
    BY <1>8 DEF Down, HeadsOf
  <2>2. MergeHeadsX(A, a.size, s.hq, e) = A[<<With(ys, n, x), p[2], p[3]>>]
    BY <1>2, <1>3, <1>4, <2>1, HeadsXAt
  <2>3. OfQueries(a, A, "lse", s, e) = MergeHeadsX(A, a.size, s.hq, e)
    BY <1>8 DEF OfQueries
  <2> QED BY <1>3, <1>4, <2>2, <2>3
<1> QED BY <1>1, <1>6, <1>7, <1>8

(* Nor does it lose a key.                                                 *)
LEMMA KeysKept ==
  ASSUME Vmapped(call), NEW n \in 1 .. Len(call.axes), Len(axes) = n, NEW s, Sized(s),
         NEW p \in Elements(call, n, "k", s), NEW A
  PROVE  OfKeys(call.axes[n], A, s, Down(call, n, s, "k", p)) = A[p]
<1>. DEFINE a == call.axes[n]
            x == p[1][n]
            ys == Without(p[1], n)
            e == Down(call, n, s, "k", p)
<1>1. a.kind \in {"all", "kv", "q", "lens"} /\ a.size \in Nat \ {0}
  BY KindIs
<1>2. s.n \in Nat \ {0} /\ s.hk \in Nat \ {0}
  BY SizedNumbers
<1>3. /\ p[1] \in Points(call, n, "k") /\ p[2] \in 0 .. s.n - 1 /\ p[3] \in 0 .. s.hk - 1
      /\ p = <<p[1], p[2], p[3]>>
  BY DEF Elements, HeadsOf
<1>4. a.kind # "q" => x \in Nat /\ x < a.size /\ With(ys, n, x) = p[1]
  BY <1>1, <1>3, Taken DEF Maps
<1>5. Gap = GapOf(call)
  BY DEF Gap, GapOf
<1>6. CASE a.kind \in {"all", "kv"}
  <2>1. e = <<ys, x * (s.n + Gap) + p[2], p[3]>>
    BY <1>5, <1>6 DEF Down
  <2>2. MergeSeqs(A, TRUE, s, e) = A[<<With(ys, n, x), p[2], p[3]>>]
    <3>1. x \in Nat
      BY <1>4, <1>6
    <3>2. SeqsRead(A, s, ys, x, p[2], p[3])
      <4>. HIDE DEF x, ys
      <4> QED BY <1>2, <1>3, <3>1, SeqsAt
    <3> QED BY <2>1, <3>2 DEF SeqsRead
  <2>3. OfKeys(a, A, s, e) = MergeSeqs(A, TRUE, s, e)
    BY <1>6 DEF OfKeys
  <2> QED BY <1>3, <1>4, <1>6, <2>2, <2>3
<1>7. CASE a.kind = "q"
  BY <1>7 DEF Down, OfKeys
<1>8. CASE a.kind = "lens"
  <2>1. e = <<ys, p[2], x * s.hk + p[3]>>
    BY <1>8 DEF Down, HeadsOf
  <2>2. MergeHeadsX(A, a.size, s.hk, e) = A[<<With(ys, n, x), p[2], p[3]>>]
    <3>1. x \in Nat
      BY <1>4, <1>8
    <3> QED BY <1>2, <1>3, <2>1, <3>1, HeadsXAt
  <2>3. OfKeys(a, A, s, e) = MergeHeadsX(A, a.size, s.hk, e)
    BY <1>8 DEF OfKeys
  <2> QED BY <1>3, <1>4, <1>8, <2>2, <2>3
<1> QED BY <1>1, <1>6, <1>7, <1>8

(* And a merged q has, for a merged query, what q had for the query.       *)
LEMMA SharedKept ==
  ASSUME Vmapped(call), NEW n \in 1 .. Len(call.axes), Len(axes) = n, NEW s, Sized(s),
         NEW p \in Elements(call, n, "lse", s), NEW A
  PROVE  OfQueries(call.axes[n], A, "q", s, QueryAt(call, n - 1, Down(call, n, s, "lse", p)))
           = A[QueryAt(call, n, p)]
<1>. DEFINE a == call.axes[n]
            x == p[1][n]
            ys == Without(p[1], n)
            e == Down(call, n, s, "lse", p)
            b == Of(call, n, "q", p[1])
            d == Of(call, n - 1, "q", ys)
            f == QueryAt(call, n - 1, e)
<1>1. a.kind \in {"all", "kv", "q", "lens"} /\ a.size \in Nat \ {0}
  BY KindIs
<1>2. s.n \in Nat \ {0} /\ s.hq \in Nat \ {0}
  BY SizedNumbers
<1>3. p[1] \in Points(call, n, "lse") /\ p[2] \in 0 .. s.n - 1 /\ p[3] \in 0 .. s.hq - 1
  BY DEF Elements, HeadsOf
<1>4. x \in Nat /\ x < a.size
  BY <1>3, Taken DEF Maps
<1>5. Maps(a, "q") => With(d, n, x) = b
  <2>1. SUFFICES ASSUME Maps(a, "q") PROVE With(d, n, x) = b
    OBVIOUS
  <2>2. b \in Points(call, n, "q")
    BY <1>3, PartIn
  <2>3. With(Without(b, n), n, b[n]) = b
    <3>. HIDE DEF b
    <3> QED BY <2>1, <2>2, Taken
  <2>4. b[n] = x /\ d = Without(b, n)
    BY <1>3, <2>1, PartIs
  <2> QED BY <2>3, <2>4
<1>6. ~ Maps(a, "q") => d = b
  BY <1>3, PartIs
<1>7. QueryAt(call, n, p) = <<b, p[2], p[3]>>
  BY DEF QueryAt
<1>8. Gap = GapOf(call)
  BY DEF Gap, GapOf
<1>9. CASE a.kind \in {"all", "kv"}
  <2>1. f = <<d, x * (s.n + Gap) + p[2], p[3]>>
    BY <1>8, <1>9 DEF Down, QueryAt
  <2>2. /\ MergeSeqs(A, TRUE, s, f) = A[<<With(d, n, x), p[2], p[3]>>]
        /\ MergeSeqs(A, FALSE, s, f) = A[<<d, p[2], p[3]>>]
    <3>. HIDE DEF d, x, f
    <3>1. SeqsRead(A, s, d, x, p[2], p[3])
      BY <1>2, <1>3, <1>4, SeqsAt
    <3> QED BY <2>1, <3>1 DEF SeqsRead
  <2>3. CASE a.kind = "all"
    <3>1. OfQueries(a, A, "q", s, f) = MergeSeqs(A, TRUE, s, f) /\ Maps(a, "q")
      BY <2>3 DEF OfQueries, Maps
    <3> QED BY <1>5, <1>7, <2>2, <3>1
  <2>4. CASE a.kind = "kv"
    <3>1. OfQueries(a, A, "q", s, f) = MergeSeqs(A, FALSE, s, f) /\ ~ Maps(a, "q")
      BY <2>4 DEF OfQueries, Maps
    <3> QED BY <1>6, <1>7, <2>2, <3>1
  <2> QED BY <1>9, <2>3, <2>4
<1>10. CASE a.kind = "q"
  <2>1. f = <<d, p[2], p[3] * a.size + x>>
    BY <1>10 DEF Down, QueryAt
  <2>2. MergeHeads(A, a.size, s.hq, f) = A[<<With(d, n, x), p[2], p[3]>>]
    <3>1. x \in 0 .. a.size - 1 /\ p[3] \in Nat
      BY <1>1, <1>2, <1>3, <1>4
    <3>. HIDE DEF d, x, f
    <3> QED BY <1>1, <2>1, <3>1, HeadsAt
  <2>3. OfQueries(a, A, "q", s, f) = MergeHeads(A, a.size, s.hq, f) /\ Maps(a, "q")
    BY <1>10 DEF OfQueries, Maps
  <2> QED BY <1>5, <1>7, <2>2, <2>3
<1>11. CASE a.kind = "lens"
  <2>1. f = <<d, p[2], x * s.hq + p[3]>>
    BY <1>11 DEF Down, QueryAt, HeadsOf
  <2>2. MergeHeadsX(A, a.size, s.hq, f) = A[<<With(d, n, x), p[2], p[3]>>]
    <3>. HIDE DEF d, x, f
    <3> QED BY <1>2, <1>3, <1>4, <2>1, HeadsXAt
  <2>3. OfQueries(a, A, "q", s, f) = MergeHeadsX(A, a.size, s.hq, f) /\ Maps(a, "q")
    BY <1>11 DEF OfQueries, Maps
  <2> QED BY <1>5, <1>7, <2>2, <2>3
<1> QED BY <1>1, <1>9, <1>10, <1>11

(* The sequences between two examples are nobody's.                        *)
LEMMA GapsAreEmpty ==
  ASSUME NEW n, NEW s, NEW e, Between(call, n, s, e), NEW A, NEW operand
  PROVE  OfQueries(call.axes[n], A, operand, s, e) = Phantom
         /\ OfKeys(call.axes[n], A, s, e) = Phantom
<1>1. Gap = GapOf(call)
  BY DEF Gap, GapOf
<1>2. call.axes[n].kind \in {"all", "kv"} /\ e[2] % (s.n + Gap) = s.n
  BY <1>1 DEF Between
<1> QED BY <1>2 DEF OfQueries, OfKeys, MergeSeqs

-----------------------------------------------------------------------------
(* The inductive invariant.  Level(c, j) axes are left at depth j; a trail *)
(* says where each element of the call is at each depth.                   *)
Level(c, j)  == Len(c.axes) - j + 1
AxisOf(c)    == [size : Nat \ {0}, kind : Kinds(c.prim, c.bwd)]
Shape        == [n : Int, hq : Int, hk : Int]
Original(c)  == [n |-> c.n, hq |-> c.hk * c.ratio, hk |-> c.hk]
Whole(c, operand) == Elements(c, Len(c.axes), operand, Original(c))

Shapes(c, ss) ==
  /\ ss \in Seq(Shape) /\ Len(ss) \in 1 .. Len(c.axes) + 1
  /\ ss[1] = Original(c)
  /\ \A j \in 1 .. Len(ss) : Sized(ss[j])
  /\ \A j \in 1 .. Len(ss) - 1 : Grown(c, c.axes[Level(c, j)], ss[j], ss[j + 1])

Trail(c, ss, operand, at) ==
  /\ \A e \in Whole(c, operand) : at[1][e] = e
  /\ \A j \in 1 .. Len(ss) : \A e \in Whole(c, operand) :
       at[j][e] \in Elements(c, Level(c, j), operand, ss[j])
  /\ \A j \in 1 .. Len(ss) - 1 : \A e \in Whole(c, operand) :
       at[j + 1][e] = Down(c, Level(c, j), ss[j], operand, at[j][e])

(* Where mha_bwd_batch splits sequences the wrong way round, one of the    *)
(* factors is 1, and will be.                                              *)
MhaBackward(c) == c.prim = "mha" /\ c.bwd
Thin(s, a)     == a.kind = "all" => s.n = 1 \/ a.size = 1
Split(c, ss)   == MhaBackward(c) => \A j \in 1 .. Len(ss) - 1 : Thin(ss[j], c.axes[Level(c, j)])
Ahead(c, n, s) == MhaBackward(c) => \A i \in 1 .. n : Thin(s, c.axes[i])

(* The query and the key head of the call that its element e reads, and    *)
(* the elements that read the key head f.                                  *)
Query(c, e) == QueryAt(c, Len(c.axes), e)
Key(c, e)   == KeyAt(c, Len(c.axes), Original(c), e)
Readers(c, f) == {<<Query(c, e), e>> : e \in {g \in Whole(c, "lse") : Key(c, g) = f}}

(* On the way in: the elements of the call are where the trails say, and   *)
(* what is elsewhere is Phantom, in lse and in the key head it reads.      *)
Merging(c, n, s, at, kat, Q, X, K) ==
  /\ DOMAIN Q = Elements(c, n, "q", s) /\ DOMAIN X = Elements(c, n, "lse", s)
  /\ DOMAIN K = Elements(c, n, "k", s)
  /\ \A e \in Whole(c, "lse") : X[at[e]] = e
  /\ \A p \in Elements(c, n, "lse", s) : X[p] = Phantom \/ (X[p] \in Whole(c, "lse")
     /\ at[X[p]] = p)
  /\ \A f \in Whole(c, "k") : K[kat[f]] = f
  /\ \A e \in Whole(c, "lse") : Q[QueryAt(c, n, at[e])] = Query(c, e)
  /\ \A e \in Whole(c, "lse") : KeyAt(c, n, s, at[e]) = kat[Key(c, e)]
  /\ \A p \in Elements(c, n, "lse", s) : X[p] = Phantom => K[KeyAt(c, n, s, p)] = Phantom

(* On the way out: where the trail of an element says is its result.       *)
Splitting(c, n, s, at, kat, O, D) ==
  /\ DOMAIN O = Elements(c, n, "lse", s) /\ DOMAIN D = Elements(c, n, "k", s)
  /\ \A e \in Whole(c, "lse") : O[at[e]] = <<Query(c, e), e, Key(c, e)>>
  /\ \A f \in Whole(c, "k") : D[kat[f]] = Readers(c, f)

Numbers ==
  /\ call \in Calls
  /\ Shapes(call, shape)
  /\ axes \in Seq(AxisOf(call)) /\ First(call, axes, Level(call, Len(shape)))
  /\ phase \in {"batch", "unbatch", "done"}
  /\ phase = "done" => Len(shape) = 1
Arrays(at, kat) ==
  /\ Trail(call, shape, "lse", at) /\ Trail(call, shape, "k", kat)
  /\ phase = "batch" =>
       Merging(call, Len(axes), Top(shape), at[Len(shape)], kat[Len(shape)], q, lse, k)
  /\ phase # "batch" =>
       Splitting(call, Len(axes), Top(shape), at[Len(shape)], kat[Len(shape)], out, dk)

BatchingInv ==
  /\ Numbers
  /\ Split(call, shape) /\ (phase = "batch" => Ahead(call, Len(axes), Top(shape)))
  /\ \E at, kat : Arrays(at, kat)

-----------------------------------------------------------------------------
(* The shape of an example is one.                                         *)
LEMMA OriginalSized ==
  ASSUME NEW c, Vmapped(c)
  PROVE  Original(c) \in Shape /\ Sized(Original(c))
<1>. DEFINE v == c.n
            r == c.ratio
            u == c.hk
<1>1. v \in Nat \ {0} /\ r \in Nat \ {0} /\ u \in Nat \ {0}
  BY DEF Vmapped
<1>2. Original(c) = [n |-> v, hq |-> u * r, hk |-> u]
  BY DEF Original
<1>. HIDE DEF v, r, u
<1>3. u * r \in Nat \ {0} /\ u * r = r * u
  BY <1>1, Times
<1> QED BY <1>1, <1>2, <1>3 DEF Shape, Sized

(* What Narrow says of the axes of a vmapped gradient.                     *)
LEMMA NarrowIs ==
  ASSUME NEW c, Vmapped(c), Narrow(c), MhaBackward(c)
  PROVE  /\ \A i \in 1 .. Len(c.axes) : c.axes[i].kind = "all" /\ c.axes[i].size > 1 => ~ (c.n > 1)
         /\ \A i, j \in 1 .. Len(c.axes) :
              /\ c.axes[i].kind = "all" /\ c.axes[i].size > 1
              /\ c.axes[j].kind = "all" /\ c.axes[j].size > 1
              => i = j
<1>. DEFINE wide == {i \in DOMAIN c.axes : c.axes[i].kind = "all" /\ c.axes[i].size > 1}
<1>1. DOMAIN c.axes = 1 .. Len(c.axes)
  BY DEF Vmapped
<1>2. (c.n > 1 => wide = {}) /\ \A i, j \in wide : i = j
  BY DEF Narrow, MhaBackward
<1>3. ASSUME NEW i \in 1 .. Len(c.axes), c.axes[i].kind = "all", c.axes[i].size > 1 PROVE i \in wide
  BY <1>1, <1>3
<1>. HIDE DEF wide
<1>4. ASSUME NEW i \in 1 .. Len(c.axes), c.axes[i].kind = "all",
      c.axes[i].size > 1 PROVE ~ (c.n > 1)
  BY <1>2, <1>3, <1>4
<1>5. ASSUME NEW i \in 1 .. Len(c.axes), c.axes[i].kind = "all", c.axes[i].size > 1,
             NEW j \in 1 .. Len(c.axes), c.axes[j].kind = "all", c.axes[j].size > 1 PROVE i = j
  BY <1>2, <1>3, <1>5
<1> QED BY <1>4, <1>5

(* The innermost rule splits right in a Narrow call,                       *)
LEMMA AheadAtFirst ==
  ASSUME NEW c, Vmapped(c), Narrow(c)
  PROVE  Ahead(c, Len(c.axes), Original(c))
<1>. SUFFICES ASSUME MhaBackward(c), NEW i \in 1 .. Len(c.axes), c.axes[i].kind = "all"
              PROVE  c.n = 1 \/ c.axes[i].size = 1
  BY DEF Ahead, Thin, Original
<1>1. c.n \in Nat \ {0} /\ c.axes[i].size \in Nat \ {0}
  BY DEF Vmapped
<1>2. ~ (c.axes[i].size > 1 /\ c.n > 1)
  BY NarrowIs
<1> QED BY <1>1, <1>2

(* and so do those around it: a wide axis, once merged, leaves none.       *)
LEMMA AheadStays ==
  ASSUME NEW c, Vmapped(c), Narrow(c), NEW n \in 1 .. Len(c.axes), NEW s, Sized(s),
         NEW t, Grown(c, c.axes[n], s, t), Ahead(c, n, s)
  PROVE  Ahead(c, n - 1, t)
<1>. SUFFICES ASSUME MhaBackward(c), NEW i \in 1 .. n - 1, c.axes[i].kind = "all"
              PROVE  t.n = 1 \/ c.axes[i].size = 1
  BY DEF Ahead, Thin
<1>. DEFINE a == c.axes[n]
            b == c.axes[i]
<1>1. i \in 1 .. n /\ i \in 1 .. Len(c.axes) /\ n \in 1 .. n /\ i # n
  BY DEF Vmapped
<1>2. a.kind \in {"all", "q"} /\ GapOf(c) = 0
  BY DEF MhaBackward, Vmapped, Kinds, GapOf
<1>3. a.size \in Nat \ {0} /\ b.size \in Nat \ {0} /\ s.n \in Nat \ {0}
  BY <1>1, SizedNumbers DEF Vmapped
<1>4. s.n = 1 \/ b.size = 1
  BY <1>1 DEF Ahead, Thin
<1>5. CASE a.kind = "q"
  BY <1>4, <1>5 DEF Grown
<1>6. CASE a.kind = "all"
  <2>1. CASE b.size = 1
    BY <2>1
  <2>2. CASE b.size # 1
    <3>1. b.size > 1 /\ s.n = 1
      BY <1>3, <1>4, <2>2
    <3>2. ~ (a.size > 1)
      BY <1>1, <1>6, <3>1, NarrowIs
    <3>3. a.size = 1
      BY <1>3, <3>2
    <3>4. t.n = a.size * (s.n + 0) - 0
      BY <1>2, <1>6 DEF Grown
    <3> QED BY <3>1, <3>3, <3>4
  <2> QED BY <2>1, <2>2
<1> QED BY <1>2, <1>5, <1>6

-----------------------------------------------------------------------------
(* A merge makes a trail longer, a split makes it shorter.                 *)
Longer(c, ss, operand, at) ==
  [j \in 1 .. Len(ss) + 1 |->
     IF j <= Len(ss) THEN at[j]
     ELSE [e \in Whole(c, operand) |->
             Down(c, Level(c, Len(ss)), ss[Len(ss)], operand, at[Len(ss)][e])]]

(* The next step of a trail is where the rule puts its element.            *)
LEMMA TrailLonger ==
  ASSUME NEW c, Vmapped(c), NEW ss, Shapes(c, ss), Len(ss) <= Len(c.axes),
         NEW operand \in {"lse", "k"},
         NEW at, Trail(c, ss, operand, at),
         NEW tt, Len(tt) = Len(ss) + 1, \A j \in 1 .. Len(ss) : tt[j] = ss[j],
         Grown(c, c.axes[Level(c, Len(ss))], ss[Len(ss)], tt[Len(ss) + 1])
  PROVE  /\ Trail(c, tt, operand, Longer(c, ss, operand, at))
         /\ \A e \in Whole(c, operand) :
              Longer(c, ss, operand, at)[Len(ss) + 1][e]
                = Down(c, Level(c, Len(ss)), ss[Len(ss)], operand, at[Len(ss)][e])
<1>. DEFINE m == Len(ss)
            b == Longer(c, ss, operand, at)
            n == Level(c, m)
            W == Whole(c, operand)
<1>1. m \in 1 .. Len(c.axes) /\ Len(c.axes) \in Nat /\ m \in Nat /\ m >= 1
  BY DEF Shapes, Vmapped
<1>2. n \in 1 .. Len(c.axes) /\ Level(c, m + 1) = n - 1
  BY <1>1 DEF Level
<1>3. \A j \in 1 .. m : b[j] = at[j]
  BY <1>1 DEF Longer
<1>4. \A e \in W : b[m + 1][e] = Down(c, n, ss[m], operand, at[m][e])
  BY <1>1 DEF Longer
<1>5. \A e \in W : at[m][e] \in Elements(c, n, operand, ss[m])
  BY <1>1 DEF Trail
<1>6. Sized(ss[m])
  BY <1>1 DEF Shapes
<1>. HIDE DEF b, m, n, W
<1>7. \A e \in W : b[m + 1][e] \in Elements(c, n - 1, operand, tt[m + 1])
  <2>1. SUFFICES ASSUME NEW e \in W
                 PROVE  Down(c, n, ss[m], operand, at[m][e]) \in Elements(c, n - 1, operand, tt[m + 1])
    BY <1>4
  <2>2. at[m][e] \in Elements(c, n, operand, ss[m])
    BY <1>5
  <2>3. Grown(c, c.axes[n], ss[m], tt[m + 1])
    BY DEF n, m
  <2> QED BY <1>2, <1>6, <2>2, <2>3, DownIn
<1>8. \A e \in W : b[1][e] = e
  BY <1>1, <1>3 DEF Trail, W
<1>9. ASSUME NEW j \in 1 .. m + 1, NEW e \in W
      PROVE  b[j][e] \in Elements(c, Level(c, j), operand, tt[j])
  <2>1. CASE j = m + 1
    BY <1>2, <1>7, <2>1
  <2>2. CASE j # m + 1
    <3>1. j \in 1 .. m
      BY <1>1, <2>2
    <3>2. at[j][e] \in Elements(c, Level(c, j), operand, ss[j])
      BY <3>1 DEF Trail, W, m
    <3>3. tt[j] = ss[j]
      BY <3>1 DEF m
    <3> QED BY <1>3, <3>1, <3>2, <3>3
  <2> QED BY <2>1, <2>2
<1>10. ASSUME NEW j \in 1 .. m, NEW e \in W
       PROVE  b[j + 1][e] = Down(c, Level(c, j), tt[j], operand, b[j][e])
  <2>1. tt[j] = ss[j]
    BY DEF m
  <2>2. CASE j = m
    BY <1>1, <1>3, <1>4, <2>1, <2>2 DEF n
  <2>3. CASE j # m
    <3>1. j \in 1 .. m - 1 /\ j + 1 \in 1 .. m
      BY <1>1, <2>3
    <3>2. at[j + 1][e] = Down(c, Level(c, j), ss[j], operand, at[j][e])
      BY <3>1 DEF Trail, W, m
    <3> QED BY <1>3, <2>1, <3>1, <3>2
  <2> QED BY <2>2, <2>3
<1>11. Len(tt) = m + 1 /\ Len(tt) - 1 = m
  BY <1>1 DEF m
<1>12. Trail(c, tt, operand, b)
  BY <1>8, <1>9, <1>10, <1>11 DEF Trail, W
<1> QED BY <1>4, <1>12 DEF b, m, n, W

(* A trail cut short is a trail.                                           *)
LEMMA TrailShorter ==
  ASSUME NEW c, NEW ss, Len(ss) \in Nat, NEW operand, NEW at, Trail(c, ss, operand, at),
         NEW tt, Len(tt) = Len(ss) - 1, \A j \in 1 .. Len(tt) : tt[j] = ss[j]
  PROVE  Trail(c, tt, operand, at)
<1>1. \A j \in 1 .. Len(tt) : j \in 1 .. Len(ss) /\ tt[j] = ss[j]
  OBVIOUS
<1>2. \A j \in 1 .. Len(tt) - 1 : j \in 1 .. Len(ss) - 1 /\ tt[j] = ss[j]
  OBVIOUS
<1>3. \A e \in Whole(c, operand) : at[1][e] = e
  BY DEF Trail
<1>4. ASSUME NEW j \in 1 .. Len(tt), NEW e \in Whole(c, operand)
      PROVE  at[j][e] \in Elements(c, Level(c, j), operand, tt[j])
  <2>1. at[j][e] \in Elements(c, Level(c, j), operand, ss[j])
    BY <1>1 DEF Trail
  <2> QED BY <1>1, <2>1
<1>5. ASSUME NEW j \in 1 .. Len(tt) - 1, NEW e \in Whole(c, operand)
      PROVE  at[j + 1][e] = Down(c, Level(c, j), tt[j], operand, at[j][e])
  <2>1. at[j + 1][e] = Down(c, Level(c, j), ss[j], operand, at[j][e])
    BY <1>2 DEF Trail
  <2> QED BY <1>2, <2>1
<1> QED BY <1>3, <1>4, <1>5 DEF Trail

-----------------------------------------------------------------------------
(* The shape after one more rule.                                          *)
LEMMA ShapesLonger ==
  ASSUME NEW c, Vmapped(c), NEW ss, Shapes(c, ss), Len(ss) <= Len(c.axes),
         NEW t \in Shape, Grown(c, c.axes[Level(c, Len(ss))], ss[Len(ss)], t)
  PROVE  /\ Shapes(c, Append(ss, t)) /\ Len(Append(ss, t)) = Len(ss) + 1
         /\ \A j \in 1 .. Len(ss) : Append(ss, t)[j] = ss[j]
         /\ Append(ss, t)[Len(ss) + 1] = t /\ Sized(t)
<1>. DEFINE m == Len(ss)
            tt == Append(ss, t)
            n == Level(c, m)
<1>1. m \in 1 .. Len(c.axes) /\ Len(c.axes) \in Nat /\ m \in Nat /\ m >= 1 /\ ss \in Seq(Shape)
  BY DEF Shapes, Vmapped
<1>2. tt \in Seq(Shape) /\ Len(tt) = m + 1 /\ tt[m + 1] = t /\ \A j \in 1 .. m : tt[j] = ss[j]
  BY <1>1, AppendProperties
<1>3. n \in 1 .. Len(c.axes)
  BY <1>1 DEF Level
<1>4. \A j \in 1 .. m : Sized(ss[j])
  BY DEF Shapes
<1>5. Sized(t)
  <2>1. Sized(ss[m]) /\ Grown(c, c.axes[n], ss[m], t)
    BY <1>1, <1>4
  <2>. HIDE DEF n, m
  <2>2. t \in [n : Int, hq : Int, hk : Int]
    BY DEF Shape
  <2> QED BY <1>3, <2>1, <2>2, GrownSized
<1>6. \A j \in 1 .. m - 1 : Grown(c, c.axes[Level(c, j)], ss[j], ss[j + 1])
  BY DEF Shapes
<1>7. Grown(c, c.axes[n], ss[m], t)
  OBVIOUS
<1>8. ss[1] = Original(c)
  BY DEF Shapes
<1>. HIDE DEF tt, m
<1>9. ASSUME NEW j \in 1 .. m + 1 PROVE Sized(tt[j])
  <2>1. CASE j = m + 1
    BY <1>2, <1>5, <2>1
  <2>2. CASE j # m + 1
    <3>1. j \in 1 .. m
      BY <1>1, <2>2
    <3> QED BY <1>2, <1>4, <3>1
  <2> QED BY <2>1, <2>2
<1>10. ASSUME NEW j \in 1 .. m PROVE Grown(c, c.axes[Level(c, j)], tt[j], tt[j + 1])
  <2>1. CASE j = m
    BY <1>1, <1>2, <1>7, <2>1
  <2>2. CASE j # m
    <3>1. j \in 1 .. m - 1 /\ j + 1 \in 1 .. m
      BY <1>1, <2>2
    <3> QED BY <1>2, <1>6, <3>1
  <2> QED BY <2>1, <2>2
<1>11. Shapes(c, tt)
  <2>1. Len(tt) - 1 = m /\ Len(tt) \in 1 .. Len(c.axes) + 1 /\ tt[1] = ss[1]
    BY <1>1, <1>2
  <2> QED BY <1>2, <1>8, <1>9, <1>10, <2>1 DEF Shapes
<1> QED BY <1>2, <1>5, <1>11 DEF tt, m

(* The shape before the last rule.                                         *)
LEMMA ShapesShorter ==
  ASSUME NEW c, NEW ss, Shapes(c, ss), Len(c.axes) \in Nat, Len(ss) > 1
  PROVE  /\ Shapes(c, SubSeq(ss, 1, Len(ss) - 1)) /\ Len(SubSeq(ss, 1, Len(ss) - 1)) = Len(ss) - 1
         /\ \A j \in 1 .. Len(ss) - 1 : SubSeq(ss, 1, Len(ss) - 1)[j] = ss[j]
<1>. DEFINE m == Len(ss)
            tt == SubSeq(ss, 1, m - 1)
<1>1. ss \in Seq(Shape) /\ m \in Nat /\ m > 1 /\ m <= Len(c.axes) + 1
  BY DEF Shapes
<1>2. tt \in Seq(Shape) /\ Len(tt) = m - 1 /\ \A j \in 1 .. m - 1 : tt[j] = ss[j]
  <2>1. 1 \in 1 .. m + 1 /\ m - 1 \in 0 .. m
    BY <1>1
  <2> QED BY <1>1, <2>1, SubSeqProperties
<1>3. /\ ss[1] = Original(c) /\ \A j \in 1 .. m : Sized(ss[j])
      /\ \A j \in 1 .. m - 1 : Grown(c, c.axes[Level(c, j)], ss[j], ss[j + 1])
  BY DEF Shapes
<1>. HIDE DEF tt, m
<1>4. tt[1] = Original(c) /\ \A j \in 1 .. m - 1 : Sized(tt[j])
  <2>1. 1 \in 1 .. m - 1 /\ \A j \in 1 .. m - 1 : j \in 1 .. m
    BY <1>1
  <2> QED BY <1>2, <1>3, <2>1
<1>5. ASSUME NEW j \in 1 .. m - 2 PROVE Grown(c, c.axes[Level(c, j)], tt[j], tt[j + 1])
  <2>1. j \in 1 .. m - 1 /\ j + 1 \in 1 .. m - 1
    BY <1>1
  <2> QED BY <1>2, <1>3, <2>1
<1>6. Len(tt) - 1 = m - 2 /\ Len(tt) \in 1 .. Len(c.axes) + 1
  BY <1>1, <1>2
<1>7. Shapes(c, tt)
  BY <1>2, <1>4, <1>5, <1>6 DEF Shapes
<1> QED BY <1>2, <1>7 DEF tt, m

-----------------------------------------------------------------------------
(* One rule on the way in, for the positions b and d in the merged arrays. *)
LEMMA MergeStep ==
  ASSUME Vmapped(call), NEW n \in 1 .. Len(call.axes), Len(axes) = n, NEW s, Sized(s),
         NEW t, Sized(t), Grown(call, call.axes[n], s, t),
         NEW at, NEW kat, NEW Q, NEW X, NEW K, Merging(call, n, s, at, kat, Q, X, K),
         \A e \in Whole(call, "lse") : at[e] \in Elements(call, n, "lse", s),
         \A f \in Whole(call, "k") : kat[f] \in Elements(call, n, "k", s),
         \A e \in Whole(call, "lse") : Key(call, e) \in Whole(call, "k"),
         NEW b, \A e \in Whole(call, "lse") : b[e] = Down(call, n, s, "lse", at[e]),
         NEW d, \A f \in Whole(call, "k") : d[f] = Down(call, n, s, "k", kat[f]),
         NEW Q2, Q2 = [e \in Elements(call, n - 1, "q", t) |->
                         OfQueries(call.axes[n], Q, "q", s, e)],
         NEW X2, X2 = [e \in Elements(call, n - 1, "lse", t) |->
                         OfQueries(call.axes[n], X, "lse", s, e)],
         NEW K2, K2 = [e \in Elements(call, n - 1, "k", t) |-> OfKeys(call.axes[n], K, s, e)]
  PROVE  Merging(call, n - 1, t, b, d, Q2, X2, K2)
<1>0. n - 1 \in 0 .. Len(call.axes)
  BY DEF Vmapped
<1>1. ASSUME NEW p \in Elements(call, n, "lse", s)
      PROVE  /\ Down(call, n, s, "lse", p) \in Elements(call, n - 1, "lse", t)
             /\ X2[Down(call, n, s, "lse", p)] = X[p]
  <2>1. Down(call, n, s, "lse", p) \in Elements(call, n - 1, "lse", t)
    BY DownIn
  <2>2. OfQueries(call.axes[n], X, "lse", s, Down(call, n, s, "lse", p)) = X[p]
    BY QueriesKept
  <2> QED BY <2>1, <2>2
<1>2. ASSUME NEW p \in Elements(call, n, "k", s)
      PROVE  /\ Down(call, n, s, "k", p) \in Elements(call, n - 1, "k", t)
             /\ K2[Down(call, n, s, "k", p)] = K[p]
  <2>1. Down(call, n, s, "k", p) \in Elements(call, n - 1, "k", t)
    BY DownIn
  <2>2. OfKeys(call.axes[n], K, s, Down(call, n, s, "k", p)) = K[p]
    BY KeysKept
  <2> QED BY <2>1, <2>2
<1>3. ASSUME NEW p \in Elements(call, n, "lse", s)
      PROVE  Q2[QueryAt(call, n - 1, Down(call, n, s, "lse", p))] = Q[QueryAt(call, n, p)]
  <2>1. QueryAt(call, n - 1, Down(call, n, s, "lse", p)) \in Elements(call, n - 1, "q", t)
    BY <1>0, <1>1, ReadsIn
  <2>2. OfQueries(call.axes[n], Q, "q", s, QueryAt(call, n - 1, Down(call, n, s, "lse", p)))
            = Q[QueryAt(call, n, p)]
    BY SharedKept
  <2> QED BY <2>1, <2>2
<1>4. ASSUME NEW p \in Elements(call, n, "lse", s)
      PROVE  KeyAt(call, n - 1, t, Down(call, n, s, "lse", p))
                 = Down(call, n, s, "k", KeyAt(call, n, s, p))
  BY KeyDown
<1>5. ASSUME NEW e \in Elements(call, n - 1, "lse", t), Between(call, n, s, e)
      PROVE  X2[e] = Phantom /\ K2[KeyAt(call, n - 1, t, e)] = Phantom
  <2>1. KeyAt(call, n - 1, t, e) \in Elements(call, n - 1, "k", t)
    BY <1>0, ReadsIn
  <2>2. KeyAt(call, n - 1, t, e)[2] = e[2]
    BY DEF KeyAt
  <2>3. Between(call, n, s, KeyAt(call, n - 1, t, e))
    BY <1>5, <2>2 DEF Between
  <2>4. OfQueries(call.axes[n], X, "lse", s, e) = Phantom
    BY <1>5, GapsAreEmpty
  <2>5. OfKeys(call.axes[n], K, s, KeyAt(call, n - 1, t, e)) = Phantom
    BY <2>3, GapsAreEmpty
  <2> QED BY <2>1, <2>4, <2>5
<1>6. ASSUME NEW e \in Elements(call, n - 1, "lse", t), ~ Between(call, n, s, e)
      PROVE  \E p \in Elements(call, n, "lse", s) : e = Down(call, n, s, "lse", p)
  BY <1>6, FromAbove
<1>7. /\ \A e \in Whole(call, "lse") : X[at[e]] = e
      /\ \A p \in Elements(call, n, "lse", s) :
           X[p] = Phantom \/ (X[p] \in Whole(call, "lse") /\ at[X[p]] = p)
      /\ \A f \in Whole(call, "k") : K[kat[f]] = f
      /\ \A e \in Whole(call, "lse") : Q[QueryAt(call, n, at[e])] = Query(call, e)
      /\ \A e \in Whole(call, "lse") : KeyAt(call, n, s, at[e]) = kat[Key(call, e)]
      /\ \A p \in Elements(call, n, "lse", s) : X[p] = Phantom => K[KeyAt(call, n, s, p)] = Phantom
  BY DEF Merging
<1>8. /\ DOMAIN Q2 = Elements(call, n - 1, "q", t) /\ DOMAIN X2 = Elements(call, n - 1, "lse", t)
      /\ DOMAIN K2 = Elements(call, n - 1, "k", t)
  OBVIOUS
<1>9. ASSUME NEW e \in Whole(call, "lse") PROVE X2[b[e]] = e
  <2>1. at[e] \in Elements(call, n, "lse", s) /\ b[e] = Down(call, n, s, "lse", at[e])
        /\ X[at[e]] = e
    BY <1>7
  <2>2. X2[Down(call, n, s, "lse", at[e])] = X[at[e]]
    BY <1>1, <2>1
  <2> QED BY <2>1, <2>2
<1>10. ASSUME NEW f \in Whole(call, "k") PROVE K2[d[f]] = f
  <2>1. kat[f] \in Elements(call, n, "k", s) /\ d[f] = Down(call, n, s, "k", kat[f])
        /\ K[kat[f]] = f
    BY <1>7
  <2>2. K2[Down(call, n, s, "k", kat[f])] = K[kat[f]]
    BY <1>2, <2>1
  <2> QED BY <2>1, <2>2
<1>11. ASSUME NEW e \in Whole(call, "lse") PROVE Q2[QueryAt(call, n - 1, b[e])] = Query(call, e)
  <2>1. at[e] \in Elements(call, n, "lse", s) /\ b[e] = Down(call, n, s, "lse", at[e])
        /\ Q[QueryAt(call, n, at[e])] = Query(call, e)
    BY <1>7
  <2>2. Q2[QueryAt(call, n - 1, Down(call, n, s, "lse", at[e]))] = Q[QueryAt(call, n, at[e])]
    BY <1>3, <2>1
  <2> QED BY <2>1, <2>2
<1>12. ASSUME NEW e \in Whole(call, "lse") PROVE KeyAt(call, n - 1, t, b[e]) = d[Key(call, e)]
  <2>1. at[e] \in Elements(call, n, "lse", s) /\ b[e] = Down(call, n, s, "lse", at[e])
        /\ KeyAt(call, n, s, at[e]) = kat[Key(call, e)]
    BY <1>7
  <2>2. d[Key(call, e)] = Down(call, n, s, "k", kat[Key(call, e)])
    OBVIOUS
  <2>3. KeyAt(call, n - 1, t, Down(call, n, s, "lse", at[e]))
            = Down(call, n, s, "k", KeyAt(call, n, s, at[e]))
    BY <1>4, <2>1
  <2> QED BY <2>1, <2>2, <2>3
<1>13. ASSUME NEW e \in Elements(call, n - 1, "lse", t)
       PROVE  X2[e] = Phantom \/ (X2[e] \in Whole(call, "lse") /\ b[X2[e]] = e)
  <2>1. CASE Between(call, n, s, e)
    BY <1>5, <2>1
  <2>2. CASE ~ Between(call, n, s, e)
    <3>1. PICK p \in Elements(call, n, "lse", s) : e = Down(call, n, s, "lse", p)
      BY <1>6, <2>2
    <3>2. X2[e] = X[p]
      BY <1>1, <3>1
    <3> QED BY <1>7, <3>1, <3>2
  <2> QED BY <2>1, <2>2
<1>14. ASSUME NEW e \in Elements(call, n - 1, "lse", t), X2[e] = Phantom
       PROVE  K2[KeyAt(call, n - 1, t, e)] = Phantom
  <2>1. CASE Between(call, n, s, e)
    BY <1>5, <2>1
  <2>2. CASE ~ Between(call, n, s, e)
    <3>1. PICK p \in Elements(call, n, "lse", s) : e = Down(call, n, s, "lse", p)
      BY <1>6, <2>2
    <3>2. X[p] = Phantom
      BY <1>1, <1>14, <3>1
    <3>3. K[KeyAt(call, n, s, p)] = Phantom
      BY <1>7, <3>2
    <3>4. KeyAt(call, n, s, p) \in Elements(call, n, "k", s)
      <4>1. n \in 0 .. Len(call.axes)
        OBVIOUS
      <4> QED BY <4>1, ReadsIn
    <3>5. K2[Down(call, n, s, "k", KeyAt(call, n, s, p))] = Phantom
      BY <1>2, <3>3, <3>4
    <3> QED BY <1>4, <3>1, <3>5
  <2> QED BY <2>1, <2>2
<1> QED BY <1>8, <1>9, <1>10, <1>11, <1>12, <1>13, <1>14 DEF Merging

-----------------------------------------------------------------------------
(* Without axes a query and the key head it reads are plain elements.      *)
LEMMA NoAxes ==
  ASSUME NEW c, NEW s
  PROVE  /\ Elements(c, 0, "q", s) = Elements(c, 0, "lse", s)
         /\ \A p \in Elements(c, 0, "lse", s) :
              /\ QueryAt(c, 0, p) = p
              /\ KeyAt(c, 0, s, p) = <<p[1], p[2], p[3] \div (s.hq \div s.hk)>>
<1>1. \A operand : Own(c, 0, operand) = {}
  BY DEF Own
<1>2. Points(c, 0, "q") = Points(c, 0, "lse")
  BY <1>1 DEF Points
<1>3. ASSUME NEW p \in Elements(c, 0, "lse", s)
      PROVE  Of(c, 0, "q", p[1]) = p[1] /\ Of(c, 0, "k", p[1]) = p[1] /\ p = <<p[1], p[2], p[3]>>
  <2>1. p[1] \in [{} -> Nat]
    <3>1. p[1] \in Points(c, 0, "lse")
      BY DEF Elements
    <3>2. Points(c, 0, "lse") \subseteq [{} -> Nat]
      BY <1>1 DEF Points
    <3> QED BY <3>1, <3>2
  <2>4. p = <<p[1], p[2], p[3]>>
    BY DEF Elements
  <2>2. p[1] = [i \in {} |-> p[1][i]]
    BY <2>1
  <2>3. Of(c, 0, "q", p[1]) = [i \in {} |-> p[1][i]] /\ Of(c, 0, "k", p[1]) = [i \in {} |-> p[1][i]]
    BY <1>1 DEF Of
  <2> QED BY <2>2, <2>3, <2>4
<1> QED BY <1>2, <1>3 DEF Elements, HeadsOf, QueryAt, KeyAt

(* What the query heads that read a key head are summed to.                *)
Gathered(Q, X, KeyOf, f) == {<<Q[e], X[e]>> : e \in {g \in DOMAIN Q : KeyOf[g] = f}}

(* The kernel gives each element of the call what it should read, and each *)
(* key head the elements that read it: what it makes of phantoms meets     *)
(* phantoms only.                                                          *)
LEMMA KernelStep ==
  ASSUME NEW c, NEW s, NEW at, NEW kat, NEW Q, NEW X, NEW K, Merging(c, 0, s, at, kat, Q, X, K),
         \A e \in Whole(c, "lse") : at[e] \in Elements(c, 0, "lse", s),
         \A f \in Whole(c, "k") : kat[f] \in Elements(c, 0, "k", s),
         \A e \in Whole(c, "lse") : Key(c, e) \in Whole(c, "k"),
         NEW KeyOf, \A p \in Elements(c, 0, "lse", s) : KeyOf[p] = KeyAt(c, 0, s, p),
         NEW O, DOMAIN O = DOMAIN Q, \A e \in DOMAIN Q : O[e] = <<Q[e], X[e], K[KeyOf[e]]>>,
         NEW D, DOMAIN D = DOMAIN K, \A f \in DOMAIN K : D[f] = Gathered(Q, X, KeyOf, f)
  PROVE  Splitting(c, 0, s, at, kat, O, D)
<1>. DEFINE W == Whole(c, "lse")
            V == Whole(c, "k")
            E == Elements(c, 0, "lse", s)
<1>1. /\ DOMAIN Q = Elements(c, 0, "q", s) /\ DOMAIN K = Elements(c, 0, "k", s)
      /\ \A e \in W : X[at[e]] = e
      /\ \A p \in E : X[p] = Phantom \/ (X[p] \in W /\ at[X[p]] = p)
      /\ \A f \in V : K[kat[f]] = f
      /\ \A e \in W : Q[QueryAt(c, 0, at[e])] = Query(c, e)
      /\ \A e \in W : KeyAt(c, 0, s, at[e]) = kat[Key(c, e)]
      /\ \A p \in E : X[p] = Phantom => K[KeyAt(c, 0, s, p)] = Phantom
  BY DEF Merging
<1>2. DOMAIN Q = E /\ \A p \in E : QueryAt(c, 0, p) = p
  BY <1>1, NoAxes
<1>3. \A f \in V : f # Phantom
  <2>1. \A f \in V : f[2] \in 0 .. c.n - 1
    BY DEF Whole, Elements, Original
  <2>2. Phantom[2] = -1
    BY DEF Phantom
  <2> QED BY <2>1, <2>2
<1>. HIDE DEF W, V, E
<1>4. ASSUME NEW e \in W
      PROVE  at[e] \in E /\ Q[at[e]] = Query(c, e) /\ X[at[e]] = e /\ KeyOf[at[e]] = kat[Key(c, e)]
  <2>1. at[e] \in E
    BY DEF W, E
  <2>2. KeyOf[at[e]] = KeyAt(c, 0, s, at[e])
    BY <2>1 DEF E
  <2> QED BY <1>1, <1>2, <2>1, <2>2
<1>5. ASSUME NEW e \in W PROVE O[at[e]] = <<Query(c, e), e, Key(c, e)>>
  <2>1. O[at[e]] = <<Q[at[e]], X[at[e]], K[KeyOf[at[e]]]>>
    BY <1>2, <1>4
  <2>2. Key(c, e) \in V
    BY DEF W, V
  <2> QED BY <1>1, <1>4, <2>1, <2>2
<1>6. ASSUME NEW f \in V PROVE D[kat[f]] = Readers(c, f)
  <2>. DEFINE R == {g \in DOMAIN Q : KeyOf[g] = kat[f]}
              S == {g \in W : Key(c, g) = f}
  <2>1. kat[f] \in DOMAIN K
    BY <1>1 DEF V
  <2>2. D[kat[f]] = {<<Q[e], X[e]>> : e \in R}
    BY <2>1 DEF Gathered
  <2>3. Readers(c, f) = {<<Query(c, e), e>> : e \in S}
    BY DEF Readers, W
  <2>4. ASSUME NEW g \in R PROVE \E e \in S : <<Q[g], X[g]>> = <<Query(c, e), e>>
    <3>1. g \in E /\ KeyOf[g] = kat[f] /\ K[kat[f]] = f /\ KeyOf[g] = KeyAt(c, 0, s, g)
      BY <1>1, <1>2, <2>4 DEF E
    <3>2. X[g] # Phantom
      BY <1>1, <1>3, <3>1
    <3>3. X[g] \in W /\ at[X[g]] = g
      BY <1>1, <3>1, <3>2
    <3>4. KeyOf[g] = kat[Key(c, X[g])] /\ Q[g] = Query(c, X[g])
      BY <1>4, <3>3
    <3>5. Key(c, X[g]) \in V
      BY <3>3 DEF W, V
    <3>6. Key(c, X[g]) = f
      BY <1>1, <3>1, <3>4, <3>5
    <3> QED BY <3>3, <3>4, <3>6
  <2>5. ASSUME NEW e \in S PROVE \E g \in R : <<Q[g], X[g]>> = <<Query(c, e), e>>
    <3>1. e \in W /\ Key(c, e) = f
      BY <2>5
    <3>2. at[e] \in R
      BY <1>2, <1>4, <3>1
    <3> QED BY <1>4, <3>1, <3>2
  <2>. HIDE DEF R, S
  <2>6. {<<Q[e], X[e]>> : e \in R} = {<<Query(c, e), e>> : e \in S}
    BY <2>4, <2>5
  <2> QED BY <2>2, <2>3, <2>6
<1>7. DOMAIN O = Elements(c, 0, "lse", s) /\ DOMAIN D = Elements(c, 0, "k", s)
  BY <1>1, <1>2 DEF E
<1> QED BY <1>5, <1>6, <1>7 DEF Splitting, W, V

-----------------------------------------------------------------------------
(* One rule on the way out reads what the rule on the way in wrote.        *)
From(a, m, s, e, h) ==
  LET xs == Without(e[1], m)  x == e[1][m] IN
  CASE a.kind \in {"all", "kv"} -> <<xs, SplitSeqs(s, x, e[2], a.size), e[3]>>
    [] a.kind = "q"             -> <<xs, e[2], e[3] * a.size + x>>
    [] a.kind = "lens"          -> <<xs, e[2], x * h + e[3]>>

(* Both ways to split the sequences are one where a factor is 1.           *)
LEMMA SplitsRight ==
  ASSUME Vmapped(call), NEW m \in 1 .. Len(call.axes), NEW s, s.n \in Nat \ {0},
         MhaBackward(call) => Thin(s, call.axes[m]), call.axes[m].kind \in {"all", "kv"},
         NEW x \in Nat, x < call.axes[m].size, NEW i \in 0 .. s.n - 1
  PROVE  SplitSeqs(s, x, i, call.axes[m].size) = x * (s.n + GapOf(call)) + i
<1>. DEFINE z == call.axes[m].size
<1>1. z \in Nat \ {0}
  BY KindIs
<1>2. Gap = GapOf(call)
  BY DEF Gap, GapOf
<1>3. CASE ~ MhaBackward(call)
  BY <1>2, <1>3 DEF SplitSeqs, SplitRight, MhaBackward
<1>4. CASE MhaBackward(call)
  <2>1. call.prim = "mha"
    BY <1>4 DEF MhaBackward
  <2>2. GapOf(call) = 0 /\ call.axes[m].kind = "all"
    BY <2>1 DEF GapOf, Vmapped, Kinds
  <2>3. s.n = 1 \/ z = 1
    BY <1>4, <2>2 DEF Thin
  <2>4. SplitSeqs(s, x, i, z) = i * z + x
    BY <1>4 DEF SplitSeqs, SplitSwapped, MhaBackward
  <2>5. CASE s.n = 1
    <3>1. i = 0
      BY <2>5
    <3> QED BY <1>1, <2>2, <2>4, <2>5, <3>1
  <2>6. CASE z = 1
    <3>1. x = 0
      BY <2>6
    <3>2. SplitSeqs(s, x, i, z) = i * 1 + 0
      BY <2>4, <2>6, <3>1
    <3>3. x * (s.n + GapOf(call)) + i = 0 * (s.n + 0) + i
      BY <2>2, <3>1
    <3> QED BY <3>2, <3>3
  <2> QED BY <2>3, <2>5, <2>6
<1> QED BY <1>3, <1>4

(* A rule on the way out reads where its element was put.                  *)
LEMMA FromIs ==
  ASSUME Vmapped(call), NEW m \in 1 .. Len(call.axes), NEW s, Sized(s),
         MhaBackward(call) => Thin(s, call.axes[m]),
         NEW operand \in {"lse", "k"}, NEW p \in Elements(call, m, operand, s),
         Maps(call.axes[m], operand)
  PROVE  From(call.axes[m], m, s, p, HeadsOf(operand, s)) = Down(call, m, s, operand, p)
<1>. DEFINE a == call.axes[m]
            x == p[1][m]
<1>1. a.kind \in {"all", "kv", "q", "lens"}
  BY KindIs
<1>2. s.n \in Nat \ {0}
  BY SizedNumbers
<1>3. p[1] \in Points(call, m, operand) /\ p[2] \in 0 .. s.n - 1
  BY DEF Elements
<1>4. x \in Nat /\ x < a.size
  BY <1>3, Taken
<1>5. CASE a.kind \in {"all", "kv"}
  <2>1. SplitSeqs(s, x, p[2], a.size) = x * (s.n + GapOf(call)) + p[2]
    <3>. HIDE DEF x
    <3> QED BY <1>2, <1>3, <1>4, <1>5, SplitsRight
  <2> QED BY <1>5, <2>1 DEF From, Down
<1>6. CASE a.kind = "q"
  <2>1. operand # "k"
    BY <1>6 DEF Maps
  <2> QED BY <1>6, <2>1 DEF From, Down
<1>7. CASE a.kind = "lens"
  BY <1>7 DEF From, Down
<1> QED BY <1>1, <1>5, <1>6, <1>7

(* One rule on the way out, for the positions b and d it restores.         *)
LEMMA SplitStep ==
  ASSUME Vmapped(call), NEW m \in 1 .. Len(call.axes), NEW s, Sized(s), NEW t,
         MhaBackward(call) => Thin(s, call.axes[m]),
         NEW at, NEW kat, NEW O, NEW D, Splitting(call, m - 1, t, at, kat, O, D),
         NEW b, \A e \in Whole(call, "lse") :
                  b[e] \in Elements(call, m, "lse", s) /\ at[e] = Down(call, m, s, "lse", b[e]),
         NEW d, \A f \in Whole(call, "k") :
                  d[f] \in Elements(call, m, "k", s) /\ kat[f] = Down(call, m, s, "k", d[f]),
         NEW O2, O2 = [e \in Elements(call, m, "lse", s) |-> O[From(call.axes[m], m, s, e, s.hq)]],
         NEW D2, D2 = [f \in Elements(call, m, "k", s) |->
                         IF Maps(call.axes[m], "k") THEN D[From(call.axes[m], m, s, f, s.hk)] ELSE D[f]]
  PROVE  Splitting(call, m, s, b, d, O2, D2)
<1>1. /\ \A e \in Whole(call, "lse") : O[at[e]] = <<Query(call, e), e, Key(call, e)>>
      /\ \A f \in Whole(call, "k") : D[kat[f]] = Readers(call, f)
  BY DEF Splitting
<1>2. ASSUME NEW e \in Whole(call, "lse") PROVE O2[b[e]] = <<Query(call, e), e, Key(call, e)>>
  <2>1. b[e] \in Elements(call, m, "lse", s) /\ at[e] = Down(call, m, s, "lse", b[e])
    OBVIOUS
  <2>2. Maps(call.axes[m], "lse") /\ HeadsOf("lse", s) = s.hq
    BY DEF Maps, HeadsOf
  <2>3. From(call.axes[m], m, s, b[e], s.hq) = at[e]
    BY <2>1, <2>2, FromIs
  <2> QED BY <1>1, <2>1, <2>3
<1>3. ASSUME NEW f \in Whole(call, "k") PROVE D2[d[f]] = Readers(call, f)
  <2>1. d[f] \in Elements(call, m, "k", s) /\ kat[f] = Down(call, m, s, "k", d[f])
    OBVIOUS
  <2>2. CASE Maps(call.axes[m], "k")
    <3>1. HeadsOf("k", s) = s.hk
      BY DEF HeadsOf
    <3>2. From(call.axes[m], m, s, d[f], s.hk) = kat[f]
      BY <2>1, <2>2, <3>1, FromIs
    <3> QED BY <1>1, <2>1, <2>2, <3>2
  <2>3. CASE ~ Maps(call.axes[m], "k")
    <3>1. Down(call, m, s, "k", d[f]) = d[f]
      <4>1. call.axes[m].kind = "q"
        BY <2>3 DEF Maps
      <4> QED BY <4>1 DEF Down
    <3> QED BY <1>1, <2>1, <2>3, <3>1
  <2> QED BY <2>2, <2>3
<1>4. DOMAIN O2 = Elements(call, m, "lse", s) /\ DOMAIN D2 = Elements(call, m, "k", s)
  OBVIOUS
<1> QED BY <1>2, <1>3, <1>4 DEF Splitting

-----------------------------------------------------------------------------
(* The key head an element of the call reads is one of the call.           *)
LEMMA KeyIn ==
  ASSUME NEW c, Vmapped(c)
  PROVE  \A e \in Whole(c, "lse") : Key(c, e) \in Whole(c, "k") /\ Query(c, e) \in Whole(c, "q")
<1>1. Sized(Original(c)) /\ Len(c.axes) \in 0 .. Len(c.axes)
  BY OriginalSized DEF Vmapped
<1> QED BY <1>1, ReadsIn DEF Whole, Key, Query

(* The initial shape, trails and arrays.                                   *)
LEMMA ShapesFirst ==
  ASSUME NEW c, Vmapped(c), NEW ss, ss = <<Original(c)>>
  PROVE  Shapes(c, ss) /\ Len(ss) = 1 /\ ss[1] = Original(c)
<1>1. Original(c) \in Shape /\ Sized(Original(c)) /\ Len(c.axes) \in Nat
  BY OriginalSized DEF Vmapped
<1>2. Len(ss) = 1 /\ ss[1] = Original(c)
  OBVIOUS
<1>3. ss \in Seq(Shape)
  BY <1>1
<1>4. \A j \in 1 .. Len(ss) : Sized(ss[j])
  <2>1. \A j \in 1 .. 1 : j = 1
    OBVIOUS
  <2> QED BY <1>1, <1>2, <2>1
<1>5. \A j \in 1 .. Len(ss) - 1 : FALSE
  BY <1>2
<1> QED BY <1>1, <1>2, <1>3, <1>4, <1>5 DEF Shapes

(* The trails of a call nothing has been merged of.                        *)
LEMMA TrailFirst ==
  ASSUME NEW c, Vmapped(c), NEW ss, Len(ss) = 1, ss[1] = Original(c), NEW operand,
         NEW at, \A e \in Whole(c, operand) : at[1][e] = e
  PROVE  Trail(c, ss, operand, at)
<1>1. Level(c, 1) = Len(c.axes)
  BY DEF Level, Vmapped
<1>2. ASSUME NEW j \in 1 .. Len(ss), NEW e \in Whole(c, operand)
      PROVE  at[j][e] \in Elements(c, Level(c, j), operand, ss[j])
  <2>1. j = 1 /\ at[1][e] = e
    OBVIOUS
  <2> QED BY <1>1, <2>1 DEF Whole
<1>3. \A j \in 1 .. Len(ss) - 1 : FALSE
  OBVIOUS
<1> QED BY <1>2, <1>3 DEF Trail

(* The operands of a call hold its own elements.                           *)
LEMMA MergingFirst ==
  ASSUME NEW c, Vmapped(c), NEW Q, NEW X, NEW K,
         Q = Identity(Whole(c, "q")), X = Identity(Whole(c, "lse")), K = Identity(Whole(c, "k")),
         NEW at, \A e \in Whole(c, "lse") : at[e] = e,
         NEW kat, \A f \in Whole(c, "k") : kat[f] = f
  PROVE  Merging(c, Len(c.axes), Original(c), at, kat, Q, X, K)
<1>1. \A e \in Whole(c, "lse") : Key(c, e) \in Whole(c, "k") /\ Query(c, e) \in Whole(c, "q")
  BY KeyIn
<1>2. \A p \in Whole(c, "lse") : p # Phantom
  <2>1. \A p \in Whole(c, "lse") : p[2] \in 0 .. c.n - 1
    BY DEF Whole, Elements, Original
  <2>2. Phantom[2] = -1
    BY DEF Phantom
  <2> QED BY <2>1, <2>2
<1>3. /\ DOMAIN Q = Whole(c, "q") /\ \A e \in Whole(c, "q") : Q[e] = e
      /\ DOMAIN X = Whole(c, "lse") /\ \A e \in Whole(c, "lse") : X[e] = e
      /\ DOMAIN K = Whole(c, "k") /\ \A e \in Whole(c, "k") : K[e] = e
  BY DEF Identity
<1> QED BY <1>1, <1>2, <1>3 DEF Merging, Whole, Key, Query

-----------------------------------------------------------------------------
(* The initial states.                                                     *)
LEMMA InitInv ==
  ASSUME \A c \in Calls : Narrow(c), Init
  PROVE  BatchingInv
<1>1. call \in Calls /\ axes = call.axes /\ phase = "batch" /\ shape = <<Original(call)>>
  BY DEF Init, Original
<1>2. Vmapped(call) /\ Narrow(call)
  BY <1>1, CallIs
<1>3. Shapes(call, shape) /\ Len(shape) = 1 /\ shape[1] = Original(call)
  BY <1>1, <1>2, ShapesFirst
<1>4. Level(call, Len(shape)) = Len(call.axes) /\ Len(axes) = Len(call.axes)
      /\ Top(shape) = Original(call)
  BY <1>1, <1>2, <1>3 DEF Level, Vmapped, Top
<1>5. First(call, axes, Len(call.axes)) /\ axes \in Seq(AxisOf(call))
  BY <1>1, <1>2, BatchingAssumption DEF First, Vmapped, AxisOf
<1>6. Numbers
  BY <1>1, <1>3, <1>4, <1>5 DEF Numbers
<1>7. Split(call, shape)
  BY <1>3 DEF Split
<1>8. Ahead(call, Len(axes), Top(shape))
  BY <1>2, <1>4, AheadAtFirst
<1>9. PICK at : at = [j \in 1 .. 1 |-> [e \in Whole(call, "lse") |-> e]]
  OBVIOUS
<1>10. PICK kat : kat = [j \in 1 .. 1 |-> [e \in Whole(call, "k") |-> e]]
  OBVIOUS
<1>11. /\ \A e \in Whole(call, "lse") : at[1][e] = e
       /\ \A f \in Whole(call, "k") : kat[1][f] = f
  BY <1>9, <1>10
<1>12. Trail(call, shape, "lse", at) /\ Trail(call, shape, "k", kat)
  BY <1>2, <1>3, <1>11, TrailFirst
<1>13. q = Identity(Whole(call, "q")) /\ lse = Identity(Whole(call, "lse"))
       /\ k = Identity(Whole(call, "k"))
  <2>1. \A operand : Domain(axes, operand, shape[1]) = Whole(call, operand)
    BY <1>2, <1>3, <1>5, DomainIs DEF Whole
  <2> QED BY <2>1 DEF Init
<1>14. Merging(call, Len(axes), Top(shape), at[Len(shape)], kat[Len(shape)], q, lse, k)
  <2>1. Merging(call, Len(call.axes), Original(call), at[1], kat[1], q, lse, k)
    BY <1>2, <1>11, <1>13, MergingFirst
  <2> QED BY <1>3, <1>4, <2>1
<1>15. Arrays(at, kat)
  BY <1>1, <1>12, <1>14 DEF Arrays
<1> QED BY <1>6, <1>7, <1>8, <1>15 DEF BatchingInv

-----------------------------------------------------------------------------
(* What the numbers say of the axes left.                                  *)
LEMMA AxesLeft ==
  ASSUME Numbers
  PROVE  /\ Vmapped(call) /\ Len(call.axes) \in Nat /\ Len(shape) \in 1 .. Len(call.axes) + 1
         /\ Len(axes) = Level(call, Len(shape)) /\ Len(axes) = Len(call.axes) - Len(shape) + 1
         /\ Len(axes) \in 0 .. Len(call.axes) /\ First(call, axes, Len(axes))
         /\ Top(shape) = shape[Len(shape)] /\ Sized(Top(shape))
<1>1. Vmapped(call) /\ Shapes(call, shape) /\ First(call, axes, Level(call, Len(shape)))
  BY CallIs DEF Numbers
<1>2. Len(call.axes) \in Nat /\ Len(shape) \in 1 .. Len(call.axes) + 1
  BY <1>1 DEF Vmapped, Shapes
<1>3. Len(axes) = Level(call, Len(shape)) /\ Len(axes) = Len(call.axes) - Len(shape) + 1
  BY <1>1 DEF First, Level
<1>4. Top(shape) = shape[Len(shape)] /\ Sized(Top(shape))
  BY <1>1, <1>2 DEF Shapes, Top
<1> QED BY <1>1, <1>2, <1>3, <1>4

(* The trails end in the arrays.                                           *)
LEMMA TrailsEnd ==
  ASSUME Numbers, NEW at, NEW kat, Trail(call, shape, "lse", at), Trail(call, shape, "k", kat)
  PROVE  /\ \A e \in Whole(call, "lse") : at[Len(shape)][e] \in Elements(call, Len(axes), "lse", Top(shape))
         /\ \A f \in Whole(call, "k") : kat[Len(shape)][f] \in Elements(call, Len(axes), "k", Top(shape))
<1>1. Len(shape) \in 1 .. Len(shape) /\ Len(axes) = Level(call, Len(shape))
      /\ Top(shape) = shape[Len(shape)]
  BY AxesLeft
<1> QED BY <1>1 DEF Trail

-----------------------------------------------------------------------------
(* One axis fewer: the axes left, and what they are of the call.           *)
LEMMA FirstShorter ==
  ASSUME NEW c, Len(c.axes) \in Nat, NEW n \in 1 .. Len(c.axes), NEW Axis, NEW left \in Seq(Axis),
         First(c, left, n),
         NEW bs, bs = SubSeq(left, 1, n - 1)
  PROVE  bs \in Seq(Axis) /\ First(c, bs, n - 1)
<1>1. Len(left) = n /\ \A j \in 1 .. n : left[j] = c.axes[j]
  BY DEF First
<1>2. 1 \in 1 .. Len(left) + 1 /\ n - 1 \in 0 .. Len(left)
  BY <1>1
<1>3. bs \in Seq(Axis) /\ Len(bs) = n - 1 /\ \A j \in 1 .. n - 1 : bs[j] = left[j]
  BY <1>1, <1>2, SubSeqProperties
<1>4. DOMAIN bs = 1 .. n - 1
  BY <1>3, LenProperties
<1>5. \A j \in 1 .. n - 1 : bs[j] = c.axes[j]
  BY <1>1, <1>3
<1>6. n - 1 \in 0 .. Len(c.axes)
  OBVIOUS
<1>7. First(c, bs, n - 1)
  BY <1>3, <1>4, <1>5, <1>6 DEF First
<1> QED BY <1>3, <1>7

(* One axis more.                                                          *)
LEMMA FirstLonger ==
  ASSUME NEW c, Len(c.axes) \in Nat, NEW n \in 1 .. Len(c.axes), NEW Axis, NEW left \in Seq(Axis),
         First(c, left, n - 1),
         NEW a \in Axis, a = c.axes[n], NEW bs, bs = Append(left, a)
  PROVE  bs \in Seq(Axis) /\ First(c, bs, n)
<1>1. Len(left) = n - 1 /\ \A j \in 1 .. n - 1 : left[j] = c.axes[j]
  BY DEF First
<1>2. bs \in Seq(Axis) /\ Len(bs) = Len(left) + 1 /\ bs[Len(left) + 1] = a
      /\ \A j \in 1 .. Len(left) : bs[j] = left[j]
  BY AppendProperties
<1>3. Len(bs) = n /\ bs[n] = a /\ \A j \in 1 .. n - 1 : bs[j] = left[j]
  BY <1>1, <1>2
<1>4. DOMAIN bs = 1 .. n
  BY <1>2, <1>3, LenProperties
<1>5. ASSUME NEW j \in 1 .. n PROVE bs[j] = c.axes[j]
  <2>1. CASE j = n
    BY <1>3, <2>1
  <2>2. CASE j # n
    <3>1. j \in 1 .. n - 1
      BY <2>2
    <3> QED BY <1>1, <1>3, <3>1
  <2> QED BY <2>1, <2>2
<1>6. n \in 0 .. Len(c.axes)
  OBVIOUS
<1>7. First(c, bs, n)
  BY <1>3, <1>4, <1>5, <1>6 DEF First
<1> QED BY <1>2, <1>7

(* What the rule reads and writes, in the terms of the lemmas above.       *)
LEMMA BatchDoes ==
  ASSUME Numbers, Batch,
         NEW n, n = Len(axes), NEW s, s = Top(shape), NEW a, a = call.axes[n],
         NEW t, t = Merged(a, s)
  PROVE  /\ n \in 1 .. Len(call.axes)
         /\ axes' \in Seq(AxisOf(call)) /\ First(call, axes', n - 1) /\ Len(axes') = n - 1
         /\ shape' = Append(shape, t)
         /\ q' = [e \in Elements(call, n - 1, "q", t) |-> OfQueries(a, q, "q", s, e)]
         /\ lse' = [e \in Elements(call, n - 1, "lse", t) |-> OfQueries(a, lse, "lse", s, e)]
         /\ k' = [e \in Elements(call, n - 1, "k", t) |-> OfKeys(a, k, s, e)]
         /\ call' = call /\ phase = "batch" /\ phase' = "batch"
<1>1. /\ Vmapped(call) /\ Len(call.axes) \in Nat /\ n \in 0 .. Len(call.axes)
         /\ First(call, axes, n)
  BY AxesLeft
<1>2. axes \in Seq(AxisOf(call)) /\ axes # <<>>
  BY DEF Numbers, Batch
<1>3. n # 0
  BY <1>2, EmptySeq
<1>4. n \in 1 .. Len(call.axes)
  BY <1>1, <1>3
<1>5. Top(axes) = a
  BY <1>1, <1>4 DEF Top, First
<1>. DEFINE as == SubSeq(axes, 1, Len(axes) - 1)
<1>6. as \in Seq(AxisOf(call)) /\ First(call, as, n - 1)
  BY <1>1, <1>2, <1>4, FirstShorter
<1>7. \A operand : Domain(as, operand, t) = Elements(call, n - 1, operand, t)
  BY <1>1, <1>6, DomainIs
<1>8. axes' = as /\ shape' = Append(shape, t) /\ call' = call /\ phase = "batch" /\ phase' = "batch"
  BY <1>5 DEF Batch
<1>9. /\ q' = [e \in Domain(as, "q", t) |-> OfQueries(a, q, "q", s, e)]
      /\ lse' = [e \in Domain(as, "lse", t) |-> OfQueries(a, lse, "lse", s, e)]
      /\ k' = [e \in Domain(as, "k", t) |-> OfKeys(a, k, s, e)]
  BY <1>5 DEF Batch, OfQueries, OfKeys
<1>. HIDE DEF as
<1>10. First(call, axes', n - 1) /\ Len(axes') = n - 1
  BY <1>6, <1>8 DEF First
<1> QED BY <1>4, <1>6, <1>7, <1>8, <1>9, <1>10

(* A rule on the way in keeps the invariant: the trails get longer.        *)
LEMMA BatchStep ==
  ASSUME \A c \in Calls : Narrow(c), BatchingInv, Batch
  PROVE  BatchingInv'
<1>1. PICK at, kat : Arrays(at, kat)
  BY DEF BatchingInv
<1>2. PICK n, m, s, a : n = Len(axes) /\ m = Len(shape) /\ s = Top(shape) /\ a = call.axes[n]
  OBVIOUS
<1>3. PICK t : t = Merged(a, s)
  OBVIOUS
<1>4. Numbers /\ Split(call, shape) /\ Ahead(call, n, s)
  BY <1>2 DEF BatchingInv, Batch
<1>5. /\ Vmapped(call) /\ Len(call.axes) \in Nat /\ m \in 1 .. Len(call.axes) + 1
      /\ n = Level(call, m) /\ n = Len(call.axes) - m + 1 /\ s = shape[m] /\ Sized(s)
  BY <1>2, <1>4, AxesLeft
<1>6. /\ n \in 1 .. Len(call.axes)
      /\ axes' \in Seq(AxisOf(call)) /\ First(call, axes', n - 1) /\ Len(axes') = n - 1
      /\ shape' = Append(shape, t)
      /\ q' = [e \in Elements(call, n - 1, "q", t) |-> OfQueries(a, q, "q", s, e)]
      /\ lse' = [e \in Elements(call, n - 1, "lse", t) |-> OfQueries(a, lse, "lse", s, e)]
      /\ k' = [e \in Elements(call, n - 1, "k", t) |-> OfKeys(a, k, s, e)]
      /\ call' = call /\ phase = "batch" /\ phase' = "batch"
  BY <1>2, <1>3, <1>4, BatchDoes
<1>7. m <= Len(call.axes) /\ Level(call, m + 1) = n - 1
  BY <1>5, <1>6 DEF Level
<1>8. Narrow(call) /\ Shapes(call, shape) /\ call \in Calls
  BY <1>4 DEF Numbers
<1>9. Grown(call, a, s, t) /\ t \in Shape
  <2>1. a.kind \in {"all", "kv", "q", "lens"} /\ a.size \in Nat \ {0}
    BY <1>2, <1>5, <1>6, KindIs
  <2>2. Grown(call, a, s, t)
    BY <1>3, <1>5, <2>1, MergedIs
  <2>3. s \in Shape
    BY <1>5 DEF Sized, Shape
  <2>4. t \in Shape
    <3>1. a.size \in Int /\ Slots(s, a.size) \in Int
      BY <2>1, <2>3 DEF Slots, Gap, Shape
    <3>2. s.hq * a.size \in Int /\ s.hk * a.size \in Int
      BY <2>3, <3>1 DEF Shape
    <3>3. s = [n |-> s.n, hq |-> s.hq, hk |-> s.hk] /\ s.n \in Int /\ s.hq \in Int /\ s.hk \in Int
      BY <2>3 DEF Shape
    <3>4. CASE a.kind \in {"all", "kv"}
      BY <1>3, <2>3, <3>1, <3>4 DEF Merged, Shape
    <3>5. CASE a.kind = "q"
      BY <1>3, <2>3, <3>2, <3>5 DEF Merged, Shape
    <3>6. CASE a.kind = "lens"
      BY <1>3, <2>3, <3>2, <3>6 DEF Merged, Shape
    <3> QED BY <2>1, <3>4, <3>5, <3>6
  <2> QED BY <2>2, <2>4
<1>10. /\ Shapes(call, shape') /\ Len(shape') = m + 1 /\ \A j \in 1 .. m : shape'[j] = shape[j]
       /\ shape'[m + 1] = t /\ Sized(t)
  <2>1. Grown(call, call.axes[Level(call, Len(shape))], shape[Len(shape)], t)
        /\ Len(shape) <= Len(call.axes)
    BY <1>2, <1>5, <1>7, <1>9
  <2>2. /\ Shapes(call, Append(shape, t)) /\ Len(Append(shape, t)) = Len(shape) + 1
        /\ \A j \in 1 .. Len(shape) : Append(shape, t)[j] = shape[j]
        /\ Append(shape, t)[Len(shape) + 1] = t /\ Sized(t)
    BY <1>5, <1>8, <1>9, <2>1, ShapesLonger
  <2> QED BY <1>2, <1>6, <2>2
<1>11. Top(shape)' = t /\ Len(axes)' = n - 1 /\ Len(shape)' = m + 1
  BY <1>6, <1>10 DEF Top
<1>12. Numbers'
  BY <1>6, <1>7, <1>8, <1>10 DEF Numbers
<1>13. Split(call, shape)'
  <2>1. MhaBackward(call) => Thin(s, a)
    BY <1>2, <1>4, <1>6 DEF Ahead
  <2>2. ASSUME MhaBackward(call), NEW j \in 1 .. m PROVE Thin(shape[j], call.axes[Level(call, j)])
    <3>1. CASE j = m
      BY <1>2, <1>5, <2>1, <2>2, <3>1
    <3>2. CASE j # m
      <4>1. j \in 1 .. m - 1
        BY <1>5, <3>2
      <4> QED BY <1>2, <1>4, <2>2, <4>1 DEF Split
    <3> QED BY <3>1, <3>2
  <2>3. Len(shape') - 1 = m
    BY <1>5, <1>10
  <2> QED BY <1>6, <1>10, <2>2, <2>3 DEF Split
<1>14. Ahead(call, n - 1, t)
  BY <1>2, <1>4, <1>5, <1>6, <1>8, <1>9, AheadStays
<1>15. PICK b : b = Longer(call, shape, "lse", at)
  OBVIOUS
<1>16. PICK d : d = Longer(call, shape, "k", kat)
  OBVIOUS
<1>17. Trail(call, shape, "lse", at) /\ Trail(call, shape, "k", kat)
  BY <1>1 DEF Arrays
<1>18. /\ Grown(call, call.axes[Level(call, Len(shape))], shape[Len(shape)], shape'[Len(shape) + 1])
       /\ Len(shape') = Len(shape) + 1 /\ \A j \in 1 .. Len(shape) : shape'[j] = shape[j]
       /\ Len(shape) <= Len(call.axes)
  BY <1>2, <1>5, <1>7, <1>9, <1>10
<1>19. /\ Trail(call, shape', "lse", b)
       /\ \A e \in Whole(call, "lse") : b[m + 1][e] = Down(call, n, s, "lse", at[m][e])
  <2>1. /\ Trail(call, shape', "lse", Longer(call, shape, "lse", at))
        /\ \A e \in Whole(call, "lse") :
             Longer(call, shape, "lse", at)[Len(shape) + 1][e]
               = Down(call, Level(call, Len(shape)), shape[Len(shape)], "lse", at[Len(shape)][e])
    BY <1>5, <1>8, <1>17, <1>18, TrailLonger
  <2> QED BY <1>2, <1>5, <1>15, <2>1
<1>20. /\ Trail(call, shape', "k", d)
       /\ \A f \in Whole(call, "k") : d[m + 1][f] = Down(call, n, s, "k", kat[m][f])
  <2>1. /\ Trail(call, shape', "k", Longer(call, shape, "k", kat))
        /\ \A e \in Whole(call, "k") :
             Longer(call, shape, "k", kat)[Len(shape) + 1][e]
               = Down(call, Level(call, Len(shape)), shape[Len(shape)], "k", kat[Len(shape)][e])
    BY <1>5, <1>8, <1>17, <1>18, TrailLonger
  <2> QED BY <1>2, <1>5, <1>16, <2>1
<1>21. Merging(call, n - 1, t, b[m + 1], d[m + 1], q', lse', k')
  <2>1. Merging(call, n, s, at[m], kat[m], q, lse, k)
    BY <1>1, <1>2, <1>6 DEF Arrays
  <2>2. /\ \A e \in Whole(call, "lse") : at[m][e] \in Elements(call, n, "lse", s)
        /\ \A f \in Whole(call, "k") : kat[m][f] \in Elements(call, n, "k", s)
    BY <1>2, <1>4, <1>17, TrailsEnd
  <2>3. \A e \in Whole(call, "lse") : Key(call, e) \in Whole(call, "k")
    BY <1>5, KeyIn
  <2>4. Grown(call, call.axes[n], s, t) /\ Len(axes) = n
    BY <1>2, <1>9
  <2>5. /\ q' = [e \in Elements(call, n - 1, "q", t) |-> OfQueries(call.axes[n], q, "q", s, e)]
        /\ lse' = [e \in Elements(call, n - 1, "lse", t) |->
           OfQueries(call.axes[n], lse, "lse", s, e)]
        /\ k' = [e \in Elements(call, n - 1, "k", t) |-> OfKeys(call.axes[n], k, s, e)]
    BY <1>2, <1>6
  <2>6. Vmapped(call) /\ n \in 1 .. Len(call.axes) /\ Sized(s) /\ Sized(t)
    BY <1>5, <1>6, <1>10
  <2>7. /\ \A e \in Whole(call, "lse") : b[m + 1][e] = Down(call, n, s, "lse", at[m][e])
        /\ \A f \in Whole(call, "k") : d[m + 1][f] = Down(call, n, s, "k", kat[m][f])
    BY <1>19, <1>20
  <2> QED BY <2>1, <2>2, <2>3, <2>4, <2>5, <2>6, <2>7, MergeStep
<1>22. Arrays(b, d)'
  <2>1. Trail(call', shape', "lse", b) /\ Trail(call', shape', "k", d)
    BY <1>6, <1>19, <1>20
  <2>2. Merging(call', Len(axes'), Top(shape'), b[Len(shape')], d[Len(shape')], q', lse', k')
    BY <1>6, <1>10, <1>11, <1>21
  <2>3. phase' = "batch"
    BY <1>6
  <2> QED BY <2>1, <2>2, <2>3 DEF Arrays
<1>23. Ahead(call', Len(axes'), Top(shape'))
  BY <1>6, <1>11, <1>14
<1> QED BY <1>12, <1>13, <1>22, <1>23 DEF BatchingInv

-----------------------------------------------------------------------------
(* What the kernel reads and writes.                                       *)
LEMMA KernelDoes ==
  ASSUME NEW s, s = Top(shape), DOMAIN q = Elements(call, 0, "lse", s), Kernel,
         NEW KeyOf, KeyOf = [p \in Elements(call, 0, "lse", s) |-> KeyAt(call, 0, s, p)]
  PROVE  /\ DOMAIN out' = DOMAIN q /\ \A e \in DOMAIN q : out'[e] = <<q[e], lse[e], k[KeyOf[e]]>>
         /\ DOMAIN dk' = DOMAIN k /\ \A f \in DOMAIN k : dk'[f] = Gathered(q, lse, KeyOf, f)
<1>. DEFINE Reads(e) == <<e[1], e[2], e[3] \div (s.hq \div s.hk)>>
<1>1. \A e \in DOMAIN q : KeyOf[e] = Reads(e)
  BY NoAxes
<1>2. /\ out' = [e \in DOMAIN q |-> <<q[e], lse[e], k[Reads(e)]>>]
      /\ dk' = [f \in DOMAIN k |-> {<<q[e], lse[e]>> : e \in {g \in DOMAIN q : Reads(g) = f}}]
  BY DEF Kernel
<1>. HIDE DEF Reads
<1>3. \A f : {g \in DOMAIN q : Reads(g) = f} = {g \in DOMAIN q : KeyOf[g] = f}
  BY <1>1
<1>4. ASSUME NEW f \in DOMAIN k PROVE dk'[f] = Gathered(q, lse, KeyOf, f)
  <2>1. dk'[f] = {<<q[e], lse[e]>> : e \in {g \in DOMAIN q : Reads(g) = f}}
    BY <1>2
  <2> QED BY <1>3, <2>1 DEF Gathered
<1> QED BY <1>1, <1>2, <1>4

(* The kernel leaves the trails and turns arrays into results.             *)
LEMMA KernelKeeps ==
  ASSUME BatchingInv, Kernel
  PROVE  BatchingInv'
<1>1. PICK at, kat : Arrays(at, kat)
  BY DEF BatchingInv
<1>2. PICK s, m : s = Top(shape) /\ m = Len(shape)
  OBVIOUS
<1>3. Numbers /\ Split(call, shape)
  BY DEF BatchingInv
<1>4. /\ phase = "batch" /\ axes = <<>> /\ phase' = "unbatch"
      /\ call' = call /\ axes' = axes /\ shape' = shape
  BY DEF Kernel
<1>5. Vmapped(call) /\ Len(axes) = 0
  BY <1>3, <1>4, AxesLeft
<1>6. Trail(call, shape, "lse", at) /\ Trail(call, shape, "k", kat)
      /\ Merging(call, 0, s, at[m], kat[m], q, lse, k)
  BY <1>1, <1>2, <1>4, <1>5 DEF Arrays
<1>7. /\ \A e \in Whole(call, "lse") : at[m][e] \in Elements(call, 0, "lse", s)
      /\ \A f \in Whole(call, "k") : kat[m][f] \in Elements(call, 0, "k", s)
  BY <1>2, <1>3, <1>5, <1>6, TrailsEnd
<1>8. \A e \in Whole(call, "lse") : Key(call, e) \in Whole(call, "k")
  BY <1>5, KeyIn
<1>9. DOMAIN q = Elements(call, 0, "lse", s)
  <2>1. DOMAIN q = Elements(call, 0, "q", s)
    BY <1>6 DEF Merging
  <2> QED BY <2>1, NoAxes
<1>10. PICK KeyOf : KeyOf = [p \in Elements(call, 0, "lse", s) |-> KeyAt(call, 0, s, p)]
  OBVIOUS
<1>11. /\ DOMAIN out' = DOMAIN q /\ \A e \in DOMAIN q : out'[e] = <<q[e], lse[e], k[KeyOf[e]]>>
       /\ DOMAIN dk' = DOMAIN k /\ \A f \in DOMAIN k : dk'[f] = Gathered(q, lse, KeyOf, f)
  BY <1>2, <1>9, <1>10, KernelDoes
<1>12. Splitting(call, 0, s, at[m], kat[m], out', dk')
  <2>1. \A p \in Elements(call, 0, "lse", s) : KeyOf[p] = KeyAt(call, 0, s, p)
    BY <1>10
  <2>2. Merging(call, 0, s, at[m], kat[m], q, lse, k)
    BY <1>6
  <2> QED BY <1>7, <1>8, <1>11, <2>1, <2>2, KernelStep
<1>13. Numbers'
  BY <1>3, <1>4 DEF Numbers
<1>14. Top(shape') = s /\ Len(shape') = m /\ Len(axes') = 0
  BY <1>2, <1>4, <1>5
<1>15. Arrays(at, kat)'
  <2>1. Trail(call', shape', "lse", at) /\ Trail(call', shape', "k", kat)
    BY <1>4, <1>6
  <2>2. Splitting(call', Len(axes'), Top(shape'), at[Len(shape')], kat[Len(shape')], out', dk')
    BY <1>4, <1>12, <1>14
  <2> QED BY <1>4, <2>1, <2>2 DEF Arrays
<1>16. Split(call', shape')
  BY <1>3, <1>4
<1> QED BY <1>4, <1>13, <1>15, <1>16 DEF BatchingInv

-----------------------------------------------------------------------------
(* What a rule on the way out reads and writes.                            *)
LEMMA UnbatchDoes ==
  ASSUME Numbers, Unbatch, NEW m, m = Len(shape), NEW n, n = Len(axes) + 1, NEW s, s = shape[m - 1]
  PROVE  /\ m \in 2 .. Len(call.axes) + 1 /\ n \in 1 .. Len(call.axes) /\ n = Level(call, m - 1)
         /\ axes' \in Seq(AxisOf(call)) /\ First(call, axes', n) /\ Len(axes') = n
         /\ shape' = SubSeq(shape, 1, m - 1)
         /\ out' = [e \in Elements(call, n, "lse", s) |-> out[From(call.axes[n], n, s, e, s.hq)]]
         /\ dk' = [f \in Elements(call, n, "k", s) |->
                     IF Maps(call.axes[n], "k") THEN dk[From(call.axes[n], n, s, f, s.hk)] ELSE dk[f]]
         /\ call' = call /\ phase = "unbatch" /\ phase' = "unbatch"
<1>1. /\ Vmapped(call) /\ Len(call.axes) \in Nat /\ m \in 1 .. Len(call.axes) + 1
      /\ Len(axes) = Len(call.axes) - m + 1 /\ First(call, axes, n - 1)
  BY AxesLeft
<1>2. m > 1
  BY DEF Unbatch
<1>3. m \in 2 .. Len(call.axes) + 1 /\ n \in 1 .. Len(call.axes) /\ n = Level(call, m - 1)
  BY <1>1, <1>2 DEF Level
<1>4. axes \in Seq(AxisOf(call)) /\ call \in Calls
  BY DEF Numbers
<1>5. call.axes[n] \in AxisOf(call)
  <2>1. call.axes \in Seq(AxisOf(call))
    BY <1>4, BatchingAssumption DEF AxisOf
  <2> QED BY <1>3, <2>1, ElementOfSeq
<1>6. PICK left : left = Append(axes, call.axes[n])
  OBVIOUS
<1>7. left \in Seq(AxisOf(call)) /\ First(call, left, n)
  BY <1>1, <1>3, <1>4, <1>5, <1>6, FirstLonger
<1>8. Len(left) = n
  BY <1>7 DEF First
<1>9. ASSUME NEW operand PROVE Domain(left, operand, s) = Elements(call, n, operand, s)
  <2>1. Vmapped(call) /\ First(call, left, n)
    BY <1>1, <1>7
  <2> QED BY <2>1, DomainIs
<1>10. axes' = left /\ shape' = SubSeq(shape, 1, m - 1) /\ call' = call /\ phase = "unbatch"
       /\ phase' = "unbatch"
  BY <1>6 DEF Unbatch
<1>11. /\ out' = [e \in Domain(left, "lse", s) |-> out[From(call.axes[n], n, s, e, s.hq)]]
       /\ dk' = [f \in Domain(left, "k", s) |->
                   IF Maps(call.axes[n], "k") THEN dk[From(call.axes[n], n, s, f, s.hk)] ELSE dk[f]]
  BY <1>6, <1>8 DEF Unbatch, From
<1> QED BY <1>3, <1>7, <1>8, <1>9, <1>10, <1>11

(* A rule on the way out keeps the invariant: the trails get shorter.      *)
LEMMA UnbatchKeeps ==
  ASSUME BatchingInv, Unbatch
  PROVE  BatchingInv'
<1>1. PICK at, kat : Arrays(at, kat)
  BY DEF BatchingInv
<1>2. PICK m, n : m = Len(shape) /\ n = Len(axes) + 1
  OBVIOUS
<1>3. PICK s : s = shape[m - 1]
  OBVIOUS
<1>4. Numbers /\ Split(call, shape)
  BY DEF BatchingInv
<1>5. /\ m \in 2 .. Len(call.axes) + 1 /\ n \in 1 .. Len(call.axes) /\ n = Level(call, m - 1)
      /\ axes' \in Seq(AxisOf(call)) /\ First(call, axes', n) /\ Len(axes') = n
      /\ shape' = SubSeq(shape, 1, m - 1)
      /\ out' = [e \in Elements(call, n, "lse", s) |-> out[From(call.axes[n], n, s, e, s.hq)]]
      /\ dk' = [f \in Elements(call, n, "k", s) |->
                  IF Maps(call.axes[n], "k") THEN dk[From(call.axes[n], n, s, f, s.hk)] ELSE dk[f]]
      /\ call' = call /\ phase = "unbatch" /\ phase' = "unbatch"
  BY <1>2, <1>3, <1>4, UnbatchDoes
<1>6. Vmapped(call) /\ Len(call.axes) \in Nat /\ Shapes(call, shape) /\ call \in Calls
      /\ Len(axes) = n - 1 /\ Len(axes) \in Nat
  BY <1>2, <1>4, AxesLeft DEF Numbers
<1>7. Shapes(call, shape') /\ Len(shape') = m - 1 /\ \A j \in 1 .. m - 1 : shape'[j] = shape[j]
  BY <1>2, <1>5, <1>6, ShapesShorter
<1>8. Top(shape') = s /\ Sized(s) /\ m - 1 \in 1 .. Len(shape) - 1 /\ m - 1 \in 1 .. Len(shape)
      /\ (m - 1) + 1 = m
  BY <1>2, <1>3, <1>5, <1>6, <1>7 DEF Top, Shapes
<1>9. Numbers'
  BY <1>5, <1>6, <1>7 DEF Numbers
<1>10. Split(call, shape')
  <2>1. \A j \in 1 .. Len(shape') - 1 : j \in 1 .. Len(shape) - 1 /\ shape'[j] = shape[j]
    BY <1>2, <1>5, <1>7
  <2> QED BY <1>4, <2>1 DEF Split
<1>11. /\ Trail(call, shape, "lse", at) /\ Trail(call, shape, "k", kat)
       /\ Splitting(call, n - 1, Top(shape), at[m], kat[m], out, dk)
  BY <1>1, <1>2, <1>5, <1>6 DEF Arrays
<1>12. Trail(call, shape', "lse", at) /\ Trail(call, shape', "k", kat)
  <2>1. Len(shape) \in Nat /\ Len(shape') = Len(shape) - 1
        /\ \A j \in 1 .. Len(shape') : shape'[j] = shape[j]
    BY <1>2, <1>5, <1>7
  <2> QED BY <1>11, <2>1, TrailShorter
<1>13. ASSUME NEW e \in Whole(call, "lse")
       PROVE  at[m - 1][e] \in Elements(call, n, "lse", s)
              /\ at[m][e] = Down(call, n, s, "lse", at[m - 1][e])
  BY <1>3, <1>5, <1>8, <1>11 DEF Trail
<1>14. ASSUME NEW f \in Whole(call, "k")
       PROVE  kat[m - 1][f] \in Elements(call, n, "k", s)
              /\ kat[m][f] = Down(call, n, s, "k", kat[m - 1][f])
  BY <1>3, <1>5, <1>8, <1>11 DEF Trail
<1>15. MhaBackward(call) => Thin(s, call.axes[n])
  BY <1>3, <1>4, <1>5, <1>8 DEF Split
<1>16. Splitting(call, n, s, at[m - 1], kat[m - 1], out', dk')
  <2>1. n \in 1 .. Len(call.axes) /\ Vmapped(call) /\ Sized(s)
    BY <1>5, <1>6, <1>8
  <2>2. /\ out' = [e \in Elements(call, n, "lse", s) |-> out[From(call.axes[n], n, s, e, s.hq)]]
        /\ dk' = [f \in Elements(call, n, "k", s) |->
                    IF Maps(call.axes[n], "k") THEN dk[From(call.axes[n], n, s, f, s.hk)] ELSE dk[f]]
    BY <1>5
  <2>3. Splitting(call, n - 1, Top(shape), at[m], kat[m], out, dk)
    BY <1>11
  <2> QED BY <1>13, <1>14, <1>15, <2>1, <2>2, <2>3, SplitStep
<1>17. Arrays(at, kat)'
  <2>1. Trail(call', shape', "lse", at) /\ Trail(call', shape', "k", kat)
    BY <1>5, <1>12
  <2>2. Splitting(call', Len(axes'), Top(shape'), at[Len(shape')], kat[Len(shape')], out', dk')
    BY <1>5, <1>7, <1>8, <1>16
  <2> QED BY <1>5, <2>1, <2>2 DEF Arrays
<1>18. Split(call', shape')
  BY <1>5, <1>10
<1> QED BY <1>5, <1>9, <1>17, <1>18 DEF BatchingInv

(* The last return, and a step that changes nothing.                       *)
LEMMA OthersKeep ==
  ASSUME BatchingInv, Return \/ UNCHANGED vars
  PROVE  BatchingInv'
<1>1. PICK at, kat : Arrays(at, kat)
  BY DEF BatchingInv
<1>2. /\ call' = call /\ axes' = axes /\ shape' = shape /\ q' = q /\ lse' = lse /\ k' = k
         /\ out' = out /\ dk' = dk
      /\ phase' = phase \/ (phase = "unbatch" /\ phase' = "done" /\ Len(shape) = 1)
  BY DEF Return, vars
<1>3. Numbers'
  BY <1>2 DEF BatchingInv, Numbers
<1>4. Split(call', shape') /\ (phase' = "batch" => Ahead(call', Len(axes'), Top(shape')))
  BY <1>2 DEF BatchingInv
<1>5. Arrays(at, kat)'
  <2>1. Trail(call', shape', "lse", at) /\ Trail(call', shape', "k", kat)
    BY <1>1, <1>2 DEF Arrays
  <2>2. phase' = "batch" =>
          Merging(call', Len(axes'), Top(shape'), at[Len(shape')], kat[Len(shape')], q', lse', k')
    BY <1>1, <1>2 DEF Arrays
  <2>3. phase' # "batch" =>
          Splitting(call', Len(axes'), Top(shape'), at[Len(shape')], kat[Len(shape')], out', dk')
    BY <1>1, <1>2 DEF Arrays
  <2> QED BY <2>1, <2>2, <2>3 DEF Arrays
<1> QED BY <1>3, <1>4, <1>5 DEF BatchingInv

-----------------------------------------------------------------------------
(* The invariant holds of every execution, whatever the nesting of the vmaps. *)
THEOREM BatchingInvariant ==
  ASSUME \A c \in Calls : Narrow(c)
  PROVE  Spec => []BatchingInv
<1>1. Init => BatchingInv
  BY InitInv
<1>2. BatchingInv /\ [Next]_vars => BatchingInv'
  <2>. SUFFICES ASSUME BatchingInv, [Next]_vars PROVE BatchingInv'
    OBVIOUS
  <2>1. CASE Batch
    BY <2>1, BatchStep
  <2>2. CASE Kernel
    BY <2>2, KernelKeeps
  <2>3. CASE Unbatch
    BY <2>3, UnbatchKeeps
  <2>4. CASE Return \/ UNCHANGED vars
    BY <2>4, OthersKeep
  <2> QED BY <2>1, <2>2, <2>3, <2>4 DEF Next
<1> QED BY <1>1, <1>2, PTL DEF Spec

(* Back at the call's own shape the trails are where they began.           *)
LEMMA Returned ==
  ASSUME BatchingInv, phase = "done"
  PROVE  /\ Vmapped(call) /\ First(call, axes, Len(call.axes))
         /\ Splitting(call, Len(call.axes), Original(call),
                      [e \in Whole(call, "lse") |-> e], [f \in Whole(call, "k") |-> f], out, dk)
<1>1. PICK at, kat : Arrays(at, kat)
  BY DEF BatchingInv
<1>2. Numbers /\ Len(shape) = 1
  BY DEF BatchingInv, Numbers
<1>3. Vmapped(call) /\ Len(axes) = Len(call.axes) /\ First(call, axes, Len(call.axes))
      /\ Top(shape) = shape[1]
  BY <1>2, AxesLeft
<1>4. Top(shape) = Original(call)
  BY <1>2, <1>3 DEF Numbers, Shapes
<1>5. /\ Trail(call, shape, "lse", at) /\ Trail(call, shape, "k", kat)
      /\ Splitting(call, Len(call.axes), Original(call), at[1], kat[1], out, dk)
  BY <1>1, <1>2, <1>3, <1>4 DEF Arrays
<1>6. (\A e \in Whole(call, "lse") : at[1][e] = e) /\ (\A f \in Whole(call, "k") : kat[1][f] = f)
  BY <1>5 DEF Trail
<1>7. Splitting(call, Len(call.axes), Original(call),
                [e \in Whole(call, "lse") |-> e], [f \in Whole(call, "k") |-> f], out, dk)
  BY <1>5, <1>6 DEF Splitting
<1> QED BY <1>3, <1>7

(* What a query reads of its own is what the call says it should read.     *)
LEMMA OwnIs ==
  ASSUME Vmapped(call), First(call, axes, Len(call.axes)), NEW e
  PROVE  OwnQuery(e) = Query(call, e) /\ OwnKey(e) = Key(call, e)
<1>1. \A operand : IndexOf(axes, operand, e[1]) = Of(call, Len(call.axes), operand, e[1])
  BY IndicesAre DEF IndexOf, Of
<1>2. Original(call).hq \div Original(call).hk = call.ratio
  <2>1. call.hk \in Nat \ {0} /\ call.ratio \in Nat \ {0}
    BY DEF Vmapped
  <2>2. (call.ratio * call.hk) \div call.hk = call.ratio
        /\ call.hk * call.ratio = call.ratio * call.hk
    BY <2>1, RatioIs, Times
  <2> QED BY <2>2 DEF Original
<1> QED BY <1>1, <1>2 DEF OwnQuery, OwnKey, Query, Key, QueryAt, KeyAt

(* The results of a call that has returned,                                *)
LEMMA ApartHolds ==
  ASSUME BatchingInv
  PROVE  ExamplesApart
<1>. SUFFICES ASSUME phase = "done", NEW e \in DOMAIN out
              PROVE  out[e] = <<OwnQuery(e), e, OwnKey(e)>>
  BY DEF ExamplesApart
<1>1. Vmapped(call) /\ First(call, axes, Len(call.axes))
  BY Returned
<1>2. DOMAIN out = Whole(call, "lse")
      /\ \A g \in Whole(call, "lse") : out[g] = <<Query(call, g), g, Key(call, g)>>
  BY Returned DEF Splitting, Whole
<1> QED BY <1>1, <1>2, OwnIs

(* and its gradients.                                                      *)
LEMMA SummedHolds ==
  ASSUME BatchingInv
  PROVE  KeysSummed
<1>. SUFFICES ASSUME phase = "done", NEW f \in DOMAIN dk
              PROVE  dk[f] = {<<OwnQuery(e), e>> : e \in {g \in DOMAIN out : f = OwnKey(g)}}
  BY DEF KeysSummed
<1>1. Vmapped(call) /\ First(call, axes, Len(call.axes))
  BY Returned
<1>2. DOMAIN out = Whole(call, "lse") /\ dk[f] = Readers(call, f)
  BY Returned DEF Splitting, Whole
<1>3. \A e : OwnQuery(e) = Query(call, e) /\ OwnKey(e) = Key(call, e)
  BY <1>1, OwnIs
<1> QED BY <1>2, <1>3 DEF Readers

(* Every query head of every example gets what its own query gives with the *)
(* keys of its example, or with those shared (mha_fwd_batch, mha_bwd_batch, *)
(* _flash_mha_varlen_fwd_batch, _flash_mha_varlen_bwd_batch).              *)
THEOREM ExamplesStayApart ==
  ASSUME \A c \in Calls : Narrow(c)
  PROVE  Spec => []ExamplesApart
<1>1. BatchingInv => ExamplesApart
  BY ApartHolds
<1>2. Spec => []BatchingInv
  BY BatchingInvariant
<1> QED BY <1>1, <1>2, PTL

(* The gradient of a key head sums the queries that read it, of all examples *)
(* that share the keys, and no other.                                      *)
THEOREM KeyGradientsSummed ==
  ASSUME \A c \in Calls : Narrow(c)
  PROVE  Spec => []KeysSummed
<1>1. BatchingInv => KeysSummed
  BY SummedHolds
<1>2. Spec => []BatchingInv
  BY BatchingInvariant
<1> QED BY <1>1, <1>2, PTL
=============================================================================
