--------------------------- MODULE HostCallProofs ---------------------------
(***************************************************************************)
(* For every call and device: the host invariants of HostCall.  Both       *)
(* passes are lowered from the same call, a device's part of it (Mine), so *)
(* that what one implementation has read and accepted the other reads      *)
(* too.  HostInv says, of every pass, that its frame is the one lowered,   *)
(* its parameters are a function of the call and the device, and its       *)
(* kernels can be launched; the properties follow from it.  The tables of  *)
(* KernelTraits come first: they suit every device with the 99 KB of       *)
(* shared memory per block that compute capability 8.6 and 8.9 have, the   *)
(* least of those the host accepts.                                        *)
(***************************************************************************)
EXTENDS HostCall, FiniteSetTheorems, SequenceTheorems, WellFoundedInduction, TLAPS

-----------------------------------------------------------------------------
(* The tables of kernel instances suit every device the host accepts.      *)

(* The forward kernel chosen for a head dimension fits the device that it  *)
(* is chosen for, its tensors lie within the memory it asks for, and its   *)
(* threads and warps cover a tile evenly (run_mha_fwd_hdim32 .. 256).      *)
THEOREM ForwardSuits ==
  ASSUME NEW gpu \in Device, Enough(gpu), NEW dim \in HeadDims, NEW causal \in BOOLEAN
  PROVE  LET t == FwdTraits(dim, gpu, causal)
         IN  FwdSmem(t) <= gpu.smem_block /\ FwdFits(t) /\ FwdTiled(t)
<1>. DEFINE t == FwdTraits(dim, gpu, causal)
<1>1. gpu.smem_block \in Nat /\ gpu.smem_sm \in Nat /\ gpu.smem_block >= 101376
  BY DEF Device, Enough
<1>. USE <1>1 DEF FwdTraits, FwdShape, FwdSmem, FwdFits, FwdTop, FwdOut, FwdTiled, RowsPerCopy, SmemCols
<1>2. CASE dim \in {32, 64}  BY <1>2
<1>3. CASE dim = 96          BY <1>3 DEF Fwd96
<1>4. CASE dim = 128         BY <1>4 DEF Fwd128
<1>5. CASE dim = 192         BY <1>5
<1>6. CASE dim = 256         BY <1>6 DEF Fwd256
<1> QED BY <1>2, <1>3, <1>4, <1>5, <1>6 DEF HeadDims

(* The split kernel, whose staging of the output in float is larger, fits  *)
(* every device as well (run_mha_fwd_splitkv_dispatch).                    *)
THEOREM SplitSuits ==
  ASSUME NEW gpu \in Device, Enough(gpu), NEW dim \in HeadDims
  PROVE  LET t == SplitTraits(dim)
         IN  FwdSmem(t) <= gpu.smem_block /\ SplitFits(t) /\ FwdTiled(t)
<1>1. gpu.smem_block \in Nat /\ gpu.smem_block >= 101376
  BY DEF Device, Enough
<1> QED
  BY <1>1 DEF HeadDims, SplitTraits, FwdShape, FwdSmem, SplitFits, SplitOut, FwdFits, FwdTop, FwdOut,
              FwdTiled, RowsPerCopy, SmemCols

(* A backward kernel fits a device with so many bytes of shared memory,    *)
(* keeps its tensors within what it asks for, and covers its tiles.        *)
BwdSuits(t, bytes) ==
  BwdSmem(t) <= bytes /\ ConvertSmem(t) <= bytes /\ BwdFits(t) /\ BwdTiled(t)

(* Every instance of the backward kernel suits the least device that the   *)
(* tests of flash_bwd_launch_template.h choose it for.                     *)
LEMMA BackwardShapesSuit ==
  ASSUME NEW b \in Nat
  PROVE
    /\ b >= 99 * 1024 => BwdSuits(BwdShape(32, 128, 128, 4, 4, 4, 1, 2), b)
    /\ b >= 144 * 1024 => BwdSuits(BwdShape(64, 128, 128, 4, 4, 4, 2, 2), b)
    /\ b >= 99 * 1024 => BwdSuits(BwdShape(64, 64, 128, 2, 4, 4, 1, 2), b)
    /\ b >= 99 * 1024 => BwdSuits(BwdShape(96, 64, 128, 2, 4, 4, 1, 2), b)
    /\ b >= 144 * 1024 => BwdSuits(BwdShape(128, 64, 128, 2, 4, 2, 2, 2), b)
    /\ b >= 99 * 1024 => BwdSuits(BwdShape(128, 64, 64, 4, 2, 2, 1, 2), b)
    /\ b >= 136 * 1024 => BwdSuits(BwdShape(192, 64, 64, 4, 2, 2, 2, 2), b)
    /\ b >= 99 * 1024 => BwdSuits(BwdShape(192, 64, 64, 4, 2, 2, 1, 1), b)
    /\ b >= 176 * 1024 => BwdSuits(BwdShape(256, 64, 64, 4, 2, 2, 2, 2), b)
    /\ b >= 144 * 1024 => BwdSuits(BwdShape(256, 64, 64, 4, 2, 2, 2, 1), b)
    /\ b >= 99 * 1024 => BwdSuits(BwdShape(256, 64, 32, 4, 1, 2, 1, 1), b)
<1>1. b >= 99 * 1024 => BwdSuits(BwdShape(32, 128, 128, 4, 4, 4, 1, 2), b)
  BY DEF BwdShape, BwdSuits, BwdSmem, ConvertSmem, Larger, BwdFits, BwdTop, BwdLoad, BwdOut,
         BwdKeys, BwdDS, BwdTiled, RowsPerCopy, SmemCols
<1>2. b >= 144 * 1024 => BwdSuits(BwdShape(64, 128, 128, 4, 4, 4, 2, 2), b)
  BY DEF BwdShape, BwdSuits, BwdSmem, ConvertSmem, Larger, BwdFits, BwdTop, BwdLoad, BwdOut,
         BwdKeys, BwdDS, BwdTiled, RowsPerCopy, SmemCols
<1>3. b >= 99 * 1024 => BwdSuits(BwdShape(64, 64, 128, 2, 4, 4, 1, 2), b)
  BY DEF BwdShape, BwdSuits, BwdSmem, ConvertSmem, Larger, BwdFits, BwdTop, BwdLoad, BwdOut,
         BwdKeys, BwdDS, BwdTiled, RowsPerCopy, SmemCols
<1>4. b >= 99 * 1024 => BwdSuits(BwdShape(96, 64, 128, 2, 4, 4, 1, 2), b)
  BY DEF BwdShape, BwdSuits, BwdSmem, ConvertSmem, Larger, BwdFits, BwdTop, BwdLoad, BwdOut,
         BwdKeys, BwdDS, BwdTiled, RowsPerCopy, SmemCols
<1>5. b >= 144 * 1024 => BwdSuits(BwdShape(128, 64, 128, 2, 4, 2, 2, 2), b)
  BY DEF BwdShape, BwdSuits, BwdSmem, ConvertSmem, Larger, BwdFits, BwdTop, BwdLoad, BwdOut,
         BwdKeys, BwdDS, BwdTiled, RowsPerCopy, SmemCols
<1>6. b >= 99 * 1024 => BwdSuits(BwdShape(128, 64, 64, 4, 2, 2, 1, 2), b)
  BY DEF BwdShape, BwdSuits, BwdSmem, ConvertSmem, Larger, BwdFits, BwdTop, BwdLoad, BwdOut,
         BwdKeys, BwdDS, BwdTiled, RowsPerCopy, SmemCols
<1>7. b >= 136 * 1024 => BwdSuits(BwdShape(192, 64, 64, 4, 2, 2, 2, 2), b)
  BY DEF BwdShape, BwdSuits, BwdSmem, ConvertSmem, Larger, BwdFits, BwdTop, BwdLoad, BwdOut,
         BwdKeys, BwdDS, BwdTiled, RowsPerCopy, SmemCols
<1>8. b >= 99 * 1024 => BwdSuits(BwdShape(192, 64, 64, 4, 2, 2, 1, 1), b)
  BY DEF BwdShape, BwdSuits, BwdSmem, ConvertSmem, Larger, BwdFits, BwdTop, BwdLoad, BwdOut,
         BwdKeys, BwdDS, BwdTiled, RowsPerCopy, SmemCols
<1>9. b >= 176 * 1024 => BwdSuits(BwdShape(256, 64, 64, 4, 2, 2, 2, 2), b)
  BY DEF BwdShape, BwdSuits, BwdSmem, ConvertSmem, Larger, BwdFits, BwdTop, BwdLoad, BwdOut,
         BwdKeys, BwdDS, BwdTiled, RowsPerCopy, SmemCols
<1>10. b >= 144 * 1024 => BwdSuits(BwdShape(256, 64, 64, 4, 2, 2, 2, 1), b)
  BY DEF BwdShape, BwdSuits, BwdSmem, ConvertSmem, Larger, BwdFits, BwdTop, BwdLoad, BwdOut,
         BwdKeys, BwdDS, BwdTiled, RowsPerCopy, SmemCols
<1>11. b >= 99 * 1024 => BwdSuits(BwdShape(256, 64, 32, 4, 1, 2, 1, 1), b)
  BY DEF BwdShape, BwdSuits, BwdSmem, ConvertSmem, Larger, BwdFits, BwdTop, BwdLoad, BwdOut,
         BwdKeys, BwdDS, BwdTiled, RowsPerCopy, SmemCols
<1> QED BY <1>1, <1>2, <1>3, <1>4, <1>5, <1>6, <1>7, <1>8, <1>9, <1>10, <1>11

(* The backward kernel of every head dimension fits the device it is       *)
(* chosen for: S, dS and the staged dK and dV, wherever the variant puts   *)
(* them, lie within the memory asked for, dQ within what its conversion    *)
(* asks for, and the three products cover their tiles                      *)
(* (run_mha_bwd_hdim32 .. 256, Flash_bwd_kernel_traits).                   *)
THEOREM BackwardSuits ==
  ASSUME NEW gpu \in Device, Enough(gpu), NEW dim \in HeadDims
  PROVE  BwdSuits(BwdTraits(dim, gpu), gpu.smem_block)
<1>1. gpu.smem_block \in Nat /\ gpu.smem_block >= 99 * 1024
  BY DEF Device, Enough
<1>2. CASE dim = 32
  BY <1>1, <1>2, BackwardShapesSuit DEF BwdTraits
<1>3. CASE dim = 64
  BY <1>1, <1>3, BackwardShapesSuit DEF BwdTraits, Bwd64
<1>4. CASE dim = 96
  BY <1>1, <1>4, BackwardShapesSuit DEF BwdTraits
<1>5. CASE dim = 128
  BY <1>1, <1>5, BackwardShapesSuit DEF BwdTraits, Bwd128
<1>6. CASE dim = 192
  BY <1>1, <1>6, BackwardShapesSuit DEF BwdTraits, Bwd192
<1>7. CASE dim = 256
  BY <1>1, <1>7, BackwardShapesSuit DEF BwdTraits, Bwd256
<1> QED BY <1>2, <1>3, <1>4, <1>5, <1>6, <1>7 DEF HeadDims

(* Query tiles divide the 128 rows to which the caller rounds the scratch  *)
(* arrays of the backward ("128 is the max block size on the seqlen_q      *)
(* dimension"): what FlashBwd assumes of kBlockM and Rounding.             *)
THEOREM QueryTilesDivideRounding ==
  ASSUME NEW gpu \in Device, NEW dim \in HeadDims
  PROVE  LET m == BwdTraits(dim, gpu).m IN m \in 1 .. 128 /\ 128 % m = 0
<1>1. gpu.smem_block \in Nat
  BY DEF Device
<1> QED BY <1>1 DEF HeadDims, BwdTraits, BwdShape, Bwd64, Bwd128, Bwd192, Bwd256

(* The kernel of a head dimension is the next larger one.                  *)
LEMMA HeadDimIs ==
  ASSUME NEW d \in 1 .. 256
  PROVE  /\ HeadDim(d) \in HeadDims /\ d <= HeadDim(d)
         /\ \A y \in HeadDims : d <= y => HeadDim(d) <= y
<1>. DEFINE P(x) == d <= x /\ \A y \in HeadDims : d <= y => x <= y
<1>1. \E x \in HeadDims : P(x)
  <2>1. CASE d <= 32             BY <2>1 DEF HeadDims
  <2>2. CASE 32 < d /\ d <= 64   BY <2>2 DEF HeadDims
  <2>3. CASE 64 < d /\ d <= 96   BY <2>3 DEF HeadDims
  <2>4. CASE 96 < d /\ d <= 128  BY <2>4 DEF HeadDims
  <2>5. CASE 128 < d /\ d <= 192 BY <2>5 DEF HeadDims
  <2>6. CASE 192 < d             BY <2>6 DEF HeadDims
  <2> QED BY <2>1, <2>2, <2>3, <2>4, <2>5, <2>6
<1>2. HeadDim(d) \in HeadDims /\ P(HeadDim(d))
  <2>. HIDE DEF HeadDims
  <2> QED BY <1>1, Zenon DEF HeadDim
<1> QED BY <1>2

(* One of the sizes of a tile of queries and a tile of keys divides the    *)
(* other in every instance of the forward and the split kernel. Nothing    *)
(* asserts it, but n_masking_steps counts the tiles across the diagonal of *)
(* a causal mask from the sizes alone.                                     *)
THEOREM ForwardTilesDivide ==
  ASSUME NEW dim \in HeadDims, NEW gpu, NEW causal \in BOOLEAN, NEW t,
         t = FwdTraits(dim, gpu, causal) \/ t = SplitTraits(dim)
  PROVE  t.m % t.n = 0 \/ t.n % t.m = 0
<1>1. <<t.m, t.n>> \in ({64, 128} \X {32, 64, 128}) \cup {<<64, 256>>}
  BY DEF HeadDims, FwdTraits, SplitTraits, FwdShape, Fwd96, Fwd128, Fwd256
<1>2. t.m \in {64, 128} /\ t.n \in {32, 64, 128, 256}
  BY <1>1
<1> QED BY <1>2

(* The number of key tiles the host plans splits for, and Python sizes the *)
(* scratch for, is that of the split kernel: "this needs to match with     *)
(* run_mha_fwd_splitkv_dispatch".                                          *)
THEOREM HostKnowsSplitTile ==
  ASSUME NEW d \in 1 .. 256
  PROVE  HostBlockN(d) = SplitTraits(HeadDim(d)).n
<1>. DEFINE e == HeadDim(d)
<1>1. e \in HeadDims /\ d <= e /\ \A y \in HeadDims : d <= y => e <= y
  BY HeadDimIs
<1>2. (d <= 64 <=> e <= 64) /\ (d <= 128 <=> e <= 128)
  BY <1>1 DEF HeadDims
<1>. HIDE DEF e
<1>3. SplitTraits(e).n = IF e <= 64 THEN 256 ELSE IF e <= 128 THEN 128 ELSE 64
  BY DEF SplitTraits, FwdShape
<1>4. HostBlockN(d) = SplitTraits(e).n
  BY <1>2, <1>3 DEF HostBlockN
<1> QED BY <1>4 DEF e

-----------------------------------------------------------------------------
(* Least elements, recursion, and the elements of a buffer.                *)

(* The order of the numbers, as a relation.                                *)
LessThan == OpToRel(<, Nat)
(* A nonempty set of numbers has a least element.                          *)
LEMMA LeastOf ==
  ASSUME NEW T \in SUBSET Nat, NEW m \in T
  PROVE  \E x \in T : \A y \in T : x <= y
<1>1. IsWellFoundedOn(LessThan, Nat)
  BY NatLessThanWellFounded, Zenon DEF LessThan
<1>2. \A x, y \in Nat : <<x, y>> \in LessThan <=> x < y
  BY DEF LessThan, OpToRel
<1>. HIDE DEF LessThan
<1>3. PICK x \in T : \A y \in T : ~ (<<y, x>> \in LessThan)
  BY <1>1, WFMin, Zenon
<1>4. ASSUME NEW y \in T PROVE x <= y
  <2>1. x \in Nat /\ y \in Nat /\ ~ (<<y, x>> \in LessThan)
    BY <1>3
  <2>2. ~ (y < x)
    BY <1>2, <2>1
  <2> QED BY <2>1, <2>2
<1> QED BY <1>4

(* A function may be defined by recursion over 0 .. K.                     *)
StepsIn(S, F, K) == \A i \in 1 .. K, x \in S : F[i][x] \in S
Recurses(S, b, F, K) ==
  \E g \in [0 .. K -> S] : g[0] = b /\ \A i \in 1 .. K : g[i] = F[i][g[i - 1]]

(* So it does define a function: look at the least argument where it       *)
(* would not.                                                              *)
LEMMA Recursion ==
  ASSUME NEW S, NEW b \in S, NEW F, NEW K \in Nat, StepsIn(S, F, K)
  PROVE  Recurses(S, b, F, K)
<1>. USE DEF StepsIn, Recurses
<1>. DEFINE Defined(n) ==
       \E g \in [0 .. n -> S] : g[0] = b /\ \A i \in 1 .. n : g[i] = F[i][g[i - 1]]
<1>. SUFFICES ASSUME ~ Defined(K) PROVE FALSE
  OBVIOUS
<1>. DEFINE T == {n \in 0 .. K : ~ Defined(n)}
<1>1. PICK n \in T : \A m \in T : n <= m
  <2>1. K \in T /\ T \in SUBSET Nat
    OBVIOUS
  <2>. HIDE DEF T
  <2> QED BY <2>1, LeastOf
<1>2. CASE n = 0
  <2>1. [i \in 0 .. 0 |-> b] \in [0 .. 0 -> S]
    OBVIOUS
  <2>2. Defined(0)
    <3>. DEFINE g == [i \in 0 .. 0 |-> b]
    <3>1. g[0] = b /\ \A i \in 1 .. 0 : g[i] = F[i][g[i - 1]]
      OBVIOUS
    <3>. HIDE DEF g
    <3> QED BY <2>1, <3>1 DEF g
  <2> QED BY <1>1, <1>2, <2>2
<1>3. CASE n > 0
  <2>1. n - 1 \in 0 .. K /\ n - 1 \notin T /\ n \in 1 .. K
    <3>1. n \in 0 .. K
      OBVIOUS
    <3>. HIDE DEF T
    <3>2. n - 1 \in 0 .. K /\ n \in 1 .. K
      BY <1>3, <3>1
    <3>3. ~ (n <= n - 1)
      BY <3>1
    <3> QED BY <1>1, <3>2, <3>3
  <2>2. PICK g \in [0 .. n - 1 -> S] :
          g[0] = b /\ \A i \in 1 .. n - 1 : g[i] = F[i][g[i - 1]]
    BY <2>1
  <2>. DEFINE h == [i \in 0 .. n |-> IF i < n THEN g[i] ELSE F[n][g[n - 1]]]
  <2>3. h \in [0 .. n -> S]
    BY <2>1, <2>2
  <2>4. h[0] = b
    BY <2>1, <2>2
  <2>5. ASSUME NEW i \in 1 .. n PROVE h[i] = F[i][h[i - 1]]
    BY <2>1, <2>2
  <2>6. Defined(n)
    <3>. HIDE DEF h
    <3> QED BY <2>3, <2>4, <2>5
  <2> QED BY <1>1, <2>6
<1> QED BY <1>1, <1>2, <1>3

(* The element count of a buffer is the product of its dimensions.         *)
Unfolds(buf, K) ==
  \E n : /\ Elements(buf) = n[K] /\ n[0] = 1
         /\ \A i \in 1 .. K : n[i] = n[i - 1] * buf.dims[i]

(* The element count of a buffer, as a recursion.                          *)
LEMMA ElementsUnfold ==
  ASSUME NEW buf, buf.dims \in Seq(Nat)
  PROVE  Unfolds(buf, Len(buf.dims))
<1>. DEFINE K      == Len(buf.dims)
            Step(n) == [i \in 0 .. K |-> IF i = 0 THEN 1 ELSE n[i - 1] * buf.dims[i]]
            n      == CHOOSE f : f = Step(f)
            F      == [i \in 1 .. K |-> [x \in Nat |-> x * buf.dims[i]]]
<1>1. K \in Nat /\ \A i \in 1 .. K : buf.dims[i] \in Nat
  OBVIOUS
<1>2. \A i \in 1 .. K, x \in Nat : F[i][x] = x * buf.dims[i] /\ F[i][x] \in Nat
  <2>1. \A i \in 1 .. K, x \in Nat : F[i][x] = x * buf.dims[i]
    BY Zenon
  <2>2. \A i \in 1 .. K, x \in Nat : x * buf.dims[i] \in Nat
    BY <1>1
  <2>. HIDE DEF F, K
  <2> QED BY <2>1, <2>2
<1>3. PICK g \in [0 .. K -> Nat] : g[0] = 1 /\ \A i \in 1 .. K : g[i] = F[i][g[i - 1]]
  <2>. HIDE DEF F, K
  <2>1. 1 \in Nat /\ K \in Nat /\ \A i \in 1 .. K, x \in Nat : F[i][x] \in Nat
    BY <1>1, <1>2
  <2>2. StepsIn(Nat, F, K)
    BY <2>1 DEF StepsIn
  <2>3. Recurses(Nat, 1, F, K)
    BY <2>1, <2>2, Recursion
  <2> QED BY <2>3 DEF Recurses
<1>4. g = Step(g)
  <2>. HIDE DEF F, K
  <2>1. ASSUME NEW i \in 1 .. K PROVE g[i] = g[i - 1] * buf.dims[i]
    <3>1. i - 1 \in 0 .. K
      BY <1>1
    <3>2. g[i - 1] \in Nat
      BY <1>3, <3>1
    <3>3. F[i][g[i - 1]] = g[i - 1] * buf.dims[i]
      BY <1>2, <3>2, Zenon
    <3> QED BY <1>3, <3>3
  <2>2. \A i \in 0 .. K : g[i] = IF i = 0 THEN 1 ELSE g[i - 1] * buf.dims[i]
    BY <1>1, <1>3, <2>1
  <2> QED BY <1>1, <1>3, <2>2
<1>5. n = Step(n)
  <2>. HIDE DEF Step
  <2> QED BY <1>4
<1>6. Elements(buf) = n[K]
  BY DEF Elements
<1>. HIDE DEF n, K
<1>7. n[0] = 1 /\ \A i \in 1 .. K : n[i] = n[i - 1] * buf.dims[i]
  BY <1>1, <1>5
<1> QED BY <1>6, <1>7 DEF K, Unfolds

(* The elements of an array of three dimensions are their product.         *)
LEMMA Elements3 ==
  ASSUME NEW buf, buf.dims \in Seq(Nat), Len(buf.dims) = 3
  PROVE  Elements(buf) = buf.dims[1] * buf.dims[2] * buf.dims[3]
<1>1. buf.dims[1] \in Nat /\ buf.dims[2] \in Nat /\ buf.dims[3] \in Nat
  OBVIOUS
<1>2. PICK n : /\ Elements(buf) = n[3] /\ n[0] = 1
               /\ \A i \in 1 .. 3 : n[i] = n[i - 1] * buf.dims[i]
  <2>1. Unfolds(buf, Len(buf.dims))
    BY ElementsUnfold
  <2> QED BY <2>1 DEF Unfolds
<1>3. n[1] = n[0] * buf.dims[1] /\ n[2] = n[1] * buf.dims[2] /\ n[3] = n[2] * buf.dims[3]
  BY <1>2
<1> QED BY <1>1, <1>2, <1>3

(* The same of four dimensions.                                            *)
LEMMA Elements4 ==
  ASSUME NEW buf, buf.dims \in Seq(Nat), Len(buf.dims) = 4
  PROVE  Elements(buf) = buf.dims[1] * buf.dims[2] * buf.dims[3] * buf.dims[4]
<1>1. buf.dims[1] \in Nat /\ buf.dims[2] \in Nat /\ buf.dims[3] \in Nat /\ buf.dims[4] \in Nat
  OBVIOUS
<1>2. PICK n : /\ Elements(buf) = n[4] /\ n[0] = 1
               /\ \A i \in 1 .. 4 : n[i] = n[i - 1] * buf.dims[i]
  <2>1. Unfolds(buf, Len(buf.dims))
    BY ElementsUnfold
  <2> QED BY <2>1 DEF Unfolds
<1>3. n[1] = n[0] * buf.dims[1] /\ n[2] = n[1] * buf.dims[2] /\ n[3] = n[2] * buf.dims[3] /\ n[4] = n[3] * buf.dims[4]
  BY <1>2
<1> QED BY <1>1, <1>2, <1>3

(* The same of five.                                                       *)
LEMMA Elements5 ==
  ASSUME NEW buf, buf.dims \in Seq(Nat), Len(buf.dims) = 5
  PROVE  Elements(buf) = buf.dims[1] * buf.dims[2] * buf.dims[3] * buf.dims[4] * buf.dims[5]
<1>1. buf.dims[1] \in Nat /\ buf.dims[2] \in Nat /\ buf.dims[3] \in Nat /\ buf.dims[4] \in Nat /\ buf.dims[5] \in Nat
  OBVIOUS
<1>2. PICK n : /\ Elements(buf) = n[5] /\ n[0] = 1
               /\ \A i \in 1 .. 5 : n[i] = n[i - 1] * buf.dims[i]
  <2>1. Unfolds(buf, Len(buf.dims))
    BY ElementsUnfold
  <2> QED BY <2>1 DEF Unfolds
<1>3. n[1] = n[0] * buf.dims[1] /\ n[2] = n[1] * buf.dims[2] /\ n[3] = n[2] * buf.dims[3] /\ n[4] = n[3] * buf.dims[4] /\ n[5] = n[4] * buf.dims[5]
  BY <1>2
<1> QED BY <1>1, <1>2, <1>3

-----------------------------------------------------------------------------
(* How a handler finds its attributes: sorted by name.                     *)

(* The place of an attribute among all names.                              *)
LEMMA Ranks ==
  /\ Rank("deterministic") = 1
  /\ Rank("is_causal") = 2
  /\ Rank("max_seqlen_k") = 3
  /\ Rank("max_seqlen_q") = 4
  /\ Rank("softmax_scale") = 5
  /\ Rank("window_size_left") = 6
  /\ Rank("window_size_right") = 7
  /\ Rank("zero_tensors") = 8
<1>1. Rank("deterministic") = 1
  BY DEF Rank, AttrOrder
<1>2. Rank("is_causal") = 2
  BY DEF Rank, AttrOrder
<1>3. Rank("max_seqlen_k") = 3
  BY DEF Rank, AttrOrder
<1>4. Rank("max_seqlen_q") = 4
  BY DEF Rank, AttrOrder
<1>5. Rank("softmax_scale") = 5
  BY DEF Rank, AttrOrder
<1>6. Rank("window_size_left") = 6
  BY DEF Rank, AttrOrder
<1>7. Rank("window_size_right") = 7
  BY DEF Rank, AttrOrder
<1>8. Rank("zero_tensors") = 8
  BY DEF Rank, AttrOrder
<1> QED BY <1>1, <1>2, <1>3, <1>4, <1>5, <1>6, <1>7, <1>8

(* The attributes of a handler before the i-th, by name.                   *)
Below(h, i) == {j \in DOMAIN h.attrs : Rank(h.attrs[j].name) < Rank(h.attrs[i].name)}
InPlace(h, i, n) == IsFiniteSet(Below(h, i)) /\ AttrIdx(h, i) = n

(* The attribute with no name below its own comes first.                   *)
LEMMA FirstAttr ==
  ASSUME NEW h, NEW i, Below(h, i) = {}
  PROVE  InPlace(h, i, 1)
BY FS_EmptySet DEF InPlace, Below, AttrIdx

(* The one with just one more name below it comes next.                    *)
LEMMA NextAttr ==
  ASSUME NEW h, NEW i, NEW j, NEW n \in Nat, InPlace(h, i, n),
         i \notin Below(h, i), Below(h, j) = Below(h, i) \cup {i}
  PROVE  InPlace(h, j, n + 1)
<1>1. Cardinality(Below(h, i)) \in Nat /\ n = 1 + Cardinality(Below(h, i))
  BY FS_CardinalityType DEF InPlace, Below, AttrIdx
<1>2. IsFiniteSet(Below(h, j)) /\ Cardinality(Below(h, j)) = Cardinality(Below(h, i)) + 1
  BY FS_AddElement DEF InPlace
<1>3. AttrIdx(h, j) = 1 + Cardinality(Below(h, j))
  BY DEF AttrIdx, Below
<1> QED BY <1>1, <1>2, <1>3 DEF InPlace

(* Where each attribute of the batched forward handler is looked up.       *)
LEMMA MhaFwdAttrs ==
  /\ Len(MhaFwd.attrs) = 4 /\ DOMAIN MhaFwd.attrs = 1 .. 4
  /\ MhaFwd.attrs[1] = Bound("softmax_scale", "F64") /\ AttrIdx(MhaFwd, 1) = 2
  /\ MhaFwd.attrs[2] = Bound("is_causal", "PRED") /\ AttrIdx(MhaFwd, 2) = 1
  /\ MhaFwd.attrs[3] = Bound("window_size_left", "S64") /\ AttrIdx(MhaFwd, 3) = 3
  /\ MhaFwd.attrs[4] = Bound("window_size_right", "S64") /\ AttrIdx(MhaFwd, 4) = 4
<1>. DEFINE a == MhaFwd.attrs
<1>1. Len(a) = 4 /\ DOMAIN a = 1 .. 4
      /\ a[1] = Bound("softmax_scale", "F64")
      /\ a[2] = Bound("is_causal", "PRED")
      /\ a[3] = Bound("window_size_left", "S64")
      /\ a[4] = Bound("window_size_right", "S64")
  BY DEF MhaFwd, Window
<1>. HIDE DEF a
<1>2. Rank(a[1].name) = 5 /\ Rank(a[2].name) = 2 /\ Rank(a[3].name) = 6 /\ Rank(a[4].name) = 7
  BY <1>1, Ranks DEF Bound
<1>3. \A i \in 1 .. 4 : Below(MhaFwd, i) = {j \in 1 .. 4 : Rank(a[j].name) < Rank(a[i].name)}
  BY <1>1 DEF Below, a
<1>4. Below(MhaFwd, 2) = {}
  BY <1>2, <1>3
<1>5. Below(MhaFwd, 1) = {2}
  BY <1>2, <1>3
<1>6. Below(MhaFwd, 3) = {2, 1}
  BY <1>2, <1>3
<1>7. Below(MhaFwd, 4) = {2, 1, 3}
  BY <1>2, <1>3
<1>8. InPlace(MhaFwd, 2, 1)
  BY <1>4, FirstAttr
<1>9. InPlace(MhaFwd, 1, 2)
  BY <1>8, <1>4, <1>5, NextAttr
<1>10. InPlace(MhaFwd, 3, 3)
  BY <1>9, <1>5, <1>6, NextAttr
<1>11. InPlace(MhaFwd, 4, 4)
  BY <1>10, <1>6, <1>7, NextAttr
<1> QED BY <1>1, <1>8, <1>9, <1>10, <1>11 DEF a, InPlace

(* The same of the batched backward handler.                               *)
LEMMA MhaBwdAttrs ==
  /\ Len(MhaBwd.attrs) = 5 /\ DOMAIN MhaBwd.attrs = 1 .. 5
  /\ MhaBwd.attrs[1] = Bound("softmax_scale", "F64") /\ AttrIdx(MhaBwd, 1) = 3
  /\ MhaBwd.attrs[2] = Bound("is_causal", "PRED") /\ AttrIdx(MhaBwd, 2) = 2
  /\ MhaBwd.attrs[3] = Bound("window_size_left", "S64") /\ AttrIdx(MhaBwd, 3) = 4
  /\ MhaBwd.attrs[4] = Bound("window_size_right", "S64") /\ AttrIdx(MhaBwd, 4) = 5
  /\ MhaBwd.attrs[5] = Bound("deterministic", "PRED") /\ AttrIdx(MhaBwd, 5) = 1
<1>. DEFINE a == MhaBwd.attrs
<1>1. Len(a) = 5 /\ DOMAIN a = 1 .. 5
      /\ a[1] = Bound("softmax_scale", "F64")
      /\ a[2] = Bound("is_causal", "PRED")
      /\ a[3] = Bound("window_size_left", "S64")
      /\ a[4] = Bound("window_size_right", "S64")
      /\ a[5] = Bound("deterministic", "PRED")
  BY DEF MhaBwd, Window
<1>. HIDE DEF a
<1>2. Rank(a[1].name) = 5 /\ Rank(a[2].name) = 2 /\ Rank(a[3].name) = 6 /\ Rank(a[4].name) = 7 /\ Rank(a[5].name) = 1
  BY <1>1, Ranks DEF Bound
<1>3. \A i \in 1 .. 5 : Below(MhaBwd, i) = {j \in 1 .. 5 : Rank(a[j].name) < Rank(a[i].name)}
  BY <1>1 DEF Below, a
<1>4. Below(MhaBwd, 5) = {}
  BY <1>2, <1>3
<1>5. Below(MhaBwd, 2) = {5}
  BY <1>2, <1>3
<1>6. Below(MhaBwd, 1) = {5, 2}
  BY <1>2, <1>3
<1>7. Below(MhaBwd, 3) = {5, 2, 1}
  BY <1>2, <1>3
<1>8. Below(MhaBwd, 4) = {5, 2, 1, 3}
  BY <1>2, <1>3
<1>9. InPlace(MhaBwd, 5, 1)
  BY <1>4, FirstAttr
<1>10. InPlace(MhaBwd, 2, 2)
  BY <1>9, <1>4, <1>5, NextAttr
<1>11. InPlace(MhaBwd, 1, 3)
  BY <1>10, <1>5, <1>6, NextAttr
<1>12. InPlace(MhaBwd, 3, 4)
  BY <1>11, <1>6, <1>7, NextAttr
<1>13. InPlace(MhaBwd, 4, 5)
  BY <1>12, <1>7, <1>8, NextAttr
<1> QED BY <1>1, <1>9, <1>10, <1>11, <1>12, <1>13 DEF a, InPlace

(* The same of the varlen forward handler.                                 *)
LEMMA MhaVarlenFwdAttrs ==
  /\ Len(MhaVarlenFwd.attrs) = 7 /\ DOMAIN MhaVarlenFwd.attrs = 1 .. 7
  /\ MhaVarlenFwd.attrs[1] = Bound("max_seqlen_q", "S32") /\ AttrIdx(MhaVarlenFwd, 1) = 3
  /\ MhaVarlenFwd.attrs[2] = Bound("max_seqlen_k", "S32") /\ AttrIdx(MhaVarlenFwd, 2) = 2
  /\ MhaVarlenFwd.attrs[3] = Bound("softmax_scale", "F64") /\ AttrIdx(MhaVarlenFwd, 3) = 4
  /\ MhaVarlenFwd.attrs[4] = Bound("zero_tensors", "PRED") /\ AttrIdx(MhaVarlenFwd, 4) = 7
  /\ MhaVarlenFwd.attrs[5] = Bound("is_causal", "PRED") /\ AttrIdx(MhaVarlenFwd, 5) = 1
  /\ MhaVarlenFwd.attrs[6] = Bound("window_size_left", "S64") /\ AttrIdx(MhaVarlenFwd, 6) = 5
  /\ MhaVarlenFwd.attrs[7] = Bound("window_size_right", "S64") /\ AttrIdx(MhaVarlenFwd, 7) = 6
<1>. DEFINE a == MhaVarlenFwd.attrs
<1>1. Len(a) = 7 /\ DOMAIN a = 1 .. 7
      /\ a[1] = Bound("max_seqlen_q", "S32")
      /\ a[2] = Bound("max_seqlen_k", "S32")
      /\ a[3] = Bound("softmax_scale", "F64")
      /\ a[4] = Bound("zero_tensors", "PRED")
      /\ a[5] = Bound("is_causal", "PRED")
      /\ a[6] = Bound("window_size_left", "S64")
      /\ a[7] = Bound("window_size_right", "S64")
  BY DEF MhaVarlenFwd, Window
<1>. HIDE DEF a
<1>2. Rank(a[1].name) = 4 /\ Rank(a[2].name) = 3 /\ Rank(a[3].name) = 5 /\ Rank(a[4].name) = 8 /\ Rank(a[5].name) = 2 /\ Rank(a[6].name) = 6 /\ Rank(a[7].name) = 7
  BY <1>1, Ranks DEF Bound
<1>3. \A i \in 1 .. 7 : Below(MhaVarlenFwd, i) = {j \in 1 .. 7 : Rank(a[j].name) < Rank(a[i].name)}
  BY <1>1 DEF Below, a
<1>4. Below(MhaVarlenFwd, 5) = {}
  BY <1>2, <1>3
<1>5. Below(MhaVarlenFwd, 2) = {5}
  BY <1>2, <1>3
<1>6. Below(MhaVarlenFwd, 1) = {5, 2}
  BY <1>2, <1>3
<1>7. Below(MhaVarlenFwd, 3) = {5, 2, 1}
  BY <1>2, <1>3
<1>8. Below(MhaVarlenFwd, 6) = {5, 2, 1, 3}
  BY <1>2, <1>3
<1>9. Below(MhaVarlenFwd, 7) = {5, 2, 1, 3, 6}
  BY <1>2, <1>3
<1>10. Below(MhaVarlenFwd, 4) = {5, 2, 1, 3, 6, 7}
  BY <1>2, <1>3
<1>11. InPlace(MhaVarlenFwd, 5, 1)
  BY <1>4, FirstAttr
<1>12. InPlace(MhaVarlenFwd, 2, 2)
  BY <1>11, <1>4, <1>5, NextAttr
<1>13. InPlace(MhaVarlenFwd, 1, 3)
  BY <1>12, <1>5, <1>6, NextAttr
<1>14. InPlace(MhaVarlenFwd, 3, 4)
  BY <1>13, <1>6, <1>7, NextAttr
<1>15. InPlace(MhaVarlenFwd, 6, 5)
  BY <1>14, <1>7, <1>8, NextAttr
<1>16. InPlace(MhaVarlenFwd, 7, 6)
  BY <1>15, <1>8, <1>9, NextAttr
<1>17. InPlace(MhaVarlenFwd, 4, 7)
  BY <1>16, <1>9, <1>10, NextAttr
<1> QED BY <1>1, <1>11, <1>12, <1>13, <1>14, <1>15, <1>16, <1>17 DEF a, InPlace

(* The same of the varlen backward handler.                                *)
LEMMA MhaVarlenBwdAttrs ==
  /\ Len(MhaVarlenBwd.attrs) = 8 /\ DOMAIN MhaVarlenBwd.attrs = 1 .. 8
  /\ MhaVarlenBwd.attrs[1] = Bound("max_seqlen_q", "S64") /\ AttrIdx(MhaVarlenBwd, 1) = 4
  /\ MhaVarlenBwd.attrs[2] = Bound("max_seqlen_k", "S64") /\ AttrIdx(MhaVarlenBwd, 2) = 3
  /\ MhaVarlenBwd.attrs[3] = Bound("softmax_scale", "F32") /\ AttrIdx(MhaVarlenBwd, 3) = 5
  /\ MhaVarlenBwd.attrs[4] = Bound("zero_tensors", "PRED") /\ AttrIdx(MhaVarlenBwd, 4) = 8
  /\ MhaVarlenBwd.attrs[5] = Bound("is_causal", "PRED") /\ AttrIdx(MhaVarlenBwd, 5) = 2
  /\ MhaVarlenBwd.attrs[6] = Bound("window_size_left", "S64") /\ AttrIdx(MhaVarlenBwd, 6) = 6
  /\ MhaVarlenBwd.attrs[7] = Bound("window_size_right", "S64") /\ AttrIdx(MhaVarlenBwd, 7) = 7
  /\ MhaVarlenBwd.attrs[8] = Bound("deterministic", "PRED") /\ AttrIdx(MhaVarlenBwd, 8) = 1
<1>. DEFINE a == MhaVarlenBwd.attrs
<1>1. Len(a) = 8 /\ DOMAIN a = 1 .. 8
      /\ a[1] = Bound("max_seqlen_q", "S64")
      /\ a[2] = Bound("max_seqlen_k", "S64")
      /\ a[3] = Bound("softmax_scale", "F32")
      /\ a[4] = Bound("zero_tensors", "PRED")
      /\ a[5] = Bound("is_causal", "PRED")
      /\ a[6] = Bound("window_size_left", "S64")
      /\ a[7] = Bound("window_size_right", "S64")
      /\ a[8] = Bound("deterministic", "PRED")
  BY DEF MhaVarlenBwd, Window
<1>. HIDE DEF a
<1>2. Rank(a[1].name) = 4 /\ Rank(a[2].name) = 3 /\ Rank(a[3].name) = 5 /\ Rank(a[4].name) = 8 /\ Rank(a[5].name) = 2 /\ Rank(a[6].name) = 6 /\ Rank(a[7].name) = 7 /\ Rank(a[8].name) = 1
  BY <1>1, Ranks DEF Bound
<1>3. \A i \in 1 .. 8 : Below(MhaVarlenBwd, i) = {j \in 1 .. 8 : Rank(a[j].name) < Rank(a[i].name)}
  BY <1>1 DEF Below, a
<1>4. Below(MhaVarlenBwd, 8) = {}
  BY <1>2, <1>3
<1>5. Below(MhaVarlenBwd, 5) = {8}
  BY <1>2, <1>3
<1>6. Below(MhaVarlenBwd, 2) = {8, 5}
  BY <1>2, <1>3
<1>7. Below(MhaVarlenBwd, 1) = {8, 5, 2}
  BY <1>2, <1>3
<1>8. Below(MhaVarlenBwd, 3) = {8, 5, 2, 1}
  BY <1>2, <1>3
<1>9. Below(MhaVarlenBwd, 6) = {8, 5, 2, 1, 3}
  BY <1>2, <1>3
<1>10. Below(MhaVarlenBwd, 7) = {8, 5, 2, 1, 3, 6}
  BY <1>2, <1>3
<1>11. Below(MhaVarlenBwd, 4) = {8, 5, 2, 1, 3, 6, 7}
  BY <1>2, <1>3
<1>12. InPlace(MhaVarlenBwd, 8, 1)
  BY <1>4, FirstAttr
<1>13. InPlace(MhaVarlenBwd, 5, 2)
  BY <1>12, <1>4, <1>5, NextAttr
<1>14. InPlace(MhaVarlenBwd, 2, 3)
  BY <1>13, <1>5, <1>6, NextAttr
<1>15. InPlace(MhaVarlenBwd, 1, 4)
  BY <1>14, <1>6, <1>7, NextAttr
<1>16. InPlace(MhaVarlenBwd, 3, 5)
  BY <1>15, <1>7, <1>8, NextAttr
<1>17. InPlace(MhaVarlenBwd, 6, 6)
  BY <1>16, <1>8, <1>9, NextAttr
<1>18. InPlace(MhaVarlenBwd, 7, 7)
  BY <1>17, <1>9, <1>10, NextAttr
<1>19. InPlace(MhaVarlenBwd, 4, 8)
  BY <1>18, <1>10, <1>11, NextAttr
<1> QED BY <1>1, <1>12, <1>13, <1>14, <1>15, <1>16, <1>17, <1>18, <1>19 DEF a, InPlace

(* What the implementation reads from a frame of the batched forward       *)
(* pass.                                                                   *)
LEMMA MhaFwdValues ==
  ASSUME NEW f
  PROVE  /\ Value(MhaFwd, f, "is_causal") = f.attrs[1].value
         /\ Value(MhaFwd, f, "window_size_left") = f.attrs[3].value
         /\ Value(MhaFwd, f, "window_size_right") = f.attrs[4].value
<1>1. Value(MhaFwd, f, "is_causal") = f.attrs[1].value
  <2>1. (CHOOSE j \in DOMAIN MhaFwd.attrs : MhaFwd.attrs[j].name = "is_causal") = 2
    BY MhaFwdAttrs DEF Bound
  <2> QED BY <2>1, MhaFwdAttrs DEF Value
<1>2. Value(MhaFwd, f, "window_size_left") = f.attrs[3].value
  <2>1. (CHOOSE j \in DOMAIN MhaFwd.attrs : MhaFwd.attrs[j].name = "window_size_left") = 3
    BY MhaFwdAttrs DEF Bound
  <2> QED BY <2>1, MhaFwdAttrs DEF Value
<1>3. Value(MhaFwd, f, "window_size_right") = f.attrs[4].value
  <2>1. (CHOOSE j \in DOMAIN MhaFwd.attrs : MhaFwd.attrs[j].name = "window_size_right") = 4
    BY MhaFwdAttrs DEF Bound
  <2> QED BY <2>1, MhaFwdAttrs DEF Value
<1> QED BY <1>1, <1>2, <1>3

(* The names and types for which its attributes decode.                    *)
LEMMA MhaFwdAttrsDecode ==
  ASSUME NEW f, Len(f.attrs) = 4
  PROVE  (\A i \in DOMAIN MhaFwd.attrs : AttrDecodes(MhaFwd, f, i)) <=>
           /\ f.attrs[1].name = "is_causal" /\ f.attrs[1].type = "PRED"
           /\ f.attrs[2].name = "softmax_scale" /\ f.attrs[2].type = "F64"
           /\ f.attrs[3].name = "window_size_left" /\ f.attrs[3].type = "S64"
           /\ f.attrs[4].name = "window_size_right" /\ f.attrs[4].type = "S64"
BY MhaFwdAttrs DEF AttrDecodes, Bound

(* What the implementation reads from a frame of the batched backward      *)
(* pass.                                                                   *)
LEMMA MhaBwdValues ==
  ASSUME NEW f
  PROVE  /\ Value(MhaBwd, f, "is_causal") = f.attrs[2].value
         /\ Value(MhaBwd, f, "window_size_left") = f.attrs[4].value
         /\ Value(MhaBwd, f, "window_size_right") = f.attrs[5].value
<1>1. Value(MhaBwd, f, "is_causal") = f.attrs[2].value
  <2>1. (CHOOSE j \in DOMAIN MhaBwd.attrs : MhaBwd.attrs[j].name = "is_causal") = 2
    BY MhaBwdAttrs DEF Bound
  <2> QED BY <2>1, MhaBwdAttrs DEF Value
<1>2. Value(MhaBwd, f, "window_size_left") = f.attrs[4].value
  <2>1. (CHOOSE j \in DOMAIN MhaBwd.attrs : MhaBwd.attrs[j].name = "window_size_left") = 3
    BY MhaBwdAttrs DEF Bound
  <2> QED BY <2>1, MhaBwdAttrs DEF Value
<1>3. Value(MhaBwd, f, "window_size_right") = f.attrs[5].value
  <2>1. (CHOOSE j \in DOMAIN MhaBwd.attrs : MhaBwd.attrs[j].name = "window_size_right") = 4
    BY MhaBwdAttrs DEF Bound
  <2> QED BY <2>1, MhaBwdAttrs DEF Value
<1> QED BY <1>1, <1>2, <1>3

(* The names and types for which its attributes decode.                    *)
LEMMA MhaBwdAttrsDecode ==
  ASSUME NEW f, Len(f.attrs) = 5
  PROVE  (\A i \in DOMAIN MhaBwd.attrs : AttrDecodes(MhaBwd, f, i)) <=>
           /\ f.attrs[1].name = "deterministic" /\ f.attrs[1].type = "PRED"
           /\ f.attrs[2].name = "is_causal" /\ f.attrs[2].type = "PRED"
           /\ f.attrs[3].name = "softmax_scale" /\ f.attrs[3].type = "F64"
           /\ f.attrs[4].name = "window_size_left" /\ f.attrs[4].type = "S64"
           /\ f.attrs[5].name = "window_size_right" /\ f.attrs[5].type = "S64"
BY MhaBwdAttrs DEF AttrDecodes, Bound

(* What the implementation reads from a frame of the varlen forward pass.  *)
LEMMA MhaVarlenFwdValues ==
  ASSUME NEW f
  PROVE  /\ Value(MhaVarlenFwd, f, "is_causal") = f.attrs[1].value
         /\ Value(MhaVarlenFwd, f, "window_size_left") = f.attrs[5].value
         /\ Value(MhaVarlenFwd, f, "window_size_right") = f.attrs[6].value
         /\ Value(MhaVarlenFwd, f, "max_seqlen_q") = f.attrs[3].value
         /\ Value(MhaVarlenFwd, f, "max_seqlen_k") = f.attrs[2].value
<1>1. Value(MhaVarlenFwd, f, "is_causal") = f.attrs[1].value
  <2>1. (CHOOSE j \in DOMAIN MhaVarlenFwd.attrs : MhaVarlenFwd.attrs[j].name = "is_causal") = 5
    BY MhaVarlenFwdAttrs DEF Bound
  <2> QED BY <2>1, MhaVarlenFwdAttrs DEF Value
<1>2. Value(MhaVarlenFwd, f, "window_size_left") = f.attrs[5].value
  <2>1. (CHOOSE j \in DOMAIN MhaVarlenFwd.attrs : MhaVarlenFwd.attrs[j].name = "window_size_left") = 6
    BY MhaVarlenFwdAttrs DEF Bound
  <2> QED BY <2>1, MhaVarlenFwdAttrs DEF Value
<1>3. Value(MhaVarlenFwd, f, "window_size_right") = f.attrs[6].value
  <2>1. (CHOOSE j \in DOMAIN MhaVarlenFwd.attrs : MhaVarlenFwd.attrs[j].name = "window_size_right") = 7
    BY MhaVarlenFwdAttrs DEF Bound
  <2> QED BY <2>1, MhaVarlenFwdAttrs DEF Value
<1>4. Value(MhaVarlenFwd, f, "max_seqlen_q") = f.attrs[3].value
  <2>1. (CHOOSE j \in DOMAIN MhaVarlenFwd.attrs : MhaVarlenFwd.attrs[j].name = "max_seqlen_q") = 1
    BY MhaVarlenFwdAttrs DEF Bound
  <2> QED BY <2>1, MhaVarlenFwdAttrs DEF Value
<1>5. Value(MhaVarlenFwd, f, "max_seqlen_k") = f.attrs[2].value
  <2>1. (CHOOSE j \in DOMAIN MhaVarlenFwd.attrs : MhaVarlenFwd.attrs[j].name = "max_seqlen_k") = 2
    BY MhaVarlenFwdAttrs DEF Bound
  <2> QED BY <2>1, MhaVarlenFwdAttrs DEF Value
<1> QED BY <1>1, <1>2, <1>3, <1>4, <1>5

(* The names and types for which its attributes decode.                    *)
LEMMA MhaVarlenFwdAttrsDecode ==
  ASSUME NEW f, Len(f.attrs) = 7
  PROVE  (\A i \in DOMAIN MhaVarlenFwd.attrs : AttrDecodes(MhaVarlenFwd, f, i)) <=>
           /\ f.attrs[1].name = "is_causal" /\ f.attrs[1].type = "PRED"
           /\ f.attrs[2].name = "max_seqlen_k" /\ f.attrs[2].type = "S32"
           /\ f.attrs[3].name = "max_seqlen_q" /\ f.attrs[3].type = "S32"
           /\ f.attrs[4].name = "softmax_scale" /\ f.attrs[4].type = "F64"
           /\ f.attrs[5].name = "window_size_left" /\ f.attrs[5].type = "S64"
           /\ f.attrs[6].name = "window_size_right" /\ f.attrs[6].type = "S64"
           /\ f.attrs[7].name = "zero_tensors" /\ f.attrs[7].type = "PRED"
BY MhaVarlenFwdAttrs DEF AttrDecodes, Bound

(* What the implementation reads from a frame of the varlen backward       *)
(* pass.                                                                   *)
LEMMA MhaVarlenBwdValues ==
  ASSUME NEW f
  PROVE  /\ Value(MhaVarlenBwd, f, "is_causal") = f.attrs[2].value
         /\ Value(MhaVarlenBwd, f, "window_size_left") = f.attrs[6].value
         /\ Value(MhaVarlenBwd, f, "window_size_right") = f.attrs[7].value
         /\ Value(MhaVarlenBwd, f, "max_seqlen_q") = f.attrs[4].value
         /\ Value(MhaVarlenBwd, f, "max_seqlen_k") = f.attrs[3].value
<1>1. Value(MhaVarlenBwd, f, "is_causal") = f.attrs[2].value
  <2>1. (CHOOSE j \in DOMAIN MhaVarlenBwd.attrs : MhaVarlenBwd.attrs[j].name = "is_causal") = 5
    BY MhaVarlenBwdAttrs DEF Bound
  <2> QED BY <2>1, MhaVarlenBwdAttrs DEF Value
<1>2. Value(MhaVarlenBwd, f, "window_size_left") = f.attrs[6].value
  <2>1. (CHOOSE j \in DOMAIN MhaVarlenBwd.attrs : MhaVarlenBwd.attrs[j].name = "window_size_left") = 6
    BY MhaVarlenBwdAttrs DEF Bound
  <2> QED BY <2>1, MhaVarlenBwdAttrs DEF Value
<1>3. Value(MhaVarlenBwd, f, "window_size_right") = f.attrs[7].value
  <2>1. (CHOOSE j \in DOMAIN MhaVarlenBwd.attrs : MhaVarlenBwd.attrs[j].name = "window_size_right") = 7
    BY MhaVarlenBwdAttrs DEF Bound
  <2> QED BY <2>1, MhaVarlenBwdAttrs DEF Value
<1>4. Value(MhaVarlenBwd, f, "max_seqlen_q") = f.attrs[4].value
  <2>1. (CHOOSE j \in DOMAIN MhaVarlenBwd.attrs : MhaVarlenBwd.attrs[j].name = "max_seqlen_q") = 1
    BY MhaVarlenBwdAttrs DEF Bound
  <2> QED BY <2>1, MhaVarlenBwdAttrs DEF Value
<1>5. Value(MhaVarlenBwd, f, "max_seqlen_k") = f.attrs[3].value
  <2>1. (CHOOSE j \in DOMAIN MhaVarlenBwd.attrs : MhaVarlenBwd.attrs[j].name = "max_seqlen_k") = 2
    BY MhaVarlenBwdAttrs DEF Bound
  <2> QED BY <2>1, MhaVarlenBwdAttrs DEF Value
<1> QED BY <1>1, <1>2, <1>3, <1>4, <1>5

(* The names and types for which its attributes decode.                    *)
LEMMA MhaVarlenBwdAttrsDecode ==
  ASSUME NEW f, Len(f.attrs) = 8
  PROVE  (\A i \in DOMAIN MhaVarlenBwd.attrs : AttrDecodes(MhaVarlenBwd, f, i)) <=>
           /\ f.attrs[1].name = "deterministic" /\ f.attrs[1].type = "PRED"
           /\ f.attrs[2].name = "is_causal" /\ f.attrs[2].type = "PRED"
           /\ f.attrs[3].name = "max_seqlen_k" /\ f.attrs[3].type = "S64"
           /\ f.attrs[4].name = "max_seqlen_q" /\ f.attrs[4].type = "S64"
           /\ f.attrs[5].name = "softmax_scale" /\ f.attrs[5].type = "F32"
           /\ f.attrs[6].name = "window_size_left" /\ f.attrs[6].type = "S64"
           /\ f.attrs[7].name = "window_size_right" /\ f.attrs[7].type = "S64"
           /\ f.attrs[8].name = "zero_tensors" /\ f.attrs[8].type = "PRED"
BY MhaVarlenBwdAttrs DEF AttrDecodes, Bound

-----------------------------------------------------------------------------
(* The dimensions of a call as the implementations meet it.                *)

(* A call as the implementations meet it: a device's part.                 *)
Fit(c) ==
  /\ c \in Call
  /\ Len(c.q) = (IF c.varlen THEN 3 ELSE 4) /\ Len(c.kv) = Len(c.q)
  /\ Heads(c) > 0 /\ HeadsK(c) > 0 /\ Dim(c) > 0
  /\ ~ c.varlen => ~ c.has_used
  /\ c.varlen =>
       /\ c.kv[3] = Dim(c)
       /\ Fenceposts(c.cuq, c.q[1], MaxQ(c)) /\ Fenceposts(c.cuk, c.kv[1], MaxK(c))

PadDim(c) == Dim(c) + Dpad(Dim(c))

(* Padding the head dimension to a multiple of 8.                          *)
LEMMA Padding ==
  ASSUME NEW d \in Nat
  PROVE  /\ Dpad(d) \in 0 .. 7 /\ (d + Dpad(d)) % 8 = 0
         /\ RoundTo(d + Dpad(d), 8) = d + Dpad(d)
         /\ RoundTo(d + Dpad(d), 32) = RoundTo(d, 32) /\ RoundTo(d, 32) \in Nat
BY DEF Dpad, RoundTo, CeilDiv

(* The types of the fields of a call.                                      *)
LEMMA CallTypes ==
  ASSUME NEW c, Fit(c)
  PROVE  /\ c.q \in Seq(Nat) /\ c.kv \in Seq(Nat) /\ c.cuq \in Seq(Nat) /\ c.cuk \in Seq(Nat)
         /\ c.used \in Seq(Nat)
         /\ c.varlen \in BOOLEAN /\ c.causal \in BOOLEAN /\ c.has_used \in BOOLEAN
         /\ c.wl \in Int /\ c.wr \in Int
         /\ c.max_q \in Nat \cup {-1} /\ c.max_k \in Nat \cup {-1}
BY DEF Fit, Call

(* The dimensions of a varlen call, by name.                               *)
LEMMA VarlenDims ==
  ASSUME NEW c, Fit(c), c.varlen
  PROVE  /\ Len(c.q) = 3 /\ Len(c.kv) = 3
         /\ c.q[1] \in Nat /\ c.q[2] \in Nat /\ c.q[3] \in Nat
         /\ c.kv[1] \in Nat /\ c.kv[2] \in Nat /\ c.kv[3] \in Nat
         /\ Heads(c) = c.q[2] /\ HeadsK(c) = c.kv[2] /\ Dim(c) = c.q[3] /\ c.kv[3] = Dim(c)
         /\ BatchOf(c) = Len(c.cuq) - 1 /\ BatchOf(c) \in Nat
         /\ MaxQ(c) \in Nat /\ MaxK(c) \in Nat
<1>1. Len(c.q) = 3 /\ Len(c.kv) = 3 /\ c.q \in Seq(Nat) /\ c.kv \in Seq(Nat) /\ c.kv[3] = Dim(c)
  BY CallTypes DEF Fit
<1>2. Heads(c) = c.q[2] /\ HeadsK(c) = c.kv[2] /\ Dim(c) = c.q[3] /\ BatchOf(c) = Len(c.cuq) - 1
  BY <1>1 DEF Heads, HeadsK, Dim, BatchOf
<1>3. Len(c.cuq) \in Nat \ {0}
  BY CallTypes DEF Fit, Fenceposts
<1>4. c.q[1] \in Nat /\ c.q[2] \in Nat /\ c.q[3] \in Nat
  BY <1>1
<1>5. c.kv[1] \in Nat /\ c.kv[2] \in Nat /\ c.kv[3] \in Nat
  BY <1>1
<1>6. MaxQ(c) \in Nat /\ MaxK(c) \in Nat
  BY <1>4, <1>5, CallTypes DEF MaxQ, MaxK
<1> QED BY <1>1, <1>2, <1>3, <1>4, <1>5, <1>6

(* The dimensions of a batched call, by name.                              *)
LEMMA BatchedDims ==
  ASSUME NEW c, Fit(c), ~ c.varlen
  PROVE  /\ Len(c.q) = 4 /\ Len(c.kv) = 4
         /\ c.q[1] \in Nat /\ c.q[2] \in Nat /\ c.q[3] \in Nat /\ c.q[4] \in Nat
         /\ c.kv[1] \in Nat /\ c.kv[2] \in Nat /\ c.kv[3] \in Nat /\ c.kv[4] \in Nat
         /\ Heads(c) = c.q[3] /\ HeadsK(c) = c.kv[3] /\ Dim(c) = c.q[4]
         /\ BatchOf(c) = c.q[1] /\ MaxQ(c) = c.q[2] /\ MaxK(c) = c.kv[2]
<1>1. Len(c.q) = 4 /\ Len(c.kv) = 4 /\ c.q \in Seq(Nat) /\ c.kv \in Seq(Nat)
  BY CallTypes DEF Fit
<1>2. Heads(c) = c.q[3] /\ HeadsK(c) = c.kv[3] /\ Dim(c) = c.q[4] /\ BatchOf(c) = c.q[1]
      /\ MaxQ(c) = c.q[2] /\ MaxK(c) = c.kv[2]
  BY <1>1 DEF Heads, HeadsK, Dim, BatchOf, MaxQ, MaxK
<1>3. c.q[1] \in Nat /\ c.q[2] \in Nat /\ c.q[3] \in Nat /\ c.q[4] \in Nat
  BY <1>1
<1>4. c.kv[1] \in Nat /\ c.kv[2] \in Nat /\ c.kv[3] \in Nat /\ c.kv[4] \in Nat
  BY <1>1
<1> QED BY <1>1, <1>2, <1>3, <1>4

(* What both have in common, with the padded head dimension.               *)
LEMMA Dimensions ==
  ASSUME NEW c, Fit(c)
  PROVE  /\ Heads(c) \in Nat \ {0} /\ HeadsK(c) \in Nat \ {0} /\ Dim(c) \in Nat \ {0}
         /\ BatchOf(c) \in Nat /\ MaxQ(c) \in Nat /\ MaxK(c) \in Nat
         /\ PadDim(c) \in Nat \ {0} /\ PadDim(c) % 8 = 0 /\ PadDim(c) >= Dim(c)
         /\ RoundTo(PadDim(c), 8) = PadDim(c)
         /\ RoundTo(PadDim(c), 32) = RoundTo(Dim(c), 32) /\ RoundTo(Dim(c), 32) \in Nat
<1>1. c.varlen \in BOOLEAN
  BY CallTypes
<1>2. Heads(c) > 0 /\ HeadsK(c) > 0 /\ Dim(c) > 0
  BY DEF Fit
<1>3. /\ Heads(c) \in Nat /\ HeadsK(c) \in Nat /\ Dim(c) \in Nat
      /\ BatchOf(c) \in Nat /\ MaxQ(c) \in Nat /\ MaxK(c) \in Nat
  <2>1. CASE c.varlen    BY <2>1, VarlenDims
  <2>2. CASE ~ c.varlen  BY <2>2, BatchedDims
  <2> QED BY <1>1, <2>1, <2>2
<1>4. Heads(c) \in Nat \ {0} /\ HeadsK(c) \in Nat \ {0} /\ Dim(c) \in Nat \ {0}
  BY <1>2, <1>3
<1>5. PadDim(c) \in Nat \ {0} /\ PadDim(c) % 8 = 0 /\ PadDim(c) >= Dim(c)
      /\ RoundTo(PadDim(c), 8) = PadDim(c)
      /\ RoundTo(PadDim(c), 32) = RoundTo(Dim(c), 32) /\ RoundTo(Dim(c), 32) \in Nat
  <2>1. /\ Dpad(Dim(c)) \in 0 .. 7 /\ PadDim(c) % 8 = 0
        /\ RoundTo(PadDim(c), 8) = PadDim(c)
        /\ RoundTo(PadDim(c), 32) = RoundTo(Dim(c), 32) /\ RoundTo(Dim(c), 32) \in Nat
    BY <1>4, Padding DEF PadDim
  <2>2. PadDim(c) \in Nat \ {0} /\ PadDim(c) >= Dim(c)
    BY <1>4, <2>1 DEF PadDim
  <2> QED BY <2>1, <2>2
<1> QED BY <1>3, <1>4, <1>5

(* The number of splits is at least one and no more than allowed.          *)
LEMMA HeuristicInRange ==
  ASSUME NEW units \in Nat, NEW sms \in Nat, NEW blocks \in Nat, NEW cap \in 1 .. 128
  PROVE  Plan!Heuristic(units, sms, blocks, cap) \in 1 .. cap
<1>. DEFINE S        == {s \in 1 .. Plan!AtMost(cap, Plan!AtMost(sms, blocks)) : Plan!Eligible(blocks, s)}
            Waves(s) == Plan!CeilDiv(units * s, sms)
            Busy     == {s \in S : \A t \in S : 100 * s * Waves(t) >= 85 * t * Waves(s)}
            First    == {s \in Busy : \A t \in Busy : s <= t}
<1>1. Plan!Heuristic(units, sms, blocks, cap) =
        IF 5 * units >= 4 * sms \/ First = {} THEN 1 ELSE CHOOSE s \in First : TRUE
  BY DEF Plan!Heuristic
<1>2. Plan!AtMost(cap, Plan!AtMost(sms, blocks)) \in Int /\ Plan!AtMost(cap, Plan!AtMost(sms, blocks)) <= cap
  BY DEF Plan!AtMost
<1>3. \A s \in First : s \in 1 .. cap
  <2>1. \A s \in S : s \in 1 .. cap
    BY <1>2
  <2>. HIDE DEF S
  <2>2. \A s \in First : s \in S
    BY Zenon
  <2> QED BY <2>1, <2>2
<1>. HIDE DEF First
<1> QED BY <1>1, <1>3

-----------------------------------------------------------------------------
(* A device's part of a call.                                              *)

(* Division without remainder.                                             *)
LEMMA ExactDivision ==
  ASSUME NEW x \in Nat, NEW n \in Nat, n > 0, x % n = 0
  PROVE  x \div n \in Nat /\ (x \div n) * n = x /\ (x > 0 => x \div n > 0)
<1>1. x = (x \div n) * n + (x % n)
  OBVIOUS
<1>2. x \div n \in Nat
  OBVIOUS
<1>. DEFINE y == x \div n
<1>. HIDE DEF y
<1>3. x = y * n /\ y \in Nat
  BY <1>1, <1>2 DEF y
<1>4. x > 0 => y > 0
  BY <1>3
<1> QED BY <1>3, <1>4 DEF y

(* Where the axes are.                                                     *)
LEMMA Places == Place("n") = 1 /\ Place("s") = 2 /\ Place("h") = 3 /\ Place("d") = 4
BY DEF Place

(* t is s, of four dimensions, with the i-th replaced by x.                *)
Replaced(s, i, x, t) ==
  /\ t \in Seq(Nat) /\ Len(t) = 4
  /\ t[1] = IF i = 1 THEN x ELSE s[1]
  /\ t[2] = IF i = 2 THEN x ELSE s[2]
  /\ t[3] = IF i = 3 THEN x ELSE s[3]
  /\ t[4] = IF i = 4 THEN x ELSE s[4]

(* Replacing one of four dimensions leaves the others.                     *)
LEMMA WithDim4 ==
  ASSUME NEW s \in Seq(Nat), Len(s) = 4, NEW i \in 1 .. 4, NEW x \in Nat
  PROVE  Replaced(s, i, x, WithDim(s, i, x))
BY DEF WithDim, Replaced

(* A device's part of a dimension that is divided evenly.                  *)
LEMMA PartOf ==
  ASSUME NEW s \in Seq(Nat), Len(s) = 4, NEW axis \in {"n", "s", "h", "d"},
         Shards(s, axis), ND \in Nat \ {0}
  PROVE  /\ Place(axis) \in 1 .. 4
         /\ \E x \in Nat : /\ x * ND = s[Place(axis)] /\ (s[Place(axis)] > 0 => x > 0)
                            /\ Replaced(s, Place(axis), x, Part(s, axis))
<1>. DEFINE p == Place(axis)
<1>1. p \in 1 .. 4
  BY Places
<1>2. s[p] % ND = 0
  BY DEF Shards
<1>3. s[p] \in Nat
  <2>. HIDE DEF p
  <2> QED BY <1>1
<1>4. PICK x \in Nat : x = s[p] \div ND /\ x * ND = s[p] /\ (s[p] > 0 => x > 0)
  BY <1>2, <1>3, ExactDivision
<1>5. Part(s, axis) = WithDim(s, p, x)
  BY <1>4 DEF Part
<1>6. Replaced(s, p, x, WithDim(s, p, x))
  <2>. HIDE DEF p
  <2> QED BY <1>1, WithDim4
<1> QED BY <1>1, <1>4, <1>5, <1>6

(* A device's part of an array has its rank, and heads to work on.         *)
LEMMA PartFits ==
  ASSUME NEW s \in Seq(Nat), Len(s) = 4, NEW axis, Shards(s, axis), ND \in Nat \ {0}
  PROVE  /\ Part(s, axis) \in Seq(Nat) /\ Len(Part(s, axis)) = 4
         /\ s[3] > 0 => Part(s, axis)[3] > 0
         /\ s[4] > 0 => Part(s, axis)[4] > 0
<1>1. CASE axis = "none"  BY <1>1 DEF Part
<1>2. CASE axis # "none"
  <2>1. axis \in {"n", "s", "h", "d"}
    BY <1>2 DEF Shards
  <2>. DEFINE p == Place(axis)
  <2>2. p \in 1 .. 4
    BY <2>1, PartOf
  <2>3. PICK x \in Nat : (s[p] > 0 => x > 0) /\ Replaced(s, p, x, Part(s, axis))
    BY <2>1, PartOf
  <2>. HIDE DEF p
  <2> QED BY <2>2, <2>3 DEF Replaced
<1> QED BY <1>1, <1>2

(* A device's part of a call differs from it in its arrays only.           *)
LEMMA LocalFields ==
  ASSUME NEW c \in Call
  PROVE  LET l == Local(c) IN
         /\ l.varlen = c.varlen /\ l.tq = c.tq /\ l.tk = c.tk /\ l.tv = c.tv
         /\ l.scale = c.scale /\ l.causal = c.causal /\ l.wl = c.wl /\ l.wr = c.wr
         /\ l.qaxis = c.qaxis /\ l.kaxis = c.kaxis /\ l.lens = c.lens /\ l.tu = c.tu
         /\ l.cuq = c.cuq /\ l.cuk = c.cuk /\ l.has_used = c.has_used /\ l.used = c.used
         /\ l.max_q = c.max_q /\ l.max_k = c.max_k
BY DEF Local, Call

(* A varlen call runs whole.                                               *)
LEMMA LocalVarlen ==
  ASSUME NEW c, Callable(c), c.varlen
  PROVE  Local(c) = c
<1>1. c \in Call
  BY DEF Callable
<1>2. Part(c.q, c.qaxis) = c.q /\ Part(c.kv, c.kaxis) = c.kv
  BY DEF Callable, Part
<1> QED BY <1>1, <1>2 DEF Local, Call

(* The arrays of a device's part of a batched call.                        *)
LEMMA LocalBatched ==
  ASSUME NEW c, Callable(c), ~ c.varlen, ND \in Nat \ {0}
  PROVE  /\ Local(c).q = Part(c.q, c.qaxis) /\ Local(c).kv = Part(c.kv, c.kaxis)
         /\ Local(c).q \in Seq(Nat) /\ Len(Local(c).q) = 4
         /\ Local(c).kv \in Seq(Nat) /\ Len(Local(c).kv) = 4
         /\ Local(c).q[3] > 0 /\ Local(c).q[4] > 0 /\ Local(c).kv[3] > 0
<1>1. c \in Call /\ c.q \in Seq(Nat) /\ c.kv \in Seq(Nat) /\ Len(c.kv) = Len(c.q)
  BY DEF Callable, Call
<1>2. Local(c).q = Part(c.q, c.qaxis) /\ Local(c).kv = Part(c.kv, c.kaxis)
  BY <1>1 DEF Local, Call
<1>3. Len(c.q) = 4 /\ Len(c.kv) = 4 /\ Shards(c.q, c.qaxis) /\ Shards(c.kv, c.kaxis)
  BY DEF Callable
<1>4. c.q[3] > 0 /\ c.kv[3] > 0 /\ c.q[4] > 0
  BY <1>3 DEF Callable, Heads, HeadsK, Dim
<1>5. /\ Part(c.q, c.qaxis) \in Seq(Nat) /\ Len(Part(c.q, c.qaxis)) = 4
      /\ c.q[3] > 0 => Part(c.q, c.qaxis)[3] > 0
      /\ c.q[4] > 0 => Part(c.q, c.qaxis)[4] > 0
  BY <1>1, <1>3, PartFits
<1>6. /\ Part(c.kv, c.kaxis) \in Seq(Nat) /\ Len(Part(c.kv, c.kaxis)) = 4
      /\ c.kv[3] > 0 => Part(c.kv, c.kaxis)[3] > 0
  BY <1>1, <1>3, PartFits
<1> QED BY <1>2, <1>4, <1>5, <1>6

(* A device's part of a call is one that an implementation can meet.       *)
LEMMA LocalFits ==
  ASSUME NEW c, Callable(c), ND \in Nat \ {0}
  PROVE  Fit(Local(c))
<1>. DEFINE l == Local(c)
<1>1. c \in Call
  BY DEF Callable
<1>2. CASE c.varlen
  <2>1. l = c
    BY <1>2, LocalVarlen
  <2> QED BY <1>2, <2>1 DEF Callable, Fit
<1>3. CASE ~ c.varlen
  <2>1. ~ l.varlen /\ ~ l.has_used
    BY <1>1, <1>3, LocalFields DEF Callable
  <2>2. /\ l.q \in Seq(Nat) /\ Len(l.q) = 4 /\ l.kv \in Seq(Nat) /\ Len(l.kv) = 4
        /\ l.q[3] > 0 /\ l.q[4] > 0 /\ l.kv[3] > 0
    BY <1>3, LocalBatched
  <2>3. l \in Call
    BY <1>1, <2>2 DEF Local, Call
  <2>. HIDE DEF l
  <2>4. Heads(l) > 0 /\ HeadsK(l) > 0 /\ Dim(l) > 0
    BY <2>2 DEF Heads, HeadsK, Dim
  <2>5. Len(l.q) = (IF l.varlen THEN 3 ELSE 4) /\ Len(l.kv) = Len(l.q)
    BY <2>1, <2>2
  <2>6. Fit(l)
    BY <2>1, <2>3, <2>4, <2>5 DEF Fit
  <2> QED BY <2>6 DEF l
<1> QED BY <1>2, <1>3

-----------------------------------------------------------------------------
(* The call frames, operand by operand.                                    *)

(* The attributes of a frame are concatenated from such groups.            *)
Seven(x, a, b, c, d, e, g, h) ==
  /\ Len(x) = 7 /\ x[1] = a /\ x[2] = b /\ x[3] = c /\ x[4] = d /\ x[5] = e /\ x[6] = g
  /\ x[7] = h
Eight(x, a, b, c, d, e, g, h, i) ==
  /\ Len(x) = 8 /\ x[1] = a /\ x[2] = b /\ x[3] = c /\ x[4] = d /\ x[5] = e /\ x[6] = g
  /\ x[7] = h /\ x[8] = i

(* The operands of the batched backward frame, in order.                   *)
LEMMA Concat7 ==
  ASSUME NEW a, NEW b, NEW c, NEW d, NEW e, NEW g, NEW h
  PROVE  Seven(<<a>> \o <<b, c>> \o <<d>> \o <<e, g>> \o <<h>>, a, b, c, d, e, g, h)
BY SMTT(60) DEF Seven

(* The operands of the varlen backward frame, in order.                    *)
LEMMA Concat8 ==
  ASSUME NEW a, NEW b, NEW c, NEW d, NEW e, NEW g, NEW h, NEW i
  PROVE  Eight(<<a>> \o <<b>> \o <<c, d>> \o <<e>> \o <<g, h>> \o <<i>>, a, b, c, d, e, g, h, i)
BY SMTT(60) DEF Eight

(* The dimensions of an array, one by one.                                 *)
Dims3(s, w, x, y)    == s \in Seq(Nat) /\ Len(s) = 3 /\ s[1] = w /\ s[2] = x /\ s[3] = y
Dims4(s, w, x, y, z) ==
  s \in Seq(Nat) /\ Len(s) = 4 /\ s[1] = w /\ s[2] = x /\ s[3] = y /\ s[4] = z

(* The dimensions of a padded array of rank 3.                             *)
LEMMA Padded3 ==
  ASSUME NEW s \in Seq(Nat), Len(s) = 3
  PROVE  Dims3(Padded(s), s[1], s[2], s[3] + Dpad(s[3]))
<1>1. s[3] \in Nat
  <2>1. 3 \in 1 .. Len(s)
    OBVIOUS
  <2> QED BY <2>1, ElementOfSeq
<1>. DEFINE x == s[3] + Dpad(s[3])
<1>2. x \in Nat
  <2>1. Dpad(s[3]) \in 0 .. 7
    BY <1>1, Padding
  <2> QED BY <1>1, <2>1
<1>3. Padded(s) = WithDim(s, 3, x)
  BY DEF Padded
<1>. HIDE DEF x
<1>4. Dims3(WithDim(s, 3, x), s[1], s[2], x)
  BY <1>2 DEF WithDim, Dims3
<1> QED BY <1>3, <1>4 DEF x

(* The same of rank 4.                                                     *)
LEMMA Padded4 ==
  ASSUME NEW s \in Seq(Nat), Len(s) = 4
  PROVE  Dims4(Padded(s), s[1], s[2], s[3], s[4] + Dpad(s[4]))
<1>1. s[4] \in Nat
  <2>1. 4 \in 1 .. Len(s)
    OBVIOUS
  <2> QED BY <2>1, ElementOfSeq
<1>. DEFINE x == s[4] + Dpad(s[4])
<1>2. x \in Nat
  <2>1. Dpad(s[4]) \in 0 .. 7
    BY <1>1, Padding
  <2> QED BY <1>1, <2>1
<1>3. Padded(s) = WithDim(s, 4, x)
  BY DEF Padded
<1>. HIDE DEF x
<1>4. Replaced(s, 4, x, WithDim(s, 4, x))
  BY <1>2, WithDim4
<1> QED BY <1>3, <1>4 DEF x, Replaced, Dims4

(* The call frame of the forward pass, operand by operand.                 *)
Splits(c) ==
  Plan!Heuristic(BatchOf(c) * Heads(c) * Larger(1, CeilDiv(MaxQ(c), 64)), 114,
                 Larger(1, CeilDiv(MaxK(c), HostBlockN(Dim(c)))), 128)
ScaleType(c) == IF c.scale = "None" THEN "F64" ELSE c.scale

FwdRets(c, f) ==
  /\ Len(f.rets) = 4
  /\ f.rets[1] = Buf(c.tq, Padded(c.q)) /\ f.rets[2] = Buf("F32", LseDims(c))
  /\ f.rets[3] = Buf("F32", <<Splits(c), BatchOf(c), MaxQ(c), Heads(c), RoundTo(Dim(c), 32)>>)
  /\ f.rets[4] = Buf("F32", <<Splits(c)>> \o LseDims(c))

(* The results of a lowered forward pass.                                  *)
LEMMA FwdFrameRets ==
  ASSUME NEW c
  PROVE  FwdRets(c, FwdFrame(c))
BY DEF FwdFrame, FwdRets, Splits

FwdFrameBatched(c, f) ==
  /\ Len(f.args) = 3
  /\ f.args[1] = Buf(c.tq, Padded(c.q)) /\ f.args[2] = Buf(c.tk, Padded(c.kv))
  /\ f.args[3] = Buf(c.tv, Padded(c.kv))
  /\ Len(f.attrs) = 4
  /\ f.attrs[1] = Attr("is_causal", "PRED", c.causal)
  /\ f.attrs[2] = Attr("softmax_scale", ScaleType(c), 0)
  /\ f.attrs[3] = Attr("window_size_left", "S64", c.wl)
  /\ f.attrs[4] = Attr("window_size_right", "S64", c.wr)

(* The operands and attributes of a batched forward pass, one by one.      *)
LEMMA FwdFrameIfBatched ==
  ASSUME NEW c, ~ c.varlen
  PROVE  FwdFrameBatched(c, FwdFrame(c))
<1>1. FwdFrame(c).args = QKV(c)
  BY DEF FwdFrame
<1>2. FwdFrame(c).attrs = Flags(c) \o << >> \o <<Scale(c)>> \o Windows(c) \o << >>
  BY DEF FwdFrame
<1> QED BY <1>1, <1>2 DEF FwdFrameBatched, QKV, Flags, Scale, Windows, ScaleType

FwdFrameVarlen(c, f) ==
  /\ Len(f.args) = IF c.has_used THEN 6 ELSE 5
  /\ f.args[1] = Buf(c.tq, Padded(c.q)) /\ f.args[2] = Buf(c.tk, Padded(c.kv))
  /\ f.args[3] = Buf(c.tv, Padded(c.kv))
  /\ f.args[4] = Buf(c.lens, <<Len(c.cuq)>>) /\ f.args[5] = Buf(c.lens, <<Len(c.cuk)>>)
  /\ c.has_used => f.args[6] = Buf(c.tu, <<Len(c.used)>>)
  /\ Len(f.attrs) = 7
  /\ f.attrs[1] = Attr("is_causal", "PRED", c.causal)
  /\ f.attrs[2] = Attr("max_seqlen_k", "S32", MaxK(c))
  /\ f.attrs[3] = Attr("max_seqlen_q", "S32", MaxQ(c))
  /\ f.attrs[4] = Attr("softmax_scale", ScaleType(c), 0)
  /\ f.attrs[5] = Attr("window_size_left", "S64", c.wl)
  /\ f.attrs[6] = Attr("window_size_right", "S64", c.wr)
  /\ f.attrs[7] = Attr("zero_tensors", "PRED", FALSE)

(* The same of a varlen forward pass.                                      *)
LEMMA FwdFrameIfVarlen ==
  ASSUME NEW c, c.varlen
  PROVE  FwdFrameVarlen(c, FwdFrame(c))
<1>1. FwdFrame(c).args = QKV(c) \o Lens(c) \o (IF c.has_used THEN <<Buf(c.tu, <<Len(c.used)>>)>> ELSE << >>)
  BY DEF FwdFrame
<1>2. FwdFrame(c).attrs = Flags(c) \o MaxLens(c, "S32") \o <<Scale(c)>> \o Windows(c) \o Zero
  BY DEF FwdFrame
<1>. DEFINE f == FwdFrame(c)
<1>3. /\ Len(f.args) = IF c.has_used THEN 6 ELSE 5
      /\ f.args[1] = Buf(c.tq, Padded(c.q)) /\ f.args[2] = Buf(c.tk, Padded(c.kv))
      /\ f.args[3] = Buf(c.tv, Padded(c.kv))
      /\ f.args[4] = Buf(c.lens, <<Len(c.cuq)>>) /\ f.args[5] = Buf(c.lens, <<Len(c.cuk)>>)
      /\ c.has_used => f.args[6] = Buf(c.tu, <<Len(c.used)>>)
  <2>1. CASE c.has_used
    BY <1>1, <2>1 DEF QKV, Lens
  <2>2. CASE ~ c.has_used
    BY <1>1, <2>2 DEF QKV, Lens
  <2> QED BY <2>1, <2>2
<1>4. /\ Len(f.attrs) = 7
      /\ f.attrs[1] = Attr("is_causal", "PRED", c.causal)
      /\ f.attrs[2] = Attr("max_seqlen_k", "S32", MaxK(c))
      /\ f.attrs[3] = Attr("max_seqlen_q", "S32", MaxQ(c))
      /\ f.attrs[4] = Attr("softmax_scale", ScaleType(c), 0)
      /\ f.attrs[5] = Attr("window_size_left", "S64", c.wl)
      /\ f.attrs[6] = Attr("window_size_right", "S64", c.wr)
      /\ f.attrs[7] = Attr("zero_tensors", "PRED", FALSE)
  <2>1. f.attrs = <<Attr("is_causal", "PRED", c.causal)>>
                  \o <<Attr("max_seqlen_k", "S32", MaxK(c)), Attr("max_seqlen_q", "S32", MaxQ(c))>>
                  \o <<Attr("softmax_scale", ScaleType(c), 0)>>
                  \o <<Attr("window_size_left", "S64", c.wl), Attr("window_size_right", "S64", c.wr)>>
                  \o <<Attr("zero_tensors", "PRED", FALSE)>>
    BY <1>2 DEF Flags, MaxLens, Scale, Windows, Zero, ScaleType
  <2>2. Seven(f.attrs, Attr("is_causal", "PRED", c.causal),
              Attr("max_seqlen_k", "S32", MaxK(c)), Attr("max_seqlen_q", "S32", MaxQ(c)),
              Attr("softmax_scale", ScaleType(c), 0),
              Attr("window_size_left", "S64", c.wl), Attr("window_size_right", "S64", c.wr),
              Attr("zero_tensors", "PRED", FALSE))
    BY <2>1, Concat7
  <2>. HIDE DEF f
  <2> QED BY <2>2 DEF Seven
<1> QED BY <1>3, <1>4 DEF FwdFrameVarlen

(* And of the backward pass.                                               *)
SoftmaxD(c) == <<BatchOf(c), Heads(c), RoundTo(MaxQ(c), 128)>>
BwdRets(c, f) ==
  /\ Len(f.rets) = 5
  /\ f.rets[1] = Buf(c.tq, Padded(c.q)) /\ f.rets[2] = Buf(c.tk, GradKV(c))
  /\ f.rets[3] = Buf(c.tv, GradKV(c)) /\ f.rets[4] = Buf("F32", SoftmaxD(c))
  /\ f.rets[5] = Buf("F32", DqAccum(c))

(* The results of a lowered backward pass.                                 *)
LEMMA BwdFrameRets ==
  ASSUME NEW c
  PROVE  BwdRets(c, BwdFrame(c))
BY DEF BwdFrame, BwdRets, SoftmaxD

BwdArgs(c, f) ==
  /\ f.args[1] = Buf(c.tq, Padded(c.q)) /\ f.args[2] = Buf(c.tq, Padded(c.q))
  /\ f.args[3] = Buf(c.tk, Padded(c.kv)) /\ f.args[4] = Buf(c.tv, Padded(c.kv))
  /\ f.args[5] = Buf(c.tq, Padded(c.q)) /\ f.args[6] = Buf("F32", LseDims(c))

BwdFrameBatched(c, f) ==
  /\ Len(f.args) = 6 /\ BwdArgs(c, f)
  /\ Len(f.attrs) = 5
  /\ f.attrs[1] = Attr("deterministic", "PRED", FALSE)
  /\ f.attrs[2] = Attr("is_causal", "PRED", c.causal)
  /\ f.attrs[3] = Attr("softmax_scale", ScaleType(c), 0)
  /\ f.attrs[4] = Attr("window_size_left", "S64", c.wl)
  /\ f.attrs[5] = Attr("window_size_right", "S64", c.wr)

(* The operands and attributes of a batched backward pass, one by one.     *)
LEMMA BwdFrameIfBatched ==
  ASSUME NEW c, ~ c.varlen
  PROVE  BwdFrameBatched(c, BwdFrame(c))
<1>. DEFINE f == BwdFrame(c)
<1>1. f.args = <<Buf(c.tq, Padded(c.q))>> \o QKV(c)
               \o <<Buf(c.tq, Padded(c.q)), Buf("F32", LseDims(c))>> \o << >>
  BY DEF BwdFrame
<1>2. f.attrs = Deterministic \o Flags(c) \o << >> \o <<Scale(c)>> \o Windows(c) \o << >>
  BY DEF BwdFrame
<1>3. Len(f.args) = 6 /\ BwdArgs(c, f)
  BY <1>1 DEF QKV, BwdArgs
<1>4. /\ Len(f.attrs) = 5
      /\ f.attrs[1] = Attr("deterministic", "PRED", FALSE)
      /\ f.attrs[2] = Attr("is_causal", "PRED", c.causal)
      /\ f.attrs[3] = Attr("softmax_scale", ScaleType(c), 0)
      /\ f.attrs[4] = Attr("window_size_left", "S64", c.wl)
      /\ f.attrs[5] = Attr("window_size_right", "S64", c.wr)
  BY <1>2 DEF Deterministic, Flags, Scale, Windows, ScaleType
<1> QED BY <1>3, <1>4 DEF BwdFrameBatched

BwdFrameVarlen(c, f) ==
  /\ Len(f.args) = 8 /\ BwdArgs(c, f)
  /\ f.args[7] = Buf(c.lens, <<Len(c.cuq)>>) /\ f.args[8] = Buf(c.lens, <<Len(c.cuk)>>)
  /\ Len(f.attrs) = 8
  /\ f.attrs[1] = Attr("deterministic", "PRED", FALSE)
  /\ f.attrs[2] = Attr("is_causal", "PRED", c.causal)
  /\ f.attrs[3] = Attr("max_seqlen_k", "S64", MaxK(c))
  /\ f.attrs[4] = Attr("max_seqlen_q", "S64", MaxQ(c))
  /\ f.attrs[5] = Attr("softmax_scale", "F32", 0)
  /\ f.attrs[6] = Attr("window_size_left", "S64", c.wl)
  /\ f.attrs[7] = Attr("window_size_right", "S64", c.wr)
  /\ f.attrs[8] = Attr("zero_tensors", "PRED", FALSE)

(* The same of a varlen backward pass.                                     *)
LEMMA BwdFrameIfVarlen ==
  ASSUME NEW c, c.varlen
  PROVE  BwdFrameVarlen(c, BwdFrame(c))
<1>. DEFINE f == BwdFrame(c)
<1>1. f.args = <<Buf(c.tq, Padded(c.q))>> \o QKV(c)
               \o <<Buf(c.tq, Padded(c.q)), Buf("F32", LseDims(c))>> \o Lens(c)
  BY DEF BwdFrame
<1>2. f.attrs = Deterministic \o Flags(c) \o MaxLens(c, "S64") \o <<VarlenBwdScale>> \o Windows(c) \o Zero
  BY DEF BwdFrame
<1>3. /\ Len(f.args) = 8 /\ BwdArgs(c, f)
      /\ f.args[7] = Buf(c.lens, <<Len(c.cuq)>>) /\ f.args[8] = Buf(c.lens, <<Len(c.cuk)>>)
  BY <1>1 DEF QKV, BwdArgs, Lens
<1>4. /\ Len(f.attrs) = 8
      /\ f.attrs[1] = Attr("deterministic", "PRED", FALSE)
      /\ f.attrs[2] = Attr("is_causal", "PRED", c.causal)
      /\ f.attrs[3] = Attr("max_seqlen_k", "S64", MaxK(c))
      /\ f.attrs[4] = Attr("max_seqlen_q", "S64", MaxQ(c))
      /\ f.attrs[5] = Attr("softmax_scale", "F32", 0)
      /\ f.attrs[6] = Attr("window_size_left", "S64", c.wl)
      /\ f.attrs[7] = Attr("window_size_right", "S64", c.wr)
      /\ f.attrs[8] = Attr("zero_tensors", "PRED", FALSE)
  <2>1. f.attrs = <<Attr("deterministic", "PRED", FALSE)>> \o <<Attr("is_causal", "PRED", c.causal)>>
                  \o <<Attr("max_seqlen_k", "S64", MaxK(c)), Attr("max_seqlen_q", "S64", MaxQ(c))>>
                  \o <<Attr("softmax_scale", "F32", 0)>>
                  \o <<Attr("window_size_left", "S64", c.wl), Attr("window_size_right", "S64", c.wr)>>
                  \o <<Attr("zero_tensors", "PRED", FALSE)>>
    BY <1>2 DEF Deterministic, Flags, MaxLens, VarlenBwdScale, Windows, Zero
  <2>2. Eight(f.attrs, Attr("deterministic", "PRED", FALSE), Attr("is_causal", "PRED", c.causal),
              Attr("max_seqlen_k", "S64", MaxK(c)), Attr("max_seqlen_q", "S64", MaxQ(c)),
              Attr("softmax_scale", "F32", 0),
              Attr("window_size_left", "S64", c.wl), Attr("window_size_right", "S64", c.wr),
              Attr("zero_tensors", "PRED", FALSE))
    BY <2>1, Concat8
  <2>. HIDE DEF f
  <2> QED BY <2>2 DEF Eight
<1> QED BY <1>3, <1>4 DEF BwdFrameVarlen

-----------------------------------------------------------------------------
(* What the implementations read from them.                                *)

(* The arrays of a device's call l in its frames: padded.                  *)
LEMMA PaddedBatched ==
  ASSUME NEW l, Fit(l), ~ l.varlen
  PROVE  /\ Dims4(Padded(l.q), l.q[1], l.q[2], l.q[3], PadDim(l))
         /\ Dims4(Padded(l.kv), l.kv[1], l.kv[2], l.kv[3], l.kv[4] + Dpad(l.kv[4]))
<1>1. /\ l.q \in Seq(Nat) /\ Len(l.q) = 4 /\ l.kv \in Seq(Nat) /\ Len(l.kv) = 4
      /\ PadDim(l) = l.q[4] + Dpad(l.q[4])
  BY BatchedDims, CallTypes DEF PadDim
<1>2. Dims4(Padded(l.q), l.q[1], l.q[2], l.q[3], PadDim(l))
  BY <1>1, Padded4
<1>3. Dims4(Padded(l.kv), l.kv[1], l.kv[2], l.kv[3], l.kv[4] + Dpad(l.kv[4]))
  BY <1>1, Padded4
<1> QED BY <1>2, <1>3

(* The padded operands of a varlen call.                                   *)
LEMMA PaddedVarlen ==
  ASSUME NEW l, Fit(l), l.varlen
  PROVE  /\ Dims3(Padded(l.q), l.q[1], l.q[2], PadDim(l))
         /\ Dims3(Padded(l.kv), l.kv[1], l.kv[2], PadDim(l))
<1>1. /\ l.q \in Seq(Nat) /\ Len(l.q) = 3 /\ l.kv \in Seq(Nat) /\ Len(l.kv) = 3
      /\ PadDim(l) = l.q[3] + Dpad(l.q[3]) /\ l.kv[3] = l.q[3]
  BY VarlenDims, CallTypes DEF PadDim
<1>2. Dims3(Padded(l.q), l.q[1], l.q[2], PadDim(l))
  BY <1>1, Padded3
<1>3. Dims3(Padded(l.kv), l.kv[1], l.kv[2], PadDim(l))
  BY <1>1, Padded3
<1> QED BY <1>2, <1>3

(* What an implementation reads in such a frame.                           *)
Understood(l) ==
  /\ B = BatchOf(l) /\ M = MaxQ(l) /\ N = MaxK(l) /\ H = Heads(l) /\ HK = HeadsK(l) /\ D = PadDim(l)
  /\ At("is_causal") = l.causal
  /\ At("window_size_left") = l.wl /\ At("window_size_right") = l.wr

(* The batched forward implementation finds the dimensions, flags and      *)
(* windows of the call in its frame.                                       *)
LEMMA ReadsFwdBatched ==
  ASSUME NEW l, Fit(l), ~ l.varlen, ~ call.varlen, dir = "forward", FwdFrameBatched(l, frame)
  PROVE  Understood(l)
<1>1. QDims = Padded(l.q) /\ KDims = Padded(l.kv)
  BY DEF QDims, KDims, J, FwdFrameBatched, Buf
<1>2. Dims4(QDims, l.q[1], l.q[2], l.q[3], PadDim(l))
  BY <1>1, PaddedBatched
<1>3. Len(KDims) = 4 /\ KDims[2] = l.kv[2] /\ KDims[3] = l.kv[3]
  BY <1>1, PaddedBatched DEF Dims4
<1>4. B = l.q[1] /\ M = l.q[2] /\ H = l.q[3] /\ D = PadDim(l) /\ N = l.kv[2] /\ HK = l.kv[3]
  BY <1>2, <1>3 DEF B, M, H, D, N, HK, Dims4
<1>5. Handler = MhaFwd
  BY DEF Handler
<1>6. /\ At("is_causal") = l.causal
      /\ At("window_size_left") = l.wl /\ At("window_size_right") = l.wr
  BY <1>5, MhaFwdValues DEF At, FwdFrameBatched, Attr
<1> QED BY <1>4, <1>6, BatchedDims DEF Understood

(* So does the varlen forward implementation.                              *)
LEMMA ReadsFwdVarlen ==
  ASSUME NEW l, Fit(l), l.varlen, call.varlen, dir = "forward", FwdFrameVarlen(l, frame)
  PROVE  Understood(l)
<1>1. QDims = Padded(l.q) /\ KDims = Padded(l.kv) /\ Fences = Len(l.cuq)
  BY DEF QDims, KDims, J, FwdFrameVarlen, Buf, Fences
<1>2. Dims3(QDims, l.q[1], l.q[2], PadDim(l)) /\ Dims3(KDims, l.kv[1], l.kv[2], PadDim(l))
  BY <1>1, PaddedVarlen
<1>5. Handler = MhaVarlenFwd
  BY DEF Handler
<1>6. /\ At("is_causal") = l.causal
      /\ At("window_size_left") = l.wl /\ At("window_size_right") = l.wr
      /\ At("max_seqlen_q") = MaxQ(l) /\ At("max_seqlen_k") = MaxK(l)
  BY <1>5, MhaVarlenFwdValues DEF At, FwdFrameVarlen, Attr
<1>4. B = BatchOf(l) /\ M = MaxQ(l) /\ H = l.q[2] /\ D = PadDim(l) /\ N = MaxK(l) /\ HK = l.kv[2]
  BY <1>1, <1>2, <1>6, VarlenDims DEF B, M, H, D, N, HK, Dims3
<1> QED BY <1>4, <1>6, VarlenDims DEF Understood

(* So does the batched backward implementation.                            *)
LEMMA ReadsBwdBatched ==
  ASSUME NEW l, Fit(l), ~ l.varlen, ~ call.varlen, dir = "backward", BwdFrameBatched(l, frame)
  PROVE  Understood(l)
<1>1. QDims = Padded(l.q) /\ KDims = Padded(l.kv)
  BY DEF QDims, KDims, J, BwdFrameBatched, BwdArgs, Buf
<1>2. Dims4(QDims, l.q[1], l.q[2], l.q[3], PadDim(l))
  BY <1>1, PaddedBatched
<1>3. Len(KDims) = 4 /\ KDims[2] = l.kv[2] /\ KDims[3] = l.kv[3]
  BY <1>1, PaddedBatched DEF Dims4
<1>4. B = l.q[1] /\ M = l.q[2] /\ H = l.q[3] /\ D = PadDim(l) /\ N = l.kv[2] /\ HK = l.kv[3]
  BY <1>2, <1>3 DEF B, M, H, D, N, HK, Dims4
<1>5. Handler = MhaBwd
  BY DEF Handler
<1>6. /\ At("is_causal") = l.causal
      /\ At("window_size_left") = l.wl /\ At("window_size_right") = l.wr
  BY <1>5, MhaBwdValues DEF At, BwdFrameBatched, Attr
<1> QED BY <1>4, <1>6, BatchedDims DEF Understood

(* So does the varlen backward implementation.                             *)
LEMMA ReadsBwdVarlen ==
  ASSUME NEW l, Fit(l), l.varlen, call.varlen, dir = "backward", BwdFrameVarlen(l, frame)
  PROVE  Understood(l)
<1>1. QDims = Padded(l.q) /\ KDims = Padded(l.kv) /\ Fences = Len(l.cuq)
  BY DEF QDims, KDims, J, BwdFrameVarlen, BwdArgs, Buf, Fences
<1>2. Dims3(QDims, l.q[1], l.q[2], PadDim(l)) /\ Dims3(KDims, l.kv[1], l.kv[2], PadDim(l))
  BY <1>1, PaddedVarlen
<1>5. Handler = MhaVarlenBwd
  BY DEF Handler
<1>6. /\ At("is_causal") = l.causal
      /\ At("window_size_left") = l.wl /\ At("window_size_right") = l.wr
      /\ At("max_seqlen_q") = MaxQ(l) /\ At("max_seqlen_k") = MaxK(l)
  BY <1>5, MhaVarlenBwdValues DEF At, BwdFrameVarlen, Attr
<1>4. B = BatchOf(l) /\ M = MaxQ(l) /\ H = l.q[2] /\ D = PadDim(l) /\ N = MaxK(l) /\ HK = l.kv[2]
  BY <1>1, <1>2, <1>6, VarlenDims DEF B, M, H, D, N, HK, Dims3
<1> QED BY <1>4, <1>6, VarlenDims DEF Understood

(* In the forward pass.                                                    *)
LEMMA ReadsFwd ==
  ASSUME NEW l, Fit(l), l.varlen = call.varlen, dir = "forward", frame = FwdFrame(l)
  PROVE  Understood(l)
<1>1. CASE l.varlen
  BY <1>1, ReadsFwdVarlen, FwdFrameIfVarlen
<1>2. CASE ~ l.varlen
  BY <1>2, ReadsFwdBatched, FwdFrameIfBatched
<1> QED BY <1>1, <1>2

(* And in the backward pass.                                               *)
LEMMA ReadsBwd ==
  ASSUME NEW l, Fit(l), l.varlen = call.varlen, dir = "backward", frame = BwdFrame(l)
  PROVE  Understood(l)
<1>1. CASE l.varlen
  BY <1>1, ReadsBwdVarlen, BwdFrameIfVarlen
<1>2. CASE ~ l.varlen
  BY <1>2, ReadsBwdBatched, BwdFrameIfBatched
<1> QED BY <1>1, <1>2

-----------------------------------------------------------------------------
(* The parameters they set.                                                *)

(* The parameters the kernels are given for a device's call.               *)
Clip(w, n)   == IF w >= n THEN -1 ELSE w
LeftOf(l)    == Clip(l.wl, MaxK(l))
FwdCausal(l) == l.causal /\ MaxQ(l) # 1
FwdRight(l)  == IF ~ l.varlen /\ FwdCausal(l) THEN 0
                ELSE Clip(IF FwdCausal(l) THEN 0 ELSE l.wr, MaxK(l))
BwdRight(l)  == Clip(IF l.causal THEN 0 ELSE l.wr, MaxK(l))

ParamsOf(l, used, right, splits) ==
  [used |-> used, b |-> BatchOf(l), sq |-> MaxQ(l), sk |-> MaxK(l), h |-> Heads(l),
   hk |-> HeadsK(l), d |-> PadDim(l),
   d_rounded |-> RoundTo(PadDim(l), 32), sq_rounded |-> RoundTo(MaxQ(l), 128),
   ratio |-> Ratio(Heads(l), HeadsK(l)),
   causal |-> LeftOf(l) < 0 /\ right = 0,
   wl |-> IF LeftOf(l) < 0 /\ right >= 0 THEN MaxK(l) ELSE LeftOf(l),
   wr |-> IF LeftOf(l) >= 0 /\ right < 0 THEN MaxK(l) ELSE right,
   splits |-> splits]

UsedGiven(l)    == l.varlen /\ l.has_used /\ l.tu = "S32"
SplitsOn(l, d)  ==
  IF l.varlen THEN 0
  ELSE Plan!Heuristic(BatchOf(l) * Heads(l) * CeilDiv(MaxQ(l), 64), d.sms,
                      CeilDiv(MaxK(l), HostBlockN(PadDim(l))), Splits(l))
FwdParams(l, d) == ParamsOf(l, UsedGiven(l), FwdRight(l), SplitsOn(l, d))
BwdParams(l)    == ParamsOf(l, FALSE, BwdRight(l), 0)

(* How many operands each handler binds, and which may be missing.         *)
LEMMA Handlers ==
  /\ Len(MhaFwd.args) = 3 /\ MhaFwd.optional = << >>
  /\ Len(MhaBwd.args) = 6 /\ MhaBwd.optional = << >>
  /\ Len(MhaVarlenFwd.args) = 5 /\ MhaVarlenFwd.optional # << >>
  /\ MhaVarlenFwd.optional[1] = "S32"
  /\ Len(MhaVarlenBwd.args) = 8 /\ MhaVarlenBwd.optional = << >>
<1>1. Len(MhaFwd.args) = 3 /\ MhaFwd.optional = << >>
  BY DEF MhaFwd
<1>2. Len(MhaBwd.args) = 6 /\ MhaBwd.optional = << >>
  BY DEF MhaBwd
<1>3. Len(MhaVarlenFwd.args) = 5 /\ Len(MhaVarlenFwd.optional) = 1 /\ MhaVarlenFwd.optional[1] = "S32"
  BY DEF MhaVarlenFwd
<1>4. Len(MhaVarlenBwd.args) = 8 /\ MhaVarlenBwd.optional = << >>
  BY DEF MhaVarlenBwd
<1> QED BY <1>1, <1>2, <1>3, <1>4

(* Whether the forward implementation is given seqused_k.                  *)
LEMMA UsedIfFwd ==
  ASSUME NEW l, Fit(l), l.varlen = call.varlen, dir = "forward", frame = FwdFrame(l)
  PROVE  OptionalGiven(Handler, frame) <=> UsedGiven(l)
<1>1. CASE ~ l.varlen
  BY <1>1, Handlers DEF OptionalGiven, Handler, UsedGiven
<1>2. CASE l.varlen
  <2>1. FwdFrameVarlen(l, frame) /\ Handler = MhaVarlenFwd
    BY <1>2, FwdFrameIfVarlen DEF Handler
  <2>2. l.has_used \in BOOLEAN
    BY CallTypes
  <2>3. CASE l.has_used
    <3>1. Len(frame.args) = 6 /\ frame.args[6].dtype = l.tu
      BY <2>1, <2>3 DEF FwdFrameVarlen, Buf
    <3>2. OptionalGiven(MhaVarlenFwd, frame) <=> Accepts("S32", frame.args[6])
      BY <3>1, Handlers DEF OptionalGiven
    <3>3. Accepts("S32", frame.args[6]) <=> l.tu = "S32"
      BY <3>1 DEF Accepts
    <3> QED BY <1>2, <2>1, <2>3, <3>2, <3>3 DEF UsedGiven
  <2>4. CASE ~ l.has_used
    <3>1. Len(frame.args) = 5
      BY <2>1, <2>4 DEF FwdFrameVarlen
    <3>2. ~ OptionalGiven(MhaVarlenFwd, frame)
      BY <3>1, Handlers DEF OptionalGiven
    <3> QED BY <2>1, <2>4, <3>2 DEF UsedGiven
  <2> QED BY <2>2, <2>3, <2>4
<1> QED BY <1>1, <1>2

(* The backward handlers know no seqused_k.                                *)
LEMMA UsedIfBwd ==
  ASSUME dir = "backward"
  PROVE  ~ OptionalGiven(Handler, frame)
<1>1. CASE call.varlen
  BY <1>1, Handlers DEF OptionalGiven, Handler
<1>2. CASE ~ call.varlen
  BY <1>2, Handlers DEF OptionalGiven, Handler
<1> QED BY <1>1, <1>2

(* The parameters the forward implementation sets are a function of the    *)
(* call and the device.                                                    *)
LEMMA SetsFwd ==
  ASSUME NEW l, Fit(l), l.varlen = call.varlen, dir = "forward", frame = FwdFrame(l)
  PROVE  SetParams = FwdParams(l, dev)
<1>1. Understood(l)
  BY ReadsFwd
<1>2. J = 1
  BY DEF J
<1>3. RoundTo(PadDim(l), 8) = PadDim(l)
  BY Dimensions
<1>4. Left = LeftOf(l)
  BY <1>1 DEF Left, LeftOf, Clamp, Clip, Understood
<1>5. Right = FwdRight(l)
  BY <1>1 DEF Right, FwdRight, Causal, FwdCausal, Clamp, Clip, Understood
<1>6. frame.rets[3].dims[1] = Splits(l)
  <2>1. FwdRets(l, frame)
    BY FwdFrameRets
  <2>2. frame.rets[3].dims = <<Splits(l), BatchOf(l), MaxQ(l), Heads(l), RoundTo(Dim(l), 32)>>
    BY <2>1 DEF FwdRets, Buf
  <2> QED BY <2>2
<1>7. OptionalGiven(Handler, frame) <=> UsedGiven(l)
  BY UsedIfFwd
<1>8. OptionalGiven(Handler, frame) = UsedGiven(l)
  <2>1. OptionalGiven(Handler, frame) \in BOOLEAN /\ UsedGiven(l) \in BOOLEAN
    BY Zenon DEF OptionalGiven, UsedGiven
  <2> QED BY <1>7, <2>1
<1>9. SetParams.splits = SplitsOn(l, dev)
  BY <1>1, <1>2, <1>6 DEF SetParams, SplitsOn, Understood
<1> QED BY <1>1, <1>2, <1>3, <1>4, <1>5, <1>8, <1>9 DEF SetParams, FwdParams, ParamsOf, Understood

(* The parameters the backward implementation sets are a function of the   *)
(* call.                                                                   *)
LEMMA SetsBwd ==
  ASSUME NEW l, Fit(l), l.varlen = call.varlen, dir = "backward", frame = BwdFrame(l)
  PROVE  SetParams = BwdParams(l)
<1>1. Understood(l)
  BY ReadsBwd
<1>2. J = 2
  BY DEF J
<1>3. Left = LeftOf(l)
  BY <1>1 DEF Left, LeftOf, Clamp, Clip, Understood
<1>4. Right = BwdRight(l)
  BY <1>1 DEF Right, BwdRight, Causal, Clamp, Clip, Understood
<1>5. OptionalGiven(Handler, frame) = FALSE
  <2>1. OptionalGiven(Handler, frame) \in BOOLEAN
    BY Zenon DEF OptionalGiven
  <2> QED BY <2>1, UsedIfBwd
<1>6. SetParams.splits = 0 /\ SetParams.d = D
  BY <1>2 DEF SetParams
<1> QED BY <1>1, <1>2, <1>3, <1>4, <1>5, <1>6 DEF SetParams, BwdParams, ParamsOf, Understood

-----------------------------------------------------------------------------
(* What the forward pass accepts, the backward pass accepts.               *)

(* What it takes for the forward implementation to accept a device's call. *)
Supported(d) == d.major = 8 \/ (d.major = 9 /\ d.minor = 0)
FwdRuns(l, d) ==
  /\ Supported(d)
  /\ l.scale \in {"None", "F64"}
  /\ l.varlen => l.lens = "S32"
  /\ BatchOf(l) > 0 /\ PadDim(l) <= 256 /\ Heads(l) % HeadsK(l) = 0
  /\ UsedGiven(l) => Len(l.used) = BatchOf(l)

(* A forward frame only decodes if the scale and the lengths had the       *)
(* right types.                                                            *)
LEMMA DecodedFwd ==
  ASSUME NEW l, Fit(l), l.varlen = call.varlen, dir = "forward", frame = FwdFrame(l),
         Decodes(Handler, frame)
  PROVE  l.scale \in {"None", "F64"} /\ (l.varlen => l.lens = "S32")
<1>1. CASE ~ l.varlen
  <2>1. FwdFrameBatched(l, frame) /\ Handler = MhaFwd
    BY <1>1, FwdFrameIfBatched DEF Handler
  <2>2. frame.attrs[2].type = "F64"
    BY <2>1, MhaFwdAttrsDecode DEF Decodes, FwdFrameBatched
  <2> QED BY <1>1, <2>1, <2>2 DEF FwdFrameBatched, Attr, ScaleType
<1>2. CASE l.varlen
  <2>1. FwdFrameVarlen(l, frame) /\ Handler = MhaVarlenFwd
    BY <1>2, FwdFrameIfVarlen DEF Handler
  <2>2. frame.attrs[4].type = "F64"
    BY <2>1, MhaVarlenFwdAttrsDecode DEF Decodes, FwdFrameVarlen
  <2>3. 4 \in DOMAIN MhaVarlenFwd.args /\ MhaVarlenFwd.args[4] = "S32"
    BY DEF MhaVarlenFwd
  <2>4. Accepts("S32", frame.args[4]) /\ frame.args[4].dtype = l.lens
    BY <2>1, <2>3 DEF Decodes, FwdFrameVarlen, Buf
  <2>5. l.lens = "S32"
    BY <2>4 DEF Accepts
  <2> QED BY <2>1, <2>2, <2>5 DEF FwdFrameVarlen, Attr, ScaleType
<1> QED BY <1>1, <1>2

(* What the checks on a forward frame say of the call it was lowered       *)
(* from.                                                                   *)
LEMMA AcceptedFwd ==
  ASSUME NEW l, Fit(l), l.varlen = call.varlen, dir = "forward", frame = FwdFrame(l),
         Decodes(Handler, frame), FwdAccepts
  PROVE  FwdRuns(l, dev)
<1>1. Understood(l)
  BY ReadsFwd
<1>2. l.scale \in {"None", "F64"} /\ (l.varlen => l.lens = "S32")
  BY DecodedFwd
<1>3. UsedGiven(l) => Len(l.used) = BatchOf(l)
  <2>1. SUFFICES ASSUME UsedGiven(l) PROVE Len(l.used) = BatchOf(l)
    OBVIOUS
  <2>2. frame.args[6].dims = <<B>>
    BY <2>1, UsedIfFwd DEF FwdAccepts, UsedAccepted
  <2>3. l.varlen /\ l.has_used
    BY <2>1 DEF UsedGiven
  <2>4. frame.args[6].dims = <<Len(l.used)>>
    <3>1. FwdFrameVarlen(l, frame)
      BY <2>3, FwdFrameIfVarlen
    <3> QED BY <2>3, <3>1 DEF FwdFrameVarlen, Buf
  <2>5. <<B>>[1] = <<Len(l.used)>>[1]
    BY <2>2, <2>4
  <2> QED BY <1>1, <2>5 DEF Understood
<1>4. BatchOf(l) > 0 /\ PadDim(l) <= 256 /\ Heads(l) % HeadsK(l) = 0
  BY <1>1 DEF FwdAccepts, Understood
<1>5. Supported(dev)
  BY DEF FwdAccepts, Supported, Sm8xAny, Sm90
<1> QED BY <1>2, <1>3, <1>4, <1>5 DEF FwdRuns

(* The frame of the backward pass decodes whenever that of the forward did. *)
LEMMA DecodesBwd ==
  ASSUME NEW l, Fit(l), l.varlen = call.varlen, dir = "backward", frame = BwdFrame(l),
         l.scale \in {"None", "F64"}, l.varlen => l.lens = "S32"
  PROVE  Decodes(Handler, frame)
<1>1. ScaleType(l) = "F64"
  BY DEF ScaleType
<1>2. BwdRets(l, frame)
  BY BwdFrameRets
<1>3. CASE ~ l.varlen
  <2>1. BwdFrameBatched(l, frame) /\ Handler = MhaBwd
    BY <1>3, BwdFrameIfBatched DEF Handler
  <2>2. CountsMatch(MhaBwd, frame)
    <3>1. Len(MhaBwd.rets) = 5
      BY DEF MhaBwd
    <3> QED BY <1>2, <2>1, <3>1, Handlers, MhaBwdAttrs DEF CountsMatch, BwdFrameBatched, BwdRets
  <2>3. \A i \in DOMAIN MhaBwd.args : Accepts(MhaBwd.args[i], frame.args[i])
    BY <2>1 DEF MhaBwd, Accepts, BwdFrameBatched, BwdArgs, Buf
  <2>4. \A i \in DOMAIN MhaBwd.rets : Accepts(MhaBwd.rets[i], frame.rets[i])
    BY <1>2 DEF MhaBwd, Accepts, BwdRets, Buf
  <2>5. \A i \in DOMAIN MhaBwd.attrs : AttrDecodes(MhaBwd, frame, i)
    BY <1>1, <2>1, MhaBwdAttrsDecode DEF BwdFrameBatched, Attr
  <2> QED BY <2>1, <2>2, <2>3, <2>4, <2>5 DEF Decodes
<1>4. CASE l.varlen
  <2>1. BwdFrameVarlen(l, frame) /\ Handler = MhaVarlenBwd
    BY <1>4, BwdFrameIfVarlen DEF Handler
  <2>2. CountsMatch(MhaVarlenBwd, frame)
    <3>1. Len(MhaVarlenBwd.rets) = 5
      BY DEF MhaVarlenBwd
    <3> QED BY <1>2, <2>1, <3>1, Handlers, MhaVarlenBwdAttrs DEF CountsMatch, BwdFrameVarlen, BwdRets
  <2>3. \A i \in DOMAIN MhaVarlenBwd.args : Accepts(MhaVarlenBwd.args[i], frame.args[i])
    BY <1>4, <2>1 DEF MhaVarlenBwd, Accepts, BwdFrameVarlen, BwdArgs, Buf
  <2>4. \A i \in DOMAIN MhaVarlenBwd.rets : Accepts(MhaVarlenBwd.rets[i], frame.rets[i])
    BY <1>2 DEF MhaVarlenBwd, Accepts, BwdRets, Buf
  <2>5. \A i \in DOMAIN MhaVarlenBwd.attrs : AttrDecodes(MhaVarlenBwd, frame, i)
    BY <2>1, MhaVarlenBwdAttrsDecode DEF BwdFrameVarlen, Attr
  <2> QED BY <2>1, <2>2, <2>3, <2>4, <2>5 DEF Decodes
<1> QED BY <1>3, <1>4

(* And is accepted, but for head dimensions a device has no memory for.    *)
BigEnough(l, d) == PadDim(l) > 192 => (d.major = 8 /\ d.minor = 0) \/ (d.major = 9 /\ d.minor = 0)

(* They suffice for those on the backward frame, if the device is big      *)
(* enough.                                                                 *)
LEMMA AcceptsBwd ==
  ASSUME NEW l, Fit(l), l.varlen = call.varlen, dir = "backward", frame = BwdFrame(l),
         FwdRuns(l, dev), SupportedTypes(l), BigEnough(l, dev)
  PROVE  BwdAccepts
<1>1. Understood(l)
  BY ReadsBwd
<1>2. BwdRets(l, frame) /\ BwdArgs(l, frame)
  BY BwdFrameRets, BwdFrameIfBatched, BwdFrameIfVarlen DEF BwdFrameBatched, BwdFrameVarlen
<1>3. SameTypes
  <2>1. J = 2
    BY DEF J
  <2>2. l.tk = l.tq /\ l.tv = l.tq /\ l.tq \in {"F16", "BF16"}
    BY DEF SupportedTypes
  <2>3. \A i \in 1 .. 5 : frame.args[i].dtype = l.tq
    BY <1>2, <2>2 DEF BwdArgs, Buf
  <2>4. \A i \in 1 .. 3 : frame.rets[i].dtype = l.tq
    BY <1>2, <2>2 DEF BwdRets, Buf
  <2>5. (1 .. J + 2) \cup (IF J = 1 THEN {} ELSE {5}) = 1 .. 5
    BY <2>1
  <2>6. (IF J = 1 THEN {1} ELSE 1 .. 3) = 1 .. 3
    BY <2>1
  <2> QED BY <2>1, <2>2, <2>3, <2>4, <2>5, <2>6 DEF SameTypes
<1>4. B > 0 /\ D % 8 = 0 /\ D <= 256 /\ H % HK = 0
  BY <1>1, Dimensions DEF FwdRuns, Understood
<1>5. Sm8xAny \/ Sm90
  BY DEF FwdRuns, Supported, Sm8xAny, Sm90
<1>6. D > 192 => (dev.major = 8 /\ dev.minor = 0) \/ Sm90
  BY <1>1 DEF BigEnough, Sm90, Understood
<1> QED BY <1>3, <1>4, <1>5, <1>6 DEF BwdAccepts

(* Also by the forward implementation's dimensions.                        *)
LEMMA ParamsTyped ==
  ASSUME NEW l, Fit(l), NEW d \in Device, FwdRuns(l, d)
  PROVE  /\ SplitsOn(l, d) \in 0 .. 128
         /\ Ratio(Heads(l), HeadsK(l)) * HeadsK(l) = Heads(l)
         /\ SplitsOn(l, d) <= Splits(l) /\ Splits(l) \in 1 .. 128
<1>1. /\ Heads(l) \in Nat \ {0} /\ HeadsK(l) \in Nat \ {0} /\ BatchOf(l) \in Nat
      /\ MaxQ(l) \in Nat /\ MaxK(l) \in Nat /\ PadDim(l) \in Nat /\ Dim(l) \in Nat
  BY Dimensions
<1>2. Ratio(Heads(l), HeadsK(l)) * HeadsK(l) = Heads(l)
  <2>1. Heads(l) % HeadsK(l) = 0
    BY DEF FwdRuns
  <2> QED BY <1>1, <2>1, ExactDivision DEF Ratio
<1>3. Splits(l) \in 1 .. 128
  <2>1. BatchOf(l) * Heads(l) * Larger(1, CeilDiv(MaxQ(l), 64)) \in Nat
    <3>1. Larger(1, CeilDiv(MaxQ(l), 64)) \in Nat
      BY <1>1 DEF Larger, CeilDiv
    <3>2. BatchOf(l) * Heads(l) \in Nat
      BY <1>1
    <3> QED BY <3>1, <3>2
  <2>2. Larger(1, CeilDiv(MaxK(l), HostBlockN(Dim(l)))) \in Nat
    <3>1. CeilDiv(MaxK(l), HostBlockN(Dim(l))) \in Nat
      BY <1>1 DEF CeilDiv, HostBlockN
    <3> QED BY <3>1 DEF Larger
  <2>. DEFINE u == BatchOf(l) * Heads(l) * Larger(1, CeilDiv(MaxQ(l), 64))
              n == Larger(1, CeilDiv(MaxK(l), HostBlockN(Dim(l))))
              sms == 114
              cap == 128
  <2>3. Splits(l) = Plan!Heuristic(u, sms, n, cap)
    BY DEF Splits
  <2>4. u \in Nat /\ sms \in Nat /\ n \in Nat /\ cap \in 1 .. 128
    BY <2>1, <2>2
  <2>. HIDE DEF u, n, sms, cap
  <2>5. Plan!Heuristic(u, sms, n, cap) \in 1 .. cap
    BY <2>4, HeuristicInRange
  <2> QED BY <2>3, <2>5 DEF cap
<1>4. SplitsOn(l, d) \in 0 .. 128 /\ SplitsOn(l, d) <= Splits(l)
  <2>1. CASE l.varlen
    BY <1>3, <2>1 DEF SplitsOn
  <2>2. CASE ~ l.varlen
    <3>1. BatchOf(l) * Heads(l) * CeilDiv(MaxQ(l), 64) \in Nat
      <4>1. CeilDiv(MaxQ(l), 64) \in Nat
        BY <1>1 DEF CeilDiv
      <4>2. BatchOf(l) * Heads(l) \in Nat
        BY <1>1
      <4> QED BY <4>1, <4>2
    <3>2. CeilDiv(MaxK(l), HostBlockN(PadDim(l))) \in Nat
      BY <1>1 DEF CeilDiv, HostBlockN
    <3>3. d.sms \in Nat
      BY DEF Device
    <3>4. SplitsOn(l, d) \in 1 .. Splits(l)
      BY <1>3, <2>2, <3>1, <3>2, <3>3, HeuristicInRange DEF SplitsOn
    <3> QED BY <1>3, <3>4
  <2> QED BY <2>1, <2>2
<1> QED BY <1>2, <1>3, <1>4

-----------------------------------------------------------------------------
(* The inductive invariant.                                                *)

(* A device's part of an accepted call.                                    *)
LEMMA LocalAccepted ==
  ASSUME NEW c, Callable(c), ND \in Nat \ {0}, FrontendAccepts(c), c.varlen \/ PartitionFwd(c)
  PROVE  /\ Fit(Local(c)) /\ Local(c).varlen = c.varlen
         /\ SupportedTypes(Local(c)) /\ PadDim(Local(c)) = PadDim(c)
         /\ MaxQ(Local(c)) = MaxQ(c) /\ MaxK(Local(c)) = MaxK(c)
         /\ ~ c.varlen => Local(c).q[1] = Local(c).kv[1] /\ Local(c).q[4] = Local(c).kv[4]
<1>1. c \in Call
  BY DEF Callable
<1>2. Fit(Local(c)) /\ Local(c).varlen = c.varlen
  BY <1>1, LocalFits, LocalFields
<1>3. SupportedTypes(Local(c))
  BY <1>1, LocalFields DEF FrontendAccepts, BatchedAccepted, VarlenAccepted, SupportedTypes
<1>4. CASE c.varlen
  BY <1>2, <1>3, <1>4, LocalVarlen
<1>5. CASE ~ c.varlen
  <2>. DEFINE l == Local(c)
  <2>1. /\ l.q = Part(c.q, c.qaxis) /\ l.kv = Part(c.kv, c.qaxis)
        /\ c.q \in Seq(Nat) /\ Len(c.q) = 4 /\ c.kv \in Seq(Nat) /\ Len(c.kv) = 4
        /\ c.q[1] = c.kv[1] /\ c.q[4] = c.kv[4]
        /\ c.qaxis \in {"none", "n", "h"} /\ Shards(c.q, c.qaxis) /\ Shards(c.kv, c.qaxis)
    <3>1. l.q = Part(c.q, c.qaxis) /\ l.kv = Part(c.kv, c.kaxis)
      BY <1>5, LocalBatched
    <3>2. c.q \in Seq(Nat) /\ Len(c.q) = 4 /\ c.kv \in Seq(Nat) /\ Len(c.kv) = 4
          /\ Shards(c.q, c.qaxis) /\ Shards(c.kv, c.kaxis)
      BY <1>1, <1>5 DEF Callable, Call
    <3>3. c.q[1] = c.kv[1] /\ c.q[4] = c.kv[4]
      BY <1>5 DEF FrontendAccepts, BatchedAccepted
    <3>4. c.qaxis = c.kaxis /\ c.qaxis \notin {"d", "s"}
      BY <1>5 DEF PartitionFwd
    <3>5. c.qaxis \in {"none", "n", "h"}
      BY <3>2, <3>4 DEF Shards
    <3> QED BY <3>1, <3>2, <3>3, <3>4, <3>5
  <2>2. /\ l.q[2] = c.q[2] /\ l.q[4] = c.q[4] /\ l.kv[2] = c.kv[2] /\ l.kv[4] = c.kv[4]
        /\ l.q[1] = l.kv[1] /\ Len(l.q) = 4
    <3>1. CASE c.qaxis = "none"
      BY <2>1, <3>1 DEF Part
    <3>2. CASE c.qaxis \in {"n", "h"}
      <4>. DEFINE p == Place(c.qaxis)
      <4>1. p \in {1, 3}
        BY <3>2, Places
      <4>2. l.q = WithDim(c.q, p, c.q[p] \div ND) /\ l.kv = WithDim(c.kv, p, c.kv[p] \div ND)
        BY <2>1, <3>2 DEF Part
      <4>3. c.q[p] \div ND \in Nat /\ c.kv[p] \div ND \in Nat
        <5>1. c.q[p] \in Nat /\ c.kv[p] \in Nat
          BY <2>1, <4>1, ElementOfSeq
        <5>. HIDE DEF p
        <5> QED BY <5>1
      <4>. HIDE DEF l, p
      <4>4. Replaced(c.q, p, c.q[p] \div ND, l.q)
        BY <2>1, <4>1, <4>2, <4>3, WithDim4
      <4>5. Replaced(c.kv, p, c.kv[p] \div ND, l.kv)
        BY <2>1, <4>1, <4>2, <4>3, WithDim4
      <4> QED BY <2>1, <4>1, <4>4, <4>5 DEF Replaced
    <3> QED BY <2>1, <3>1, <3>2
  <2>3. MaxQ(c) = c.q[2] /\ MaxK(c) = c.kv[2] /\ Dim(c) = c.q[4]
    BY <1>5, <2>1 DEF MaxQ, MaxK, Dim
  <2>. HIDE DEF l
  <2>4. ~ l.varlen
    BY <1>2, <1>5 DEF l
  <2>5. MaxQ(l) = l.q[2] /\ MaxK(l) = l.kv[2] /\ Dim(l) = l.q[4]
    BY <2>2, <2>4 DEF MaxQ, MaxK, Dim
  <2>6. MaxQ(l) = MaxQ(c) /\ MaxK(l) = MaxK(c) /\ PadDim(l) = PadDim(c)
    BY <2>2, <2>3, <2>5 DEF PadDim
  <2>7. l.q[1] = l.kv[1] /\ l.q[4] = l.kv[4]
    BY <2>1, <2>2
  <2> QED BY <1>2, <1>3, <2>6, <2>7 DEF l
<1> QED BY <1>4, <1>5

-----------------------------------------------------------------------------
Mine == Local(call)

(* What a device can launch for it: the grids of its kernels.              *)
Launchable(l) == MaxQ(l) >= 1 /\ MaxK(l) >= 1 /\ BatchOf(l) <= 65535 /\ Heads(l) <= 65535
Keyless(l)    == MaxK(l) = 0 /\ l.varlen

Ops    == {"fwd", "split", "combine", "dot_do_o", "dq_dk_dv", "convert_dq"}
Launch == [op : Ops, grid : Seq(Int), smem : Nat]

(* The call has passed every test before the one that comes next.          *)
Passed ==
  /\ FrontendAccepts(call) \/ (dir = "forward" /\ pc \in {"trace", "rejected"})
  /\ \/ call.varlen \/ PartitionFwd(call)
     \/ dir = "forward" /\ pc \in {"trace", "partition", "rejected"}
  /\ dir = "backward" /\ pc \notin {"trace", "rejected"} => MaskFits(call)
  /\ pc = "check" => Decodes(Handler, frame)

(* Its frame is the one lowered for the pass.                              *)
Lowered ==
  pc \in {"handler", "check", "launch", "returned", "failed", "aborted"} =>
    frame = IF dir = "forward" THEN FwdFrame(Mine) ELSE BwdFrame(Mine)

(* The parameters set are those of the passes whose implementation ran.    *)
Ran == pc \in {"launch", "returned", "aborted"}
Written ==
  \/ dir = "forward" /\ ~ Ran /\ params = << >>
  \/ /\ dir = "forward" /\ (Ran \/ pc = "failed") /\ params = <<FwdParams(Mine, dev)>>
     /\ FwdRuns(Mine, dev)
  \/ dir = "backward" /\ ~ Ran /\ params = <<FwdParams(Mine, dev)>> /\ FwdRuns(Mine, dev)
  \/ /\ dir = "backward" /\ (Ran \/ pc = "failed")
     /\ params = <<FwdParams(Mine, dev), BwdParams(Mine)>> /\ FwdRuns(Mine, dev)

(* What is to be launched has the shared memory it asks for; and when the  *)
(* first kernel of the forward pass could be launched, those of the        *)
(* backward pass can be.                                                   *)
Scheduled ==
  /\ todo \in Seq({k \in Launch : k.smem <= dev.smem_block})
  /\ dir = "forward" /\ pc \in {"launch", "returned"} =>
       \/ Keyless(Mine) \/ Launchable(Mine)
       \/ pc = "launch" /\ todo # << >> /\ (LaunchOk(Head(todo)) => Launchable(Mine))
  /\ dir = "backward" => Keyless(Mine) \/ Launchable(Mine)

Trains ==
  dir = "backward" /\ ~ NoGradient(call, dev) =>
    /\ pc \notin {"rejected", "failed", "aborted"}
    /\ pc = "launch" => \A i \in DOMAIN todo : LaunchOk(todo[i])

HostInv ==
  /\ [call |-> call, dev |-> dev] \in Calls
  /\ dir \in {"forward", "backward"}
  /\ pc \in {"trace", "partition", "lower", "handler", "check", "launch", "returned",
             "rejected", "failed", "aborted"}
  /\ Passed /\ Lowered /\ Written /\ Scheduled /\ Trains

-----------------------------------------------------------------------------
(* The kernels that are launched.                                          *)

(* Dividing and rounding up.                                               *)
RoundsUp(a, m) ==
  /\ CeilDiv(a, m) \in Nat /\ (CeilDiv(a, m) >= 1 <=> a >= 1)
  /\ RoundTo(a, m) \in Nat /\ RoundTo(a, m) >= a /\ RoundTo(a, m) <= a + m - 1

(* Rounding to a multiple, and counting the multiples.                     *)
LEMMA Ceilings ==
  ASSUME NEW a \in Nat, NEW m \in Nat, m > 0
  PROVE  RoundsUp(a, m)
<1>. DEFINE x == a + m - 1
            c == x \div m
            r == x % m
<1>1. x = c * m + r
  <2>1. x \in Nat
    OBVIOUS
  <2>. HIDE DEF x
  <2> QED BY <2>1
<1>2. c \in Nat /\ r \in Nat /\ r < m /\ x \in Nat
  <2>1. x \in Nat
    OBVIOUS
  <2>. HIDE DEF x
  <2> QED BY <2>1
<1>3. CeilDiv(a, m) = c /\ RoundTo(a, m) = c * m
  BY DEF CeilDiv, RoundTo
<1>4. x = a + m - 1
  OBVIOUS
<1>. HIDE DEF x, c, r
<1>5. c * m \in Nat
  BY <1>2
<1>6. c >= 1 => c * m >= m
  BY <1>2
<1>7. c = 0 => c * m = 0
  BY <1>2
<1>. DEFINE y == c * m
<1>. HIDE DEF y
<1>8. y \in Nat /\ x = y + r /\ (c >= 1 => y >= m) /\ (c = 0 => y = 0)
  BY <1>1, <1>5, <1>6, <1>7 DEF y
<1>9. y >= a /\ y <= a + m - 1 /\ (c >= 1 <=> a >= 1)
  BY <1>2, <1>4, <1>8
<1> QED BY <1>2, <1>3, <1>8, <1>9 DEF y, RoundsUp

(* Sizes of the forward and split instances.                               *)
LEMMA FwdTiles ==
  ASSUME NEW dim \in HeadDims, NEW gpu, NEW causal \in BOOLEAN, NEW t,
         t = FwdTraits(dim, gpu, causal) \/ t = SplitTraits(dim)
  PROVE  t.m \in {64, 128} /\ FwdSmem(t) \in Nat /\ t.dim = dim
<1>1. t.m \in {64, 128} /\ t.n \in {32, 64, 128, 256} /\ t.dim = dim
  BY DEF HeadDims, FwdTraits, SplitTraits, FwdShape, Fwd96, Fwd128, Fwd256
<1> QED BY <1>1 DEF FwdSmem, HeadDims

(* Sizes of the backward instances.                                        *)
LEMMA BwdTiles ==
  ASSUME NEW gpu \in Device, NEW dim \in HeadDims
  PROVE  LET t == BwdTraits(dim, gpu)
         IN  t.m \in {64, 128} /\ t.n \in {32, 64, 128} /\ BwdSmem(t) \in Nat /\ ConvertSmem(t) \in Nat
<1>. DEFINE t == BwdTraits(dim, gpu)
<1>1. gpu.smem_block \in Nat
  BY DEF Device
<1>2. t.m \in {64, 128} /\ t.n \in {32, 64, 128} /\ t.dim \in Nat /\ t.qs \in {1, 2} /\ t.kv \in {1, 2}
  BY <1>1 DEF HeadDims, BwdTraits, BwdShape, Bwd64, Bwd128, Bwd192, Bwd256
<1>. HIDE DEF t
<1>3. BwdSmem(t) \in Nat /\ ConvertSmem(t) \in Nat
  BY <1>2 DEF BwdSmem, ConvertSmem, Larger
<1> QED BY <1>2, <1>3 DEF t

Schedulable(d) == {k \in Launch : k.smem <= d.smem_block}

Launches(k, x, y, z, smem) ==
  k \in Launch /\ k.grid[1] = x /\ k.grid[2] = y /\ k.grid[3] = z /\ k.smem = smem

(* A kernel put together is one to launch.                                 *)
LEMMA KernelTyped ==
  ASSUME NEW op \in Ops, NEW x \in Int, NEW y \in Int, NEW z \in Int, NEW smem \in Nat
  PROVE  Launches(Kernel(op, x, y, z, smem), x, y, z, smem)
BY DEF Kernel, Launch, Launches

(* A grid of examples times heads that can be launched has few of either.  *)
LEMMA SplitGrid ==
  ASSUME NEW b \in Nat \ {0}, NEW h \in Nat \ {0}, b * h <= 65535
  PROVE  b <= 65535 /\ h <= 65535
<1>1. b * h >= b /\ b * h >= h
  OBVIOUS
<1>2. b * h \in Nat
  OBVIOUS
<1> QED BY <1>1, <1>2

(* The parameters of a pass, by type.                                      *)
Typed(p) ==
  /\ p.b \in Nat \ {0} /\ p.h \in Nat \ {0} /\ p.sq \in Nat /\ p.sk \in Nat
  /\ p.d \in 1 .. 256 /\ p.causal \in BOOLEAN /\ p.splits \in 0 .. 128

(* Without splits the first kernel can only be launched if there are       *)
(* queries, and not too many examples or heads.                            *)
LEMMA FwdKernelsFit ==
  ASSUME NEW p, Typed(p), dev \in Device, Enough(dev)
  PROVE  /\ FwdKernels(p) \in Seq(Schedulable(dev)) /\ FwdKernels(p) # << >>
         /\ LaunchOk(Head(FwdKernels(p))) => p.sq >= 1 /\ p.b <= 65535 /\ p.h <= 65535
<1>. DEFINE dim == HeadDim(p.d)
            t == FwdTraits(dim, dev, p.causal)
            k == Kernel("fwd", CeilDiv(p.sq, t.m), p.b, p.h, FwdSmem(t))
<1>1. dim \in HeadDims
  BY HeadDimIs DEF Typed
<1>2. FwdSmem(t) <= dev.smem_block
  BY <1>1, ForwardSuits DEF Typed
<1>3. t.m \in {64, 128} /\ FwdSmem(t) \in Nat
  BY <1>1, FwdTiles DEF Typed
<1>4. FwdKernels(p) = <<k>>
  BY DEF FwdKernels
<1>. HIDE DEF t
<1>5. CeilDiv(p.sq, t.m) \in Nat /\ (CeilDiv(p.sq, t.m) >= 1 <=> p.sq >= 1)
  <2>1. p.sq \in Nat /\ t.m \in Nat /\ t.m > 0
    BY <1>3 DEF Typed
  <2>2. RoundsUp(p.sq, t.m)
    BY <2>1, Ceilings
  <2> QED BY <2>2 DEF RoundsUp
<1>6. Launches(k, CeilDiv(p.sq, t.m), p.b, p.h, FwdSmem(t))
  <2>1. "fwd" \in Ops /\ CeilDiv(p.sq, t.m) \in Int /\ p.b \in Int /\ p.h \in Int
    BY <1>5 DEF Typed, Ops
  <2> QED BY <1>3, <2>1, KernelTyped
<1>. HIDE DEF k
<1>7. k \in Schedulable(dev)
  BY <1>2, <1>6 DEF Schedulable, Launches
<1>8. LaunchOk(k) => p.sq >= 1 /\ p.b <= 65535 /\ p.h <= 65535
  BY <1>5, <1>6 DEF LaunchOk, Launches
<1> QED BY <1>4, <1>7, <1>8

(* The same of the split kernel, which comes first if there are splits.    *)
LEMMA SplitKernelsFit ==
  ASSUME NEW p, Typed(p), dev \in Device, Enough(dev)
  PROVE  /\ SplitKernels(p) \in Seq(Schedulable(dev)) /\ SplitKernels(p) # << >>
         /\ LaunchOk(Head(SplitKernels(p))) => p.sq >= 1 /\ p.b <= 65535 /\ p.h <= 65535
<1>. DEFINE dim == HeadDim(p.d)
            t == SplitTraits(dim)
            k == Kernel("split", CeilDiv(p.sq, t.m), p.splits, p.b * p.h, FwdSmem(t))
            c == Kernel("combine", CeilDiv(p.b * p.h * p.sq, CombineRows(t.dim)), 1, 1, 0)
<1>1. dim \in HeadDims
  BY HeadDimIs DEF Typed
<1>2. FwdSmem(t) <= dev.smem_block /\ dev.smem_block \in Nat
  BY <1>1, SplitSuits DEF Device
<1>3. t.m \in {64, 128} /\ FwdSmem(t) \in Nat /\ t.dim = dim
  <2>1. TRUE \in BOOLEAN
    OBVIOUS
  <2> QED BY <1>1, <2>1, FwdTiles
<1>4. SplitKernels(p) = <<k, c>>
  BY DEF SplitKernels
<1>. HIDE DEF t
<1>5. CeilDiv(p.sq, t.m) \in Nat /\ (CeilDiv(p.sq, t.m) >= 1 <=> p.sq >= 1)
  <2>1. p.sq \in Nat /\ t.m \in Nat /\ t.m > 0
    BY <1>3 DEF Typed
  <2>2. RoundsUp(p.sq, t.m)
    BY <2>1, Ceilings
  <2> QED BY <2>2 DEF RoundsUp
<1>6. p.b * p.h \in Nat
  BY DEF Typed
<1>7. Launches(k, CeilDiv(p.sq, t.m), p.splits, p.b * p.h, FwdSmem(t))
  <2>1. "split" \in Ops /\ CeilDiv(p.sq, t.m) \in Int /\ p.splits \in Int /\ p.b * p.h \in Int
    BY <1>5, <1>6 DEF Typed, Ops
  <2> QED BY <1>3, <2>1, KernelTyped
<1>8. Launches(c, CeilDiv(p.b * p.h * p.sq, CombineRows(t.dim)), 1, 1, 0)
  <2>1. CombineRows(t.dim) \in Nat /\ CombineRows(t.dim) > 0
    BY DEF CombineRows
  <2>2. p.b * p.h * p.sq \in Nat
    BY <1>6 DEF Typed
  <2>3. RoundsUp(p.b * p.h * p.sq, CombineRows(t.dim))
    BY <2>1, <2>2, Ceilings
  <2>. DEFINE x == CeilDiv(p.b * p.h * p.sq, CombineRows(t.dim))
              one == 1
              none == 0
  <2>4. "combine" \in Ops /\ x \in Int /\ one \in Int /\ none \in Nat
    BY <2>3 DEF RoundsUp, Ops
  <2>5. c = Kernel("combine", x, one, one, none)
    OBVIOUS
  <2>. HIDE DEF x, one, none, c
  <2>6. Launches(c, x, one, one, none)
    BY <2>4, <2>5, KernelTyped
  <2> QED BY <2>6 DEF x, one, none
<1>. HIDE DEF k, c
<1>9. k \in Schedulable(dev) /\ c \in Schedulable(dev)
  BY <1>2, <1>7, <1>8 DEF Schedulable, Launches
<1>10. ASSUME LaunchOk(k) PROVE p.sq >= 1 /\ p.b <= 65535 /\ p.h <= 65535
  <2>1. p.sq >= 1 /\ p.b * p.h <= 65535
    BY <1>5, <1>7, <1>10 DEF LaunchOk, Launches
  <2> QED BY <2>1, SplitGrid DEF Typed
<1> QED BY <1>4, <1>9, <1>10

(* That and some keys suffice for all kernels of the backward pass.        *)
LEMMA BwdKernelsFit ==
  ASSUME NEW p, Typed(p), dev \in Device, Enough(dev)
  PROVE  /\ BwdKernels(p) \in Seq(Schedulable(dev))
         /\ p.sq >= 1 /\ p.sk >= 1 /\ p.b <= 65535 /\ p.h <= 65535
              => \A i \in DOMAIN BwdKernels(p) : LaunchOk(BwdKernels(p)[i])
<1>. DEFINE dim == HeadDim(p.d)
            t == BwdTraits(dim, dev)
            m == CeilDiv(p.sq, t.m)
            x == Kernel("dot_do_o", m, p.b, p.h, 0)
            y == Kernel("dq_dk_dv", CeilDiv(p.sk, t.n), p.b, p.h, BwdSmem(t))
            z == Kernel("convert_dq", m, p.b, p.h, ConvertSmem(t))
<1>1. dim \in HeadDims
  BY HeadDimIs DEF Typed
<1>2. BwdSmem(t) <= dev.smem_block /\ ConvertSmem(t) <= dev.smem_block /\ dev.smem_block \in Nat
  BY <1>1, BackwardSuits DEF BwdSuits, Device
<1>3. t.m \in {64, 128} /\ t.n \in {32, 64, 128} /\ BwdSmem(t) \in Nat /\ ConvertSmem(t) \in Nat
  BY <1>1, BwdTiles
<1>4. BwdKernels(p) = <<x, y, z>>
  BY DEF BwdKernels
<1>. HIDE DEF t
<1>5. m \in Nat /\ (m >= 1 <=> p.sq >= 1)
  <2>1. p.sq \in Nat /\ t.m \in Nat /\ t.m > 0
    BY <1>3 DEF Typed
  <2>2. RoundsUp(p.sq, t.m)
    BY <2>1, Ceilings
  <2> QED BY <2>2 DEF RoundsUp
<1>6. CeilDiv(p.sk, t.n) \in Nat /\ (CeilDiv(p.sk, t.n) >= 1 <=> p.sk >= 1)
  <2>1. p.sk \in Nat /\ t.n \in Nat /\ t.n > 0
    BY <1>3 DEF Typed
  <2>2. RoundsUp(p.sk, t.n)
    BY <2>1, Ceilings
  <2> QED BY <2>2 DEF RoundsUp
<1>. HIDE DEF m
<1>12. p.b \in Int /\ p.h \in Int /\ m \in Int /\ CeilDiv(p.sk, t.n) \in Int
  BY <1>5, <1>6 DEF Typed
<1>7. Launches(x, m, p.b, p.h, 0)
  <2>. DEFINE none == 0
  <2>1. x = Kernel("dot_do_o", m, p.b, p.h, none) /\ none \in Nat /\ "dot_do_o" \in Ops
    BY DEF Ops
  <2>. HIDE DEF x, none
  <2>2. Launches(x, m, p.b, p.h, none)
    BY <1>12, <2>1, KernelTyped
  <2> QED BY <2>2 DEF none
<1>8. Launches(y, CeilDiv(p.sk, t.n), p.b, p.h, BwdSmem(t))
  <2>1. "dq_dk_dv" \in Ops
    BY DEF Ops
  <2> QED BY <1>3, <1>12, <2>1, KernelTyped
<1>9. Launches(z, m, p.b, p.h, ConvertSmem(t))
  <2>1. "convert_dq" \in Ops
    BY DEF Ops
  <2> QED BY <1>3, <1>12, <2>1, KernelTyped
<1>. HIDE DEF x, y, z
<1>10. x \in Schedulable(dev) /\ y \in Schedulable(dev) /\ z \in Schedulable(dev)
  BY <1>2, <1>7, <1>8, <1>9 DEF Schedulable, Launches
<1>11. ASSUME p.sq >= 1 /\ p.sk >= 1 /\ p.b <= 65535 /\ p.h <= 65535
       PROVE  LaunchOk(x) /\ LaunchOk(y) /\ LaunchOk(z)
  <2>1. p.b >= 1 /\ p.h >= 1
    BY DEF Typed
  <2>2. LaunchOk(x)
    BY <1>2, <1>5, <1>7, <1>11, <2>1 DEF LaunchOk, Launches
  <2>3. LaunchOk(y)
    BY <1>2, <1>6, <1>8, <1>11, <2>1 DEF LaunchOk, Launches
  <2>4. LaunchOk(z)
    BY <1>2, <1>5, <1>9, <1>11, <2>1 DEF LaunchOk, Launches
  <2> QED BY <2>2, <2>3, <2>4
<1> QED BY <1>4, <1>10, <1>11

(* The parameters of a call that the forward pass accepts, for both        *)
(* passes.                                                                 *)
LEMMA ParamsTypedFwd ==
  ASSUME NEW l, Fit(l), dev \in Device, FwdRuns(l, dev)
  PROVE  Typed(FwdParams(l, dev)) /\ Typed(BwdParams(l))
<1>1. SplitsOn(l, dev) \in 0 .. 128
  BY ParamsTyped
<1>2. /\ BatchOf(l) \in Nat \ {0} /\ Heads(l) \in Nat \ {0} /\ MaxQ(l) \in Nat /\ MaxK(l) \in Nat
      /\ PadDim(l) \in 1 .. 256
  <2>1. PadDim(l) \in Nat \ {0} /\ PadDim(l) <= 256 /\ BatchOf(l) > 0
    BY Dimensions DEF FwdRuns
  <2> QED BY <2>1, Dimensions
<1>3. Typed(FwdParams(l, dev))
  BY <1>1, <1>2 DEF Typed, FwdParams, ParamsOf
<1>4. Typed(BwdParams(l))
  BY <1>2 DEF Typed, BwdParams, ParamsOf
<1> QED BY <1>3, <1>4

-----------------------------------------------------------------------------
(* Every step preserves the invariant.                                     *)

(* What is assumed of the call and the device.                             *)
LEMMA Here ==
  ASSUME [call |-> call, dev |-> dev] \in Calls
  PROVE  Callable(call) /\ dev \in Device /\ (Supported(dev) => Enough(dev)) /\ ND \in Nat \ {0}
BY HostCallAssumption DEF Supported

(* The device's part of the call.                                          *)
LEMMA MineIs ==
  ASSUME HostInv, FrontendAccepts(call), call.varlen \/ PartitionFwd(call)
  PROVE  /\ Fit(Mine) /\ Mine.varlen = call.varlen /\ SupportedTypes(Mine)
         /\ PadDim(Mine) = PadDim(call) /\ MaxK(Mine) = MaxK(call)
BY Here, LocalAccepted DEF HostInv, Mine

(* The invariant holds before the first step.                              *)
LEMMA InitHolds ==
  ASSUME Init
  PROVE  HostInv
<1>1. PICK x \in Calls : call = x.call /\ dev = x.dev
  BY DEF Init
<1>2. x = [call |-> x.call, dev |-> x.dev]
  BY HostCallAssumption
<1>3. [call |-> call, dev |-> dev] \in Calls
  BY <1>1, <1>2
<1>4. dir = "forward" /\ pc = "trace" /\ params = << >> /\ todo = << >>
  BY DEF Init
<1>5. Passed /\ Lowered /\ Written /\ Trains
  BY <1>4 DEF Passed, Lowered, Written, Trains, Ran
<1>6. Scheduled
  BY <1>4 DEF Scheduled
<1> QED BY <1>3, <1>4, <1>5, <1>6 DEF HostInv

(* Trace preserves it: both passes are traced from a call with its types.  *)
LEMMA TraceKeeps ==
  ASSUME HostInv, Trace
  PROVE  HostInv'
<1>1. pc = "trace" /\ pc' \in {"partition", "rejected"}
      /\ (pc' = "partition" <=> IF dir = "forward" THEN FrontendAccepts(call) ELSE MaskFits(call))
      /\ call' = call /\ dev' = dev /\ dir' = dir /\ frame' = frame /\ params' = params /\ todo' = todo
  BY DEF Trace
<1>2. Passed'
  BY <1>1 DEF HostInv, Passed
<1>3. Lowered'
  BY <1>1 DEF Lowered
<1>4. Written'
  BY <1>1 DEF HostInv, Written, Ran, Mine
<1>5. Scheduled'
  BY <1>1 DEF HostInv, Scheduled, Mine
<1>6. Trains'
  BY <1>1 DEF HostInv, Trains, NoGradient, MaskFits
<1> QED BY <1>1, <1>2, <1>3, <1>4, <1>5, <1>6 DEF HostInv

(* Partition preserves it: a backward pass has the shardings of its        *)
(* forward pass.                                                           *)
LEMMA PartitionKeeps ==
  ASSUME HostInv, Partition
  PROVE  HostInv'
<1>1. pc = "partition" /\ pc' \in {"lower", "rejected"}
      /\ (pc' = "lower" <=>
            call.varlen \/ IF dir = "forward" THEN PartitionFwd(call) ELSE PartitionBwd(call))
      /\ call' = call /\ dev' = dev /\ dir' = dir /\ frame' = frame /\ params' = params /\ todo' = todo
  BY DEF Partition
<1>2. Passed'
  BY <1>1 DEF HostInv, Passed
<1>3. Lowered'
  BY <1>1 DEF Lowered
<1>4. Written'
  BY <1>1 DEF HostInv, Written, Ran, Mine
<1>5. Scheduled'
  BY <1>1 DEF HostInv, Scheduled, Mine
<1>6. Trains'
  BY <1>1 DEF HostInv, Trains, Passed, PartitionFwd, PartitionBwd
<1> QED BY <1>1, <1>2, <1>3, <1>4, <1>5, <1>6 DEF HostInv

(* Lower preserves it: the frame is the one of this pass.                  *)
LEMMA LowerKeeps ==
  ASSUME HostInv, Lower
  PROVE  HostInv'
<1>1. pc = "lower" /\ pc' = "handler"
      /\ frame' = (IF dir = "forward" THEN FwdFrame(Mine) ELSE BwdFrame(Mine))
      /\ call' = call /\ dev' = dev /\ dir' = dir /\ params' = params /\ todo' = todo
  BY DEF Lower, Mine
<1>2. Passed'
  BY <1>1 DEF HostInv, Passed
<1>3. Lowered'
  BY <1>1 DEF Lowered, Mine
<1>4. Written'
  BY <1>1 DEF HostInv, Written, Ran, Mine
<1>5. Scheduled'
  BY <1>1 DEF HostInv, Scheduled, Mine
<1>6. Trains'
  BY <1>1 DEF HostInv, Trains
<1> QED BY <1>1, <1>2, <1>3, <1>4, <1>5, <1>6 DEF HostInv

(* Decode preserves it: a backward frame decodes if its forward frame      *)
(* did.                                                                    *)
LEMMA DecodeKeeps ==
  ASSUME HostInv, Decode
  PROVE  HostInv'
<1>1. pc = "handler" /\ pc' \in {"check", "failed"}
      /\ (pc' = "check" <=> Decodes(Handler, frame))
      /\ call' = call /\ dev' = dev /\ dir' = dir /\ frame' = frame /\ params' = params /\ todo' = todo
  BY DEF Decode
<1>2. Handler' = Handler
  BY <1>1 DEF Handler
<1>3. Passed'
  BY <1>1, <1>2 DEF HostInv, Passed
<1>4. Lowered'
  BY <1>1 DEF HostInv, Lowered, Mine
<1>5. Written'
  BY <1>1 DEF HostInv, Written, Ran, Mine
<1>6. Scheduled'
  BY <1>1 DEF HostInv, Scheduled, Mine
<1>7. Trains'
  <2>1. SUFFICES ASSUME dir = "backward", ~ NoGradient(call, dev) PROVE Decodes(Handler, frame)
    BY <1>1 DEF Trains
  <2>2. FrontendAccepts(call) /\ (call.varlen \/ PartitionFwd(call))
    BY <1>1, <2>1 DEF HostInv, Passed
  <2>3. frame = BwdFrame(Mine) /\ FwdRuns(Mine, dev)
    BY <1>1, <2>1 DEF HostInv, Lowered, Written
  <2>4. Fit(Mine) /\ Mine.varlen = call.varlen
    BY <2>2, MineIs
  <2> QED BY <2>1, <2>3, <2>4, DecodesBwd DEF FwdRuns
<1> QED BY <1>1, <1>3, <1>4, <1>5, <1>6, <1>7 DEF HostInv

(* A call whose gradient is not among those refused has the memory for it. *)
LEMMA BigEnoughIf ==
  ASSUME HostInv, FrontendAccepts(call), call.varlen \/ PartitionFwd(call), ~ NoGradient(call, dev)
  PROVE  BigEnough(Mine, dev) /\ ~ Keyless(Mine)
BY MineIs DEF BigEnough, NoGradient, PadDim, Keyless

(* Refuse preserves it: the backward checks pass if the forward checks     *)
(* did.                                                                    *)
LEMMA RefuseKeeps ==
  ASSUME HostInv, Refuse
  PROVE  HostInv'
<1>1. pc = "check" /\ pc' = "failed" /\ ~ (IF dir = "forward" THEN FwdAccepts ELSE BwdAccepts)
      /\ call' = call /\ dev' = dev /\ dir' = dir /\ frame' = frame /\ params' = params /\ todo' = todo
  BY DEF Refuse
<1>2. Passed'
  BY <1>1 DEF HostInv, Passed
<1>3. Lowered'
  BY <1>1 DEF HostInv, Lowered, Mine
<1>4. Written'
  BY <1>1 DEF HostInv, Written, Ran, Mine
<1>5. Scheduled'
  BY <1>1 DEF HostInv, Scheduled, Mine
<1>6. Trains'
  <2>1. SUFFICES ASSUME dir = "backward", ~ NoGradient(call, dev) PROVE BwdAccepts
    BY <1>1 DEF Trains
  <2>2. FrontendAccepts(call) /\ (call.varlen \/ PartitionFwd(call))
    BY <1>1, <2>1 DEF HostInv, Passed
  <2>3. frame = BwdFrame(Mine) /\ FwdRuns(Mine, dev)
    BY <1>1, <2>1 DEF HostInv, Lowered, Written
  <2>4. Fit(Mine) /\ Mine.varlen = call.varlen /\ SupportedTypes(Mine)
    BY <2>2, MineIs
  <2>5. BigEnough(Mine, dev)
    BY <2>1, <2>2, BigEnoughIf
  <2> QED BY <2>1, <2>3, <2>4, <2>5, AcceptsBwd
<1> QED BY <1>1, <1>2, <1>3, <1>4, <1>5, <1>6 DEF HostInv

(* A second set of parameters follows the first.                           *)
LEMMA SecondAppended ==
  ASSUME NEW a, NEW b
  PROVE  Append(<<a>>, b) = <<a, b>>
<1>. DEFINE S == {a, b}
            s == Append(<<a>>, b)
            t == <<a, b>>
<1>1. s \in Seq(S) /\ t \in Seq(S) /\ Len(s) = 2 /\ Len(t) = 2
  OBVIOUS
<1>2. s[1] = a /\ s[2] = b /\ t[1] = a /\ t[2] = b
  OBVIOUS
<1>. HIDE DEF s, t
<1>3. \A i \in 1 .. Len(s) : s[i] = t[i]
  BY <1>1, <1>2
<1>4. s = t
  BY <1>1, <1>3, SeqEqual
<1> QED BY <1>4 DEF s, t

(* AcceptFwd preserves it: it writes the parameters of the call and        *)
(* queues kernels that fit.                                                *)
LEMMA AcceptFwdKeeps ==
  ASSUME HostInv, AcceptFwd
  PROVE  HostInv'
<1>. DEFINE p == FwdParams(Mine, dev)
<1>1. /\ pc = "check" /\ dir = "forward" /\ FwdAccepts
      /\ FrontendAccepts(call) /\ (call.varlen \/ PartitionFwd(call))
      /\ frame = FwdFrame(Mine) /\ params = << >> /\ Decodes(Handler, frame)
  BY DEF HostInv, Passed, Lowered, Written, AcceptFwd, Ran
<1>2. Fit(Mine) /\ Mine.varlen = call.varlen
  BY <1>1, MineIs
<1>3. dev \in Device /\ (Supported(dev) => Enough(dev))
  BY Here DEF HostInv
<1>4. FwdRuns(Mine, dev)
  BY <1>1, <1>2, AcceptedFwd
<1>5. SetParams = p /\ N = MaxK(Mine) /\ MaxK(Mine) \in Nat
  BY <1>1, <1>2, SetsFwd, ReadsFwd, Dimensions DEF Understood
<1>6. Typed(p) /\ p.sq = MaxQ(Mine) /\ p.b = BatchOf(Mine) /\ p.h = Heads(Mine)
  BY <1>2, <1>3, <1>4, ParamsTypedFwd DEF FwdParams, ParamsOf
<1>. HIDE DEF p
<1>7. Enough(dev)
  BY <1>3, <1>4 DEF FwdRuns
<1>8. /\ params' = <<p>>
      /\ todo' = (IF MaxK(Mine) = 0 THEN << >> ELSE IF p.splits > 1 THEN SplitKernels(p) ELSE FwdKernels(p))
      /\ pc' = (IF MaxK(Mine) = 0 /\ ~ call.varlen THEN "failed" ELSE "launch")
      /\ call' = call /\ dev' = dev /\ dir' = dir /\ frame' = frame
  BY <1>1, <1>5 DEF AcceptFwd
<1>9. Mine' = Mine
  BY <1>8 DEF Mine
<1>10. Passed'
  BY <1>1, <1>8 DEF Passed
<1>11. Lowered'
  BY <1>1, <1>8, <1>9 DEF Lowered
<1>12. Written'
  BY <1>1, <1>4, <1>8, <1>9 DEF Written, Ran, p
<1>13. Trains'
  BY <1>1, <1>8 DEF Trains
<1>14. Scheduled'
  <2>1. CASE MaxK(Mine) = 0
    <3>1. todo' = << >> /\ (pc' = "launch" => Keyless(Mine)) /\ pc' # "returned"
      BY <1>2, <1>8, <2>1 DEF Keyless
    <3>2. todo' \in Seq({k \in Launch : k.smem <= dev'.smem_block})
      BY <3>1
    <3> QED BY <1>1, <1>8, <1>9, <3>1, <3>2 DEF Scheduled
  <2>2. CASE MaxK(Mine) # 0
    <3>1. /\ todo' \in Seq(Schedulable(dev)) /\ todo' # << >>
          /\ LaunchOk(Head(todo')) => p.sq >= 1 /\ p.b <= 65535 /\ p.h <= 65535
      BY <1>3, <1>6, <1>7, <1>8, <2>2, FwdKernelsFit, SplitKernelsFit
    <3>2. LaunchOk(Head(todo')) => Launchable(Mine)
      BY <1>5, <1>6, <2>2, <3>1 DEF Launchable
    <3>3. LaunchOk(Head(todo))' => Launchable(Mine)
      BY <1>8, <3>2 DEF LaunchOk
    <3>4. todo' \in Seq({k \in Launch : k.smem <= dev'.smem_block})
      BY <1>8, <3>1 DEF Schedulable
    <3> QED BY <1>1, <1>8, <1>9, <2>2, <3>1, <3>3, <3>4 DEF Scheduled
  <2> QED BY <2>1, <2>2
<1>15. pc' \in {"launch", "failed"}
  BY <1>8
<1> QED BY <1>1, <1>8, <1>10, <1>11, <1>12, <1>13, <1>14, <1>15 DEF HostInv

(* AcceptBwd preserves it: its kernels can be launched since the forward   *)
(* kernels could.                                                          *)
LEMMA AcceptBwdKeeps ==
  ASSUME HostInv, AcceptBwd
  PROVE  HostInv'
<1>. DEFINE p == BwdParams(Mine)
<1>1. /\ pc = "check" /\ dir = "backward" /\ BwdAccepts
      /\ FrontendAccepts(call) /\ (call.varlen \/ PartitionFwd(call)) /\ MaskFits(call)
      /\ frame = BwdFrame(Mine) /\ params = <<FwdParams(Mine, dev)>> /\ FwdRuns(Mine, dev)
      /\ (Keyless(Mine) \/ Launchable(Mine))
  BY DEF HostInv, Passed, Lowered, Written, Scheduled, AcceptBwd, Ran
<1>2. Fit(Mine) /\ Mine.varlen = call.varlen
  BY <1>1, MineIs
<1>3. dev \in Device /\ (Supported(dev) => Enough(dev))
  BY Here DEF HostInv
<1>4. SetParams = p /\ M = MaxQ(Mine) /\ MaxQ(Mine) \in Nat
  BY <1>1, <1>2, SetsBwd, ReadsBwd, Dimensions DEF Understood
<1>5. /\ Typed(p) /\ p.sq = MaxQ(Mine) /\ p.sk = MaxK(Mine) /\ p.b = BatchOf(Mine)
      /\ p.h = Heads(Mine)
  BY <1>1, <1>2, <1>3, ParamsTypedFwd DEF BwdParams, ParamsOf
<1>. HIDE DEF p
<1>6. Enough(dev)
  BY <1>1, <1>3 DEF FwdRuns
<1>7. /\ params' = Append(params, p)
      /\ todo' = (IF MaxQ(Mine) > 0 THEN BwdKernels(p) ELSE << >>)
      /\ pc' = (IF MaxQ(Mine) > 0 THEN "launch" ELSE "failed")
      /\ call' = call /\ dev' = dev /\ dir' = dir /\ frame' = frame
  BY <1>1, <1>4 DEF AcceptBwd
<1>8. params' = <<FwdParams(Mine, dev), p>>
  BY <1>1, <1>7, SecondAppended
<1>9. Mine' = Mine
  BY <1>7 DEF Mine
<1>10. Passed'
  BY <1>1, <1>7 DEF Passed
<1>11. Lowered'
  BY <1>1, <1>7, <1>9 DEF Lowered
<1>12. Written'
  BY <1>1, <1>7, <1>8, <1>9 DEF Written, Ran, p
<1>13. /\ BwdKernels(p) \in Seq(Schedulable(dev))
       /\ Launchable(Mine) => \A i \in DOMAIN BwdKernels(p) : LaunchOk(BwdKernels(p)[i])
  BY <1>3, <1>5, <1>6, BwdKernelsFit DEF Launchable
<1>14. Scheduled'
  <2>1. todo' \in Seq(Schedulable(dev))
    BY <1>7, <1>13
  <2>2. todo' \in Seq({k \in Launch : k.smem <= dev'.smem_block})
    BY <1>7, <2>1 DEF Schedulable
  <2> QED BY <1>1, <1>7, <1>9, <2>2 DEF Scheduled
<1>15. Trains'
  <2>1. SUFFICES ASSUME ~ NoGradient(call, dev)
                 PROVE  pc' = "launch" /\ \A i \in DOMAIN todo' : LaunchOk(todo[i])'
    BY <1>7 DEF Trains
  <2>2. Launchable(Mine)
    BY <1>1, <2>1, BigEnoughIf
  <2>3. pc' = "launch" /\ todo' = BwdKernels(p)
    BY <1>4, <1>7, <2>2 DEF Launchable
  <2>4. ASSUME NEW i \in DOMAIN todo' PROVE LaunchOk(todo[i])'
    <3>1. LaunchOk(todo'[i])
      BY <1>13, <2>2, <2>3, <2>4
    <3> QED BY <1>7, <3>1 DEF LaunchOk
  <2> QED BY <2>3, <2>4
<1>16. pc' \in {"launch", "failed"}
  BY <1>7
<1> QED BY <1>1, <1>7, <1>10, <1>11, <1>12, <1>14, <1>15, <1>16 DEF HostInv

(* LaunchKernel preserves it: a launch tells of the dimensions.            *)
LEMMA LaunchKernelKeeps ==
  ASSUME HostInv, LaunchKernel
  PROVE  HostInv'
<1>1. /\ pc = "launch" /\ todo # << >> /\ LaunchOk(Head(todo)) /\ todo' = Tail(todo)
      /\ pc' = pc /\ call' = call /\ dev' = dev /\ dir' = dir /\ frame' = frame /\ params' = params
  BY DEF LaunchKernel
<1>2. Mine' = Mine
  BY <1>1 DEF Mine
<1>3. Passed' /\ Lowered' /\ Written'
  BY <1>1, <1>2 DEF HostInv, Passed, Lowered, Written, Ran
<1>. DEFINE S == {k \in Launch : k.smem <= dev.smem_block}
<1>4. todo \in Seq(S)
  BY DEF HostInv, Scheduled
<1>5. /\ Tail(todo) \in Seq(S) /\ DOMAIN todo = 1 .. Len(todo) /\ Len(todo) > 0
      /\ DOMAIN Tail(todo) = 1 .. Len(todo) - 1
      /\ \A i \in 1 .. Len(todo) - 1 : Tail(todo)[i] = todo[i + 1]
  <2>. HIDE DEF S
  <2> QED BY <1>1, <1>4
<1>6. Scheduled'
  BY <1>1, <1>2, <1>5 DEF HostInv, Scheduled
<1>7. Trains'
  <2>1. SUFFICES ASSUME ~ NoGradient(call, dev), dir = "backward", NEW i \in DOMAIN todo'
                 PROVE  LaunchOk(todo[i])'
    BY <1>1 DEF Trains
  <2>2. i + 1 \in DOMAIN todo /\ todo'[i] = todo[i + 1]
    BY <1>1, <1>5
  <2>3. LaunchOk(todo[i + 1])
    BY <1>1, <2>1, <2>2 DEF HostInv, Trains
  <2> QED BY <1>1, <2>2, <2>3 DEF LaunchOk
<1> QED BY <1>1, <1>3, <1>6, <1>7 DEF HostInv

(* LaunchAborts preserves it: outside NoGradient no kernel of the          *)
(* backward pass aborts.                                                   *)
LEMMA LaunchAbortsKeeps ==
  ASSUME HostInv, LaunchAborts
  PROVE  HostInv'
<1>1. /\ pc = "launch" /\ todo # << >> /\ ~ LaunchOk(Head(todo)) /\ pc' = "aborted"
      /\ todo' = todo /\ call' = call /\ dev' = dev /\ dir' = dir /\ frame' = frame /\ params' = params
  BY DEF LaunchAborts
<1>2. Mine' = Mine
  BY <1>1 DEF Mine
<1>3. Passed' /\ Lowered' /\ Written' /\ Scheduled'
  BY <1>1, <1>2 DEF HostInv, Passed, Lowered, Written, Scheduled, Ran
<1>4. Trains'
  <2>1. SUFFICES ASSUME ~ NoGradient(call, dev), dir = "backward" PROVE LaunchOk(Head(todo))
    BY <1>1 DEF Trains
  <2>2. 1 \in DOMAIN todo /\ Head(todo) = todo[1]
    <3>. DEFINE S == {k \in Launch : k.smem <= dev.smem_block}
    <3>1. todo \in Seq(S)
      BY DEF HostInv, Scheduled
    <3>. HIDE DEF S
    <3> QED BY <1>1, <3>1
  <2> QED BY <1>1, <2>1, <2>2 DEF HostInv, Trains
<1> QED BY <1>1, <1>3, <1>4 DEF HostInv

(* Return preserves it.                                                    *)
LEMMA ReturnKeeps ==
  ASSUME HostInv, Return
  PROVE  HostInv'
<1>1. /\ pc = "launch" /\ todo = << >> /\ pc' = "returned"
      /\ todo' = todo /\ call' = call /\ dev' = dev /\ dir' = dir /\ frame' = frame /\ params' = params
  BY DEF Return
<1>2. Mine' = Mine
  BY <1>1 DEF Mine
<1>3. Passed' /\ Lowered' /\ Written' /\ Scheduled' /\ Trains'
  BY <1>1, <1>2 DEF HostInv, Passed, Lowered, Written, Scheduled, Trains, Ran
<1> QED BY <1>1, <1>3 DEF HostInv

(* Differentiate preserves it: the call is the one that succeeded.         *)
LEMMA DifferentiateKeeps ==
  ASSUME HostInv, Differentiate
  PROVE  HostInv'
<1>1. /\ pc = "returned" /\ dir = "forward" /\ pc' = "trace" /\ dir' = "backward"
      /\ todo' = todo /\ call' = call /\ dev' = dev /\ frame' = frame /\ params' = params
  BY DEF Differentiate
<1>2. Mine' = Mine
  BY <1>1 DEF Mine
<1>3. Passed' /\ Lowered' /\ Written' /\ Scheduled' /\ Trains'
  BY <1>1, <1>2 DEF HostInv, Passed, Lowered, Written, Scheduled, Trains, Ran
<1> QED BY <1>1, <1>3 DEF HostInv

(* HostInv is an invariant of a training step.                             *)
THEOREM HostInvariant ==
  Spec => []HostInv
<1>1. ASSUME Init PROVE HostInv
  BY <1>1, InitHolds
<1>2. ASSUME HostInv, [Next]_vars PROVE HostInv'
  <2>1. CASE Trace          BY <1>2, <2>1, TraceKeeps
  <2>2. CASE Partition      BY <1>2, <2>2, PartitionKeeps
  <2>3. CASE Lower          BY <1>2, <2>3, LowerKeeps
  <2>4. CASE Decode         BY <1>2, <2>4, DecodeKeeps
  <2>5. CASE Refuse         BY <1>2, <2>5, RefuseKeeps
  <2>6. CASE AcceptFwd      BY <1>2, <2>6, AcceptFwdKeeps
  <2>7. CASE AcceptBwd      BY <1>2, <2>7, AcceptBwdKeeps
  <2>8. CASE LaunchKernel   BY <1>2, <2>8, LaunchKernelKeeps
  <2>9. CASE LaunchAborts   BY <1>2, <2>9, LaunchAbortsKeeps
  <2>10. CASE Return        BY <1>2, <2>10, ReturnKeeps
  <2>11. CASE Differentiate BY <1>2, <2>11, DifferentiateKeeps
  <2>12. CASE UNCHANGED vars
    <3>1. call' = call /\ dev' = dev /\ dir' = dir /\ pc' = pc /\ frame' = frame
          /\ params' = params /\ todo' = todo
      BY <2>12 DEF vars
    <3>2. Mine' = Mine /\ Handler' = Handler
      BY <3>1 DEF Mine, Handler
    <3>3. Passed' /\ Lowered' /\ Written' /\ Scheduled'
      BY <1>2, <3>1, <3>2 DEF HostInv, Passed, Lowered, Written, Scheduled, Ran, LaunchOk
    <3>4. Trains'
      BY <1>2, <3>1 DEF HostInv, Trains, LaunchOk
    <3> QED BY <1>2, <3>1, <3>3, <3>4 DEF HostInv
  <2> QED
    BY <1>2, <2>1, <2>2, <2>3, <2>4, <2>5, <2>6, <2>7, <2>8, <2>9, <2>10, <2>11, <2>12 DEF Next
<1> QED BY <1>1, <1>2, PTL DEF Spec

-----------------------------------------------------------------------------
(* Types, and a call that succeeds can be differentiated.                  *)

(* The parameters there are, by pass.                                      *)
LEMMA FirstParams ==
  ASSUME HostInv, params # << >>
  PROVE  params[1] = FwdParams(Mine, dev) /\ FwdRuns(Mine, dev) /\ Len(params) \in 1 .. 2
         /\ (Len(params) = 2 => params[2] = BwdParams(Mine) /\ dir = "backward")
BY DEF HostInv, Written

(* No parameters are set for a call that was refused.                      *)
LEMMA ParamsThere ==
  ASSUME HostInv, params # << >>
  PROVE  FrontendAccepts(call) /\ (call.varlen \/ PartitionFwd(call))
BY DEF HostInv, Written, Passed, Ran

(* The parameters set for the kernels have their types, the heads of a     *)
(* group are a positive whole number and the splits are what the combine   *)
(* kernel can merge, whatever the call, the device and the devices it is   *)
(* spread over (set_params_fprop, num_splits_heuristic).                   *)
THEOREM HostTypes ==
  Spec => []TypeOK
<1>1. ASSUME HostInv PROVE TypeOK
  <2>1. Len(params) <= IF dir = "forward" THEN 1 ELSE 2
    <3>1. CASE params = << >>
      BY <1>1, <3>1 DEF HostInv
    <3>2. CASE params # << >>
      <4>1. Len(params) \in 1 .. 2 /\ (Len(params) = 2 => dir = "backward")
        BY <1>1, <3>2, FirstParams
      <4>2. Len(params) = 1 \/ (Len(params) = 2 /\ dir = "backward")
        BY <4>1
      <4>3. CASE Len(params) = 1
        BY <4>3
      <4>4. CASE Len(params) = 2 /\ dir = "backward"
        BY <4>4
      <4> QED BY <4>2, <4>3, <4>4
    <3> QED BY <3>1, <3>2
  <2>2. ASSUME NEW i \in DOMAIN params
        PROVE  LET p == params[i]
               IN  p.ratio * p.hk = p.h /\ p.b >= 1 /\ p.splits \in 0 .. 128 /\ p.d % 8 = 0
    <3>1. params # << >>
      BY <1>1 DEF HostInv, Written
    <3>2. Fit(Mine) /\ dev \in Device /\ FwdRuns(Mine, dev)
      BY <1>1, <3>1, FirstParams, ParamsThere, MineIs, Here DEF HostInv
    <3>3. params[i] = FwdParams(Mine, dev) \/ params[i] = BwdParams(Mine)
      BY <1>1 DEF HostInv, Written
    <3>4. /\ SplitsOn(Mine, dev) \in 0 .. 128
          /\ Ratio(Heads(Mine), HeadsK(Mine)) * HeadsK(Mine) = Heads(Mine)
      BY <3>2, ParamsTyped
    <3>5. BatchOf(Mine) >= 1 /\ PadDim(Mine) % 8 = 0
      <4>1. BatchOf(Mine) \in Nat /\ BatchOf(Mine) > 0
        BY <3>2, Dimensions DEF FwdRuns
      <4> QED BY <3>2, <4>1, Dimensions
    <3>6. CASE params[i] = FwdParams(Mine, dev)
      BY <3>4, <3>5, <3>6 DEF FwdParams, ParamsOf
    <3>7. CASE params[i] = BwdParams(Mine)
      BY <3>4, <3>5, <3>7 DEF BwdParams, ParamsOf
    <3> QED BY <3>3, <3>6, <3>7
  <2> QED BY <1>1, <2>1, <2>2 DEF TypeOK, HostInv
<1> QED BY <1>1, HostInvariant, PTL

(* A call whose forward pass succeeded is differentiated: no check between *)
(* the backward rule and the stream refuses it, and no kernel launch ends  *)
(* the process, but for the exceptions of NoGradient.                      *)
THEOREM TrainingGoesThrough ==
  Spec => []TrainingSucceeds
<1>1. HostInv => TrainingSucceeds
  BY DEF HostInv, Trains, TrainingSucceeds
<1> QED BY <1>1, HostInvariant, PTL

-----------------------------------------------------------------------------
(* The results of the forward pass, one by one.                            *)
LEMMA Gathered2 ==
  ASSUME NEW x, NEW y
  PROVE  [i \in DOMAIN <<x, y>> |-> Gathered(i, <<x, y>>[i])] = <<Gathered(1, x), Gathered(2, y)>>
OBVIOUS

(* The results of the backward pass, one by one.                           *)
LEMMA Gathered3 ==
  ASSUME NEW x, NEW y, NEW z
  PROVE  [i \in DOMAIN <<x, y, z>> |-> Gathered(i, <<x, y, z>>[i])]
           = <<Gathered(1, x), Gathered(2, y), Gathered(3, z)>>
OBVIOUS

(* Shapes of rank 4 are equal if their dimensions are.                     *)
LEMMA Same4 ==
  ASSUME NEW s \in Seq(Nat), NEW t \in Seq(Nat), Len(s) = 4, Len(t) = 4,
         s[1] = t[1], s[2] = t[2], s[3] = t[3], s[4] = t[4]
  PROVE  s = t
<1>1. \A i \in 1 .. Len(s) : s[i] = t[i]
  OBVIOUS
<1> QED BY <1>1, SeqEqual

(* The same of rank 3.                                                     *)
LEMMA Same3 ==
  ASSUME NEW s \in Seq(Nat), NEW t \in Seq(Nat), Len(s) = 3, Len(t) = 3,
         s[1] = t[1], s[2] = t[2], s[3] = t[3]
  PROVE  s = t
<1>1. \A i \in 1 .. Len(s) : s[i] = t[i]
  OBVIOUS
<1> QED BY <1>1, SeqEqual

(* Dimensions are numbers.                                                 *)
LEMMA Items4 ==
  ASSUME NEW s \in Seq(Nat), Len(s) = 4
  PROVE  s[1] \in Nat /\ s[2] \in Nat /\ s[3] \in Nat /\ s[4] \in Nat
<1>1. 1 \in 1 .. Len(s) /\ 2 \in 1 .. Len(s) /\ 3 \in 1 .. Len(s) /\ 4 \in 1 .. Len(s)
  OBVIOUS
<1> QED BY <1>1, ElementOfSeq

(* The same of rank 3.                                                     *)
LEMMA Items3 ==
  ASSUME NEW s \in Seq(Nat), Len(s) = 3
  PROVE  s[1] \in Nat /\ s[2] \in Nat /\ s[3] \in Nat
<1>1. 1 \in 1 .. Len(s) /\ 2 \in 1 .. Len(s) /\ 3 \in 1 .. Len(s)
  OBVIOUS
<1> QED BY <1>1, ElementOfSeq

Replaced3(s, i, x, t) ==
  /\ t \in Seq(Nat) /\ Len(t) = 3
  /\ t[1] = IF i = 1 THEN x ELSE s[1]
  /\ t[2] = IF i = 2 THEN x ELSE s[2]
  /\ t[3] = IF i = 3 THEN x ELSE s[3]

(* Replacing one of three dimensions leaves the others.                    *)
LEMMA WithDim3 ==
  ASSUME NEW s \in Seq(Nat), Len(s) = 3, NEW i \in 1 .. 3, NEW x \in Nat
  PROVE  Replaced3(s, i, x, WithDim(s, i, x))
<1>1. i \in 1 .. Len(s)
  OBVIOUS
<1>2. /\ WithDim(s, i, x) \in Seq(Nat) /\ Len(WithDim(s, i, x)) = 3
      /\ \A j \in 1 .. 3 : WithDim(s, i, x)[j] = IF j = i THEN x ELSE s[j]
  BY <1>1, ExceptSeq DEF WithDim
<1> QED BY <1>2 DEF Replaced3

(* Cutting the padding off restores an array's dimensions.                 *)
LEMMA CutPadding4 ==
  ASSUME NEW s \in Seq(Nat), Len(s) = 4
  PROVE  WithDim(Padded(s), Len(Padded(s)), s[4]) = s
<1>. DEFINE t == Padded(s)
            u == WithDim(t, 4, s[4])
<1>1. Dims4(t, s[1], s[2], s[3], s[4] + Dpad(s[4])) /\ s[4] \in Nat
  BY Padded4, Items4
<1>. HIDE DEF t
<1>2. t \in Seq(Nat) /\ Len(t) = 4 /\ t[1] = s[1] /\ t[2] = s[2] /\ t[3] = s[3]
  BY <1>1 DEF Dims4
<1>3. Replaced(t, 4, s[4], u)
  BY <1>1, <1>2, WithDim4
<1>. HIDE DEF u
<1>4. u = s
  BY <1>2, <1>3, Same4 DEF Replaced
<1> QED BY <1>2, <1>4 DEF u, t

(* The same of rank 3.                                                     *)
LEMMA CutPadding3 ==
  ASSUME NEW s \in Seq(Nat), Len(s) = 3
  PROVE  WithDim(Padded(s), Len(Padded(s)), s[3]) = s
<1>. DEFINE t == Padded(s)
            u == WithDim(t, 3, s[3])
<1>1. Dims3(t, s[1], s[2], s[3] + Dpad(s[3])) /\ s[3] \in Nat
  BY Padded3, Items3
<1>. HIDE DEF t
<1>2. t \in Seq(Nat) /\ Len(t) = 3 /\ t[1] = s[1] /\ t[2] = s[2]
  BY <1>1 DEF Dims3
<1>3. Replaced3(t, 3, s[3], u)
  BY <1>1, <1>2, WithDim3
<1>. HIDE DEF u
<1>4. u = s
  BY <1>2, <1>3, Same3 DEF Replaced3
<1> QED BY <1>2, <1>4 DEF u, t

(* And summing the heads of a group.                                       *)
Restored(s, h) ==
  LET t == WithHeads(Padded(s), h) IN WithHeads(WithDim(t, Len(t), s[Len(s)]), s[Len(s) - 1])

(* The heads of gradients of k and v, expanded and summed, are those of k  *)
(* and v.                                                                  *)
LEMMA Restored4 ==
  ASSUME NEW s \in Seq(Nat), Len(s) = 4, NEW h \in Nat
  PROVE  Restored(s, h) = s
<1>. DEFINE t == Padded(s)
            u == WithDim(t, 3, h)
            v == WithDim(u, 4, s[4])
            w == WithDim(v, 3, s[3])
<1>1. Dims4(t, s[1], s[2], s[3], s[4] + Dpad(s[4])) /\ s[4] \in Nat /\ s[3] \in Nat
  BY Padded4, Items4
<1>. HIDE DEF t
<1>2. t \in Seq(Nat) /\ Len(t) = 4 /\ t[1] = s[1] /\ t[2] = s[2] /\ t[3] = s[3]
  BY <1>1 DEF Dims4
<1>3. Replaced(t, 3, h, u)
  BY <1>1, <1>2, WithDim4
<1>. HIDE DEF u
<1>4. u \in Seq(Nat) /\ Len(u) = 4 /\ u[1] = s[1] /\ u[2] = s[2]
  BY <1>2, <1>3 DEF Replaced
<1>5. Replaced(u, 4, s[4], v)
  BY <1>1, <1>4, WithDim4
<1>. HIDE DEF v
<1>6. v \in Seq(Nat) /\ Len(v) = 4 /\ v[1] = s[1] /\ v[2] = s[2] /\ v[4] = s[4]
  BY <1>4, <1>5 DEF Replaced
<1>7. Replaced(v, 3, s[3], w)
  BY <1>1, <1>6, WithDim4
<1>. HIDE DEF w
<1>8. w = s
  BY <1>6, <1>7, Same4 DEF Replaced
<1>9. Restored(s, h) = w
  <2>1. WithHeads(t, h) = u
    BY <1>2 DEF WithHeads, u
  <2>2. WithHeads(v, s[3]) = w
    BY <1>6 DEF WithHeads, w
  <2>3. WithDim(u, Len(u), s[Len(s)]) = v
    BY <1>4 DEF v
  <2>4. Restored(s, h) = WithHeads(WithDim(WithHeads(t, h), Len(WithHeads(t, h)), s[Len(s)]), s[Len(s) - 1])
    BY DEF Restored, t
  <2> QED BY <2>1, <2>2, <2>3, <2>4
<1> QED BY <1>8, <1>9

(* The same of rank 3.                                                     *)
LEMMA Restored3 ==
  ASSUME NEW s \in Seq(Nat), Len(s) = 3, NEW h \in Nat
  PROVE  Restored(s, h) = s
<1>. DEFINE t == Padded(s)
            u == WithDim(t, 2, h)
            v == WithDim(u, 3, s[3])
            w == WithDim(v, 2, s[2])
<1>1. Dims3(t, s[1], s[2], s[3] + Dpad(s[3])) /\ s[3] \in Nat /\ s[2] \in Nat
  BY Padded3, Items3
<1>. HIDE DEF t
<1>2. t \in Seq(Nat) /\ Len(t) = 3 /\ t[1] = s[1] /\ t[2] = s[2]
  BY <1>1 DEF Dims3
<1>3. Replaced3(t, 2, h, u)
  BY <1>1, <1>2, WithDim3
<1>. HIDE DEF u
<1>4. u \in Seq(Nat) /\ Len(u) = 3 /\ u[1] = s[1]
  BY <1>2, <1>3 DEF Replaced3
<1>5. Replaced3(u, 3, s[3], v)
  BY <1>1, <1>4, WithDim3
<1>. HIDE DEF v
<1>6. v \in Seq(Nat) /\ Len(v) = 3 /\ v[1] = s[1] /\ v[3] = s[3]
  BY <1>4, <1>5 DEF Replaced3
<1>7. Replaced3(v, 2, s[2], w)
  BY <1>1, <1>6, WithDim3
<1>. HIDE DEF w
<1>8. w = s
  BY <1>6, <1>7, Same3 DEF Replaced3
<1>9. Restored(s, h) = w
  <2>1. WithHeads(t, h) = u
    BY <1>2 DEF WithHeads, u
  <2>2. WithHeads(v, s[2]) = w
    BY <1>6 DEF WithHeads, w
  <2>3. WithDim(u, Len(u), s[Len(s)]) = v
    BY <1>4 DEF v
  <2>4. Restored(s, h) = WithHeads(WithDim(WithHeads(t, h), Len(WithHeads(t, h)), s[Len(s)]), s[Len(s) - 1])
    BY DEF Restored, t
  <2> QED BY <2>1, <2>2, <2>3, <2>4
<1> QED BY <1>8, <1>9

(* The parts of an array, put together.                                    *)
LEMMA WholePart ==
  ASSUME NEW s \in Seq(Nat), Len(s) = 4, NEW axis \in {"n", "s", "h", "d"},
         Shards(s, axis), ND \in Nat \ {0}
  PROVE  Whole(Part(s, axis), Place(axis)) = s
<1>. DEFINE p == Place(axis)
            t == Part(s, axis)
            u == WithDim(t, p, s[p])
<1>1. p \in 1 .. 4
  BY PartOf
<1>2. PICK x \in Nat : x * ND = s[p] /\ Replaced(s, p, x, t)
  BY PartOf
<1>. HIDE DEF p, t
<1>3. t[p] = x /\ t \in Seq(Nat) /\ Len(t) = 4 /\ s[p] \in Nat
  <2>1. s[p] \in Nat
    BY <1>1, ElementOfSeq
  <2>2. p = 1 \/ p = 2 \/ p = 3 \/ p = 4
    BY <1>1
  <2> QED BY <1>2, <2>1, <2>2 DEF Replaced
<1>4. Whole(t, p) = u
  BY <1>2, <1>3 DEF Whole
<1>5. Replaced(t, p, s[p], u)
  BY <1>1, <1>3, WithDim4
<1>. HIDE DEF u
<1>6. u = s
  BY <1>1, <1>2, <1>3, <1>5, Same4 DEF Replaced
<1> QED BY <1>4, <1>6 DEF p, t

-----------------------------------------------------------------------------
(* Results, gathered from the devices.                                     *)

(* Replacing the dimensions of a buffer leaves its type.                   *)
LEMMA WithinBuf ==
  ASSUME NEW t, NEW s, NEW u
  PROVE  [Buf(t, s) EXCEPT !.dims = u] = Buf(t, u) /\ Buf(t, s).dims = s
BY DEF Buf

(* What the lowering makes of a result.                                    *)
LEMMA CutResult ==
  ASSUME NEW l, Fit(l), NEW t
  PROVE  Cut(Buf(t, Padded(l.q)), l) = Buf(t, l.q)
<1>1. Cut(Buf(t, Padded(l.q)), l) = Buf(t, WithDim(Padded(l.q), Len(Padded(l.q)), Dim(l)))
  BY DEF Cut, Buf
<1>2. WithDim(Padded(l.q), Len(Padded(l.q)), Dim(l)) = l.q
  <2>1. CASE l.varlen
    <3>1. l.q \in Seq(Nat) /\ Len(l.q) = 3 /\ Dim(l) = l.q[3]
      BY <2>1, VarlenDims, CallTypes
    <3> QED BY <3>1, CutPadding3
  <2>2. CASE ~ l.varlen
    <3>1. l.q \in Seq(Nat) /\ Len(l.q) = 4 /\ Dim(l) = l.q[4]
      BY <2>2, BatchedDims, CallTypes
    <3> QED BY <3>1, CutPadding4
  <2> QED BY <2>1, <2>2
<1> QED BY <1>1, <1>2

(* A gradient of k or v, cut and summed over the group, has the shape of   *)
(* k.                                                                      *)
LEMMA SummedResult ==
  ASSUME NEW l, Fit(l), ~ l.varlen => l.q[4] = l.kv[4], NEW t
  PROVE  [Cut(Buf(t, GradKV(l)), l) EXCEPT !.dims = WithHeads(@, HeadsK(l))] = Buf(t, l.kv)
<1>. DEFINE g == GradKV(l)
            u == WithDim(g, Len(g), Dim(l))
<1>1. Cut(Buf(t, g), l) = Buf(t, u)
  BY DEF Cut, Buf
<1>2. WithHeads(u, HeadsK(l)) = Restored(l.kv, Heads(l)) /\ Restored(l.kv, Heads(l)) = l.kv
  <2>1. CASE l.varlen
    <3>1. l.kv \in Seq(Nat) /\ Len(l.kv) = 3 /\ Dim(l) = l.kv[3] /\ HeadsK(l) = l.kv[2]
      BY <2>1, VarlenDims, CallTypes
    <3>2. Heads(l) \in Nat
      BY Dimensions
    <3>3. WithHeads(u, HeadsK(l)) = Restored(l.kv, Heads(l))
      BY <3>1 DEF Restored, GradKV
    <3> QED BY <3>1, <3>2, <3>3, Restored3
  <2>2. CASE ~ l.varlen
    <3>1. l.kv \in Seq(Nat) /\ Len(l.kv) = 4 /\ Dim(l) = l.kv[4] /\ HeadsK(l) = l.kv[3]
      BY <2>2, BatchedDims, CallTypes
    <3>2. Heads(l) \in Nat
      BY Dimensions
    <3>3. WithHeads(u, HeadsK(l)) = Restored(l.kv, Heads(l))
      BY <3>1 DEF Restored, GradKV
    <3> QED BY <3>1, <3>2, <3>3, Restored4
  <2> QED BY <2>1, <2>2
<1>. HIDE DEF g, u
<1>3. [Buf(t, u) EXCEPT !.dims = WithHeads(@, HeadsK(l))] = Buf(t, WithHeads(u, HeadsK(l)))
  BY DEF Buf
<1>4. [Cut(Buf(t, g), l) EXCEPT !.dims = WithHeads(@, HeadsK(l))] = Buf(t, l.kv)
  BY <1>1, <1>2, <1>3
<1> QED BY <1>4 DEF g

(* An accepted call that is spread over the devices.                       *)
LEMMA SpreadCall ==
  ASSUME HostInv, FrontendAccepts(call), call.varlen \/ PartitionFwd(call), call.qaxis # "none"
  PROVE  /\ ~ call.varlen /\ call.qaxis \in {"n", "h"} /\ call.kaxis = call.qaxis
         /\ call.q \in Seq(Nat) /\ Len(call.q) = 4 /\ call.kv \in Seq(Nat) /\ Len(call.kv) = 4
         /\ Shards(call.q, call.qaxis) /\ Shards(call.kv, call.qaxis) /\ ND \in Nat \ {0}
         /\ Mine.q = Part(call.q, call.qaxis) /\ Mine.kv = Part(call.kv, call.qaxis)
         /\ call.q[1] = call.kv[1] /\ call.q[4] = call.kv[4]
<1>1. Callable(call) /\ ND \in Nat \ {0} /\ call \in Call
  BY Here DEF HostInv, Callable
<1>2. ~ call.varlen
  BY <1>1 DEF Callable
<1>3. /\ call.q \in Seq(Nat) /\ Len(call.q) = 4 /\ call.kv \in Seq(Nat) /\ Len(call.kv) = 4
      /\ Shards(call.q, call.qaxis) /\ Shards(call.kv, call.kaxis)
  BY <1>1, <1>2 DEF Callable, Call
<1>4. call.kaxis = call.qaxis /\ call.qaxis \in {"n", "h"}
  BY <1>2, <1>3 DEF PartitionFwd, Shards
<1>5. Mine.q = Part(call.q, call.qaxis) /\ Mine.kv = Part(call.kv, call.kaxis)
  BY <1>1, <1>2, LocalBatched DEF Mine
<1>6. call.q[1] = call.kv[1] /\ call.q[4] = call.kv[4]
  BY <1>2 DEF FrontendAccepts, BatchedAccepted
<1> QED BY <1>1, <1>2, <1>3, <1>4, <1>5, <1>6

(* A call that is not sharded runs whole.                                  *)
LEMMA KeptWhole ==
  ASSUME HostInv, call.qaxis = "none", call.varlen \/ PartitionFwd(call)
  PROVE  Mine = call
<1>1. Callable(call) /\ call \in Call
  BY Here DEF HostInv, Callable
<1>2. call.kaxis = "none"
  BY <1>1 DEF Callable, PartitionFwd
<1>3. Part(call.q, call.qaxis) = call.q /\ Part(call.kv, call.kaxis) = call.kv
  BY <1>2 DEF Part
<1> QED BY <1>1, <1>3 DEF Mine, Local, Call

(* Gathered from the devices, the arrays are whole.                        *)
LEMMA GatheredQ ==
  ASSUME HostInv, FrontendAccepts(call), call.varlen \/ PartitionFwd(call), NEW t, NEW i,
         ~ (dir = "forward" /\ i = 2)
  PROVE  Gathered(i, Buf(t, Mine.q)) = Buf(t, call.q)
<1>1. CASE call.qaxis = "none"
  BY <1>1, KeptWhole DEF Gathered
<1>2. CASE call.qaxis # "none"
  <2>1. Whole(Mine.q, Place(call.qaxis)) = call.q
    BY <1>2, SpreadCall, WholePart
  <2>2. Gathered(i, Buf(t, Mine.q)) = [Buf(t, Mine.q) EXCEPT !.dims = Whole(@, Place(call.qaxis))]
    BY <1>2 DEF Gathered
  <2> QED BY <2>1, <2>2 DEF Buf
<1> QED BY <1>1, <1>2

(* The same of k: both have one sharding.                                  *)
LEMMA GatheredK ==
  ASSUME HostInv, FrontendAccepts(call), call.varlen \/ PartitionFwd(call), NEW t, NEW i,
         ~ (dir = "forward" /\ i = 2)
  PROVE  Gathered(i, Buf(t, Mine.kv)) = Buf(t, call.kv)
<1>1. CASE call.qaxis = "none"
  BY <1>1, KeptWhole DEF Gathered
<1>2. CASE call.qaxis # "none"
  <2>1. Whole(Mine.kv, Place(call.qaxis)) = call.kv
    BY <1>2, SpreadCall, WholePart
  <2>2. Gathered(i, Buf(t, Mine.kv)) = [Buf(t, Mine.kv) EXCEPT !.dims = Whole(@, Place(call.qaxis))]
    BY <1>2 DEF Gathered
  <2> QED BY <2>1, <2>2 DEF Buf
<1> QED BY <1>1, <1>2

(* The shape of lse.                                                       *)
LEMMA LseOf ==
  ASSUME NEW c
  PROVE  LseDims(c) = IF c.varlen THEN <<BatchOf(c), Heads(c), MaxQ(c)>> ELSE <<c.q[1], c.q[3], c.q[2]>>
BY DEF LseDims, Announced, Buf

(* Gathering along one of three dimensions.                                *)
LEMMA Triple ==
  ASSUME NEW x \in Nat, NEW y \in Nat, NEW z \in Nat, ND \in Nat
  PROVE  /\ Whole(<<x, y, z>>, 1) = <<x * ND, y, z>>
         /\ Whole(<<x, y, z>>, 2) = <<x, y * ND, z>>
BY DEF Whole, WithDim

(* The lse of the devices, gathered along the heads' second place, is the  *)
(* call's.                                                                 *)
LEMMA GatheredLse ==
  ASSUME HostInv, FrontendAccepts(call), call.varlen \/ PartitionFwd(call), dir = "forward"
  PROVE  Gathered(2, Buf("F32", LseDims(Mine))) = Buf("F32", LseDims(call))
<1>1. CASE call.qaxis = "none"
  BY <1>1, KeptWhole DEF Gathered
<1>2. CASE call.qaxis # "none"
  <2>1. /\ ~ call.varlen /\ ~ Mine.varlen /\ call.qaxis \in {"n", "h"} /\ ND \in Nat
        /\ call.q \in Seq(Nat) /\ Len(call.q) = 4
    BY <1>2, SpreadCall, MineIs
  <2>. DEFINE p == Place(call.qaxis)
  <2>2. p = (IF call.qaxis = "n" THEN 1 ELSE 3)
    BY <2>1, Places
  <2>3. PICK x \in Nat : x * ND = call.q[p] /\ Replaced(call.q, p, x, Mine.q)
    BY <1>2, <2>1, SpreadCall, PartOf
  <2>. DEFINE place == IF call.qaxis = "h" THEN 2 ELSE p
  <2>4. Gathered(2, Buf("F32", LseDims(Mine)))
          = [Buf("F32", LseDims(Mine)) EXCEPT !.dims = Whole(@, place)]
    BY <1>2 DEF Gathered
  <2>. HIDE DEF p
  <2>5. LseDims(Mine) = <<Mine.q[1], Mine.q[3], Mine.q[2]>>
        /\ LseDims(call) = <<call.q[1], call.q[3], call.q[2]>>
    BY <2>1, LseOf
  <2>6. call.q[1] \in Nat /\ call.q[2] \in Nat /\ call.q[3] \in Nat
    BY <2>1, Items4
  <2>7. Whole(LseDims(Mine), place) = LseDims(call)
    <3>1. CASE call.qaxis = "n"
      <4>1. Mine.q[1] = x /\ Mine.q[2] = call.q[2] /\ Mine.q[3] = call.q[3] /\ x * ND = call.q[1]
            /\ place = 1
        BY <2>2, <2>3, <3>1 DEF Replaced
      <4>2. LseDims(Mine) = <<x, call.q[3], call.q[2]>>
        BY <2>5, <4>1
      <4>3. Whole(<<x, call.q[3], call.q[2]>>, 1) = <<x * ND, call.q[3], call.q[2]>>
        BY <2>1, <2>6, Triple
      <4> QED BY <2>5, <4>1, <4>2, <4>3
    <3>2. CASE call.qaxis = "h"
      <4>1. Mine.q[3] = x /\ Mine.q[2] = call.q[2] /\ Mine.q[1] = call.q[1] /\ x * ND = call.q[3]
            /\ place = 2
        BY <2>2, <2>3, <3>2 DEF Replaced
      <4>2. LseDims(Mine) = <<call.q[1], x, call.q[2]>>
        BY <2>5, <4>1
      <4>3. Whole(<<call.q[1], x, call.q[2]>>, 2) = <<call.q[1], x * ND, call.q[2]>>
        BY <2>1, <2>6, Triple
      <4> QED BY <2>5, <4>1, <4>2, <4>3
    <3> QED BY <2>1, <3>1, <3>2
  <2> QED BY <2>4, <2>7 DEF Buf
<1> QED BY <1>1, <1>2

(* Whatever is computed, gathered from the devices, has the types and      *)
(* dimensions that the abstract evaluation promised (the lowerings of      *)
(* flash_fwd.py, flash_bwd.py and their varlen counterparts).              *)
THEOREM PromisesKept ==
  Spec => []ResultsAsPromised
<1>1. ASSUME HostInv PROVE ResultsAsPromised
  <2>1. SUFFICES ASSUME pc = "returned"
                 PROVE  LET results == Returned(Mine, dir, frame)
                        IN  [i \in DOMAIN results |-> Gathered(i, results[i])] = Announced(call, dir)
    BY DEF ResultsAsPromised, Mine
  <2>2. FrontendAccepts(call) /\ (call.varlen \/ PartitionFwd(call))
    BY <1>1, <2>1 DEF HostInv, Passed
  <2>3. Fit(Mine) /\ Mine.varlen = call.varlen
    BY <1>1, <2>2, MineIs
  <2>4. Mine.tq = call.tq /\ Mine.tk = call.tk /\ Mine.tv = call.tv
    BY <1>1, Here, LocalFields DEF HostInv, Callable, Mine
  <2>5. CASE dir = "forward"
    <3>1. frame = FwdFrame(Mine)
      BY <1>1, <2>1, <2>5 DEF HostInv, Lowered
    <3>2. frame.rets[1] = Buf(Mine.tq, Padded(Mine.q)) /\ frame.rets[2] = Buf("F32", LseDims(Mine))
      BY <3>1, FwdFrameRets DEF FwdRets
    <3>3. Returned(Mine, dir, frame) = <<Buf(call.tq, Mine.q), Buf("F32", LseDims(Mine))>>
      BY <2>3, <2>4, <2>5, <3>2, CutResult DEF Returned
    <3>4. Gathered(1, Buf(call.tq, Mine.q)) = Buf(call.tq, call.q)
      BY <1>1, <2>2, GatheredQ
    <3>5. Gathered(2, Buf("F32", LseDims(Mine))) = Buf("F32", LseDims(call))
      BY <1>1, <2>2, <2>5, GatheredLse
    <3>6. Announced(call, dir) = <<Buf(call.tq, call.q), Buf("F32", LseDims(call))>>
      BY <2>5, LseOf DEF Announced
    <3> QED BY <3>3, <3>4, <3>5, <3>6, Gathered2
  <2>6. CASE dir = "backward"
    <3>1. frame = BwdFrame(Mine)
      BY <1>1, <2>1, <2>6 DEF HostInv, Lowered
    <3>2. /\ frame.rets[1] = Buf(Mine.tq, Padded(Mine.q)) /\ frame.rets[2] = Buf(Mine.tk, GradKV(Mine))
          /\ frame.rets[3] = Buf(Mine.tv, GradKV(Mine))
      BY <3>1, BwdFrameRets DEF BwdRets
    <3>3. ~ Mine.varlen => Mine.q[4] = Mine.kv[4]
      BY <1>1, <2>2, <2>3, Here, LocalAccepted DEF HostInv, Mine
    <3>4. Returned(Mine, dir, frame)
            = <<Buf(call.tq, Mine.q), Buf(call.tk, Mine.kv), Buf(call.tv, Mine.kv)>>
      BY <2>3, <2>4, <2>6, <3>2, <3>3, CutResult, SummedResult DEF Returned
    <3>5. /\ Gathered(1, Buf(call.tq, Mine.q)) = Buf(call.tq, call.q)
          /\ Gathered(2, Buf(call.tk, Mine.kv)) = Buf(call.tk, call.kv)
          /\ Gathered(3, Buf(call.tv, Mine.kv)) = Buf(call.tv, call.kv)
      BY <1>1, <2>2, <2>6, GatheredQ, GatheredK
    <3>6. Announced(call, dir) = <<Buf(call.tq, call.q), Buf(call.tk, call.kv), Buf(call.tv, call.kv)>>
      BY <2>6 DEF Announced
    <3> QED BY <3>4, <3>5, <3>6, Gathered3
  <2> QED BY <1>1, <2>5, <2>6 DEF HostInv
<1> QED BY <1>1, HostInvariant, PTL

-----------------------------------------------------------------------------
(* A partitioned call computes what the whole call would.                  *)

(* A quotient is determined by its remainder.                              *)
LEMMA Quotient ==
  ASSUME NEW q \in Int, NEW m \in Nat, m > 0, NEW r \in Nat, r < m, NEW x \in Int, x = q * m + r
  PROVE  x \div m = q
<1>. DEFINE p == x \div m
            s == x % m
<1>1. x = p * m + s
  OBVIOUS
<1>2. p \in Int /\ s \in Nat /\ s < m
  OBVIOUS
<1>. HIDE DEF p, s
<1>3. (p - q) * m = r - s
  BY <1>1, <1>2
<1>. DEFINE k == p - q
<1>4. k \in Int /\ k * m = r - s
  BY <1>2, <1>3
<1>. HIDE DEF k
<1>5. k >= 1 => k * m >= m
  BY <1>4
<1>6. k <= -1 => k * m <= -m
  BY <1>4
<1>. DEFINE y == k * m
<1>. HIDE DEF y
<1>7. y = r - s /\ (k >= 1 => y >= m) /\ (k <= -1 => y <= -m)
  BY <1>4, <1>5, <1>6 DEF y
<1>8. k = 0
  BY <1>2, <1>4, <1>7
<1>9. p = q
  BY <1>2, <1>8 DEF k
<1> QED BY <1>9 DEF p

(* The ratio of heads is the same on every device, and so is the key head  *)
(* of a query head, among the device's own.                                *)
LEMMA RatioKept ==
  ASSUME NEW h \in Nat, NEW hk \in Nat, hk > 0, h > 0, h % hk = 0, NEW n \in Nat, n > 0
  PROVE  (h * n) \div (hk * n) = h \div hk /\ h \div hk \in Nat /\ h \div hk > 0
<1>. DEFINE r == h \div hk
<1>1. r \in Nat /\ r * hk = h /\ r > 0
  BY ExactDivision
<1>. HIDE DEF r
<1>2. h * n = r * (hk * n) + 0
  BY <1>1
<1>3. hk * n \in Nat /\ hk * n > 0
  OBVIOUS
<1>4. h * n \in Int
  OBVIOUS
<1>. DEFINE x == h * n
            m == hk * n
<1>. HIDE DEF x, m
<1>5. x \div m = r
  <2>1. x = r * m + 0 /\ m \in Nat /\ m > 0 /\ x \in Int
    BY <1>2, <1>3, <1>4 DEF x, m
  <2>. DEFINE z == 0
  <2>2. z \in Nat /\ z < m /\ x = r * m + z
    BY <2>1
  <2>. HIDE DEF z
  <2> QED BY <1>1, <2>1, <2>2, Quotient
<1> QED BY <1>1, <1>5 DEF r, x, m

(* Dividing by the size of a group commutes with a shift by whole groups.  *)
LEMMA HeadShifted ==
  ASSUME NEW r \in Nat, r > 0, NEW k \in Int, NEW h \in Nat
  PROVE  (k * r + h) \div r = k + h \div r
<1>. DEFINE q == h \div r
            s == h % r
<1>1. h = q * r + s
  OBVIOUS
<1>2. q \in Nat /\ s \in Nat /\ s < r
  OBVIOUS
<1>. HIDE DEF q, s
<1>3. k * r + h = (k + q) * r + s
  BY <1>1, <1>2
<1>4. k * r + h \in Int
  OBVIOUS
<1>. DEFINE x == k * r + h
            p == k + q
<1>5. x = p * r + s /\ x \in Int /\ p \in Int
  BY <1>2, <1>3, <1>4
<1>. HIDE DEF x, p
<1>6. x \div r = p
  BY <1>2, <1>5, Quotient
<1> QED BY <1>6 DEF q, x, p

(* Reading keys S with example e and key head k, moved by f and g.         *)
Moves(S, e, k, f, g) ==
  {<<f + e, g + k, col>> : col \in S}
    = {<<f + x[1], g + x[2], 0 + x[3]>> : x \in {<<e, k, col>> : col \in S}}

(* Moving a set of columns moves what is read.                             *)
LEMMA ReadsMoved ==
  ASSUME NEW S \in SUBSET Int, NEW e \in Int, NEW k \in Int, NEW f \in Int, NEW g \in Int
  PROVE  Moves(S, e, k, f, g)
<1>. DEFINE Moved(x) == <<f + x[1], g + x[2], 0 + x[3]>>
<1>1. \A col \in S : Moved(<<e, k, col>>) = <<f + e, g + k, col>>
  <2> TAKE col \in S
  <2>1. 0 + col = col
    OBVIOUS
  <2> QED BY <2>1
<1>. DEFINE T == {<<e, k, col>> : col \in S}
<1>2. ASSUME NEW z \in {<<f + e, g + k, col>> : col \in S} PROVE z \in {Moved(x) : x \in T}
  <2>1. PICK col \in S : z = <<f + e, g + k, col>>
    BY <1>2
  <2>2. <<e, k, col>> \in T /\ z = Moved(<<e, k, col>>)
    BY <1>1, <2>1
  <2>. HIDE DEF T, Moved
  <2> QED BY <2>2
<1>3. ASSUME NEW z \in {Moved(x) : x \in T} PROVE z \in {<<f + e, g + k, col>> : col \in S}
  <2>1. PICK x \in T : z = Moved(x)
    BY <1>3
  <2>2. PICK col \in S : x = <<e, k, col>>
    BY <2>1
  <2>3. z = <<f + e, g + k, col>>
    BY <1>1, <2>1, <2>2
  <2> QED BY <2>3
<1> QED
  <2>1. {<<f + e, g + k, col>> : col \in S} = {Moved(x) : x \in T}
    BY <1>2, <1>3
  <2> QED BY <2>1 DEF Moves

(* A factor cancels.                                                       *)
LEMMA Cancel ==
  ASSUME NEW x \in Nat, NEW y \in Nat, NEW n \in Nat, n > 0, x * n = y * n
  PROVE  x = y
<1>1. (x - y) * n = 0
  OBVIOUS
<1>. DEFINE z == x - y
<1>2. z \in Int /\ z * n = 0
  BY <1>1
<1>. HIDE DEF z
<1>3. z = 0
  BY <1>2
<1> QED BY <1>3 DEF z

-----------------------------------------------------------------------------
(* The keys a row attends to.                                              *)
Columns(c, row) ==
  {x \in 0 .. c.kv[2] - 1 :
     Plan!Attends([causal |-> c.causal, wl |-> c.wl, wr |-> c.wr, sq |-> c.q[2], sk |-> c.kv[2]],
                  row, x)}

(* What a row reads, by the columns it attends to.                         *)
LEMMA ReadsAre ==
  ASSUME NEW c, NEW e, NEW h, NEW row
  PROVE  Reads(c, e, h, row)
         = {<<e, h \div (Heads(c) \div HeadsK(c)), col>> : col \in Columns(c, row)}
BY DEF Reads, Columns

(* Of a shard that begins with example f and with key head g: if its rows  *)
(* attend to the same keys, they read there what they read in the whole.   *)
LEMMA ReadsOfShard ==
  ASSUME NEW l, NEW c, NEW e \in Int, NEW f \in Int, NEW g \in Int, NEW row \in Int,
         NEW h \in Nat, NEW x \in Int,
         Columns(l, row) = Columns(c, row),
         h \div (Heads(l) \div HeadsK(l)) \in Int,
         x \div (Heads(c) \div HeadsK(c)) = g + h \div (Heads(l) \div HeadsK(l))
  PROVE  Reads(c, f + e, x, 0 + row)
         = {<<f + y[1], g + y[2], 0 + y[3]>> : y \in Reads(l, e, h, row)}
<1>. DEFINE k == h \div (Heads(l) \div HeadsK(l))
            S == Columns(l, row)
<1>1. 0 + row = row
  OBVIOUS
<1>2. Reads(c, f + e, x, 0 + row) = {<<f + e, g + k, col>> : col \in S}
  BY <1>1, ReadsAre
<1>3. Reads(l, e, h, row) = {<<e, k, col>> : col \in S}
  BY ReadsAre
<1>4. S \in SUBSET Int
  BY DEF Columns
<1>5. k \in Int
  OBVIOUS
<1>. HIDE DEF k, S
<1>6. Moves(S, e, k, f, g)
  BY <1>4, <1>5, ReadsMoved
<1> QED BY <1>2, <1>3, <1>6 DEF Moves

(* A partitioned call computes what the whole call would: every row a      *)
(* device holds reads, in its own arrays, the examples, heads and positions *)
(* of keys that it reads in the whole ones (partition_fwd, flash_fwd.py).  *)
THEOREM PartitionSound ==
  Spec => []ShardsAreGlobal
<1>1. ASSUME HostInv PROVE ShardsAreGlobal
  <2>. DEFINE First(device, dims, axis) == IF axis = call.qaxis THEN device * dims[Place(axis)] ELSE 0
  <2>1. SUFFICES ASSUME pc = "launch", call.qaxis # "none", NEW device \in 0 .. ND - 1,
                        NEW e \in 0 .. Mine.q[1] - 1, NEW row \in 0 .. Mine.q[2] - 1,
                        NEW h \in 0 .. Mine.q[3] - 1
                 PROVE  Reads(call, First(device, Mine.q, "n") + e, First(device, Mine.q, "h") + h,
                              First(device, Mine.q, "s") + row)
                        = {<<First(device, Mine.kv, "n") + x[1], First(device, Mine.kv, "h") + x[2],
                             First(device, Mine.kv, "s") + x[3]>> : x \in Reads(Mine, e, h, row)}
    BY DEF ShardsAreGlobal, Mine
  <2>2. FrontendAccepts(call) /\ (call.varlen \/ PartitionFwd(call))
    BY <1>1, <2>1 DEF HostInv, Passed
  <2>3. FwdRuns(Mine, dev)
    BY <1>1, <2>1 DEF HostInv, Written, Ran
  <2>4. /\ ~ call.varlen /\ call.qaxis \in {"n", "h"}
        /\ call.q \in Seq(Nat) /\ Len(call.q) = 4 /\ call.kv \in Seq(Nat) /\ Len(call.kv) = 4
        /\ Shards(call.q, call.qaxis) /\ Shards(call.kv, call.qaxis) /\ ND \in Nat \ {0}
        /\ Mine.q = Part(call.q, call.qaxis) /\ Mine.kv = Part(call.kv, call.qaxis)
        /\ call.q[1] = call.kv[1]
    BY <1>1, <2>1, <2>2, SpreadCall
  <2>5. Fit(Mine) /\ ~ Mine.varlen
    BY <1>1, <2>2, <2>4, MineIs
  <2>6. Mine.causal = call.causal /\ Mine.wl = call.wl /\ Mine.wr = call.wr
    BY <1>1, Here, LocalFields DEF HostInv, Callable, Mine
  <2>. DEFINE p == Place(call.qaxis)
  <2>7. p = (IF call.qaxis = "n" THEN 1 ELSE 3)
    BY <2>4, Places
  <2>8. PICK x \in Nat : x * ND = call.q[p] /\ Replaced(call.q, p, x, Mine.q)
    BY <2>4, PartOf
  <2>9. PICK y \in Nat : y * ND = call.kv[p] /\ Replaced(call.kv, p, y, Mine.kv)
    BY <2>4, PartOf
  <2>10. Mine.q[2] = call.q[2] /\ Mine.kv[2] = call.kv[2]
    BY <2>7, <2>8, <2>9 DEF Replaced
  <2>11. Columns(Mine, row) = Columns(call, row)
    BY <2>6, <2>10 DEF Columns
  <2>12. /\ Heads(Mine) = Mine.q[3] /\ HeadsK(Mine) = Mine.kv[3]
         /\ Heads(call) = call.q[3] /\ HeadsK(call) = call.kv[3]
    <3>1. Heads(Mine) = Mine.q[3] /\ HeadsK(Mine) = Mine.kv[3]
      BY <2>5, BatchedDims
    <3>2. Heads(call) = call.q[3] /\ HeadsK(call) = call.kv[3]
      BY <2>4 DEF Heads, HeadsK
    <3> QED BY <3>1, <3>2
  <2>13. /\ Mine.q[3] \in Nat /\ Mine.q[3] > 0 /\ Mine.kv[3] \in Nat /\ Mine.kv[3] > 0
         /\ Mine.q[3] % Mine.kv[3] = 0
    <3>1. Heads(Mine) \in Nat \ {0} /\ HeadsK(Mine) \in Nat \ {0}
      BY <2>5, Dimensions
    <3>2. Heads(Mine) % HeadsK(Mine) = 0
      BY <2>3 DEF FwdRuns
    <3> QED BY <2>12, <3>1, <3>2
  <2>14. /\ e \in Nat /\ h \in Nat /\ row \in Nat /\ device \in Nat /\ ND \in Nat /\ ND > 0
    BY <2>4
  <2>. DEFINE r == Mine.q[3] \div Mine.kv[3]
  <2>15. r \in Nat /\ r > 0 /\ r * Mine.kv[3] = Mine.q[3]
    BY <2>13, ExactDivision
  <2>16. h \div r \in Int
    <3>. HIDE DEF r
    <3> QED BY <2>14, <2>15
  <2>17. CASE call.qaxis = "n"
    <3>1. Mine.q[1] = x /\ Mine.kv[1] = y /\ Mine.q[3] = call.q[3] /\ Mine.kv[3] = call.kv[3]
      BY <2>7, <2>8, <2>9, <2>17 DEF Replaced
    <3>2. x = y
      BY <2>4, <2>7, <2>8, <2>9, <2>14, <2>17, Cancel
    <3>3. /\ First(device, Mine.q, "n") = device * x /\ First(device, Mine.kv, "n") = device * x
          /\ First(device, Mine.q, "h") = 0 /\ First(device, Mine.kv, "h") = 0
          /\ First(device, Mine.q, "s") = 0 /\ First(device, Mine.kv, "s") = 0
      BY <2>7, <2>17, <3>1, <3>2
    <3>. DEFINE f == device * x
                g == 0
                head == 0 + h
    <3>4. f \in Int /\ g \in Int /\ head \in Int /\ head = h
      BY <2>14
    <3>5. head \div (Heads(call) \div HeadsK(call)) = g + h \div (Heads(Mine) \div HeadsK(Mine))
          /\ h \div (Heads(Mine) \div HeadsK(Mine)) \in Int
      <4>. HIDE DEF r
      <4>1. Heads(call) \div HeadsK(call) = r /\ Heads(Mine) \div HeadsK(Mine) = r
        BY <2>12, <3>1 DEF r
      <4>2. h \div r = 0 + h \div r
        BY <2>16
      <4> QED BY <2>16, <3>4, <4>1, <4>2
    <3>. HIDE DEF f, g, head, First
    <3>6. Reads(call, f + e, head, 0 + row)
          = {<<f + z[1], g + z[2], 0 + z[3]>> : z \in Reads(Mine, e, h, row)}
      BY <2>11, <2>14, <3>4, <3>5, ReadsOfShard
    <3> QED BY <3>3, <3>6 DEF f, g, head
  <2>18. CASE call.qaxis = "h"
    <3>1. Mine.q[3] = x /\ Mine.kv[3] = y
      BY <2>7, <2>8, <2>9, <2>18 DEF Replaced
    <3>3. /\ First(device, Mine.q, "n") = 0 /\ First(device, Mine.kv, "n") = 0
          /\ First(device, Mine.q, "h") = device * x /\ First(device, Mine.kv, "h") = device * y
          /\ First(device, Mine.q, "s") = 0 /\ First(device, Mine.kv, "s") = 0
      BY <2>7, <2>18, <3>1
    <3>. DEFINE f == 0
                g == device * y
                head == device * x + h
    <3>4. f \in Int /\ g \in Int /\ head \in Int
      BY <2>14
    <3>5. head \div (Heads(call) \div HeadsK(call)) = g + h \div (Heads(Mine) \div HeadsK(Mine))
          /\ h \div (Heads(Mine) \div HeadsK(Mine)) \in Int
      <4>1. call.q[3] = x * ND /\ call.kv[3] = y * ND
        BY <2>7, <2>8, <2>9, <2>18
      <4>2. x > 0 /\ y > 0 /\ x % y = 0 /\ r = x \div y
        BY <2>13, <3>1
      <4>3. (x * ND) \div (y * ND) = x \div y
        BY <2>14, <4>2, RatioKept
      <4>. HIDE DEF r
      <4>4. Heads(call) \div HeadsK(call) = r /\ Heads(Mine) \div HeadsK(Mine) = r
        BY <2>12, <3>1, <4>1, <4>2, <4>3
      <4>5. device * x = g * r
        BY <2>14, <2>15, <3>1
      <4>6. (g * r + h) \div r = g + h \div r
        BY <2>14, <2>15, <3>4, HeadShifted
      <4>7. head = g * r + h
        BY <4>5
      <4> QED BY <2>16, <4>4, <4>6, <4>7
    <3>. HIDE DEF f, g, head, First
    <3>6. Reads(call, f + e, head, 0 + row)
          = {<<f + z[1], g + z[2], 0 + z[3]>> : z \in Reads(Mine, e, h, row)}
      BY <2>11, <2>14, <3>4, <3>5, ReadsOfShard
    <3> QED BY <3>3, <3>6 DEF f, g, head
  <2> QED BY <2>4, <2>17, <2>18
<1> QED BY <1>1, HostInvariant, PTL

-----------------------------------------------------------------------------
(* What the kernels address lies in the buffers.                           *)

(* The elements of an array, from its dimensions.                          *)
Sized3(buf, w, x, y)    ==
  Elements(buf) = w * x * y /\ w \in Nat /\ x \in Nat /\ y \in Nat
Sized4(buf, w, x, y, z) ==
  Elements(buf) = w * x * y * z /\ w \in Nat /\ x \in Nat /\ y \in Nat /\ z \in Nat

(* The elements of a buffer of rank 3.                                     *)
LEMMA ElementsOf3 ==
  ASSUME NEW t, NEW s, NEW w, NEW x, NEW y, Dims3(s, w, x, y)
  PROVE  Sized3(Buf(t, s), w, x, y)
<1>. DEFINE buf == Buf(t, s)
<1>1. buf.dims = s
  BY DEF Buf
<1>2. s \in Seq(Nat) /\ Len(s) = 3 /\ s[1] = w /\ s[2] = x /\ s[3] = y
  BY DEF Dims3
<1>3. Elements(buf) = buf.dims[1] * buf.dims[2] * buf.dims[3]
  <2>. HIDE DEF buf
  <2> QED BY <1>1, <1>2, Elements3
<1>4. w \in Nat /\ x \in Nat /\ y \in Nat
  BY <1>2, Items3
<1> QED BY <1>1, <1>2, <1>3, <1>4 DEF Sized3

(* The same of rank 4.                                                     *)
LEMMA ElementsOf4 ==
  ASSUME NEW t, NEW s, NEW w, NEW x, NEW y, NEW z, Dims4(s, w, x, y, z)
  PROVE  Sized4(Buf(t, s), w, x, y, z)
<1>. DEFINE buf == Buf(t, s)
<1>1. buf.dims = s
  BY DEF Buf
<1>2. s \in Seq(Nat) /\ Len(s) = 4 /\ s[1] = w /\ s[2] = x /\ s[3] = y /\ s[4] = z
  BY DEF Dims4
<1>3. Elements(buf) = buf.dims[1] * buf.dims[2] * buf.dims[3] * buf.dims[4]
  <2>. HIDE DEF buf
  <2> QED BY <1>1, <1>2, Elements4
<1>4. w \in Nat /\ x \in Nat /\ y \in Nat /\ z \in Nat
  BY <1>2, Items4
<1> QED BY <1>1, <1>2, <1>3, <1>4 DEF Sized4

(* More rows have more elements.                                           *)
LEMMA MoreRows ==
  ASSUME NEW x \in Nat, NEW y \in Nat, x <= y, NEW m \in Nat, NEW n \in Nat
  PROVE  x * m * n <= y * m * n
<1>1. PICK e \in Nat : y = x + e
  <2>1. y - x \in Nat /\ y = x + (y - x)
    OBVIOUS
  <2> QED BY <2>1
<1>2. m * n \in Nat
  OBVIOUS
<1>. DEFINE k == m * n
<1>3. x * m * n = x * k /\ y * m * n = y * k
  OBVIOUS
<1>. HIDE DEF k
<1>4. y * k = x * k + e * k
  BY <1>1, <1>2 DEF k
<1>5. e * k \in Nat /\ x * k \in Nat
  BY <1>1, <1>2 DEF k
<1> QED BY <1>3, <1>4, <1>5

(* Rows the kernels address in an array of queries or keys.                *)
RowsOf(l, cu, n) == IF l.varlen THEN cu[Len(cu)] ELSE BatchOf(l) * n

(* The last fenceposts lie in the arrays.                                  *)
LEMMA LastFence ==
  ASSUME NEW l, Fit(l), l.varlen
  PROVE  /\ l.cuq[Len(l.cuq)] \in Nat /\ l.cuq[Len(l.cuq)] <= l.q[1]
         /\ l.cuk[Len(l.cuk)] \in Nat /\ l.cuk[Len(l.cuk)] <= l.kv[1]
<1>1. l.cuq \in Seq(Nat) /\ l.cuk \in Seq(Nat) /\ l.cuq # << >> /\ l.cuk # << >>
  BY CallTypes DEF Fit, Fenceposts
<1>2. Len(l.cuq) \in 1 .. Len(l.cuq) /\ Len(l.cuk) \in 1 .. Len(l.cuk)
  BY <1>1
<1> QED BY <1>1, <1>2, ElementOfSeq DEF Fit, Fenceposts

(* Nothing a kernel addresses in q, k or v, or in results like them, lies  *)
(* outside them.                                                           *)
LEMMA QueriesFit ==
  ASSUME NEW l, Fit(l), NEW t
  PROVE  RowsOf(l, l.cuq, MaxQ(l)) * Heads(l) * PadDim(l) <= Elements(Buf(t, Padded(l.q)))
<1>1. CASE l.varlen
  <2>1. Dims3(Padded(l.q), l.q[1], l.q[2], PadDim(l)) /\ Heads(l) = l.q[2]
    BY <1>1, PaddedVarlen, VarlenDims
  <2>2. Sized3(Buf(t, Padded(l.q)), l.q[1], l.q[2], PadDim(l))
    BY <2>1, ElementsOf3
  <2>3. RowsOf(l, l.cuq, MaxQ(l)) \in Nat /\ RowsOf(l, l.cuq, MaxQ(l)) <= l.q[1]
    BY <1>1, LastFence DEF RowsOf
  <2> QED BY <2>1, <2>2, <2>3, MoreRows DEF Sized3
<1>2. CASE ~ l.varlen
  <2>1. Dims4(Padded(l.q), l.q[1], l.q[2], l.q[3], PadDim(l))
        /\ Heads(l) = l.q[3] /\ BatchOf(l) = l.q[1] /\ MaxQ(l) = l.q[2]
    BY <1>2, PaddedBatched, BatchedDims
  <2>2. Sized4(Buf(t, Padded(l.q)), l.q[1], l.q[2], l.q[3], PadDim(l))
    BY <2>1, ElementsOf4
  <2>3. RowsOf(l, l.cuq, MaxQ(l)) = l.q[1] * l.q[2]
    BY <1>2, <2>1 DEF RowsOf
  <2>4. l.q[1] * l.q[2] * l.q[3] * PadDim(l) <= l.q[1] * l.q[2] * l.q[3] * PadDim(l)
    BY <2>2 DEF Sized4
  <2> QED BY <2>1, <2>2, <2>3, <2>4 DEF Sized4
<1> QED BY <1>1, <1>2, CallTypes

(* The rows of keys that the kernels address lie in the padded operand.    *)
LEMMA KeysFit ==
  ASSUME NEW l, Fit(l), ~ l.varlen => l.q[1] = l.kv[1] /\ l.q[4] = l.kv[4], NEW t
  PROVE  RowsOf(l, l.cuk, MaxK(l)) * HeadsK(l) * PadDim(l) <= Elements(Buf(t, Padded(l.kv)))
<1>1. CASE l.varlen
  <2>1. Dims3(Padded(l.kv), l.kv[1], l.kv[2], PadDim(l)) /\ HeadsK(l) = l.kv[2]
    BY <1>1, PaddedVarlen, VarlenDims
  <2>2. Sized3(Buf(t, Padded(l.kv)), l.kv[1], l.kv[2], PadDim(l))
    BY <2>1, ElementsOf3
  <2>3. RowsOf(l, l.cuk, MaxK(l)) \in Nat /\ RowsOf(l, l.cuk, MaxK(l)) <= l.kv[1]
    BY <1>1, LastFence DEF RowsOf
  <2> QED BY <2>1, <2>2, <2>3, MoreRows DEF Sized3
<1>2. CASE ~ l.varlen
  <2>1. Dims4(Padded(l.kv), l.kv[1], l.kv[2], l.kv[3], l.kv[4] + Dpad(l.kv[4]))
        /\ HeadsK(l) = l.kv[3] /\ BatchOf(l) = l.kv[1] /\ MaxK(l) = l.kv[2]
        /\ l.kv[4] + Dpad(l.kv[4]) = PadDim(l)
    BY <1>2, PaddedBatched, BatchedDims DEF PadDim
  <2>2. Sized4(Buf(t, Padded(l.kv)), l.kv[1], l.kv[2], l.kv[3], PadDim(l))
    BY <2>1, ElementsOf4
  <2>3. RowsOf(l, l.cuk, MaxK(l)) = l.kv[1] * l.kv[2]
    BY <1>2, <2>1 DEF RowsOf
  <2>4. l.kv[1] * l.kv[2] * l.kv[3] * PadDim(l) <= l.kv[1] * l.kv[2] * l.kv[3] * PadDim(l)
    BY <2>2 DEF Sized4
  <2> QED BY <2>1, <2>2, <2>3, <2>4 DEF Sized4
<1> QED BY <1>1, <1>2, CallTypes

(* The gradients of keys have a head for every head of q.                  *)
LEMMA GradDims ==
  ASSUME NEW l, Fit(l), ~ l.varlen => l.q[1] = l.kv[1] /\ l.q[4] = l.kv[4]
  PROVE  IF l.varlen THEN Dims3(GradKV(l), l.kv[1], Heads(l), PadDim(l))
         ELSE Dims4(GradKV(l), l.kv[1], l.kv[2], Heads(l), PadDim(l))
<1>. DEFINE s == Padded(l.kv)
            h == Heads(l)
<1>1. h \in Nat
  BY Dimensions
<1>2. GradKV(l) = WithDim(s, Len(s) - 1, h)
  BY DEF GradKV, WithHeads
<1>3. CASE l.varlen
  <2>1. Dims3(s, l.kv[1], l.kv[2], PadDim(l))
    BY <1>3, PaddedVarlen
  <2>. HIDE DEF s, h
  <2>2. s \in Seq(Nat) /\ Len(s) = 3 /\ s[1] = l.kv[1] /\ s[3] = PadDim(l)
    BY <2>1 DEF Dims3
  <2>3. GradKV(l) = WithDim(s, 2, h)
    BY <1>2, <2>2
  <2>4. Dims3(WithDim(s, 2, h), s[1], h, s[3])
    BY <1>1, <2>2 DEF WithDim, Dims3
  <2> QED BY <1>3, <2>2, <2>3, <2>4 DEF h
<1>4. CASE ~ l.varlen
  <2>1. Dims4(s, l.kv[1], l.kv[2], l.kv[3], PadDim(l))
    BY <1>4, PaddedBatched, BatchedDims DEF PadDim
  <2>. HIDE DEF s, h
  <2>2. s \in Seq(Nat) /\ Len(s) = 4 /\ s[1] = l.kv[1] /\ s[2] = l.kv[2] /\ s[4] = PadDim(l)
    BY <2>1 DEF Dims4
  <2>3. GradKV(l) = WithDim(s, 3, h)
    BY <1>2, <2>2
  <2>4. Replaced(s, 3, h, WithDim(s, 3, h))
    BY <1>1, <2>2, WithDim4
  <2>5. Dims4(WithDim(s, 3, h), s[1], s[2], h, s[4])
    BY <2>4 DEF Replaced, Dims4
  <2> QED BY <1>4, <2>2, <2>3, <2>5 DEF h
<1> QED BY <1>3, <1>4

(* The same of the gradients of k and v, with the heads of q.              *)
LEMMA GradientsFit ==
  ASSUME NEW l, Fit(l), ~ l.varlen => l.q[1] = l.kv[1] /\ l.q[4] = l.kv[4], NEW t
  PROVE  RowsOf(l, l.cuk, MaxK(l)) * Heads(l) * PadDim(l) <= Elements(Buf(t, GradKV(l)))
<1>1. CASE l.varlen
  <2>1. Dims3(GradKV(l), l.kv[1], Heads(l), PadDim(l))
    BY <1>1, GradDims
  <2>2. Sized3(Buf(t, GradKV(l)), l.kv[1], Heads(l), PadDim(l))
    BY <2>1, ElementsOf3
  <2>3. RowsOf(l, l.cuk, MaxK(l)) \in Nat /\ RowsOf(l, l.cuk, MaxK(l)) <= l.kv[1]
    BY <1>1, LastFence DEF RowsOf
  <2> QED BY <2>2, <2>3, MoreRows DEF Sized3
<1>2. CASE ~ l.varlen
  <2>1. Dims4(GradKV(l), l.kv[1], l.kv[2], Heads(l), PadDim(l))
        /\ BatchOf(l) = l.kv[1] /\ MaxK(l) = l.kv[2]
    BY <1>2, GradDims, BatchedDims
  <2>2. Sized4(Buf(t, GradKV(l)), l.kv[1], l.kv[2], Heads(l), PadDim(l))
    BY <2>1, ElementsOf4
  <2>3. RowsOf(l, l.cuk, MaxK(l)) = l.kv[1] * l.kv[2]
    BY <1>2, <2>1 DEF RowsOf
  <2>4. l.kv[1] * l.kv[2] * Heads(l) * PadDim(l) <= l.kv[1] * l.kv[2] * Heads(l) * PadDim(l)
    BY <2>2 DEF Sized4
  <2> QED BY <2>1, <2>2, <2>3, <2>4 DEF Sized4
<1> QED BY <1>1, <1>2, CallTypes

(* The elements of scratch of rank 3.                                      *)
LEMMA Product3 ==
  ASSUME NEW x \in Nat, NEW y \in Nat, NEW z \in Nat, NEW t
  PROVE  Sized3(Buf(t, <<x, y, z>>), x, y, z)
<1>1. Dims3(<<x, y, z>>, x, y, z)
  BY DEF Dims3
<1> QED BY <1>1, ElementsOf3

(* The same of rank 4.                                                     *)
LEMMA Product4 ==
  ASSUME NEW w \in Nat, NEW x \in Nat, NEW y \in Nat, NEW z \in Nat, NEW t
  PROVE  Sized4(Buf(t, <<w, x, y, z>>), w, x, y, z)
<1>1. Dims4(<<w, x, y, z>>, w, x, y, z)
  BY DEF Dims4
<1> QED BY <1>1, ElementsOf4

Sized5(buf, v, w, x, y, z) == Elements(buf) = v * w * x * y * z
(* The same of rank 5.                                                     *)
LEMMA Product5 ==
  ASSUME NEW v \in Nat, NEW w \in Nat, NEW x \in Nat, NEW y \in Nat, NEW z \in Nat, NEW t
  PROVE  Sized5(Buf(t, <<v, w, x, y, z>>), v, w, x, y, z)
<1>. DEFINE buf == Buf(t, <<v, w, x, y, z>>)
<1>1. buf.dims \in Seq(Nat) /\ Len(buf.dims) = 5 /\ buf.dims[1] = v /\ buf.dims[2] = w
      /\ buf.dims[3] = x /\ buf.dims[4] = y /\ buf.dims[5] = z
  BY DEF Buf
<1>2. Elements(buf) = buf.dims[1] * buf.dims[2] * buf.dims[3] * buf.dims[4] * buf.dims[5]
  <2>. HIDE DEF buf
  <2> QED BY <1>1, Elements5
<1> QED BY <1>1, <1>2 DEF Sized5

(* Of a device's call: a log-sum-exp for every example, head and row.      *)
LEMMA LseDimsAre ==
  ASSUME NEW l, Fit(l)
  PROVE  LseDims(l) = <<BatchOf(l), Heads(l), MaxQ(l)>>
<1>1. CASE l.varlen    BY <1>1, LseOf
<1>2. CASE ~ l.varlen  BY <1>2, LseOf, BatchedDims
<1> QED BY <1>1, <1>2, CallTypes

(* The elements of lse.                                                    *)
LEMMA LseFits ==
  ASSUME NEW l, Fit(l), NEW t
  PROVE  Sized3(Buf(t, LseDims(l)), BatchOf(l), Heads(l), MaxQ(l))
BY LseDimsAre, Dimensions, Product3

(* The elements of a padded operand are counted by a natural number.       *)
LEMMA ElementsOfKeys ==
  ASSUME NEW l, Fit(l), ~ l.varlen => l.q[1] = l.kv[1] /\ l.q[4] = l.kv[4], NEW t
  PROVE  Elements(Buf(t, Padded(l.kv))) \in Nat
<1>1. CASE l.varlen
  <2>1. Sized3(Buf(t, Padded(l.kv)), l.kv[1], l.kv[2], PadDim(l))
    BY <1>1, PaddedVarlen, ElementsOf3
  <2> QED BY <2>1 DEF Sized3
<1>2. CASE ~ l.varlen
  <2>1. Sized4(Buf(t, Padded(l.kv)), l.kv[1], l.kv[2], l.kv[3], l.kv[4] + Dpad(l.kv[4]))
    BY <1>2, PaddedBatched, ElementsOf4
  <2> QED BY <2>1 DEF Sized4
<1> QED BY <1>1, <1>2, CallTypes

(* The lengths of sequence i lie within those the kernels are told.        *)
LEMMA LengthsWithin ==
  ASSUME NEW c, Fit(c), c.varlen, Len(c.cuq) = Len(c.cuk), NEW i \in 1 .. BatchOf(c)
  PROVE  /\ Length(c.cuq, i) \in Nat /\ Length(c.cuq, i) <= MaxQ(c)
         /\ Length(c.cuk, i) \in Nat /\ Length(c.cuk, i) <= MaxK(c)
         /\ c.cuk[i] \in Nat /\ c.cuk[i + 1] \in Nat /\ c.cuk[i + 1] <= c.kv[1]
         /\ i \in 1 .. Len(c.cuk) - 1
<1>1. c.cuq \in Seq(Nat) /\ c.cuk \in Seq(Nat) /\ BatchOf(c) = Len(c.cuq) - 1
  BY VarlenDims, CallTypes
<1>2. Fenceposts(c.cuq, c.q[1], MaxQ(c)) /\ Fenceposts(c.cuk, c.kv[1], MaxK(c))
  BY DEF Fit
<1>3. /\ i \in 1 .. Len(c.cuq) - 1 /\ i \in 1 .. Len(c.cuk) - 1
      /\ i \in 1 .. Len(c.cuq) /\ i + 1 \in 1 .. Len(c.cuq) /\ i <= i + 1
      /\ i + 1 <= Len(c.cuk) /\ Len(c.cuk) \in 1 .. Len(c.cuk)
  BY <1>1
<1>4. /\ c.cuq[i] \in Nat /\ c.cuq[i + 1] \in Nat /\ c.cuk[i] \in Nat /\ c.cuk[i + 1] \in Nat
      /\ c.cuk[Len(c.cuk)] \in Nat
  BY <1>1, <1>3, ElementOfSeq
<1>5. /\ c.cuq[i] <= c.cuq[i + 1] /\ c.cuk[i] <= c.cuk[i + 1] /\ c.cuk[i + 1] <= c.cuk[Len(c.cuk)]
      /\ c.cuk[Len(c.cuk)] <= c.kv[1]
  BY <1>1, <1>2, <1>3 DEF Fenceposts
<1>6. Length(c.cuq, i) <= MaxQ(c) /\ Length(c.cuk, i) <= MaxK(c)
  BY <1>2, <1>3 DEF Fenceposts
<1>7. Length(c.cuq, i) \in Nat /\ Length(c.cuk, i) \in Nat
  BY <1>4, <1>5 DEF Length
<1>8. c.cuk[i + 1] <= c.kv[1]
  <2>1. c.kv[1] \in Nat
    BY VarlenDims
  <2> QED BY <1>4, <1>5, <2>1
<1> QED BY <1>3, <1>4, <1>6, <1>7, <1>8

-----------------------------------------------------------------------------
(* Where the rows of scratch end.                                          *)

(* Multiplying keeps the order.                                            *)
LEMMA Scaled ==
  ASSUME NEW x \in Nat, NEW y \in Nat, NEW m \in Nat, x <= y
  PROVE  x * m \in Nat /\ y * m \in Nat /\ x * m <= y * m
<1>1. PICK e \in Nat : y = x + e
  <2>1. y - x \in Nat /\ y = x + (y - x)
    OBVIOUS
  <2> QED BY <2>1
<1>2. y * m = x * m + e * m
  BY <1>1
<1>3. x * m \in Nat /\ e * m \in Nat
  BY <1>1
<1> QED BY <1>2, <1>3

(* A head dimension is within the one rounded to 32, and its kernel's      *)
(* within twice that.                                                      *)
LEMMA HeadDimWithin ==
  ASSUME NEW d \in 1 .. 256
  PROVE  /\ HeadDim(d) \in HeadDims /\ HeadDim(d) \in Nat /\ RoundTo(d, 32) \in Nat
         /\ d <= RoundTo(d, 32) /\ HeadDim(d) <= 2 * RoundTo(d, 32)
<1>1. HeadDim(d) \in HeadDims /\ \A y \in HeadDims : d <= y => HeadDim(d) <= y
  BY HeadDimIs
<1>2. RoundTo(d, 32) \in Nat /\ d <= RoundTo(d, 32) /\ 32 <= RoundTo(d, 32)
  BY DEF RoundTo, CeilDiv
<1>3. HeadDim(d) \in Nat
  BY <1>1 DEF HeadDims
<1>4. {32, 64, 96, 128, 192, 256} = HeadDims
  BY DEF HeadDims
<1>. DEFINE dim == HeadDim(d)
<1>5. HeadDim(d) <= 2 * RoundTo(d, 32)
  <2>. HIDE DEF dim
  <2>1. \A y \in {32, 64, 96, 128, 192, 256} : d <= y => dim <= y
    BY <1>1, <1>4 DEF dim
  <2>2. /\ d <= 32 => dim <= 32
        /\ d <= 64 => dim <= 64
        /\ d <= 128 => dim <= 128
        /\ d <= 192 => dim <= 192
        /\ dim <= 256
    BY <2>1
  <2>3. dim \in Nat
    BY <1>3 DEF dim
  <2>4. dim <= 2 * RoundTo(d, 32)
    BY <1>2, <2>2, <2>3
  <2> QED BY <2>4 DEF dim
<1> QED BY <1>1, <1>2, <1>3, <1>5

(* Rows laid out e columns apart but dim apart as they are moved, dim at   *)
(* most w times e, take at most w times the rows.                          *)
LEMMA RowsReach ==
  ASSUME NEW e \in Nat, NEW dim \in Nat, NEW d \in Nat, d <= e,
         NEW w \in {1, 2}, dim <= w * e,
         NEW row \in Nat, NEW rows \in Nat \ {0}, NEW T \in Nat, row + w * (rows - 1) + 1 <= T
  PROVE  row * e + (rows - 1) * dim + d <= T * e
<1>. DEFINE k == rows - 1
<1>1. k \in Nat
  OBVIOUS
<1>2. dim * k <= (w * e) * k /\ dim * k \in Nat
  <2>1. w * e \in Nat
    OBVIOUS
  <2>. HIDE DEF k
  <2> QED BY <1>1, <2>1, Scaled
<1>. DEFINE z == row + w * k + 1
<1>3. z \in Nat /\ z <= T
  BY <1>1
<1>4. z * e <= T * e /\ T * e \in Nat
  <2>. HIDE DEF z
  <2> QED BY <1>3, Scaled
<1>5. z * e = row * e + (w * e) * k + e
  <2>. HIDE DEF k
  <2>1. CASE w = 1
    <3>1. z = row + k + 1
      BY <1>1, <2>1
    <3>2. (row + k + 1) * e = row * e + e * k + e
      BY <1>1
    <3>3. w * e = e
      BY <2>1
    <3>. HIDE DEF z
    <3> QED BY <3>1, <3>2, <3>3
  <2>2. CASE w = 2
    <3>1. z = row + 2 * k + 1
      BY <1>1, <2>2
    <3>2. (row + 2 * k + 1) * e = row * e + (2 * e) * k + e
      BY <1>1
    <3>3. w * e = 2 * e
      BY <2>2
    <3>. HIDE DEF z
    <3> QED BY <3>1, <3>2, <3>3
  <2> QED BY <2>1, <2>2
<1>. DEFINE A == row * e
            P == dim * k
            Q == (w * e) * k
            X == z * e
            Y == T * e
<1>6. A \in Nat /\ P \in Nat /\ Q \in Int /\ X \in Int /\ Y \in Nat
  <2>1. A \in Nat
    OBVIOUS
  <2>2. Q \in Int
    <3>. HIDE DEF k
    <3> QED BY <1>1
  <2>3. X \in Int
    <3>. HIDE DEF z
    <3> QED BY <1>3
  <2> QED BY <1>2, <1>4, <2>1, <2>2, <2>3
<1>7. (rows - 1) * dim = P
  <2>1. k * dim = dim * k
    <3>. HIDE DEF k
    <3> QED BY <1>1
  <2> QED BY <2>1
<1>8. P <= Q /\ X <= Y /\ X = A + Q + e
  BY <1>2, <1>4, <1>5
<1>. HIDE DEF k, z, A, P, Q, X, Y
<1>9. A + P + d <= Y
  BY <1>6, <1>8
<1> QED BY <1>7, <1>9 DEF A, Y

(* So rows of the lines of a split stay in the scratch, if the splits      *)
(* after it leave room for the longer ones.                                *)
LEMMA LinesFit ==
  ASSUME NEW e \in Nat, NEW dim \in Nat, NEW d \in Nat, d <= e,
         NEW w \in {1, 2}, dim <= w * e,
         NEW lines \in Nat, NEW s \in Nat, NEW S \in Nat, s + w <= S,
         NEW row \in Nat, NEW rows \in Nat \ {0}, rows <= lines, row + rows <= (s + 1) * lines
  PROVE  row * e + (rows - 1) * dim + d <= S * lines * e
<1>. DEFINE T == S * lines
            A == (s + 1) * lines
<1>1. T \in Nat /\ A \in Nat
  OBVIOUS
<1>2. A + (w - 1) * lines <= T
  <2>1. (s + w) * lines <= S * lines
    <3>1. s + w \in Nat
      OBVIOUS
    <3>. DEFINE y == s + w
    <3>. HIDE DEF y
    <3>2. y * lines <= S * lines
      BY <3>1, Scaled DEF y
    <3> QED BY <3>2 DEF y
  <2>2. (s + w) * lines = (s + 1) * lines + (w - 1) * lines
    <3>1. CASE w = 1  BY <3>1
    <3>2. CASE w = 2  BY <3>2
    <3> QED BY <3>1, <3>2
  <2> QED BY <2>1, <2>2
<1>3. row + rows <= A
  OBVIOUS
<1>. HIDE DEF T, A
<1>4. row + w * (rows - 1) + 1 <= T
  <2>1. CASE w = 1
    BY <1>1, <1>2, <1>3, <2>1
  <2>2. CASE w = 2
    <3>1. A + lines <= T
      BY <1>1, <1>2, <2>2
    <3> QED BY <1>1, <1>3, <2>2, <3>1
  <2> QED BY <2>1, <2>2
<1>5. row * e + (rows - 1) * dim + d <= T * e
  BY <1>1, <1>4, RowsReach
<1> QED BY <1>5 DEF T

Blocks == {4, 8, 16, 64, 128}

(* A block of m among n begins before n, and the blocks end at n rounded   *)
(* up.                                                                     *)
LEMMA BlockWithin ==
  ASSUME NEW n \in Nat, NEW m \in Blocks, NEW x \in 0 .. CeilDiv(n, m) - 1
  PROVE  /\ x \in Nat /\ x * m \in Nat /\ (x + 1) * m \in Nat /\ (x + 1) * m = x * m + m
         /\ (x + 1) * m <= RoundTo(n, m)
         /\ Lesser(m, n - x * m) \in Nat \ {0} /\ Lesser(m, n - x * m) <= n
         /\ x * m + Lesser(m, n - x * m) <= n
<1>1. CASE m = 4    BY <1>1 DEF CeilDiv, RoundTo, Lesser
<1>2. CASE m = 8    BY <1>2 DEF CeilDiv, RoundTo, Lesser
<1>3. CASE m = 16   BY <1>3 DEF CeilDiv, RoundTo, Lesser
<1>4. CASE m = 64   BY <1>4 DEF CeilDiv, RoundTo, Lesser
<1>5. CASE m = 128  BY <1>5 DEF CeilDiv, RoundTo, Lesser
<1> QED BY <1>1, <1>2, <1>3, <1>4, <1>5 DEF Blocks

(* The scratch of the split kernel, for the splits Python reckoned with.   *)
LEMMA ScratchSizes ==
  ASSUME NEW l, Fit(l), NEW f, FwdRets(l, f), Splits(l) \in Nat
  PROVE  /\ Elements(f.rets[3]) = Splits(l) * (BatchOf(l) * Heads(l) * MaxQ(l)) * RoundTo(PadDim(l), 32)
         /\ Elements(f.rets[4]) = Splits(l) * (BatchOf(l) * Heads(l) * MaxQ(l))
         /\ Elements(f.rets[2]) = BatchOf(l) * Heads(l) * MaxQ(l)
         /\ f.rets[3].dims[1] = Splits(l)
<1>. DEFINE b == BatchOf(l)
            h == Heads(l)
            m == MaxQ(l)
            e == RoundTo(Dim(l), 32)
            S == Splits(l)
<1>1. b \in Nat /\ h \in Nat /\ m \in Nat /\ e \in Nat /\ RoundTo(PadDim(l), 32) = e
  BY Dimensions
<1>2. f.rets[3] = Buf("F32", <<S, b, m, h, e>>) /\ f.rets[4] = Buf("F32", <<S>> \o LseDims(l))
      /\ f.rets[2] = Buf("F32", LseDims(l))
  BY DEF FwdRets
<1>3. LseDims(l) = <<b, h, m>>
  BY LseDimsAre
<1>4. S \in Nat
  OBVIOUS
<1>. HIDE DEF b, h, m, e, S
<1>5. Sized5(f.rets[3], S, b, m, h, e)
  <2>. DEFINE t == "F32"
  <2>1. f.rets[3] = Buf(t, <<S, b, m, h, e>>)
    BY <1>2
  <2>. HIDE DEF t
  <2>2. Sized5(Buf(t, <<S, b, m, h, e>>), S, b, m, h, e)
    BY <1>1, <1>4, Product5
  <2> QED BY <2>1, <2>2
<1>6. Sized4(f.rets[4], S, b, h, m)
  <2>1. Dims4(<<S>> \o <<b, h, m>>, S, b, h, m)
    BY <1>1, <1>4 DEF Dims4
  <2> QED BY <1>2, <1>3, <2>1, ElementsOf4
<1>7. Sized3(f.rets[2], b, h, m)
  <2>1. Dims3(<<b, h, m>>, b, h, m)
    BY <1>1 DEF Dims3
  <2> QED BY <1>2, <1>3, <2>1, ElementsOf3
<1>8. S * b * m * h * e = S * (b * h * m) * e /\ S * b * h * m = S * (b * h * m)
  BY <1>1, <1>4
<1>9. f.rets[3].dims[1] = S
  BY <1>2 DEF Buf
<1>10. Elements(f.rets[3]) = S * (b * h * m) * RoundTo(PadDim(l), 32)
       /\ Elements(f.rets[4]) = S * (b * h * m) /\ Elements(f.rets[2]) = b * h * m
  BY <1>1, <1>5, <1>6, <1>7, <1>8 DEF Sized5, Sized4, Sized3
<1> QED BY <1>9, <1>10 DEF b, h, m, S

(* Nothing the split and combine kernels address of the scratch is outside *)
(* it, if they have a split to spare where the rows are too long.          *)
LEMMA ScratchFits ==
  ASSUME NEW l, Fit(l), dev \in Device, FwdRuns(l, dev), FwdRets(l, frame),
         NEW p, p = FwdParams(l, dev)
  PROVE  ScratchInBounds(p)
<1>. DEFINE n     == p.b * p.h
            lines == p.b * p.h * p.sq
            e     == p.d_rounded
            dim   == HeadDim(p.d)
            m     == SplitTraits(dim).m
            k     == CombineRows(dim)
            S     == Splits(l)
            Fits  == ~ (KernelPads(p) /\ NoSpareSplit(p))
<1>1. /\ p.b = BatchOf(l) /\ p.sq = MaxQ(l) /\ p.h = Heads(l)
      /\ p.d = PadDim(l) /\ e = RoundTo(p.d, 32) /\ p.splits = SplitsOn(l, dev)
  BY DEF FwdParams, ParamsOf
<1>2. p.b \in Nat \ {0} /\ p.h \in Nat \ {0} /\ p.sq \in Nat /\ p.d \in 1 .. 256
  BY ParamsTypedFwd DEF Typed
<1>3. p.splits \in Nat /\ S \in Nat /\ p.splits <= S
  BY <1>1, ParamsTyped
<1>4. dim \in HeadDims /\ dim \in Nat /\ e \in Nat /\ p.d <= e /\ dim <= 2 * e
  BY <1>1, <1>2, HeadDimWithin
<1>5. m \in Blocks /\ k \in Blocks /\ k \in {4, 8, 16}
  <2>. HIDE DEF dim
  <2>1. m \in {64, 128}
    BY <1>4, FwdTiles
  <2>2. k \in {4, 8, 16}
    BY DEF CombineRows
  <2> QED BY <2>1, <2>2 DEF Blocks
<1>6. n \in Nat \ {0} /\ lines \in Nat /\ lines = n * p.sq
  <2>1. n \in Nat /\ n >= 1
    BY <1>2
  <2> QED BY <1>2, <2>1
<1>7. /\ Elements(frame.rets[3]) = S * lines * e /\ Elements(frame.rets[4]) = S * lines
      /\ Elements(frame.rets[2]) = lines /\ frame.rets[3].dims[1] = S
  BY <1>1, <1>3, ScratchSizes
<1>8. ASSUME Fits, NEW s \in 0 .. p.splits - 1
      PROVE  \E w \in {1, 2} : dim <= w * e /\ s + w <= S
  <2>1. CASE ~ KernelPads(p)
    <3>1. dim <= 1 * e
      BY <1>4, <2>1 DEF KernelPads
    <3> QED BY <1>3, <3>1
  <2>2. CASE ~ NoSpareSplit(p)
    <3>1. p.splits < S
      BY <1>3, <1>7, <2>2 DEF NoSpareSplit
    <3> QED BY <1>3, <1>4, <3>1
  <2> QED BY <1>8, <2>1, <2>2
<1>. HIDE DEF n, lines, e, dim, m, k, S, Fits
<1>9. ASSUME Fits, NEW s \in 0 .. p.splits - 1,
             NEW row \in Nat, NEW rows \in Nat \ {0}, rows <= lines, row + rows <= (s + 1) * lines
      PROVE  RowsEnd(p, row, rows) <= Elements(frame.rets[3])
  <2>1. PICK w \in {1, 2} : dim <= w * e /\ s + w <= S
    BY <1>8, <1>9
  <2>2. s \in Nat
    BY <1>3
  <2>3. row * e + (rows - 1) * dim + p.d <= S * lines * e
    <3>1. p.d \in Nat
      BY <1>2
    <3> QED BY <1>3, <1>4, <1>6, <1>9, <2>1, <2>2, <3>1, LinesFit
  <2> QED BY <1>7, <2>3 DEF RowsEnd, e, dim
<1>10. ASSUME Fits, NEW s \in 0 .. p.splits - 1, NEW i \in 0 .. n - 1,
              NEW x \in 0 .. CeilDiv(p.sq, m) - 1
       PROVE  RowsEnd(p, (s * n + i) * p.sq + x * m, Lesser(m, p.sq - x * m)) <= Elements(frame.rets[3])
  <2>. DEFINE rows == Lesser(m, p.sq - x * m)
              u    == s * n + i
              y    == x * m
  <2>1. /\ y \in Nat /\ rows \in Nat \ {0} /\ rows <= p.sq /\ y + rows <= p.sq
    BY <1>2, <1>5, BlockWithin
  <2>2. u \in Nat /\ u + 1 <= (s + 1) * n
    <3>1. s \in Nat /\ i \in Nat /\ i + 1 <= n
      BY <1>3, <1>6
    <3>2. s * n \in Nat /\ (s + 1) * n = s * n + n
      BY <1>6, <3>1
    <3> QED BY <1>6, <3>1, <3>2
  <2>. HIDE DEF rows, u, y
  <2>3. u * p.sq \in Nat /\ u * p.sq + p.sq <= (s + 1) * lines
    <3>. DEFINE z == (s + 1) * n
    <3>1. s + 1 \in Nat /\ z \in Nat
      <4>1. s + 1 \in Nat
        BY <1>3
      <4> QED BY <1>6, <4>1
    <3>2. z * p.sq = (s + 1) * lines
      BY <1>2, <1>3, <1>6
    <3>3. u + 1 <= z
      BY <2>2
    <3>. HIDE DEF z
    <3>4. (u + 1) * p.sq <= z * p.sq
      <4>. DEFINE v == u + 1
      <4>1. v \in Nat /\ v <= z
        BY <2>2, <3>3
      <4>. HIDE DEF v
      <4>2. v * p.sq <= z * p.sq
        BY <1>2, <3>1, <4>1, Scaled
      <4> QED BY <4>2 DEF v
    <3>5. (u + 1) * p.sq = u * p.sq + p.sq
      BY <1>2, <2>2
    <3>6. u * p.sq \in Nat
      BY <1>2, <2>2
    <3> QED BY <3>2, <3>4, <3>5, <3>6
  <2>4. p.sq <= lines
    <3>1. 1 \in Nat /\ n \in Nat /\ 1 <= n
      BY <1>6
    <3>2. 1 * p.sq <= n * p.sq
      BY <1>2, <3>1, Scaled
    <3> QED BY <1>2, <1>6, <3>2
  <2>. DEFINE v    == u * p.sq
              last == (s + 1) * lines
  <2>5. v \in Nat /\ v + p.sq <= last /\ last \in Nat
    <3>1. s + 1 \in Nat
      BY <1>3
    <3>2. last \in Nat
      BY <1>6, <3>1
    <3> QED BY <2>3, <3>2
  <2>. HIDE DEF v, last
  <2>6. v + y \in Nat /\ rows <= lines /\ v + y + rows <= last
    BY <1>2, <1>6, <2>1, <2>4, <2>5
  <2>7. RowsEnd(p, v + y, rows) <= Elements(frame.rets[3])
    BY <1>9, <1>10, <2>1, <2>6 DEF last
  <2> QED BY <2>7 DEF v, u, y, rows
<1>11. ASSUME Fits, NEW s \in 0 .. p.splits - 1, NEW x \in 0 .. CeilDiv(lines, k) - 1
       PROVE  RowsEnd(p, s * lines + x * k, Lesser(k, lines - x * k)) <= Elements(frame.rets[3])
  <2>. DEFINE rows == Lesser(k, lines - x * k)
              y    == x * k
              v    == s * lines
              last == (s + 1) * lines
  <2>1. y \in Nat /\ rows \in Nat \ {0} /\ rows <= lines /\ y + rows <= lines
    BY <1>5, <1>6, BlockWithin
  <2>2. s \in Nat
    BY <1>3
  <2>3. v \in Nat /\ last = v + lines
    BY <1>6, <2>2
  <2>. HIDE DEF rows, y, v, last
  <2>4. v + y \in Nat /\ v + y + rows <= last
    BY <1>6, <2>1, <2>3
  <2>5. RowsEnd(p, v + y, rows) <= Elements(frame.rets[3])
    BY <1>9, <1>11, <2>1, <2>4 DEF last
  <2> QED BY <2>5 DEF v, y, rows
<1>12. p.splits * lines <= Elements(frame.rets[4])
  BY <1>3, <1>6, <1>7, Scaled
<1>13. RoundTo(lines, k) <= RoundTo(Elements(frame.rets[2]), Granule)
  <2>1. CASE k = 4   BY <1>6, <1>7, <2>1 DEF RoundTo, CeilDiv, Granule
  <2>2. CASE k = 8   BY <1>6, <1>7, <2>2 DEF RoundTo, CeilDiv, Granule
  <2>3. CASE k = 16  BY <1>6, <1>7, <2>3 DEF RoundTo, CeilDiv, Granule
  <2> QED BY <1>5, <2>1, <2>2, <2>3
<1>14. /\ Fits =>
            \A s \in 0 .. p.splits - 1 :
              /\ \A i \in 0 .. n - 1, x \in 0 .. CeilDiv(p.sq, m) - 1 :
                   RowsEnd(p, (s * n + i) * p.sq + x * m, Lesser(m, p.sq - x * m))
                     <= Elements(frame.rets[3])
              /\ \A x \in 0 .. CeilDiv(lines, k) - 1 :
                   RowsEnd(p, s * lines + x * k, Lesser(k, lines - x * k)) <= Elements(frame.rets[3])
       /\ p.splits * lines <= Elements(frame.rets[4])
       /\ RoundTo(lines, k) <= RoundTo(Elements(frame.rets[2]), Granule)
  BY <1>10, <1>11, <1>12, <1>13
<1> QED BY <1>14 DEF ScratchInBounds, n, lines, dim, m, k, Fits

(* Tiles of 64 or 128 rows end within the rows rounded up to 128, also if  *)
(* there are more of them.                                                 *)
LEMMA TilesRound ==
  ASSUME NEW n \in Nat, NEW tile \in {64, 128}, NEW most \in Nat, n <= most
  PROVE  RoundTo(n, tile) <= RoundTo(most, 128) /\ RoundTo(most, 128) \in Nat
BY DEF RoundTo, CeilDiv

(* They take fewer than 128 rows more.                                     *)
LEMMA TilesShort ==
  ASSUME NEW n \in Nat, NEW tile \in {64, 128}
  PROVE  RoundTo(n, tile) \in Nat /\ RoundTo(n, tile) <= n + 127
BY DEF RoundTo, CeilDiv

(* The tiles of a sequence end within the rows and the 128 spare ones of   *)
(* every sequence up to it, with a row to spare.                           *)
LEMMA SequencesApart ==
  ASSUME NEW l, Fit(l), l.varlen, Len(l.cuq) = Len(l.cuk), NEW tile \in {64, 128},
         NEW i \in 1 .. BatchOf(l), NEW end \in Nat, end <= RoundTo(Length(l.cuq, i), tile)
  PROVE  /\ l.cuq[i] + 128 * (i - 1) \in Nat
         /\ l.cuq[i] + 128 * (i - 1) + end + 1 <= l.q[1] + 128 * BatchOf(l)
<1>1. l.cuq \in Seq(Nat) /\ BatchOf(l) = Len(l.cuq) - 1 /\ BatchOf(l) \in Nat /\ l.q[1] \in Nat
  BY VarlenDims, CallTypes
<1>2. i \in 1 .. Len(l.cuq) /\ i + 1 \in 1 .. Len(l.cuq) /\ Len(l.cuq) \in 1 .. Len(l.cuq)
      /\ i \in DOMAIN l.cuq /\ i + 1 \in DOMAIN l.cuq /\ Len(l.cuq) \in DOMAIN l.cuq
  BY <1>1
<1>3. l.cuq[i] \in Nat /\ l.cuq[i + 1] \in Nat /\ l.cuq[Len(l.cuq)] \in Nat
  BY <1>1, <1>2, ElementOfSeq
<1>4. l.cuq[i + 1] <= l.cuq[Len(l.cuq)] /\ l.cuq[Len(l.cuq)] <= l.q[1]
  <2>1. Fenceposts(l.cuq, l.q[1], MaxQ(l))
    BY DEF Fit
  <2>2. i + 1 <= Len(l.cuq)
    BY <1>2
  <2> QED BY <1>2, <2>1, <2>2 DEF Fenceposts
<1>. DEFINE n    == Length(l.cuq, i)
            z    == RoundTo(n, tile)
            x    == l.cuq[i]
            y    == l.cuq[i + 1]
            last == l.cuq[Len(l.cuq)]
<1>5. n \in Nat /\ x + n = y
  <2>1. n \in Nat
    BY LengthsWithin
  <2>2. n = y - x
    BY DEF Length
  <2>. HIDE DEF n
  <2> QED BY <1>3, <2>1, <2>2
<1>6. z \in Nat /\ z <= n + 127
  <2>. HIDE DEF n
  <2> QED BY <1>5, TilesShort
<1>7. x \in Nat /\ y \in Nat /\ last \in Nat /\ y <= last /\ last <= l.q[1] /\ end <= z
  BY <1>3, <1>4
<1>. HIDE DEF n, x, y, z, last
<1>8. x + 128 * (i - 1) \in Nat /\ x + 128 * (i - 1) + end + 1 <= l.q[1] + 128 * BatchOf(l)
  BY <1>1, <1>5, <1>6, <1>7
<1> QED BY <1>8 DEF x

(* Row i of a tile, of a head: all its columns lie among T rows, if one    *)
(* that is longer has a row behind it.                                     *)
LEMMA TileReach ==
  ASSUME NEW e \in Nat, NEW dim \in Nat, NEW w \in {1, 2}, dim <= w * e,
         NEW h \in Nat \ {0}, NEW j \in 0 .. h - 1,
         NEW row \in Nat, NEW T \in Nat, row + w <= T
  PROVE  (row * h + j) * e + dim <= T * h * e
<1>. DEFINE u == row * h
            z == T * h
            x == u + j + w
<1>1. u \in Nat /\ z \in Nat
  BY SMT
<1>2. x <= z
  <2>1. (row + w) * h <= z
    <3>. DEFINE y == row + w
    <3>1. y \in Nat /\ y <= T
      OBVIOUS
    <3>. HIDE DEF y
    <3>2. y * h <= T * h
      BY <3>1, Scaled
    <3> QED BY <3>2 DEF y
  <2>2. CASE w = 1
    <3>1. (row + w) * h = u + h
      BY <2>2
    <3>. HIDE DEF u, z
    <3> QED BY <1>1, <2>1, <2>2, <3>1
  <2>3. CASE w = 2
    <3>1. (row + w) * h = u + h + h
      BY <2>3
    <3>. HIDE DEF u, z
    <3> QED BY <1>1, <2>1, <2>3, <3>1
  <2> QED BY <2>2, <2>3
<1>. HIDE DEF u, z
<1>3. x * e <= z * e
  <2>1. x \in Nat
    BY <1>1
  <2>. HIDE DEF x
  <2> QED BY <1>1, <1>2, <2>1, Scaled
<1>4. x * e = (u + j) * e + w * e
  <2>. DEFINE v == u + j
  <2>1. v \in Nat /\ x = v + w
    BY <1>1
  <2>. HIDE DEF v, x
  <2>2. (v + w) * e = v * e + w * e
    BY <2>1
  <2> QED BY <2>1, <2>2 DEF v
<1>5. (u + j) * e \in Nat /\ w * e \in Nat /\ x * e \in Nat /\ z * e \in Nat
  <2>. DEFINE v == u + j
  <2>1. v \in Nat /\ x \in Nat
    BY <1>1
  <2>. HIDE DEF v, x
  <2>2. v * e \in Nat /\ w * e \in Nat /\ x * e \in Nat /\ z * e \in Nat
    BY <1>1, <2>1
  <2> QED BY <2>2 DEF v
<1>. DEFINE A == (u + j) * e
            P == w * e
            X == x * e
            Z == z * e
<1>. HIDE DEF A, P, X, Z
<1>6. A + dim <= Z
  BY <1>3, <1>4, <1>5 DEF A, P, X, Z
<1> QED BY <1>6 DEF A, Z, u, z

(* The scratch of the backward kernels, in rows of every head.             *)
AccumRows(l) ==
  IF l.varlen THEN l.q[1] + 128 * BatchOf(l) ELSE BatchOf(l) * RoundTo(MaxQ(l), 128)

(* Its elements.                                                           *)
LEMMA AccumSizes ==
  ASSUME NEW l, Fit(l), NEW f, BwdRets(l, f)
  PROVE  /\ AccumRows(l) \in Nat
         /\ Elements(f.rets[4]) = BatchOf(l) * Heads(l) * RoundTo(MaxQ(l), 128)
         /\ Elements(f.rets[5]) = AccumRows(l) * Heads(l) * RoundTo(PadDim(l), 32)
<1>. DEFINE b == BatchOf(l)
            h == Heads(l)
            m == RoundTo(MaxQ(l), 128)
            e == RoundTo(PadDim(l), 32)
<1>1. b \in Nat /\ h \in Nat /\ m \in Nat /\ e \in Nat
  <2>1. MaxQ(l) \in Nat
    BY Dimensions
  <2>2. m \in Nat
    BY <2>1 DEF RoundTo, CeilDiv
  <2> QED BY <2>2, Dimensions
<1>2. f.rets[4] = Buf("F32", <<b, h, m>>) /\ f.rets[5] = Buf("F32", DqAccum(l))
  BY DEF BwdRets, SoftmaxD
<1>3. CASE l.varlen
  <2>. DEFINE r == l.q[1] + 128 * b
  <2>1. DqAccum(l) = <<r, h, e>> /\ AccumRows(l) = r
    BY <1>3 DEF DqAccum, PadDim, AccumRows
  <2>2. r \in Nat
    BY <1>1, <1>3, VarlenDims
  <2>. HIDE DEF b, h, m, e, r
  <2>3. Sized3(f.rets[4], b, h, m) /\ Sized3(f.rets[5], r, h, e)
    BY <1>1, <1>2, <2>1, <2>2, Product3
  <2> QED BY <2>1, <2>2, <2>3 DEF Sized3, b, h, m, e
<1>4. CASE ~ l.varlen
  <2>1. DqAccum(l) = <<b, m, h, e>> /\ AccumRows(l) = b * m
    BY <1>4 DEF DqAccum, PadDim, AccumRows
  <2>. HIDE DEF b, h, m, e
  <2>2. Sized3(f.rets[4], b, h, m) /\ Sized4(f.rets[5], b, m, h, e)
    BY <1>1, <1>2, <2>1, Product3, Product4
  <2>3. b * m \in Nat
    BY <1>1
  <2> QED BY <2>1, <2>2, <2>3 DEF Sized3, Sized4, b, h, m, e
<1> QED BY <1>3, <1>4, CallTypes

(* The sums of a tile of a head lie in those of the head.                  *)
LEMMA SumsReach ==
  ASSUME NEW b \in Nat, NEW h \in Nat, NEW r \in Nat, NEW i \in 1 .. b, NEW j \in 0 .. h - 1,
         NEW end \in Nat, end <= r
  PROVE  ((i - 1) * h + j) * r + end <= b * h * r
<1>. DEFINE u == (i - 1) * h
            z == b * h
            v == u + j
<1>1. u \in Nat /\ z \in Nat /\ u + h <= z
  <2>1. i * h <= b * h
    BY Scaled
  <2>2. i * h = (i - 1) * h + h
    OBVIOUS
  <2>3. u \in Nat /\ z \in Nat
    <3>. DEFINE y == i - 1
    <3>1. y \in Nat
      OBVIOUS
    <3>. HIDE DEF y
    <3>2. y * h \in Nat
      BY <3>1
    <3>3. z \in Nat
      OBVIOUS
    <3> QED BY <3>2, <3>3 DEF y
  <2> QED BY <2>1, <2>2, <2>3
<1>2. v \in Nat /\ v + 1 <= z
  <2>. HIDE DEF u, z
  <2> QED BY <1>1
<1>. HIDE DEF v, z
<1>3. (v + 1) * r <= z * r
  <2>. DEFINE y == v + 1
  <2>1. y \in Nat /\ y <= z
    BY <1>2
  <2>. HIDE DEF y
  <2>2. y * r <= z * r
    BY <1>1, <2>1, Scaled
  <2> QED BY <2>2 DEF y
<1>4. (v + 1) * r = v * r + r /\ v * r \in Nat /\ z * r \in Nat
  BY <1>1, <1>2
<1>. DEFINE A == v * r
            Z == z * r
<1>5. A \in Nat /\ Z \in Nat /\ A + r <= Z
  BY <1>3, <1>4
<1>. HIDE DEF A, Z
<1>6. A + end <= Z
  BY <1>5
<1> QED BY <1>6 DEF A, Z, v, z

(* Nothing the backward kernels address of their scratch is outside it, if *)
(* there is a row to spare where the columns of a tile are too many.       *)
LEMMA AccumulatorFits ==
  ASSUME NEW l, Fit(l), l.varlen = call.varlen, l.cuq = call.cuq,
         l.varlen => Len(l.cuq) = Len(l.cuk),
         dev \in Device, FwdRuns(l, dev), BwdRets(l, frame), NEW p, p = BwdParams(l)
  PROVE  AccumInBounds(p)
<1>. DEFINE e   == p.d_rounded
            r   == p.sq_rounded
            dim == HeadDim(p.d)
            m   == BwdTraits(dim, dev).m
            T   == AccumRows(l)
<1>1. /\ p.b = BatchOf(l) /\ p.sq = MaxQ(l) /\ p.h = Heads(l)
      /\ p.d = PadDim(l) /\ e = RoundTo(p.d, 32) /\ r = RoundTo(p.sq, 128)
  BY DEF BwdParams, ParamsOf
<1>2. p.b \in Nat \ {0} /\ p.h \in Nat \ {0} /\ p.sq \in Nat /\ p.d \in 1 .. 256
  BY ParamsTypedFwd DEF Typed
<1>3. dim \in HeadDims /\ dim \in Nat /\ e \in Nat /\ dim <= 2 * e
  BY <1>1, <1>2, HeadDimWithin
<1>4. m \in {64, 128} /\ m \in Blocks
  <2>. HIDE DEF dim
  <2>1. m \in {64, 128}
    BY <1>3, BwdTiles
  <2> QED BY <2>1 DEF Blocks
<1>5. /\ T \in Nat /\ Elements(frame.rets[4]) = p.b * p.h * r
      /\ Elements(frame.rets[5]) = T * p.h * e
  BY <1>1, AccumSizes
<1>6. r \in Nat /\ RoundTo(p.sq, m) <= r
  <2>. DEFINE n == p.sq
  <2>1. n \in Nat /\ n <= n
    BY <1>2
  <2>. HIDE DEF m, n
  <2>2. RoundTo(n, m) <= RoundTo(n, 128) /\ RoundTo(n, 128) \in Nat
    BY <1>4, <2>1, TilesRound
  <2> QED BY <1>1, <2>2 DEF n
<1>7. T = IF l.varlen THEN l.q[1] + 128 * p.b ELSE p.b * r
  BY <1>1 DEF AccumRows
<1>8. l.varlen \in BOOLEAN
  BY CallTypes
<1>. HIDE DEF e, r, dim, m, T
<1>9. ASSUME NEW i \in 1 .. p.b
      PROVE  Queries(p, i) \in Nat /\ Queries(p, i) <= p.sq
  <2>1. CASE l.varlen
    BY <1>1, <1>9, <2>1, LengthsWithin DEF Queries
  <2>2. CASE ~ l.varlen
    BY <1>2, <2>2 DEF Queries
  <2> QED BY <1>8, <2>1, <2>2
<1>10. ASSUME NEW i \in 1 .. p.b, NEW x \in 0 .. CeilDiv(Queries(p, i), m) - 1
       PROVE  /\ (x + 1) * m \in Nat \ {0} /\ (x + 1) * m <= RoundTo(Queries(p, i), m)
              /\ (x + 1) * m <= r
  <2>. DEFINE n == Queries(p, i)
              z == (x + 1) * m
  <2>1. n \in Nat /\ n <= p.sq
    BY <1>9
  <2>. HIDE DEF n
  <2>2. z \in Nat /\ z <= RoundTo(n, m) /\ x * m \in Nat /\ z = x * m + m
    BY <1>4, <1>10, <2>1, BlockWithin DEF n
  <2>3. RoundTo(n, m) <= r /\ RoundTo(n, m) \in Nat
    BY <1>1, <1>2, <1>4, <2>1, TilesRound, TilesShort
  <2>. HIDE DEF z
  <2>4. z \in Nat \ {0} /\ z <= RoundTo(n, m) /\ z <= r
    BY <1>4, <1>6, <2>2, <2>3
  <2> QED BY <2>4 DEF n, z
<1>11. ASSUME NEW i \in 1 .. p.b, NEW j \in 0 .. p.h - 1, NEW x \in 0 .. CeilDiv(Queries(p, i), m) - 1
       PROVE  SumsEnd(p, m, i, x, j) <= Elements(frame.rets[4])
  <2>. DEFINE z == (x + 1) * m
  <2>1. z \in Nat /\ z <= r
    BY <1>10, <1>11
  <2>. HIDE DEF z
  <2>2. ((i - 1) * p.h + j) * r + z <= p.b * p.h * r
    BY <1>2, <1>6, <1>11, <2>1, SumsReach
  <2> QED BY <1>5, <2>2 DEF SumsEnd, z, r
<1>12. ASSUME NEW i \in 1 .. p.b, NEW j \in 0 .. p.h - 1, NEW x \in 0 .. CeilDiv(Queries(p, i), m) - 1,
              ~ (KernelPads(p) /\ NoSpareRows(p, m))
       PROVE  TileEnd(p, m, i, x, j) <= Elements(frame.rets[5])
  <2>. DEFINE z     == (x + 1) * m
              first == FirstRow(p, i)
  <2>1. z \in Nat \ {0} /\ z <= RoundTo(Queries(p, i), m) /\ z <= r
    BY <1>10, <1>12
  <2>. HIDE DEF z
  <2>2. first \in Nat /\ \E w \in {1, 2} : dim <= w * e /\ first + z - 1 + w <= T
    <3>1. CASE l.varlen
      <4>1. first = l.cuq[i] + 128 * (i - 1) /\ Queries(p, i) = Length(l.cuq, i)
        BY <3>1 DEF FirstRow, Queries
      <4>2. i \in 1 .. BatchOf(l) /\ z \in Nat /\ z <= RoundTo(Length(l.cuq, i), m)
        BY <1>1, <1>12, <2>1, <4>1
      <4>. HIDE DEF first
      <4>3. first \in Nat /\ first + z + 1 <= T
        <5>1. /\ l.cuq[i] + 128 * (i - 1) \in Nat
              /\ l.cuq[i] + 128 * (i - 1) + z + 1 <= l.q[1] + 128 * BatchOf(l)
          BY <1>4, <3>1, <4>2, SequencesApart
        <5>2. T = l.q[1] + 128 * BatchOf(l)
          BY <1>1, <1>7, <3>1
        <5> QED BY <4>1, <5>1, <5>2
      <4>4. first + z - 1 + 2 <= T
        BY <1>5, <2>1, <4>3
      <4> QED BY <1>3, <4>3, <4>4
    <3>2. CASE ~ l.varlen
      <4>. DEFINE w == IF KernelPads(p) THEN 2 ELSE 1
      <4>1. w \in {1, 2} /\ dim <= w * e
        BY <1>3 DEF KernelPads, dim, e
      <4>2. z + w - 1 <= r
        <5>1. CASE KernelPads(p)
          <6>1. RoundTo(p.sq, m) # r
            BY <1>12, <3>2, <5>1 DEF NoSpareRows, r
          <6>2. z <= RoundTo(p.sq, m)
            BY <2>1, <3>2 DEF Queries
          <6>3. RoundTo(p.sq, m) \in Nat
            BY <1>2, <1>4, TilesShort
          <6> QED BY <1>6, <2>1, <5>1, <6>1, <6>2, <6>3
        <5>2. CASE ~ KernelPads(p)
          BY <1>6, <2>1, <5>2
        <5> QED BY <5>1, <5>2
      <4>3. first = (i - 1) * r
        BY <3>2 DEF FirstRow, r
      <4>. HIDE DEF first, w
      <4>4. first \in Nat /\ first + r <= T
        <5>. DEFINE y == i - 1
        <5>1. y \in Nat
          BY <1>12
        <5>2. i * r <= p.b * r
          <6>1. i \in Nat /\ p.b \in Nat /\ i <= p.b
            BY <1>2, <1>12
          <6> QED BY <1>6, <6>1, Scaled
        <5>3. i * r = y * r + r
          BY <1>6, <1>12
        <5>. HIDE DEF y
        <5>4. y * r \in Nat
          BY <1>6, <5>1
        <5> QED BY <1>7, <3>2, <4>3, <5>2, <5>3, <5>4 DEF y
      <4>5. first + z - 1 + w <= T
        BY <1>5, <1>6, <2>1, <4>1, <4>2, <4>4
      <4> QED BY <4>1, <4>4, <4>5
    <3> QED BY <1>8, <3>1, <3>2
  <2>3. PICK w \in {1, 2} : dim <= w * e /\ first + z - 1 + w <= T
    BY <2>2
  <2>. DEFINE row == first + z - 1
  <2>4. row \in Nat /\ row + w <= T
    <3>. HIDE DEF first
    <3> QED BY <2>1, <2>2, <2>3
  <2>. HIDE DEF first, row
  <2>5. (row * p.h + j) * e + dim <= T * p.h * e
    BY <1>2, <1>3, <1>5, <1>12, <2>3, <2>4, TileReach
  <2>6. TileEnd(p, m, i, x, j) = (row * p.h + j) * e + dim
    BY DEF TileEnd, row, first, z, e, dim
  <2> QED BY <1>5, <2>5, <2>6
<1>13. \A i \in 1 .. p.b, j \in 0 .. p.h - 1 : \A x \in 0 .. CeilDiv(Queries(p, i), m) - 1 :
         /\ SumsEnd(p, m, i, x, j) <= Elements(frame.rets[4])
         /\ ~ (KernelPads(p) /\ NoSpareRows(p, m)) =>
              TileEnd(p, m, i, x, j) <= Elements(frame.rets[5])
  BY <1>11, <1>12
<1> QED BY <1>13 DEF AccumInBounds, m, dim

-----------------------------------------------------------------------------
(* What the kernels address lies in the buffers.                           *)

(* A device's part of the call has what it needs of the whole.             *)
LEMMA MineSame ==
  ASSUME HostInv, FrontendAccepts(call), call.varlen \/ PartitionFwd(call)
  PROVE  /\ Fit(Mine) /\ Mine.varlen = call.varlen
         /\ Mine.cuq = call.cuq /\ Mine.cuk = call.cuk /\ Mine.used = call.used
         /\ Mine.varlen => Len(Mine.cuq) = Len(Mine.cuk)
         /\ ~ Mine.varlen => Mine.q[1] = Mine.kv[1] /\ Mine.q[4] = Mine.kv[4]
<1>1. Callable(call) /\ call \in Call /\ ND \in Nat \ {0}
  BY Here DEF HostInv, Callable
<1>2. Mine.cuq = call.cuq /\ Mine.cuk = call.cuk /\ Mine.used = call.used
  BY <1>1, LocalFields DEF Mine
<1>3. /\ Fit(Mine) /\ Mine.varlen = call.varlen
      /\ ~ call.varlen => Mine.q[1] = Mine.kv[1] /\ Mine.q[4] = Mine.kv[4]
  BY <1>1, LocalAccepted DEF Mine
<1>4. call.varlen => Len(call.cuq) = Len(call.cuk)
  BY DEF FrontendAccepts, VarlenAccepted
<1> QED BY <1>2, <1>3, <1>4

(* The rows addressed, by the device's part of the call.                   *)
LEMMA RowsAre ==
  ASSUME NEW l, l.varlen = call.varlen, l.cuq = call.cuq, l.cuk = call.cuk,
         NEW p, p.b = BatchOf(l), NEW n
  PROVE  Rows(p, call.cuq, n) = RowsOf(l, l.cuq, n) /\ Rows(p, call.cuk, n) = RowsOf(l, l.cuk, n)
BY DEF Rows, RowsOf

(* The keys of every sequence end among the rows of keys, also if          *)
(* seqused_k counts them.                                                  *)
LEMMA KeysEndWithin ==
  ASSUME NEW l, Fit(l), l.varlen = call.varlen, l.cuk = call.cuk, l.used = call.used,
         l.varlen => Len(l.cuq) = Len(l.cuk), dev \in Device, FwdRuns(l, dev),
         NEW p, p = FwdParams(l, dev), UsedWithin(p), NEW i \in 1 .. p.b
  PROVE  /\ KeysEnd(p, i) \in Nat /\ RowsOf(l, l.cuk, MaxK(l)) \in Nat
         /\ KeysEnd(p, i) <= RowsOf(l, l.cuk, MaxK(l))
<1>1. p.b = BatchOf(l) /\ p.sk = MaxK(l) /\ p.used = UsedGiven(l)
  BY DEF FwdParams, ParamsOf
<1>2. BatchOf(l) \in Nat /\ MaxK(l) \in Nat
  BY Dimensions
<1>3. CASE ~ l.varlen
  <2>1. KeysEnd(p, i) = i * MaxK(l) /\ RowsOf(l, l.cuk, MaxK(l)) = BatchOf(l) * MaxK(l)
    BY <1>1, <1>3 DEF KeysEnd, RowsOf
  <2>2. i \in Nat /\ i <= BatchOf(l)
    BY <1>1, <1>2
  <2> QED BY <1>2, <2>1, <2>2, Scaled
<1>4. CASE l.varlen
  <2>. DEFINE first == l.cuk[i]
              next  == l.cuk[i + 1]
              last  == l.cuk[Len(l.cuk)]
              n     == Length(l.cuk, i)
              u     == l.used[i]
  <2>1. first \in Nat /\ next \in Nat /\ n \in Nat /\ n = next - first /\ i \in 1 .. Len(l.cuk) - 1
    <3>1. i \in 1 .. BatchOf(l)
      BY <1>1
    <3> QED BY <1>4, <3>1, LengthsWithin DEF Length
  <2>2. last \in Nat
    BY <1>4, LastFence
  <2>3. next <= last
    <3>1. Fenceposts(l.cuk, l.kv[1], MaxK(l)) /\ l.cuk \in Seq(Nat)
      BY <1>4, CallTypes DEF Fit
    <3>2. i + 1 \in DOMAIN l.cuk /\ Len(l.cuk) \in DOMAIN l.cuk /\ i + 1 <= Len(l.cuk)
      BY <2>1, <3>1
    <3> QED BY <3>1, <3>2 DEF Fenceposts
  <2>4. UsedGiven(l) => u \in Nat /\ u <= n
    <3>1. ASSUME UsedGiven(l) PROVE u \in Nat /\ u <= n
      <4>1. l.used \in Seq(Nat) /\ Len(l.used) = BatchOf(l)
        BY <3>1, CallTypes DEF FwdRuns
      <4>2. i \in 1 .. Len(l.used)
        BY <1>1, <4>1
      <4>3. u \in Nat
        BY <4>1, <4>2, ElementOfSeq
      <4>4. u <= n
        BY <1>1, <3>1 DEF UsedWithin
      <4> QED BY <4>3, <4>4
    <3> QED BY <3>1
  <2>5. KeysEnd(p, i) = first + (IF UsedGiven(l) THEN u ELSE n)
        /\ RowsOf(l, l.cuk, MaxK(l)) = last
    BY <1>1, <1>4 DEF KeysEnd, RowsOf
  <2>. HIDE DEF first, next, last, n, u
  <2> QED BY <2>1, <2>2, <2>3, <2>4, <2>5
<1> QED BY <1>3, <1>4, CallTypes

(* What the forward kernels address lies in the frame of the call.         *)
LEMMA ForwardInBounds ==
  ASSUME NEW l, Fit(l), l.varlen = call.varlen,
         l.cuq = call.cuq, l.cuk = call.cuk, l.used = call.used,
         l.varlen => Len(l.cuq) = Len(l.cuk),
         ~ l.varlen => l.q[1] = l.kv[1] /\ l.q[4] = l.kv[4],
         dev \in Device, FwdRuns(l, dev), frame = FwdFrame(l)
  PROVE  FwdInBounds(FwdParams(l, dev))
<1>. DEFINE p == FwdParams(l, dev)
<1>1. /\ p.b = BatchOf(l) /\ p.sq = MaxQ(l) /\ p.sk = MaxK(l) /\ p.h = Heads(l) /\ p.hk = HeadsK(l)
      /\ p.d = PadDim(l) /\ p.d_rounded = RoundTo(PadDim(l), 32) /\ p.splits = SplitsOn(l, dev)
  BY DEF FwdParams, ParamsOf
<1>2. FwdRets(l, frame)
  BY FwdFrameRets
<1>3. /\ frame.args[1] = Buf(l.tq, Padded(l.q)) /\ frame.args[2] = Buf(l.tk, Padded(l.kv))
      /\ frame.args[3] = Buf(l.tv, Padded(l.kv))
  <2>1. CASE l.varlen    BY <2>1, FwdFrameIfVarlen DEF FwdFrameVarlen
  <2>2. CASE ~ l.varlen  BY <2>2, FwdFrameIfBatched DEF FwdFrameBatched
  <2> QED BY <2>1, <2>2, CallTypes
<1>4. frame.rets[1] = Buf(l.tq, Padded(l.q)) /\ frame.rets[2] = Buf("F32", LseDims(l))
  BY <1>2 DEF FwdRets
<1>. HIDE DEF p
<1>5. Rows(p, call.cuq, p.sq) = RowsOf(l, l.cuq, MaxQ(l))
  BY <1>1, RowsAre
<1>6. Rows(p, call.cuq, p.sq) * p.h * p.d <= Elements(frame.args[1])
      /\ Rows(p, call.cuq, p.sq) * p.h * p.d <= Elements(frame.rets[1])
  BY <1>1, <1>3, <1>4, <1>5, QueriesFit
<1>7. ASSUME UsedWithin(p), NEW i \in 1 .. p.b
      PROVE  \A j \in {2, 3} : KeysEnd(p, i) * p.hk * p.d <= Elements(frame.args[j])
  <2>. DEFINE x == KeysEnd(p, i)
              y == RowsOf(l, l.cuk, MaxK(l))
  <2>1. x \in Nat /\ y \in Nat /\ x <= y
    BY <1>7, KeysEndWithin DEF p
  <2>2. p.hk \in Nat /\ p.d \in Nat
    BY <1>1, Dimensions
  <2>3. y * p.hk * p.d <= Elements(frame.args[2]) /\ y * p.hk * p.d <= Elements(frame.args[3])
    BY <1>1, <1>3, KeysFit
  <2>4. Elements(frame.args[2]) \in Nat /\ Elements(frame.args[3]) \in Nat
    BY <1>3, ElementsOfKeys
  <2>. HIDE DEF x, y
  <2>5. x * p.hk * p.d <= y * p.hk * p.d
    BY <2>1, <2>2, MoreRows
  <2>6. x * p.hk * p.d \in Nat /\ y * p.hk * p.d \in Nat
    BY <2>1, <2>2
  <2> QED BY <2>3, <2>4, <2>5, <2>6 DEF x
<1>8. p.b * p.h * p.sq <= Elements(frame.rets[2])
  <2>. DEFINE t == "F32"
  <2>1. frame.rets[2] = Buf(t, LseDims(l))
    BY <1>4
  <2>. HIDE DEF t
  <2>2. Sized3(Buf(t, LseDims(l)), BatchOf(l), Heads(l), MaxQ(l))
    BY LseFits
  <2>3. BatchOf(l) * Heads(l) * MaxQ(l) \in Nat
    BY Dimensions
  <2> QED BY <1>1, <2>1, <2>2, <2>3 DEF Sized3
<1>9. ScratchInBounds(p)
  BY <1>2, ScratchFits DEF p
<1>10. FwdInBounds(p)
  BY <1>6, <1>7, <1>8, <1>9 DEF FwdInBounds
<1> QED BY <1>10 DEF p

(* What the backward kernels address lies in the frame of the call.        *)
LEMMA BackwardInBounds ==
  ASSUME NEW l, Fit(l), l.varlen = call.varlen,
         l.cuq = call.cuq, l.cuk = call.cuk, l.used = call.used,
         l.varlen => Len(l.cuq) = Len(l.cuk),
         ~ l.varlen => l.q[1] = l.kv[1] /\ l.q[4] = l.kv[4],
         dev \in Device, FwdRuns(l, dev), frame = BwdFrame(l)
  PROVE  BwdInBounds(BwdParams(l))
<1>. DEFINE p == BwdParams(l)
<1>1. /\ p.b = BatchOf(l) /\ p.sq = MaxQ(l) /\ p.sk = MaxK(l) /\ p.h = Heads(l) /\ p.hk = HeadsK(l)
      /\ p.d = PadDim(l) /\ p.d_rounded = RoundTo(PadDim(l), 32) /\ p.sq_rounded = RoundTo(MaxQ(l), 128)
  BY DEF BwdParams, ParamsOf
<1>2. BwdRets(l, frame)
  BY BwdFrameRets
<1>3. BwdArgs(l, frame)
  <2>1. CASE l.varlen    BY <2>1, BwdFrameIfVarlen DEF BwdFrameVarlen
  <2>2. CASE ~ l.varlen  BY <2>2, BwdFrameIfBatched DEF BwdFrameBatched
  <2> QED BY <2>1, <2>2, CallTypes
<1>. HIDE DEF p
<1>4. Rows(p, call.cuq, p.sq) = RowsOf(l, l.cuq, MaxQ(l))
      /\ Rows(p, call.cuk, p.sk) = RowsOf(l, l.cuk, MaxK(l))
  BY <1>1, RowsAre
<1>5. /\ \A i \in {1, 2, 5} : Rows(p, call.cuq, p.sq) * p.h * p.d <= Elements(frame.args[i])
      /\ Rows(p, call.cuq, p.sq) * p.h * p.d <= Elements(frame.rets[1])
  BY <1>1, <1>2, <1>3, <1>4, QueriesFit DEF BwdRets, BwdArgs
<1>6. /\ Rows(p, call.cuk, p.sk) * p.hk * p.d <= Elements(frame.args[3])
      /\ Rows(p, call.cuk, p.sk) * p.hk * p.d <= Elements(frame.args[4])
  BY <1>1, <1>3, <1>4, KeysFit DEF BwdArgs
<1>7. /\ Rows(p, call.cuk, p.sk) * p.h * p.d <= Elements(frame.rets[2])
      /\ Rows(p, call.cuk, p.sk) * p.h * p.d <= Elements(frame.rets[3])
  BY <1>1, <1>2, <1>4, GradientsFit DEF BwdRets
<1>8. BatchOf(l) \in Nat /\ Heads(l) \in Nat /\ MaxQ(l) \in Nat
  BY Dimensions
<1>9. p.b * p.h * p.sq <= Elements(frame.args[6])
  <2>. DEFINE t == "F32"
  <2>1. frame.args[6] = Buf(t, LseDims(l))
    BY <1>3 DEF BwdArgs
  <2>. HIDE DEF t
  <2>2. Sized3(Buf(t, LseDims(l)), BatchOf(l), Heads(l), MaxQ(l))
    BY LseFits
  <2>3. BatchOf(l) * Heads(l) * MaxQ(l) \in Nat
    BY <1>8
  <2> QED BY <1>1, <2>1, <2>2, <2>3 DEF Sized3
<1>10. AccumInBounds(p)
  BY <1>2, AccumulatorFits DEF p
<1>11. BwdInBounds(p)
  BY <1>5, <1>6, <1>7, <1>9, <1>10 DEF BwdInBounds
<1> QED BY <1>11 DEF p

(* What the kernels address of every buffer lies in the buffer the         *)
(* lowering allocated, and the shared memory they ask for is there         *)
(* (flash_fwd.py, flash_bwd.py and their varlen counterparts;              *)
(* flash_common.cpp, kernel_traits.h).  Rows of scratch longer than it is  *)
(* laid out for, of head dimensions 129 to 160 and 193 to 224, are among   *)
(* it where a split or a row is to spare behind them (LaunchesFit).        *)
THEOREM EverythingFits ==
  Spec => []LaunchesFit
<1>1. ASSUME HostInv PROVE LaunchesFit
  <2>1. SUFFICES ASSUME pc = "launch", todo # << >>
                 PROVE  /\ IF dir = "forward" THEN FwdInBounds(params[1]) ELSE BwdInBounds(params[2])
                        /\ \A i \in DOMAIN todo : todo[i].smem <= dev.smem_block
    BY DEF LaunchesFit
  <2>2. FrontendAccepts(call) /\ (call.varlen \/ PartitionFwd(call))
    BY <1>1, <2>1 DEF HostInv, Passed
  <2>3. /\ Fit(Mine) /\ Mine.varlen = call.varlen
        /\ Mine.cuq = call.cuq /\ Mine.cuk = call.cuk /\ Mine.used = call.used
        /\ Mine.varlen => Len(Mine.cuq) = Len(Mine.cuk)
        /\ ~ Mine.varlen => Mine.q[1] = Mine.kv[1] /\ Mine.q[4] = Mine.kv[4]
    BY <1>1, <2>2, MineSame
  <2>4. FwdRuns(Mine, dev)
    BY <1>1, <2>1 DEF HostInv, Written, Ran
  <2>5. dev \in Device
    BY <1>1, Here DEF HostInv
  <2>6. \A i \in DOMAIN todo : todo[i].smem <= dev.smem_block
    BY <1>1 DEF HostInv, Scheduled
  <2>7. CASE dir = "forward"
    <3>1. frame = FwdFrame(Mine)
      BY <1>1, <2>1, <2>7 DEF HostInv, Lowered
    <3>2. params = <<FwdParams(Mine, dev)>>
      BY <1>1, <2>1, <2>7 DEF HostInv, Written, Ran
    <3>3. FwdInBounds(FwdParams(Mine, dev))
      BY <2>3, <2>4, <2>5, <3>1, ForwardInBounds
    <3> QED BY <2>6, <2>7, <3>2, <3>3
  <2>8. CASE dir = "backward"
    <3>1. frame = BwdFrame(Mine)
      BY <1>1, <2>1, <2>8 DEF HostInv, Lowered
    <3>2. params = <<FwdParams(Mine, dev), BwdParams(Mine)>>
      BY <1>1, <2>1, <2>8 DEF HostInv, Written, Ran
    <3>3. BwdInBounds(BwdParams(Mine))
      BY <2>3, <2>4, <2>5, <3>1, BackwardInBounds
    <3>. HIDE DEF BwdInBounds
    <3> QED BY <2>6, <2>8, <3>2, <3>3
  <2> QED BY <1>1, <2>7, <2>8 DEF HostInv
<1> QED BY <1>1, HostInvariant, PTL

-----------------------------------------------------------------------------
(* Positions of keys, as the mask of seqused_k finds them.                 *)

(* A running sum is whatever grows by the values as it does.               *)
Grows(P, fences, values, t) ==
  /\ P \in [0 .. Len(values) -> Int] /\ P[0] = 0
  /\ \A i \in 1 .. Len(values) : P[i] = P[i - 1] + (IF fences[i] <= t THEN values[i] ELSE 0)

(* A running sum is what grows as it does: look at the least place where   *)
(* it would not.                                                           *)
LEMMA RunningSum ==
  ASSUME NEW fences, NEW values \in Seq(Int), NEW t, NEW P, Grows(P, fences, values, t)
  PROVE  Scattered(fences, values, t) = P[Len(values)]
<1>. DEFINE K       == Len(values)
            Term(i) == IF fences[i] <= t THEN values[i] ELSE 0
            Step(n) == [i \in 0 .. K |-> IF i = 0 THEN 0 ELSE n[i - 1] + Term(i)]
            n       == CHOOSE f : f = Step(f)
<1>1. K \in Nat
  OBVIOUS
<1>2. P \in [0 .. K -> Int] /\ P[0] = 0 /\ \A i \in 1 .. K : P[i] = P[i - 1] + Term(i)
  BY DEF Grows
<1>3. Scattered(fences, values, t) = n[K]
  BY DEF Scattered
<1>. HIDE DEF K, Term
<1>4. P = Step(P)
  <2>1. \A i \in 0 .. K : P[i] = IF i = 0 THEN 0 ELSE P[i - 1] + Term(i)
    BY <1>1, <1>2
  <2> QED BY <1>2, <2>1
<1>5. n = Step(n)
  <2>. HIDE DEF Step
  <2> QED BY <1>4
<1>. HIDE DEF n
<1>6. n[0] = 0 /\ \A i \in 1 .. K : n[i] = n[i - 1] + Term(i)
  <2>1. \A i \in 0 .. K : n[i] = IF i = 0 THEN 0 ELSE n[i - 1] + Term(i)
    BY <1>5
  <2> QED BY <1>1, <2>1
<1>. DEFINE T == {i \in 0 .. K : n[i] # P[i]}
<1>7. ASSUME T # {} PROVE FALSE
  <2>1. PICK i \in T : \A j \in T : i <= j
    <3>1. T \in SUBSET Nat
      BY <1>1
    <3>2. PICK m \in T : TRUE
      BY <1>7
    <3>. HIDE DEF T
    <3> QED BY <3>1, <3>2, LeastOf
  <2>2. i # 0
    BY <1>2, <1>6, <2>1
  <2>3. i \in 1 .. K /\ i - 1 \in 0 .. K /\ i - 1 \notin T
    BY <1>1, <2>1, <2>2
  <2>4. n[i - 1] = P[i - 1]
    BY <2>3
  <2> QED BY <1>2, <1>6, <2>1, <2>3, <2>4
<1>8. n[K] = P[K]
  BY <1>1, <1>7
<1> QED BY <1>3, <1>8 DEF K

(* A key position t of sequence i.                                         *)
Within(c, i, t) ==
  /\ i \in 1 .. Len(c.cuk) - 1 /\ t \in Nat /\ c.cuk[i] <= t /\ t < c.cuk[i + 1]

(* The fenceposts at or below a key position are those of its sequence     *)
(* and earlier ones.                                                       *)
LEMMA FencesOrdered ==
  ASSUME NEW c, Fit(c), c.varlen, NEW i, NEW t, Within(c, i, t)
  PROVE  /\ c.cuk \in Seq(Nat) /\ Len(c.cuk) \in Nat /\ c.cuk[1] = 0
         /\ \A j \in 1 .. Len(c.cuk) : c.cuk[j] \in Nat /\ (c.cuk[j] <= t <=> j <= i)
<1>1. c.cuk \in Seq(Nat) /\ c.cuk # << >> /\ c.cuk[1] = 0
      /\ \A j, k \in DOMAIN c.cuk : j <= k => c.cuk[j] <= c.cuk[k]
  BY CallTypes DEF Fit, Fenceposts
<1>2. i \in 1 .. Len(c.cuk) /\ i + 1 \in 1 .. Len(c.cuk) /\ t \in Nat
  BY <1>1 DEF Within
<1>3. ASSUME NEW j \in 1 .. Len(c.cuk) PROVE c.cuk[j] \in Nat /\ (c.cuk[j] <= t <=> j <= i)
  <2>1. c.cuk[j] \in Nat /\ c.cuk[i] \in Nat /\ c.cuk[i + 1] \in Nat
    BY <1>1, <1>2, ElementOfSeq
  <2>2. j <= i => c.cuk[j] <= c.cuk[i]
    BY <1>1, <1>2
  <2>3. i + 1 <= j => c.cuk[i + 1] <= c.cuk[j]
    BY <1>1, <1>2
  <2>4. c.cuk[i] <= t /\ t < c.cuk[i + 1]
    BY DEF Within
  <2> QED BY <1>2, <2>1, <2>2, <2>3, <2>4
<1> QED BY <1>1, <1>3

(* Its place in its sequence.                                              *)
LEMMA PlaceInSequence ==
  ASSUME NEW c, Fit(c), c.varlen, NEW i, NEW t, Within(c, i, t)
  PROVE  Ixl(c, t) = t - c.cuk[i]
<1>. DEFINE n == Len(c.cuk) - 1
            values == [j \in 1 .. n |-> Length(c.cuk, j)]
            fences == Tail(c.cuk)
            P == [k \in 0 .. n |-> IF k < i THEN c.cuk[k + 1] ELSE c.cuk[i]]
<1>1. /\ c.cuk \in Seq(Nat) /\ Len(c.cuk) \in Nat /\ c.cuk[1] = 0
      /\ \A j \in 1 .. Len(c.cuk) : c.cuk[j] \in Nat /\ (c.cuk[j] <= t <=> j <= i)
  BY FencesOrdered
<1>2. i \in 1 .. n /\ n \in Nat
  BY <1>1 DEF Within
<1>3. \A j \in 1 .. n : fences[j] = c.cuk[j + 1]
  BY <1>1, <1>2
<1>4. values \in Seq(Int) /\ Len(values) = n
      /\ \A j \in 1 .. n : values[j] = c.cuk[j + 1] - c.cuk[j]
  <2>1. \A j \in 1 .. n : Length(c.cuk, j) = c.cuk[j + 1] - c.cuk[j]
                          /\ c.cuk[j] \in Nat /\ c.cuk[j + 1] \in Nat
    BY <1>1, <1>2 DEF Length
  <2>2. \A j \in 1 .. n : Length(c.cuk, j) \in Int
    BY <2>1
  <2>3. values \in Seq(Int)
    BY <1>2, <2>2, IsASeq
  <2>4. Len(values) = n
    BY <1>2, <2>3, LenProperties
  <2> QED BY <2>1, <2>3, <2>4
<1>5. Grows(P, fences, values, t)
  <2>. HIDE DEF values, fences
  <2>1. \A k \in 0 .. n : (k < i => c.cuk[k + 1] \in Int) /\ c.cuk[i] \in Int
    BY <1>1, <1>2
  <2>2. P \in [0 .. n -> Int]
    BY <2>1
  <2>3. P[0] = 0
    BY <1>1, <1>2
  <2>4. ASSUME NEW k \in 1 .. n
        PROVE  P[k] = P[k - 1] + (IF fences[k] <= t THEN values[k] ELSE 0)
    <3>1. fences[k] = c.cuk[k + 1] /\ values[k] = c.cuk[k + 1] - c.cuk[k]
      BY <1>3, <1>4
    <3>2. c.cuk[k] \in Nat /\ c.cuk[k + 1] \in Nat /\ c.cuk[i] \in Nat /\ (c.cuk[k + 1] <= t <=> k + 1 <= i)
      BY <1>1, <1>2
    <3>3. P[k] = (IF k < i THEN c.cuk[k + 1] ELSE c.cuk[i])
      BY <1>2
    <3>4. P[k - 1] = (IF k <= i THEN c.cuk[k] ELSE c.cuk[i])
      BY <1>2
    <3>. HIDE DEF P
    <3>5. CASE k < i
      BY <1>2, <3>1, <3>2, <3>3, <3>4, <3>5
    <3>6. CASE k = i
      BY <1>2, <3>1, <3>2, <3>3, <3>4, <3>6
    <3>7. CASE k > i
      BY <1>2, <3>1, <3>2, <3>3, <3>4, <3>7
    <3> QED BY <1>2, <3>5, <3>6, <3>7
  <2>. HIDE DEF P
  <2> QED BY <1>4, <2>2, <2>3, <2>4 DEF Grows
<1>6. Scattered(fences, values, t) = P[n]
  <2>. HIDE DEF P, fences, values
  <2> QED BY <1>4, <1>5, RunningSum
<1>7. P[n] = c.cuk[i]
  BY <1>2
<1>8. Ixl(c, t) = t - Scattered(fences, values, t)
  BY DEF Ixl
<1> QED BY <1>6, <1>7, <1>8

(* How many keys of its sequence are used.                                 *)
LEMMA UsedInSequence ==
  ASSUME NEW c, Fit(c), c.varlen, Len(c.used) = Len(c.cuk) - 1, NEW i, NEW t, Within(c, i, t)
  PROVE  Limit(c, t) = c.used[i]
<1>. DEFINE n == Len(c.used)
            values == [j \in DOMAIN c.used |-> c.used[j] - (IF j = 1 THEN 0 ELSE c.used[j - 1])]
            P == [k \in 0 .. n |-> IF k = 0 THEN 0 ELSE IF k <= i THEN c.used[k] ELSE c.used[i]]
<1>1. /\ c.cuk \in Seq(Nat) /\ Len(c.cuk) \in Nat
      /\ \A j \in 1 .. Len(c.cuk) : c.cuk[j] \in Nat /\ (c.cuk[j] <= t <=> j <= i)
  BY FencesOrdered
<1>2. c.used \in Seq(Nat)
  BY CallTypes
<1>3. i \in 1 .. n /\ n \in Nat /\ n = Len(c.cuk) - 1
  BY <1>1, <1>2 DEF Within
<1>4. \A j \in 1 .. n : c.used[j] \in Nat
  BY <1>2
<1>5. values \in Seq(Int) /\ Len(values) = n
      /\ \A j \in 1 .. n : values[j] = c.used[j] - (IF j = 1 THEN 0 ELSE c.used[j - 1])
  <2>. DEFINE Added(j) == c.used[j] - (IF j = 1 THEN 0 ELSE c.used[j - 1])
  <2>1. \A j \in 1 .. n : Added(j) \in Int
    <3>1. \A j \in 1 .. n : j # 1 => j - 1 \in 1 .. n
      BY <1>3
    <3> QED BY <1>4, <3>1
  <2>2. DOMAIN c.used = 1 .. n
    BY <1>2
  <2>3. values = [j \in 1 .. n |-> Added(j)]
    BY <2>2
  <2>. HIDE DEF values, Added
  <2>4. values \in Seq(Int)
    BY <1>3, <2>1, <2>3, IsASeq
  <2>5. Len(values) = n
    BY <1>3, <2>3, <2>4, LenProperties
  <2>6. \A j \in 1 .. n : values[j] = Added(j)
    BY <2>3
  <2> QED BY <2>4, <2>5, <2>6 DEF Added
<1>6. Grows(P, c.cuk, values, t)
  <2>. HIDE DEF values
  <2>1. \A k \in 0 .. n : (k # 0 => c.used[k] \in Int) /\ c.used[i] \in Int
    BY <1>3, <1>4
  <2>2. P \in [0 .. n -> Int]
    BY <2>1
  <2>3. P[0] = 0
    BY <1>3
  <2>4. ASSUME NEW k \in 1 .. n
        PROVE  P[k] = P[k - 1] + (IF c.cuk[k] <= t THEN values[k] ELSE 0)
    <3>1. values[k] = c.used[k] - (IF k = 1 THEN 0 ELSE c.used[k - 1])
      BY <1>5
    <3>2. c.used[k] \in Nat /\ (k # 1 => c.used[k - 1] \in Nat) /\ c.used[i] \in Nat
      BY <1>3, <1>4
    <3>3. c.cuk[k] <= t <=> k <= i
      BY <1>1, <1>3
    <3>4. P[k] = (IF k <= i THEN c.used[k] ELSE c.used[i])
      BY <1>3
    <3>5. P[k - 1] = (IF k = 1 THEN 0 ELSE IF k - 1 <= i THEN c.used[k - 1] ELSE c.used[i])
      BY <1>3
    <3>. HIDE DEF P
    <3>6. CASE k <= i
      BY <1>3, <3>1, <3>2, <3>3, <3>4, <3>5, <3>6
    <3>7. CASE k > i
      <4>1. ~ (c.cuk[k] <= t) /\ k # 1
        BY <1>3, <3>3, <3>7
      <4>2. P[k] = c.used[i]
        BY <1>3, <3>4, <3>7
      <4>3. P[k - 1] = c.used[i]
        <5>1. CASE k - 1 <= i
          <6>1. k - 1 = i
            BY <1>3, <3>7, <5>1
          <6> QED BY <3>5, <4>1, <5>1, <6>1
        <5>2. CASE ~ (k - 1 <= i)
          BY <3>5, <4>1, <5>2
        <5> QED BY <5>1, <5>2
      <4> QED BY <3>2, <4>1, <4>2, <4>3
    <3> QED BY <1>3, <3>6, <3>7
  <2>. HIDE DEF P
  <2> QED BY <1>5, <2>2, <2>3, <2>4 DEF Grows
<1>7. Scattered(c.cuk, values, t) = P[n]
  <2>. HIDE DEF P, values
  <2> QED BY <1>5, <1>6, RunningSum
<1>8. P[n] = c.used[i]
  <2>1. n \in 0 .. n /\ n # 0 /\ (n <= i => n = i)
    <3>1. i \in 1 .. n /\ n \in Nat
      BY <1>3
    <3>. HIDE DEF n
    <3> QED BY <3>1
  <2>2. P[n] = (IF n = 0 THEN 0 ELSE IF n <= i THEN c.used[n] ELSE c.used[i])
    BY <2>1
  <2>. HIDE DEF P
  <2> QED BY <2>1, <2>2
<1>9. Limit(c, t) = Scattered(c.cuk, values, t)
  BY DEF Limit
<1> QED BY <1>7, <1>8, <1>9

-----------------------------------------------------------------------------
(* The passes normalise causal and window to the same mask.                *)

(* What a mask given by its parameters allows.                             *)
Mask(c, wl, wr, shifted, sk, col) ==
  /\ col < sk
  /\ c \/ wl >= 0 \/ wr >= 0 => col < shifted + 1 + wr
  /\ ~ c /\ (wl >= 0 \/ wr >= 0) => col >= shifted - wl

(* What parameters allow, as a function of flag and windows.               *)
LEMMA AllowsAre ==
  ASSUME NEW p, NEW sq, NEW sk, NEW row, NEW col
  PROVE  Allows(p, sq, sk, row, col) <=> Mask(p.causal, p.wl, p.wr, row + sk - sq, sk, col)
BY Zenon DEF Allows, Mask

(* Without seqused_k the passes allow the same keys: the four              *)
(* implementations normalise causal and window differently, and it makes   *)
(* no difference to a row there is.                                        *)
LEMMA SameMask ==
  ASSUME NEW l, Fit(l), NEW d,
         NEW sq \in Nat, NEW sk \in Nat, sq <= MaxQ(l), sk <= MaxK(l),
         NEW row \in 0 .. sq - 1, NEW col \in 0 .. sk - 1
  PROVE  Allows(FwdParams(l, d), sq, sk, row, col) <=> Allows(BwdParams(l), sq, sk, row, col)
<1>. DEFINE m == MaxQ(l)
            n == MaxK(l)
            p == FwdParams(l, d)
            b == BwdParams(l)
            left == LeftOf(l)
<1>1. m \in Nat /\ n \in Nat /\ l.wl \in Int /\ l.wr \in Int /\ l.causal \in BOOLEAN /\ l.varlen \in BOOLEAN
  BY Dimensions, CallTypes
<1>2. n > 0 /\ m > 0
  BY <1>1
<1>3. left \in Int /\ FwdRight(l) \in Int /\ BwdRight(l) \in Int
  BY <1>1 DEF LeftOf, FwdRight, BwdRight, Clip
<1>4. /\ p.causal = (left < 0 /\ FwdRight(l) = 0)
      /\ p.wl = (IF left < 0 /\ FwdRight(l) >= 0 THEN n ELSE left)
      /\ p.wr = (IF left >= 0 /\ FwdRight(l) < 0 THEN n ELSE FwdRight(l))
  BY DEF FwdParams, ParamsOf
<1>5. /\ b.causal = (left < 0 /\ BwdRight(l) = 0)
      /\ b.wl = (IF left < 0 /\ BwdRight(l) >= 0 THEN n ELSE left)
      /\ b.wr = (IF left >= 0 /\ BwdRight(l) < 0 THEN n ELSE BwdRight(l))
  BY DEF BwdParams, ParamsOf
<1>6. FwdRight(l) = BwdRight(l) \/ (m = 1 /\ BwdRight(l) = 0)
  BY <1>1, <1>2 DEF FwdRight, BwdRight, FwdCausal, Clip
<1>7. CASE FwdRight(l) = BwdRight(l)
  <2>1. p.causal = b.causal /\ p.wl = b.wl /\ p.wr = b.wr
    BY <1>4, <1>5, <1>7
  <2>. HIDE DEF p, b
  <2>2. Allows(p, sq, sk, row, col) = Allows(b, sq, sk, row, col)
    BY <2>1, Zenon DEF Allows
  <2> QED BY <2>2 DEF p, b
<1>8. CASE m = 1 /\ BwdRight(l) = 0
  <2>1. sq = 1 /\ row = 0
    BY <1>8
  <2>. DEFINE r == FwdRight(l)
  <2>2. r \in Int /\ left \in Int /\ n \in Nat /\ sk <= n /\ BwdRight(l) = 0
    BY <1>1, <1>3, <1>8
  <2>. DEFINE at == row + sk - sq
  <2>3. at = sk - 1 /\ at \in Int
    BY <2>1, <2>2
  <2>. HIDE DEF p, b, left, n, r, at
  <2>4. Allows(b, sq, sk, row, col) <=> (left >= 0 => col >= sk - 1 - left)
    <3>. DEFINE c == b.causal
    <3>1. Allows(b, sq, sk, row, col) <=> Mask(c, b.wl, b.wr, at, sk, col)
      BY AllowsAre DEF at
    <3>2. (c <=> left < 0) /\ b.wl = (IF left < 0 THEN n ELSE left) /\ b.wr = 0
      <4>1. /\ c <=> left < 0 /\ BwdRight(l) = 0
            /\ b.wl = (IF left < 0 /\ BwdRight(l) >= 0 THEN n ELSE left)
            /\ b.wr = (IF left >= 0 /\ BwdRight(l) < 0 THEN n ELSE BwdRight(l))
        BY <1>5
      <4> QED BY <2>2, <4>1
    <3>. DEFINE wl == b.wl
                wr == b.wr
    <3>. HIDE DEF c, wl, wr
    <3>3. (c <=> left < 0) /\ wl = (IF left < 0 THEN n ELSE left) /\ wr = 0
      BY <3>2 DEF wl, wr
    <3>4. Mask(c, wl, wr, at, sk, col) <=> (left >= 0 => col >= sk - 1 - left)
      BY <2>2, <2>3, <3>3 DEF Mask
    <3> QED BY <3>1, <3>4 DEF wl, wr
  <2>5. Allows(p, sq, sk, row, col) <=> (left >= 0 => col >= sk - 1 - left)
    <3>. DEFINE c == p.causal
    <3>1. Allows(p, sq, sk, row, col) <=> Mask(c, p.wl, p.wr, at, sk, col)
      BY AllowsAre DEF at
    <3>. DEFINE wl == p.wl
                wr == p.wr
    <3>2. /\ c <=> left < 0 /\ r = 0
          /\ wl = (IF left < 0 /\ r >= 0 THEN n ELSE left)
          /\ wr = (IF left >= 0 /\ r < 0 THEN n ELSE r)
      BY <1>4 DEF r
    <3>. HIDE DEF c, wl, wr
    <3>3. Mask(c, wl, wr, at, sk, col) <=> (left >= 0 => col >= sk - 1 - left)
      BY <2>2, <2>3, <3>2 DEF Mask
    <3> QED BY <3>1, <3>3 DEF wl, wr
  <2> QED BY <2>4, <2>5 DEF p, b
<1> QED BY <1>6, <1>7, <1>8

-----------------------------------------------------------------------------
(* The backward pass weighs the keys the forward pass attended to.         *)

(* With seqused_k, and a mask as long as the keys, a key is kept if it is  *)
(* among those used.                                                       *)
LEMMA KeptIfUsed ==
  ASSUME NEW c, Fit(c), c.varlen, c.has_used, Len(c.cuq) = Len(c.cuk), Len(c.used) = BatchOf(c),
         MaskLen(c) = c.kv[1], NEW i \in 1 .. BatchOf(c), NEW col \in 0 .. Length(c.cuk, i) - 1
  PROVE  KeyKept(c, c.cuk[i] + col) <=> col < c.used[i]
<1>. DEFINE t == c.cuk[i] + col
<1>1. /\ Length(c.cuk, i) \in Nat /\ c.cuk[i] \in Nat /\ c.cuk[i + 1] \in Nat /\ c.cuk[i + 1] <= c.kv[1]
      /\ i \in 1 .. Len(c.cuk) - 1
  BY LengthsWithin
<1>2. t \in Nat /\ c.cuk[i] <= t /\ t < c.cuk[i + 1]
  BY <1>1 DEF Length
<1>3. Within(c, i, t)
  BY <1>1, <1>2 DEF Within
<1>4. Len(c.used) = Len(c.cuk) - 1
  BY VarlenDims
<1>5. t - c.cuk[i] = col /\ col \in Nat
  BY <1>1
<1>6. (IF MaskLen(c) = 1 THEN 0 ELSE t) = t
  <2>1. c.kv[1] \in Nat
    BY VarlenDims
  <2>2. c.kv[1] = 1 => t = 0
    BY <1>1, <1>2, <2>1
  <2> QED BY <2>2
<1>. HIDE DEF t
<1>7. Ixl(c, t) = t - c.cuk[i] /\ Limit(c, t) = c.used[i]
  BY <1>3, <1>4, PlaceInSequence, UsedInSequence
<1>8. KeyKept(c, t) <=> Ixl(c, t) < Limit(c, t)
  BY <1>6 DEF KeyKept
<1>9. KeyKept(c, t) <=> col < c.used[i]
  BY <1>5, <1>7, <1>8
<1> QED BY <1>9 DEF t

(* A call with seqused_k and no causal mask has no mask at all.            *)
LEMMA NoMask ==
  ASSUME NEW l, Fit(l), NEW d, ~ l.causal, l.wl = -1, l.wr = -1,
         NEW sq, NEW sk, NEW row, NEW col
  PROVE  /\ Allows(FwdParams(l, d), sq, sk, row, col) <=> col < sk
         /\ Allows(BwdParams(l), sq, sk, row, col) <=> col < sk
<1>1. MaxK(l) \in Nat
  BY Dimensions
<1>2. LeftOf(l) = -1 /\ FwdRight(l) = -1 /\ BwdRight(l) = -1
  BY <1>1 DEF LeftOf, FwdRight, BwdRight, FwdCausal, Clip
<1>. DEFINE p == FwdParams(l, d)
            b == BwdParams(l)
<1>3. ~ p.causal /\ p.wl = -1 /\ p.wr = -1
  <2>1. /\ p.causal <=> LeftOf(l) < 0 /\ FwdRight(l) = 0
        /\ p.wl = (IF LeftOf(l) < 0 /\ FwdRight(l) >= 0 THEN MaxK(l) ELSE LeftOf(l))
        /\ p.wr = (IF LeftOf(l) >= 0 /\ FwdRight(l) < 0 THEN MaxK(l) ELSE FwdRight(l))
    BY DEF FwdParams, ParamsOf
  <2>. HIDE DEF p
  <2> QED BY <1>2, <2>1
<1>4. ~ b.causal /\ b.wl = -1 /\ b.wr = -1
  <2>1. /\ b.causal <=> LeftOf(l) < 0 /\ BwdRight(l) = 0
        /\ b.wl = (IF LeftOf(l) < 0 /\ BwdRight(l) >= 0 THEN MaxK(l) ELSE LeftOf(l))
        /\ b.wr = (IF LeftOf(l) >= 0 /\ BwdRight(l) < 0 THEN MaxK(l) ELSE BwdRight(l))
    BY DEF BwdParams, ParamsOf
  <2>. HIDE DEF b
  <2> QED BY <1>2, <2>1
<1>. HIDE DEF p, b
<1>5. Allows(p, sq, sk, row, col) <=> col < sk
  BY <1>3, AllowsAre DEF Mask
<1>6. Allows(b, sq, sk, row, col) <=> col < sk
  BY <1>4, AllowsAre DEF Mask
<1> QED BY <1>5, <1>6 DEF p, b

(* The backward pass weighs exactly the keys that the forward pass         *)
(* attended to, with the causal mask, windows or seqused_k (mha_fwd.cpp,   *)
(* mha_bwd.cpp, varlen.py: _flash_mha_varlen_vjp_bwd).                     *)
THEOREM SameKeysBackward ==
  Spec => []GradientFollowsForward
<1>1. ASSUME HostInv PROVE GradientFollowsForward
  <2>1. SUFFICES ASSUME dir = "backward", pc = "returned",
                        call.has_used => ~ call.causal /\ MaskLen(call) = call.kv[1] /\ call.tu = "S32",
                        NEW i \in IF call.varlen THEN 1 .. params[1].b ELSE {1},
                        NEW row \in 0 .. LengthQ(i) - 1, NEW col \in 0 .. LengthK(i) - 1
                 PROVE  FwdReads(i, row, col) <=> BwdReads(i, row, col)
    BY DEF GradientFollowsForward
  <2>. DEFINE sq == LengthQ(i)
              sk == LengthK(i)
              f == FwdParams(Mine, dev)
              b == BwdParams(Mine)
  <2>2. FrontendAccepts(call) /\ (call.varlen \/ PartitionFwd(call))
    BY <1>1, <2>1 DEF HostInv, Passed
  <2>3. Fit(Mine) /\ Mine.varlen = call.varlen
    BY <1>1, <2>2, MineIs
  <2>4. params = <<f, b>> /\ FwdRuns(Mine, dev)
    BY <1>1, <2>1 DEF HostInv, Written, Ran
  <2>5. params[1] = f /\ params[2] = b
    BY <2>4
  <2>6. Callable(call) /\ ND \in Nat \ {0} /\ call.has_used \in BOOLEAN /\ call.varlen \in BOOLEAN
    BY <1>1, Here DEF HostInv, Callable, Call
  <2>7. f.b = BatchOf(Mine) /\ f.sq = MaxQ(Mine) /\ f.sk = MaxK(Mine) /\ f.used = UsedGiven(Mine)
    BY DEF FwdParams, ParamsOf
  <2>. HIDE DEF f, b
  <2>8. CASE call.varlen
    <3>1. Mine = call /\ Fit(call)
      BY <2>3, <2>6, <2>8, LocalVarlen DEF Mine
    <3>2. i \in 1 .. BatchOf(call)
      BY <2>1, <2>5, <2>7, <2>8, <3>1
    <3>3. Len(call.cuq) = Len(call.cuk) /\ (call.wl # -1 \/ call.wr # -1 => ~ call.has_used)
      BY <2>2, <2>8 DEF FrontendAccepts, VarlenAccepted
    <3>4. sq = Length(call.cuq, i) /\ sk = Length(call.cuk, i)
      BY <2>8 DEF LengthQ, LengthK
    <3>5. sq \in Nat /\ sk \in Nat /\ sq <= MaxQ(call) /\ sk <= MaxK(call)
      BY <2>8, <3>1, <3>2, <3>3, <3>4, LengthsWithin
    <3>. HIDE DEF sq, sk
    <3>6. row \in 0 .. sq - 1 /\ col \in 0 .. sk - 1
      BY <2>1 DEF sq, sk
    <3>7. CASE ~ call.has_used
      <4>1. ~ f.used
        BY <2>7, <3>1, <3>7 DEF UsedGiven
      <4>2. FwdReads(i, row, col) <=> Allows(f, sq, sk, row, col)
        BY <2>5, <4>1 DEF FwdReads, sq, sk
      <4>3. BwdReads(i, row, col) <=> Allows(b, sq, sk, row, col)
        BY <2>5, <3>7 DEF BwdReads, sq, sk
      <4>4. Allows(f, sq, sk, row, col) <=> Allows(b, sq, sk, row, col)
        BY <3>1, <3>5, <3>6, SameMask DEF f, b
      <4> QED BY <4>2, <4>3, <4>4
    <3>8. CASE call.has_used
      <4>1. ~ call.causal /\ call.wl = -1 /\ call.wr = -1 /\ MaskLen(call) = call.kv[1] /\ call.tu = "S32"
        BY <2>1, <3>3, <3>8
      <4>2. UsedGiven(call)
        BY <2>8, <3>8, <4>1 DEF UsedGiven
      <4>3. f.used /\ Len(call.used) = BatchOf(call)
        BY <2>4, <2>7, <3>1, <4>2 DEF FwdRuns
      <4>4. FwdReads(i, row, col) <=> col < call.used[i]
        <5>1. FwdReads(i, row, col) <=> Allows(f, sq, call.used[i], row, col)
          BY <2>5, <4>3 DEF FwdReads, sq
        <5>2. Allows(f, sq, call.used[i], row, col) <=> col < call.used[i]
          BY <3>1, <4>1, NoMask DEF f
        <5> QED BY <5>1, <5>2
      <4>5. BwdReads(i, row, col) <=> KeyKept(call, call.cuk[i] + col)
        <5>1. BwdReads(i, row, col) <=> Allows(b, sq, sk, row, col) /\ KeyKept(call, call.cuk[i] + col)
          BY <2>5, <3>8 DEF BwdReads, sq, sk
        <5>2. Allows(b, sq, sk, row, col) <=> col < sk
          BY <3>1, <4>1, NoMask DEF b
        <5>3. col < sk
          BY <3>5, <3>6
        <5> QED BY <5>1, <5>2, <5>3
      <4>6. KeyKept(call, call.cuk[i] + col) <=> col < call.used[i]
        BY <2>8, <3>1, <3>2, <3>3, <3>4, <3>6, <3>8, <4>1, <4>3, KeptIfUsed
      <4> QED BY <4>4, <4>5, <4>6
    <3> QED BY <2>6, <3>7, <3>8
  <2>9. CASE ~ call.varlen
    <3>1. sq = MaxQ(Mine) /\ sk = MaxK(Mine)
      BY <2>5, <2>7, <2>9 DEF LengthQ, LengthK
    <3>2. sq \in Nat /\ sk \in Nat
      BY <2>3, <3>1, Dimensions
    <3>. HIDE DEF sq, sk
    <3>3. row \in 0 .. sq - 1 /\ col \in 0 .. sk - 1
      BY <2>1 DEF sq, sk
    <3>4. ~ call.has_used
      BY <2>6, <2>9 DEF Callable
    <3>5. ~ f.used
      BY <2>3, <2>7, <2>9 DEF UsedGiven
    <3>6. FwdReads(i, row, col) <=> Allows(f, sq, sk, row, col)
      BY <2>5, <3>5 DEF FwdReads, sq, sk
    <3>7. BwdReads(i, row, col) <=> Allows(b, sq, sk, row, col)
      BY <2>5, <3>4 DEF BwdReads, sq, sk
    <3>8. Allows(f, sq, sk, row, col) <=> Allows(b, sq, sk, row, col)
      <4>1. sq <= MaxQ(Mine) /\ sk <= MaxK(Mine)
        BY <3>1, <3>2
      <4> QED BY <2>3, <3>2, <3>3, <4>1, SameMask DEF f, b
    <3> QED BY <3>6, <3>7, <3>8
  <2> QED BY <2>6, <2>8, <2>9
<1> QED BY <1>1, HostInvariant, PTL

=============================================================================
