---------------------------- MODULE SplitKVProofs ----------------------------
(***************************************************************************)
(* Splits for every shape, device and head dimension that the kernel does  *)
(* not pad: the scratch holds what is written to it, without a mask every  *)
(* split has keys, and split and combine kernel together implement         *)
(* attention.  A split sums its slab of what a row sees; LineInv says that *)
(* the scratch holds the slabs of the blocks that have run and that a      *)
(* combined line is what its row sees.                                     *)
(***************************************************************************)
EXTENDS SplitKV, FlashMaskProofs

(* Division rounded up is the least number of parts that cover.            *)
LEMMA CeilDivLeast ==
  ASSUME NEW a \in Nat, NEW b \in Nat \ {0}
  PROVE  /\ CeilDiv(a, b) \in Nat
         /\ a > 0 => CeilDiv(a, b) >= 1
         /\ a <= CeilDiv(a, b) * b
         /\ CeilDiv(a, b) * b <= a + b - 1
<1> DEFINE q == (a + b - 1) \div b
<1>1. CeilDiv(a, b) = q
  BY DEF CeilDiv, Quot
<1>2. q \in Int /\ q * b <= a + b - 1 /\ a + b - 1 < (q + 1) * b
  OBVIOUS
<1>3. (q + 1) * b = q * b + b
  BY <1>2
<1>4. q >= 0 /\ (a > 0 => q >= 1)
  OBVIOUS
<1>5. QED BY <1>1, <1>2, <1>3, <1>4

(* If one part fewer, of the same size, were enough, the number of parts   *)
(* would not be eligible: dividing by s - 1 would give the same size.      *)
LEMMA EligibleNeedsAll ==
  ASSUME NEW n \in Nat \ {0}, NEW s \in Nat, s >= 2, Eligible(n, s)
  PROVE  (s - 1) * CeilDiv(n, s) < n
<1> DEFINE p == CeilDiv(n, s)
           q == CeilDiv(n, s - 1)
<1>1. /\ p \in Nat /\ n <= p * s /\ p * s <= n + s - 1
      /\ q \in Nat /\ n <= q * (s - 1) /\ q * (s - 1) <= n + (s - 1) - 1
      /\ p # q
  <2>1. s \in Nat \ {0} /\ s - 1 \in Nat \ {0}
    OBVIOUS
  <2>2. p # q
    BY DEF Eligible
  <2>3. QED BY <2>1, <2>2, CeilDivLeast
<1> HIDE DEF p, q
<1>2. SUFFICES ASSUME n <= (s - 1) * p PROVE FALSE
  BY <1>1 DEF p
<1>3. q * (s - 1) < p * (s - 1) + (s - 1)
  BY <1>1, <1>2
<1>4. q < p + 1
  <2>1. SUFFICES ASSUME q >= p + 1 PROVE FALSE
    BY <1>1
  <2>2. q * (s - 1) >= (p + 1) * (s - 1)
    BY <2>1, <1>1
  <2>3. (p + 1) * (s - 1) = p * (s - 1) + (s - 1)
    BY <1>1
  <2>4. QED BY <2>2, <2>3, <1>1, <1>3
<1>5. q <= p - 1
  BY <1>1, <1>4
<1>6. q * s <= (p - 1) * s
  BY <1>5, <1>1
<1>7. (p - 1) * s = p * s - s /\ q * (s - 1) = q * s - q
  BY <1>1
<1>8. QED BY <1>1, <1>6, <1>7

(* The heuristic answers 1 or an eligible number within its cap.           *)
LEMMA HeuristicRange ==
  ASSUME NEW units, NEW sms \in Nat \ {0}, NEW blocks \in Nat \ {0}, NEW cap \in Nat,
         NEW n, n = Heuristic(units, sms, blocks, cap)
  PROVE  \/ n = 1
         \/ n \in Nat /\ 1 <= n /\ n <= cap /\ Eligible(blocks, n)
<1> DEFINE most == AtMost(cap, AtMost(sms, blocks))
           S    == {s \in 1 .. most : Eligible(blocks, s)}
<1>1. most \in Nat /\ most <= cap
  BY DEF AtMost
<1>2. n = 1 \/ n \in S
  BY DEF Heuristic
<1>3. QED BY <1>1, <1>2

-----------------------------------------------------------------------------
(* The numbers of a call.                                                  *)
LEMMA ShapeNumbers ==
  ASSUME call \in Calls
  PROVE  /\ call.sq \in Nat \ {0} /\ call.sk \in Nat \ {0} /\ call.sms \in Nat \ {0}
         /\ QTiles \in Nat /\ KTiles \in Nat \ {0} /\ Lines \in Nat \ {0}
         /\ Shape.sms = call.sms /\ Shape.blocks = KTiles
<1>1. call.sq \in Nat \ {0} /\ call.sk \in Nat \ {0} /\ call.sms \in Nat \ {0}
  BY SplitKVAssumption
<1>2. QTiles \in Nat /\ KTiles \in Nat \ {0}
  <2>1. CeilDiv(call.sq, kBlockM) \in Nat
    BY <1>1, FlashMaskAssumption, CeilDivLeast
  <2>2. CeilDiv(call.sk, kBlockN) \in Nat /\ CeilDiv(call.sk, kBlockN) >= 1
    <3> DEFINE a == call.sk
    <3>1. a \in Nat /\ a > 0 /\ kBlockN \in Nat \ {0}
      BY <1>1, FlashMaskAssumption
    <3> HIDE DEF a
    <3>2. CeilDiv(a, kBlockN) \in Nat /\ CeilDiv(a, kBlockN) >= 1
      BY <3>1, CeilDivLeast
    <3>3. QED BY <3>2 DEF a
  <2>3. QED BY <2>1, <2>2 DEF QTiles, KTiles
<1>3. Lines \in Nat \ {0}
  BY <1>1, SplitKVAssumption DEF Lines
<1>4. QED BY <1>1, <1>2, <1>3 DEF Shape

LEMMA AllocatedRange ==
  ASSUME call \in Calls, NEW n, n = Allocated(Shape)
  PROVE  n \in Nat
  BY ShapeNumbers, HeuristicRange, SplitPlanAssumption DEF Allocated

LEMMA LaunchedRange ==
  ASSUME call \in Calls, room \in Nat, NEW n, n = Launched(Shape, room)
  PROVE  /\ n \in Nat
         /\ n > 1 => n <= room /\ Eligible(KTiles, n)
  BY ShapeNumbers, HeuristicRange DEF Launched

(* A row of split s lies in the part of the scratch that belongs to s.     *)
LEMMA RowInside ==
  ASSUME NEW r \in Nat, NEW s \in Nat, s < r, NEW n \in Nat, NEW l \in Nat, l < n
  PROVE  s * n + l \in 0 .. r * n - 1
<1>1. (s + 1) * n <= r * n /\ s * n \in Nat /\ r * n \in Nat
  OBVIOUS
<1>2. (s + 1) * n = s * n + n
  OBVIOUS
<1>3. QED BY <1>1, <1>2

(* Lines are numbered without gaps.                                        *)
LEMMA LineRange ==
  ASSUME call \in Calls, NEW h \in 0 .. Heads - 1, NEW row \in 0 .. call.sq - 1
  PROVE  LineOf(h, row) \in Nat /\ LineOf(h, row) < Lines
<1>1. call.sq \in Nat /\ Heads \in Nat /\ h \in Nat /\ row \in Nat /\ h < Heads
  BY ShapeNumbers, SplitKVAssumption
<1>2. h * call.sq + row \in 0 .. Heads * call.sq - 1
  BY <1>1, RowInside
<1>3. QED BY <1>1, <1>2 DEF LineOf, Lines

(* Where a row of a head is written, when the head dimension is not padded.*)
LEMMA WriteAddrInside ==
  ASSUME HeadDim = DRounded, call \in Calls, NEW r \in Nat,
         NEW s \in Nat, s < r, NEW h \in 0 .. Heads - 1,
         NEW row \in 0 .. call.sq - 1, NEW u \in Unit
  PROVE  WriteAddr(s, h, row, u) \in 0 .. r * Lines * DRounded - 1
<1> DEFINE first == (row \div kBlockM) * kBlockM
           D     == DRounded
           below == s * Lines + LineOf(h, first)
<1>1. /\ D \in Nat \ {0} /\ u \in Nat /\ u < D
      /\ first \in Nat /\ row \in Nat /\ h \in Nat
      /\ call.sq \in Nat /\ Lines \in Nat
  BY ShapeNumbers, SplitKVAssumption, FlashMaskAssumption DEF Unit
<1> HIDE DEF first
<1>2. LineOf(h, row) = LineOf(h, first) + (row - first)
      /\ LineOf(h, first) \in Nat
  BY <1>1 DEF LineOf
<1>3. s * Lines + LineOf(h, row) \in 0 .. r * Lines - 1
  BY <1>1, LineRange, RowInside
<1>4. /\ below \in Nat /\ below + (row - first) = s * Lines + LineOf(h, row)
      /\ r * Lines \in Nat
  BY <1>1, <1>2
<1>5. WriteAddr(s, h, row, u) = below * D + (row - first) * D + u
  BY DEF WriteAddr, first
<1> HIDE DEF below, D
<1>6. below * D + (row - first) * D = (below + (row - first)) * D
  BY <1>1, <1>4
<1>7. (s * Lines + LineOf(h, row)) * D + u \in 0 .. (r * Lines) * D - 1
  BY <1>1, <1>3, <1>4, RowInside
<1>8. QED BY <1>4, <1>5, <1>6, <1>7 DEF D

(* A part of a whole number of parts: CeilDiv is the least that covers.    *)
LEMMA CeilDivLeastCover ==
  ASSUME NEW a \in Nat, NEW b \in Nat \ {0}, NEW x \in Nat, a <= x * b
  PROVE  CeilDiv(a, b) <= x
<1> DEFINE q == CeilDiv(a, b)
<1>1. q \in Nat /\ q * b <= a + b - 1
  BY CeilDivLeast
<1> HIDE DEF q
<1>2. SUFFICES ASSUME q >= x + 1 PROVE FALSE
  BY <1>1 DEF q
<1>3. q * b >= (x + 1) * b
  BY <1>1, <1>2
<1>4. (x + 1) * b = x * b + b /\ x * b \in Nat /\ q * b \in Nat
  BY <1>1
<1>5. QED BY <1>1, <1>3, <1>4

(* The rows of the last combine block may lie behind the last line, but    *)
(* not behind the granule of the last line.                                *)
LEMMA LseInside ==
  ASSUME call \in Calls, NEW b \in CombineBlocks
  PROVE  b * CombineM .. (b + 1) * CombineM - 1 \subseteq 0 .. LseRoom - 1
<1> DEFINE n == CeilDiv(Lines, CombineM)
           g == CeilDiv(Lines, Granule)
           k == Granule \div CombineM
           C == CombineM
<1>1. /\ Lines \in Nat /\ C \in Nat \ {0} /\ Granule \in Nat \ {0}
      /\ Granule % C = 0
  BY ShapeNumbers, SplitKVAssumption
<1>2. k \in Nat /\ Granule = k * C
  BY <1>1
<1>3. n \in Nat /\ g \in Nat /\ Lines <= g * Granule
  BY <1>1, CeilDivLeast
<1>4. b \in Nat /\ b + 1 <= n
  BY <1>3 DEF CombineBlocks
<1> HIDE DEF n, g, k, C
<1>5. g * Granule = (g * k) * C /\ g * k \in Nat
  BY <1>1, <1>2, <1>3
<1>6. n <= g * k
  BY <1>1, <1>3, <1>5, CeilDivLeastCover DEF n, C
<1>7. (b + 1) * C <= (g * k) * C /\ b * C \in Nat
  BY <1>1, <1>3, <1>4, <1>5, <1>6
<1>8. LseRoom = (g * k) * C
  BY <1>5 DEF LseRoom, g
<1>9. (b + 1) * C \in Nat /\ (g * k) * C \in Nat
  BY <1>1, <1>4, <1>5
<1>10. QED BY <1>7, <1>8, <1>9 DEF C

-----------------------------------------------------------------------------
LEMMA InitScratchInv == Init => ScratchInv
<1> SUFFICES ASSUME Init PROVE ScratchInv
  OBVIOUS
<1>1. DOMAIN oaccum = {} /\ DOMAIN lseaccum = {} /\ DOMAIN lse = {}
  BY DEF Init
<1>2. QED BY <1>1 DEF Init, ScratchInv, WithinScratch

(* While nothing is written, the scratch may get any size.                 *)
LEMMA LowerScratchInv ==
  ASSUME ScratchInv, Lower
  PROVE  ScratchInv'
<1>1. call' = call /\ room' = Allocated(Shape) /\ phase = "lower" /\ phase' = "launch"
      /\ UNCHANGED <<splits, todo, uncombined, oaccum, lseaccum, lse>>
  BY DEF Lower
<1>2. room' \in Nat
  BY <1>1, AllocatedRange DEF ScratchInv
<1>3. DOMAIN oaccum' = {} /\ DOMAIN lseaccum' = {} /\ DOMAIN lse' = {}
      /\ todo' = {} /\ uncombined' = {}
  BY <1>1 DEF ScratchInv
<1>4. CombineBlocks' = CombineBlocks
  BY <1>1 DEF CombineBlocks, Lines
<1>5. QED BY <1>1, <1>2, <1>3, <1>4 DEF ScratchInv, WithinScratch

(* The device's own heuristic answers at most the splits there is room for.*)
LEMMA LaunchScratchInv ==
  ASSUME ScratchInv, Launch
  PROVE  ScratchInv'
<1>1. /\ call' = call /\ room' = room /\ splits' = Launched(Shape, room)
      /\ phase = "launch" /\ phase' \in {"split", "plain"}
      /\ UNCHANGED <<oaccum, lseaccum, lse>>
      /\ uncombined' \in {uncombined, CombineBlocks}
      /\ splits' > 1 => todo' = SplitBlocks(splits')
      /\ ~ (splits' > 1) => todo' = todo
  BY DEF Launch
<1>2. splits' \in Nat /\ (splits' > 1 => splits' <= room)
  BY <1>1, LaunchedRange DEF ScratchInv
<1>3. DOMAIN oaccum' = {} /\ DOMAIN lseaccum' = {} /\ DOMAIN lse' = {} /\ todo = {}
  BY <1>1 DEF ScratchInv
<1>4. SplitBlocks(splits)' = SplitBlocks(splits')
  BY <1>1 DEF SplitBlocks, QTiles
<1>5. (todo # {} => splits <= room)' /\ (todo \subseteq SplitBlocks(splits))'
  BY <1>1, <1>2, <1>3, <1>4
<1>6. (uncombined \subseteq CombineBlocks)'
  BY <1>1 DEF ScratchInv, CombineBlocks, Lines
<1>7. QED BY <1>1, <1>2, <1>3, <1>5, <1>6 DEF ScratchInv, WithinScratch

(* A block of the split kernel writes to rows of its own split only.       *)
LEMMA SplitBlockScratchInv ==
  ASSUME HeadDim = DRounded, ScratchInv,
         NEW s, NEW h, NEW m, SplitBlock(s, h, m)
  PROVE  ScratchInv'
<1>1. /\ UNCHANGED <<call, phase, room, splits, uncombined, lse>>
      /\ <<s, h, m>> \in todo /\ todo' = todo \ {<<s, h, m>>}
      /\ WriteParts(s, h, m) /\ WriteLses(s, h, m)
  BY DEF SplitBlock
<1>2. /\ s \in Nat /\ s < room /\ h \in 0 .. Heads - 1
      /\ phase \notin {"lower", "launch"}
  BY <1>1 DEF ScratchInv, SplitBlocks
<1>3. DOMAIN oaccum' \subseteq 0 .. room * Lines * DRounded - 1
  <2> DEFINE written == {WriteAddr(s, h, x.row, x.unit) : x \in Cells(s, h, m)}
  <2>1. DOMAIN oaccum' = DOMAIN oaccum \cup written
    BY <1>1 DEF WriteParts
  <2>2. \A x \in Cells(s, h, m) : x.row \in 0 .. call.sq - 1 /\ x.unit \in Unit
    BY DEF Cells, RowsOf
  <2>3. written \subseteq 0 .. room * Lines * DRounded - 1
    BY <1>2, <2>2, WriteAddrInside DEF ScratchInv
  <2>4. QED BY <2>1, <2>3 DEF ScratchInv, WithinScratch
<1>4. DOMAIN lseaccum' \subseteq 0 .. room * Lines - 1
  <2> DEFINE written == {s * Lines + LineOf(h, row) : row \in RowsOf(m)}
  <2>1. DOMAIN lseaccum' = DOMAIN lseaccum \cup written
    BY <1>1 DEF WriteLses
  <2>2. ASSUME NEW row \in RowsOf(m)
        PROVE  s * Lines + LineOf(h, row) \in 0 .. room * Lines - 1
    <3>1. row \in 0 .. call.sq - 1
      BY <2>2 DEF RowsOf
    <3>2. LineOf(h, row) \in Nat /\ LineOf(h, row) < Lines /\ Lines \in Nat
      BY <3>1, <1>2, LineRange, ShapeNumbers DEF ScratchInv
    <3>3. QED BY <3>2, <1>2, RowInside DEF ScratchInv
  <2>3. QED BY <2>1, <2>2 DEF ScratchInv, WithinScratch
<1>5. WithinScratch'
  BY <1>1, <1>3, <1>4 DEF ScratchInv, WithinScratch, LseRoom, Lines
<1>6. (todo \subseteq SplitBlocks(splits))' /\ (uncombined \subseteq CombineBlocks)'
  BY <1>1 DEF ScratchInv, SplitBlocks, QTiles, CombineBlocks, Lines
<1>7. QED BY <1>1, <1>2, <1>5, <1>6 DEF ScratchInv

(* A combine block writes the rows of its lines, and removes itself.       *)
LEMMA CombineScratchInv ==
  ASSUME ScratchInv, NEW b \in uncombined, Combine(b)
  PROVE  ScratchInv'
<1>1. /\ UNCHANGED <<call, phase, room, splits, todo, oaccum, lseaccum>>
      /\ uncombined' = uncombined \ {b}
      /\ DOMAIN lse' = DOMAIN lse \cup (b * CombineM .. (b + 1) * CombineM - 1)
  BY DEF Combine
<1>2. SplitBlocks(splits)' = SplitBlocks(splits) /\ CombineBlocks' = CombineBlocks
      /\ Lines' = Lines /\ LseRoom' = LseRoom
  BY <1>1 DEF SplitBlocks, QTiles, CombineBlocks, Lines, LseRoom
<1>3. DOMAIN lse' \subseteq 0 .. LseRoom - 1
  BY <1>1, LseInside DEF ScratchInv, WithinScratch
<1>4. phase \notin {"lower", "launch"}
  BY DEF ScratchInv
<1>5. QED BY <1>1, <1>2, <1>3, <1>4 DEF ScratchInv, WithinScratch

LEMMA NextScratchInv ==
  ASSUME HeadDim = DRounded
  PROVE  ScratchInv /\ [Next]_vars => ScratchInv'
<1> SUFFICES ASSUME ScratchInv, [Next]_vars PROVE ScratchInv'
  OBVIOUS
<1>1. CASE Lower
  BY <1>1, LowerScratchInv
<1>2. CASE Launch
  BY <1>2, LaunchScratchInv
<1>3. CASE \E x \in todo : SplitBlock(x[1], x[2], x[3])
  BY <1>3, SplitBlockScratchInv
<1>4. CASE \E b \in uncombined : Combine(b)
  BY <1>4, CombineScratchInv
<1>5. CASE UNCHANGED vars
  <2>1. UNCHANGED <<call, phase, room, splits, todo, uncombined, oaccum, lseaccum, lse>>
    BY <1>5 DEF vars
  <2>2. /\ SplitBlocks(splits)' = SplitBlocks(splits) /\ CombineBlocks' = CombineBlocks
        /\ Lines' = Lines /\ LseRoom' = LseRoom
    BY <2>1 DEF SplitBlocks, QTiles, CombineBlocks, Lines, LseRoom
  <2>3. QED BY <2>1, <2>2 DEF ScratchInv, WithinScratch
<1>6. QED BY <1>1, <1>2, <1>3, <1>4, <1>5 DEF Next

(* As long as blocks are left to run there is room for all their splits,   *)
(* and what was written lies in the scratch, for every shape, every number *)
(* of multiprocessors and every head dimension the kernel does not pad.    *)
THEOREM ScratchInvariant ==
  ASSUME HeadDim = DRounded
  PROVE  Spec => []ScratchInv
<1> QED BY InitScratchInv, NextScratchInv, PTL DEF Spec

(* The splits of a launch fit the scratch sized at lowering, for every     *)
(* shape, every assumed and actual number of multiprocessors and every     *)
(* head dimension that the kernel does not pad.                            *)
THEOREM SplitsFitScratch ==
  ASSUME HeadDim = DRounded
  PROVE  Spec => []WithinScratch
<1>1. ScratchInv => WithinScratch
  BY DEF ScratchInv
<1>2. QED BY <1>1, ScratchInvariant, PTL

-----------------------------------------------------------------------------
(* The number of splits is fixed once and was eligible.                    *)
Chosen ==
  /\ call \in Calls /\ room \in Nat
  /\ phase = "split" => splits \in Nat /\ splits > 1 /\ Eligible(KTiles, splits)

(* Without a mask no split is without keys, for every shape and device.    *)
THEOREM EverySplitHasKeys == Spec => []NoIdleSplit
<1>1. Init => Chosen
  BY DEF Init, Chosen
<1>2. Chosen /\ [Next]_vars => Chosen'
  <2> SUFFICES ASSUME Chosen, [Next]_vars PROVE Chosen'
    OBVIOUS
  <2>1. CASE Lower
    <3>1. call' = call /\ room' = Allocated(Shape) /\ phase' = "launch"
      BY <2>1 DEF Lower
    <3>2. QED BY <3>1, AllocatedRange DEF Chosen
  <2>2. CASE Launch
    <3>1. /\ call' = call /\ room' = room /\ splits' = Launched(Shape, room)
          /\ phase' = "split" => splits' > 1
      BY <2>2 DEF Launch
    <3>2. phase' = "split" => splits' \in Nat /\ Eligible(KTiles, splits')
      BY <3>1, LaunchedRange DEF Chosen
    <3>3. KTiles' = KTiles
      BY <3>1 DEF KTiles
    <3>4. QED BY <3>1, <3>2, <3>3 DEF Chosen, Eligible
  <2>3. CASE \/ \E x \in todo : SplitBlock(x[1], x[2], x[3])
             \/ \E b \in uncombined : Combine(b)
             \/ UNCHANGED vars
    <3>1. UNCHANGED <<call, phase, room, splits>>
      BY <2>3 DEF SplitBlock, Combine, vars
    <3>2. KTiles' = KTiles
      BY <3>1 DEF KTiles
    <3>3. QED BY <3>1, <3>2 DEF Chosen, Eligible
  <2>4. QED BY <2>1, <2>2, <2>3 DEF Next
<1>3. Chosen => NoIdleSplit
  <2> SUFFICES ASSUME Chosen, phase = "split", NEW s \in 0 .. splits - 1
               PROVE  BlocksOf(KTiles, splits, s) # {}
    BY DEF NoIdleSplit
  <2> DEFINE p == PerSplit(KTiles, splits)
  <2>1. /\ splits \in Nat /\ splits >= 2 /\ s \in Nat /\ s <= splits - 1
        /\ KTiles \in Nat \ {0}
    BY ShapeNumbers DEF Chosen
  <2>2. p \in Nat /\ p >= 1 /\ (splits - 1) * p < KTiles
    BY <2>1, CeilDivLeast, EligibleNeedsAll DEF Chosen, PerSplit
  <2> HIDE DEF p
  <2>3. s * p \in Nat /\ s * p <= (splits - 1) * p
    BY <2>1, <2>2
  <2>4. (s + 1) * p = s * p + p
    BY <2>1, <2>2
  <2>5. s * p \in s * p .. AtMost(KTiles, (s + 1) * p) - 1
    BY <2>1, <2>2, <2>3, <2>4 DEF AtMost
  <2>6. QED BY <2>5 DEF BlocksOf, p
<1>4. QED BY <1>1, <1>2, <1>3, PTL DEF Spec

-----------------------------------------------------------------------------
(* What a split sums: the columns a row sees in the split's part of the    *)
(* keys.                                                                   *)
Width == PerSplit(KTiles, splits) * kBlockN
Slab(s, row) ==
  {col \in Seen(call, row) : s * Width <= col /\ col < (s + 1) * Width}
LseOf(cols, none) == IF cols = {} THEN none ELSE "finite"

LEMMA CallNumbers ==
  ASSUME call \in Calls
  PROVE  /\ MaskCall(call)
         /\ call.sq \in Nat \ {0} /\ call.sk \in Nat \ {0}
         /\ kBlockM \in Nat \ {0} /\ kBlockN \in Nat \ {0}
         /\ QTiles \in Nat /\ KTiles \in Nat \ {0} /\ Lines \in Nat \ {0}
         /\ call.sk <= KTiles * kBlockN
<1>1. MaskCall(call)
  BY SplitKVAssumption DEF MaskCall
<1>2. call.sk <= CeilDiv(call.sk, kBlockN) * kBlockN
  BY ShapeNumbers, FlashMaskAssumption, CeilDivLeast
<1>3. QED BY <1>1, <1>2, ShapeNumbers, FlashMaskAssumption DEF KTiles

LEMMA WidthNumbers ==
  ASSUME call \in Calls, splits \in Nat \ {0}
  PROVE  /\ PerSplit(KTiles, splits) \in Nat \ {0}
         /\ Width \in Nat \ {0}
         /\ call.sk <= splits * Width
<1> DEFINE p == PerSplit(KTiles, splits)
           B == kBlockN
           K == KTiles
<1>1. B \in Nat \ {0} /\ K \in Nat \ {0} /\ call.sk <= K * B /\ call.sk \in Nat
  BY CallNumbers
<1>2. p \in Nat \ {0} /\ K <= p * splits
  <2>1. p = CeilDiv(K, splits)
    BY DEF PerSplit
  <2> HIDE DEF K, p
  <2>0. K \in Nat /\ K > 0
    BY <1>1
  <2>2. CeilDiv(K, splits) \in Nat /\ CeilDiv(K, splits) >= 1
        /\ K <= CeilDiv(K, splits) * splits
    BY <2>0, CeilDivLeast
  <2>3. QED BY <2>0, <2>1, <2>2
<1>3. Width = p * B
  BY DEF Width
<1> HIDE DEF p, B, K
<1>4. p * B \in Nat \ {0}
  BY <1>1, <1>2
<1>5. K * B <= (p * splits) * B
  BY <1>1, <1>2
<1>6. (p * splits) * B = splits * (p * B)
  BY <1>1, <1>2
<1>7. QED BY <1>1, <1>2, <1>3, <1>4, <1>5, <1>6 DEF p, B, K

(* The rows of a query tile.                                               *)
LEMMA RowsInTile ==
  ASSUME call \in Calls, NEW m \in Nat, NEW row \in RowsOf(m)
  PROVE  InTile(m, row) /\ row \in 0 .. call.sq - 1
<1> DEFINE M == kBlockM
<1>1. row \in Nat /\ row \div M = m /\ M \in Nat \ {0} /\ row \in 0 .. call.sq - 1
  BY CallNumbers DEF RowsOf
<1> HIDE DEF M
<1>2. m * M <= row /\ row < (m + 1) * M
  <2>1. (row \div M) * M <= row /\ row < ((row \div M) + 1) * M
    BY <1>1
  <2>2. QED BY <2>1, <1>1
<1>3. QED BY <1>1, <1>2 DEF InTile, M

(* The range of a split.                                                   *)
LEMMA SplitRange ==
  ASSUME call \in Calls, splits \in Nat \ {0}, NEW s \in Nat, NEW m \in Nat
  PROVE  LET p == PerSplit(KTiles, splits) IN
         /\ s * p \in Nat /\ (s + 1) * p \in Nat /\ (s + 1) * p = s * p + p
         /\ SplitMin(m, s) = AtLeast(s * p, NBlockMin(call, m))
         /\ SplitMax(m, s) = AtMost((s + 1) * p, NBlockMax(call, m))
         /\ SplitMin(m, s) \in Nat /\ SplitMax(m, s) \in Int
         /\ s * p <= SplitMin(m, s) /\ NBlockMin(call, m) <= SplitMin(m, s)
         /\ SplitMax(m, s) <= (s + 1) * p /\ SplitMax(m, s) <= NBlockMax(call, m)
<1> DEFINE p == PerSplit(KTiles, splits)
<1>1. p \in Nat \ {0}
  BY WidthNumbers
<1>2. SplitMin(m, s) = AtLeast(s * p, NBlockMin(call, m))
      /\ SplitMax(m, s) = AtMost((s + 1) * p, NBlockMax(call, m))
  BY DEF SplitMin, SplitMax
<1> HIDE DEF p
<1>3. s * p \in Nat /\ (s + 1) * p \in Nat /\ (s + 1) * p = s * p + p
  BY <1>1
<1>4. NBlockMin(call, m) \in Int /\ 0 <= NBlockMin(call, m) /\ NBlockMax(call, m) \in Int
  BY CallNumbers, MaskNumbers
<1>5. QED BY <1>2, <1>3, <1>4 DEF AtLeast, AtMost, p

(* In a tile of its range a split keeps the columns that the row sees.     *)
LEMMA KeptIsSeenInSplit ==
  ASSUME TilesDivide, call \in Calls, splits \in Nat \ {0}, NEW s \in Nat,
         NEW m \in Nat, NEW row \in RowsOf(m), NEW t \in SplitTiles(m, s)
  PROVE  /\ t \in Nat /\ t < NBlockMax(call, m)
         /\ ~ Masking(m, s, t) => t < NBlockMax(call, m) - NMaskingSteps(call)
         /\ Kept(m, s, row, t) =
              {t * kBlockN + j : j \in {i \in Column : t * kBlockN + i \in Seen(call, row)}}
<1>1. /\ SplitMin(m, s) \in Nat /\ SplitMax(m, s) \in Int
      /\ SplitMax(m, s) <= NBlockMax(call, m)
  BY SplitRange
<1>2. /\ NBlockMax(call, m) \in Int /\ NMaskingSteps(call) \in Int /\ MaskCall(call)
      /\ InTile(m, row)
  BY CallNumbers, MaskNumbers, RowsInTile
<1>3. t \in Nat /\ t < SplitMax(m, s) /\ t < NBlockMax(call, m)
  BY <1>1, <1>2 DEF SplitTiles
<1>4. ~ Masking(m, s, t) => t < NBlockMax(call, m) - NMaskingSteps(call)
  BY <1>1, <1>2, <1>3 DEF Masking
<1>5. Masking(m, s, t) \in BOOLEAN
  BY DEF Masking
<1>6. \A j \in 0 .. kBlockN - 1 :
        MaskedOut(call, Masking(m, s, t), row, t * kBlockN + j)
          <=> t * kBlockN + j \notin Seen(call, row)
  BY <1>2, <1>3, <1>4, <1>5, KeptIsSeen
<1>7. {j \in Column : ~ MaskedOut(call, Masking(m, s, t), row, t * kBlockN + j)}
        = {j \in Column : t * kBlockN + j \in Seen(call, row)}
  BY <1>6 DEF Column
<1>8. Kept(m, s, row, t) =
              {t * kBlockN + j : j \in {i \in Column : t * kBlockN + i \in Seen(call, row)}}
  BY <1>7 DEF Kept
<1>9. QED BY <1>3, <1>4, <1>8

(* Scores of a row are rescaled only after it has seen a column, or with   *)
(* the check for -inf.                                                     *)
LEMMA NeverNaN ==
  ASSUME TilesDivide, call \in Calls, splits \in Nat \ {0}, NEW s \in Nat,
         NEW m \in Nat, NEW row \in RowsOf(m)
  PROVE  ~ BecomesNaN(m, s, row)
<1>1. SUFFICES ASSUME NEW t \in SplitTiles(m, s), ~ CheckInf(m, s, t), Kept(m, s, row, t) = {}
               PROVE  FALSE
  <2>1. SplitTiles(m, s) \subseteq Int
    BY DEF SplitTiles
  <2>2. \A t \in SplitTiles(m, s) : t >= t
    BY <2>1
  <2>3. QED BY <1>1, <2>2 DEF BecomesNaN
<1>2. /\ t \in Nat /\ t < NBlockMax(call, m)
      /\ ~ Masking(m, s, t) => t < NBlockMax(call, m) - NMaskingSteps(call)
  BY KeptIsSeenInSplit
<1>3. 0 \in Column /\ MaskCall(call) /\ InTile(m, row)
  BY CallNumbers, RowsInTile DEF Column
<1>4. MaskedOut(call, Masking(m, s, t), row, t * kBlockN + 0)
  BY <1>1, <1>3 DEF Kept
<1>5. ~ IsLocal(call) /\ (~ Masking(m, s, t) \/ (~ IsCausal(call) /\ IsEvenMN(call)))
  BY <1>1 DEF CheckInf
<1>6. CASE Masking(m, s, t)
  BY <1>4, <1>5, <1>6 DEF MaskedOut
<1>7. CASE ~ Masking(m, s, t)
  BY <1>4, <1>5, <1>7 DEF MaskedOut
<1>8. QED BY <1>6, <1>7

(* A split sums its slab of what the row sees.                             *)
LEMMA SumIsSlab ==
  ASSUME TilesDivide, call \in Calls, splits \in Nat \ {0}, NEW s \in Nat,
         NEW m \in Nat, NEW row \in RowsOf(m)
  PROVE  /\ Sum(m, s, row) = Slab(s, row)
         /\ SumLse(m, s, row) = LseOf(Slab(s, row), "-inf")
<1> DEFINE p == PerSplit(KTiles, splits)
           B == kBlockN
           lo == SplitMin(m, s)
           hi == SplitMax(m, s)
<1>1. /\ s * p \in Nat /\ (s + 1) * p \in Nat
      /\ lo = AtLeast(s * p, NBlockMin(call, m)) /\ hi = AtMost((s + 1) * p, NBlockMax(call, m))
      /\ lo \in Nat /\ hi \in Int
      /\ s * p <= lo /\ hi <= (s + 1) * p
  BY SplitRange
<1>2. /\ B \in Nat \ {0} /\ p \in Nat \ {0} /\ MaskCall(call) /\ InTile(m, row)
      /\ Width = p * B
  BY CallNumbers, RowsInTile, WidthNumbers DEF Width
<1>3. s * Width = (s * p) * B /\ (s + 1) * Width = ((s + 1) * p) * B
  <2> HIDE DEF p, B
  <2>1. QED BY <1>2
<1>4. NBlockMin(call, m) \in Int /\ NBlockMax(call, m) \in Int
  BY <1>2, MaskNumbers
<1>5. Summed(m, s, row) = Slab(s, row)
  <2>1. ASSUME NEW t \in SplitTiles(m, s), NEW j \in Column, t * B + j \in Seen(call, row)
        PROVE  t * B + j \in Slab(s, row)
    <3>1. t \in Nat /\ lo <= t /\ t + 1 <= hi /\ j \in Int /\ 0 <= j /\ j < B
      BY <1>1, <1>2, <2>1 DEF SplitTiles, Column
    <3> HIDE DEF lo, hi, p, B
    <3>2. s * p <= t /\ t + 1 <= (s + 1) * p
      BY <3>1, <1>1
    <3>3. (s * p) * B <= t * B /\ (t + 1) * B <= ((s + 1) * p) * B /\ (t + 1) * B = t * B + B
      BY <3>1, <3>2, <1>1, <1>2, Grows, Distribute
    <3>4. s * Width <= t * B + j /\ t * B + j < (s + 1) * Width
      <4>1. t * B \in Int /\ (s * p) * B \in Int /\ ((s + 1) * p) * B \in Int
        BY <3>1, <1>1, <1>2
      <4>2. QED BY <3>1, <3>3, <1>3, <1>2, <4>1
    <3>5. QED BY <2>1, <3>4 DEF Slab
  <2>2. ASSUME NEW col \in Slab(s, row)
        PROVE  \E t \in SplitTiles(m, s), j \in Column : col = t * B + j
    <3>1. /\ col \in Seen(call, row) /\ s * Width <= col /\ col < (s + 1) * Width
          /\ col \in Nat
      BY CallNumbers DEF Slab, Seen
    <3>2. NBlockMin(call, m) * B <= col /\ col < NBlockMax(call, m) * B
      BY <1>2, <3>1, SeenInRange
    <3> DEFINE t == col \div B
               j == col - t * B
    <3>3. t \in Nat /\ t * B <= col /\ col < t * B + B
      <4> HIDE DEF B
      <4>1. QED BY <1>2, <3>1
    <3> HIDE DEF t
    <3>4. j \in Column
      <4>1. t * B \in Int
        BY <3>3, <1>2
      <4>2. QED BY <3>1, <3>3, <4>1, <1>2 DEF Column
    <3>5. lo <= t /\ t < hi
      <4> HIDE DEF lo, hi, p, B, j
      <4>1. \A x \in Int : x * B <= col => x <= t
        <5> TAKE x \in Int
        <5>1. x * B \in Int /\ t * B \in Int
          BY <3>3, <1>2
        <5>2. x * B <= col => x * B < t * B + B
          BY <5>1, <3>1, <3>3, <1>2
        <5>3. QED BY <5>2, <3>3, <1>2, LeastMultiple
      <4>2. \A x \in Int : col < x * B => t < x
        <5> TAKE x \in Int
        <5>1. SUFFICES ASSUME col < x * B, x <= t PROVE FALSE
          BY <3>3
        <5>2. x * B <= t * B /\ x * B \in Int /\ t * B \in Int
          BY <5>1, <3>3, <1>2, Grows
        <5>3. QED BY <5>1, <5>2, <3>1, <3>3
      <4>3. s * p <= t /\ NBlockMin(call, m) <= t
        BY <4>1, <1>1, <1>3, <1>4, <3>1, <3>2
      <4>4. t < (s + 1) * p /\ t < NBlockMax(call, m)
        BY <4>2, <1>1, <1>3, <1>4, <3>1, <3>2
      <4>5. QED BY <4>3, <4>4, <1>1 DEF AtLeast, AtMost
    <3>6. t \in SplitTiles(m, s)
      BY <3>3, <3>5, <1>1 DEF SplitTiles
    <3>7. col = t * B + j
      <4>1. t * B \in Int
        BY <3>3, <1>2
      <4>2. QED BY <4>1, <3>1
    <3>8. QED BY <3>4, <3>6, <3>7
  <2>3. \A t \in SplitTiles(m, s) : Kept(m, s, row, t) =
              {t * B + j : j \in {i \in Column : t * B + i \in Seen(call, row)}}
    BY KeptIsSeenInSplit
  <2>4. Slab(s, row) \subseteq Seen(call, row)
    BY DEF Slab
  <2> HIDE DEF B
  <2>5. QED BY <2>1, <2>2, <2>3, <2>4 DEF Summed
<1>6. Empty(m, s) => Slab(s, row) = {}
  <2>1. Empty(m, s) => SplitTiles(m, s) = {}
    BY <1>1 DEF Empty, SplitTiles
  <2>2. QED BY <2>1, <1>5 DEF Summed
<1>7. ~ BecomesNaN(m, s, row)
  BY NeverNaN
<1>8. QED BY <1>5, <1>6, <1>7 DEF Sum, SumLse, Part, PartLse, LseOf

(* Slabs of two splits have nothing in common, and together they are what  *)
(* the row sees.                                                           *)
LEMMA SlabsApart ==
  ASSUME call \in Calls, splits \in Nat \ {0}, NEW s \in Nat, NEW t \in Nat, s # t, NEW row
  PROVE  Slab(s, row) \cap Slab(t, row) = {}
<1> DEFINE W == Width
<1>1. W \in Nat \ {0}
  BY WidthNumbers
<1>2. SUFFICES ASSUME NEW col \in Slab(s, row), col \in Slab(t, row) PROVE FALSE
  OBVIOUS
<1>3. /\ col \in Int /\ s * W <= col /\ col < (s + 1) * W /\ t * W <= col /\ col < (t + 1) * W
  BY <1>2 DEF Slab, Seen
<1> HIDE DEF W
<1>4. (s + 1) * W = s * W + W /\ (t + 1) * W = t * W + W /\ s * W \in Int /\ t * W \in Int
  BY <1>1
<1>5. s <= t
  BY <1>1, <1>3, <1>4, LeastMultiple
<1>6. t <= s
  BY <1>1, <1>3, <1>4, LeastMultiple
<1>7. QED BY <1>5, <1>6

LEMMA SlabsCover ==
  ASSUME call \in Calls, splits \in Nat \ {0}, NEW row
  PROVE  UNION {Slab(s, row) : s \in {x \in 0 .. splits - 1 : Slab(x, row) # {}}} = Seen(call, row)
<1> DEFINE W == Width
<1>1. W \in Nat \ {0} /\ call.sk <= splits * W /\ call.sk \in Nat
  BY WidthNumbers, CallNumbers
<1>2. ASSUME NEW col \in Seen(call, row)
      PROVE  \E s \in 0 .. splits - 1 : col \in Slab(s, row)
  <2>1. col \in Nat /\ col < call.sk
    BY <1>1 DEF Seen
  <2> DEFINE s == col \div W
  <2> HIDE DEF W
  <2>2. s \in Nat /\ s * W <= col /\ col < (s + 1) * W
    BY <2>1, <1>1
  <2> HIDE DEF s
  <2>3. s < splits
    <3>1. SUFFICES ASSUME splits <= s PROVE FALSE
      BY <2>2
    <3>2. splits * W <= s * W /\ splits * W \in Int /\ s * W \in Int
      BY <3>1, <2>2, <1>1, Grows
    <3>3. QED BY <3>2, <2>1, <2>2, <1>1
  <2>4. QED BY <2>2, <2>3 DEF Slab, W
<1>3. \A s \in 0 .. splits - 1 : Slab(s, row) \subseteq Seen(call, row)
  BY DEF Slab
<1>4. QED BY <1>2, <1>3

-----------------------------------------------------------------------------
(* Addresses.  A number in a mixed base has its digits only once.          *)
LEMMA DigitsApart ==
  ASSUME NEW b \in Nat \ {0}, NEW x \in Int, NEW y \in Int,
         NEW d \in 0 .. b - 1, NEW e \in 0 .. b - 1, x * b + d = y * b + e
  PROVE  x = y /\ d = e
<1>1. x * b \in Int /\ y * b \in Int /\ d \in Int /\ e \in Int /\ d < b /\ e < b /\ 0 <= d /\ 0 <= e
  OBVIOUS
<1>2. x <= y
  BY <1>1, LeastMultiple
<1>3. y <= x
  BY <1>1, LeastMultiple
<1>4. QED BY <1>1, <1>2, <1>3

(* Two rows have two lines, and every line is that of a row.               *)
LEMMA LinesApart ==
  ASSUME call \in Calls, NEW h \in 0 .. Heads - 1, NEW g \in 0 .. Heads - 1,
         NEW row \in 0 .. call.sq - 1, NEW other \in 0 .. call.sq - 1,
         LineOf(h, row) = LineOf(g, other)
  PROVE  h = g /\ row = other
<1>1. /\ call.sq \in Nat \ {0} /\ h \in Int /\ g \in Int
      /\ h * call.sq + row = g * call.sq + other
  BY CallNumbers DEF LineOf
<1> QED BY <1>1, DigitsApart

LEMMA EveryLine ==
  ASSUME call \in Calls, NEW line \in 0 .. Lines - 1
  PROVE  \E h \in 0 .. Heads - 1, row \in 0 .. call.sq - 1 : line = LineOf(h, row)
<1> DEFINE q == call.sq
           h == line \div q
           row == line - h * q
<1>1. q \in Nat \ {0} /\ Heads \in Nat \ {0} /\ line \in Nat /\ line < Heads * q
  BY CallNumbers, SplitKVAssumption DEF Lines
<1> HIDE DEF q
<1>2. h \in Nat /\ h * q <= line /\ line < (h + 1) * q /\ (h + 1) * q = h * q + q
  BY <1>1
<1> HIDE DEF h
<1>3. h < Heads
  <2>1. SUFFICES ASSUME Heads <= h PROVE FALSE
    BY <1>1, <1>2
  <2>2. Heads * q <= h * q /\ Heads * q \in Int /\ h * q \in Int
    BY <2>1, <1>1, <1>2, Grows
  <2>3. QED BY <2>2, <1>1, <1>2
<1>4. h * q \in Int
  BY <1>1, <1>2
<1>5. row \in 0 .. q - 1 /\ line = h * q + row
  BY <1>1, <1>2, <1>4
<1>6. h \in 0 .. Heads - 1
  BY <1>1, <1>2, <1>3
<1>7. QED BY <1>5, <1>6 DEF LineOf, q

(* The two kernels agree on where unit u of a line is, if the head         *)
(* dimension is not padded.                                                *)
Cell(s, line, u) == (s * Lines + line) * DRounded + u

LEMMA WritesCell ==
  ASSUME HeadDim = DRounded, call \in Calls, NEW s \in Nat, NEW h \in 0 .. Heads - 1,
         NEW row \in 0 .. call.sq - 1, NEW u \in Unit
  PROVE  WriteAddr(s, h, row, u) = Cell(s, LineOf(h, row), u)
<1> DEFINE first == (row \div kBlockM) * kBlockM
           D     == DRounded
           below == s * Lines + LineOf(h, first)
           rest  == row - first
<1>1. /\ D \in Nat \ {0} /\ u \in Nat /\ first \in Nat /\ row \in Nat /\ h \in Nat
      /\ call.sq \in Nat /\ Lines \in Nat
  BY CallNumbers, SplitKVAssumption DEF Unit
<1>2. WriteAddr(s, h, row, u) = below * D + rest * D + u
  BY DEF WriteAddr
<1> HIDE DEF first, D
<1>3. below \in Int /\ rest \in Int
  BY <1>1 DEF LineOf
<1>4. below + rest = s * Lines + LineOf(h, row)
  BY <1>1 DEF LineOf
<1>5. Cell(s, LineOf(h, row), u) = (below + rest) * D + u
  BY <1>4 DEF Cell, D
<1> HIDE DEF below, rest
<1>6. (below + rest) * D = below * D + rest * D
  BY <1>1, <1>3, Distribute
<1>7. QED BY <1>2, <1>5, <1>6

LEMMA ReadsCell ==
  ASSUME HeadDim = DRounded, call \in Calls, NEW s \in Nat, NEW line \in Nat, NEW u \in Unit
  PROVE  ReadAddr(s, line, u) = Cell(s, line, u)
<1> DEFINE first == (line \div CombineM) * CombineM
           D     == DRounded
           part  == s * Lines
           rest  == line - first
<1>1. /\ D \in Nat \ {0} /\ u \in Nat /\ first \in Nat /\ part \in Nat
  BY CallNumbers, SplitKVAssumption DEF Unit
<1>2. ReadAddr(s, line, u) = part * D + first * D + rest * D + u
  BY DEF ReadAddr
<1>3. Cell(s, line, u) = (part + line) * D + u
  BY DEF Cell
<1> HIDE DEF first, D, part
<1>4. line = first + rest /\ rest \in Int
  BY <1>1
<1> HIDE DEF rest
<1>5. /\ (part + line) * D = part * D + line * D
      /\ line * D = first * D + rest * D
      /\ part * D \in Int /\ first * D \in Int /\ rest * D \in Int /\ line * D \in Int
  BY <1>1, <1>4, Distribute
<1>6. QED BY <1>1, <1>2, <1>3, <1>5

LEMMA CellsApart ==
  ASSUME call \in Calls, NEW s \in Nat, NEW t \in Nat,
         NEW line \in 0 .. Lines - 1, NEW other \in 0 .. Lines - 1,
         NEW u \in Unit, NEW v \in Unit, Cell(s, line, u) = Cell(t, other, v)
  PROVE  s = t /\ line = other /\ u = v
<1> DEFINE D == DRounded
           x == s * Lines + line
           y == t * Lines + other
<1>1. /\ D \in Nat \ {0} /\ u \in 0 .. D - 1 /\ v \in 0 .. D - 1
      /\ Lines \in Nat \ {0} /\ x \in Int /\ y \in Int
  BY CallNumbers, SplitKVAssumption DEF Unit
<1>2. x * D + u = y * D + v
  BY DEF Cell
<1> HIDE DEF D, x, y
<1>3. x = y /\ u = v
  BY <1>1, <1>2, DigitsApart
<1>4. s * Lines + line = t * Lines + other /\ s \in Int /\ t \in Int
  BY <1>3 DEF x, y
<1>5. s = t /\ line = other
  BY <1>1, <1>4, DigitsApart
<1>6. QED BY <1>3, <1>5

(* The row of an lse in its scratch array.                                 *)
LEMMA Division ==
  ASSUME NEW a \in Nat, NEW b \in Nat, b > 0
  PROVE  a % b \in 0 .. b - 1 /\ \E q \in Int : a = q * b + (a % b)
<1>1. a % b \in 0 .. b - 1
  OBVIOUS
<1>2. a = (a \div b) * b + (a % b)
  OBVIOUS
<1>3. a \div b \in Int
  OBVIOUS
<1>4. QED BY <1>1, <1>2, <1>3

LEMMA Remainder ==
  ASSUME NEW b \in Nat \ {0}, NEW x \in Nat, NEW d \in 0 .. b - 1,
         NEW n \in Nat, n = x * b + d
  PROVE  n % b = d
<1> DEFINE r == n % b
<1>1. b \in Nat /\ b > 0
  OBVIOUS
<1>2. r \in 0 .. b - 1 /\ \E q \in Int : n = q * b + r
  BY <1>1, Division
<1> HIDE DEF r
<1>3. PICK q \in Int : n = q * b + r
  BY <1>2
<1>4. r = d
  <2>1. q * b + r = x * b + d /\ x \in Int /\ r \in 0 .. b - 1
    BY <1>2, <1>3
  <2>2. QED BY ONLY <2>1, q \in Int, d \in 0 .. b - 1, b \in Nat \ {0}, DigitsApart
<1>5. QED BY <1>4 DEF r

-----------------------------------------------------------------------------
(* The combine kernel holds the log-sum-exp of every split.                *)
LEMMA LoadedAll ==
  ASSUME NEW step \in Nat \ {0}, PerThread \in Nat, NEW x \in Nat, x < PerThread * step
  PROVE  x \in Loaded(step)
<1> DEFINE l == x \div step
           y == x - l * step
           P == PerThread
<1>1. l \in Nat /\ l * step <= x /\ x < (l + 1) * step /\ (l + 1) * step = l * step + step
  OBVIOUS
<1> HIDE DEF l
<1>2. P \in Nat /\ x < P * step
  OBVIOUS
<1> HIDE DEF P
<1>3. l < P
  <2>1. SUFFICES ASSUME P <= l PROVE FALSE
    BY <1>1, <1>2
  <2>2. P * step <= l * step /\ P * step \in Int /\ l * step \in Int
    BY <2>1, <1>1, <1>2, Grows
  <2>3. QED BY <2>2, <1>1, <1>2
<1>4. l * step \in Int
  BY <1>1
<1>5. y \in 0 .. step - 1 /\ x = l * step + y
  BY <1>1, <1>4
<1>6. l \in 0 .. P - 1
  BY <1>1, <1>2, <1>3
<1>7. QED BY <1>5, <1>6 DEF Loaded, P

LEMMA EverySplitHeld ==
  ASSUME splits \in 2 .. 128
  PROVE  0 .. splits - 1 \subseteq Held /\ Held \subseteq Nat
<1> DEFINE Sizes == {2, 4, 8, 16, 32, 64, 128}
           K == KMaxSplits
           P == PerThread
           R == RowsPerLoad
           C == CombineM
           N == NThreads
<1>1. K \in Nat /\ splits <= K
  <2>1. \E p \in Sizes : p >= splits /\ (p > 2 => p < 2 * splits)
    <3>1. CASE splits <= 2
      BY <3>1
    <3>2. CASE splits > 2 /\ splits <= 4
      BY <3>2
    <3>3. CASE splits > 4 /\ splits <= 8
      BY <3>3
    <3>4. CASE splits > 8 /\ splits <= 16
      BY <3>4
    <3>5. CASE splits > 16 /\ splits <= 32
      BY <3>5
    <3>6. CASE splits > 32 /\ splits <= 64
      BY <3>6
    <3>7. CASE splits > 64
      BY <3>7
    <3>8. QED BY <3>1, <3>2, <3>3, <3>4, <3>5, <3>6, <3>7
  <2>2. K \in Sizes /\ K >= splits
    BY <2>1 DEF KMaxSplits
  <2>3. QED BY <2>2
<1>2. C \in Nat \ {0} /\ N \in Nat \ {0} /\ N % C = 0
  BY SplitKVAssumption
<1>3. R \in Nat \ {0} /\ N = R * C
  <2>1. R = N \div C
    BY DEF RowsPerLoad
  <2> HIDE DEF R, N, C
  <2>2. N \div C \in Nat /\ N = (N \div C) * C
    BY <1>2
  <2>3. R \in Nat /\ N = R * C
    BY <2>1, <2>2
  <2>4. R # 0
    BY <2>3, <1>2
  <2>5. QED BY <2>3, <2>4
<1>4. P \in Nat \ {0} /\ K * C <= P * N
  <2>1. P = CeilDiv(K * C, N)
    BY DEF PerThread
  <2> HIDE DEF K, P, C, N
  <2>2. K * C \in Nat /\ K * C > 0
    BY <1>1, <1>2
  <2>3. CeilDiv(K * C, N) \in Nat /\ CeilDiv(K * C, N) >= 1 /\ K * C <= CeilDiv(K * C, N) * N
    BY <1>2, <2>2, CeilDivLeast
  <2>4. QED BY <2>1, <2>3
<1>5. RowsPerTranspose = IF R <= K THEN R ELSE K
  BY DEF RowsPerTranspose, AtMost
<1> HIDE DEF K, P, R, C, N
<1>6. K <= P * R
  <2>1. SUFFICES ASSUME P * R + 1 <= K PROVE FALSE
    BY <1>1, <1>3, <1>4
  <2>2. (P * R + 1) * C <= K * C
    BY <2>1, <1>1, <1>2, <1>3, <1>4, Grows
  <2>3. (P * R + 1) * C = (P * R) * C + C /\ (P * R) * C = P * (R * C)
    BY <1>2, <1>3, <1>4
  <2>4. K * C \in Int /\ P * N \in Int
    BY <1>1, <1>2, <1>4
  <2>5. QED BY <2>2, <2>3, <2>4, <1>2, <1>3, <1>4
<1>7. K <= P * K
  BY <1>1, <1>4
<1>8. ASSUME NEW x \in 0 .. splits - 1 PROVE x \in Held
  <2>1. x \in Nat /\ x < K /\ x < P * R /\ x < P * K /\ K \in Nat \ {0} /\ x \in 0 .. K - 1
    <3>1. P * R \in Int /\ P * K \in Int
      BY <1>1, <1>3, <1>4
    <3>2. QED BY <3>1, <1>1, <1>6, <1>7
  <2>2. x \in Loaded(R) /\ x \in Loaded(K)
    BY <2>1, <1>3, <1>4, LoadedAll DEF P
  <2>3. x \in Loaded(RowsPerTranspose)
    BY <2>2, <1>5
  <2>4. QED BY <2>1, <2>2, <2>3 DEF Held, R, K
<1>9. Held \subseteq Nat
  BY <1>1 DEF Held, K
<1>10. QED BY <1>8, <1>9

-----------------------------------------------------------------------------
(* What memory holds.  A block that has run has written the slab of each   *)
(* of its rows and its log-sum-exp; a line that is combined is what its    *)
(* row sees.                                                               *)
Written(s, line, row) ==
  /\ s * Lines + line \in DOMAIN lseaccum
  /\ lseaccum[s * Lines + line] = LseOf(Slab(s, row), "-inf")
  /\ \A u \in Unit :
       /\ Cell(s, line, u) \in DOMAIN oaccum
       /\ oaccum[Cell(s, line, u)] = [line |-> line, unit |-> u, sum |-> Slab(s, row)]

PartsInv ==
  phase = "split" =>
    \A s \in 0 .. splits - 1, h \in 0 .. Heads - 1, m \in 0 .. QTiles - 1 :
      \A row \in RowsOf(m) : <<s, h, m>> \in todo \/ Written(s, LineOf(h, row), row)

Combined(line, row) ==
  line \in DOMAIN out =>
    /\ line \in DOMAIN lse
    /\ out[line] = Seen(call, row)
    /\ lse[line] = LseOf(Seen(call, row), "+inf")

LinesInv ==
  /\ DOMAIN out \subseteq 0 .. Lines - 1
  /\ \A h \in 0 .. Heads - 1, row \in 0 .. call.sq - 1 : Combined(LineOf(h, row), row)

PhaseInv ==
  /\ phase \in {"lower", "launch", "split", "plain"}
  /\ call \in Calls /\ room \in 0 .. MaxSplits /\ splits \in 0 .. MaxSplits
  /\ phase = "split" => splits > 1
  /\ phase # "split" => todo = {} /\ uncombined = {} /\ DOMAIN out = {}
  /\ todo \subseteq SplitBlocks(splits) /\ uncombined \subseteq CombineBlocks

LineInv == PhaseInv /\ PartsInv /\ LinesInv

(* What the combine kernel reads for a line of the array, once every block *)
(* of the split kernel has run.                                            *)
LEMMA MergesSlabs ==
  ASSUME HeadDim = DRounded, call \in Calls, splits \in 2 .. 128,
         NEW h \in 0 .. Heads - 1, NEW row \in 0 .. call.sq - 1,
         \A s \in 0 .. splits - 1 : Written(s, LineOf(h, row), row)
  PROVE  LET line == LineOf(h, row) IN
         /\ MergedLine(line) = Seen(call, row)
         /\ Finite(line) = {} <=> Seen(call, row) = {}
<1> DEFINE line == LineOf(h, row)
<1>1. /\ line \in Nat /\ line < Lines /\ Lines \in Nat
      /\ splits \in Nat \ {0} /\ 0 .. splits - 1 \subseteq Held /\ Held \subseteq Nat
  BY LineRange, CallNumbers, EverySplitHeld
<1>2. Finite(line) = {s \in 0 .. splits - 1 : Slab(s, row) # {}}
  <2>1. ASSUME NEW s \in Held
        PROVE  PartOf(line, s) = "finite" <=> s < splits /\ Slab(s, row) # {}
    <3>1. CASE s < splits
      <4>1. s \in 0 .. splits - 1
        BY <1>1, <3>1
      <4>2. PartOf(line, s) = LseOf(Slab(s, row), "-inf")
        BY <4>1, <1>1, <3>1 DEF PartOf, Written
      <4>3. QED BY <4>2, <3>1 DEF LseOf
    <3>2. CASE ~ s < splits
      BY <3>2 DEF PartOf
    <3>3. QED BY <3>1, <3>2
  <2>2. Finite(line) = {s \in Held : s < splits /\ Slab(s, row) # {}}
    BY <2>1 DEF Finite
  <2>3. \A s \in Held : s < splits <=> s \in 0 .. splits - 1
    BY <1>1
  <2>4. QED BY <1>1, <2>2, <2>3
<1>3. ASSUME NEW u \in Unit PROVE Merged(line, u) = Seen(call, row)
  <2> DEFINE Read(s) == oaccum[ReadAddr(s, line, u)]
             read == {s \in 0 .. splits - 1 : ReadAddr(s, line, u) \in DOMAIN oaccum}
             fin == Finite(line)
  <2>1. \A s \in 0 .. splits - 1 :
          /\ ReadAddr(s, line, u) \in DOMAIN oaccum
          /\ Read(s) = [line |-> line, unit |-> u, sum |-> Slab(s, row)]
    <3> TAKE s \in 0 .. splits - 1
    <3>1. ReadAddr(s, line, u) = Cell(s, line, u)
      BY <1>1, ReadsCell
    <3>2. Written(s, line, row)
      OBVIOUS
    <3>3. QED BY <3>1, <3>2 DEF Written
  <2>2. read = 0 .. splits - 1
    BY <2>1
  <2>3. fin \subseteq 0 .. splits - 1
    BY <1>2
  <2>4. \A s \in 0 .. splits - 1 :
          Read(s).line = line /\ Read(s).unit = u /\ Read(s).sum = Slab(s, row)
    <3> TAKE s \in 0 .. splits - 1
    <3>1. Read(s) = [line |-> line, unit |-> u, sum |-> Slab(s, row)]
      BY <2>1
    <3> HIDE DEF Read, line
    <3>2. QED BY <3>1
  <2>5. \A s \in 0 .. splits - 1 : Slab(s, row) # NaN
    BY CallNumbers DEF Slab, Seen, NaN
  <2>6. \A s, t \in fin : s # t => Slab(s, row) \cap Slab(t, row) = {}
    BY <2>3, <1>1, SlabsApart
  <2>7. UNION {Slab(s, row) : s \in fin} = Seen(call, row)
    BY <1>1, <1>2, SlabsCover
  <2>8. Merged(line, u) =
          IF \/ read # 0 .. splits - 1 \/ ~ read \subseteq Held
             \/ \E s \in read : Read(s).sum = NaN
             \/ \E s \in fin : Read(s).line # line \/ Read(s).unit # u
             \/ \E s, t \in fin : s # t /\ Read(s).sum \cap Read(t).sum # {}
          THEN NaN
          ELSE UNION {Read(s).sum : s \in fin}
    BY DEF Merged
  <2> HIDE DEF Read, read, fin
  <2>9. UNION {Read(s).sum : s \in fin} = UNION {Slab(s, row) : s \in fin}
    BY <2>3, <2>4
  <2>10. \A s, t \in fin : s # t => Read(s).sum \cap Read(t).sum = {}
    BY <2>3, <2>4, <2>6
  <2>11. QED BY <2>2, <2>3, <2>4, <2>5, <2>7, <2>8, <2>9, <2>10, <1>1
<1>4. 0 \in Unit
  BY SplitKVAssumption DEF Unit
<1>5. MergedLine(line) = Seen(call, row)
  BY <1>3, <1>4 DEF MergedLine
<1>6. Finite(line) = {} <=> Seen(call, row) = {}
  <2>1. UNION {Slab(s, row) : s \in Finite(line)} = Seen(call, row)
    BY <1>1, <1>2, SlabsCover
  <2>2. QED BY <2>1, <1>2
<1>7. QED BY <1>5, <1>6

-----------------------------------------------------------------------------
(* A block of the split kernel writes its cells and no others.             *)
LEMMA SplitBlockNumbers ==
  ASSUME PhaseInv, NEW s, NEW h, NEW m, SplitBlock(s, h, m)
  PROVE  /\ UNCHANGED <<call, phase, room, splits, uncombined, out, lse>>
         /\ <<s, h, m>> \in todo /\ todo' = todo \ {<<s, h, m>>}
         /\ WriteParts(s, h, m) /\ WriteLses(s, h, m)
         /\ phase = "split" /\ splits \in 2 .. 128 /\ call \in Calls
         /\ s \in 0 .. splits - 1 /\ h \in 0 .. Heads - 1 /\ m \in 0 .. QTiles - 1
<1>1. /\ UNCHANGED <<call, phase, room, splits, uncombined, out, lse>>
      /\ <<s, h, m>> \in todo /\ todo' = todo \ {<<s, h, m>>}
      /\ WriteParts(s, h, m) /\ WriteLses(s, h, m)
  BY DEF SplitBlock
<1>2. phase = "split" /\ splits \in 2 .. 128 /\ call \in Calls
  BY <1>1, SplitPlanAssumption DEF PhaseInv
<1>3. <<s, h, m>> \in SplitBlocks(splits)
  BY <1>1 DEF PhaseInv
<1>4. QED BY <1>1, <1>2, <1>3 DEF SplitBlocks

LEMMA SplitBlockPlace ==
  ASSUME PhaseInv, NEW s, NEW h, NEW m, SplitBlock(s, h, m)
  PROVE  /\ call \in Calls /\ splits \in Nat \ {0}
         /\ s \in Nat /\ m \in Nat /\ h \in 0 .. Heads - 1
         /\ 0 .. splits - 1 \subseteq Nat
<1>1. /\ splits \in 2 .. 128 /\ call \in Calls
      /\ s \in 0 .. splits - 1 /\ h \in 0 .. Heads - 1 /\ m \in 0 .. QTiles - 1
  BY SplitBlockNumbers
<1>2. QTiles \in Nat
  BY <1>1, CallNumbers
<1>3. splits \in Nat \ {0} /\ s \in Nat /\ m \in Nat /\ 0 .. splits - 1 \subseteq Nat
  BY <1>1, <1>2
<1>4. QED BY <1>1, <1>3

LEMMA WritesParts ==
  ASSUME HeadDim = DRounded, TilesDivide, PhaseInv, NEW s, NEW h, NEW m, SplitBlock(s, h, m),
         NEW row \in RowsOf(m), NEW u \in Unit
  PROVE  /\ Cell(s, LineOf(h, row), u) \in DOMAIN oaccum'
         /\ oaccum'[Cell(s, LineOf(h, row), u)] =
              [line |-> LineOf(h, row), unit |-> u, sum |-> Slab(s, row)]
<1> DEFINE a == Cell(s, LineOf(h, row), u)
           written == {WriteAddr(s, h, x.row, x.unit) : x \in Cells(s, h, m)}
           own == [row |-> row, unit |-> u]
<1>1. /\ call \in Calls /\ splits \in Nat \ {0} /\ s \in Nat /\ m \in Nat /\ h \in 0 .. Heads - 1
      /\ row \in 0 .. call.sq - 1
  BY SplitBlockPlace, RowsInTile
<1>2. own \in Cells(s, h, m) /\ own.row = row /\ own.unit = u
  BY DEF Cells
<1>3. \A x \in Cells(s, h, m) :
        /\ x.row \in RowsOf(m) /\ x.row \in 0 .. call.sq - 1 /\ x.unit \in Unit
        /\ x = [row |-> x.row, unit |-> x.unit]
  BY DEF Cells, RowsOf
<1>4. \A x \in Cells(s, h, m) :
        WriteAddr(s, h, x.row, x.unit) = Cell(s, LineOf(h, x.row), x.unit)
  BY <1>1, <1>3, WritesCell
<1>5. a \in written
  BY <1>2, <1>4
<1>6. CellAt(s, h, m, a) = own
  <2>1. \E x \in Cells(s, h, m) : WriteAddr(s, h, x.row, x.unit) = a
    BY <1>2, <1>4
  <2>2. ASSUME NEW x \in Cells(s, h, m), WriteAddr(s, h, x.row, x.unit) = a
        PROVE  x = own
    <3>1. Cell(s, LineOf(h, x.row), x.unit) = Cell(s, LineOf(h, row), u)
      BY <2>2, <1>4
    <3>2. LineOf(h, x.row) \in 0 .. Lines - 1 /\ LineOf(h, row) \in 0 .. Lines - 1
      BY <1>1, <1>3, LineRange, CallNumbers
    <3>3. LineOf(h, x.row) = LineOf(h, row) /\ x.unit = u
      BY <3>1, <3>2, <1>1, <1>3, CellsApart
    <3>4. x.row = row
      BY <3>3, <1>1, <1>3, LinesApart
    <3>5. QED BY <3>3, <3>4, <1>3
  <2>3. QED BY <2>1, <2>2 DEF CellAt
<1>7. oaccum' = [b \in DOMAIN oaccum \cup written |->
        IF b \notin written THEN oaccum[b]
        ELSE LET x == CellAt(s, h, m, b)
             IN [line |-> LineOf(h, x.row), unit |-> x.unit, sum |-> Sum(m, s, x.row)]]
  BY SplitBlockNumbers DEF WriteParts
<1> HIDE DEF a, written, own
<1>8. a \in DOMAIN oaccum'
      /\ oaccum'[a] = [line |-> LineOf(h, row), unit |-> u, sum |-> Sum(m, s, row)]
  BY <1>2, <1>5, <1>6, <1>7
<1>9. Sum(m, s, row) = Slab(s, row)
  BY <1>1, SumIsSlab
<1>10. QED BY <1>8, <1>9 DEF a

LEMMA LeavesParts ==
  ASSUME HeadDim = DRounded, PhaseInv, NEW s, NEW h, NEW m, SplitBlock(s, h, m),
         NEW t \in 0 .. splits - 1, NEW g \in 0 .. Heads - 1, NEW row \in 0 .. call.sq - 1,
         ~ (s = t /\ h = g /\ row \in RowsOf(m)), NEW u \in Unit,
         Cell(t, LineOf(g, row), u) \in DOMAIN oaccum
  PROVE  /\ Cell(t, LineOf(g, row), u) \in DOMAIN oaccum'
         /\ oaccum'[Cell(t, LineOf(g, row), u)] = oaccum[Cell(t, LineOf(g, row), u)]
<1> DEFINE a == Cell(t, LineOf(g, row), u)
           written == {WriteAddr(s, h, x.row, x.unit) : x \in Cells(s, h, m)}
<1>1. /\ call \in Calls /\ s \in Nat /\ t \in Nat /\ h \in 0 .. Heads - 1
  BY SplitBlockPlace
<1>2. ASSUME NEW x \in Cells(s, h, m), WriteAddr(s, h, x.row, x.unit) = a
      PROVE  FALSE
  <2>1. x.row \in RowsOf(m) /\ x.row \in 0 .. call.sq - 1 /\ x.unit \in Unit
    BY DEF Cells, RowsOf
  <2>2. Cell(s, LineOf(h, x.row), x.unit) = Cell(t, LineOf(g, row), u)
    BY <1>1, <1>2, <2>1, WritesCell
  <2>3. LineOf(h, x.row) \in 0 .. Lines - 1 /\ LineOf(g, row) \in 0 .. Lines - 1
    BY <1>1, <2>1, LineRange, CallNumbers
  <2>4. LineOf(h, x.row) = LineOf(g, row) /\ s = t
    BY <2>1, <2>2, <2>3, <1>1, CellsApart
  <2>5. h = g /\ x.row = row
    BY <2>1, <2>4, <1>1, LinesApart
  <2>6. QED BY <2>1, <2>4, <2>5
<1>3. a \notin written
  BY <1>2
<1>4. oaccum' = [b \in DOMAIN oaccum \cup written |->
        IF b \notin written THEN oaccum[b]
        ELSE LET x == CellAt(s, h, m, b)
             IN [line |-> LineOf(h, x.row), unit |-> x.unit, sum |-> Sum(m, s, x.row)]]
  BY SplitBlockNumbers DEF WriteParts
<1>5. a \in DOMAIN oaccum
  OBVIOUS
<1> HIDE DEF a, written
<1>6. a \in DOMAIN oaccum' /\ oaccum'[a] = oaccum[a]
  BY <1>3, <1>4, <1>5
<1>7. QED BY <1>6 DEF a

(* The same of the log-sum-exp.                                            *)
LEMMA WritesLses ==
  ASSUME TilesDivide, PhaseInv, NEW s, NEW h, NEW m, SplitBlock(s, h, m),
         NEW row \in RowsOf(m)
  PROVE  /\ s * Lines + LineOf(h, row) \in DOMAIN lseaccum'
         /\ lseaccum'[s * Lines + LineOf(h, row)] = LseOf(Slab(s, row), "-inf")
<1> DEFINE line == LineOf(h, row)
           a == s * Lines + line
           written == {s * Lines + LineOf(h, r) : r \in RowsOf(m)}
<1>1. /\ call \in Calls /\ splits \in Nat \ {0} /\ s \in Nat /\ m \in Nat /\ h \in 0 .. Heads - 1
      /\ row \in 0 .. call.sq - 1
  BY SplitBlockPlace, RowsInTile
<1>2. lseaccum' = [b \in DOMAIN lseaccum \cup written |->
        IF b \in written THEN SumLse(m, s, (b % Lines) - h * call.sq) ELSE lseaccum[b]]
  BY SplitBlockNumbers DEF WriteLses
<1>3. a \in written
  OBVIOUS
<1>4. line \in 0 .. Lines - 1 /\ Lines \in Nat \ {0}
  BY <1>1, LineRange, CallNumbers
<1>5. a % Lines = line
  <2>1. a \in Nat
    BY <1>1, <1>4
  <2> HIDE DEF line
  <2>2. a = s * Lines + line
    OBVIOUS
  <2> HIDE DEF a
  <2>3. QED BY <1>1, <1>4, <2>1, <2>2, Remainder
<1>6. line - h * call.sq = row
  BY <1>1, CallNumbers DEF LineOf
<1> HIDE DEF a, written, line
<1>7. a \in DOMAIN lseaccum' /\ lseaccum'[a] = SumLse(m, s, row)
  BY <1>2, <1>3, <1>5, <1>6
<1>8. SumLse(m, s, row) = LseOf(Slab(s, row), "-inf")
  BY <1>1, SumIsSlab
<1>9. QED BY <1>7, <1>8 DEF a, line

LEMMA LeavesLses ==
  ASSUME PhaseInv, NEW s, NEW h, NEW m, SplitBlock(s, h, m),
         NEW t \in 0 .. splits - 1, NEW g \in 0 .. Heads - 1, NEW row \in 0 .. call.sq - 1,
         ~ (s = t /\ h = g /\ row \in RowsOf(m)),
         t * Lines + LineOf(g, row) \in DOMAIN lseaccum
  PROVE  /\ t * Lines + LineOf(g, row) \in DOMAIN lseaccum'
         /\ lseaccum'[t * Lines + LineOf(g, row)] = lseaccum[t * Lines + LineOf(g, row)]
<1> DEFINE a == t * Lines + LineOf(g, row)
           written == {s * Lines + LineOf(h, r) : r \in RowsOf(m)}
<1>1. /\ call \in Calls /\ s \in Nat /\ t \in Nat /\ h \in 0 .. Heads - 1
  BY SplitBlockPlace
<1>2. lseaccum' = [b \in DOMAIN lseaccum \cup written |->
        IF b \in written THEN SumLse(m, s, (b % Lines) - h * call.sq) ELSE lseaccum[b]]
  BY SplitBlockNumbers DEF WriteLses
<1>3. ASSUME NEW r \in RowsOf(m), s * Lines + LineOf(h, r) = a PROVE FALSE
  <2>1. r \in 0 .. call.sq - 1
    BY DEF RowsOf
  <2>2. /\ LineOf(h, r) \in 0 .. Lines - 1 /\ LineOf(g, row) \in 0 .. Lines - 1
        /\ Lines \in Nat \ {0} /\ s \in Int /\ t \in Int
    BY <1>1, <2>1, LineRange, CallNumbers
  <2>3. s = t /\ LineOf(h, r) = LineOf(g, row)
    BY <1>3, <2>2, DigitsApart
  <2>4. h = g /\ r = row
    BY <2>1, <2>3, <1>1, LinesApart
  <2>5. QED BY <2>3, <2>4
<1>4. a \notin written
  BY <1>3
<1>5. a \in DOMAIN lseaccum
  OBVIOUS
<1> HIDE DEF a, written
<1>6. a \in DOMAIN lseaccum' /\ lseaccum'[a] = lseaccum[a]
  BY <1>2, <1>4, <1>5
<1>7. QED BY <1>6 DEF a

(* What was summed is columns, and a log-sum-exp is finite or not.         *)
ValuesInv ==
  /\ \A a \in DOMAIN oaccum : oaccum[a].sum \in Sums
  /\ \A a \in DOMAIN lseaccum : lseaccum[a] \in {"-inf", "finite"}
  /\ \A l \in DOMAIN lse : lse[l] \in {"+inf", "finite"}

LEMMA InitLines == Init => LineInv /\ ValuesInv
<1> SUFFICES ASSUME Init PROVE LineInv /\ ValuesInv
  OBVIOUS
<1>1. DOMAIN out = {} /\ DOMAIN lse = {} /\ DOMAIN oaccum = {} /\ DOMAIN lseaccum = {}
  BY DEF Init
<1>2. PhaseInv
  BY <1>1, SplitPlanAssumption DEF Init, PhaseInv
<1>3. PartsInv
  BY DEF Init, PartsInv
<1>4. LinesInv
  BY <1>1 DEF LinesInv, Combined
<1>5. ValuesInv
  BY <1>1 DEF ValuesInv
<1>6. QED BY <1>2, <1>3, <1>4, <1>5 DEF LineInv

(* Neither choice of the number of splits touches memory.                  *)
LEMMA ChoicesKeepLines ==
  ASSUME LineInv, ValuesInv, Lower \/ Launch
  PROVE  LineInv' /\ ValuesInv'
<1>1. /\ UNCHANGED <<call, oaccum, lseaccum, out, lse>>
      /\ phase \in {"lower", "launch"} /\ phase' \in {"launch", "split", "plain"}
      /\ call \in Calls /\ room \in 0 .. MaxSplits /\ splits \in 0 .. MaxSplits
      /\ todo = {} /\ uncombined = {} /\ DOMAIN out = {} /\ MaxSplits \in Nat \ {0}
  BY SplitPlanAssumption DEF Lower, Launch, LineInv, PhaseInv
<1>2. CombineBlocks' = CombineBlocks
  BY <1>1 DEF CombineBlocks, Lines
<1>3. room' \in 0 .. MaxSplits /\ splits' \in 0 .. MaxSplits
  <2>1. CASE Lower
    <3> DEFINE n == Allocated(Shape)
    <3>1. n = 1 \/ (n \in Nat /\ n <= MaxSplits)
      <4>1. LoweringSMs \in Nat \ {0} /\ Shape.blocks \in Nat \ {0} /\ MaxSplits \in Nat
        BY <1>1, ShapeNumbers, SplitPlanAssumption
      <4>2. n = Heuristic(Shape.units, LoweringSMs, Shape.blocks, MaxSplits)
        BY DEF Allocated
      <4> HIDE DEF n
      <4>3. QED BY <4>1, <4>2, HeuristicRange
    <3>2. room' = n /\ splits' = splits
      BY <2>1 DEF Lower
    <3> HIDE DEF n
    <3>3. QED BY <3>1, <3>2, <1>1
  <2>2. CASE Launch
    <3> DEFINE n == Launched(Shape, room)
    <3>1. n \in Nat /\ (n > 1 => n <= room)
      BY <1>1, LaunchedRange
    <3>2. splits' = n /\ room' = room
      BY <2>2 DEF Launch
    <3> HIDE DEF n
    <3>3. QED BY <3>1, <3>2, <1>1
  <2>3. QED BY <2>1, <2>2
<1>4. phase' = "split" => splits' > 1 /\ todo' = SplitBlocks(splits')
  BY DEF Lower, Launch
<1>5. phase' # "split" => todo' = {} /\ uncombined' = {}
  BY <1>1 DEF Lower, Launch
<1>6. uncombined' \in {{}, CombineBlocks}
  BY <1>1 DEF Lower, Launch
<1>7. SplitBlocks(splits)' = SplitBlocks(splits')
  BY <1>1 DEF SplitBlocks, QTiles
<1>8. PhaseInv'
  BY <1>1, <1>2, <1>3, <1>4, <1>5, <1>6, <1>7 DEF PhaseInv
<1>9. PartsInv'
  <2> SUFFICES ASSUME phase' = "split"
               PROVE  \A s \in 0 .. splits' - 1, h \in 0 .. Heads - 1, m \in 0 .. QTiles' - 1 :
                        <<s, h, m>> \in todo'
    BY DEF PartsInv
  <2>1. QTiles' = QTiles
    BY <1>1 DEF QTiles
  <2>2. QED BY <1>4, <2>1 DEF SplitBlocks
<1>10. LinesInv'
  BY <1>1 DEF LinesInv, Combined
<1>11. ValuesInv'
  BY <1>1 DEF ValuesInv, Sums
<1>12. QED BY <1>8, <1>9, <1>10, <1>11 DEF LineInv

LEMMA SplitBlockKeepsLines ==
  ASSUME HeadDim = DRounded, TilesDivide, LineInv, ValuesInv,
         NEW s, NEW h, NEW m, SplitBlock(s, h, m)
  PROVE  LineInv' /\ ValuesInv'
<1>1. /\ UNCHANGED <<call, phase, room, splits, uncombined, out, lse>>
      /\ <<s, h, m>> \in todo /\ todo' = todo \ {<<s, h, m>>}
      /\ WriteParts(s, h, m) /\ WriteLses(s, h, m) /\ phase = "split"
      /\ PhaseInv /\ PartsInv /\ LinesInv
  BY SplitBlockNumbers DEF LineInv
<1>2. /\ CombineBlocks' = CombineBlocks /\ SplitBlocks(splits)' = SplitBlocks(splits)
      /\ QTiles' = QTiles /\ Lines' = Lines /\ Width' = Width /\ Sums' = Sums
      /\ \A x : RowsOf(x)' = RowsOf(x)
  BY <1>1 DEF CombineBlocks, Lines, SplitBlocks, QTiles, Width, KTiles, Sums, RowsOf
<1>3. PhaseInv'
  BY <1>1, <1>2 DEF PhaseInv
<1>4. LinesInv'
  BY <1>1, <1>2 DEF LinesInv, Combined, LineOf
<1>5. PartsInv'
  <2>1. SUFFICES ASSUME NEW t \in 0 .. splits - 1, NEW g \in 0 .. Heads - 1,
                        NEW k \in 0 .. QTiles - 1, NEW row \in RowsOf(k),
                        <<t, g, k>> \notin todo'
                 PROVE  Written(t, LineOf(g, row), row)'
    BY <1>1, <1>2 DEF PartsInv
  <2>2. LineOf(g, row)' = LineOf(g, row) /\ Slab(t, row)' = Slab(t, row)
        /\ \A u : Cell(t, LineOf(g, row), u)' = Cell(t, LineOf(g, row), u)
    BY <1>1, <1>2 DEF LineOf, Slab, Cell
  <2>3. row \in 0 .. call.sq - 1 /\ \A x : row \in RowsOf(x) => x = k
    BY DEF RowsOf
  <2>4. CASE s = t /\ h = g /\ row \in RowsOf(m)
    <3>1. /\ t * Lines + LineOf(g, row) \in DOMAIN lseaccum'
          /\ lseaccum'[t * Lines + LineOf(g, row)] = LseOf(Slab(t, row), "-inf")
      BY <1>1, <2>4, WritesLses
    <3>2. \A u \in Unit :
            /\ Cell(t, LineOf(g, row), u) \in DOMAIN oaccum'
            /\ oaccum'[Cell(t, LineOf(g, row), u)] =
                 [line |-> LineOf(g, row), unit |-> u, sum |-> Slab(t, row)]
      BY <1>1, <2>4, WritesParts
    <3>3. QED BY <3>1, <3>2, <2>2, <1>2 DEF Written
  <2>5. CASE ~ (s = t /\ h = g /\ row \in RowsOf(m))
    <3>1. <<t, g, k>> # <<s, h, m>>
      BY <2>5
    <3>2. Written(t, LineOf(g, row), row)
      BY <1>1, <2>1, <3>1 DEF PartsInv
    <3>3. /\ t * Lines + LineOf(g, row) \in DOMAIN lseaccum'
          /\ lseaccum'[t * Lines + LineOf(g, row)] = LseOf(Slab(t, row), "-inf")
      BY <1>1, <2>3, <2>5, <3>2, LeavesLses DEF Written
    <3>4. \A u \in Unit :
            /\ Cell(t, LineOf(g, row), u) \in DOMAIN oaccum'
            /\ oaccum'[Cell(t, LineOf(g, row), u)] =
                 [line |-> LineOf(g, row), unit |-> u, sum |-> Slab(t, row)]
      BY <1>1, <2>3, <2>5, <3>2, LeavesParts DEF Written
    <3>5. QED BY <3>3, <3>4, <2>2, <1>2 DEF Written
  <2>6. QED BY <2>4, <2>5
<1>6. ValuesInv'
  <2>1. /\ call \in Calls /\ splits \in Nat \ {0} /\ s \in Nat /\ m \in Nat
    BY <1>1, SplitBlockPlace
  <2>2. \A row \in RowsOf(m) : Sum(m, s, row) \in Sums
    <3> TAKE row \in RowsOf(m)
    <3>1. Sum(m, s, row) = Slab(s, row)
      BY <2>1, SumIsSlab
    <3>2. QED BY <3>1 DEF Slab, Seen, Sums
  <2>3. ASSUME NEW a \in DOMAIN oaccum' PROVE oaccum'[a].sum \in Sums
    <3> DEFINE written == {WriteAddr(s, h, x.row, x.unit) : x \in Cells(s, h, m)}
    <3>1. oaccum' = [b \in DOMAIN oaccum \cup written |->
            IF b \notin written THEN oaccum[b]
            ELSE LET x == CellAt(s, h, m, b)
                 IN [line |-> LineOf(h, x.row), unit |-> x.unit, sum |-> Sum(m, s, x.row)]]
      BY <1>1 DEF WriteParts
    <3>2. ASSUME a \in written PROVE CellAt(s, h, m, a).row \in RowsOf(m)
      <4>1. \E x \in Cells(s, h, m) : WriteAddr(s, h, x.row, x.unit) = a
        BY <3>2
      <4>2. CellAt(s, h, m, a) \in Cells(s, h, m)
        BY <4>1 DEF CellAt
      <4>3. QED BY <4>2 DEF Cells
    <3> HIDE DEF written
    <3>3. CASE a \in written
      BY <2>2, <3>1, <3>2, <3>3
    <3>4. CASE a \notin written
      BY <3>1, <3>4 DEF ValuesInv
    <3>5. QED BY <3>3, <3>4
  <2>4. ASSUME NEW a \in DOMAIN lseaccum' PROVE lseaccum'[a] \in {"-inf", "finite"}
    <3> DEFINE written == {s * Lines + LineOf(h, r) : r \in RowsOf(m)}
    <3>1. lseaccum' = [b \in DOMAIN lseaccum \cup written |->
            IF b \in written THEN SumLse(m, s, (b % Lines) - h * call.sq) ELSE lseaccum[b]]
      BY <1>1 DEF WriteLses
    <3> HIDE DEF written
    <3>2. \A r : SumLse(m, s, r) \in {"-inf", "finite"}
      BY DEF SumLse, PartLse
    <3>3. QED BY <3>1, <3>2 DEF ValuesInv
  <2>5. QED BY <1>1, <1>2, <2>3, <2>4 DEF ValuesInv
<1>7. QED BY <1>3, <1>4, <1>5, <1>6 DEF LineInv

LEMMA CombineNumbers ==
  ASSUME LineInv, NEW b \in uncombined, Combine(b)
  PROVE  /\ UNCHANGED <<call, phase, room, splits, todo, oaccum, lseaccum>>
         /\ uncombined' = uncombined \ {b} /\ todo = {} /\ phase = "split"
         /\ call \in Calls /\ splits \in 2 .. 128
         /\ LET lines == b * CombineM .. (b + 1) * CombineM - 1 IN
            /\ out' = [l \in DOMAIN out \cup {l \in lines : l < Lines} |->
                         IF l \in lines THEN MergedLine(l) ELSE out[l]]
            /\ lse' = [l \in DOMAIN lse \cup lines |->
                         IF l \notin lines THEN lse[l]
                         ELSE IF Finite(l) = {} THEN "+inf" ELSE "finite"]
            /\ lines \subseteq Nat
<1>1. /\ UNCHANGED <<call, phase, room, splits, todo, oaccum, lseaccum>>
      /\ uncombined' = uncombined \ {b} /\ todo = {}
  BY DEF Combine
<1>2. phase = "split" /\ call \in Calls /\ splits \in 2 .. 128 /\ b \in CombineBlocks
  BY SplitPlanAssumption DEF LineInv, PhaseInv
<1>3. b * CombineM .. (b + 1) * CombineM - 1 \subseteq Nat
  <2>1. b \in Nat /\ CombineM \in Nat
    <3>1. CeilDiv(Lines, CombineM) \in Nat /\ CombineM \in Nat
      BY <1>2, CallNumbers, CeilDivLeast, SplitKVAssumption
    <3>2. QED BY <3>1, <1>2 DEF CombineBlocks
  <2>2. b * CombineM \in Nat
    BY <2>1
  <2>3. QED BY <2>2
<1>4. QED BY <1>1, <1>2, <1>3 DEF Combine

(* A combined line is what its row sees; a line combined twice would get   *)
(* the same.                                                               *)
LEMMA CombinesLines ==
  ASSUME HeadDim = DRounded, LineInv, NEW b \in uncombined, Combine(b),
         NEW h \in 0 .. Heads - 1, NEW row \in 0 .. call.sq - 1
  PROVE  LET line == LineOf(h, row) IN
         /\ line \in DOMAIN out' =>
              /\ line \in DOMAIN lse'
              /\ out'[line] = Seen(call, row)
              /\ lse'[line] = LseOf(Seen(call, row), "+inf")
         /\ line \in DOMAIN out => line \in DOMAIN out'
<1> DEFINE line == LineOf(h, row)
           lines == b * CombineM .. (b + 1) * CombineM - 1
<1>1. /\ out' = [l \in DOMAIN out \cup {l \in lines : l < Lines} |->
                   IF l \in lines THEN MergedLine(l) ELSE out[l]]
      /\ lse' = [l \in DOMAIN lse \cup lines |->
                   IF l \notin lines THEN lse[l]
                   ELSE IF Finite(l) = {} THEN "+inf" ELSE "finite"]
      /\ todo = {} /\ phase = "split" /\ call \in Calls /\ splits \in 2 .. 128
  BY CombineNumbers
<1>2. line \in Nat /\ line < Lines
  BY <1>1, LineRange
<1>3. \A s \in 0 .. splits - 1 : Written(s, line, row)
  <2>1. PICK m \in 0 .. QTiles - 1 : row \in RowsOf(m)
    <3> DEFINE M == kBlockM
               m == row \div M
               Q == QTiles
    <3>1. M \in Nat \ {0} /\ Q \in Nat /\ row \in Nat /\ row < call.sq /\ call.sq <= Q * M
          /\ call.sq \in Nat
      <4>1. call.sq \in Nat /\ M \in Nat \ {0} /\ row \in Nat /\ row < call.sq
        BY <1>1, CallNumbers
      <4>2. Q = CeilDiv(call.sq, M)
        BY DEF QTiles
      <4> HIDE DEF M, Q
      <4>3. CeilDiv(call.sq, M) \in Nat /\ call.sq <= CeilDiv(call.sq, M) * M
        BY <4>1, CeilDivLeast
      <4>4. QED BY <4>1, <4>2, <4>3
    <3> HIDE DEF M, Q
    <3>2. m \in Nat /\ m * M <= row
      BY <3>1
    <3> HIDE DEF m
    <3>3. m < Q
      <4>1. SUFFICES ASSUME Q <= m PROVE FALSE
        BY <3>1, <3>2
      <4>2. Q * M <= m * M /\ Q * M \in Int /\ m * M \in Int
        BY <4>1, <3>1, <3>2, Grows
      <4>3. QED BY <4>2, <3>1, <3>2
    <3>4. row \in RowsOf(m)
      BY DEF RowsOf, m, M
    <3>5. QED BY <3>1, <3>2, <3>3, <3>4 DEF Q
  <2>2. QED BY <1>1, <2>1 DEF LineInv, PartsInv
<1>4. MergedLine(line) = Seen(call, row) /\ (Finite(line) = {} <=> Seen(call, row) = {})
  BY <1>1, <1>3, MergesSlabs
<1>5. Combined(line, row)
  BY DEF LineInv, LinesInv
<1> HIDE DEF line, lines
<1>6. /\ line \in DOMAIN out' =>
           /\ line \in DOMAIN lse'
           /\ out'[line] = Seen(call, row)
           /\ lse'[line] = LseOf(Seen(call, row), "+inf")
      /\ line \in DOMAIN out => line \in DOMAIN out'
  <2>1. CASE line \in lines
    BY <1>1, <1>2, <1>4, <2>1 DEF LseOf
  <2>2. CASE line \notin lines
    BY <1>1, <1>5, <2>2 DEF Combined
  <2>3. QED BY <2>1, <2>2
<1>7. QED BY <1>6 DEF line

LEMMA PartsStill ==
  ASSUME PartsInv, UNCHANGED <<call, phase, splits, todo, oaccum, lseaccum>>
  PROVE  PartsInv'
<1>1. /\ QTiles' = QTiles /\ Lines' = Lines /\ Width' = Width
      /\ \A x : RowsOf(x)' = RowsOf(x)
  BY DEF Lines, QTiles, Width, KTiles, RowsOf
<1>2. SUFFICES ASSUME phase = "split", NEW s \in 0 .. splits - 1, NEW h \in 0 .. Heads - 1,
                      NEW m \in 0 .. QTiles - 1, NEW row \in RowsOf(m), <<s, h, m>> \notin todo
               PROVE  Written(s, LineOf(h, row), row)'
  BY <1>1 DEF PartsInv
<1>3. Written(s, LineOf(h, row), row)
  BY <1>2 DEF PartsInv
<1>4. LineOf(h, row)' = LineOf(h, row) /\ Slab(s, row)' = Slab(s, row)
      /\ \A u : Cell(s, LineOf(h, row), u)' = Cell(s, LineOf(h, row), u)
  BY <1>1 DEF LineOf, Slab, Cell
<1>5. QED BY <1>1, <1>3, <1>4 DEF Written

LEMMA CombineKeepsLines ==
  ASSUME HeadDim = DRounded, LineInv, ValuesInv, NEW b \in uncombined, Combine(b)
  PROVE  LineInv' /\ ValuesInv'
<1> DEFINE lines == b * CombineM .. (b + 1) * CombineM - 1
<1>1. /\ UNCHANGED <<call, phase, room, splits, todo, oaccum, lseaccum>>
      /\ uncombined' = uncombined \ {b} /\ phase = "split"
      /\ out' = [l \in DOMAIN out \cup {l \in lines : l < Lines} |->
                   IF l \in lines THEN MergedLine(l) ELSE out[l]]
      /\ lse' = [l \in DOMAIN lse \cup lines |->
                   IF l \notin lines THEN lse[l]
                   ELSE IF Finite(l) = {} THEN "+inf" ELSE "finite"]
      /\ lines \subseteq Nat
      /\ PhaseInv /\ PartsInv /\ LinesInv /\ call \in Calls
  BY CombineNumbers DEF LineInv
<1>2. /\ CombineBlocks' = CombineBlocks /\ SplitBlocks(splits)' = SplitBlocks(splits)
      /\ QTiles' = QTiles /\ Lines' = Lines /\ Width' = Width /\ Sums' = Sums
      /\ \A x : RowsOf(x)' = RowsOf(x)
  BY <1>1 DEF CombineBlocks, Lines, SplitBlocks, QTiles, Width, KTiles, Sums, RowsOf
<1> HIDE DEF lines
<1>3. PhaseInv'
  BY <1>1, <1>2 DEF PhaseInv
<1>4. PartsInv'
  BY <1>1, PartsStill
<1>5. LinesInv'
  <2>1. DOMAIN out' \subseteq 0 .. Lines - 1
    <3>1. Lines \in Nat /\ DOMAIN out \subseteq 0 .. Lines - 1
      BY <1>1, CallNumbers DEF LinesInv
    <3>2. DOMAIN out' = DOMAIN out \cup {l \in lines : l < Lines}
      BY <1>1
    <3>3. {l \in lines : l < Lines} \subseteq 0 .. Lines - 1
      <4>1. lines \subseteq Nat
        BY <1>1
      <4>2. \A l \in Nat : l < Lines => l \in 0 .. Lines - 1
        BY <3>1
      <4>3. QED BY <4>1, <4>2
    <3>4. QED BY <3>1, <3>2, <3>3
  <2>2. ASSUME NEW h \in 0 .. Heads - 1, NEW row \in 0 .. call.sq - 1
        PROVE  Combined(LineOf(h, row), row)'
    <3>1. LineOf(h, row)' = LineOf(h, row) /\ call' = call
      BY <1>1 DEF LineOf
    <3>2. QED BY <3>1, CombinesLines DEF Combined
  <2>3. QED BY <2>1, <2>2, <1>1, <1>2 DEF LinesInv
<1>6. ValuesInv'
  BY <1>1, <1>2 DEF ValuesInv
<1>7. QED BY <1>3, <1>4, <1>5, <1>6 DEF LineInv

LEMMA NextLines ==
  ASSUME HeadDim = DRounded, TilesDivide
  PROVE  LineInv /\ ValuesInv /\ [Next]_vars => LineInv' /\ ValuesInv'
<1> SUFFICES ASSUME LineInv, ValuesInv, [Next]_vars PROVE LineInv' /\ ValuesInv'
  OBVIOUS
<1>1. CASE Lower \/ Launch
  BY <1>1, ChoicesKeepLines
<1>2. CASE \E x \in todo : SplitBlock(x[1], x[2], x[3])
  BY <1>2, SplitBlockKeepsLines
<1>3. CASE \E b \in uncombined : Combine(b)
  BY <1>3, CombineKeepsLines
<1>4. CASE UNCHANGED vars
  <2>1. UNCHANGED <<call, phase, room, splits, todo, uncombined, oaccum, lseaccum, out, lse>>
    BY <1>4 DEF vars
  <2>2. /\ CombineBlocks' = CombineBlocks /\ SplitBlocks(splits)' = SplitBlocks(splits)
        /\ QTiles' = QTiles /\ Lines' = Lines /\ Width' = Width /\ Sums' = Sums
        /\ \A x : RowsOf(x)' = RowsOf(x)
    BY <2>1 DEF CombineBlocks, Lines, SplitBlocks, QTiles, Width, KTiles, Sums, RowsOf
  <2>3. PhaseInv'
    BY <2>1, <2>2 DEF LineInv, PhaseInv
  <2>4. PartsInv'
    BY <2>1, PartsStill DEF LineInv
  <2>5. LinesInv'
    BY <2>1, <2>2 DEF LineInv, LinesInv, Combined, LineOf
  <2>6. ValuesInv'
    BY <2>1, <2>2 DEF ValuesInv
  <2>7. QED BY <2>3, <2>4, <2>5, <2>6 DEF LineInv
<1>5. QED BY <1>1, <1>2, <1>3, <1>4 DEF Next

(* Whatever the order of blocks, a block that has run has written the      *)
(* slabs of its rows, and a combined line is what its row sees.            *)
THEOREM LineInvariant ==
  ASSUME HeadDim = DRounded, TilesDivide
  PROVE  Spec => [](LineInv /\ ValuesInv)
<1> QED BY InitLines, NextLines, PTL DEF Spec

(* The variables keep their types: no part and no line is a sum of what    *)
(* was never written.                                                      *)
THEOREM TypeCorrect ==
  ASSUME HeadDim = DRounded, TilesDivide
  PROVE  Spec => []TypeOK
<1>1. LineInv /\ ValuesInv => TypeOK
  BY DEF LineInv, ValuesInv, PhaseInv, LinesInv, TypeOK
<1>2. QED BY <1>1, LineInvariant, PTL

-----------------------------------------------------------------------------
(* The window of every call is kept by the host.                           *)
WindowsKept == \A c \in Calls : KeepsWindow(c)

(* The call at query tile m: its mask and lengths are those of the call.   *)
At(m) == [call EXCEPT !.m_block = m]
LEMMA AtTile ==
  ASSUME call \in Calls, NEW m
  PROVE  /\ At(m).m_block = m /\ At(m).sq = call.sq /\ At(m).sk = call.sk
         /\ At(m).causal = call.causal /\ At(m).wl = call.wl /\ At(m).wr = call.wr
BY SplitKVAssumption DEF At

THEOREM SplitsImplementAttention ==
  ASSUME HeadDim = DRounded, TilesDivide, WindowsKept
  PROVE  Spec => ImplementsAttention
<1>1. Init => \A h \in 0 .. Heads - 1 : \A m \in 0 .. QTiles - 1 : AR(h, m)!Init
  <2> SUFFICES ASSUME Init, NEW h \in 0 .. Heads - 1, NEW m \in 0 .. QTiles - 1
               PROVE  AR(h, m)!Init
    OBVIOUS
  <2>1. DOMAIN out = {} /\ call \in Calls
    BY DEF Init
  <2>2. TileOut(h, m) = [r \in 0 .. kBlockM - 1 |-> [cols |-> {}, lse |-> "none"]]
    BY <2>1 DEF TileOut
  <2>3. QED BY <2>1, <2>2 DEF AR!Init, AR!Unwritten
<1>2. LineInv /\ ValuesInv /\ [Next]_vars
        => [\A h \in 0 .. Heads - 1 : \A m \in 0 .. QTiles - 1 : AR(h, m)!Next]_vars
  <2> SUFFICES ASSUME LineInv, [Next]_vars,
                      NEW h \in 0 .. Heads - 1, NEW m \in 0 .. QTiles - 1
               PROVE  AR(h, m)!Next \/ UNCHANGED vars
    OBVIOUS
  <2>1. call' = call /\ call \in Calls /\ PhaseInv /\ LinesInv
    BY DEF Next, Lower, Launch, SplitBlock, Combine, vars, LineInv, PhaseInv
  <2>2. m \in Nat /\ kBlockM \in Nat \ {0} /\ call.sq \in Nat
    BY <2>1, CallNumbers
  <2>3. ASSUME NEW r \in 0 .. kBlockM - 1 PROVE AR(h, m)!Write(r) \/ TileOut(h, m)'[r] = TileOut(h, m)[r]
    <3> DEFINE row == m * kBlockM + r
               line == LineOf(h, row)
               cols == Seen(call, row)
               result == [cols |-> cols, lse |-> LseOf(cols, "+inf")]
    <3>1. row \in Nat /\ LineOf(h, row)' = LineOf(h, row)
      BY <2>1, <2>2 DEF LineOf
    <3>2. TileOut(h, m)[r] = IF row < call.sq /\ line \in DOMAIN out
                             THEN [cols |-> out[line], lse |-> lse[line]]
                             ELSE [cols |-> {}, lse |-> "none"]
      BY DEF TileOut
    <3>3. TileOut(h, m)'[r] = IF row < call.sq /\ line \in DOMAIN out'
                              THEN [cols |-> out'[line], lse |-> lse'[line]]
                              ELSE [cols |-> {}, lse |-> "none"]
      BY <2>1, <3>1 DEF TileOut
    <3>4. CASE ~ row < call.sq
      BY <3>2, <3>3, <3>4
    <3>5. CASE row < call.sq
      <4>1. row \in 0 .. call.sq - 1
        BY <3>1, <3>5, <2>2
      <4>2. Combined(line, row)
        BY <2>1, <4>1 DEF LinesInv
      <4>3. /\ line \in DOMAIN out' =>
                 /\ out'[line] = cols /\ lse'[line] = LseOf(cols, "+inf")
            /\ line \in DOMAIN out => line \in DOMAIN out'
        <5>1. CASE \E b \in uncombined : Combine(b)
          BY <5>1, <4>1, CombinesLines
        <5>2. CASE ~ \E b \in uncombined : Combine(b)
          <6>1. out' = out /\ lse' = lse
            BY <5>2 DEF Next, Lower, Launch, SplitBlock, vars
          <6>2. QED BY <6>1, <4>2 DEF Combined
        <5>3. QED BY <5>1, <5>2
      <4>4. AR(h, m)!Result(AR(h, m)!Wanted(At(m), r)) = result
        <5>1. \A col \in 0 .. call.sk - 1 : Attends(call, row, col) <=> col \in cols
          BY <2>1, <4>1, HostKeepsMask DEF WindowsKept
        <5>2. cols \subseteq 0 .. call.sk - 1
          BY DEF Seen
        <5>3. QED BY <2>1, <5>1, <5>2, AtTile
                  DEF AR!Result, AR!Wanted, AR!RowOf, LseOf, AR!Attends, Attends
      <4>5. r \in AR(h, m)!RowsIn(At(m))
        BY <2>1, <3>5, AtTile DEF AR!RowsIn, AR!RowOf
      <4> HIDE DEF line, row, cols
      <4>6. CASE line \in DOMAIN out \/ line \notin DOMAIN out'
        BY <3>2, <3>3, <4>2, <4>3, <4>6 DEF Combined, cols
      <4>7. CASE line \notin DOMAIN out /\ line \in DOMAIN out'
        <5>1. TileOut(h, m)[r] = AR(h, m)!Unwritten
          BY <3>2, <4>7 DEF AR!Unwritten
        <5>2. TileOut(h, m)'[r] = AR(h, m)!Result(AR(h, m)!Wanted(At(m), r))
          BY <3>3, <3>5, <4>3, <4>4, <4>7
        <5>3. QED BY <4>5, <5>1, <5>2 DEF AR!Write, At
      <4>8. QED BY <4>6, <4>7
    <3>6. QED BY <3>4, <3>5
  <2>4. DOMAIN TileOut(h, m) = 0 .. kBlockM - 1 /\ DOMAIN TileOut(h, m)' = 0 .. kBlockM - 1
    BY DEF TileOut
  <2>5. QED BY <2>1, <2>3, <2>4 DEF AR!Next
<1>3. QED BY <1>1, <1>2, LineInvariant, PTL DEF Spec, ImplementsAttention

(* The combined rows are the attention of the mask of the tests, where the *)
(* head dimension is not padded.                                           *)
THEOREM CombinedLinesCorrect ==
  ASSUME HeadDim = DRounded, TilesDivide, WindowsKept
  PROVE  Spec => []LinesCorrect
<1>1. LineInv => LinesCorrect
  <2> SUFFICES ASSUME LineInv, NEW l \in DOMAIN out
               PROVE  out[l] = {col \in 0 .. call.sk - 1 : Attends(call, l % call.sq, col)}
    BY DEF LinesCorrect
  <2>1. call \in Calls /\ l \in 0 .. Lines - 1 /\ call.sq \in Nat \ {0}
    BY CallNumbers DEF LineInv, PhaseInv, LinesInv
  <2>2. PICK h \in 0 .. Heads - 1, row \in 0 .. call.sq - 1 : l = LineOf(h, row)
    BY <2>1, EveryLine
  <2>3. out[l] = Seen(call, row)
    BY <2>2 DEF LineInv, LinesInv, Combined
  <2>4. l % call.sq = row
    <3>1. l \in Nat /\ l = h * call.sq + row /\ h \in Nat
      <4>1. Lines \in Nat
        BY <2>1, CallNumbers
      <4>2. QED BY <2>1, <2>2, <4>1 DEF LineOf
    <3>2. QED BY <2>1, <2>2, <3>1, Remainder
  <2>5. \A col \in 0 .. call.sk - 1 : Attends(call, row, col) <=> col \in Seen(call, row)
    BY <2>1, HostKeepsMask DEF WindowsKept
  <2>6. Seen(call, row) \subseteq 0 .. call.sk - 1
    BY DEF Seen
  <2>7. QED BY <2>3, <2>4, <2>5, <2>6
<1>2. QED BY <1>1, LineInvariant, PTL
=============================================================================
