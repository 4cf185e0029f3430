------------------------------ MODULE FlashBwd ------------------------------
(***************************************************************************)
(* One backward call, batched or varlen: the buffer dq_accum is zeroed; a  *)
(* kernel computes dP_sum and zeroes dq_accum again where it is going to   *)
(* be added to; the thread blocks of all key tiles add their shares of dq, *)
(* concurrently; a last kernel converts dq_accum to dq, and the caller     *)
(* sums dk and dv over the query heads of a group.  Each follows the one   *)
(* before on one stream.                                                   *)
(*                                                                         *)
(* The scratch arrays are addressed as in the code, head dimensions in     *)
(* units of 32.  A thread block adds one tile of rows in a step: what      *)
(* happens inside, and under masks, is the subject of FlashBwdColumn.      *)
(***************************************************************************)
EXTENDS Integers

CONSTANTS
  kBlockM,        \* rows of a query tile
  Rounding,       \* 128: lengths of scratch arrays are rounded to it
  HQ, HK,         \* heads of the queries, of the keys
  DRounded,       \* d_rounded / 32
  HeadDim,        \* kHeadDim / 32
  Calls           \* the calls considered

ASSUME FlashBwdAssumption ==
  /\ kBlockM \in Nat \ {0} /\ Rounding \in Nat /\ kBlockM <= Rounding
  /\ Rounding % kBlockM = 0
  /\ HK \in Nat \ {0} /\ HQ \in Nat /\ HQ % HK = 0
  /\ DRounded \in Nat \ {0} /\ HeadDim \in Nat /\ DRounded <= HeadDim
  /\ \A c \in Calls :
       /\ c.varlen \in BOOLEAN /\ c.b \in Nat \ {0}         \* sequences
       /\ c.max_q \in Nat \ {0}                            \* the longest
       /\ c.tiles \in [0 .. c.b - 1 -> Nat]                \* key tiles of each
       /\ c.cu \in [0 .. c.b -> Nat]                       \* cu_seqlens_q
       /\ \A i, j \in 0 .. c.b : i <= j => c.cu[i] <= c.cu[j]
       /\ \A i \in 0 .. c.b - 1 : c.cu[i + 1] - c.cu[i] <= c.max_q

VARIABLES
  call,      \* the call; it never changes
  stage,     \* what the stream executes
  todo,      \* its thread blocks not yet executed
  dq_accum,  \* memory of dq_accum and behind: the shares summed at an address
  dsoftmax,  \* the row whose dP_sum an address holds
  dq,        \* what was written to dq
  dk         \* the products summed in dk, and dv, for each head and key tile

vars == <<call, stage, todo, dq_accum, dsoftmax, dq, dk>>

Zero      == <<0>>
Junk      == {<<-1>>}            \* never initialised
Foreign   == {<<-2>>}            \* the buffer behind dq_accum
Unwritten == {<<-3>>}

-----------------------------------------------------------------------------
Batch == 0 .. call.b - 1
SeqlenQ(b) == IF call.varlen THEN call.cu[b + 1] - call.cu[b] ELSE call.max_q
TotalQ     == call.cu[call.b]
Rounded    == ((call.max_q + Rounding - 1) \div Rounding) * Rounding
Blocks(x)  == (x + kBlockM - 1) \div kBlockM

(* dq_accum: rows of the batch, of all heads, of d_rounded floats.  In a   *)
(* varlen call the sequences lie 128 rows apart.                           *)
AccumRowsTight ==                \* no room behind the last sequence
  IF call.varlen THEN TotalQ ELSE call.b * Rounded
AccumRows ==
  IF call.varlen THEN TotalQ + Rounding * call.b ELSE call.b * Rounded
AccumSize == AccumRows * HQ * DRounded

FirstRow(b) == IF call.varlen THEN call.cu[b] + Rounding * b ELSE b * Rounded
AccumAddr(b, h, row, col) == ((FirstRow(b) + row) * HQ + h) * DRounded + col

(* softmax_d: one float for each row.                                      *)
DsoftmaxUnpadded(b, h, row) == (b * HQ + h) * call.max_q + row
DsoftmaxAddr(b, h, row) == (b * HQ + h) * Rounded + row

RowsOf(m)    == m * kBlockM .. (m + 1) * kBlockM - 1
MTiles       == 0 .. Blocks(call.max_q) - 1
MBlocks      == Batch \X (0 .. HQ - 1) \X MTiles            \* grid_m
HeadOf(h)    == h \div (HQ \div HK)                         \* the head of the keys
Cells        == UNION {{b} \X (0 .. HQ - 1) \X (0 .. SeqlenQ(b) - 1) \X (0 .. DRounded - 1) :
                         b \in Batch}
KeyTiles(b)  == 0 .. call.tiles[b] - 1

(* A column block, with the query tile it is at: from the last down.       *)
ColumnBlocks ==
  UNION {{b} \X (0 .. HQ - 1) \X KeyTiles(b) \X {Blocks(SeqlenQ(b)) - 1} : b \in Batch}

-----------------------------------------------------------------------------
Init ==
  /\ call \in Calls
  /\ stage = "memset"
  /\ todo = {}
  /\ dq_accum = [a \in 0 .. AccumSize + kBlockM * HQ * HeadDim |->
                   IF a < AccumSize THEN Junk ELSE Foreign]
  /\ dsoftmax = [a \in 0 .. call.b * HQ * Rounded - 1 |-> <<-1>>]
  /\ dq = [c \in Cells |-> Unwritten]
  /\ dk = [c \in UNION {{b} \X (0 .. HQ - 1) \X KeyTiles(b) : b \in Batch} |-> {}]

(* cudaMemsetAsync; the first kernel follows it.                           *)
Memset ==
  /\ stage = "memset"
  /\ dq_accum' = [a \in DOMAIN dq_accum |-> IF a < AccumSize THEN {} ELSE dq_accum[a]]
  /\ stage' = "dot_do_o" /\ todo' = MBlocks
  /\ UNCHANGED <<call, dsoftmax, dq, dk>>

(* flash_bwd_dot_do_o_kernel: dP_sum of all rows of a tile, those past the *)
(* end included (their dO is cleared, the sum is 0), and zeros in a tile   *)
(* of dq_accum as wide as the kernel's head dimension.                     *)
DotDoO(x) ==
  LET b == x[1]  h == x[2]  m == x[3]
      row(a) == CHOOSE r \in RowsOf(m) : DsoftmaxAddr(b, h, r) = a
  IN
  /\ stage = "dot_do_o" /\ x \in todo
  /\ todo' = todo \ {x}
  /\ IF m * kBlockM >= SeqlenQ(b) THEN UNCHANGED <<dsoftmax, dq_accum>>
     ELSE /\ dsoftmax' = [a \in DOMAIN dsoftmax |->
               IF \E r \in RowsOf(m) : DsoftmaxAddr(b, h, r) = a
               THEN IF row(a) < SeqlenQ(b) THEN <<b, h, row(a)>> ELSE Zero
               ELSE dsoftmax[a]]
          /\ dq_accum' = [a \in DOMAIN dq_accum |->
               IF \E r \in RowsOf(m), c \in 0 .. HeadDim - 1 : AccumAddr(b, h, r, c) = a
               THEN {} ELSE dq_accum[a]]
  /\ UNCHANGED <<call, stage, dq, dk>>

(* compute_dq_dk_dv_1colblock at one query tile: the rows' dP_sum, those   *)
(* past the end included, go into dk; the share of dq is added             *)
(* atomically, zeros in the columns that pad the head dimension.           *)
StatsRight(b, h, m) ==
  \A r \in RowsOf(m) :
    dsoftmax[DsoftmaxAddr(b, h, r)] = IF r < SeqlenQ(b) THEN <<b, h, r>> ELSE Zero

ShareUncleared(b, h, n, row, c) ==       \* K's padding columns are not cleared
  IF row >= SeqlenQ(b) THEN {} ELSE {<<b, h, row, c, n>>}
Share(b, h, n, row, c) ==
  IF row >= SeqlenQ(b) \/ c >= DRounded THEN {}
  ELSE IF StatsRight(b, h, row \div kBlockM) THEN {<<b, h, row, c, n>>} ELSE Junk

Store(old, new) == new                    \* copies to dq_accum
Add(old, new)   == IF old \cap new = {} THEN old \cup new ELSE Junk

Column(x) ==
  LET b == x[1]  h == x[2]  n == x[3]  m == x[4] IN
  /\ stage = "columns" /\ x \in todo
  /\ IF m < 0 THEN /\ todo' = todo \ {x}            \* no query at all
                   /\ UNCHANGED <<dq_accum, dk>>
     ELSE /\ todo' = (todo \ {x}) \cup {<<b, h, n, i>> : i \in {m - 1} \cap Nat}
          /\ dk' = [dk EXCEPT ![<<b, h, n>>] =
                      @ \cup IF StatsRight(b, h, m) THEN {<<h, HeadOf(h), m>>} ELSE Junk]
          /\ dq_accum' = [a \in DOMAIN dq_accum |->
               LET hit == {rc \in RowsOf(m) \X (0 .. HeadDim - 1) :
                             AccumAddr(b, h, rc[1], rc[2]) = a}
               IN IF hit = {} THEN dq_accum[a]
                  ELSE Add(dq_accum[a], UNION {Share(b, h, n, rc[1], rc[2]) : rc \in hit})]
  /\ UNCHANGED <<call, stage, dsoftmax, dq>>

(* flash_bwd_convert_dq_kernel.                                            *)
ConvertDQ(x) ==
  LET b == x[1]  h == x[2]  m == x[3] IN
  /\ stage = "convert_dQ" /\ x \in todo
  /\ todo' = todo \ {x}
  /\ dq' = [c \in DOMAIN dq |->
       IF c[1] = b /\ c[2] = h /\ c[3] \in RowsOf(m)
       THEN dq_accum[AccumAddr(b, h, c[3], c[4])] ELSE dq[c]]
  /\ UNCHANGED <<call, stage, dq_accum, dsoftmax, dk>>

(* A kernel starts when the one before has executed all its blocks.        *)
Follow(from, to, blocks) ==
  /\ stage = from /\ todo = {}
  /\ stage' = to /\ todo' = blocks
  /\ UNCHANGED <<call, dq_accum, dsoftmax, dq, dk>>

Launch ==
  \/ Follow("dot_do_o", "columns", ColumnBlocks)
  \/ Follow("columns", "convert_dQ", MBlocks)
  \/ Follow("convert_dQ", "reduce", {})

(* The lowering sums dk, and dv, over groups of query heads: '(h m)'.      *)
GroupInterleaved(kh) == {h \in 0 .. HQ - 1 : h % HK = kh}          \* '(m h)'
Group(kh) == {kh * (HQ \div HK) + j : j \in 0 .. HQ \div HK - 1}

Reduce ==
  /\ stage = "reduce"
  /\ dk' = [c \in UNION {{b} \X (0 .. HK - 1) \X KeyTiles(b) : b \in Batch} |->
              UNION {dk[<<c[1], h, c[3]>>] : h \in Group(c[2])}]
  /\ stage' = "done"
  /\ UNCHANGED <<call, todo, dq_accum, dsoftmax, dq>>

Done == stage = "done" /\ UNCHANGED vars

Next ==
  \/ Memset \/ Launch \/ Reduce \/ Done
  \/ \E x \in todo : DotDoO(x) \/ Column(x) \/ ConvertDQ(x)

Spec == Init /\ [][Next]_vars

-----------------------------------------------------------------------------
(* Types of the variables.  No product uses a dP_sum that is not its rows' *)
(* own, and no gradient holds junk.                                        *)
TypeOK ==
  /\ call \in Calls
  /\ stage \in {"memset", "dot_do_o", "columns", "convert_dQ", "reduce", "done"}
  /\ \A x \in todo : x[1] \in Batch /\ x[2] \in 0 .. HQ - 1
  /\ \A c \in DOMAIN dk : Junk \cap dk[c] = {}
  /\ \A c \in DOMAIN dq : Junk \cap dq[c] = {}
  /\ \A a \in DOMAIN dsoftmax :
       dsoftmax[a] \in {<<-1>>, Zero} \cup (Batch \X (0 .. HQ - 1) \X (0 .. call.max_q - 1))

(* No kernel writes behind dq_accum.  The zeros that a tile's padding adds *)
(* there change nothing; the zeros dot_do_o stores there would.            *)
AccumInBounds == \A a \in DOMAIN dq_accum : a >= AccumSize => dq_accum[a] = Foreign

(* Every row of dq is converted with the share of each key tile of its     *)
(* sequence, once, and nothing of another row, head or sequence: although  *)
(* tiles of dq_accum overlap in the rows and columns that pad them.        *)
QueryGradientsExact ==
  \A c \in DOMAIN dq :
    \/ dq[c] = Unwritten /\ stage # "reduce" /\ stage # "done"
    \/ dq[c] = {<<c[1], c[2], c[3], c[4], n>> : n \in KeyTiles(c[1])}

(* In the end dk of a head of the keys sums the products of exactly the    *)
(* query heads that read this head, with all tiles of queries.             *)
KeyGradientsExact ==
  stage = "done" =>
    \A c \in DOMAIN dk :
      dk[c] = {<<h, c[2], m>> : h \in {g \in 0 .. HQ - 1 : HeadOf(g) = c[2]},
                                m \in 0 .. Blocks(SeqlenQ(c[1])) - 1}
=============================================================================
