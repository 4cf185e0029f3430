--------------------------- MODULE FlashFwdKernel ---------------------------
(***************************************************************************)
(* compute_attn_1rowblock of flash_fwd_kernel.h: one thread block computes *)
(* one tile of query rows.  Its warps walk the key tiles from the last to  *)
(* the first, first those that need masking, then the others.  K, V and Q  *)
(* reach shared memory by asynchronous copies; a warp waits for its own    *)
(* copies (cp_async_wait<0>) and then for the other warps (__syncthreads), *)
(* multiplies by what is in shared memory and lets the next copy overwrite *)
(* it.                                                                     *)
(*                                                                         *)
(* Every warp copies one slice of every tile and owns kBlockM / NWarps of  *)
(* the query rows.  A slice being overwritten is Torn until its copy lands.*)
(* Numbers are abstracted to the key columns summed in a row and to the    *)
(* class of its running maximum.                                           *)
(***************************************************************************)
EXTENDS FlashMask

CONSTANTS NWarps,    \* kNWarps
          Calls      \* the calls considered, each with a query tile m_block

ASSUME FlashFwdKernelAssumption ==
  /\ NWarps \in Nat \ {0}
  /\ kBlockM % NWarps = 0
  /\ \A c \in Calls : /\ c.sq \in Nat /\ c.sk \in Nat /\ c.max_sk \in Nat
                      /\ c.wl \in Int /\ c.wr \in Int /\ c.m_block \in Nat
                      /\ c.varlen \/ c.sk > 0       \* mha_fwd_impl refuses sk = 0

Warp   == 0 .. NWarps - 1
Row    == 0 .. kBlockM - 1      \* a row of the query tile
Column == 0 .. kBlockN - 1      \* a column of a key tile

RowOf(c, r) == c.m_block * kBlockM + r
Owner(r)    == r \div (kBlockM \div NWarps)
SliceOf(j)  == j % NWarps       \* the slice with row j of a K or V tile

(* What a copy does with the rows past the end of the keys: reads them     *)
(* ("all"), leaves shared memory as it was ("bound") or clears it ("zero").*)
Mode  == {"all", "bound", "zero"}
Torn  == [tile |-> -1, mode |-> "bound"]
Garbage == -1                   \* a product with something else than its tile

VARIABLES
  call,      \* the parameters of the launch; never changes
  pc,        \* where each warp is
  n_block,   \* the key tile each warp works on
  step,      \* masking_step; NMaskingSteps in the second loop
  copying,   \* asynchronous copies of each warp that have not landed
  sQ, sK, sV,   \* slices of the tiles in shared memory
  scores,    \* the columns for which acc_s holds Q K^T
  summed,    \* the columns summed in each row of acc_o and row_sum
  rowmax,    \* class of row_max; "nan" once a NaN has entered the row
  out        \* what was written to gO and gLSE

vars == <<call, pc, n_block, step, copying, sQ, sK, sV, scores, summed, rowmax, out>>
regs == <<n_block, step, scores, summed, rowmax>>

Unwritten == [cols |-> {}, lse |-> "none"]

-----------------------------------------------------------------------------
nMin  == NBlockMin(call, call.m_block)
nMax  == NBlockMax(call, call.m_block)
steps == NMaskingSteps(call)
Masking(w) == step[w] < steps

KVModeUncleared(first, clear) ==      \* V is not cleared either
  IF ~ first \/ IsEvenMN(call) THEN "all" ELSE "bound"

KVModeCausalOnly(first, clear) ==          \* predicated for causal calls only
  IF ~ first \/ ~ IsCausal(call) THEN "all" ELSE IF clear THEN "zero" ELSE "bound"

KVMode(first, clear) ==
  IF ~ first \/ IsEvenMN(call) THEN "all" ELSE IF clear THEN "zero" ELSE "bound"

Copy(buf, tile, mode) == [buf |-> buf, tile |-> tile, mode |-> mode]

Init ==
  /\ call \in Calls
  /\ pc = [w \in Warp |-> "start"]
  /\ n_block = [w \in Warp |-> 0]
  /\ step = [w \in Warp |-> 0]
  /\ copying = [w \in Warp |-> {}]
  /\ sQ = [w \in Warp |-> "torn"]
  /\ sK = [w \in Warp |-> Torn]
  /\ sV = [w \in Warp |-> Torn]
  /\ scores = [w \in Warp |-> {}]
  /\ summed = [r \in Row |-> {}]
  /\ rowmax = [r \in Row |-> "-inf"]
  /\ out = [r \in Row |-> Unwritten]

-----------------------------------------------------------------------------
(* The query tile lies past the end of the sequence.                       *)
NoRows(w) ==
  /\ pc[w] = "start"
  /\ call.m_block * kBlockM >= call.sq
  /\ pc' = [pc EXCEPT ![w] = "done"]
  /\ UNCHANGED <<call, copying, sQ, sK, sV, regs, out>>

(* No key tile to visit: the rows are written as zeros, lse as +inf.       *)
Exit(w) ==
  /\ pc[w] = "start"
  /\ call.m_block * kBlockM < call.sq
  /\ EarlyExit(call, call.m_block)
  /\ out' = [r \in Row |-> IF Owner(r) = w /\ RowOf(call, r) < call.sq
                           THEN [cols |-> {}, lse |-> "+inf"] ELSE out[r]]
  /\ pc' = [pc EXCEPT ![w] = "done"]
  /\ UNCHANGED <<call, copying, sQ, sK, sV, regs>>

(* The copies of Q and of the last K tile are issued.                      *)
Prologue(w) ==
  /\ pc[w] = "start"
  /\ call.m_block * kBlockM < call.sq
  /\ ~ EarlyExit(call, call.m_block)
  /\ n_block' = [n_block EXCEPT ![w] = nMax - 1]
  /\ copying' = [copying EXCEPT ![w] = {Copy("Q", call.m_block, "bound"),
                                        Copy("K", nMax - 1, KVMode(TRUE, FALSE))}]
  /\ pc' = [pc EXCEPT ![w] = "top"]
  /\ UNCHANGED <<call, step, sQ, sK, sV, scores, summed, rowmax, out>>

(* A copy lands, at any time after it was issued.                          *)
Land(w, x) ==
  /\ x \in copying[w]
  /\ copying' = [copying EXCEPT ![w] = @ \ {x}]
  /\ sQ' = IF x.buf = "Q" THEN [sQ EXCEPT ![w] = "Q"] ELSE sQ
  /\ sK' = IF x.buf = "K" THEN [sK EXCEPT ![w] = [tile |-> x.tile, mode |-> x.mode]] ELSE sK
  /\ sV' = IF x.buf = "V" THEN [sV EXCEPT ![w] = [tile |-> x.tile, mode |-> x.mode]] ELSE sV
  /\ UNCHANGED <<call, pc, regs, out>>

-----------------------------------------------------------------------------
(* cp_async_wait<0>, then arrival at a barrier.                            *)
ArriveUnwaited(w) ==          \* the second wait is missing
  /\ pc[w] \in {"top", "scored"}
  /\ pc[w] = "top" => copying[w] = {}
  /\ pc' = [pc EXCEPT ![w] = IF pc[w] = "top" THEN "sync1" ELSE "sync2"]
  /\ UNCHANGED <<call, copying, sQ, sK, sV, regs, out>>

Arrive(w) ==
  /\ pc[w] \in {"top", "scored"}
  /\ copying[w] = {}
  /\ pc' = [pc EXCEPT ![w] = IF pc[w] = "top" THEN "sync1" ELSE "sync2"]
  /\ UNCHANGED <<call, copying, sQ, sK, sV, regs, out>>

(* __syncthreads: wherever they arrived, the warps leave together.         *)
Barrier == {"sync1", "sync2", "sync3"}
After(p) == CASE p = "sync1" -> "loadV" [] p = "sync2" -> "loadK" [] p = "sync3" -> "store"

Release ==
  /\ \A w \in Warp : pc[w] \in Barrier
  /\ pc' = [w \in Warp |-> After(pc[w])]
  /\ UNCHANGED <<call, copying, sQ, sK, sV, regs, out>>

(* The copy of the V tile is issued; the very first one is predicated and  *)
(* clears what it does not read.                                           *)
LoadV(w) ==
  /\ pc[w] = "loadV"
  /\ copying' = [copying EXCEPT ![w] =
                   @ \cup {Copy("V", n_block[w], KVMode(step[w] = 0, TRUE))}]
  /\ sV' = [sV EXCEPT ![w] = Torn]
  /\ pc' = [pc EXCEPT ![w] = "qk"]
  /\ UNCHANGED <<call, sQ, sK, regs, out>>

(* acc_s = Q K^T, from shared memory.                                      *)
ScoreQK(w) ==
  /\ pc[w] = "qk"
  /\ scores' = [scores EXCEPT ![w] =
       {j \in Column : sK[SliceOf(j)].tile = n_block[w] /\ \A u \in Warp : sQ[u] = "Q"}]
  /\ pc' = [pc EXCEPT ![w] = "scored"]
  /\ UNCHANGED <<call, n_block, step, copying, sQ, sK, sV, summed, rowmax, out>>

(* The copy of the next K tile is issued, if there is one.                 *)
LoadK(w) ==
  /\ pc[w] = "loadK"
  /\ IF n_block[w] > nMin
     THEN /\ copying' = [copying EXCEPT ![w] =
                           @ \cup {Copy("K", n_block[w] - 1, KVMode(FALSE, FALSE))}]
          /\ sK' = [sK EXCEPT ![w] = Torn]
     ELSE UNCHANGED <<copying, sK>>
  /\ pc' = [pc EXCEPT ![w] = "pv"]
  /\ UNCHANGED <<call, sQ, sV, regs, out>>

-----------------------------------------------------------------------------
(* softmax_rescale_o and acc_o += P V.                                     *)
Column0(w) == n_block[w] * kBlockN
Kept(w, r) == {j \in Column : ~ MaskedOut(call, Masking(w), RowOf(call, r), Column0(w) + j)}

(* The column j contributes, if both products read the right tile and the  *)
(* column exists.                                                          *)
Summand(w, j) ==
  IF /\ j \in scores[w]
     /\ sV[SliceOf(j)].tile = n_block[w]
     /\ Column0(w) + j < call.sk
  THEN Column0(w) + j
  ELSE Garbage

(* Without Check_inf the rescaling of a row that has no finite score yet   *)
(* is exp2(-inf - -inf).  A masked column has P = 0, which still makes a   *)
(* NaN with what an uncleared row of V may hold.                           *)
CheckInf(w)    == IF Masking(w) THEN IsCausal(call) \/ IsLocal(call) ELSE IsLocal(call)
Rescales(w, r) == step[w] > 0 /\ rowmax[r] = "-inf" /\ Kept(w, r) = {}
Uncleared(w)   == \E j \in Column : /\ Column0(w) + j >= call.sk
                                    /\ sV[SliceOf(j)].mode = "bound"

Last(w)   == Masking(w) /\ steps > 1 /\ n_block[w] <= nMin      \* break
NextStep(w) == IF Last(w) THEN steps ELSE IF Masking(w) THEN step[w] + 1 ELSE step[w]
NextPc(w) == IF \/ Masking(w) /\ ~ Last(w) /\ step[w] + 1 < steps
                \/ n_block[w] - 1 >= nMin
             THEN "top" ELSE "epilogue"

Accumulate(w) ==
  /\ pc[w] = "pv"
  /\ summed' = [r \in Row |->
       IF Owner(r) = w THEN summed[r] \cup {Summand(w, j) : j \in Kept(w, r)} ELSE summed[r]]
  /\ rowmax' = [r \in Row |->
       IF Owner(r) # w \/ rowmax[r] = "nan" THEN rowmax[r]
       ELSE IF Uncleared(w) \/ (Rescales(w, r) /\ ~ CheckInf(w)) THEN "nan"
       ELSE IF Kept(w, r) = {} THEN rowmax[r] ELSE "finite"]
  /\ step' = [step EXCEPT ![w] = NextStep(w)]
  /\ n_block' = [n_block EXCEPT ![w] = @ - 1]
  /\ pc' = [pc EXCEPT ![w] = NextPc(w)]
  /\ UNCHANGED <<call, copying, sQ, sK, sV, scores, out>>

-----------------------------------------------------------------------------
(* normalize_softmax_lse, and acc_o to the memory of sQ, without a barrier *)
(* before but with one after.                                              *)
StageO(w) ==
  /\ pc[w] = "epilogue"
  /\ sQ' = [sQ EXCEPT ![w] = "O"]
  /\ pc' = [pc EXCEPT ![w] = "sync3"]
  /\ UNCHANGED <<call, copying, sK, sV, regs, out>>

(* O and lse leave for global memory; a sum that is zero or NaN has        *)
(* lse = +inf.                                                             *)
Finished(r) ==
  IF rowmax[r] = "nan" \/ \E u \in Warp : sQ[u] # "O"
  THEN [cols |-> {Garbage}, lse |-> "+inf"]
  ELSE [cols |-> summed[r], lse |-> IF rowmax[r] = "-inf" THEN "+inf" ELSE "finite"]

StoreFullTiles(w) ==          \* the rows of an incomplete tile are forgotten
  /\ pc[w] = "store"
  /\ out' = [r \in Row |-> IF Owner(r) = w /\ (call.m_block + 1) * kBlockM <= call.sq
                           THEN Finished(r) ELSE out[r]]
  /\ pc' = [pc EXCEPT ![w] = "done"]
  /\ UNCHANGED <<call, copying, sQ, sK, sV, regs>>

Store(w) ==
  /\ pc[w] = "store"
  /\ out' = [r \in Row |-> IF Owner(r) = w /\ RowOf(call, r) < call.sq
                           THEN Finished(r) ELSE out[r]]
  /\ pc' = [pc EXCEPT ![w] = "done"]
  /\ UNCHANGED <<call, copying, sQ, sK, sV, regs>>

Execute(w) ==
  \/ NoRows(w) \/ Exit(w) \/ Prologue(w)
  \/ Arrive(w) \/ LoadV(w) \/ ScoreQK(w) \/ LoadK(w) \/ Accumulate(w)
  \/ StageO(w) \/ Store(w)

Done == \A w \in Warp : pc[w] = "done"

Next ==
  \/ \E w \in Warp : Execute(w) \/ \E x \in copying[w] : Land(w, x)
  \/ Release
  \/ Done /\ UNCHANGED vars

Spec == Init /\ [][Next]_vars

(* The hardware schedules every resident warp and finishes every copy.     *)
FairSpec ==
  /\ Spec /\ WF_vars(Release)
  /\ \A w \in Warp : WF_vars(Execute(w)) /\ WF_vars(\E x \in copying[w] : Land(w, x))

-----------------------------------------------------------------------------
(* Types of the variables.                                                 *)
Tile == Nat \cup {-1}
TypeOK ==
  /\ call \in Calls
  /\ pc \in [Warp -> {"start", "top", "sync1", "loadV", "qk", "scored", "sync2", "loadK",
                      "pv", "epilogue", "sync3", "store", "done"}]
  /\ n_block \in [Warp -> Int]
  /\ step \in [Warp -> 0 .. steps]
  /\ copying \in [Warp -> SUBSET [buf : {"Q", "K", "V"}, tile : Tile, mode : Mode]]
  /\ sQ \in [Warp -> {"torn", "Q", "O"}]
  /\ sK \in [Warp -> [tile : Tile, mode : Mode]]
  /\ sV \in [Warp -> [tile : Tile, mode : Mode]]
  /\ scores \in [Warp -> SUBSET Column]
  /\ summed \in [Row -> SUBSET (0 .. call.sk - 1)]
  /\ rowmax \in [Row -> {"-inf", "finite"}]
  /\ \A r \in Row : out[r] # Unwritten => RowOf(call, r) < call.sq

(* A warp multiplies only by complete tiles, and by the right ones: while  *)
(* one warp is still reading a tile of shared memory no other warp's copy  *)
(* has begun to overwrite it, although only two barriers separate the four *)
(* uses of the two buffers in an iteration.                                *)
TilesReady ==
  \A w \in Warp :
    /\ pc[w] = "qk" => \A u \in Warp : sK[u].tile = n_block[w] /\ sQ[u] = "Q"
    /\ pc[w] = "pv" => \A u \in Warp : sV[u].tile = n_block[w]

(* Why.  Between two barriers all warps are bound for the same tile, the   *)
(* same step and the same barrier, wherever they are on the way there; the *)
(* slices a warp has copied, or is copying, are those of that tile.        *)
Products == {"loadV", "qk", "scored", "sync2"}
Leaves   == EarlyExit(call, call.m_block) \/ call.m_block * kBlockM >= call.sq
Bound(w) ==         \* where the warp will leave this stretch of the program
  IF pc[w] \in {"store", "done"} \/ (pc[w] = "start" /\ Leaves) THEN "exit"
  ELSE IF pc[w] \in Products THEN "products"
  ELSE IF pc[w] \in {"epilogue", "sync3"} THEN "epilogue"
  ELSE IF pc[w] \in {"loadK", "pv"} THEN NextPc(w)
  ELSE "top"
BoundTile(w) == IF pc[w] = "start" /\ ~ Leaves THEN nMax - 1
                ELSE IF pc[w] \in {"loadK", "pv"} THEN n_block[w] - 1 ELSE n_block[w]
BoundStep(w) == IF pc[w] \in {"loadK", "pv"} THEN NextStep(w) ELSE step[w]

InStep == \A u, w \in Warp : /\ Bound(u) = Bound(w)
                             /\ BoundTile(u) = BoundTile(w)
                             /\ BoundStep(u) = BoundStep(w)

Lands(w, buf) == \E x \in copying[w] : x.buf = buf      \* in flight

CopyInv ==
  \A w \in Warp : \A x \in copying[w] :
    \/ pc[w] = "top" /\ (x.buf = "Q" \/ (x.buf = "K" /\ x.tile = n_block[w]))
    \/ pc[w] \in {"qk", "scored"} /\ x.buf = "V" /\ x.tile = n_block[w]
    \/ pc[w] = "pv" /\ n_block[w] > nMin /\ x.buf = "K" /\ x.tile = n_block[w] - 1

SliceInv ==
  \A w \in Warp :
    /\ pc[w] \in {"top", "sync1"} \cup Products =>
         /\ Lands(w, "K") \/ sK[w].tile = n_block[w]
         /\ Lands(w, "Q") \/ sQ[w] = "Q"
    /\ pc[w] \in {"qk", "scored", "sync2"} => Lands(w, "V") \/ sV[w].tile = n_block[w]
    /\ pc[w] \in {"loadK", "pv"} => /\ sQ[w] = "Q"
                                    /\ \A u \in Warp : sV[u].tile = n_block[w]
    /\ pc[w] = "pv" /\ n_block[w] > nMin => Lands(w, "K") \/ sK[w].tile = n_block[w] - 1

Typing ==
  /\ call \in Calls
  /\ pc \in [Warp -> {"start", "top", "sync1", "loadV", "qk", "scored", "sync2", "loadK",
                      "pv", "epilogue", "sync3", "store", "done"}]
  /\ n_block \in [Warp -> Int] /\ step \in [Warp -> Nat]
  /\ copying \in [Warp -> SUBSET [buf : {"Q", "K", "V"}, tile : Int, mode : Mode]]
  /\ sQ \in [Warp -> {"torn", "Q", "O"}]
  /\ sK \in [Warp -> [tile : Int, mode : Mode]]
  /\ sV \in [Warp -> [tile : Int, mode : Mode]]

TileInv == Typing /\ InStep /\ CopyInv /\ SliceInv

(* Where copies read: a warp in the loop is within the tiles of its call,  *)
(* and leaves the last one with its first step.                            *)
RangeInv ==
  \A w \in Warp :
    /\ pc[w] \in {"top", "sync1", "loadK", "pv"} \cup Products =>
         nMin <= n_block[w] /\ n_block[w] < nMax
    /\ step[w] > 0 => pc[w] # "start" /\ n_block[w] < nMax - 1
    /\ \A x \in copying[w] :
         x.buf # "Q" /\ x.mode = "all" =>
           /\ 0 <= x.tile /\ x.tile < nMax
           /\ x.tile = nMax - 1 => IsEvenMN(call)

(* No copy that is not predicated reads past the last key: only the copies *)
(* of the first step may touch the last, incomplete, tile.                 *)
NoReadPastKeys ==
  \A w \in Warp : \A x \in copying[w] :
    x.buf # "Q" /\ x.mode = "all" => x.tile >= 0 /\ (x.tile + 1) * kBlockN <= call.sk

(* The kernel implements the attention of its rows as the tests' reference *)
(* mask defines it: the two loops, their masks and the tiles they skip     *)
(* together sum each column of the mask and no other, and no NaN appears.  *)
AR == INSTANCE AttentionRows

ImplementsAttention == AR!Spec

(* Whatever the window, a row is the sum over the columns that make_mask   *)
(* of ref_mha.py gives it.                                                 *)
RowsMatchReference ==
  \A r \in Row : out[r] # Unwritten => out[r].cols = AR!Wanted(call, r)

(* Every row is written: no warp waits for ever at a barrier.              *)
RowsWritten == AR!Written
=============================================================================
