------------------------------- MODULE SplitKV -------------------------------
(***************************************************************************)
(* A forward call whose keys are divided into splits.  Thread blocks of    *)
(* compute_attn_1rowblock_splitkv, one for each split, head and tile of    *)
(* queries, write partial sums and their log-sum-exp to scratch arrays, in *)
(* any order; the combine kernel, launched behind them on the same stream, *)
(* merges the parts of each line.  A line is a query row of a head; lines  *)
(* of all heads are numbered in one sequence.                              *)
(*                                                                         *)
(* The scratch oaccum is addressed as in the code, in units of 32 floats.  *)
(* Inside a thread block the order of warps is the subject of              *)
(* FlashFwdKernel; here a block is one step.                               *)
(***************************************************************************)
EXTENDS SplitPlan

CONSTANTS
  Calls,          \* the calls considered, with the multiprocessors of the device
  Heads,          \* batch * heads
  DRounded,       \* d_rounded / 32, the head dimension rounded up
  HeadDim,        \* kHeadDim / 32, the kernel's head dimension
  CombineM,       \* kBlockM of the combine kernel
  NThreads,       \* its kNThreads
  Granule         \* device memory is given out in multiples of this many floats

ASSUME SplitKVAssumption ==
  /\ Heads \in Nat \ {0} /\ CombineM \in Nat \ {0}
  /\ DRounded \in Nat \ {0} /\ HeadDim \in Nat /\ DRounded <= HeadDim
  /\ NThreads \in Nat \ {0} /\ NThreads % CombineM = 0
  /\ Granule \in Nat \ {0} /\ Granule % CombineM = 0
  /\ Calls \subseteq [sq : Nat \ {0}, sk : Nat \ {0}, max_sq : Nat, max_sk : Nat,
                      wl : Int, wr : Int, causal : BOOLEAN, varlen : BOOLEAN,
                      even_k : BOOLEAN, m_block : Nat, sms : Nat \ {0}]

VARIABLES
  call,       \* the call; never changes
  phase,      \* "lower", "launch", "split" (both kernels) or "plain" (neither)
  room,       \* the splits for which scratch was allocated
  splits,     \* params.num_splits
  todo,       \* split blocks not yet executed
  uncombined, \* combine blocks not yet executed
  oaccum,     \* scratch, as a function on the addresses written
  lseaccum,
  out,        \* out[line]: the columns summed in it
  lse         \* lse[line], with the rows of memory behind it

vars == <<call, phase, room, splits, todo, uncombined, oaccum, lseaccum, out, lse>>

-----------------------------------------------------------------------------
Unit   == 0 .. DRounded - 1
Column == 0 .. kBlockN - 1
Lines  == Heads * call.sq
QTiles == CeilDiv(call.sq, kBlockM)
KTiles == CeilDiv(call.sk, kBlockN)
Shape  == [units |-> Heads * QTiles, sms |-> call.sms, blocks |-> KTiles]

SplitBlocks(n) == (0 .. n - 1) \X (0 .. Heads - 1) \X (0 .. QTiles - 1)
CombineBlocksOneMore == 0 .. Lines \div CombineM    \* also if they divide
CombineBlocks  == 0 .. CeilDiv(Lines, CombineM) - 1

(* What split s sums in a row of query tile m.                             *)
SplitMin(m, s) == AtLeast(s * PerSplit(KTiles, splits), NBlockMin(call, m))
SplitMax(m, s) == AtMost((s + 1) * PerSplit(KTiles, splits), NBlockMax(call, m))

SplitTiles(m, s) == SplitMin(m, s) .. SplitMax(m, s) - 1
MaskingOneLess(m, s, t) == t > SplitMax(m, s) - NMaskingSteps(call)
Masking(m, s, t) == t >= SplitMax(m, s) - NMaskingSteps(call)
Kept(m, s, row, t) ==
  {t * kBlockN + j : j \in {j \in Column :
       ~ MaskedOut(call, Masking(m, s, t), row, t * kBlockN + j)}}
Summed(m, s, row) == UNION {Kept(m, s, row, t) : t \in SplitTiles(m, s)}

(* A row rescaled before it has seen a finite score, without Check_inf.    *)
CheckInf(m, s, t) ==
  IsLocal(call) \/ (Masking(m, s, t) /\ (IsCausal(call) \/ ~ IsEvenMN(call)))
BecomesNaN(m, s, row) ==
  \E t \in SplitTiles(m, s) :
    /\ t < SplitMax(m, s) - 1 /\ ~ CheckInf(m, s, t)
    /\ \A u \in SplitTiles(m, s) : u >= t => Kept(m, s, row, u) = {}

NaN == {-1}                   \* what is not a sum of attended columns
PartLse(m, s, row) ==
  IF Summed(m, s, row) = {} \/ BecomesNaN(m, s, row) THEN "-inf" ELSE "finite"
Part(m, s, row) == IF BecomesNaN(m, s, row) THEN NaN ELSE Summed(m, s, row)

-----------------------------------------------------------------------------
(* Addresses.  A tile of rows starts at a multiple of d_rounded; its rows  *)
(* are kHeadDim apart.                                                     *)
LineOf(h, row) == h * call.sq + row
WriteAddr(s, h, row, u) ==
  LET first == (row \div kBlockM) * kBlockM
  IN (s * Lines + LineOf(h, first)) * DRounded + (row - first) * HeadDim + u
ReadAddrPadded(s, line, u) ==      \* takes every split to fill its combine blocks
  LET first == (line \div CombineM) * CombineM
  IN s * CeilDiv(Lines, CombineM) * CombineM * DRounded + first * DRounded
       + (line - first) * HeadDim + u
ReadAddr(s, line, u) ==
  LET first == (line \div CombineM) * CombineM
  IN s * Lines * DRounded + first * DRounded + (line - first) * HeadDim + u

RowsOf(m) == {row \in 0 .. call.sq - 1 : row \div kBlockM = m}

Init ==
  /\ call \in Calls
  /\ phase = "lower"
  /\ room = 0 /\ splits = 0
  /\ todo = {} /\ uncombined = {}
  /\ oaccum = << >> /\ lseaccum = << >>
  /\ out = << >> /\ lse = << >>

(* The lowering sizes the scratch.                                         *)
Lower ==
  /\ phase = "lower"
  /\ room' = Allocated(Shape)
  /\ phase' = "launch"
  /\ UNCHANGED <<call, splits, todo, uncombined, oaccum, lseaccum, out, lse>>

(* The handler chooses the splits; with one, the plain kernel runs instead.*)
Launch ==
  /\ phase = "launch"
  /\ splits' = Launched(Shape, room)
  /\ IF splits' > 1
     THEN /\ phase' = "split"
          /\ todo' = SplitBlocks(splits')
          /\ uncombined' = CombineBlocks
     ELSE phase' = "plain" /\ UNCHANGED <<todo, uncombined>>
  /\ UNCHANGED <<call, room, oaccum, lseaccum, out, lse>>

(* A thread block of the split kernel; one without key tiles writes zeros  *)
(* and -inf.                                                               *)
Empty(m, s) == SplitMin(m, s) >= SplitMax(m, s)
Sum(m, s, row)     == IF Empty(m, s) THEN {} ELSE Part(m, s, row)
SumLse(m, s, row)  == IF Empty(m, s) THEN "-inf" ELSE PartLse(m, s, row)

Cells(s, h, m) == {[row |-> row, unit |-> u] : row \in RowsOf(m), u \in Unit}
CellAt(s, h, m, a) == CHOOSE x \in Cells(s, h, m) : WriteAddr(s, h, x.row, x.unit) = a

WriteParts(s, h, m) ==
  LET written == {WriteAddr(s, h, x.row, x.unit) : x \in Cells(s, h, m)}
  IN oaccum' = [a \in DOMAIN oaccum \cup written |->
       IF a \notin written THEN oaccum[a]
       ELSE LET x == CellAt(s, h, m, a)
            IN [line |-> LineOf(h, x.row), unit |-> x.unit, sum |-> Sum(m, s, x.row)]]
WriteLses(s, h, m) ==
  LET written == {s * Lines + LineOf(h, row) : row \in RowsOf(m)}
  IN lseaccum' = [a \in DOMAIN lseaccum \cup written |->
       IF a \in written THEN SumLse(m, s, (a % Lines) - h * call.sq) ELSE lseaccum[a]]

SplitBlockSilent(s, h, m) ==      \* an empty split leaves its rows as they were
  /\ <<s, h, m>> \in todo
  /\ IF Empty(m, s) THEN UNCHANGED oaccum ELSE WriteParts(s, h, m)
  /\ WriteLses(s, h, m)
  /\ todo' = todo \ {<<s, h, m>>}
  /\ UNCHANGED <<call, phase, room, splits, uncombined, out, lse>>

SplitBlock(s, h, m) ==
  /\ <<s, h, m>> \in todo
  /\ WriteParts(s, h, m) /\ WriteLses(s, h, m)
  /\ todo' = todo \ {<<s, h, m>>}
  /\ UNCHANGED <<call, phase, room, splits, uncombined, out, lse>>

-----------------------------------------------------------------------------
(* The combine kernel.  Its threads first load the log-sum-exp of all      *)
(* splits to shared memory, RowsPerLoad splits at a time; then a group of  *)
(* RowsPerTranspose threads holds those of one line and reduces them.      *)
KMaxSplits == CHOOSE p \in {2, 4, 8, 16, 32, 64, 128} : p >= splits /\ (p > 2 => p < 2 * splits)
PerThread        == CeilDiv(KMaxSplits * CombineM, NThreads)
RowsPerLoad      == NThreads \div CombineM
RowsPerTranspose == AtMost(RowsPerLoad, KMaxSplits)
Loaded(step) == {l * step + x : l \in 0 .. PerThread - 1, x \in 0 .. step - 1}
Held == Loaded(RowsPerLoad) \cap Loaded(RowsPerTranspose) \cap (0 .. KMaxSplits - 1)

PartOf(line, s) ==
  IF s < splits /\ line < Lines THEN lseaccum[s * Lines + line] ELSE "-inf"
Finite(line) == {s \in Held : PartOf(line, s) = "finite"}

(* A part is scaled by exp(its lse - the lse of the line), which is 0 for  *)
(* -inf; 0 times what was never written may be NaN.                        *)
Merged(line, u) ==
  LET Read(s) == oaccum[ReadAddr(s, line, u)]
      read    == {s \in 0 .. splits - 1 : ReadAddr(s, line, u) \in DOMAIN oaccum}
      sums    == Finite(line)
  IN IF \/ read # 0 .. splits - 1 \/ ~ read \subseteq Held
        \/ \E s \in read : Read(s).sum = NaN
        \/ \E s \in sums : Read(s).line # line \/ Read(s).unit # u
        \/ \E s, t \in sums : s # t /\ Read(s).sum \cap Read(t).sum # {}
     THEN NaN
     ELSE UNION {Read(s).sum : s \in sums}

MergedLine(line) ==
  IF \A u \in Unit : Merged(line, u) = Merged(line, 0) THEN Merged(line, 0) ELSE NaN

CombineEarly(b) ==            \* does not wait for the split kernel
  /\ b \in uncombined
  /\ LET lines == b * CombineM .. (b + 1) * CombineM - 1
         ready == {l \in lines : l < Lines /\ \A s \in 0 .. splits - 1 :
                                   s * Lines + l \in DOMAIN lseaccum}
     IN out' = [l \in DOMAIN out \cup {l \in lines : l < Lines} |->
                 IF l \notin lines THEN out[l] ELSE IF l \in ready THEN MergedLine(l) ELSE NaN]
        /\ lse' = [l \in DOMAIN lse \cup lines |->
                 IF l \notin lines THEN lse[l]
                 ELSE IF l \notin ready \/ Finite(l) = {} THEN "+inf" ELSE "finite"]
  /\ uncombined' = uncombined \ {b}
  /\ UNCHANGED <<call, phase, room, splits, todo, oaccum, lseaccum>>

Combine(b) ==
  /\ todo = {}                \* kernels of one stream run one after the other
  /\ b \in uncombined
  /\ LET lines == b * CombineM .. (b + 1) * CombineM - 1
     IN /\ out' = [l \in DOMAIN out \cup {l \in lines : l < Lines} |->
                     IF l \in lines THEN MergedLine(l) ELSE out[l]]
        /\ lse' = [l \in DOMAIN lse \cup lines |->     \* behind the last line too
                     IF l \notin lines THEN lse[l]
                     ELSE IF Finite(l) = {} THEN "+inf" ELSE "finite"]
  /\ uncombined' = uncombined \ {b}
  /\ UNCHANGED <<call, phase, room, splits, todo, oaccum, lseaccum>>

Done == phase = "plain" \/ (phase = "split" /\ todo = {} /\ uncombined = {})

Next ==
  \/ Lower \/ Launch
  \/ \E x \in todo : SplitBlock(x[1], x[2], x[3])
  \/ \E b \in uncombined : Combine(b)
  \/ Done /\ UNCHANGED vars

Spec == Init /\ [][Next]_vars

-----------------------------------------------------------------------------
(* Types of the variables.                                                 *)
Sums == SUBSET (0 .. call.sk - 1)
TypeOK ==
  /\ call \in Calls /\ phase \in {"lower", "launch", "split", "plain"}
  /\ room \in 0 .. MaxSplits /\ splits \in 0 .. MaxSplits
  /\ todo \subseteq SplitBlocks(splits) /\ uncombined \subseteq CombineBlocks
  /\ \A a \in DOMAIN oaccum : oaccum[a].sum \in Sums
  /\ \A a \in DOMAIN lseaccum : lseaccum[a] \in {"-inf", "finite"}
  /\ DOMAIN out \subseteq 0 .. Lines - 1
  /\ \A l \in DOMAIN lse : lse[l] \in {"+inf", "finite"}

(* The floats given out for lse, which has one for every line.             *)
LseRoom == CeilDiv(Lines, Granule) * Granule

(* Every address of the two scratch arrays that is written lies inside     *)
(* them, though their size was chosen for another device; and the combine  *)
(* kernel, which writes lse for all rows of its blocks without a guard     *)
(* (flash_fwd_kernel.h:1180), stays in the memory given out for lse, a     *)
(* multiple of Granule.                                                    *)
WithinScratch ==
  /\ DOMAIN oaccum \subseteq 0 .. room * Lines * DRounded - 1
  /\ DOMAIN lseaccum \subseteq 0 .. room * Lines - 1
  /\ DOMAIN lse \subseteq 0 .. LseRoom - 1

(* What keeps the writes inside: blocks are only of splits for which there *)
(* is room, and nothing is written before the splits are chosen.           *)
ScratchInv ==
  /\ call \in Calls /\ room \in Nat /\ splits \in Nat
  /\ phase \in {"lower", "launch"} =>
       todo = {} /\ uncombined = {}
       /\ DOMAIN oaccum = {} /\ DOMAIN lseaccum = {} /\ DOMAIN lse = {}
  /\ todo # {} => splits <= room
  /\ todo \subseteq SplitBlocks(splits) /\ uncombined \subseteq CombineBlocks
  /\ WithinScratch

(* Without a causal mask or a window no split is without keys: the numbers *)
(* of splits that would leave one idle are not eligible.                   *)
NoIdleSplit ==
  phase = "split" => \A s \in 0 .. splits - 1 : BlocksOf(KTiles, splits, s) # {}

(* The two kernels implement the attention of every tile of every head:    *)
(* splits with nothing to add are ignored, rows without any key come out   *)
(* as zero and +inf.                                                       *)
TileOut(h, m) ==
  [r \in 0 .. kBlockM - 1 |->
     LET line == LineOf(h, m * kBlockM + r)
     IN IF m * kBlockM + r < call.sq /\ line \in DOMAIN out
        THEN [cols |-> out[line], lse |-> lse[line]]
        ELSE [cols |-> {}, lse |-> "none"]]
AR(h, m) == INSTANCE AttentionRows WITH
  Calls <- {[c EXCEPT !.m_block = m] : c \in Calls},
  call <- [call EXCEPT !.m_block = m], out <- TileOut(h, m)

ImplementsAttention ==
  /\ \A h \in 0 .. Heads - 1 : \A m \in 0 .. QTiles - 1 : AR(h, m)!Init
  /\ [][\A h \in 0 .. Heads - 1 : \A m \in 0 .. QTiles - 1 : AR(h, m)!Next]_vars

(* The combined rows are the attention of the reference mask, whatever the *)
(* head dimension.                                                         *)
LinesCorrect ==
  \A l \in DOMAIN out :
    LET row == l % call.sq
    IN out[l] = {col \in 0 .. call.sk - 1 : Attends(call, row, col)}
=============================================================================
