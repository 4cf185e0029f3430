# flash_attn_jax in TLA+

TLA+ models of the parts of `flash_attn_jax` whose correctness depends on order:
who reads what before whom, which block is where, which entry is masked in which
iteration. The arithmetic of attention itself (matrix products, exponentials) is
abstracted to *which terms are summed*.

Paths are relative to the repository.

## 1. The system

`flash_attn_jax` binds the FlashAttention-2 CUDA kernels to JAX. A call passes
through the following parts.

| part | code | state | interaction |
|---|---|---|---|
| frontend | `src/flash_attn_jax/flash.py`, `flash_fwd.py`, `flash_bwd.py` | none: traced functions; residuals `(q,k,v,out,lse)` between the passes | lowers to an FFI call; allocates the outputs and the split scratch; batching and partitioning rules |
| varlen frontend | `varlen.py`, `varlen_fwd.py`, `varlen_bwd.py` | cumulative lengths, `seqused_k` | as above, several sequences packed in one array |
| ring attention | `ring_attention.py` | per device: the carried k, v, index; the running o, lse (forward), dq and the travelling dk, dv (backward) | collective permutes between devices, calls of `mha_fwd`/`mha_bwd` |
| FFI handlers | `csrc/flash_attn/flash_api.cpp`, `mha_fwd.cpp`, `mha_bwd.cpp`, `flash_common.cpp` | `Flash_fwd_params`, `Flash_bwd_params` for one launch | check arguments, normalise the window, choose the number of splits, launch |
| forward kernel | `csrc/flash_attn/src/flash_fwd_kernel.h`, `mask.h`, `softmax.h` | per thread block: shared-memory tiles, outstanding asynchronous copies; per warp: loop counters, accumulators | barriers between warps; global memory |
| split-KV kernel and combine | `flash_fwd_kernel.h` | partial O and LSE of each split | second kernel combines what the first wrote |
| backward kernels | `flash_bwd_kernel.h`, `flash_bwd_preprocess_kernel.h` | as forward, and the global `dq_accum` | three kernels in sequence; atomic adds to a shared accumulator |

What makes it hard:

* *concurrency*: devices run ahead of each other inside the ring; warps of a
  thread block run ahead of each other between two barriers; asynchronous copies
  land at any time; thread blocks of the backward pass add to one accumulator;
* *boundaries*: lengths that end inside a tile, more queries than keys or fewer,
  windows and causal masks that make whole tiles empty, rows that attend to
  nothing (whose log-sum-exp is -inf or +inf and one subtraction away from NaN);
* *bookkeeping across iterations*: which block a device holds, which mask an
  iteration needs, which generation of a gradient a contribution is added to.

There is no persistence, no retry and no timeout anywhere in the code, and nothing
is modelled for them.

What makes each part correct:

* ring, forward: a device sums each visible block once, in the right mode, and
  its running log-sum-exp is never NaN; all devices finish;
* ring, backward: each contribution is added once, to the gradient of the block it
  was computed from, and every gradient returns to its owner;
* kernels: no warp reads a tile that is incomplete or being overwritten; no
  unguarded access past the arrays; each row is the sum over the columns of the
  mask, whichever tiles were skipped, split or left unmasked; all warps finish;
* host: the normalised window and the chosen template mean the same mask as the
  arguments; the scratch is large enough for the splits chosen;
* frontends: batching, padding and packing are inverse to each other on the way in
  and out; a partitioned call computes what the whole one would;
* the way down as a whole: what Python accepts and the forward pass computes can be
  differentiated; the buffers, sized in Python without knowing the device, hold what the
  kernel instance chosen on the device addresses, but for the cases of section 5; both passes
  see the same keys.

## 2. The modules

| module | models | role |
|---|---|---|
| `BlockAttention` | - | what a pass of ring attention promises, in any order |
| `Ring` | what `ring_fwd` and `ring_bwd` share: devices, the permutation, `cmp`, the switch | extended by both |
| `RingForward` | `ring_fwd` | implements `BlockAttention` |
| `RingBackward` | `ring_bwd` | implements `BlockAttention` |
| `RingProofs` | - | theorems about `RingForward` and `RingBackward` |
| `FlashMask` | window normalisation, tile ranges, masks, and the reference mask of the tests | pure operators |
| `AttentionRows` | - | what a forward kernel promises for a tile of query rows |
| `FlashFwdKernel` | `compute_attn_1rowblock` | implements `AttentionRows` |
| `FlashMaskProofs` | - | theorems about `FlashMask`: the mask the host describes, tiles and their masking |
| `FlashFwdKernelProofs` | - | theorems about `FlashFwdKernel` |
| `SplitPlan` | the number of splits, at lowering and at launch | pure operators |
| `SplitKV` | a split forward call: the split kernel's blocks, the scratch, the combine kernel | implements `AttentionRows`, tile by tile |
| `SplitKVProofs` | - | theorems about `SplitPlan` and `SplitKV` |
| `GradientColumns` | - | what a backward thread block promises for a tile of keys |
| `FlashBwdColumn` | `compute_dq_dk_dv_1colblock` | implements `GradientColumns` |
| `FlashBwdColumnProofs` | - | theorems about `FlashBwdColumn` |
| `FlashBwd` | one backward call: memset, three kernels, reduction over groups | composes the column blocks over the shared scratch |
| `FlashBwdProofs` | - | theorems about `FlashBwd`: the bounds of `dq_accum`, and the gradients |
| `Batching` | the batching rules of the four primitives | - |
| `BatchingProofs` | - | theorems about `Batching` |
| `KernelTraits` | the kernel instances: which one for which head dimension and device, tiles, threads, shared memory | pure operators |
| `FfiDecode` | the bindings of the four handlers and the decoding of a call frame by `xla/ffi/api` | pure operators |
| `HostCall` | a call and its gradient, from the frontends through lowering, decoding and checks to the launches | composes `FfiDecode`, `KernelTraits`, `SplitPlan` |
| `HostCallProofs` | - | theorems about `KernelTraits` and `HostCall` |
| `MCFlashFwdKernel`, `MCSplitKV`, `MCFlashBwdColumn`, `MCFlashBwd`, `MCBatching`, `MCHostCall` | - | the calls each is checked on |

An operator beside a definition with almost its name (`AccumRowsTight` beside
`AccumRows`) is a variant with one plausible mistake. No specification uses it:
putting it in the definition's place must break a property, which shows that the property
depends on that line of the code.

### Ring, RingForward

`Ring` has the constants and what both passes compute alike: the permutation (`Succ`), `cmp` and the
branch it selects, which blocks a device is to see and in which mode. Where the two passes have a
definition of the same purpose it begins with `Fwd` or `Bwd`, so that one module can speak of both.

Every device executes `ring_fwd` on its own; `FwdNext` interleaves them. Inside one
iteration of `lax.scan` the data flow is the only order: `Attend` (the switch,
`mha_fwd`, the merge) and the three permutes need only the carry, `FwdNextIteration`
needs them all. A permute is a start, which puts the carried value on the link to
the next device, and a completion, which takes the value of the previous device
from its own link: the README of the repository recommends the latency-hiding
scheduler, which separates the two. Links are FIFO (a collective matches sends and
receives of the same operation in program order) and hold `LinkCapacity` messages.

| variable | code |
|---|---|
| `iter` | iterations of the scan completed |
| `carry[i]` | `k`, `v`, `k_ix`; a block is named by the device it started on |
| `terms` | what has been summed in `o`: block of k, block of v, mode, iteration |
| `lse` | `lse`: -inf, finite or nan |
| `sent`, `recv`, `link` | permutes started, their results, the messages on the way |
| `attended` | the merge of this iteration is done |

### RingBackward

The same machine for `ring_bwd`. `(dk2, dv2)` is permuted at the start of an
iteration, before this iteration's contribution is known, and the contribution is
added to the gradients *received* (`Accumulate`): a gradient follows its block one
hop behind, and after the scan a last permute brings it home (`Return`). A gradient
is the set of its contributions. The code permutes pytrees, so `(k2, v2, ix2)` and
`(dk2, dv2)` are one message each. Before its permute completes a device has received
nothing: `rkv` is then `Unreceived`, which no device may carry (`BwdTypeOK`).

### FlashMask, AttentionRows, FlashFwdKernel

`FlashMask` has one operator per decision of the code: `Clamp`, `HostCausal`,
`HostLeft`, `HostRight` (`mha_fwd.cpp`), `IsCausal`, `WindowLeft`, `WindowRight`
(`flash_common.cpp`), `IsLocal`, `IsEvenMN` (`run_flash_fwd`), `NBlockMin`,
`NBlockMax`, `EarlyExit`, `NMaskingSteps` (kernel), `MaskedOut` (`mask.h`), and
`Attends`, the test suite's `make_mask`. Division truncates as in C++.

`FlashFwdKernel` is one thread block. A warp's program counter follows the code:

    start -> top -> (sync1) -> loadV -> qk -> scored -> (sync2) -> loadK -> pv -+-> top ...
                                                                                +-> epilogue -> (sync3) -> store -> done

`top` and `scored` wait for the warp's own copies (`cp_async_wait<0>`); `Release` is
`__syncthreads`, which does not know where in the program a warp arrived. The two
loops of the code, with masking and without, are one cycle of actions; `step`
tells them apart, and `NextPc` is their loop conditions. Each warp copies one slice
of every tile; a slice is `Torn` from the issue of a copy until `Land`. What an
out-of-bounds row of a tile holds is its `mode`. `rowmax` keeps only whether a row
has seen a finite score, and becomes `"nan"` where IEEE arithmetic would give NaN:
rescaling by exp2(-inf - -inf), or 0 times an uncleared row of V.

The rows of a tile are divided evenly among the warps in one piece; the real layout
interleaves them in groups of 16, which changes no dependency. Every warp is taken
to read all of sQ, K and V. This is what the products do for K and V; for Q it
makes the check of the unsynchronised epilogue stricter than the code needs.

### SplitPlan, SplitKV

The number of splits is chosen twice by the same heuristic: in Python, for 114
multiprocessors, to size `oaccum` and `lseaccum`; and in C++ for the device, bounded by
the size found there. `Heuristic` compares efficiencies by cross-multiplication, where
the code divides floats: the two could only differ where two efficiencies agree to
rounding.

`SplitKV` follows a call from `Lower` over `Launch` to the split blocks, which run in any
order and write partial sums (a set of columns) and partial log-sum-exps to the
addresses the code computes, and to the combine blocks, which the stream starts behind
them. Addresses are in units of 32 floats: `DRounded` is what the host multiplies by,
`HeadDim` the width of the kernel's tiles. A combine block loads the log-sum-exps of
its lines as the code does, thread by thread and through the transposition in shared memory
(`Held`), and merges the parts of a line. A thread block is one step: its warps are
those of `FlashFwdKernel`.

### GradientColumns, FlashBwdColumn

`FlashBwdColumn` is one thread block of the backward pass, for one tile of keys. Tiles of
queries pass from the last to the first:

    start -> [waitV -> loadV ->] top -> score -> dp -> prefetchQ -> storedS -> stored -> dv -> summed
          -> fetchdO -> dq -> dk -> [fetchQ ->] top ...  -> stage -> staged -> store -> done

The variables are the slices of the shared tiles (`sQ` with both its halves, `sdO`, `sK`,
`sV`, `sP`, `sdS`), the three pointers into the halves of `sQ` (`half`), the registers
(`vreg`, `ds`, `stat`), the copies under way, and the sums: `dk`, `dv` per
column and `dq` per row, as the set of rows or columns summed. The variants that the
launch selects by head dimension and shared memory are constants of a call:
double-buffered Q or not, V in registers or not (then P and dS lie in V's memory and there is one
barrier more).

### FlashBwd

One backward call on its stream: `Memset` of `dq_accum`; `DotDoO` (dP_sum, and zeros where
dq is going to be added); `Column`, the blocks of all key tiles, each adding its share
of one query tile after the other, interleaved freely; `ConvertDQ`; `Reduce`, the sum of dk
and dv over the query heads of a group. `dq_accum` is memory: a function on
addresses, with what lies behind it. Whole tiles are written without bound checks, so the
tiles of neighbouring sequences and, where the kernel pads the head dimension,
those of neighbouring rows overlap; `QueryGradientsExact` says that it does not matter.
The addresses are those of the code, the head dimension again in units of 32.

### Batching

`Batch` and `Unbatch` are a rule before and after it calls its primitive again; nested
vmaps apply rules from the innermost outwards, and the results come back the other way.
An element of an array is its own index, so that the results name what was combined
with what; the index on the axes not yet merged is a function on those axes, so that a call may have any
number of them. Modelled are the axes mapped for all operands (for varlen calls with a
phantom sequence between two examples), for all but k and v, for all but q and its lengths (the
varlen rules repeat both and call themselves), and for all but the lengths.
`Kernel` stands for the whole call: query head h reads key head h / (hq / hk), and dk sums
over the group.

### KernelTraits, FfiDecode, HostCall

`KernelTraits` holds the tables: `FwdTraits`, `SplitTraits` and `BwdTraits` are the `run_mha_*_hdim*`
functions, each threshold of shared memory as it is written; `FwdSmem` and `BwdSmem` what a launch asks
for, `FwdTop`, `BwdTop`, `BwdLoad`, ... the first byte behind each tensor the kernels
place in it; `FwdTiled`, `BwdTiled` the divisions that the copies and products take for granted.

`FfiDecode` describes each handler of `flash_api.cpp` by the types it binds and says
when a frame decodes: the numbers match, every buffer and every attribute has its type, an attribute
is looked up at its place among the sorted names, an optional buffer of the wrong type counts as absent
(`api.h:1088`), and all operands are decoded before any failure is reported.

`HostCall` runs one call through

    trace -> partition -> lower -> handler -> check -> launch -> returned
      |          |                    |         |        |
      +----------+-> rejected         +---------+        +-> aborted
                                         failed

and then, with `Differentiate`, its gradient through the same states. Python's asserts
end in `rejected`, a decoding error or `FFI_CHECK` in `failed` (an exception of the caller), a kernel
launch the device refuses in `aborted` (`exception.h` ends the process).

| variable | code |
|---|---|
| `call`, `dev` | arguments; compute capability, multiprocessors and shared memory of the device |
| `frame` | operands, results and attributes of the custom call, as lowered |
| `params` | `Flash_fwd_params`, then `Flash_bwd_params` |
| `todo`, `queue` | kernels the launch function has yet to launch; what is on the stream |

`FwdFrame` and `BwdFrame` are the lowering rules with their padding and scratch, `FwdAccepts` and
`BwdAccepts` the checks of the implementations, `SetParams` their parameters, `FwdKernels`,
`SplitKernels`, `BwdKernels` the launch functions. `Limit`, `Ixl` and `KeyKept` are the mask
that stands for `seqused_k` in the backward pass.

`LaunchesFit` compares the buffers allocated with the addresses that the kernels compute. The scratch of a
split call (`ScratchInBounds`) is laid out by `d_rounded`, but the split kernel's tiles and the combine kernel's
blocks are rows `kHeadDim` apart from where they begin (`RowsEnd`); `TileEnd` and `SumsEnd` are where the tiles
that the backward kernels clear, add to and read end in `dq_accum` and in the row sums of dP, whole tiles of
`kHeadDim` columns. `Granule` is the unit of the runtime's memory, which takes the unguarded lse of the combine kernel's last block.
Its two exceptions, and `seqused_k` entries that are longer than their sequence (`UsedWithin`), are in section 5.

`HostCallAssumption` says what the code takes from outside unchecked: `Callable`, the types and ranks of the
arguments, shardings that divide the dimension they shard, no empty dimension of heads, and of a varlen call
that k and v have the head dimension of q and that its `Fenceposts` lie in the arrays, in order, none of the
sequences longer than announced (they are on the device; the shape checks of the C++ are commented out, `mha_fwd.cpp:244-262`).
Arguments of wrong types, mismatched batches and heads or too short arrays of `seqused_k` are callable: the code must refuse those. `Enough`
says that devices which the host accepts have 99 KB of shared memory for a block. The steps are those of an eager
call; under `jit` all Python runs before anything is computed, so that its errors come earlier, in the
same cases.

## 3. The runs

| run | instance | checks |
|---|---|---|
| `ring_forward` | 3 devices, causal, 2 messages per link | `FwdTypeOK`, `OneBlock`, `NoNaN`, `ExactlyOnce`, the inductive invariant `FwdIInv`, refinement of `BlockAttention`, `AllAttended`: every device finishes with all terms |
| `ring_backward` | 3 devices, causal, 2 messages per link | `BwdTypeOK`, `OneBlockPerGradient`, `ReturnedExact`, refinement, `AllReturned` |
| `fwd_kernel` | tiles of 4 x 4, 2 warps, batched and varlen calls, up to 5 queries and 9 keys, both query tiles | `TypeOK`, `TilesReady`, the inductive invariant `TileInv`, `NoReadPastKeys`, refinement of `AttentionRows`, `RowsWritten` |
| `fwd_window_longer_q` | tiles of 2 x 2, up to 4 queries and 2 keys | finds a row that differs from the reference mask (section 5) |
| `split_call` | 2 heads sharing combine blocks of 4 lines, all masks, lowering for 8 multiprocessors, devices of 4, 6 and 10 | `TypeOK`, `ScratchInv`, `WithinScratch`, `NoIdleSplit`, refinement of `AttentionRows` |
| `split_dim160` | head dimension 160 | finds a line combined from other rows than its own (section 5) |
| `bwd_column` | tiles of 2 x 2, 2 warps, all four variants, batched and varlen, up to 5 queries and 4 keys, all masks | `TypeOK`, `OperandsReady`, `NoReadPastEnd`, refinement of `GradientColumns`, `GradientsComplete` |
| `bwd_launch` | 4 query heads on 2 key heads, padded head dimension, batched and varlen, 1 or 2 sequences | `TypeOK`, `AccumInBounds`, `QueryGradientsExact`, `KeyGradientsExact` |
| `bwd_dim160` | padded head dimension, batched, full last tile | finds a write behind `dq_accum` (section 5) |
| `vmap_rules` | up to 2 nested vmaps of 2 or 3, forward and backward, both families | `ExamplesApart`, `KeysSummed` |
| `host_call` | 988 calls: head dimensions 8 to 264, five devices, all masks, splits, shardings on 2 devices, varlen and `seqused_k` layouts of 3 sequences, arguments of wrong types and sizes | `TypeOK`, `TrainingSucceeds`, `LaunchesFit`, `GradientFollowsForward`, `ResultsAsPromised`, `ShardsAreGlobal` |
| `vmap_backward` | one vmap of the batched backward pass, 2 sequences in an example | finds gradients that change places (section 5) |

**Bounds.** Three devices are the least with a device that is neither the first
nor the last to see a block and with a block that travels past a device which must
skip it; a link of two messages lets a device be one iteration ahead and, when it
is full, blocked by its neighbour. The theorems of section 4 remove these bounds for
both passes, and cover the mode that is not causal, in which every device
attends in every iteration and there is less to get wrong. For the kernel, the lengths cover tiles that are full, partial and
empty on both axes, fewer, as many and more queries than keys; the windows
cover none, inside a tile, across tiles and at least the number of keys; the number of masking steps is
1 or 2, there are keys for one tile more than that, and the first loop is left both by its count and by its `break`. Key tiles have at
least three columns: the diagonal of a query tile of two rows never crosses a boundary
of key tiles of two, and one masking step fewer would then go unnoticed. Two warps suffice to race: every hazard is
between a warp that copies and a warp that reads.

For the split call, 2 or 3 splits, 1 to 4 key tiles, and devices both smaller and larger than the
one assumed when lowering let the run time choose fewer splits than allocated, as
many, and wish for more; masks empty whole splits. Lines of both heads
share a combine block and the last one is incomplete. For the backward column, three query tiles
are the least in which each half of the double buffer is reused. `FlashBwd` has 4 rows
where the code rounds to 128 and tiles of 2: sequences are empty, end inside a tile and at
a tile's end, and have one tile or two; with two key tiles two blocks
add to one row, and an empty sequence lies beside another. Without a third
sequence nothing is lost: only neighbours overlap. The head dimension is one the kernel pads, so that
rows overlap as well; the calls are those for which `AccumInBounds` holds all the same, and
`bwd_dim160` takes the others. Head dimensions that are not padded, and
batches that end with the rounded length, have the theorem `WritesStayInBuffer`. `Batching` needs two nested axes to
apply a rule to the result of another, and sizes 2 and 3 to tell the orders of two merged
factors apart; its theorems take away these bounds. `HostCall` has no bounds inside: its calls are chosen to lie on both sides of every
comparison on the way down. The head dimensions are next to each limit of `HEADDIM_SWITCH` and beyond
the last; the devices are one too old, one of each compute capability that has its own table entry (with
99, 163 and 227 KB of shared memory), and one too new; lengths are 0, 1, below and above a tile, and 65535
and 65536 sequences are the two sides of the grid's limit. Two calls on the A100 take four of the eight
splits that Python allocates, so that a padded head dimension has a split to spare; others take all. Sequences of a varlen call are empty
first, last and in between, so that fenceposts coincide, and every `seqused_k` of up to 3 keys is tried.

**Fairness.** The ring assumes weak fairness of each device's steps: the runtime
executes an operation whose operands are ready. The kernel assumes weak fairness of
each warp (resident warps are all scheduled), of each copy and of the barrier; so does
`bwd_column`. The other specifications state no liveness and have no fairness. No
strong fairness is assumed anywhere.

**Calls.** The kernel runs take as input every call within the bounds for which the
host keeps the window's meaning (`WindowKept`): at most as many queries as keys, or a
right window that is neither dropped nor made up. The run `fwd_window_longer_q` drops
this condition. `split_call` and `bwd_column` take the same. `vmap_rules` leaves out the calls
for which `mha_bwd_batch` is known to be wrong (`Narrow`), `vmap_backward` takes one of them.

## 4. The theorems

`RingProofs` proves, for every number of devices, both modes and every link
capacity (`RingAssumption`), that `FwdSpec` implies

* `ForwardInvariant`: `[]FwdIInv`;
* `ForwardTypeOK`, `ForwardOneBlock`, `ForwardNoNaN`, `ForwardExactlyOnce`;
* `ForwardRefines`: `FwdRefinesBlockAttention`.

The invariants are not inductive alone: nothing in `OneBlock` says what is on the
links. `FwdIInv` adds where every block is. After s hops device i holds block i - s
(mod N), `BlockAt(i, s)`; `FwdCarryInv` says it of the carry and of a result received,
`LinkInv` of every message on a link by its position, counting how many permutes each
end has started and completed; `FwdScanInv` says that a device that has left the scan
has nothing outstanding; `SumInv` that the sum has one term for each visible block
among the blocks of the first `FwdMerged(i)` iterations. As the blocks of N
consecutive iterations are all different (`RingArithmetic`), the sum is exact at the
end. `SwitchSelects` says that the switch of the code selects the mode the position
requires. There is one lemma per action (`AttendForward`, `StartPermuteForward`,
`DonePermuteForward`, `NextIterationForward`), and the refinement adds `AttendRefines`: a
merge adds exactly one wanted term that was not there, or none.

The second half of `RingProofs` proves the same of the backward ring: `BackwardTypeOK`, `BackwardOneBlock`,
`BackwardReturnedExact` and `BackwardRefines` follow from `BackwardInvariant`. Its `BwdIInv` says of every
gradient, wherever it is, exactly what it contains. `Grad(b, n)` is what the first n iterations have to add to
the gradient of block b; `GradInv` says that before iteration s device i carries
`Grad(b, s)` of the block b its successor holds, that it receives `Grad(b, s)` of its own block and that
adding the iteration's share makes it `Grad(b, s + 1)` (`OneMore`); `DkvLinkInv` says the same of each message on
a link by its position. `LedgerInv` says that what is in some gradient is what is in some dq: it is
disturbed when a device drops the gradients it has sent on, and holds because a copy with at least as much is
still on the link or with the next device, in one of three places (`NeverLost`). TLC checked this
`BwdIInv` on 3 devices before it was proved.

`FlashFwdKernelProofs` proves, for every tile size, number of warps and set of calls,
`TileInvariant`, `TilesAreReady` and `NothingReadPastKeys`. `TilesReady` alone
says nothing of the steps between two products. `TileInv` says for every program counter
which tile each warp is bound for, which of its slices may be torn and what its copies
will bring; that two warps on different sides of a barrier agree on the tile follows because a
barrier opens only when all wait at it. `RangeInv` adds that the tile number stays in
the range of the call, and which mode a copy has in it.

The same module proves the refinement, `KernelImplementsAttention` (`ImplementsAttention`), and
`TypeCorrect` (`TypeOK`). The hypotheses are two. `WindowsKept`: the frontend's lengths and windows, and none of
the windows that the host changes (section 5). `TilesDivide`: one tile size is a
multiple of the other. The code does not assert the second, but needs it: `n_masking_steps` is
`ceil(kBlockM / kBlockN)` for a causal mask on full tiles, which is the number of tiles across the diagonal
only if the tiles line up; with tiles of 3 queries and 4 keys, 6 queries and 8 keys, TLC finds a row that sees a
key of the future. `ForwardTilesDivide` of `HostCallProofs` proves it of every instance in the code.
The inductive invariant is `KernelInv`. `StepInv` ties the masking step to the tile number, so that the
second loop begins where the first ends. `OperandInv` says what a product has read: all columns of its tile, V with the rows
behind the last key cleared, and that O is staged before it is stored. `SumInv` says what a row has summed: exactly the columns it sees of
the tiles its warp has left behind (`SeenFrom`), each once. What makes a step keep it is in `FlashMaskProofs`, about a general call and tile: both loops mask alike, tiles of the
second loop are seen whole (`SecondLoopSeesAll`), of the first what the mask keeps is what is seen (`KeptIsSeen`), and the tiles
skipped at either end hold nothing that is seen (`BeforeEnd`, `BelowDiagonal`). `HostKeepsMask` identifies what is seen with the mask
of the tests. TLC checked `KernelInv` on the calls of `fwd_kernel` before it was proved.

`FlashBwdColumnProofs` proves `ColumnReady` (`OperandsReady`) and `ColumnInside` (`NoReadPastEnd`) for
every tile size, number of warps and set of calls, with one half of sQ or two and V in shared memory or
in registers, from `ColumnInvariant`. `ColumnInv` has a part for each warp alone and one for all.
`WarpInv` says of every program counter which tiles a warp's copies bring and that none is bound for a slice still to be
read (`Copies`), to which half of sQ its three pointers point (`Pointers`: the toggles of the code keep them
there by the parity of the tile, `Halves`), and what its slices of Q, dO, K, V, P and dS
hold; in particular a warp that has gone on to the next tile still has the Q and dS of the last one, which others may be
reading (`GoneOn`). `InStep` says that all warps wait for the same barrier next, on the same tile: a step of one
warp does not change which (`OneMoves`), and a barrier opens for all (`ReleaseColumn`). From `InStep` follows where the
others can be when one reads (`Together`), and from `WarpInv` of each of them that the operand is whole (`Ready`).
`FullTiles` and `Modes` are the arithmetic of copies: only the last tile visited can be
incomplete. TLC checked `ColumnInv` on the calls of `bwd_column` before it was proved.

The same module proves the refinement, `ColumnImplementsGradients` (`ImplementsGradients`), and `TypeCorrect`
(`TypeOK`). `WindowsKept` is the hypothesis of the forward kernel; `SomeQueries` is that a batched call has queries, which
the host checks (`FFI_CHECK(seqlen_q > 0)`): without queries a column block with full tiles would
not leave at once and would load query tile -1. The tile sizes need not divide one
another here, because the mask of a query tile is decided from the rows and columns of
that tile alone. The inductive invariant is `GradientInv`, `ColumnInv` with three more parts. `Places`: in the loop no warp is below the
least tile of the key tile, behind it exactly one below, and what was staged stays staged. `Kinds`: tiles and modes. `Sums`:
for each warp the rows that dv and dk of its columns have summed (`ColumnSums`) and the
columns added to dq for its rows (`RowSums`) are those that see one another in the tiles it has left, each once, dv, dq and dk each with
its own count of tiles left (`DoneV`, `DoneQ`, `DoneK`). A step of another kind does not disturb them
(`QuietSums`). A product keeps them because what the mask keeps of a visited tile is what is seen of it (`KeptMeans`,
with `RowsInRange`), a tile's rows follow those already summed (`PlusRows`), and of the tiles
not visited nothing is seen (`RowsAtEnds`, `LeftUnseen`, `NothingSeen`). `HostKeepsMask` then gives the mask of the tests (`Promised`).
TLC checked these parts on the calls of `bwd_column` before they were proved.

`SplitKVProofs` proves `EverySplitHasKeys` and, for head dimensions that the kernel does
not pad (`HeadDim = DRounded`, the assumption without which `split_dim160` fails),
`SplitsFitScratch`: all addresses written lie in the scratch sized for another number of
multiprocessors, and the lse that the combine kernel writes behind the last line lies in the memory
given out for lse (`LseInside`), which is a multiple of `Granule` floats; the code needs `Granule` to be a multiple
of the lines of a combine block, 16 at most, and the runtime's is 64. The argument is arithmetic: the heuristic stays below its cap
(`HeuristicRange`), `CeilDiv` is the least number of parts (`CeilDivLeast`), so an
eligible number of splits needs them all (`EligibleNeedsAll`). `ScratchInv` ties the number
of splits to the size allocated and is itself the theorem `ScratchInvariant`; `Chosen` keeps the eligibility.

The same module proves the refinement, `SplitsImplementAttention` (`ImplementsAttention`), with it
`CombinedLinesCorrect` (`LinesCorrect`, which fails in `split_dim160`), and `TypeCorrect` (`TypeOK`).
The hypotheses are `HeadDim = DRounded` and `TilesDivide` and `WindowsKept` of the forward kernel. A split sums its `Slab` of what a row
sees (`SumIsSlab`): masking the last tiles of every split, and not only the last of the row, is exact, and no
row is rescaled before it has seen a finite score (`NeverNaN`). Slabs are disjoint and together
all that is seen (`SlabsApart`, `SlabsCover`). Both kernels compute the same address for a unit of a line, and no two
share one (`WritesCell`, `ReadsCell`, `CellsApart`); without `HeadDim = DRounded` the first two are wrong.
The combine kernel's transposition holds the lse of every split, for every number of threads
that the rows of a block divide (`EverySplitHeld`; up to 128 splits, the most it is compiled for).
The inductive invariant is `LineInv`: in `PartsInv` a split block that has run has written its slabs and lse, in
`LinesInv` a combined line is what its row sees; `MergesSlabs` leads from one to the other once no split block is left. TLC
checked it on the calls of `split_call` before it was proved.

`FlashBwdProofs` proves `WritesStayInBuffer` (`AccumInBounds`) for every batch, length, tile size
and number of heads, if the head dimension is the kernel's own or, `Fits`, the call is varlen and
the padding less than a row: the 128 rows behind every sequence
then take it. `RowFits` places each row of each tile, `AddrFits` each float, and `BufferInv`
adds to the property that thread blocks work on tiles that begin inside their sequence.
Where `Fits` does not hold the run `bwd_dim160` shows the write.

It also proves `QueryGradientsAreExact` (`QueryGradientsExact`), `KeyGradientsAreExact`
(`KeyGradientsExact`) and `TypeCorrect` (`TypeOK`) of the same calls without `Fits`: where the kernel pads the head dimension the writes
behind `dq_accum` hurt others, never the gradients. None of the three is inductive: of a row that is not converted yet they say
nothing. `SumInv` says what memory holds in between. `StatsInv`: the dP_sum of every tile that a thread
block of the first kernel has passed is its rows' own; `AccumInv`: at the address of every row and column that
counts there are the shares of exactly the key tiles whose column block has gone past the row's tile (`Rest` is what is left
to do; `RestStep` says that a step strikes off one pair of a key tile and a query tile); `KeySumInv` the same of dk; `ConvertInv`
of dq. What makes a step local is `CellApart`: rows and columns that count have addresses of their own,
because an address is a number in a mixed base (`RadixApart`) and sequences lie behind one another (`Lengths`).
So whatever else a tile's address falls on pads some row or sequence, where its share is
zero (`ShareOfCell`); dP_sum has room for every row of a tile (`StatApart`, `TileRounded`). `GroupReads` says that the
heads summed are those that read a head of the keys. TLC checked `SumInv` on the calls of `bwd_launch` before it was proved.

`HostCallProofs` proves of every device with at least 99 KB of shared memory for a block (the least
of the compute capabilities the host lets pass) that the forward, split and backward
instance chosen for any head dimension fits: it asks for no more than the device has, addresses no more
than it asked for, and its tiles divide among its threads (`ForwardSuits`, `SplitSuits`,
`BackwardSuits`); that query tiles of the backward pass divide 128, to which scratch is rounded
(`QueryTilesDivideRounding`); that one tile size divides the other in the forward and split
kernel (`ForwardTilesDivide`); and that the host, which counts splits before an instance is chosen,
knows the split kernel's key tile (`HostKnowsSplitTile`). `BackwardShapesSuit` states for each
instance the least shared memory that suits it; the theorem compares it with the threshold in the code.

The same module proves every property of `host_call`, for every set of calls and devices that meets `HostCallAssumption` and
every number of devices along the sharded axis. The inductive invariant is `HostInv` (`HostInvariant`):

* `Passed`: a call has passed every test that lies before the point it has reached.
* `Lowered`: once lowered, the frame is the one of this pass and of `Mine`, a device's part of the call.
* `Written`: the parameters are functions of `Mine` and the device (`FwdParams`, `BwdParams`), for the passes whose
  implementation ran; and it ran only if `FwdRuns`, the checks said of the call instead of the frame. That
  the two are the same (`FwdAccepts` on the lowered frame) is where names sorted by the decoder, positions of operands and
  padded dimensions come in.
* `Scheduled`: kernels left to launch have their shared memory; if the first forward kernel can be launched, then
  the dimensions are such that all kernels of both passes can.
* `Trains`: a call outside `NoGradient` is never refused after its forward pass.

No property is inductive alone: each speaks of one moment of a pass, and what makes it true of the backward pass was tested in the forward pass.
`HostTypes` is `TypeOK`, `TrainingGoesThrough` `TrainingSucceeds`, `PromisesKept` `ResultsAsPromised` (one lemma for each result
that is padded, cut and gathered), `PartitionSound` `ShardsAreGlobal` (a device's heads begin at a multiple of the
group, so that dividing by the group's size commutes with the shift). `EverythingFits` is `LaunchesFit`: of the arrays sizes are products of
up to five dimensions (`Elements3`, ..., `Elements5`), of the scratch addresses are compared. Rows are moved `kHeadDim` apart where
it is laid out for `d_rounded`, which is at least half of that (`HeadDimWithin`). So a tile of rows takes at most
twice its rows of the scratch (`RowsReach`), and as it begins among the lines of its split it ends with the lines of the next one
(`LinesFit`): one split that is allocated and not taken holds what is too long (`ScratchFits`; the splits of a launch are at most those of
lowering, by `SplitPlan`). In `dq_accum` the last columns of a tile reach into the row behind it (`TileReach`), which is there
unless the tiles of a batched call fill the rounded length. A varlen call always has it, because the tiles of a sequence take
at most 127 rows more than the sequence, and its spare rows are 128 (`TilesShort`, `SequencesApart`). `SameKeysBackward` is
`GradientFollowsForward`: the windows as the two passes normalise them allow the same keys for every row, and the running sums of
`Ixl` and `Limit` at a key's position are its place in its sequence and the `seqused_k` of that sequence, also when sequences
are empty and share a fencepost.
TLC checked `HostInv` on the calls of `host_call` before it was proved.

`BatchingProofs` proves `ExamplesStayApart` (`ExamplesApart`) and `KeyGradientsSummed` (`KeysSummed`) for every set
of calls: any number of nested vmaps, of any size and any kinds there are rules for, any number of
sequences and heads, forward and backward, batched and varlen. The one hypothesis is `Narrow`: in a vmapped
`mha_bwd` at most one factor of the sequences is more than 1. That it is needed is what `vmap_backward` shows; a gradient
vmapped once over examples of one sequence, as in the tests, meets it.

Both properties speak of the last state only, and say nothing of the arrays on the way. `BatchingInv`
(`BatchingInvariant`) follows every element of the call's own arrays inwards. `Down` is where one rule puts an element; a
trail (`Trail`) where all rules so far have put it, one place per level, since the results will come back through
all levels. With trails `at` for query heads and `kat` for key heads it says

* `Numbers`: each shape is the one before it with one more axis merged (`Grown`), and as many axes are left;
* `Merging`, on the way in: the merged arrays hold, where the trail of an element ends, that element and its own query, and
  the key head this place reads is where the trail of the element's key ends. Everywhere else is what the varlen rule
  makes between two examples, and it reads keys that are nobody's either, so that no gradient sums it;
* `Splitting`, on the way out: the result of every element is where its trail says, and the gradient of a key head has all its readers;
* `Split` and `Ahead`: where `mha_bwd_batch` splits the wrong way round, one of the two factors is 1, and will be.

The kernel and the rules commute (`KeyDown`): the key head of an element, followed inwards, is the key head of the
place the element is followed to. This is where dividing by the ratio of heads meets the three ways of merging an axis,
into the sequences, into the query heads alone (more heads to a group), and into both. Backwards, a place in a merged array
either is between two examples or lies on exactly one trail (`FromAbove`). `BatchStep`, `KernelKeeps` and `UnbatchKeeps` then have the invariant
preserved by each action. TLC checks the two properties; `BatchingInv` quantifies over all functions and is not for it to evaluate.

Only model-checked: all liveness properties (fairness and ENABLED are outside the
prover's reach). Every invariant and every refinement the runs check has its theorem.
The provers cannot instantiate the library's induction theorems; the two places of `HostCallProofs`
that need induction argue from the least counterexample (`LeastOf`) instead
(`NatLessThanWellFounded`, `WFMin`): that a function can be defined by recursion (`Recursion`), and what a running sum over
fenceposts comes to (`RunningSum`).

## 5. Where the code and its reference differ

`fwd_window_longer_q`: the host replaces a missing right window by `seqlen_k`
(`flash_common.cpp:125`) and drops a right window of at least `seqlen_k`
(`mha_fwd.cpp:79`). Windows are aligned at the end of both sequences, so for more
queries than keys `row + seqlen_k - seqlen_q + seqlen_k` can still be below
`seqlen_k`: with 4 queries, 1 key and window (0, -1), row 0 attends to nothing,
while `tests/ref_mha.py:18-22` gives it column 0. The other runs show that this is the
only case: wherever `WindowKept` holds the kernel agrees with the reference.

`split_dim160`: the host rounds the head dimension to a multiple of 32 and lets a tile
of rows in the scratch begin at `row * d_rounded` (`mha_fwd.cpp:102`,
`flash_fwd_kernel.h:518`); the kernels put the rows of a tile `kHeadDim` apart (`:521`, `:1195`).
For head dimensions 129 to 160 and 193 to 224, whose `kHeadDim` is 192 or 256, the combine
kernel reads other rows than were written, and if a call takes all the splits that Python allocated the last rows of
the last split can lie behind `oaccum`. The README of the repository promises "all head
dimensions up to 256" (`README.md:67`).

`bwd_dim160`: for the same head dimensions `compute_dot_do_o` clears
`kBlockM` x `kHeadDim` floats in rows of `d_rounded`
(`flash_bwd_preprocess_kernel.h:92-94, 131-137`). In a batched call whose last tile ends with the rounded
length, the last row reaches 32 floats behind `dq_accum` and zeroes what is there. Within the
buffer the overlap is harmless (`bwd_launch`): all zeros are written before anything is added,
and what is added to padding columns is zero.

`vmap_backward`: `mha_bwd_batch` merges the mapped axis as `(x n)` and splits the results as
`(n x)` (`flash_bwd.py:151-155`). With more than one sequence in an example the gradients
of different examples change places; `tests/test_flash.py:155` has only one. With
one sequence and two nested vmaps they change places as well.

Not a disagreement with any document, but worth knowing: the combine kernel writes one lse for
every line of its last block, without a guard (`flash_fwd_kernel.h:1180`). `WithinScratch` says that these
writes stay in the buffer's padding, given that the runtime hands out memory in multiples of 256 bytes.
The rule of `mha_bwd_batch` for shared k and v (`flash_bwd.py:157-167`) returns one sum as dk and
dv. `KeysSummed` shows this to be the cotangent of a vmapped function; in the vmap of a
gradient each example would need its own.

`host_call` has its exceptions by name, each of them a difference between the two passes or between the
code and its documents:

* `NoGradient`: the backward pass refuses head dimensions above 192 on devices of compute capability
  8.6 and 8.9 (`mha_bwd.cpp:163-165`, `:308-310`), though `README.md:67` promises all dimensions up to 256 and the
  launch function has an instance for them; a varlen call with `max_seqlen_k = 0` is answered with zeros by
  the forward pass and ends the process in the backward pass, whose grid is empty; `seqused_k` fails in the
  backward pass if q and k have different total lengths, because the mask has the length of q (`varlen.py:38`),
  unless that is 1, when a single entry is broadcast; nor does an array of another length than the batch, which the
  forward pass notices only if its entries are of 32 bits (`api.h:1088`), have the shape the mask needs.
* `GradientFollowsForward` is not claimed of causal calls with `seqused_k`: the forward pass aligns the rows
  with the used keys, the backward pass with all of them (the tests skip the case, `tests/test_varlen.py:95-96`). Nor where
  `seqused_k` has 64-bit entries, which the forward pass ignores (`api.h:1088`) and the backward mask
  does not.
* `ShardsAreGlobal` holds because `partition_fwd` asserts that the length is not sharded
  (`flash_fwd.py:223`, "No ring attention yet"), while `README.md:44-46` says that sharding along the length uses ring attention.
  The other assertion there, that q, k and v have one sharding, also refuses grouped heads
  where only q's heads can be divided.
* `LaunchesFit` is not claimed of `oaccum` where the kernel pads the head dimension beyond `d_rounded` (129 to 160
  and 193 to 224, `KernelPads`) and the device takes every split allocated (`NoSpareSplit`), nor of `dq_accum` where it pads and the tiles
  of a batched call fill `seqlen_q_rounded` (`NoSpareRows`): rows of the scratch are as in `split_dim160` and `bwd_dim160`, and
  nothing lies behind the last of them. Nor is it claimed of k and v where an entry of `seqused_k` is more than the length of its
  sequence, which nothing checks.
* A batched forward call without queries, or with more than 65535 sequences, passes all checks and ends the
  process at the launch; the backward pass checks for queries (`FFI_CHECK(seqlen_q > 0)`). The varlen
  forward pass ignores the error that `set_params_fprop` returns. A `softmax_scale` that is a Python
  integer is refused at run time, when its attribute, of another type, does not decode.

## 6. Not modelled, and the plan

What is left: `HostCall` over more than one call. Calls share nothing but the stream, so that two of them add no new
state, but a vmapped and partitioned one would join `Batching` to it.

Never: GEMM numerics and layouts, dropout, alibi, rotary embedding, paged and
appended KV, softcap and the deterministic backward pass (compiled in part, never enabled by this
binding), `flash_sharding.py` (commented out), what the FFI headers offer beyond what the four
handlers use of them (other kinds of arguments, execution contexts, type registration, asynchronous results),
generated instantiations, build files.
