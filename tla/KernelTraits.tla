---------------------------- MODULE KernelTraits ----------------------------
(***************************************************************************)
(* Which instance of a kernel is launched, on which device, and what it    *)
(* needs there: the tables of flash_fwd_launch_template.h and              *)
(* flash_bwd_launch_template.h and the sizes of kernel_traits.h.           *)
(*                                                                         *)
(* A device is a record: its compute capability major, minor, the bytes of *)
(* shared memory a block may opt in to (smem_block) and a multiprocessor   *)
(* has (smem_sm), and its multiprocessors sms.  Sizes in bytes; an element *)
(* of q, k or v has two of them.                                           *)
(***************************************************************************)
EXTENDS Integers

HeadDims == {32, 64, 96, 128, 192, 256}

(* HEADDIM_SWITCH: the kernel compiled for the next larger head dimension. *)
HeadDim(d) == CHOOSE x \in HeadDims : d <= x /\ \A y \in HeadDims : d <= y => x <= y

Sm8x(dev) == dev.major = 8 /\ dev.minor > 0

-----------------------------------------------------------------------------
(* Forward: a tile of m query rows by n keys, and the warps sharing it.    *)
FwdShape(dim, m, n, warps) == [dim |-> dim, m |-> m, n |-> n, warps |-> warps]

Fwd96(dev, causal) ==
  FwdShape(96, IF Sm8x(dev) /\ causal THEN 64 ELSE 128, 64, 4)
Fwd128(dev, causal) ==
  IF ~ Sm8x(dev) THEN FwdShape(128, 128, 64, 4)
  ELSE IF causal THEN FwdShape(128, 64, 64, 4) ELSE FwdShape(128, 128, 32, 4)
Fwd256(dev) ==
  IF /\ dev.smem_block >= 2 * 256 * (128 + 2 * 64)
     /\ dev.smem_sm < 4 * 256 * (64 + 2 * 64)
  THEN FwdShape(256, 128, 64, 8) ELSE FwdShape(256, 64, 64, 4)

FwdTraits(dim, dev, causal) ==
  IF dim \in {32, 64} THEN FwdShape(dim, 128, 128, 4)
  ELSE IF dim = 96  THEN Fwd96(dev, causal)
  ELSE IF dim = 128 THEN Fwd128(dev, causal)
  ELSE IF dim = 192 THEN FwdShape(dim, 128, 64, 8)
  ELSE Fwd256(dev)

(* The split kernel: the same on every device.                             *)
SplitTraits(dim) ==
  FwdShape(dim, 64, IF dim <= 64 THEN 256 ELSE IF dim <= 128 THEN 128 ELSE 64, 4)

(* What the host takes that tile to be, from the head dimension itself.    *)
HostBlockN(d) == IF d <= 64 THEN 256 ELSE IF d <= 128 THEN 128 ELSE 64

(* The combine kernel: lines merged by a thread block.                     *)
CombineRows(dim) == IF dim % 128 = 0 THEN 4 ELSE IF dim % 64 = 0 THEN 8 ELSE 16

-----------------------------------------------------------------------------
(* Backward: sdp, dkv and dq are the warps along the rows of the products  *)
(* (S and dP, dK and dV, dQ); kv is 1 when V is kept in registers and only *)
(* K in shared memory, else 2; qs is the buffers of Q, two or one.         *)
BwdShape(dim, m, n, sdp, dkv, dq, kv, qs) ==
  [dim |-> dim, m |-> m, n |-> n, warps |-> 8, sdp |-> sdp, dkv |-> dkv, dq |-> dq,
   kv |-> kv, qs |-> qs]

Bwd64(dev) ==
  IF dev.smem_block >= 144 * 1024
  THEN BwdShape(64, 128, 128, 4, 4, 4, 2, 2)
  ELSE BwdShape(64, 64, 128, 2, 4, 4, 1, 2)
Bwd128(dev) ==
  IF dev.smem_block >= 144 * 1024
  THEN BwdShape(128, 64, 128, 2, 4, 2, 2, 2)
  ELSE BwdShape(128, 64, 64, 4, 2, 2, 1, 2)
Bwd192(dev) ==
  IF dev.smem_block >= 136 * 1024
  THEN BwdShape(192, 64, 64, 4, 2, 2, 2, 2)
  ELSE BwdShape(192, 64, 64, 4, 2, 2, 1, 1)
Bwd256(dev) ==
  IF dev.smem_block >= 176 * 1024 THEN BwdShape(256, 64, 64, 4, 2, 2, 2, 2)
  ELSE IF dev.smem_block >= 144 * 1024 THEN BwdShape(256, 64, 64, 4, 2, 2, 2, 1)
  ELSE BwdShape(256, 64, 32, 4, 1, 2, 1, 1)

BwdTraits(dim, dev) ==
  IF dim = 32 THEN BwdShape(dim, 128, 128, 4, 4, 4, 1, 2)
  ELSE IF dim = 64  THEN Bwd64(dev)
  ELSE IF dim = 96  THEN BwdShape(dim, 64, 128, 2, 4, 4, 1, 2)
  ELSE IF dim = 128 THEN Bwd128(dev)
  ELSE IF dim = 192 THEN Bwd192(dev)
  ELSE Bwd256(dev)

-----------------------------------------------------------------------------
(* Shared memory asked for at a launch.                                    *)
Larger(a, b) == IF a >= b THEN a ELSE b

FwdSmem(t) == t.m * t.dim * 2 + t.n * t.dim * 2 * 2

BwdSmem(t) ==                    \* kSmemSize1colblock
  LET qdo == t.m * t.dim * (t.qs + 1) * 2
      kv  == t.n * t.dim * 2 * 2
      ds  == t.m * t.n * 2       \* and p
  IN  qdo + (IF t.kv = 1 THEN Larger(kv, kv \div 2 + ds + ds) ELSE kv + ds + ds)

ConvertSmem(t) == t.m * t.dim * 2     \* kSmemdQSize

(* Where the kernels put their tensors in it: the first byte behind one.   *)
FwdTop(t) == (t.m * t.dim + t.n * t.dim + t.n * t.dim) * 2    \* sQ, sK, sV
FwdOut(t) == t.m * t.dim * 2                                  \* sO, over sQ
SplitOut(t) == t.m * t.dim * 4                                \* sOaccum, over all

BwdKeys(t)  == t.m * t.dim * (t.qs + 1) * 2  \* sK, behind sQ and sdO
BwdDS(t)    == BwdKeys(t) + t.n * t.dim * t.kv * 2
BwdTop(t)   == BwdDS(t) + t.m * t.n * 2 * 2                   \* sdS, sP
BwdLoad(t)  == BwdKeys(t) + t.n * t.dim * 2 * 2               \* sV, before it is in registers
BwdOut(t)   == BwdKeys(t) + t.n * t.dim * 2 * 2               \* sdK, sdV

(* Everything a kernel addresses lies in what its launch asks for.         *)
FwdFits(t)   == FwdTop(t) <= FwdSmem(t) /\ FwdOut(t) <= FwdSmem(t)
SplitFits(t) == FwdFits(t) /\ SplitOut(t) <= FwdSmem(t)
BwdFits(t)   == BwdTop(t) <= BwdSmem(t) /\ BwdLoad(t) <= BwdSmem(t) /\ BwdOut(t) <= BwdSmem(t)

-----------------------------------------------------------------------------
(* Rows of a tile that the threads of a block copy at a time, 8 elements   *)
(* each, and the tile of a matrix product of all warps: both must divide   *)
(* the block's tile, or rows of it would be nobody's.                      *)
SmemCols(t)    == IF t.dim % 64 = 0 THEN 64 ELSE 32           \* kBlockKSmem
RowsPerCopy(t) == (t.warps * 32) \div (SmemCols(t) \div 8)

FwdTiled(t) ==
  /\ t.m % RowsPerCopy(t) = 0 /\ t.n % RowsPerCopy(t) = 0
  /\ t.m % (16 * t.warps) = 0 /\ t.n % 16 = 0 /\ t.dim % 32 = 0

BwdTiled(t) ==
  /\ t.m % RowsPerCopy(t) = 0 /\ t.n % RowsPerCopy(t) = 0 /\ t.dim % 32 = 0
  /\ t.m % (16 * t.sdp) = 0 /\ t.n % (16 * (t.warps \div t.sdp)) = 0
  /\ t.n % (16 * t.dkv) = 0 /\ t.dim % (16 * (t.warps \div t.dkv)) = 0
  /\ t.m % (16 * t.dq) = 0 /\ t.dim % (16 * (t.warps \div t.dq)) = 0
  /\ t.n % (t.m \div t.warps) = 0                             \* SmemLayoutAtomKV
=============================================================================
