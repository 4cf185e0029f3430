----------------------------- MODULE FlashMask -----------------------------
(***************************************************************************)
(* The arithmetic that decides which key columns a query row attends to:   *)
(* how the host turns (is_causal, window_size) into kernel parameters      *)
(* (mha_fwd.cpp, flash_common.cpp), which tile of keys the kernel visits   *)
(* and which entries of a tile it masks (flash_fwd_kernel.h, mask.h), and  *)
(* the reference mask of the tests (ref_mha.py: make_mask).                *)
(*                                                                         *)
(* A call is a record: sq, sk are the lengths of one sequence of the batch *)
(* and max_sq, max_sk those the host knows; they differ only if varlen.    *)
(* wl, wr are window_size, -1 for unlimited.  even_k says that the head    *)
(* dimension is the kernel's own and at most 128 (IsEvenKConst).           *)
(***************************************************************************)
EXTENDS Integers

CONSTANTS kBlockM, kBlockN      \* rows of a query tile, of a key tile

ASSUME FlashMaskAssumption == kBlockM \in Nat \ {0} /\ kBlockN \in Nat \ {0}

-----------------------------------------------------------------------------
(* Integer division of C++ rounds towards zero, TLA+'s rounds down.        *)
Quot(a, b)    == IF a >= 0 THEN a \div b ELSE -((-a) \div b)
CeilDiv(a, b) == Quot(a + b - 1, b)
AtLeast(a, b) == IF a >= b THEN a ELSE b
AtMost(a, b)  == IF a <= b THEN a ELSE b

-----------------------------------------------------------------------------
(* The host.  A window as long as the keys is no window; causal is the     *)
(* window (unlimited, 0), except when there is a single query.             *)
Clamp(w, len) == IF w >= len THEN -1 ELSE w
HostCausal(c) == c.causal /\ c.max_sq # 1
HostLeft(c)   == Clamp(c.wl, c.max_sk)
HostRight(c)  ==
  IF c.varlen THEN Clamp(IF HostCausal(c) THEN 0 ELSE c.wr, c.max_sk)
  ELSE IF HostCausal(c) THEN 0 ELSE Clamp(c.wr, c.max_sk)

(* set_params_fprop: a one-sided window gets the key length on its other   *)
(* side.                                                                   *)
IsCausal(c)    == HostLeft(c) < 0 /\ HostRight(c) = 0
WindowLeft(c)  == IF HostLeft(c) < 0 /\ HostRight(c) >= 0 THEN c.max_sk ELSE HostLeft(c)
WindowRight(c) == IF HostLeft(c) >= 0 /\ HostRight(c) < 0 THEN c.max_sk ELSE HostRight(c)

(* run_flash_fwd: the template arguments of the kernel.                    *)
IsLocal(c) == (WindowLeft(c) >= 0 \/ WindowRight(c) >= 0) /\ ~ IsCausal(c)
IsEvenMN(c) ==
  /\ ~ c.varlen /\ c.sk % kBlockN = 0 /\ c.sq % kBlockM = 0
  /\ c.even_k /\ ~ IsLocal(c)

-----------------------------------------------------------------------------
(* The kernel: the key tiles n_block_min .. n_block_max - 1 it visits for  *)
(* query tile m, and how many of the last of them it masks.                *)
NBlockMinNoWindow(c, m) ==      \* counts from the row, forgets the window
  IF IsLocal(c) THEN AtLeast(0, Quot(m * kBlockM + c.sk - c.sq, kBlockN)) ELSE 0

NBlockMin(c, m) ==
  IF IsLocal(c)
  THEN AtLeast(0, Quot(m * kBlockM + c.sk - c.sq - WindowLeft(c), kBlockN))
  ELSE 0

NBlockMax(c, m) ==
  IF IsCausal(c) \/ IsLocal(c)
  THEN AtMost(CeilDiv(c.sk, kBlockN),
              CeilDiv((m + 1) * kBlockM + c.sk - c.sq + WindowRight(c), kBlockN))
  ELSE CeilDiv(c.sk, kBlockN)

EarlyExit(c, m) ==
  (IsCausal(c) \/ IsLocal(c) \/ ~ IsEvenMN(c)) /\ NBlockMax(c, m) <= NBlockMin(c, m)

NMaskingStepsEven(c) ==         \* the diagonal always ends on a tile boundary
  IF ~ IsCausal(c) /\ ~ IsLocal(c) THEN 1 ELSE CeilDiv(kBlockM, kBlockN)

NMaskingSteps(c) ==
  IF ~ IsCausal(c) /\ ~ IsLocal(c) THEN 1
  ELSE IF IsEvenMN(c) /\ IsCausal(c) THEN CeilDiv(kBlockM, kBlockN)
  ELSE CeilDiv(kBlockM, kBlockN) + 1

(* Mask::apply_mask on entry (row, col); masking is FALSE in the second    *)
(* loop, which passes neither Causal_mask nor Is_even_MN.                  *)
LimitLeft(c, row)  == AtLeast(0, row + c.sk - c.sq - WindowLeft(c))
LimitRight(c, row) == AtMost(c.sk, row + 1 + c.sk - c.sq + WindowRight(c))

MaskedOut(c, masking, row, col) ==
  \/ masking /\ IsCausal(c) /\ col >= LimitRight(c, row)
  \/ IsLocal(c) /\ (col >= LimitRight(c, row) \/ col < LimitLeft(c, row))
  \/ masking /\ ~ IsCausal(c) /\ ~ IsLocal(c) /\ ~ IsEvenMN(c) /\ col >= c.sk

-----------------------------------------------------------------------------
(* make_mask: both positions counted from the end of their sequence.       *)
Attends(c, row, col) ==
  /\ c.causal => row - c.sq >= col - c.sk
  /\ c.wl # -1 => col - c.sk >= row - c.sq - c.wl
  /\ c.wr # -1 => col - c.sk <= row - c.sq + c.wr
=============================================================================
