------------------------------ MODULE SplitPlan ------------------------------
(***************************************************************************)
(* Into how many splits the keys of a forward call are divided.  The       *)
(* decision is made twice: when the call is lowered (flash_fwd.py), for    *)
(* LoweringSMs multiprocessors, to size the scratch arrays; and when it is *)
(* launched (flash_common.cpp), for those of the device, bounded by the    *)
(* size of the scratch.                                                    *)
(***************************************************************************)
EXTENDS FlashMask

CONSTANTS LoweringSMs,     \* sm_count of flash_fwd.py
          MaxSplits        \* the most splits the combine kernel supports

ASSUME SplitPlanAssumption == LoweringSMs \in Nat \ {0} /\ MaxSplits \in 1 .. 128

(* Only numbers of splits that change the size of a split are eligible.    *)
EligibleLoose(blocks, s) == s <= blocks          \* never more splits than blocks

Eligible(blocks, s) ==
  s = 1 \/ CeilDiv(blocks, s) # CeilDiv(blocks, s - 1)

(* The least eligible number of splits that keeps the device at least 85%  *)
(* as busy as the best one.  The share of busy multiprocessors is          *)
(* units * s / (sms * Waves(s)), compared here by cross-multiplication.    *)
HeuristicUncapped(units, sms, blocks, cap) ==     \* forgets the scratch
  LET S        == {s \in 1 .. AtMost(sms, blocks) : Eligible(blocks, s)}
      Waves(s) == CeilDiv(units * s, sms)
      Busy     == {s \in S : \A t \in S : 100 * s * Waves(t) >= 85 * t * Waves(s)}
      First    == {s \in Busy : \A t \in Busy : s <= t}
  IN IF 5 * units >= 4 * sms \/ First = {} THEN 1 ELSE CHOOSE s \in First : TRUE

Heuristic(units, sms, blocks, cap) ==
  LET S        == {s \in 1 .. AtMost(cap, AtMost(sms, blocks)) : Eligible(blocks, s)}
      Waves(s) == CeilDiv(units * s, sms)
      Busy     == {s \in S : \A t \in S : 100 * s * Waves(t) >= 85 * t * Waves(s)}
      First    == {s \in Busy : \A t \in Busy : s <= t}
  IN IF 5 * units >= 4 * sms \/ First = {} THEN 1 ELSE CHOOSE s \in First : TRUE

-----------------------------------------------------------------------------
(* A shape: units is batch * heads * query tiles, sms the multiprocessors  *)
(* of the device, blocks the key tiles.                                    *)
Allocated(shape)      == Heuristic(shape.units, LoweringSMs, shape.blocks, MaxSplits)
LaunchedForDevice(shape, room) ==                 \* bounded by the device alone
  Heuristic(shape.units, shape.sms, shape.blocks, MaxSplits)
Launched(shape, room) == Heuristic(shape.units, shape.sms, shape.blocks, room)

PerSplit(blocks, splits) == CeilDiv(blocks, splits)
BlocksOf(blocks, splits, s) ==
  s * PerSplit(blocks, splits) .. AtMost(blocks, (s + 1) * PerSplit(blocks, splits)) - 1
=============================================================================
