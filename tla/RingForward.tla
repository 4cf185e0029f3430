----------------------------- MODULE RingForward -----------------------------
(***************************************************************************)
(* ring_fwd of ring_attention.py: N devices hold one block of q, k and v   *)
(* each.  A device attends to the key block it holds, merges the result    *)
(* into its running output by log-sum-exp, and hands k, v and the index of *)
(* the block to the next device with three collective permutes.  After N   *)
(* iterations of the scan every device has seen every block.               *)
(*                                                                         *)
(* Each device runs its own instance of the program.  Inside one iteration *)
(* the data dependencies alone order the operations: a permute needs only  *)
(* the carry, the merge needs only the carry, the next iteration needs     *)
(* them all.  The start and the completion of a permute are separate       *)
(* steps, as the latency-hiding scheduler of the compiler separates them.  *)
(*                                                                         *)
(* A block is named by the device it started on; the numbers in a block    *)
(* are abstracted to the set of terms of the running output and to the     *)
(* class of the running log-sum-exp.                                       *)
(***************************************************************************)
EXTENDS Ring

Tensor == {"k", "v", "ix"}      \* what is permuted: k, v and k_ix
LseClass == {"-inf", "finite", "nan"}

VARIABLES
  carry,      \* the carried k, v (named by their block) and k_ix
  attended,   \* has this iteration's attention been merged?
  terms,      \* the terms summed in o: block of k, block of v, mode, iteration
  lse,        \* class of the carried lse
  recv,       \* the results of this iteration's permutes, or None
  link        \* link[i][c]: messages of permute c travelling to device i

fwdVars == <<iter, carry, attended, terms, lse, sent, recv, link>>

-----------------------------------------------------------------------------
FwdMode(i) == IF Causal THEN Branch(Cmp(carry[i]["ix"], i)) ELSE "full"

(* log1p(exp(mn - mx)) + mx, in IEEE arithmetic: two -inf give NaN.        *)
MergeLse(a, b) ==
  IF a = "nan" \/ b = "nan" THEN "nan"
  ELSE IF a = "-inf" /\ b = "-inf" THEN "nan" ELSE "finite"

-----------------------------------------------------------------------------
InitShifted ==      \* a ring whose first block is the neighbour's
  /\ iter = [i \in Device |-> 0]
  /\ carry = [i \in Device |-> [c \in Tensor |-> Succ(i)]]
  /\ attended = [i \in Device |-> FALSE]
  /\ terms = [i \in Device |-> {}]
  /\ lse = [i \in Device |-> "-inf"]
  /\ sent = [i \in Device |-> {}]
  /\ recv = [i \in Device |-> [c \in Tensor |-> None]]
  /\ link = [i \in Device |-> [c \in Tensor |-> <<>>]]

FwdInit ==
  /\ iter = [i \in Device |-> 0]
  /\ carry = [i \in Device |-> [c \in Tensor |-> i]]
  /\ attended = [i \in Device |-> FALSE]
  /\ terms = [i \in Device |-> {}]
  /\ lse = [i \in Device |-> "-inf"]
  /\ sent = [i \in Device |-> {}]
  /\ recv = [i \in Device |-> [c \in Tensor |-> None]]
  /\ link = [i \in Device |-> [c \in Tensor |-> <<>>]]

(* mha_fwd on the carried block, or the zero branch of the switch, and the *)
(* merge into o and lse.                                                   *)
AttendOverwrites(i) ==      \* the merge forgets the running output
  /\ iter[i] < N
  /\ ~ attended[i]
  /\ attended' = [attended EXCEPT ![i] = TRUE]
  /\ terms' = [terms EXCEPT ![i] =
       IF FwdMode(i) = "skip" THEN @
       ELSE {[k |-> carry[i]["k"], v |-> carry[i]["v"],
              mode |-> FwdMode(i), step |-> iter[i]]}]
  /\ lse' = [lse EXCEPT ![i] =
       MergeLse(@, IF FwdMode(i) = "skip" THEN "-inf" ELSE "finite")]
  /\ UNCHANGED <<iter, carry, sent, recv, link>>

Attend(i) ==
  /\ iter[i] < N
  /\ ~ attended[i]
  /\ attended' = [attended EXCEPT ![i] = TRUE]
  /\ terms' = [terms EXCEPT ![i] =
       IF FwdMode(i) = "skip" THEN @
       ELSE @ \cup {[k |-> carry[i]["k"], v |-> carry[i]["v"],
                     mode |-> FwdMode(i), step |-> iter[i]]}]
  /\ lse' = [lse EXCEPT ![i] =
       MergeLse(@, IF FwdMode(i) = "skip" THEN "-inf" ELSE "finite")]
  /\ UNCHANGED <<iter, carry, sent, recv, link>>

(* A permute starts: the carried value leaves for the next device.         *)
StartPermuteUnconditional(i, c) ==      \* may be started again and again
  /\ iter[i] < N
  /\ Len(link[Succ(i)][c]) < LinkCapacity
  /\ sent' = [sent EXCEPT ![i] = @ \cup {c}]
  /\ link' = [link EXCEPT ![Succ(i)][c] = Append(@, carry[i][c])]
  /\ UNCHANGED <<iter, carry, attended, terms, lse, recv>>

StartPermute(i, c) ==
  /\ iter[i] < N
  /\ c \notin sent[i]
  /\ Len(link[Succ(i)][c]) < LinkCapacity
  /\ sent' = [sent EXCEPT ![i] = @ \cup {c}]
  /\ link' = [link EXCEPT ![Succ(i)][c] = Append(@, carry[i][c])]
  /\ UNCHANGED <<iter, carry, attended, terms, lse, recv>>

(* The value of the previous device arrives.                               *)
DonePermute(i, c) ==
  /\ c \in sent[i]
  /\ recv[i][c] = None
  /\ link[i][c] # <<>>
  /\ recv' = [recv EXCEPT ![i][c] = Head(link[i][c])]
  /\ link' = [link EXCEPT ![i][c] = Tail(@)]
  /\ UNCHANGED <<iter, carry, attended, terms, lse, sent>>

(* The carry of the next iteration of the scan.                            *)
NextIterationOldIndex(i) ==     \* the index block is not replaced
  /\ attended[i]
  /\ \A c \in Tensor : recv[i][c] # None
  /\ iter' = [iter EXCEPT ![i] = @ + 1]
  /\ carry' = [carry EXCEPT ![i] = [recv[i] EXCEPT !["ix"] = carry[i]["ix"]]]
  /\ attended' = [attended EXCEPT ![i] = FALSE]
  /\ sent' = [sent EXCEPT ![i] = {}]
  /\ recv' = [recv EXCEPT ![i] = [c \in Tensor |-> None]]
  /\ UNCHANGED <<terms, lse, link>>

NextIterationUnawaited(i) ==    \* the result of k's permute is not awaited
  /\ attended[i]
  /\ \A c \in Tensor \ {"k"} : recv[i][c] # None
  /\ iter' = [iter EXCEPT ![i] = @ + 1]
  /\ carry' = [carry EXCEPT ![i] = recv[i]]
  /\ attended' = [attended EXCEPT ![i] = FALSE]
  /\ sent' = [sent EXCEPT ![i] = {}]
  /\ recv' = [recv EXCEPT ![i] = [c \in Tensor |-> None]]
  /\ UNCHANGED <<terms, lse, link>>

FwdNextIteration(i) ==
  /\ attended[i]
  /\ \A c \in Tensor : recv[i][c] # None
  /\ iter' = [iter EXCEPT ![i] = @ + 1]
  /\ carry' = [carry EXCEPT ![i] = recv[i]]
  /\ attended' = [attended EXCEPT ![i] = FALSE]
  /\ sent' = [sent EXCEPT ![i] = {}]
  /\ recv' = [recv EXCEPT ![i] = [c \in Tensor |-> None]]
  /\ UNCHANGED <<terms, lse, link>>

Finished == \A i \in Device : iter[i] = N

FwdStep(i) ==
  \/ Attend(i)
  \/ \E c \in Tensor : StartPermute(i, c) \/ DonePermute(i, c)
  \/ FwdNextIteration(i)

FwdNext ==
  \/ \E i \in Device : FwdStep(i)
  \/ Finished /\ UNCHANGED fwdVars

(* Every device keeps executing its program: the runtime does not abandon  *)
(* an operation whose operands are ready.                                  *)
Fairness == \A i \in Device : WF_fwdVars(FwdStep(i))

FwdSpec == FwdInit /\ [][FwdNext]_fwdVars
FwdFairSpec == FwdSpec /\ Fairness

-----------------------------------------------------------------------------
(* Types of the variables.                                                 *)
FwdTypeOK ==
  /\ iter \in [Device -> 0 .. N]
  /\ carry \in [Device -> [Tensor -> Device]]
  /\ attended \in [Device -> BOOLEAN]
  /\ terms \in [Device -> SUBSET [k : Device, v : Device,
                                  mode : {"causal", "full"}, step : 0 .. N - 1]]
  /\ lse \in [Device -> LseClass]
  /\ sent \in [Device -> SUBSET Tensor]
  /\ recv \in [Device -> [Tensor -> Device \cup {None}]]
  /\ link \in [Device -> [Tensor -> Seq(Device)]]

(* The three permutes of an iteration are independent collectives, yet the *)
(* k, the v and the index a device carries always belong to one block: the *)
(* mask of an iteration is chosen for the keys it is applied to.           *)
OneBlock == \A i \in Device : /\ carry[i]["k"] = carry[i]["ix"]
                              /\ carry[i]["v"] = carry[i]["ix"]

(* The merge never sees two -inf: the causal pass skips blocks, which      *)
(* contributes lse = -inf, and log1p(exp(-inf - -inf)) is NaN for good.    *)
(* It is the device's own block, attended first, that makes lse finite.    *)
NoNaN == \A i \in Device : lse[i] # "nan"

(* A device that leaves the scan has summed, for each block it may see,    *)
(* one term of that block's k and v in the right mode, and nothing else.   *)
ExactlyOnce ==
  \A i \in Device : iter[i] = N =>
    /\ \A x \in terms[i] : /\ x.k = x.v
                           /\ Sees(i, x.k)
                           /\ x.mode = WantMode(i, x.k)
    /\ \A b \in Device : Sees(i, b) => \E x \in terms[i] : x.k = b
    /\ \A x, y \in terms[i] : x.k = y.k => x = y

(* A message still on a link is counted by its position in the link.       *)
Started(i, c)  == iter[i] + (IF c \in sent[i] THEN 1 ELSE 0)
Received(i, c) == iter[i] + (IF recv[i][c] # None THEN 1 ELSE 0)
FwdMerged(i)   == iter[i] + (IF attended[i] THEN 1 ELSE 0)

FwdCarryInv ==
  \A i \in Device, c \in Tensor :
    /\ carry[i][c] = BlockAt(i, iter[i])
    /\ recv[i][c] # None => c \in sent[i] /\ recv[i][c] = BlockAt(i, iter[i] + 1)

LinkInv ==
  \A i \in Device, c \in Tensor :
    /\ Started(Pred(i), c) = Received(i, c) + Len(link[i][c])
    /\ \A j \in 1 .. Len(link[i][c]) :
         link[i][c][j] = BlockAt(i, Received(i, c) + j)

FwdScanInv == \A i \in Device : iter[i] = N => sent[i] = {} /\ ~ attended[i]

(* What has been summed: one term for each visible block among the first   *)
(* FwdMerged(i) blocks of device i's round, and a finite lse once there is *)
(* one.                                                                    *)
SumInv ==
  \A i \in Device :
    /\ \A x \in terms[i] : /\ x.step < FwdMerged(i)
                           /\ x.k = BlockAt(i, x.step)
                           /\ x.v = x.k
                           /\ Sees(i, x.k)
                           /\ x.mode = WantMode(i, x.k)
    /\ \A s \in 0 .. FwdMerged(i) - 1 :
         Sees(i, BlockAt(i, s)) => \E x \in terms[i] : x.k = BlockAt(i, s)
    /\ lse[i] = IF FwdMerged(i) = 0 THEN "-inf" ELSE "finite"

(* The inductive invariant: blocks rotate one hop per iteration whatever   *)
(* the interleaving of the permutes, and the sums follow the rotation.     *)
FwdIInv == FwdTypeOK /\ FwdCarryInv /\ LinkInv /\ FwdScanInv /\ SumInv

(* The pass refines the order-free specification: what a device has summed *)
(* are the terms of BlockAttention, each added once and never lost.        *)
Summed == {[q |-> i, blk |-> b, mode |-> m] :
             i \in Device, b \in Device, m \in {"causal", "full"}}
FwdDoneTerms == {y \in Summed :
                   \E x \in terms[y.q] : x.k = y.blk /\ x.v = y.blk /\ x.mode = y.mode}

FwdBA == INSTANCE BlockAttention WITH done <- FwdDoneTerms

FwdRefinesBlockAttention == FwdBA!Spec

(* Every device leaves the scan with all its terms.                        *)
AllAttended == <>(Finished /\ FwdDoneTerms = FwdBA!Wanted)
=============================================================================
