------------------------------ MODULE HostCall ------------------------------
(***************************************************************************)
(* One training step through the host: a call of flash_mha or              *)
(* flash_mha_varlen and then its gradient, from Python (flash.py,          *)
(* varlen.py, flash_fwd.py, ...) across the foreign-function boundary      *)
(* (FfiDecode) into mha_fwd.cpp or mha_bwd.cpp, down to the kernels put on *)
(* the stream with their grids and shared memory (KernelTraits).           *)
(*                                                                         *)
(* A call is a record: varlen; the dimensions q and kv of its arrays       *)
(* (k and v alike) and their element types tq, tk, tv; scale, the type of  *)
(* softmax_scale, "None" for the default; causal, wl, wr; qaxis and kaxis, *)
(* the axis the arrays are sharded along ("none" for replicated).  A       *)
(* varlen call also has fenceposts cuq, cuk of type lens, used, has_used   *)
(* and its type tu for seqused_k, and max_q, max_k (-1 for the default).   *)
(***************************************************************************)
EXTENDS FfiDecode, KernelTraits

CONSTANTS Calls,         \* records call, dev: the calls considered, each on a device
          ND             \* devices along the sharded axis

VARIABLES call, dev,     \* the call and the device; they never change
          dir,           \* "forward", then "backward"
          pc,            \* what happens next to it
          frame,         \* the call frame, once lowered
          params,        \* the kernel parameters set so far, one record a pass
          todo,          \* the kernels the launch function has yet to launch
          queue          \* the stream: what this direction has put on it

vars == <<call, dev, dir, pc, frame, params, todo, queue>>

Plan == INSTANCE SplitPlan WITH kBlockM <- 64, kBlockN <- 64,
                                LoweringSMs <- 114, MaxSplits <- 128
CeilDiv(a, b)    == (a + b - 1) \div b
RoundTo(x, m)    == CeilDiv(x, m) * m         \* round_multiple
Dpad(d)          == (8 - (d % 8)) % 8

-----------------------------------------------------------------------------
(* Dimensions, by name.                                                    *)
Heads(c)    == c.q[Len(c.q) - 1]
HeadsK(c)   == c.kv[Len(c.kv) - 1]
Dim(c)      == c.q[Len(c.q)]
BatchOf(c)  == IF c.varlen THEN Len(c.cuq) - 1 ELSE c.q[1]
(* Lengths the kernels are told: the longest, if varlen.                   *)
MaxQ(c) == IF ~ c.varlen THEN c.q[2] ELSE IF c.max_q = -1 THEN c.q[1] ELSE c.max_q
MaxK(c) == IF ~ c.varlen THEN c.kv[2] ELSE IF c.max_k = -1 THEN c.kv[1] ELSE c.max_k
WithDim(dims, i, x) == [dims EXCEPT ![i] = x]
Padded(dims) == WithDim(dims, Len(dims), dims[Len(dims)] + Dpad(dims[Len(dims)]))
WithHeads(dims, h) == WithDim(dims, Len(dims) - 1, h)

Place(axis) == CHOOSE i \in 1 .. 4 : <<"n", "s", "h", "d">>[i] = axis

Length(cu, i) == cu[i + 1] - cu[i]

-----------------------------------------------------------------------------
(* What the callers provide.  The fenceposts of a varlen call are on the   *)
(* device and no check reads them; nor does one ask that its k and v have  *)
(* the head dimension of q.                                                *)
Call ==
  [varlen : BOOLEAN, q : Seq(Nat), kv : Seq(Nat), tq : STRING, tk : STRING, tv : STRING,
   scale : STRING, causal : BOOLEAN, wl : Int, wr : Int, qaxis : STRING, kaxis : STRING,
   lens : STRING, tu : STRING, cuq : Seq(Nat), cuk : Seq(Nat), has_used : BOOLEAN,
   used : Seq(Nat), max_q : Nat \cup {-1}, max_k : Nat \cup {-1}]

(* Fenceposts of sequences that follow one another in an array of so many  *)
(* rows, none of them longer than max.                                     *)
Fenceposts(cu, rows, max) ==
  /\ cu # << >> /\ cu[1] = 0 /\ cu[Len(cu)] <= rows
  /\ \A i, j \in DOMAIN cu : i <= j => cu[i] <= cu[j]
  /\ \A i \in 1 .. Len(cu) - 1 : Length(cu, i) <= max

(* An array of a batched call is sharded evenly, if at all.                *)
Shards(dims, axis) ==
  axis = "none" \/ (axis \in {"n", "s", "h", "d"} /\ dims[Place(axis)] % ND = 0)

Callable(c) ==
  /\ c \in Call
  /\ Len(c.q) = (IF c.varlen THEN 3 ELSE 4) /\ Len(c.kv) = Len(c.q)
  /\ Heads(c) > 0 /\ HeadsK(c) > 0 /\ Dim(c) > 0
  /\ ~ c.varlen => Shards(c.q, c.qaxis) /\ Shards(c.kv, c.kaxis) /\ ~ c.has_used
  /\ c.varlen =>
       /\ c.qaxis = "none" /\ c.kaxis = "none"
       /\ c.kv[3] = Dim(c)
       /\ Fenceposts(c.cuq, c.q[1], MaxQ(c)) /\ Fenceposts(c.cuk, c.kv[1], MaxK(c))

(* A device's attributes as the driver gives them; those the host accepts  *)
(* have 99 KB of shared memory for a block or more.                        *)
Device == [major : Nat, minor : Nat, smem_block : Nat, smem_sm : Nat, sms : Nat]
Enough(d) == d.smem_block >= 99 * 1024

ASSUME HostCallAssumption ==
  /\ ND \in Nat \ {0}
  /\ Calls \subseteq [call : Call, dev : Device]
  /\ \A x \in Calls :
       /\ Callable(x.call)
       /\ x.dev.major = 8 \/ (x.dev.major = 9 /\ x.dev.minor = 0) => Enough(x.dev)

-----------------------------------------------------------------------------
(* The asserts of flash_mha and flash_mha_fwd, and of flash_mha_varlen,    *)
(* flash_mha_varlen_fwd and its abstract evaluation.                       *)
SupportedTypes(c)  == c.tq = c.tk /\ c.tq = c.tv /\ c.tq \in {"BF16", "F16"}
BatchedAccepted(c) == SupportedTypes(c) /\ c.q[1] = c.kv[1] /\ c.q[4] = c.kv[4]
VarlenAccepted(c)  ==
  /\ SupportedTypes(c)
  /\ (c.wl # -1 \/ c.wr # -1) => ~ c.has_used
  /\ Len(c.cuq) = Len(c.cuk)
  /\ BatchOf(c) >= 1
FrontendAccepts(c) == IF c.varlen THEN VarlenAccepted(c) ELSE BatchedAccepted(c)

(* What the abstract evaluations announce.                                 *)
Announced(c, d) ==
  LET lse == IF c.varlen THEN <<BatchOf(c), Heads(c), MaxQ(c)>>
             ELSE <<c.q[1], c.q[3], c.q[2]>>
  IN  IF d = "forward" THEN <<Buf(c.tq, c.q), Buf("F32", lse)>>
      ELSE <<Buf(c.tq, c.q), Buf(c.tk, c.kv), Buf(c.tv, c.kv)>>

-----------------------------------------------------------------------------
(* Sharding.  Every device lowers its own part of the arrays; lse has the  *)
(* axes n, h, s of q.                                                      *)
Part(dims, axis) ==
  IF axis = "none" THEN dims ELSE WithDim(dims, Place(axis), dims[Place(axis)] \div ND)
Whole(dims, place) == WithDim(dims, place, dims[place] * ND)

PartitionFwdRing(c) ==                        \* lets the length be sharded
  c.qaxis = c.kaxis /\ c.qaxis # "d"
PartitionFwd(c) == c.qaxis = c.kaxis /\ c.qaxis \notin {"d", "s"}
PartitionBwd(c) == c.qaxis \notin {"d", "s"}  \* dout and out are sharded as q

Local(c) == [c EXCEPT !.q = Part(c.q, c.qaxis), !.kv = Part(c.kv, c.kaxis)]

-----------------------------------------------------------------------------
(* Lowering: the call frames.  Scratch is a result of the call like any    *)
(* other; only the head dimension is padded, to a multiple of 8.           *)
LseDims(c) == Announced(c, "forward")[2].dims
Scale(c)   == Attr("softmax_scale", IF c.scale = "None" THEN "F64" ELSE c.scale, 0)
Flags(c)   == <<Attr("is_causal", "PRED", c.causal)>>
Windows(c) ==
  <<Attr("window_size_left", "S64", c.wl), Attr("window_size_right", "S64", c.wr)>>
MaxLens(c, type) ==
  <<Attr("max_seqlen_k", type, MaxK(c)), Attr("max_seqlen_q", type, MaxQ(c))>>
Zero       == <<Attr("zero_tensors", "PRED", FALSE)>>
Deterministic == <<Attr("deterministic", "PRED", FALSE)>>

QKV(c)  == <<Buf(c.tq, Padded(c.q)), Buf(c.tk, Padded(c.kv)), Buf(c.tv, Padded(c.kv))>>
Lens(c) == <<Buf(c.lens, <<Len(c.cuq)>>), Buf(c.lens, <<Len(c.cuk)>>)>>

FwdFrame(c) ==
  LET splits == Plan!Heuristic(BatchOf(c) * Heads(c) * Larger(1, CeilDiv(MaxQ(c), 64)), 114,
                               Larger(1, CeilDiv(MaxK(c), HostBlockN(Dim(c)))), 128)
      oaccum == <<splits, BatchOf(c), MaxQ(c), Heads(c), RoundTo(Dim(c), 32)>>
  IN  [args |-> IF ~ c.varlen THEN QKV(c)
                ELSE QKV(c) \o Lens(c)
                     \o (IF c.has_used THEN <<Buf(c.tu, <<Len(c.used)>>)>> ELSE << >>),
       rets |-> <<Buf(c.tq, Padded(c.q)), Buf("F32", LseDims(c)), Buf("F32", oaccum),
                  Buf("F32", <<splits>> \o LseDims(c))>>,
       attrs |-> Flags(c) \o (IF c.varlen THEN MaxLens(c, "S32") ELSE << >>)
                 \o <<Scale(c)>> \o Windows(c) \o (IF c.varlen THEN Zero ELSE << >>)]

(* dk and dv have a head for every head of q; their sum over a group is    *)
(* taken afterwards.                                                       *)
GradKV(c) == WithHeads(Padded(c.kv), Heads(c))

VarlenBwdScaleWide == Attr("softmax_scale", "F64", 0)
VarlenBwdScale     == Attr("softmax_scale", "F32", 0)

(* The accumulator of dq; sequences of a varlen call are kept apart by 128 *)
(* rows, the largest tile.                                                 *)
DqAccumBetween(c) ==             \* as if only between sequences
  LET d == RoundTo(Dim(c) + Dpad(Dim(c)), 32)
  IN  IF c.varlen THEN <<c.q[1] + 128 * (BatchOf(c) - 1), Heads(c), d>>
      ELSE <<BatchOf(c), RoundTo(MaxQ(c), 128), Heads(c), d>>
DqAccum(c) ==
  LET d == RoundTo(Dim(c) + Dpad(Dim(c)), 32)
  IN  IF c.varlen THEN <<c.q[1] + 128 * BatchOf(c), Heads(c), d>>
      ELSE <<BatchOf(c), RoundTo(MaxQ(c), 128), Heads(c), d>>

BwdFrame(c) ==
  LET softmax_d == <<BatchOf(c), Heads(c), RoundTo(MaxQ(c), 128)>>
  IN  [args |-> <<Buf(c.tq, Padded(c.q))>> \o QKV(c)
                \o <<Buf(c.tq, Padded(c.q)), Buf("F32", LseDims(c))>>
                \o (IF c.varlen THEN Lens(c) ELSE << >>),
       rets |-> <<Buf(c.tq, Padded(c.q)), Buf(c.tk, GradKV(c)), Buf(c.tv, GradKV(c)),
                  Buf("F32", softmax_d), Buf("F32", DqAccum(c))>>,
       attrs |-> Deterministic \o Flags(c) \o (IF c.varlen THEN MaxLens(c, "S64") ELSE << >>)
                 \o <<IF c.varlen THEN VarlenBwdScale ELSE Scale(c)>> \o Windows(c)
                 \o (IF c.varlen THEN Zero ELSE << >>)]

(* What the lowering makes of the results: the padding is cut off, groups  *)
(* are summed.                                                             *)
CutUnsliced(buf, c) == buf                              \* forgets the padding
Cut(buf, c) == [buf EXCEPT !.dims = WithDim(@, Len(@), Dim(c))]
Returned(c, d, f) ==
  IF d = "forward" THEN <<Cut(f.rets[1], c), f.rets[2]>>
  ELSE LET kv(i) == [Cut(f.rets[i], c) EXCEPT !.dims = WithHeads(@, HeadsK(c))]
       IN  <<Cut(f.rets[1], c), kv(2), kv(3)>>

-----------------------------------------------------------------------------
(* The implementations, from the decoded frame.  They know the arrays by   *)
(* their dimensions: B, M, N, H, HK, D, of a frame whose q is argument j.  *)
Handler == IF dir = "forward" THEN IF call.varlen THEN MhaVarlenFwd ELSE MhaFwd
           ELSE IF call.varlen THEN MhaVarlenBwd ELSE MhaBwd
At(name) == Value(Handler, frame, name)
J        == IF dir = "forward" THEN 1 ELSE 2
QDims    == frame.args[J].dims
KDims    == frame.args[J + 1].dims
Fences   == frame.args[IF dir = "forward" THEN 4 ELSE 7].dims[1]
B  == IF call.varlen THEN Fences - 1 ELSE QDims[1]
M  == IF call.varlen THEN At("max_seqlen_q") ELSE QDims[2]
N  == IF call.varlen THEN At("max_seqlen_k") ELSE KDims[2]
H  == QDims[Len(QDims) - 1]
HK == KDims[Len(KDims) - 1]
D  == QDims[Len(QDims)]

Sm8xAny == dev.major = 8
Sm90    == dev.major = 9 /\ dev.minor = 0

SameTypes ==
  /\ frame.args[J].dtype \in {"F16", "BF16"}
  /\ \A i \in (1 .. J + 2) \cup (IF J = 1 THEN {} ELSE {5}) :
       frame.args[i].dtype = frame.args[J].dtype
  /\ \A i \in IF J = 1 THEN {1} ELSE 1 .. 3 : frame.rets[i].dtype = frame.args[J].dtype

UsedAccepted == OptionalGiven(Handler, frame) => frame.args[6].dims = <<B>>

FwdAccepts ==
  /\ Sm8xAny \/ Sm90
  /\ SameTypes
  /\ B > 0 /\ D <= 256 /\ H % HK = 0
  /\ ~ call.varlen => D % 8 = 0
  /\ UsedAccepted

BwdAccepts ==                    \* before anything is put on the stream
  /\ Sm8xAny \/ Sm90
  /\ SameTypes
  /\ B > 0 /\ D % 8 = 0 /\ D <= 256 /\ H % HK = 0
  /\ D > 192 => (dev.major = 8 /\ dev.minor = 0) \/ Sm90

(* Whether the call is causal and the window, after the host's             *)
(* normalisation; its order differs between the four implementations.      *)
Clamp(w)  == IF w >= N THEN -1 ELSE w
Causal    == At("is_causal") /\ (dir = "forward" => M # 1)
Left      == Clamp(At("window_size_left"))
Right     ==
  IF dir = "forward" /\ ~ call.varlen
  THEN IF Causal THEN 0 ELSE Clamp(At("window_size_right"))
  ELSE Clamp(IF Causal THEN 0 ELSE At("window_size_right"))

RatioSwapped(h, hk) == hk \div h
Ratio(h, hk) == h \div hk                     \* query heads that share a key head

SetParams ==                     \* set_params_fprop
  [used |-> OptionalGiven(Handler, frame), b |-> B, sq |-> M, sk |-> N, h |-> H, hk |-> HK,
   d |-> IF J = 1 THEN RoundTo(D, 8) ELSE D,
   d_rounded |-> RoundTo(D, 32), sq_rounded |-> RoundTo(M, 128), ratio |-> Ratio(H, HK),
   causal |-> Left < 0 /\ Right = 0,
   wl |-> IF Left < 0 /\ Right >= 0 THEN N ELSE Left,
   wr |-> IF Left >= 0 /\ Right < 0 THEN N ELSE Right,
   splits |-> IF J = 2 \/ call.varlen THEN 0
              ELSE Plan!Heuristic(B * H * CeilDiv(M, 64), dev.sms,
                                  CeilDiv(N, HostBlockN(D)), frame.rets[3].dims[1])]

-----------------------------------------------------------------------------
(* The launch functions.  A kernel is put on the stream with its grid and  *)
(* its dynamic shared memory; if the device refuses one the process ends.  *)
Kernel(op, x, y, z, smem) == [op |-> op, grid |-> <<x, y, z>>, smem |-> smem]
Memset(op)                == Kernel(op, 1, 1, 1, 0)

FwdKernels(p) ==
  LET t == FwdTraits(HeadDim(p.d), dev, p.causal)
  IN  <<Kernel("fwd", CeilDiv(p.sq, t.m), p.b, p.h, FwdSmem(t))>>

SplitKernels(p) ==
  LET t == SplitTraits(HeadDim(p.d))
  IN  <<Kernel("split", CeilDiv(p.sq, t.m), p.splits, p.b * p.h, FwdSmem(t)),
        Kernel("combine", CeilDiv(p.b * p.h * p.sq, CombineRows(t.dim)), 1, 1, 0)>>

BwdKernels(p) ==
  LET t == BwdTraits(HeadDim(p.d), dev)
      m == CeilDiv(p.sq, t.m)
  IN  <<Kernel("dot_do_o", m, p.b, p.h, 0),
        Kernel("dq_dk_dv", CeilDiv(p.sk, t.n), p.b, p.h, BwdSmem(t)),
        Kernel("convert_dq", m, p.b, p.h, ConvertSmem(t))>>

LaunchOk(k) ==
  /\ \A i \in 1 .. 3 : k.grid[i] >= 1
  /\ k.grid[2] <= 65535 /\ k.grid[3] <= 65535
  /\ k.smem <= dev.smem_block

-----------------------------------------------------------------------------
(* _flash_mha_varlen_vjp_bwd: the backward kernels do not know seqused_k;  *)
(* K, V, dK and dV are multiplied by a mask over the key positions, which  *)
(* is built with the length of q.  A single entry is broadcast.            *)
MaskLen(c)    == c.q[1]
(* The running sum, at t, of values scattered to fences.                   *)
Scattered(fences, values, t) ==
  LET sum[i \in 0 .. Len(values)] ==
        IF i = 0 THEN 0 ELSE sum[i - 1] + (IF fences[i] <= t THEN values[i] ELSE 0)
  IN  sum[Len(values)]
Ixl(c, t)     ==
  t - Scattered(Tail(c.cuk), [i \in 1 .. Len(c.cuk) - 1 |-> Length(c.cuk, i)], t)
LimitAbsolute(c, t) ==           \* forgets to take back the previous sequence's
  Scattered(c.cuk, c.used, t)
Limit(c, t)   ==
  Scattered(c.cuk, [i \in DOMAIN c.used |->
                      c.used[i] - (IF i = 1 THEN 0 ELSE c.used[i - 1])], t)
MaskFits(c)   ==                 \* as the shapes broadcast
  c.has_used => MaskLen(c) \in {1, c.kv[1]} /\ Len(c.used) \in {1, Len(c.cuk) - 1}
KeyKept(c, t) ==
  LET place == IF MaskLen(c) = 1 THEN 0 ELSE t
  IN  c.has_used => Ixl(c, place) < Limit(c, place)

-----------------------------------------------------------------------------
Init ==
  /\ \E x \in Calls : call = x.call /\ dev = x.dev
  /\ dir = "forward" /\ pc = "trace"
  /\ frame = [args |-> << >>, rets |-> << >>, attrs |-> << >>]
  /\ params = << >> /\ todo = << >> /\ queue = << >>

(* Python: the frontend, or the backward rule.                             *)
Trace ==
  /\ pc = "trace"
  /\ pc' = IF (IF dir = "forward" THEN FrontendAccepts(call) ELSE MaskFits(call))
           THEN "partition" ELSE "rejected"
  /\ UNCHANGED <<call, dev, dir, frame, params, todo, queue>>

(* Varlen calls have no partitioning rule: they run unsharded.             *)
Partition ==
  /\ pc = "partition"
  /\ pc' = IF call.varlen
              \/ (IF dir = "forward" THEN PartitionFwd(call) ELSE PartitionBwd(call))
           THEN "lower" ELSE "rejected"
  /\ UNCHANGED <<call, dev, dir, frame, params, todo, queue>>

Lower ==
  /\ pc = "lower"
  /\ frame' = IF dir = "forward" THEN FwdFrame(Local(call)) ELSE BwdFrame(Local(call))
  /\ pc' = "handler"
  /\ UNCHANGED <<call, dev, dir, params, todo, queue>>

Decode ==
  /\ pc = "handler"
  /\ pc' = IF Decodes(Handler, frame) THEN "check" ELSE "failed"
  /\ UNCHANGED <<call, dev, dir, frame, params, todo, queue>>

Refuse ==
  /\ pc = "check"
  /\ ~ (IF dir = "forward" THEN FwdAccepts ELSE BwdAccepts)
  /\ pc' = "failed"
  /\ UNCHANGED <<call, dev, dir, frame, params, todo, queue>>

(* mha_fwd_impl and mha_varlen_fwd_impl: without keys the first fails, the *)
(* second clears its results.                                              *)
AcceptFwd ==
  /\ pc = "check" /\ dir = "forward" /\ FwdAccepts
  /\ params' = Append(params, SetParams)
  /\ todo' = IF N = 0 THEN << >>
             ELSE IF SetParams.splits > 1 THEN SplitKernels(SetParams)
             ELSE FwdKernels(SetParams)
  /\ queue' = queue \o (IF N = 0 /\ call.varlen THEN <<Memset("out"), Memset("lse")>> ELSE << >>)
  /\ pc' = IF N = 0 /\ ~ call.varlen THEN "failed" ELSE "launch"
  /\ UNCHANGED <<call, dev, dir, frame>>

(* mha_bwd_impl and mha_varlen_bwd_impl: the accumulator is cleared before *)
(* the last check.                                                         *)
AcceptBwd ==
  /\ pc = "check" /\ dir = "backward" /\ BwdAccepts
  /\ params' = Append(params, SetParams)
  /\ queue' = Append(queue, Memset("dq_accum"))
  /\ todo' = IF M > 0 THEN BwdKernels(SetParams) ELSE << >>
  /\ pc' = IF M > 0 THEN "launch" ELSE "failed"
  /\ UNCHANGED <<call, dev, dir, frame>>

LaunchKernel ==
  /\ pc = "launch" /\ todo # << >>
  /\ LaunchOk(Head(todo))
  /\ queue' = Append(queue, Head(todo)) /\ todo' = Tail(todo)
  /\ UNCHANGED <<call, dev, dir, pc, frame, params>>

LaunchAborts ==
  /\ pc = "launch" /\ todo # << >>
  /\ ~ LaunchOk(Head(todo))
  /\ pc' = "aborted"
  /\ UNCHANGED <<call, dev, dir, frame, params, todo, queue>>

Return ==
  /\ pc = "launch" /\ todo = << >>
  /\ pc' = "returned"
  /\ UNCHANGED <<call, dev, dir, frame, params, todo, queue>>

(* The call was differentiated: its gradient follows.                      *)
Differentiate ==
  /\ pc = "returned" /\ dir = "forward"
  /\ dir' = "backward" /\ pc' = "trace"
  /\ UNCHANGED <<call, dev, frame, params, todo, queue>>

Next ==
  \/ Trace \/ Partition \/ Lower \/ Decode
  \/ Refuse \/ AcceptFwd \/ AcceptBwd
  \/ LaunchKernel \/ LaunchAborts \/ Return \/ Differentiate

Spec == Init /\ [][Next]_vars

-----------------------------------------------------------------------------
(* Every variable has its type; the heads of a group are a positive whole  *)
(* number and the splits what the combine kernel can merge.                *)
TypeOK ==
  /\ [call |-> call, dev |-> dev] \in Calls
  /\ dir \in {"forward", "backward"}
  /\ pc \in {"trace", "partition", "lower", "handler", "check", "launch", "returned",
             "rejected", "failed", "aborted"}
  /\ Len(params) <= IF dir = "forward" THEN 1 ELSE 2
  /\ \A i \in DOMAIN params :
       LET p == params[i]
       IN  p.ratio * p.hk = p.h /\ p.b >= 1 /\ p.splits \in 0 .. 128 /\ p.d % 8 = 0

(* A call whose forward pass succeeds can be differentiated.  The          *)
(* exceptions are those below: head dimensions above 192 on a device       *)
(* without the shared memory for it (mha_bwd.cpp:163), a varlen call told  *)
(* that it has no keys, which the forward pass answers with zeros and the  *)
(* backward pass with an empty grid, and seqused_k with keys of another    *)
(* total length than the queries (varlen.py:38), or of another length than *)
(* the batch if the forward pass ignored it for its type (api.h:1080).     *)
NoGradient(c, d) ==
  \/ Dim(c) + Dpad(Dim(c)) > 192 /\ ~ (d.minor = 0 /\ d.major \in {8, 9})
  \/ c.varlen /\ MaxK(c) = 0
  \/ c.has_used /\ ~ MaskFits(c)

TrainingSucceeds ==
  dir = "backward" /\ pc \in {"rejected", "failed", "aborted"} => NoGradient(call, dev)

(* What the kernels address of each buffer lies in the buffer the lowering *)
(* allocated, which was computed without the device, and what they ask of  *)
(* shared memory is there.  Addresses in elements: the first behind what   *)
(* is addressed.  The scratch is laid out for rows of d_rounded, but the   *)
(* kernels move rows of kHeadDim, which for head dimensions of 129 to 160  *)
(* and 193 to 224 are longer.  These can overrun the scratch in two cases, *)
(* of which nothing is claimed: a call with all the splits it has scratch  *)
(* for and a batched call whose query tiles fill the rounded length.       *)
KernelPads(p)      == HeadDim(p.d) > p.d_rounded
NoSpareSplit(p)    == p.splits = frame.rets[3].dims[1]
NoSpareRows(p, m)  == ~ call.varlen /\ RoundTo(p.sq, m) = p.sq_rounded

Lesser(a, b)       == IF a <= b THEN a ELSE b
Granule            == 64         \* floats in 256 bytes, the unit of device memory
Rows(p, cu, len)   == IF call.varlen THEN cu[Len(cu)] ELSE p.b * len
Queries(p, i)      == IF call.varlen THEN Length(call.cuq, i) ELSE p.sq

(* The keys of sequence i, as the forward kernels count them.              *)
KeysEnd(p, i) ==
  IF ~ call.varlen THEN i * p.sk
  ELSE call.cuk[i] + (IF p.used THEN call.used[i] ELSE Length(call.cuk, i))
UsedWithin(p) == p.used => \A i \in 1 .. p.b : call.used[i] <= Length(call.cuk, i)

(* Rows of scratch from row on, kHeadDim apart, the columns below d.       *)
RowsEnd(p, row, rows) == row * p.d_rounded + (rows - 1) * HeadDim(p.d) + p.d

(* The split kernel writes tiles of oaccum, of head i of the batch; the    *)
(* combine kernel reads blocks of k lines, and writes lse for whole ones.  *)
ScratchInBounds(p) ==
  LET m     == SplitTraits(HeadDim(p.d)).m
      k     == CombineRows(HeadDim(p.d))
      lines == p.b * p.h * p.sq
      Split(s, i, x) ==
        RowsEnd(p, (s * (p.b * p.h) + i) * p.sq + x * m, Lesser(m, p.sq - x * m))
      Combine(s, x)  == RowsEnd(p, s * lines + x * k, Lesser(k, lines - x * k))
  IN  /\ ~ (KernelPads(p) /\ NoSpareSplit(p)) =>
           \A s \in 0 .. p.splits - 1 :
             /\ \A i \in 0 .. p.b * p.h - 1, x \in 0 .. CeilDiv(p.sq, m) - 1 :
                  Split(s, i, x) <= Elements(frame.rets[3])
             /\ \A x \in 0 .. CeilDiv(lines, k) - 1 :
                  Combine(s, x) <= Elements(frame.rets[3])
      /\ p.splits * lines <= Elements(frame.rets[4])
      /\ RoundTo(lines, k) <= RoundTo(Elements(frame.rets[2]), Granule)

FwdInBounds(p) ==
  LET q == Rows(p, call.cuq, p.sq) * p.h * p.d
  IN  /\ q <= Elements(frame.args[1]) /\ q <= Elements(frame.rets[1])
      /\ UsedWithin(p) => \A i \in 1 .. p.b, j \in {2, 3} :
                            KeysEnd(p, i) * p.hk * p.d <= Elements(frame.args[j])
      /\ p.b * p.h * p.sq <= Elements(frame.rets[2])
      /\ p.splits > 1 => ScratchInBounds(p)

(* The kernels clear, add to and read whole tiles of dq_accum, and of the  *)
(* row sums of dP: tile x of m rows, of head j of sequence i.              *)
FirstRow(p, i) == IF call.varlen THEN call.cuq[i] + 128 * (i - 1) ELSE (i - 1) * p.sq_rounded
TileEnd(p, m, i, x, j) ==
  ((FirstRow(p, i) + (x + 1) * m - 1) * p.h + j) * p.d_rounded + HeadDim(p.d)
SumsEnd(p, m, i, x, j) == ((i - 1) * p.h + j) * p.sq_rounded + (x + 1) * m

AccumInBounds(p) ==
  LET m == BwdTraits(HeadDim(p.d), dev).m
  IN  \A i \in 1 .. p.b, j \in 0 .. p.h - 1 : \A x \in 0 .. CeilDiv(Queries(p, i), m) - 1 :
        /\ SumsEnd(p, m, i, x, j) <= Elements(frame.rets[4])
        /\ ~ (KernelPads(p) /\ NoSpareRows(p, m)) =>
             TileEnd(p, m, i, x, j) <= Elements(frame.rets[5])

BwdInBounds(p) ==
  LET q   == Rows(p, call.cuq, p.sq) * p.h * p.d
      kv  == Rows(p, call.cuk, p.sk) * p.hk * p.d
      dkv == Rows(p, call.cuk, p.sk) * p.h * p.d
  IN  /\ \A i \in {1, 2, 5} : q <= Elements(frame.args[i])
      /\ kv <= Elements(frame.args[3]) /\ kv <= Elements(frame.args[4])
      /\ p.b * p.h * p.sq <= Elements(frame.args[6])
      /\ q <= Elements(frame.rets[1])
      /\ dkv <= Elements(frame.rets[2]) /\ dkv <= Elements(frame.rets[3])
      /\ AccumInBounds(p)

LaunchesFit ==
  pc = "launch" /\ todo # << >> =>
    /\ IF dir = "forward" THEN FwdInBounds(params[1]) ELSE BwdInBounds(params[2])
    /\ \A i \in DOMAIN todo : todo[i].smem <= dev.smem_block

(* The backward pass weighs exactly the keys the forward pass attended to: *)
(* the four implementations normalise causal and window differently, and   *)
(* seqused_k, which bounds the keys of the forward kernel, becomes a mask  *)
(* over positions.  Not claimed of causal calls with seqused_k, where the  *)
(* forward pass aligns rows with the used keys and the backward pass with  *)
(* all of them, nor where a mask of one entry is broadcast, nor if         *)
(* seqused_k is not of 32-bit integers, when the forward pass ignores it   *)
(* (api.h:1080).                                                           *)
Allows(p, sq, sk, row, col) ==
  LET shifted == row + sk - sq
      local   == ~ p.causal /\ (p.wl >= 0 \/ p.wr >= 0)
  IN  /\ col < sk
      /\ p.causal \/ local => col < shifted + 1 + p.wr
      /\ local => col >= shifted - p.wl

LengthQ(i) == IF call.varlen THEN Length(call.cuq, i) ELSE params[1].sq
LengthK(i) == IF call.varlen THEN Length(call.cuk, i) ELSE params[1].sk
FwdReads(i, row, col) ==
  Allows(params[1], LengthQ(i), IF params[1].used THEN call.used[i] ELSE LengthK(i), row, col)
BwdReads(i, row, col) ==
  /\ Allows(params[2], LengthQ(i), LengthK(i), row, col)
  /\ call.has_used => KeyKept(call, call.cuk[i] + col)

GradientFollowsForward ==
  /\ dir = "backward" /\ pc = "returned"
  /\ call.has_used => ~ call.causal /\ MaskLen(call) = call.kv[1] /\ call.tu = "S32"
  => \A i \in IF call.varlen THEN 1 .. params[1].b ELSE {1} :
       \A row \in 0 .. LengthQ(i) - 1, col \in 0 .. LengthK(i) - 1 :
         FwdReads(i, row, col) <=> BwdReads(i, row, col)

(* What is computed, gathered from the devices, has the types and          *)
(* dimensions the abstract evaluation promised to the rest of the program. *)
Gathered(i, buf) ==
  LET place == IF dir = "forward" /\ i = 2 /\ call.qaxis = "h" THEN 2 ELSE Place(call.qaxis)
  IN  IF call.qaxis = "none" THEN buf ELSE [buf EXCEPT !.dims = Whole(@, place)]

ResultsAsPromised ==
  pc = "returned" =>
    LET results == Returned(Local(call), dir, frame)
    IN  [i \in DOMAIN results |-> Gathered(i, results[i])] = Announced(call, dir)

(* A partitioned call computes what the whole call would: every row a      *)
(* device holds reads, in its own arrays, the examples, heads and          *)
(* positions of keys that the row reads in the whole ones.  This fails     *)
(* when the length is sharded, as for ring attention, so partition_fwd     *)
(* refuses it (flash_fwd.py:223).                                          *)
Reads(c, e, h, row) ==
  LET mask == [causal |-> c.causal, wl |-> c.wl, wr |-> c.wr, sq |-> c.q[2], sk |-> c.kv[2]]
  IN  {<<e, h \div (Heads(c) \div HeadsK(c)), col>> :
         col \in {x \in 0 .. c.kv[2] - 1 : Plan!Attends(mask, row, x)}}

ShardsAreGlobal ==
  pc = "launch" /\ call.qaxis # "none" =>
    LET l == Local(call)
        First(device, dims, axis) == IF axis = call.qaxis THEN device * dims[Place(axis)] ELSE 0
    IN  \A device \in 0 .. ND - 1 :
          \A e \in 0 .. l.q[1] - 1, row \in 0 .. l.q[2] - 1, h \in 0 .. l.q[3] - 1 :
            Reads(call, First(device, l.q, "n") + e, First(device, l.q, "h") + h,
                        First(device, l.q, "s") + row)
            = {<<First(device, l.kv, "n") + x[1], First(device, l.kv, "h") + x[2],
                 First(device, l.kv, "s") + x[3]>> : x \in Reads(l, e, h, row)}
=============================================================================
