----------------------------- MODULE MCHostCall -----------------------------
(* Calls and devices for HostCall.                                         *)
EXTENDS HostCall

GPU(major, minor, smem_block, smem_sm, sms) ==
  [major |-> major, minor |-> minor, smem_block |-> smem_block, smem_sm |-> smem_sm,
   sms |-> sms]
T4       == GPU(7, 5, 65536, 65536, 40)
A100     == GPU(8, 0, 166912, 167936, 108)
RTX3090  == GPU(8, 6, 101376, 102400, 82)
H100     == GPU(9, 0, 232448, 233472, 132)
GB200    == GPU(10, 0, 232448, 233472, 148)
Devices  == {T4, A100, RTX3090, H100, GB200}

Batched(q, kv) ==
  [varlen |-> FALSE, q |-> q, kv |-> kv, tq |-> "BF16", tk |-> "BF16", tv |-> "BF16",
   scale |-> "None", causal |-> FALSE, wl |-> -1, wr |-> -1, qaxis |-> "none",
   kaxis |-> "none", lens |-> "S32", tu |-> "S32", cuq |-> << >>, cuk |-> << >>,
   has_used |-> FALSE, used |-> << >>, max_q |-> -1, max_k |-> -1]
Small == Batched(<<1, 3, 2, 33>>, <<1, 5, 1, 33>>)
On(devices, calls) == {[call |-> c, dev |-> x] : c \in calls, x \in devices}

(* Every kernel instance: head dimensions on both sides of its limits.     *)
Dims ==
  {[Batched(<<2, 130, 2, d>>, <<2, 9, 1, d>>) EXCEPT !.causal = causal] :
     d \in {8, 33, 40, 64, 65, 96, 128, 160, 192, 200, 256, 264}, causal \in BOOLEAN}

Masks ==
  {[Batched(<<1, sq, 2, 33>>, <<1, sk, 1, 33>>) EXCEPT
      !.causal = causal, !.wl = wl, !.wr = wr] :
     sq \in {1, 3}, sk \in {2, 5}, causal \in BOOLEAN, wl, wr \in {-1, 0, 2}}

Splits == {Batched(<<1, sq, 2, d>>, <<1, sk, 2, d>>) :
             sq \in {1, 65}, sk \in {256, 520}, d \in {40, 128, 160}}
  (* An A100 takes four of the eight splits this has scratch for.          *)
  \cup {Batched(<<7, 65, 1, d>>, <<7, 512, 1, d>>) : d \in {128, 160}}

(* One argument is not as it should be.                                    *)
Odd ==
  {[Small EXCEPT !.scale = s] : s \in {"F64", "F32", "S64"}}
  \cup {[Small EXCEPT !.tq = t, !.tk = u, !.tv = v] : t, u, v \in {"F16", "BF16", "F32"}}
  \cup {Batched(<<1, 3, 3, 8>>, <<1, 3, 2, 8>>), Batched(<<1, 3, 2, 8>>, <<2, 3, 2, 8>>),
        Batched(<<1, 3, 2, 8>>, <<1, 0, 2, 8>>), Batched(<<1, 0, 2, 8>>, <<1, 3, 2, 8>>),
        Batched(<<65535, 1, 1, 8>>, <<65535, 1, 1, 8>>),
        Batched(<<65536, 1, 1, 8>>, <<65536, 1, 1, 8>>)}

Axes == {"none", "n", "s", "h", "d"}
Sharded ==
  {[Batched(<<2, 4, 4, 8>>, <<2, 4, hk, 8>>) EXCEPT
      !.causal = causal, !.qaxis = qa, !.kaxis = ka] :
     hk \in {2, 4}, causal \in BOOLEAN, qa, ka \in Axes}

-----------------------------------------------------------------------------
Varlen(cuq, cuk) ==
  [Batched(<<cuq[Len(cuq)], 2, 33>>, <<cuk[Len(cuk)], 1, 33>>) EXCEPT
     !.varlen = TRUE, !.cuq = cuq, !.cuk = cuk]
Ends == {<<0, 1, 1, 4>>, <<0, 2, 4, 4>>, <<0, 0, 3, 4>>, <<0, 3, 3, 5>>}

VarlenMasks ==
  {[Varlen(cuq, cuk) EXCEPT !.causal = causal, !.wl = wl, !.wr = wr, !.max_q = max] :
     cuq, cuk \in Ends, causal \in BOOLEAN, wl, wr \in {-1, 1}, max \in {-1, 3}}

(* seqused_k: no longer than the sequences.                                *)
Used ==
  {[Varlen(x[1], x[2]) EXCEPT !.has_used = TRUE, !.used = u, !.causal = causal] :
     x \in Ends \X Ends, u \in [1 .. 3 -> 0 .. 3], causal \in BOOLEAN}
UsedShort == {c \in Used : \A i \in 1 .. 3 : c.used[i] <= Length(c.cuk, i)}

VarlenOdd ==
  LET v == Varlen(<<0, 2, 3>>, <<0, 1, 3>>)
  IN  {[v EXCEPT !.lens = "S64"], [v EXCEPT !.cuk = <<0, 3>>], [v EXCEPT !.cuq = <<0, 0, 0>>, !.max_q = 0],
       [v EXCEPT !.cuk = <<0, 0, 0>>, !.max_k = 0], [v EXCEPT !.scale = "S64"],
       [v EXCEPT !.cuq = <<0>>, !.cuk = <<0>>], [v EXCEPT !.tk = "F16"],
       [v EXCEPT !.has_used = TRUE, !.used = <<1>>],
       [v EXCEPT !.has_used = TRUE, !.used = <<1, 1>>, !.wl = 1],
       [v EXCEPT !.has_used = TRUE, !.used = <<1, 1>>, !.tu = "S64"],
       [v EXCEPT !.has_used = TRUE, !.used = <<1, 1, 0>>, !.tu = "S64"],
       [v EXCEPT !.q = <<3, 3, 33>>, !.kv = <<3, 2, 33>>]}
  \cup {Varlen(<<0, 130, 130, 200>>, <<0, 0, 7, 9>>),
        [Varlen(<<0, 129, 140>>, <<0, 2, 4>>) EXCEPT !.max_q = 129, !.max_k = 2]}
VarlenDims ==
  {[Varlen(<<0, 65, 66>>, <<0, 3, 5>>) EXCEPT !.q = <<66, 2, d>>, !.kv = <<5, 1, d>>] :
     d \in {33, 65, 160, 200, 264}}

CheckedCalls ==
  On(Devices, Dims \cup Splits \cup VarlenDims)
  \cup On({A100}, Masks \cup Odd \cup Sharded \cup VarlenMasks \cup UsedShort \cup VarlenOdd)
=============================================================================
