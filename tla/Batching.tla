------------------------------ MODULE Batching ------------------------------
(***************************************************************************)
(* The batching rules of the attention primitives: how vmap turns a call   *)
(* on an array of examples into one call with more sequences or more       *)
(* heads, and its results back.  jax applies them one axis at a time, from *)
(* the innermost vmap outwards: each rule calls the primitive again, and   *)
(* so may meet a call that an inner rule has already reshaped; the results *)
(* return through the same rules, outermost first.                         *)
(*                                                                         *)
(* An array is a function on <<xs, i, h>>: an index on each axis not yet   *)
(* merged that the array has, the sequence and the head.  Its elements are *)
(* the examples' own indices, and a result is what the kernel combined.    *)
(***************************************************************************)
EXTENDS Integers, Sequences

CONSTANT Calls        \* the calls considered

(* The axes there is a rule for: those that map all operands (and, in      *)
(* varlen calls, the cumulative lengths), all but k and v, all but q and   *)
(* its lengths, or all but the lengths of both.                            *)
Kinds(prim, bwd) ==
  IF prim = "mha" THEN {"all", "q"} ELSE IF bwd THEN {"all", "kv"} ELSE {"all", "kv", "lens"}

ASSUME BatchingAssumption ==
  \A c \in Calls :
    /\ c.prim \in {"mha", "varlen"} /\ c.bwd \in BOOLEAN
    /\ c.n \in Nat \ {0}                       \* sequences of an example
    /\ c.hk \in Nat \ {0} /\ c.ratio \in Nat \ {0}
    /\ c.axes \in Seq([size : Nat \ {0}, kind : Kinds(c.prim, c.bwd)])

VARIABLES
  call,     \* the primitive, its shape and the vmapped axes; never changes
  axes,     \* the axes still to be merged
  shape,    \* the shape of the call at each level, innermost first
  q, lse,   \* operands with query heads: q, and lse, out, dout
  k,        \* operands with key heads
  out,      \* out and lse, or dq: what each query head was combined with
  dk,       \* dk and dv: the elements of q summed in each head of k
  phase     \* "batch", "unbatch" or "done"

vars == <<call, axes, shape, q, lse, k, out, dk, phase>>

-----------------------------------------------------------------------------
Top(s)           == s[Len(s)]
Maps(a, operand) == \/ operand = "q" /\ a.kind # "kv"
                    \/ operand = "k" /\ a.kind # "q"
                    \/ operand = "lse"

Mapped(as, operand)  == {i \in DOMAIN as : Maps(as[i], operand)}
Indices(as, operand) ==
  {xs \in [Mapped(as, operand) -> UNION {0 .. as[i].size - 1 : i \in DOMAIN as}] :
     \A i \in Mapped(as, operand) : xs[i] < as[i].size}
(* xs with an index on axis n, and without it.                             *)
With(xs, n, x) == [i \in DOMAIN xs \cup {n} |-> IF i = n THEN x ELSE xs[i]]
Without(xs, n) == [i \in DOMAIN xs \ {n} |-> xs[i]]

IndexOf(as, operand, xs) == [i \in Mapped(as, operand) |-> xs[i]]

Domain(as, operand, s) ==
  Indices(as, operand) \X (0 .. s.n - 1) \X (0 .. (IF operand = "k" THEN s.hk ELSE s.hq) - 1)
Identity(D) == [e \in D |-> e]
Phantom     == <<<<>>, -1, -1>>

Init ==
  /\ call \in Calls
  /\ axes = call.axes
  /\ shape = <<[n |-> call.n, hq |-> call.hk * call.ratio, hk |-> call.hk]>>
  /\ q = Identity(Domain(axes, "q", shape[1]))
  /\ lse = Identity(Domain(axes, "lse", shape[1]))
  /\ k = Identity(Domain(axes, "k", shape[1]))
  /\ out = <<>> /\ dk = <<>>
  /\ phase = "batch"

-----------------------------------------------------------------------------
(* Merging an axis into the sequences; q, if it is not mapped, is repeated *)
(* first.  The varlen rule reads the cumulative lengths of all examples as *)
(* one list: between the last sequence of an example and the first of the  *)
(* next it makes one more.                                                 *)
Gap == IF call.prim = "varlen" THEN 1 ELSE 0

Slots(s, x) == x * (s.n + Gap) - Gap
MergeSeqs(A, mapped, s, e) ==
  LET x == e[2] \div (s.n + Gap)  i == e[2] % (s.n + Gap) IN
  IF i = s.n THEN Phantom
  ELSE A[<<IF mapped THEN With(e[1], Len(axes), x) ELSE e[1], i, e[3]>>]

(* Merging an axis into the heads: '(hq x)', or '(x hq)' in varlen calls.  *)
MergeHeadsX(A, x, h, e) == A[<<With(e[1], Len(axes), e[3] \div h), e[2], e[3] % h>>]
MergeHeads(A, x, h, e)  == A[<<With(e[1], Len(axes), e[3] % x), e[2], e[3] \div x>>]

Merged(a, s) ==
  CASE a.kind \in {"all", "kv"} -> [s EXCEPT !.n = Slots(s, a.size)]
    [] a.kind = "q"    -> [s EXCEPT !.hq = @ * a.size]
    [] a.kind = "lens" -> [s EXCEPT !.hq = @ * a.size, !.hk = @ * a.size]

(* A rule, on the way in.                                                  *)
Batch ==
  /\ phase = "batch" /\ axes # <<>>
  /\ LET a  == Top(axes)
         s  == Top(shape)
         t  == Merged(a, s)
         as == SubSeq(axes, 1, Len(axes) - 1)
         OfQueries(A, operand) == [e \in Domain(as, operand, t) |->
           CASE a.kind \in {"all", "kv"} -> MergeSeqs(A, Maps(a, operand), s, e)
             [] a.kind = "q"             -> MergeHeads(A, a.size, s.hq, e)
             [] a.kind = "lens"          -> MergeHeadsX(A, a.size, s.hq, e)]
     IN
     /\ axes' = as
     /\ shape' = Append(shape, t)
     /\ q' = OfQueries(q, "q")
     /\ lse' = OfQueries(lse, "lse")
     /\ k' = [e \in Domain(as, "k", t) |->
           CASE a.kind \in {"all", "kv"} -> MergeSeqs(k, TRUE, s, e)
             [] a.kind = "q"             -> k[e]
             [] a.kind = "lens"          -> MergeHeadsX(k, a.size, s.hk, e)]
  /\ UNCHANGED <<call, out, dk, phase>>

(* The kernel: query head h reads key head h / (hq / hk), and the caller   *)
(* sums dk over the query heads of a key head.                             *)
Kernel ==
  /\ phase = "batch" /\ axes = <<>>
  /\ LET s     == Top(shape)
         ratio == s.hq \div s.hk
         KeyOf(e) == <<e[1], e[2], e[3] \div ratio>>
     IN
     /\ out' = [e \in DOMAIN q |-> <<q[e], lse[e], k[KeyOf(e)]>>]
     /\ dk' = [f \in DOMAIN k |->
                 {<<q[e], lse[e]>> : e \in {g \in DOMAIN q : KeyOf(g) = f}}]
  /\ phase' = "unbatch"
  /\ UNCHANGED <<call, axes, shape, q, lse, k>>

(* A rule, on the way out.  The forward rule and the varlen rules split    *)
(* the sequences as they were merged; mha_bwd_batch as '(n x)'.            *)
SplitRight(s, x, i, size)   == x * (s.n + Gap) + i
SplitSwapped(s, x, i, size) == i * size + x
SplitSeqs(s, x, i, size) ==
  IF call.prim = "mha" /\ call.bwd THEN SplitSwapped(s, x, i, size) ELSE SplitRight(s, x, i, size)

Unbatch ==
  /\ phase = "unbatch" /\ Len(shape) > 1
  /\ LET a  == call.axes[Len(axes) + 1]
         s  == shape[Len(shape) - 1]
         as == Append(axes, a)
         From(e, h) ==
           LET xs == Without(e[1], Len(as))  x == e[1][Len(as)] IN
           CASE a.kind \in {"all", "kv"} -> <<xs, SplitSeqs(s, x, e[2], a.size), e[3]>>
             [] a.kind = "q"             -> <<xs, e[2], e[3] * a.size + x>>
             [] a.kind = "lens"          -> <<xs, e[2], x * h + e[3]>>
     IN
     /\ axes' = as
     /\ shape' = SubSeq(shape, 1, Len(shape) - 1)
     /\ out' = [e \in Domain(as, "lse", s) |-> out[From(e, s.hq)]]
     /\ dk' = [f \in Domain(as, "k", s) |-> IF Maps(a, "k") THEN dk[From(f, s.hk)] ELSE dk[f]]
  /\ UNCHANGED <<call, q, lse, k, phase>>

Return ==
  /\ phase = "unbatch" /\ Len(shape) = 1
  /\ phase' = "done"
  /\ UNCHANGED <<call, axes, shape, q, lse, k, out, dk>>

Next == Batch \/ Kernel \/ Unbatch \/ Return \/ (phase = "done" /\ UNCHANGED vars)

Spec == Init /\ [][Next]_vars

-----------------------------------------------------------------------------
(* '(n x)' is right as long as one of the two is 1: in a vmapped gradient  *)
(* of the batched primitive at most one factor of the sequences may be     *)
(* more than 1, be it an axis or the sequences of an example.              *)
Narrow(c) ==
  c.prim = "mha" /\ c.bwd =>
    LET wide == {i \in DOMAIN c.axes : c.axes[i].kind = "all" /\ c.axes[i].size > 1}
    IN  /\ c.n > 1 => wide = {}
        /\ \A i, j \in wide : i = j

(* Whatever the nesting of vmaps: each query head of each example gets     *)
(* what its own q, or that shared by the axis, and its own lse give with   *)
(* the key head of its group in the keys of its example, or those shared.  *)
OwnQuery(e) == <<IndexOf(axes, "q", e[1]), e[2], e[3]>>
OwnKey(e)   == <<IndexOf(axes, "k", e[1]), e[2], e[3] \div call.ratio>>

ExamplesApart ==
  phase = "done" => \A e \in DOMAIN out : out[e] = <<OwnQuery(e), e, OwnKey(e)>>

(* The gradient of a key head sums the query heads that read it, those of  *)
(* all examples that share the keys included, and no other: this is what   *)
(* the derivative of a vmapped function needs.                             *)
KeysSummed ==
  phase = "done" =>
    \A f \in DOMAIN dk :
      dk[f] = {<<OwnQuery(e), e>> : e \in {g \in DOMAIN out : f = OwnKey(g)}}
=============================================================================
