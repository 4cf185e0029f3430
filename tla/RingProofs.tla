----------------------------- MODULE RingProofs -----------------------------
(***************************************************************************)
(* Safety of both passes of ring attention for every ring size, link       *)
(* capacity and interleaving.  First ring_fwd: the inductive invariant of  *)
(* RingForward, FwdIInv, and what follows from it.  Then ring_bwd: an      *)
(* inductive invariant that says what every gradient contains, wherever it *)
(* is, and what follows from that.                                         *)
(*                                                                         *)
(* The passes are two programs on one ring, each with a specification of   *)
(* its own: no theorem relates a state of the one to a state of the other. *)
(***************************************************************************)
EXTENDS RingForward, RingBackward, SequenceTheorems, TLAPS

(* The ring arithmetic: predecessor and successor are inverse, one hop     *)
(* moves every block to the next device, and the blocks of a round of N    *)
(* hops are all different.                                                 *)
LEMMA RingArithmetic ==
  /\ \A i \in Device : Pred(i) \in Device /\ Succ(i) \in Device
  /\ \A i \in Device : Succ(Pred(i)) = i /\ Pred(Succ(i)) = i
  /\ \A i, j \in Device : Succ(i) = j <=> Pred(j) = i
  /\ \A i \in Device, s \in 0 .. N : BlockAt(i, s) \in Device
  /\ \A i \in Device, s \in 0 .. N - 1 : BlockAt(Pred(i), s) = BlockAt(i, s + 1)
  /\ \A i \in Device, s, r \in 0 .. N - 1 : BlockAt(i, s) = BlockAt(i, r) => s = r
  /\ \A i, b \in Device : \E s \in 0 .. N - 1 : BlockAt(i, s) = b
<1>1. /\ \A i \in Device : Pred(i) \in Device /\ Succ(i) \in Device
      /\ \A i \in Device : Succ(Pred(i)) = i /\ Pred(Succ(i)) = i
      /\ \A i, j \in Device : Succ(i) = j <=> Pred(j) = i
  BY RingAssumption DEF Device, Pred, Succ
<1>2. /\ \A i \in Device, s \in 0 .. N : BlockAt(i, s) \in Device
      /\ \A i \in Device, s \in 0 .. N - 1 : BlockAt(Pred(i), s) = BlockAt(i, s + 1)
  BY RingAssumption DEF Device, Pred, BlockAt
<1>3. \A i \in Device, s, r \in 0 .. N - 1 : BlockAt(i, s) = BlockAt(i, r) => s = r
  BY RingAssumption DEF Device, BlockAt
<1>4. ASSUME NEW i \in Device, NEW b \in Device
      PROVE  \E s \in 0 .. N - 1 : BlockAt(i, s) = b
  <2>1. CASE b <= i
    <3>1. i - b \in 0 .. N - 1 /\ BlockAt(i, i - b) = b
      BY <2>1, RingAssumption DEF Device, BlockAt
    <3>2. QED BY <3>1
  <2>2. CASE b > i
    <3>1. i - b + N \in 0 .. N - 1 /\ BlockAt(i, i - b + N) = b
      BY <2>2, RingAssumption DEF Device, BlockAt
    <3>2. QED BY <3>1
  <2>3. QED BY <2>1, <2>2, RingAssumption DEF Device
<1>5. QED BY <1>1, <1>2, <1>3, <1>4

(* The switch of the code selects the mode the specification asks for.     *)
LEMMA SwitchSelects ==
  ASSUME NEW i \in Device, NEW b \in Device,
         carry[i]["ix"] = b
  PROVE  /\ FwdMode(i) # "skip" <=> Sees(i, b)
         /\ FwdMode(i) # "skip" => FwdMode(i) = WantMode(i, b)
         /\ FwdMode(i) # "skip" => FwdMode(i) \in {"causal", "full"}
BY RingAssumption DEF FwdMode, Branch, Cmp, Sees, WantMode, Device

-----------------------------------------------------------------------------
LEMMA InitForward == FwdInit => FwdIInv
<1> SUFFICES ASSUME FwdInit PROVE FwdIInv
  OBVIOUS
<1>1. FwdTypeOK
  <2>1. \A i \in Device : i \in Nat /\ 0 \in 0 .. N
    BY RingAssumption DEF Device
  <2>2. "-inf" \in LseClass /\ <<>> \in Seq(Device)
    BY DEF LseClass
  <2> QED BY <2>1, <2>2 DEF FwdInit, FwdTypeOK
<1>2. FwdCarryInv
  BY RingAssumption DEF FwdInit, FwdCarryInv, BlockAt, Device, Tensor, None
<1>3. LinkInv
  BY RingArithmetic DEF FwdInit, LinkInv, Started, Received, None
<1>4. FwdScanInv /\ SumInv
  BY RingAssumption DEF FwdInit, FwdScanInv, SumInv, FwdMerged, Device
<1>5. QED BY <1>1, <1>2, <1>3, <1>4 DEF FwdIInv

(* Merging a block keeps the invariant.                                    *)
LEMMA AttendForward ==
  ASSUME FwdIInv, NEW i \in Device, Attend(i)
  PROVE  FwdIInv'
<1> DEFINE b == BlockAt(i, iter[i])
<1> DEFINE new == [k |-> carry[i]["k"], v |-> carry[i]["v"],
                   mode |-> FwdMode(i), step |-> iter[i]]
<1>0. /\ FwdTypeOK /\ FwdCarryInv /\ LinkInv /\ FwdScanInv /\ SumInv
      /\ iter[i] \in 0 .. N - 1 /\ ~ attended[i]
      /\ "k" \in Tensor /\ "v" \in Tensor /\ "ix" \in Tensor
  BY RingAssumption DEF FwdIInv, Attend, FwdTypeOK, Tensor
<1>1. /\ b \in Device
      /\ carry[i]["k"] = b /\ carry[i]["v"] = b /\ carry[i]["ix"] = b
  <2>1. iter[i] \in 0 .. N
    BY <1>0, RingAssumption
  <2>2. b \in Device
    BY <2>1, RingArithmetic
  <2>3. \A c \in Tensor : carry[i][c] = b
    BY <1>0 DEF FwdCarryInv
  <2>4. QED BY <1>0, <2>2, <2>3
<1>2. /\ FwdMode(i) # "skip" <=> Sees(i, b)
      /\ FwdMode(i) # "skip" => FwdMode(i) = WantMode(i, b)
      /\ FwdMode(i) # "skip" => FwdMode(i) \in {"causal", "full"}
  BY <1>1, SwitchSelects
<1>3. /\ iter' = iter /\ carry' = carry /\ sent' = sent
      /\ recv' = recv /\ link' = link
      /\ attended' = [attended EXCEPT ![i] = TRUE]
      /\ terms' = [terms EXCEPT ![i] = IF FwdMode(i) = "skip" THEN @ ELSE @ \cup {new}]
      /\ lse' = [lse EXCEPT ![i] = MergeLse(@, IF FwdMode(i) = "skip" THEN "-inf" ELSE "finite")]
  BY DEF Attend
<1>4. FwdMode(i) # "skip" => new \in [k : Device, v : Device,
                                   mode : {"causal", "full"}, step : 0 .. N - 1]
  BY <1>0, <1>1, <1>2
<1>5. FwdTypeOK'
  BY <1>0, <1>3, <1>4 DEF FwdTypeOK, MergeLse, LseClass
<1>6. FwdCarryInv' /\ LinkInv' /\ FwdScanInv'
  <2>1. FwdCarryInv' /\ LinkInv'
    BY <1>0, <1>3 DEF FwdCarryInv, LinkInv, Started, Received
  <2>2. FwdScanInv'
    <3>1. iter[i] # N
      BY <1>0, RingAssumption
    <3>2. QED BY <1>0, <1>3, <3>1 DEF FwdScanInv, FwdTypeOK
  <2>3. QED BY <2>1, <2>2
<1>7. ASSUME NEW j \in Device
      PROVE  (/\ \A x \in terms[j] : /\ x.step < FwdMerged(j)
                                     /\ x.k = BlockAt(j, x.step)
                                     /\ x.v = x.k
                                     /\ Sees(j, x.k)
                                     /\ x.mode = WantMode(j, x.k)
              /\ \A s \in 0 .. FwdMerged(j) - 1 :
                   Sees(j, BlockAt(j, s)) => \E x \in terms[j] : x.k = BlockAt(j, s)
              /\ lse[j] = IF FwdMerged(j) = 0 THEN "-inf" ELSE "finite")'
  <2>1. CASE j # i
    BY <1>0, <1>3, <2>1 DEF SumInv, FwdMerged, FwdTypeOK
  <2>2. CASE j = i
    <3>1. FwdMerged(i) = iter[i] /\ FwdMerged(i)' = iter[i] + 1 /\ iter[i] \in 0 .. N - 1
      BY <1>0, <1>3 DEF FwdMerged, FwdTypeOK
    <3>2. \A x \in terms[i] : /\ x.step < iter[i] + 1
                              /\ x.k = BlockAt(i, x.step)
                              /\ x.v = x.k
                              /\ Sees(i, x.k)
                              /\ x.mode = WantMode(i, x.k)
      <4> SUFFICES ASSUME NEW x \in terms[i]
                   PROVE  /\ x.step < iter[i] + 1
                          /\ x.k = BlockAt(i, x.step)
                          /\ x.v = x.k
                          /\ Sees(i, x.k)
                          /\ x.mode = WantMode(i, x.k)
        OBVIOUS
      <4>1. x.step \in 0 .. N - 1
        <5>1. terms[i] \in SUBSET [k : Device, v : Device,
                                   mode : {"causal", "full"}, step : 0 .. N - 1]
          BY <1>0 DEF FwdTypeOK
        <5>2. QED BY <5>1
      <4>2. QED BY <4>1, <3>1, <1>0 DEF SumInv
    <3>3. FwdMode(i) # "skip" => /\ new.step < iter[i] + 1
                              /\ new.k = BlockAt(i, new.step)
                              /\ new.v = new.k
                              /\ Sees(i, new.k)
                              /\ new.mode = WantMode(i, new.k)
      BY <1>1, <1>2, <3>1
    <3>4. terms'[i] = IF FwdMode(i) = "skip" THEN terms[i] ELSE terms[i] \cup {new}
      BY <1>0, <1>3 DEF FwdTypeOK
    <3>5. (\A x \in terms[i] : /\ x.step < FwdMerged(i)
                               /\ x.k = BlockAt(i, x.step)
                               /\ x.v = x.k
                               /\ Sees(i, x.k)
                               /\ x.mode = WantMode(i, x.k))'
      BY <3>1, <3>2, <3>3, <3>4 DEF Sees, WantMode, BlockAt
    <3>6. ASSUME NEW s \in 0 .. iter[i], Sees(i, BlockAt(i, s))
          PROVE  \E x \in terms'[i] : x.k = BlockAt(i, s)
      <4>1. CASE s = iter[i]
        <5>1. new \in terms'[i] /\ new.k = BlockAt(i, s)
          BY <4>1, <3>6, <3>4, <1>2, <1>1
        <5>2. QED BY <5>1
      <4>2. CASE s # iter[i]
        <5>1. s \in 0 .. FwdMerged(i) - 1
          BY <4>2, <3>1
        <5>2. QED BY <5>1, <3>6, <3>4, <1>0 DEF SumInv
      <4>3. QED BY <4>1, <4>2
    <3>7. lse'[i] = "finite"
      <4>1. CASE iter[i] = 0
        <5>1. b = i
          BY <4>1 DEF BlockAt, Device
        <5>2. FwdMode(i) # "skip"
          BY <5>1, <1>2 DEF Sees, Device
        <5>3. lse[i] = "-inf"
          BY <4>1, <3>1, <1>0 DEF SumInv
        <5>4. QED BY <5>2, <5>3, <1>0, <1>3 DEF MergeLse, FwdTypeOK
      <4>2. CASE iter[i] # 0
        <5>1. lse[i] = "finite"
          BY <4>2, <3>1, <1>0 DEF SumInv
        <5>2. QED BY <5>1, <1>0, <1>3 DEF MergeLse, FwdTypeOK
      <4>3. QED BY <4>1, <4>2
    <3>8. QED BY <2>2, <3>1, <3>5, <3>6, <3>7 DEF Sees, BlockAt
  <2>3. QED BY <2>1, <2>2
<1>8. SumInv'
  BY <1>7 DEF SumInv
<1>9. QED BY <1>5, <1>6, <1>8 DEF FwdIInv

(* Starting a permute: the message that leaves is the next one of its link. *)
LEMMA StartPermuteForward ==
  ASSUME FwdIInv, NEW i \in Device, NEW c \in Tensor, StartPermute(i, c)
  PROVE  FwdIInv'
<1>0. /\ FwdTypeOK /\ FwdCarryInv /\ LinkInv /\ FwdScanInv /\ SumInv
      /\ iter[i] \in 0 .. N - 1 /\ c \notin sent[i]
  BY RingAssumption DEF FwdIInv, StartPermute, FwdTypeOK
<1>1. /\ iter' = iter /\ carry' = carry /\ attended' = attended
      /\ terms' = terms /\ lse' = lse /\ recv' = recv
      /\ sent' = [sent EXCEPT ![i] = @ \cup {c}]
      /\ link' = [link EXCEPT ![Succ(i)][c] = Append(@, carry[i][c])]
  BY DEF StartPermute
<1>2. Succ(i) \in Device /\ Pred(Succ(i)) = i /\ carry[i][c] \in Device
  BY <1>0, RingArithmetic DEF FwdTypeOK
<1>3. /\ \A j \in Device, d \in Tensor : link[j][d] \in Seq(Device)
      /\ \A j \in Device, d \in Tensor :
           link'[j][d] = IF j = Succ(i) /\ d = c THEN Append(link[j][d], carry[i][c])
                                                ELSE link[j][d]
  BY <1>0, <1>1, <1>2 DEF FwdTypeOK
<1>4. FwdTypeOK'
  <2>2. link' \in [Device -> [Tensor -> Seq(Device)]]
    BY <1>0, <1>1, <1>2 DEF FwdTypeOK
  <2>3. sent' \in [Device -> SUBSET Tensor]
    BY <1>0, <1>1 DEF FwdTypeOK
  <2>4. QED BY <1>0, <1>1, <2>2, <2>3 DEF FwdTypeOK
<1>5. FwdCarryInv'
  BY <1>0, <1>1 DEF FwdCarryInv, FwdTypeOK
<1>6. FwdScanInv'
  <2>1. iter[i] # N
    BY <1>0, RingAssumption
  <2>2. QED BY <1>0, <1>1, <2>1 DEF FwdScanInv, FwdTypeOK
<1>7. SumInv'
  BY <1>1, <1>0 DEF SumInv, FwdMerged, Sees, WantMode, BlockAt
<1>8. ASSUME NEW j \in Device, NEW d \in Tensor
      PROVE  (/\ Started(Pred(j), d) = Received(j, d) + Len(link[j][d])
              /\ \A m \in 1 .. Len(link[j][d]) :
                   link[j][d][m] = BlockAt(j, Received(j, d) + m))'
  <2>0. /\ Pred(j) \in Device /\ Received(j, d)' = Received(j, d)
        /\ Received(j, d) \in Nat /\ Len(link[j][d]) \in Nat
    <3>1. Pred(j) \in Device
      BY RingArithmetic
    <3>2. Received(j, d)' = Received(j, d)
      BY <1>1 DEF Received
    <3>3. Received(j, d) \in Nat
      <4>1. iter[j] \in 0 .. N
        BY <1>0 DEF FwdTypeOK
      <4>2. QED BY <4>1, RingAssumption DEF Received
    <3>4. Len(link[j][d]) \in Nat
      BY <1>3, LenProperties
    <3>5. QED BY <3>1, <3>2, <3>3, <3>4
  <2>1. CASE ~ (j = Succ(i) /\ d = c)
    <3>1. link'[j][d] = link[j][d]
      BY <2>1, <1>3
    <3>2. Started(Pred(j), d)' = Started(Pred(j), d)
      <4>1. Pred(j) # i \/ d # c
        BY <2>1, RingArithmetic
      <4>2. d \in sent'[Pred(j)] <=> d \in sent[Pred(j)]
        BY <4>1, <2>0, <1>0, <1>1 DEF FwdTypeOK
      <4>3. QED BY <4>2, <1>1 DEF Started
    <3>3. QED BY <3>1, <3>2, <2>0, <1>0 DEF LinkInv, BlockAt
  <2>2. CASE j = Succ(i) /\ d = c
    <3>1. Pred(j) = i
      BY <2>2, <1>2
    <3>2. link'[j][d] = Append(link[j][d], carry[i][c])
      BY <2>2, <1>3
    <3>3. /\ Len(link'[j][d]) = Len(link[j][d]) + 1
          /\ \A m \in 1 .. Len(link[j][d]) : link'[j][d][m] = link[j][d][m]
          /\ link'[j][d][Len(link[j][d]) + 1] = carry[i][c]
      BY <3>2, <1>3, <1>2
    <3>4. Started(i, c) = iter[i] /\ Started(i, c)' = iter[i] + 1
      BY <1>0, <1>1 DEF Started, FwdTypeOK
    <3>5. iter[i] = Received(j, d) + Len(link[j][d])
      BY <3>1, <3>4, <2>2, <1>0 DEF LinkInv
    <3>6. carry[i][c] = BlockAt(j, Received(j, d) + Len(link[j][d]) + 1)
      <4>1. carry[i][c] = BlockAt(Pred(j), iter[i])
        BY <3>1, <1>0 DEF FwdCarryInv
      <4>2. BlockAt(Pred(j), iter[i]) = BlockAt(j, iter[i] + 1)
        BY <1>0, RingArithmetic
      <4>3. QED BY <4>1, <4>2, <3>5
    <3>7. ASSUME NEW m \in 1 .. Len(link[j][d]) + 1
          PROVE  link'[j][d][m] = BlockAt(j, Received(j, d) + m)
      <4>1. CASE m = Len(link[j][d]) + 1
        BY <4>1, <3>3, <3>6, <2>0
      <4>2. CASE m # Len(link[j][d]) + 1
        <5>1. m \in 1 .. Len(link[j][d])
          BY <4>2, <2>0
        <5>2. QED BY <5>1, <3>3, <1>0 DEF LinkInv
      <4>3. QED BY <4>1, <4>2
    <3>8. Started(Pred(j), d)' = Received(j, d)' + Len(link[j][d])'
      BY <3>1, <3>3, <3>4, <3>5, <2>0, <2>2
    <3>9. QED BY <3>3, <3>7, <3>8, <2>0 DEF BlockAt
  <2>3. QED BY <2>1, <2>2
<1>9. LinkInv'
  BY <1>8 DEF LinkInv
<1>10. QED BY <1>4, <1>5, <1>6, <1>7, <1>9 DEF FwdIInv

(* Completing a permute: the message received is the one the next          *)
(* iteration must carry.                                                   *)
LEMMA DonePermuteForward ==
  ASSUME FwdIInv, NEW i \in Device, NEW c \in Tensor, DonePermute(i, c)
  PROVE  FwdIInv'
<1>0. /\ FwdTypeOK /\ FwdCarryInv /\ LinkInv /\ FwdScanInv /\ SumInv
      /\ iter[i] \in 0 .. N /\ c \in sent[i]
      /\ recv[i][c] = None /\ link[i][c] \in Seq(Device) /\ link[i][c] # <<>>
  BY DEF FwdIInv, DonePermute, FwdTypeOK
<1>1. /\ iter' = iter /\ carry' = carry /\ attended' = attended
      /\ terms' = terms /\ lse' = lse /\ sent' = sent
      /\ recv' = [recv EXCEPT ![i][c] = Head(link[i][c])]
      /\ link' = [link EXCEPT ![i][c] = Tail(@)]
  BY DEF DonePermute
<1>2. /\ Head(link[i][c]) = link[i][c][1]
      /\ Head(link[i][c]) \in Device
      /\ Tail(link[i][c]) \in Seq(Device)
      /\ Len(link[i][c]) \in Nat \ {0}
      /\ Len(Tail(link[i][c])) = Len(link[i][c]) - 1
      /\ \A m \in 1 .. Len(link[i][c]) - 1 : Tail(link[i][c])[m] = link[i][c][m + 1]
  BY <1>0, HeadTailProperties, EmptySeq
<1>3. Received(i, c) = iter[i]
  BY <1>0 DEF Received
<1>4. Head(link[i][c]) = BlockAt(i, iter[i] + 1)
  BY <1>0, <1>2, <1>3 DEF LinkInv
<1>5. /\ \A j \in Device, d \in Tensor :
           recv'[j][d] = IF j = i /\ d = c THEN Head(link[i][c]) ELSE recv[j][d]
      /\ \A j \in Device, d \in Tensor :
           link'[j][d] = IF j = i /\ d = c THEN Tail(link[i][c]) ELSE link[j][d]
  BY <1>0, <1>1 DEF FwdTypeOK
<1>6. FwdTypeOK'
  BY <1>0, <1>1, <1>2 DEF FwdTypeOK
<1>7. FwdCarryInv'
  BY <1>0, <1>1, <1>4, <1>5 DEF FwdCarryInv, BlockAt
<1>8. FwdScanInv' /\ SumInv'
  BY <1>1, <1>0 DEF FwdScanInv, SumInv, FwdMerged, Sees, WantMode, BlockAt
<1>9. ASSUME NEW j \in Device, NEW d \in Tensor
      PROVE  (/\ Started(Pred(j), d) = Received(j, d) + Len(link[j][d])
              /\ \A m \in 1 .. Len(link[j][d]) :
                   link[j][d][m] = BlockAt(j, Received(j, d) + m))'
  <2>0. Started(Pred(j), d)' = Started(Pred(j), d)
    BY <1>1 DEF Started, Pred
  <2>1. CASE ~ (j = i /\ d = c)
    BY <2>0, <2>1, <1>0, <1>1, <1>5 DEF LinkInv, Received, BlockAt
  <2>2. CASE j = i /\ d = c
    <3>1. Received(i, c)' = iter[i] + 1
      <4>1. Head(link[i][c]) # None
        BY <1>2 DEF Device, None
      <4>2. QED BY <4>1, <1>1, <1>5 DEF Received, None
    <3>2. Started(Pred(i), c) = iter[i] + Len(link[i][c])
      BY <1>0, <1>3 DEF LinkInv
    <3>3. link'[i][c] = Tail(link[i][c])
      BY <1>5
    <3>4. ASSUME NEW m \in 1 .. Len(Tail(link[i][c]))
          PROVE  Tail(link[i][c])[m] = BlockAt(i, iter[i] + 1 + m)
      <4>1. m \in 1 .. Len(link[i][c]) - 1 /\ m + 1 \in 1 .. Len(link[i][c])
        BY <1>2
      <4>2. link[i][c][m + 1] = BlockAt(i, Received(i, c) + (m + 1))
        BY <4>1, <1>0 DEF LinkInv
      <4>3. QED BY <4>1, <4>2, <1>0, <1>2, <1>3 DEF BlockAt
    <3>5. Started(Pred(i), c) = (iter[i] + 1) + Len(Tail(link[i][c]))
      <4>1. iter[i] \in Int /\ Len(link[i][c]) \in Int
        BY <1>0, <1>2, RingAssumption
      <4>2. Len(Tail(link[i][c])) = Len(link[i][c]) - 1
        BY <1>2
      <4>3. QED BY <3>2, <4>1, <4>2
    <3>6. Started(Pred(i), c)' = Received(i, c)' + Len(link'[i][c])
      <4>1. Started(Pred(i), c)' = Started(Pred(i), c)
        BY <2>0, <2>2
      <4>2. QED BY <4>1, <3>1, <3>3, <3>5
    <3>7. ASSUME NEW m \in 1 .. Len(link'[i][c])
          PROVE  link'[i][c][m] = BlockAt(i, Received(i, c)' + m)
      BY <3>1, <3>3, <3>4
    <3>8. QED BY <2>2, <3>6, <3>7 DEF BlockAt
  <2>3. QED BY <2>1, <2>2
<1>10. LinkInv'
  BY <1>9 DEF LinkInv
<1>11. QED BY <1>6, <1>7, <1>8, <1>10 DEF FwdIInv

(* The next iteration: every tensor has moved one hop, on every link.      *)
LEMMA NextIterationForward ==
  ASSUME FwdIInv, NEW i \in Device, FwdNextIteration(i)
  PROVE  FwdIInv'
<1>0. /\ FwdTypeOK /\ FwdCarryInv /\ LinkInv /\ FwdScanInv /\ SumInv
      /\ attended[i] /\ \A c \in Tensor : recv[i][c] # None
  BY DEF FwdIInv, FwdNextIteration
<1>1. /\ terms' = terms /\ lse' = lse /\ link' = link
      /\ iter' = [iter EXCEPT ![i] = @ + 1]
      /\ carry' = [carry EXCEPT ![i] = recv[i]]
      /\ attended' = [attended EXCEPT ![i] = FALSE]
      /\ sent' = [sent EXCEPT ![i] = {}]
      /\ recv' = [recv EXCEPT ![i] = [c \in Tensor |-> None]]
  BY DEF FwdNextIteration
<1>2. iter[i] \in 0 .. N - 1
  <2>1. iter[i] # N
    BY <1>0 DEF FwdScanInv
  <2>2. iter[i] \in 0 .. N
    BY <1>0 DEF FwdTypeOK
  <2>3. QED BY <2>1, <2>2, RingAssumption
<1>3. \A c \in Tensor : /\ recv[i][c] \in Device
                       /\ recv[i][c] = BlockAt(i, iter[i] + 1)
                       /\ c \in sent[i]
  BY <1>0 DEF FwdTypeOK, FwdCarryInv
<1>4. FwdTypeOK'
  <2>1. iter' \in [Device -> 0 .. N]
    BY <1>0, <1>1, <1>2, RingAssumption DEF FwdTypeOK
  <2>2. recv[i] \in [Tensor -> Device]
    BY <1>0, <1>3 DEF FwdTypeOK
  <2>3. carry' \in [Device -> [Tensor -> Device]]
    BY <1>0, <1>1, <2>2 DEF FwdTypeOK
  <2>4. recv' \in [Device -> [Tensor -> Device \cup {None}]]
    BY <1>0, <1>1 DEF FwdTypeOK
  <2>5. attended' \in [Device -> BOOLEAN] /\ sent' \in [Device -> SUBSET Tensor]
    BY <1>0, <1>1 DEF FwdTypeOK
  <2>6. QED BY <1>0, <1>1, <2>1, <2>3, <2>4, <2>5 DEF FwdTypeOK
<1>5. \A j \in Device :
        /\ j # i => /\ iter'[j] = iter[j] /\ carry'[j] = carry[j] /\ sent'[j] = sent[j]
                    /\ recv'[j] = recv[j] /\ attended'[j] = attended[j]
        /\ j = i => /\ iter'[j] = iter[j] + 1 /\ carry'[j] = recv[j] /\ sent'[j] = {}
                    /\ recv'[j] = [c \in Tensor |-> None] /\ attended'[j] = FALSE
  BY <1>0, <1>1 DEF FwdTypeOK
<1>6. FwdCarryInv'
  BY <1>0, <1>3, <1>5 DEF FwdCarryInv, BlockAt
<1>7. \A j \in Device, c \in Tensor : /\ Started(j, c)' = Started(j, c)
                                   /\ Received(j, c)' = Received(j, c)
  <2> SUFFICES ASSUME NEW j \in Device, NEW c \in Tensor
               PROVE  /\ Started(j, c)' = Started(j, c)
                      /\ Received(j, c)' = Received(j, c)
    OBVIOUS
  <2>1. CASE j # i
    BY <2>1, <1>5 DEF Started, Received
  <2>2. CASE j = i
    <3>1. Started(i, c) = iter[i] + 1 /\ Received(i, c) = iter[i] + 1
      BY <1>0, <1>3 DEF Started, Received
    <3>2. iter[i] + 1 \in Int
      BY <1>2, RingAssumption
    <3>3. Started(i, c)' = iter[i] + 1 /\ Received(i, c)' = iter[i] + 1
      BY <1>5, <3>2 DEF Started, Received
    <3>4. QED BY <2>2, <3>1, <3>3
  <2>3. QED BY <2>1, <2>2
<1>8. LinkInv'
  <2> SUFFICES ASSUME NEW j \in Device, NEW c \in Tensor
               PROVE  (/\ Started(Pred(j), c) = Received(j, c) + Len(link[j][c])
                       /\ \A m \in 1 .. Len(link[j][c]) :
                            link[j][c][m] = BlockAt(j, Received(j, c) + m))'
    BY DEF LinkInv
  <2>1. Pred(j) \in Device
    BY RingArithmetic
  <2>2. Started(Pred(j), c)' = Started(Pred(j), c) /\ Received(j, c)' = Received(j, c)
    BY <1>7, <2>1 DEF Started, Pred
  <2>3. QED BY <2>2, <1>0, <1>1 DEF LinkInv, BlockAt
<1>9. FwdScanInv'
  BY <1>0, <1>5 DEF FwdScanInv
<1>10. \A j \in Device : FwdMerged(j)' = FwdMerged(j)
  <2>1. FwdMerged(i) = iter[i] + 1 /\ FwdMerged(i)' = iter[i] + 1
    BY <1>0, <1>2, <1>5, RingAssumption DEF FwdMerged
  <2>2. \A j \in Device : j # i => FwdMerged(j)' = FwdMerged(j)
    BY <1>5 DEF FwdMerged
  <2>3. QED BY <2>1, <2>2
<1>11. SumInv'
  BY <1>0, <1>1, <1>10 DEF SumInv, BlockAt, Sees, WantMode
<1>12. QED BY <1>4, <1>6, <1>8, <1>9, <1>11 DEF FwdIInv

LEMMA StutterForward ==
  ASSUME FwdIInv, UNCHANGED fwdVars
  PROVE  FwdIInv'
BY DEF FwdIInv, fwdVars, FwdTypeOK, FwdCarryInv, LinkInv, FwdScanInv, SumInv,
       Started, Received, FwdMerged, Sees, WantMode, BlockAt

(* The blocks rotate and the sums follow, in every reachable state.        *)
THEOREM ForwardInvariant == FwdSpec => []FwdIInv
<1>1. FwdInit => FwdIInv
  BY InitForward
<1>2. FwdIInv /\ [FwdNext]_fwdVars => FwdIInv'
  <2> SUFFICES ASSUME FwdIInv, [FwdNext]_fwdVars PROVE FwdIInv'
    OBVIOUS
  <2>1. ASSUME NEW i \in Device, FwdStep(i) PROVE FwdIInv'
    <3>1. CASE Attend(i)
      BY <3>1, AttendForward
    <3>2. ASSUME NEW c \in Tensor, StartPermute(i, c) PROVE FwdIInv'
      BY <3>2, StartPermuteForward
    <3>3. ASSUME NEW c \in Tensor, DonePermute(i, c) PROVE FwdIInv'
      BY <3>3, DonePermuteForward
    <3>4. CASE FwdNextIteration(i)
      BY <3>4, NextIterationForward
    <3>5. QED BY <2>1, <3>1, <3>2, <3>3, <3>4 DEF FwdStep
  <2>2. CASE UNCHANGED fwdVars
    BY <2>2, StutterForward
  <2>3. QED BY <2>1, <2>2 DEF FwdNext
<1>3. QED BY <1>1, <1>2, PTL DEF FwdSpec

(* Variables keep their types.                                             *)
THEOREM ForwardTypeOK == FwdSpec => []FwdTypeOK
<1>1. FwdIInv => FwdTypeOK
  BY DEF FwdIInv
<1>2. QED BY <1>1, ForwardInvariant, PTL

(* A device's k, v and index always belong to the same block.              *)
THEOREM ForwardOneBlock == FwdSpec => []OneBlock
<1>1. FwdIInv => OneBlock
  BY DEF FwdIInv, FwdCarryInv, OneBlock, Tensor
<1>2. QED BY <1>1, ForwardInvariant, PTL

(* The running log-sum-exp is never NaN.                                   *)
THEOREM ForwardNoNaN == FwdSpec => []NoNaN
<1>1. FwdIInv => NoNaN
  BY DEF FwdIInv, SumInv, NoNaN
<1>2. QED BY <1>1, ForwardInvariant, PTL

(* A device that leaves the scan has summed every visible block once.      *)
THEOREM ForwardExactlyOnce == FwdSpec => []ExactlyOnce
<1>1. FwdIInv => ExactlyOnce
  <2> SUFFICES ASSUME FwdIInv, NEW i \in Device, iter[i] = N
               PROVE  /\ \A x \in terms[i] : /\ x.k = x.v
                                             /\ Sees(i, x.k)
                                             /\ x.mode = WantMode(i, x.k)
                      /\ \A b \in Device : Sees(i, b) => \E x \in terms[i] : x.k = b
                      /\ \A x, y \in terms[i] : x.k = y.k => x = y
    BY DEF ExactlyOnce
  <2>0. FwdMerged(i) = N
    BY RingAssumption DEF FwdIInv, FwdScanInv, FwdMerged
  <2>1. \A x \in terms[i] : x.k = x.v /\ Sees(i, x.k) /\ x.mode = WantMode(i, x.k)
    BY DEF FwdIInv, SumInv
  <2>2. ASSUME NEW b \in Device, Sees(i, b)
        PROVE  \E x \in terms[i] : x.k = b
    <3>1. PICK s \in 0 .. N - 1 : BlockAt(i, s) = b
      BY RingArithmetic
    <3>2. s \in 0 .. FwdMerged(i) - 1 /\ Sees(i, BlockAt(i, s))
      BY <2>0, <2>2, <3>1
    <3>3. SumInv
      BY DEF FwdIInv
    <3>4. \E x \in terms[i] : x.k = BlockAt(i, s)
      BY <3>2, <3>3 DEF SumInv
    <3>5. QED BY <3>1, <3>4
  <2>3. ASSUME NEW x \in terms[i], NEW y \in terms[i], x.k = y.k
        PROVE  x = y
    <3>1. terms[i] \in SUBSET [k : Device, v : Device,
                               mode : {"causal", "full"}, step : 0 .. N - 1]
      BY DEF FwdIInv, FwdTypeOK
    <3>2. /\ x \in [k : Device, v : Device, mode : {"causal", "full"}, step : 0 .. N - 1]
          /\ y \in [k : Device, v : Device, mode : {"causal", "full"}, step : 0 .. N - 1]
      BY <3>1
    <3>3. /\ x.k = BlockAt(i, x.step) /\ y.k = BlockAt(i, y.step)
          /\ x.v = x.k /\ y.v = y.k
          /\ x.mode = WantMode(i, x.k) /\ y.mode = WantMode(i, y.k)
      BY DEF FwdIInv, SumInv
    <3>4. x.step = y.step
      <4>1. x.step \in 0 .. N - 1 /\ y.step \in 0 .. N - 1
        BY <3>2
      <4>2. BlockAt(i, x.step) = BlockAt(i, y.step)
        BY <2>3, <3>3
      <4>3. QED BY <4>1, <4>2, RingArithmetic
    <3>5. QED BY <2>3, <3>2, <3>3, <3>4
  <2>4. QED BY <2>1, <2>2, <2>3
<1>2. QED BY <1>1, ForwardInvariant, PTL

-----------------------------------------------------------------------------
(* Merging a block is one step of the order-free specification, or none.   *)
LEMMA AttendRefines ==
  ASSUME FwdIInv, NEW i \in Device, Attend(i)
  PROVE  FwdBA!Next \/ FwdDoneTerms' = FwdDoneTerms
<1> DEFINE b == BlockAt(i, iter[i])
<1> DEFINE new == [k |-> carry[i]["k"], v |-> carry[i]["v"],
                   mode |-> FwdMode(i), step |-> iter[i]]
<1> DEFINE t == [q |-> i, blk |-> b, mode |-> WantMode(i, b)]
<1>0. /\ FwdTypeOK /\ SumInv /\ iter[i] \in 0 .. N - 1 /\ ~ attended[i]
      /\ b \in Device
      /\ carry[i]["k"] = b /\ carry[i]["v"] = b /\ carry[i]["ix"] = b
  <2>1. iter[i] \in 0 .. N - 1 /\ ~ attended[i]
    BY RingAssumption DEF FwdIInv, Attend, FwdTypeOK
  <2>2. b \in Device
    <3>1. iter[i] \in 0 .. N
      BY <2>1, RingAssumption
    <3>2. QED BY <3>1, RingArithmetic
  <2>3. \A c \in Tensor : carry[i][c] = b
    BY DEF FwdIInv, FwdCarryInv
  <2>4. carry[i]["k"] = b /\ carry[i]["v"] = b /\ carry[i]["ix"] = b
    BY <2>3 DEF Tensor
  <2>5. QED BY <2>1, <2>2, <2>4 DEF FwdIInv
<1>1. /\ FwdMode(i) # "skip" <=> Sees(i, b)
      /\ FwdMode(i) # "skip" => FwdMode(i) = WantMode(i, b)
  BY <1>0, SwitchSelects
<1>2. \A j \in Device : terms'[j] = IF j = i /\ FwdMode(i) # "skip"
                                   THEN terms[j] \cup {new} ELSE terms[j]
  BY <1>0 DEF Attend, FwdTypeOK
<1>3. CASE FwdMode(i) = "skip"
  <2>1. \A j \in Device : terms'[j] = terms[j]
    BY <1>2, <1>3
  <2>2. FwdDoneTerms' = FwdDoneTerms
    BY <2>1 DEF FwdDoneTerms, Summed
  <2>3. QED BY <2>2
<1>4. CASE FwdMode(i) # "skip"
  <2>1. t \in Summed
    BY <1>0 DEF Summed, WantMode
  <2>2. t \notin FwdDoneTerms
    <3>1. SUFFICES ASSUME NEW x \in terms[i], x.k = b PROVE FALSE
      BY DEF FwdDoneTerms
    <3>2. x.step \in 0 .. N - 1
      <4>1. terms[i] \in SUBSET [k : Device, v : Device,
                                 mode : {"causal", "full"}, step : 0 .. N - 1]
        BY <1>0 DEF FwdTypeOK
      <4>2. QED BY <4>1
    <3>3. x.k = BlockAt(i, x.step) /\ x.step < iter[i]
      BY <1>0 DEF SumInv, FwdMerged
    <3>4. x.step = iter[i]
      <4>1. BlockAt(i, x.step) = BlockAt(i, iter[i])
        BY <3>1, <3>3
      <4>2. \A s, r \in 0 .. N - 1 : BlockAt(i, s) = BlockAt(i, r) => s = r
        BY RingArithmetic
      <4>3. iter[i] \in 0 .. N - 1
        BY <1>0
      <4>4. QED BY <4>1, <4>2, <4>3, <3>2
    <3>5. iter[i] \in Int
      BY <1>0, RingAssumption
    <3>6. QED BY <3>3, <3>4, <3>5
  <2>3. FwdDoneTerms' = FwdDoneTerms \cup {t}
    <3>1. ASSUME NEW y \in Summed
          PROVE  y \in FwdDoneTerms' <=> (y \in FwdDoneTerms \/ y = t)
      <4>1. PICK j \in Device, a \in Device, m \in {"causal", "full"} :
              y = [q |-> j, blk |-> a, mode |-> m]
        BY DEF Summed
      <4>2. /\ y \in FwdDoneTerms' <=>
                 \E x \in terms'[j] : x.k = a /\ x.v = a /\ x.mode = m
            /\ y \in FwdDoneTerms <=>
                 \E x \in terms[j] : x.k = a /\ x.v = a /\ x.mode = m
        BY <4>1 DEF FwdDoneTerms, Summed
      <4>3. CASE j # i
        BY <4>1, <4>2, <4>3, <1>2
      <4>4. CASE j = i
        <5>1. terms'[j] = terms[j] \cup {new}
          BY <4>4, <1>2, <1>4
        <5>2. y = t <=> a = b /\ m = WantMode(i, b)
          BY <4>1, <4>4
        <5>3. new.k = b /\ new.v = b /\ new.mode = WantMode(i, b)
          BY <1>0, <1>1, <1>4
        <5>4. QED BY <4>2, <5>1, <5>2, <5>3
      <4>5. QED BY <4>3, <4>4
    <3>2. FwdDoneTerms \subseteq Summed /\ FwdDoneTerms' \subseteq Summed
      BY DEF FwdDoneTerms, Summed
    <3>3. QED BY <3>1, <3>2, <2>1
  <2>4. t \in FwdBA!Wanted
    <3>1. t = FwdBA!Term(i, b)
      BY DEF FwdBA!Term, FwdBA!ModeOf, WantMode
    <3>2. i \in FwdBA!Block /\ b \in FwdBA!Block
      BY <1>0 DEF FwdBA!Block, Device
    <3>3. FwdBA!Visible(t.q, t.blk)
      BY <1>1, <1>4 DEF FwdBA!Visible, Sees
    <3>4. QED BY <3>1, <3>2, <3>3 DEF FwdBA!Wanted, FwdBA!AllTerms
  <2>5. QED BY <2>2, <2>3, <2>4 DEF FwdBA!Next, FwdBA!Combine
<1>5. QED BY <1>3, <1>4

(* ring_fwd implements the order-free specification of block attention.    *)
THEOREM ForwardRefines == FwdSpec => FwdRefinesBlockAttention
<1>1. FwdInit => FwdBA!Init
  <2> SUFFICES ASSUME FwdInit PROVE FwdDoneTerms = {}
    BY DEF FwdBA!Init
  <2>1. \A i \in Device : terms[i] = {}
    BY DEF FwdInit
  <2>2. \A y \in Summed : y.q \in Device
    BY DEF Summed
  <2>3. QED BY <2>1, <2>2 DEF FwdDoneTerms
<1>2. FwdIInv /\ [FwdNext]_fwdVars => [FwdBA!Next]_FwdDoneTerms
  <2> SUFFICES ASSUME FwdIInv, [FwdNext]_fwdVars
               PROVE  FwdBA!Next \/ FwdDoneTerms' = FwdDoneTerms
    OBVIOUS
  <2>1. ASSUME terms' = terms PROVE FwdDoneTerms' = FwdDoneTerms
    BY <2>1 DEF FwdDoneTerms, Summed
  <2>2. ASSUME NEW i \in Device, FwdStep(i) PROVE FwdBA!Next \/ FwdDoneTerms' = FwdDoneTerms
    <3>1. CASE Attend(i)
      BY <3>1, AttendRefines
    <3>2. CASE terms' = terms
      BY <3>2, <2>1
    <3>3. QED BY <2>2, <3>1, <3>2 DEF FwdStep, StartPermute, DonePermute, FwdNextIteration
  <2>3. CASE UNCHANGED fwdVars
    BY <2>3, <2>1 DEF fwdVars
  <2>4. QED BY <2>2, <2>3 DEF FwdNext
<1>3. QED
  BY <1>1, <1>2, ForwardInvariant, PTL DEF FwdSpec, FwdRefinesBlockAttention, FwdBA!Spec

-----------------------------------------------------------------------------
HeldAt(i, s)  == [blk |-> BlockAt(i, s), ix |-> BlockAt(i, s)]

(* The contributions the whole pass has to make, those to the gradient of  *)
(* block b in its first n iterations, and those to dq of device i.         *)
Due == {x \in Contribution : /\ x.blk = BlockAt(x.q, x.step)
                             /\ Sees(x.q, x.blk)
                             /\ x.mode = WantMode(x.q, x.blk)}
Grad(b, n)  == {x \in Due : x.blk = b /\ x.step < n}
Query(i, n) == {x \in Due : x.q = i /\ x.step < n}

(* What device i receives in permute s of the gradients.                   *)
Arriving(i, s) == Grad(BlockAt(i, s), s)

(* Permutes started and completed, and iterations whose sums are made.     *)
KvStarted(i)   == IF iter[i] >= N THEN N ELSE IF "kv" \in sent[i] THEN iter[i] + 1 ELSE iter[i]
KvReceived(i)  == IF iter[i] >= N THEN N ELSE IF "kv" \in got[i] THEN iter[i] + 1 ELSE iter[i]
DkvStarted(i)  == IF iter[i] > N THEN N + 1 ELSE IF "dkv" \in sent[i] THEN iter[i] + 1 ELSE iter[i]
DkvReceived(i) == IF iter[i] > N THEN N + 1 ELSE IF "dkv" \in got[i] THEN iter[i] + 1 ELSE iter[i]
BwdMerged(i)      == IF iter[i] > N THEN N ELSE IF added[i] THEN iter[i] + 1 ELSE iter[i]

BwdScanInv ==
  \A i \in Device :
    /\ got[i] \subseteq sent[i]
    /\ added[i] => "dkv" \in got[i]
    /\ computed[i] => iter[i] < N
    /\ added[i] => iter[i] < N
    /\ iter[i] >= N => "kv" \notin sent[i]
    /\ iter[i] > N => "dkv" \in got[i]

BwdCarryInv ==
  \A i \in Device :
    /\ iter[i] <= N => kv[i] = HeldAt(i, iter[i])
    /\ "kv" \in got[i] => rkv[i] = HeldAt(i, iter[i] + 1)

GradInv ==
  \A i \in Device :
    /\ iter[i] <= N => dkv[i] = Arriving(Succ(i), iter[i])
    /\ iter[i] > N => dkv[i] = Grad(i, N)
    /\ "dkv" \notin got[i] \/ iter[i] > N => rdkv[i] = dkv[i]
    /\ "dkv" \in got[i] /\ iter[i] <= N => rdkv[i] = Grad(BlockAt(i, iter[i]), BwdMerged(i))
    /\ dq[i] = Query(i, BwdMerged(i))

KvLinkInv ==
  \A j \in Device :
    /\ KvStarted(Pred(j)) = KvReceived(j) + Len(linkKv[j])
    /\ \A m \in 1 .. Len(linkKv[j]) : linkKv[j][m] = HeldAt(j, KvReceived(j) + m)

DkvLinkInv ==
  \A j \in Device :
    /\ DkvStarted(Pred(j)) = DkvReceived(j) + Len(linkDkv[j])
    /\ \A m \in 1 .. Len(linkDkv[j]) : linkDkv[j][m] = Arriving(j, DkvReceived(j) + m - 1)

(* What is in some gradient is what is in some dq.                         *)
LedgerInv ==
  \A x \in Contribution : (\E g \in Gradients : x \in g) <=> (\E i \in Device : x \in dq[i])

BwdIInv == BwdTypeOK /\ BwdScanInv /\ BwdCarryInv /\ GradInv /\ KvLinkInv /\ DkvLinkInv /\ LedgerInv

-----------------------------------------------------------------------------
(* More of the ring arithmetic: a round ends where it began, and no two    *)
(* devices hold one block after the same number of hops.                   *)
LEMMA BackwardRing ==
  /\ \A i \in Device : Pred(i) \in Device /\ Succ(i) \in Device
  /\ \A i \in Device : Succ(Pred(i)) = i /\ Pred(Succ(i)) = i
  /\ \A i \in Device, s \in 0 .. N : BlockAt(i, s) \in Device
  /\ \A i \in Device, s \in 0 .. N - 1 : BlockAt(Succ(i), s + 1) = BlockAt(i, s)
  /\ \A i \in Device : BlockAt(i, 0) = i /\ BlockAt(i, N) = i
  /\ \A i \in Device, s, r \in 0 .. N - 1 : BlockAt(i, s) = BlockAt(i, r) => s = r
  /\ \A i, j \in Device, s \in 0 .. N - 1 : BlockAt(i, s) = BlockAt(j, s) => i = j
  /\ \A i, b \in Device : \E s \in 0 .. N - 1 : BlockAt(i, s) = b
<1>1. /\ \A i \in Device, s \in 0 .. N - 1 : BlockAt(Succ(i), s + 1) = BlockAt(i, s)
      /\ \A i \in Device : BlockAt(i, 0) = i /\ BlockAt(i, N) = i
  BY RingAssumption DEF Device, Succ, BlockAt
<1>2. \A i, j \in Device, s \in 0 .. N - 1 : BlockAt(i, s) = BlockAt(j, s) => i = j
  BY RingAssumption DEF Device, BlockAt
<1>3. QED BY <1>1, <1>2, RingArithmetic

(* A gradient has nothing before the first iteration, and only grows.      *)
LEMMA GradGrows ==
  /\ \A b : Grad(b, 0) = {}
  /\ \A i : Query(i, 0) = {}
  /\ \A b, n : Grad(b, n) \subseteq Contribution
  /\ \A i, n : Query(i, n) \subseteq Contribution
  /\ \A b : \A n, m \in Int : n <= m => Grad(b, n) \subseteq Grad(b, m)
<1>1. \A x \in Due : x \in Contribution /\ x.step \in 0 .. N - 1
  BY DEF Due, Contribution
<1>2. \A x \in Due : x.step \in Int /\ x.step >= 0
  BY <1>1, RingAssumption
<1>3. QED BY <1>1, <1>2 DEF Grad, Query

(* What iteration s of device i adds to a gradient and to its dq.          *)
Share(i, s) ==
  IF Sees(i, BlockAt(i, s))
  THEN {[q |-> i, blk |-> BlockAt(i, s), mode |-> WantMode(i, BlockAt(i, s)), step |-> s]}
  ELSE {}

LEMMA OneMore ==
  ASSUME NEW i \in Device, NEW s \in 0 .. N - 1
  PROVE  /\ Grad(BlockAt(i, s), s + 1) = Grad(BlockAt(i, s), s) \cup Share(i, s)
         /\ Query(i, s + 1) = Query(i, s) \cup Share(i, s)
<1> DEFINE b == BlockAt(i, s)
<1> DEFINE new == [q |-> i, blk |-> b, mode |-> WantMode(i, b), step |-> s]
<1>1. b \in Device /\ s \in Int
  BY BackwardRing, RingAssumption
<1>2. new \in Contribution /\ (new \in Due <=> Sees(i, b))
  BY <1>1 DEF Contribution, Due, WantMode
<1>3. \A x \in Due : /\ x \in Contribution /\ x.q \in Device /\ x.step \in 0 .. N - 1
                    /\ x.blk = BlockAt(x.q, x.step) /\ Sees(x.q, x.blk)
                    /\ x.mode = WantMode(x.q, x.blk)
  BY DEF Due, Contribution
<1>4. \A x \in Due : x.step \in Int /\ (x.step < s + 1 <=> x.step < s \/ x.step = s)
  BY <1>1, <1>3, RingAssumption
<1>5. \A x \in Due : x.q = i /\ x.step = s => x = new /\ Sees(i, b)
  BY <1>3 DEF Contribution
<1>6. \A x \in Due : x.blk = b /\ x.step = s => x.q = i
  <2> SUFFICES ASSUME NEW x \in Due, x.blk = b, x.step = s PROVE x.q = i
    OBVIOUS
  <2>1. x.q \in Device /\ BlockAt(x.q, s) = BlockAt(i, s)
    BY <1>3
  <2>2. \A j \in Device : BlockAt(j, s) = BlockAt(i, s) => j = i
    BY BackwardRing
  <2>3. QED BY <2>1, <2>2
<1>7. Share(i, s) = IF Sees(i, b) THEN {new} ELSE {}
  BY DEF Share
<1>8. new.blk = b /\ new.q = i /\ new.step = s /\ s < s + 1
  BY <1>1
<1>9. \A x : x \in Share(i, s) <=> x = new /\ new \in Due
  BY <1>2, <1>7
<1>10. \A x : x \in Grad(b, s + 1) <=> x \in Grad(b, s) \/ x \in Share(i, s)
  BY <1>4, <1>5, <1>6, <1>8, <1>9 DEF Grad
<1>11. \A x : x \in Query(i, s + 1) <=> x \in Query(i, s) \/ x \in Share(i, s)
  BY <1>4, <1>5, <1>8, <1>9 DEF Query
<1>12. QED BY <1>10, <1>11

(* The switch of the code selects the mode the position requires.          *)
LEMMA BackwardSwitch ==
  ASSUME NEW i \in Device, NEW b \in Device, kv[i] = [blk |-> b, ix |-> b]
  PROVE  /\ BwdMode(i) = "skip" <=> ~ Sees(i, b)
         /\ BwdMode(i) # "skip" => BwdMode(i) = WantMode(i, b)
BY RingAssumption DEF BwdMode, Branch, Cmp, Sees, WantMode, Device

(* Where a contribution can be: in a gradient carried, received, or on     *)
(* its way.                                                                *)
Somewhere(x) ==
  \E i \in Device : \/ x \in dkv[i] \/ x \in rdkv[i]
                    \/ \E m \in 1 .. Len(linkDkv[i]) : x \in linkDkv[i][m]

LEMMA LedgerSomewhere ==
  /\ LedgerInv <=> \A x \in Contribution : Somewhere(x) <=> \E i \in Device : x \in dq[i]
  /\ LedgerInv' <=> (\A x \in Contribution : Somewhere(x) <=> \E i \in Device : x \in dq[i])'
<1>1. ASSUME NEW x PROVE (\E g \in Gradients : x \in g) <=> Somewhere(x)
  BY DEF Gradients, InFlight, Somewhere
<1>2. ASSUME NEW x PROVE ((\E g \in Gradients : x \in g) <=> Somewhere(x))'
  BY DEF Gradients, InFlight, Somewhere
<1>3. QED BY <1>1, <1>2 DEF LedgerInv

-----------------------------------------------------------------------------
LEMMA InitBackward == BwdInit => BwdIInv
<1> SUFFICES ASSUME BwdInit PROVE BwdIInv
  OBVIOUS
<1>1. BwdTypeOK
  BY RingAssumption DEF BwdInit, BwdTypeOK, Device, Held
<1>2. /\ \A i \in Device : /\ iter[i] = 0 /\ dkv[i] = {} /\ rdkv[i] = {} /\ dq[i] = {}
                           /\ kv[i] = [blk |-> i, ix |-> i]
                           /\ sent[i] = {} /\ got[i] = {} /\ ~ computed[i] /\ ~ added[i]
                           /\ linkKv[i] = <<>> /\ linkDkv[i] = <<>>
      /\ 0 < N /\ 0 <= N /\ ~ (0 > N) /\ ~ (0 >= N) /\ N \in Nat
  BY RingAssumption DEF BwdInit
<1>3. BwdScanInv
  BY <1>2 DEF BwdScanInv
<1>4. BwdCarryInv
  <2>1. \A i \in Device : kv[i] = HeldAt(i, 0)
    BY <1>2, BackwardRing DEF HeldAt
  <2>2. QED BY <1>2, <2>1 DEF BwdCarryInv
<1>5. \A i \in Device : BwdMerged(i) = 0 /\ KvStarted(i) = 0 /\ KvReceived(i) = 0
                      /\ DkvStarted(i) = 0 /\ DkvReceived(i) = 0
  BY <1>2 DEF BwdMerged, KvStarted, KvReceived, DkvStarted, DkvReceived
<1>6. GradInv
  BY <1>2, <1>5, GradGrows DEF GradInv, Arriving
<1>7. KvLinkInv /\ DkvLinkInv
  <2>1. \A j \in Device : Len(linkKv[j]) = 0 /\ Len(linkDkv[j]) = 0
    BY <1>2
  <2>2. \A j \in Device : Pred(j) \in Device
    BY BackwardRing
  <2>3. QED BY <1>5, <2>1, <2>2 DEF KvLinkInv, DkvLinkInv
<1>8. LedgerInv
  <2>1. \A i \in Device : Len(linkDkv[i]) = 0
    BY <1>2
  <2>2. ASSUME NEW x, Somewhere(x) PROVE FALSE
    <3>1. PICK i \in Device : \/ x \in dkv[i] \/ x \in rdkv[i]
                             \/ \E m \in 1 .. Len(linkDkv[i]) : x \in linkDkv[i][m]
      BY <2>2 DEF Somewhere
    <3>2. dkv[i] = {} /\ rdkv[i] = {}
      BY <1>2
    <3>3. ~ \E m \in 1 .. Len(linkDkv[i]) : x \in linkDkv[i][m]
      BY <2>1
    <3>4. QED BY <3>1, <3>2, <3>3
  <2>3. ASSUME NEW x, \E i \in Device : x \in dq[i] PROVE FALSE
    BY <1>2, <2>3
  <2>4. QED BY <2>2, <2>3, LedgerSomewhere
<1>9. QED BY <1>1, <1>3, <1>4, <1>6, <1>7, <1>8 DEF BwdIInv

(* The numbers of the iterations, as the steps below use them.             *)
LEMMA Iterations ==
  ASSUME BwdTypeOK, NEW i \in Device
  PROVE  /\ N \in Nat /\ N >= 1 /\ iter[i] \in Int /\ 0 <= iter[i] /\ iter[i] <= N + 1
         /\ iter[i] < N => iter[i] \in 0 .. N - 1
         /\ iter[i] <= N => iter[i] \in 0 .. N
BY RingAssumption DEF BwdTypeOK

LEMMA StartKvBackward ==
  ASSUME BwdIInv, NEW i \in Device, StartKv(i)
  PROVE  BwdIInv'
<1> DEFINE r == Succ(i)
<1>0. /\ BwdTypeOK /\ BwdScanInv /\ BwdCarryInv /\ GradInv /\ KvLinkInv /\ DkvLinkInv /\ LedgerInv
      /\ r \in Device /\ Pred(r) = i
      /\ iter[i] < N /\ "kv" \notin sent[i]
  BY BackwardRing DEF BwdIInv, StartKv
<1>1. /\ iter' = iter /\ kv' = kv /\ dkv' = dkv /\ dq' = dq /\ computed' = computed
      /\ added' = added /\ got' = got /\ rkv' = rkv /\ rdkv' = rdkv /\ linkDkv' = linkDkv
      /\ sent' = [sent EXCEPT ![i] = @ \cup {"kv"}]
      /\ linkKv' = [linkKv EXCEPT ![r] = Append(@, kv[i])]
  BY DEF StartKv
<1>2. /\ \A j \in Device : sent'[j] = IF j = i THEN sent[j] \cup {"kv"} ELSE sent[j]
      /\ \A j \in Device : linkKv'[j] = IF j = r THEN Append(linkKv[j], kv[i]) ELSE linkKv[j]
  BY <1>0, <1>1 DEF BwdTypeOK
<1>3. /\ linkKv[r] \in Seq(Held) /\ kv[i] \in Held
      /\ Len(linkKv'[r]) = Len(linkKv[r]) + 1 /\ Len(linkKv[r]) \in Nat
      /\ linkKv'[r] \in Seq(Held)
      /\ \A m \in 1 .. Len(linkKv'[r]) :
           linkKv'[r][m] = IF m = Len(linkKv[r]) + 1 THEN kv[i] ELSE linkKv[r][m]
  <2>1. linkKv[r] \in Seq(Held) /\ kv[i] \in Held
    BY <1>0 DEF BwdTypeOK
  <2>2. linkKv'[r] = Append(linkKv[r], kv[i])
    BY <1>0, <1>2
  <2>3. QED BY <2>1, <2>2
<1>4. BwdTypeOK'
  <2>1. sent' \in [Device -> SUBSET {"kv", "dkv"}]
    BY <1>0, <1>1 DEF BwdTypeOK
  <2>2. linkKv' \in [Device -> Seq(Held)]
    BY <1>0, <1>1, <1>3 DEF BwdTypeOK
  <2>3. QED BY <1>0, <1>1, <2>1, <2>2 DEF BwdTypeOK
<1>5. BwdScanInv'
  BY <1>0, <1>1, <1>2, Iterations DEF BwdScanInv
<1>6. BwdCarryInv' /\ GradInv'
  BY <1>0, <1>1 DEF BwdCarryInv, GradInv, BwdMerged
<1>7. \A j \in Device : /\ KvReceived(j)' = KvReceived(j)
                       /\ DkvStarted(j)' = DkvStarted(j) /\ DkvReceived(j)' = DkvReceived(j)
  BY <1>0, <1>1, <1>2 DEF KvReceived, DkvStarted, DkvReceived
<1>8. \A j \in Device : KvStarted(j)' = IF j = i THEN iter[i] + 1 ELSE KvStarted(j)
  <2>1. KvStarted(i)' = iter[i] + 1
    <3>1. iter[i] \in Int /\ N \in Nat
      BY <1>0, Iterations
    <3>2. ~ (iter'[i] >= N) /\ iter'[i] = iter[i]
      BY <3>1, <1>0, <1>1
    <3>3. "kv" \in sent'[i]
      BY <1>2
    <3>4. QED BY <3>2, <3>3 DEF KvStarted
  <2>2. ASSUME NEW j \in Device, j # i PROVE KvStarted(j)' = KvStarted(j)
    BY <2>2, <1>1, <1>2 DEF KvStarted
  <2>3. QED BY <2>1, <2>2
<1>9. KvStarted(i) = iter[i]
  BY <1>0, Iterations DEF KvStarted
<1>10. KvLinkInv'
  <2> SUFFICES ASSUME NEW j \in Device
               PROVE  /\ KvStarted(Pred(j))' = KvReceived(j)' + Len(linkKv'[j])
                      /\ \A m \in 1 .. Len(linkKv'[j]) : linkKv'[j][m] = HeldAt(j, KvReceived(j)' + m)
    BY DEF KvLinkInv
  <2>0. Pred(j) \in Device /\ (j # r => Pred(j) # i)
    BY BackwardRing
  <2>1. CASE j # r
    BY <2>0, <2>1, <1>0, <1>2, <1>7, <1>8 DEF KvLinkInv
  <2>2. CASE j = r
    <3>1. iter[i] = KvReceived(r) + Len(linkKv[r])
      BY <1>0, <1>9 DEF KvLinkInv
    <3>2. KvReceived(r) \in Int
      BY <1>0, Iterations DEF KvReceived
    <3>3. kv[i] = HeldAt(r, iter[i] + 1)
      <4>1. kv[i] = HeldAt(i, iter[i])
        BY <1>0, Iterations DEF BwdCarryInv
      <4>2. BlockAt(r, iter[i] + 1) = BlockAt(i, iter[i])
        BY <1>0, Iterations, BackwardRing
      <4>3. QED BY <4>1, <4>2 DEF HeldAt
    <3>4. ASSUME NEW m \in 1 .. Len(linkKv'[r])
          PROVE  linkKv'[r][m] = HeldAt(r, KvReceived(r) + m)
      <4>1. CASE m = Len(linkKv[r]) + 1
        <5>1. KvReceived(r) + m = iter[i] + 1
          BY <4>1, <3>1, <3>2, <1>3
        <5>2. QED BY <5>1, <4>1, <3>3, <1>3
      <4>2. CASE m # Len(linkKv[r]) + 1
        <5>1. m \in 1 .. Len(linkKv[r])
          BY <4>2, <1>3
        <5>2. QED BY <5>1, <4>2, <1>0, <1>3 DEF KvLinkInv
      <4>3. QED BY <4>1, <4>2
    <3>5. KvStarted(Pred(r))' = KvReceived(r) + Len(linkKv'[r])
      <4>1. KvStarted(i)' = iter[i] + 1
        BY <1>8
      <4>2. Pred(r)' = i
        BY <1>0
      <4>3. QED BY <4>1, <4>2, <1>3, <3>1, <3>2
    <3>6. QED BY <2>2, <3>4, <3>5, <1>7
  <2>3. QED BY <2>1, <2>2
<1>11. DkvLinkInv'
  <2>1. \A j \in Device : Pred(j) \in Device /\ DkvStarted(Pred(j))' = DkvStarted(Pred(j))
    BY <1>7, BackwardRing
  <2>2. QED BY <2>1, <1>0, <1>1, <1>7 DEF DkvLinkInv
<1>12. LedgerInv'
  <2>1. \A x : Somewhere(x)' <=> Somewhere(x)
    BY <1>1 DEF Somewhere
  <2>2. QED BY <2>1, <1>0, <1>1, LedgerSomewhere
<1>13. QED BY <1>4, <1>5, <1>6, <1>10, <1>11, <1>12 DEF BwdIInv

LEMMA StartDkvBackward ==
  ASSUME BwdIInv, NEW i \in Device, StartDkv(i)
  PROVE  BwdIInv'
<1> DEFINE r == Succ(i)
<1>0. /\ BwdTypeOK /\ BwdScanInv /\ BwdCarryInv /\ GradInv /\ KvLinkInv /\ DkvLinkInv /\ LedgerInv
      /\ r \in Device /\ Pred(r) = i
      /\ iter[i] <= N /\ "dkv" \notin sent[i]
  BY BackwardRing DEF BwdIInv, StartDkv
<1>1. /\ iter' = iter /\ kv' = kv /\ dkv' = dkv /\ dq' = dq /\ computed' = computed
      /\ added' = added /\ got' = got /\ rkv' = rkv /\ rdkv' = rdkv /\ linkKv' = linkKv
      /\ sent' = [sent EXCEPT ![i] = @ \cup {"dkv"}]
      /\ linkDkv' = [linkDkv EXCEPT ![r] = Append(@, dkv[i])]
  BY DEF StartDkv
<1>2. /\ \A j \in Device : sent'[j] = IF j = i THEN sent[j] \cup {"dkv"} ELSE sent[j]
      /\ \A j \in Device : linkDkv'[j] = IF j = r THEN Append(linkDkv[j], dkv[i]) ELSE linkDkv[j]
  BY <1>0, <1>1 DEF BwdTypeOK
<1>3. /\ linkDkv[r] \in Seq(SUBSET Contribution) /\ dkv[i] \in SUBSET Contribution
      /\ Len(linkDkv'[r]) = Len(linkDkv[r]) + 1 /\ Len(linkDkv[r]) \in Nat
      /\ linkDkv'[r] \in Seq(SUBSET Contribution)
      /\ \A m \in 1 .. Len(linkDkv'[r]) :
           linkDkv'[r][m] = IF m = Len(linkDkv[r]) + 1 THEN dkv[i] ELSE linkDkv[r][m]
  <2>1. linkDkv[r] \in Seq(SUBSET Contribution) /\ dkv[i] \in SUBSET Contribution
    BY <1>0 DEF BwdTypeOK
  <2>2. linkDkv'[r] = Append(linkDkv[r], dkv[i])
    BY <1>0, <1>2
  <2>3. QED BY <2>1, <2>2
<1>4. BwdTypeOK'
  <2>1. sent' \in [Device -> SUBSET {"kv", "dkv"}]
    BY <1>0, <1>1 DEF BwdTypeOK
  <2>2. linkDkv' \in [Device -> Seq(SUBSET Contribution)]
    BY <1>0, <1>1, <1>3 DEF BwdTypeOK
  <2>3. QED BY <1>0, <1>1, <2>1, <2>2 DEF BwdTypeOK
<1>5. BwdScanInv'
  BY <1>0, <1>1, <1>2, Iterations DEF BwdScanInv
<1>6. BwdCarryInv' /\ GradInv'
  BY <1>0, <1>1 DEF BwdCarryInv, GradInv, BwdMerged
<1>7. \A j \in Device : /\ DkvReceived(j)' = DkvReceived(j)
                       /\ KvStarted(j)' = KvStarted(j) /\ KvReceived(j)' = KvReceived(j)
  BY <1>0, <1>1, <1>2 DEF DkvReceived, KvStarted, KvReceived
<1>8. iter[i] \in Int /\ N \in Nat /\ ~ (iter[i] > N)
  <2>1. iter[i] \in Int /\ N \in Nat
    BY <1>0, Iterations
  <2>2. QED BY <2>1, <1>0
<1>9. /\ DkvStarted(i)' = iter[i] + 1 /\ DkvStarted(i) = iter[i]
      /\ \A j \in Device : j # i => DkvStarted(j)' = DkvStarted(j)
  <2>1. "dkv" \in sent'[i]
    BY <1>2
  <2>2. ASSUME NEW j \in Device, j # i PROVE DkvStarted(j)' = DkvStarted(j)
    BY <2>2, <1>1, <1>2 DEF DkvStarted
  <2>3. QED BY <2>1, <2>2, <1>0, <1>1, <1>8 DEF DkvStarted
<1>10. DkvLinkInv'
  <2> SUFFICES ASSUME NEW j \in Device
               PROVE  /\ DkvStarted(Pred(j))' = DkvReceived(j)' + Len(linkDkv'[j])
                      /\ \A m \in 1 .. Len(linkDkv'[j]) :
                           linkDkv'[j][m] = Arriving(j, DkvReceived(j)' + m - 1)
    BY DEF DkvLinkInv
  <2>0. Pred(j) \in Device /\ (j # r => Pred(j) # i)
    BY BackwardRing
  <2>1. CASE j # r
    BY <2>0, <2>1, <1>0, <1>2, <1>7, <1>9 DEF DkvLinkInv
  <2>2. CASE j = r
    <3>1. iter[i] = DkvReceived(r) + Len(linkDkv[r])
      BY <1>0, <1>9 DEF DkvLinkInv
    <3>2. DkvReceived(r) \in Int
      BY <1>0, Iterations DEF DkvReceived
    <3>3. dkv[i] = Arriving(r, iter[i])
      BY <1>0, Iterations DEF GradInv
    <3>4. ASSUME NEW m \in 1 .. Len(linkDkv'[r])
          PROVE  linkDkv'[r][m] = Arriving(r, DkvReceived(r) + m - 1)
      <4>1. CASE m = Len(linkDkv[r]) + 1
        <5>1. DkvReceived(r) + m - 1 = iter[i]
          BY <4>1, <3>1, <3>2, <1>3
        <5>2. QED BY <5>1, <4>1, <3>3, <1>3
      <4>2. CASE m # Len(linkDkv[r]) + 1
        <5>1. m \in 1 .. Len(linkDkv[r])
          BY <4>2, <1>3
        <5>2. QED BY <5>1, <4>2, <1>0, <1>3 DEF DkvLinkInv
      <4>3. QED BY <4>1, <4>2
    <3>5. DkvStarted(Pred(r))' = DkvReceived(r) + Len(linkDkv'[r])
      <4>1. Pred(r)' = i
        BY <1>0
      <4>2. QED BY <4>1, <1>9, <1>3, <3>1, <3>2
    <3>6. QED BY <2>2, <3>4, <3>5, <1>7
  <2>3. QED BY <2>1, <2>2
<1>11. KvLinkInv'
  <2>1. \A j \in Device : Pred(j) \in Device /\ KvStarted(Pred(j))' = KvStarted(Pred(j))
    BY <1>7, BackwardRing
  <2>2. QED BY <2>1, <1>0, <1>1, <1>7 DEF KvLinkInv
<1>12. LedgerInv'
  <2>1. ASSUME NEW x, Somewhere(x) PROVE Somewhere(x)'
    <3>1. PICK j \in Device : \/ x \in dkv[j] \/ x \in rdkv[j]
                             \/ \E m \in 1 .. Len(linkDkv[j]) : x \in linkDkv[j][m]
      BY <2>1 DEF Somewhere
    <3>2. CASE j = r /\ \E m \in 1 .. Len(linkDkv[j]) : x \in linkDkv[j][m]
      <4>1. PICK m \in 1 .. Len(linkDkv[r]) : x \in linkDkv[r][m]
        BY <3>2
      <4>2. m \in 1 .. Len(linkDkv'[r]) /\ x \in linkDkv'[r][m]
        BY <4>1, <1>3
      <4>3. QED BY <4>2, <1>0 DEF Somewhere
    <3>3. CASE ~ (j = r /\ \E m \in 1 .. Len(linkDkv[j]) : x \in linkDkv[j][m])
      BY <3>1, <3>3, <1>1, <1>2 DEF Somewhere
    <3>4. QED BY <3>2, <3>3
  <2>2. ASSUME NEW x, Somewhere(x)' PROVE Somewhere(x)
    <3>1. PICK j \in Device : \/ x \in dkv'[j] \/ x \in rdkv'[j]
                             \/ \E m \in 1 .. Len(linkDkv'[j]) : x \in linkDkv'[j][m]
      BY <2>2 DEF Somewhere
    <3>2. CASE j = r /\ \E m \in 1 .. Len(linkDkv'[j]) : x \in linkDkv'[j][m]
      <4>1. PICK m \in 1 .. Len(linkDkv'[r]) : x \in linkDkv'[r][m]
        BY <3>2
      <4>2. CASE m = Len(linkDkv[r]) + 1
        BY <4>1, <4>2, <1>3 DEF Somewhere
      <4>3. CASE m # Len(linkDkv[r]) + 1
        <5>1. m \in 1 .. Len(linkDkv[r]) /\ x \in linkDkv[r][m]
          BY <4>1, <4>3, <1>3
        <5>2. QED BY <5>1, <1>0 DEF Somewhere
      <4>4. QED BY <4>2, <4>3
    <3>3. CASE ~ (j = r /\ \E m \in 1 .. Len(linkDkv'[j]) : x \in linkDkv'[j][m])
      BY <3>1, <3>3, <1>1, <1>2 DEF Somewhere
    <3>4. QED BY <3>2, <3>3
  <2>3. QED BY <2>1, <2>2, <1>0, <1>1, LedgerSomewhere
<1>13. QED BY <1>4, <1>5, <1>6, <1>10, <1>11, <1>12 DEF BwdIInv

LEMMA DoneKvBackward ==
  ASSUME BwdIInv, NEW i \in Device, DoneKv(i)
  PROVE  BwdIInv'
<1>0. /\ BwdTypeOK /\ BwdScanInv /\ BwdCarryInv /\ GradInv /\ KvLinkInv /\ DkvLinkInv /\ LedgerInv
      /\ "kv" \in sent[i] /\ "kv" \notin got[i] /\ linkKv[i] # <<>>
  BY DEF BwdIInv, DoneKv
<1>1. /\ iter' = iter /\ kv' = kv /\ dkv' = dkv /\ dq' = dq /\ computed' = computed
      /\ added' = added /\ sent' = sent /\ rdkv' = rdkv /\ linkDkv' = linkDkv
      /\ got' = [got EXCEPT ![i] = @ \cup {"kv"}]
      /\ rkv' = [rkv EXCEPT ![i] = Head(linkKv[i])]
      /\ linkKv' = [linkKv EXCEPT ![i] = Tail(@)]
  BY DEF DoneKv
<1>2. /\ \A j \in Device : got'[j] = IF j = i THEN got[j] \cup {"kv"} ELSE got[j]
      /\ \A j \in Device : rkv'[j] = IF j = i THEN Head(linkKv[i]) ELSE rkv[j]
      /\ \A j \in Device : linkKv'[j] = IF j = i THEN Tail(linkKv[j]) ELSE linkKv[j]
  BY <1>0, <1>1 DEF BwdTypeOK
<1>3. /\ linkKv[i] \in Seq(Held) /\ Len(linkKv[i]) \in Nat /\ Len(linkKv[i]) >= 1
      /\ Head(linkKv[i]) = linkKv[i][1] /\ Head(linkKv[i]) \in Held
      /\ linkKv'[i] \in Seq(Held) /\ Len(linkKv'[i]) = Len(linkKv[i]) - 1
      /\ \A m \in 1 .. Len(linkKv'[i]) : linkKv'[i][m] = linkKv[i][m + 1]
  <2>1. linkKv[i] \in Seq(Held) /\ linkKv[i] # <<>>
    BY <1>0 DEF BwdTypeOK
  <2>2. linkKv'[i] = Tail(linkKv[i])
    BY <1>2
  <2>3. QED BY <2>1, <2>2
<1>4. iter[i] \in Int /\ N \in Nat /\ iter[i] < N /\ ~ (iter[i] >= N)
  <2>1. iter[i] \in Int /\ N \in Nat
    BY <1>0, Iterations
  <2>2. ~ (iter[i] >= N)
    BY <1>0 DEF BwdScanInv
  <2>3. QED BY <2>1, <2>2
<1>5. /\ KvReceived(i) = iter[i] /\ KvReceived(i)' = iter[i] + 1
      /\ \A j \in Device : j # i => KvReceived(j)' = KvReceived(j)
  <2>1. "kv" \in got'[i]
    BY <1>2
  <2>2. ASSUME NEW j \in Device, j # i PROVE KvReceived(j)' = KvReceived(j)
    BY <2>2, <1>1, <1>2 DEF KvReceived
  <2>3. QED BY <2>1, <2>2, <1>0, <1>1, <1>4 DEF KvReceived
<1>6. Head(linkKv[i]) = HeldAt(i, iter[i] + 1)
  BY <1>0, <1>3, <1>5 DEF KvLinkInv
<1>7. BwdTypeOK'
  <2>1. got' \in [Device -> SUBSET {"kv", "dkv"}]
    BY <1>0, <1>1 DEF BwdTypeOK
  <2>2. linkKv' \in [Device -> Seq(Held)] /\ rkv' \in [Device -> Held \cup {Unreceived}]
    BY <1>0, <1>1, <1>3 DEF BwdTypeOK
  <2>3. QED BY <1>0, <1>1, <2>1, <2>2 DEF BwdTypeOK
<1>8. BwdScanInv'
  BY <1>0, <1>1, <1>2, <1>4 DEF BwdScanInv
<1>9. BwdCarryInv'
  BY <1>0, <1>1, <1>2, <1>6 DEF BwdCarryInv
<1>10. GradInv'
  BY <1>0, <1>1, <1>2 DEF GradInv, BwdMerged
<1>11. \A j \in Device : /\ KvStarted(j)' = KvStarted(j)
                        /\ DkvStarted(j)' = DkvStarted(j) /\ DkvReceived(j)' = DkvReceived(j)
  BY <1>0, <1>1, <1>2 DEF KvStarted, DkvStarted, DkvReceived
<1>12. KvLinkInv'
  <2> SUFFICES ASSUME NEW j \in Device
               PROVE  /\ KvStarted(Pred(j))' = KvReceived(j)' + Len(linkKv'[j])
                      /\ \A m \in 1 .. Len(linkKv'[j]) : linkKv'[j][m] = HeldAt(j, KvReceived(j)' + m)
    BY DEF KvLinkInv
  <2>0. Pred(j) \in Device /\ KvStarted(Pred(j))' = KvStarted(Pred(j))
    BY <1>11, BackwardRing
  <2>1. CASE j # i
    BY <2>0, <2>1, <1>0, <1>2, <1>5 DEF KvLinkInv
  <2>2. CASE j = i
    <3>1. KvStarted(Pred(i)) = iter[i] + Len(linkKv[i])
      BY <1>0, <1>5 DEF KvLinkInv
    <3>2. ASSUME NEW m \in 1 .. Len(linkKv'[i])
          PROVE  linkKv'[i][m] = HeldAt(i, iter[i] + 1 + m)
      <4>1. m + 1 \in 1 .. Len(linkKv[i])
        BY <1>3
      <4>2. linkKv[i][m + 1] = HeldAt(i, iter[i] + (m + 1))
        BY <4>1, <1>0, <1>5 DEF KvLinkInv
      <4>3. iter[i] + (m + 1) = iter[i] + 1 + m
        BY <1>4
      <4>4. QED BY <4>2, <4>3, <1>3
    <3>3. KvStarted(Pred(i)) = iter[i] + 1 + Len(linkKv'[i])
      <4>1. /\ Len(linkKv'[i]) = Len(linkKv[i]) - 1
            /\ Len(linkKv[i]) \in Nat /\ iter[i] \in Int
        BY <1>3, <1>4
      <4>2. QED BY <3>1, <4>1
    <3>4. QED BY <2>0, <2>2, <3>2, <3>3, <1>5
  <2>3. QED BY <2>1, <2>2
<1>13. DkvLinkInv'
  <2>1. \A j \in Device : Pred(j) \in Device /\ DkvStarted(Pred(j))' = DkvStarted(Pred(j))
    BY <1>11, BackwardRing
  <2>2. QED BY <2>1, <1>0, <1>1, <1>11 DEF DkvLinkInv
<1>14. LedgerInv'
  <2>1. \A x : Somewhere(x)' <=> Somewhere(x)
    BY <1>1 DEF Somewhere
  <2>2. QED BY <2>1, <1>0, <1>1, LedgerSomewhere
<1>15. QED BY <1>7, <1>8, <1>9, <1>10, <1>12, <1>13, <1>14 DEF BwdIInv

(* Completing the permute of the gradients overwrites a copy of dkv.       *)
LEMMA DoneDkvBackward ==
  ASSUME BwdIInv, NEW i \in Device, DoneDkv(i)
  PROVE  BwdIInv'
<1>0. /\ BwdTypeOK /\ BwdScanInv /\ BwdCarryInv /\ GradInv /\ KvLinkInv /\ DkvLinkInv /\ LedgerInv
      /\ "dkv" \in sent[i] /\ "dkv" \notin got[i] /\ linkDkv[i] # <<>>
  BY DEF BwdIInv, DoneDkv
<1>1. /\ iter' = iter /\ kv' = kv /\ dkv' = dkv /\ dq' = dq /\ computed' = computed
      /\ added' = added /\ sent' = sent /\ rkv' = rkv /\ linkKv' = linkKv
      /\ got' = [got EXCEPT ![i] = @ \cup {"dkv"}]
      /\ rdkv' = [rdkv EXCEPT ![i] = Head(linkDkv[i])]
      /\ linkDkv' = [linkDkv EXCEPT ![i] = Tail(@)]
  BY DEF DoneDkv
<1>2. /\ \A j \in Device : got'[j] = IF j = i THEN got[j] \cup {"dkv"} ELSE got[j]
      /\ \A j \in Device : rdkv'[j] = IF j = i THEN Head(linkDkv[i]) ELSE rdkv[j]
      /\ \A j \in Device : linkDkv'[j] = IF j = i THEN Tail(linkDkv[j]) ELSE linkDkv[j]
  BY <1>0, <1>1 DEF BwdTypeOK
<1>3. /\ linkDkv[i] \in Seq(SUBSET Contribution)
      /\ Len(linkDkv[i]) \in Nat /\ Len(linkDkv[i]) >= 1
      /\ Head(linkDkv[i]) = linkDkv[i][1] /\ Head(linkDkv[i]) \in SUBSET Contribution
      /\ linkDkv'[i] \in Seq(SUBSET Contribution) /\ Len(linkDkv'[i]) = Len(linkDkv[i]) - 1
      /\ \A m \in 1 .. Len(linkDkv'[i]) : linkDkv'[i][m] = linkDkv[i][m + 1]
  <2>1. linkDkv[i] \in Seq(SUBSET Contribution) /\ linkDkv[i] # <<>>
    BY <1>0 DEF BwdTypeOK
  <2>2. linkDkv'[i] = Tail(linkDkv[i])
    BY <1>2
  <2>3. QED BY <2>1, <2>2
<1>4. iter[i] \in Int /\ N \in Nat /\ iter[i] <= N /\ ~ (iter[i] > N) /\ ~ added[i]
  <2>1. iter[i] \in Int /\ N \in Nat
    BY <1>0, Iterations
  <2>2. ~ (iter[i] > N) /\ ~ added[i]
    BY <1>0 DEF BwdScanInv
  <2>3. QED BY <2>1, <2>2
<1>5. /\ DkvReceived(i) = iter[i] /\ DkvReceived(i)' = iter[i] + 1
      /\ \A j \in Device : j # i => DkvReceived(j)' = DkvReceived(j)
  <2>1. "dkv" \in got'[i]
    BY <1>2
  <2>2. ASSUME NEW j \in Device, j # i PROVE DkvReceived(j)' = DkvReceived(j)
    BY <2>2, <1>1, <1>2 DEF DkvReceived
  <2>3. QED BY <2>1, <2>2, <1>0, <1>1, <1>4 DEF DkvReceived
<1>6. Head(linkDkv[i]) = Arriving(i, iter[i])
  <2>1. linkDkv[i][1] = Arriving(i, DkvReceived(i) + 1 - 1)
    BY <1>0, <1>3 DEF DkvLinkInv
  <2>2. DkvReceived(i) + 1 - 1 = iter[i]
    BY <1>4, <1>5
  <2>3. QED BY <2>1, <2>2, <1>3
<1>7. BwdTypeOK'
  <2>1. got' \in [Device -> SUBSET {"kv", "dkv"}]
    BY <1>0, <1>1 DEF BwdTypeOK
  <2>2. /\ linkDkv' \in [Device -> Seq(SUBSET Contribution)]
        /\ rdkv' \in [Device -> SUBSET Contribution]
    BY <1>0, <1>1, <1>3 DEF BwdTypeOK
  <2>3. QED BY <1>0, <1>1, <2>1, <2>2 DEF BwdTypeOK
<1>8. BwdScanInv'
  BY <1>0, <1>1, <1>2, <1>4 DEF BwdScanInv
<1>9. BwdCarryInv'
  BY <1>0, <1>1, <1>2 DEF BwdCarryInv
<1>10. GradInv'
  <2>1. \A j \in Device : BwdMerged(j)' = BwdMerged(j)
    BY <1>1 DEF BwdMerged
  <2>2. BwdMerged(i) = iter[i]
    BY <1>4 DEF BwdMerged
  <2>3. rdkv'[i] = Grad(BlockAt(i, iter[i]), BwdMerged(i))
    BY <1>2, <1>6, <2>2 DEF Arriving
  <2>4. ASSUME NEW j \in Device
        PROVE  /\ "dkv" \notin got'[j] \/ iter[j] > N => rdkv'[j] = dkv[j]
               /\ "dkv" \in got'[j] /\ iter[j] <= N
                    => rdkv'[j] = Grad(BlockAt(j, iter[j]), BwdMerged(j))
    <3>1. CASE j # i
      BY <3>1, <1>0, <1>2 DEF GradInv
    <3>2. CASE j = i
      BY <3>2, <2>3, <1>2, <1>4
    <3>3. QED BY <3>1, <3>2
  <2>5. QED BY <2>1, <2>4, <1>0, <1>1 DEF GradInv
<1>11. \A j \in Device : /\ DkvStarted(j)' = DkvStarted(j)
                        /\ KvStarted(j)' = KvStarted(j) /\ KvReceived(j)' = KvReceived(j)
  BY <1>0, <1>1, <1>2 DEF DkvStarted, KvStarted, KvReceived
<1>12. DkvLinkInv'
  <2> SUFFICES ASSUME NEW j \in Device
               PROVE  /\ DkvStarted(Pred(j))' = DkvReceived(j)' + Len(linkDkv'[j])
                      /\ \A m \in 1 .. Len(linkDkv'[j]) :
                           linkDkv'[j][m] = Arriving(j, DkvReceived(j)' + m - 1)
    BY DEF DkvLinkInv
  <2>0. Pred(j) \in Device /\ DkvStarted(Pred(j))' = DkvStarted(Pred(j))
    BY <1>11, BackwardRing
  <2>1. CASE j # i
    BY <2>0, <2>1, <1>0, <1>2, <1>5 DEF DkvLinkInv
  <2>2. CASE j = i
    <3>1. DkvStarted(Pred(i)) = iter[i] + Len(linkDkv[i])
      BY <1>0, <1>5 DEF DkvLinkInv
    <3>2. ASSUME NEW m \in 1 .. Len(linkDkv'[i])
          PROVE  linkDkv'[i][m] = Arriving(i, iter[i] + 1 + m - 1)
      <4>1. m + 1 \in 1 .. Len(linkDkv[i])
        BY <1>3
      <4>2. linkDkv[i][m + 1] = Arriving(i, iter[i] + (m + 1) - 1)
        BY <4>1, <1>0, <1>5 DEF DkvLinkInv
      <4>3. iter[i] + (m + 1) - 1 = iter[i] + 1 + m - 1
        BY <1>4
      <4>4. QED BY <4>2, <4>3, <1>3
    <3>3. DkvStarted(Pred(i)) = iter[i] + 1 + Len(linkDkv'[i])
      BY <3>1, <1>3, <1>4
    <3>4. QED BY <2>0, <2>2, <3>2, <3>3, <1>5
  <2>3. QED BY <2>1, <2>2
<1>13. KvLinkInv'
  <2>1. \A j \in Device : Pred(j) \in Device /\ KvStarted(Pred(j))' = KvStarted(Pred(j))
    BY <1>11, BackwardRing
  <2>2. QED BY <2>1, <1>0, <1>1, <1>11 DEF KvLinkInv
<1>14. LedgerInv'
  <2>1. ASSUME NEW x, Somewhere(x) PROVE Somewhere(x)'
    <3>1. PICK j \in Device : \/ x \in dkv[j] \/ x \in rdkv[j]
                             \/ \E m \in 1 .. Len(linkDkv[j]) : x \in linkDkv[j][m]
      BY <2>1 DEF Somewhere
    <3>2. CASE j # i
      BY <3>1, <3>2, <1>1, <1>2 DEF Somewhere
    <3>3. CASE j = i /\ (x \in dkv[i] \/ x \in rdkv[i])
      <4>1. rdkv[i] = dkv[i]
        BY <1>0 DEF GradInv
      <4>2. QED BY <4>1, <3>3, <1>1 DEF Somewhere
    <3>4. CASE j = i /\ \E m \in 1 .. Len(linkDkv[i]) : x \in linkDkv[i][m]
      <4>1. PICK m \in 1 .. Len(linkDkv[i]) : x \in linkDkv[i][m]
        BY <3>4
      <4>2. CASE m = 1
        BY <4>1, <4>2, <1>2, <1>3 DEF Somewhere
      <4>3. CASE m # 1
        <5>1. m - 1 \in 1 .. Len(linkDkv'[i]) /\ (m - 1) + 1 = m
          BY <4>3, <1>3
        <5>2. linkDkv'[i][m - 1] = linkDkv[i][m]
          BY <5>1, <1>3
        <5>3. QED BY <5>1, <5>2, <4>1 DEF Somewhere
      <4>4. QED BY <4>2, <4>3
    <3>5. QED BY <3>1, <3>2, <3>3, <3>4
  <2>2. ASSUME NEW x, Somewhere(x)' PROVE Somewhere(x)
    <3>1. PICK j \in Device : \/ x \in dkv'[j] \/ x \in rdkv'[j]
                             \/ \E m \in 1 .. Len(linkDkv'[j]) : x \in linkDkv'[j][m]
      BY <2>2 DEF Somewhere
    <3>2. CASE j # i \/ x \in dkv'[j]
      BY <3>1, <3>2, <1>1, <1>2 DEF Somewhere
    <3>3. CASE j = i /\ x \in rdkv'[i]
      <4>1. 1 \in 1 .. Len(linkDkv[i]) /\ x \in linkDkv[i][1]
        BY <3>3, <1>2, <1>3
      <4>2. QED BY <4>1 DEF Somewhere
    <3>4. CASE j = i /\ \E m \in 1 .. Len(linkDkv'[i]) : x \in linkDkv'[i][m]
      <4>1. PICK m \in 1 .. Len(linkDkv'[i]) : x \in linkDkv'[i][m]
        BY <3>4
      <4>2. m + 1 \in 1 .. Len(linkDkv[i]) /\ x \in linkDkv[i][m + 1]
        BY <4>1, <1>3
      <4>3. QED BY <4>2 DEF Somewhere
    <3>5. QED BY <3>1, <3>2, <3>3, <3>4
  <2>3. QED BY <2>1, <2>2, <1>0, <1>1, LedgerSomewhere
<1>15. QED BY <1>7, <1>8, <1>9, <1>10, <1>12, <1>13, <1>14 DEF BwdIInv

LEMMA ComputeBackward ==
  ASSUME BwdIInv, NEW i \in Device, Compute(i)
  PROVE  BwdIInv'
<1>0. /\ BwdTypeOK /\ BwdScanInv /\ BwdCarryInv /\ GradInv /\ KvLinkInv /\ DkvLinkInv /\ LedgerInv
      /\ iter[i] < N
  BY DEF BwdIInv, Compute
<1>1. /\ iter' = iter /\ kv' = kv /\ dkv' = dkv /\ dq' = dq /\ added' = added
      /\ sent' = sent /\ got' = got /\ rkv' = rkv /\ rdkv' = rdkv
      /\ linkKv' = linkKv /\ linkDkv' = linkDkv
      /\ computed' = [computed EXCEPT ![i] = TRUE]
  BY DEF Compute
<1>2. BwdTypeOK'
  BY <1>0, <1>1 DEF BwdTypeOK
<1>3. BwdScanInv'
  BY <1>0, <1>1 DEF BwdScanInv, BwdTypeOK
<1>4. BwdCarryInv' /\ GradInv'
  BY <1>0, <1>1 DEF BwdCarryInv, GradInv, BwdMerged
<1>5. KvLinkInv' /\ DkvLinkInv'
  BY <1>0, <1>1 DEF KvLinkInv, DkvLinkInv, KvStarted, KvReceived, DkvStarted, DkvReceived
<1>6. LedgerInv'
  BY <1>0, <1>1 DEF LedgerInv, Gradients, InFlight
<1>7. QED BY <1>2, <1>3, <1>4, <1>5, <1>6 DEF BwdIInv

(* The contribution of an iteration goes to the gradient of its block and  *)
(* to dq, each of which is one iteration further then.                     *)
LEMMA AccumulateBackward ==
  ASSUME BwdIInv, NEW i \in Device, Accumulate(i)
  PROVE  BwdIInv' /\ \A x : Somewhere(x)' <=> Somewhere(x) \/ x \in Share(i, iter[i])
<1> DEFINE s == iter[i]
<1> DEFINE b == BlockAt(i, s)
<1>0. /\ BwdTypeOK /\ BwdScanInv /\ BwdCarryInv /\ GradInv /\ KvLinkInv /\ DkvLinkInv /\ LedgerInv
      /\ computed[i] /\ ~ added[i] /\ "dkv" \in got[i]
  BY DEF BwdIInv, Accumulate
<1>1. /\ iter' = iter /\ kv' = kv /\ dkv' = dkv /\ computed' = computed
      /\ sent' = sent /\ got' = got /\ rkv' = rkv
      /\ linkKv' = linkKv /\ linkDkv' = linkDkv
      /\ rdkv' = [rdkv EXCEPT ![i] = @ \cup Contributed(i, kv[i].blk)]
      /\ dq' = [dq EXCEPT ![i] = @ \cup Contributed(i, kv[i].blk)]
      /\ added' = [added EXCEPT ![i] = TRUE]
  BY DEF Accumulate
<1>2. /\ s \in Int /\ N \in Nat /\ s < N /\ s <= N /\ ~ (s > N) /\ ~ (s >= N)
      /\ s \in 0 .. N - 1 /\ s \in 0 .. N
  <2>1. s < N
    BY <1>0 DEF BwdScanInv
  <2>2. QED BY <2>1, <1>0, Iterations
<1>3. b \in Device /\ kv[i] = HeldAt(i, s) /\ kv[i].blk = b
  <2>1. b \in Device
    BY <1>2, BackwardRing
  <2>2. kv[i] = HeldAt(i, s)
    BY <1>0, <1>2 DEF BwdCarryInv
  <2>3. QED BY <2>1, <2>2 DEF HeldAt
<1>4. Contributed(i, kv[i].blk) = Share(i, s)
  <2>1. /\ BwdMode(i) = "skip" <=> ~ Sees(i, b)
        /\ BwdMode(i) # "skip" => BwdMode(i) = WantMode(i, b)
    BY <1>3, BackwardSwitch DEF HeldAt
  <2>2. QED BY <2>1, <1>3 DEF Contributed, Share
<1>5. BwdMerged(i) = s /\ rdkv[i] = Grad(b, s) /\ dq[i] = Query(i, s)
  <2>1. BwdMerged(i) = s
    BY <1>0, <1>2 DEF BwdMerged
  <2>2. QED BY <2>1, <1>0, <1>2 DEF GradInv
<1>6. /\ rdkv[i] \cup Share(i, s) = Grad(b, s + 1)
      /\ dq[i] \cup Share(i, s) = Query(i, s + 1)
  BY <1>2, <1>5, OneMore
<1>7. /\ \A j \in Device : rdkv'[j] = IF j = i THEN Grad(b, s + 1) ELSE rdkv[j]
      /\ \A j \in Device : dq'[j] = IF j = i THEN Query(i, s + 1) ELSE dq[j]
      /\ added'[i] /\ \A j \in Device : j # i => added'[j] = added[j]
  BY <1>0, <1>1, <1>4, <1>6 DEF BwdTypeOK
<1>8. BwdTypeOK'
  <2>1. added' \in [Device -> BOOLEAN]
    BY <1>0, <1>1 DEF BwdTypeOK
  <2>2. rdkv' \in [Device -> SUBSET Contribution] /\ dq' \in [Device -> SUBSET Contribution]
    BY <1>0, <1>1, <1>4, <1>6, GradGrows DEF BwdTypeOK
  <2>3. QED BY <1>0, <1>1, <2>1, <2>2 DEF BwdTypeOK
<1>9. BwdScanInv'
  <2>1. ASSUME NEW j \in Device
        PROVE  (added'[j] => "dkv" \in got[j]) /\ (added'[j] => iter[j] < N)
    <3>1. CASE j = i
      BY <3>1, <1>0, <1>2
    <3>2. CASE j # i
      BY <3>2, <1>0, <1>7 DEF BwdScanInv
    <3>3. QED BY <3>1, <3>2
  <2>2. QED BY <2>1, <1>0, <1>1 DEF BwdScanInv
<1>10. BwdCarryInv'
  BY <1>0, <1>1 DEF BwdCarryInv
<1>11. GradInv'
  <2>1. BwdMerged(i)' = s + 1
    BY <1>1, <1>2, <1>7 DEF BwdMerged
  <2>2. ASSUME NEW j \in Device, j # i PROVE BwdMerged(j)' = BwdMerged(j)
    BY <2>2, <1>1, <1>7 DEF BwdMerged
  <2>3. ASSUME NEW j \in Device
        PROVE  /\ "dkv" \notin got[j] \/ iter[j] > N => rdkv'[j] = dkv[j]
               /\ "dkv" \in got[j] /\ iter[j] <= N
                    => rdkv'[j] = Grad(BlockAt(j, iter[j]), BwdMerged(j)')
               /\ dq'[j] = Query(j, BwdMerged(j)')
    <3>1. CASE j # i
      BY <3>1, <2>2, <1>0, <1>7 DEF GradInv
    <3>2. CASE j = i
      BY <3>2, <2>1, <1>0, <1>2, <1>7
    <3>3. QED BY <3>1, <3>2
  <2>4. QED BY <2>3, <1>0, <1>1 DEF GradInv
<1>12. KvLinkInv' /\ DkvLinkInv'
  BY <1>0, <1>1 DEF KvLinkInv, DkvLinkInv, KvStarted, KvReceived, DkvStarted, DkvReceived
<1>13. ASSUME NEW x PROVE Somewhere(x)' <=> Somewhere(x) \/ x \in Share(i, s)
  <2>1. \A j \in Device : x \in rdkv'[j] <=> x \in rdkv[j] \/ (j = i /\ x \in Share(i, s))
    BY <1>6, <1>7
  <2>2. QED BY <2>1, <1>1 DEF Somewhere
<1>14. ASSUME NEW x
       PROVE  (\E j \in Device : x \in dq'[j])
                <=> (\E j \in Device : x \in dq[j]) \/ x \in Share(i, s)
  <2>1. \A j \in Device : x \in dq'[j] <=> x \in dq[j] \/ (j = i /\ x \in Share(i, s))
    BY <1>6, <1>7
  <2>2. QED BY <2>1
<1>15. LedgerInv'
  BY <1>0, <1>13, <1>14, LedgerSomewhere
<1>16. QED BY <1>8, <1>9, <1>10, <1>11, <1>12, <1>13, <1>15 DEF BwdIInv

(* When a device drops the gradients it has sent on, a copy with at least  *)
(* the same contributions is on the link, or with the next device.         *)
LEMMA NeverLost ==
  ASSUME BwdIInv, NEW i \in Device, iter[i] <= N, "dkv" \in sent[i], "dkv" \in got[i]
  PROVE  \/ \E m \in 1 .. Len(linkDkv[Succ(i)]) : dkv[i] \subseteq linkDkv[Succ(i)][m]
         \/ dkv[i] \subseteq rdkv[Succ(i)]
         \/ Succ(i) # i /\ dkv[i] \subseteq dkv[Succ(i)]
<1> DEFINE s == iter[i]
<1> DEFINE r == Succ(i)
<1>0. /\ BwdTypeOK /\ BwdScanInv /\ GradInv /\ DkvLinkInv
      /\ r \in Device /\ Pred(r) = i
  BY BackwardRing DEF BwdIInv
<1>1. /\ s \in Int /\ N \in Nat /\ s >= 0 /\ ~ (s > N) /\ s \in 0 .. N
      /\ iter[r] \in Int /\ iter[r] >= 0 /\ iter[r] <= N + 1
  BY <1>0, Iterations
<1>2. dkv[i] = Grad(BlockAt(r, s), s)
  BY <1>0 DEF GradInv, Arriving
<1>3. /\ s + 1 = DkvReceived(r) + Len(linkDkv[r])
      /\ DkvReceived(r) \in Int /\ Len(linkDkv[r]) \in Nat
  <2>1. DkvStarted(i) = s + 1
    BY <1>1 DEF DkvStarted
  <2>2. DkvReceived(r) \in Int
    BY <1>1 DEF DkvReceived
  <2>3. Len(linkDkv[r]) \in Nat
    BY <1>0 DEF BwdTypeOK
  <2>4. QED BY <2>1, <2>2, <2>3, <1>0 DEF DkvLinkInv
<1>4. CASE DkvReceived(r) # s + 1
  <2>1. /\ Len(linkDkv[r]) \in 1 .. Len(linkDkv[r])
        /\ DkvReceived(r) + Len(linkDkv[r]) - 1 = s
    BY <1>1, <1>3, <1>4
  <2>2. linkDkv[r][Len(linkDkv[r])] = Arriving(r, s)
    BY <2>1, <1>0 DEF DkvLinkInv
  <2>3. QED BY <2>1, <2>2, <1>2 DEF Arriving
<1>5. CASE DkvReceived(r) = s + 1
  <2>1. CASE iter[r] = s
    <3>1. "dkv" \in got[r]
      BY <2>1, <1>1, <1>5 DEF DkvReceived
    <3>2. rdkv[r] = Grad(BlockAt(r, s), BwdMerged(r))
      BY <3>1, <2>1, <1>0, <1>1 DEF GradInv
    <3>3. BwdMerged(r) \in Int /\ s <= BwdMerged(r)
      BY <2>1, <1>1 DEF BwdMerged
    <3>4. dkv[i] \subseteq rdkv[r]
      BY <3>2, <3>3, <1>1, <1>2, GradGrows
    <3>5. QED BY <3>4
  <2>2. CASE iter[r] # s
    <3>1. iter[r] = s + 1 /\ r # i
      BY <2>2, <1>1, <1>5 DEF DkvReceived
    <3>2. dkv[r] = Grad(BlockAt(r, s), s) \/ dkv[r] = Grad(BlockAt(r, s), s + 1)
      <4>1. CASE s = N
        <5>1. dkv[r] = Grad(r, N)
          BY <4>1, <3>1, <1>0, <1>1 DEF GradInv
        <5>2. BlockAt(r, s) = r
          BY <4>1, <1>0, BackwardRing
        <5>3. QED BY <4>1, <5>1, <5>2
      <4>2. CASE s # N
        <5>1. dkv[r] = Arriving(Succ(r), s + 1)
          BY <4>2, <3>1, <1>0, <1>1 DEF GradInv
        <5>2. s \in 0 .. N - 1
          BY <4>2, <1>1
        <5>3. BlockAt(Succ(r), s + 1) = BlockAt(r, s)
          BY <5>2, <1>0, BackwardRing
        <5>4. QED BY <5>1, <5>3 DEF Arriving
      <4>3. QED BY <4>1, <4>2
    <3>3. Grad(BlockAt(r, s), s) \subseteq Grad(BlockAt(r, s), s + 1)
      BY <1>1, GradGrows
    <3>4. QED BY <3>1, <3>2, <3>3, <1>2
  <2>3. QED BY <2>1, <2>2
<1>6. QED BY <1>4, <1>5

(* Replacing the gradients sent on by those accumulated loses nothing.     *)
LEMMA DropKeeps ==
  ASSUME BwdIInv, NEW i \in Device, iter[i] <= N, "dkv" \in sent[i], "dkv" \in got[i],
         dkv' = [dkv EXCEPT ![i] = rdkv[i]], rdkv' = rdkv, linkDkv' = linkDkv
  PROVE  \A x : Somewhere(x)' <=> Somewhere(x)
<1>1. \A j \in Device : dkv'[j] = IF j = i THEN rdkv[i] ELSE dkv[j]
  BY DEF BwdIInv, BwdTypeOK
<1>2. Succ(i) \in Device
  BY BackwardRing
<1>3. ASSUME NEW x, Somewhere(x) PROVE Somewhere(x)'
  <2>1. CASE x \in dkv[i]
    <3>1. \/ \E m \in 1 .. Len(linkDkv[Succ(i)]) : x \in linkDkv[Succ(i)][m]
          \/ x \in rdkv[Succ(i)]
          \/ Succ(i) # i /\ x \in dkv[Succ(i)]
      BY <2>1, NeverLost
    <3>2. QED BY <3>1, <1>1, <1>2 DEF Somewhere
  <2>2. CASE x \notin dkv[i]
    <3>1. PICK j \in Device : \/ x \in dkv[j] \/ x \in rdkv[j]
                             \/ \E m \in 1 .. Len(linkDkv[j]) : x \in linkDkv[j][m]
      BY <1>3 DEF Somewhere
    <3>2. \/ x \in dkv'[j] \/ x \in rdkv[j]
          \/ \E m \in 1 .. Len(linkDkv[j]) : x \in linkDkv[j][m]
      BY <2>2, <3>1, <1>1
    <3>3. QED BY <3>2 DEF Somewhere
  <2>3. QED BY <2>1, <2>2
<1>4. ASSUME NEW x, Somewhere(x)' PROVE Somewhere(x)
  BY <1>1, <1>4 DEF Somewhere
<1>5. QED BY <1>3, <1>4

LEMMA NextIterationBackward ==
  ASSUME BwdIInv, NEW i \in Device, BwdNextIteration(i)
  PROVE  BwdIInv'
<1> DEFINE s == iter[i]
<1>0. /\ BwdTypeOK /\ BwdScanInv /\ BwdCarryInv /\ GradInv /\ KvLinkInv /\ DkvLinkInv /\ LedgerInv
      /\ added[i] /\ "kv" \in got[i] /\ "dkv" \in got[i]
      /\ "kv" \in sent[i] /\ "dkv" \in sent[i] /\ s < N
  <2>1. BwdScanInv /\ added[i] /\ "kv" \in got[i] /\ "dkv" \in got[i]
    BY DEF BwdIInv, BwdNextIteration
  <2>2. s < N /\ got[i] \subseteq sent[i]
    BY <2>1 DEF BwdScanInv
  <2>3. QED BY <2>1, <2>2 DEF BwdIInv
<1>1. /\ dq' = dq /\ rdkv' = rdkv /\ linkKv' = linkKv /\ linkDkv' = linkDkv
      /\ rkv' = [rkv EXCEPT ![i] = Unreceived]
      /\ iter' = [iter EXCEPT ![i] = @ + 1]
      /\ kv' = [kv EXCEPT ![i] = rkv[i]]
      /\ dkv' = [dkv EXCEPT ![i] = rdkv[i]]
      /\ computed' = [computed EXCEPT ![i] = FALSE]
      /\ added' = [added EXCEPT ![i] = FALSE]
      /\ sent' = [sent EXCEPT ![i] = {}]
      /\ got' = [got EXCEPT ![i] = {}]
  BY DEF BwdNextIteration
<1>2. /\ s \in Int /\ N \in Nat /\ s >= 0 /\ s \in 0 .. N - 1 /\ s + 1 \in 0 .. N
      /\ s <= N /\ ~ (s > N) /\ ~ (s >= N) /\ s + 1 <= N /\ ~ (s + 1 > N)
      /\ (s + 1 >= N => s + 1 = N) /\ s + 1 \in 0 .. N + 1
  BY <1>0, Iterations
<1>3. /\ iter'[i] = s + 1 /\ kv'[i] = rkv[i] /\ dkv'[i] = rdkv[i]
      /\ ~ computed'[i] /\ ~ added'[i] /\ sent'[i] = {} /\ got'[i] = {}
  BY <1>0, <1>1 DEF BwdTypeOK
<1>4. ASSUME NEW j \in Device, j # i
      PROVE  /\ iter'[j] = iter[j] /\ kv'[j] = kv[j] /\ dkv'[j] = dkv[j]
             /\ computed'[j] = computed[j] /\ added'[j] = added[j]
             /\ sent'[j] = sent[j] /\ got'[j] = got[j] /\ rkv'[j] = rkv[j]
  BY <1>0, <1>1, <1>4 DEF BwdTypeOK
<1>5. BwdTypeOK'
  <2>1. iter' \in [Device -> 0 .. N + 1]
    BY <1>0, <1>1, <1>2 DEF BwdTypeOK
  <2>2. rkv[i] \in Held /\ rdkv[i] \in SUBSET Contribution
    <3>1. rkv[i] = HeldAt(i, s + 1)
      BY <1>0 DEF BwdCarryInv
    <3>2. BlockAt(i, s + 1) \in Device
      BY <1>2, BackwardRing
    <3>3. QED BY <1>0, <3>1, <3>2 DEF HeldAt, Held, BwdTypeOK
  <2>3. kv' \in [Device -> Held] /\ dkv' \in [Device -> SUBSET Contribution]
    BY <1>0, <1>1, <2>2 DEF BwdTypeOK
  <2>4. computed' \in [Device -> BOOLEAN] /\ added' \in [Device -> BOOLEAN]
    BY <1>0, <1>1 DEF BwdTypeOK
  <2>5. /\ sent' \in [Device -> SUBSET {"kv", "dkv"}]
        /\ got' \in [Device -> SUBSET {"kv", "dkv"}]
    BY <1>0, <1>1 DEF BwdTypeOK
  <2>6. rkv' \in [Device -> Held \cup {Unreceived}]
    BY <1>0, <1>1 DEF BwdTypeOK
  <2>7. QED BY <1>0, <1>1, <2>1, <2>3, <2>4, <2>5, <2>6 DEF BwdTypeOK
<1>6. BwdScanInv'
  <2>1. ASSUME NEW j \in Device
        PROVE  /\ got'[j] \subseteq sent'[j]
               /\ added'[j] => "dkv" \in got'[j]
               /\ computed'[j] => iter'[j] < N
               /\ added'[j] => iter'[j] < N
               /\ iter'[j] >= N => "kv" \notin sent'[j]
               /\ iter'[j] > N => "dkv" \in got'[j]
    <3>1. CASE j = i
      BY <3>1, <1>2, <1>3
    <3>2. CASE j # i
      BY <3>2, <1>0, <1>4 DEF BwdScanInv
    <3>3. QED BY <3>1, <3>2
  <2>2. QED BY <2>1 DEF BwdScanInv
<1>7. rkv[i] = HeldAt(i, s + 1)
  BY <1>0 DEF BwdCarryInv
<1>8. BwdCarryInv'
  <2>1. ASSUME NEW j \in Device
        PROVE  /\ iter'[j] <= N => kv'[j] = HeldAt(j, iter'[j])
               /\ "kv" \in got'[j] => rkv'[j] = HeldAt(j, iter'[j] + 1)
    <3>1. CASE j = i
      BY <3>1, <1>3, <1>7
    <3>2. CASE j # i
      BY <3>2, <1>0, <1>4 DEF BwdCarryInv
    <3>3. QED BY <3>1, <3>2
  <2>2. QED BY <2>1, <1>1 DEF BwdCarryInv
<1>9. BwdMerged(i) = s + 1 /\ BwdMerged(i)' = s + 1 /\ \A j \in Device : BwdMerged(j)' = BwdMerged(j)
  <2>1. BwdMerged(i) = s + 1 /\ BwdMerged(i)' = s + 1
    BY <1>0, <1>2, <1>3 DEF BwdMerged
  <2>2. ASSUME NEW j \in Device, j # i PROVE BwdMerged(j)' = BwdMerged(j)
    BY <2>2, <1>4 DEF BwdMerged
  <2>3. QED BY <2>1, <2>2
<1>10. rdkv[i] = Arriving(Succ(i), s + 1)
  <2>1. rdkv[i] = Grad(BlockAt(i, s), s + 1)
    BY <1>0, <1>2, <1>9 DEF GradInv
  <2>2. BlockAt(Succ(i), s + 1) = BlockAt(i, s)
    BY <1>2, BackwardRing
  <2>3. QED BY <2>1, <2>2 DEF Arriving
<1>11. GradInv'
  <2>1. ASSUME NEW j \in Device
        PROVE  /\ iter'[j] <= N => dkv'[j] = Arriving(Succ(j), iter'[j])
               /\ iter'[j] > N => dkv'[j] = Grad(j, N)
               /\ "dkv" \notin got'[j] \/ iter'[j] > N => rdkv[j] = dkv'[j]
               /\ "dkv" \in got'[j] /\ iter'[j] <= N
                    => rdkv[j] = Grad(BlockAt(j, iter'[j]), BwdMerged(j))
    <3>1. CASE j = i
      BY <3>1, <1>2, <1>3, <1>10
    <3>2. CASE j # i
      BY <3>2, <1>0, <1>4 DEF GradInv
    <3>3. QED BY <3>1, <3>2
  <2>2. QED BY <2>1, <1>0, <1>1, <1>9 DEF GradInv
<1>12. \A j \in Device : /\ KvStarted(j)' = KvStarted(j) /\ KvReceived(j)' = KvReceived(j)
                        /\ DkvStarted(j)' = DkvStarted(j) /\ DkvReceived(j)' = DkvReceived(j)
  <2>1. /\ KvStarted(i) = s + 1 /\ KvReceived(i) = s + 1
        /\ DkvStarted(i) = s + 1 /\ DkvReceived(i) = s + 1
    BY <1>0, <1>2 DEF KvStarted, KvReceived, DkvStarted, DkvReceived
  <2>2. /\ KvStarted(i)' = s + 1 /\ KvReceived(i)' = s + 1
        /\ DkvStarted(i)' = s + 1 /\ DkvReceived(i)' = s + 1
    BY <1>2, <1>3 DEF KvStarted, KvReceived, DkvStarted, DkvReceived
  <2>3. ASSUME NEW j \in Device, j # i
        PROVE  /\ KvStarted(j)' = KvStarted(j) /\ KvReceived(j)' = KvReceived(j)
               /\ DkvStarted(j)' = DkvStarted(j) /\ DkvReceived(j)' = DkvReceived(j)
    BY <2>3, <1>4 DEF KvStarted, KvReceived, DkvStarted, DkvReceived
  <2>4. QED BY <2>1, <2>2, <2>3
<1>13. KvLinkInv' /\ DkvLinkInv'
  <2>1. \A j \in Device : /\ Pred(j) \in Device
                         /\ KvStarted(Pred(j))' = KvStarted(Pred(j))
                         /\ DkvStarted(Pred(j))' = DkvStarted(Pred(j))
    BY <1>12, BackwardRing
  <2>2. KvLinkInv'
    BY <2>1, <1>0, <1>1, <1>12 DEF KvLinkInv
  <2>3. DkvLinkInv'
    BY <2>1, <1>0, <1>1, <1>12 DEF DkvLinkInv
  <2>4. QED BY <2>2, <2>3
<1>14. \A x : Somewhere(x)' <=> Somewhere(x)
  BY <1>0, <1>1, <1>2, <1>3, <1>4, DropKeeps
<1>15. LedgerInv'
  BY <1>0, <1>1, <1>14, LedgerSomewhere
<1>16. QED BY <1>5, <1>6, <1>8, <1>11, <1>13, <1>15 DEF BwdIInv

LEMMA ReturnBackward ==
  ASSUME BwdIInv, NEW i \in Device, Return(i)
  PROVE  BwdIInv'
<1>0. /\ BwdTypeOK /\ BwdScanInv /\ BwdCarryInv /\ GradInv /\ KvLinkInv /\ DkvLinkInv /\ LedgerInv
      /\ iter[i] = N /\ "dkv" \in got[i] /\ "dkv" \in sent[i]
  BY DEF BwdIInv, BwdScanInv, Return
<1>1. /\ kv' = kv /\ dq' = dq /\ computed' = computed /\ added' = added
      /\ sent' = sent /\ got' = got /\ rkv' = rkv /\ rdkv' = rdkv
      /\ linkKv' = linkKv /\ linkDkv' = linkDkv
      /\ iter' = [iter EXCEPT ![i] = N + 1]
      /\ dkv' = [dkv EXCEPT ![i] = rdkv[i]]
  BY DEF Return
<1>2. /\ N \in Nat /\ N + 1 > N /\ ~ (N + 1 <= N) /\ N >= N /\ ~ (N + 1 < N)
      /\ N + 1 >= N /\ ~ (N > N) /\ ~ (N < N) /\ N <= N /\ N + 1 \in 0 .. N + 1
  BY RingAssumption
<1>3. iter'[i] = N + 1 /\ dkv'[i] = rdkv[i] /\ ~ computed[i] /\ ~ added[i]
  BY <1>0, <1>1, <1>2 DEF BwdTypeOK, BwdScanInv
<1>4. ASSUME NEW j \in Device, j # i PROVE iter'[j] = iter[j] /\ dkv'[j] = dkv[j]
  BY <1>0, <1>1, <1>4 DEF BwdTypeOK
<1>5. BwdTypeOK'
  <2>1. iter' \in [Device -> 0 .. N + 1]
    BY <1>0, <1>1, <1>2 DEF BwdTypeOK
  <2>2. dkv' \in [Device -> SUBSET Contribution]
    BY <1>0, <1>1 DEF BwdTypeOK
  <2>3. QED BY <1>0, <1>1, <2>1, <2>2 DEF BwdTypeOK
<1>6. BwdScanInv'
  <2>1. ASSUME NEW j \in Device
        PROVE  /\ computed[j] => iter'[j] < N
               /\ added[j] => iter'[j] < N
               /\ iter'[j] >= N => "kv" \notin sent[j]
               /\ iter'[j] > N => "dkv" \in got[j]
    <3>1. CASE j = i
      BY <3>1, <1>0, <1>2, <1>3 DEF BwdScanInv
    <3>2. CASE j # i
      BY <3>2, <1>0, <1>4 DEF BwdScanInv
    <3>3. QED BY <3>1, <3>2
  <2>2. QED BY <2>1, <1>0, <1>1 DEF BwdScanInv
<1>7. BwdCarryInv'
  <2>1. "kv" \notin got[i]
    BY <1>0, <1>2 DEF BwdScanInv
  <2>2. ASSUME NEW j \in Device
        PROVE  /\ iter'[j] <= N => kv[j] = HeldAt(j, iter'[j])
               /\ "kv" \in got[j] => rkv[j] = HeldAt(j, iter'[j] + 1)
    <3>1. CASE j = i
      BY <3>1, <2>1, <1>2, <1>3
    <3>2. CASE j # i
      BY <3>2, <1>0, <1>4 DEF BwdCarryInv
    <3>3. QED BY <3>1, <3>2
  <2>3. QED BY <2>2, <1>1 DEF BwdCarryInv
<1>8. BwdMerged(i) = N /\ BwdMerged(i)' = N /\ \A j \in Device : BwdMerged(j)' = BwdMerged(j)
  <2>1. BwdMerged(i) = N /\ BwdMerged(i)' = N
    BY <1>0, <1>2, <1>3 DEF BwdMerged
  <2>2. ASSUME NEW j \in Device, j # i PROVE BwdMerged(j)' = BwdMerged(j)
    BY <2>2, <1>1, <1>4 DEF BwdMerged
  <2>3. QED BY <2>1, <2>2
<1>9. rdkv[i] = Grad(i, N)
  <2>1. rdkv[i] = Grad(BlockAt(i, N), N)
    BY <1>0, <1>2, <1>8 DEF GradInv
  <2>2. BlockAt(i, N) = i
    BY BackwardRing
  <2>3. QED BY <2>1, <2>2
<1>10. GradInv'
  <2>1. ASSUME NEW j \in Device
        PROVE  /\ iter'[j] <= N => dkv'[j] = Arriving(Succ(j), iter'[j])
               /\ iter'[j] > N => dkv'[j] = Grad(j, N)
               /\ "dkv" \notin got[j] \/ iter'[j] > N => rdkv[j] = dkv'[j]
               /\ "dkv" \in got[j] /\ iter'[j] <= N
                    => rdkv[j] = Grad(BlockAt(j, iter'[j]), BwdMerged(j))
    <3>1. CASE j = i
      BY <3>1, <1>2, <1>3, <1>9
    <3>2. CASE j # i
      BY <3>2, <1>0, <1>4 DEF GradInv
    <3>3. QED BY <3>1, <3>2
  <2>2. QED BY <2>1, <1>0, <1>1, <1>8 DEF GradInv
<1>11. \A j \in Device : /\ KvStarted(j)' = KvStarted(j) /\ KvReceived(j)' = KvReceived(j)
                        /\ DkvStarted(j)' = DkvStarted(j) /\ DkvReceived(j)' = DkvReceived(j)
  <2>1. /\ KvStarted(i) = N /\ KvReceived(i) = N
        /\ DkvStarted(i) = N + 1 /\ DkvReceived(i) = N + 1
    BY <1>0, <1>2 DEF KvStarted, KvReceived, DkvStarted, DkvReceived
  <2>2. /\ KvStarted(i)' = N /\ KvReceived(i)' = N
        /\ DkvStarted(i)' = N + 1 /\ DkvReceived(i)' = N + 1
    BY <1>2, <1>3 DEF KvStarted, KvReceived, DkvStarted, DkvReceived
  <2>3. ASSUME NEW j \in Device, j # i
        PROVE  /\ KvStarted(j)' = KvStarted(j) /\ KvReceived(j)' = KvReceived(j)
               /\ DkvStarted(j)' = DkvStarted(j) /\ DkvReceived(j)' = DkvReceived(j)
    BY <2>3, <1>1, <1>4 DEF KvStarted, KvReceived, DkvStarted, DkvReceived
  <2>4. QED BY <2>1, <2>2, <2>3
<1>12. KvLinkInv' /\ DkvLinkInv'
  <2>1. \A j \in Device : /\ Pred(j) \in Device
                         /\ KvStarted(Pred(j))' = KvStarted(Pred(j))
                         /\ DkvStarted(Pred(j))' = DkvStarted(Pred(j))
    BY <1>11, BackwardRing
  <2>2. KvLinkInv'
    BY <2>1, <1>0, <1>1, <1>11 DEF KvLinkInv
  <2>3. DkvLinkInv'
    BY <2>1, <1>0, <1>1, <1>11 DEF DkvLinkInv
  <2>4. QED BY <2>2, <2>3
<1>13. \A x : Somewhere(x)' <=> Somewhere(x)
  BY <1>0, <1>1, <1>2, <1>3, <1>4, DropKeeps
<1>14. LedgerInv'
  BY <1>0, <1>1, <1>13, LedgerSomewhere
<1>15. QED BY <1>5, <1>6, <1>7, <1>10, <1>12, <1>14 DEF BwdIInv

LEMMA StutterBackward ==
  ASSUME BwdIInv, UNCHANGED bwdVars
  PROVE  BwdIInv'
<1>1. BwdTypeOK' /\ BwdScanInv' /\ BwdCarryInv'
  BY DEF BwdIInv, bwdVars, BwdTypeOK, BwdScanInv, BwdCarryInv
<1>2. GradInv'
  BY DEF BwdIInv, bwdVars, GradInv, BwdMerged
<1>3. KvLinkInv' /\ DkvLinkInv'
  BY DEF BwdIInv, bwdVars, KvLinkInv, DkvLinkInv, KvStarted, KvReceived, DkvStarted, DkvReceived
<1>4. LedgerInv'
  BY DEF BwdIInv, bwdVars, LedgerInv, Gradients, InFlight
<1>5. QED BY <1>1, <1>2, <1>3, <1>4 DEF BwdIInv

LEMMA StepBackward == BwdIInv /\ [BwdNext]_bwdVars => BwdIInv'
<1> SUFFICES ASSUME BwdIInv, [BwdNext]_bwdVars PROVE BwdIInv'
  OBVIOUS
<1>1. ASSUME NEW i \in Device, BwdStep(i) PROVE BwdIInv'
  BY <1>1, StartKvBackward, StartDkvBackward, DoneKvBackward, DoneDkvBackward,
     ComputeBackward, AccumulateBackward, NextIterationBackward, ReturnBackward DEF BwdStep
<1>2. CASE UNCHANGED bwdVars
  BY <1>2, StutterBackward
<1>3. QED BY <1>1, <1>2 DEF BwdNext

(* What every gradient contains, wherever it is, in every reachable state. *)
THEOREM BackwardInvariant == BwdSpec => []BwdIInv
BY InitBackward, StepBackward, PTL DEF BwdSpec

(* Variables keep their types, and no link holds more than its capacity.   *)
THEOREM BackwardTypeOK == BwdSpec => []BwdTypeOK
<1>1. BwdIInv => BwdTypeOK
  BY DEF BwdIInv
<1>2. QED BY <1>1, BackwardInvariant, PTL

(* No gradient, held, received or travelling, mixes two key blocks.        *)
THEOREM BackwardOneBlock == BwdSpec => []OneBlockPerGradient
<1>1. BwdIInv => OneBlockPerGradient
  <2> SUFFICES ASSUME BwdIInv, NEW g \in Gradients
               PROVE  \A x, y \in g : x.blk = y.blk
    BY DEF OneBlockPerGradient
  <2>1. \A b, n : \A x, y \in Grad(b, n) : x.blk = y.blk
    BY DEF Grad
  <2>2. ASSUME NEW i \in Device PROVE \E b, n : dkv[i] = Grad(b, n)
    <3>1. iter[i] <= N \/ iter[i] > N
      BY Iterations DEF BwdIInv
    <3>2. dkv[i] = Arriving(Succ(i), iter[i]) \/ dkv[i] = Grad(i, N)
      BY <3>1 DEF BwdIInv, GradInv
    <3>3. QED BY <3>2 DEF Arriving
  <2>3. ASSUME NEW i \in Device PROVE \E b, n : rdkv[i] = Grad(b, n)
    <3>1. iter[i] <= N \/ iter[i] > N
      BY Iterations DEF BwdIInv
    <3>2. rdkv[i] = dkv[i] \/ rdkv[i] = Grad(BlockAt(i, iter[i]), BwdMerged(i))
      BY <3>1 DEF BwdIInv, GradInv
    <3>3. QED BY <3>2, <2>2
  <2>4. ASSUME NEW i \in Device, NEW m \in 1 .. Len(linkDkv[i])
        PROVE  \E b, n : linkDkv[i][m] = Grad(b, n)
    BY DEF BwdIInv, DkvLinkInv, Arriving
  <2>5. \E b, n : g = Grad(b, n)
    BY <2>2, <2>3, <2>4 DEF Gradients, InFlight
  <2>6. QED BY <2>1, <2>5
<1>2. QED BY <1>1, BackwardInvariant, PTL

(* Every gradient returned is complete and its own.                        *)
THEOREM BackwardReturnedExact == BwdSpec => []ReturnedExact
<1>1. BwdIInv => ReturnedExact
  <2> SUFFICES ASSUME BwdIInv, NEW i \in Device, Returned(i)
               PROVE  /\ \A x \in dkv[i] : x.blk = i /\ Sees(x.q, i) /\ x.mode = WantMode(x.q, i)
                      /\ \A x \in dq[i] : x.q = i /\ Sees(i, x.blk) /\ x.mode = WantMode(i, x.blk)
                      /\ \A q \in Device : Sees(q, i) => \E x \in dkv[i] : x.q = q
                      /\ \A b \in Device : Sees(i, b) => \E x \in dq[i] : x.blk = b
                      /\ \A x, y \in dkv[i] : x.q = y.q => x = y
                      /\ \A x, y \in dq[i] : x.blk = y.blk => x = y
    BY DEF ReturnedExact
  <2>1. dkv[i] = Grad(i, N) /\ dq[i] = Query(i, N)
    <3>1. N \in Nat /\ iter[i] = N + 1 /\ iter[i] > N
      BY RingAssumption DEF Returned
    <3>2. BwdMerged(i) = N
      BY <3>1 DEF BwdMerged
    <3>3. QED BY <3>1, <3>2 DEF BwdIInv, GradInv
  <2>2. \A x \in Due : /\ x \in Contribution /\ x.q \in Device /\ x.step \in 0 .. N - 1
                      /\ x.blk = BlockAt(x.q, x.step) /\ Sees(x.q, x.blk)
                      /\ x.mode = WantMode(x.q, x.blk)
    BY DEF Due, Contribution
  <2>3. \A x \in dkv[i] : x.blk = i /\ Sees(x.q, i) /\ x.mode = WantMode(x.q, i)
    BY <2>1, <2>2 DEF Grad
  <2>4. \A x \in dq[i] : x.q = i /\ Sees(i, x.blk) /\ x.mode = WantMode(i, x.blk)
    BY <2>1, <2>2 DEF Query
  <2>5. ASSUME NEW q \in Device, NEW b \in Device, Sees(q, b)
        PROVE  \E x \in Due : x.q = q /\ x.blk = b /\ x.step < N
    <3>1. PICK s \in 0 .. N - 1 : BlockAt(q, s) = b
      BY BackwardRing
    <3>2. s < N
      BY RingAssumption
    <3>3. [q |-> q, blk |-> b, mode |-> WantMode(q, b), step |-> s] \in Due
      BY <2>5, <3>1 DEF Due, Contribution, WantMode
    <3>4. QED BY <3>2, <3>3
  <2>6. ASSUME NEW x \in Due, NEW y \in Due, x.q = y.q, x.blk = y.blk
        PROVE  x = y
    <3>1. BlockAt(x.q, x.step) = BlockAt(x.q, y.step)
      BY <2>2, <2>6
    <3>2. \A j \in Device : \A s, r \in 0 .. N - 1 : BlockAt(j, s) = BlockAt(j, r) => s = r
      BY BackwardRing
    <3>3. x.step = y.step
      BY <2>2, <3>1, <3>2
    <3>4. QED BY <2>2, <2>6, <3>3 DEF Contribution
  <2>7. \A q \in Device : Sees(q, i) => \E x \in dkv[i] : x.q = q
    BY <2>1, <2>5 DEF Grad
  <2>8. \A b \in Device : Sees(i, b) => \E x \in dq[i] : x.blk = b
    BY <2>1, <2>5 DEF Query
  <2>9. \A x, y \in dkv[i] : x.q = y.q => x = y
    BY <2>1, <2>6 DEF Grad
  <2>10. \A x, y \in dq[i] : x.blk = y.blk => x = y
    BY <2>1, <2>6 DEF Query
  <2>11. QED BY <2>3, <2>4, <2>7, <2>8, <2>9, <2>10
<1>2. QED BY <1>1, BackwardInvariant, PTL

-----------------------------------------------------------------------------
(* The order-free specification sees what has been summed in dq.           *)
LEMMA DoneInQueries ==
  /\ BwdIInv => \A y : y \in BwdDoneTerms <=> \E i \in Device : \E x \in dq[i] : y = Project(x)
  /\ BwdIInv' => (\A y : y \in BwdDoneTerms <=> \E i \in Device : \E x \in dq[i] : y = Project(x))'
<1>1. ASSUME BwdIInv
      PROVE  \A y : y \in BwdDoneTerms <=> \E i \in Device : \E x \in dq[i] : y = Project(x)
  <2>1. /\ \A g \in Gradients : g \subseteq Contribution
        /\ \A i \in Device : dq[i] \subseteq Contribution
    BY <1>1 DEF BwdIInv, BwdTypeOK, Gradients, InFlight
  <2>2. \A x : (\E g \in Gradients : x \in g) <=> (\E i \in Device : x \in dq[i])
    BY <1>1, <2>1 DEF BwdIInv, LedgerInv
  <2>3. QED BY <2>2 DEF BwdDoneTerms
<1>2. ASSUME BwdIInv'
      PROVE  (\A y : y \in BwdDoneTerms <=> \E i \in Device : \E x \in dq[i] : y = Project(x))'
  <2>1. /\ \A g \in Gradients' : g \subseteq Contribution
        /\ \A i \in Device : dq'[i] \subseteq Contribution
    BY <1>2 DEF BwdIInv, BwdTypeOK, Gradients, InFlight
  <2>2. \A x : (\E g \in Gradients' : x \in g) <=> (\E i \in Device : x \in dq'[i])
    BY <1>2, <2>1 DEF BwdIInv, LedgerInv
  <2>3. QED BY <2>2 DEF BwdDoneTerms
<1>3. QED BY <1>1, <1>2

(* Accumulating is one step of the order-free specification, or none.      *)
LEMMA AccumulateRefines ==
  ASSUME BwdIInv, NEW i \in Device, Accumulate(i)
  PROVE  BwdBA!Next \/ BwdDoneTerms' = BwdDoneTerms
<1> DEFINE s == iter[i]
<1> DEFINE b == BlockAt(i, s)
<1> DEFINE new == [q |-> i, blk |-> b, mode |-> WantMode(i, b), step |-> s]
<1> DEFINE t == [q |-> i, blk |-> b, mode |-> WantMode(i, b)]
<1>0. /\ BwdTypeOK /\ BwdScanInv /\ BwdCarryInv /\ GradInv /\ computed[i] /\ ~ added[i] /\ BwdIInv'
  BY AccumulateBackward DEF BwdIInv, Accumulate
<1>1. s \in Int /\ N \in Nat /\ s < N /\ s \in 0 .. N - 1 /\ s \in 0 .. N /\ ~ (s > N)
  <2>1. s < N
    BY <1>0 DEF BwdScanInv
  <2>2. QED BY <2>1, <1>0, Iterations
<1>2. b \in Device /\ kv[i] = HeldAt(i, s) /\ kv[i].blk = b
  <2>1. b \in Device
    BY <1>1, BackwardRing
  <2>2. kv[i] = HeldAt(i, s)
    BY <1>0, <1>1 DEF BwdCarryInv
  <2>3. QED BY <2>1, <2>2 DEF HeldAt
<1>3. dq[i] = Query(i, s)
  <2>1. BwdMerged(i) = s
    BY <1>0, <1>1 DEF BwdMerged
  <2>2. QED BY <2>1, <1>0 DEF GradInv
<1>4. \A j \in Device : dq'[j] = IF j = i THEN dq[i] \cup Share(i, s) ELSE dq[j]
  <2>1. Contributed(i, kv[i].blk) = Share(i, s)
    <3>1. /\ BwdMode(i) = "skip" <=> ~ Sees(i, b)
          /\ BwdMode(i) # "skip" => BwdMode(i) = WantMode(i, b)
      BY <1>2, BackwardSwitch DEF HeldAt
    <3>2. QED BY <3>1, <1>2 DEF Contributed, Share
  <2>2. QED BY <2>1, <1>0 DEF Accumulate, BwdTypeOK
<1>5. /\ \A y : y \in BwdDoneTerms <=> \E j \in Device : \E x \in dq[j] : y = Project(x)
      /\ \A y : y \in BwdDoneTerms' <=> \E j \in Device : \E x \in dq'[j] : y = Project(x)
  BY <1>0, DoneInQueries DEF Project
<1>6. CASE ~ Sees(i, b)
  <2>1. Share(i, s) = {}
    BY <1>6 DEF Share
  <2>2. \A j \in Device : dq'[j] = dq[j]
    BY <2>1, <1>4
  <2>3. QED BY <2>2, <1>5
<1>7. CASE Sees(i, b)
  <2>1. Share(i, s) = {new} /\ Project(new) = t
    BY <1>7 DEF Share, Project
  <2>2. t \notin BwdDoneTerms
    <3> SUFFICES ASSUME NEW j \in Device, NEW x \in dq[j], t = Project(x)
                 PROVE  FALSE
      BY <1>5
    <3>1. x.q = i /\ x.blk = b
      BY DEF Project
    <3>2. x \in Due /\ x.q = j /\ x.step < BwdMerged(j)
      BY <1>0 DEF GradInv, Query
    <3>3. x \in Query(i, s)
      BY <3>1, <3>2, <1>3
    <3>4. x.step < s /\ x.step \in 0 .. N - 1 /\ BlockAt(i, x.step) = BlockAt(i, s)
      BY <3>1, <3>3 DEF Query, Due, Contribution
    <3>5. x.step = s
      BY <3>4, <1>1, BackwardRing
    <3>6. QED BY <3>4, <3>5, <1>1
  <2>3. BwdDoneTerms' = BwdDoneTerms \cup {t}
    <3>1. \A y : y \in BwdDoneTerms' <=> y \in BwdDoneTerms \/ y = t
      BY <2>1, <1>4, <1>5
    <3>2. QED BY <3>1
  <2>4. t \in BwdBA!Wanted
    <3>1. t = BwdBA!Term(i, b)
      BY DEF BwdBA!Term, BwdBA!ModeOf, WantMode
    <3>2. i \in BwdBA!Block /\ b \in BwdBA!Block
      BY <1>2 DEF BwdBA!Block, Device
    <3>3. BwdBA!Visible(t.q, t.blk)
      BY <1>7 DEF BwdBA!Visible, Sees
    <3>4. QED BY <3>1, <3>2, <3>3 DEF BwdBA!Wanted, BwdBA!AllTerms
  <2>5. QED BY <2>2, <2>3, <2>4 DEF BwdBA!Next, BwdBA!Combine
<1>8. QED BY <1>6, <1>7

(* ring_bwd implements the order-free specification of block attention: a  *)
(* contribution found in some gradient was added once, and stays in one.   *)
THEOREM BackwardRefines == BwdSpec => BwdRefinesBlockAttention
<1>1. BwdInit => BwdBA!Init
  <2> SUFFICES ASSUME BwdInit PROVE BwdDoneTerms = {}
    BY DEF BwdBA!Init
  <2>1. \A i \in Device : dq[i] = {}
    BY DEF BwdInit
  <2>2. QED BY <2>1, InitBackward, DoneInQueries
<1>2. BwdIInv /\ [BwdNext]_bwdVars => [BwdBA!Next]_BwdDoneTerms
  <2> SUFFICES ASSUME BwdIInv, [BwdNext]_bwdVars
               PROVE  BwdBA!Next \/ BwdDoneTerms' = BwdDoneTerms
    OBVIOUS
  <2>1. ASSUME dq' = dq PROVE BwdDoneTerms' = BwdDoneTerms
    <3>1. BwdIInv'
      BY StepBackward
    <3>2. \A y : y \in BwdDoneTerms' <=> y \in BwdDoneTerms
      BY <2>1, <3>1, DoneInQueries DEF Project
    <3>3. QED BY <3>2
  <2>2. ASSUME NEW i \in Device, BwdStep(i) PROVE BwdBA!Next \/ BwdDoneTerms' = BwdDoneTerms
    <3>1. CASE Accumulate(i)
      BY <3>1, AccumulateRefines
    <3>2. CASE dq' = dq
      BY <3>2, <2>1
    <3>3. QED BY <2>2, <3>1, <3>2
              DEF BwdStep, StartKv, StartDkv, DoneKv, DoneDkv, Compute, BwdNextIteration, Return
  <2>3. CASE UNCHANGED bwdVars
    BY <2>3, <2>1 DEF bwdVars
  <2>4. QED BY <2>2, <2>3 DEF BwdNext
<1>3. QED
  BY <1>1, <1>2, BackwardInvariant, PTL DEF BwdSpec, BwdRefinesBlockAttention, BwdBA!Spec
=============================================================================
