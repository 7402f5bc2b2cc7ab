------------------------------ MODULE RopeProofs ------------------------------
(***************************************************************************)
(* The rope buffer implements the log of texts RopeLog, never looks at a   *)
(* freed rope and frees them all, for every set of ropes and texts and     *)
(* every sequence of calls.                                                *)
(***************************************************************************)
EXTENDS RopeList, TLAPS, SequenceTheorems

(* No rope is twice in the list.                                           *)
Distinct == \A j, k \in 1..Len(order) : order[j] = order[k] => j = k

(* Exactly the ropes in the list are allocated, each with its text.        *)
Held ==
  /\ \A k \in 1..Len(order) : order[k] \in ropes
  /\ \A r \in ropes : \E k \in 1..Len(order) : order[k] = r
  /\ strs = ropes
  /\ \A r \in ropes : pstr[r] \in Text /\ tag[r] = TAG_CONTEXT
  /\ pc = "none" => order = << >>

(* A dump has printed the texts of the ropes before its cursor.            *)
Dumping ==
  pc = "dump" =>
    /\ Len(out) <= Len(order)
    /\ p = At(Len(out) + 1)
    /\ \A k \in 1..Len(out) : out[k] = pstr[order[k]]

(* buf_destroy has the rest of the list in front of it; order shrinks with *)
(* the list.                                                               *)
Destroying ==
  pc = "destroy" =>
    /\ p = At(1)
    /\ order # << >> => prefetch = At(2)
    /\ next[ropelist] \in Addr
    /\ \A k \in 1..Len(order) : next[order[k]] = At(k + 1)

IInv == TypeOK /\ Distinct /\ Held /\ RingIntact /\ Dumping /\ Destroying

-----------------------------------------------------------------------------
(* Positions in the ring.                                                  *)

(* Every position holds a rope of the list or the list head.               *)
LEMMA AtType ==
  ASSUME TypeOK, NEW k \in Nat
  PROVE  /\ Len(order) \in Nat
         /\ At(k) \in Addr
         /\ k \in 1..Len(order) => At(k) = order[k] /\ order[k] \in Rope /\ order[k] # ropelist
         /\ k \notin 1..Len(order) => At(k) = ropelist
<1>1. order \in Seq(Rope) /\ Len(order) \in Nat
  BY DEF TypeOK
<1>2. \A j \in 1..Len(order) : order[j] \in Rope
  BY <1>1
<1> QED
  BY <1>1, <1>2, RopeAssumption DEF At, Addr

(* A rope at the end of the list moves no other.                           *)
LEMMA AtAppend ==
  ASSUME TypeOK, NEW r \in Rope, order' = Append(order, r),
         NEW N \in Nat, N = Len(order)
  PROVE  /\ order' \in Seq(Rope) /\ Len(order') = N + 1
         /\ \A k \in 1..N : order'[k] = order[k]
         /\ order'[N + 1] = r
         /\ \A k \in 0..N : At(k)' = At(k)
         /\ At(N + 1)' = r /\ At(N + 2)' = ropelist
<1>1. order \in Seq(Rope)
  BY DEF TypeOK
<1>2. /\ order' \in Seq(Rope) /\ Len(order') = N + 1
      /\ \A k \in 1..N : order'[k] = order[k]
      /\ order'[N + 1] = r
  BY <1>1, AppendProperties
<1> QED
  BY <1>2 DEF At

(* Without the first rope every other one moves up.                        *)
LEMMA AtTail ==
  ASSUME TypeOK, order # << >>, order' = Tail(order)
  PROVE  /\ order' \in Seq(Rope) /\ Len(order') = Len(order) - 1 /\ Len(order) >= 1
         /\ \A k \in 1..Len(order') : order'[k] = order[k + 1]
         /\ \A k \in Nat \ {0} : At(k)' = At(k + 1)
<1>1. order \in Seq(Rope) /\ Len(order) \in Nat /\ Len(order) >= 1
  BY EmptySeq DEF TypeOK
<1>2. /\ order' \in Seq(Rope) /\ Len(order') = Len(order) - 1
      /\ \A k \in 1..Len(order') : order'[k] = order[k + 1]
  BY <1>1
<1> QED
  BY <1>1, <1>2 DEF At

-----------------------------------------------------------------------------
(* The invariant.                                                          *)

(* There is no buffer at first.                                            *)
LEMMA InitEstablishes == Init => IInv
<1> SUFFICES ASSUME Init PROVE IInv
  OBVIOUS
<1>1. TypeOK
  BY DEF Init, TypeOK, Addr
<1> QED
  BY <1>1 DEF Init, IInv, Distinct, Held, RingIntact, Dumping, Destroying

(* An initialised buffer is a ring of the list head alone.                 *)
LEMMA InitBufPreserves == IInv /\ buf_init => IInv'
<1> SUFFICES ASSUME IInv, buf_init PROVE IInv'
  OBVIOUS
<1>1. /\ pc = "none" /\ pc' = "ready" /\ order = << >> /\ order' = order
      /\ next' = [next EXCEPT ![ropelist] = ropelist]
      /\ prev' = [prev EXCEPT ![ropelist] = ropelist]
      /\ UNCHANGED <<pstr, tag, ropes, strs, p, prefetch, out, shown>>
  BY DEF IInv, Held, buf_init, INIT_LIST_HEAD
<1>2. TypeOK'
  BY <1>1 DEF IInv, TypeOK, Addr
<1>3. RingIntact'
  BY <1>1 DEF IInv, TypeOK, RingIntact, At, Addr
<1> QED
  BY <1>1, <1>2, <1>3 DEF IInv, Distinct, Held, Dumping, Destroying

(* A write closes the ring around its rope.                                *)
LEMMA WritePreserves == ASSUME IInv, NEW t \in Text, buf_write(t) PROVE IInv'
<1>1. PICK r \in Rope \ ropes :
        /\ ropes' = ropes \cup {r} /\ strs' = strs \cup {r}
        /\ pstr' = [pstr EXCEPT ![r] = t]
        /\ tag' = [tag EXCEPT ![r] = TAG_CONTEXT]
        /\ prev' = [prev EXCEPT ![ropelist] = r, ![r] = prev[ropelist]]
        /\ next' = [next EXCEPT ![r] = ropelist, ![prev[ropelist]] = r]
        /\ order' = Append(order, r)
  BY DEF buf_write, rope_setn, list_add_tail, ListAdd
<1>2. pc = "ready" /\ pc' = "ready" /\ UNCHANGED <<p, prefetch, out, shown>>
  BY DEF buf_write
<1>3. TypeOK
  BY DEF IInv
<1>0. PICK N \in Nat : N = Len(order)
  BY <1>3, AtType
<1>4. \A k \in 0..N : next[At(k)] = At(k + 1) /\ prev[At(k + 1)] = At(k)
  BY <1>0, <1>2 DEF IInv, RingIntact
<1>5. prev[ropelist] = At(N)
  BY <1>0, <1>3, <1>4, AtType
<1>6. r # ropelist /\ \A k \in 0..N : At(k) # r
  BY <1>1, <1>0, <1>3, <1>4, AtType, RopeAssumption DEF IInv, Held
<1>7. \A k \in 0..N-1 : At(k) # At(N)
  BY <1>0, <1>3, <1>4, AtType DEF IInv, Distinct
<1>8. /\ order' \in Seq(Rope) /\ Len(order') = N + 1
      /\ \A k \in 1..N : order'[k] = order[k]
      /\ order'[N + 1] = r
      /\ \A k \in 0..N : At(k)' = At(k)
      /\ At(N + 1)' = r /\ At(N + 2)' = ropelist
  BY <1>0, <1>1, <1>3, AtAppend
<1>9. TypeOK'
  <2>1. prev[ropelist] \in Addr
    BY <1>3, <1>4, <1>5, AtType
  <2> QED
    BY <1>1, <1>2, <1>3, <1>8, <2>1 DEF TypeOK, Addr
<1>10. RingIntact'
  <2>1. \A k \in 0..N : At(k) \in Addr
    BY <1>0, <1>3, <1>4, AtType
  <2>2. ASSUME NEW k \in 0..N-1
        PROVE  next'[At(k)'] = At(k + 1)' /\ prev'[At(k + 1)'] = At(k)'
    <3>1. At(k)' = At(k) /\ At(k + 1)' = At(k + 1)
      BY <1>4, <1>8
    <3>2. At(k) # r /\ At(k) # At(N) /\ At(k + 1) # r
      BY <1>4, <1>6, <1>7
    <3>3. At(k + 1) # ropelist
      BY <1>0, <1>3, <1>4, AtType
    <3>4. next'[At(k)] = next[At(k)]
      BY <1>1, <1>3, <1>4, <1>5, <2>1, <3>2 DEF TypeOK
    <3>5. prev'[At(k + 1)] = prev[At(k + 1)]
      BY <1>1, <1>3, <1>4, <2>1, <3>2, <3>3 DEF TypeOK
    <3> QED
      BY <1>4, <3>1, <3>4, <3>5
  <2>3. next'[At(N)'] = At(N + 1)' /\ prev'[At(N + 1)'] = At(N)'
    <3>1. At(N)' = At(N) /\ At(N + 1)' = r /\ At(N) # r /\ At(N) \in Addr
      BY <1>4, <1>6, <1>8, <2>1
    <3> QED
      BY <1>1, <1>3, <1>5, <1>6, <3>1 DEF TypeOK, Addr
  <2>4. next'[At(N + 1)'] = At(N + 2)' /\ prev'[At(N + 2)'] = At(N + 1)'
    <3>1. At(N + 1)' = r /\ At(N + 2)' = ropelist /\ At(N) # r
      BY <1>4, <1>6, <1>8
    <3> QED
      BY <1>1, <1>3, <1>5, <1>6, <3>1 DEF TypeOK, Addr
  <2>5. \A k \in 0..N+1 : next'[At(k)'] = At(k + 1)' /\ prev'[At(k + 1)'] = At(k)'
    <3> TAKE k \in 0..N+1
    <3>1. k \in 0..N-1 \/ k = N \/ k = N + 1
      BY <1>4
    <3>2. CASE k = N + 1
      <4>1. k + 1 = N + 2
        BY <1>4, <3>2
      <4> QED
        BY <2>4, <3>2, <4>1
    <3> QED
      BY <2>2, <2>3, <3>1, <3>2
  <2> QED
    BY <1>8, <2>5 DEF RingIntact
<1>11. Distinct'
  BY <1>0, <1>1, <1>4, <1>8 DEF IInv, Held, Distinct
<1>12. Held'
  <2>1. \A k \in 1..Len(order') : order'[k] \in ropes'
    BY <1>0, <1>1, <1>4, <1>8 DEF IInv, Held
  <2>2. \A s \in ropes' : \E k \in 1..Len(order') : order'[k] = s
    <3> TAKE s \in ropes'
    <3>1. CASE s = r
      BY <1>4, <1>8, <3>1
    <3>2. CASE s \in ropes
      <4>1. PICK k \in 1..N : order[k] = s
        BY <1>0, <3>2 DEF IInv, Held
      <4> QED
        BY <1>4, <1>8, <4>1
    <3> QED
      BY <1>1, <3>1, <3>2
  <2>3. \A s \in ropes' : pstr'[s] \in Text /\ tag'[s] = TAG_CONTEXT
    BY <1>1, <1>3 DEF IInv, Held, TypeOK
  <2> QED
    BY <1>1, <1>2, <2>1, <2>2, <2>3 DEF IInv, Held
<1> QED
  BY <1>2, <1>9, <1>10, <1>11, <1>12 DEF IInv, Dumping, Destroying

(* A dump goes along the ring and prints what it finds.                    *)
LEMMA DumpPreserves == IInv /\ (DumpBegin \/ DumpStep \/ DumpEnd) => IInv'
<1> SUFFICES ASSUME IInv, DumpBegin \/ DumpStep \/ DumpEnd PROVE IInv'
  OBVIOUS
<1>0. TypeOK /\ Len(order) \in Nat
  BY AtType DEF IInv
<1>1. \A k \in 0..Len(order) : pc \in {"ready", "dump"} => next[At(k)] = At(k + 1)
  BY DEF IInv, RingIntact
<1>2. UNCHANGED <<heap, prefetch, order>>
  BY DEF DumpBegin, DumpStep, DumpEnd
<1>3. Distinct' /\ \A k \in Nat : At(k)' = At(k)
  BY <1>2 DEF IInv, Distinct, At
<1>4. CASE DumpBegin
  <2>1. p' = At(1) /\ At(1) \in Addr
    BY <1>0, <1>1, <1>4, AtType DEF DumpBegin
  <2>2. TypeOK'
    BY <1>0, <1>2, <1>4, <2>1 DEF TypeOK, DumpBegin, heap
  <2>3. Dumping'
    <3>1. out' = << >> /\ Len(out') = 0
      BY <1>4 DEF DumpBegin
    <3> QED
      BY <1>0, <1>2, <1>3, <2>1, <3>1 DEF Dumping
  <2> QED
    BY <1>2, <1>3, <1>4, <2>2, <2>3 DEF DumpBegin, IInv, Held, RingIntact, Destroying, At, heap
<1>5. CASE DumpStep
  <2>1. PICK n \in Nat : n = Len(out)
    BY <1>0 DEF TypeOK
  <2>2. pc = "dump" /\ n <= Len(order) /\ p = At(n + 1) /\ p # ropelist
    BY <1>5, <2>1 DEF DumpStep, IInv, Dumping
  <2>3. n + 1 \in 1..Len(order) /\ p = order[n + 1] /\ p \in ropes
    BY <1>0, <2>1, <2>2, AtType DEF IInv, Held
  <2>4. rope_isleaf(p) /\ pstr[p] \in Text
    BY <2>3 DEF IInv, Held, rope_isleaf, TAG_CONTEXT, TAG_DEFAULT
  <2>5. p' = At(n + 2) /\ At(n + 2) \in Addr
    BY <1>0, <1>1, <1>5, <2>1, <2>2, <2>3, AtType DEF DumpStep
  <2>6. out \in Seq(Text) /\ out' = Append(out, pstr[p])
    BY <1>0, <1>5, <2>4 DEF DumpStep, TypeOK
  <2>7. /\ out' \in Seq(Text) /\ Len(out') = n + 1
        /\ \A k \in 1..n : out'[k] = out[k]
        /\ out'[n + 1] = pstr[p]
    BY <2>1, <2>4, <2>6, AppendProperties
  <2>8. TypeOK'
    BY <1>0, <1>2, <1>5, <2>5, <2>7 DEF TypeOK, DumpStep, heap
  <2>9. Dumping'
    <3>1. \A k \in 1..n : out[k] = pstr[order[k]]
      BY <2>1, <2>2 DEF IInv, Dumping
    <3>2. \A k \in 1..n+1 : out'[k] = pstr[order[k]]
      BY <2>1, <2>3, <2>7, <3>1
    <3>3. p' = At(n + 2)'
      BY <1>3, <2>1, <2>5
    <3> QED
      BY <1>2, <2>1, <2>3, <2>7, <3>2, <3>3 DEF Dumping, heap
  <2> QED
    BY <1>2, <1>3, <1>5, <2>8, <2>9 DEF DumpStep, IInv, Held, RingIntact, Destroying, At, heap
<1>6. CASE DumpEnd
  <2>1. TypeOK'
    BY <1>0, <1>2, <1>6 DEF TypeOK, DumpEnd, heap
  <2> QED
    BY <1>2, <1>3, <1>6, <2>1 DEF DumpEnd, IInv, Held, RingIntact, Dumping, Destroying, At, heap
<1> QED
  BY <1>4, <1>5, <1>6

(* buf_destroy begins with the first two positions of the ring.            *)
LEMMA DestroyBeginPreserves == IInv /\ DestroyBegin => IInv'
<1> SUFFICES ASSUME IInv, DestroyBegin PROVE IInv'
  OBVIOUS
<1>0. TypeOK /\ Len(order) \in Nat
  BY AtType DEF IInv
<1>1. \A k \in 0..Len(order) : next[At(k)] = At(k + 1)
  BY DEF IInv, RingIntact, DestroyBegin
<1>2. next[ropelist] = At(1) /\ At(1) \in Addr /\ At(2) \in Addr
  BY <1>0, <1>1, AtType
<1>3. p' = At(1)
  BY <1>2 DEF DestroyBegin
<1>4. order # << >> => prefetch' = At(2)
  <2>1. ASSUME order # << >> PROVE 1 \in 0..Len(order)
    BY <1>0, <2>1, EmptySeq DEF TypeOK
  <2> QED
    BY <1>1, <1>2, <2>1 DEF DestroyBegin
<1>5. order = << >> => prefetch' = ropelist
  BY <1>0, <1>2, AtType DEF DestroyBegin
<1>6. TypeOK'
  BY <1>0, <1>2, <1>3, <1>4, <1>5 DEF TypeOK, DestroyBegin, heap, Addr
<1>7. \A k \in 1..Len(order) : next[order[k]] = At(k + 1)
  BY <1>0, <1>1, AtType
<1>8. UNCHANGED <<heap, order>> /\ pc' = "destroy"
  BY DEF DestroyBegin
<1>9. Destroying'
  BY <1>2, <1>3, <1>4, <1>7, <1>8 DEF Destroying, heap, At
<1> QED
  BY <1>6, <1>8, <1>9 DEF IInv, Distinct, Held, RingIntact, Dumping, heap

(* An iteration frees the first rope that is left, and no other.           *)
LEMMA DestroyStepPreserves == IInv /\ DestroyStep => IInv'
<1> SUFFICES ASSUME IInv, DestroyStep PROVE IInv'
  OBVIOUS
<1>0. TypeOK /\ Len(order) \in Nat
  BY AtType DEF IInv
<1>1. /\ pc = "destroy" /\ pc' = "destroy" /\ p # ropelist
      /\ strs' = strs \ {p} /\ ropes' = ropes \ {p}
      /\ next' = [next EXCEPT ![p] = Junk]
      /\ prev' = [prev EXCEPT ![p] = Junk]
      /\ pstr' = [pstr EXCEPT ![p] = Junk]
      /\ tag' = [tag EXCEPT ![p] = Junk]
      /\ p' = prefetch /\ prefetch' = next'[prefetch]
      /\ order' = Tail(order) /\ UNCHANGED <<out, shown>>
  BY DEF DestroyStep, FreeRope
<1>2. /\ p = At(1) /\ next[ropelist] \in Addr
      /\ order # << >> => prefetch = At(2)
      /\ \A k \in 1..Len(order) : next[order[k]] = At(k + 1)
  BY <1>1 DEF IInv, Destroying
<1>3. 1 \in 1..Len(order) /\ p = order[1] /\ p \in Rope /\ order # << >>
  BY <1>0, <1>1, <1>2, AtType
<1>4. /\ order' \in Seq(Rope) /\ Len(order') = Len(order) - 1
      /\ \A k \in 1..Len(order') : order'[k] = order[k + 1]
      /\ \A k \in Nat \ {0} : At(k)' = At(k + 1)
  BY <1>0, <1>1, <1>3, AtTail
<1>5. \A k \in 2..Len(order) : order[k] # p /\ next'[order[k]] = At(k + 1)
  <2> TAKE k \in 2..Len(order)
  <2>1. k \in 1..Len(order) /\ order[k] # p
    BY <1>0, <1>3 DEF IInv, Distinct
  <2>2. order[k] \in Addr
    BY <1>0, <2>1 DEF TypeOK, Addr
  <2> QED
    BY <1>0, <1>1, <1>2, <2>1, <2>2 DEF TypeOK
<1>6. next'[ropelist] = next[ropelist] /\ next'[ropelist] \in Addr
  BY <1>0, <1>1, <1>2 DEF TypeOK, Addr
<1>7. p' = At(2) /\ At(2) \in Addr
  BY <1>0, <1>1, <1>2, <1>3, AtType
<1>8. Len(order) >= 2 => prefetch' = At(3)
  <2>1. ASSUME Len(order) >= 2 PROVE At(2) = order[2] /\ 2 \in 2..Len(order)
    BY <1>0, <2>1, AtType
  <2> QED
    BY <1>1, <1>5, <1>7, <2>1
<1>9. Len(order) < 2 => prefetch' \in Addr
  <2>1. ASSUME Len(order) < 2 PROVE At(2) = ropelist
    BY <1>0, <2>1, AtType
  <2> QED
    BY <1>1, <1>6, <1>7, <2>1
<1>10. TypeOK'
  <2>1. prefetch' \in Addr
    BY <1>0, <1>8, <1>9, AtType
  <2> QED
    BY <1>0, <1>1, <1>3, <1>4, <1>7, <2>1 DEF TypeOK
<1>11. Distinct'
  <2> SUFFICES ASSUME NEW j \in 1..Len(order'), NEW k \in 1..Len(order'), order'[j] = order'[k]
               PROVE  j = k
    BY DEF Distinct
  <2>0. order'[j] = order[j + 1] /\ order'[k] = order[k + 1]
    BY <1>4
  <2>1. j + 1 \in 1..Len(order) /\ k + 1 \in 1..Len(order)
    BY <1>0, <1>4
  <2>2. j + 1 = k + 1
    BY <2>0, <2>1 DEF IInv, Distinct
  <2> QED
    BY <1>0, <1>4, <2>2
<1>12. Held'
  <2>1. \A k \in 1..Len(order') : order'[k] \in ropes'
    BY <1>0, <1>1, <1>4, <1>5 DEF IInv, Held
  <2>2. \A r \in ropes' : \E k \in 1..Len(order') : order'[k] = r
    <3> TAKE r \in ropes'
    <3>1. PICK k \in 1..Len(order) : order[k] = r
      BY <1>1 DEF IInv, Held
    <3>2. k # 1
      BY <1>1, <1>3, <3>1
    <3>3. k - 1 \in 1..Len(order') /\ (k - 1) + 1 = k
      BY <1>0, <1>4, <3>2
    <3> QED
      BY <1>4, <3>1, <3>3
  <2>3. \A r \in ropes' : pstr'[r] \in Text /\ tag'[r] = TAG_CONTEXT
    BY <1>0, <1>1 DEF IInv, Held, TypeOK
  <2> QED
    BY <1>1, <2>1, <2>2, <2>3 DEF IInv, Held
<1>13. Destroying'
  <2>1. p' = At(1)'
    BY <1>4, <1>7
  <2>2. order' # << >> => prefetch' = At(2)'
    <3>1. ASSUME order' # << >> PROVE Len(order) >= 2
      BY <1>0, <1>4, <3>1, EmptySeq
    <3> QED
      BY <1>4, <1>8, <3>1
  <2>3. \A k \in 1..Len(order') : next'[order'[k]] = At(k + 1)'
    <3> TAKE k \in 1..Len(order')
    <3>1. k + 1 \in 2..Len(order) /\ k + 1 \in Nat \ {0}
      BY <1>0, <1>4
    <3>2. order'[k] = order[k + 1] /\ At(k + 1)' = At((k + 1) + 1)
      BY <1>4, <3>1
    <3>3. next'[order[k + 1]] = At((k + 1) + 1)
      BY <1>5, <3>1
    <3> QED
      BY <3>2, <3>3
  <2> QED
    BY <1>6, <2>1, <2>2, <2>3 DEF Destroying
<1> QED
  BY <1>1, <1>10, <1>11, <1>12, <1>13 DEF IInv, RingIntact, Dumping

(* Every step keeps the invariant.                                         *)
LEMMA NextPreserves == IInv /\ [Next]_vars => IInv'
<1> SUFFICES ASSUME IInv, [Next]_vars PROVE IInv'
  OBVIOUS
<1>1. CASE DestroyEnd
  <2>1. order = << >>
    <3>1. TypeOK /\ Len(order) \in Nat /\ At(1) = ropelist
      BY <1>1, AtType DEF IInv, DestroyEnd, Destroying
    <3>2. 1 \notin 1..Len(order)
      BY <3>1, AtType
    <3> QED
      BY <3>1, <3>2, EmptySeq DEF TypeOK
  <2>2. TypeOK'
    BY <1>1 DEF DestroyEnd, IInv, TypeOK, heap
  <2> QED
    BY <1>1, <2>1, <2>2 DEF DestroyEnd, IInv, Distinct, Held, RingIntact, Dumping, Destroying, heap
<1>2. CASE UNCHANGED vars
  <2>1. TypeOK'
    BY <1>2 DEF vars, heap, IInv, TypeOK
  <2> QED
    BY <1>2, <2>1 DEF vars, heap, IInv, Distinct, Held, RingIntact, Dumping, Destroying, At
<1> QED
  BY <1>1, <1>2, InitBufPreserves, WritePreserves, DumpPreserves, DestroyBeginPreserves,
     DestroyStepPreserves DEF Next

-----------------------------------------------------------------------------
(* The theorems.                                                           *)

(* The invariant holds in every reachable state.                           *)
LEMMA Invariance == Spec => []IInv
BY InitEstablishes, NextPreserves, PTL DEF Spec

(* Every variable of the rope buffer stays in its type; no pointer that a  *)
(* loop follows is read from freed or unwritten memory.                    *)
THEOREM TypeCorrect == Spec => []TypeOK
<1>1. IInv => TypeOK
  BY DEF IInv
<1> QED
  BY <1>1, Invariance, PTL

(* The list is one ring through its head, in the order of the writes and   *)
(* the same in both directions, after every sequence of calls.             *)
THEOREM ListIsRing == Spec => []RingIntact
<1>1. IInv => RingIntact
  BY DEF IInv
<1> QED
  BY <1>1, Invariance, PTL

(* The loops of buf_dump and buf_destroy stay on allocated ropes, and no   *)
(* rope is freed twice.                                                    *)
THEOREM LoopsStayOnRopes == Spec => []NoUseAfterFree
<1>1. IInv => NoUseAfterFree
  <2> SUFFICES ASSUME IInv, pc \in {"dump", "destroy"}, p # ropelist
               PROVE  p \in ropes /\ p \in strs
    BY DEF NoUseAfterFree
  <2>1. PICK k \in Nat : p = At(k)
    <3>1. Len(out) + 1 \in Nat
      BY DEF IInv, TypeOK
    <3> QED
      BY <3>1 DEF IInv, Dumping, Destroying
  <2>2. k \in 1..Len(order) /\ p = order[k]
    BY <2>1, AtType DEF IInv
  <2> QED
    BY <2>2 DEF IInv, Held
<1> QED
  BY <1>1, Invariance, PTL

(* buf_destroy frees every rope and every text.                            *)
THEOREM DestroyIsComplete == Spec => []DestroyFreesAll
<1>1. IInv => DestroyFreesAll
  BY DEF IInv, Held, DestroyFreesAll
<1> QED
  BY <1>1, Invariance, PTL

-----------------------------------------------------------------------------
(* The refinement.                                                         *)

Texts(o, s) == [k \in 1..Len(o) |-> s[o[k]]]
IsOpen == pc \in {"ready", "dump"}
LogNow == IF pc \in {"ready", "dump"} THEN Texts(order, pstr) ELSE << >>

(* A write adds its text to the log.                                       *)
LEMMA WriteAppends ==
  ASSUME IInv, NEW t \in Text, buf_write(t)
  PROVE  Texts(order, pstr)' = Append(Texts(order, pstr), t)
<1>1. PICK r \in Rope \ ropes :
        pstr' = [pstr EXCEPT ![r] = t] /\ order' = Append(order, r)
  BY DEF buf_write, rope_setn
<1>2. TypeOK
  BY DEF IInv
<1>3. PICK N \in Nat : N = Len(order)
  BY <1>2, AtType
<1>4. /\ Len(order') = N + 1 /\ order'[N + 1] = r
      /\ \A k \in 1..N : order'[k] = order[k]
  BY <1>1, <1>2, <1>3, AtAppend
<1>5. \A k \in 1..N : order[k] # r /\ order[k] \in Rope /\ pstr[order[k]] \in Text
  BY <1>1, <1>2, <1>3, AtType DEF IInv, Held
<1>6. \A k \in 1..N : pstr'[order'[k]] = pstr[order[k]]
  BY <1>1, <1>2, <1>4, <1>5 DEF TypeOK
<1>7. pstr'[order'[N + 1]] = t
  BY <1>1, <1>2, <1>4 DEF TypeOK
<1> DEFINE old == Texts(order, pstr)
           new == [k \in 1..N+1 |-> pstr'[order'[k]]]
<1>8. old = [k \in 1..N |-> pstr[order[k]]] /\ Texts(order, pstr)' = new
  BY <1>3, <1>4 DEF Texts
<1>9. old \in Seq(Text) /\ Len(old) = N
  BY <1>5, <1>8
<1>10. /\ new \in Seq(Text) /\ Len(new) = N + 1
  <2>1. \A k \in 1..N+1 : pstr'[order'[k]] \in Text
    BY <1>5, <1>6, <1>7
  <2> QED
    BY <2>1
<1>11. \A k \in 1..N+1 : new[k] = Append(old, t)[k]
  <2> TAKE k \in 1..N+1
  <2>1. CASE k = N + 1
    BY <1>7, <1>9, <2>1, AppendProperties
  <2>2. CASE k \in 1..N
    BY <1>6, <1>8, <1>9, <2>2, AppendProperties
  <2>3. k = N + 1 \/ k \in 1..N
    OBVIOUS
  <2> HIDE DEF old, new
  <2> QED
    BY <2>1, <2>2, <2>3
<1>12. Append(old, t) \in Seq(Text) /\ Len(Append(old, t)) = N + 1
  BY <1>9, AppendProperties
<1> HIDE DEF old, new
<1>13. new = Append(old, t)
  BY <1>10, <1>11, <1>12, SeqEqual
<1> QED
  BY <1>8, <1>13 DEF old

(* A complete dump has printed the log.                                    *)
LEMMA DumpShowsLog ==
  ASSUME IInv, DumpEnd
  PROVE  out = Texts(order, pstr)
<1>1. TypeOK /\ Len(order) \in Nat /\ Len(out) \in Nat
  BY AtType DEF IInv, TypeOK
<1>2. /\ Len(out) <= Len(order) /\ At(Len(out) + 1) = ropelist
      /\ \A k \in 1..Len(out) : out[k] = pstr[order[k]]
  BY DEF DumpEnd, IInv, Dumping
<1>3. Len(out) = Len(order)
  BY <1>1, <1>2, AtType
<1>4. out = [k \in 1..Len(out) |-> out[k]]
  BY <1>1 DEF TypeOK
<1> QED
  BY <1>2, <1>3, <1>4 DEF Texts

(* Every step of the list is a step of the log, or none.                   *)
LEMMA StepSimulation ==
  IInv /\ [Next]_vars => Log!Next \/ (IsOpen' = IsOpen /\ LogNow' = LogNow /\ shown' = shown)
<1> SUFFICES ASSUME IInv, [Next]_vars
             PROVE  Log!Next \/ (IsOpen' = IsOpen /\ LogNow' = LogNow /\ shown' = shown)
  OBVIOUS
<1>1. CASE buf_init
  <2>1. pc = "none" /\ pc' = "ready" /\ order' = << >> /\ shown' = shown
    BY <1>1 DEF buf_init, IInv, Held
  <2>2. [k \in 1..Len(order') |-> pstr'[order'[k]]] = << >>
    BY <2>1
  <2>3. Log!Open
    BY <2>1, <2>2 DEF Log!Open
  <2> QED
    BY <2>3 DEF Log!Next
<1>2. ASSUME NEW t \in Text, buf_write(t) PROVE Log!Next
  <2>1. pc = "ready" /\ pc' = "ready" /\ shown' = shown
    BY <1>2 DEF buf_write
  <2>2. Log!Write(t)
    BY <1>2, <2>1, WriteAppends DEF Log!Write, Texts
  <2> QED
    BY <2>2 DEF Log!Next
<1>3. CASE DumpEnd
  <2>1. Log!Dump
    BY <1>3, DumpShowsLog DEF DumpEnd, Log!Dump, Texts, heap
  <2> QED
    BY <2>1 DEF Log!Next
<1>4. CASE DestroyBegin
  <2>1. Log!Close
    BY <1>4 DEF DestroyBegin, Log!Close
  <2> QED
    BY <2>1 DEF Log!Next
<1>5. CASE DumpBegin \/ DumpStep
  BY <1>5 DEF DumpBegin, DumpStep, IsOpen, LogNow, Texts, heap
<1>6. CASE DestroyStep \/ DestroyEnd
  BY <1>6 DEF DestroyStep, DestroyEnd, IsOpen, LogNow
<1>7. CASE UNCHANGED vars
  BY <1>7 DEF vars, heap, IsOpen, LogNow, Texts
<1> QED
  BY <1>1, <1>2, <1>3, <1>4, <1>5, <1>6, <1>7 DEF Next

(* buf_dump prints everything that was written since buf_init, in order    *)
(* and nothing else, for every sequence of calls and every reuse of freed  *)
(* memory by malloc.                                                       *)
THEOREM RopeImplementsLog == Spec => ImplementsRopeLog
<1>1. Init => Log!Init
  BY DEF Init, Log!Init
<1>2. IInv /\ [Next]_vars => [Log!Next]_(Log!vars)
  BY StepSimulation DEF IsOpen, LogNow, Texts, Log!vars
<1> QED
  BY <1>1, <1>2, InitEstablishes, NextPreserves, PTL DEF Spec, ImplementsRopeLog, Log!Spec
===============================================================================
