------------------------------ MODULE TrieProofs ------------------------------
(***************************************************************************)
(* The trie of src/util.c implements the set of byte strings TrieSet, for  *)
(* all keys and all sequences of calls; no node is ever cut off, none is   *)
(* allocated without a key below it, and trie_destroy frees them all.      *)
(***************************************************************************)
EXTENDS Trie, TLAPS, SequenceTheorems

(* While the trie is in use, every prefix of a node is a node.             *)
PrefixClosed ==
  pc \in {"idle", "walk"} =>
    /\ Root \in nodes
    /\ \A p \in nodes : \A q \in Seq(Byte) : Starts(q, p) => q \in nodes

(* A walk has come to a node on the way to its target, and a scan has met  *)
(* no key on it.                                                           *)
OnTheWay ==
  pc = "walk" =>
    /\ node \in nodes
    /\ scan => \A k \in leaf : Starts(k, target) => Len(k) > Len(node)

IInv == TypeOK /\ leaf \subseteq Target /\ PrefixClosed /\ OnTheWay

-----------------------------------------------------------------------------
(* Facts about prefixes.                                                   *)

(* A prefix of full length is the whole string.                            *)
LEMMA FullPrefix ==
  ASSUME NEW p \in Seq(Byte), NEW t \in Seq(Byte), Starts(p, t), Len(p) = Len(t)
  PROVE  p = t
BY SeqEqual DEF Starts

(* The prefixes of a string grown by one byte.                             *)
LEMMA PrefixOfAppend ==
  ASSUME NEW p \in Seq(Byte), NEW c \in Byte, NEW q \in Seq(Byte),
         Starts(q, Append(p, c))
  PROVE  q = Append(p, c) \/ Starts(q, p)
<1> DEFINE a == Append(p, c)
<1>1. /\ a \in Seq(Byte) /\ Len(a) = Len(p) + 1 /\ Len(p) \in Nat /\ Len(q) \in Nat
      /\ \A j \in 1..Len(p) : a[j] = p[j]
  BY AppendProperties
<1>2. Len(q) <= Len(a) /\ \A j \in 1..Len(q) : q[j] = a[j]
  BY DEF Starts
<1> HIDE DEF a
<1>3. CASE Len(q) = Len(a)
  BY <1>1, <1>3, FullPrefix DEF a
<1>4. CASE Len(q) <= Len(p)
  BY <1>1, <1>2, <1>4 DEF Starts
<1> QED
  BY <1>1, <1>2, <1>3, <1>4

(* Two prefixes of one string: the shorter starts the longer.              *)
LEMMA PrefixesNest ==
  ASSUME NEW p \in Seq(Byte), NEW q \in Seq(Byte), NEW t \in Seq(Byte),
         Starts(p, t), Starts(q, t), Len(p) <= Len(q)
  PROVE  Starts(p, q)
BY DEF Starts

(* The next node of a walk that has not consumed its target.               *)
LEMMA ChildIsPrefix ==
  ASSUME TypeOK, pc = "walk", Len(node) < Len(target)
  PROVE  /\ target \in Seq(Byte) /\ node \in Seq(Byte) /\ Len(node) \in Nat
         /\ Child \in Seq(Byte) /\ Len(Child) = Len(node) + 1
         /\ Starts(Child, target) /\ target[Len(node) + 1] \in Byte
<1>1. target \in Seq(Byte) /\ node \in Seq(Byte) /\ Len(node) \in Nat
  BY TrieAssumption DEF TypeOK
<1>2. target[Len(node) + 1] \in Byte
  BY <1>1
<1>3. /\ Child \in Seq(Byte) /\ Len(Child) = Len(node) + 1
      /\ \A j \in 1..Len(node) : Child[j] = node[j]
      /\ Child[Len(node) + 1] = target[Len(node) + 1]
  BY <1>1, <1>2, AppendProperties DEF Child
<1>4. Starts(Child, target)
  BY <1>1, <1>3 DEF TypeOK, Starts
<1> QED
  BY <1>1, <1>2, <1>3, <1>4

(* A key on the way to the target that lies below the walk's node lies     *)
(* below or at its next node, which therefore exists.                      *)
LEMMA KeyBelow ==
  ASSUME IInv, pc = "walk", Len(node) < Len(target),
         NEW k \in leaf, Starts(k, target), Len(k) > Len(node)
  PROVE  Child \in nodes
<1>1. k \in Seq(Byte) /\ k \in nodes
  BY DEF IInv, TypeOK
<1>2. Starts(Child, k)
  BY <1>1, ChildIsPrefix, PrefixesNest DEF IInv
<1> QED
  BY <1>1, <1>2, ChildIsPrefix DEF IInv, PrefixClosed

-----------------------------------------------------------------------------
(* The invariant.                                                          *)

(* The trie starts with its root alone.                                    *)
LEMMA InitEstablishes == Init => IInv
<1> SUFFICES ASSUME Init PROVE IInv
  OBVIOUS
<1>1. TypeOK
  BY DEF Init, TypeOK, Root
<1>2. PrefixClosed
  BY DEF Init, PrefixClosed, Starts, Root
<1>3. leaf \subseteq Target /\ OnTheWay
  BY DEF Init, OnTheWay
<1> QED
  BY <1>1, <1>2, <1>3 DEF IInv

(* Every step keeps the invariant.                                         *)
LEMMA NextPreserves == IInv /\ [Next]_vars => IInv'
<1> SUFFICES ASSUME IInv, [Next]_vars PROVE IInv'
  OBVIOUS
<1> DEFINE L(o, t, r) == [op |-> o, target |-> t, node |-> r]
<1>0. ASSUME NEW r \in Seq(Byte) \cup {Null}, pc = "walk"
      PROVE  L(op, target, r) \in [op : {"insert", "lookup", "scan"}, target : Target,
                                   node : Seq(Byte) \cup {Null}]
  BY <1>0 DEF IInv, TypeOK
<1>1. ASSUME NEW o \in {"insert", "lookup", "scan"}, NEW t \in Target, Call(o, t)
      PROVE  IInv'
  <2>1. TypeOK'
    BY <1>1 DEF Call, IInv, TypeOK, Starts, Root
  <2>2. PrefixClosed'
    BY <1>1 DEF Call, IInv, PrefixClosed
  <2>3. \A k \in leaf : Len(k) > Len(Root)
    BY TrieAssumption DEF IInv, Root
  <2>4. OnTheWay'
    BY <1>1, <2>3 DEF Call, OnTheWay, IInv, PrefixClosed, scan
  <2> QED
    BY <1>1, <2>1, <2>2, <2>4 DEF IInv, Call
<1>2. CASE WalkFails
  <2>1. last' = L(op, target, Null) /\ pc = "walk"
    BY <1>2 DEF WalkFails, Return
  <2>2. TypeOK'
    BY <1>0, <1>2, <2>1 DEF WalkFails, Return, IInv, TypeOK
  <2> QED
    BY <1>2, <2>2 DEF WalkFails, Return, IInv, PrefixClosed, OnTheWay
<1>3. CASE WalkDown
  <2>1. /\ pc = "walk" /\ Len(node) < Len(target) /\ target \in Target /\ node \in nodes
        /\ nodes' = nodes \cup {Child} /\ leaf' = leaf /\ UNCHANGED <<op, target>>
    BY <1>3 DEF WalkDown, Return, IInv, TypeOK, OnTheWay
  <2>2. Child \in Seq(Byte) /\ Starts(Child, target) /\ Len(Child) = Len(node) + 1
    BY <2>1, ChildIsPrefix DEF IInv
  <2>3. \/ scan /\ Child \in leaf /\ pc' = "idle" /\ node' = node /\ last' = L(op, target, Child)
        \/ ~(scan /\ Child \in leaf) /\ pc' = "walk" /\ node' = Child /\ last' = last
    BY <1>3, <2>1 DEF WalkDown, Return
  <2>4. TypeOK'
    <3>1. L(op, target, Child) \in [op : {"insert", "lookup", "scan"}, target : Target,
                                    node : Seq(Byte) \cup {Null}]
      BY <1>0, <2>1, <2>2
    <3>2. last' = Null \/ last' \in [op : {"insert", "lookup", "scan"}, target : Target,
                                     node : Seq(Byte) \cup {Null}]
      BY <2>3, <3>1 DEF IInv, TypeOK
    <3> HIDE DEF L
    <3> QED
      BY <2>1, <2>2, <2>3, <3>2 DEF IInv, TypeOK, Starts
  <2>5. PrefixClosed'
    <3>1. SUFFICES ASSUME NEW q \in Seq(Byte), Starts(q, Child) PROVE q \in nodes \cup {Child}
      BY <2>1 DEF IInv, PrefixClosed, Starts
    <3>2. q = Child \/ Starts(q, node)
      BY <2>1, <3>1, ChildIsPrefix, PrefixOfAppend DEF IInv, Child
    <3> QED
      BY <2>1, <3>2 DEF IInv, PrefixClosed
  <2>6. OnTheWay'
    <3>1. SUFFICES ASSUME pc' = "walk", scan, NEW k \in leaf, Starts(k, target)
                   PROVE  Len(k) > Len(Child)
      BY <2>1, <2>3 DEF OnTheWay, scan, Starts
    <3>2. Len(k) > Len(node) /\ k \in Seq(Byte)
      BY <2>1, <3>1 DEF IInv, OnTheWay, TypeOK
    <3>3. Len(k) # Len(Child)
      <4>1. SUFFICES ASSUME Len(k) = Len(Child) PROVE FALSE
        OBVIOUS
      <4>2. Starts(k, Child)
        BY <2>1, <2>2, <3>1, <3>2, <4>1, ChildIsPrefix, PrefixesNest DEF IInv
      <4>3. k = Child
        BY <2>2, <3>2, <4>1, <4>2, FullPrefix
      <4> QED
        BY <2>3, <3>1, <4>3
    <3>4. Len(k) \in Nat /\ Len(node) \in Nat
      BY <2>1, <3>2, ChildIsPrefix DEF IInv
    <3> QED
      BY <2>2, <3>2, <3>3, <3>4
  <2> QED
    BY <2>1, <2>4, <2>5, <2>6 DEF IInv
<1>4. CASE WalkEnd
  <2>1. node = target /\ target \in Target /\ node \in nodes /\ node \in Seq(Byte)
    BY <1>4, FullPrefix, TrieAssumption DEF WalkEnd, IInv, TypeOK, OnTheWay
  <2>2. PICK r \in Seq(Byte) \cup {Null} : last' = L(op, target, r)
    BY <1>4, <2>1 DEF WalkEnd, Return
  <2>3. /\ leaf' \subseteq leaf \cup {node} /\ nodes' = nodes /\ pc = "walk" /\ pc' = "idle"
        /\ UNCHANGED <<op, target, node>>
    BY <1>4 DEF WalkEnd, Return
  <2>4. L(op, target, r) \in [op : {"insert", "lookup", "scan"}, target : Target,
                              node : Seq(Byte) \cup {Null}]
    BY <1>0, <2>3
  <2> HIDE DEF L
  <2>5. TypeOK'
    BY <2>1, <2>2, <2>3, <2>4 DEF IInv, TypeOK
  <2> QED
    BY <2>1, <2>3, <2>5 DEF IInv, PrefixClosed, OnTheWay
<1>5. CASE Destroy
  BY <1>5 DEF Destroy, IInv, TypeOK, PrefixClosed, OnTheWay
<1>6. ASSUME NEW p \in nodes, Free(p) PROVE IInv'
  BY <1>6 DEF Free, IInv, TypeOK, PrefixClosed, OnTheWay
<1>7. CASE UNCHANGED vars
  BY <1>7 DEF vars, IInv, TypeOK, PrefixClosed, OnTheWay, scan
<1> QED
  BY <1>1, <1>2, <1>3, <1>4, <1>5, <1>6, <1>7 DEF Next, Walk, Terminated

-----------------------------------------------------------------------------
(* The refinement.                                                         *)

(* The set of keys the trie stands for.                                    *)
KeySet == IF pc \in {"idle", "walk"} THEN leaf ELSE {}

(* Every step of the trie is a step of the set, or none.                   *)
LEMMA StepSimulation ==
  IInv /\ [Next]_vars => [Abs!Next]_<<KeySet, last>>
<1> SUFFICES ASSUME IInv, [Next]_vars
             PROVE  Abs!Next \/ (KeySet' = KeySet /\ last' = last)
  BY DEF KeySet
<1> USE DEF KeySet
<1>1. ASSUME NEW o \in {"insert", "lookup", "scan"}, NEW t \in Target, Call(o, t)
      PROVE  KeySet' = KeySet /\ last' = last
  BY <1>1 DEF Call
<1>2. CASE WalkFails
  <2>1. /\ pc = "walk" /\ pc' = "idle" /\ Len(node) < Len(target) /\ leaf' = leaf
        /\ last' = [op |-> op, target |-> target, node |-> Null]
        /\ Child \notin nodes /\ target \in Target
        /\ op \in {"lookup", "scan"}
    BY <1>2 DEF WalkFails, Return, create, IInv, TypeOK
  <2>2. CASE op = "lookup"
    <3>1. target \notin leaf
      <4>1. Starts(target, target)
        BY <2>1, TrieAssumption DEF Starts
      <4> QED
        BY <2>1, <4>1, KeyBelow
    <3>2. Abs!Lookup(target)
      BY <2>1, <2>2, <3>1 DEF Abs!Lookup, Abs!Answer
    <3> QED
      BY <2>1, <3>2 DEF Abs!Next
  <2>3. CASE op = "scan"
    <3>1. \A k \in leaf : ~Starts(k, target)
      BY <2>1, <2>3, KeyBelow DEF IInv, OnTheWay, scan
    <3>2. Abs!Scan(target)
      BY <2>1, <2>3, <3>1 DEF Abs!Scan, Abs!Answer, Abs!Starts, Starts
    <3> QED
      BY <2>1, <3>2 DEF Abs!Next
  <2> QED
    BY <2>1, <2>2, <2>3
<1>3. CASE WalkDown
  <2>1. CASE scan /\ Child \in leaf
    <3>1. /\ pc = "walk" /\ pc' = "idle" /\ Len(node) < Len(target) /\ leaf' = leaf
          /\ last' = [op |-> "scan", target |-> target, node |-> Child]
          /\ target \in Target
      BY <1>3, <2>1 DEF WalkDown, Return, scan, IInv, TypeOK
    <3>2. /\ Starts(Child, target)
          /\ \A j \in leaf : Starts(j, target) => Len(Child) <= Len(j)
      <4>1. ASSUME NEW j \in leaf, Starts(j, target)
            PROVE  Len(Child) <= Len(j)
        <5>1. Len(j) > Len(node) /\ j \in Seq(Byte)
          BY <2>1, <3>1, <4>1 DEF IInv, OnTheWay, TypeOK
        <5> QED
          BY <3>1, <5>1, ChildIsPrefix DEF IInv
      <4> QED
        BY <3>1, <4>1, ChildIsPrefix DEF IInv
    <3>3. Abs!Scan(target)
      BY <2>1, <3>1, <3>2 DEF Abs!Scan, Abs!Answer, Abs!Starts, Starts
    <3> QED
      BY <3>1, <3>3 DEF Abs!Next
  <2>2. CASE ~(scan /\ Child \in leaf)
    BY <1>3, <2>2 DEF WalkDown
  <2> QED
    BY <2>1, <2>2
<1>4. CASE WalkEnd
  <2>1. node = target /\ target \in Target /\ node \in Seq(Byte)
    BY <1>4, FullPrefix, TrieAssumption DEF WalkEnd, IInv, TypeOK
  <2>2. /\ pc = "walk" /\ pc' = "idle"
        /\ leaf' = IF create THEN leaf \cup {target} ELSE leaf
        /\ last' = [op |-> op, target |-> target,
                    node |-> IF (target \in leaf) = create THEN Null ELSE target]
        /\ op \in {"insert", "lookup", "scan"}
    BY <1>4, <2>1 DEF WalkEnd, Return, IInv, TypeOK
  <2>3. CASE op = "insert"
    <3>1. Abs!Insert(target)
      BY <2>2, <2>3 DEF Abs!Insert, Abs!Answer, create
    <3> QED
      BY <2>1, <3>1 DEF Abs!Next
  <2>4. CASE op = "lookup"
    <3>1. Abs!Lookup(target)
      BY <2>2, <2>4 DEF Abs!Lookup, Abs!Answer, create
    <3> QED
      BY <2>1, <3>1 DEF Abs!Next
  <2>5. CASE op = "scan"
    <3>1. \A k \in leaf : ~Starts(k, target)
      <4>1. SUFFICES ASSUME NEW k \in leaf, Starts(k, target) PROVE FALSE
        OBVIOUS
      <4>2. Len(k) > Len(target) /\ k \in Seq(Byte)
        BY <2>1, <2>2, <2>5, <4>1 DEF IInv, OnTheWay, TypeOK, scan
      <4> QED
        BY <2>1, <4>1, <4>2 DEF Starts
    <3>2. target \notin leaf
      BY <2>1, <3>1 DEF Starts
    <3>3. Abs!Scan(target)
      BY <2>2, <2>5, <3>1, <3>2 DEF Abs!Scan, Abs!Answer, Abs!Starts, Starts, create
    <3> QED
      BY <2>1, <3>3 DEF Abs!Next
  <2> QED
    BY <2>2, <2>3, <2>4, <2>5
<1>5. CASE Destroy
  <2>1. Abs!Destroy
    BY <1>5 DEF Destroy, Abs!Destroy
  <2> QED
    BY <2>1 DEF Abs!Next
<1>6. ASSUME NEW p \in nodes, Free(p) PROVE KeySet' = KeySet /\ last' = last
  BY <1>6 DEF Free
<1>7. CASE UNCHANGED vars
  BY <1>7 DEF vars
<1> QED
  BY <1>1, <1>2, <1>3, <1>4, <1>5, <1>6, <1>7 DEF Next, Walk, Terminated

(* trie_insert, trie_lookup and trie_scan return what a set of strings     *)
(* returns, for all keys and all sequences of calls.                       *)
THEOREM TrieImplementsSet == Spec => ImplementsTrieSet
<1>1. Init => Abs!Init
  BY DEF Init, Abs!Init
<1>2. IInv /\ [Next]_vars => [Abs!Next]_<<IF pc \in {"idle", "walk"} THEN leaf ELSE {}, last>>
  BY StepSimulation DEF KeySet
<1> QED
  BY <1>1, <1>2, InitEstablishes, NextPreserves, PTL DEF Spec, ImplementsTrieSet, Abs!Spec

(* Every variable of the trie stays in its type: a walk is on a prefix of  *)
(* a string it was called with.                                            *)
THEOREM TypeCorrect == Spec => []TypeOK
<1>1. IInv => TypeOK
  BY DEF IInv
<1> QED
  BY <1>1, InitEstablishes, NextPreserves, PTL DEF Spec

-----------------------------------------------------------------------------
(* The shape of the trie.                                                  *)

(* Every step leaves every node on its parent: a walk grows the trie at a  *)
(* node, and trie_destroy cuts off only what has no children.              *)
LEMMA ConnectedNext == IInv /\ Connected /\ [Next]_vars => Connected'
<1> SUFFICES ASSUME IInv, Connected, [Next]_vars PROVE Connected'
  OBVIOUS
<1>1. CASE WalkDown
  <2>1. /\ node \in nodes /\ target[Len(node) + 1] \in Byte
        /\ nodes' = nodes \cup {Child}
    BY <1>1, ChildIsPrefix DEF WalkDown, IInv, OnTheWay
  <2> QED
    BY <2>1 DEF Connected, Child
<1>2. ASSUME NEW p \in nodes, Free(p) PROVE Connected'
  <2>1. nodes' = nodes \ {p} /\ \A c \in Byte : Append(p, c) \notin nodes
    BY <1>2 DEF Free
  <2>2. ASSUME NEW x \in nodes', x # Root
        PROVE  \E q \in nodes', c \in Byte : x = Append(q, c)
    <3>1. PICK q \in nodes, c \in Byte : x = Append(q, c)
      BY <2>1, <2>2 DEF Connected
    <3>2. q # p
      BY <2>1, <2>2, <3>1
    <3> QED
      BY <2>1, <3>1, <3>2
  <2> QED
    BY <2>2 DEF Connected
<1>3. CASE UNCHANGED nodes
  BY <1>3 DEF Connected
<1> QED
  BY <1>1, <1>2, <1>3 DEF Next, Walk, WalkFails, WalkEnd, Call, Destroy,
     Terminated, vars

(* No node is ever cut off from the root.                                  *)
THEOREM NodesStayConnected == Spec => []Connected
<1>1. Init => Connected
  BY DEF Init, Connected
<1> QED
  BY <1>1, InitEstablishes, NextPreserves, ConnectedNext, PTL DEF Spec

(* Every step keeps the branches alive: only an insert allocates, and it   *)
(* ends in a key.                                                          *)
LEMMA BranchesNext == IInv /\ NoDeadBranch /\ [Next]_vars => NoDeadBranch'
<1> SUFFICES ASSUME IInv, NoDeadBranch, [Next]_vars PROVE NoDeadBranch'
  OBVIOUS
<1>1. ASSUME NEW o \in {"insert", "lookup", "scan"}, NEW t \in Target, Call(o, t)
      PROVE  NoDeadBranch'
  BY <1>1 DEF Call, NoDeadBranch
<1>2. CASE WalkFails
  BY <1>2 DEF WalkFails, Return, NoDeadBranch
<1>3. CASE WalkDown
  <2>1. /\ pc = "walk" /\ Len(node) < Len(target)
        /\ Child \in nodes \/ create
        /\ nodes' = nodes \cup {Child} /\ UNCHANGED <<leaf, op>>
        /\ pc' = "walk" => node' = Child
        /\ create => pc' = "walk"
    BY <1>3 DEF WalkDown, Return, create, scan
  <2>2. /\ node \in Seq(Byte) /\ Child \in Seq(Byte)
        /\ Len(node) \in Nat /\ Len(Child) = Len(node) + 1
        /\ \A j \in 1..Len(node) : Child[j] = node[j]
    BY <2>1, ChildIsPrefix, AppendProperties DEF IInv, Child
  <2>3. ASSUME NEW p \in nodes, Starts(p, node) PROVE Starts(p, Child)
    <3>1. Len(p) \in Nat
      BY DEF IInv, TypeOK
    <3> QED
      BY <2>2, <2>3, <3>1 DEF Starts
  <2>4. Starts(Child, Child)
    BY <2>2 DEF Starts
  <2>5. ASSUME NEW p \in nodes' \ {Root}
        PROVE  \/ \E k \in leaf' : Starts(p, k)
               \/ pc' = "walk" /\ create' /\ Starts(p, node')
    <3>1. CASE p \in nodes
      BY <2>1, <2>3, <2>5, <3>1 DEF NoDeadBranch, create
    <3>2. CASE p \notin nodes
      BY <2>1, <2>4, <2>5, <3>2 DEF create
    <3> QED
      BY <3>1, <3>2
  <2> QED
    BY <2>5 DEF NoDeadBranch
<1>4. CASE WalkEnd
  <2>1. /\ pc = "walk" /\ pc' = "idle" /\ nodes' = nodes
        /\ leaf \subseteq leaf' /\ (create => node \in leaf')
    BY <1>4 DEF WalkEnd, Return
  <2> QED
    BY <2>1 DEF NoDeadBranch
<1>5. CASE Destroy
  BY <1>5 DEF Destroy, NoDeadBranch
<1>6. ASSUME NEW p \in nodes, Free(p) PROVE NoDeadBranch'
  BY <1>6 DEF Free, NoDeadBranch
<1>7. CASE UNCHANGED vars
  BY <1>7 DEF vars, NoDeadBranch, create
<1> QED
  BY <1>1, <1>2, <1>3, <1>4, <1>5, <1>6, <1>7 DEF Next, Walk, Terminated

(* A branch that ends in no key exists only while its insert is under way, *)
(* for all keys and all sequences of calls.                                *)
THEOREM BranchesEndInKeys == Spec => []NoDeadBranch
<1>1. Init => NoDeadBranch
  BY DEF Init, NoDeadBranch
<1> QED
  BY <1>1, InitEstablishes, NextPreserves, BranchesNext, PTL DEF Spec

-----------------------------------------------------------------------------
(* The end of trie_destroy.                                                *)

(* The prefixes of a node are nodes also while the trie is being freed,    *)
(* until the root goes, with nothing left below it.                        *)
FreedBottomUp ==
  IF pc = "gone" THEN nodes = {}
  ELSE Root \in nodes /\ \A p \in nodes : \A q \in Seq(Byte) : Starts(q, p) => q \in nodes

(* A string that starts a longer one is extended by a byte of that one.    *)
LEMMA OneByteMore ==
  ASSUME NEW p \in Seq(Byte), NEW q \in Seq(Byte), Starts(p, q), p # q
  PROVE  \E c \in Byte : Starts(Append(p, c), q)
<1>1. Len(p) \in Nat /\ Len(q) \in Nat /\ Len(p) < Len(q)
  BY FullPrefix DEF Starts
<1> DEFINE c == q[Len(p) + 1]
<1>2. c \in Byte
  BY <1>1
<1> HIDE DEF c
<1>3. /\ Len(Append(p, c)) = Len(p) + 1
      /\ \A j \in 1..Len(p) : Append(p, c)[j] = p[j]
      /\ Append(p, c)[Len(p) + 1] = c
  BY <1>2, AppendProperties
<1>4. Starts(Append(p, c), q)
  BY <1>1, <1>3 DEF Starts, c
<1> QED
  BY <1>2, <1>4

(* Every step keeps the trie closed under prefixes.                        *)
LEMMA FreedNext == IInv /\ FreedBottomUp /\ [Next]_vars => FreedBottomUp'
<1> SUFFICES ASSUME IInv, FreedBottomUp, [Next]_vars PROVE FreedBottomUp'
  OBVIOUS
<1>1. ASSUME NEW p \in nodes, Free(p) PROVE FreedBottomUp'
  <2>1. /\ pc = "destroy" /\ nodes' = nodes \ {p} /\ p \in Seq(Byte)
        /\ \A c \in Byte : Append(p, c) \notin nodes
        /\ pc' = IF p = Root THEN "gone" ELSE "destroy"
    BY <1>1 DEF Free, IInv, TypeOK
  <2>2. ASSUME NEW q \in nodes, Starts(p, q) PROVE p = q
    <3>1. q \in Seq(Byte)
      BY DEF IInv, TypeOK
    <3>2. SUFFICES ASSUME p # q PROVE FALSE
      OBVIOUS
    <3>3. PICK c \in Byte : Starts(Append(p, c), q)
      BY <2>1, <2>2, <3>1, <3>2, OneByteMore
    <3>4. Append(p, c) \in Seq(Byte)
      BY <2>1
    <3> QED
      BY <2>1, <3>3, <3>4 DEF FreedBottomUp
  <2>3. CASE p = Root
    <3>1. \A q \in nodes : q = Root
      BY <2>2, <2>3 DEF Starts, Root, IInv, TypeOK
    <3> QED
      BY <2>1, <2>3, <3>1 DEF FreedBottomUp
  <2>4. CASE p # Root
    BY <2>1, <2>2, <2>4 DEF FreedBottomUp
  <2> QED
    BY <2>3, <2>4
<1>2. CASE WalkDown
  <2>1. pc = "walk" /\ pc' \in {"walk", "idle"} /\ PrefixClosed'
    BY <1>2, NextPreserves DEF WalkDown, Return, IInv
  <2> QED
    BY <2>1 DEF PrefixClosed, FreedBottomUp
<1>3. CASE UNCHANGED nodes /\ (pc' = "gone" <=> pc = "gone")
  BY <1>3 DEF FreedBottomUp
<1> QED
  BY <1>1, <1>2, <1>3 DEF Next, Walk, WalkFails, WalkEnd, Return, Call, Destroy,
     Terminated, vars

(* trie_destroy frees the root last: once it is gone, no node is left.     *)
THEOREM DestroyLeavesNothing == Spec => [](pc = "gone" => nodes = {})
<1>1. Init => FreedBottomUp
  BY InitEstablishes DEF Init, FreedBottomUp, IInv, PrefixClosed
<1>2. FreedBottomUp => (pc = "gone" => nodes = {})
  BY DEF FreedBottomUp
<1> QED
  BY <1>1, <1>2, InitEstablishes, NextPreserves, FreedNext, PTL DEF Spec

===============================================================================
