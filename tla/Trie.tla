--------------------------------- MODULE Trie ---------------------------------
(***************************************************************************)
(* The trie of src/util.c.  A node is named by the path that leads to it;  *)
(* children[c] of node p is the node Append(p, c).  One step is one        *)
(* iteration of the loop of trie_walk, or one free() of trie_destroy.      *)
(***************************************************************************)
EXTENDS Integers, Sequences

CONSTANTS
  Byte,    \* the bytes: 0..MAX_CHILDREN-1
  Target,  \* the byte strings passed as (target, size), size > 0
  Null     \* NULL

ASSUME TrieAssumption ==
  /\ Target \subseteq Seq(Byte) \ {<< >>}
  /\ Null \notin Seq(Byte)

VARIABLES
  nodes,   \* the nodes that are allocated; << >> is the root
  leaf,    \* the nodes whose isleaf is set
  pc,      \* "idle", "walk" (in trie_walk), "destroy" (in trie_destroy), "gone"
  op,      \* the caller of trie_walk: "insert", "lookup" or "scan"
  target,  \* its argument
  node,    \* trie_walk's node; its loop variable i is Len(node)
  last     \* the last call that returned: operation, argument, result

vars == <<nodes, leaf, pc, op, target, node, last>>

Root == << >>

(* trie_init of the root.                                                  *)
Init ==
  /\ nodes = {Root} /\ leaf = {}
  /\ pc = "idle" /\ op = "insert" /\ target = Null /\ node = Root
  /\ last = Null

(* trie_insert, trie_lookup and trie_scan call trie_walk with different    *)
(* values of create and scan.                                              *)
Call(o, t) ==
  /\ pc = "idle" /\ pc' = "walk"
  /\ op' = o /\ target' = t /\ node' = Root
  /\ UNCHANGED <<nodes, leaf, last>>

create == op = "insert"
scan   == op = "scan"

Return(r) ==
  /\ pc' = "idle"
  /\ last' = [op |-> op, target |-> target, node |-> r]
  /\ UNCHANGED <<op, target, node>>

Child == Append(node, target[Len(node) + 1])

(* There is no such child, and none is to be created.                      *)
WalkFails ==
  /\ pc = "walk" /\ Len(node) < Len(target)
  /\ Child \notin nodes /\ ~create
  /\ Return(Null)
  /\ UNCHANGED <<nodes, leaf>>

(* Mutant: every walk allocates.                                           *)
WalkDownAllocates ==
  /\ pc = "walk" /\ Len(node) < Len(target)
  /\ nodes' = nodes \cup {Child}
  /\ IF scan /\ Child \in leaf
     THEN Return(Child)
     ELSE node' = Child /\ UNCHANGED <<pc, op, target, last>>
  /\ UNCHANGED leaf

(* Mutant: a scan does not stop at the first leaf.                         *)
WalkDownIgnoresLeaf ==
  /\ pc = "walk" /\ Len(node) < Len(target)
  /\ Child \in nodes \/ create
  /\ nodes' = nodes \cup {Child}
  /\ node' = Child
  /\ UNCHANGED <<leaf, pc, op, target, last>>

(* Go down to the child, which trie_init allocates if need be; a scan ends *)
(* at the first leaf.                                                      *)
WalkDown ==
  /\ pc = "walk" /\ Len(node) < Len(target)
  /\ Child \in nodes \/ create
  /\ nodes' = nodes \cup {Child}
  /\ IF scan /\ Child \in leaf
     THEN Return(Child)
     ELSE node' = Child /\ UNCHANGED <<pc, op, target, last>>
  /\ UNCHANGED leaf

(* The whole target was consumed.                                          *)
WalkEnd ==
  /\ pc = "walk" /\ Len(node) = Len(target)
  /\ leaf' = IF create THEN leaf \cup {node} ELSE leaf
  /\ Return(IF (node \in leaf) = create THEN Null ELSE node)
  /\ UNCHANGED nodes

(* trie_destroy frees a node after all of its children.                    *)
Destroy ==
  /\ pc = "idle" /\ pc' = "destroy"
  /\ UNCHANGED <<nodes, leaf, op, target, node, last>>

(* Mutant: a node is freed before its children.                            *)
FreeParentFirst(p) ==
  /\ pc = "destroy"
  /\ p \in nodes
  /\ nodes' = nodes \ {p}
  /\ leaf' = leaf \ {p}
  /\ pc' = IF p = Root THEN "gone" ELSE "destroy"
  /\ UNCHANGED <<op, target, node, last>>

(* Mutant: the root itself is not freed.                                   *)
FreeForgetsRoot(p) ==
  /\ pc = "destroy"
  /\ p \in nodes
  /\ \A c \in Byte : Append(p, c) \notin nodes
  /\ nodes' = (nodes \ {p}) \cup {Root}
  /\ leaf' = leaf \ {p}
  /\ pc' = IF p = Root THEN "gone" ELSE "destroy"
  /\ UNCHANGED <<op, target, node, last>>

Free(p) ==
  /\ pc = "destroy"
  /\ p \in nodes
  /\ \A c \in Byte : Append(p, c) \notin nodes
  /\ nodes' = nodes \ {p}
  /\ leaf' = leaf \ {p}
  /\ pc' = IF p = Root THEN "gone" ELSE "destroy"
  /\ UNCHANGED <<op, target, node, last>>

Terminated == pc = "gone" /\ UNCHANGED vars

Walk == WalkFails \/ WalkDown \/ WalkEnd

Next ==
  \/ \E o \in {"insert", "lookup", "scan"}, t \in Target : Call(o, t)
  \/ Walk
  \/ Destroy
  \/ \E p \in nodes : Free(p)
  \/ Terminated

(* A call that was made runs to its end.                                   *)
Spec == /\ Init /\ [][Next]_vars
        /\ WF_vars(Walk) /\ WF_vars(\E p \in nodes : Free(p))

-----------------------------------------------------------------------------
(* Properties.                                                             *)

(* p is a prefix of t.                                                     *)
Starts(p, t) == Len(p) <= Len(t) /\ \A j \in 1..Len(p) : p[j] = t[j]

(* Every variable stays in its type, and trie_walk inside its argument.    *)
TypeOK ==
  /\ nodes \subseteq Seq(Byte) /\ leaf \subseteq nodes
  /\ pc \in {"idle", "walk", "destroy", "gone"}
  /\ op \in {"insert", "lookup", "scan"}
  /\ target \in Target \cup {Null}
  /\ node \in Seq(Byte)
  /\ pc = "walk" => target \in Target /\ Starts(node, target)
  /\ last = Null \/ last \in [op : {"insert", "lookup", "scan"}, target : Target,
                              node : Seq(Byte) \cup {Null}]

(* Every node hangs on its parent: none is cut off, by an insert that is   *)
(* under way or by a parent that trie_destroy frees too early.             *)
Connected == \A p \in nodes : p = Root \/ \E q \in nodes, c \in Byte : p = Append(q, c)

(* A branch that ends in no key exists only while its insert is under way: *)
(* no lookup or scan ever allocates.                                       *)
NoDeadBranch ==
  pc \in {"idle", "walk"} =>
    \A p \in nodes \ {Root} :
      \/ \E k \in leaf : Starts(p, k)
      \/ pc = "walk" /\ create /\ Starts(p, node)

(* The trie implements the set of byte strings: insert, lookup and scan    *)
(* answer what the set does, a scan that ends at an inner node included    *)
(* (util.c:44; test_trie.cpp expects it, the comment at util.c:67 does     *)
(* not).                                                                   *)
Abs == INSTANCE TrieSet
         WITH keys <- IF pc \in {"idle", "walk"} THEN leaf ELSE {}
ImplementsTrieSet == Abs!Spec

(* trie_destroy frees every node.                                          *)
DestroyFreesAll == pc = "destroy" ~> nodes = {}

===============================================================================
