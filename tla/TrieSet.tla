-------------------------------- MODULE TrieSet --------------------------------
(***************************************************************************)
(* What the trie of src/util.c answers, as test_trie.cpp expects it: a set *)
(* of byte strings, to which keys are added, in which they are looked up,  *)
(* and which can be asked for the shortest key a string starts with.       *)
(***************************************************************************)
EXTENDS Integers, Sequences

CONSTANTS
  Byte,    \* the bytes
  Target,  \* the strings that are passed to the operations
  Null     \* NULL

VARIABLES
  keys,    \* the strings in the set
  last     \* the last call that returned: operation, argument, result

(* p is a prefix of t.                                                     *)
Starts(p, t) == Len(p) <= Len(t) /\ \A j \in 1..Len(p) : p[j] = t[j]

Answer(o, t, r) == last' = [op |-> o, target |-> t, node |-> r]

Init ==
  /\ keys = {}
  /\ last = Null

(* A key is added once.                                                    *)
Insert(t) ==
  /\ Answer("insert", t, IF t \in keys THEN Null ELSE t)
  /\ keys' = keys \cup {t}

Lookup(t) ==
  /\ Answer("lookup", t, IF t \in keys THEN t ELSE Null)
  /\ UNCHANGED keys

(* The shortest key that t starts with, NULL if there is none, also when t *)
(* ends at an inner node (test_trie.cpp:136-139).  The comment at          *)
(* util.c:67, "will return the node regardless of whether it is a leaf",   *)
(* says otherwise of this case.                                            *)
Scan(t) ==
  /\ \/ /\ \A k \in keys : ~Starts(k, t)
        /\ Answer("scan", t, Null)
     \/ \E k \in keys :
          /\ Starts(k, t)
          /\ \A j \in keys : Starts(j, t) => Len(k) <= Len(j)
          /\ Answer("scan", t, k)
  /\ UNCHANGED keys

Destroy == keys' = {} /\ UNCHANGED last

Next ==
  \/ \E t \in Target : Insert(t) \/ Lookup(t) \/ Scan(t)
  \/ Destroy

Spec == Init /\ [][Next]_<<keys, last>>

===============================================================================
