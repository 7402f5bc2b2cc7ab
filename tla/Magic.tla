--------------------------------- MODULE Magic ---------------------------------
(***************************************************************************)
(* The test for binary files, src/magic.c, as the dispatcher uses it: one  *)
(* magic_init, a magic_scan per opened file, one magic_fini.  The trie is  *)
(* the set of keys it implements (TrieSet).                                *)
(***************************************************************************)
EXTENDS Integers, Sequences

CONSTANTS
  Byte,         \* the bytes
  magic_index,  \* the table: a sequence of byte strings, each cut to its length
  BufLen,       \* the size of magic_buf
  Files,        \* the contents of the files that are opened
  NoFile        \* no file was scanned yet

(* Each entry of the table fits in the buffer (MENTRY_LEN is 9).           *)
ASSUME MagicAssumption ==
  /\ BufLen \in Nat \ {0}
  /\ magic_index \in Seq(Seq(Byte) \ {<< >>})
  /\ \A k \in 1..Len(magic_index) : Len(magic_index[k]) <= BufLen
  /\ Files \subseteq Seq(Byte)
  /\ NoFile \notin Files

VARIABLES
  tr,       \* "null", "live" or "freed": the pointer to the trie
  i,        \* magic_init: entries inserted so far
  keys,     \* the keys in the trie
  file,     \* the file scanned last
  readok,   \* its read() succeeded
  binary    \* what magic_scan returned for it

vars == <<tr, i, keys, file, readok, binary>>

Init ==
  /\ tr = "null" /\ i = 0 /\ keys = {}
  /\ file = NoFile /\ readok = FALSE /\ binary = FALSE

(* Mutant: the loop over the table starts at its second entry.             *)
magic_init_from_one ==
  /\ tr = "null" /\ tr' = "live"
  /\ i' = 1
  /\ UNCHANGED <<keys, file, readok, binary>>

(* magic_init: trie_init allocates only through a null pointer.            *)
magic_init ==
  /\ tr = "null" /\ tr' = "live"
  /\ UNCHANGED <<i, keys, file, readok, binary>>

(* Mutant: the last byte of every longer entry is lost.                    *)
InsertEntryCut ==
  LET m == magic_index[i + 1] IN
  /\ tr = "live" /\ i < Len(magic_index)
  /\ keys' = keys \cup {SubSeq(m, 1, IF Len(m) > 1 THEN Len(m) - 1 ELSE 1)}
  /\ i' = i + 1
  /\ UNCHANGED <<tr, file, readok, binary>>

(* One iteration of its loop.                                              *)
InsertEntry ==
  /\ tr = "live" /\ i < Len(magic_index)
  /\ keys' = keys \cup {magic_index[i + 1]}
  /\ i' = i + 1
  /\ UNCHANGED <<tr, file, readok, binary>>

Starts(p, t) == Len(p) <= Len(t) /\ \A j \in 1..Len(p) : p[j] = t[j]

(* read() of at most BufLen bytes into an array that was not initialised:  *)
(* what it does not fill holds whatever the stack held.  Its result is not *)
(* looked at, so a failed read leaves all of the array as it was.          *)
Filled(f, ok, magic_buf) ==
  [k \in 1..BufLen |-> IF ok /\ k <= Len(f) THEN f[k] ELSE magic_buf[k]]

magic_scan(f, ok) ==
  /\ tr = "live" /\ i = Len(magic_index)
  /\ binary' \in {\E k \in keys : Starts(k, Filled(f, ok, garbage)) :
                    garbage \in [1..BufLen -> Byte]}
  /\ file' = f /\ readok' = ok
  /\ UNCHANGED <<tr, i, keys>>

(* trie_destroy; tr keeps pointing to the freed root.                      *)
magic_fini ==
  /\ tr = "live" /\ i = Len(magic_index)
  /\ tr' = "freed" /\ keys' = {}
  /\ UNCHANGED <<i, file, readok, binary>>

Terminated == tr = "freed" /\ UNCHANGED vars

Next ==
  \/ magic_init \/ InsertEntry
  \/ \E f \in Files, ok \in BOOLEAN : magic_scan(f, ok)
  \/ magic_fini
  \/ Terminated

Spec == Init /\ [][Next]_vars

-----------------------------------------------------------------------------
(* Properties.                                                             *)

Magics == {magic_index[k] : k \in 1..Len(magic_index)}

LooksBinary(f) == \E m \in Magics : Starts(m, f)

(* A file that starts with an entry of the table is never searched: no     *)
(* garbage in the buffer and no shorter entry hides it.                    *)
BinaryIsRejected ==
  file # NoFile /\ readok /\ LooksBinary(file) => binary

(* A file at least as long as every entry is judged by its own bytes.      *)
TextIsAccepted ==
  file # NoFile /\ readok /\ (\A m \in Magics : Len(m) <= Len(file)) =>
    (binary <=> LooksBinary(file))

(* "test whether the file is binary" (thread.c:252): a file of any length  *)
(* that starts with no entry is searched.                                  *)
EveryTextIsAccepted ==
  file # NoFile /\ readok /\ binary => LooksBinary(file)

===============================================================================
