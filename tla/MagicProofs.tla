------------------------------ MODULE MagicProofs ------------------------------
(***************************************************************************)
(* The test for binary files, for every table, every buffer that holds its *)
(* entries and every file: what read() leaves uninitialised in magic_buf   *)
(* decides nothing that the bytes of the file decide.                      *)
(***************************************************************************)
EXTENDS Magic, TLAPS, SequenceTheorems

(* The trie holds the entries inserted so far: all of them when the first  *)
(* file is scanned.                                                        *)
TableLoaded ==
  /\ i \in 0..Len(magic_index)
  /\ tr = "null" => i = 0 /\ keys = {}
  /\ tr = "live" => keys = {magic_index[k] : k \in 1..i}

IInv == TableLoaded /\ BinaryIsRejected /\ TextIsAccepted

-----------------------------------------------------------------------------
(* The buffer.                                                             *)

(* The entries are shorter than the buffer.                                *)
LEMMA MagicsFit ==
  ASSUME NEW m \in Magics
  PROVE  m \in Seq(Byte) /\ Len(m) \in Nat /\ Len(m) <= BufLen /\ BufLen \in Nat
<1>1. PICK k \in 1..Len(magic_index) : m = magic_index[k]
  BY DEF Magics
<1>2. magic_index \in Seq(Seq(Byte) \ {<< >>})
  BY MagicAssumption
<1>3. magic_index[k] \in Seq(Byte) \ {<< >>}
  BY <1>1, <1>2
<1> QED
  BY <1>1, <1>3, MagicAssumption

(* A successful read() puts the start of the file in front of the garbage. *)
LEMMA FilledIs ==
  ASSUME NEW f \in Files, NEW g \in [1..BufLen -> Byte]
  PROVE  /\ Len(Filled(f, TRUE, g)) = BufLen
         /\ Len(f) \in Nat
         /\ \A j \in 1..BufLen :
              Filled(f, TRUE, g)[j] = IF j <= Len(f) THEN f[j] ELSE g[j]
<1>1. BufLen \in Nat \ {0} /\ Len(f) \in Nat
  BY MagicAssumption
<1> DEFINE e(k) == IF k <= Len(f) THEN f[k] ELSE g[k]
<1>2. PICK b : b = [k \in 1..BufLen |-> e(k)]
  OBVIOUS
<1>3. \A k \in 1..BufLen : e(k) \in Byte
  BY <1>1, MagicAssumption
<1>4. b \in [1..BufLen -> Byte] /\ \A k \in 1..BufLen : b[k] = e(k)
  BY <1>2, <1>3
<1>5. Len(b) = BufLen
  <2>1. b \in Seq(Byte) /\ DOMAIN b = 1..BufLen
    BY <1>1, <1>4, SeqDef
  <2>2. Len(b) \in Nat /\ DOMAIN b = 1..Len(b)
    BY <2>1, LenProperties
  <2>3. BufLen \in 1..Len(b)
    BY <1>1, <2>1, <2>2
  <2>4. Len(b) \in 1..BufLen
    BY <2>1, <2>2, <2>3
  <2>5. BufLen <= Len(b) /\ Len(b) <= BufLen /\ Len(b) \in Int /\ BufLen \in Int
    BY <1>1, <2>2, <2>3, <2>4
  <2> QED
    BY ONLY <2>5
<1>6. Filled(f, TRUE, g) = b
  BY <1>2 DEF Filled
<1> QED
  BY <1>1, <1>4, <1>5, <1>6

(* An entry that starts the file starts the buffer; one that is no longer  *)
(* than the file starts the buffer only if it starts the file.             *)
LEMMA ReadIsFaithful ==
  ASSUME NEW f \in Files, NEW g \in [1..BufLen -> Byte], NEW m \in Magics
  PROVE  /\ Starts(m, f) => Starts(m, Filled(f, TRUE, g))
         /\ Len(m) <= Len(f) /\ Starts(m, Filled(f, TRUE, g)) => Starts(m, f)
<1> DEFINE b == Filled(f, TRUE, g)
<1>1. Len(m) \in Nat /\ Len(m) <= BufLen /\ BufLen \in Nat
  BY MagicsFit
<1>2. /\ Len(b) = BufLen /\ Len(f) \in Nat
      /\ \A j \in 1..BufLen : b[j] = IF j <= Len(f) THEN f[j] ELSE g[j]
  BY FilledIs
<1> HIDE DEF b
<1>3. ASSUME Len(m) <= Len(f), NEW j \in 1..Len(m) PROVE b[j] = f[j]
  BY <1>1, <1>2, <1>3
<1>4. Starts(m, f) => Starts(m, b)
  BY <1>1, <1>2, <1>3 DEF Starts
<1>5. Len(m) <= Len(f) /\ Starts(m, b) => Starts(m, f)
  BY <1>1, <1>2, <1>3 DEF Starts
<1> QED
  BY <1>4, <1>5 DEF b

-----------------------------------------------------------------------------
(* The invariant.                                                          *)

(* What magic_scan returns for a file that was read.                       *)
LEMMA ScanJudges ==
  ASSUME IInv, NEW f \in Files, NEW ok \in BOOLEAN, magic_scan(f, ok)
  PROVE  BinaryIsRejected' /\ TextIsAccepted'
<1>1. keys = Magics /\ file' = f /\ (readok' <=> ok)
  BY DEF magic_scan, IInv, TableLoaded, Magics
<1>2. PICK g \in [1..BufLen -> Byte] :
        binary' = (\E k \in keys : Starts(k, Filled(f, ok, g)))
  BY DEF magic_scan
<1>3. CASE ~ok
  BY <1>1, <1>3 DEF BinaryIsRejected, TextIsAccepted
<1>4. CASE ok
  <2>1. binary' <=> \E m \in Magics : Starts(m, Filled(f, TRUE, g))
    <3>1. ok = TRUE
      BY <1>4
    <3> QED
      BY <1>1, <1>2, <3>1
  <2>2. LooksBinary(f) => binary'
    BY <2>1, ReadIsFaithful DEF LooksBinary
  <2>3. (\A m \in Magics : Len(m) <= Len(f)) => (binary' => LooksBinary(f))
    BY <2>1, ReadIsFaithful DEF LooksBinary
  <2> QED
    BY <1>1, <2>2, <2>3 DEF BinaryIsRejected, TextIsAccepted
<1> QED
  BY <1>3, <1>4

(* No file is scanned before the table is in the trie.                     *)
LEMMA Invariance == Spec => []IInv
<1>0. Len(magic_index) \in Nat
  BY MagicAssumption
<1>1. Init => IInv
  BY <1>0 DEF Init, IInv, TableLoaded, BinaryIsRejected, TextIsAccepted
<1>2. IInv /\ [Next]_vars => IInv'
  <2> SUFFICES ASSUME IInv, [Next]_vars PROVE IInv'
    OBVIOUS
  <2>1. CASE magic_init
    <3>1. TableLoaded'
      BY <1>0, <2>1 DEF magic_init, IInv, TableLoaded
    <3> QED
      BY <2>1, <3>1 DEF magic_init, IInv, BinaryIsRejected, TextIsAccepted
  <2>2. CASE InsertEntry
    <3>1. i \in Nat /\ i + 1 \in 0..Len(magic_index) /\ i' = i + 1
      BY <1>0, <2>2 DEF InsertEntry, IInv, TableLoaded
    <3>2. keys' = {magic_index[k] : k \in 1..i + 1}
      BY <2>2, <3>1 DEF InsertEntry, IInv, TableLoaded
    <3>3. TableLoaded'
      BY <2>2, <3>1, <3>2 DEF InsertEntry, TableLoaded
    <3> QED
      BY <2>2, <3>3 DEF InsertEntry, IInv, BinaryIsRejected, TextIsAccepted
  <2>3. ASSUME NEW f \in Files, NEW ok \in BOOLEAN, magic_scan(f, ok) PROVE IInv'
    <3>1. TableLoaded'
      BY <2>3 DEF magic_scan, IInv, TableLoaded
    <3> QED
      BY <2>3, <3>1, ScanJudges DEF IInv
  <2>4. CASE magic_fini
    <3>1. TableLoaded'
      BY <2>4 DEF magic_fini, IInv, TableLoaded
    <3> QED
      BY <2>4, <3>1 DEF magic_fini, IInv, BinaryIsRejected, TextIsAccepted
  <2>5. CASE UNCHANGED vars
    BY <2>5 DEF vars, IInv, TableLoaded, BinaryIsRejected, TextIsAccepted
  <2> QED
    BY <2>1, <2>2, <2>3, <2>4, <2>5 DEF Next, Terminated
<1> QED
  BY <1>1, <1>2, PTL DEF Spec

(* BinaryIsRejected: magic_scan finds every file that starts with an entry *)
(* of the table, whatever the stack held where magic_buf is.               *)
THEOREM BinaryFilesAreRejected == Spec => []BinaryIsRejected
<1>1. IInv => BinaryIsRejected
  BY DEF IInv
<1> QED
  BY <1>1, Invariance, PTL

(* TextIsAccepted: a file at least as long as every entry is judged by its *)
(* own bytes, never by what read() left alone.                             *)
THEOREM LongTextIsAccepted == Spec => []TextIsAccepted
<1>1. IInv => TextIsAccepted
  BY DEF IInv
<1> QED
  BY <1>1, Invariance, PTL

===============================================================================
