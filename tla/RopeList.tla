------------------------------ MODULE RopeList ------------------------------
(***************************************************************************)
(* The rope buffer of src/buffer.c (buf_init, buf_write, buf_dump,         *)
(* buf_destroy) on the intrusive doubly linked list of src/util.h.         *)
(*                                                                         *)
(* Memory is explicit: malloc returns any rope that is not allocated, with *)
(* nothing in it, free() leaves nothing in it, and the loops of buf_dump   *)
(* and buf_destroy go one iteration at a time along the pointers they      *)
(* find.  The list head is part of the caller's buffer, which may be used  *)
(* again after buf_destroy if it is initialised again.  malloc succeeds    *)
(* while a rope is left: the code does not test for NULL.  The fields of a *)
(* rope that nothing reads (left, right, offset) are left out.             *)
(***************************************************************************)
EXTENDS Naturals, Sequences

CONSTANTS
  Rope,     \* addresses of ropes
  Text,     \* contents
  ropelist, \* the address of the list head inside the buffer
  Junk      \* what is read from memory nobody has written

ASSUME RopeAssumption ==
  /\ ropelist \notin Rope
  /\ Junk \notin Rope \cup {ropelist}
  /\ Junk \notin Text

Addr == Rope \cup {ropelist}

(* The kinds of rope (rope.tag) as numbers.                                *)
TAG_DEFAULT == 0
TAG_CONTEXT == 1

VARIABLES
  pc,        \* "none": the buffer is not initialised; else the operation
  next,      \* lh.next of every rope and of the list head
  prev,      \* lh.prev
  pstr,      \* the text of every rope
  tag,       \* its tag
  ropes,     \* the ropes allocated
  strs,      \* the ropes whose copy of the text is allocated
  p,         \* the loops' cursor
  prefetch,  \* the rope behind it in buf_destroy
  out,       \* what the running dump has printed
  shown,     \* history: what the last complete dump printed
  order      \* history: the ropes in the order of their writes

heap == <<next, prev, pstr, tag, ropes, strs>>
vars == <<pc, heap, p, prefetch, out, shown, order>>

Init ==
  /\ pc = "none"
  /\ next = [a \in Addr |-> Junk] /\ prev = [a \in Addr |-> Junk]
  /\ pstr = [r \in Rope |-> Junk] /\ tag = [r \in Rope |-> Junk]
  /\ ropes = {} /\ strs = {}
  /\ p = ropelist /\ prefetch = ropelist
  /\ out = << >> /\ shown = << >> /\ order = << >>

-----------------------------------------------------------------------------
INIT_LIST_HEAD(list) ==
  /\ next' = [next EXCEPT ![list] = list]
  /\ prev' = [prev EXCEPT ![list] = list]

buf_init ==
  /\ pc = "none" /\ pc' = "ready"
  /\ INIT_LIST_HEAD(ropelist)
  /\ UNCHANGED <<pstr, tag, ropes, strs, p, prefetch, out, shown, order>>

(* The four stores of __list_add(newnode, before, after).                  *)
ListAdd(newnode, before, after) ==
  /\ prev' = [prev EXCEPT ![after] = newnode, ![newnode] = before]
  /\ next' = [next EXCEPT ![newnode] = after, ![before] = newnode]

(* Mutant: list_add, at the front.                                         *)
list_add(r) == ListAdd(r, ropelist, next[ropelist])

list_add_tail(r) == ListAdd(r, prev[ropelist], ropelist)

(* strndup copies the text; the tag is that of context.                    *)
rope_setn(r, t) ==
  /\ pstr' = [pstr EXCEPT ![r] = t]
  /\ tag' = [tag EXCEPT ![r] = TAG_CONTEXT]
  /\ strs' = strs \cup {r}

buf_write(t) ==
  /\ pc = "ready"
  /\ \E r \in Rope \ ropes :
       /\ ropes' = ropes \cup {r}
       /\ rope_setn(r, t)
       /\ list_add_tail(r)
       /\ order' = Append(order, r)
  /\ UNCHANGED <<pc, p, prefetch, out, shown>>

-----------------------------------------------------------------------------
(* list_for_each_entry starts at the first rope.                           *)
DumpBegin ==
  /\ pc = "ready" /\ pc' = "dump"
  /\ p' = next[ropelist]
  /\ out' = << >>
  /\ UNCHANGED <<heap, prefetch, shown, order>>

rope_isleaf(r) == tag[r] # TAG_DEFAULT

DumpStep ==
  /\ pc = "dump" /\ p # ropelist
  /\ out' = IF rope_isleaf(p) THEN Append(out, pstr[p]) ELSE out
  /\ p' = next[p]
  /\ UNCHANGED <<pc, heap, prefetch, shown, order>>

DumpEnd ==
  /\ pc = "dump" /\ p = ropelist /\ pc' = "ready"
  /\ shown' = out
  /\ UNCHANGED <<heap, p, prefetch, out, order>>

(* The cursor and its successor are read before anything is freed.         *)
DestroyBegin ==
  /\ pc = "ready" /\ pc' = "destroy"
  /\ p' = next[ropelist]
  /\ prefetch' = next[next[ropelist]]
  /\ UNCHANGED <<heap, out, shown, order>>

FreeRope(r) ==
  /\ next' = [next EXCEPT ![r] = Junk]
  /\ prev' = [prev EXCEPT ![r] = Junk]
  /\ pstr' = [pstr EXCEPT ![r] = Junk]
  /\ tag' = [tag EXCEPT ![r] = Junk]
  /\ ropes' = ropes \ {r}

(* Mutant: the successor is read from the rope that was freed.             *)
DestroyStepReadsFreed ==
  /\ pc = "destroy" /\ p # ropelist
  /\ strs' = strs \ {p}
  /\ FreeRope(p)
  /\ p' = next'[p]
  /\ order' = Tail(order)
  /\ UNCHANGED <<pc, prefetch, out, shown>>

(* Mutant: the text is not freed.                                          *)
DestroyStepKeepsText ==
  /\ pc = "destroy" /\ p # ropelist
  /\ FreeRope(p)
  /\ p' = prefetch
  /\ prefetch' = next'[prefetch]
  /\ order' = Tail(order)
  /\ UNCHANGED <<pc, strs, out, shown>>

(* The text and the rope are freed; the next successor is read from the    *)
(* rope that comes now, or from the list head at the end.                  *)
DestroyStep ==
  /\ pc = "destroy" /\ p # ropelist
  /\ strs' = strs \ {p}
  /\ FreeRope(p)
  /\ p' = prefetch
  /\ prefetch' = next'[prefetch]
  /\ order' = Tail(order)
  /\ UNCHANGED <<pc, out, shown>>

(* The list head keeps pointing to the first and the last rope.            *)
DestroyEnd ==
  /\ pc = "destroy" /\ p = ropelist /\ pc' = "none"
  /\ UNCHANGED <<heap, p, prefetch, out, shown, order>>

Next ==
  \/ buf_init \/ \E t \in Text : buf_write(t)
  \/ DumpBegin \/ DumpStep \/ DumpEnd
  \/ DestroyBegin \/ DestroyStep \/ DestroyEnd

Spec == Init /\ [][Next]_vars

-----------------------------------------------------------------------------
(* Properties.                                                             *)

(* Every variable stays in its type: in particular no pointer the loops    *)
(* follow was read from memory nobody has written.                         *)
TypeOK ==
  /\ pc \in {"none", "ready", "dump", "destroy"}
  /\ next \in [Addr -> Addr \cup {Junk}]
  /\ prev \in [Addr -> Addr \cup {Junk}]
  /\ pstr \in [Rope -> Text \cup {Junk}]
  /\ tag \in [Rope -> {TAG_DEFAULT, TAG_CONTEXT, Junk}]
  /\ ropes \in SUBSET Rope /\ strs \in SUBSET Rope
  /\ p \in Addr /\ prefetch \in Addr
  /\ out \in Seq(Text) /\ shown \in Seq(Text)
  /\ order \in Seq(Rope)

(* The k-th element of the ring: the list head is in front of the first    *)
(* rope and behind the last one.                                           *)
At(k) == IF k \in 1..Len(order) THEN order[k] ELSE ropelist

(* Between the calls the ropes form one ring through the list head, in the *)
(* order of the writes, the same in both directions, and a buffer that is  *)
(* used again starts without a trace of its former ropes.                  *)
RingIntact ==
  pc \in {"ready", "dump"} =>
    \A k \in 0..Len(order) : next[At(k)] = At(k + 1) /\ prev[At(k + 1)] = At(k)

(* The loops only look at ropes that are allocated, and buf_destroy frees  *)
(* no rope and no text twice (buffer.c:105-111).                           *)
NoUseAfterFree ==
  pc \in {"dump", "destroy"} => p = ropelist \/ (p \in ropes /\ p \in strs)

(* After buf_destroy nothing is allocated.                                 *)
DestroyFreesAll == pc = "none" => ropes = {} /\ strs = {}

Log == INSTANCE RopeLog WITH
         opened <- pc \in {"ready", "dump"},
         log <- IF pc \in {"ready", "dump"}
                THEN [k \in 1..Len(order) |-> pstr[order[k]]] ELSE << >>

(* The buffer implements the log of texts: buf_dump prints everything that *)
(* was written since buf_init, in order, and nothing else.                 *)
ImplementsRopeLog == Log!Spec

===============================================================================
