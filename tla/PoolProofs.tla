------------------------------ MODULE PoolProofs ------------------------------
(***************************************************************************)
(* The safety of the thread pool of snippets/test_worker.c, for every      *)
(* number of workers, of tasks and of spurious wakeups.                    *)
(***************************************************************************)
EXTENDS ThreadPool, TLAPS, FiniteSetTheorems

(* Slots are handed out to the workers in turn.                            *)
Numbered == {w \in Worker : wpc[w] \notin {"unborn", "born"}}
Numbering == nthread = Cardinality(Numbered)

(* pool_mutex is held by who is between its lock and its unlock.           *)
PoolLock ==
  /\ mpc \in {"scan", "mark"} => poolmtx = MainThread
  /\ \A w \in Worker : wpc[w] = "clear" <=> poolmtx = w
  /\ mpc = "lock" => added < MaxTask
  /\ mpc \in {"scan", "mark"} => added >= 1

Loaded == {s \in Slot : routine[s] # NoTask}

(* The bits are those of the loaded slots, but for the slot that           *)
(* thread_add_task is about to mark.                                       *)
Bits ==
  /\ mpc # "mark" => bitmap = Loaded
  /\ mpc = "mark" => i \in Slot /\ Loaded = bitmap \cup {i}

(* mutex is locked for main() or for a worker, and for one only as long as *)
(* no lock was stolen.                                                     *)
MutexLock ==
  /\ mpc = "init" => \A w \in Worker : wpc[w] = "unborn"
  /\ mutex => mpc = "create" \/ \E w \in Worker : Inside(w)
  /\ ~stolen => /\ \A v, w \in Worker : Inside(v) /\ Inside(w) => v = w
                /\ \A w \in Worker : Inside(w) => mutex /\ mpc # "create"
                /\ mpc = "create" => mutex

(* A task has one slot, and one that was seen there has its worker at it.  *)
SeenIsServed ==
  /\ \A t \in seen : t <= added /\ (mpc = "scan" => t # added)
  /\ \A s \in Slot : routine[s] # NoTask =>
       routine[s] <= added /\ (mpc = "scan" => routine[s] # added)
  /\ \A r, s \in Slot : routine[r] = routine[s] => r = s \/ routine[s] = NoTask
  /\ \A s \in Slot : routine[s] \in seen =>
       \E w \in Worker : id[w] = s /\ wpc[w] \in {"run", "finish", "clear"}

AllExited == mpc = "exit" => \A w \in Worker : wpc[w] = "exited"

IInv == /\ TypeOK /\ Numbering /\ PoolLock /\ Bits /\ MutexLock
        /\ SeenIsServed /\ AllExited

-----------------------------------------------------------------------------
(* The number of slots, and the numbering of the workers.                  *)

(* There are as many slots as workers.                                     *)
LEMMA SlotsAreFinite == WORKER_ENABLE \in Nat /\ Slot \subseteq Nat
BY PoolAssumption, FS_CardinalityType DEF WORKER_ENABLE, Slot

(* A worker without a slot finds one left.                                 *)
LEMMA SlotLeft ==
  ASSUME Numbering, NEW w \in Worker, wpc[w] = "born"
  PROVE  nthread \in Slot
<1>1. IsFiniteSet(Worker) /\ Numbered \subseteq Worker \ {w}
  BY PoolAssumption DEF Numbered
<1>2. /\ IsFiniteSet(Worker \ {w}) /\ Cardinality(Worker \ {w}) = Cardinality(Worker) - 1
  BY <1>1, FS_RemoveElement
<1>3. /\ Cardinality(Numbered) <= Cardinality(Worker \ {w})
      /\ Cardinality(Numbered) \in Nat /\ Cardinality(Worker) \in Nat
  BY <1>1, <1>2, FS_Subset, FS_CardinalityType
<1> QED
  BY <1>2, <1>3 DEF Numbering, Slot, WORKER_ENABLE

(* The worker that takes its slot is counted.                              *)
LEMMA TakeIdCounts ==
  ASSUME Numbering, TypeOK, NEW w \in Worker, TakeId(w)
  PROVE  Numbering'
<1>1. IsFiniteSet(Numbered) /\ w \notin Numbered
  BY PoolAssumption, FS_Subset DEF Numbered, TakeId, Goes
<1>2. Numbered' = Numbered \cup {w}
  BY DEF Numbered, TakeId, Goes, TypeOK
<1>3. Cardinality(Numbered') = Cardinality(Numbered) + 1
  BY <1>1, <1>2, FS_AddElement
<1> QED
  BY <1>3 DEF Numbering, TakeId

-----------------------------------------------------------------------------
(* The invariant.                                                          *)

(* The pool starts empty and unlocked.                                     *)
LEMMA InitEstablishes == Init => IInv
<1> SUFFICES ASSUME Init PROVE IInv
  OBVIOUS
<1> USE DEF Init
<1>1. \A w \in Worker : 0 \in Slot
  <2>1. \A w \in Worker : Cardinality(Worker) # 0
    BY PoolAssumption, FS_EmptySet
  <2> QED
    BY <2>1, SlotsAreFinite DEF Slot, WORKER_ENABLE
<1>2. TypeOK
  <2>1. /\ wpc \in [Worker -> {"unborn", "born", "first", "waiting", "woken", "tear",
                               "look", "run", "finish", "clear", "wait", "exited"}]
        /\ id \in [Worker -> Slot]
    BY <1>1
  <2>2. routine \in [Slot -> Task \cup {NoTask}] /\ ran \in [Task -> Nat]
    OBVIOUS
  <2>3. /\ i \in 0..WORKER_ENABLE /\ added \in 0..MaxTask
        /\ nthread \in 0..WORKER_ENABLE /\ spurious \in 0..MaxSpurious
    BY SlotsAreFinite, PoolAssumption
  <2> QED
    BY <2>1, <2>2, <2>3 DEF TypeOK
<1>3. Numbering
  <2>1. Numbered = {}
    BY DEF Numbered
  <2> QED
    BY <2>1, FS_EmptySet DEF Numbering
<1>4. PoolLock /\ Bits /\ SeenIsServed /\ AllExited
  BY PoolAssumption DEF PoolLock, Bits, Loaded, SeenIsServed, AllExited
<1>5. MutexLock
  BY DEF MutexLock, Inside
<1> QED
  BY <1>2, <1>3, <1>4, <1>5 DEF IInv

(* A step of main() keeps the invariant.                                   *)
LEMMA MainPreserves == IInv /\ Main => IInv'
<1> SUFFICES ASSUME IInv, Main PROVE IInv'
  OBVIOUS
<1> USE PoolAssumption, SlotsAreFinite DEF MainGoes, mvars, hist
<1>1. TypeOK'
  <2> USE DEF IInv, TypeOK, Task
  <2>1. CASE InitLock
    BY <2>1 DEF InitLock
  <2>2. CASE InitUnlock
    BY <2>2 DEF InitUnlock
  <2>3. ASSUME NEW w \in Worker, CreateWorker(w) PROVE TypeOK'
    BY <2>3 DEF CreateWorker
  <2>4. CASE AddCall
    BY <2>4 DEF AddCall
  <2>5. CASE AddLock
    BY <2>5 DEF AddLock, PoolLock
  <2>6. CASE AddScan
    <3>1. /\ i \in 0..WORKER_ENABLE => i + 1 \in 0..WORKER_ENABLE \/ i = WORKER_ENABLE
          /\ added \in Task
      BY <2>6 DEF AddScan, PoolLock
    <3> QED
      BY <2>6, <3>1 DEF AddScan
  <2>7. CASE AddMark
    BY <2>7 DEF AddMark, Bits
  <2>8. CASE Signal
    BY <2>8 DEF Signal, Waiting
  <2>9. CASE RaiseFlag
    BY <2>9 DEF RaiseFlag
  <2>10. CASE TearDown
    BY <2>10 DEF TearDown
  <2>11. CASE Broadcast
    BY <2>11 DEF Broadcast, Waiting
  <2>12. CASE JoinAll
    BY <2>12 DEF JoinAll
  <2> QED
    BY <2>1, <2>2, <2>3, <2>4, <2>5, <2>6, <2>7, <2>8, <2>9, <2>10, <2>11, <2>12 DEF Main
<1>2. Numbering'
  <2>1. Numbered' = Numbered /\ nthread' = nthread
    <3> USE DEF IInv, TypeOK, Numbered
    <3>1. CASE InitLock
      BY <3>1 DEF InitLock
    <3>2. CASE InitUnlock
      BY <3>2 DEF InitUnlock
    <3>3. ASSUME NEW w \in Worker, CreateWorker(w)
         PROVE  Numbered' = Numbered /\ nthread' = nthread
      BY <3>3 DEF CreateWorker
    <3>4. CASE AddCall
      BY <3>4 DEF AddCall
    <3>5. CASE AddLock
      BY <3>5 DEF AddLock
    <3>6. CASE AddScan
      BY <3>6 DEF AddScan
    <3>7. CASE AddMark
      BY <3>7 DEF AddMark
    <3>8. CASE Signal
      BY <3>8 DEF Signal, Waiting
    <3>9. CASE RaiseFlag
      BY <3>9 DEF RaiseFlag
    <3>10. CASE TearDown
      BY <3>10 DEF TearDown
    <3>11. CASE Broadcast
      BY <3>11 DEF Broadcast, Waiting
    <3>12. CASE JoinAll
      BY <3>12 DEF JoinAll
    <3> QED
      BY <3>1, <3>2, <3>3, <3>4, <3>5, <3>6, <3>7, <3>8, <3>9, <3>10, <3>11, <3>12 DEF Main
  <2> QED
    BY <2>1 DEF IInv, Numbering
<1>3. PoolLock'
  <2> USE DEF IInv, TypeOK, PoolLock
  <2>1. CASE InitLock
    BY <2>1 DEF InitLock
  <2>2. CASE InitUnlock
    BY <2>2 DEF InitUnlock
  <2>3. ASSUME NEW w \in Worker, CreateWorker(w) PROVE PoolLock'
    BY <2>3 DEF CreateWorker
  <2>4. CASE AddCall
    BY <2>4 DEF AddCall
  <2>5. CASE AddLock
    BY <2>5 DEF AddLock
  <2>6. CASE AddScan
    BY <2>6 DEF AddScan
  <2>7. CASE AddMark
    BY <2>7 DEF AddMark
  <2>8. CASE Signal
    <3>1. \A v \in Worker : \/ wpc'[v] = wpc[v]
                            \/ wpc[v] = "waiting" /\ wpc'[v] = "woken"
      BY <2>8 DEF Signal, Waiting
    <3> QED
      BY <2>8, <3>1 DEF Signal
  <2>9. CASE RaiseFlag
    BY <2>9 DEF RaiseFlag
  <2>10. CASE TearDown
    BY <2>10 DEF TearDown
  <2>11. CASE Broadcast
    <3>1. \A v \in Worker : \/ wpc'[v] = wpc[v]
                            \/ wpc[v] = "waiting" /\ wpc'[v] = "woken"
      BY <2>11 DEF Broadcast, Waiting
    <3> QED
      BY <2>11, <3>1 DEF Broadcast
  <2>12. CASE JoinAll
    BY <2>12 DEF JoinAll
  <2> QED
    BY <2>1, <2>2, <2>3, <2>4, <2>5, <2>6, <2>7, <2>8, <2>9, <2>10, <2>11, <2>12 DEF Main
<1>4. Bits'
  <2> USE DEF IInv, TypeOK, Bits, Loaded
  <2>1. CASE InitLock
    BY <2>1 DEF InitLock
  <2>2. CASE InitUnlock
    BY <2>2 DEF InitUnlock
  <2>3. ASSUME NEW w \in Worker, CreateWorker(w) PROVE Bits'
    BY <2>3 DEF CreateWorker
  <2>4. CASE AddCall
    BY <2>4 DEF AddCall
  <2>5. CASE AddLock
    BY <2>5 DEF AddLock
  <2>6. CASE AddScan
    <3>1. CASE i \in Slot \ bitmap
      <4>1. i # WORKER_ENABLE /\ added # NoTask
        BY <2>6, <3>1 DEF AddScan, Slot, PoolLock, Task
      <4>2. mpc' = "mark" /\ i' = i /\ bitmap' = bitmap /\ bitmap = Loaded
        BY <2>6, <3>1, <4>1 DEF AddScan
      <4>3. \A s \in Slot : routine'[s] = IF s = i THEN added ELSE routine[s]
        BY <2>6, <3>1, <4>1 DEF AddScan
      <4> QED
        BY <3>1, <4>1, <4>2, <4>3
    <3>2. CASE i \notin Slot \ bitmap
      BY <2>6, <3>2 DEF AddScan, Slot
    <3> QED
      BY <3>1, <3>2
  <2>7. CASE AddMark
    BY <2>7 DEF AddMark
  <2>8. CASE Signal
    BY <2>8 DEF Signal, Waiting
  <2>9. CASE RaiseFlag
    BY <2>9 DEF RaiseFlag
  <2>10. CASE TearDown
    BY <2>10 DEF TearDown
  <2>11. CASE Broadcast
    BY <2>11 DEF Broadcast, Waiting
  <2>12. CASE JoinAll
    BY <2>12 DEF JoinAll
  <2> QED
    BY <2>1, <2>2, <2>3, <2>4, <2>5, <2>6, <2>7, <2>8, <2>9, <2>10, <2>11, <2>12 DEF Main
<1>5. MutexLock'
  <2> USE DEF IInv, TypeOK, MutexLock, Inside
  <2>1. CASE InitLock
    BY <2>1 DEF InitLock
  <2>2. CASE InitUnlock
    BY <2>2 DEF InitUnlock
  <2>3. ASSUME NEW w \in Worker, CreateWorker(w) PROVE MutexLock'
    BY <2>3 DEF CreateWorker
  <2>4. CASE AddCall
    BY <2>4 DEF AddCall
  <2>5. CASE AddLock
    BY <2>5 DEF AddLock
  <2>6. CASE AddScan
    BY <2>6 DEF AddScan
  <2>7. CASE AddMark
    BY <2>7 DEF AddMark
  <2>8. CASE Signal
    <3>1. \A v \in Worker : \/ wpc'[v] = wpc[v]
                            \/ wpc[v] = "waiting" /\ wpc'[v] = "woken"
      BY <2>8 DEF Signal, Waiting
    <3> QED
      BY <2>8, <3>1 DEF Signal
  <2>9. CASE RaiseFlag
    BY <2>9 DEF RaiseFlag
  <2>10. CASE TearDown
    BY <2>10 DEF TearDown
  <2>11. CASE Broadcast
    <3>1. \A v \in Worker : \/ wpc'[v] = wpc[v]
                            \/ wpc[v] = "waiting" /\ wpc'[v] = "woken"
      BY <2>11 DEF Broadcast, Waiting
    <3> QED
      BY <2>11, <3>1 DEF Broadcast
  <2>12. CASE JoinAll
    BY <2>12 DEF JoinAll
  <2> QED
    BY <2>1, <2>2, <2>3, <2>4, <2>5, <2>6, <2>7, <2>8, <2>9, <2>10, <2>11, <2>12 DEF Main
<1>6. SeenIsServed'
  <2> USE DEF IInv, TypeOK, SeenIsServed, Task
  <2>1. CASE InitLock
    BY <2>1 DEF InitLock
  <2>2. CASE InitUnlock
    BY <2>2 DEF InitUnlock
  <2>3. ASSUME NEW w \in Worker, CreateWorker(w) PROVE SeenIsServed'
    BY <2>3 DEF CreateWorker
  <2>4. CASE AddCall
    BY <2>4 DEF AddCall
  <2>5. CASE AddLock
    BY <2>5 DEF AddLock
  <2>6. CASE AddScan
    <3>1. /\ mpc = "scan" /\ added \in Task /\ added # NoTask
          /\ UNCHANGED <<added, seen, id, wpc>>
      BY <2>6 DEF AddScan, PoolLock
    <3>2. CASE i \in Slot \ bitmap
      <4>1. i # WORKER_ENABLE
        BY <3>2 DEF Slot
      <4>2. mpc' = "mark" /\ \A s \in Slot : routine'[s] = IF s = i THEN added ELSE routine[s]
        BY <2>6, <3>2, <4>1 DEF AddScan
      <4>3. added \notin seen /\ \A s \in Slot : routine[s] # added
        BY <3>1
      <4>4. \A t \in seen : t <= added
        OBVIOUS
      <4>5. \A s \in Slot : routine'[s] # NoTask => routine'[s] <= added
        BY <3>1, <4>2
      <4>6. \A r, s \in Slot : routine'[r] = routine'[s] => r = s \/ routine'[s] = NoTask
        BY <4>2, <4>3
      <4>7. \A s \in Slot : routine'[s] \in seen =>
              \E v \in Worker : id[v] = s /\ wpc[v] \in {"run", "finish", "clear"}
        BY <4>2, <4>3
      <4> QED
        BY <3>1, <4>2, <4>4, <4>5, <4>6, <4>7
    <3>3. CASE i \notin Slot \ bitmap
      <4>1. routine' = routine /\ mpc' \in {"scan", "signal"}
        BY <2>6, <3>3 DEF AddScan, Slot
      <4> QED
        BY <3>1, <4>1
    <3> QED
      BY <3>2, <3>3
  <2>7. CASE AddMark
    BY <2>7 DEF AddMark
  <2>8. CASE Signal
    <3>1. \A v \in Worker : \/ wpc'[v] = wpc[v]
                            \/ wpc[v] = "waiting" /\ wpc'[v] = "woken"
      BY <2>8 DEF Signal, Waiting
    <3> QED
      BY <2>8, <3>1 DEF Signal
  <2>9. CASE RaiseFlag
    BY <2>9 DEF RaiseFlag
  <2>10. CASE TearDown
    BY <2>10 DEF TearDown
  <2>11. CASE Broadcast
    <3>1. \A v \in Worker : \/ wpc'[v] = wpc[v]
                            \/ wpc[v] = "waiting" /\ wpc'[v] = "woken"
      BY <2>11 DEF Broadcast, Waiting
    <3> QED
      BY <2>11, <3>1 DEF Broadcast
  <2>12. CASE JoinAll
    BY <2>12 DEF JoinAll
  <2> QED
    BY <2>1, <2>2, <2>3, <2>4, <2>5, <2>6, <2>7, <2>8, <2>9, <2>10, <2>11, <2>12 DEF Main
<1>7. AllExited'
  <2> USE DEF IInv, TypeOK, AllExited
  <2>1. CASE InitLock
    BY <2>1 DEF InitLock
  <2>2. CASE InitUnlock
    BY <2>2 DEF InitUnlock
  <2>3. ASSUME NEW w \in Worker, CreateWorker(w) PROVE AllExited'
    BY <2>3 DEF CreateWorker
  <2>4. CASE AddCall
    BY <2>4 DEF AddCall
  <2>5. CASE AddLock
    BY <2>5 DEF AddLock
  <2>6. CASE AddScan
    BY <2>6 DEF AddScan
  <2>7. CASE AddMark
    BY <2>7 DEF AddMark
  <2>8. CASE Signal
    BY <2>8 DEF Signal, Waiting
  <2>9. CASE RaiseFlag
    BY <2>9 DEF RaiseFlag
  <2>10. CASE TearDown
    BY <2>10 DEF TearDown
  <2>11. CASE Broadcast
    BY <2>11 DEF Broadcast, Waiting
  <2>12. CASE JoinAll
    BY <2>12 DEF JoinAll
  <2> QED
    BY <2>1, <2>2, <2>3, <2>4, <2>5, <2>6, <2>7, <2>8, <2>9, <2>10, <2>11, <2>12 DEF Main
<1> QED
  BY <1>1, <1>2, <1>3, <1>4, <1>5, <1>6, <1>7 DEF IInv

(* A step of a worker keeps the invariant.                                 *)
LEMMA WorkPreserves ==
  ASSUME IInv, NEW w \in Worker, Work(w) \/ SpuriousWakeup(w)
  PROVE  IInv'
<1> USE PoolAssumption, SlotsAreFinite DEF Goes, mvars, hist
<1>1. TypeOK'
  <2> USE DEF IInv, TypeOK, Task
  <2>1. CASE TakeId(w)
    <3>1. nthread \in Slot /\ nthread + 1 \in 0..WORKER_ENABLE
      BY <2>1, SlotLeft DEF TakeId, Slot
    <3> QED
      BY <2>1, <3>1 DEF TakeId
  <2>2. CASE CondWait(w)
    BY <2>2 DEF CondWait
  <2>3. CASE Reacquire(w)
    BY <2>3 DEF Reacquire
  <2>4. CASE CheckTearDown(w)
    BY <2>4 DEF CheckTearDown
  <2>5. CASE Look(w)
    BY <2>5 DEF Look
  <2>6. CASE RunTask(w)
    <3> DEFINE t == routine[id[w]]
    <3>1. ran' \in [Task -> Nat]
      <4>1. CASE t \in Task
        <5>1. ran[t] + 1 \in Nat
          BY <4>1
        <5> QED
          BY <2>6, <5>1 DEF RunTask
      <4>2. CASE t \notin Task
        BY <2>6, <4>2 DEF RunTask
      <4> QED
        BY <4>1, <4>2
    <3> QED
      BY <2>6, <3>1 DEF RunTask
  <2>7. CASE LockPool(w)
    BY <2>7 DEF LockPool
  <2>8. CASE ClearSlot(w)
    BY <2>8 DEF ClearSlot
  <2>9. CASE SpuriousWakeup(w)
    BY <2>9 DEF SpuriousWakeup
  <2> QED
    BY <2>1, <2>2, <2>3, <2>4, <2>5, <2>6, <2>7, <2>8, <2>9 DEF Work
<1>2. Numbering'
  <2>1. CASE TakeId(w)
    BY <2>1, TakeIdCounts DEF IInv
  <2>2. CASE ~TakeId(w)
    <3>1. Numbered' = Numbered /\ nthread' = nthread
      <4> USE DEF IInv, TypeOK, Numbered
      <4>1. CASE CondWait(w)
        BY <4>1 DEF CondWait
      <4>2. CASE Reacquire(w)
        BY <4>2 DEF Reacquire
      <4>3. CASE CheckTearDown(w)
        BY <4>3 DEF CheckTearDown
      <4>4. CASE Look(w)
        BY <4>4 DEF Look
      <4>5. CASE RunTask(w)
        BY <4>5 DEF RunTask
      <4>6. CASE LockPool(w)
        BY <4>6 DEF LockPool
      <4>7. CASE ClearSlot(w)
        BY <4>7 DEF ClearSlot
      <4>8. CASE SpuriousWakeup(w)
        BY <4>8 DEF SpuriousWakeup
      <4> QED
        BY <2>2, <4>1, <4>2, <4>3, <4>4, <4>5, <4>6, <4>7, <4>8 DEF Work
    <3> QED
      BY <3>1 DEF IInv, Numbering
  <2> QED
    BY <2>1, <2>2
<1>3. PoolLock'
  <2> USE DEF IInv, TypeOK, PoolLock
  <2>1. CASE TakeId(w)
    BY <2>1 DEF TakeId
  <2>2. CASE CondWait(w)
    BY <2>2 DEF CondWait
  <2>3. CASE Reacquire(w)
    BY <2>3 DEF Reacquire
  <2>4. CASE CheckTearDown(w)
    BY <2>4 DEF CheckTearDown
  <2>5. CASE Look(w)
    BY <2>5 DEF Look
  <2>6. CASE RunTask(w)
    BY <2>6 DEF RunTask
  <2>7. CASE LockPool(w)
    BY <2>7 DEF LockPool
  <2>8. CASE ClearSlot(w)
    BY <2>8 DEF ClearSlot
  <2>9. CASE SpuriousWakeup(w)
    BY <2>9 DEF SpuriousWakeup
  <2> QED
    BY <2>1, <2>2, <2>3, <2>4, <2>5, <2>6, <2>7, <2>8, <2>9 DEF Work
<1>4. Bits'
  <2> USE DEF IInv, TypeOK, Bits, Loaded
  <2>1. CASE TakeId(w)
    BY <2>1 DEF TakeId
  <2>2. CASE CondWait(w)
    BY <2>2 DEF CondWait
  <2>3. CASE Reacquire(w)
    BY <2>3 DEF Reacquire
  <2>4. CASE CheckTearDown(w)
    BY <2>4 DEF CheckTearDown
  <2>5. CASE Look(w)
    BY <2>5 DEF Look
  <2>6. CASE RunTask(w)
    BY <2>6 DEF RunTask
  <2>7. CASE LockPool(w)
    BY <2>7 DEF LockPool
  <2>8. CASE ClearSlot(w)
    <3>1. mpc # "mark" /\ mpc' # "mark"
      BY <2>8 DEF ClearSlot, PoolLock
    <3> QED
      BY <2>8, <3>1 DEF ClearSlot
  <2>9. CASE SpuriousWakeup(w)
    BY <2>9 DEF SpuriousWakeup
  <2> QED
    BY <2>1, <2>2, <2>3, <2>4, <2>5, <2>6, <2>7, <2>8, <2>9 DEF Work
<1>5. MutexLock'
  <2> USE DEF IInv, TypeOK, MutexLock, Inside
  <2>1. CASE TakeId(w)
    BY <2>1 DEF TakeId
  <2>2. CASE CondWait(w)
    BY <2>2 DEF CondWait
  <2>3. CASE Reacquire(w)
    BY <2>3 DEF Reacquire
  <2>4. CASE CheckTearDown(w)
    BY <2>4 DEF CheckTearDown
  <2>5. CASE Look(w)
    BY <2>5 DEF Look
  <2>6. CASE RunTask(w)
    BY <2>6 DEF RunTask
  <2>7. CASE LockPool(w)
    BY <2>7 DEF LockPool
  <2>8. CASE ClearSlot(w)
    BY <2>8 DEF ClearSlot
  <2>9. CASE SpuriousWakeup(w)
    BY <2>9 DEF SpuriousWakeup
  <2> QED
    BY <2>1, <2>2, <2>3, <2>4, <2>5, <2>6, <2>7, <2>8, <2>9 DEF Work
<1>6. SeenIsServed'
  <2> USE DEF IInv, TypeOK, SeenIsServed, Task
  <2>1. CASE TakeId(w)
    BY <2>1 DEF TakeId
  <2>2. CASE CondWait(w)
    BY <2>2 DEF CondWait
  <2>3. CASE Reacquire(w)
    BY <2>3 DEF Reacquire
  <2>4. CASE CheckTearDown(w)
    BY <2>4 DEF CheckTearDown
  <2>5. CASE Look(w)
    <3>1. \A s \in Slot : routine'[s] = routine[s]
      BY <2>5 DEF Look
    <3>2. seen' \subseteq seen \cup {routine[id[w]]} /\ NoTask \notin seen'
      BY <2>5 DEF Look
    <3>3. routine[id[w]] # NoTask => wpc'[w] = "run"
      BY <2>5 DEF Look
    <3>4. ASSUME NEW s \in Slot, routine[s] \in seen'
          PROVE  \E v \in Worker : id[v] = s /\ wpc'[v] \in {"run", "finish", "clear"}
      <4>1. CASE s = id[w]
        BY <4>1, <3>2, <3>3, <3>4
      <4>2. CASE s # id[w]
        <5>1. routine[s] \in seen
          BY <4>2, <3>2, <3>4
        <5>2. PICK v \in Worker : id[v] = s /\ wpc[v] \in {"run", "finish", "clear"}
          BY <5>1
        <5>3. v # w
          BY <4>2, <5>2
        <5> QED
          BY <2>5, <5>2, <5>3 DEF Look
      <4> QED
        BY <4>1, <4>2
    <3>5. ASSUME NEW t \in seen' PROVE t <= added /\ (mpc = "scan" => t # added)
      <4>1. t \in seen \/ (t = routine[id[w]] /\ t # NoTask)
        BY <3>2
      <4>2. id[w] \in Slot
        OBVIOUS
      <4> QED
        BY <4>1, <4>2
    <3> QED
      BY <2>5, <3>1, <3>4, <3>5 DEF Look
  <2>6. CASE RunTask(w)
    BY <2>6 DEF RunTask
  <2>7. CASE LockPool(w)
    BY <2>7 DEF LockPool
  <2>8. CASE ClearSlot(w)
    <3>1. \A s \in Slot : routine'[s] = IF s = id[w] THEN NoTask ELSE routine[s]
      BY <2>8 DEF ClearSlot
    <3>2. NoTask \notin seen /\ seen' = seen /\ id' = id /\ added' = added /\ mpc' = mpc
      BY <2>8 DEF ClearSlot
    <3>3. ASSUME NEW s \in Slot, routine'[s] \in seen
          PROVE  \E v \in Worker : id[v] = s /\ wpc'[v] \in {"run", "finish", "clear"}
      <4>1. s # id[w] /\ routine[s] \in seen
        BY <3>1, <3>2, <3>3
      <4>2. PICK v \in Worker : id[v] = s /\ wpc[v] \in {"run", "finish", "clear"}
        BY <4>1
      <4> QED
        BY <2>8, <4>1, <4>2 DEF ClearSlot
    <3> QED
      BY <3>1, <3>2, <3>3
  <2>9. CASE SpuriousWakeup(w)
    BY <2>9 DEF SpuriousWakeup
  <2> QED
    BY <2>1, <2>2, <2>3, <2>4, <2>5, <2>6, <2>7, <2>8, <2>9 DEF Work
<1>7. AllExited'
  <2> USE DEF IInv, TypeOK, AllExited
  <2>1. CASE TakeId(w)
    BY <2>1 DEF TakeId
  <2>2. CASE CondWait(w)
    BY <2>2 DEF CondWait
  <2>3. CASE Reacquire(w)
    BY <2>3 DEF Reacquire
  <2>4. CASE CheckTearDown(w)
    BY <2>4 DEF CheckTearDown
  <2>5. CASE Look(w)
    BY <2>5 DEF Look
  <2>6. CASE RunTask(w)
    BY <2>6 DEF RunTask
  <2>7. CASE LockPool(w)
    BY <2>7 DEF LockPool
  <2>8. CASE ClearSlot(w)
    BY <2>8 DEF ClearSlot
  <2>9. CASE SpuriousWakeup(w)
    BY <2>9 DEF SpuriousWakeup
  <2> QED
    BY <2>1, <2>2, <2>3, <2>4, <2>5, <2>6, <2>7, <2>8, <2>9 DEF Work
<1> QED
  BY <1>1, <1>2, <1>3, <1>4, <1>5, <1>6, <1>7 DEF IInv

(* A step of the program keeps the invariant.                              *)
LEMMA NextPreserves == IInv /\ [Next]_vars => IInv'
<1> SUFFICES ASSUME IInv, [Next]_vars PROVE IInv'
  OBVIOUS
<1>1. CASE UNCHANGED vars
  BY <1>1 DEF IInv, vars, mvars, hist, TypeOK, Numbering, Numbered, PoolLock, Bits,
              Loaded, MutexLock, Inside, SeenIsServed, AllExited
<1> QED
  BY <1>1, MainPreserves, WorkPreserves DEF Next

(* The invariant holds throughout.                                         *)
LEMMA Invariance == Spec => []IInv
  BY InitEstablishes, NextPreserves, PTL DEF Spec

-----------------------------------------------------------------------------
(* What it implies.                                                        *)

(* TypeOK: thread_pool_wrapper hands out no slot behind the last, and the *)
(* scan of thread_add_task never loads one behind it.                      *)
THEOREM TypeCorrect == Spec => []TypeOK
<1>1. IInv => TypeOK
  BY DEF IInv
<1> QED
  BY <1>1, Invariance, PTL

(* SlotsConsistent: outside the updates the bits are those of the loaded   *)
(* slots, however thread_add_task and the workers interleave.              *)
THEOREM SlotsAreConsistent == Spec => []SlotsConsistent
<1>1. IInv => SlotsConsistent
  BY PoolAssumption DEF IInv, SlotsConsistent, LockKept, PoolLock, Bits, Loaded
<1> QED
  BY <1>1, Invariance, PTL

(* SerialUnlessStolen: two workers are between their waits at once only    *)
(* after a first wait has released a lock it did not hold.                 *)
THEOREM WorkersAreSerial == Spec => []SerialUnlessStolen
<1>1. IInv => SerialUnlessStolen
  BY DEF IInv, SerialUnlessStolen, MutexLock
<1> QED
  BY <1>1, Invariance, PTL

(* DroppedUnseen: a task left in its slot by thread_pool_destroy was never *)
(* seen by its worker.                                                     *)
THEOREM DroppedTasksUnseen == Spec => []DroppedUnseen
<1>1. IInv => DroppedUnseen
  BY DEF IInv, DroppedUnseen, SeenIsServed, AllExited
<1> QED
  BY <1>1, Invariance, PTL

(* QuietDestroy: thread_pool_destroy destroys the mutexes when no thread   *)
(* is left, and unlocked but for a pool_mutex that was kept.               *)
THEOREM DestroyIsQuiet == Spec => []QuietDestroy
<1>1. IInv => QuietDestroy
  <2> SUFFICES ASSUME IInv, mpc = "exit" PROVE QuietDestroy
    BY DEF QuietDestroy
  <2>1. \A w \in Worker : wpc[w] = "exited"
    BY DEF IInv, AllExited
  <2>2. ~mutex
    BY <2>1 DEF IInv, MutexLock, Inside, TypeOK
  <2>3. poolmtx = NoOne \/ LockKept
    BY <2>1 DEF IInv, PoolLock, LockKept, TypeOK
  <2> QED
    BY <2>1, <2>2, <2>3 DEF QuietDestroy
<1> QED
  BY <1>1, Invariance, PTL

-----------------------------------------------------------------------------
(* Where each task is.  Tasks are not run before main() raises g_flag, and *)
(* none is added after that: while it adds, the slots fill up from the     *)
(* first, and afterwards they are only emptied.                            *)

(* No two workers have the same slot.                                      *)
Ids ==
  /\ \A w \in Numbered : id[w] < nthread
  /\ \A v, w \in Numbered : id[v] = id[w] => v = w

(* The tasks for which thread_add_task has looked for a slot.              *)
Placed == IF mpc = "scan" THEN added - 1 ELSE added

Filling ==
  /\ mpc \in {"init", "create", "idle", "lock", "scan", "mark", "signal"} => ~g_flag
  /\ ~g_flag => /\ \A w \in Worker : wpc[w] \notin {"finish", "clear"}
                /\ \A s \in Slot : routine[s] = IF s < Placed THEN s + 1 ELSE NoTask
                /\ \A t \in Task : ran[t] = 0
  /\ mpc = "scan" => i <= Placed

InSlot(t) == \E s \in Slot : routine[s] = t
Refused(t) == t > WORKER_ENABLE \/ (t = added /\ mpc = "scan")

(* A refused task is nowhere, another one waits in its slot or was run.    *)
Whereabouts ==
  \A t \in 1..added :
    \/ Refused(t) /\ ran[t] = 0 /\ ~InSlot(t)
    \/ ~Refused(t) /\ ran[t] = 0 /\ InSlot(t) /\ ~BeingReset(t)
    \/ ~Refused(t) /\ ran[t] = 1 /\ (InSlot(t) => BeingReset(t))

JInv == IInv /\ Ids /\ Filling /\ (g_flag => Whereabouts)

(* main() hands out no slots.                                              *)
LEMMA MainKeepsIds ==
  ASSUME IInv, Ids, Main
  PROVE  Ids'
<1> USE PoolAssumption, SlotsAreFinite DEF MainGoes, mvars, hist, IInv, TypeOK, Ids, Numbered
<1>1. CASE InitLock
  BY <1>1 DEF InitLock
<1>2. CASE InitUnlock
  BY <1>2 DEF InitUnlock
<1>3. ASSUME NEW w \in Worker, CreateWorker(w) PROVE Ids'
  BY <1>3 DEF CreateWorker
<1>4. CASE AddCall
  BY <1>4 DEF AddCall
<1>5. CASE AddLock
  BY <1>5 DEF AddLock
<1>6. CASE AddScan
  BY <1>6 DEF AddScan
<1>7. CASE AddMark
  BY <1>7 DEF AddMark
<1>8. CASE Signal
  BY <1>8 DEF Signal, Waiting
<1>9. CASE RaiseFlag
  BY <1>9 DEF RaiseFlag
<1>10. CASE TearDown
  BY <1>10 DEF TearDown
<1>11. CASE Broadcast
  BY <1>11 DEF Broadcast, Waiting
<1>12. CASE JoinAll
  BY <1>12 DEF JoinAll
<1> QED
  BY <1>1, <1>2, <1>3, <1>4, <1>5, <1>6, <1>7, <1>8, <1>9, <1>10, <1>11, <1>12 DEF Main

(* A worker takes the next slot, which nobody has.                         *)
LEMMA WorkKeepsIds ==
  ASSUME IInv, Ids, NEW w \in Worker, Work(w) \/ SpuriousWakeup(w)
  PROVE  Ids'
<1> USE PoolAssumption, SlotsAreFinite DEF Goes, mvars, hist, IInv, TypeOK, Ids, Numbered
<1>1. CASE TakeId(w)
  <2>1. nthread \in Nat /\ \A v \in Worker : id[v] \in Nat
    BY DEF Slot
  <2>2. /\ Numbered' = Numbered \cup {w} /\ nthread' = nthread + 1
        /\ \A v \in Worker : id'[v] = IF v = w THEN nthread ELSE id[v]
        /\ w \notin Numbered
    BY <1>1 DEF TakeId
  <2> HIDE DEF Numbered
  <2>3. Numbered \subseteq Worker
    BY DEF Numbered
  <2> QED
    BY <2>1, <2>2, <2>3
<1>2. CASE CondWait(w)
  BY <1>2 DEF CondWait
<1>3. CASE Reacquire(w)
  BY <1>3 DEF Reacquire
<1>4. CASE CheckTearDown(w)
  BY <1>4 DEF CheckTearDown
<1>5. CASE Look(w)
  BY <1>5 DEF Look
<1>6. CASE RunTask(w)
  BY <1>6 DEF RunTask
<1>7. CASE LockPool(w)
  BY <1>7 DEF LockPool
<1>8. CASE ClearSlot(w)
  BY <1>8 DEF ClearSlot
<1>9. CASE SpuriousWakeup(w)
  BY <1>9 DEF SpuriousWakeup
<1> QED
  BY <1>1, <1>2, <1>3, <1>4, <1>5, <1>6, <1>7, <1>8, <1>9 DEF Work

(* main() fills the slots from the first on.                               *)
LEMMA MainKeepsFilling ==
  ASSUME IInv, Filling, Main
  PROVE  Filling'
<1> USE PoolAssumption, SlotsAreFinite DEF MainGoes, mvars, hist, IInv, TypeOK, Filling, Placed
<1>1. CASE InitLock
  BY <1>1 DEF InitLock
<1>2. CASE InitUnlock
  BY <1>2 DEF InitUnlock
<1>3. ASSUME NEW w \in Worker, CreateWorker(w) PROVE Filling'
  BY <1>3 DEF CreateWorker
<1>4. CASE AddCall
  BY <1>4 DEF AddCall
<1>5. CASE AddLock
  BY <1>5 DEF AddLock
<1>6. CASE AddScan
  <2>1. /\ mpc = "scan" /\ ~g_flag /\ added \in 1..MaxTask /\ i <= Placed
        /\ Placed = added - 1 /\ i \in 0..WORKER_ENABLE
        /\ UNCHANGED <<added, wpc, g_flag, ran>>
    BY <1>6 DEF AddScan, PoolLock
  <2>2. \A s \in Slot : s \in bitmap <=> s < Placed
    <3>1. \A s \in Slot : s < Placed => s + 1 \in Task
      BY <2>1 DEF Slot, Task
    <3> QED
      BY <2>1, <3>1 DEF Bits, Loaded
  <2>3. CASE i = WORKER_ENABLE
    <3>1. mpc' = "signal" /\ routine' = routine /\ Placed' = added
      BY <1>6, <2>1, <2>3 DEF AddScan
    <3>2. \A s \in Slot : s < Placed /\ s < added
      BY <2>1, <2>3 DEF Slot
    <3> QED
      BY <2>1, <3>1, <3>2
  <2>4. CASE i \in bitmap
    <3>1. i \in Slot /\ i # WORKER_ENABLE
      BY <2>4 DEF Slot
    <3>2. i' = i + 1 /\ mpc' = "scan" /\ routine' = routine /\ Placed' = Placed
      BY <1>6, <2>1, <2>4, <3>1 DEF AddScan
    <3>3. i < Placed
      BY <2>2, <2>4, <3>1
    <3> QED
      BY <2>1, <3>2, <3>3
  <2>5. CASE i \in Slot \ bitmap
    <3>1. i = added - 1
      BY <2>1, <2>2, <2>5
    <3>2. mpc' = "mark" /\ Placed' = added
      BY <1>6, <2>1, <2>5 DEF AddScan, Slot
    <3>3. \A s \in Slot : routine'[s] = IF s = i THEN added ELSE routine[s]
      BY <1>6, <2>5 DEF AddScan, Slot
    <3>4. \A s \in Slot : routine'[s] = IF s < added THEN s + 1 ELSE NoTask
      BY <2>1, <3>1, <3>3
    <3> QED
      BY <2>1, <3>2, <3>4
  <2> QED
    BY <2>1, <2>3, <2>4, <2>5 DEF Slot
<1>7. CASE AddMark
  BY <1>7 DEF AddMark
<1>8. CASE Signal
  <2>1. \A v \in Worker : \/ wpc'[v] = wpc[v]
                          \/ wpc[v] = "waiting" /\ wpc'[v] = "woken"
    BY <1>8 DEF Signal, Waiting
  <2> QED
    BY <1>8, <2>1 DEF Signal
<1>9. CASE RaiseFlag
  BY <1>9 DEF RaiseFlag
<1>10. CASE TearDown
  BY <1>10 DEF TearDown
<1>11. CASE Broadcast
  <2>1. \A v \in Worker : \/ wpc'[v] = wpc[v]
                          \/ wpc[v] = "waiting" /\ wpc'[v] = "woken"
    BY <1>11 DEF Broadcast, Waiting
  <2> QED
    BY <1>11, <2>1 DEF Broadcast
<1>12. CASE JoinAll
  BY <1>12 DEF JoinAll
<1> QED
  BY <1>1, <1>2, <1>3, <1>4, <1>5, <1>6, <1>7, <1>8, <1>9, <1>10, <1>11, <1>12 DEF Main

(* The workers empty no slot before g_flag is raised.                      *)
LEMMA WorkKeepsFilling ==
  ASSUME IInv, Filling, NEW w \in Worker, Work(w) \/ SpuriousWakeup(w)
  PROVE  Filling'
<1> USE PoolAssumption, SlotsAreFinite DEF Goes, mvars, hist, IInv, TypeOK, Filling, Placed
<1>1. CASE TakeId(w)
  BY <1>1 DEF TakeId
<1>2. CASE CondWait(w)
  BY <1>2 DEF CondWait
<1>3. CASE Reacquire(w)
  BY <1>3 DEF Reacquire
<1>4. CASE CheckTearDown(w)
  BY <1>4 DEF CheckTearDown
<1>5. CASE Look(w)
  BY <1>5 DEF Look
<1>6. CASE RunTask(w)
  BY <1>6 DEF RunTask
<1>7. CASE LockPool(w)
  BY <1>7 DEF LockPool
<1>8. CASE ClearSlot(w)
  BY <1>8 DEF ClearSlot
<1>9. CASE SpuriousWakeup(w)
  BY <1>9 DEF SpuriousWakeup
<1> QED
  BY <1>1, <1>2, <1>3, <1>4, <1>5, <1>6, <1>7, <1>8, <1>9 DEF Work

(* While main() adds tasks, each one that found a slot is in the slot of   *)
(* its number.                                                             *)
LEMMA FilledSlots ==
  ASSUME IInv, Filling, ~g_flag
  PROVE  Whereabouts
<1> SUFFICES ASSUME NEW t \in 1..added
             PROVE  \/ Refused(t) /\ ran[t] = 0 /\ ~InSlot(t)
                    \/ ~Refused(t) /\ ran[t] = 0 /\ InSlot(t) /\ ~BeingReset(t)
  BY DEF Whereabouts
<1>1. /\ added \in 0..MaxTask /\ MaxTask \in Nat /\ WORKER_ENABLE \in Nat
      /\ t \in Task /\ t \in Nat /\ t # NoTask /\ t <= added
  BY PoolAssumption, SlotsAreFinite DEF IInv, TypeOK, Task
<1>2. /\ ran[t] = 0
      /\ \A s \in Slot : routine[s] = IF s < Placed THEN s + 1 ELSE NoTask
  BY <1>1 DEF Filling
<1>3. ~BeingReset(t)
  BY DEF Filling, BeingReset
<1>4. CASE Refused(t)
  <2>1. ASSUME NEW s \in Slot, routine[s] = t PROVE FALSE
    <3>1. s < Placed /\ t = s + 1
      BY <1>1, <1>2, <2>1
    <3> QED
      BY <1>1, <1>4, <3>1 DEF Refused, Placed, Slot
  <2> QED
    BY <1>2, <1>4, <2>1 DEF InSlot
<1>5. CASE ~Refused(t)
  <2>1. t - 1 \in Slot /\ t - 1 < Placed /\ (t - 1) + 1 = t
    BY <1>1, <1>5 DEF Refused, Placed, Slot
  <2>2. routine[t - 1] = t
    BY <1>2, <2>1
  <2> QED
    BY <1>2, <1>3, <1>5, <2>1, <2>2 DEF InSlot
<1> QED
  BY <1>4, <1>5

(* A step that neither runs a task nor empties a slot moves no task.       *)
LEMMA TasksStay ==
  ASSUME Whereabouts, UNCHANGED <<routine, ran, id, added>>,
         mpc # "scan", mpc' # "scan",
         \A v \in Worker : wpc'[v] \in {"finish", "clear"} <=> wpc[v] \in {"finish", "clear"}
  PROVE  Whereabouts'
<1>1. \A t : BeingReset(t)' <=> BeingReset(t)
  BY DEF BeingReset
<1>2. \A t : (InSlot(t)' <=> InSlot(t)) /\ (Refused(t)' <=> Refused(t))
  BY DEF InSlot, Refused
<1> QED
  BY <1>1, <1>2 DEF Whereabouts

(* A worker that runs the task of its slot is the only one to do so.       *)
LEMMA RunMovesTask ==
  ASSUME IInv, Ids, Whereabouts, NEW w \in Worker, RunTask(w)
  PROVE  Whereabouts'
<1> DEFINE u == routine[id[w]]
<1>1. /\ wpc[w] = "run" /\ w \in Numbered /\ id[w] \in Slot
      /\ UNCHANGED <<routine, id, added, mpc>>
      /\ \A v \in Worker : wpc'[v] = IF v = w THEN "finish" ELSE wpc[v]
  BY DEF RunTask, Goes, mvars, IInv, TypeOK, Numbered
<1>2. \A t : (InSlot(t)' <=> InSlot(t)) /\ (Refused(t)' <=> Refused(t))
  BY <1>1 DEF InSlot, Refused
<1> SUFFICES ASSUME NEW t \in 1..added
             PROVE  \/ Refused(t) /\ ran'[t] = 0 /\ ~InSlot(t)
                    \/ ~Refused(t) /\ ran'[t] = 0 /\ InSlot(t) /\ ~BeingReset(t)'
                    \/ ~Refused(t) /\ ran'[t] = 1 /\ (InSlot(t) => BeingReset(t)')
  BY <1>1, <1>2 DEF Whereabouts
<1>3. t \in Task /\ t # NoTask
  BY PoolAssumption DEF IInv, TypeOK, Task
<1>4. CASE t # u
  <2>1. BeingReset(t)' <=> BeingReset(t)
    BY <1>1, <1>4 DEF BeingReset
  <2>2. ran'[t] = ran[t]
    BY <1>3, <1>4 DEF RunTask, IInv, TypeOK
  <2> QED
    BY <2>1, <2>2 DEF Whereabouts
<1>5. CASE t = u
  <2>1. InSlot(t) /\ BeingReset(t)'
    BY <1>1, <1>5 DEF InSlot, BeingReset
  <2>2. ~BeingReset(t)
    <3> SUFFICES ASSUME NEW v \in Worker, wpc[v] \in {"finish", "clear"}, routine[id[v]] = t
                 PROVE  FALSE
      BY DEF BeingReset
    <3>1. id[v] \in Slot /\ v \in Numbered
      BY DEF IInv, TypeOK, Numbered
    <3>2. id[v] = id[w]
      BY <1>1, <1>3, <1>5, <3>1 DEF IInv, SeenIsServed
    <3> QED
      BY <1>1, <3>1, <3>2 DEF Ids
  <2>3. ~Refused(t) /\ ran[t] = 0
    BY <2>1, <2>2 DEF Whereabouts
  <2>4. ran'[t] = ran[t] + 1
    BY <1>3, <1>5 DEF RunTask, IInv, TypeOK
  <2> QED
    BY <2>1, <2>3, <2>4
<1> QED
  BY <1>4, <1>5

(* A worker empties its slot after it has run the task.                    *)
LEMMA ClearMovesTask ==
  ASSUME IInv, Ids, Whereabouts, NEW w \in Worker, ClearSlot(w)
  PROVE  Whereabouts'
<1> DEFINE u == routine[id[w]]
<1>1. /\ wpc[w] = "clear" /\ w \in Numbered /\ id[w] \in Slot
      /\ UNCHANGED <<ran, id, added, mpc>>
      /\ \A v \in Worker : wpc'[v] = IF v = w THEN "wait" ELSE wpc[v]
      /\ \A s \in Slot : routine'[s] = IF s = id[w] THEN NoTask ELSE routine[s]
      /\ \A v \in Worker : id[v] \in Slot
  BY DEF ClearSlot, Goes, mvars, hist, IInv, TypeOK, Numbered
<1> SUFFICES ASSUME NEW t \in 1..added
             PROVE  \/ Refused(t) /\ ran[t] = 0 /\ ~InSlot(t)'
                    \/ ~Refused(t) /\ ran[t] = 0 /\ InSlot(t)' /\ ~BeingReset(t)'
                    \/ ~Refused(t) /\ ran[t] = 1 /\ (InSlot(t)' => BeingReset(t)')
  BY <1>1 DEF Whereabouts, Refused
<1>2. t \in Task /\ t # NoTask
  BY PoolAssumption DEF IInv, TypeOK, Task
<1>3. CASE t # u
  <2>1. InSlot(t)' <=> InSlot(t)
    BY <1>1, <1>2, <1>3 DEF InSlot
  <2>2. BeingReset(t)' <=> BeingReset(t)
    <3>1. ASSUME NEW v \in Worker, wpc[v] \in {"finish", "clear"}, routine[id[v]] = t
          PROVE  wpc'[v] \in {"finish", "clear"} /\ routine'[id[v]] = t
      BY <1>1, <1>3, <3>1
    <3>2. ASSUME NEW v \in Worker, wpc'[v] \in {"finish", "clear"}, routine'[id[v]] = t
          PROVE  wpc[v] \in {"finish", "clear"} /\ routine[id[v]] = t
      BY <1>1, <1>2, <3>2
    <3> QED
      BY <1>1, <3>1, <3>2 DEF BeingReset
  <2> QED
    BY <2>1, <2>2 DEF Whereabouts
<1>4. CASE t = u
  <2>1. InSlot(t) /\ BeingReset(t)
    BY <1>1, <1>4 DEF InSlot, BeingReset
  <2>2. ~Refused(t) /\ ran[t] = 1
    BY <2>1 DEF Whereabouts
  <2>3. ~InSlot(t)'
    <3> SUFFICES ASSUME NEW s \in Slot, routine'[s] = t PROVE FALSE
      BY DEF InSlot
    <3>1. s # id[w] /\ routine[s] = t
      BY <1>1, <1>2
    <3> QED
      BY <1>1, <1>2, <1>4, <3>1 DEF IInv, SeenIsServed
  <2> QED
    BY <2>2, <2>3
<1> QED
  BY <1>3, <1>4

(* Every step keeps each task where it is counted.                         *)
LEMMA WhereaboutsNext ==
  ASSUME JInv, [Next]_vars, g_flag'
  PROVE  Whereabouts'
<1>0. IInv /\ Ids /\ Filling
  BY DEF JInv
<1>1. CASE ~g_flag
  <2>1. RaiseFlag
    <3>1. CASE UNCHANGED vars
      BY <1>1, <3>1 DEF vars, mvars
    <3>2. CASE Main
      BY <1>1, <3>2 DEF Main, InitLock, InitUnlock, CreateWorker, AddCall, AddLock,
           AddScan, AddMark, Signal, TearDown, Broadcast, JoinAll, mvars
    <3>3. ASSUME NEW w \in Worker, Work(w) \/ SpuriousWakeup(w) PROVE FALSE
      BY <1>1, <3>3 DEF Work, TakeId, CondWait, Reacquire, CheckTearDown, Look, RunTask,
           LockPool, ClearSlot, SpuriousWakeup, mvars
    <3> QED
      BY <3>1, <3>2, <3>3 DEF Next
  <2>2. Whereabouts
    BY <1>0, <1>1, FilledSlots
  <2> QED
    BY <2>1, <2>2, TasksStay DEF RaiseFlag, MainGoes, hist
<1>2. CASE g_flag
  <2>0. Whereabouts
    BY <1>2 DEF JInv
  <2>1. mpc \in {"destroy", "broadcast", "join", "exit"}
    BY <1>0, <1>2 DEF Filling, IInv, TypeOK
  <2>2. CASE UNCHANGED vars
    BY <2>0, <2>1, <2>2, TasksStay DEF vars, mvars, hist
  <2>3. CASE Main
    <3>1. TearDown \/ Broadcast \/ JoinAll
      BY <2>1, <2>3 DEF Main, InitLock, InitUnlock, CreateWorker, AddCall, AddLock,
           AddScan, AddMark, Signal, RaiseFlag, MainGoes
    <3>2. /\ UNCHANGED <<routine, ran, id, added>> /\ mpc' # "scan"
          /\ \A v \in Worker : wpc'[v] \in {"finish", "clear"} <=> wpc[v] \in {"finish", "clear"}
      BY <3>1 DEF TearDown, Broadcast, JoinAll, MainGoes, Waiting, hist
    <3> QED
      BY <2>0, <2>1, <3>2, TasksStay
  <2>4. ASSUME NEW w \in Worker, Work(w) \/ SpuriousWakeup(w) PROVE Whereabouts'
    <3>1. CASE RunTask(w)
      BY <1>0, <2>0, <3>1, RunMovesTask
    <3>2. CASE ClearSlot(w)
      BY <1>0, <2>0, <3>2, ClearMovesTask
    <3>3. CASE ~RunTask(w) /\ ~ClearSlot(w)
      <4>1. /\ UNCHANGED <<routine, ran, id, added, mpc>> \/ TakeId(w)
            /\ \A v \in Worker : wpc'[v] \in {"finish", "clear"} <=> wpc[v] \in {"finish", "clear"}
        BY <1>0, <2>4, <3>3
           DEF Work, TakeId, CondWait, Reacquire, CheckTearDown, Look, LockPool,
               SpuriousWakeup, Goes, mvars, hist, IInv, TypeOK
      <4>2. CASE ~TakeId(w)
        BY <2>0, <2>1, <4>1, <4>2, TasksStay
      <4>3. CASE TakeId(w)
        <5>1. /\ UNCHANGED <<routine, ran, added, mpc>> /\ wpc[w] = "born"
              /\ \A v \in Worker : v # w => id'[v] = id[v]
          BY <1>0, <4>3 DEF TakeId, Goes, mvars, hist, IInv, TypeOK
        <5>2. \A t : BeingReset(t)' <=> BeingReset(t)
          BY <4>1, <5>1 DEF BeingReset
        <5>3. \A t : (InSlot(t)' <=> InSlot(t)) /\ (Refused(t)' <=> Refused(t))
          BY <5>1 DEF InSlot, Refused
        <5> QED
          BY <2>0, <5>1, <5>2, <5>3 DEF Whereabouts
      <4> QED
        BY <4>2, <4>3
    <3> QED
      BY <3>1, <3>2, <3>3
  <2> QED
    BY <2>2, <2>3, <2>4 DEF Next
<1> QED
  BY <1>1, <1>2 DEF JInv, Filling

(* The invariant of the tasks holds throughout.                            *)
LEMMA TaskInvariance == Spec => []JInv
<1>1. Init => JInv
  <2> SUFFICES ASSUME Init PROVE JInv
    OBVIOUS
  <2>1. IInv
    BY InitEstablishes
  <2>2. Ids
    BY DEF Init, Ids, Numbered
  <2>3. Filling /\ ~g_flag
    BY SlotsAreFinite DEF Init, Filling, Placed
  <2> QED
    BY <2>1, <2>2, <2>3 DEF JInv
<1>2. JInv /\ [Next]_vars => JInv'
  <2> SUFFICES ASSUME JInv, [Next]_vars PROVE JInv'
    OBVIOUS
  <2>1. IInv'
    BY NextPreserves DEF JInv
  <2>2. Ids'
    <3>1. CASE UNCHANGED vars
      BY <3>1 DEF JInv, vars, Ids, Numbered
    <3> QED
      BY <3>1, MainKeepsIds, WorkKeepsIds DEF JInv, Next
  <2>3. Filling'
    <3>1. CASE UNCHANGED vars
      BY <3>1 DEF JInv, vars, mvars, hist, Filling, Placed
    <3> QED
      BY <3>1, MainKeepsFilling, WorkKeepsFilling DEF JInv, Next
  <2> QED
    BY <2>1, <2>2, <2>3, WhereaboutsNext DEF JInv
<1> QED
  BY <1>1, <1>2, PTL DEF Spec

(* TasksConserved: a task that thread_add_task found a slot for waits      *)
(* there or was run, exactly once, whichever workers its signals woke; one *)
(* that found every slot busy is lost.                                     *)
THEOREM TasksAreConserved == Spec => []TasksConserved
<1>1. JInv => TasksConserved
  <2> SUFFICES ASSUME JInv, NEW t \in 1..added
               PROVE  ran[t] + Cardinality({s \in Slot : routine[s] = t /\ ~BeingReset(t)}) =
                        IF Refused(t) THEN 0 ELSE 1
    BY DEF TasksConserved, Refused
  <2> DEFINE S == {s \in Slot : routine[s] = t /\ ~BeingReset(t)}
  <2>1. Whereabouts
    BY FilledSlots DEF JInv
  <2>2. ~InSlot(t) \/ BeingReset(t) => Cardinality(S) = 0
    <3>1. ~InSlot(t) \/ BeingReset(t) => S = {}
      BY DEF InSlot
    <3> QED
      BY <3>1, FS_EmptySet
  <2>3. InSlot(t) /\ ~BeingReset(t) => Cardinality(S) = 1
    <3> SUFFICES ASSUME InSlot(t), ~BeingReset(t) PROVE Cardinality(S) = 1
      OBVIOUS
    <3>1. PICK s \in Slot : routine[s] = t
      BY DEF InSlot
    <3>2. t # NoTask
      BY PoolAssumption DEF JInv, IInv, TypeOK, Task
    <3>3. S = {s}
      BY <3>1, <3>2 DEF JInv, IInv, SeenIsServed
    <3> QED
      BY <3>3, FS_Singleton
  <2> HIDE DEF S
  <2>4. \/ Refused(t) /\ ran[t] = 0 /\ Cardinality(S) = 0
        \/ ~Refused(t) /\ ran[t] = 0 /\ Cardinality(S) = 1
        \/ ~Refused(t) /\ ran[t] = 1 /\ Cardinality(S) = 0
    BY <2>1, <2>2, <2>3 DEF Whereabouts
  <2> QED
    BY <2>4 DEF S
<1> QED
  BY <1>1, TaskInvariance, PTL

===============================================================================
