----------------------------- MODULE ThreadPool -----------------------------
(***************************************************************************)
(* The thread pool of snippets/test_worker.c: a slot per worker, loaded by *)
(* thread_add_task under pool_mutex and looked at by its worker whenever a *)
(* wait on cond returns, which may be for another worker's task.           *)
(*                                                                         *)
(* mutex is a flag without owner, as a normal mutex of glibc is: a worker  *)
(* enters its first pthread_cond_wait without having locked it, which the  *)
(* standard leaves undefined, and glibc releases it whoever holds it.  The *)
(* sleeps of main() order nothing.  The argument of every task is NULL and *)
(* is left out.                                                            *)
(***************************************************************************)
EXTENDS Naturals, FiniteSets

CONSTANTS
  Worker,       \* the threads thread_pool_init creates
  MaxTask,      \* bound: calls of thread_add_task; main() makes two
  MaxSpurious,  \* bound: waits that return without a signal
  NoTask,       \* a slot whose routine is NULL
  NoOne,        \* an unlocked pool_mutex
  MainThread    \* main() as the owner of pool_mutex

WORKER_ENABLE == Cardinality(Worker)
Slot == 0..(WORKER_ENABLE - 1)
Task == 1..MaxTask

ASSUME PoolAssumption ==
  /\ IsFiniteSet(Worker)
  /\ MaxTask \in Nat /\ MaxTask >= 2
  /\ MaxSpurious \in Nat
  /\ NoTask \notin Task
  /\ NoOne \notin Worker /\ MainThread \notin Worker /\ NoOne # MainThread

VARIABLES
  mpc,        \* where main() is
  i,          \* the cursor of thread_add_task
  added,      \* calls of thread_add_task so far; the last one is the task
  g_flag,     \* lets simple() return
  tear_down,  \* pool->tear_down
  wpc,        \* where each worker is
  id,         \* each worker's slot
  nthread,    \* the next slot to hand out
  mutex,      \* mutex is locked
  poolmtx,    \* owner of pool_mutex
  routine,    \* pool->tasks[.].routine
  bitmap,     \* pool->bitmap as a set of slots
  spurious,   \* waits that returned without a signal so far
  ran,        \* history: how often each task was run
  seen,       \* history: tasks their worker has seen in its slot
  stolen,     \* history: a first wait has released a locked mutex
  late        \* history: workers that began to wait after the broadcast

mvars == <<mpc, i, added, g_flag, tear_down>>
hist  == <<ran, seen, stolen, late>>
vars  == <<mvars, wpc, id, nthread, mutex, poolmtx, routine, bitmap,
           spurious, hist>>

Init ==
  /\ mpc = "init" /\ i = 0 /\ added = 0
  /\ g_flag = FALSE /\ tear_down = FALSE
  /\ wpc = [w \in Worker |-> "unborn"]
  /\ id = [w \in Worker |-> 0] /\ nthread = 0
  /\ mutex = FALSE /\ poolmtx = NoOne
  /\ routine = [s \in Slot |-> NoTask] /\ bitmap = {}
  /\ spurious = 0
  /\ ran = [t \in Task |-> 0] /\ seen = {} /\ stolen = FALSE /\ late = {}

Waiting == {w \in Worker : wpc[w] = "waiting"}

-----------------------------------------------------------------------------
(* main(): thread_pool_init, any number of thread_add_task from two on,    *)
(* thread_pool_destroy.                                                    *)

MainGoes(from, to) == mpc = from /\ mpc' = to

InitLock ==
  /\ MainGoes("init", "create")
  /\ mutex' = TRUE
  /\ UNCHANGED <<i, added, g_flag, tear_down, wpc, id, nthread, poolmtx,
                 routine, bitmap, spurious, hist>>

CreateWorker(w) ==
  /\ mpc = "create"
  /\ wpc[w] = "unborn"
  /\ wpc' = [wpc EXCEPT ![w] = "born"]
  /\ UNCHANGED <<mvars, id, nthread, mutex, poolmtx, routine, bitmap,
                 spurious, hist>>

InitUnlock ==
  /\ MainGoes("create", "idle")
  /\ \A w \in Worker : wpc[w] # "unborn"
  /\ mutex' = FALSE
  /\ UNCHANGED <<i, added, g_flag, tear_down, wpc, id, nthread, poolmtx,
                 routine, bitmap, spurious, hist>>

AddCall ==
  /\ MainGoes("idle", "lock")
  /\ added < MaxTask
  /\ UNCHANGED <<i, added, g_flag, tear_down, wpc, id, nthread, mutex,
                 poolmtx, routine, bitmap, spurious, hist>>

(* It blocks for ever if an earlier call kept pool_mutex.                  *)
AddLock ==
  /\ MainGoes("lock", "scan")
  /\ poolmtx = NoOne
  /\ poolmtx' = MainThread
  /\ i' = 0 /\ added' = added + 1
  /\ UNCHANGED <<g_flag, tear_down, wpc, id, nthread, mutex, routine,
                 bitmap, spurious, hist>>

(* Mutant: the bit is not tested.                                          *)
AddScanOverwrites ==
  /\ MainGoes("scan", "mark")
  /\ routine' = [routine EXCEPT ![i] = added]
  /\ UNCHANGED <<i, added, g_flag, tear_down, wpc, id, nthread, mutex, poolmtx,
                 bitmap, spurious, hist>>

(* One iteration of the loop: a busy slot is passed over, the first free   *)
(* one is loaded.  Behind the last slot the loop ends without the unlock.  *)
AddScan ==
  /\ mpc = "scan"
  /\ IF i = WORKER_ENABLE THEN mpc' = "signal" /\ UNCHANGED <<i, routine>>
     ELSE IF i \in bitmap THEN i' = i + 1 /\ UNCHANGED <<mpc, routine>>
     ELSE /\ routine' = [routine EXCEPT ![i] = added]
          /\ mpc' = "mark" /\ UNCHANGED i
  /\ UNCHANGED <<added, g_flag, tear_down, wpc, id, nthread, mutex, poolmtx,
                 bitmap, spurious, hist>>

AddMark ==
  /\ MainGoes("mark", "signal")
  /\ bitmap' = bitmap \cup {i}
  /\ poolmtx' = NoOne
  /\ UNCHANGED <<i, added, g_flag, tear_down, wpc, id, nthread, mutex,
                 routine, spurious, hist>>

(* pthread_cond_signal wakes one of the waiting workers, not the one whose *)
(* slot was loaded, and nobody if none is waiting.                         *)
Signal ==
  /\ MainGoes("signal", "idle")
  /\ IF Waiting = {} THEN UNCHANGED wpc
     ELSE \E w \in Waiting : wpc' = [wpc EXCEPT ![w] = "woken"]
  /\ UNCHANGED <<i, added, g_flag, tear_down, id, nthread, mutex, poolmtx,
                 routine, bitmap, spurious, hist>>

RaiseFlag ==
  /\ MainGoes("idle", "destroy")
  /\ added >= 2
  /\ g_flag' = TRUE
  /\ UNCHANGED <<i, added, tear_down, wpc, id, nthread, mutex, poolmtx,
                 routine, bitmap, spurious, hist>>

TearDown ==
  /\ MainGoes("destroy", "broadcast")
  /\ tear_down' = TRUE
  /\ UNCHANGED <<i, added, g_flag, wpc, id, nthread, mutex, poolmtx,
                 routine, bitmap, spurious, hist>>

(* Mutant: a signal instead of the broadcast.                              *)
BroadcastToOne ==
  /\ MainGoes("broadcast", "join")
  /\ IF Waiting = {} THEN UNCHANGED wpc
     ELSE \E w \in Waiting : wpc' = [wpc EXCEPT ![w] = "woken"]
  /\ UNCHANGED <<i, added, g_flag, tear_down, id, nthread, mutex, poolmtx,
                 routine, bitmap, spurious, hist>>

Broadcast ==
  /\ MainGoes("broadcast", "join")
  /\ wpc' = [w \in Worker |-> IF w \in Waiting THEN "woken" ELSE wpc[w]]
  /\ UNCHANGED <<i, added, g_flag, tear_down, id, nthread, mutex, poolmtx,
                 routine, bitmap, spurious, hist>>

(* Mutant: the loop over the joins ends one thread early.                  *)
JoinAllButOne ==
  /\ MainGoes("join", "exit")
  /\ Cardinality({w \in Worker : wpc[w] # "exited"}) <= 1
  /\ UNCHANGED <<i, added, g_flag, tear_down, wpc, id, nthread, mutex,
                 poolmtx, routine, bitmap, spurious, hist>>

(* The joins, after which cond and the mutexes are destroyed.              *)
JoinAll ==
  /\ MainGoes("join", "exit")
  /\ \A w \in Worker : wpc[w] = "exited"
  /\ UNCHANGED <<i, added, g_flag, tear_down, wpc, id, nthread, mutex,
                 poolmtx, routine, bitmap, spurious, hist>>

Main ==
  \/ InitLock \/ InitUnlock \/ \E w \in Worker : CreateWorker(w)
  \/ AddCall \/ AddLock \/ AddScan \/ AddMark \/ Signal
  \/ RaiseFlag \/ TearDown \/ Broadcast \/ JoinAll

-----------------------------------------------------------------------------
(* thread_pool_wrapper.                                                    *)

Goes(w, from, to) == wpc[w] = from /\ wpc' = [wpc EXCEPT ![w] = to]

TakeId(w) ==
  /\ Goes(w, "born", "first")
  /\ id' = [id EXCEPT ![w] = nthread]
  /\ nthread' = nthread + 1
  /\ UNCHANGED <<mvars, mutex, poolmtx, routine, bitmap, spurious, hist>>

(* pthread_cond_wait releases mutex and waits, in one step; in the first   *)
(* call the worker does not hold it.                                       *)
CondWait(w) ==
  /\ \/ Goes(w, "first", "waiting") /\ stolen' = (stolen \/ mutex)
     \/ Goes(w, "wait", "waiting") /\ UNCHANGED stolen
  /\ mutex' = FALSE
  /\ late' = IF mpc = "join" THEN late \cup {w} ELSE late
  /\ UNCHANGED <<mvars, id, nthread, poolmtx, routine, bitmap, spurious,
                 ran, seen>>

SpuriousWakeup(w) ==
  /\ Goes(w, "waiting", "woken")
  /\ spurious < MaxSpurious
  /\ spurious' = spurious + 1
  /\ UNCHANGED <<mvars, id, nthread, mutex, poolmtx, routine, bitmap, hist>>

(* pthread_cond_wait returns once it has mutex again.                      *)
Reacquire(w) ==
  /\ Goes(w, "woken", "tear")
  /\ ~mutex
  /\ mutex' = TRUE
  /\ UNCHANGED <<mvars, id, nthread, poolmtx, routine, bitmap, spurious, hist>>

CheckTearDown(w) ==
  /\ Goes(w, "tear", IF tear_down THEN "exited" ELSE "look")
  /\ mutex' = (mutex /\ ~tear_down)
  /\ UNCHANGED <<mvars, id, nthread, poolmtx, routine, bitmap, spurious, hist>>

(* Mutant: the bit is tested instead of the routine.                       *)
LookAtBitmap(w) ==
  /\ Goes(w, "look", IF id[w] \in bitmap THEN "run" ELSE "wait")
  /\ seen' = seen \cup ({routine[id[w]]} \ {NoTask})
  /\ UNCHANGED <<mvars, id, nthread, mutex, poolmtx, routine, bitmap,
                 spurious, ran, stolen, late>>

(* The slot is read without pool_mutex.                                    *)
Look(w) ==
  /\ Goes(w, "look", IF routine[id[w]] # NoTask THEN "run" ELSE "wait")
  /\ seen' = seen \cup ({routine[id[w]]} \ {NoTask})
  /\ UNCHANGED <<mvars, id, nthread, mutex, poolmtx, routine, bitmap,
                 spurious, ran, stolen, late>>

(* Mutant: mutex is released while the task runs.                          *)
RunTaskUnlocked(w) ==
  /\ Goes(w, "run", "finish")
  /\ g_flag
  /\ ran' = [ran EXCEPT ![routine[id[w]]] = @ + 1]
  /\ mutex' = FALSE
  /\ UNCHANGED <<mvars, id, nthread, poolmtx, routine, bitmap,
                 spurious, seen, stolen, late>>

(* simple() spins until g_flag is set, with mutex held.                    *)
RunTask(w) ==
  /\ Goes(w, "run", "finish")
  /\ g_flag
  /\ ran' = [ran EXCEPT ![routine[id[w]]] = @ + 1]
  /\ UNCHANGED <<mvars, id, nthread, mutex, poolmtx, routine, bitmap,
                 spurious, seen, stolen, late>>

LockPool(w) ==
  /\ Goes(w, "finish", "clear")
  /\ poolmtx = NoOne
  /\ poolmtx' = w
  /\ UNCHANGED <<mvars, id, nthread, mutex, routine, bitmap, spurious, hist>>

(* Mutant: the bit is not reset.                                           *)
ClearRoutineOnly(w) ==
  /\ Goes(w, "clear", "wait")
  /\ routine' = [routine EXCEPT ![id[w]] = NoTask]
  /\ poolmtx' = NoOne
  /\ UNCHANGED <<mvars, id, nthread, mutex, bitmap, spurious, hist>>

ClearSlot(w) ==
  /\ Goes(w, "clear", "wait")
  /\ bitmap' = bitmap \ {id[w]}
  /\ routine' = [routine EXCEPT ![id[w]] = NoTask]
  /\ poolmtx' = NoOne
  /\ UNCHANGED <<mvars, id, nthread, mutex, spurious, hist>>

(* What a worker does by itself, without a wakeup.                         *)
Work(w) ==
  \/ TakeId(w) \/ CondWait(w) \/ Reacquire(w) \/ CheckTearDown(w) \/ Look(w)
  \/ RunTask(w) \/ LockPool(w) \/ ClearSlot(w)

Next == Main \/ \E w \in Worker : Work(w) \/ SpuriousWakeup(w)

(* Every thread that can run is scheduled; main() goes on from its sleeps, *)
(* but need not add a third task, and nothing wakes a waiting thread.      *)
Fairness ==
  /\ WF_vars(Main)
  /\ \A w \in Worker : WF_vars(Work(w))

Spec == Init /\ [][Next]_vars /\ Fairness

-----------------------------------------------------------------------------
(* Properties.                                                             *)

(* Every variable stays in its type: no slot beyond the last is used.      *)
TypeOK ==
  /\ mpc \in {"init", "create", "idle", "lock", "scan", "mark", "signal",
              "destroy", "broadcast", "join", "exit"}
  /\ i \in 0..WORKER_ENABLE /\ added \in 0..MaxTask
  /\ g_flag \in BOOLEAN /\ tear_down \in BOOLEAN
  /\ wpc \in [Worker -> {"unborn", "born", "first", "waiting", "woken", "tear",
                         "look", "run", "finish", "clear", "wait", "exited"}]
  /\ id \in [Worker -> Slot] /\ nthread \in 0..WORKER_ENABLE
  /\ mutex \in BOOLEAN
  /\ poolmtx \in Worker \cup {MainThread, NoOne}
  /\ routine \in [Slot -> Task \cup {NoTask}]
  /\ bitmap \in SUBSET Slot
  /\ spurious \in 0..MaxSpurious
  /\ ran \in [Task -> Nat] /\ seen \in SUBSET Task
  /\ stolen \in BOOLEAN /\ late \in SUBSET Worker

(* A call that finds every slot busy returns with pool_mutex locked        *)
(* (test_worker.c:57 is inside the branch that found one).                 *)
LockKept == mpc \notin {"scan", "mark"} /\ poolmtx = MainThread

(* Whenever nobody is between the two updates of a slot, a bit is set for  *)
(* exactly the slots that hold a task: no slot is lost to the pool, and no *)
(* task is overwritten by the next one (test_worker.c:48-54, 86-90).       *)
SlotsConsistent ==
  poolmtx = NoOne \/ LockKept => bitmap = {s \in Slot : routine[s] # NoTask}

(* A task has been run by a worker that has not reset its slot yet.        *)
BeingReset(t) ==
  \E w \in Worker : wpc[w] \in {"finish", "clear"} /\ routine[id[w]] = t

(* A task is in one place: waiting in one slot or run, once.  Tasks that   *)
(* found every slot busy are neither, and only those.                      *)
TasksConserved ==
  \A t \in 1..added :
    ran[t] + Cardinality({s \in Slot : routine[s] = t /\ ~BeingReset(t)}) =
      IF t > WORKER_ENABLE \/ (t = added /\ mpc = "scan") THEN 0 ELSE 1

(* A task that is still in its slot at the end was never seen there by its *)
(* worker: signals went to the other worker, or to nobody, and the next    *)
(* wakeup was the tear-down.  A worker that sees a task runs it.           *)
DroppedUnseen ==
  mpc = "exit" => \A s \in Slot : routine[s] \notin seen

Inside(w) == wpc[w] \in {"tear", "look", "run", "finish", "clear", "wait"}

(* mutex serialises the workers between two waits, tasks included, unless  *)
(* the first wait of some worker met it locked and released it for whoever *)
(* held it (test_worker.c:73).                                             *)
SerialUnlessStolen ==
  ~stolen => \A v, w \in Worker : Inside(v) /\ Inside(w) => v = w /\ mutex

(* The mutexes are destroyed when no thread is left to use them, and       *)
(* pool_mutex is unlocked unless thread_add_task kept it.                  *)
QuietDestroy ==
  mpc = "exit" => /\ \A w \in Worker : wpc[w] = "exited"
                  /\ ~mutex
                  /\ poolmtx = NoOne \/ LockKept

(* A worker that was busy during the broadcast waits for the next one,     *)
(* which never comes: tear_down is tested behind the wait only.            *)
MissedBroadcast == mpc = "join" /\ \E w \in late : wpc[w] = "waiting"

(* The program ends, unless a worker missed the broadcast or pool_mutex    *)
(* was kept by a call beyond the number of slots: then main() waits in its *)
(* next call or in the join of a worker that wants the lock.               *)
PoolEnds ==
  \/ <>(mpc = "exit")
  \/ <>[]MissedBroadcast
  \/ <>[](LockKept /\ added > WORKER_ENABLE)
===============================================================================
