---------------------------- MODULE SearcherProofs ----------------------------
(***************************************************************************)
(* Safety of the pipeline for any number of workers, any tree, any         *)
(* descriptor limit and any pipe capacity.  In this order: the types; the  *)
(* shutdown and the locks; the records in flight, no two of which have the *)
(* same descriptor or entry; what is printed, one block per file with all  *)
(* of its matches and none of another; the descriptors open() finds; and   *)
(* what became of every file and of every name.  Each part rests on the    *)
(* ones before it.                                                         *)
(***************************************************************************)
EXTENDS Searcher, TLAPS, SequenceTheorems, FiniteSetTheorems

(* Who holds a file holds a descriptor and an entry, not a null value.     *)
HoldersTyped ==
  /\ dpc \in {"open", "scan", "send"} => cur \in Entry
  /\ Sending => dfd \in Fd
  /\ \A w \in Worker : Busy(w) => fi[w] \in Rec

TInv == TypeOK /\ HoldersTyped

Line == [kind : {"name", "body"}, of : Entry, text : Seq(Matches)]

-----------------------------------------------------------------------------
(* Type correctness.                                                       *)

(* The initial state is well typed.                                        *)
LEMMA TypeInit == Init => TInv
<1> SUFFICES ASSUME Init PROVE TInv
  OBVIOUS
<1>1. TypeOK
  <2>1. wpc \in [Worker -> WorkerPc] /\ n \in [Worker -> {"none", "record", "eof", "error"}]
    BY DEF Init, WorkerPc
  <2>2. fi \in [Worker -> Rec \cup {NoRec}] /\ fdtab \in [Fd -> Entry \cup {NoFile}]
    BY DEF Init
  <2>3. buf \in [Worker -> Seq(Matches)] /\ pipe \in Seq(Rec)
    BY DEF Init
  <2>4. out \in Seq(Line)
    BY DEF Init
  <2>5. /\ fate \in [Entry -> {"unseen", "unopened", "nofd", "binary", "queued",
                                "empty", "searched"}]
        /\ found \in [Entry -> Nat]
    BY DEF Init
  <2>6. fts \in BOOLEAN
    BY ConstantsAssumption DEF Init
  <2> QED
    BY <2>1, <2>2, <2>3, <2>4, <2>5, <2>6 DEF Init, TypeOK, Line
<1>2. HoldersTyped
  BY DEF Init, HoldersTyped, Sending, Busy
<1> QED
  BY <1>1, <1>2 DEF TInv

(* Closing the file of a busy worker keeps the table and the records typed.*)
LEMMA TypeClose ==
  ASSUME TInv, NEW w \in Worker, Busy(w), CloseFd(w)
  PROVE  /\ fdtab' \in [Fd -> Entry \cup {NoFile}]
         /\ fi' \in [Worker -> Rec \cup {NoRec}]
         /\ \A v \in Worker \ {w} : fi'[v] = fi[v]
<1>1. fi[w] \in Rec
  BY DEF TInv, HoldersTyped
<1> HIDE DEF Rec
<1> QED
  BY <1>1 DEF TInv, TypeOK, CloseFd

(* A step of the dispatcher keeps the types.                               *)
LEMMA TypeDispatcher == TInv /\ Dispatcher => TInv'
<1> SUFFICES ASSUME TInv, Dispatcher PROVE TInv'
  OBVIOUS
<1> USE ConstantsAssumption
    DEF TInv, TypeOK, HoldersTyped, Sending, Busy, Goto, dvars, wvars, hist
<1>1. ASSUME NEW e \in Entry, NextEntry(e) PROVE TInv'
  BY <1>1 DEF NextEntry
<1>2. CASE OpenFile
  BY <1>2 DEF OpenFile
<1>3. CASE OpenFails
  BY <1>3 DEF OpenFails
<1>4. CASE SkipBinary
  BY <1>4 DEF SkipBinary
<1>5. CASE AcceptText
  BY <1>5 DEF AcceptText
<1>6. CASE SendRecord
  BY <1>6 DEF SendRecord, Rec
<1>7. CASE DispatcherEnd
  BY <1>7 DEF DispatcherEnd
<1>8. CASE OpendirFails
  BY <1>8 DEF OpendirFails
<1> QED
  BY <1>1, <1>2, <1>3, <1>4, <1>5, <1>6, <1>7, <1>8 DEF Dispatcher

(* A step of main() keeps the types.                                       *)
LEMMA TypeMain == TInv /\ Main => TInv'
<1> SUFFICES ASSUME TInv, Main PROVE TInv'
  OBVIOUS
<1> USE DEF TInv, TypeOK, HoldersTyped, Sending, Busy, Goto, Step, WorkerPc,
            dvars, wvars, hist
<1>1. CASE StartDispatcher
  BY <1>1 DEF StartDispatcher
<1>2. ASSUME NEW w \in Worker, StartWorker(w) PROVE TInv'
  BY <1>2 DEF StartWorker
<1>3. CASE JoinAll
  BY <1>3 DEF JoinAll
<1>4. CASE DestroyAndExit
  BY <1>4, ZenonT(60) DEF DestroyAndExit
<1> QED
  BY <1>1, <1>2, <1>3, <1>4 DEF Main

(* A step of a worker keeps the types.                                     *)
LEMMA TypeWorker == ASSUME TInv, NEW w \in Worker, WorkerStep(w) PROVE TInv'
<1> USE DEF TInv, TypeOK, HoldersTyped, Sending, Busy, Step, WorkerPc,
            dvars, wvars, hist
<1>1. CASE WorkerInit(w)
  BY <1>1 DEF WorkerInit
<1>2. CASE LockRead(w)
  BY <1>2 DEF LockRead
<1>3. CASE ReadPipe(w)
  <2>1. CASE /\ pipe # << >>
             /\ fi' = [fi EXCEPT ![w] = Head(pipe)]
             /\ pipe' = Tail(pipe)
             /\ n' = [n EXCEPT ![w] = "record"]
             /\ UNCHANGED intr
    <3>1. Head(pipe) \in Rec /\ Tail(pipe) \in Seq(Rec)
      BY <2>1
    <3> QED
      BY <1>3, <2>1, <3>1 DEF ReadPipe
  <2>2. CASE n' = [n EXCEPT ![w] = "eof"] /\ UNCHANGED <<fi, pipe, intr>>
    BY <1>3, <2>2 DEF ReadPipe
  <2>3. CASE n' = [n EXCEPT ![w] = "error"] /\ intr' = intr + 1 /\ UNCHANGED <<fi, pipe>>
    BY <1>3, <2>3 DEF ReadPipe
  <2> QED
    BY <1>3, <2>1, <2>2, <2>3 DEF ReadPipe
<1>4. CASE UnlockRead(w)
  BY <1>4 DEF UnlockRead
<1>5. CASE MapEmpty(w)
  <2>1. Busy(w) /\ CloseFd(w)
    BY <1>5 DEF MapEmpty
  <2>2. fi[w].name \in Entry
    BY <2>1 DEF Rec
  <2> QED
    BY <1>5, <2>1, <2>2, TypeClose DEF MapEmpty
<1>6. CASE MapDies(w)
  <2>1. Busy(w) /\ CloseFd(w)
    BY <1>6 DEF MapDies
  <2> QED
    BY <1>6, <2>1, TypeClose DEF MapDies
<1>7. CASE MapFile(w)
  BY <1>7 DEF MapFile
<1>8. CASE Match(w)
  <2>1. fi[w].name \in Entry
    BY <1>8 DEF Match, Rec
  <2>2. Append(buf[w], <<fi[w].name, found[fi[w].name] + 1>>) \in Seq(Matches)
    BY <2>1 DEF Matches
  <2> QED
    BY <1>8, <2>1, <2>2, SMTT(30) DEF Match
<1>9. CASE NoMatch(w)
  BY <1>9 DEF NoMatch
<1>10. CASE LockOut(w)
  BY <1>10 DEF LockOut
<1>11. CASE PrintName(w)
  BY <1>11 DEF PrintName, Rec
<1>12. CASE PrintBody(w)
  BY <1>12 DEF PrintBody, Rec
<1>13. CASE UnlockOut(w)
  BY <1>13 DEF UnlockOut
<1>14. CASE ResetUnmap(w)
  <2>1. Busy(w) /\ CloseFd(w)
    BY <1>14 DEF ResetUnmap
  <2>2. fi[w].name \in Entry
    BY <2>1 DEF Rec
  <2> QED
    BY <1>14, <2>1, <2>2, TypeClose DEF ResetUnmap
<1>15. CASE UnmapDies(w)
  BY <1>15 DEF UnmapDies
<1>16. CASE WorkerEnd(w)
  BY <1>16 DEF WorkerEnd
<1> QED
  BY <1>1, <1>2, <1>3, <1>4, <1>5, <1>6, <1>7, <1>8, <1>9, <1>10, <1>11,
     <1>12, <1>13, <1>14, <1>15, <1>16 DEF WorkerStep

(* Every step keeps the types.                                             *)
LEMMA TypeNext == TInv /\ [Next]_vars => TInv'
<1>1. TInv /\ UNCHANGED vars => TInv'
  BY DEF TInv, TypeOK, HoldersTyped, Sending, Busy, vars, dvars, wvars, hist
<1> QED
  BY <1>1, TypeDispatcher, TypeMain, TypeWorker DEF Next, Terminated

(* The type invariant of the pipeline holds for every instance.            *)
THEOREM TypeCorrect == Spec => []TypeOK
<1>1. TInv => TypeOK
  BY DEF TInv
<1> QED
  BY <1>1, TypeInit, TypeNext, PTL DEF Spec

-----------------------------------------------------------------------------
(* The mutexes, the end of the pipe and the shutdown.                      *)

(* A mutex has an owner exactly while that worker is between lock and      *)
(* unlock.                                                                 *)
Locks ==
  \A w \in Worker :
    /\ wpc[w] \in {"read", "unlock"} <=> readmtx = w
    /\ wpc[w] \in {"name", "body", "unlockout"} <=> outmtx = w

(* Only a dispatcher that is done has closed the pipe, and whoever saw end *)
(* of file saw an empty and closed pipe, which stays so.                   *)
EndOfPipe ==
  /\ dpc # "done" => wropen
  /\ \A w \in Worker :
       \/ wpc[w] \in {"finish", "done"}
       \/ wpc[w] = "unlock" /\ n[w] = "eof"
       => pipe = << >> /\ ~wropen

(* main() is past the joins only when every other thread has ended.        *)
Joined ==
  mpc \in {"destroy", "exit"} =>
    dpc \in {"done", "returned"} /\ \A w \in Worker : wpc[w] = "done"

SInv == Locks /\ EndOfPipe /\ Joined

(* The threads are not born yet.                                           *)
LEMMA ShutdownInit == Init => SInv
BY ConstantsAssumption DEF Init, SInv, Locks, EndOfPipe, Joined

(* Each step of each thread keeps SInv.                                    *)
LEMMA ShutdownNext == TInv /\ SInv /\ [Next]_vars => SInv'
<1> SUFFICES ASSUME TInv, SInv, [Next]_vars PROVE SInv'
  OBVIOUS
<1> USE DEF SInv, Locks, EndOfPipe, Joined, Goto, Step, dvars, wvars, hist
<1>1. CASE Dispatcher
  <2>1. ASSUME NEW e \in Entry, NextEntry(e) PROVE SInv'
    BY <2>1 DEF NextEntry
  <2>2. CASE OpenFile
    BY <2>2 DEF OpenFile
  <2>3. CASE OpenFails
    BY <2>3 DEF OpenFails
  <2>4. CASE SkipBinary
    BY <2>4 DEF SkipBinary
  <2>5. CASE AcceptText
    BY <2>5 DEF AcceptText
  <2>6. CASE SendRecord
    BY <2>6 DEF SendRecord
  <2>7. CASE DispatcherEnd
    BY <2>7 DEF DispatcherEnd
  <2>8. CASE OpendirFails
    BY <2>8 DEF OpendirFails
  <2> QED
    BY <1>1, <2>1, <2>2, <2>3, <2>4, <2>5, <2>6, <2>7, <2>8 DEF Dispatcher
<1>2. CASE Main
  <2>1. CASE StartDispatcher
    BY <2>1 DEF StartDispatcher
  <2>2. ASSUME NEW w \in Worker, StartWorker(w) PROVE SInv'
    BY <2>2 DEF StartWorker, TInv, TypeOK
  <2>3. CASE JoinAll
    BY <2>3 DEF JoinAll
  <2>4. CASE DestroyAndExit
    BY <2>4 DEF DestroyAndExit
  <2> QED
    BY <1>2, <2>1, <2>2, <2>3, <2>4 DEF Main
<1>3. ASSUME NEW w \in Worker, WorkerStep(w) PROVE SInv'
  <2> USE ConstantsAssumption DEF TInv, TypeOK
  <2>1. CASE WorkerInit(w)
    BY <2>1 DEF WorkerInit
  <2>2. CASE LockRead(w)
    BY <2>2 DEF LockRead
  <2>3. CASE ReadPipe(w)
    BY <2>3 DEF ReadPipe
  <2>4. CASE UnlockRead(w)
    BY <2>4 DEF UnlockRead
  <2>5. CASE MapEmpty(w)
    BY <2>5 DEF MapEmpty
  <2>6. CASE MapDies(w)
    BY <2>6 DEF MapDies
  <2>7. CASE MapFile(w)
    BY <2>7 DEF MapFile
  <2>8. CASE Match(w)
    BY <2>8 DEF Match
  <2>9. CASE NoMatch(w)
    BY <2>9 DEF NoMatch
  <2>10. CASE LockOut(w)
    BY <2>10 DEF LockOut
  <2>11. CASE PrintName(w)
    BY <2>11 DEF PrintName
  <2>12. CASE PrintBody(w)
    BY <2>12 DEF PrintBody
  <2>13. CASE UnlockOut(w)
    BY <2>13 DEF UnlockOut
  <2>14. CASE ResetUnmap(w)
    BY <2>14 DEF ResetUnmap
  <2>15. CASE UnmapDies(w)
    BY <2>15 DEF UnmapDies
  <2>16. CASE WorkerEnd(w)
    BY <2>16 DEF WorkerEnd
  <2> QED
    BY <1>3, <2>1, <2>2, <2>3, <2>4, <2>5, <2>6, <2>7, <2>8, <2>9, <2>10,
       <2>11, <2>12, <2>13, <2>14, <2>15, <2>16 DEF WorkerStep
<1>4. CASE UNCHANGED vars
  BY <1>4 DEF vars
<1> QED
  BY <1>1, <1>2, <1>3, <1>4 DEF Next, Terminated

(* A worker leaves its loop only when the pipe is empty and closed.        *)
THEOREM NobodyLeavesEarly == Spec => []NoEarlyExit
<1>1. SInv => NoEarlyExit
  BY DEF SInv, EndOfPipe, NoEarlyExit
<1> QED
  BY <1>1, TypeInit, TypeNext, ShutdownInit, ShutdownNext, PTL DEF Spec

(* main() destroys the mutexes only when nobody holds or wants them.       *)
THEOREM ShutdownIsQuiet == Spec => []QuietShutdown
<1>1. TInv /\ SInv => QuietShutdown
  BY DEF TInv, TypeOK, SInv, Locks, Joined, QuietShutdown
<1> QED
  BY <1>1, TypeInit, TypeNext, ShutdownInit, ShutdownNext, PTL DEF Spec

-----------------------------------------------------------------------------
(* Descriptors and names in flight.                                        *)

(* The dispatcher has taken an entry and not sent it yet.                  *)
Taken == dpc \in {"open", "scan", "send"}

(* No entry is in two places: still to be visited, with the dispatcher, in *)
(* the pipe, with a worker.                                                *)
Apart ==
  /\ Taken => cur \notin todo
  /\ \A i \in 1..Len(pipe) : /\ pipe[i].name \notin todo
                             /\ Taken => pipe[i].name # cur
  /\ \A i, j \in 1..Len(pipe) : pipe[i].name = pipe[j].name => i = j
  /\ \A w \in Worker : Busy(w) =>
       /\ fi[w].name \notin todo
       /\ Taken => fi[w].name # cur
       /\ \A i \in 1..Len(pipe) : fi[w].name # pipe[i].name
  /\ \A v, w \in Worker : Busy(v) /\ Busy(w) /\ fi[v].name = fi[w].name => v = w

(* The name of the record that is about to be sent is allocated.           *)
Named == dpc = "send" => cur \in names

RInv == Apart /\ Named /\ RecordsValid /\ NoFdLeak

(* Nothing is in flight at the start.                                      *)
LEMMA RecordsInit == Init => RInv
BY DEF Init, RInv, Apart, Named, RecordsValid, NoFdLeak, Taken, Sending, Busy

(* Every record in flight has a descriptor and a name.                     *)
LEMMA InFlightTyped ==
  ASSUME TInv
  PROVE  /\ Len(pipe) \in Nat
         /\ \A i \in 1..Len(pipe) : pipe[i].fd \in Fd /\ pipe[i].name \in Entry
         /\ \A w \in Worker : Busy(w) => fi[w].fd \in Fd /\ fi[w].name \in Entry
<1>1. pipe \in Seq(Rec)
  BY DEF TInv, TypeOK
<1>2. Len(pipe) \in Nat /\ \A i \in 1..Len(pipe) : pipe[i] \in Rec
  BY <1>1
<1> QED
  BY <1>2 DEF Rec, TInv, HoldersTyped

(* A descriptor is held by the dispatcher, the pipe or a worker.           *)
HeldBy(d) ==
  \/ Sending /\ dfd = d
  \/ \E i \in 1..Len(pipe) : pipe[i].fd = d
  \/ \E w \in Worker : Busy(w) /\ fi[w].fd = d

(* A step that moves no file: the dispatcher's state, the pipe and the     *)
(* descriptors stay, and so do the workers that are busy.                  *)
LEMMA RecordsFrame ==
  ASSUME RInv, UNCHANGED <<dpc, cur, dfd, todo, pipe, fdtab, names>>,
         \A w \in Worker : /\ Busy(w)' <=> Busy(w)
                           /\ Busy(w) => fi'[w] = fi[w]
                           /\ wpc'[w] # "reset" => wpc[w] # "reset"
  PROVE  RInv'
<1> USE DEF RInv, Taken, Sending
<1>1. Apart'
  BY DEF Apart
<1>2. Named'
  BY DEF Named
<1>3. RecordsValid'
  BY DEF RecordsValid
<1>4. NoFdLeak'
  BY DEF NoFdLeak
<1> QED
  BY <1>1, <1>2, <1>3, <1>4

(* A step that closes the file of a busy worker, which then has none: no   *)
(* other holder has that descriptor, since no other has that entry.        *)
LEMMA RecordsClose ==
  ASSUME TInv, RInv, NEW w \in Worker, Busy(w), CloseFd(w), ~Busy(w)',
         \A v \in Worker \ {w} : wpc'[v] = wpc[v] /\ n'[v] = n[v],
         UNCHANGED <<dpc, cur, dfd, todo, pipe, names>>
  PROVE  RInv'
<1> DEFINE d == fi[w].fd
<1>1. d \in Fd /\ fdtab[d] = fi[w].name
  BY DEF TInv, HoldersTyped, RInv, RecordsValid, Rec
<1>2. /\ fdtab' = [fdtab EXCEPT ![d] = NoFile]
      /\ \A v \in Worker \ {w} : fi'[v] = fi[v]
  BY DEF CloseFd, TInv, TypeOK
<1>3. \A v \in Worker \ {w} : Busy(v)' <=> Busy(v)
  BY DEF Busy
<1>4. Sending => dfd # d /\ dfd \in Fd
  BY <1>1 DEF RInv, Apart, RecordsValid, Taken, Sending, TInv, HoldersTyped
<1>5. \A i \in 1..Len(pipe) : pipe[i].fd # d /\ pipe[i].fd \in Fd
  BY <1>1, InFlightTyped DEF RInv, Apart, RecordsValid
<1>6. \A v \in Worker \ {w} : Busy(v) => fi[v].fd # d /\ fi[v].fd \in Fd
  BY <1>1 DEF RInv, Apart, RecordsValid, TInv, HoldersTyped, Rec
<1> HIDE DEF d
<1>7. Apart'
  BY <1>2, <1>3 DEF RInv, Apart, Taken
<1>8. Named'
  BY DEF RInv, Named
<1>9. RecordsValid'
  BY <1>2, <1>3, <1>4, <1>5, <1>6 DEF RInv, RecordsValid, Sending, TInv, TypeOK
<1>10. NoFdLeak'
  <2>1. SUFFICES ASSUME NEW x \in Fd, fdtab'[x] # NoFile PROVE HeldBy(x)'
    BY DEF NoFdLeak, HeldBy
  <2>2. x # d /\ fdtab[x] # NoFile
    BY <1>1, <1>2, <2>1 DEF TInv, TypeOK
  <2>3. HeldBy(x) /\ (Busy(w) => fi[w].fd # x)
    BY <2>2 DEF RInv, NoFdLeak, HeldBy, d
  <2> QED
    BY <1>3, <1>2, <2>3 DEF HeldBy, Sending
<1> QED
  BY <1>7, <1>8, <1>9, <1>10 DEF RInv

(* The dispatcher's steps keep RInv.                                       *)
LEMMA RecordsDispatcher == TInv /\ RInv /\ Dispatcher => RInv'
<1> SUFFICES ASSUME TInv, RInv, Dispatcher PROVE RInv'
  OBVIOUS
<1> USE ConstantsAssumption DEF Taken, Sending, Busy, Goto, dvars, wvars, hist
<1>1. ASSUME NEW e \in Entry, NextEntry(e) PROVE RInv'
  <2>1. Apart'
    BY <1>1 DEF NextEntry, RInv, Apart
  <2>2. Named' /\ RecordsValid' /\ NoFdLeak'
    BY <1>1 DEF NextEntry, RInv, Named, RecordsValid, NoFdLeak
  <2> QED
    BY <2>1, <2>2 DEF RInv
<1>2. CASE OpenFile
  <2>0. PICK d \in Fd : /\ fdtab[d] = NoFile
                        /\ fdtab' = [fdtab EXCEPT ![d] = cur]
                        /\ dfd' = d
    BY <1>2 DEF OpenFile
  <2>1. Apart' /\ Named'
    BY <1>2 DEF OpenFile, RInv, Apart, Named
  <2>2. /\ \A i \in 1..Len(pipe) : pipe[i].fd # d /\ pipe[i].fd \in Fd
        /\ \A w \in Worker : Busy(w) => fi[w].fd # d /\ fi[w].fd \in Fd
    BY <2>0, InFlightTyped DEF RInv, RecordsValid
  <2>3. RecordsValid'
    BY <1>2, <2>0, <2>2 DEF OpenFile, RInv, RecordsValid, TInv, TypeOK
  <2>4. NoFdLeak'
    <3>1. SUFFICES ASSUME NEW x \in Fd, fdtab'[x] # NoFile PROVE HeldBy(x)'
      BY DEF NoFdLeak, HeldBy
    <3>2. CASE x = d
      BY <1>2, <2>0, <3>2 DEF OpenFile, HeldBy
    <3>3. CASE x # d
      <4>1. fdtab[x] # NoFile
        BY <2>0, <3>1, <3>3 DEF TInv, TypeOK
      <4>2. HeldBy(x)
        BY <4>1 DEF RInv, NoFdLeak, HeldBy
      <4> QED
        BY <1>2, <4>2 DEF OpenFile, HeldBy
    <3> QED
      BY <3>2, <3>3
  <2> QED
    BY <2>1, <2>3, <2>4 DEF RInv
<1>3. CASE OpenFails
  BY <1>3 DEF OpenFails, RInv, Apart, Named, RecordsValid, NoFdLeak
<1>4. CASE SkipBinary
  <2>1. Apart' /\ Named'
    BY <1>4 DEF SkipBinary, RInv, Apart, Named
  <2>2. dfd \in Fd /\ fdtab[dfd] = cur
    BY <1>4 DEF SkipBinary, RInv, RecordsValid, TInv, HoldersTyped
  <2>3. /\ \A i \in 1..Len(pipe) : pipe[i].fd # dfd /\ pipe[i].fd \in Fd
        /\ \A w \in Worker : Busy(w) => fi[w].fd # dfd /\ fi[w].fd \in Fd
    BY <1>4, <2>2, InFlightTyped DEF SkipBinary, RInv, Apart, RecordsValid
  <2>4. RecordsValid'
    BY <1>4, <2>3 DEF SkipBinary, RInv, RecordsValid, TInv, TypeOK
  <2>5. NoFdLeak'
    <3>1. SUFFICES ASSUME NEW x \in Fd, fdtab'[x] # NoFile PROVE HeldBy(x)'
      BY DEF NoFdLeak, HeldBy
    <3>2. x # dfd /\ fdtab[x] # NoFile
      BY <1>4, <2>2, <3>1 DEF SkipBinary, TInv, TypeOK
    <3>3. HeldBy(x)
      BY <3>2 DEF RInv, NoFdLeak, HeldBy
    <3> QED
      BY <1>4, <3>2, <3>3 DEF SkipBinary, HeldBy
  <2> QED
    BY <2>1, <2>4, <2>5 DEF RInv
<1>5. CASE AcceptText
  BY <1>5 DEF AcceptText, RInv, Apart, Named, RecordsValid, NoFdLeak
<1>6. CASE SendRecord
  <2> DEFINE r == [fd |-> dfd, name |-> cur]
  <2>0. /\ r \in Rec /\ fdtab[dfd] = cur /\ cur \in names
        /\ pipe' = Append(pipe, r)
    BY <1>6 DEF SendRecord, RInv, Named, RecordsValid, TInv, HoldersTyped, Rec
  <2>1. /\ Len(pipe) \in Nat /\ Len(pipe') = Len(pipe) + 1
        /\ pipe'[Len(pipe) + 1] = r
        /\ \A i \in 1..Len(pipe) : pipe'[i] = pipe[i]
    BY <2>0 DEF TInv, TypeOK
  <2>2. r.fd = dfd /\ r.name = cur
    OBVIOUS
  <2> HIDE DEF r
  <2>3. Apart'
    BY <1>6, <2>1, <2>2 DEF SendRecord, RInv, Apart
  <2>4. RecordsValid'
    BY <1>6, <2>0, <2>1, <2>2 DEF SendRecord, RInv, RecordsValid
  <2>5. NoFdLeak'
    BY <1>6, <2>1, <2>2 DEF SendRecord, RInv, NoFdLeak
  <2>6. Named'
    BY <1>6 DEF SendRecord, Named
  <2> QED
    BY <2>3, <2>4, <2>5, <2>6 DEF RInv
<1>7. CASE DispatcherEnd
  BY <1>7 DEF DispatcherEnd, RInv, Apart, Named, RecordsValid, NoFdLeak
<1>8. CASE OpendirFails
  BY <1>8 DEF OpendirFails, RInv, Apart, Named, RecordsValid, NoFdLeak
<1> QED
  BY <1>1, <1>2, <1>3, <1>4, <1>5, <1>6, <1>7, <1>8 DEF Dispatcher

(* main() moves no file.                                                   *)
LEMMA RecordsMain == TInv /\ RInv /\ Main => RInv'
<1> SUFFICES ASSUME TInv, RInv, Main PROVE RInv'
  OBVIOUS
<1> USE DEF Goto, Step, dvars, wvars, hist
<1>1. CASE StartDispatcher
  BY <1>1 DEF StartDispatcher, RInv, Apart, Named, RecordsValid, NoFdLeak,
              Taken, Sending, Busy
<1>2. ASSUME NEW w \in Worker, StartWorker(w) PROVE RInv'
  BY <1>2, RecordsFrame DEF StartWorker, Busy, TInv, TypeOK
<1>3. CASE JoinAll
  BY <1>3, RecordsFrame DEF JoinAll, Busy
<1>4. CASE DestroyAndExit
  BY <1>4, RecordsFrame DEF DestroyAndExit, Busy
<1> QED
  BY <1>1, <1>2, <1>3, <1>4 DEF Main

(* The workers' steps keep RInv.                                           *)
LEMMA RecordsWorker ==
  ASSUME TInv, RInv, NEW w \in Worker, WorkerStep(w)
  PROVE  RInv'
<1> USE DEF Step, dvars, wvars, hist
<1>1. CASE WorkerInit(w)
  BY <1>1, RecordsFrame DEF WorkerInit, Busy, TInv, TypeOK
<1>2. CASE LockRead(w)
  BY <1>2, RecordsFrame DEF LockRead, Busy, TInv, TypeOK
<1>3. CASE ReadPipe(w)
  <2>1. CASE pipe # << >> /\ fi' = [fi EXCEPT ![w] = Head(pipe)]
             /\ pipe' = Tail(pipe) /\ n' = [n EXCEPT ![w] = "record"]
    <3>1. /\ Len(pipe) \in Nat \ {0} /\ Len(pipe') = Len(pipe) - 1
          /\ \A i \in 1..Len(pipe') : pipe'[i] = pipe[i + 1]
          /\ \A i \in 1..Len(pipe) : i = 1 \/ i - 1 \in 1..Len(pipe')
      BY <2>1 DEF TInv, TypeOK
    <3>2. /\ fi'[w] = pipe[1] /\ Busy(w)' /\ ~Busy(w)
          /\ \A v \in Worker \ {w} : fi'[v] = fi[v] /\ (Busy(v)' <=> Busy(v))
      BY <1>3, <2>1 DEF ReadPipe, Busy, TInv, TypeOK
    <3>3. /\ UNCHANGED <<dpc, cur, dfd, todo, fdtab, names>>
          /\ wpc'[w] = "unlock" /\ \A v \in Worker \ {w} : wpc'[v] = wpc[v]
      BY <1>3 DEF ReadPipe, TInv, TypeOK
    <3>4. Apart'
      <4>1. \A i \in 1..Len(pipe') : i + 1 \in 1..Len(pipe) /\ i + 1 # 1
        BY <3>1
      <4>2. 1 \in 1..Len(pipe)
        BY <3>1
      <4>3. \A i \in 1..Len(pipe') : fi'[w].name # pipe'[i].name
        BY <3>1, <3>2, <4>1, <4>2 DEF RInv, Apart
      <4>4. \A i, j \in 1..Len(pipe') : pipe'[i].name = pipe'[j].name => i = j
        <5>1. SUFFICES ASSUME NEW i \in 1..Len(pipe'), NEW j \in 1..Len(pipe'),
                              pipe[i + 1].name = pipe[j + 1].name
                       PROVE  i = j
          BY <3>1
        <5>2. i + 1 = j + 1
          BY <4>1, <5>1 DEF RInv, Apart
        <5> QED
          BY <5>2
      <4>5. \A i \in 1..Len(pipe') : pipe'[i].name \notin todo /\ (Taken => pipe'[i].name # cur)
        BY <3>1, <4>1 DEF RInv, Apart
      <4>6. \A v \in Worker : Busy(v)' =>
              /\ fi'[v].name \notin todo
              /\ Taken => fi'[v].name # cur
              /\ \A i \in 1..Len(pipe') : fi'[v].name # pipe'[i].name
        <5>1. ASSUME NEW v \in Worker \ {w}, Busy(v), NEW i \in 1..Len(pipe')
              PROVE  fi[v].name # pipe'[i].name
          BY <3>1, <4>1, <5>1 DEF RInv, Apart
        <5> QED
          BY <3>2, <4>2, <4>3, <5>1 DEF RInv, Apart
      <4>7. \A u, v \in Worker : Busy(u)' /\ Busy(v)' /\ fi'[u].name = fi'[v].name => u = v
        <5>1. \A v \in Worker \ {w} : Busy(v) => fi[v].name # pipe[1].name
          BY <4>2 DEF RInv, Apart
        <5> QED
          BY <3>2, <5>1 DEF RInv, Apart
      <4> QED
        BY <3>3, <4>4, <4>5, <4>6, <4>7 DEF RInv, Apart, Taken
    <3>5. RecordsValid'
      <4>1. \A i \in 1..Len(pipe) : /\ fdtab[pipe[i].fd] = pipe[i].name
                                   /\ pipe[i].name \in names
        BY DEF RInv, RecordsValid
      <4>2. Sending' => fdtab'[dfd'] = cur'
        BY <3>3 DEF RInv, RecordsValid, Sending
      <4>3. ASSUME NEW i \in 1..Len(pipe')
            PROVE  fdtab'[pipe'[i].fd] = pipe'[i].name /\ pipe'[i].name \in names'
        <5>1. i + 1 \in 1..Len(pipe) /\ pipe'[i] = pipe[i + 1]
          BY <3>1
        <5> QED
          BY <3>3, <4>1, <5>1
      <4>4. 1 \in 1..Len(pipe)
        BY <3>1
      <4>5. fdtab'[fi'[w].fd] = fi'[w].name /\ fi'[w].name \in names'
        BY <3>2, <3>3, <4>1, <4>4
      <4>6. ASSUME NEW v \in Worker \ {w}, Busy(v)'
            PROVE  /\ fdtab'[fi'[v].fd] = fi'[v].name
                   /\ wpc'[v] # "reset" => fi'[v].name \in names'
        BY <3>2, <3>3, <4>6 DEF RInv, RecordsValid
      <4> QED
        BY <4>2, <4>3, <4>5, <4>6 DEF RecordsValid
    <3>6. NoFdLeak'
      <4>1. SUFFICES ASSUME NEW x \in Fd, fdtab'[x] # NoFile PROVE HeldBy(x)'
        BY DEF NoFdLeak, HeldBy
      <4>2. HeldBy(x)
        BY <3>3, <4>1 DEF RInv, NoFdLeak, HeldBy
      <4>3. CASE \E i \in 1..Len(pipe) : pipe[i].fd = x
        <5>1. PICK i \in 1..Len(pipe) : pipe[i].fd = x
          BY <4>3
        <5>2. CASE i = 1
          BY <3>2, <5>1, <5>2 DEF HeldBy
        <5>3. CASE i # 1
          <6>1. i - 1 \in 1..Len(pipe') /\ pipe'[i - 1] = pipe[(i - 1) + 1] /\ (i - 1) + 1 = i
            BY <3>1, <5>3
          <6> QED
            BY <5>1, <6>1 DEF HeldBy
        <5> QED
          BY <5>2, <5>3
      <4>4. CASE ~ \E i \in 1..Len(pipe) : pipe[i].fd = x
        BY <3>2, <3>3, <4>2, <4>4 DEF HeldBy, Sending
      <4> QED
        BY <4>3, <4>4
    <3>7. Named'
      BY <3>3 DEF RInv, Named
    <3> QED
      BY <3>4, <3>5, <3>6, <3>7 DEF RInv
  <2>2. CASE UNCHANGED <<fi, pipe>> /\ n' = [n EXCEPT ![w] = "eof"]
    BY <1>3, <2>2, RecordsFrame DEF ReadPipe, Busy, TInv, TypeOK
  <2>3. CASE UNCHANGED <<fi, pipe>> /\ n' = [n EXCEPT ![w] = "error"]
    BY <1>3, <2>3, RecordsFrame DEF ReadPipe, Busy, TInv, TypeOK
  <2> QED
    BY <1>3, <2>1, <2>2, <2>3 DEF ReadPipe
<1>4. CASE UnlockRead(w)
  BY <1>4, RecordsFrame DEF UnlockRead, Busy, TInv, TypeOK
<1>5. CASE MapEmpty(w)
  BY <1>5, RecordsClose DEF MapEmpty, Busy, TInv, TypeOK
<1>6. CASE MapDies(w)
  BY <1>6, RecordsClose DEF MapDies, Busy, TInv, TypeOK
<1>7. CASE MapFile(w)
  BY <1>7, RecordsFrame DEF MapFile, Busy, TInv, TypeOK
<1>8. CASE Match(w)
  BY <1>8, RecordsFrame DEF Match, Busy, TInv, TypeOK
<1>9. CASE NoMatch(w)
  BY <1>9, RecordsFrame DEF NoMatch, Busy, TInv, TypeOK
<1>10. CASE LockOut(w)
  BY <1>10, RecordsFrame DEF LockOut, Busy, TInv, TypeOK
<1>11. CASE PrintName(w)
  BY <1>11, RecordsFrame DEF PrintName, Busy, TInv, TypeOK
<1>12. CASE PrintBody(w)
  BY <1>12, RecordsFrame DEF PrintBody, Busy, TInv, TypeOK
<1>13. CASE UnlockOut(w)
  <2>1. /\ UNCHANGED <<dpc, cur, dfd, todo, pipe, fdtab, fi>>
        /\ names' = names \ {fi[w].name} /\ Busy(w) /\ wpc'[w] = "reset"
        /\ \A v \in Worker : Busy(v)' <=> Busy(v)
        /\ \A v \in Worker \ {w} : wpc'[v] = wpc[v]
    BY <1>13 DEF UnlockOut, Busy, TInv, TypeOK
  <2>2. Apart' /\ NoFdLeak'
    BY <2>1 DEF RInv, Apart, NoFdLeak, Taken, Sending
  <2>3. Named'
    BY <2>1 DEF RInv, Apart, Named, Taken
  <2>4. RecordsValid'
    BY <2>1 DEF RInv, Apart, RecordsValid, Sending
  <2> QED
    BY <2>2, <2>3, <2>4 DEF RInv
<1>14. CASE ResetUnmap(w)
  BY <1>14, RecordsClose DEF ResetUnmap, Busy, TInv, TypeOK
<1>15. CASE UnmapDies(w)
  BY <1>15, RecordsFrame DEF UnmapDies, Busy, TInv, TypeOK
<1>16. CASE WorkerEnd(w)
  BY <1>16, RecordsFrame DEF WorkerEnd, Busy, TInv, TypeOK
<1> QED
  BY <1>1, <1>2, <1>3, <1>4, <1>5, <1>6, <1>7, <1>8, <1>9, <1>10, <1>11,
     <1>12, <1>13, <1>14, <1>15, <1>16 DEF WorkerStep

(* Every step keeps RInv.                                                  *)
LEMMA RecordsNext == TInv /\ RInv /\ [Next]_vars => RInv'
<1>1. ASSUME TInv, RInv, UNCHANGED vars PROVE RInv'
  BY <1>1, RecordsFrame DEF vars, dvars, wvars, hist, Busy
<1> QED
  BY <1>1, RecordsDispatcher, RecordsMain, RecordsWorker DEF Next, Terminated

(* A descriptor in flight always refers to the file its record names, for  *)
(* any number of workers and descriptors.                                  *)
THEOREM DescriptorsMatchNames == Spec => []RecordsValid
<1>1. RInv => RecordsValid
  BY DEF RInv
<1> QED
  BY <1>1, TypeInit, TypeNext, RecordsInit, RecordsNext, PTL DEF Spec

(* No path of the dispatcher or of a worker leaks a descriptor.            *)
THEOREM DescriptorsDoNotLeak == Spec => []NoFdLeak
<1>1. RInv => NoFdLeak
  BY DEF RInv
<1> QED
  BY <1>1, TypeInit, TypeNext, RecordsInit, RecordsNext, PTL DEF Spec

-----------------------------------------------------------------------------
(* A report is one block.                                                  *)

(* The worker that is about to print matches printed the name just before. *)
NameJustPrinted ==
  \A w \in Worker : wpc[w] = "body" =>
    /\ Len(out) > 0
    /\ out[Len(out)].kind = "name"
    /\ out[Len(out)].of = fi[w].name

OInv == ReportsNotInterleaved /\ NameJustPrinted

(* Nothing is printed at the start.                                        *)
LEMMA BlockInit == Init => OInv
BY DEF Init, OInv, ReportsNotInterleaved, NameJustPrinted

(* A step that prints nothing, and by which no worker enters or leaves the *)
(* gap between the two calls of fprintf, keeps OInv.                       *)
LEMMA BlockFrame ==
  ASSUME OInv, UNCHANGED out,
         \A w \in Worker : /\ wpc'[w] = "body" <=> wpc[w] = "body"
                           /\ wpc[w] = "body" => fi'[w] = fi[w]
  PROVE  OInv'
BY SMTT(30) DEF OInv, ReportsNotInterleaved, NameJustPrinted

(* Appending one line to the output.                                       *)
LEMMA OutAppend ==
  ASSUME TInv, NEW l, out' = Append(out, l)
  PROVE  /\ Len(out) \in Nat /\ Len(out') = Len(out) + 1
         /\ out'[Len(out) + 1] = l
         /\ \A i \in 1..Len(out) : out'[i] = out[i]
BY DEF TInv, TypeOK

(* Every step keeps the reports whole.                                     *)
LEMMA BlockNext == TInv /\ SInv /\ OInv /\ [Next]_vars => OInv'
<1> SUFFICES ASSUME TInv, SInv, OInv, [Next]_vars PROVE OInv'
  OBVIOUS
<1> USE DEF Goto, Step, dvars, wvars, hist
<1>1. CASE Dispatcher
  BY <1>1, BlockFrame DEF Dispatcher, NextEntry, OpenFile, OpenFails,
     SkipBinary, AcceptText, SendRecord, DispatcherEnd, OpendirFails
<1>2. CASE Main
  BY <1>2, BlockFrame DEF Main, StartDispatcher, StartWorker, JoinAll,
     DestroyAndExit, TInv, TypeOK
<1>3. ASSUME NEW w \in Worker, WorkerStep(w) PROVE OInv'
  <2>1. CASE WorkerInit(w) \/ LockRead(w) \/ UnlockRead(w) \/ MapFile(w)
             \/ Match(w) \/ NoMatch(w) \/ LockOut(w) \/ UnlockOut(w)
             \/ UnmapDies(w) \/ WorkerEnd(w)
    BY <2>1, BlockFrame DEF WorkerInit, LockRead, UnlockRead, MapFile,
       Match, NoMatch, LockOut, UnlockOut, UnmapDies, WorkerEnd, TInv, TypeOK
  <2>2. CASE ReadPipe(w)
    <3>1. UNCHANGED out /\ wpc[w] = "read" /\ wpc' = [wpc EXCEPT ![w] = "unlock"]
      BY <2>2 DEF ReadPipe
    <3>2. \A v \in Worker \ {w} : fi'[v] = fi[v]
      BY <2>2 DEF ReadPipe, TInv, TypeOK
    <3> QED
      BY <3>1, <3>2, BlockFrame DEF TInv, TypeOK
  <2>3. CASE MapEmpty(w) \/ MapDies(w) \/ ResetUnmap(w)
    BY <2>3, BlockFrame DEF MapEmpty, MapDies, ResetUnmap, CloseFd, TInv, TypeOK
  <2>4. CASE PrintName(w)
    <3> DEFINE l == [kind |-> "name", of |-> fi[w].name, text |-> << >>]
    <3>1. /\ out' = Append(out, l) /\ fi' = fi /\ wpc[w] = "name"
          /\ wpc'[w] = IF ListOnly THEN "unlockout" ELSE "body"
          /\ \A v \in Worker \ {w} : wpc'[v] = wpc[v]
      BY <2>4 DEF PrintName, TInv, TypeOK
    <3>2. \A v \in Worker : wpc[v] # "body"
      BY <3>1 DEF SInv, Locks
    <3>3. l.kind = "name" /\ l.of = fi[w].name
      OBVIOUS
    <3> HIDE DEF l
    <3>4. NameJustPrinted'
      BY <3>1, <3>2, <3>3, OutAppend DEF NameJustPrinted
    <3>5. ReportsNotInterleaved'
      BY <3>1, <3>2, <3>3, OutAppend DEF OInv, ReportsNotInterleaved
    <3> QED
      BY <3>4, <3>5 DEF OInv
  <2>5. CASE PrintBody(w)
    <3> DEFINE l == [kind |-> "body", of |-> fi[w].name, text |-> buf[w]]
    <3>1. /\ out' = Append(out, l) /\ fi' = fi /\ wpc[w] = "body"
          /\ wpc'[w] = "unlockout"
          /\ \A v \in Worker \ {w} : wpc'[v] = wpc[v]
      BY <2>5 DEF PrintBody, TInv, TypeOK
    <3>2. \A v \in Worker \ {w} : wpc[v] # "body"
      BY <3>1 DEF SInv, Locks
    <3>3. l.kind = "body" /\ l.of = fi[w].name
      OBVIOUS
    <3> HIDE DEF l
    <3>4. NameJustPrinted'
      BY <3>1, <3>2 DEF NameJustPrinted
    <3>5. ReportsNotInterleaved'
      BY <3>1, <3>2, <3>3, OutAppend
      DEF OInv, NameJustPrinted, ReportsNotInterleaved
    <3> QED
      BY <3>4, <3>5 DEF OInv
  <2> QED
    BY <1>3, <2>1, <2>2, <2>3, <2>4, <2>5 DEF WorkerStep
<1>4. CASE UNCHANGED vars
  BY <1>4, BlockFrame DEF vars
<1> QED
  BY <1>1, <1>2, <1>3, <1>4 DEF Next, Terminated

(* The name of a file is directly followed by its matches, however many    *)
(* workers print.                                                          *)
THEOREM ReportsAreWhole == Spec => []ReportsNotInterleaved
<1>1. OInv => ReportsNotInterleaved
  BY DEF OInv
<1> QED
  BY <1>1, TypeInit, TypeNext, ShutdownInit, ShutdownNext, BlockInit,
     BlockNext, PTL DEF Spec

-----------------------------------------------------------------------------
(* A report holds all the matches of its file and no other.                *)

Report(e) == [k \in 1..found[e] |-> <<e, k>>]

(* Nothing was found yet in a file that no worker has mapped.              *)
Fresh ==
  /\ \A e \in todo : found[e] = 0
  /\ Taken => found[cur] = 0
  /\ \A i \in 1..Len(pipe) : found[pipe[i].name] = 0
  /\ \A w \in Worker : Busy(w) /\ wpc[w] \in {"unlock", "map"} =>
       found[fi[w].name] = 0

(* A worker's buffer is empty between files and holds the report of its    *)
(* file afterwards.                                                        *)
Buffers ==
  \A w \in Worker :
    /\ wpc[w] \in {"lock", "read", "unlock", "map"} => buf[w] = << >>
    /\ wpc[w] \in {"match", "print", "name", "body"} => buf[w] = Report(fi[w].name)

(* No thread can still find a match in e.                                  *)
Settled(e) ==
  /\ e \notin todo
  /\ Taken => e # cur
  /\ \A i \in 1..Len(pipe) : pipe[i].name # e
  /\ \A w \in Worker :
       Busy(w) /\ wpc[w] \notin {"unlockout", "reset"} => fi[w].name # e

BodiesSettled == \A i \in 1..Len(out) : out[i].kind = "body" => Settled(out[i].of)

CInv == Fresh /\ Buffers /\ BodiesSettled /\ ReportComplete

(* Nothing is found, buffered or printed at the start.                     *)
LEMMA ContentInit == Init => CInv
BY DEF Init, CInv, Fresh, Buffers, BodiesSettled, ReportComplete, Taken, Busy

(* A step that finds and prints nothing, and unsettles nothing, keeps what *)
(* was printed complete.                                                   *)
LEMMA PrintedFrame ==
  ASSUME CInv, UNCHANGED <<out, found>>, \A e : Settled(e) => Settled(e)'
  PROVE  BodiesSettled' /\ ReportComplete'
BY DEF CInv, BodiesSettled, ReportComplete

(* The dispatcher's steps keep CInv.                                       *)
LEMMA ContentDispatcher == TInv /\ CInv /\ Dispatcher => CInv'
<1> SUFFICES ASSUME TInv, CInv, Dispatcher PROVE CInv'
  OBVIOUS
<1> USE DEF Goto, Busy, Taken, dvars, wvars, hist
<1>1. UNCHANGED <<out, found, wpc, fi, n, buf>>
  BY DEF Dispatcher, NextEntry, OpenFile, OpenFails, SkipBinary, AcceptText,
         SendRecord, DispatcherEnd, OpendirFails
<1>2. Buffers'
  BY <1>1 DEF CInv, Buffers, Report
<1>3. ASSUME NEW e \in Entry, NextEntry(e)
      PROVE  Fresh' /\ \A x : Settled(x) => Settled(x)'
  BY <1>3 DEF NextEntry, CInv, Fresh, Settled
<1>4. CASE SendRecord
  <2>1. /\ Len(pipe) \in Nat /\ Len(pipe') = Len(pipe) + 1
        /\ pipe'[Len(pipe) + 1].name = cur
        /\ \A i \in 1..Len(pipe) : pipe'[i] = pipe[i]
    BY <1>4 DEF SendRecord, TInv, TypeOK
  <2>2. Fresh'
    BY <1>4, <2>1 DEF SendRecord, CInv, Fresh
  <2>3. \A x : Settled(x) => Settled(x)'
    BY <1>4, <2>1 DEF SendRecord, Settled
  <2> QED
    BY <1>1, <1>2, <2>2, <2>3, PrintedFrame DEF CInv
<1>5. CASE \/ OpendirFails \/ OpenFile \/ OpenFails
           \/ SkipBinary \/ AcceptText \/ DispatcherEnd
  <2>1. Fresh' /\ \A x : Settled(x) => Settled(x)'
    BY <1>5 DEF OpendirFails, OpenFile, OpenFails, SkipBinary, AcceptText, DispatcherEnd,
       CInv, Fresh, Settled
  <2> QED
    BY <1>1, <1>2, <2>1, PrintedFrame DEF CInv
<1> QED
  BY <1>1, <1>2, <1>3, <1>4, <1>5, PrintedFrame DEF CInv, Dispatcher

(* main() changes neither files nor buffers.                               *)
LEMMA ContentMain == TInv /\ CInv /\ Main => CInv'
<1> SUFFICES ASSUME TInv, CInv, Main PROVE CInv'
  OBVIOUS
<1> USE DEF Goto, Step, Busy, Taken, dvars, wvars, hist
<1>1. UNCHANGED <<out, found, fi, n, buf, todo, cur, pipe>>
  BY DEF Main, StartDispatcher, StartWorker, JoinAll, DestroyAndExit
<1>2. \A w \in Worker : wpc'[w] = wpc[w] \/ (wpc[w] = "unborn" /\ wpc'[w] = "born")
  BY DEF Main, StartDispatcher, StartWorker, JoinAll, DestroyAndExit, TInv, TypeOK
<1>3. Taken' = Taken
  BY DEF Main, StartDispatcher, StartWorker, JoinAll, DestroyAndExit
<1>4. Buffers'
  BY <1>1, <1>2 DEF CInv, Buffers, Report
<1>5. Fresh' /\ \A x : Settled(x) => Settled(x)'
  BY <1>1, <1>2, <1>3 DEF CInv, Fresh, Settled
<1> QED
  BY <1>1, <1>4, <1>5, PrintedFrame DEF CInv

(* A step of worker w that touches no file but its own and finds nothing.  *)
LEMMA ContentFrame ==
  ASSUME TInv, CInv, NEW w \in Worker,
         UNCHANGED <<out, found, todo, dpc, cur, pipe>>,
         \A v \in Worker \ {w} : /\ wpc'[v] = wpc[v] /\ n'[v] = n[v]
                                 /\ fi'[v] = fi[v] /\ buf'[v] = buf[v],
         Busy(w)' => Busy(w) /\ fi'[w] = fi[w],
         wpc[w] \in {"unlockout", "reset"} => wpc'[w] \in {"unlockout", "reset", "lock"},
         Busy(w)' /\ wpc'[w] \in {"unlock", "map"} => wpc[w] \in {"unlock", "map"},
         wpc'[w] \in {"lock", "read", "unlock", "map"} => buf'[w] = << >>,
         wpc'[w] \in {"match", "print", "name", "body"} => buf'[w] = Report(fi[w].name)
  PROVE  CInv'
<1>1. \A v \in Worker \ {w} : Busy(v)' <=> Busy(v)
  BY DEF Busy
<1>2. Fresh'
  BY <1>1 DEF CInv, Fresh, Taken
<1>3. Buffers'
  <2>1. \A x : Report(x)' = Report(x)
    BY DEF Report
  <2>2. wpc'[w] \in {"match", "print", "name", "body"} => fi'[w] = fi[w]
    BY DEF Busy
  <2>3. \A v \in Worker \ {w} :
          /\ wpc'[v] \in {"lock", "read", "unlock", "map"} => buf'[v] = << >>
          /\ wpc'[v] \in {"match", "print", "name", "body"} => buf'[v] = Report(fi'[v].name)
    BY DEF CInv, Buffers
  <2> HIDE DEF Report
  <2> QED
    BY <2>1, <2>2, <2>3 DEF Buffers
<1>4. \A x : Settled(x) => Settled(x)'
  BY <1>1 DEF Settled, Taken, Busy
<1> QED
  BY <1>2, <1>3, <1>4, PrintedFrame DEF CInv

(* Match number m+1 appended to a report of m matches makes the report of  *)
(* m+1 matches.                                                            *)
LEMMA ReportGrows ==
  ASSUME NEW e \in Entry, NEW m \in Nat
  PROVE  Append([k \in 1..m |-> <<e, k>>], <<e, m + 1>>) = [k \in 1..(m + 1) |-> <<e, k>>]
<1> DEFINE old == [k \in 1..m |-> <<e, k>>]
           new == [k \in 1..(m + 1) |-> <<e, k>>]
           x == <<e, m + 1>>
           app == Append(old, x)
<1>1. /\ old \in Seq(Matches) /\ Len(old) = m
      /\ new \in Seq(Matches) /\ Len(new) = m + 1
      /\ x \in Matches
  BY DEF Matches
<1>2. (\A k \in 1..m : old[k] = new[k]) /\ new[m + 1] = x
  OBVIOUS
<1> HIDE DEF old, new, x
<1>3. /\ app \in Seq(Matches) /\ Len(app) = m + 1
      /\ \A k \in 1..m : app[k] = old[k]
      /\ app[m + 1] = x
  BY <1>1, AppendProperties
<1> HIDE DEF app
<1>4. \A k \in 1..Len(app) : app[k] = new[k]
  BY <1>2, <1>3
<1>5. app = new
  BY <1>1, <1>3, <1>4, SeqEqual
<1> QED
  BY <1>5 DEF app, old, new, x

(* The workers' steps keep CInv.                                           *)
LEMMA ContentWorker ==
  ASSUME TInv, SInv, RInv, CInv, NEW w \in Worker, WorkerStep(w)
  PROVE  CInv'
<1> USE DEF Step, dvars, wvars, hist
<1>0. /\ wpc[w] \in {"lock", "read", "unlock", "map"} => buf[w] = << >>
      /\ wpc[w] \in {"match", "print", "name", "body"} => buf[w] = Report(fi[w].name)
  BY DEF CInv, Buffers
<1>1. CASE WorkerInit(w) \/ LockRead(w) \/ UnlockRead(w)
  <2>1. CASE WorkerInit(w)
    BY <1>0, <2>1, ContentFrame DEF WorkerInit, Busy, TInv, TypeOK
  <2>2. CASE LockRead(w)
    BY <1>0, <2>2, ContentFrame DEF LockRead, Busy, TInv, TypeOK
  <2>3. CASE UnlockRead(w)
    BY <1>0, <2>3, ContentFrame DEF UnlockRead, Busy, TInv, TypeOK
  <2> QED
    BY <1>1, <2>1, <2>2, <2>3
<1>2. CASE NoMatch(w) \/ LockOut(w) \/ UnlockOut(w) \/ UnmapDies(w) \/ WorkerEnd(w)
  <2>1. CASE NoMatch(w)
    BY <1>0, <2>1, ContentFrame DEF NoMatch, Busy, TInv, TypeOK
  <2>2. CASE LockOut(w)
    BY <1>0, <2>2, ContentFrame DEF LockOut, Busy, TInv, TypeOK
  <2>3. CASE UnlockOut(w)
    BY <1>0, <2>3, ContentFrame DEF UnlockOut, Busy, TInv, TypeOK
  <2>4. CASE UnmapDies(w)
    BY <1>0, <2>4, ContentFrame DEF UnmapDies, Busy, TInv, TypeOK
  <2>5. CASE WorkerEnd(w)
    BY <1>0, <2>5, ContentFrame DEF WorkerEnd, Busy, TInv, TypeOK
  <2> QED
    BY <1>2, <2>1, <2>2, <2>3, <2>4, <2>5
<1>3. CASE MapEmpty(w) \/ MapDies(w) \/ ResetUnmap(w)
  <2>1. CASE MapEmpty(w)
    BY <1>0, <2>1, ContentFrame DEF MapEmpty, CloseFd, Busy, TInv, TypeOK
  <2>2. CASE MapDies(w)
    BY <1>0, <2>2, ContentFrame DEF MapDies, CloseFd, Busy, TInv, TypeOK
  <2>3. CASE ResetUnmap(w)
    BY <1>0, <2>3, ContentFrame DEF ResetUnmap, CloseFd, Busy, TInv, TypeOK
  <2> QED
    BY <1>3, <2>1, <2>2, <2>3
<1>4. CASE MapFile(w)
  <2>1. found[fi[w].name] = 0
    BY <1>4 DEF MapFile, CInv, Fresh, Busy
  <2>2. buf[w] = Report(fi[w].name)
    BY <1>0, <1>4, <2>1 DEF MapFile, Report
  <2> QED
    BY <1>4, <2>2, ContentFrame DEF MapFile, Busy, TInv, TypeOK
<1>5. CASE ReadPipe(w)
  <2>1. CASE pipe # << >> /\ fi' = [fi EXCEPT ![w] = Head(pipe)]
             /\ pipe' = Tail(pipe) /\ n' = [n EXCEPT ![w] = "record"]
    <3>1. /\ 1 \in 1..Len(pipe)
          /\ \A i \in 1..Len(pipe') : i + 1 \in 1..Len(pipe) /\ pipe'[i] = pipe[i + 1]
      BY <2>1 DEF TInv, TypeOK
    <3>2. /\ fi'[w] = pipe[1] /\ wpc'[w] = "unlock" /\ wpc[w] = "read"
          /\ \A v \in Worker \ {w} : fi'[v] = fi[v] /\ wpc'[v] = wpc[v] /\ (Busy(v)' <=> Busy(v))
          /\ UNCHANGED <<dpc, todo, cur, out, found, buf>>
      BY <1>5, <2>1 DEF ReadPipe, Busy, TInv, TypeOK
    <3>3. Fresh'
      BY <3>1, <3>2 DEF CInv, Fresh, Taken
    <3>4. Buffers'
      BY <1>0, <3>2 DEF CInv, Buffers, Report
    <3>5. \A x : Settled(x) => Settled(x)'
      BY <3>1, <3>2 DEF Settled, Taken
    <3> QED
      BY <3>2, <3>3, <3>4, <3>5, PrintedFrame DEF CInv
  <2>2. CASE UNCHANGED <<fi, pipe>> /\ n' = [n EXCEPT ![w] = "eof"]
    BY <1>0, <1>5, <2>2, ContentFrame DEF ReadPipe, Busy, TInv, TypeOK
  <2>3. CASE UNCHANGED <<fi, pipe>> /\ n' = [n EXCEPT ![w] = "error"]
    BY <1>0, <1>5, <2>3, ContentFrame DEF ReadPipe, Busy, TInv, TypeOK
  <2> QED
    BY <1>5, <2>1, <2>2, <2>3 DEF ReadPipe
<1>6. CASE Match(w)
  <2> DEFINE e == fi[w].name
  <2>1. /\ e \in Entry /\ Busy(w) /\ wpc[w] = "match" /\ found[e] \in Nat
        /\ found' = [found EXCEPT ![e] = @ + 1]
        /\ buf' = [buf EXCEPT ![w] = Append(@, <<e, found[e] + 1>>)]
        /\ wpc' = wpc /\ UNCHANGED <<dpc, todo, cur, pipe, out, fi, n>>
    BY <1>6, InFlightTyped DEF Match, Busy, TInv, TypeOK
  <2>2. found'[e] = found[e] + 1 /\ \A x \in Entry \ {e} : found'[x] = found[x]
    BY <2>1 DEF TInv, TypeOK
  <2>3. \A v \in Worker : Busy(v)' <=> Busy(v)
    BY <2>1 DEF Busy
  <2>4. \A v \in Worker \ {w} : Busy(v) => fi[v].name \in Entry \ {e}
    BY <2>1, InFlightTyped DEF RInv, Apart
  <2>5. buf'[w] = Report(e)'
    <3>1. buf[w] = [k \in 1..found[e] |-> <<e, k>>]
      BY <1>0, <2>1 DEF Report
    <3>2. buf'[w] = Append(buf[w], <<e, found[e] + 1>>)
      BY <2>1 DEF TInv, TypeOK
    <3>3. buf'[w] = [k \in 1..(found[e] + 1) |-> <<e, k>>]
      BY <2>1, <3>1, <3>2, ReportGrows
    <3> QED
      BY <2>1, <2>2, <3>3 DEF Report
  <2>6. Fresh'
    <3>1. /\ \A x \in todo : x \in Entry \ {e}
          /\ Taken => cur \in Entry \ {e}
          /\ \A i \in 1..Len(pipe) : pipe[i].name \in Entry \ {e}
      BY <2>1, InFlightTyped DEF RInv, Apart, TInv, TypeOK, HoldersTyped, Taken
    <3> QED
      BY <2>1, <2>2, <2>3, <2>4, <3>1 DEF CInv, Fresh, Taken
  <2>7. Buffers'
    <3>1. ASSUME NEW v \in Worker \ {w}
          PROVE  /\ buf'[v] = buf[v]
                 /\ wpc[v] \in {"match", "print", "name", "body"} =>
                      Report(fi[v].name)' = Report(fi[v].name)
      <4>1. buf'[v] = buf[v]
        BY <2>1 DEF TInv, TypeOK
      <4>2. CASE wpc[v] \in {"match", "print", "name", "body"}
        BY <2>1, <2>2, <2>4, <4>1, <4>2 DEF Report, Busy
      <4> QED
        BY <4>1, <4>2
    <3> QED
      BY <2>1, <2>5, <3>1 DEF CInv, Buffers
  <2>8. \A x : Settled(x) => Settled(x)'
    BY <2>1, <2>3 DEF Settled, Taken
  <2>9. ASSUME NEW i \in 1..Len(out), out[i].kind = "body"
        PROVE  out[i].of \in Entry \ {e}
    <3>1. out[i].of \in Entry
      <4>1. out \in Seq(Line)
        BY DEF TInv, TypeOK, Line
      <4>2. out[i] \in Line
        BY <4>1
      <4> QED
        BY <4>2 DEF Line
    <3> QED
      BY <2>1, <2>9, <3>1 DEF CInv, BodiesSettled, Settled
  <2>10. BodiesSettled' /\ ReportComplete'
    BY <2>1, <2>2, <2>8, <2>9 DEF CInv, BodiesSettled, ReportComplete
  <2> QED
    BY <2>6, <2>7, <2>10 DEF CInv
<1>7. CASE PrintName(w)
  <2> DEFINE l == [kind |-> "name", of |-> fi[w].name, text |-> << >>]
  <2>1. /\ out' = Append(out, l) /\ wpc[w] = "name" /\ wpc'[w] \in {"unlockout", "body"}
        /\ \A v \in Worker \ {w} : wpc'[v] = wpc[v]
        /\ UNCHANGED <<found, todo, dpc, cur, pipe, fi, n, buf>>
    BY <1>7 DEF PrintName, TInv, TypeOK
  <2>2. l.kind # "body"
    OBVIOUS
  <2> HIDE DEF l
  <2>3. Fresh' /\ Buffers' /\ \A x : Settled(x) => Settled(x)'
    BY <1>0, <2>1 DEF CInv, Fresh, Buffers, Report, Settled, Taken, Busy
  <2>4. BodiesSettled' /\ ReportComplete'
    BY <2>1, <2>2, <2>3, OutAppend DEF CInv, BodiesSettled, ReportComplete
  <2> QED
    BY <2>3, <2>4 DEF CInv
<1>8. CASE PrintBody(w)
  <2> DEFINE l == [kind |-> "body", of |-> fi[w].name, text |-> buf[w]]
  <2>1. /\ out' = Append(out, l) /\ wpc[w] = "body" /\ wpc'[w] = "unlockout"
        /\ \A v \in Worker \ {w} : wpc'[v] = wpc[v]
        /\ UNCHANGED <<found, todo, dpc, cur, pipe, fi, n, buf>>
    BY <1>8 DEF PrintBody, TInv, TypeOK
  <2>2. l.of = fi[w].name /\ l.text = buf[w]
    OBVIOUS
  <2> HIDE DEF l
  <2>3. Fresh' /\ Buffers' /\ \A x : Settled(x) => Settled(x)'
    BY <1>0, <2>1 DEF CInv, Fresh, Buffers, Report, Settled, Taken, Busy
  <2>4. Settled(fi[w].name)'
    BY <2>1 DEF RInv, Apart, Settled, Taken, Busy
  <2>5. buf[w] = Report(fi[w].name)
    BY <1>0, <2>1
  <2>6. BodiesSettled' /\ ReportComplete'
    <3>1. BodiesSettled'
      BY <2>1, <2>2, <2>3, <2>4, OutAppend DEF CInv, BodiesSettled
    <3>2. \A x : Report(x)' = Report(x)
      BY <2>1 DEF Report
    <3>3. \A i \in 1..Len(out) : out[i].kind = "body" => out[i].text = Report(out[i].of)
      BY DEF CInv, ReportComplete, Report
    <3>4. \A i \in 1..Len(out') : out'[i].kind = "body" => out'[i].text = Report(out'[i].of)
      <4>1. ASSUME NEW i \in 1..Len(out'), out'[i].kind = "body"
            PROVE  out'[i].text = Report(out'[i].of)
        <5>1. CASE i \in 1..Len(out)
          BY <2>1, <3>3, <4>1, <5>1, OutAppend
        <5>2. CASE i = Len(out) + 1
          BY <2>1, <2>2, <2>5, <5>2, OutAppend
        <5> QED
          BY <2>1, <5>1, <5>2, OutAppend
      <4> QED
        BY <4>1
    <3>5. ReportComplete'
      BY <3>2, <3>4 DEF ReportComplete, Report
    <3> QED
      BY <3>1, <3>5
  <2> QED
    BY <2>3, <2>6 DEF CInv
<1> QED
  BY <1>1, <1>2, <1>3, <1>4, <1>5, <1>6, <1>7, <1>8 DEF WorkerStep

(* Every step keeps CInv.                                                  *)
LEMMA ContentNext == TInv /\ SInv /\ RInv /\ CInv /\ [Next]_vars => CInv'
<1>1. CInv /\ UNCHANGED vars => CInv'
  BY DEF CInv, Fresh, Buffers, BodiesSettled, ReportComplete, Settled, Report,
         Taken, Busy, vars, dvars, wvars, hist
<1> QED
  BY <1>1, ContentDispatcher, ContentMain, ContentWorker DEF Next, Terminated

(* The matches printed under a file's name are exactly those found in it,  *)
(* for any number of workers and files.                                    *)
THEOREM ReportsAreComplete == Spec => []ReportComplete
<1>1. CInv => ReportComplete
  BY DEF CInv
<1> QED
  BY <1>1, TypeInit, TypeNext, ShutdownInit, ShutdownNext, RecordsInit,
     RecordsNext, ContentInit, ContentNext, PTL DEF Spec

-----------------------------------------------------------------------------
(* Descriptors.                                                            *)

CapInv == Len(pipe) <= PipeCap /\ DescriptorsSuffice

(* The descriptors of the records in the pipe are no more than the         *)
(* records.                                                                *)
LEMMA QueuedFds ==
  ASSUME TInv
  PROVE  LET Q == {pipe[i].fd : i \in 1..Len(pipe)}
         IN  IsFiniteSet(Q) /\ Cardinality(Q) <= Len(pipe)
<1> DEFINE Q == {pipe[i].fd : i \in 1..Len(pipe)}
           f == [i \in 1..Len(pipe) |-> pipe[i].fd]
<1>1. Len(pipe) \in Nat
  BY InFlightTyped
<1>2. f \in Surjection(1..Len(pipe), Q)
  BY DEF Surjection
<1>3. IsFiniteSet(1..Len(pipe)) /\ Cardinality(1..Len(pipe)) = Len(pipe)
  BY <1>1, FS_Interval, SMTT(30)
<1> HIDE DEF f, Q
<1>4. IsFiniteSet(Q) /\ Cardinality(Q) <= Cardinality(1..Len(pipe))
  BY <1>2, <1>3, FS_Surjection
<1> QED
  BY <1>3, <1>4 DEF Q

(* The descriptors of the busy workers are no more than the workers.       *)
LEMMA HeldFds ==
  LET H == {fi[w].fd : w \in {v \in Worker : Busy(v)}}
  IN  IsFiniteSet(H) /\ Cardinality(H) <= Cardinality(Worker)
<1> DEFINE B == {v \in Worker : Busy(v)}
           H == {fi[w].fd : w \in B}
           f == [w \in B |-> fi[w].fd]
<1>1. IsFiniteSet(B) /\ Cardinality(B) <= Cardinality(Worker)
  BY FS_Subset, ConstantsAssumption
<1>2. f \in Surjection(B, H)
  BY DEF Surjection
<1> HIDE DEF f, H
<1>3. IsFiniteSet(H) /\ Cardinality(H) <= Cardinality(B)
  BY <1>1, <1>2, FS_Surjection
<1>4. /\ Cardinality(B) \in Nat /\ Cardinality(H) \in Nat
      /\ Cardinality(Worker) \in Nat
  BY <1>1, <1>3, FS_CardinalityType, ConstantsAssumption
<1>5. Cardinality(H) <= Cardinality(Worker)
  BY <1>1, <1>3, <1>4
<1> QED
  BY <1>3, <1>5 DEF H

(* When the dispatcher finds no free descriptor, the pipe and the workers  *)
(* hold them all.                                                          *)
LEMMA TableFull ==
  ASSUME TInv, RInv, dpc = "open", Len(pipe) <= PipeCap,
         \A d \in Fd : fdtab[d] # NoFile
  PROVE  Cardinality(Fd) <= PipeCap + Cardinality(Worker)
<1> DEFINE Q == {pipe[i].fd : i \in 1..Len(pipe)}
           H == {fi[w].fd : w \in {v \in Worker : Busy(v)}}
<1>1. Fd \in SUBSET (Q \cup H)
  BY DEF RInv, NoFdLeak, Sending
<1>2. IsFiniteSet(Q) /\ Cardinality(Q) <= Len(pipe)
  BY QueuedFds
<1>3. IsFiniteSet(H) /\ Cardinality(H) <= Cardinality(Worker)
  BY HeldFds
<1> HIDE DEF Q, H
<1>4. /\ IsFiniteSet(Q \cup H) /\ IsFiniteSet(Q \cap H)
      /\ Cardinality(Q \cup H) =
           Cardinality(Q) + Cardinality(H) - Cardinality(Q \cap H)
  BY <1>2, <1>3, FS_Union, FS_Intersection
<1>5. Cardinality(Fd) <= Cardinality(Q \cup H)
  BY <1>1, <1>4, FS_Subset
<1>6. /\ Cardinality(Q) \in Nat /\ Cardinality(H) \in Nat
      /\ Cardinality(Q \cap H) \in Nat /\ Cardinality(Worker) \in Nat
      /\ Cardinality(Fd) \in Nat
  BY <1>2, <1>3, <1>4, FS_CardinalityType, ConstantsAssumption
<1>7. Len(pipe) \in Nat /\ PipeCap \in Nat
  BY InFlightTyped, ConstantsAssumption
<1> QED
  BY <1>2, <1>3, <1>4, <1>5, <1>6, <1>7

(* Every step keeps the pipe within its capacity, and open() fails for     *)
(* want of a descriptor only when there are too few.                       *)
LEMMA CapacityNext == TInv /\ RInv /\ CapInv /\ [Next]_vars => CapInv'
<1> SUFFICES ASSUME TInv, RInv, CapInv, [Next]_vars PROVE CapInv'
  OBVIOUS
<1> USE DEF Goto, Step, dvars, wvars, hist
<1>0. /\ Len(pipe) \in Nat /\ PipeCap \in Nat
      /\ Cardinality(Worker) \in Nat /\ Cardinality(Fd) \in Nat
  BY InFlightTyped, FS_CardinalityType, ConstantsAssumption
<1>1. CASE UNCHANGED <<pipe, fate>>
  BY <1>1 DEF CapInv, DescriptorsSuffice
<1>2. CASE OpenFails
  <2>1. PipeCap + Cardinality(Worker) < Cardinality(Fd) =>
          \E d \in Fd : fdtab[d] = NoFile
    BY <1>0, <1>2, TableFull DEF OpenFails, CapInv
  <2>2. /\ cur \in Entry /\ pipe' = pipe
        /\ fate' = [fate EXCEPT ![cur] =
                     IF \A d \in Fd : fdtab[d] # NoFile THEN "nofd" ELSE "unopened"]
    BY <1>2 DEF OpenFails, TInv, HoldersTyped
  <2> QED
    BY <2>1, <2>2 DEF CapInv, DescriptorsSuffice, TInv, TypeOK
<1>3. CASE SkipBinary \/ SendRecord
  <2>1. Len(pipe') <= PipeCap
    BY <1>0, <1>3 DEF SkipBinary, SendRecord, CapInv, TInv, TypeOK
  <2>2. \A e \in Entry : fate'[e] = "nofd" => fate[e] = "nofd"
    BY <1>3 DEF SkipBinary, SendRecord, TInv, TypeOK
  <2> QED
    BY <2>1, <2>2 DEF CapInv, DescriptorsSuffice
<1>4. ASSUME NEW w \in Worker, ReadPipe(w) PROVE CapInv'
  <2>1. pipe' = pipe \/ (pipe # << >> /\ pipe' = Tail(pipe))
    BY <1>4 DEF ReadPipe
  <2>2. Len(pipe') <= PipeCap
    BY <1>0, <2>1 DEF CapInv, TInv, TypeOK
  <2> QED
    BY <1>4, <2>2 DEF ReadPipe, CapInv, DescriptorsSuffice
<1>5. ASSUME NEW w \in Worker, MapEmpty(w) \/ ResetUnmap(w) PROVE CapInv'
  <2>1. pipe' = pipe
    BY <1>5 DEF MapEmpty, ResetUnmap
  <2>2. \A e \in Entry : fate'[e] = "nofd" => fate[e] = "nofd"
    BY <1>5 DEF MapEmpty, ResetUnmap, TInv, TypeOK
  <2> QED
    BY <2>1, <2>2 DEF CapInv, DescriptorsSuffice
<1>6. CASE Dispatcher
  BY <1>1, <1>2, <1>3, <1>6 DEF Dispatcher, OpendirFails, NextEntry, OpenFile,
     AcceptText, DispatcherEnd
<1>7. CASE Main
  BY <1>1, <1>7 DEF Main, StartDispatcher, StartWorker, JoinAll, DestroyAndExit
<1>8. ASSUME NEW w \in Worker, WorkerStep(w) PROVE CapInv'
  BY <1>1, <1>4, <1>5, <1>8 DEF WorkerStep, WorkerInit, LockRead, UnlockRead,
     MapDies, MapFile, Match, NoMatch, LockOut, PrintName, PrintBody, UnlockOut,
     UnmapDies, WorkerEnd
<1> QED
  BY <1>1, <1>6, <1>7, <1>8 DEF Next, Terminated, vars

(* With more descriptors than the pipe and the workers can hold together,  *)
(* no file is dropped for want of one: for any tree and any limit.         *)
THEOREM DescriptorsAreEnough == Spec => []DescriptorsSuffice
<1>1. Init => CapInv
  BY ConstantsAssumption DEF Init, CapInv, DescriptorsSuffice
<1>2. CapInv => DescriptorsSuffice
  BY DEF CapInv
<1> QED
  BY <1>1, <1>2, TypeInit, TypeNext, RecordsInit, RecordsNext, CapacityNext,
     PTL DEF Spec

-----------------------------------------------------------------------------
(* What became of every entry.                                             *)

(* The entries whose subtree the walk does not enter.                      *)
Skips(d) == ~fts \/ d \in Vcs

InPipe(e) == \E i \in 1..Len(pipe) : pipe[i].name = e

WithWorker(e) == \E w \in Worker : Busy(w) /\ fi[w].name = e

(* Once such an entry is passed, its subtree is gone from the walk.        *)
Pruned == \A d \in Entry : Skips(d) => d \in todo \/ Below[d] \cap todo = {}

(* Where an entry is determines its fate, and only regular files that the  *)
(* walk covers have one.                                                   *)
Fates ==
  /\ \A e \in todo : fate[e] = "unseen"
  /\ Taken => fate[cur] = "unseen" /\ cur \in Regular /\ ~Hidden(cur)
  /\ \A e \in Entry : fate[e] = "queued" <=> InPipe(e) \/ WithWorker(e)
  /\ \A e \in Entry : IF fate[e] = "unseen"
                      THEN e \in Regular /\ ~Hidden(e) => e \in todo \/ (Taken /\ cur = e)
                      ELSE e \in Regular /\ ~Hidden(e)

(* A worker prints only a file with a match.                               *)
PrintsMatches ==
  \A w \in Worker : wpc[w] \in {"print", "name", "body", "unlockout"} =>
    found[fi[w].name] > 0

(* The name of e is in use or was left over.                               *)
NameKept(e) ==
  \/ dpc = "send" /\ cur = e
  \/ InPipe(e)
  \/ \E w \in Worker : /\ Busy(w) /\ fi[w].name = e
                       /\ ~(wpc[w] = "reset" /\ found[e] > 0)
  \/ fate[e] = "empty"
  \/ fate[e] = "searched" /\ found[e] = 0

NamesKept == \A e \in Entry : e \in names <=> NameKept(e)

(* The name of e was printed.                                              *)
Reported(e) ==
  \/ fate[e] = "searched" /\ found[e] > 0
  \/ \E w \in Worker : /\ Busy(w) /\ fi[w].name = e
                       /\ \/ wpc[w] \in {"body", "unlockout"}
                          \/ wpc[w] = "reset" /\ found[e] > 0

PrintedOnce ==
  /\ \A e \in Entry : Reported(e) <=> Printed(e) # {}
  /\ \A e \in Entry : \A i, j \in Printed(e) : i = j

(* The thread that dies is not main() past the joins, and the walk ends    *)
(* only when nothing is left.                                              *)
Ends ==
  /\ mpc \in {"join", "destroy", "exit"} => Worker # {}
  /\ mpc \in {"destroy", "exit"} => ~died
  /\ dpc = "done" => todo = {}

Accounted == Pruned /\ Fates /\ PrintsMatches /\ NamesKept /\ PrintedOnce

AInv == Ends /\ (~died => Accounted)

(* Nothing was visited, found or printed at the start.                     *)
LEMMA AccountInit == Init => AInv
<1> SUFFICES ASSUME Init PROVE AInv
  OBVIOUS
<1>1. Ends
  BY DEF Init, Ends
<1>2. Pruned /\ Fates /\ PrintsMatches
  BY DEF Init, Pruned, Fates, PrintsMatches, Taken, InPipe, WithWorker, Busy
<1>3. NamesKept
  BY DEF Init, NamesKept, NameKept, InPipe, Busy
<1>4. PrintedOnce
  BY DEF Init, PrintedOnce, Reported, Printed, Busy
<1> QED
  BY <1>1, <1>2, <1>3, <1>4 DEF AInv, Accounted

(* main() gets past the joins only with all threads ended, so that nobody  *)
(* can die there, and the dispatcher is done only after the whole walk.    *)
LEMMA EndsNext == TInv /\ SInv /\ Ends /\ [Next]_vars => Ends'
<1> SUFFICES ASSUME TInv, SInv, Ends, [Next]_vars PROVE Ends'
  OBVIOUS
<1> USE DEF Ends, Goto, Step, dvars, wvars, hist
<1>1. CASE Dispatcher /\ ~died
  BY <1>1 DEF Dispatcher, NextEntry, OpenFile, OpenFails, SkipBinary,
     AcceptText, SendRecord, DispatcherEnd, OpendirFails
<1>2. CASE Main /\ ~died
  BY <1>2 DEF Main, StartDispatcher, StartWorker, JoinAll, DestroyAndExit
<1>3. ASSUME NEW w \in Worker, WorkerStep(w) PROVE Ends'
  <2>1. CASE MapDies(w) \/ UnmapDies(w)
    BY <2>1 DEF MapDies, UnmapDies, SInv, Joined
  <2>2. CASE UNCHANGED <<mpc, dpc, todo, died>>
    BY <2>2
  <2> QED
    BY <1>3, <2>1, <2>2 DEF WorkerStep, WorkerInit, LockRead, ReadPipe,
       UnlockRead, MapEmpty, MapFile, Match, NoMatch, LockOut, PrintName,
       PrintBody, UnlockOut, ResetUnmap, WorkerEnd
<1>4. CASE UNCHANGED vars
  BY <1>4 DEF vars
<1> QED
  BY <1>1, <1>2, <1>3, <1>4 DEF Next, Terminated

(* A step that takes, moves, finds and names nothing, and by which no      *)
(* worker passes the points where a name is printed or freed.              *)
LEMMA AccountFrame ==
  ASSUME Accounted, UNCHANGED <<fts, todo, cur, pipe, names, fate, found>>,
         Taken' <=> Taken, dpc' = "send" <=> dpc = "send",
         \A e \in Entry : Printed(e)' = Printed(e),
         \A w \in Worker :
           /\ Busy(w)' <=> Busy(w)
           /\ Busy(w) => fi'[w] = fi[w]
           /\ Busy(w) => (wpc'[w] \in {"body", "unlockout"} <=>
                          wpc[w] \in {"body", "unlockout"})
           /\ Busy(w) /\ found[fi[w].name] > 0 => (wpc'[w] = "reset" <=> wpc[w] = "reset")
           /\ wpc'[w] \in {"print", "name", "body", "unlockout"} =>
                found[fi[w].name] > 0
  PROVE  Accounted'
<1>1. Pruned'
  BY DEF Accounted, Pruned, Skips
<1>2. \A e : (InPipe(e)' <=> InPipe(e)) /\ (WithWorker(e)' <=> WithWorker(e))
  BY DEF InPipe, WithWorker
<1>3. \A e : Hidden(e)' <=> Hidden(e)
  BY DEF Hidden
<1>4. Fates'
  BY <1>2, <1>3 DEF Accounted, Fates
<1>5. PrintsMatches'
  BY DEF PrintsMatches, Busy
<1>6. \A e \in Entry : NameKept(e)' <=> NameKept(e)
  BY <1>2 DEF NameKept
<1>7. NamesKept'
  BY <1>6 DEF Accounted, NamesKept
<1>8. \A e \in Entry : Reported(e)' <=> Reported(e)
  BY DEF Reported
<1>9. PrintedOnce'
  BY <1>8 DEF Accounted, PrintedOnce
<1> QED
  BY <1>1, <1>4, <1>5, <1>7, <1>9 DEF Accounted

(* A step of the walk: what it passes over is hidden or not a file.        *)
LEMMA AccountWalk ==
  ASSUME TInv, Accounted, NEW e \in Entry, NextEntry(e)
  PROVE  Accounted'
<1> DEFINE skip == fts /\ e \in Vcs
           gone == {e} \cup IF skip \/ ~fts THEN Below[e] ELSE {}
<1>1. /\ dpc = "walk" /\ e \in todo /\ \A d \in todo : e \notin Below[d]
      /\ todo' = todo \ gone
      /\ IF e \in Regular /\ ~skip THEN dpc' = "open" /\ cur' = e
                                   ELSE dpc' = "walk" /\ UNCHANGED cur
      /\ UNCHANGED <<fts, wpc, fi, n, pipe, names, out, fate, found>>
  BY DEF NextEntry, Goto, wvars, hist
<1>2. /\ \A d \in Entry : Below[d] \subseteq Entry
      /\ \A d \in Entry : \A x \in Below[d] : Below[x] \subseteq Below[d]
      /\ Vcs \subseteq Entry /\ todo \subseteq Entry
  BY ConstantsAssumption DEF TInv, TypeOK
<1>3. Skips(e) <=> skip \/ ~fts
  BY DEF Skips
<1>4. Pruned'
  <2>1. SUFFICES ASSUME NEW d \in Entry, Skips(d), d \notin todo'
                 PROVE  Below[d] \cap todo' = {}
    BY <1>1 DEF Pruned, Skips
  <2>2. CASE d = e
    BY <1>1, <1>3, <2>1, <2>2
  <2>3. CASE d # e /\ d \in todo
    BY <1>1, <1>2, <2>1, <2>3
  <2>4. CASE d \notin todo
    BY <1>1, <2>1, <2>4 DEF Accounted, Pruned
  <2> QED
    BY <2>2, <2>3, <2>4
<1>5. \A x : Hidden(x)' <=> Hidden(x)
  BY <1>1 DEF Hidden
<1>6. ~skip => ~Hidden(e)
  BY <1>1, <1>2 DEF Hidden, Accounted, Pruned, Skips
<1>7. (skip => Hidden(e)) /\ \A x \in gone \ {e} : Hidden(x)
  BY DEF Hidden
<1>8. \A x : (InPipe(x)' <=> InPipe(x)) /\ (WithWorker(x)' <=> WithWorker(x))
  BY <1>1 DEF InPipe, WithWorker, Busy
<1> HIDE DEF skip, gone
<1>9. Fates'
  <2>1. /\ \A x \in todo' : fate'[x] = "unseen"
        /\ Taken' => fate'[cur'] = "unseen" /\ cur' \in Regular /\ ~Hidden(cur')
    BY <1>1, <1>5, <1>6 DEF Accounted, Fates, Taken
  <2>2. \A x \in Entry : fate'[x] = "queued" <=> InPipe(x)' \/ WithWorker(x)'
    BY <1>1, <1>8 DEF Accounted, Fates
  <2>3. ASSUME NEW x \in Entry, fate[x] = "unseen", x \in Regular, ~Hidden(x)
        PROVE  x \in todo' \/ (Taken' /\ cur' = x)
    <3>1. x \in todo
      BY <1>1, <2>3 DEF Accounted, Fates, Taken
    <3> QED
      BY <1>1, <1>7, <2>3, <3>1 DEF Taken
  <2> QED
    BY <1>1, <1>5, <2>1, <2>2, <2>3 DEF Accounted, Fates
<1>10. PrintsMatches'
  BY <1>1 DEF Accounted, PrintsMatches
<1>11. NamesKept'
  BY <1>1, <1>8 DEF Accounted, NamesKept, NameKept, Busy
<1>12. PrintedOnce'
  BY <1>1 DEF Accounted, PrintedOnce, Reported, Printed, Busy
<1> QED
  BY <1>4, <1>9, <1>10, <1>11, <1>12 DEF Accounted

(* The dispatcher settles the fate of its entry: dropped, or sent.         *)
LEMMA AccountDrop ==
  ASSUME TInv, RInv, Accounted, Taken, dpc # "send", ~Taken', NEW f,
         f \notin {"unseen", "queued", "empty", "searched"},
         fate' = [fate EXCEPT ![cur] = f],
         UNCHANGED <<fts, todo, cur, pipe, names, out, found, wpc, fi, n>>
  PROVE  Accounted'
<1>1. /\ cur \in Entry /\ fate[cur] = "unseen" /\ cur \in Regular /\ ~Hidden(cur)
      /\ cur \notin todo
      /\ fate'[cur] = f /\ \A e \in Entry \ {cur} : fate'[e] = fate[e]
  BY DEF Accounted, Fates, TInv, TypeOK, HoldersTyped, Taken, RInv, Apart
<1>2. \A e : /\ InPipe(e)' <=> InPipe(e)
             /\ WithWorker(e)' <=> WithWorker(e)
             /\ Hidden(e)' <=> Hidden(e)
  BY DEF InPipe, WithWorker, Busy, Hidden
<1>3. Pruned' /\ PrintsMatches'
  BY DEF Accounted, Pruned, PrintsMatches, Skips
<1>4. Fates'
  BY <1>1, <1>2 DEF Accounted, Fates, TInv, TypeOK
<1>5. NamesKept'
  <2>1. \A e \in Entry : NameKept(e)' <=> NameKept(e)
    BY <1>1, <1>2 DEF NameKept, Busy, Taken
  <2> QED
    BY <2>1 DEF Accounted, NamesKept
<1>6. PrintedOnce'
  BY <1>1 DEF Accounted, PrintedOnce, Reported, Printed, Busy
<1> QED
  BY <1>3, <1>4, <1>5, <1>6 DEF Accounted

(* The record goes into the pipe, and its entry with it.                   *)
LEMMA AccountSend == TInv /\ RInv /\ Accounted /\ SendRecord => Accounted'
<1> SUFFICES ASSUME TInv, RInv, Accounted, SendRecord PROVE Accounted'
  OBVIOUS
<1>1. /\ dpc = "send" /\ dpc' = "walk" /\ fate' = [fate EXCEPT ![cur] = "queued"]
      /\ pipe' = Append(pipe, [fd |-> dfd, name |-> cur])
      /\ UNCHANGED <<fts, todo, cur, names, out, found, wpc, fi, n>>
  BY DEF SendRecord, Goto, wvars, hist
<1>2. /\ cur \in Entry /\ fate[cur] = "unseen" /\ cur \in Regular /\ ~Hidden(cur)
      /\ cur \notin todo
      /\ fate'[cur] = "queued" /\ \A e \in Entry \ {cur} : fate'[e] = fate[e]
  BY <1>1 DEF Accounted, Fates, TInv, TypeOK, HoldersTyped, Taken, RInv, Apart
<1>3. /\ Len(pipe) \in Nat /\ Len(pipe') = Len(pipe) + 1
      /\ pipe'[Len(pipe) + 1].name = cur
      /\ \A i \in 1..Len(pipe) : pipe'[i] = pipe[i]
  BY <1>1 DEF TInv, TypeOK
<1>4. \A e : InPipe(e)' <=> InPipe(e) \/ e = cur
  BY <1>3 DEF InPipe
<1>5. \A e : (WithWorker(e)' <=> WithWorker(e)) /\ (Hidden(e)' <=> Hidden(e))
  BY <1>1 DEF WithWorker, Busy, Hidden
<1>6. Pruned' /\ PrintsMatches'
  BY <1>1 DEF Accounted, Pruned, PrintsMatches, Skips
<1>7. Fates'
  BY <1>1, <1>2, <1>4, <1>5 DEF Accounted, Fates, TInv, TypeOK, Taken
<1>8. NamesKept'
  <2>1. \A e \in Entry : NameKept(e)' <=> NameKept(e)
    BY <1>1, <1>2, <1>4 DEF NameKept, Busy
  <2> QED
    BY <1>1, <2>1 DEF Accounted, NamesKept
<1>9. PrintedOnce'
  BY <1>1, <1>2 DEF Accounted, PrintedOnce, Reported, Printed, Busy
<1> QED
  BY <1>6, <1>7, <1>8, <1>9 DEF Accounted

(* The dispatcher's steps keep the account.                                *)
LEMMA AccountDispatcher == TInv /\ RInv /\ Accounted /\ Dispatcher => Accounted'
<1> SUFFICES ASSUME TInv, RInv, Accounted, Dispatcher PROVE Accounted'
  OBVIOUS
<1> USE DEF Goto, dvars, wvars, hist
<1>1. CASE OpendirFails \/ OpenFile \/ DispatcherEnd
  <2>1. /\ UNCHANGED <<fts, todo, cur, pipe, names, fate, found, out, wpc, fi, n>>
        /\ Taken' <=> Taken
        /\ dpc' = "send" <=> dpc = "send"
    BY <1>1 DEF OpendirFails, OpenFile, DispatcherEnd, Taken
  <2>2. \A w \in Worker : wpc[w] \in {"print", "name", "body", "unlockout"} =>
          found[fi[w].name] > 0
    BY DEF Accounted, PrintsMatches
  <2> QED
    BY <2>1, <2>2, AccountFrame DEF Printed, Busy
<1>2. CASE OpenFails
  BY <1>2, AccountDrop DEF OpenFails, Taken
<1>3. CASE SkipBinary
  BY <1>3, AccountDrop DEF SkipBinary, Taken
<1>4. CASE AcceptText
  <2>1. /\ dpc = "scan" /\ dpc' = "send" /\ names' = names \cup {cur}
        /\ UNCHANGED <<fts, todo, cur, pipe, out, found, fate, wpc, fi, n>>
    BY <1>4 DEF AcceptText
  <2>2. \A e : /\ InPipe(e)' <=> InPipe(e)
               /\ WithWorker(e)' <=> WithWorker(e)
               /\ Hidden(e)' <=> Hidden(e)
    BY <2>1 DEF InPipe, WithWorker, Busy, Hidden
  <2>3. Pruned' /\ PrintsMatches' /\ PrintedOnce'
    BY <2>1 DEF Accounted, Pruned, PrintsMatches, PrintedOnce, Reported,
                Printed, Skips, Busy
  <2>4. Fates'
    BY <2>1, <2>2 DEF Accounted, Fates, Taken
  <2>5. NamesKept'
    <3>1. \A e \in Entry : NameKept(e)' <=> NameKept(e) \/ e = cur
      BY <2>1, <2>2 DEF NameKept, Busy
    <3> QED
      BY <2>1, <3>1 DEF Accounted, NamesKept
  <2> QED
    BY <2>3, <2>4, <2>5 DEF Accounted
<1> QED
  BY <1>1, <1>2, <1>3, <1>4, AccountWalk, AccountSend DEF Dispatcher

(* main() takes, moves and prints nothing.                                 *)
LEMMA AccountMain == TInv /\ Accounted /\ Main => Accounted'
<1> SUFFICES ASSUME TInv, Accounted, Main PROVE Accounted'
  OBVIOUS
<1> USE DEF Main, StartDispatcher, StartWorker, JoinAll, DestroyAndExit, Goto,
            Step, dvars, wvars, hist
<1>1. /\ UNCHANGED <<fts, todo, cur, pipe, names, fate, found, out, fi, n>>
      /\ Taken' <=> Taken
      /\ dpc' = "send" <=> dpc = "send"
  BY DEF Taken
<1>2. \A w \in Worker : wpc'[w] = wpc[w] \/ (wpc[w] = "unborn" /\ wpc'[w] = "born")
  BY DEF TInv, TypeOK
<1>3. \A w \in Worker : wpc[w] \in {"print", "name", "body", "unlockout"} =>
        found[fi[w].name] > 0
  BY DEF Accounted, PrintsMatches
<1> QED
  BY <1>1, <1>2, <1>3, AccountFrame DEF Printed, Busy

(* The entry of a busy worker is queued and nowhere else.                  *)
LEMMA OwnEntry ==
  ASSUME TInv, RInv, Accounted, NEW w \in Worker, Busy(w)
  PROVE  /\ fi[w].name \in Entry /\ fi[w].name \notin todo
         /\ fate[fi[w].name] = "queued" /\ ~InPipe(fi[w].name)
         /\ fi[w].name \in Regular /\ ~Hidden(fi[w].name)
         /\ Taken => cur # fi[w].name
         /\ \A v \in Worker \ {w} : Busy(v) => fi[v].name # fi[w].name
<1>1. fi[w].name \in Entry
  BY InFlightTyped
<1>2. fate[fi[w].name] = "queued"
  BY <1>1 DEF Accounted, Fates, WithWorker
<1> QED
  BY <1>1, <1>2 DEF RInv, Apart, InPipe, Accounted, Fates

(* A worker is done with its file: it was empty, or it has been searched.  *)
LEMMA AccountClose ==
  ASSUME TInv, RInv, Accounted, NEW w \in Worker,
         NEW e \in Entry, e = fi[w].name, NEW f,
         \/ wpc[w] = "map" /\ f = "empty"
         \/ wpc[w] = "reset" /\ f = "searched",
         wpc'[w] = "lock", fate' = [fate EXCEPT ![e] = f],
         \A v \in Worker \ {w} : wpc'[v] = wpc[v] /\ n'[v] = n[v] /\ fi'[v] = fi[v],
         UNCHANGED <<fts, dpc, todo, cur, pipe, names, out, found>>
  PROVE  Accounted'
<1>1. Busy(w) /\ ~Busy(w)' /\ \A v \in Worker \ {w} : Busy(v)' <=> Busy(v)
  BY DEF Busy
<1>2. /\ e \notin todo /\ fate[e] = "queued" /\ ~InPipe(e)
      /\ e \in Regular /\ ~Hidden(e)
      /\ Taken => cur # e
      /\ \A v \in Worker \ {w} : Busy(v) => fi[v].name # e
  BY <1>1, OwnEntry
<1>3. fate'[e] = f /\ \A x \in Entry \ {e} : fate'[x] = fate[x]
  BY <1>2 DEF TInv, TypeOK
<1>4. found[e] \in Nat
  BY <1>2 DEF TInv, TypeOK
<1>5. \A x : (InPipe(x)' <=> InPipe(x)) /\ (Hidden(x)' <=> Hidden(x))
  BY DEF InPipe, Hidden
<1>6. \A x : WithWorker(x)' <=> WithWorker(x) /\ x # e
  BY <1>1, <1>2, <1>5 DEF WithWorker
<1>7. Pruned'
  BY DEF Accounted, Pruned, Skips
<1>8. PrintsMatches'
  <2>1. ASSUME NEW v \in Worker, wpc'[v] \in {"print", "name", "body", "unlockout"}
        PROVE  found'[fi'[v].name] > 0
    <3>1. v # w
      BY <2>1
    <3>2. wpc[v] \in {"print", "name", "body", "unlockout"} /\ fi'[v] = fi[v]
      BY <2>1, <3>1
    <3> QED
      BY <3>2 DEF Accounted, PrintsMatches
  <2> QED
    BY <2>1 DEF PrintsMatches
<1>9. Fates'
  BY <1>2, <1>3, <1>5, <1>6 DEF Accounted, Fates, Taken
<1>10. /\ \A v \in Worker : Busy(v)' => v # w /\ Busy(v) /\ fi'[v].name # e
       /\ \A v \in Worker : Busy(v) /\ fi[v].name = e => v = w
       /\ \A v \in Worker : v # w /\ Busy(v) => Busy(v)' /\ fi'[v] = fi[v] /\ wpc'[v] = wpc[v]
  BY <1>1, <1>2
<1>11. NamesKept'
  <2>1. ASSUME NEW x \in Entry, x # e PROVE NameKept(x)' <=> NameKept(x)
    <3> DEFINE K(v) == Busy(v) /\ fi[v].name = x /\ ~(wpc[v] = "reset" /\ found[x] > 0)
    <3>1. \A v \in Worker : K(v)' <=> K(v)
      BY <1>10, <2>1
    <3> QED
      BY <1>3, <1>5, <2>1, <3>1 DEF NameKept
  <2>2. NameKept(e) <=> f = "empty" \/ found[e] = 0
    BY <1>1, <1>2, <1>4, <1>10 DEF NameKept, Taken
  <2>3. NameKept(e)' <=> f = "empty" \/ found[e] = 0
    BY <1>2, <1>3, <1>5, <1>10 DEF NameKept, Taken
  <2> QED
    BY <2>1, <2>2, <2>3 DEF Accounted, NamesKept
<1>12. PrintedOnce'
  <2>1. ASSUME NEW x \in Entry, x # e PROVE Reported(x)' <=> Reported(x)
    <3> DEFINE K(v) == /\ Busy(v) /\ fi[v].name = x
                       /\ \/ wpc[v] \in {"body", "unlockout"}
                          \/ wpc[v] = "reset" /\ found[x] > 0
    <3>1. \A v \in Worker : K(v)' <=> K(v)
      BY <1>10, <2>1
    <3> QED
      BY <1>3, <2>1, <3>1 DEF Reported
  <2>2. Reported(e) <=> f = "searched" /\ found[e] > 0
    BY <1>1, <1>2, <1>10 DEF Reported
  <2>3. Reported(e)' <=> f = "searched" /\ found[e] > 0
    BY <1>3, <1>10 DEF Reported
  <2> QED
    BY <2>1, <2>2, <2>3 DEF Accounted, PrintedOnce, Printed
<1> QED
  BY <1>7, <1>8, <1>9, <1>11, <1>12 DEF Accounted

(* A record moves from the pipe to a worker.                               *)
LEMMA AccountRead ==
  ASSUME TInv, Accounted, NEW w \in Worker, ReadPipe(w), pipe # << >>,
         fi' = [fi EXCEPT ![w] = Head(pipe)], pipe' = Tail(pipe),
         n' = [n EXCEPT ![w] = "record"]
  PROVE  Accounted'
<1>1. /\ Len(pipe) \in Nat \ {0} /\ Len(pipe') = Len(pipe) - 1
      /\ \A i \in 1..Len(pipe') : i + 1 \in 1..Len(pipe) /\ pipe'[i] = pipe[i + 1]
      /\ \A i \in 1..Len(pipe) : i = 1 \/ (i - 1 \in 1..Len(pipe') /\ pipe'[i - 1] = pipe[i])
  BY DEF TInv, TypeOK
<1>2. /\ fi'[w] = pipe[1] /\ wpc[w] = "read" /\ wpc'[w] = "unlock"
      /\ Busy(w)' /\ ~Busy(w)
      /\ \A v \in Worker \ {w} : /\ fi'[v] = fi[v] /\ wpc'[v] = wpc[v]
                                 /\ Busy(v)' <=> Busy(v)
      /\ UNCHANGED <<fts, dpc, todo, cur, names, out, fate, found>>
  BY DEF ReadPipe, Step, Busy, TInv, TypeOK, dvars, hist
<1>3. \A x : InPipe(x) <=> InPipe(x)' \/ x = pipe[1].name
  BY <1>1 DEF InPipe
<1>4. \A x : WithWorker(x)' <=> WithWorker(x) \/ x = pipe[1].name
  BY <1>2 DEF WithWorker
<1>5. \A x : Hidden(x)' <=> Hidden(x)
  BY <1>2 DEF Hidden
<1>6. Pruned' /\ PrintsMatches'
  BY <1>2 DEF Accounted, Pruned, PrintsMatches, Skips
<1>7. Fates'
  BY <1>2, <1>3, <1>4, <1>5 DEF Accounted, Fates, Taken
<1>8. NamesKept'
  <2>1. ASSUME NEW x \in Entry PROVE NameKept(x)' <=> NameKept(x)
    BY <1>2, <1>3 DEF NameKept
  <2> QED
    BY <1>2, <2>1 DEF Accounted, NamesKept
<1>9. PrintedOnce'
  <2>1. ASSUME NEW x \in Entry PROVE Reported(x)' <=> Reported(x)
    BY <1>2 DEF Reported
  <2> QED
    BY <1>2, <2>1 DEF Accounted, PrintedOnce, Printed
<1> QED
  BY <1>6, <1>7, <1>8, <1>9 DEF Accounted

(* One more match in the file of a worker that is searching it.            *)
LEMMA AccountMatch ==
  ASSUME TInv, RInv, Accounted, NEW w \in Worker, NEW e \in Entry,
         e = fi[w].name, wpc[w] = "match", found' = [found EXCEPT ![e] = @ + 1],
         UNCHANGED <<fts, dpc, todo, cur, pipe, names, out, fate, wpc, fi, n>>
  PROVE  Accounted'
<1>1. Busy(w) /\ \A v \in Worker : Busy(v)' <=> Busy(v)
  BY DEF Busy
<1>2. /\ fate[e] = "queued"
      /\ \A v \in Worker : Busy(v) /\ fi[v].name = e => v = w
  BY <1>1, OwnEntry
<1>3. /\ \A x \in Entry \ {e} : found'[x] = found[x]
      /\ \A x \in Entry : found[x] > 0 => found'[x] > 0
  BY DEF TInv, TypeOK
<1>4. \A x : /\ InPipe(x)' <=> InPipe(x)
             /\ WithWorker(x)' <=> WithWorker(x)
             /\ Hidden(x)' <=> Hidden(x)
  BY DEF InPipe, WithWorker, Hidden, Busy
<1>5. Pruned'
  BY DEF Accounted, Pruned, Skips
<1>6. Fates'
  BY <1>4 DEF Accounted, Fates, Taken
<1>7. PrintsMatches'
  <2>1. \A v \in Worker : wpc[v] \in {"print", "name", "body", "unlockout"} =>
          fi[v].name \in Entry
    BY InFlightTyped DEF Busy
  <2> QED
    BY <1>3, <2>1 DEF Accounted, PrintsMatches
<1>8. NamesKept'
  <2>1. ASSUME NEW x \in Entry, x # e PROVE NameKept(x)' <=> NameKept(x)
    BY <1>1, <1>3, <1>4, <2>1 DEF NameKept
  <2>2. NameKept(e) /\ NameKept(e)'
    BY <1>1 DEF NameKept
  <2> QED
    BY <2>1, <2>2 DEF Accounted, NamesKept
<1>9. PrintedOnce'
  <2>1. ASSUME NEW x \in Entry, x # e PROVE Reported(x)' <=> Reported(x)
    BY <1>1, <1>3, <2>1 DEF Reported
  <2>2. ~Reported(e) /\ ~Reported(e)'
    BY <1>1, <1>2 DEF Reported
  <2> QED
    BY <2>1, <2>2 DEF Accounted, PrintedOnce, Printed
<1> QED
  BY <1>5, <1>6, <1>7, <1>8, <1>9 DEF Accounted

(* The name of the file is printed, for the first time.                    *)
LEMMA AccountPrint ==
  ASSUME TInv, RInv, Accounted, NEW w \in Worker, NEW e \in Entry,
         e = fi[w].name, PrintName(w)
  PROVE  Accounted'
<1> DEFINE l == [kind |-> "name", of |-> fi[w].name, text |-> << >>]
<1>1. /\ out' = Append(out, l) /\ wpc[w] = "name" /\ wpc'[w] \in {"unlockout", "body"}
      /\ \A v \in Worker \ {w} : wpc'[v] = wpc[v]
      /\ UNCHANGED <<fts, dpc, todo, cur, pipe, names, fate, found, fi, n>>
  BY DEF PrintName, Step, TInv, TypeOK, dvars, hist
<1>2. l.kind = "name" /\ l.of = e
  OBVIOUS
<1> HIDE DEF l
<1>3. Busy(w) /\ \A v \in Worker : Busy(v)' <=> Busy(v)
  BY <1>1 DEF Busy
<1>4. /\ fate[e] = "queued"
      /\ \A v \in Worker : Busy(v) /\ fi[v].name = e => v = w
  BY <1>3, OwnEntry
<1>5. /\ \A x \in Entry \ {e} : Printed(x)' = Printed(x)
      /\ Printed(e)' = Printed(e) \cup {Len(out) + 1}
  BY <1>1, <1>2, OutAppend DEF Printed
<1>6. \A x : /\ InPipe(x)' <=> InPipe(x)
             /\ WithWorker(x)' <=> WithWorker(x)
             /\ Hidden(x)' <=> Hidden(x)
  BY <1>1, <1>3 DEF InPipe, WithWorker, Hidden
<1>7. Pruned'
  BY <1>1 DEF Accounted, Pruned, Skips
<1>8. Fates'
  BY <1>1, <1>6 DEF Accounted, Fates, Taken
<1>9. PrintsMatches'
  BY <1>1 DEF Accounted, PrintsMatches
<1>10. NamesKept'
  <2>1. ASSUME NEW x \in Entry PROVE NameKept(x)' <=> NameKept(x)
    BY <1>1, <1>3, <1>6 DEF NameKept
  <2> QED
    BY <1>1, <2>1 DEF Accounted, NamesKept
<1>11. PrintedOnce'
  <2>1. ASSUME NEW x \in Entry, x # e PROVE Reported(x)' <=> Reported(x)
    BY <1>1, <1>3, <2>1 DEF Reported
  <2>2. ~Reported(e) /\ Reported(e)'
    BY <1>1, <1>3, <1>4 DEF Reported
  <2>3. Printed(e) = {}
    BY <2>2 DEF Accounted, PrintedOnce
  <2>4. Printed(e)' = {Len(out) + 1}
    BY <1>5, <2>3
  <2>5. ASSUME NEW x \in Entry
        PROVE  /\ Reported(x)' <=> Printed(x)' # {}
               /\ \A i, j \in Printed(x)' : i = j
    <3>1. CASE x = e
      BY <2>2, <2>4, <3>1
    <3>2. CASE x # e
      BY <1>5, <2>1, <3>2 DEF Accounted, PrintedOnce
    <3> QED
      BY <3>1, <3>2
  <2> QED
    BY <2>5 DEF PrintedOnce
<1> QED
  BY <1>7, <1>8, <1>9, <1>10, <1>11 DEF Accounted

(* The name is freed once the report is printed.                           *)
LEMMA AccountFree ==
  ASSUME TInv, RInv, Accounted, NEW w \in Worker, NEW e \in Entry,
         e = fi[w].name, UnlockOut(w)
  PROVE  Accounted'
<1>1. /\ wpc[w] = "unlockout" /\ wpc'[w] = "reset" /\ names' = names \ {e}
      /\ \A v \in Worker \ {w} : wpc'[v] = wpc[v]
      /\ UNCHANGED <<fts, dpc, todo, cur, pipe, out, fate, found, fi, n>>
  BY DEF UnlockOut, Step, TInv, TypeOK, dvars, hist
<1>2. Busy(w) /\ \A v \in Worker : Busy(v)' <=> Busy(v)
  BY <1>1 DEF Busy
<1>3. /\ fate[e] = "queued" /\ ~InPipe(e) /\ (Taken => cur # e)
      /\ \A v \in Worker : Busy(v) /\ fi[v].name = e => v = w
  BY <1>2, OwnEntry
<1>4. found[e] > 0
  BY <1>1 DEF Accounted, PrintsMatches
<1>5. \A x : /\ InPipe(x)' <=> InPipe(x)
             /\ WithWorker(x)' <=> WithWorker(x)
             /\ Hidden(x)' <=> Hidden(x)
  BY <1>1, <1>2 DEF InPipe, WithWorker, Hidden
<1>6. Pruned'
  BY <1>1 DEF Accounted, Pruned, Skips
<1>7. Fates'
  BY <1>1, <1>5 DEF Accounted, Fates, Taken
<1>8. PrintsMatches'
  BY <1>1 DEF Accounted, PrintsMatches
<1>9. NamesKept'
  <2>1. ASSUME NEW x \in Entry, x # e PROVE NameKept(x)' <=> NameKept(x)
    BY <1>1, <1>2, <1>5, <2>1 DEF NameKept
  <2>2. ~NameKept(e)'
    BY <1>1, <1>2, <1>3, <1>4, <1>5 DEF NameKept, Taken
  <2> QED
    BY <1>1, <2>1, <2>2 DEF Accounted, NamesKept
<1>10. PrintedOnce'
  <2>1. ASSUME NEW x \in Entry, x # e PROVE Reported(x)' <=> Reported(x)
    BY <1>1, <1>2, <2>1 DEF Reported
  <2>2. Reported(e) /\ Reported(e)'
    BY <1>1, <1>2, <1>4 DEF Reported
  <2> QED
    BY <1>1, <2>1, <2>2 DEF Accounted, PrintedOnce, Printed
<1> QED
  BY <1>6, <1>7, <1>8, <1>9, <1>10 DEF Accounted

(* The steps of a worker that does not die keep the account.               *)
LEMMA AccountWorker ==
  ASSUME TInv, RInv, CInv, Accounted, NEW w \in Worker, WorkerStep(w), ~died'
  PROVE  Accounted'
<1> USE DEF Step, dvars, wvars, hist
<1>0. \A v \in Worker : wpc[v] \in {"print", "name", "body", "unlockout"} =>
        found[fi[v].name] > 0
  BY DEF Accounted, PrintsMatches
<1>1. CASE WorkerInit(w) \/ LockRead(w) \/ UnlockRead(w) \/ MapFile(w) \/ LockOut(w)
  <2>1. /\ UNCHANGED <<fts, dpc, todo, cur, pipe, names, out, fate, found, fi>>
        /\ \A v \in Worker \ {w} : wpc'[v] = wpc[v] /\ n'[v] = n[v]
        /\ Busy(w)' <=> Busy(w)
        /\ wpc'[w] \notin {"body", "unlockout", "reset", "print"}
        /\ wpc[w] \notin {"body", "unlockout", "reset"}
        /\ wpc'[w] = "name" => wpc[w] = "print"
    BY <1>1 DEF WorkerInit, LockRead, UnlockRead, MapFile, LockOut, Busy, TInv, TypeOK
  <2> QED
    BY <1>0, <2>1, AccountFrame DEF Printed, Taken, Busy
<1>2. CASE WorkerEnd(w)
  BY <1>0, <1>2, AccountFrame DEF WorkerEnd, Printed, Taken, Busy, TInv, TypeOK
<1>3. CASE ReadPipe(w)
  <2>1. CASE pipe # << >> /\ fi' = [fi EXCEPT ![w] = Head(pipe)]
             /\ pipe' = Tail(pipe) /\ n' = [n EXCEPT ![w] = "record"]
    BY <1>3, <2>1, AccountRead
  <2>2. CASE UNCHANGED <<fi, pipe>> /\ n' = [n EXCEPT ![w] = "eof"]
    BY <1>0, <1>3, <2>2, AccountFrame DEF ReadPipe, Printed, Taken, Busy, TInv, TypeOK
  <2>3. CASE UNCHANGED <<fi, pipe>> /\ n' = [n EXCEPT ![w] = "error"]
    BY <1>0, <1>3, <2>3, AccountFrame DEF ReadPipe, Printed, Taken, Busy, TInv, TypeOK
  <2> QED
    BY <1>3, <2>1, <2>2, <2>3 DEF ReadPipe
<1>4. CASE NoMatch(w)
  <2>1. /\ UNCHANGED <<fts, dpc, todo, cur, pipe, names, out, fate, found, fi, n>>
        /\ \A v \in Worker \ {w} : wpc'[v] = wpc[v]
        /\ wpc[w] = "match"
        /\ wpc'[w] = IF buf[w] = << >> THEN "reset" ELSE "print"
    BY <1>4 DEF NoMatch, TInv, TypeOK
  <2>2. fi[w].name \in Entry /\ found[fi[w].name] \in Nat
    BY <2>1, InFlightTyped DEF Busy, TInv, TypeOK
  <2>3. buf[w] = << >> <=> found[fi[w].name] = 0
    <3>1. buf[w] = [k \in 1..found[fi[w].name] |-> <<fi[w].name, k>>]
      BY <2>1 DEF CInv, Buffers, Report
    <3>2. Len(buf[w]) = found[fi[w].name]
      BY <2>2, <3>1
    <3>3. buf[w] \in Seq(Matches)
      BY DEF TInv, TypeOK
    <3> QED
      BY <3>2, <3>3
  <2> QED
    BY <1>0, <2>1, <2>2, <2>3, AccountFrame DEF Printed, Taken, Busy
<1>5. CASE PrintBody(w)
  <2> DEFINE l == [kind |-> "body", of |-> fi[w].name, text |-> buf[w]]
  <2>1. /\ out' = Append(out, l) /\ wpc[w] = "body" /\ wpc'[w] = "unlockout"
        /\ \A v \in Worker \ {w} : wpc'[v] = wpc[v]
        /\ UNCHANGED <<fts, dpc, todo, cur, pipe, names, fate, found, fi, n>>
    BY <1>5 DEF PrintBody, TInv, TypeOK
  <2>2. l.kind # "name"
    OBVIOUS
  <2> HIDE DEF l
  <2>3. \A e \in Entry : Printed(e)' = Printed(e)
    BY <2>1, <2>2, OutAppend DEF Printed
  <2> QED
    BY <1>0, <2>1, <2>3, AccountFrame DEF Taken, Busy
<1>6. ASSUME wpc[w] \in {"map", "match", "name", "unlockout", "reset"}
      PROVE  \E e \in Entry : e = fi[w].name
  BY <1>6, InFlightTyped DEF Busy
<1>7. CASE MapEmpty(w)
  BY <1>6, <1>7, AccountClose DEF MapEmpty, CloseFd, TInv, TypeOK
<1>8. CASE ResetUnmap(w)
  BY <1>6, <1>8, AccountClose DEF ResetUnmap, CloseFd, TInv, TypeOK
<1>9. CASE Match(w)
  BY <1>6, <1>9, AccountMatch DEF Match, TInv, TypeOK
<1>10. CASE PrintName(w)
  BY <1>6, <1>10, AccountPrint DEF PrintName
<1>11. CASE UnlockOut(w)
  BY <1>6, <1>11, AccountFree DEF UnlockOut
<1>12. ~MapDies(w) /\ ~UnmapDies(w)
  BY DEF MapDies, UnmapDies
<1> QED
  BY <1>1, <1>2, <1>3, <1>4, <1>5, <1>7, <1>8, <1>9, <1>10, <1>11, <1>12
  DEF WorkerStep

(* Every step keeps the account.                                           *)
LEMMA AccountNext ==
  TInv /\ SInv /\ RInv /\ CInv /\ AInv /\ [Next]_vars => AInv'
<1> SUFFICES ASSUME TInv, SInv, RInv, CInv, AInv, [Next]_vars PROVE AInv'
  OBVIOUS
<1>1. Ends'
  BY EndsNext DEF AInv
<1>2. CASE UNCHANGED vars
  <2>1. ~died => Accounted
    BY DEF AInv
  <2>2. ASSUME ~died' PROVE Accounted'
    <3>1. Accounted
      BY <1>2, <2>1, <2>2 DEF vars
    <3>2. \A w \in Worker : wpc[w] \in {"print", "name", "body", "unlockout"} =>
            found[fi[w].name] > 0
      BY <3>1 DEF Accounted, PrintsMatches
    <3> QED
      BY <1>2, <3>1, <3>2, AccountFrame
      DEF vars, dvars, wvars, hist, Printed, Taken, Busy
  <2> QED
    BY <1>1, <2>2 DEF AInv
<1>3. ASSUME ~died, ~died', Dispatcher \/ Main \/ \E w \in Worker : WorkerStep(w)
      PROVE  Accounted'
  BY <1>3, AccountDispatcher, AccountMain, AccountWorker DEF AInv
<1> QED
  BY <1>1, <1>2, <1>3 DEF AInv, Next, Terminated

(* At the end nothing is under way: some worker saw the end of the pipe,   *)
(* so the dispatcher has finished its walk.                                *)
LEMMA NothingUnderWay ==
  ASSUME TInv, SInv, AInv, mpc \in {"destroy", "exit"}
  PROVE  /\ Accounted /\ todo = {} /\ ~Taken
         /\ \A e : ~InPipe(e) /\ ~WithWorker(e)
<1>1. Accounted /\ Worker # {}
  BY DEF AInv, Ends
<1>2. PICK w \in Worker : wpc[w] = "done"
  BY <1>1 DEF SInv, Joined
<1>3. pipe = << >> /\ dpc = "done"
  BY <1>2 DEF SInv, EndOfPipe
<1>4. todo = {}
  BY <1>3 DEF AInv, Ends
<1>5. \A v \in Worker : ~Busy(v)
  BY DEF SInv, Joined, Busy
<1> QED
  BY <1>1, <1>3, <1>4, <1>5 DEF Taken, InPipe, WithWorker

(* Every regular file the walk covers is dropped for a reason or searched, *)
(* and its name is printed once if it has a match: for any tree, any       *)
(* number of workers, and whatever open(), read() and mmap() answer.       *)
THEOREM FilesAreAccounted == Spec => []EveryFileAccounted
<1>1. TInv /\ SInv /\ AInv => EveryFileAccounted
  <2> SUFFICES ASSUME TInv, SInv, AInv, mpc \in {"destroy", "exit"}, NEW e \in Regular
               PROVE  /\ fate[e] \in IF Hidden(e) THEN {"unseen"}
                            ELSE {"unopened", "nofd", "binary", "empty", "searched"}
                      /\ Cardinality(Printed(e)) =
                           IF fate[e] = "searched" /\ found[e] > 0 THEN 1 ELSE 0
    BY DEF EveryFileAccounted
  <2>1. e \in Entry /\ Accounted /\ ~InPipe(e) /\ ~WithWorker(e) /\ e \notin todo /\ ~Taken
    BY NothingUnderWay, ConstantsAssumption
  <2>2. fate[e] \in {"unseen", "unopened", "nofd", "binary", "queued", "empty", "searched"}
    BY <2>1 DEF TInv, TypeOK
  <2>3. fate[e] \in IF Hidden(e) THEN {"unseen"}
                    ELSE {"unopened", "nofd", "binary", "empty", "searched"}
    BY <2>1, <2>2 DEF Accounted, Fates
  <2>4. Reported(e) <=> fate[e] = "searched" /\ found[e] > 0
    BY <2>1 DEF Reported, WithWorker
  <2>5. Printed(e) # {} <=> fate[e] = "searched" /\ found[e] > 0
    BY <2>1, <2>4 DEF Accounted, PrintedOnce
  <2>6. Printed(e) # {} => \E i : Printed(e) = {i}
    BY <2>1 DEF Accounted, PrintedOnce
  <2>7. Cardinality(Printed(e)) = IF Printed(e) # {} THEN 1 ELSE 0
    BY <2>6, FS_EmptySet, FS_Singleton
  <2> QED
    BY <2>3, <2>5, <2>7
<1> QED
  BY <1>1, TypeInit, TypeNext, ShutdownInit, ShutdownNext, RecordsInit,
     RecordsNext, ContentInit, ContentNext, AccountInit, AccountNext, PTL DEF Spec

(* The names left allocated at the end are those of the files without a    *)
(* report: a name is freed with its report and not before, and the others  *)
(* never.                                                                  *)
THEOREM OnlyUnreportedNamesLeft == Spec => []NamesLeftOver
<1>1. TInv /\ SInv /\ AInv => NamesLeftOver
  <2> SUFFICES ASSUME TInv, SInv, AInv, mpc \in {"destroy", "exit"}
               PROVE  names = {e \in Regular : \/ fate[e] = "empty"
                                               \/ fate[e] = "searched" /\ found[e] = 0}
    BY DEF NamesLeftOver
  <2>1. Accounted /\ ~Taken /\ \A e : ~InPipe(e) /\ ~WithWorker(e)
    BY NothingUnderWay
  <2>2. \A e \in Entry : e \in names <=> \/ fate[e] = "empty"
                                         \/ fate[e] = "searched" /\ found[e] = 0
    BY <2>1 DEF Accounted, NamesKept, NameKept, WithWorker, Taken
  <2>3. \A e \in Entry : fate[e] \in {"empty", "searched"} => e \in Regular
    BY <2>1 DEF Accounted, Fates
  <2>4. names \subseteq Entry /\ Regular \subseteq Entry
    BY ConstantsAssumption DEF TInv, TypeOK
  <2> QED
    BY <2>2, <2>3, <2>4
<1> QED
  BY <1>1, TypeInit, TypeNext, ShutdownInit, ShutdownNext, RecordsInit,
     RecordsNext, ContentInit, ContentNext, AccountInit, AccountNext, PTL DEF Spec

===============================================================================
