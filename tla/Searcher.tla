------------------------------- MODULE Searcher -------------------------------
(***************************************************************************)
(* The search pipeline of sf: main() creates one dispatcher and NCPU       *)
(* worker threads (src/main.c), the dispatcher walks the tree and sends    *)
(* one fileinfo record per text file through a pipe, and the workers map,  *)
(* match and print the files (src/thread.c, src/file.c).                   *)
(*                                                                         *)
(* What is kept: every system call that changes shared state (the          *)
(* descriptor table, the pipe, the two mutexes, stdout), the thread-local  *)
(* result buffer, the heap copy of the file name, and every early return.  *)
(* What is abstract: file contents.  Whether a file opens, looks binary,   *)
(* is empty, fails to map, and whether kmp_match finds one more match, are *)
(* choices of the environment; matches are numbered, not spelled out.      *)
(***************************************************************************)
EXTENDS Integers, Sequences, FiniteSets

CONSTANTS
  Worker,     \* the worker threads (NCPU of them)
  Entry,      \* the directory entries below "."
  Regular,    \* the entries for which S_ISREG holds
  Vcs,        \* the entries named .git, .svn or .hg
  Below,      \* Below[d]: the entries in the subtree of d, without d
  Fd,         \* descriptor numbers the pipes and the directory walk leave
  PipeCap,    \* records that fit in the pipe
  MaxMatch,   \* bound: matches per file
  MaxIntr,    \* bound: reads of the pipe that return an error
  ListOnly,   \* opt.list_matching_files
  Walks,      \* the builds: TRUE with ENABLE_FTS, FALSE with the readdir walk
  NoFile,     \* content of a free descriptor slot
  NoRec,      \* content of a worker's fileinfo when it is dead
  NoOne       \* an unlocked mutex

ASSUME ConstantsAssumption ==
  /\ Regular \subseteq Entry
  /\ Vcs \subseteq Entry
  /\ Below \in [Entry -> SUBSET Entry]
  /\ \A d \in Entry : \A e \in Below[d] : Below[e] \subseteq Below[d]
  /\ Fd \subseteq Nat /\ IsFiniteSet(Fd)
  /\ IsFiniteSet(Worker)
  /\ PipeCap \in Nat \ {0}
  /\ MaxMatch \in Nat
  /\ MaxIntr \in Nat
  /\ ListOnly \in BOOLEAN
  /\ Walks \in SUBSET BOOLEAN
  /\ NoFile \notin Entry
  /\ NoRec \notin [fd : Fd, name : Entry]
  /\ NoOne \notin Worker

(* A fileinfo as it travels through the pipe; pmap and size are only set   *)
(* and read while the worker that owns the record has the file mapped.     *)
Rec == [fd : Fd, name : Entry]

VARIABLES
  mpc,      \* where main() is
  fts,      \* which walk is compiled in
  dpc,      \* where the dispatcher is
  todo,     \* entries the directory walk has still to return
  cur,      \* the dispatcher's current entry
  dfd,      \* the dispatcher's local fd
  wpc,      \* where each worker is
  fi,       \* each worker's fileinfo
  n,        \* what each worker's last read of the pipe returned
  buf,      \* each worker's result buffer: a sequence of <<file, match>>
  fdtab,    \* the process's descriptor table
  pipe,     \* records in the pipe
  wropen,   \* pipefd[1] is open
  rdopen,   \* pipefd[0] is open
  names,    \* entries whose strndup'ed name is allocated
  readmtx,  \* owner of readmtx
  outmtx,   \* owner of outmtx
  out,      \* what was printed on stdout
  intr,     \* reads of the pipe that failed so far
  died,     \* some thread called die(): the process has exited with 1
  fate,     \* history: what became of each entry
  found     \* history: matches kmp_match reported in each entry

dvars == <<fts, dpc, todo, cur, dfd>>
wvars == <<wpc, fi, n, buf>>
hist  == <<fate, found>>
vars  == <<mpc, dvars, wvars, fdtab, pipe, wropen, rdopen, names,
           readmtx, outmtx, out, intr, died, hist>>

Init ==
  /\ mpc = "init"
  /\ fts \in Walks
  /\ dpc = "unborn" /\ todo = Entry /\ cur = NoFile /\ dfd = NoFile
  /\ wpc = [w \in Worker |-> "unborn"]
  /\ fi = [w \in Worker |-> NoRec]
  /\ n = [w \in Worker |-> "none"]
  /\ buf = [w \in Worker |-> << >>]
  /\ fdtab = [d \in Fd |-> NoFile]
  /\ pipe = << >> /\ wropen = TRUE /\ rdopen = TRUE
  /\ names = {}
  /\ readmtx = NoOne /\ outmtx = NoOne
  /\ out = << >>
  /\ intr = 0 /\ died = FALSE
  /\ fate = [e \in Entry |-> "unseen"]
  /\ found = [e \in Entry |-> 0]

-----------------------------------------------------------------------------
(* The dispatcher.                                                         *)

Goto(s) == dpc' = s

(* Mutant: an entry that is skipped does not take its subtree along.       *)
NextEntryVisitsBelow(e) ==
  /\ dpc = "walk"
  /\ e \in todo
  /\ \A d \in todo : e \notin Below[d]
  /\ todo' = todo \ {e}
  /\ IF e \in Regular /\ ~(fts /\ e \in Vcs)
     THEN Goto("open") /\ cur' = e
     ELSE Goto("walk") /\ UNCHANGED cur
  /\ UNCHANGED <<mpc, fts, dfd, wvars, fdtab, pipe, wropen, rdopen, names,
                 readmtx, outmtx, out, intr, died, hist>>

(* fts_read returns an entry once the directories above it were returned.  *)
(* A repository entry is skipped with its subtree (FTS_SKIP), an entry     *)
(* that is not a regular file is passed over.  The readdir walk neither    *)
(* knows about repositories nor enters directories.                        *)
NextEntry(e) ==
  LET skip == fts /\ e \in Vcs IN
  /\ dpc = "walk"
  /\ e \in todo
  /\ \A d \in todo : e \notin Below[d]
  /\ todo' = todo \ ({e} \cup IF skip \/ ~fts THEN Below[e] ELSE {})
  /\ IF e \in Regular /\ ~skip THEN Goto("open") /\ cur' = e
                               ELSE Goto("walk") /\ UNCHANGED cur
  /\ UNCHANGED <<mpc, fts, dfd, wvars, fdtab, pipe, wropen, rdopen, names,
                 readmtx, outmtx, out, intr, died, hist>>

(* open() hands out the lowest free descriptor.                            *)
OpenFile ==
  /\ dpc = "open"
  /\ \E d \in Fd :
       /\ fdtab[d] = NoFile
       /\ \A c \in Fd : fdtab[c] = NoFile => d <= c
       /\ fdtab' = [fdtab EXCEPT ![d] = cur]
       /\ dfd' = d
  /\ Goto("scan")
  /\ UNCHANGED <<mpc, fts, todo, cur, wvars, pipe, wropen, rdopen, names,
                 readmtx, outmtx, out, intr, died, hist>>

(* open() fails: always when no descriptor is free, and for reasons of the *)
(* environment at any other time.  The fts walk goes on with the next      *)
(* entry; the readdir walk leaves the thread, with pipefd[1] still open.   *)
OpenFails ==
  /\ dpc = "open"
  /\ fate' = [fate EXCEPT ![cur] =
                IF \A d \in Fd : fdtab[d] # NoFile THEN "nofd" ELSE "unopened"]
  /\ IF fts THEN Goto("walk") ELSE Goto("returned")
  /\ UNCHANGED <<mpc, fts, todo, cur, dfd, wvars, fdtab, pipe, wropen, rdopen,
                 names, readmtx, outmtx, out, intr, died, found>>

(* Mutant: a binary file is dropped without closing it.                    *)
SkipBinaryLeaks ==
  /\ dpc = "scan"
  /\ fate' = [fate EXCEPT ![cur] = "binary"]
  /\ Goto("walk")
  /\ UNCHANGED <<mpc, fts, todo, cur, dfd, wvars, fdtab, pipe, wropen, rdopen,
                 names, readmtx, outmtx, out, intr, died, found>>

(* magic_scan says binary: the descriptor is closed and the file dropped.  *)
SkipBinary ==
  /\ dpc = "scan"
  /\ fdtab' = [fdtab EXCEPT ![dfd] = NoFile]
  /\ fate' = [fate EXCEPT ![cur] = "binary"]
  /\ Goto("walk")
  /\ UNCHANGED <<mpc, fts, todo, cur, dfd, wvars, pipe, wropen, rdopen, names,
                 readmtx, outmtx, out, intr, died, found>>

(* magic_scan says text: the fileinfo is filled in and the name copied.    *)
AcceptText ==
  /\ dpc = "scan"
  /\ names' = names \cup {cur}
  /\ Goto("send")
  /\ UNCHANGED <<mpc, fts, todo, cur, dfd, wvars, fdtab, pipe, wropen, rdopen,
                 readmtx, outmtx, out, intr, died, hist>>

(* Mutant: the dispatcher closes the file once the record is sent.         *)
SendRecordAndClose ==
  /\ dpc = "send"
  /\ Len(pipe) < PipeCap
  /\ pipe' = Append(pipe, [fd |-> dfd, name |-> cur])
  /\ fdtab' = [fdtab EXCEPT ![dfd] = NoFile]
  /\ fate' = [fate EXCEPT ![cur] = "queued"]
  /\ Goto("walk")
  /\ UNCHANGED <<mpc, fts, todo, cur, dfd, wvars, wropen, rdopen, names,
                 readmtx, outmtx, out, intr, died, found>>

(* write() of one record: smaller than PIPE_BUF, so it is atomic and it    *)
(* blocks while the pipe is full.  It cannot fail: the read end is open    *)
(* until every thread is gone (QuietShutdown).                             *)
SendRecord ==
  /\ dpc = "send"
  /\ Len(pipe) < PipeCap
  /\ pipe' = Append(pipe, [fd |-> dfd, name |-> cur])
  /\ fate' = [fate EXCEPT ![cur] = "queued"]
  /\ Goto("walk")
  /\ UNCHANGED <<mpc, fts, todo, cur, dfd, wvars, fdtab, wropen, rdopen, names,
                 readmtx, outmtx, out, intr, died, found>>

(* The walk is over: the write end of the pipe is closed, the thread ends. *)
DispatcherEnd ==
  /\ dpc = "walk"
  /\ todo = {}
  /\ wropen' = FALSE
  /\ Goto("done")
  /\ UNCHANGED <<mpc, fts, todo, cur, dfd, wvars, fdtab, pipe, rdopen, names,
                 readmtx, outmtx, out, intr, died, hist>>

(* opendir() fails before the readdir walk: the thread leaves, with        *)
(* pipefd[1] still open.                                                   *)
OpendirFails ==
  /\ ~fts
  /\ dpc = "walk"
  /\ todo = Entry
  /\ Goto("returned")
  /\ UNCHANGED <<mpc, fts, todo, cur, dfd, wvars, fdtab, pipe, wropen, rdopen,
                 names, readmtx, outmtx, out, intr, died, hist>>

Dispatcher ==
  \/ OpendirFails
  \/ \E e \in Entry : NextEntry(e)
  \/ OpenFile \/ OpenFails
  \/ SkipBinary \/ AcceptText \/ SendRecord
  \/ DispatcherEnd

-----------------------------------------------------------------------------
(* The workers.                                                            *)

Step(w, from, to) == wpc[w] = from /\ wpc' = [wpc EXCEPT ![w] = to]

(* init_buffer and kmp_prepare.                                            *)
WorkerInit(w) ==
  /\ Step(w, "born", "lock")
  /\ buf' = [buf EXCEPT ![w] = << >>]
  /\ UNCHANGED <<mpc, dvars, fi, n, fdtab, pipe, wropen, rdopen, names,
                 readmtx, outmtx, out, intr, died, hist>>

LockRead(w) ==
  /\ Step(w, "lock", "read")
  /\ readmtx = NoOne
  /\ readmtx' = w
  /\ UNCHANGED <<mpc, dvars, fi, n, buf, fdtab, pipe, wropen, rdopen, names,
                 outmtx, out, intr, died, hist>>

(* read() blocks, with readmtx held, while the pipe is empty and its write *)
(* end is open; it returns a whole record, 0 at end of file, or an error.  *)
ReadPipe(w) ==
  /\ Step(w, "read", "unlock")
  /\ \/ /\ pipe # << >>
        /\ fi' = [fi EXCEPT ![w] = Head(pipe)]
        /\ pipe' = Tail(pipe)
        /\ n' = [n EXCEPT ![w] = "record"]
        /\ UNCHANGED intr
     \/ /\ pipe = << >> /\ ~wropen
        /\ n' = [n EXCEPT ![w] = "eof"]
        /\ UNCHANGED <<fi, pipe, intr>>
     \/ /\ intr < MaxIntr
        /\ intr' = intr + 1
        /\ n' = [n EXCEPT ![w] = "error"]
        /\ UNCHANGED <<fi, pipe>>
  /\ UNCHANGED <<mpc, dvars, buf, fdtab, wropen, rdopen, names,
                 readmtx, outmtx, out, died, hist>>

(* Mutant: a failed read ends the loop like end of file.                   *)
UnlockReadErrorEnds(w) ==
  /\ Step(w, "unlock", IF n[w] = "record" THEN "map" ELSE "finish")
  /\ readmtx' = NoOne
  /\ n' = [n EXCEPT ![w] = "none"]
  /\ UNCHANGED <<mpc, dvars, fi, buf, fdtab, pipe, wropen, rdopen, names,
                 outmtx, out, intr, died, hist>>

(* Mutant: the size of the record is tested before end of file.            *)
UnlockReadRetriesEof(w) ==
  /\ Step(w, "unlock", IF n[w] = "record" THEN "map" ELSE "lock")
  /\ readmtx' = NoOne
  /\ n' = [n EXCEPT ![w] = "none"]
  /\ UNCHANGED <<mpc, dvars, fi, buf, fdtab, pipe, wropen, rdopen, names,
                 outmtx, out, intr, died, hist>>

(* The mutex is released, then n is tested: 0 ends the loop, anything but  *)
(* the size of a record starts it over.                                    *)
UnlockRead(w) ==
  /\ Step(w, "unlock", CASE n[w] = "record" -> "map"
                         [] n[w] = "eof"    -> "finish"
                         [] OTHER           -> "lock")
  /\ readmtx' = NoOne
  /\ n' = [n EXCEPT ![w] = "none"]
  /\ UNCHANGED <<mpc, dvars, fi, buf, fdtab, pipe, wropen, rdopen, names,
                 outmtx, out, intr, died, hist>>

CloseFd(w) ==
  /\ fdtab' = [fdtab EXCEPT ![fi[w].fd] = NoFile]
  /\ fi' = [fi EXCEPT ![w] = NoRec]

(* Mutant: an empty file is left open.                                     *)
MapEmptyLeaks(w) ==
  /\ Step(w, "map", "lock")
  /\ fate' = [fate EXCEPT ![fi[w].name] = "empty"]
  /\ fi' = [fi EXCEPT ![w] = NoRec]
  /\ UNCHANGED <<mpc, dvars, n, buf, fdtab, pipe, wropen, rdopen, names,
                 readmtx, outmtx, out, intr, died, found>>

(* map_file returns NULL for an empty file; the worker closes it and goes  *)
(* back to the pipe.                                                       *)
MapEmpty(w) ==
  /\ Step(w, "map", "lock")
  /\ fate' = [fate EXCEPT ![fi[w].name] = "empty"]
  /\ CloseFd(w)
  /\ UNCHANGED <<mpc, dvars, n, buf, pipe, wropen, rdopen, names,
                 readmtx, outmtx, out, intr, died, found>>

(* fstat or mmap fails: the descriptor is closed and die() exits.          *)
MapDies(w) ==
  /\ Step(w, "map", "dead")
  /\ CloseFd(w)
  /\ died' = TRUE
  /\ UNCHANGED <<mpc, dvars, n, buf, pipe, wropen, rdopen, names,
                 readmtx, outmtx, out, intr, hist>>

MapFile(w) ==
  /\ Step(w, "map", "match")
  /\ UNCHANGED <<mpc, dvars, fi, n, buf, fdtab, pipe, wropen, rdopen, names,
                 readmtx, outmtx, out, intr, died, hist>>

(* kmp_match finds one more match and worker_writebuffer appends it.       *)
Match(w) ==
  LET e == fi[w].name IN
  /\ Step(w, "match", "match")
  /\ found[e] < MaxMatch
  /\ found' = [found EXCEPT ![e] = @ + 1]
  /\ buf' = [buf EXCEPT ![w] = Append(@, <<e, found[e] + 1>>)]
  /\ UNCHANGED <<mpc, dvars, fi, n, fdtab, pipe, wropen, rdopen, names,
                 readmtx, outmtx, out, intr, died, fate>>

(* kmp_match fails; only a non-empty buffer is printed (off != 0).         *)
NoMatch(w) ==
  /\ Step(w, "match", IF buf[w] = << >> THEN "reset" ELSE "print")
  /\ UNCHANGED <<mpc, dvars, fi, n, buf, fdtab, pipe, wropen, rdopen, names,
                 readmtx, outmtx, out, intr, died, hist>>

(* Mutant: stdout is used without taking outmtx.                           *)
LockOutUnlocked(w) ==
  /\ Step(w, "print", "name")
  /\ UNCHANGED <<mpc, dvars, fi, n, buf, fdtab, pipe, wropen, rdopen, names,
                 readmtx, outmtx, out, intr, died, hist>>

LockOut(w) ==
  /\ Step(w, "print", "name")
  /\ outmtx = NoOne
  /\ outmtx' = w
  /\ UNCHANGED <<mpc, dvars, fi, n, buf, fdtab, pipe, wropen, rdopen, names,
                 readmtx, out, intr, died, hist>>

PrintName(w) ==
  /\ Step(w, "name", IF ListOnly THEN "unlockout" ELSE "body")
  /\ out' = Append(out, [kind |-> "name", of |-> fi[w].name, text |-> << >>])
  /\ UNCHANGED <<mpc, dvars, fi, n, buf, fdtab, pipe, wropen, rdopen, names,
                 readmtx, outmtx, intr, died, hist>>

PrintBody(w) ==
  /\ Step(w, "body", "unlockout")
  /\ out' = Append(out, [kind |-> "body", of |-> fi[w].name, text |-> buf[w]])
  /\ UNCHANGED <<mpc, dvars, fi, n, buf, fdtab, pipe, wropen, rdopen, names,
                 readmtx, outmtx, intr, died, hist>>

(* Mutant: the name is not freed after the report.                         *)
UnlockOutKeepsName(w) ==
  /\ Step(w, "unlockout", "reset")
  /\ outmtx' = NoOne
  /\ UNCHANGED <<mpc, dvars, fi, n, buf, fdtab, pipe, wropen, rdopen, names,
                 readmtx, out, intr, died, hist>>

(* The lock is released, then the name is freed and stdout flushed.        *)
UnlockOut(w) ==
  /\ Step(w, "unlockout", "reset")
  /\ outmtx' = NoOne
  /\ names' = names \ {fi[w].name}
  /\ UNCHANGED <<mpc, dvars, fi, n, buf, fdtab, pipe, wropen, rdopen,
                 readmtx, out, intr, died, hist>>

(* Mutant: the buffer is not reset between two files.                      *)
ResetUnmapKeepsBuffer(w) ==
  /\ Step(w, "reset", "lock")
  /\ fate' = [fate EXCEPT ![fi[w].name] = "searched"]
  /\ CloseFd(w)
  /\ UNCHANGED <<mpc, dvars, n, buf, pipe, wropen, rdopen, names,
                 readmtx, outmtx, out, intr, died, found>>

(* reset_buffer, then unmap_file, which closes the descriptor.             *)
ResetUnmap(w) ==
  /\ Step(w, "reset", "lock")
  /\ buf' = [buf EXCEPT ![w] = << >>]
  /\ fate' = [fate EXCEPT ![fi[w].name] = "searched"]
  /\ CloseFd(w)
  /\ UNCHANGED <<mpc, dvars, n, pipe, wropen, rdopen, names,
                 readmtx, outmtx, out, intr, died, found>>

(* munmap fails: die() exits with the descriptor still open.               *)
UnmapDies(w) ==
  /\ Step(w, "reset", "reset")
  /\ buf' = [buf EXCEPT ![w] = << >>]
  /\ died' = TRUE
  /\ UNCHANGED <<mpc, dvars, fi, n, fdtab, pipe, wropen, rdopen, names,
                 readmtx, outmtx, out, intr, hist>>

(* destroy_buffer, kmp_finish, close of the worker's result pipe.          *)
WorkerEnd(w) ==
  /\ Step(w, "finish", "done")
  /\ buf' = [buf EXCEPT ![w] = << >>]
  /\ UNCHANGED <<mpc, dvars, fi, n, fdtab, pipe, wropen, rdopen, names,
                 readmtx, outmtx, out, intr, died, hist>>

WorkerStep(w) ==
  \/ WorkerInit(w) \/ LockRead(w) \/ ReadPipe(w) \/ UnlockRead(w)
  \/ MapEmpty(w) \/ MapDies(w) \/ MapFile(w)
  \/ Match(w) \/ NoMatch(w)
  \/ LockOut(w) \/ PrintName(w) \/ PrintBody(w) \/ UnlockOut(w)
  \/ ResetUnmap(w) \/ UnmapDies(w) \/ WorkerEnd(w)

-----------------------------------------------------------------------------
(* main(): the pipes exist and the mutexes are initialised in Init.        *)

StartDispatcher ==
  /\ mpc = "init" /\ mpc' = "spawn"
  /\ dpc = "unborn" /\ Goto("walk")
  /\ UNCHANGED <<fts, todo, cur, dfd, wvars, fdtab, pipe, wropen, rdopen, names,
                 readmtx, outmtx, out, intr, died, hist>>

StartWorker(w) ==
  /\ mpc = "spawn"
  /\ Step(w, "unborn", "born")
  /\ mpc' = IF \A v \in Worker \ {w} : wpc[v] # "unborn" THEN "join" ELSE "spawn"
  /\ UNCHANGED <<dvars, fi, n, buf, fdtab, pipe, wropen, rdopen, names,
                 readmtx, outmtx, out, intr, died, hist>>

(* Mutant: only the dispatcher is joined.                                  *)
JoinDispatcherOnly ==
  /\ mpc = "join"
  /\ dpc \in {"done", "returned"}
  /\ mpc' = "destroy"
  /\ UNCHANGED <<dvars, wvars, fdtab, pipe, wropen, rdopen, names,
                 readmtx, outmtx, out, intr, died, hist>>

(* pthread_join of the dispatcher and of every worker.                     *)
JoinAll ==
  /\ mpc = "join"
  /\ dpc \in {"done", "returned"}
  /\ \A w \in Worker : wpc[w] = "done"
  /\ mpc' = "destroy"
  /\ UNCHANGED <<dvars, wvars, fdtab, pipe, wropen, rdopen, names,
                 readmtx, outmtx, out, intr, died, hist>>

(* pthread_mutex_destroy, twice, then sf_exit closes the pipe's read end.  *)
DestroyAndExit ==
  /\ mpc = "destroy" /\ mpc' = "exit"
  /\ rdopen' = FALSE
  /\ UNCHANGED <<dvars, wvars, fdtab, pipe, wropen, names,
                 readmtx, outmtx, out, intr, died, hist>>

Main ==
  \/ StartDispatcher
  \/ \E w \in Worker : StartWorker(w)
  \/ JoinAll \/ DestroyAndExit

-----------------------------------------------------------------------------
(* The process is over, by return from main() or by die().                 *)
Over == died \/ mpc = "exit"

Terminated == Over /\ UNCHANGED vars

Next ==
  \/ ~died /\ (Dispatcher \/ Main \/ \E w \in Worker : WorkerStep(w))
  \/ Terminated

(* Every thread that can run is eventually scheduled.                      *)
Fairness ==
  /\ WF_vars(~died /\ Dispatcher)
  /\ WF_vars(~died /\ Main)
  /\ \A w \in Worker : WF_vars(~died /\ WorkerStep(w))

Spec == Init /\ [][Next]_vars /\ Fairness

-----------------------------------------------------------------------------
(* Properties.                                                             *)

WorkerPc == {"unborn", "born", "lock", "read", "unlock", "map", "match",
             "print", "name", "body", "unlockout", "reset", "finish", "done",
             "dead"}

(* A worker owns an open file from the read of the record to the close.    *)
Busy(w) == \/ wpc[w] \in {"map", "match", "print", "name", "body",
                          "unlockout", "reset"}
           \/ wpc[w] = "unlock" /\ n[w] = "record"

Matches == Entry \X Nat

(* Every variable stays in its type.                                       *)
TypeOK ==
  /\ fts \in BOOLEAN
  /\ mpc \in {"init", "spawn", "join", "destroy", "exit"}
  /\ dpc \in {"unborn", "walk", "open", "scan", "send", "done", "returned"}
  /\ todo \in SUBSET Entry
  /\ cur \in Entry \cup {NoFile}
  /\ dfd \in Fd \cup {NoFile}
  /\ wpc \in [Worker -> WorkerPc]
  /\ fi \in [Worker -> Rec \cup {NoRec}]
  /\ n \in [Worker -> {"none", "record", "eof", "error"}]
  /\ buf \in [Worker -> Seq(Matches)]
  /\ fdtab \in [Fd -> Entry \cup {NoFile}]
  /\ pipe \in Seq(Rec)
  /\ wropen \in BOOLEAN /\ rdopen \in BOOLEAN /\ died \in BOOLEAN
  /\ names \in SUBSET Entry
  /\ readmtx \in Worker \cup {NoOne}
  /\ outmtx \in Worker \cup {NoOne}
  /\ out \in Seq([kind : {"name", "body"}, of : Entry, text : Seq(Matches)])
  /\ intr \in Nat
  /\ fate \in [Entry -> {"unseen", "unopened", "nofd", "binary", "queued",
                         "empty", "searched"}]
  /\ found \in [Entry -> Nat]

(* The dispatcher owns an open file from open() to the write to the pipe.  *)
Sending == dpc \in {"scan", "send"}

(* The descriptor in every record in flight (held by the dispatcher,       *)
(* queued in the pipe, held by a worker) refers to the very file the       *)
(* record names, although numbers are closed and reused all the time, and  *)
(* the heap copy of the name is still allocated when it is printed: no     *)
(* thread closes a descriptor or frees a name it does not own              *)
(* (thread.c:97, 140, 256 and unmap_file in file.c:44).                    *)
RecordsValid ==
  /\ Sending => fdtab[dfd] = cur
  /\ \A i \in 1..Len(pipe) : /\ fdtab[pipe[i].fd] = pipe[i].name
                             /\ pipe[i].name \in names
  /\ \A w \in Worker : Busy(w) =>
       /\ fdtab[fi[w].fd] = fi[w].name
       /\ wpc[w] # "reset" => fi[w].name \in names

(* No descriptor leaks on any path: each open one is held by exactly the   *)
(* dispatcher, a queued record or a worker that will close it.             *)
NoFdLeak ==
  \A d \in Fd : fdtab[d] # NoFile =>
    \/ Sending /\ dfd = d
    \/ \E i \in 1..Len(pipe) : pipe[i].fd = d
    \/ \E w \in Worker : Busy(w) /\ fi[w].fd = d

(* open() runs out of descriptors (and the dispatcher drops the file       *)
(* silently, thread.c:246-249) only if the limit is no larger than what    *)
(* the pipe and the workers hold when both are full.                       *)
DescriptorsSuffice ==
  PipeCap + Cardinality(Worker) < Cardinality(Fd) =>
    \A e \in Entry : fate[e] # "nofd"

(* The report of a file is one block on stdout: its name, directly         *)
(* followed by its matches, whatever the other workers print (outmtx,      *)
(* thread.c:135-139).                                                      *)
ReportsNotInterleaved ==
  \A i \in 1..Len(out) :
    IF out[i].kind = "body"
    THEN i > 1 /\ out[i-1].kind = "name" /\ out[i-1].of = out[i].of
    ELSE \/ ListOnly
         \/ i < Len(out) /\ out[i+1].kind = "body" /\ out[i+1].of = out[i].of
         \/ i = Len(out) /\ \E w \in Worker : wpc[w] = "body" /\ fi[w].name = out[i].of

(* The matches printed under a file's name are all the matches found in    *)
(* that file, in order, and none of another file: the thread-local buffer  *)
(* is reset between files (thread.c:144).                                  *)
ReportComplete ==
  \A i \in 1..Len(out) : out[i].kind = "body" =>
    LET e == out[i].of IN out[i].text = [k \in 1..found[e] |-> <<e, k>>]

(* An entry the walk must not reach: a repository or what is below one, or *)
(* anything inside a directory for the readdir walk.                       *)
Hidden(e) == IF fts THEN \E v \in Vcs : e = v \/ e \in Below[v]
                    ELSE \E d \in Entry : e \in Below[d]

Printed(e) == {i \in 1..Len(out) : out[i].kind = "name" /\ out[i].of = e}

(* When main() is past the joins, every regular file the walk covers       *)
(* has been dropped for a reason the code has or searched to its end, and  *)
(* it was reported exactly once if it has a match and never otherwise.     *)
EveryFileAccounted ==
  mpc \in {"destroy", "exit"} =>
    \A e \in Regular :
      /\ fate[e] \in IF Hidden(e) THEN {"unseen"}
                     ELSE {"unopened", "nofd", "binary", "empty", "searched"}
      /\ Cardinality(Printed(e)) =
           IF fate[e] = "searched" /\ found[e] > 0 THEN 1 ELSE 0

(* The names still allocated at the end are those of the files without a   *)
(* report, which nobody frees: free() is in the branch that prints         *)
(* (thread.c:134-141), and an empty file takes an earlier exit (thread.c:  *)
(* 95-98).  A name is freed with its report and not before.                *)
NamesLeftOver ==
  mpc \in {"destroy", "exit"} =>
    names = {e \in Regular : \/ fate[e] = "empty"
                             \/ fate[e] = "searched" /\ found[e] = 0}

(* A worker leaves its loop only when nothing is left to read: no record   *)
(* is stranded in the pipe by a worker that took end of file too early.    *)
NoEarlyExit ==
  \A w \in Worker : wpc[w] \in {"finish", "done"} => pipe = << >> /\ ~wropen

(* main() destroys the mutexes and closes the pipe's read end only after   *)
(* every thread is gone: no thread can block on a destroyed mutex, and the *)
(* dispatcher never writes to a pipe without reader (main.c:115-119).      *)
QuietShutdown ==
  mpc \in {"destroy", "exit"} =>
    /\ readmtx = NoOne /\ outmtx = NoOne
    /\ dpc \in {"done", "returned"}
    /\ \A w \in Worker : wpc[w] = "done"

(* The dispatcher is gone with the write end of the pipe open, and every   *)
(* worker waits for input or for the worker that does.                     *)
Stranded ==
  /\ dpc = "returned" /\ wropen /\ pipe = << >>
  /\ \A w \in Worker : wpc[w] \in {"lock", "read"}

(* Every search of the build with fts ends, whatever open(), read() and    *)
(* mmap() answer: main() returns or some thread dies.  So does the readdir *)
(* search, except that a failed opendir() or open() makes its dispatcher   *)
(* return without closing the pipe (thread.c:169-172, 186-189): then all   *)
(* workers wait for ever.                                                  *)
TerminatesOrStranded == <>Over \/ (~fts /\ <>[]Stranded)

===============================================================================
