# ssearcher: a TLA+ model

`sf` searches the files below the current directory for a string: a dispatcher
thread walks the tree and sends one record per text file through a pipe to two
worker threads, which map, match and print the files. This directory holds TLA+
models of that program, the TLC configurations that check them on small
instances, and proofs of the main results that `tlapm` checks for every
instance. `PROJECT.json` relates each definition to the lines it models.

To check: `tlc -config MC_X.cfg MC_Module` for a run, `tlapm XProofs.tla` for
the proofs.

## The system

| part | state | operations | hard because |
|---|---|---|---|
| `main.c` | pipes, mutexes, thread ids | `sf_init`, `test_procon`, `sf_exit` | tears down what the threads share |
| dispatcher, `thread.c:159` | the walk, one open file | fts walk (built), readdir walk (without `ENABLE_FTS`) | hands descriptors and heap strings to other threads; three early exits |
| workers, `thread.c:67` | `fileinfo`, thread-local buffer | read a record, map, match, print, unmap | two mutexes, one held across a blocking `read`; shared stdout |
| `file.c` | the mapping | `map_file`, `unmap_file` | `die()` in the middle of everything |
| `match.c` | thread-local pattern and table | `kmp_prepare`, `kmp_match`, `kmp_finish` | index arithmetic over a sequence of calls |
| `buffer.c` | thread-local `buf`, `cap`, `off` | `init`/`write`/`writef`/`writeline_color`/`reset`/`destroy_buffer`, `buffer_grow` | room asked for before it is known what is written; `size_t` differences |
| `util.c` | the trie | insert, lookup, scan, destroy | one walk with two flags for three operations |
| `magic.c` | the signature trie | `magic_init`, `magic_scan`, `magic_fini` | an uninitialised array behind a short read |
| rope list, `buffer.c:33-129`, `util.h` | an intrusive list | `buf_init`, `buf_write`, `buf_dump`, `buf_destroy` | frees the ropes it walks along; used by tests only |
| `options.c` | `opt` | `parse_options` | fall-through with an index that may not be set |
| `snippets/lcrq.c` | list of rings | enqueue, dequeue | lock-free; an algorithm the repository's README names, not linked |
| `snippets/test_worker.c` | task slots, their bitmap, two mutexes, a condition | `thread_pool_init`, `thread_add_task`, `thread_pool_wrapper`, `thread_pool_destroy` | a signal may wake the wrong worker or nobody; a wait without its mutex; an unlock in one branch only |
| `snippets/test_pipe.c` | demo | walk, two readers of one pipe | an earlier form of the pipeline |

Interaction: `main` creates the pipe `pipefd` and the threads. The dispatcher is
its only writer and closes it when the walk is over; the workers read it one at
a time under `readmtx` and take a read of 0 bytes for the end. A record carries
a descriptor number and a pointer; with the record, the duty to close the one
and to free the other passes to the worker. Reports go to stdout under
`outmtx`. Everything else (`buf`, `kmp_table`) is `__thread`.

What makes each part correct: a record always refers to the file it names, no
descriptor leaks, no file is lost or reported twice, reports are whole and
contain the file's matches only, the program ends, and nothing is destroyed
that a thread may still use; a reported match is one, in order, and none is
missed; writes stay in the buffer and the report is what was written; the trie
is a set; a binary file is rejected and a text file is not; the rope list prints
what was written and frees it; the pool runs a task at most once and ends.

## The modules

| module | models | state and steps |
|---|---|---|
| `Searcher` | `main.c`, `thread.c`, `file.c` | one step per call that changes shared state; program counters for the three kinds of thread |
| `SearcherProofs` | | theorems about `Searcher` |
| `Kmp`, `KmpProofs` | `match.c`, the loop `thread.c:114-130` | one file; one step per iteration |
| `ResultBuffer`, `BufferProofs` | a worker's files: `Kmp` composed with `buffer.c` and `worker_writebuffer` | one step per iteration of the matcher, per write, and per doubling in `buffer_grow` |
| `TrieSet` | what `util.c` answers (as `test_trie.cpp` expects) | a set of byte strings and the last answer |
| `Trie`, `TrieProofs` | `util.c` | a node is the path to it; one step per iteration of `trie_walk`, per `free` of `trie_destroy` |
| `Magic`, `MagicProofs` | `magic.c` | over the keys of the trie; the array is a choice |
| `RopeLog` | what the rope buffer promises | a log of texts |
| `RopeList`, `RopeProofs` | rope list of `buffer.c`, `util.h` | memory as functions from addresses; one step per iteration of the loops |
| `ThreadPool`, `PoolProofs` | `snippets/test_worker.c` | one step per access to shared state of `main` and the workers |
| `Lcrq`, `LcrqProofs` | `snippets/lcrq.c` | one step per access to shared memory of `enqueue`, `dequeue`, `close_crq`, `fixState` |
| `MC_*` | | values for the constants |

`Searcher` is the composition: it takes the matcher as "finds one more match or
not", the binary test as "says binary or not", and the buffer as the sequence
of matches written to it. What it assumes of them is what the other modules
show of them. `ResultBuffer` composes the matcher with the buffer: a step of `Kmp`
that reports a match queues its writes, the matcher waits until they are made,
and the number that is written is the one it counted. `Magic` takes the trie as
the set `TrieSet` that `Trie` is shown to implement. `fate` and `found` in
`Searcher` and `hits` in `Kmp` record what happened, for the properties; no guard
but the bound `MaxMatch` reads them.

Correspondence worth knowing:

* `open()` returns the lowest free descriptor, as POSIX says, so numbers are
  reused at once. `OpenFails` may happen at any time, not only at the limit.
* A walk returns an entry after the directories above it. Repository entries
  (`.git`, `.svn`, `.hg`) are skipped with their subtree; the readdir walk knows
  no repositories and enters no directory.
* `read` of the pipe returns a record, end of file when the pipe is empty and
  closed for writing, or an error (at most `MaxIntr` times). A record is smaller
  than `PIPE_BUF`, so it is never torn. The write cannot fail: the read end is
  open until all threads are gone, which `QuietShutdown` shows.
* A worker's `fileinfo` is forgotten when its file is closed; the code never
  looks at it again before the next read fills it.
* In `Kmp`, a match ends a call of `kmp_match` and starts the next one in the same
  step, with the `startpos` the worker computes.
* `ResultBuffer` starts with the first file mapped; the text of no bytes stands
  for no file, in a worker that reads no record and between two files. An empty
  file is skipped (`map_file` fails for it). `lastlinum` is the constant 0: the
  code assigns a copy of it only.
* In `ResultBuffer`, `room >= 0` is the case in which the `size_t` difference of
  `buffer.c:298` does not wrap. The colour codes are runs of marked bytes, so
  that their place in the output is part of what is checked.
* In `RopeList`, `malloc` returns any free rope, with nothing in it, so an
  address comes back in every later role, and a loop that read a freed rope
  would find `Junk`. The buffer may be initialised again after `buf_destroy`.
* In `ThreadPool`, `pthread_cond_signal` wakes any one waiting worker, a wait may
  return without a signal, and a worker's first wait, which it enters without
  `mutex`, releases it for whoever holds it, as glibc does with a normal mutex
  (the standard leaves it undefined). `g_flag` is not volatile, but the
  repository compiles with `-O0` (`common.mk:4`), so `simple` reads it anew each
  turn. `main` of the demo adds two tasks; the model adds up to `MaxTask`, which
  is what shows the full pool.
* In `Lcrq`, the closed bit of a tail and the unsafe bit of an index are fields
  of their own, `CAS2` compares and replaces a whole cell, and differences that
  wrap in `uint64_t` are `WrapGeq` and `PredLeq`. Any thread may call either
  operation at any time, which includes the benchmark's alternation
  (`lcrq.c:399-410`). Values are distinct, so that each can be followed; a cell
  takes only one value per index, so the code cannot tell. `prec`, `older` and
  `seen` record who came before whom. A local that is dead is reset.

## What the runs show

Passing:

| run | properties | bounds |
|---|---|---|
| `searcher_safety` | `RecordsValid`, `NoFdLeak`, `DescriptorsSuffice`, `ReportsNotInterleaved`, `ReportComplete`, `NamesLeftOver`, `NoEarlyExit`, `QuietShutdown` | fts walk; 2 workers (as `NCPU`), 5 files and a repository with one, 4 descriptors, 1 record in the pipe, 1 match per file, 1 failed read |
| `searcher_live` | `EveryFileAccounted`, `TerminatesOrStranded` | both walks, names only; 2 workers, 2 files and a repository, 2 descriptors |
| `worker` | of the matcher `TypeOK`, `TableHoldsBorders`, `Sound`, `CompleteIfTableIs`, `LineNumbers`, `Terminates`; of the buffer `WithinCapacity`, `TerminatorFits`, `ReportIsExcerpts`, `GrowTerminates` | patterns up to 4 of two letters; any sequence of texts up to 7, and up to 6 with newlines; buffer of 6 bytes, limit 4 |
| `trie` | `Connected`, `NoDeadBranch`, `ImplementsTrieSet`, `DestroyFreesAll` | strings up to 3 over 2 bytes, any sequence of calls |
| `rope` | `NoUseAfterFree`, `DestroyFreesAll`, `ImplementsRopeLog` | 4 ropes, 2 texts, any sequence of calls |
| `pool` | `SlotsConsistent`, `TasksConserved`, `DroppedUnseen`, `SerialUnlessStolen`, `QuietDestroy`, `PoolEnds` | 2 workers (as `WORKER_ENABLE`), 2 to 4 tasks, 2 spurious wakeups |
| `lcrq` | `TypeOK`, `TakenOnce`, `NothingIsLost`, `Fifo`, `EmptyIsHonest` | 2 threads, 3 operations each, 3 rings of 2 cells, 4 tickets per ring, forced close at the second try, 1 turn of waiting, starting empty or half full |
| `magic` | `BinaryIsRejected`, `TextIsAccepted` | 3 bytes, 5 signatures, files up to 4, every content of the array |

Why the bounds are enough: in `searcher_safety` the pipe and the workers can hold
three files, so four descriptors are the least with which `DescriptorsSuffice`
promises something, and six regular files (the one inside the repository
is skipped) reuse every number; in `searcher_live` two descriptors run out. With
more files than workers a worker processes a second file while the other one
prints. The
patterns include every shape of border that the matcher treats differently (none,
one, nested, a border that breaks off). The buffer is small enough that every
write can be the one that grows it, once or twice, some matches lie beyond
the line limit, some lines have several matches, and some matches are reported
under a number that is too large. The signatures include one that starts another. Rings of two
cells wrap, fill up and are closed within three operations per thread, and three
rings let both threads allocate one and one of them fail to link it. Four ropes
make a list with two inner ones, and reuse after a destroy; nothing in the code
looks at more than two neighbours. With two workers a signal can reach the wrong
one, the third task finds the pool full, the fourth meets the lock that the
third left, and two spurious wakeups let each worker see its slot unasked.

`searcher_live` turns the deadlock check off, because the stranded state of the
readdir walk is one; `TerminatesOrStranded` says exactly which one, and that
only this walk has it. `pool` does so too: `main` ends, or all wait in one of the
two states that `PoolEnds` names. All other runs check deadlock; the end of a
program is a step that changes nothing.

Runs that end in a violation, each of what a comment or an assertion says:

| run | the code does | the source says |
|---|---|---|
| `kmp_complete` | misses `abaaa` in `abaabaaa`: the table drops to 0 and the matcher falls back once | "use KMP algorithm" (`match.c:47`) |
| `buffer_limit` | copies the line up to the end of the match whatever the limit is (`buffer.c:289, 293`), so a match that ends behind it is written behind the room asked for; the limit of the rest (`buffer.c:298`) is then a `size_t` difference that wraps | "total length within `len'" (`buffer.c:258`) |
| `line_once` | writes a line once per match in it: `worker_writebuffer` sets a copy of `lastlinum`, so the branch that amends the last line is never taken | "line number of last match, used to mark matches in the same line" (`thread.c:107-108`) |
| `magic_short` | judges a short file by uninitialised bytes | "test whether the file is binary" (`thread.c:252`) |

Three more disagreements show in what a passing run states; the first two are
findings of `PROJECT.json`, the third is in its hazards. A newline that `kmp_match`
meets after a failed fallback is counted once per iteration (`aaa` in
`aa\naaa` is reported on line 3), against "line number of every match result"
(`thread.c:106`); `LineNumbers` states when the number is exact, and the report
(`ReportIsExcerpts`) shows the number that was counted. `trie_scan` returns leaves
only, as `test_trie.cpp:136-139` expects, against "regardless of whether it is a
leaf" (`util.c:67`); `TrieSet` states what it does return. The buffer grows only when
`off + len > cap`, so it can be filled to its last byte, against
`assert(strlen(buf) == off)` (`buffer.c:306`), and is then printed without
terminator; `TerminatorFits` states when this happens: only for a line as long
as the limit.

A further loss is in `snippets/lcrq.c`, where no comment speaks of it. A dequeuer
that has found a ring used up (line 365) moves the global head to the next ring
(line 371) without looking at the tail again; items enqueued in between, before
another enqueuer closed the ring, are never dequeued. `NothingIsLost` and
`EmptyIsHonest` hold of every other item; `LeftBehind` names these. The bounds of
`lcrq` are too small for it to happen in rings of two cells; with `RING_SIZE = 1`
and the other values as they are, it does, and both properties still hold.

`CompleteIfTableIs`, `LineNumbers`, `WithinCapacity`, `TerminatorFits`,
`ReportIsExcerpts`, `NamesLeftOver` and `TextIsAccepted` state the part that does hold, with the
condition under which it does.

In `snippets/test_worker.c`, where no comment speaks of it either, a task may
never be run: the signal went to the other worker, and the next wakeup of its own
was the tear-down (`DroppedUnseen` says that only tasks nobody had seen yet meet
this). The search for a slot keeps `pool_mutex` when it finds none
(`LockKept`), and a worker that is busy during the broadcast waits for ever
(`MissedBroadcast`). `PoolEnds` says that nothing else keeps the program
from ending.

Every property of a passing run has a mutant: an operator beside the definition
it replaces, marked `Mutant` in its comment, that changes it as a slip in the
code would, and under which TLC refutes the property.

Fairness: weak fairness of each thread of `Searcher`, which is what a scheduler
gives to a runnable thread. No fairness of the mutexes is assumed: a worker may
be passed over for ever at `readmtx`, but only while others make progress. `Kmp`,
`Trie` and `ResultBuffer` assume that a call once begun keeps running. `ThreadPool`
has weak fairness of `main` and of what each worker does by itself; none for a
spurious wakeup, and `main` need not add a third task.

## What is proved

For every value of the constants that satisfies the assumptions of the module.
Every invariant and every action property that a passing run checks is also a
theorem. Each strengthened invariant below was first checked with TLC on the
instance of its run.

* `SearcherProofs`, in the order of its sections:
  * `TypeCorrect`: the types need to know that whoever is busy with a file holds
    a record (`TInv`).
  * `NobodyLeavesEarly`, `ShutdownIsQuiet`: `SInv` says which program counters
    hold which mutex, that end of file is only ever read from an empty and
    closed pipe, and that `main` is past the joins only when all are done.
  * `DescriptorsMatchNames`, `DescriptorsDoNotLeak`: `RecordsValid` is not
    inductive. That closing one descriptor invalidates no other record needs
    that no two holders (dispatcher, queued records, workers) share a descriptor
    or a name (`Apart`, `Named` in `RInv`).
  * `ReportsAreWhole` follows from the owner of `outmtx` being the only one
    between the name and the body. `ReportsAreComplete` needs that the buffer of
    a worker is exactly the matches found so far in its file (`Buffers`), that a
    file not yet taken has none (`Fresh`), and that a file already printed is
    searched no more (`BodiesSettled`).
  * `DescriptorsAreEnough`: the open descriptors are covered by the holders, and
    there are at most as many of these as places in the pipe, workers and the
    one file of the dispatcher; with one descriptor more, `open` finds one.
  * `FilesAreAccounted`, `OnlyUnreportedNamesLeft`: as long as nobody died, every
    entry is in exactly one place (to be visited, at the dispatcher, in the
    pipe, with a worker, or settled with a fate: `Fates`), a skipped directory
    takes its subtree with it (`Pruned`), a report is printed for a file with
    matches and once (`PrintsMatches`, `PrintedOnce`), and a name is allocated
    while its record is under way and after that only if there was no report
    (`NamesKept`). `Ends` says that the dispatcher is done when nothing is left to
    visit; that the pipe is drained by then is in `SInv`.
* `KmpProofs`: `TypeCorrect` (no index leaves the pattern or the text),
  `TableIsSound` and `MatchesAreSound`. The invariant is that the table holds
  borders, and that the characters before the cursor are a prefix of the
  pattern; a border of a prefix that matches is a prefix that matches.
  `LinesNeverFallBehind`: the counter is at least the newlines before the cursor,
  and equal to them for a pattern without borders (`CounterKeepsUp`).
  `NothingIsMissed`: every occurrence before the place where the pattern stands
  was reported or overlaps a report (`MInv`); one that starts inside the window
  starts where the fallback puts the pattern, because the borders of a prefix
  are all known (`OnlyTheFallback`).
* `TrieProofs`: `TrieImplementsSet`. Each return of `trie_walk` is the step of
  `TrieSet` with the same answer and every other step a stutter; the invariant
  says that the walk is on a prefix of its target, that a scan has met no leaf so
  far, and that the path of every key is allocated. `NodesStayConnected`,
  `BranchesEndInKeys` (only the insert under way has a branch without a key), and
  `DestroyLeavesNothing`, the safety part of `DestroyFreesAll`: nodes are freed
  bottom up, so the root goes last. `TypeCorrect`.
* `BufferProofs`, about `ResultBuffer`: `MatcherKeepsItsPromises` carries the
  properties of `KmpProofs` over to a worker, since each of its steps is a step of
  `Kmp`, leaves the matcher alone, or starts it on the next file with the table it
  has. `BufferIsNeverOverrun`. Each queued write fits in the room it
  asks for, if matches end within the limit; growing provides the room.
  `ReportIsTerminated`: the two writes of an excerpt ask for more than they use
  unless the line is as long as the limit. `ReportIsTheExcerpts`: what is in the
  buffer and what is queued together fall into the excerpts (`FallsInto`, for
  some table of offsets). The property names the offsets by a recursive function;
  that two tables with the same steps agree is shown by a least counterexample
  (`OffsetsAreUnique`), since no induction rule is available. That the text at a
  reported position is the pattern, which the excerpt shows, is `Sound` of the
  matcher. `BufferTypeCorrect`.
* `RopeProofs`: `LoopsStayOnRopes`, `DestroyIsComplete`, `ListIsRing`,
  `RopeImplementsLog`, `TypeCorrect`. The invariant relates memory to the
  sequence of ropes in the order of their writes: they are distinct and exactly
  the allocated ones (`Held`), linked both ways between the calls (`RingIntact`),
  a dump stands behind the texts it has printed (`Dumping`), and a destroy has the
  rest of the list in front of it, although the list head still points to
  a rope that is gone (`Destroying`). Each call that returns is a step of
  `RopeLog`, each iteration a stutter.
* `PoolProofs`: `SlotsAreConsistent`, `WorkersAreSerial`, `DroppedTasksUnseen`,
  `DestroyIsQuiet`, `TypeCorrect`, for any number of workers and tasks. Slots are
  handed out by counting the workers that have one (`Numbering`); the bitmap
  lags behind the slots by the one about to be marked (`Bits`); `pool_mutex` and
  `mutex` are held where the code is between lock and unlock (`PoolLock`,
  `MutexLock`, the latter until a lock is stolen); a task has one slot, and one
  that was seen has its worker at it (`SeenIsServed`). `TasksAreConserved`: the
  slots fill up from the first while `main` adds (`Filling`), and no two workers
  have the same slot (`Ids`), so a task leaves its slot with its one run
  (`Whereabouts`).
* `MagicProofs`: `BinaryFilesAreRejected`, `LongTextIsAccepted`. The trie holds
  exactly the entries read so far (`TableLoaded`); what a scan meets of the array
  behind a short file decides only when an entry is longer than the file.
* `LcrqProofs`, for any number of threads, rings, cells and operations, along four
  invariants, each of which uses the ones before it:
  * `TypeCorrect`, `NothingIsTakenTwice` (`IInv`). A ring is `Live` once it is linked;
    before that it is the spare ring of one thread (`Spares`) and no pointer leads
    to it (`Pointers`), so the copy of a value in a ring that lost the race to be
    linked cannot be dequeued. The argument of an enqueue under way is in no live
    cell and was not taken (`Arguments`, `FreshArgument`); a value is in one live
    cell (`OneCell`) or was taken once (`CellsHold`, `TakenDiffer`); and a dequeuer at
    its compare-and-swap has seen a value (`Found`). That the index of a cell stays
    congruent to its place (`Congruent`) rests on `NextRound`.
  * `EveryItemIsAwaited` (`TInv`). A dequeue ticket that was drawn is held, or its
    cell has an index beyond it or is unsafe (`Passed`). So as long as the
    compare-and-swap of an enqueuer can succeed (`Free`), nobody is done with its
    ticket or a later one of that cell (`Clear`): if the cell was unsafe, the
    enqueuer has seen that the head is not past the ticket, and what it read has
    not changed since (`Sounds`; an index never goes back). Hence an item's ticket
    is held or not drawn yet (`Ahead`). What is not taken is in a live ring
    (`Stored`), and the live rings are one chain (`Chain`), so a ring that the head
    cannot reach has a successor.
  * `EmptyMissesNothing` (`EInv`). The ticket of an item was handed out (`Below`), so
    a dequeuer that finds the tail not beyond its ticket has passed every item of
    the ring that it had to see (`UsedUp`); later items do not count. The head is
    never behind the ring a dequeuer is at (`Led`), so at the end of the chain
    there is no other ring to look at.
  * `FirstInFirstOut` (`FInv`). Along the chain, which has no cycle (`OneWay`), and
    by index within a ring, an item is behind those enqueued before its enqueue
    began (`InOrder`), because an enqueuer that reads the global tail is
    (`TailAhead`, `Follows`): only the item of a ring that is linked and not
    published can be ahead of the tail, and its enqueue has not returned. When the
    item is taken, the head is past the earlier ones (`HeadAhead`), and so is every
    dequeuer that begins after that (`Later`). A dequeuer at its compare-and-swap
    holds the index of its item as its ticket, which an earlier item is below.

  Each of the last three has one predicate for what a step does not touch
  (`Calm`, `Strikes`, `Draws` and `Attaches` for what happens to the rings, `Steady` for
  all of them), so that the other threads' part is proved once and each action
  only for the thread that takes it.

Assumptions on constants that are more than types: what is below an entry that
is below a directory is below that directory; descriptors, workers and rings are
finite; no pattern is empty; no entry of the table (at most `MENTRY_LEN` = 9
bytes, `magic.h:4`) is longer than the 16 bytes of `magic_buf`; `NULL` is no thread
and no ring. In `Lcrq`, `MaxIndex`, a bound of the model, is at least what a
half-full start needs, and `Empty` is no value (`ValueAssumption`): the benchmark
enqueues thread numbers (`lcrq.c:401`) and starts with zeros (`lcrq.c:183`), never -1.

The type invariants of `Searcher`, `Trie`, `ResultBuffer`, `RopeList` and
`ThreadPool` are proved and no longer model-checked.

Model-checked only:

* `Terminates` of `Kmp`, `TerminatesOrStranded`, `GrowTerminates`,
  `DestroyFreesAll` of `Trie` and `PoolEnds`, because liveness is beyond the prover.
* The four refuted properties, which have counterexamples.

## What is not modelled

* File contents in `Searcher`, files that change while they are read, files of
  2 GiB and more (`int` positions wrap), zero bytes inside a file, and the byte
  behind a mapping whose size is a multiple of the page size.
* `pipe`, `malloc` and `pthread_create` failing at the start.
* An empty pattern, and patterns with a newline.
* Hazard pointers and statistics of `lcrq.c`, and memory reclamation of rings.
* `parse_options`: it runs once, before any thread; what it returns (the pattern,
  `list_matching_files`) are constants of the other modules. Its case `l` falls
  through to a use of an unset index, which is undefined from there on.
  `opt.input_dirs` and `opt.input_file` are read by nothing.
* `sf_check_buffer`, which nothing calls, and the result pipes it would poll.
* `amendline_color_buffer`: `worker_writebuffer` cannot reach it, because it
  compares with a copy of `lastlinum` that stays 0; and `writeline_buffer`,
  `rope_set`, `rope_tear`, `rope_join` and `list_add`, which the program never
  calls.
* `snippets/test_pipe.c`, an earlier form of the pipeline (bare descriptors, two
  readers without a mutex); `snippets/trie.c`, an earlier copy of `util.c`;
  `file-mt.c` and `filemagic.c`, which keep no state.

## Plan

Done: the pipeline with both walks, the matcher, the buffer, the trie, the
binary test, the rope list, the thread pool, the lock-free queue, and proofs of
their safety: every invariant, action property and refinement that a run checks
is proved, and liveness is model-checked. What is left of the repository is
listed above.
