# Verification of lfu

TLA+ models of lfu, the Lustre find utility, and of the scripts under
`docs/rounds/` that carry its review fixes through a stack of commits.  The models
are checked with TLC on small instances.  The safety of the ring and its control
plane, of the live scanner on it, of the scan dispatcher and its counters, of the
filter, of the two threaded measuring modules, of the stack drivers, the fork
rewrite and the replies is also proved with TLAPS, for every value of the constants.
`PROJECT.json` is the machine-readable index: components, runs, mutants, the map
from every definition to its source lines, findings, hazards and theorems.

## The system

`lfind` answers questions about files ("older than a week, larger than 1 GiB, in
pool flash") by walking the inode table of a Lustre metadata target (MDT) rather
than its namespace.

```
 lfind.c ── picks and execs one of ──┐
                                     ▼
   lfu_main()  options → struct lfu_filter           lfu_core.c, lfu_filter.c
   lfu_scan()  worker threads × chunks of the target       lfu_core.c
        │ ops table
        ├── ldiskfs  unmounted device, libext2fs           lfu_scan_ldiskfs.c
        ├── zfs      unmounted dataset, libzpool           lfu_scan_zfs.c
        └── kmdt     live MDT, reads /dev/lfu_ring         lfu_scan_kmdt.c
                          ▲ read(), ioctl()
                          │
   lfu_ring  kernel module: producer thread → filter → ring    kernel/lfu_ring.c
   lfu_par, lfu_fanout, lfu_it  one-shot measuring modules     kernel/
```

The filter evaluator `lfu_filter_eval.c` is compiled into both homes: the device
backends run it in the scanner, the ring runs it in the kernel (pushdown).  It
works in two tiers.  Tier 0 needs only inode attributes, tier 1 needs xattrs that
are fetched only when some predicate demands them.  A verdict is match, no match
or *unknown*, when only an OST could tell.

The second subsystem is what the repository keeps of the upstream review.  The
code goes to Gerrit as a stack of some eighteen to sixty commits; a round of review
fixes is a table of text edits, each with the first commit it is for, and a script
that makes the edits in every tree of the stack and rebuilds the commits.

```
 table of edits ──► engine ──► one tree at a time ──► new commits, parents remapped
 T, EDITS, R        transform_text, rep, fn           r3drive, b2bdrive, rebuild: a stack
 (19 rounds)                                          forktx..forktx5: a fork of branches
 REPLIES ──► post_replies ──► one Gerrit call per change and patch set
```

## Inventory

| part | source | module | state |
|---|---|---|---|
| ring: producer, read, release | `kernel/lfu_ring.c` | `LfuRing` | modelled |
| ring: open, ioctls, probe, scratch buffers | `kernel/lfu_ring.c` | `LfuRingCtl`, `LfuQuery`, `LfuKmdt` | modelled |
| dispatcher and workers | `lfu_core.c` | `LfuScan` | modelled |
| one object: class, verdict, counters | `lfu_core.c`, both device backends | `LfuObject` | modelled |
| command line | `lfu_core.c` | `LfuQuery` | partly |
| filter compiler | `lfu_filter.c` | `LfuFilter`, `LfuQuery` | modelled |
| filter evaluator | `lfu_filter_eval.c` | `LfuFilter`, `LfuQuery` | modelled |
| ldiskfs backend | `lfu_scan_ldiskfs.c` | `LfuScan`, `LfuObject`, `LfuQuery` | partly |
| zfs backend | `lfu_scan_zfs.c` | `LfuScan`, `LfuObject`, `LfuQuery` | partly |
| kmdt backend | `lfu_scan_kmdt.c` | `LfuKmdt`, `LfuQuery` | modelled |
| lfu_par | `kernel/lfu_par.c` | `LfuPar` | modelled |
| lfu_fanout | `kernel/lfu_fanout.c` | `LfuFanout` | modelled |
| lfind front end | `lfind.c` | | not modelled: arguments to an exec |
| lfu_it | `kernel/lfu_it.c` | | not modelled: one thread, straight-line |
| emission, summaries | `lfu_core.c`, backends | | not modelled: text only |
| on-disk definitions | `lfu_lustre.h` | | not modelled: layouts and constants |
| edit tables and engines | `docs/rounds/*/{*fix,rebuild,edits_lr,tx_*}.py` | `SeriesEdit`, `DriveTables`, `RebuildTables`, `ForkTables`, `SeriesPass` | partly |
| stack drivers | `r3drive.py` and copies, `b2bdrive.py`, `rebuild.py` | `SeriesDrive` | modelled |
| fork rewrite | `forktx.py` .. `forktx5.py` | `SeriesFork` | modelled |
| replies | `post_replies.py` | `SeriesReplies` | modelled |
| b2-0922 tables | `b2bfix.py`, `genfix.py` | | not modelled: see below |
| small round scripts, benchmark analysis | `fold.py`, `tx_c.py`, ..., `analyse.py` | | not modelled: see below |

The hazards of the code, each at its line and with the properties that would
catch it, are in `PROJECT.json`.

## Modules

**`LfuRing`** has one variable per field of `struct lfu_ring` that is shared, and
the locals of `lfu_producer()` and `lfu_ring_read()`.  A step is one access to
state the other side can see, so `read()` is nine actions and the producer
fifteen.  `wait_event()` is spelled out: queue, test, sleep, and a wake-up takes
one off the queue.  A record is the table position of its object; the verdict of
the filter is a choice among those the filter in force can give.

**`LfuStream`** is what the ring promises its reader: a bounded stream, in table
order, nothing twice.  `LfuRing` implements it (`ImplementsStream`): moving the
head is *Send*, moving the tail is *Receive*.

**`LfuObject`** gives, for one slot of a target, the set of `struct lfu_stats`
counters it bumps on its way through a device backend and `lfu_object()`.
**`LfuScan`** runs `lfu_scan()` over it: threads are created (or not), take
chunks under the lock, walk them one object per step, and report done or an
error; then the main thread joins them and merges their counters.  The two
backends differ in chunk arithmetic and in what ends a walk.

**`LfuFilter`** has the pure part of the filter: what each option compiles into,
what the decoders make of an xattr, what one predicate answers.  Numbers are
modulo `Word`, a bit word is the set of its bits, a shell pattern is the set of
names it matches, and the text of an option is a record of what its parser reads.
**`LfuQuery`** runs it: the option loop and refusals of `lfu_main()`, the kmdt
negotiation, and per object the tier-0 loop, the fetch (any demanded xattr may be
lost, or be too large for the ring's buffer) and the tier-1 loop.
**`LfuMeaning`** says what a command line asks of a *file*, without struct, tiers
or xattr formats, and how Lustre stores such a file; it is the reference for the
verdicts.  It is written from the man page and the comments: where the code differs
from them the reference follows them, and `Disputed` names the options and files
concerned.

**`LfuKmdt`** composes the live-MDT scanner with `LfuRing`: the system calls it
makes are the ring's actions, whose inner steps interleave with the producer and
with signals.

**`LfuPar`** is `lfu_par.c`: start of the kernel threads, shared chunk cursor,
private iterators, error and limit handling, the counter the loading process
waits for, and the unloading of the module.

**`LfuFanout`** is `lfu_fanout.c`: the loading process walks the table and pushes
into a kfifo, kernel threads pop and handle.  Both wait queues are spelled out as in
`LfuRing`, since the full kfifo and the abort of a failing worker meet there.  The
history variables `sent`, `handled`, `dropped` and `window` (what was queued since a
worker last looked) exist for the properties only.

**`LfuRingCtl`** is the control plane of `lfu_ring.c`: the claim of the device by
`atomic_cmpxchg()`, the steps of open and release around it, SET_FILTER and the
start of the scan (one step each, under `r->lock`), and a heap that counts the live
allocations of each kind.  What `lfu_ring_probe()` finds is a constant.

**`SeriesEdit`** has the engines: what `transform_text()`, `rep()` and the forms of
`fn()` make of one text and one edit.  A text is a sequence of numbered passages; an
edit replaces one subsequence by another.  **`DriveTables`**, **`RebuildTables`** and
**`ForkTables`** are the tables of nineteen rounds, row for row, with the gates and
the places where one row's text lies inside another's.  **`SeriesPass`** runs a table
over the tree of one commit, and over the result once more.  The trees themselves
are not in the repository: the tree a table was written for is built from the
table, and *twisted* ones have one row's text missing, doubled or already edited.

**`SeriesDrive`** is the loop over the commits of a stack, for three scripts that
differ in what they reuse and where they work (worktree or memory).  A commit is
the record of what git hashes, so equal content is the same commit.  Kills are
possible at every step, and the source may be rebased between two drives.
**`SeriesFork`** is `run()` of the forktx scripts on a fork of branches; a second
session commits and resets while it runs.  There a commit is the sequence of
changes up to it, so its parent is its front and its ancestors are its prefixes.
**`SeriesReplies`** is the loop of `post_replies.py` over changes and patch sets,
with look-ups that fail, calls that are refused, dry runs and kills.

The `...Proofs` modules hold the theorems.  `MC...` modules define the instances;
`MCKernel` and `MCSeries` put machines that share no state side by side, and a
behaviour follows one of them.  Definitions whose names end in `Mut`
(or are described as mutants) are plausible mistakes; each property of a passing
run is violated when one of them replaces the definition it mimics.

## Runs

| run | question | result |
|---|---|---|
| `ring_geometry` | four slots, batch two, a table that laps the ring: FIFO, refinement of `LfuStream`, every read and close completes | holds |
| `ring_eof_drained` | end of stream only when the ring is drained | **violated** |
| `ring_eof_complete` | end of stream only when the table was finished | **violated** |
| `scan` | both device backends, two workers, every failure, every kind of slot under every filter option: each object once, success means the whole target, errors reach the exit status, `--limit` exact, the merged counters are those of the target and balance, termination | holds |
| `scan_zero` | exit status 0 means the scan completed | **violated** |
| `query` | command lines of up to four words on six backend variants: the tiers compute the three-valued conjunction, the two walks of a layout agree, and the verdict is what the words ask, the disputed cases aside | holds |
| `query_margin` | `--size 1M` is (0, 1M] | **violated** |
| `query_documented` | a SOM is used as it is, and the stripe size is the first data component's | **violated** |
| `kernel` | `lfu_par`: each object counted once, err=0 means all or the limit, the load returns. `lfu_fanout`: each object handed over once, only late entries are left, the load returns. Control plane: one opener, the buffers of a filter are there, the heap is accounted for | holds |
| `par_unload` | st.running at zero means the threads are finished | **violated** |
| `kmdt` | the scanner on the ring, with every verdict, failure and signal: records once and in order, `--limit` to the record, exit 0 means no recorded error, the summary balances, always exits | holds |
| `series` | tables: every row applies at its commits and a second run changes nothing; drivers: each tree is its source with its edits, unchanged commits are kept, same input same tip; fork: shared commits stay shared and nobody's work is lost, through kills and a second session; replies: in their thread, once, and none for a change with a wrong id | holds |

### What the violations show

* `ring_eof_drained`: `lfu_ring_read()` looks at the head, then at `done`.  A
  producer that publishes and finishes in between makes it return 0 with records
  in the ring, and kmdt stops at the first 0.
* `ring_eof_complete`: a failing `iops->next()` leaves its error in `rc2`, while
  `r->err` is set from `rc`, still 0.
* `scan_zero`: when the first `pthread_create()` fails nothing is scanned and
  `lfu_scan()` returns 0.
* `query_margin`: the equality margin is 512 bytes whatever the suffix.
* `query_documented`: one file, asked for its size and its stripe size, shows two
  disagreements.  Its SOM says it is stale; the comment in `lfu_resolve_size()` has
  it "used as-is" and the man page knows *unknown* only for a file without a SOM, but
  the test for the strict or lazy flag passes over it.  Its first component is on
  the MDT; `lfu_filter.h` has the stripe size "of the first data component", but the
  first non-zero one is kept, the MDT component's included.  Either alone changes the
  verdict: repairing one leaves the run violated by the other.
* `par_unload`: a thread decrements the counter, then still calls
  `wake_up_all(&st.wq)` and returns, all of it text and data of a module that the
  loading process may by then have had unloaded.

What the models show beside the runs:

* An unsigned age has a margin of at most a day: `--mtime 1w` is one day, not one
  week, although `lfu_parse_time()` speaks of "a margin equal to the smallest unit
  used" and the man page of a value "inside the unit it names".  Like the three cases
  above it is part of `Disputed`, and `VerdictMeansCommand` fails when any one of them
  is taken out of it.
* `have_lov` is set for any `trusted.lov` of four bytes, whatever its magic, while
  `lfu_filter.h` says that an unparseable value leaves the flag clear.
* `lfu_fanout`: a worker that finds the kfifo empty tests `done` afterwards.  When
  the last entries are queued and `done` is set in between, and every worker stands
  there, they are never handled, and `produced` exceeds `handled` in the report.
  `OnlyLateEntriesLeft` says that nothing else is left.  As in `lfu_par`, a worker
  wakes the loading process after it has decremented `workers_up`.
* Scratch buffers: after a SET_FILTER that failed for want of memory with `xa_som`
  allocated, the next one takes all four for allocated and installs the filter;
  with only `xa_som` missing it overwrites the pointers to the others.
  `ScratchReady` and `HeapAccounted` are therefore stated up to the first such
  failure; without that condition TLC finds both cases.
* Tables: `tx_288`, `tx_419` and `tx_b` have insertions that test for nothing, and a
  second run inserts again (`InsertAgain`).  A second run of the a-1007 and a-1008
  scripts changes nothing but reports rows whose new text a later row rewrote, and
  exits 1.
* `forktx.py` to `forktx4.py` gate rows by R288, a commit named when the script was
  written: after the fork was rewritten below it that commit is on no branch.

Passing properties name these cases where they are exceptions (`SummaryBalances`
excepts an undrained ring, `CompleteOnZero` a scan without workers,
`VerdictMeansCommand` what is `Disputed`), so that the
rest of the behaviour is still checked.

### Bounds

| instance | bounds | why enough |
|---|---|---|
| `kmdt` | 2 slots, batch 1, 3 objects, reads of 2 | the ring fills, wraps and drains; one object more than the ring holds |
| `ring_geometry` | 4 slots, batch 2, 5 objects, reads of 1-2 | batches smaller than the ring, runs cut at the wrap point, the head laps |
| `scan` | 2 workers, chunks of 2, 5 ids; 17 kinds of slot, each beside a plain object or another of its kind | three chunks, the last short; a worker without a chunk; the two slots lie in different chunks, walked by one worker or by two.  Any target by proof |
| `query` | at most 3 predicates, `Word` 4096, block 2 | one option too many; suffixes scaled down so that sizes straddle every margin; files with and without a SOM of each kind, on the MDT, on OSTs or both |
| `query_margin`, `query_documented` | one command line; the second, one file | the case in dispute, alone |
| `kernel`, par | 2 threads, chunks of 2, positions 1-4, limit 0 or 2 | three chunks, objects on both sides of each boundary, empty chunks |
| `kernel`, fanout | up to 2 workers, kfifo of 2, up to 3 objects | the kfifo fills with one object to come; both workers can fail, sleep or leave early.  Any size by proof |
| `kernel`, ring | 2 processes, `MaxFails` 2, filters that need nothing, something or too much, OSDs that supply all or nothing | release races open; an allocation fails, is retried and fails again.  Any size by proof |
| `series`, tables | all 19 tables at every commit a gate distinguishes, each row twisted in three ways, two passes | the tables are finite data: this is all of them |
| `series`, drivers | stack of 3, two files and a message, one edit from the second commit on, 2 drives | a commit below, at and above the first change; a drive after a killed or a complete one |
| `series`, fork | 3 branches, two branching points, START shared by all, 2 calls, 1 move by another session | a shared commit above the gate and one below; a call after one that died |
| `series`, replies | 2 changes with 2 replies each, 2 patch sets, 2 runs, at most one id missing | replies on the same and on different patch sets, a failure in the first or the second change |

Symmetry is not used: worker numbers order thread creation, and branches, files
and processes differ in the instance.

### Fairness

`ring_geometry`: weak fairness of the producer and of the steps inside a system
call; nothing obliges the user to call.  `scan`, `kmdt`: weak fairness of
each thread.  `kernel`: weak fairness of the loading process and of each kernel
thread of `lfu_par` and `lfu_fanout`, none of the processes that use the ring.
`series` states no liveness: its scripts are loops over finite lists, and a kill may
end them anywhere.  The kernel and the C library schedule a runnable thread
eventually; a thread on a lock or queue is not runnable, so no strong fairness is
assumed.  Signals are never fair: progress does not depend on them, and no number
of them prevents it.

## Proofs

Eight modules hold the theorems.  Each theorem is for every value of the constants
its module declares; what it assumes of them are the named `ASSUME`s, which TLC
evaluates on every run:

* `RingAssumption` (ring and batch positive, a batch at most half the ring, as
  `lfu_ring_init()` enforces), `BoundAssumption`, `KmdtAssumption` (limits are
  naturals);
* `ScanAssumption` and `TargetAssumption` (the kinds of slot and the options have
  the types of the structs they stand for);
* `FilterAssumption`, `QueryAssumption`, `CtlAssumption` (an OSD supplies no xattr
  there is no buffer for);
* `FanAssumption` (a kfifo of at least one entry), `ParAssumption` (positive threads
  and chunk, finite tables of positive positions);
* `StackAssumption`, `GateAssumption`, `TextAssumption`, `ForkAssumption`,
  `ReplyAssumption` (a non-empty stack, and the types of the data).

**Ring** (`LfuRingProofs`).  `DeliveredIsPrefix` is not inductive.  `RingInv` adds
that the cursors stay within a ring of each other, that a slot between tail and
head holds the object the history says, that at most one passed object is not yet
in the ring and which one it is, and that the reader's locals stay true while the
producer runs.  From it: `InOrderDelivery`, `StallNeverDrops`, `UnreadStays` (an
action property), `TypeCorrect`.  `NeverBothAsleep` needs `SleepInv`: a producer
asleep short of a batch of free slots is owed a wake-up the reader is about to
give.  `NoUseAfterFree`: release waits for the thread.

`RingImplementsStream` is the refinement: every step of the ring is a step of
`LfuStream` or leaves its variables alone.  Only moving the head and moving the
tail are not stutters.  That a *Send* keeps table order needs `OrderInv`: the
objects passed so far are in order and the iterator is beyond all of them.

**Live scanner** (`LfuKmdtProofs`).  `KmdtInv` stands on the ring's invariants.  It
adds which system call the scanner is in (`CallInv`), that between two calls the
ring has handed out nothing the scanner does not have (`BatchInv`), that records
are emitted in order up to the limit (`EmitInv`), and that an end of stream was
returned by a producer that is done and whose error was read with it (`EofInv`);
`EndInv` of the ring says that neither changes afterwards and that the producer's
counters add up.  From it: `KmdtAccounts`, `KmdtLimits`, `KmdtZero`, `KmdtSummary`.

**Dispatcher** (`LfuScanProofs`).  `ScanInv`: a chunk is in one pair of hands;
nothing beyond the cursor was seen; what a walk has passed was counted once;
while nothing failed, every object below the cursor was counted or is pending,
and whoever claims the end is right.  From it, for any number of workers, chunk
size, target and limit: `ScanOnce`, `ScanDoneProves`, `ScanComplete`,
`ScanErrorReported`, `ScanTyped`.  `ScanBalances`: the counters of every worker
balance, because what `lfu_object()` and the backend bump for one slot does.

**Counters** (`LfuCountProofs`).  The counters do not say who counted what, so the
invariant does: `CountInv` says that for *some* assignment of the objects to the
workers each counter is the number of objects of its worker that bump it, and the
total that of the workers merged so far.  A walk step extends the assignment at
the object it counts; a merge joins the sets of two disjoint groups of workers.
`BadInv` is its counterpart for csum_bad, which may count an inode twice and so is
only bounded from below, and `LimitInv` says that with `--limit` the only worker
stops exactly at the match that reaches it.  `StatsInvariant` proves them together
with `ScanInv`, and gives `ScanStatsExact` and `ScanLimitExact`.

**Filter** (`LfuFilterProofs`).  `VerdictExact`: for every command line, object and
backend, when every demanded xattr was read the verdict of the two loops is the
three-valued conjunction of all predicates over the whole object.  The invariant
`LoopInv` says what each loop has established so far; it rests on the lemma that
the xattrs a predicate looks at are among those `lfu_field_needs()` demands
(`DemandedSuffice`).  `QueryTyped`: never more than `LFU_MAX_PRED` predicates.
`FilterValidates`: what the option loop compiles passes the validation the ring
runs on it; each option compiles to an operator in range (`TestedOp`) and a list
no longer than the array (`ListFits`), and a `!` that negates nothing is refused
before the filter is handed on.

**Control plane** (also `LfuFilterProofs`).  `HeapAccounted` is about a sum over all
processes; `CtlInv` carries instead that only the holder of `lfu_open_cnt` has
anything (`Holder`), so that each kind is reached once or not at all, and that the
four buffers come together (`Served`).  From it: `OneOpenerHolds`,
`ScratchReadyHolds`, `HeapAccountedHolds` and the action property
`FilterFixedHolds`.

**Fan-out** (`LfuFanoutProofs`).  `HandedOnce` alone says nothing about objects not
counted yet.  `FanInv` adds that `workers_up` is the number of threads that are busy
or still to be started (which needs cardinalities of a set that one step changes by
one), that `done` follows the last push, where an object is and that it is there
only, and what a worker about to leave knows of the kfifo (`Late`).  From it, for any
number of workers, kfifo and table: `FanHandsOnce`, `FanLeavesOnlyLate`,
`FanFifoOutlives`.

**lfu_par** (`LfuParProofs`).  `CountedOnce` needs to know whose an object is:
`ParInv` says that the chunks in hand lie apart and below the cursor, that nothing
at or above the cursor was counted, and that of its own chunk a thread has counted
nothing ahead of its iterator.  An iterator finds the least object beyond a
position, so the proof needs that a non-empty set of naturals has a minimum (from
the well-foundedness of `<`).  From it, for any number of threads, chunk and table:
`ParCountsOnce`.

`ParZeroErrMeansAll` needs more (`AllInv`, proved as `ParTallies`): a thread's count
is the number of objects counted in its chunk, and st.objects that of all the others
(`Tallies`); what is taken is counted or ahead of the thread that took it, unless
the limit is reached or will be by the next sum (`Covered`); and a thread leaves
only because the table is done with or because of a failure that it will report,
with st.running the number of those that have not left (`Ends`).

**Stack drivers** (`SeriesProofs`).  `TreesFixed` needs to know the worktree in
the middle of a commit: `DriveInv` says that after the checkout it is the source's
tree, and during `apply()` each file is the source's or has its edit, whatever an
earlier killed drive left.  From it: `DriveTreesFixed` and `DriveTipComplete`.
The properties that compare two drives rest on `StackInv`: every list of commits
stands on itself from the base up, the commits of b2bdrive are built of the source
and PREV_TIP alone, and so were those under every tip it printed.  That two stacks
built of one input are equal goes up the stack commit by commit.  From it:
`DriveReuses`, `DriveRepeats`, and `BuildKeepsBelow` for `build()`.

**Fork rewrite** (`SeriesProofs`).  The commits are done in any topological
order.  `ForkInv` has that the set at hand is closed under parents down to START,
that whatever is done is the rewritten line (`ParentsRemapped`), and where a branch
stands before, in and after its turn.  From it, for any fork, START and
interference: `ForkParentsRemapped`, `ForkLosesNothing`, `ForkFinishedMeansAll`.

**Replies** (`SeriesProofs`).  `RepliesInv` says that the replies of the turn at hand
were gathered from comments Gerrit knows, that its change is not among those to
come, and that no call is of a run of the future.  From it: `RepliesInThread`.

The inductive invariants, the type invariants, and
`NoMutualSleep`, `NoOverwrite`, `NothingDropped`, `FreedAfterExit`, `DoneProves`,
`FifoOutlives`, `FilterFixed`, `TipComplete` and `ParentsRemapped` are proved and not
repeated as properties of a run; a property that a run and a theorem share is marked
in `PROJECT.json`.

Only model-checked:

* liveness (`ReadReturns`, `CloseCompletes`, `Terminates`, `Returns`, `FanReturns`,
  `KmdtExits`): fairness is out of the prover's reach;
* `WalksAgree` and `VerdictMeansCommand`, which are about what the decoders and the
  reference compute from a whole value: folds over sequences of any length, and so
  induction over data, which the prover cannot do;
* the tables (`EveryRowApplies`, `SecondRunChangesNothing`, `ExitZeroMeansMade`):
  these are statements about nineteen given tables, not about tables in general,
  and the run is exhaustive up to the trees it builds;
* `ForkStaysShared`, which is not true of every fork.  It needs that a branch has
  one commit for each Change-Id and that no commit comes out of the rewriting as the
  R288 of another branch.  The rounds' fork is so; nothing in the scripts says that
  every fork is, so it is no assumption of the module.

## Not modelled

* Weak memory: head, tail and done are read and written in program order, as the
  acquire and release pairs in the code intend.
* The record payload, formatting and reports.
* Byte-level xattr parsing: a malformed value is described by which of the
  decoder's tests it fails.
* What libext2fs, libzpool, the OSD, git and Gerrit do beyond the results the code
  looks at.
* A process killed in mid-scan: `release()` runs as on close.
* Inodes that change while the MDT is live: the table is fixed during a scan.
* `lfu_it.c`: one thread and one pass over an iterator; `lfind.c`: a function of its
  arguments and of what `stat()` says, followed by an exec.
* The tables of b2-0922: generated from diffs by `genfix.py`, their rows overlap
  inside lines, and no cut into passages is shared by all of them.  Their driver,
  `b2bdrive.py`, is modelled.
* Edits that compute their new text: the message functions `m_*` of the drive
  rounds, `tip()` of a-1007, the rows R_FN of `tx_1019c.py` and its step for trees
  before 68160.
* `tx_c.py`, `tx_1019b.py`, `tx_1019e.py` (a few rows each, for the same `fn()`),
  `fold.py` (a one-off squash) and the laboratory scripts of the rounds, which drive
  virtual machines.  `analyse.py` reads two files and prints means.

The map names 6,192 lines of Python, most of them rows of tables that a definition
lists one by one, and 3,328 lines of C.  A row's texts are reduced to which passages
they are made of; that an old text is spelled as the tree has it cannot be checked
here, since the trees are not in the repository.

## Further work

1. A statement of what a lost xattr may and may not change, and a run for values
   that are no layout (`have_lov`); separate runs for the two halves of
   `query_documented`.
2. `ForkStaysShared` as a theorem about forks with one commit per Change-Id, once
   the scripts check that of the branches they are given.
3. The two passes of `lfind.c` over its arguments as operators, against a definition
   of which argument is the target.
