# jointprof in TLA+

jointprof is an R package that profiles R code and the native code it calls at
the same time. `start_profiler()` turns on R's own sampling profiler, `Rprof()`,
and then puts a handler of its own in front of Rprof's `SIGPROF` handler (the
*daisy chain*): on each tick of the profiling timer the handler first writes the
native stack to a file in the format of gperftools, then calls Rprof's handler.
`stop_profiler()` takes the chain apart, lets `pprof` convert the native file,
and merges the two profiles, replacing each `.Call` frame by the native frames
it stands for.

These modules model that: the session and its signal handler statement by
statement, on one thread and on several; the native file word by word, with the
place on 32-bit x86 where its addresses come from; the iterator that copies
`/proc/self/maps` into it; and the merging of the two profiles. TLC checks them
on small instances; TLAPS proves the most important invariants for every value
of the constants. Paths below are relative to the repository (the package's
root), where `R/` holds the R code and `src/` the C++ code.

    tlc -config chain_everything.cfg MCDaisyChain.tla
    tlapm DaisyChainProofs.tla

## The system

| component | state | operations | spoken to by |
|---|---|---|---|
| `start_profiler()`, `stop_profiler()` (`R/profiler.R`) | `.my_env$prof_data`, the temporary files | start, stop, their error exits and `on.exit()` | the user; `comingle_rprof()` |
| native profiler (`src/profiler.cpp`, `src/jointprof.cpp`) | `Impl::static_impl`; in each `Impl` the dispositions `initact` and `oldact` and the stream `ofs` | constructor, `start`, `stop`, `static_handler`, `remove_handler`, finalizer | R through `.Call`; the kernel through `SIGPROF`; the garbage collector |
| native file (`src/profiler.cpp`) | the words of the file, the stream's badbit | `write_header`, `write_stack_trace`, `write_trailer` | the handler, `start`, `stop`; read by pprof |
| maps iterator (`src/sysinfo.cpp`) | the buffer `ibuf_` and the pointers `stext_`, `etext_`, `nextline_` | `Init`, `NextExt`, `FormatLine` | `write_trailer` |
| merging (`R/combine.R`) | two profiles as tables, the combined samples | `combine_profiles` and the steps it calls | `stop_profiler()` |
| `comingle_rprof()`, `joint_pprof()` (`R/record.R`, `R/jointprof.R`) | one frame per call on R's stack | enter, evaluate, exit | the user |
| `GetPC()` (`src/getpc.h`) | the registers and the stack of the interrupted thread | the pc, or the return address where the frame is not set up | `write_stack_trace()` |
| callback scaffolding (`src/callback.cpp`), generated glue, build | none | - | - |

External parts, modelled from how the package uses them: `utils::Rprof()`, its
handler and its timer, the kernel's signal table, R's interrupts and garbage
collector, the loading and unloading of packages, procfs, the processor, the
unwinder of gperftools, and pprof.

### What is hard about it

- **The signal.** `SIGPROF` arrives between any two statements of start and
  stop, and both rearrange, non-atomically, the signal table, `static_impl`,
  the stream and Rprof's timer. Both handlers also write the signal table. And
  since the signal is sent to the process, a thread that some package has
  started may be in the handler while R's thread goes on.
- **Halves.** A start is two starts and a stop is two stops. Each statement may
  fail (a file that cannot be created, pprof missing, profiles that do not
  match), and Ctrl-C may separate any two R statements.
- **Protocol.** Start may be called while a session runs, by the user or by
  nested `comingle_rprof()` calls; the user may call `Rprof()` directly; the
  package may be unloaded in the middle of a session; an `Impl` may be collected.
- **Position.** The two profiles share no clock and no number. The R sample and
  the native sample of a tick belong together because they are in the same
  place, through aggregation by pprof and expansion by `combine_profiles()`.
- **Raw memory.** The sample is written out of a partly initialized array; its
  first address is found by looking at the bytes around the pc; and the maps
  iterator moves text in a buffer with a sentinel one cell past its end, while
  the process whose mappings it reads may map more.

`PROJECT.json` lists each of these hazards with its line and the properties that
would catch it going wrong.

## The modules

| module | models | uses |
|---|---|---|
| `JointSession` | abstract: what a session promises, without signal or file | - |
| `DaisyChain` | `R/profiler.R` and the control of `src/profiler.cpp` | refines `JointSession` |
| `ChainThreads` | the handler in steps, on R's and other threads | EXTENDS `DaisyChain`, refines it while no two handlers overlap |
| `Comingle` | nested calls of `comingle_rprof()` | EXTENDS `DaisyChain` |
| `ProfileFile` | the words of the native file and pprof's reader | - |
| `StackSample` | `GetPC()` and the unwinder on a small i386 machine | EXTENDS `ProfileFile` |
| `MapsLine` | a line of `/proc/self/maps`, its parser and its canonical form | - |
| `ProcMaps` | `ProcMapsIterator::NextExt()` as `write_trailer()` drives it | EXTENDS `MapsLine` |
| `Combine` | `combine_profiles()` | - |
| `DaisyChainProofs`, `ChainThreadsProofs`, `ComingleProofs`, `ProfileFileProofs`, `StackSampleProofs`, `ProcMapsProofs`, `CombineProofs` | theorems | TLAPS |
| `Iteration` | lemmas: induction and recursion on a range of numbers | TLAPS |
| `MC...` | the instances TLC checks | |

### `DaisyChain`

There is one R thread; `pc` is the statement it executes next, so a tick, the
garbage collector or an interrupt may come between any two of them. On this
thread `SIGPROF` is masked while its handler runs, so one handler is one step
(`Handler`). The disposition of `SIGPROF` is `action`: default, ignored, Rprof's
handler (`"rprof"`), the chain (`"chain"`), or whatever inert handler
`Rprof(NULL)` may leave (`"null"`). Each call of `start_profiler()` gets the next
number, which names its `Impl`, its native file and its Rprof file at once:
`native[i]` and `rprof[i]` are the ticks recorded in the files, which is all the
properties need to know of a sample.

| action | code |
|---|---|
| `StartProfiler` | `find_pprof()`, the temporary files, the constructor of the `Impl` with `initact` |
| `StartRprof` | `Rprof(filename = ...)`, `R/profiler.R:46` |
| `ImplStart` | `Impl::start()`: the refusal, `oldact`, the check of the handler's kind, the stream and its header |
| `Install`, `SetStatic` | the last two assignments of `Impl::start()` |
| `Publish` | `.my_env$prof_data <- prof_data` |
| `StopProfiler`, `StopRprof` | the guard and `on.exit()`, then `Rprof(NULL)` |
| `Restore`, `ClearStatic`, `WriteTrailer` | `Impl::stop()`, one statement each |
| `Combine` | merging, with its `stopifnot()`, and `on.exit()` |
| `Tick` | the timer: Rprof's handler alone, `static_handler()`, or nothing |
| `Interrupt` | Ctrl-C between two R statements, which ends the call |
| `UserRprof`, `Unload`, `Load`, `Finalize` | the environment |

A tick when `action = "dfl"` is not modelled, since it ends the process: the
invariant `NeverKilled` says that it cannot come. What the environment does is
the constant `Env`, so that a run or a theorem can leave a kind of failure out.

An interrupt between `start_profiler_impl()` and the assignment of line 54 leaves
a running `Impl` that nothing but the finalizer knows. Once that has deleted it
(`freed`), `Handler` goes on through a destroyed object: the native record is lost
while Rprof's may still be made, since the memory may or may not still have the
old handler in it (`OldHandlers`), or the process ends (`pc = "crashed"`).

`ChainHasImpl` says how far this can go: the chain always has an `Impl` behind it,
a deleted one only after such an interrupt, and never while `.my_env` holds a
session. `PairedSamples` is about the two files: the native samples are the last
of the R samples, except those of an `Impl` that was deleted. `SessionCollects` is about the session that `.my_env` knows: as long as
Rprof writes its file, the chain is complete and each tick goes into both.
`NothingLeft` is about what `Combine` finds: no timer, no handler, no
`static_impl`, although `stop()` restores whatever the constructor had found. It
says nothing of an interrupt between `Rprof(NULL)` and `Impl::stop()`, which never
gets to merging and leaves the `Impl` behind as an interrupt in a start does:
`stop_profiler()` then says that profiling has not started and `start_profiler()`
that it already runs, until the package is unloaded.

### `JointSession`

A session is new, collects R samples only, collects jointly, is an orphan, or is
over. `Phase` in `DaisyChain` is the refinement mapping: session `i` collects
jointly when Rprof writes to file `i`, the chain is installed and leads to `Impl`
`i`; it is an orphan when that `Impl` has been deleted. `held` is the session in
`.my_env`. Refinement means that a session that once collects jointly never again
collects half a sample unless its owner has lost it (`Orphan`, which a held
session never becomes), that none grows after it is over, whoever ended it (a
stop, an unload, another start, the user's own `Rprof()`), and that no two collect
at once.

### `ChainThreads`

The statements of R's thread are the actions of `DaisyChain`, unchanged
(`RStatement`); the package is not unloaded here. What differs is the signal:
`Deliver` picks any thread that is not in a handler, and that thread then takes
`static_handler()` and `handler()` one access to shared state at a time.

| action | code |
|---|---|
| `Test`, `Enter` | `if (static_impl)` and the call through it, which may read it again |
| `WriteNative` | `write_stack_trace()`, which an unopened or deleted stream drops, or through which R crashes |
| `Save`, `CallOld`, `RestoreAction` | `sigaction()`, the handler in `oldact`, `sigaction()` |
| `Doprof` | Rprof's handler where no chain is in front of it |

On R's own thread a handler stops R. On another thread Rprof's handler may sample
there or leave that to R's thread; the package does not say which, so both are
outcomes. A write or a call through a deleted `Impl`, a call through a null
`static_impl` and a tick with the default disposition may end in `"crashed"`.

`serial` remembers whether every handler so far has run without another handler
and without a change of what it uses (`sharedVars`). `HeaderFirst` holds
regardless: no handler comes to a file without a header. The rest holds
while `serial` does: `SafeWhileSerial`, that a handler then neither crashes nor
misses its file, and `AtomicWhileSerial`, that `ChainThreads` then implements
`DaisyChain`, under a mapping that hides the effects of a handler in flight until
its last step. So R may publish a session, begin or refuse a call while a handler
runs elsewhere, and what `DaisyChain` says of one atomic handler remains true.
Both need `"interrupt" \notin Env`: an interrupt before `Publish` leaves a running
`Impl` to the finalizer, and a handler then writes through a deleted object, even
alone.

Where `serial` is lost, the model shows what the code does not prevent: a record
written after the trailer into a closed stream (`claim_race`); a handler that
restores the chain after `stop()` has taken it out, or a stale disposition of
another handler's; and a null `static_impl`, if it is read again after the test.

### `Comingle`

`frames` is the stack of `comingle_rprof()` calls, with the session that each has
started; `profiled` has all sessions that such calls started. `on.exit(stop_profiler())`
is registered before `start_profiler()` is called, so a frame is left through
`Exit` also when its start failed, and then stops the session of whoever has
one. The session itself is `DaisyChain`'s; `Progress` lets it take its steps. The
expression of a frame is any R code: it may call `start_profiler()`,
`stop_profiler()`, `Rprof()` and `comingle_rprof()` (`UserCode`). Only the unloading
of the package is left to the prompt: a frame on the stack would go on in the
code of a namespace that is gone.

`SessionEndsWithFrame` is about both halves: when a frame is gone, neither
`static_impl` nor Rprof's file is that of its session, with one exception. If the
native file could not be created, Rprof is on, `stop_profiler()` refuses, and the
R half runs on (`claim_refused_stop` shows the same for a plain start).
`FrameCompletesItsOwn` says that the native profile that a frame has begun has its
trailer before the frame is gone: from its own `on.exit()`, or from what was
called in its expression. `.my_env` may change hands in the expression, so what
`on.exit()` stops may be a session the expression has started; that is allowed
only when the frame's own is over.

### `ProfileFile`

A word is a number. The array of `write_stack_trace()` has unwritten cells
(`Garbage`); the test `stack[1] == stack[0]` of `src/profiler.cpp:175` compares
two of these, since the frames start at `stack[2]`, so its outcome (`same`) is a
nondeterministic choice. A write may fail part of the way (`Put`), and then the
stream silently drops everything. `SamplesRead` is the reader of pprof: a count,
a depth and as many addresses, up to the trailer `0, 1, 0` or the end; `position`
says where it is after a number of records.

### `StackSample`

The machine is external: a few bytes of i386 code, a stack of words, three
registers. It is interrupted before any instruction. `GetPC` follows
`src/getpc.h`: where the pc and the stack pointer are reasonable, the entries of
`callunrollinfo` are compared with the bytes around the pc, and the first that
matches tells where the return address is. `Unwind` is
`GetStackTraceWithContext()` as an external that follows frame pointers (`frame`)
and skips the frames of the signal handler. The sample is then written and read
back as in `ProfileFile`.

The program is a constant, and so is where in it the return address is on top of
the stack (`Bare`), the caller's frame pointer is (`Pushed`), or the frame is set
up (`Framed`). `CompilerAssumption` is the discipline that any compiler keeps: each
instruction that touches the stack goes from the one to the other as it should,
whichever way it is reached; only functions with a frame call others. It does not
say what a prologue looks like: there may be other instructions between `push
%ebp` and `mov %esp,%ebp`, or between `pop %ebp` and `ret`, and functions without
any frame. `Known` are the places that the comments in `callunrollinfo` name, and
those with a frame.

`calls` and `truth` are history: the stack as it really is. `NoFalseEdge` takes
the comment at `src/getpc.h:80` at its word: what pprof reads is a part of the
true stack without gaps. At places that are not known ("best effort",
`src/getpc.h:87`) the caller may be skipped, and nothing else. `ReadsMapped` says that comparing bytes
before and after the pc never leaves the program, also after a call through a
null pointer; this is what the test for reasonable registers is for. That no
instruction is at the very edge of the program is assumed. The package asks the
unwinder to skip three frames (`src/profiler.cpp:173`); the model skips the
handler's, which is what the number stands for.

### `MapsLine`

A line is a sequence of characters, where a number of minimal width and the
permissions of a page are one character each. `KernelLine` is what the kernel
writes of a mapping (external); how many blanks come between the inode and the
name depends on its version. `Mapping` is what the theorems assume of a mapping:
its numbers are of their form, its name holds no newline (the kernel escapes it),
does not begin with a blank, and has no part that reads like a mapping itself.
`FieldStarts` follows `ParseProcMapsLine()` field by
field: each ends at a separator, must convert as a whole, and is the start of the
next. An empty number converts to zero. `Parsed` is what the caller gets, and
`Canonical` what `FormatLine()` prints of it: the device is always zero, since
`write_trailer()` passes none, the inode is padded to `InodeWidth`, and a line
that does not fit into the buffer with its newline is left out (`FormatLine`).

### `ProcMaps`

`mappings` is what the kernel has to say and `maps` its characters. The buffer
holds `KBufSize` characters and the sentinel goes to its last cell. The
constructor prints the name of the file into the buffer and leaves it there, and
the rest is what was on the stack (`Garbage`). `TakeBufferedLine` and `Refill` are
the two ways of finding a line; a refill moves the unread text to the front,
reads until the buffer is full, the file ends or a read fails, and plants the
sentinel. `Turn` is a turn of the loop of `NextExt()`, after which an entry is
written in its canonical form, or the loop ends, or it goes on. `Remap` lets the
process map and unmap memory between two turns: procfs hands out a line as a
whole, so that the lines that have begun to be read stay as they are (`Begun`)
and the rest of the file may become another.

What is written are the canonical lines of mappings, in order (`EntriesInOrder`).
The exceptions the model found are two: a line that was cut short by the end of
the buffer or by a failing read loses the end of its name; and when what
precedes its first `-` is lost, the rest is taken for an entry that starts at
address 0, since an empty number is accepted. (`Damaged` says exactly this, and
`Mapping` leaves out the third case: what is parsed of a line that is too long may
be any part of its name, which the user chooses.) `TrailerComplete` says that when
no read has failed every mapping whose line fits into both buffers (`Listable`) is
written, unchanged and in its place, if its inode is followed by a blank. The condition is needed: the parser insists on a blank after the inode
(`src/sysinfo.cpp:292`), which the comment at line 501 says may be missing, and
then drops the mapping.

### `Combine`

A profile is a sequence of samples and two sets of rows, as the profile package
reads it. The initial state holds what was sampled (`run`), how many first ticks
the native profile lacks (`missed`), and whether pprof merges equal stacks
(`merging`); the statements of `combine_profiles()` follow one after another,
with the `stopifnot()`s and the length check of `mutate()` as the ways it fails.
`Merge` is what `pprof -proto` does to equal native stacks: the first of each
stays, with their number as its value. The statements fail where the code does:
at the `stopifnot()`s, where `validate_profile()` (external, `Valid`) does not
accept the tables, and where the native column has another length.

The largest number of an empty table is `-Inf` (`NegInf`), and so is every number
it is added to. That happens if no R stack has a frame; if there are native frames
(`OnlyNativeFrames`), they all get the same number, and `validate_profile()` may or
may not complain. `StacksSurvive` and `PairedIfAdjacent` leave that case out, since
names are mixed up in it; `CallsReplaced` does not: no `.Call` is there that could
be replaced by the wrong frames.

## The runs

Each run has the configuration file `<run>.cfg`. The properties of a passing run
each have a mutant of the model, listed in `PROJECT.json`, that violates them: a
plausible bug such as a forgotten `sigaction()`, a stale `oldact` or a sum over
rows instead of values. The operators of mutants stand next to what they mutate.

| run | question | result |
|---|---|---|
| `chain_everything` | two starts, two ticks, every failure, restart, interrupt, unload, finalizer: do the profiles stay paired, does the session in `.my_env` get every tick twice and leave nothing behind, is the chain never installed without a live `Impl` that no interrupt has lost, is R never killed, does the chain implement `JointSession`? | yes; 283,004 states |
| `chain_threads` | handlers in steps on two threads, racing with two starts, a native file that cannot be created, the user's `Rprof()` and the collector: does the header come first, and are handlers that do not race safe and atomic? | yes; 1,056,106 states |
| `comingle` | nested calls whose expressions start and stop too, with failing starts and stops, unloading and the collector, without Ctrl-C: do `.my_env` and `static_impl` agree between calls, does the handler never write through a deleted `Impl` or a closed stream, does neither half of a session outlive its frame, is what a frame has begun complete when it is gone? | yes, but for Rprof's half after a native file that could not be created; 9,774,752 states |
| `profile_file` | does pprof's reader stay in step with the writer, for look-alikes of the trailer and full disks? | yes; 13,053 states |
| `stack_sample` | a program interrupted before any of its instructions: does `GetPC()` read only what is mapped, and does no sample skip a caller? | yes, where the frame is set up or a pattern knows the place, and elsewhere one caller at most; 13,012 states |
| `proc_maps` | is each mapping written once, in order and in its canonical form, wherever the refills and failing reads fall and whatever becomes of the file, and does the loop end? | yes; 5,683 states |
| `combine` | do names survive the merging, is `.Call` replaced as promised, are the two stacks of a row from one tick, does it fail for a missing tick only? | yes, the third if pprof keeps equal stacks apart or they are adjacent, and except for runs without any R frame; 42,433 states |
| `claim_totals` | `R/combine.R:11`: have both profiles the same total? | no: a tick between `Rprof()` and the installation of the chain is in one profile only, and the whole profile is lost |
| `claim_refused_stop` | `R/profiler.R:74`, "Can't stop profiling because it hasn't started yet." | no: after a native file that could not be created, Rprof runs on |
| `claim_race` | `src/profiler.cpp:88`, "Before closing file, to avoid race condition" | no: a handler on another thread that has passed the test of `static_impl` comes to the file after it was closed |
| `claim_pc` | `src/profiler.cpp:176`, the duplicated pc is dropped | no: the test reads cells that nothing has written |
| `claim_simultaneous` | `vignettes/proposal.Rmd:76`, stacks are sampled simultaneously | no: if pprof merges equal stacks that are not adjacent, rows pair stacks of different ticks |

### Bounds, and why they are enough

- `MaxStarts = 2`, `MaxTicks = 2` in the chain: a hazard involves at most the
  session that runs and the one that follows or interferes; with two ticks one
  may be missed and one seen, and a handler may be followed by another. With
  threads the same two and two, R's thread and one more: two handlers may
  overlap each other and a second session, which is all that the steps of one
  handler can tell apart. Nested calls use 3 starts at depth 2 with one tick (the
  properties of that run do not look at samples), with everything the environment
  does except an `Rprof()` that cannot create its file (`chain_everything` has it)
  and interrupts, which can leave an `Impl` running that nobody knows: the run's
  properties are about what holds otherwise. The theorems below show that the
  numbers do not matter for the invariants they state.
- `KMaxStackDepth = 3` gives stacks of no, one and the maximal two frames below
  the pc; `Addresses` are 0 and 1, the words of the trailer; two records, of
  which the first must not be mistaken for the start of the second.
- `StackSample` has one sample of that depth, up to four calls in progress, so
  that a stack may be too deep for it, and a program of four functions: one that
  calls or does not, itself included; one without a frame; one with a frame that
  calls none; and one that calls, whose prologue and epilogue have another
  instruction in them, so that three of its places are not known. Any of them, or
  a null pointer, may be called.
- `KBufSize = 18` and up to three mappings, whose lines have from 13 characters
  (no blank, no name) to 20, with names that have a digit, `-` and a blank in them: unnamed with and without a blank, fitting with room
  to spare or with none, too long, and too long only because of the blanks. A
  line is complete in the buffer, crosses its end, fills it exactly, or never
  fits. The second line has four of these shapes and the third one: the file
  may become any other that begins with the lines begun. A refill may fail after
  any number of characters; of several that fail, only the first brings
  something in. `InodeWidth = 2`, one more than the inode.
- `Combine`: all runs of up to two ticks over 4 R stacks (empty; no `.Call`, one, two)
  and 6 native ones (empty; no `Rf_eval`; it as the leaf; after an unknown frame,
  alone or among others), and runs of three and four over two native stacks, the
  least that lets equal stacks be apart. `missed` is 0 or 1.

Deadlock is not checked (`CHECK_DEADLOCK FALSE`): each model stops where its
bounds are used up, its function has returned or the process has ended.

### Fairness

Only `ProcMaps` is fair, weakly, in the turn of its loop, which runs inside
`Impl::stop()` and waits for nobody: that it ends is not obvious, as the file may
change and reads may fail. The other specifications are not fair, and no liveness
is claimed of them: their calls are straight-line code.

## What is proved

`DaisyChainProofs`, for every `MaxStarts`, `MaxTicks` and `Env`, from
`DaisyChainAssumption` (which only types the constants):

- `TypeCorrect`, `SamplesPaired`, `ChainAlwaysHasImpl`, `TimerNeverKills`:
  `Spec => []P` for `TypeOK`, `PairedSamples`, `ChainHasImpl`, `NeverKilled`;
- `SessionAlwaysCollects`, `NothingEverLeft`: the same for `SessionCollects` and
  `NothingLeft`, with the strengthening `Sampling`;
- `RefinesSession`: `Spec => ImplementsSession`, that is, `DaisyChain`
  implements `JointSession` under the mapping above;
- `SessionAlwaysOwned`, `HandlerAlwaysHasStream`: the same for `SessionOwned` and
  `HandlerHasStream`, assuming `"interrupt" \notin Env`, as in the run
  `comingle`. The assumption is needed: an interrupt before `Publish` leaves an
  `Impl` running that only the finalizer knows. The theorems above hold with
  interrupts, and say what they leave behind.

None of these is inductive alone. The strengthening `IInv` is `TypeOK`,
`Control`, `NativeFresh` and `PairedSamples`. `Control` says what each statement
of start and stop may rely on: in `StartProgress`, that Rprof's handler is in
place when `oldact` is read; in `Chained`, that an installed chain leads through
an `Impl` to Rprof's handler and to the file of the same session; in
`InitactNotChain`, that what `stop()` will restore is not the chain itself. The
last one is the subtle one: the constructor may find the chain of a running
session, and what makes it harmless is that such an `Impl` can never be
started while that session runs, nor after it, since its own `start_profiler()`
has ended by then. `NativeFresh` says that a session without an installed chain
has no native samples, so that the first joint tick finds an empty file and the
native samples stay a suffix of the R samples. `InUse` says which `Impl`s the
finalizer cannot have deleted, with interrupts too: the one of the start in
progress and the one in `.my_env`, which is `static_impl` until `stop()` clears it.
The parts of `ChainHasImpl` and of the refinement that are about deleted `Impl`s
rest on it. `Owned` strengthens `SessionOwned`
and `HandlerHasStream` with the statement-by-statement relation of `static_impl`,
`.my_env` and the finalized `Impl`s. It follows from `TypeOK` and the numbering of
the calls alone, so that `ChainThreads`, where little else of `IInv` holds, can use
it too.

`ChainThreadsProofs`, for every set of threads:

- `ThreadsTypeCorrect`, `HeaderAlwaysFirst`: `ThreadsSpec => []P` for
  `ThreadsTypeOK` and `HeaderFirst`, by `ThreadsInv`: a handler beyond its test
  has an `Impl`, and whatever `static_impl` or a handler may hold has a file with
  a header (`Opened`). No assumption is made on how handlers and R interleave;
- `SerialHandlersSafe`: `ThreadsSpec => []SafeWhileSerial`, assuming `"interrupt"
  \notin Env`. `SerialInv` adds `Owned` and `Undisturbed`: while `serial`, there is
  one handler at most, the `Impl` it holds is still `static_impl`, and the
  disposition is still, or will be restored to, the chain. `SoloStep` is the
  lemma about the step of a handler that is alone;
- `HandlerAtomic`: `ThreadsSpec => AtomicWhileSerial` under the same assumption:
  the handler in steps implements the atomic one of `DaisyChain`. `InOrder` says
  what a handler in flight has done so far (`InMidHandler`): its tick is the last
  record of the native file once it has written, and of the R file once Rprof's
  handler was called, and is nowhere else. So the mapping, which drops the tick of
  a handler in flight from the end of the logs (`Settled`), hides every step but
  the last (`HiddenStep`), and the last is the `Tick` of `DaisyChain` (`LastStep`).
  `Fresh` is needed beside it: dispositions that have not been saved yet are
  default ones, so that the mapping need not hide what `start()` has read while a
  handler was elsewhere. The statements of R's thread map to themselves
  (`RStatementAlone`, `RStatementBeside`).

`ComingleProofs`, for every depth, assuming `"interrupt" \notin Env`:
`ComTypeCorrect`, `SessionAlwaysEndsWithFrame`, `FrameAlwaysCompletes`:
`ComSpec => []P` for `ComTypeOK`, `SessionEndsWithFrame` and
`FrameCompletesItsOwn`. What `DaisyChainProofs` says of `Next` carries over,
since every step of `ComNext` is one of `Next` or leaves its variables alone.
`FramesInv` adds the frames: `Nested` says what a frame that starts or stops may
find, whatever calls are between; `OpenedByStart` keeps files unopened before
their start; `OpenInUse`, that the open file of a frame is always in use, so that
the collector leaves it alone; and `HalfStarted`, that between calls Rprof collects
without a session in `.my_env` only where the native file could not be created.

`ProfileFileProofs`, for every stack depth, every set of addresses and every
number of records:

- `OnlyDefinedWords`: `Spec => []TypeOK`: no unwritten cell of the array is ever
  written to the file. The argument is `RecordDefined`, about which cells a
  record covers;
- `ReaderInventsNothing`, `ReaderLosesNothing`: `Spec => []P` for `NothingInvented`
  and `NothingLost`. The inductive invariant `Layout` says that there are places in
  the file where the records of the traces begin, each laid out as far as the file
  goes, and how long the file is unless the disk is full. The reader is then
  followed from place to place, by induction on the number of records read. That a
  sample is not taken for the trailer is that its first word is 1.

`ProcMapsProofs`, for every buffer size and every file of mappings, however it
changes, and wherever reads fail:

- `PointersAlwaysOrdered`: `Spec => []PointersOrdered`: `stext_ <= nextline_ <=
  etext_` and the line that is parsed is terminated inside the buffer. Its lemma
  `ReadFits` bounds what a refill reads;
- `OnlyTextWritten`: `Spec => []TypeOK`. `TextRead` strengthens it: below `etext_`
  there is text of the file and what the loop has terminated, so that the path and
  the garbage which the constructor left in the buffer never get into a line. The
  lemmas on the parser (`Extracted`, `Skipped`, `FieldAfter`, `ParsedTyped`) say
  that each field that is found lies inside the line;
- `EntriesAlwaysInOrder`, `TrailerAlwaysComplete`: `Spec => []P` for
  `EntriesInOrder` and `TrailerComplete`. Neither is inductive, as they say nothing
  of what has not been written yet. `IteratorInv` adds four things. `Unlost`: the
  text in the buffer is what follows in the file at the place up to which the
  iterator has gone (`Place`). `Standing(m)`: that place is at the end of the first
  `m` mappings, or in the line of the next one if it was too long or a read has
  failed, or just before its newline. `Accounted(m, from)`: the lines written so
  far are of the mappings `from`, none of them beyond that place, and all that can
  be listed without a failure are among them. `Finished`: the loop ends at the end
  of the file. Three groups of lemmas carry the steps. The lines (`LineLaidOut`,
  `FieldsOfPiece`, `PieceParsed`, `TailSilent`, `RemainsDamaged`): of the stretch of
  a line from one character to another, the parser makes an entry only if it
  begins with the first or the second character and reaches the blank after the
  inode, and that entry is the mapping, or what `Damaged` allows. The
  text (`TextLaidOut`, `StretchOfLine`): where each line lies in the file, so that a
  stretch without a newline belongs to one mapping. The buffer (`TerminateReads`,
  `RefillReads`): a turn parses the text up to the next newline, or all that a
  full buffer, the end of the file or a failure leaves it (`GoneTo`). `Remap` keeps
  the lines that have begun to be read, and the iterator has gone through no others
  (`RemapKeeps`).

`StackSampleProofs`, for every program that `CompilerAssumption` allows, every
depth that is unwound and as many calls as the stack holds above the first 64K:

- `SampleTypeCorrect`, `NoCallerSkipped`: `SampleSpec => []P` for `SampleTypeOK`
  and `NoFalseEdge`. The inductive invariant `Shape` says what the stack looks
  like: the call at depth `l` has its return address at `StackTop - 8 * l` and its
  frame in the next word below, which holds the frame of the call outside it; the
  registers are where the kind of the interrupted instruction has them; every call
  in progress but the innermost has its frame. From it `Followed` computes, by
  induction, where `frame` leads; `Patterns`, where the three patterns match; and
  `PC` and `Unwinds` what `GetPC()` and the unwinder return at each kind of place.
  Where the place is known the sample shows the stack (`Shown`), and else all of it
  but the caller (`Skipped`); `Truthful` is the same for the samples already taken;
- `SamplesAreTraces`: `SampleSpec => Spec`, where `Spec` is the one of
  `ProfileFile`. `NoFalseEdge` is about what pprof reads, and rests on
  `ReaderInventsNothing` through it.

`CombineProofs`, for every set of runs (sequences of pairs of stacks of names,
`CombineAssumption`), any number of ticks and any missing ones, whether pprof
merges or not: `RowsComplete`, `StacksNotMixed`, `PairedUnlessMerged`,
`FailsForMissing` and `CallsPatched`, that is, `Spec => []P` for all five
properties of the run `combine`. The invariant `CombineInv` follows the steps of
`combine_profiles()`. A profile *holds* stacks if its samples, in order and as
often as their value says, show them through its tables, and *carries* them if
each is a row of its own (`Holds`, `Carries`); there is an order in which the
native stacks come (`Order`), the one of the ticks unless pprof has merged equal
ones that are apart; the tables are kept apart once the ids are shifted
(`Separated`, `Below`), so that in the united tables each id still shows the
same names (`Joined`). Tables whose ids are unique and resolve are `Valid`, so that
`validate_profile()` passes them, and the columns have the same length. `Frameless`
covers the runs without any R frame, whose tables are empty and whose native ids
may all be `-Inf`. Each action has one lemma (`ReadInv` to `PatchInv`); the sums
and expansions are recursive functions, treated by induction.

The provers do not take the induction rules of the library, whose premises are
operators. `Iteration` states them for sets and functions instead (`UpTo`: what
holds of 0 and is passed on holds up to a number; `Iterates`: a first value and a
step have a function), from the well-foundedness of the natural numbers. With
these the recursive functions `position` (pprof's reader) and those of `Combine`
have proofs.

Only model-checked: the liveness property `LoopEnds`, which is out of the prover's
reach, and `ReadsMapped`, of which the assumption on the edge of the program leaves
little to prove. Every other property of a passing run has a theorem.

## What is not modelled

- `maps_backing` of the maps iterator, which the package does not use; the
  iterators of other platforms, which lie between the lines that `Turn` stands
  for; the width of the numbers. Of several failing reads in one run of the
  iterator only the first brings anything in (`Reads`).
- Unloading other than by `pkgload` or `dyn.unload()`, which call
  `R_unload_jointprof()`: the package has no `.onUnload`, so that a plain
  `unloadNamespace()` leaves the shared object where it is.
- That R's own handler sends the signal on to R's thread when it is called on
  another; `ChainThreads` has it sample there, or not at all.
- `GetPC()` elsewhere than on 32-bit x86, where it is a field of the context; the
  unwinder itself; memory ordering between threads beyond a null re-read.
- Threads in `Comingle`, and the unloading of the package under a handler on
  another thread.
- The contents of the files R writes, handing them to proffer, the callback
  scaffolding, generated and vendored code (`src/basictypes.h`,
  `src/RcppExports.cpp`), the build.

## Plan

What would come next: `Combine` with R samples that lack a native one at any place,
as threads may cause, as a refinement of `JointSession`: which rows of the result
are samples of one tick.
