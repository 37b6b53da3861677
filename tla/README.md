# minlinux: specifications of the init program and its build

minlinux builds a single-file Linux: a kernel with a built-in initramfs that
holds one static program without a libc, `/init`. That program is the main
subject of this project: it boots the machine, shows a prompt, runs commands
and receives signals, all from one loop over an io_uring. The script that
builds it is the other.

## The system

| part | source | state | operations |
| --- | --- | --- | --- |
| io_uring wrapper | `util/uring_ctl.c`, `include/minlinux/uring_ctl.h` | two rings shared with the kernel, two private cursors | `uring_init`, `uring_new_submission`, `uring_wait`, `uring_result`, `uring_advance`, (`uring_close`, never called) |
| event loop | `init/init.c` | the global `buffer`, `siginfo`, `sigfd`; the CQE in hand | `start`, `init`, `handle`, `process_input`, `process_signal`, `submit_sig_listen`, `create_console_prompt` |
| commands | `init/command.c` | the line, split in place; the argument array; descriptors | `process_command`, the builtins, `busybox`, `fill_args`, `find_arg`, `terminate_arg`, `dirlist` |
| utility library | `util/util.c` | none (one static buffer) | memory, string and number formatting |
| system calls | `include/minlinux/syscall.h` | none | inline wrappers |
| build script | `buildscript/` | files and their times, targets already run, the installed kernel configuration | one function per target, memoised by `requires` |
| the rest | `kernel.mk`, `kernel/`, `hello-world/` | | older makefile, configuration, a test program |

How they interact. `start` boots, queues a prompt (a write linked to a read of
the console) and a read of the signalfd, then repeats: `uring_wait` hands the
queued requests to the kernel and blocks, `uring_result` points at the oldest
completion, `handle` serves it and queues the request that replaces it,
`uring_advance` releases it. The kernel completes requests at any moment in
between. A console line goes to `process_command`, which may fork: the parent
waits for the child with the completion still in hand; the child inherits the
shared mapping of the rings and a private copy of the cursors.

What is hard about it:

* free-running 32-bit cursors that wrap, two rings, an index array;
* calls that submit only part of what was queued, and break links;
* the kernel posting completions while one is being handled, and writing the
  global buffer whenever a console read is in flight;
* pointers used unchecked, because "there is always room";
* a forked child that returns from `execveat` into its parent's code;
* descriptors that are right only because of the order in which files were
  opened, that commands leave open, and that a child closes and opens again
  under the same numbers;
* being process number 1, which inherits what programs leave behind;
* incremental builds that go by file times, over sources edited meanwhile and
  what failed invocations left behind, with commands memoised like files;
* strings split in place at the end of a buffer that is reused, and an array
  of arguments at its limit.

What makes each part correct:

* ring: requests and results arrive once, in order; no slot is overwritten
  before it was read;
* loop: exactly one console read and one signal read is outstanding whenever
  it waits, the ring never is full when a handler queues, the buffer is never
  shared with the kernel during a command, the prompt comes back, signals are
  read;
* commands: the started program is given the words that were typed; nothing
  outside line and array is touched; it starts with the console, no signal
  blocked and nothing else; init waits for it and for nothing longer; `ls` and
  `cat` print everything once and return;
* utility library: copies are right under overlap, numbers are right up to the
  smallest, nothing is touched outside the strings and buffers given;
* build: a target's outputs are up to date when it has run; what an earlier
  invocation left installed gets neither into a kernel nor into the menu.

`PROJECT.json` lists the hazards line by line with the properties that cover
them.

## Modules

| module | models |
| --- | --- |
| `UringChannel` | what the ring promises: a bounded queue of requests, a bag of requests being worked on, a bounded queue of results |
| `UringQueue` | the ring itself and the kernel's side of `io_uring_enter` |
| `InitLoop` | `init.c` on top of the ring; extends `UringQueue` |
| `ForkedInit` | the child whose `execveat` fails; extends `InitLoop` and instantiates `UringQueue` a second time for the child's cursors |
| `ChildLife` | what `busybox` and `cmd_memrun` promise about the process they fork; `InitLoop` and `Launch` implement it |
| `FileCommands` | the loops of `cmd_cat` and `dirlist` |
| `Launch` | the system calls of boot and of the forked child, descriptor tables and signal masks, orphans; extends `FileCommands` |
| `MemUtil`, `IntToStr`, `StrUtil` | the functions of `util.c` and `streq`, one step per turn of their loops |
| `UtilLibrary` | the three together, for one run |
| `ArgParse` | the splitting of a line in `command.c` |
| `BuildTargets` | the build script: `build.py`, `requires`, `project.py` and the targets of `kernel.py` that change files |
| `UringQueueProofs`, `InitLoopProofs`, `LaunchProofs`, `ArgParseProofs`, `UtilLibraryProofs`, `BuildTargetsProofs` | theorems about the module of that name |
| `FileCommandsProofs`, `LeastNumber` | lemmas for them: the walk of `dirlist`; least elements, in place of induction |
| `MC...` | the instances for TLC |

**UringQueue.** The variables have the names of the fields of `uring_queue`;
`sq_head` .. `cqes` are the shared memory, `sq_list_head` and `sq_list_tail`
the private cursors. Cursors are numbers below `Modulus` (2^32) and all sums
and differences are taken modulo `Modulus`; `& mask` is the remainder by the
ring's size. An SQE is reduced to its `user_data`, which determines every
other field in this program. One action per call: `uring_new_submission(s)`
includes the caller's stores into the slot; `uring_wait` is the flush loop,
written as one assignment to the array, up to the system call. The kernel
(external) then reads SQEs one by one (`KernelStart`), may stop early once it
has read one (`EnterShort`), returns when enough completions are posted
(`EnterReturn`) or fails before it has read any (`EnterError`, after which
`SYSCHECK` ends the process). Completions (`KernelPost`) happen at any time
while the completion ring has room; a kernel with
`IORING_FEAT_NODROP` holds the others back. `MaxInflight` bounds how many
requests of one kind the kernel holds, to keep the model finite.

**InitLoop.** `pc` is the place in `start`, `init`, `handle` and
`process_input` between two calls that touch shared state. `cqe` is the slot
that the pointer given to `handle` designates. A result is reduced to what the
code distinguishes (`cqe->res` negative, zero, positive; the last character a
newline or not; a write full or short, which the link depends on). A request
for a slot on a full ring yields NULL, which the callers store through: `pc`
becomes `"fault"`. The link of the prompt's write and the read behind it is
the kernel's (`link_open`, `held`, `cancelled`): it exists only if one call
submits both, and anything but a full write cancels the read, which ends in
`ERREXIT`. The boot sequence is one action that succeeds or ends the process,
since each of its calls is behind `SYSCHECK` and nothing else runs yet; `Launch`
has the single calls. What a command does is left open (it returns, it fails,
it powers off, it forks).

**ForkedInit.** `execveat` returning is an event of its own. The child's
steps are the calls of `create_console_prompt`, `uring_advance` and
`uring_wait` on the shared variables with `c_list_head` and `c_list_tail` in
place of the parent's cursors; the flush is plain memory and succeeds, the
system call fails because `close_all_files` has closed the ring.

**Launch.** `start`, `busybox` and `cmd_memrun` are sequences of system calls;
`todo` is what a process still has to do of its sequence, and each call is an
action with the name of its wrapper in `syscall.h`. `fds` is a process's
descriptor table, `var` its variables that hold descriptors, so that a number
can outlive what it designated. A call behind `SYSCHECK` can fail for any
reason and ends the process; `failure` tells failures that the program brings
on itself (a file system not mounted yet, no descriptor left) from the others.
The table is empty at boot: the initramfs cannot hold `/dev`, or `mkdir` would
fail, so the kernel finds no console to open for init. Commands run one at a
time while `init` serves: `ls` and `cat` step through `FileCommands` on a
descriptor they leave open, the forking ones copy table, variables and mask
into the child. A child whose `execveat` fails is `"stray"` until `uring_wait`
ends it; what it does to the rings meanwhile is in `ForkedInit`, which relies
on `StrayHasNoRing`. `execveat` may fail for any reason, and always does for a
memfd into which nothing was copied. The result of `memfd_create` is not looked
at; the calls that follow fail without the memfd, so that `execveat` is never
given the error (`ProgramEnvironment`). A program may leave processes behind, which fork and end
as they like; `MaxPids` bounds all of them.

**FileCommands.** A directory is a list of record lengths, a file a list of
bytes of length one. The kernel fills the buffer with any number of records
that fit, reports the end or fails; the buffer keeps what is behind them. The
file type switch and the error texts are left out.

**MemUtil, IntToStr, StrUtil.** `memmove` works on any memory, source and
destination anywhere in it. Numbers are `Bits` wide and the negation in `ltoa`
is modulo `2^Bits`. The two conversion functions have one loop, so one set of
actions. `val` is what the caller was given, `in` what it hands on: `write_int`
takes an unsigned number and `ltoa` a signed one, so from half the range on a
negative number is printed, and `PrintsNumber` says which. `int_to_str` returns
a copy of its buffer and a pointer into the original, which is dead by then;
`SYSCHECK` reads through the pointer, so it prints the digits or anything
(`Overwritten`), and `PrintsNumber` is about the copy. Arrays in `StrUtil` hold a string and anything behind its end.
`memcmp` cuts the difference to a char: zero is right, the sign need not be,
and nothing uses it. `strchr` does not find the NUL.

**ArgParse.** The line is an array of characters (a letter, a space, a tab,
NUL), arguments are indices, `args` has one element more than the array to
show stores behind it. The scans of `find_arg` and `terminate_arg` are given
by where they stop. Every line up to the bound is tried, also with a NUL in
the middle and remains of older lines behind it. Which program the first word
names is left open instead of comparing letters. What the words of a line are
is defined apart from the scans: a word starts at a letter behind a blank or at
the beginning (`WordStarts`), and `IsWord(p, n)` says that the string at `p` is
the word with `n` others before it.

**BuildTargets.** Each target is a definition with its name in the source: the
sequence of what `requires` lists and what its body does. A process is a stack
of frames, each with a target and the step it makes next, `called` is
`calledTargets`. The
time of a source stands for its version as well; an object or the program
records what it was made from. A configuration is the number of the edit that
made it and whether the initramfs options are set. A run of gcc is one step: it
succeeds, or it fails, leaves its output there or not and ends the process;
without the kernel's headers it always fails. Other programs are started
without a look at their result, so they have their effect or not: openssl,
`headers_install` and `scripts/config`, whose options stand for one value. The user may
edit a source or interrupt the process between any two steps. Assumed of file
times: an edit is later than all existing files, and an invocation starts later
than the files an earlier one left. The second matters: with all of it within
one unit of time, an edit between compiling and linking goes unnoticed by the
next invocation.

Definitions whose comment starts with "Mutated form" are single plausible
mistakes; each property is known to fail when one of them replaces the
definition that follows.

## Runs

| run | checks | result |
| --- | --- | --- |
| `ring` | `UringTypeOK`, `SqWindow`, `KernelReadsFilled`, `SubmitsWhatIsThere`, `CqWindow`, `ImplementsChannel` | pass, 286,251 states |
| `loop` | `TypeOK`, `NeverFaults`, `ListensOnce`, `BufferExclusive`, `CqeHeld`, `UsesRing`, `ListenInv` | pass, 550,370 states |
| `loop_live` | `PromptReturns`, `SignalsRead`, `ForksOneChild` | pass, 200,806 states |
| `failed_exec` | `ResultIsPosted` | violated by the code |
| `launch` | `NoOwnFailure`, `InitDescriptors`, `ProgramEnvironment`, `StrayHasNoRing`, `InOrder`, `PrintsAll`, `InitInv`, `ImplementsChild`, `Returns` | pass, 346,349 states |
| `launch_copy` | `ExecsWholeFile` | violated by the code |
| `launch_orphans` | `OrphansReaped` | violated by the code |
| `arguments` | `ArgsAreWords`, `StaysInLine`, `WordsInv` | pass, 23,926 states |
| `arguments_bound` | `StoresInArray` | violated by the code |
| `util_library` | `LibInv`, `Moved`, `InBuffer`, `PrintsNumber`, `InString`, `Right` | pass, 16,315 states |
| `build_files` | `ElfIsCurrent`, `BuildInv` | pass, 2,355,551 states |
| `build_kernel` | `NoReentry`, `KernelFromSaved`, `MenuFromSaved`, `BuildInv` | pass, 330,336 states |

Five of these say why the others hold: `ListenInv`, `WordsInv`, `InitInv`
(`LaunchInv` for boot and children, `FileInv` for `ls` and `cat`), `LibInv`
(`LoopInv` for memory, `StringInv` for strings, `DigitsFit` and `DigitsRight` for numbers) and
`BuildInv` (`StackInv`, `FilesInv`, `ConfigInv`). They are the inductive
invariants of the proofs, checked here first, and all but `ListenInv` include
the types of their module.

Bounds. `ring`: two SQEs, four CQEs and cursors modulo eight let both rings
fill up, every slot be reused at different cursor values and all cursors wrap;
two kinds of requests tell orders apart. `loop`: three SQEs is the smallest
ring the program can run on, so it is full whenever the program gets there
(the real one has sixteen); three CQEs make the completion ring full as well,
which the real one of 32 hardly ever is; two requests of a kind in flight
allow the unlinked prompt writes to overlap. The sizes are not powers of two,
which the model does not need: it uses remainders, and `RingAssumption` only
asks that the sizes divide the modulus. `loop_live` is the same with one
request of a kind in flight. `launch`: eight descriptors, of which init takes
six, so that two `cat`s reach the limit, while `memrun` needs five of its own;
three processes let orphans use up all numbers; three records in a buffer of
three units come in one to three portions, with older and longer ones behind
them. `util_library`: six addresses hold every kind of overlap; eight bits and
five bytes are to each other as 64 bits and 21 bytes are, the smallest number
fills the buffer; three characters are enough for strings that are equal, that
differ, that are prefixes of each other, and for remains behind them.
`arguments`: six characters hold three words with
blanks around them, and four elements in the array make both the array and
the line run out. `build_files`: one file in each library and the script are
what a program depends on; four units of time give three invocations with edits
before, between and within them; the command lines are the usual ones and the
ones in which `clean` comes between two uses of a target. `build_kernel`: all
command lines of up to three names, one of them unknown, any number of
invocations, and two new configurations, by menu or by git.

Deadlock is checked where the bounds allow any number of invocations
(`build_kernel`); `build_files` stops when its time is used up. It is not
checked in the other runs, because the machine may be powered off,
init may exit, a line, once split, is done, and a call of the library returns;
that start() does not get stuck otherwise is what `loop_live` shows, and
`launch` that commands and children do not.

Fairness (`FairSpec`). Weak fairness for the program's own steps, for
`io_uring_enter` and for the child up to `execveat`: each is a process the
kernel schedules. Strong fairness for the completion of the console write, of
a cancelled read and of the signal read when a signal is pending: the kernel
keeps a completion that finds the ring full and posts it when there is room.
In `Launch`, weak fairness for the child's calls, for `waitid` when the child
has ended and for the loops of `ls` and `cat`. These end because directories
and files do: `cat` of a device that never reports an end keeps init, with all
signals blocked, for good, and `PromptReturns` is about commands that return;
only a program that runs for ever excuses a prompt that does not come back.
No fairness for the user typing, for a started program ending, for `waitid`
failing or for any other failure.

The passing runs of `InitLoop`, and the theorems about it, are about an
`execveat` that succeeds and a child that exits when an earlier call fails;
`failed_exec` shows that they do not survive an `execveat` that returns.

What the violations show:

* `failed_exec`: `memrun` of a file that is not executable is enough. The
  child reports "execveat returned", queues a prompt of its own, releases the
  completion its parent is handling, and dies in `uring_wait`. The parent
  releases it again; the head is then past the tail, and `uring_result` takes
  the empty ring for one with completions.
* `arguments_bound`: `fill_args` compares with `MAX_ARGS`, its array has
  `maxargs` elements; the "Truncated to" branch is never taken.
* `launch_copy`: `copy_file_range` may copy less than it is asked for, for
  instance when memory runs out. `SYSCHECK` only looks for errors, so `memrun`
  executes the beginning of a program.
* `launch_orphans`: a program that leaves a process behind makes init its
  parent. Its SIGCHLD is read from the signalfd and dropped by the empty
  `process_signal`; the only `waitid`s are for the process just forked. Each
  such process keeps its number for ever, and with none left `clone3` fails.

Known exceptions that the properties name:

* `ArgsAreWords`: `terminate_arg` never returns NULL as its comment says, so
  `memrun prog` starts the program with one empty argument.
* `MenuFromSaved`: in `build.py kernel configure` the reset that `configure`
  requires has run for `kernel` and does not run again, so the menu opens on the
  saved configuration with the initramfs options set, and they end up in what
  `configure` saves.
* `KernelFromSaved`: in `build.py save_config configure kernel` the `save_config`
  at the end of `configure` does nothing, and neither does the reset at the
  beginning of `kernel`: the kernel is built from the configuration just made in
  the menu, which is not saved. If `scripts/config` fails, the kernel is built
  without the initramfs options.
* `PrintsNumber`: `write_int` prints a number from 2^63 on as a negative one.
* `kernel` does not build init, although its description says so, and ignores
  the result of the make that needs it.

## Proofs

Every invariant of the passing runs is a theorem for all values of the
constants; so are the two refinements, without fairness. The rest of this
section goes through the arguments; "inductive" means that the initial states
satisfy the invariant and every step keeps it.

**The ring** (`UringQueueProofs`). `UringSpec => []UringInv` for rings of any
size and cursors of any width, given `RingAssumption`: the sizes divide the
modulus and are at least two below it. The second half is needed: with one slot
and cursors modulo two, a full ring plus one looks empty and `HasRoom` is wrong.
`UringInv` is the conjunction of the properties of the run, and inductive as it
stands; none of its parts is inductive alone. `KernelReadsFilled` needs
`SqWindow` to know that the flush loop does not reach around the ring to
positions handed over before; `SubmitsWhatIsThere` is what lets `KernelStart`
take one more SQE. The arithmetic comes first: remainders (`DivMod` ..
`ModMinusMod`), cursors (`MinusIncLeft`, `MinusIncRight`, `PlusMinus`), slots
(`SlotInc`, `SlotFrom`, `SlotDistance`, which says how far two slots are apart
in the ring). Each action then has one lemma. `NullOnlyWhenFull` reads the
invariant the other way: the tests of `uring_new_submission` and `uring_result`
say "full" and "empty" exactly when the rings are. `RingIsChannel` is the
refinement: the queues of `UringChannel` are the windows of the two rings, read
from the head on, and each action of the ring appends to one, takes the first
from one, or leaves both alone.

**The loop** (`InitLoopProofs`). `LoopInv` says that a CQE is in hand from
`uring_result` to `uring_advance` and still the oldest one whatever the kernel
posts meanwhile (`CqeHeld`); hence `uring_advance` is only called when a CQE is
there, which is the one thing the ring asks of its user, and `LoopUsesRing` and
`LoopSeesChannel` follow. `ListenInv` counts: at each place of `start`, `init`
and the handlers, the console reads queued, with the kernel, posted or being
cancelled, together, are one, or none while the handler has still to queue the
next; likewise for the signal reads, and no prompt's write is in the ring
without the read behind it. So the ring has room for what a handler queues:
`NeverFaults`; `ListensOnce` and `BufferExclusive` are the same account read at
other places. Counting elements of windows is counting the members of finite
sets of positions. `LoopAssumption` names the three requests and the results,
`SizeAssumption` asks for three entries in each ring. `LoopForksOneChild` is the
safety part of `ForksOneChild`. `HarmNeedsExecReturn` is about the run
`failed_exec`: as long as `execveat` returns in no child, a behaviour of
`ForkedInit` is one of `InitLoop`, and `ResultIsPosted` holds; so returning into
the parent's loop is the only cause of what that run shows.

**Boot and commands** (`LaunchProofs`, `FileCommandsProofs`). Boot and the two
children are texts, lists of calls. `LaunchInv`, one half of `InitInv`, says what a process has when it
is at the i-th call of its text: which descriptors are open and in which
variable (`InitAt`, `ChildAt`), from where on the child has its memfd
(`ChildMemfd`), and how many descriptors there are at most. `LaunchAssumption` asks
for at least six descriptors, which init needs; `NoOwnFailure` then says that
nobody else needs more, however many `cat`s have left theirs open. The proof
adds that a command only runs when the boot sequence is over (`AfterBoot`).
`FileInv` says of `dirlist` that the buffer's records up to the count are
consecutive records of the directory, with `pos` at the start of one, and that
what is before it has been printed; of `cmd_cat` likewise. This holds for any
buffer that takes the longest record (`FileAssumption`). `LaunchesOneChild` is
the safety part of `ImplementsChild`. `CommandsAdvance` is the part of `Returns`
that does not depend on scheduling: every step of `ls` and `cat` before they
return gets something new from the kernel, or comes to a later stage of the
loop, or further in the buffer, in that order of importance; the invariant
bounds each of the three, so a command cannot go on for ever.

**Arguments** (`ArgParseProofs`). `WordsInv` says that what is behind the last
string is still as typed, that the strings stored so far are the first words,
in order, and how many words start before the place where the next scan starts.
This holds for lines and arrays of any length, with at least three elements in the array
(`ArgAssumption`). `OverrunIsOneNull` says how far the overrun shown by
`arguments_bound` goes: one null pointer behind the array, and none for a line
whose words leave an element for "/busybox" and one for the null pointer. The
scans stop at the least position of some kind, so
`LeastNumber` is all the induction it takes.

**Utility library** (`UtilLibraryProofs`). `LibInv` has a part for each of the
three modules. `LoopInv` says which offsets of a
copy have had their turn and that all other bytes are as they were; the one step
that is not bookkeeping is that the byte `memmove` reads has not been
overwritten, because it moves away from what it still has to read. `StringInv`
says what a loop knows of the characters it has passed. `DigitsFit` says that
what is left of the number is below 10 to the number of bytes left, from which
`InBuffer` follows. `DigitsRight` says that what is stored so far are the last
digits of the number, each by its place, and that what is left is the number
without them; it is not zero unless no digit is stored, so there is no leading
zero; and it keeps `in` tied to `val`. `PrintsNumber` follows when what is left
is zero, once it is known what a list of digits stands for. `Value` is a recursive function, and what it computes
is shown without a rule of induction (`ValueIs`): any function that
satisfies the same equations agrees with it, because there is no least place
where the two differ. The quotients of the number by the powers of ten are such
a function (`DigitsDenote`). `CallsEnd` counts the turns that are left of a
call and shows that each step is one less. `UtilAssumption` is what the buffer of 21 bytes is to 64
bits: the largest magnitude has two digits less than the buffer has bytes.
`PowerAssumption` spells out the arithmetic of powers, which the provers do not
know; TLC evaluates it.

**The build** (`BuildTargetsProofs`). For any finite sets of source files, any
command lines and any sequence of edits, interruptions and failures, `BuildInv`
is inductive. Its part `StackInv` says that who waits has called the one above, and that what it called before has
returned. Each call in a target is of one with a smaller `Rank`, so no target
is on the stack twice (`NoReentry`); `kernel` and `configure` are called by
nobody, so when they run they are alone on it. `Fits` collects the facts about
the steps; `Progress` says what can become true of the targets in one step of
the process, so that the files and the configurations only have to be looked at
in the steps that change them. `FilesInv`: a file that is no older than its
sources was made from them, because an edit comes later than every file, and a
process compiles before it links; hence, when a target has looked at a file it
is up to date with the start of the process. `ConfigInv`: between the reset and
the menu of `configure`, the installed configuration is the saved one, but for
the options of `kernel`; at any time behind the reset it is that, with the
options or without, or the last one made in the menu. `BuildAssumption` asks that the directories have no
file in common and are finite.

**Only model-checked.** Liveness (`PromptReturns`, `SignalsRead`, `Returns`, and
the fairness in `ForksOneChild` and `ImplementsChild`), which the proof system
does not reach; and the violations, which are counterexamples.

## Not modelled

* the memory model: acquire and release in `uring_ctl.c` are taken to work,
  and calls are atomic except where the kernel runs in between;
* what `time`, `env` and `usage` print; `uring_close` and `pathfd`, which
  nothing calls; the error texts, some of which a child writes to descriptors
  it has just closed;
* in the build: headers as dependencies (the script ignores them, as a TODO in
  `project.py` says), an edit while gcc reads the file, what the kernel's own
  makefiles build and when, musl, dropbear and the manual pages;
* the assembly of the system call wrappers and the many wrappers that nothing
  calls; the startup code; the kernel configuration, the older makefile and
  `hello-world`.

## Plan

1. Done: all modules above, their runs, and the proofs of their invariants and
   of the safety parts of their refinements; what the violated properties are
   still true of (`HarmNeedsExecReturn`, `OverrunIsOneNull`).
2. Left: a count of steps like that of `CallsEnd` for the targets of the build
   would show that a build ends. What `ForkedInit` guarantees after `execveat`
   has returned is too little to state: the child writes the tail and the index
   array that it shares with its parent.
