---------------------------- MODULE BuildTargets ----------------------------
(***************************************************************************)
(* The build script: invocations of build.py, one after the other, on the *)
(* files that they leave behind.  A target is a Python function wrapped by *)
(* requires(), which calls the targets it depends on first and remembers,  *)
(* for the rest of the process, that it has run.                           *)
(*                                                                         *)
(* The process is a stack of frames, one for each on_target() in progress: *)
(* a frame holds the step that its target makes next.  Between two steps   *)
(* the user may edit a source file or interrupt the process.               *)
(***************************************************************************)
EXTENDS Integers, Sequences, FiniteSets, SequencesExt

CONSTANTS
  UtilFiles, InitFiles, HelloFiles,  \* the .c files below util, init, hello-world
  Script,                            \* project.py, which holds the flags of gcc
  Absent,                            \* a file that does not exist
  Argvs,                             \* the command lines that are tried
  MaxClock, MaxConfig                \* bounds: file times, kernel configurations

ASSUME BuildAssumption ==
  /\ UtilFiles \cap InitFiles = {} /\ (UtilFiles \cup InitFiles) \cap HelloFiles = {}
  /\ Script \notin UtilFiles \cup InitFiles \cup HelloFiles
  /\ IsFiniteSet(UtilFiles) /\ IsFiniteSet(InitFiles) /\ IsFiniteSet(HelloFiles)
  /\ MaxClock \in Nat \ {0} /\ MaxConfig \in Nat

Files    == UtilFiles \cup InitFiles \cup HelloFiles
ElfFiles == InitFiles \cup UtilFiles

VARIABLES
  running,    \* a build.py process exists
  argv,       \* sys.argv[1:], what is left of it
  stack,      \* the calls of on_target() in progress, innermost first
  called,     \* calledTargets
  start,      \* the sources' times when the process started (history)
  clock,      \* the current time
  src,        \* st_mtime of each source; it also tells versions apart
  obj,        \* each object file: what it was made from, and its st_mtime
  elf,        \* output_init_elf: what each of its objects was made from
  out,        \* the other contents of the output directory
  saved,      \* custom_config, kernel/.config
  installed,  \* installed_config, linux/.config
  configs     \* the number of configurations made so far

process == <<running, argv, stack, called, start>>
project == <<clock, src, obj, elf>>
kconfig == <<saved, installed, configs>>
vars    == <<process, project, out, kconfig>>

-----------------------------------------------------------------------------
(* The targets, each as the sequence of its steps: the targets and directories
   that requires() lists, then the body. *)

Call(t) == <<"call", t>>
Do(e)   == <<"do", e>>

\* dirs(): not wrapped by requires(), so it runs every time.
dirs == Do("mkdir")

gcc_c_all(files) ==
  [i \in 1..Cardinality(files) |-> <<"gcc_c", SetToSeq(files)[i]>>]

use_saved_config   == <<Do("copy_saved")>>
signing_key        == <<dirs, Do("openssl")>>
generate_initramfs == <<Do("write_list")>>

\* Mutated form: the headers are wanted before the kernel is compiled.
bare_kernel_headers_first == <<Call("kernel_headers"), Call("use_saved_config"), Do("vmlinux")>>

bare_kernel    == <<Call("use_saved_config"), Do("vmlinux")>>
kernel_headers == <<Call("bare_kernel"), dirs, Do("headers_install")>>
kernel         == <<Call("signing_key"), Call("generate_initramfs"), Call("kernel_headers"),
                    Call("use_saved_config"), Do("config_modify"), Do("bzImage")>>
clean          == <<Do("rmtree"), Do("clean")>>
save_config    == <<Do("copy_installed")>>

\* Mutated form: the menu opens on whatever is installed.
configure_no_reset == <<Do("menuconfig"), Call("save_config")>>

configure      == <<Call("use_saved_config"), Do("menuconfig"), Call("save_config")>>
hello_world    == Append(gcc_c_all(HelloFiles), Do("link_hello"))
lib_util       == gcc_c_all(UtilFiles)
lib_init       == gcc_c_all(InitFiles)

init == <<Call("lib_util"), Call("lib_init"), Do("link_init")>>

\* Targets that change none of the files modelled here are left out.
availableTargets ==
  [use_saved_config |-> use_saved_config, signing_key |-> signing_key,
   generate_initramfs |-> generate_initramfs, bare_kernel |-> bare_kernel,
   kernel_headers |-> kernel_headers, kernel |-> kernel, clean |-> clean,
   save_config |-> save_config, configure |-> configure,
   hello_world |-> hello_world, lib_util |-> lib_util, lib_init |-> lib_init,
   init |-> init]

Targets == DOMAIN availableTargets

-----------------------------------------------------------------------------
(* The process. *)

Init ==
  /\ running = FALSE /\ argv = <<>> /\ stack = <<>> /\ called = {}
  /\ clock = 1
  /\ src = [f \in Files \cup {Script} |-> 0]
  /\ start = src
  /\ obj = [f \in Files |-> Absent]
  /\ elf = Absent
  /\ out = {}
  /\ saved = [edit |-> 0, initrd |-> FALSE]
  /\ installed = Absent
  /\ configs = 0

\* A time later than that of every file of the project.
Later ==
  IF \/ clock \in Range(src)
     \/ \E f \in Files : obj[f] # Absent /\ obj[f].mtime = clock
     \/ elf # Absent /\ elf.mtime = clock
  THEN clock + 1
  ELSE clock

\* Starting the script takes longer than the resolution of file times.
Invoke ==
  /\ ~running
  /\ Later <= MaxClock
  /\ clock' = Later
  /\ running' = TRUE
  /\ argv' \in Argvs
  /\ called' = {}
  /\ start' = src
  /\ UNCHANGED <<stack, src, obj, elf, out, kconfig>>

\* The end of the process, whatever the reason: its memory is gone.
Ends ==
  /\ running' = FALSE
  /\ argv' = <<>> /\ stack' = <<>> /\ called' = {}
  /\ start' = [f \in DOMAIN src |-> 0]

\* on_target() of t is entered, unless t is in calledTargets.
Enter(t, below) ==
  stack' = IF t \in called
           THEN below
           ELSE <<[target |-> t, at |-> 1]>> \o below

\* The loop of main() over the names it was given; an unknown one is skipped.
main ==
  /\ running /\ stack = <<>>
  /\ \/ /\ argv # <<>>
        /\ IF Head(argv) \in Targets THEN Enter(Head(argv), <<>>) ELSE UNCHANGED stack
        /\ argv' = Tail(argv)
        /\ UNCHANGED <<running, called, start>>
     \/ /\ argv = <<>>
        /\ Ends
  /\ UNCHANGED <<project, out, kconfig>>

\* Ctrl-C, or anything else that ends the process between two steps.
Interrupt ==
  /\ running
  /\ Ends
  /\ UNCHANGED <<project, out, kconfig>>

Steps(t) == 1 .. Len(availableTargets[t])

\* The stack when the innermost target has made one step.
Stepped == [stack EXCEPT ![1].at = @ + 1]

At(step) ==
  /\ stack # <<>>
  /\ stack[1].at \in Steps(stack[1].target)
  /\ availableTargets[stack[1].target][stack[1].at] = step

Runs(step) ==
  /\ At(step)
  /\ stack' = Stepped
  /\ UNCHANGED <<running, argv, called, start>>

CallTarget(t) ==
  /\ At(Call(t))
  /\ Enter(t, Stepped)
  /\ UNCHANGED <<running, argv, called, start, project, out, kconfig>>

\* Mutated form: on_target() does not note what it has called.
Return_unnoted ==
  /\ stack # <<>>
  /\ stack[1].at \notin Steps(stack[1].target)
  /\ stack' = Tail(stack)
  /\ UNCHANGED <<running, argv, called, start, project, out, kconfig>>

\* func() has returned: on_target() appends it to calledTargets.
Return ==
  /\ stack # <<>>
  /\ stack[1].at \notin Steps(stack[1].target)
  /\ called' = called \cup {stack[1].target}
  /\ stack' = Tail(stack)
  /\ UNCHANGED <<running, argv, start, project, out, kconfig>>

-----------------------------------------------------------------------------
(* The steps of project.py. *)

is_any_newer(dst, mtimes) ==
  IF dst = Absent THEN TRUE ELSE \E m \in mtimes : m > dst.mtime

\* gcc fails without the kernel's headers, and may fail anyway.
CanCompile == "include" \in out

\* An output that gcc was writing when it failed is kept or removed.
gcc_fails == Ends

gcc_c(f) ==
  /\ At(<<"gcc_c", f>>)
  /\ out' = out \cup {"dir"}
  /\ \/ /\ ~is_any_newer(obj[f], {src[f], src[Script]})
        /\ Runs(<<"gcc_c", f>>)
        /\ UNCHANGED obj
     \/ /\ is_any_newer(obj[f], {src[f], src[Script]})
        /\ CanCompile
        /\ Runs(<<"gcc_c", f>>)
        /\ obj' = [obj EXCEPT ![f] =
                     [of |-> [src |-> src[f], script |-> src[Script]], mtime |-> clock]]
     \/ /\ is_any_newer(obj[f], {src[f], src[Script]})
        /\ gcc_fails
        /\ obj' \in {obj, [obj EXCEPT ![f] = Absent]}
  /\ UNCHANGED <<clock, src, elf, kconfig>>

\* Mutated form: only the objects of init are compared with the program.
link_times_init_only == {obj[f].mtime : f \in {g \in InitFiles : obj[g] # Absent}}

link_times == {obj[f].mtime : f \in {g \in ElfFiles : obj[g] # Absent}}

\* A missing object is an error, of stat() or of the linker.
link_init ==
  /\ At(Do("link_init"))
  /\ \/ /\ \A f \in ElfFiles : obj[f] # Absent
        /\ ~is_any_newer(elf, link_times)
        /\ Runs(Do("link_init"))
        /\ UNCHANGED elf
     \/ /\ \A f \in ElfFiles : obj[f] # Absent
        /\ is_any_newer(elf, link_times)
        /\ Runs(Do("link_init"))
        /\ elf' = [of |-> [f \in ElfFiles |-> obj[f].of], mtime |-> clock]
     \/ /\ \/ \E f \in ElfFiles : obj[f] = Absent
           \/ is_any_newer(elf, link_times)
        /\ gcc_fails
        /\ elf' \in {elf, Absent}
  /\ UNCHANGED <<clock, src, obj, out, kconfig>>

link_hello ==
  /\ At(Do("link_hello"))
  /\ \/ /\ \A f \in HelloFiles \cup UtilFiles : obj[f] # Absent
        /\ Runs(Do("link_hello"))
     \/ gcc_fails
  /\ UNCHANGED <<project, out, kconfig>>

-----------------------------------------------------------------------------
(* The steps of kernel.py.  The results of the programs it starts are not
   looked at: when one fails, the target goes on without its effect.  The
   files signing.conf and kernel.py are not edited here, so that is_newer() is
   true of the key and of the list only when they do not exist. *)

make_dirs ==
  /\ Runs(dirs)
  /\ out' = out \cup {"dir"}
  /\ UNCHANGED <<project, kconfig>>

openssl ==
  /\ Runs(Do("openssl"))
  /\ out' \in {out, out \cup {"kernel_key.pem"}}
  /\ UNCHANGED <<project, kconfig>>

\* write_bytes() raises an exception if there is no output directory.
write_list ==
  /\ At(Do("write_list"))
  /\ IF "initramfs.conf" \in out \/ "dir" \in out
     THEN Runs(Do("write_list")) /\ out' = out \cup {"initramfs.conf"}
     ELSE Ends /\ UNCHANGED out
  /\ UNCHANGED <<project, kconfig>>

\* Mutated form: a configuration that is already installed is kept.
copy_saved_once ==
  /\ Runs(Do("copy_saved"))
  /\ installed' = IF installed = Absent THEN saved ELSE installed
  /\ UNCHANGED <<project, out, saved, configs>>

copy_saved ==
  /\ Runs(Do("copy_saved"))
  /\ installed' = saved
  /\ UNCHANGED <<project, out, saved, configs>>

\* make in the kernel's directory.  What it builds is not modelled: the
\* properties are about what it finds when it is started.
kernel_target(goal) ==
  /\ Runs(Do(goal))
  /\ UNCHANGED <<project, out, kconfig>>

headers_install ==
  /\ Runs(Do("headers_install"))
  /\ out' \in {out, out \cup {"dir", "include"}}
  /\ UNCHANGED <<project, kconfig>>

\* A configuration in which the options that kernel() sets for the built-in
\* initramfs are set, all of them or some: they are one value here.
WithInitrd(config) == [config EXCEPT !.initrd = TRUE]

\* Nobody looks at the result of scripts/config, which may not edit the file.
config_modify ==
  /\ Runs(Do("config_modify"))
  /\ installed' \in {installed, WithInitrd(installed)}
  /\ UNCHANGED <<project, out, saved, configs>>

rmtree ==
  /\ Runs(Do("rmtree"))
  /\ obj' = [f \in Files |-> Absent] /\ elf' = Absent /\ out' = {}
  /\ UNCHANGED <<clock, src, kconfig>>

\* copy2() raises an exception if there is nothing to copy.
copy_installed ==
  /\ At(Do("copy_installed"))
  /\ IF installed # Absent
     THEN Runs(Do("copy_installed")) /\ saved' = installed
     ELSE Ends /\ UNCHANGED saved
  /\ UNCHANGED <<project, out, installed, configs>>

\* The user makes a new configuration out of the installed one, or leaves it.
menuconfig ==
  /\ Runs(Do("menuconfig"))
  /\ \/ UNCHANGED kconfig
     \/ /\ configs < MaxConfig
        /\ configs' = configs + 1
        /\ installed' = [installed EXCEPT !.edit = configs + 1]
        /\ UNCHANGED saved
  /\ UNCHANGED <<project, out>>

-----------------------------------------------------------------------------
(* The user. *)

\* An edit comes later than every file that is there; it may come while the
\* script runs, but not within a run of gcc.  (The bound leaves time to build.)
Edit(f) ==
  /\ Later < MaxClock
  /\ clock' = Later
  /\ src' = [src EXCEPT ![f] = Later]
  /\ UNCHANGED <<process, obj, elf, out, kconfig>>

\* Time passes; without it, the steps of one process share a time.
Tick ==
  /\ running
  /\ clock < Later /\ Later <= MaxClock
  /\ clock' = Later
  /\ UNCHANGED <<process, src, obj, elf, out, kconfig>>

\* kernel/.config is replaced by another one, say by git.
ReplaceSaved ==
  /\ ~running
  /\ configs < MaxConfig
  /\ configs' = configs + 1
  /\ saved' = [edit |-> configs + 1, initrd |-> FALSE]
  /\ UNCHANGED <<process, project, out, installed>>

Next ==
  \/ Invoke
  \/ main
  \/ Interrupt
  \/ \E t \in Targets : CallTarget(t)
  \/ Return
  \/ \E f \in Files : gcc_c(f)
  \/ link_init \/ link_hello
  \/ make_dirs \/ openssl \/ write_list \/ headers_install
  \/ copy_saved \/ config_modify \/ copy_installed \/ menuconfig \/ rmtree
  \/ \E goal \in {"vmlinux", "bzImage", "clean"} : kernel_target(goal)
  \/ \E f \in Files \cup {Script} : Edit(f)
  \/ Tick
  \/ ReplaceSaved

Spec == Init /\ [][Next]_vars

-----------------------------------------------------------------------------
(* Properties. *)

Times   == 0..MaxClock
Made    == [src : Times, script : Times]
Configs == [edit : 0..MaxConfig, initrd : BOOLEAN]
Outputs == {"dir", "kernel_key.pem", "initramfs.conf", "include"}

TypeOK ==
  /\ running \in BOOLEAN
  /\ called \subseteq Targets
  /\ stack \in Seq([target : Targets, at : Nat])
  /\ clock \in Times
  /\ src \in [Files \cup {Script} -> Times] /\ start \in [Files \cup {Script} -> Times]
  /\ obj \in [Files -> {Absent} \cup [of : Made, mtime : Times]]
  /\ elf = Absent \/ elf \in [of : [ElfFiles -> Made], mtime : Times]
  /\ out \subseteq Outputs
  /\ saved \in Configs
  /\ installed = Absent \/ installed \in Configs
  /\ configs \in 0..MaxConfig

\* requires() notes a target only after it has run, so a target that led back to
\* itself, through its dependencies or a call in a body, would never return.
NoReentry ==
  \A i, j \in 1..Len(stack) : stack[i].target = stack[j].target => i = j

\* The calls in progress: a target waits for the one it has called, everything
\* it called before is in calledTargets, and itself it is not.
StackInv ==
  /\ stack # <<>> => running
  /\ ~running => called = {}
  /\ \A i \in 1..Len(stack) :
        /\ stack[i].at \in 1 .. (Len(availableTargets[stack[i].target]) + 1)
        /\ stack[i].target \notin called
  /\ \A i \in 2..Len(stack) :
        /\ stack[i].at > 1
        /\ availableTargets[stack[i].target][stack[i].at - 1] = Call(stack[i - 1].target)
  /\ \A i \in 1..Len(stack), t \in Targets : \A n \in 1 .. (stack[i].at - 1) :
        availableTargets[stack[i].target][n] = Call(t)
          => t \in called \/ (i > 1 /\ n = stack[i].at - 1)

\* Made from the sources, and with the script, as they were when the process
\* started or later.
Current(of) ==
  \A f \in ElfFiles : of[f].src >= start[f] /\ of[f].script >= start[Script]

\* When init() has run, the init program is linked from objects that are up to
\* date with everything edited before the process started, whatever earlier
\* invocations left behind when they failed or were interrupted.
ElfIsCurrent ==
  "init" \in called /\ elf # Absent => Current(elf.of)

\* A kernel is built from the saved configuration, with the options of kernel()
\* or, where scripts/config failed, without, although kernel() and bare_kernel()
\* share one reset of the installed one, and earlier invocations may have left
\* any other installed.  The one exception is a configuration that the menu of
\* configure() has just made in the same process: it is built from, also when
\* it is not saved, as in "save_config configure kernel", whose second
\* save_config() does nothing.
KernelFromSaved ==
  At(Do("bzImage")) =>
    \/ installed \in {saved, WithInitrd(saved)}
    \/ "configure" \in called /\ installed.edit = configs

\* "Reset the config installed in the linux source directory" (kernel.py:51):
\* the menu of configure() opens on the saved configuration, whatever earlier
\* invocations and other targets of this one left installed; behind kernel(),
\* which has used up the one reset of the process, with its options set.
MenuFromSaved ==
  At(Do("menuconfig")) =>
    \/ installed = saved
    \/ "kernel" \in called /\ installed = WithInitrd(saved)

-----------------------------------------------------------------------------
(* Why they hold. *)

\* Target t is in progress, at step n; or there or further on.
Doing(t, n) == \E i \in 1..Len(stack) : stack[i].target = t /\ stack[i].at = n
Past(t, n)  == \E i \in 1..Len(stack) : stack[i].target = t /\ stack[i].at >= n

\* No file has a time to come, and sources only get later.
TimesInv ==
  /\ \A f \in Files \cup {Script} : start[f] <= src[f] /\ src[f] <= clock
  /\ \A f \in Files : obj[f] # Absent => obj[f].mtime <= clock
  /\ elf # Absent => elf.mtime <= clock

\* An object that is no older than its source was made from it, and a program
\* that is no older than an object was linked from it: a process compiles no
\* object of init at the time that the program already has, because it compiles
\* before it links.
MadeInv ==
  /\ \A f \in Files : obj[f] # Absent =>
        /\ src[f] <= obj[f].mtime => obj[f].of.src = src[f]
        /\ src[Script] <= obj[f].mtime => obj[f].of.script = src[Script]
  /\ elf # Absent =>
        /\ \A f \in ElfFiles :
              obj[f] # Absent /\ obj[f].mtime <= elf.mtime => elf.of[f] = obj[f].of
        /\ running /\ ~({"lib_util", "lib_init"} \subseteq called) => elf.mtime < clock

\* gcc_c has looked at f in this process.
Compiled(f) ==
  \/ f \in UtilFiles /\ "lib_util" \in called
  \/ f \in InitFiles /\ "lib_init" \in called
  \/ \E i \in 1..Len(stack) : \E n \in 1 .. (stack[i].at - 1) :
        availableTargets[stack[i].target][n] = <<"gcc_c", f>>

\* The objects of init, and then the program, are brought up to date with the
\* start of the process, and stay so or are deleted.
FilesInv ==
  /\ TimesInv /\ MadeInv
  /\ \A f \in ElfFiles : Compiled(f) /\ obj[f] # Absent =>
        obj[f].of.src >= start[f] /\ obj[f].of.script >= start[Script]
  /\ ("init" \in called \/ Doing("init", 4)) /\ elf # Absent => Current(elf.of)

\* What is installed is what is saved, from the one reset of the process to the
\* menu of configure(), but for the options that kernel() sets, and behind the menu
\* it is that or the last configuration made.
ConfigInv ==
  /\ "use_saved_config" \in called => installed \in Configs
  /\ Doing("use_saved_config", 2) => installed = saved
  /\ "use_saved_config" \in called /\ "configure" \notin called /\ ~Past("configure", 3) =>
        \/ installed = saved
        \/ ("kernel" \in called \/ Past("kernel", 6)) /\ installed = WithInitrd(saved)
  /\ "use_saved_config" \in called =>
        installed \in {saved, WithInitrd(saved)} \/ installed.edit = configs

\* All that an invocation keeps.
BuildInv == TypeOK /\ StackInv /\ FilesInv /\ ConfigInv
=============================================================================
