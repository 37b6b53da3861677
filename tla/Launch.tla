------------------------------- MODULE Launch -------------------------------
(***************************************************************************)
(* How init gets its descriptors at boot (start() of init/init.c), what it *)
(* does to them while it serves commands, and how a forked child goes from *)
(* a copy of them to the program it starts (busybox() and cmd_memrun() of  *)
(* init/command.c).                                                        *)
(*                                                                         *)
(* A process is the list of system calls it has still to make before it    *)
(* serves commands, or becomes a program, and a table of descriptors.  A   *)
(* call is an action: it takes effect, or SYSCHECK ends the process.  The   *)
(* builtins that open files are those of FileCommands.                     *)
(***************************************************************************)
EXTENDS FileCommands

CONSTANTS
  MaxFd,     \* RLIMIT_NOFILE: descriptors are numbers below it
  MaxPids,   \* how many processes there may be besides init
  FileSize   \* the length of the file that memrun copies

\* init opens five descriptors at boot besides the copy on 2; the limit that
\* Linux starts pid 1 with is 1024.
ASSUME LaunchAssumption ==
  MaxFd \in Nat /\ MaxFd >= 6 /\ MaxPids \in Nat /\ FileSize \in Nat \ {0}

VARIABLES
  todo,      \* of each process: the calls before it, in order
  fds,       \* its descriptor table
  var,       \* its variables that hold descriptors
  blocked,   \* it blocks all signals
  failure,   \* why SYSCHECK ended it
  dirs,      \* the mkdir and mount calls that have succeeded
  copied,    \* how much of the file is in the child's memfd
  child,     \* "none", "started", "program", "zombie", or back in init's code
             \* after execveat has returned ("stray")
  up,        \* init has not ended
  adopted,   \* processes that programs left behind: alive ...
  dead       \* ... and ended, but not waited for

process == <<todo, fds, var, blocked, failure>>
system == <<process, dirs, copied, child, up, adopted, dead>>
vars == <<system, file_vars>>

Procs == {"init", "child"}
Fds   == 0 .. (MaxFd - 1)
Vars  == {"con", "stdout", "printkfd", "ring", "sigfd", "eth", "stdin", "memfd", "infd"}
Calls == {"mkdir", "mount", "open", "dup3", "write", "close", "block", "unblock", "close_all",
          "memfd_create", "fstatat", "copy_file_range", "exec"}
Files == {"console_in", "console_out", "printk", "uring", "signalfd", "socket",
          "file", "memfd", "exe"}
Free  == "free"

\* The descriptors that are closed on exec, from the flags they are made with.
Cloexec == {"uring", "exe"}

-----------------------------------------------------------------------------
(* The texts: each call with its directory, or the variable that its       *)
(* descriptor comes from or goes to, and the file it opens.                *)

mount_all ==
  << <<"mkdir", "/proc">>, <<"mkdir", "/dev">>, <<"mkdir", "/sys">>,
     <<"mount", "/proc">>, <<"mount", "/sys">>, <<"mount", "/dev">> >>

after_console ==
  << <<"dup3", "stdout">>,
     <<"open", "printkfd", "printk">>, <<"write", "printkfd">>, <<"close", "printkfd">>,
     <<"open", "ring", "uring">>, <<"block">>, <<"open", "sigfd", "signalfd">>,
     <<"open", "eth", "socket">> >>

\* Mutated forms: the console is opened for writing first, or before /dev is
\* mounted.
start_out_first ==
  mount_all
    \o << <<"open", "stdout", "console_out">>, <<"open", "con", "console_in">> >>
    \o after_console
start_console_early ==
  << <<"open", "con", "console_in">>, <<"open", "stdout", "console_out">> >>
    \o mount_all \o after_console

\* start() up to the loop, with uring_init() and init().
start ==
  mount_all
    \o << <<"open", "con", "console_in">>, <<"open", "stdout", "console_out">> >>
    \o after_console

\* What the child of both commands does first, after it has closed all files.
reopen_console ==
  << <<"open", "stdin", "console_in">>, <<"open", "stdout", "console_out">>, <<"dup3", "stdout">> >>

\* Mutated forms: the descriptors are kept, or signals stay blocked.
busybox_keeps == reopen_console \o << <<"unblock">>, <<"exec">> >>
busybox_blocked == << <<"close_all">> >> \o reopen_console \o << <<"exec">> >>

busybox == << <<"close_all">> >> \o reopen_console \o << <<"unblock">>, <<"exec">> >>

cmd_memrun ==
  << <<"close_all">> >> \o reopen_console
    \o << <<"memfd_create", "memfd", "memfd">>, <<"open", "infd", "exe">>, <<"fstatat", "infd">>,
          <<"copy_file_range", "memfd">>, <<"unblock">>, <<"exec">> >>

\* Every call of the texts.
Texts ==
  {<<"mkdir", "/proc">>, <<"mkdir", "/dev">>, <<"mkdir", "/sys">>,
   <<"mount", "/proc">>, <<"mount", "/sys">>, <<"mount", "/dev">>,
   <<"open", "con", "console_in">>, <<"open", "stdout", "console_out">>,
   <<"dup3", "stdout">>, <<"open", "printkfd", "printk">>, <<"write", "printkfd">>,
   <<"close", "printkfd">>, <<"open", "ring", "uring">>, <<"block">>,
   <<"open", "sigfd", "signalfd">>, <<"open", "eth", "socket">>,
   <<"close_all">>, <<"open", "stdin", "console_in">>, <<"unblock">>, <<"exec">>,
   <<"memfd_create", "memfd", "memfd">>, <<"open", "infd", "exe">>, <<"fstatat", "infd">>,
   <<"copy_file_range", "memfd">>}

-----------------------------------------------------------------------------
Closed == [n \in Fds |-> Free]
Unset  == [v \in Vars |-> -1]

\* The initramfs has no /dev (the mkdir above would fail), so the kernel could
\* not open a console for init: its table is empty.
Init ==
  /\ todo = [p \in Procs |-> IF p = "init" THEN start ELSE <<>>]
  /\ fds = [p \in Procs |-> Closed]
  /\ var = [p \in Procs |-> Unset]
  /\ blocked = [p \in Procs |-> FALSE]
  /\ failure = [p \in Procs |-> "none"]
  /\ dirs = {} /\ copied = 0
  /\ child = "none" /\ up = TRUE /\ adopted = 0 /\ dead = 0
  /\ FileInit

-----------------------------------------------------------------------------
(* The calls of a process p.                                               *)

\* p is about to make one of the given calls.
At(p, calls) ==
  /\ up /\ todo[p] # <<>>
  /\ p = "child" => child = "started"
  /\ todo[p][1][1] \in calls

Arg(p) == Head(todo[p])
Goes(p) == todo' = [todo EXCEPT ![p] = Tail(@)]

HasFree(p) == \E n \in Fds : fds[p][n] = Free
Lowest(p)  == CHOOSE n \in Fds : fds[p][n] = Free /\ \A m \in 0 .. (n - 1) : fds[p][m] # Free

\* SYSCHECK's exit.  Why is for the properties: a call that came too early
\* ("order"), no descriptor left ("limit") or something else.
Exits(p, why) ==
  /\ failure' = [failure EXCEPT ![p] = why]
  /\ todo' = [todo EXCEPT ![p] = <<>>]
  /\ fds' = [fds EXCEPT ![p] = Closed]
  /\ IF p = "init" THEN up' = FALSE /\ UNCHANGED child
                   ELSE child' = "zombie" /\ UNCHANGED up
  /\ UNCHANGED <<var, blocked, dirs, copied, adopted, dead>>

\* Any call behind SYSCHECK may fail for reasons outside this model.
SyscheckFails(p) ==
  /\ At(p, Calls \ {"close_all", "memfd_create", "exec"})
  /\ Exits(p, "other")

mkdir_mount(p) ==
  /\ At(p, {"mkdir", "mount"})
  /\ IF Arg(p)[1] = "mount" => <<"mkdir", Arg(p)[2]>> \in dirs
       THEN /\ dirs' = dirs \cup {Arg(p)}
            /\ Goes(p)
            /\ UNCHANGED <<fds, var, blocked, failure, copied, child, up, adopted, dead>>
       ELSE Exits(p, "order")

\* The file system that a file is on has to be mounted.
Reachable(file) ==
  /\ file \in {"console_in", "console_out"} => <<"mount", "/dev">> \in dirs
  /\ file = "printk" => <<"mount", "/proc">> \in dirs

Assign(p, v, file) ==
  /\ fds' = [fds EXCEPT ![p][Lowest(p)] = file]
  /\ var' = [var EXCEPT ![p][v] = Lowest(p)]
  /\ Goes(p)
  /\ UNCHANGED <<blocked, failure, dirs, copied, child, up, adopted, dead>>

\* open, openat2, io_uring_setup, signalfd and socket.
open(p) ==
  /\ At(p, {"open"})
  /\ IF ~Reachable(Arg(p)[3]) THEN Exits(p, "order")
     ELSE IF ~HasFree(p) THEN Exits(p, "limit")
     ELSE Assign(p, Arg(p)[2], Arg(p)[3])

\* Its result is not looked at.
memfd_create(p) ==
  /\ At(p, {"memfd_create"})
  /\ \/ HasFree(p) /\ Assign(p, "memfd", "memfd")
     \/ Goes(p) /\ UNCHANGED <<fds, var, blocked, failure, dirs, copied, child, up, adopted, dead>>

\* dup3 refuses to copy a descriptor onto itself.
dup3(p) ==
  /\ At(p, {"dup3"})
  /\ IF var[p].stdout = 2
       THEN Exits(p, "order")
       ELSE /\ fds' = [fds EXCEPT ![p][2] = fds[p][var[p].stdout]]
            /\ Goes(p)
            /\ UNCHANGED <<var, blocked, failure, dirs, copied, child, up, adopted, dead>>

close(p) ==
  /\ At(p, {"close", "close_all"})
  /\ fds' = [fds EXCEPT ![p] = IF Arg(p)[1] = "close" THEN [@ EXCEPT ![var[p].printkfd] = Free]
                                                      ELSE Closed]
  /\ Goes(p)
  /\ UNCHANGED <<var, blocked, failure, dirs, copied, child, up, adopted, dead>>

sigprocmask(p) ==
  /\ At(p, {"block", "unblock"})
  /\ blocked' = [blocked EXCEPT ![p] = Arg(p)[1] = "block"]
  /\ Goes(p)
  /\ UNCHANGED <<fds, var, failure, dirs, copied, child, up, adopted, dead>>

\* write and fstatat, which leave everything here as it is.
NoEffect(p) ==
  /\ At(p, {"write", "fstatat"})
  /\ Goes(p)
  /\ UNCHANGED <<fds, var, blocked, failure, dirs, copied, child, up, adopted, dead>>

\* May copy less than it is asked for, which SYSCHECK takes for success.
copy_file_range(p) ==
  /\ At(p, {"copy_file_range"})
  /\ var[p].memfd # -1
  /\ copied' \in 0 .. FileSize
  /\ Goes(p)
  /\ UNCHANGED <<fds, var, blocked, failure, dirs, child, up, adopted, dead>>

\* The child becomes the program, or goes on in init's code; an empty memfd is
\* no program.
execveat(p) ==
  /\ At(p, {"exec"})
  /\ \/ /\ var[p].memfd # -1 => copied > 0
        /\ child' = "program"
        /\ fds' = [fds EXCEPT ![p] = [n \in Fds |-> IF @[n] \in Cloexec THEN Free ELSE @[n]]]
     \/ child' = "stray" /\ UNCHANGED fds
  /\ Goes(p)
  /\ UNCHANGED <<var, blocked, failure, dirs, copied, up, adopted, dead>>

Step(p) ==
  \/ SyscheckFails(p) \/ mkdir_mount(p) \/ open(p) \/ memfd_create(p) \/ dup3(p) \/ close(p)
  \/ sigprocmask(p) \/ NoEffect(p) \/ copy_file_range(p) \/ execveat(p)

-----------------------------------------------------------------------------
(* Commands, and what becomes of the processes they start.                 *)

Serving == up /\ todo["init"] = <<>> /\ child = "none" /\ pc = "idle"

\* cmd_cat, and cmd_ls by dirlist: what they open stays open.  Without a free
\* descriptor they report an error and return.
OpensAndKeeps ==
  /\ up
  /\ \/ /\ HasFree("init") /\ Open(TRUE)
        /\ fds' = [fds EXCEPT !["init"][Lowest("init")] = "file"]
     \/ Open(FALSE) /\ UNCHANGED fds
  /\ UNCHANGED <<todo, var, blocked, failure, dirs, copied, child, up, adopted, dead>>

\* A builtin that opens a file.
FileStep == OpensAndKeeps \/ (up /\ Loop /\ UNCHANGED system)

cmd_exit ==
  /\ Serving
  /\ up' = FALSE
  /\ UNCHANGED <<process, dirs, copied, child, adopted, dead>>

\* clone3: without a process number left it fails, which is reported.
Fork(text) ==
  /\ Serving
  /\ adopted + dead < MaxPids
  /\ todo' = [todo EXCEPT !["child"] = text]
  /\ fds' = [fds EXCEPT !["child"] = fds["init"]]
  /\ var' = [var EXCEPT !["child"] = var["init"]]
  /\ blocked' = [blocked EXCEPT !["child"] = blocked["init"]]
  /\ failure' = [failure EXCEPT !["child"] = "none"]
  /\ copied' = 0 /\ child' = "started"
  /\ UNCHANGED <<dirs, up, adopted, dead>>

\* A program ends; it may have forked itself and leave a process behind, which
\* pid 1 becomes the parent of.
ProgramEnds ==
  /\ up /\ child = "program"
  /\ child' = "zombie"
  /\ \/ adopted + dead + 1 < MaxPids /\ adopted' = adopted + 1
     \/ UNCHANGED adopted
  /\ fds' = [fds EXCEPT !["child"] = Closed]
  /\ UNCHANGED <<todo, var, blocked, failure, dirs, copied, up, dead>>

\* The child that is back in init's code ends in uring_wait: the number that
\* init's ring has is closed or something else in the child.
StrayEnds ==
  /\ up /\ child = "stray"
  /\ fds["child"][var["child"].ring] # "uring"
  /\ Exits("child", "other")

\* An adopted process may fork as well.
AdoptedForks ==
  /\ up /\ adopted > 0
  /\ adopted + dead + (IF child = "none" THEN 0 ELSE 1) < MaxPids
  /\ adopted' = adopted + 1
  /\ UNCHANGED <<process, dirs, copied, child, up, dead>>

\* process_signal() does nothing, and nothing else waits for this process.
OrphanDies ==
  /\ up /\ adopted > 0
  /\ adopted' = adopted - 1
  /\ dead' = dead + 1
  /\ UNCHANGED <<process, dirs, copied, child, up>>

\* Mutated form: waitid does not wait (WNOHANG).
ReapAtOnce ==
  /\ up /\ child # "none"
  /\ child' = "none"
  /\ var' = [var EXCEPT !["child"] = Unset]
  /\ UNCHANGED <<todo, fds, blocked, failure, dirs, copied, up, adopted, dead>>

\* waitid in the parent; the next command can come.
Reap ==
  /\ up /\ child = "zombie"
  /\ child' = "none"
  /\ var' = [var EXCEPT !["child"] = Unset]
  /\ UNCHANGED <<todo, fds, blocked, failure, dirs, copied, up, adopted, dead>>

WaitidFails ==
  /\ up /\ child # "none"
  /\ Exits("init", "other")

Other ==
  \/ \E p \in Procs : Step(p)
  \/ cmd_exit \/ Fork(busybox) \/ Fork(cmd_memrun)
  \/ ProgramEnds \/ StrayEnds \/ AdoptedForks \/ OrphanDies \/ Reap \/ WaitidFails

Next ==
  \/ Other /\ UNCHANGED file_vars
  \/ Serving /\ CommandGiven /\ UNCHANGED system
  \/ FileStep

Spec == Init /\ [][Next]_vars

\* The kernel schedules init and its child, and wakes init when the child has
\* ended.  Nothing makes a program end or a user type.
FairSpec ==
  /\ Spec
  /\ WF_vars(Step("child") /\ UNCHANGED file_vars)
  /\ WF_vars(StrayEnds /\ UNCHANGED file_vars)
  /\ WF_vars(Reap /\ UNCHANGED file_vars)
  /\ WF_vars(FileStep)

-----------------------------------------------------------------------------
Reasons == {"none", "order", "limit", "other"}

(* The variables have their types; a child that has become a program or    *)
(* ended makes no more calls.                                              *)
TypeOK ==
  /\ todo \in [Procs -> Seq(Texts)]
  /\ fds \in [Procs -> [Fds -> Files \cup {Free}]]
  /\ var \in [Procs -> [Vars -> Fds \cup {-1}]]
  /\ blocked \in [Procs -> BOOLEAN]
  /\ failure \in [Procs -> Reasons]
  /\ copied \in 0 .. FileSize
  /\ child \in {"none", "started", "program", "zombie", "stray"}
  /\ up \in BOOLEAN
  /\ adopted \in 0 .. MaxPids /\ dead \in 0 .. MaxPids
  /\ FileTypeOK
  /\ child \in {"none", "program", "zombie"} => todo["child"] = <<>>

(* Neither boot nor a command ends because of what the program itself did  *)
(* before: every file that is opened is reachable by then, and however     *)
(* many files cat and ls have left open, the child finds the descriptors   *)
(* it needs, since close_all_files() comes first.                          *)
NoOwnFailure == \A p \in Procs : failure[p] \notin {"order", "limit"}

(* From boot to the end of init, the numbers that the loop of init.c uses  *)
(* (STDIN, STDOUT, uring.ringfd, sigfd) designate what they were opened    *)
(* as, whatever commands have opened, and signals stay blocked.            *)
InitDescriptors ==
  up /\ todo["init"] = <<>> =>
    /\ fds["init"][0] = "console_in"
    /\ fds["init"][1] = "console_out" /\ fds["init"][2] = "console_out"
    /\ fds["init"][var["init"].ring] = "uring"
    /\ fds["init"][var["init"].sigfd] = "signalfd"
    /\ blocked["init"]

(* A started program has the console on 0, 1 and 2, nothing else open but  *)
(* the file that it is read from, and no signal blocked, although all were *)
(* in the process that forked it.  In cmd_memrun, which alone opens infd,  *)
(* execveat is given the memfd: the error of memfd_create, which nobody    *)
(* looks at, does not get that far.                                        *)
ProgramEnvironment ==
  /\ child = "program" =>
       /\ ~blocked["child"]
       /\ fds["child"][0] = "console_in"
       /\ fds["child"][1] = "console_out" /\ fds["child"][2] = "console_out"
       /\ \A n \in Fds \ (0 .. 2) : fds["child"][n] \in {Free, "memfd"}
  /\ child \in {"program", "stray"} /\ var["child"].infd # -1 =>
       var["child"].memfd # -1 /\ fds["child"][var["child"].memfd] = "memfd"

(* A child that returns from execveat into init's loop cannot enter init's *)
(* ring: the ring's number is closed, or designates the memfd, in its own  *)
(* table.  ForkedInit rests on this.                                       *)
StrayHasNoRing == child = "stray" => \A n \in Fds : fds["child"][n] # "uring"

(* What init has by the time it makes the i-th call of start: in its       *)
(* descriptors, in its variables, and in what is mounted.                  *)
InitTable(i) ==
  /\ fds["init"][0] = IF i > 7 THEN "console_in" ELSE Free
  /\ fds["init"][1] = IF i > 8 THEN "console_out" ELSE Free
  /\ fds["init"][2] = IF i > 9 THEN "console_out" ELSE Free
  /\ fds["init"][3] = IF i \in {11, 12} THEN "printk" ELSE IF i > 13 THEN "uring" ELSE Free
  /\ fds["init"][4] = IF i > 15 THEN "signalfd" ELSE Free
  /\ i < 17 => fds["init"][5] = Free
InitVars(i) ==
  /\ var["init"].memfd = -1 /\ var["init"].infd = -1
  /\ i > 8 => var["init"].stdout = 1
  /\ i \in {11, 12} => var["init"].printkfd = 3
  /\ i > 13 => var["init"].ring = 3
  /\ i > 15 => var["init"].sigfd = 4
Mounted(i) == \A j \in 1 .. 6 : j < i => start[j] \in dirs
InitAt(i) ==
  /\ todo["init"] = SubSeq(start, i, Len(start))
  /\ InitTable(i) /\ InitVars(i) /\ Mounted(i)
  /\ i > 14 => blocked["init"]

(* What the child has by the time it makes the i-th call of its text.  The *)
(* first four are the same in both, and closing all comes before opening.  *)
ChildTable(i) ==
  /\ i > 1 => /\ fds["child"][0] = IF i > 2 THEN "console_in" ELSE Free
              /\ fds["child"][1] = IF i > 3 THEN "console_out" ELSE Free
              /\ fds["child"][2] = IF i > 4 THEN "console_out" ELSE Free
              /\ \A n \in Fds \ (0 .. 2) : fds["child"][n] \in {Free, "memfd", "exe"}
  /\ i \in 2 .. 5 => \A n \in Fds \ (0 .. 2) : fds["child"][n] = Free
  /\ i = 6 => \A n \in Fds \ (0 .. 3) : fds["child"][n] = Free
ChildMemfd(i) ==
  /\ i < 6 => var["child"].memfd = -1
  /\ i < 7 => var["child"].infd = -1
  /\ i > 8 => var["child"].memfd # -1
  /\ var["child"].memfd # -1 => fds["child"][var["child"].memfd] = "memfd"
ChildAt(text, i) ==
  /\ todo["child"] = SubSeq(text, i, Len(text))
  /\ ChildTable(i) /\ ChildMemfd(i)
  /\ i > 3 => var["child"].stdout = 1
  /\ i = Len(text) => ~blocked["child"]

(* Why NoOwnFailure, InitDescriptors, ProgramEnvironment and StrayHasNoRing *)
(* hold.                                                                   *)
LaunchInv ==
  /\ TypeOK /\ NoOwnFailure /\ ProgramEnvironment /\ StrayHasNoRing
  /\ adopted + dead <= MaxPids
  /\ child # "none" => todo["init"] = <<>> /\ <<"mount", "/dev">> \in dirs
  /\ up => \E i \in 1 .. 17 : InitAt(i)
  /\ child = "started" => \/ \E i \in 1 .. 6 : ChildAt(busybox, i)
                          \/ \E i \in 1 .. 10 : ChildAt(cmd_memrun, i)
  /\ child = "stray" => todo["child"] = <<>>

(* With the walks of ls and cat: all that start() and its children keep.   *)
InitInv == LaunchInv /\ FileInv

Life == INSTANCE ChildLife WITH child <- IF child = "stray" THEN "started" ELSE child

(* busybox() and cmd_memrun() keep what ChildLife promises.                *)
ImplementsChild == Life!FairSpec

(* Errors of open, getdents64, read and write included, ls and cat return  *)
(* to the loop of init.c, with and without a free descriptor.              *)
Returns == pc = "open" ~> (pc = "idle" \/ ~up)

(* "copy_file_range(infd, &in, memfd, &out, stats.st_size, 0)" of          *)
(* cmd_memrun is to copy the whole file before it is executed.             *)
ExecsWholeFile ==
  child = "program" /\ var["child"].memfd # -1 => copied = FileSize

(* "signals ... are handled by signalfd" (start of init.c): the SIGCHLD of *)
(* an adopted process that ends leads to its being waited for, as long as  *)
(* init runs.                                                              *)
OrphansReaped == dead > 0 ~> dead = 0 \/ ~up
=============================================================================
