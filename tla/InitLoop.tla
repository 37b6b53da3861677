------------------------------ MODULE InitLoop ------------------------------
(***************************************************************************)
(* The init program of init/init.c: start() boots, queues the first        *)
(* console prompt and the first signal read, and then serves completions   *)
(* one at a time for ever.  Each call into util/uring_ctl.c is one step of *)
(* the ring of UringQueue, so the kernel may complete requests between any *)
(* two of them.                                                            *)
(*                                                                         *)
(* process_command() may fork (init/command.c).  Here the child becomes    *)
(* another program or exits; the child whose execveat fails, and which     *)
(* then runs this program's code itself, is the subject of ForkedInit,     *)
(* which extends this module.                                              *)
(***************************************************************************)
EXTENDS UringQueue, FiniteSets

CONSTANT NULL   \* no CQE is being handled

(* The user_data of the three requests (the enum of init.c). *)
EVENT_CONSOLE_READ == "console_read"
EVENT_SIGNAL == "signal"
EVENT_OTHER == "other"
Events == {EVENT_CONSOLE_READ, EVENT_SIGNAL, EVENT_OTHER}

(* What the program distinguishes in cqe->res.  A write is full, short or  *)
(* failed; a read ends in a newline, does not, is empty or failed.         *)
WriteResults == {"full", "short", "error"}
ReadResults == {"line", "no_newline", "eof", "error"}
Results == WriteResults \cup ReadResults

ASSUME LoopAssumption ==
  /\ Sqe = Events
  /\ Res = Results
  /\ NULL \notin CqSlots

\* uring_init(16): room for the three requests that are outstanding at most.
ASSUME SizeAssumption == Entries >= 3 /\ CqEntries >= 3 /\ MaxInflight >= 1

VARIABLES
  pc,            \* what start() is about to do
  cqe,           \* the slot the pointer passed to handle() designates
  link_open,     \* kernel: the SQE just read carries IOSQE_IO_LINK
  held,          \* kernel: console reads held back behind a linked write
  cancelled,     \* kernel: console reads whose linked write did not succeed
  sigpending,    \* kernel: some signal is waiting to be read from sigfd
  child          \* the forked process: "none", on our code until execveat
                 \* ("started"), another "program", or a "zombie"

link_vars == <<link_open, held, cancelled>>
vars == <<ring_vars, pc, cqe, link_vars, sigpending, child>>

Ended == {"exited", "poweroff", "fault"}

Init ==
  /\ uring_init
  /\ pc = "boot" /\ cqe = NULL
  /\ link_open = FALSE /\ held = 0 /\ cancelled = 0
  /\ sigpending = FALSE
  /\ child = "none"

-----------------------------------------------------------------------------
(* start(): everything before the loop.                                    *)

\* The file systems, the console descriptors, the ring, the signal mask and
\* signalfd, each behind SYSCHECK: a failure ends the process.
Boot ==
  /\ pc = "boot"
  /\ pc' \in {"prompt_write", "exited"}
  /\ UNCHANGED <<ring_vars, cqe, link_vars, sigpending, child>>

\* The packet socket opened after init(), also behind SYSCHECK.
OpenSocket ==
  /\ pc = "socket"
  /\ pc' \in {"wait", "exited"}
  /\ UNCHANGED <<ring_vars, cqe, link_vars, sigpending, child>>

-----------------------------------------------------------------------------
(* The requests.  The callers store through the pointer they get without   *)
(* looking at it: NULL is a fault.                                         *)

Submit(s, next) ==
  /\ \/ uring_new_submission(s) /\ pc' = next
     \/ ~HasRoom /\ pc' = "fault" /\ UNCHANGED ring_vars
  /\ UNCHANGED <<cqe, link_vars, sigpending, child>>

\* create_console_prompt: the write of the prompt, linked to ...
PromptWrite == pc = "prompt_write" /\ Submit(EVENT_OTHER, "prompt_read")

\* Mutated forms: handle() falls through to the next case of its switch, or
\* the prompt is queued before the command runs.
PromptReadFallsThrough ==
  pc = "prompt_read" /\ Submit(EVENT_CONSOLE_READ, "sig_listen")
PromptReadTooEarly ==
  /\ pc = "prompt_read"
  /\ Submit(EVENT_CONSOLE_READ, IF cqe = NULL THEN "sig_listen" ELSE "command")

\* ... the read of the next line.  Called by init() and by process_input().
PromptRead ==
  /\ pc = "prompt_read"
  /\ Submit(EVENT_CONSOLE_READ, IF cqe = NULL THEN "sig_listen" ELSE "advance")

\* Called by init() and, for every signal, by handle().
submit_sig_listen ==
  /\ pc = "sig_listen"
  /\ Submit(EVENT_SIGNAL, IF cqe = NULL THEN "socket" ELSE "advance")

-----------------------------------------------------------------------------
(* The loop of start().                                                    *)

WaitCall ==
  /\ pc = "wait"
  /\ uring_wait
  /\ pc' = "enter"
  /\ UNCHANGED <<cqe, link_vars, sigpending, child>>

\* io_uring_enter reads the next SQE.  A console read that directly follows
\* the prompt's write within one call is chained to it.
ReadSqe ==
  LET s == sqes[sq_array[SqSlot(sq_head)]]
  IN  /\ pc = "enter"
      /\ KernelStart
      /\ link_open' = (s = EVENT_OTHER)
      /\ held' = IF link_open /\ s = EVENT_CONSOLE_READ THEN held + 1 ELSE held
      /\ UNCHANGED <<pc, cqe, cancelled, sigpending, child>>

WaitReturn ==
  /\ pc = "enter"
  /\ EnterShort \/ EnterReturn
  /\ pc' = "result"
  /\ link_open' = FALSE
  /\ UNCHANGED <<cqe, held, cancelled, sigpending, child>>

WaitFails ==
  /\ pc = "enter"
  /\ EnterError
  /\ pc' = "exited"
  /\ UNCHANGED <<cqe, link_vars, sigpending, child>>

\* Mutated forms: the CQE is released at once, or not looked for.
ResultReleases ==
  /\ pc = "result" /\ CqReady
  /\ uring_advance
  /\ cqe' = CqSlot(cq_head) /\ pc' = "handle"
  /\ UNCHANGED <<link_vars, sigpending, child>>
ResultUnchecked ==
  /\ pc = "result"
  /\ cqe' = CqSlot(cq_head) /\ pc' = "handle"
  /\ UNCHANGED <<ring_vars, link_vars, sigpending, child>>

Result ==
  /\ pc = "result"
  /\ \/ CqReady /\ cqe' = CqSlot(cq_head) /\ pc' = "handle"
     \/ ~CqReady /\ cqe' = NULL /\ pc' = "wait"
  /\ UNCHANGED <<ring_vars, link_vars, sigpending, child>>

\* A CQE slot nobody has written reads as zeros: a console read of length 0.
CqeAt(slot) ==
  IF cqes[slot] = NoCqe THEN [user_data |-> EVENT_CONSOLE_READ, res |-> "eof"]
                        ELSE cqes[slot]

\* Mutated form: no new signal read.
process_signal_no_listen == "advance"

\* process_input: a line is run, a line without an end is refused, end of
\* input and errors power the machine off.
process_input(res) ==
  CASE res = "line" -> "command"
    [] res = "no_newline" -> "prompt_write"
    [] OTHER -> "poweroff"

\* process_signal does nothing; the next signal read follows.
process_signal == "sig_listen"

\* The switch of handle(): where it goes from a CQE.
HandleTarget(c) ==
  CASE c.user_data = EVENT_CONSOLE_READ -> process_input(c.res)
    [] c.user_data = EVENT_SIGNAL -> process_signal
    [] c.user_data = EVENT_OTHER -> IF c.res = "error" THEN "exited" ELSE "advance"

Handle ==
  /\ pc = "handle"
  /\ pc' = HandleTarget(CqeAt(cqe))
  /\ UNCHANGED <<ring_vars, cqe, link_vars, sigpending, child>>

Advance ==
  /\ pc = "advance"
  /\ uring_advance
  /\ cqe' = NULL
  /\ pc' = "wait"
  /\ UNCHANGED <<link_vars, sigpending, child>>

-----------------------------------------------------------------------------
(* process_command(): the line typed decides, so all outcomes are open.    *)

\* No argument, a builtin that returns, or clone3 failing; a builtin whose
\* SYSCHECK fails; cmd_exit.
RunBuiltin ==
  /\ pc = "command"
  /\ pc' \in {"prompt_write", "exited", "poweroff"}
  /\ UNCHANGED <<ring_vars, cqe, link_vars, sigpending, child>>

\* busybox() and cmd_memrun() fork and wait for the child.
Fork ==
  /\ pc = "command"
  /\ pc' = "child_wait"
  /\ child' = "started"
  /\ UNCHANGED <<ring_vars, cqe, link_vars, sigpending>>

\* Mutated forms: waitid does not wait (WNOHANG), or no prompt follows it.
WaitidNoPrompt ==
  /\ pc = "child_wait" /\ child = "zombie"
  /\ child' = "none"
  /\ pc' = "advance"
  /\ UNCHANGED <<ring_vars, cqe, link_vars, sigpending>>
WaitidAtOnce ==
  /\ pc = "child_wait"
  /\ child' = "none"
  /\ pc' = "prompt_write"
  /\ UNCHANGED <<ring_vars, cqe, link_vars, sigpending>>

Waitid ==
  /\ pc = "child_wait" /\ child = "zombie"
  /\ child' = "none"
  /\ pc' = "prompt_write"
  /\ UNCHANGED <<ring_vars, cqe, link_vars, sigpending>>

WaitidFails ==
  /\ pc = "child_wait"
  /\ pc' = "exited"
  /\ UNCHANGED <<ring_vars, cqe, link_vars, sigpending, child>>

-----------------------------------------------------------------------------
(* The child.                                                              *)

ChildDies ==
  /\ child' = "zombie"
  /\ sigpending' = TRUE
  /\ UNCHANGED <<ring_vars, pc, cqe, link_vars>>

\* Closing all files, reopening the console, unmasking signals and execveat:
\* it becomes the program, or SYSCHECK ends it on the way.
ChildExec ==
  /\ pc = "child_wait" /\ child = "started"
  /\ \/ ChildDies
     \/ child' = "program" /\ UNCHANGED <<ring_vars, pc, cqe, link_vars, sigpending>>

ChildProgramEnds ==
  /\ pc = "child_wait" /\ child = "program"
  /\ ChildDies

-----------------------------------------------------------------------------
(* Requests complete while the machine is up (external).                   *)

\* The prompt's write.  A chain is issued only once it is complete; anything
\* but a full write cancels the read held behind it.
WriteDone(r) ==
  /\ pc \notin Ended
  /\ ~link_open
  /\ KernelPost(EVENT_OTHER, r)
  /\ \/ /\ held > 0
        /\ held' = held - 1
        /\ cancelled' = IF r = "full" THEN cancelled ELSE cancelled + 1
     \/ /\ held < inflight[EVENT_OTHER]
        /\ UNCHANGED <<held, cancelled>>
  /\ UNCHANGED <<pc, cqe, link_open, sigpending, child>>

\* A line, part of one, end of input or an error.
ReadDone(r) ==
  /\ pc \notin Ended
  /\ inflight[EVENT_CONSOLE_READ] > held + cancelled
  /\ KernelPost(EVENT_CONSOLE_READ, r)
  /\ UNCHANGED <<pc, cqe, link_vars, sigpending, child>>

ReadCancelled ==
  /\ pc \notin Ended
  /\ cancelled > 0
  /\ KernelPost(EVENT_CONSOLE_READ, "error")
  /\ cancelled' = cancelled - 1
  /\ UNCHANGED <<pc, cqe, link_open, held, sigpending, child>>

SignalDone ==
  /\ pc \notin Ended
  /\ sigpending
  /\ KernelPost(EVENT_SIGNAL, "full")
  /\ sigpending' = FALSE
  /\ UNCHANGED <<pc, cqe, link_vars, child>>

SignalRaised ==
  /\ pc \notin Ended
  /\ ~sigpending
  /\ sigpending' = TRUE
  /\ UNCHANGED <<ring_vars, pc, cqe, link_vars, child>>

-----------------------------------------------------------------------------

InitStep ==
  \/ Boot \/ OpenSocket
  \/ PromptWrite \/ PromptRead \/ submit_sig_listen
  \/ WaitCall \/ Result \/ Handle \/ Advance
  \/ RunBuiltin \/ Fork \/ Waitid

EnterStep == ReadSqe \/ WaitReturn \/ WaitFails

Completion ==
  \/ \E r \in WriteResults : WriteDone(r)
  \/ \E r \in ReadResults : ReadDone(r)
  \/ ReadCancelled
  \/ SignalDone

Next ==
  \/ InitStep \/ WaitidFails
  \/ EnterStep
  \/ ChildExec \/ ChildProgramEnds
  \/ Completion \/ SignalRaised

Spec == Init /\ [][Next]_vars

\* The process runs, io_uring_enter makes progress, console writes finish and
\* signals that are pending are read.  A completion that finds the ring full
\* is kept by the kernel and posted when there is room, so completions are
\* strongly fair.  Nothing makes the user type, a program end or a system
\* call fail.
Fairness ==
  /\ WF_vars(InitStep)
  /\ WF_vars(ReadSqe \/ WaitReturn)
  /\ WF_vars(ChildExec)
  /\ SF_vars(\E r \in WriteResults : WriteDone(r))
  /\ SF_vars(ReadCancelled)
  /\ SF_vars(SignalDone)

FairSpec == Spec /\ Fairness

-----------------------------------------------------------------------------
(* Properties.                                                             *)

Pcs == {"boot", "prompt_write", "prompt_read", "sig_listen", "socket", "wait",
        "enter", "result", "handle", "command", "child_wait", "advance"} \cup Ended

\* Every variable of the loop has a value of its kind.
TypeOK ==
  /\ UringTypeOK
  /\ pc \in Pcs
  /\ cqe \in CqSlots \cup {NULL}
  /\ link_open \in BOOLEAN /\ held \in Nat /\ cancelled \in Nat
  /\ sigpending \in BOOLEAN
  /\ child \in {"none", "started", "program", "zombie"}

\* Requests filled in that the kernel has not read, results it has posted
\* that start() has not released.
Queued(e) ==
  Cardinality({k \in 0 .. (Minus(sq_list_tail, sq_head) - 1) :
                 sqes[SqSlot(sq_head + k)] = e})
Unreleased(e) ==
  Cardinality({k \in 0 .. (Posted - 1) :
                 CqeAt(CqSlot(cq_head + k)).user_data = e})
Outstanding(e) == Queued(e) + inflight[e] + Unreleased(e)

\* create_console_prompt and submit_sig_listen never store through the NULL
\* of a full submission ring, also when io_uring_enter keeps leaving SQEs
\* behind: they are called with at most what one CQE allows.
NeverFaults == pc # "fault"

\* Whenever start() waits, and until it has begun to handle what it waited
\* for, exactly one read of the console and one of sigfd is outstanding: no
\* handler forgets to queue the next one and none queues a second.
ListensOnce ==
  pc \in {"wait", "enter", "result", "handle"} =>
    /\ Outstanding(EVENT_CONSOLE_READ) = 1
    /\ Outstanding(EVENT_SIGNAL) = 1

\* While a command line is looked at, split in place and run, no read into
\* the global buffer is queued or in flight, so the kernel cannot write it.
BufferExclusive ==
  pc \in {"command", "child_wait"} =>
    /\ Queued(EVENT_CONSOLE_READ) = 0
    /\ inflight[EVENT_CONSOLE_READ] = 0

\* The CQE behind the pointer given to handle() is posted and unreleased for
\* as long as the pointer is used, so the kernel does not post over it.
CqeHeld ==
  cqe # NULL => cqe = CqSlot(cq_head) /\ Posted \in 1 .. CqEntries

\* The inductive form of CqeHeld: past uring_result there is a CQE.
LoopInv ==
  /\ TypeOK
  /\ UringInv
  /\ CqeHeld
  /\ pc \in {"handle", "command", "child_wait", "advance"} => cqe # NULL

InHand(e) == cqe # NULL /\ CqeAt(cqe).user_data = e

\* How many reads of each kind are outstanding at each place: none before the
\* first, one while start() serves, two between the next one being queued and
\* the release of the CQE that it was queued for.
ConsoleReads ==
  IF cqe = NULL /\ pc \in {"boot", "prompt_write", "prompt_read"} THEN 0
  ELSE IF pc = "advance" /\ InHand(EVENT_CONSOLE_READ) THEN 2 ELSE 1
SignalReads ==
  IF cqe = NULL /\ pc \in {"boot", "prompt_write", "prompt_read", "sig_listen"} THEN 0
  ELSE IF pc = "advance" /\ InHand(EVENT_SIGNAL) THEN 2 ELSE 1

\* Which CQE a handler works on.
HandlerFor ==
  /\ pc \in {"boot", "socket", "wait", "enter", "result"} => cqe = NULL
  /\ cqe # NULL /\ pc \in {"command", "child_wait", "prompt_write", "prompt_read"}
       => InHand(EVENT_CONSOLE_READ)
  /\ cqe # NULL /\ pc = "sig_listen" => InHand(EVENT_SIGNAL)

\* A prompt's write and read stay neighbours in the ring: the kernel can take
\* the write and leave the read, never the other way round.
WriteBeforeRead ==
  \A k \in 0 .. (Minus(sq_list_tail, sq_head) - 1) :
    sqes[SqSlot(sq_head + k)] = EVENT_OTHER =>
      IF k + 1 < Minus(sq_list_tail, sq_head)
        THEN sqes[SqSlot(sq_head + (k + 1))] = EVENT_CONSOLE_READ
        ELSE pc = "prompt_read"

\* Why NeverFaults, ListensOnce and BufferExclusive hold: at every place of
\* start(), init() and the handlers the number of console and of signal reads
\* outstanding is what the CQE in hand accounts for, and no prompt's write is
\* left in the ring without its read.
ListenInv ==
  /\ NeverFaults
  /\ HandlerFor
  /\ WriteBeforeRead
  /\ pc \notin Ended =>
       /\ Outstanding(EVENT_CONSOLE_READ) = ConsoleReads
       /\ Outstanding(EVENT_SIGNAL) = SignalReads

\* start() and its handlers drive the ring as its specification expects: no
\* CQE is released that was not there, none of them runs during a call.
UsesRing == UringSpec

\* After a console read completes the next one reaches the kernel, also after
\* a program that ran and ended, unless the process ends or the program runs
\* for ever.
PromptReturns ==
  (pc = "handle" /\ CqeAt(cqe).user_data = EVENT_CONSOLE_READ)
    ~> \/ inflight[EVENT_CONSOLE_READ] > 0
       \/ pc \in Ended
       \/ [](child = "program")

\* A signal is read from sigfd sooner or later, unless the process ends or a
\* program that keeps running holds up the loop.
SignalsRead == sigpending ~> (~sigpending \/ child = "program" \/ pc \in Ended)

Life == INSTANCE ChildLife WITH up <- pc \notin Ended

\* What busybox() and cmd_memrun() promise of the process they fork, whatever
\* completes meanwhile: the loop starts no second one and goes on only when
\* the first has ended, and does go on then.
ForksOneChild == Life!FairSpec
=============================================================================
