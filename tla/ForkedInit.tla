----------------------------- MODULE ForkedInit -----------------------------
(***************************************************************************)
(* The child that busybox() or cmd_memrun() forks when its execveat fails. *)
(* It does not exit: it reports the error and returns from                 *)
(* process_command() into process_input(), like its parent, and goes on    *)
(* with the loop of start() until the first system call that needs the     *)
(* ring's descriptor, which close_all_files() has closed.  The mapping of  *)
(* the rings is shared with the parent; struct uring_queue is a copy, so   *)
(* its two list cursors are private to each process.                       *)
(***************************************************************************)
EXTENDS InitLoop

VARIABLES
  c_list_head,   \* the child's copy of sq_list_head
  c_list_tail    \* the child's copy of sq_list_tail

c_vars == <<c_list_head, c_list_tail>>
parent_vars == <<sq_list_head, sq_list_tail, pc, cqe, link_vars>>

\* The rings as the child sees them.
Child == INSTANCE UringQueue WITH
  sq_list_head <- c_list_head, sq_list_tail <- c_list_tail

InitForked == Init /\ c_list_head = 0 /\ c_list_tail = 0

\* Every step of InitLoop; the one that forks copies the private cursors.
CopyOnFork ==
  IF child = "none" /\ child' = "started"
    THEN c_list_head' = sq_list_head /\ c_list_tail' = sq_list_tail
    ELSE UNCHANGED c_vars

\* execveat returns.
ChildExecFails ==
  /\ pc = "child_wait" /\ child = "started"
  /\ child' = "prompt_write"
  /\ UNCHANGED <<ring_vars, pc, cqe, link_vars, sigpending, c_vars>>

\* create_console_prompt in the child: a NULL is a fault here too.
ChildSubmit(from, s, next) ==
  /\ pc = "child_wait" /\ child = from
  /\ \/ /\ Child!uring_new_submission(s)
        /\ child' = next
        /\ UNCHANGED <<parent_vars, sigpending>>
     \/ /\ ~Child!HasRoom
        /\ ChildDies
        /\ UNCHANGED c_vars

ChildPrompt ==
  \/ ChildSubmit("prompt_write", EVENT_OTHER, "prompt_read")
  \/ ChildSubmit("prompt_read", EVENT_CONSOLE_READ, "advance")

\* Its loop releases the CQE the parent is still handling.
ChildAdvance ==
  /\ pc = "child_wait" /\ child = "advance"
  /\ Child!uring_advance
  /\ child' = "wait"
  /\ UNCHANGED <<parent_vars, sigpending>>

\* uring_wait in the child: the flush succeeds, it is plain memory; ...
ChildWaitCall ==
  /\ pc = "child_wait" /\ child = "wait"
  /\ Child!flush_sq
  /\ child' = "enter"
  /\ UNCHANGED <<cq_vars, kernel_vars, parent_vars, sigpending>>

\* ... the system call fails, and SYSCHECK ends the child.
ChildEnterFails ==
  /\ pc = "child_wait" /\ child = "enter"
  /\ ChildDies
  /\ UNCHANGED c_vars

ForkedNext ==
  \/ Next /\ CopyOnFork
  \/ ChildExecFails
  \/ ChildPrompt \/ ChildAdvance \/ ChildWaitCall \/ ChildEnterFails

ForkedSpec == InitForked /\ [][ForkedNext]_<<vars, c_vars>>

-----------------------------------------------------------------------------

\* uring_result: "If head == tail, the buffer is empty"; otherwise what it
\* returns to start() is a CQE that the kernel posted and nobody released.
ResultIsPosted == pc = "handle" => Posted \in 1 .. CqEntries
=============================================================================
