----------------------------- MODULE ChildLife ------------------------------
(***************************************************************************)
(* What busybox() and cmd_memrun() of init/command.c promise about the     *)
(* process they fork: it becomes the program or ends, the wait does not    *)
(* return before it has ended, and no second one is forked meanwhile.      *)
(***************************************************************************)

VARIABLES
  child,   \* "none", still on init's code ("started"), "program" or "zombie"
  up       \* init itself has not ended

vars == <<child, up>>

Init == child = "none" /\ up = TRUE

Becomes(from, to) ==
  /\ up /\ child = from
  /\ child' = to
  /\ UNCHANGED up

Fork   == Becomes("none", "started")
Settle == Becomes("started", "program") \/ Becomes("started", "zombie")
End    == Becomes("program", "zombie")
Reap   == Becomes("zombie", "none")

\* init ends, and the machine with it.
Panic ==
  /\ up
  /\ up' = FALSE
  /\ UNCHANGED child

Next == Fork \/ Settle \/ End \/ Reap \/ Panic

Spec == Init /\ [][Next]_vars

\* A forked process does not stay on init's code, and one that has ended is
\* waited for.  Nothing makes a program end.
FairSpec == Spec /\ WF_vars(Settle) /\ WF_vars(Reap)
=============================================================================
