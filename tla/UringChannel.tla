---------------------------- MODULE UringChannel ----------------------------
(***************************************************************************)
(* What the ring of util/uring_ctl.c promises its caller, with no index,   *)
(* mask, array or wrap-around in sight: requests reach the kernel once     *)
(* each and in the order they were filled in, and results come back once   *)
(* each and in the order the kernel posted them.  UringQueue is shown to   *)
(* implement this specification.                                           *)
(***************************************************************************)
EXTENDS Integers, Sequences

CONSTANTS
  Entries,    \* how many requests may wait for the kernel
  CqEntries,  \* how many results may wait for the caller
  Sqe,        \* what a request can be
  Res         \* what a result can be

VARIABLES
  pending,    \* requests filled in by the caller, not yet read by the kernel
  inflight,   \* how many requests of each kind the kernel is working on
  done        \* results posted by the kernel, not yet released by the caller

vars == <<pending, inflight, done>>

Init ==
  /\ pending = <<>>
  /\ inflight = [s \in Sqe |-> 0]
  /\ done = <<>>

Submit(s) ==
  /\ Len(pending) < Entries
  /\ pending' = Append(pending, s)
  /\ UNCHANGED <<inflight, done>>

Start ==
  /\ pending # <<>>
  /\ Head(pending) \in Sqe
  /\ inflight' = [inflight EXCEPT ![Head(pending)] = @ + 1]
  /\ pending' = Tail(pending)
  /\ UNCHANGED done

Finish(s, r) ==
  /\ inflight[s] > 0
  /\ Len(done) < CqEntries
  /\ inflight' = [inflight EXCEPT ![s] = @ - 1]
  /\ done' = Append(done, [user_data |-> s, res |-> r])
  /\ UNCHANGED pending

Release ==
  /\ done # <<>>
  /\ done' = Tail(done)
  /\ UNCHANGED <<pending, inflight>>

Next ==
  \/ \E s \in Sqe : Submit(s)
  \/ Start
  \/ \E s \in Sqe, r \in Res : Finish(s, r)
  \/ Release

Spec == Init /\ [][Next]_vars
=============================================================================
