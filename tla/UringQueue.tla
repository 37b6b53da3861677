----------------------------- MODULE UringQueue -----------------------------
(***************************************************************************)
(* The io_uring wrapper of util/uring_ctl.c: the submission ring, the      *)
(* completion ring and the two private cursors of struct uring_queue,      *)
(* together with the part of the kernel that io_uring_enter drives.        *)
(*                                                                         *)
(* All cursors are uint32_t and run freely: they are never reduced to a    *)
(* slot number except by "& mask", and they wrap at 2^32.  The model keeps *)
(* that: cursors live in 0 .. Modulus - 1 and every sum and difference is  *)
(* taken modulo Modulus.                                                   *)
(*                                                                         *)
(* An SQE is abstracted to its user_data, which in this program determines *)
(* opcode, file descriptor, buffer and flags.                              *)
(***************************************************************************)
EXTENDS Integers, Sequences

CONSTANTS
  Modulus,     \* 2^32: one more than the largest uint32_t
  Entries,     \* *sq_entries: slots of the submission ring
  CqEntries,   \* *cq_entries: slots of the completion ring
  MaxInflight, \* bound: requests of one kind the kernel holds at a time
  Sqe,         \* the user_data values the application submits
  NoSqe,       \* content of an SQE slot nobody has filled in yet
  Res,         \* the results a completion can carry
  NoCqe        \* content of a CQE slot the kernel has not written yet

\* Both rings are powers of two far below 2^32, so a mask is a remainder and
\* a full ring still differs from an empty one after one more increment.
ASSUME RingAssumption ==
  /\ Entries \in Nat \ {0} /\ CqEntries \in Nat \ {0}
  /\ Modulus \in Nat \ {0}
  /\ Entries + 1 < Modulus /\ CqEntries + 1 < Modulus
  /\ Modulus % Entries = 0 /\ Modulus % CqEntries = 0

ASSUME ContentAssumption ==
  /\ MaxInflight \in Nat
  /\ NoSqe \notin Sqe
  /\ NoCqe \notin [user_data : Sqe, res : Res]

VARIABLES
  sq_head,       \* shared: next SQE the kernel reads
  sq_tail,       \* shared: one past the last SQE handed to the kernel
  sq_array,      \* shared: slot of the SQE at each ring position
  sqes,          \* shared: the SQE slots
  sq_list_head,  \* private: first SQE not yet handed to the kernel
  sq_list_tail,  \* private: one past the last SQE filled in
  cq_head,       \* shared: next CQE the application reads
  cq_tail,       \* shared: one past the last CQE the kernel posted
  cqes,          \* shared: the CQE slots
  inflight,      \* kernel: requests read and not yet completed, per kind
  to_submit,     \* kernel: SQEs the current io_uring_enter may still read
  phase          \* "user", or in io_uring_enter: "enter" before and "reading"
                 \* after its first SQE; "exited" once SYSCHECK ended it

sq_vars == <<sq_head, sq_tail, sq_array, sqes, sq_list_head, sq_list_tail>>
cq_vars == <<cq_head, cq_tail, cqes>>
kernel_vars == <<inflight, to_submit, phase>>
ring_vars == <<sq_vars, cq_vars, kernel_vars>>

Index == 0 .. (Modulus - 1)
SqSlots == 0 .. (Entries - 1)
CqSlots == 0 .. (CqEntries - 1)
SqeContent == Sqe \cup {NoSqe}
Cqe == [user_data : Sqe, res : Res]

-----------------------------------------------------------------------------
(* uint32_t arithmetic.                                                    *)

\* Mutated form: a cursor wider than 32 bits.
IncUnwrapped(i) == i + 1

Inc(i) == (i + 1) % Modulus
Minus(a, b) == (a - b) % Modulus
SqSlot(i) == i % Entries
CqSlot(i) == i % CqEntries

Published == Minus(sq_tail, sq_head)            \* handed over, not yet read
Unpublished == Minus(sq_list_tail, sq_list_head) \* filled in, not handed over
Posted == Minus(cq_tail, cq_head)               \* posted, not yet released

-----------------------------------------------------------------------------
(* uring_init: both rings empty, SQ memory and index array zeroed.         *)

uring_init ==
  /\ sq_head = 0 /\ sq_tail = 0
  /\ sq_list_head = 0 /\ sq_list_tail = 0
  /\ cq_head = 0 /\ cq_tail = 0
  /\ sq_array = [s \in SqSlots |-> 0]
  /\ sqes = [s \in SqSlots |-> NoSqe]
  /\ cqes = [s \in CqSlots |-> NoCqe]
  /\ inflight = [s \in SqeContent |-> 0]
  /\ to_submit = 0
  /\ phase = "user"

-----------------------------------------------------------------------------
(* Calls of the application.                                               *)

\* Mutated form: the distance before the increment.
HasRoomOffByOne == Minus(sq_list_tail, sq_head) <= Entries

\* The test of uring_new_submission: otherwise it returns NULL.
HasRoom == Minus(Inc(sq_list_tail), sq_head) <= Entries

\* uring_new_submission returning a slot, and the caller filling it in.
uring_new_submission(s) ==
  /\ phase = "user"
  /\ HasRoom
  /\ sqes' = [sqes EXCEPT ![SqSlot(sq_list_tail)] = s]
  /\ sq_list_tail' = Inc(sq_list_tail)
  /\ UNCHANGED <<sq_head, sq_tail, sq_array, sq_list_head>>
  /\ UNCHANGED cq_vars
  /\ UNCHANGED kernel_vars

\* Mutated forms: sq_list_head is not incremented, or counted down.
FlushedSlotStuck(k) == SqSlot(sq_list_head)
FlushedSlotReversed(k) == SqSlot(sq_list_head + (Unpublished - 1 - k))

\* The SQE slot that iteration k of the flush loop enters in the array.
FlushedSlot(k) == SqSlot(sq_list_head + k)

\* The flush loop of uring_wait: iteration k stores at the array position of
\* sq_tail + k.
flush_sq ==
  LET n == Unpublished
  IN  /\ sq_array' = [s \in SqSlots |->
                        LET k == (s - sq_tail) % Entries
                        IN  IF k < n THEN FlushedSlot(k) ELSE sq_array[s]]
      /\ sq_tail' = (sq_tail + n) % Modulus
      /\ sq_list_head' = sq_list_tail
      /\ UNCHANGED <<sq_head, sqes, sq_list_tail>>

\* Mutated form: only what this call flushes.
SubmittedNewOnly(tail) == Unpublished

\* Everything up to the new tail, also what an earlier call left behind.
Submitted(tail) == Minus(tail, sq_head)

\* uring_wait up to the system call: flush, then enter the kernel.
uring_wait ==
  /\ phase = "user"
  /\ flush_sq
  /\ to_submit' = Submitted(sq_tail')
  /\ phase' = "enter"
  /\ UNCHANGED inflight
  /\ UNCHANGED cq_vars

\* Mutated form: no look at the tail.
CqReadyUnchecked == TRUE

\* The test of uring_result: otherwise it returns NULL.
CqReady == cq_head # cq_tail

uring_advance ==
  /\ phase = "user"
  /\ cq_head' = Inc(cq_head)
  /\ UNCHANGED <<cq_tail, cqes>>
  /\ UNCHANGED sq_vars
  /\ UNCHANGED kernel_vars

-----------------------------------------------------------------------------
(* The kernel's side of io_uring_enter (external).                         *)

InEnter == phase \in {"enter", "reading"}

\* The kernel reads the next SQE, through the index array.
KernelStart ==
  /\ InEnter
  /\ to_submit > 0
  /\ LET s == sqes[sq_array[SqSlot(sq_head)]]
     IN  /\ inflight[s] < MaxInflight
         /\ inflight' = [inflight EXCEPT ![s] = @ + 1]
  /\ sq_head' = Inc(sq_head)
  /\ to_submit' = to_submit - 1
  /\ phase' = "reading"
  /\ UNCHANGED <<sq_tail, sq_array, sqes, sq_list_head, sq_list_tail>>
  /\ UNCHANGED cq_vars

\* The call returns early, with fewer SQEs read than it was asked to but at
\* least one: with none it reports an error.
EnterShort ==
  /\ phase = "reading"
  /\ to_submit > 0
  /\ to_submit' = 0
  /\ phase' = "user"
  /\ UNCHANGED inflight
  /\ UNCHANGED <<sq_vars, cq_vars>>

\* The only caller is start(), which asks for one completion.
MinComplete == 1

\* The call has read everything and enough CQEs are there.
EnterReturn ==
  /\ InEnter
  /\ to_submit = 0
  /\ Posted >= MinComplete
  /\ phase' = "user"
  /\ UNCHANGED <<inflight, to_submit>>
  /\ UNCHANGED <<sq_vars, cq_vars>>

\* The call fails, which it does only when it has read nothing: SYSCHECK
\* ends the process.
EnterError ==
  /\ phase = "enter"
  /\ phase' = "exited"
  /\ UNCHANGED <<inflight, to_submit>>
  /\ UNCHANGED <<sq_vars, cq_vars>>

\* A request completes, at any time, when the completion ring has room.
KernelPost(s, r) ==
  /\ phase # "exited"
  /\ inflight[s] > 0
  /\ Posted < CqEntries
  /\ inflight' = [inflight EXCEPT ![s] = @ - 1]
  /\ cqes' = [cqes EXCEPT ![CqSlot(cq_tail)] = [user_data |-> s, res |-> r]]
  /\ cq_tail' = Inc(cq_tail)
  /\ UNCHANGED <<cq_head, to_submit, phase>>
  /\ UNCHANGED sq_vars

-----------------------------------------------------------------------------
(* The ring under any caller that reads a CQE before it releases it.       *)

UringNext ==
  \/ \E s \in Sqe : uring_new_submission(s)
  \/ uring_wait
  \/ CqReady /\ uring_advance
  \/ KernelStart
  \/ EnterShort
  \/ EnterReturn
  \/ EnterError
  \/ \E s \in Sqe, r \in Res : KernelPost(s, r)

UringSpec == uring_init /\ [][UringNext]_ring_vars

-----------------------------------------------------------------------------
(* Properties.                                                             *)

\* Every cursor is a uint32_t and every slot holds something of its kind.
UringTypeOK ==
  /\ sq_head \in Index /\ sq_tail \in Index
  /\ sq_list_head \in Index /\ sq_list_tail \in Index
  /\ cq_head \in Index /\ cq_tail \in Index
  /\ sq_array \in [SqSlots -> SqSlots]
  /\ sqes \in [SqSlots -> SqeContent]
  /\ cqes \in [CqSlots -> Cqe \cup {NoCqe}]
  /\ inflight \in [SqeContent -> Nat]
  /\ to_submit \in 0 .. Entries
  /\ phase \in {"user", "enter", "reading", "exited"}

\* The private cursors and the shared ones describe one window: what
\* uring_wait has handed over ends exactly where what it has not begins, and
\* together they never exceed the ring, so no SQE is filled in over one the
\* kernel has yet to read, not even when the cursors wrap.
SqWindow ==
  /\ sq_list_head = sq_tail
  /\ Published + Unpublished <= Entries
  /\ Minus(sq_list_tail, sq_head) = Published + Unpublished

\* Every SQE the kernel may read through the index array is one the
\* application filled in: the flush loop of uring_wait pairs array positions
\* with the right SQE slots across any number of wrap-arounds and of calls
\* that io_uring_enter cut short.
KernelReadsFilled ==
  /\ \A k \in 0 .. (Published - 1) :
        sq_array[SqSlot(sq_head + k)] = SqSlot(sq_head + k)
  /\ \A k \in 0 .. (Published + Unpublished - 1) :
        sqes[SqSlot(sq_head + k)] \in Sqe

\* What io_uring_enter was told to read is really there: uring_wait's
\* subtraction never yields more than was handed over.
SubmitsWhatIsThere == InEnter => to_submit = Published

\* Every CQE between head and tail was posted by the kernel and is unread,
\* so what uring_result hands to handle() is never an old or an empty slot.
CqWindow ==
  /\ Posted <= CqEntries
  /\ \A k \in 0 .. (Posted - 1) : cqes[CqSlot(cq_head + k)] \in Cqe

\* The conjunction that is inductive.
UringInv ==
  /\ UringTypeOK
  /\ SqWindow
  /\ KernelReadsFilled
  /\ SubmitsWhatIsThere
  /\ CqWindow

\* What the ring promises, under the mapping that reads the SQEs handed over
\* through the index array, the others straight from their slots.
PendingAt(k) ==
  IF k <= Published THEN sqes[sq_array[SqSlot(sq_head + k - 1)]]
                    ELSE sqes[SqSlot(sq_list_head + (k - Published) - 1)]

Channel == INSTANCE UringChannel WITH
  pending <- [k \in 1 .. (Published + Unpublished) |-> PendingAt(k)],
  inflight <- [s \in Sqe |-> inflight[s]],
  done <- [k \in 1 .. Posted |-> cqes[CqSlot(cq_head + k - 1)]]

\* Requests reach the kernel, and results the caller, once each and in order.
ImplementsChannel == Channel!Spec
=============================================================================
