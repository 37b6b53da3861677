--------------------------- MODULE InitLoopProofs ---------------------------
(***************************************************************************)
(* start() drives the ring the way UringQueue expects, and so inherits     *)
(* everything proved about it: the one thing to show is that a CQE is only *)
(* released after uring_result has found it, with any number of            *)
(* completions in between.                                                 *)
(***************************************************************************)
EXTENDS ForkedInit, UringQueueProofs, FiniteSetTheorems

\* Each kind of ring step, and none, is a step of the ring's specification.
LEMMA RingSteps ==
  /\ \A s \in Sqe : uring_new_submission(s) => [UringNext]_ring_vars
  /\ uring_wait => [UringNext]_ring_vars
  /\ CqReady /\ uring_advance => [UringNext]_ring_vars
  /\ KernelStart => [UringNext]_ring_vars
  /\ EnterShort \/ EnterReturn \/ EnterError => [UringNext]_ring_vars
  /\ \A s \in Sqe, r \in Res : KernelPost(s, r) => [UringNext]_ring_vars
  /\ UNCHANGED ring_vars => [UringNext]_ring_vars
  BY DEF UringNext

\* A slot that holds a posted CQE means the ring is not empty.
LEMMA HeldIsReady ==
  ASSUME LoopInv, cqe # NULL
  PROVE  CqReady
<1>1. Posted >= 1 /\ cq_tail \in Index /\ cq_head \in Index
  BY DEF LoopInv, CqeHeld, UringInv, UringTypeOK
<1>2. cq_tail = cq_head => Minus(cq_tail, cq_head) = 0
  BY <1>1, MinusValue, Widths DEF Index
<1> QED
  BY <1>1, <1>2 DEF CqReady, Posted

\* And the other way round, what uring_result finds is there.
LEMMA ReadyIsPosted ==
  ASSUME UringInv, CqReady
  PROVE  Posted \in 1 .. CqEntries
<1>1. Posted \in Nat /\ Posted <= CqEntries /\ cq_tail \in Index /\ cq_head \in Index
  BY Distances DEF UringInv, CqWindow, UringTypeOK
<1>2. Minus(cq_tail, cq_head) = (IF cq_tail >= cq_head
                                   THEN cq_tail - cq_head
                                   ELSE cq_tail - cq_head + Modulus)
  BY <1>1, MinusValue
<1>3. Minus(cq_tail, cq_head) # 0
  BY <1>1, <1>2, Widths DEF Index, CqReady
<1> QED
  BY <1>1, <1>3, Widths DEF Posted

\* Every step of the loop, the kernel and the child is one of the ring's.
LEMMA LoopIsRing == LoopInv /\ [Next]_vars => [UringNext]_ring_vars
<1> SUFFICES ASSUME LoopInv, [Next]_vars PROVE [UringNext]_ring_vars
  OBVIOUS
<1> USE RingSteps
<1>1. EVENT_OTHER \in Sqe /\ EVENT_CONSOLE_READ \in Sqe /\ EVENT_SIGNAL \in Sqe
      /\ WriteResults \subseteq Res /\ ReadResults \subseteq Res
  BY LoopAssumption DEF Events, Results
<1>2. CASE PromptWrite \/ PromptRead \/ submit_sig_listen
  BY <1>1, <1>2 DEF PromptWrite, PromptRead, submit_sig_listen, Submit
<1>3. CASE Boot \/ OpenSocket \/ Result \/ Handle \/ RunBuiltin \/ Fork \/ Waitid
           \/ WaitidFails
  BY <1>3 DEF Boot, OpenSocket, Result, Handle, RunBuiltin, Fork, Waitid, WaitidFails
<1>4. CASE WaitCall
  BY <1>4 DEF WaitCall
<1>5. CASE Advance
  <2>1. CqReady
    BY <1>5, HeldIsReady DEF LoopInv, Advance
  <2> QED
    BY <1>5, <2>1 DEF Advance
<1>6. CASE EnterStep
  BY <1>6 DEF EnterStep, ReadSqe, WaitReturn, WaitFails
<1>7. CASE ChildExec \/ ChildProgramEnds
  BY <1>7 DEF ChildExec, ChildProgramEnds, ChildDies
<1>8. CASE Completion
  <2>1. ASSUME NEW r \in WriteResults, WriteDone(r) PROVE [UringNext]_ring_vars
    BY <1>1, <2>1 DEF WriteDone
  <2>2. ASSUME NEW r \in ReadResults, ReadDone(r) PROVE [UringNext]_ring_vars
    BY <1>1, <2>2 DEF ReadDone
  <2>3. CASE ReadCancelled
    BY <1>1, <2>3 DEF ReadCancelled, ReadResults
  <2>4. CASE SignalDone
    BY <1>1, <2>4 DEF SignalDone, WriteResults
  <2> QED
    BY <1>8, <2>1, <2>2, <2>3, <2>4 DEF Completion
<1>9. CASE SignalRaised
  BY <1>9 DEF SignalRaised
<1>10. CASE UNCHANGED vars
  BY <1>10 DEF vars
<1> QED
  BY <1>2, <1>3, <1>4, <1>5, <1>6, <1>7, <1>8, <1>9, <1>10 DEF Next, InitStep

\* A CQE stays held while the completion ring is left alone or grows.
LEMMA HeldStep ==
  ASSUME LoopInv, UringInv', UNCHANGED <<cqe, cq_head>>,
         \/ cq_tail' = cq_tail
         \/ cq_tail' = Inc(cq_tail) /\ Posted < CqEntries
  PROVE  CqeHeld'
<1>1. Posted \in Nat /\ cq_tail \in Index /\ cq_head \in Index
  BY Distances DEF LoopInv, UringInv, UringTypeOK
<1>2. Posted' = Posted \/ (Posted' = Posted + 1 /\ Posted < CqEntries)
  <2>1. Posted < CqEntries => Posted + 1 < Modulus
    BY <1>1, Widths
  <2> QED
    BY <1>1, <2>1, MinusIncLeft DEF Posted
<1> QED
  BY <1>1, <1>2, Widths DEF LoopInv, CqeHeld

\* init begins with no CQE in hand.
LEMMA LoopInit == Init => LoopInv
<1> SUFFICES ASSUME Init PROVE LoopInv
  OBVIOUS
<1>1. UringInv
  BY RingInit DEF Init
<1> QED
  BY <1>1 DEF Init, LoopInv, TypeOK, UringInv, CqeHeld, Pcs

\* What a step does to the variables of the loop other than the ring.
LEMMA LoopTypeStep ==
  ASSUME LoopInv, [Next]_vars, UringInv'
  PROVE  TypeOK'
<1> USE DEF Pcs, Ended
<1>1. TypeOK /\ UringTypeOK'
  BY DEF LoopInv, UringInv
<1>2. CASE PromptWrite \/ PromptRead \/ submit_sig_listen
  BY <1>1, <1>2 DEF PromptWrite, PromptRead, submit_sig_listen, Submit, TypeOK, link_vars
<1>3. CASE Boot \/ OpenSocket \/ RunBuiltin \/ Fork \/ Waitid \/ WaitidFails
  BY <1>1, <1>3 DEF Boot, OpenSocket, RunBuiltin, Fork, Waitid, WaitidFails, TypeOK,
    link_vars
<1>4. CASE Result
  <2>1. CqSlot(cq_head) \in CqSlots
    BY <1>1, CqSlotType, Widths DEF TypeOK, UringTypeOK, Index
  <2> QED
    BY <1>1, <1>4, <2>1 DEF Result, TypeOK, link_vars
<1>5. CASE Handle
  <2>1. HandleTarget(CqeAt(cqe)) \in Pcs
    <3>1. cqe \in CqSlots
      BY <1>1, <1>5 DEF Handle, LoopInv, TypeOK
    <3>2. CqeAt(cqe).user_data \in Events
      BY <1>1, <3>1, LoopAssumption DEF CqeAt, TypeOK, UringTypeOK, Cqe, Events
    <3> QED
      BY <3>2 DEF HandleTarget, Events, process_input, process_signal, EVENT_CONSOLE_READ,
        EVENT_SIGNAL, EVENT_OTHER
  <2> QED
    BY <1>1, <1>5, <2>1 DEF Handle, TypeOK, link_vars
<1>6. CASE WaitCall \/ Advance
  BY <1>1, <1>6 DEF WaitCall, Advance, TypeOK, link_vars
<1>7. CASE EnterStep
  <2>1. CASE ReadSqe
    <3>1. link_open' \in BOOLEAN
      BY <2>1, Zenon DEF ReadSqe
    <3>2. held' \in Nat
      BY <1>1, <2>1 DEF ReadSqe, TypeOK
    <3>3. UNCHANGED <<pc, cqe, cancelled, sigpending, child>>
      BY <2>1 DEF ReadSqe
    <3> QED
      BY <1>1, <3>1, <3>2, <3>3 DEF TypeOK
  <2>2. CASE WaitReturn \/ WaitFails
    BY <1>1, <2>2 DEF WaitReturn, WaitFails, TypeOK, link_vars
  <2> QED
    BY <1>7, <2>1, <2>2 DEF EnterStep
<1>8. CASE ChildExec \/ ChildProgramEnds \/ SignalRaised
  BY <1>1, <1>8 DEF ChildExec, ChildProgramEnds, ChildDies, SignalRaised, TypeOK, link_vars
<1>9. CASE Completion
  <2>1. ASSUME NEW r \in WriteResults, WriteDone(r) PROVE TypeOK'
    <3>1. held' \in Nat /\ cancelled' \in Nat
      BY <1>1, <2>1 DEF WriteDone, TypeOK
    <3> QED
      BY <1>1, <2>1, <3>1 DEF WriteDone, TypeOK
  <2>2. ASSUME NEW r \in ReadResults, ReadDone(r) PROVE TypeOK'
    BY <1>1, <2>2 DEF ReadDone, TypeOK, link_vars
  <2>3. CASE ReadCancelled
    BY <1>1, <2>3 DEF ReadCancelled, TypeOK
  <2>4. CASE SignalDone
    BY <1>1, <2>4 DEF SignalDone, TypeOK, link_vars
  <2> QED
    BY <1>9, <2>1, <2>2, <2>3, <2>4 DEF Completion
<1>10. CASE UNCHANGED vars
  BY <1>1, <1>10 DEF vars, TypeOK, link_vars
<1> QED
  BY <1>2, <1>3, <1>4, <1>5, <1>6, <1>7, <1>8, <1>9, <1>10 DEF Next, InitStep

\* A CQE is in hand from uring_result to uring_advance.
LEMMA LoopHeldStep ==
  ASSUME LoopInv, [Next]_vars, UringInv'
  PROVE  /\ CqeHeld'
         /\ (pc \in {"handle", "command", "child_wait", "advance"} => cqe # NULL)'
<1> DEFINE HasCqe == pc \in {"handle", "command", "child_wait", "advance"} => cqe # NULL
<1> USE DEF Ended
<1>1. HasCqe
  BY DEF LoopInv
<1>2. CASE PromptWrite \/ PromptRead \/ submit_sig_listen
  <2>1. UNCHANGED <<cqe, cq_head, cq_tail>>
    BY <1>2 DEF PromptWrite, PromptRead, submit_sig_listen, Submit, ring_vars, cq_vars,
      uring_new_submission
  <2>2. HasCqe'
    BY <1>2 DEF PromptWrite, PromptRead, submit_sig_listen, Submit
  <2> QED
    BY <2>1, <2>2, HeldStep
<1>3. CASE Boot \/ OpenSocket \/ RunBuiltin \/ Fork \/ Waitid \/ WaitidFails \/ Handle
  <2>1. UNCHANGED <<cqe, cq_head, cq_tail>>
    BY <1>3 DEF Boot, OpenSocket, RunBuiltin, Fork, Waitid, WaitidFails, Handle,
      ring_vars, cq_vars
  <2>2. HasCqe'
    BY <1>1, <1>3 DEF Boot, OpenSocket, RunBuiltin, Fork, Waitid, WaitidFails, Handle
  <2> QED
    BY <2>1, <2>2, HeldStep
<1>4. CASE Result
  <2>1. UNCHANGED <<cq_head, cq_tail>>
    BY <1>4 DEF Result, ring_vars, cq_vars
  <2>2. CASE CqReady
    <3>1. CqSlot(cq_head) \in CqSlots
      BY CqSlotType, Widths DEF LoopInv, UringInv, UringTypeOK, Index
    <3>2. cqe' = CqSlot(cq_head) /\ cqe' # NULL
      BY <1>4, <2>2, <3>1, LoopAssumption DEF Result
    <3>3. Posted \in 1 .. CqEntries
      BY <2>2, ReadyIsPosted DEF LoopInv
    <3> QED
      BY <2>1, <3>2, <3>3 DEF CqeHeld, Posted
  <2>3. CASE ~CqReady
    BY <1>4, <2>3 DEF Result, CqeHeld
  <2> QED
    BY <2>2, <2>3
<1>5. CASE WaitCall
  <2>1. UNCHANGED <<cqe, cq_head, cq_tail>> /\ HasCqe'
    BY <1>5 DEF WaitCall, uring_wait, cq_vars
  <2> QED
    BY <2>1, HeldStep
<1>6. CASE Advance
  BY <1>6 DEF Advance, CqeHeld
<1>7. CASE EnterStep
  <2>1. UNCHANGED <<cqe, cq_head, cq_tail>> /\ HasCqe'
    BY <1>1, <1>7 DEF EnterStep, ReadSqe, WaitReturn, WaitFails, KernelStart, EnterShort,
      EnterReturn, EnterError, cq_vars
  <2> QED
    BY <2>1, HeldStep
<1>8. CASE ChildExec \/ ChildProgramEnds \/ SignalRaised
  <2>1. UNCHANGED <<cqe, cq_head, cq_tail>> /\ HasCqe'
    BY <1>1, <1>8 DEF ChildExec, ChildProgramEnds, ChildDies, SignalRaised, ring_vars,
      cq_vars
  <2> QED
    BY <2>1, HeldStep
<1>9. CASE Completion
  <2>1. UNCHANGED <<cqe, cq_head>> /\ cq_tail' = Inc(cq_tail) /\ Posted < CqEntries
        /\ HasCqe'
    BY <1>1, <1>9 DEF Completion, WriteDone, ReadDone, ReadCancelled, SignalDone,
      KernelPost
  <2> QED
    BY <2>1, HeldStep
<1>10. CASE UNCHANGED vars
  <2>1. UNCHANGED <<cqe, cq_head, cq_tail>> /\ HasCqe'
    BY <1>1, <1>10 DEF vars, ring_vars, cq_vars
  <2> QED
    BY <2>1, HeldStep
<1> QED
  BY <1>2, <1>3, <1>4, <1>5, <1>6, <1>7, <1>8, <1>9, <1>10 DEF Next, InitStep

\* No step breaks the invariant of the loop.
LEMMA LoopStep == LoopInv /\ [Next]_vars => LoopInv'
<1> SUFFICES ASSUME LoopInv, [Next]_vars PROVE LoopInv'
  OBVIOUS
<1>1. UringInv'
  BY LoopIsRing, RingStep DEF LoopInv
<1>2. TypeOK'
  BY <1>1, LoopTypeStep
<1>3. /\ CqeHeld'
      /\ (pc \in {"handle", "command", "child_wait", "advance"} => cqe # NULL)'
  BY <1>1, LoopHeldStep
<1> QED
  BY <1>1, <1>2, <1>3 DEF LoopInv

-----------------------------------------------------------------------------
(* Counting the elements of a window.                                      *)

\* A set of positions in a window can be counted.
LEMMA Countable ==
  ASSUME NEW n \in Int, NEW S \in SUBSET (0 .. n)
  PROVE  IsFiniteSet(S) /\ Cardinality(S) \in Nat
<1>1. IsFiniteSet(0 .. n)
  BY FS_Interval, SMT
<1>2. IsFiniteSet(S)
  BY <1>1, FS_Subset, Zenon
<1> QED
  BY <1>2, FS_CardinalityType, Zenon

\* One element more at the end of a window.
LEMMA CountAppend ==
  ASSUME NEW n \in Nat, NEW S \in SUBSET (0 .. (n - 1)), NEW T \in SUBSET (0 .. n),
         \A k \in 0 .. (n - 1) : k \in T <=> k \in S
  PROVE  /\ Cardinality(S) \in Nat
         /\ Cardinality(T) = Cardinality(S) + (IF n \in T THEN 1 ELSE 0)
<1>1. IsFiniteSet(S) /\ Cardinality(S) \in Nat
  <2>1. n - 1 \in Int
    OBVIOUS
  <2> QED
    BY <2>1, Countable, Zenon
<1>2. n \notin S
  OBVIOUS
<1>3. \A k \in 0 .. n : k \in 0 .. (n - 1) \/ k = n
  OBVIOUS
<1>4. CASE n \in T
  <2>1. T = S \cup {n}
    <3>1. \A k \in T : k \in S \cup {n}
      BY <1>3, Zenon
    <3>2. \A k \in S \cup {n} : k \in T
      BY <1>4, Zenon
    <3> QED
      BY <3>1, <3>2, Zenon
  <2> QED
    BY <1>1, <1>2, <1>4, <2>1, FS_AddElement
<1>5. CASE n \notin T
  <2>1. T = S
    <3>1. \A k \in T : k \in S
      BY <1>3, <1>5, Zenon
    <3>2. \A k \in S : k \in T
      BY Zenon
    <3> QED
      BY <3>1, <3>2, Zenon
  <2> QED
    BY <1>1, <1>5, <2>1
<1> QED
  BY <1>1, <1>4, <1>5

\* One element less at its front: the others move up.
LEMMA CountDrop ==
  ASSUME NEW n \in Nat \ {0}, NEW S \in SUBSET (0 .. (n - 1)),
         NEW T \in SUBSET (0 .. (n - 2)),
         \A k \in 0 .. (n - 2) : k \in T <=> k + 1 \in S
  PROVE  /\ Cardinality(T) \in Nat
         /\ Cardinality(S) = Cardinality(T) + (IF 0 \in S THEN 1 ELSE 0)
<1>1. IsFiniteSet(S) /\ IsFiniteSet(T) /\ Cardinality(S) \in Nat /\ Cardinality(T) \in Nat
  <2>1. n - 1 \in Int /\ n - 2 \in Int
    OBVIOUS
  <2> QED
    BY <2>1, Countable, Zenon
<1>2. Cardinality(S \ {0}) = Cardinality(T)
  <2> DEFINE f == [k \in T |-> k + 1]
             R == S \ {0}
  <2>1. \A k \in T : k + 1 \in R
    OBVIOUS
  <2>2. f \in [T -> R] /\ \A k \in T : f[k] = k + 1
    BY <2>1
  <2>3. \A j, k \in T : f[j] = f[k] => j = k
    BY <2>2
  <2>4. \A m \in R : m - 1 \in T /\ f[m - 1] = m
    BY <2>2
  <2>5. f \in Bijection(T, R)
    BY <2>2, <2>3, <2>4 DEF Bijection, Injection, Surjection, IsInjective
  <2>6. ExistsBijection(T, R)
    BY <2>5 DEF ExistsBijection
  <2> QED
    BY <1>1, <2>6, FS_Bijection
<1>3. Cardinality(S \ {0}) = IF 0 \in S THEN Cardinality(S) - 1 ELSE Cardinality(S)
  BY <1>1, FS_RemoveElement
<1> QED
  BY <1>1, <1>2, <1>3

\* An element found is counted, and two of them twice.
LEMMA CountUnique ==
  ASSUME NEW n \in Nat, NEW S \in SUBSET (0 .. (n - 1))
  PROVE  /\ Cardinality(S) \in Nat
         /\ Cardinality(S) = 0 => \A k \in 0 .. (n - 1) : k \notin S
         /\ Cardinality(S) <= 1 => \A j, k \in S : j = k
<1>1. IsFiniteSet(S) /\ Cardinality(S) \in Nat
  <2>1. n - 1 \in Int
    OBVIOUS
  <2> QED
    BY <2>1, Countable, Zenon
<1>2. Cardinality(S) = 0 => S = {}
  BY <1>1, FS_EmptySet
<1>3. Cardinality(S) = 1 => \E x : S = {x}
  BY <1>1, FS_Singleton
<1> QED
  BY <1>1, <1>2, <1>3

-----------------------------------------------------------------------------
(* What each step of the ring does to the numbers of requests.             *)

QueuedAt(e) == {k \in 0 .. (QueueLength - 1) : RequestAt(k) = e}
UnreleasedAt(e) == {k \in 0 .. (Posted - 1) : ResultAt(k).user_data = e}

\* The counts are those of the windows: every CQE in its window is posted.
CountsMapped ==
  \A e \in Events :
    /\ QueueLength \in Nat /\ Posted \in Nat
    /\ QueuedAt(e) \in SUBSET (0 .. (QueueLength - 1))
    /\ UnreleasedAt(e) \in SUBSET (0 .. (Posted - 1))
    /\ Queued(e) = Cardinality(QueuedAt(e))
    /\ Unreleased(e) = Cardinality(UnreleasedAt(e))
    /\ Queued(e) \in Nat /\ inflight[e] \in Nat /\ Unreleased(e) \in Nat

\* Every CQE in the window is one the kernel wrote.
LEMMA WindowPosted ==
  ASSUME UringInv, NEW k \in 0 .. (Posted - 1)
  PROVE  CqeAt(CqSlot(cq_head + k)) = ResultAt(k) /\ ResultAt(k) \in Cqe
  BY ContentAssumption DEF UringInv, CqWindow, CqeAt, ResultAt, Cqe

\* The counts of requests and results of a kind are sizes of finite sets of
\* positions in the two windows.
LEMMA CountsAreOfWindows == UringInv => CountsMapped
<1> SUFFICES ASSUME UringInv, NEW e \in Events
             PROVE  /\ QueueLength \in Nat /\ Posted \in Nat
                    /\ QueuedAt(e) \in SUBSET (0 .. (QueueLength - 1))
                    /\ UnreleasedAt(e) \in SUBSET (0 .. (Posted - 1))
                    /\ Queued(e) = Cardinality(QueuedAt(e))
                    /\ Unreleased(e) = Cardinality(UnreleasedAt(e))
                    /\ Queued(e) \in Nat /\ inflight[e] \in Nat /\ Unreleased(e) \in Nat
  BY DEF CountsMapped
<1>1. QueueLength \in Nat /\ Posted \in Nat
  BY Distances DEF UringInv, SqWindow, QueueLength
<1>2. QueuedAt(e) \in SUBSET (0 .. (QueueLength - 1))
      /\ UnreleasedAt(e) \in SUBSET (0 .. (Posted - 1))
  BY DEF QueuedAt, UnreleasedAt
<1>3. Queued(e) = Cardinality(QueuedAt(e))
  BY DEF Queued, QueuedAt, QueueLength, RequestAt
<1>4. Unreleased(e) = Cardinality(UnreleasedAt(e))
  <2> DEFINE U == {k \in 0 .. (Posted - 1) : CqeAt(CqSlot(cq_head + k)).user_data = e}
  <2>1. \A k \in 0 .. (Posted - 1) :
          CqeAt(CqSlot(cq_head + k)).user_data = e <=> ResultAt(k).user_data = e
    BY WindowPosted, Zenon
  <2>2. U = UnreleasedAt(e)
    BY <2>1, Zenon DEF UnreleasedAt
  <2> QED
    BY <2>2, Zenon DEF Unreleased
<1>5. QueueLength - 1 \in Int /\ Posted - 1 \in Int
  BY <1>1
<1>6. Queued(e) \in Nat /\ Unreleased(e) \in Nat
  BY <1>2, <1>3, <1>4, <1>5, Countable, Zenon
<1>7. inflight[e] \in Nat
  BY LoopAssumption DEF UringInv, UringTypeOK, SqeContent
<1> QED
  BY <1>1, <1>2, <1>3, <1>4, <1>6, <1>7

\* The kernel and the loop leave the counts of a window they do not touch.
LEMMA CountSame ==
  /\ UNCHANGED <<sq_list_tail, sq_head, sqes>> =>
       QueueLength' = QueueLength /\ \A e : Queued(e)' = Queued(e)
  /\ UNCHANGED <<cq_head, cq_tail, cqes>> =>
       Posted' = Posted /\ \A e : Unreleased(e)' = Unreleased(e)
<1>1. ASSUME UNCHANGED <<sq_list_tail, sq_head, sqes>>
      PROVE  QueueLength' = QueueLength /\ \A e : Queued(e)' = Queued(e)
  BY <1>1 DEF QueueLength, Queued
<1>2. ASSUME UNCHANGED <<cq_head, cq_tail, cqes>>
      PROVE  Posted' = Posted /\ \A e : Unreleased(e)' = Unreleased(e)
  BY <1>2 DEF Posted, Unreleased, CqeAt
<1> QED
  BY <1>1, <1>2

One(p) == IF p THEN 1 ELSE 0

\* uring_new_submission queues one request more, of its kind.
LEMMA CountSubmit ==
  ASSUME UringInv, UringInv', NEW s \in Sqe, uring_new_submission(s), NEW e \in Events
  PROVE  /\ Queued(e)' = Queued(e) + One(e = s)
         /\ inflight'[e] = inflight[e]
         /\ Unreleased(e)' = Unreleased(e)
<1>1. CountsMapped /\ CountsMapped'
  BY CountsAreOfWindows, PTL
<1>2. /\ QueueLength' = QueueLength + 1
      /\ \A k \in 0 .. (QueueLength - 1) : RequestAt(k)' = RequestAt(k)
      /\ \A k \in {QueueLength} : RequestAt(k)' = s
      /\ UNCHANGED <<cq_head, cq_tail, cqes, inflight>>
  BY SubmissionQueue
<1> DEFINE n == QueueLength
           S == QueuedAt(e)
           T == QueuedAt(e)'
<1>3. n \in Nat /\ S \in SUBSET (0 .. (n - 1))
  BY <1>1 DEF CountsMapped
<1>4. T \in SUBSET (0 .. n)
  BY <1>1, <1>2, <1>3 DEF CountsMapped
<1>5. \A k \in 0 .. (n - 1) : k \in T <=> k \in S
  BY <1>2, <1>3 DEF QueuedAt
<1>6. n \in T <=> e = s
  BY <1>2, <1>3 DEF QueuedAt
<1>7. Queued(e) = Cardinality(S) /\ Queued(e)' = Cardinality(T)
  BY <1>1 DEF CountsMapped
<1> HIDE DEF n, S, T
<1>8. Cardinality(T) = Cardinality(S) + (IF n \in T THEN 1 ELSE 0)
  BY <1>3, <1>4, <1>5, CountAppend
<1> QED
  BY <1>2, <1>6, <1>7, <1>8, CountSame DEF One

\* The kernel takes the oldest request out of the queue and works on it.
LEMMA CountStart ==
  ASSUME UringInv, UringInv', KernelStart, NEW e \in Events
  PROVE  /\ Queued(e) = Queued(e)' + One(e = RequestAt(0))
         /\ inflight'[e] = inflight[e] + One(e = RequestAt(0))
         /\ Unreleased(e)' = Unreleased(e)
<1>1. CountsMapped /\ CountsMapped'
  BY CountsAreOfWindows, PTL
<1>2. /\ QueueLength \in Nat \ {0} /\ QueueLength' = QueueLength - 1
      /\ \A k \in 0 .. (QueueLength - 2) : RequestAt(k)' = RequestAt(k + 1)
      /\ inflight' = [inflight EXCEPT ![RequestAt(0)] = inflight[RequestAt(0)] + 1]
      /\ UNCHANGED <<cq_head, cq_tail, cqes>>
  BY StartQueue
<1> DEFINE n == QueueLength
           S == QueuedAt(e)
           T == QueuedAt(e)'
<1>3. n \in Nat \ {0} /\ S \in SUBSET (0 .. (n - 1))
  BY <1>1, <1>2 DEF CountsMapped
<1>4. T \in SUBSET (0 .. (n - 2))
  BY <1>1, <1>2, <1>3 DEF CountsMapped
<1>5. \A k \in 0 .. (n - 2) : k \in T <=> k + 1 \in S
  BY <1>2, <1>3 DEF QueuedAt
<1>6. 0 \in S <=> e = RequestAt(0)
  BY <1>3 DEF QueuedAt
<1>7. Queued(e) = Cardinality(S) /\ Queued(e)' = Cardinality(T)
  BY <1>1 DEF CountsMapped
<1>8. inflight'[e] = inflight[e] + One(e = RequestAt(0))
  <2>1. e \in SqeContent /\ inflight \in [SqeContent -> Nat]
    BY LoopAssumption DEF SqeContent, UringInv, UringTypeOK
  <2> QED
    BY <1>2, <2>1 DEF One
<1> HIDE DEF n, S, T
<1>9. Cardinality(S) = Cardinality(T) + (IF 0 \in S THEN 1 ELSE 0)
  BY <1>3, <1>4, <1>5, CountDrop
<1> QED
  BY <1>2, <1>6, <1>7, <1>8, <1>9, CountSame DEF One

\* A completion moves one request of its kind from the kernel to the CQ ring.
LEMMA CountPost ==
  ASSUME UringInv, UringInv', NEW s \in Sqe, NEW r \in Res, KernelPost(s, r),
         NEW e \in Events
  PROVE  /\ Queued(e)' = Queued(e)
         /\ inflight[e] = inflight'[e] + One(e = s)
         /\ Unreleased(e)' = Unreleased(e) + One(e = s)
<1>1. CountsMapped /\ CountsMapped'
  BY CountsAreOfWindows, PTL
<1>2. /\ Posted' = Posted + 1
      /\ \A k \in 0 .. (Posted - 1) : ResultAt(k)' = ResultAt(k)
      /\ \A k \in {Posted} : ResultAt(k)' = [user_data |-> s, res |-> r]
      /\ UNCHANGED <<sq_head, sq_list_tail, sqes>>
  BY PostQueue
<1> DEFINE n == Posted
           S == UnreleasedAt(e)
           T == UnreleasedAt(e)'
<1>3. n \in Nat /\ S \in SUBSET (0 .. (n - 1))
  BY <1>1 DEF CountsMapped
<1>4. T \in SUBSET (0 .. n)
  BY <1>1, <1>2, <1>3 DEF CountsMapped
<1>5. \A k \in 0 .. (n - 1) : k \in T <=> k \in S
  BY <1>2, <1>3 DEF UnreleasedAt
<1>6. n \in T <=> e = s
  BY <1>2, <1>3 DEF UnreleasedAt
<1>7. Unreleased(e) = Cardinality(S) /\ Unreleased(e)' = Cardinality(T)
  BY <1>1 DEF CountsMapped
<1>8. inflight[e] = inflight'[e] + One(e = s)
  <2>1. e \in SqeContent /\ s \in SqeContent /\ inflight \in [SqeContent -> Nat]
    BY LoopAssumption DEF SqeContent, UringInv, UringTypeOK
  <2> QED
    BY <2>1 DEF One, KernelPost
<1> HIDE DEF n, S, T
<1>9. Cardinality(T) = Cardinality(S) + (IF n \in T THEN 1 ELSE 0)
  BY <1>3, <1>4, <1>5, CountAppend
<1> QED
  BY <1>2, <1>6, <1>7, <1>8, <1>9, CountSame DEF One

\* uring_advance releases the oldest result and nothing else.
LEMMA CountAdvance ==
  ASSUME UringInv, UringInv', CqReady, uring_advance, NEW e \in Events
  PROVE  /\ Queued(e)' = Queued(e)
         /\ inflight'[e] = inflight[e]
         /\ Unreleased(e) = Unreleased(e)' + One(e = ResultAt(0).user_data)
<1>1. CountsMapped /\ CountsMapped'
  BY CountsAreOfWindows, PTL
<1>2. /\ Posted \in Nat \ {0} /\ Posted' = Posted - 1
      /\ \A k \in 0 .. (Posted - 2) : ResultAt(k)' = ResultAt(k + 1)
      /\ UNCHANGED <<sq_head, sq_list_tail, sqes, inflight>>
  BY AdvanceQueue
<1> DEFINE n == Posted
           S == UnreleasedAt(e)
           T == UnreleasedAt(e)'
<1>3. n \in Nat \ {0} /\ S \in SUBSET (0 .. (n - 1))
  BY <1>1, <1>2 DEF CountsMapped
<1>4. T \in SUBSET (0 .. (n - 2))
  BY <1>1, <1>2, <1>3 DEF CountsMapped
<1>5. \A k \in 0 .. (n - 2) : k \in T <=> k + 1 \in S
  BY <1>2, <1>3 DEF UnreleasedAt
<1>6. 0 \in S <=> e = ResultAt(0).user_data
  BY <1>3 DEF UnreleasedAt
<1>7. Unreleased(e) = Cardinality(S) /\ Unreleased(e)' = Cardinality(T)
  BY <1>1 DEF CountsMapped
<1> HIDE DEF n, S, T
<1>8. Cardinality(S) = Cardinality(T) + (IF 0 \in S THEN 1 ELSE 0)
  BY <1>3, <1>4, <1>5, CountDrop
<1> QED
  BY <1>2, <1>6, <1>7, <1>8, CountSame DEF One

-----------------------------------------------------------------------------
(* The reads outstanding.                                                  *)

\* A request found in its window is counted; a count bounds how many.
LEMMA QueuedBound ==
  ASSUME UringInv, NEW e \in Events
  PROVE  /\ Queued(e) = 0 => \A k \in 0 .. (QueueLength - 1) : RequestAt(k) # e
         /\ Queued(e) <= 1 =>
              \A j, k \in 0 .. (QueueLength - 1) :
                RequestAt(j) = e /\ RequestAt(k) = e => j = k
<1>1. QueueLength \in Nat /\ QueuedAt(e) \in SUBSET (0 .. (QueueLength - 1))
      /\ Queued(e) = Cardinality(QueuedAt(e))
  BY CountsAreOfWindows DEF CountsMapped
<1>2. \A k \in 0 .. (QueueLength - 1) : k \in QueuedAt(e) <=> RequestAt(k) = e
  BY DEF QueuedAt
<1>3. /\ Queued(e) = 0 => \A k \in 0 .. (QueueLength - 1) : k \notin QueuedAt(e)
      /\ Queued(e) <= 1 => \A j, k \in QueuedAt(e) : j = k
  <2> DEFINE n == QueueLength
             S == QueuedAt(e)
  <2>1. n \in Nat /\ S \in SUBSET (0 .. (n - 1)) /\ Queued(e) = Cardinality(S)
    BY <1>1
  <2> HIDE DEF n, S
  <2>2. /\ Cardinality(S) = 0 => \A k \in 0 .. (n - 1) : k \notin S
        /\ Cardinality(S) <= 1 => \A j, k \in S : j = k
    BY <2>1, CountUnique
  <2> QED
    BY <2>1, <2>2 DEF n, S
<1> QED
  BY <1>2, <1>3, Zenon

\* The CQE in hand is the oldest of its window, and counted there.
LEMMA HandIsOldest ==
  ASSUME LoopInv, cqe # NULL
  PROVE  /\ Posted \in Nat \ {0} /\ CqeAt(cqe) = ResultAt(0) /\ ResultAt(0) \in Cqe
         /\ ResultAt(0).user_data \in Events
         /\ Unreleased(ResultAt(0).user_data) >= 1
<1>1. cqe = CqSlot(cq_head) /\ Posted \in Nat \ {0} /\ UringInv
  BY Widths DEF LoopInv, CqeHeld
<1>2. cq_head + 0 = cq_head
  BY <1>1, Widths DEF UringInv, UringTypeOK, Index
<1>3. CqeAt(cqe) = ResultAt(0) /\ ResultAt(0) \in Cqe
  BY <1>1, <1>2, WindowPosted
<1>4. ResultAt(0).user_data \in Events
  BY <1>3, LoopAssumption DEF Cqe
<1> DEFINE e == ResultAt(0).user_data
<1>5. UnreleasedAt(e) \in SUBSET (0 .. (Posted - 1))
      /\ Unreleased(e) = Cardinality(UnreleasedAt(e)) /\ Unreleased(e) \in Nat
  BY <1>1, <1>4, CountsAreOfWindows DEF CountsMapped
<1>6. 0 \in UnreleasedAt(e)
  BY <1>1 DEF UnreleasedAt
<1>7. Unreleased(e) # 0
  BY <1>1, <1>5, <1>6, CountUnique
<1> QED
  BY <1>1, <1>3, <1>4, <1>5, <1>7

HandMapped == cqe # NULL => CqeAt(cqe) = ResultAt(0)

\* The CQE that handle() was given is the oldest result.
LEMMA HandMap == LoopInv => HandMapped
  BY HandIsOldest DEF HandMapped

\* It is still the one in hand after the kernel has posted others.
LEMMA HandStays ==
  ASSUME LoopInv, LoopInv', UNCHANGED <<cqe, cq_head>>,
         \A k \in 0 .. (Posted - 1) : ResultAt(k)' = ResultAt(k)
  PROVE  \A e : InHand(e)' <=> InHand(e)
<1>1. CASE cqe = NULL
  BY <1>1 DEF InHand
<1>2. CASE cqe # NULL
  <2>1. Posted \in Nat \ {0} /\ CqeAt(cqe) = ResultAt(0)
    BY <1>2, HandIsOldest
  <2>2. HandMapped'
    BY HandMap, PTL
  <2>3. CqeAt(cqe)' = ResultAt(0)' /\ ResultAt(0)' = ResultAt(0)
    BY <1>2, <2>1, <2>2 DEF HandMapped
  <2> QED
    BY <1>2, <2>1, <2>3 DEF InHand
<1> QED
  BY <1>1, <1>2

\* The submission ring has room for one more as long as it is not full.
LEMMA RoomLeft ==
  ASSUME UringInv, QueueLength < Entries
  PROVE  HasRoom
<1>1. QueueLength \in Nat /\ QueueLength + 1 < Modulus
  BY CountsAreOfWindows, Distances, Widths DEF UringInv, SqWindow, QueueLength
<1>2. Minus(Inc(sq_list_tail), sq_head) = QueueLength + 1
  BY <1>1, MinusIncLeft DEF UringInv, UringTypeOK, QueueLength
<1> QED
  BY <1>1, <1>2, Widths DEF HasRoom

\* What a request in the ring can be.
LEMMA RequestKinds ==
  ASSUME UringInv, NEW k \in 0 .. (QueueLength - 1)
  PROVE  RequestAt(k) \in Events
<1>1. QueueLength = Published + Unpublished /\ Published \in Nat /\ Unpublished \in Nat
  BY Distances DEF UringInv, SqWindow, QueueLength
<1>2. \A j \in 0 .. (Published + Unpublished - 1) : RequestAt(j) \in Sqe
  BY DEF UringInv, KernelReadsFilled, RequestAt
<1>3. k \in 0 .. (Published + Unpublished - 1)
  BY <1>1
<1>4. RequestAt(k) \in Sqe
  BY <1>2, <1>3
<1> QED
  BY <1>4, LoopAssumption

\* The form of WriteBeforeRead that is about the window.
WindowOrder ==
  \A k \in 0 .. (QueueLength - 1) :
    RequestAt(k) = EVENT_OTHER =>
      IF k + 1 < QueueLength THEN RequestAt(k + 1) = EVENT_CONSOLE_READ
                             ELSE pc = "prompt_read"

\* A prompt's write is followed by its read: the same, said of the window.
LEMMA OrderOfWindow == WriteBeforeRead <=> WindowOrder
  BY DEF WriteBeforeRead, WindowOrder, RequestAt, QueueLength

\* Before each of the three requests at most two others can be left in the
\* ring, however few SQEs io_uring_enter has read: the reads the CQE in hand
\* accounts for are no longer there.
LEMMA RoomToListen ==
  ASSUME LoopInv, ListenInv, pc \in {"prompt_write", "prompt_read", "sig_listen"}
  PROVE  HasRoom
<1> USE DEF EVENT_CONSOLE_READ, EVENT_SIGNAL, EVENT_OTHER, Events
<1>1. UringInv /\ WindowOrder /\ pc \notin Ended
  BY OrderOfWindow DEF LoopInv, ListenInv, Ended
<1>2. QueueLength \in Nat /\ Entries \in Nat /\ Entries >= 3
  BY <1>1, CountsAreOfWindows, SizeAssumption, Widths DEF CountsMapped
<1>3. \A e \in Events : Queued(e) \in Nat /\ inflight[e] \in Nat /\ Unreleased(e) \in Nat
  BY <1>1, CountsAreOfWindows DEF CountsMapped
<1>4. \A k \in 0 .. (QueueLength - 1) : RequestAt(k) \in Events
  BY <1>1, RequestKinds
<1>5. Outstanding(EVENT_CONSOLE_READ) <= 1 /\ Outstanding(EVENT_SIGNAL) <= 1
  BY <1>1 DEF ListenInv, ConsoleReads, SignalReads
<1>6. Queued(EVENT_CONSOLE_READ) <= 1 /\ Queued(EVENT_SIGNAL) <= 1
  BY <1>3, <1>5 DEF Outstanding
<1>7. ASSUME NEW e \in Events, InHand(e), Outstanding(e) <= 1
      PROVE  Queued(e) = 0
  <2>1. Unreleased(e) >= 1
    BY <1>7, HandIsOldest DEF InHand
  <2> QED
    BY <1>3, <1>7, <2>1 DEF Outstanding
<1>8. ASSUME NEW e \in Events, Outstanding(e) = 0
      PROVE  Queued(e) = 0
  BY <1>3, <1>8 DEF Outstanding
<1>9. \A j, k \in 0 .. (QueueLength - 1) :
        /\ RequestAt(j) = EVENT_CONSOLE_READ /\ RequestAt(k) = EVENT_CONSOLE_READ => j = k
        /\ RequestAt(j) = EVENT_SIGNAL /\ RequestAt(k) = EVENT_SIGNAL => j = k
  BY <1>1, <1>6, QueuedBound
<1>10. CASE pc \in {"prompt_write", "prompt_read"}
  <2>1. Queued(EVENT_CONSOLE_READ) = 0
    <3>1. CASE cqe = NULL
      BY <1>1, <1>8, <1>10, <3>1 DEF ListenInv, ConsoleReads
    <3>2. CASE cqe # NULL
      BY <1>5, <1>7, <1>10, <3>2 DEF ListenInv, HandlerFor
    <3> QED
      BY <3>1, <3>2
  <2>2. \A k \in 0 .. (QueueLength - 1) : RequestAt(k) # EVENT_CONSOLE_READ
    BY <1>1, <2>1, QueuedBound
  <2>3. \A k \in 0 .. (QueueLength - 1) : k + 1 < QueueLength => RequestAt(k) = EVENT_SIGNAL
    BY <1>1, <1>2, <1>4, <2>2 DEF WindowOrder
  <2>4. QueueLength < 3
    BY <1>2, <1>9, <2>3
  <2> QED
    BY <1>1, <1>2, <2>4, RoomLeft
<1>11. CASE pc = "sig_listen"
  <2>1. Queued(EVENT_SIGNAL) = 0
    <3>1. CASE cqe = NULL
      BY <1>1, <1>8, <1>11, <3>1 DEF ListenInv, SignalReads
    <3>2. CASE cqe # NULL
      BY <1>5, <1>7, <1>11, <3>2 DEF ListenInv, HandlerFor
    <3> QED
      BY <3>1, <3>2
  <2>2. \A k \in 0 .. (QueueLength - 1) : RequestAt(k) # EVENT_SIGNAL
    BY <1>1, <2>1, QueuedBound
  <2>3. QueueLength < 3
    <3> SUFFICES ASSUME QueueLength >= 3 PROVE FALSE
      BY <1>2
    <3> DEFINE a == QueueLength - 3
               b == QueueLength - 2
               c == QueueLength - 1
    <3>1. a \in 0 .. (QueueLength - 1) /\ b \in 0 .. (QueueLength - 1)
          /\ c \in 0 .. (QueueLength - 1) /\ a + 1 = b /\ b + 1 = c /\ c + 1 = QueueLength
          /\ b < QueueLength /\ c < QueueLength /\ b # c
      BY <1>2
    <3> HIDE DEF a, b, c
    <3>2. RequestAt(c) = EVENT_CONSOLE_READ
      BY <1>1, <1>4, <1>11, <2>2, <3>1 DEF WindowOrder
    <3>3. RequestAt(b) = EVENT_OTHER
      BY <1>4, <1>9, <2>2, <3>1, <3>2
    <3>4. RequestAt(a) = EVENT_OTHER
      BY <1>4, <1>9, <2>2, <3>1, <3>2
    <3> QED
      BY <1>1, <3>1, <3>3, <3>4 DEF WindowOrder
  <2> QED
    BY <1>1, <1>2, <2>3, RoomLeft
<1> QED
  BY <1>10, <1>11

\* A step that leaves both windows alone keeps the counts, the CQE in hand
\* and, unless it is PromptRead, the order of the requests.
LEMMA ListenQuiet ==
  ASSUME LoopInv, LoopInv', ListenInv,
         UNCHANGED <<sq_head, sq_list_tail, sqes, cq_head, cq_tail, cqes, inflight>>
  PROVE  /\ \A e : Outstanding(e)' = Outstanding(e)
         /\ cqe' = cqe => \A e : InHand(e)' <=> InHand(e)
         /\ (pc = "prompt_read" => pc' = "prompt_read") => WriteBeforeRead'
<1>1. \A e : Outstanding(e)' = Outstanding(e)
  BY CountSame DEF Outstanding
<1>2. cqe' = cqe => \A e : InHand(e)' <=> InHand(e)
  BY DEF InHand, CqeAt
<1>3. (pc = "prompt_read" => pc' = "prompt_read") => WriteBeforeRead'
  BY DEF ListenInv, WriteBeforeRead
<1> QED
  BY <1>1, <1>2, <1>3

\* A completion moves a request from the kernel to the other ring.
LEMMA ListenPost ==
  ASSUME LoopInv, LoopInv', ListenInv, NEW s \in Sqe, NEW r \in Res, KernelPost(s, r),
         UNCHANGED <<pc, cqe>>
  PROVE  ListenInv'
<1>1. UringInv /\ UringInv'
  BY DEF LoopInv
<1>2. \A k \in 0 .. (Posted - 1) : ResultAt(k)' = ResultAt(k)
  BY <1>1, PostQueue
<1>3. \A e : InHand(e)' <=> InHand(e)
  BY <1>2, HandStays DEF KernelPost
<1>4. \A e \in Events : Outstanding(e)' = Outstanding(e)
  <2> SUFFICES ASSUME NEW e \in Events PROVE Outstanding(e)' = Outstanding(e)
    OBVIOUS
  <2>1. /\ Queued(e)' = Queued(e)
        /\ inflight[e] = inflight'[e] + One(e = s)
        /\ Unreleased(e)' = Unreleased(e) + One(e = s)
    BY <1>1, CountPost
  <2>2. CountsMapped /\ CountsMapped'
    BY <1>1, CountsAreOfWindows, PTL
  <2>3. /\ Queued(e) \in Nat /\ inflight[e] \in Nat /\ Unreleased(e) \in Nat
        /\ inflight'[e] \in Nat
    BY <2>2 DEF CountsMapped
  <2> QED
    BY <2>1, <2>3 DEF Outstanding, One
<1>5. WriteBeforeRead'
  BY DEF ListenInv, WriteBeforeRead, KernelPost, sq_vars
<1>6. ConsoleReads' = ConsoleReads /\ SignalReads' = SignalReads
  BY <1>3 DEF ConsoleReads, SignalReads
<1>7. HandlerFor' /\ NeverFaults'
  BY <1>3 DEF ListenInv, HandlerFor, NeverFaults
<1> QED
  BY <1>4, <1>5, <1>6, <1>7 DEF ListenInv, Events

\* io_uring_enter moves a request from the ring to the kernel.
LEMMA ListenRead ==
  ASSUME LoopInv, LoopInv', ListenInv, ReadSqe
  PROVE  ListenInv'
<1>1. UringInv /\ UringInv' /\ KernelStart /\ pc = "enter" /\ UNCHANGED <<pc, cqe>>
  BY DEF LoopInv, ReadSqe
<1>2. cqe = NULL
  BY <1>1 DEF ListenInv, HandlerFor
<1>3. \A e \in Events : Outstanding(e)' = Outstanding(e)
  <2> SUFFICES ASSUME NEW e \in Events PROVE Outstanding(e)' = Outstanding(e)
    OBVIOUS
  <2>1. /\ Queued(e) = Queued(e)' + One(e = RequestAt(0))
        /\ inflight'[e] = inflight[e] + One(e = RequestAt(0))
        /\ Unreleased(e)' = Unreleased(e)
    BY <1>1, CountStart
  <2>2. CountsMapped /\ CountsMapped'
    BY <1>1, CountsAreOfWindows, PTL
  <2>3. /\ Queued(e)' \in Nat /\ inflight[e] \in Nat /\ Unreleased(e) \in Nat
    BY <2>2 DEF CountsMapped
  <2> QED
    BY <2>1, <2>3 DEF Outstanding, One
<1>4. WriteBeforeRead'
  <2>1. WindowOrder
    BY OrderOfWindow DEF ListenInv
  <2>2. /\ QueueLength \in Nat \ {0} /\ QueueLength' = QueueLength - 1
        /\ \A k \in 0 .. (QueueLength - 2) : RequestAt(k)' = RequestAt(k + 1)
    BY <1>1, StartQueue
  <2>3. WindowOrder'
    <3> SUFFICES ASSUME NEW k \in 0 .. (QueueLength - 2), RequestAt(k)' = EVENT_OTHER
                 PROVE  k + 1 < QueueLength - 1 /\ RequestAt(k + 1)' = EVENT_CONSOLE_READ
      BY <2>2 DEF WindowOrder
    <3>1. k + 1 \in 0 .. (QueueLength - 1) /\ RequestAt(k + 1) = EVENT_OTHER
      BY <2>2
    <3>2. (k + 1) + 1 < QueueLength /\ RequestAt((k + 1) + 1) = EVENT_CONSOLE_READ
      BY <1>1, <2>1, <3>1 DEF WindowOrder
    <3>3. k + 1 \in 0 .. (QueueLength - 2)
      BY <2>2, <3>1, <3>2
    <3> QED
      BY <2>2, <3>2, <3>3
  <2> QED
    BY <2>3, OrderOfWindow, PTL
<1> QED
  BY <1>1, <1>2, <1>3, <1>4 DEF ListenInv, NeverFaults, HandlerFor, ConsoleReads,
    SignalReads, Events

\* The request goes in, at the place that keeps a write before its read.
LEMMA ListenSubmit ==
  ASSUME LoopInv, LoopInv', ListenInv, NEW s \in Events, NEW next, Submit(s, next), HasRoom,
         \/ s = EVENT_OTHER /\ next = "prompt_read" /\ pc # "prompt_read"
         \/ s = EVENT_CONSOLE_READ
         \/ s = EVENT_SIGNAL /\ pc # "prompt_read"
  PROVE  /\ pc' = next /\ cqe' = cqe
         /\ \A e \in Events : Outstanding(e)' = Outstanding(e) + One(e = s)
         /\ \A e : InHand(e)' <=> InHand(e)
         /\ WriteBeforeRead'
<1>1. UringInv /\ UringInv' /\ s \in Sqe
  BY LoopAssumption DEF LoopInv
<1>2. uring_new_submission(s) /\ pc' = next /\ cqe' = cqe
  BY DEF Submit
<1>3. \A e \in Events : Outstanding(e)' = Outstanding(e) + One(e = s)
  <2> SUFFICES ASSUME NEW e \in Events
               PROVE  Outstanding(e)' = Outstanding(e) + One(e = s)
    OBVIOUS
  <2>1. /\ Queued(e)' = Queued(e) + One(e = s)
        /\ inflight'[e] = inflight[e]
        /\ Unreleased(e)' = Unreleased(e)
    BY <1>1, <1>2, CountSubmit
  <2>2. Queued(e) \in Nat /\ inflight[e] \in Nat /\ Unreleased(e) \in Nat
    BY <1>1, CountsAreOfWindows DEF CountsMapped
  <2> QED
    BY <2>1, <2>2 DEF Outstanding, One
<1>4. /\ QueueLength \in Nat /\ QueueLength' = QueueLength + 1
      /\ \A k \in 0 .. (QueueLength - 1) : RequestAt(k)' = RequestAt(k)
      /\ \A k \in {QueueLength} : RequestAt(k)' = s
      /\ UNCHANGED <<cq_head, cq_tail, cqes, inflight>>
  BY <1>1, <1>2, SubmissionQueue
<1>5. \A e : InHand(e)' <=> InHand(e)
  BY <1>2, <1>4 DEF InHand, CqeAt
<1>6. WindowOrder'
  <2>1. WindowOrder
    BY OrderOfWindow DEF ListenInv
  <2> SUFFICES ASSUME NEW k \in 0 .. QueueLength, RequestAt(k)' = EVENT_OTHER
               PROVE  IF k + 1 < QueueLength + 1
                        THEN RequestAt(k + 1)' = EVENT_CONSOLE_READ
                        ELSE pc' = "prompt_read"
    BY <1>4 DEF WindowOrder
  <2>2. CASE k = QueueLength
    <3>1. s = EVENT_OTHER
      BY <1>4, <2>2
    <3> QED
      BY <1>2, <1>4, <2>2, <3>1 DEF EVENT_OTHER, EVENT_CONSOLE_READ, EVENT_SIGNAL
  <2>3. CASE k + 1 = QueueLength
    <3>1. k \in 0 .. (QueueLength - 1) /\ ~(k + 1 < QueueLength)
      BY <1>4, <2>3
    <3>2. RequestAt(k) = EVENT_OTHER
      BY <1>4, <3>1
    <3>3. pc = "prompt_read"
      BY <2>1, <3>1, <3>2 DEF WindowOrder
    <3>4. s = EVENT_CONSOLE_READ
      BY <3>3
    <3> QED
      BY <1>4, <2>3, <3>4
  <2>4. CASE k + 1 < QueueLength
    <3>1. k \in 0 .. (QueueLength - 1) /\ k + 1 \in 0 .. (QueueLength - 1)
      BY <1>4, <2>4
    <3>2. RequestAt(k + 1) = EVENT_CONSOLE_READ
      BY <1>4, <2>1, <2>4, <3>1 DEF WindowOrder
    <3> QED
      BY <1>4, <2>4, <3>1, <3>2
  <2> QED
    BY <1>4, <2>2, <2>3, <2>4
<1>7. WriteBeforeRead'
  BY <1>6, OrderOfWindow, PTL
<1> QED
  BY <1>2, <1>3, <1>5, <1>7

\* The CQE that was in hand is no longer counted.
LEMMA ListenAdvance ==
  ASSUME LoopInv, LoopInv', ListenInv, Advance
  PROVE  ListenInv'
<1>1. UringInv /\ UringInv' /\ cqe # NULL /\ CqReady /\ uring_advance
  BY HeldIsReady DEF LoopInv, Advance
<1>2. pc = "advance" /\ pc' = "wait" /\ cqe' = NULL
  BY DEF Advance
<1>3. ASSUME NEW e \in Events
      PROVE  Outstanding(e) = Outstanding(e)' + One(InHand(e))
  <2>1. /\ Queued(e)' = Queued(e)
        /\ inflight'[e] = inflight[e]
        /\ Unreleased(e) = Unreleased(e)' + One(e = ResultAt(0).user_data)
    BY <1>1, CountAdvance
  <2>2. InHand(e) <=> e = ResultAt(0).user_data
    BY <1>1, HandIsOldest DEF InHand
  <2>3. CountsMapped /\ CountsMapped'
    BY <1>1, CountsAreOfWindows, PTL
  <2>4. Queued(e) \in Nat /\ inflight[e] \in Nat /\ Unreleased(e)' \in Nat
    BY <2>3 DEF CountsMapped
  <2> QED
    BY <2>1, <2>2, <2>4 DEF Outstanding, One
<1>4. CountsMapped'
  BY <1>1, CountsAreOfWindows, PTL
<1>5. \A e \in Events : Outstanding(e)' \in Nat
  BY <1>4 DEF CountsMapped, Outstanding
<1>6. /\ Outstanding(EVENT_CONSOLE_READ) = One(InHand(EVENT_CONSOLE_READ)) + 1
      /\ Outstanding(EVENT_SIGNAL) = One(InHand(EVENT_SIGNAL)) + 1
  BY <1>2 DEF ListenInv, ConsoleReads, SignalReads, One, Ended
<1>7. Outstanding(EVENT_CONSOLE_READ)' = 1 /\ Outstanding(EVENT_SIGNAL)' = 1
  BY <1>3, <1>5, <1>6 DEF Events, One
<1>8. WriteBeforeRead'
  BY <1>2 DEF ListenInv, WriteBeforeRead, Advance, uring_advance, sq_vars
<1> QED
  BY <1>2, <1>7, <1>8 DEF ListenInv, NeverFaults, HandlerFor, ConsoleReads, SignalReads

\* No step breaks the account of the reads.
LEMMA ListenStep == LoopInv /\ ListenInv /\ [Next]_vars => ListenInv'
<1> SUFFICES ASSUME LoopInv, ListenInv, [Next]_vars PROVE ListenInv'
  OBVIOUS
<1> USE DEF Ended, EVENT_CONSOLE_READ, EVENT_SIGNAL, EVENT_OTHER, Events
<1>1. LoopInv'
  BY LoopStep
<1>2. EVENT_OTHER \in Sqe /\ EVENT_CONSOLE_READ \in Sqe /\ EVENT_SIGNAL \in Sqe
      /\ WriteResults \subseteq Res /\ ReadResults \subseteq Res
  BY LoopAssumption DEF Results
<1>3. pc \notin Ended => \A e \in Events : Outstanding(e) \in Nat
  BY CountsAreOfWindows DEF LoopInv, CountsMapped, Outstanding
<1>4. CASE PromptWrite
  <2>1. Submit(EVENT_OTHER, "prompt_read") /\ pc = "prompt_write"
    BY <1>4 DEF PromptWrite
  <2>2. /\ pc' = "prompt_read" /\ cqe' = cqe
        /\ \A e \in Events : Outstanding(e)' = Outstanding(e) + One(e = EVENT_OTHER)
        /\ \A e : InHand(e)' <=> InHand(e)
        /\ WriteBeforeRead'
    BY <1>1, <2>1, RoomToListen, ListenSubmit
  <2> QED
    BY <1>3, <2>1, <2>2 DEF ListenInv, NeverFaults, HandlerFor, ConsoleReads, SignalReads, One
<1>5. CASE PromptRead
  <2> DEFINE next == IF cqe = NULL THEN "sig_listen" ELSE "advance"
  <2>1. Submit(EVENT_CONSOLE_READ, next) /\ pc = "prompt_read"
    BY <1>5 DEF PromptRead
  <2>2. /\ pc' = next /\ cqe' = cqe
        /\ \A e \in Events : Outstanding(e)' = Outstanding(e) + One(e = EVENT_CONSOLE_READ)
        /\ \A e : InHand(e)' <=> InHand(e)
        /\ WriteBeforeRead'
    BY <1>1, <2>1, RoomToListen, ListenSubmit
  <2>3. ~(InHand(EVENT_CONSOLE_READ) /\ InHand(EVENT_SIGNAL))
    BY DEF InHand
  <2>4. HandlerFor' /\ NeverFaults'
    BY <2>1, <2>2 DEF ListenInv, NeverFaults, HandlerFor
  <2>5. /\ Outstanding(EVENT_CONSOLE_READ)' = Outstanding(EVENT_CONSOLE_READ) + 1
        /\ Outstanding(EVENT_SIGNAL)' = Outstanding(EVENT_SIGNAL)
    BY <1>3, <2>1, <2>2 DEF One
  <2>6. /\ ConsoleReads' = ConsoleReads + 1
        /\ SignalReads' = SignalReads
    BY <2>1, <2>2, <2>3 DEF ListenInv, HandlerFor, ConsoleReads, SignalReads
  <2> QED
    BY <2>1, <2>2, <2>4, <2>5, <2>6 DEF ListenInv
<1>6. CASE submit_sig_listen
  <2> DEFINE next == IF cqe = NULL THEN "socket" ELSE "advance"
  <2>1. Submit(EVENT_SIGNAL, next) /\ pc = "sig_listen"
    BY <1>6 DEF submit_sig_listen
  <2>2. /\ pc' = next /\ cqe' = cqe
        /\ \A e \in Events : Outstanding(e)' = Outstanding(e) + One(e = EVENT_SIGNAL)
        /\ \A e : InHand(e)' <=> InHand(e)
        /\ WriteBeforeRead'
    BY <1>1, <2>1, RoomToListen, ListenSubmit
  <2>3. ~(InHand(EVENT_CONSOLE_READ) /\ InHand(EVENT_SIGNAL))
    BY DEF InHand
  <2>4. HandlerFor' /\ NeverFaults'
    BY <2>1, <2>2 DEF ListenInv, NeverFaults, HandlerFor
  <2>5. /\ Outstanding(EVENT_CONSOLE_READ)' = Outstanding(EVENT_CONSOLE_READ)
        /\ Outstanding(EVENT_SIGNAL)' = Outstanding(EVENT_SIGNAL) + 1
    BY <1>3, <2>1, <2>2 DEF One
  <2>6. /\ ConsoleReads' = ConsoleReads
        /\ SignalReads' = SignalReads + 1
    BY <2>1, <2>2, <2>3 DEF ListenInv, HandlerFor, ConsoleReads, SignalReads
  <2> QED
    BY <2>1, <2>2, <2>4, <2>5, <2>6 DEF ListenInv
<1>7. CASE Boot \/ OpenSocket \/ RunBuiltin \/ Fork \/ Waitid \/ WaitidFails
  <2>1. UNCHANGED ring_vars /\ cqe' = cqe /\ pc # "prompt_read"
    BY <1>7 DEF Boot, OpenSocket, RunBuiltin, Fork, Waitid, WaitidFails
  <2>2. UNCHANGED <<sq_head, sq_list_tail, sqes, cq_head, cq_tail, cqes, inflight>>
    BY <2>1 DEF ring_vars, sq_vars, cq_vars, kernel_vars
  <2>3. /\ \A e : Outstanding(e)' = Outstanding(e)
        /\ \A e : InHand(e)' <=> InHand(e)
        /\ WriteBeforeRead'
    BY <1>1, <2>1, <2>2, ListenQuiet
  <2> QED
    BY <1>7, <2>1, <2>3 DEF ListenInv, NeverFaults, HandlerFor, ConsoleReads, SignalReads,
      Boot, OpenSocket, RunBuiltin, Fork, Waitid, WaitidFails, LoopInv
<1>8. CASE Handle
  <2>1. UNCHANGED ring_vars /\ cqe' = cqe /\ pc = "handle" /\ cqe # NULL
    BY <1>8 DEF Handle, LoopInv
  <2>2. UNCHANGED <<sq_head, sq_list_tail, sqes, cq_head, cq_tail, cqes, inflight>>
    BY <2>1 DEF ring_vars, sq_vars, cq_vars, kernel_vars
  <2>3. /\ \A e : Outstanding(e)' = Outstanding(e)
        /\ \A e : InHand(e)' <=> InHand(e)
        /\ WriteBeforeRead'
    BY <1>1, <2>1, <2>2, ListenQuiet
  <2>4. CqeAt(cqe).user_data \in Events
    BY <2>1, HandIsOldest
  <2>5. \/ InHand(EVENT_CONSOLE_READ) /\ pc' \in {"command", "prompt_write", "poweroff"}
        \/ InHand(EVENT_SIGNAL) /\ pc' = "sig_listen"
        \/ /\ ~InHand(EVENT_CONSOLE_READ) /\ ~InHand(EVENT_SIGNAL)
           /\ pc' \in {"exited", "advance"}
    BY <1>8, <2>1, <2>4 DEF Handle, HandleTarget, process_input, process_signal, InHand
  <2> QED
    BY <2>1, <2>3, <2>5 DEF ListenInv, NeverFaults, HandlerFor, ConsoleReads, SignalReads
<1>9. CASE Result
  <2>1. UNCHANGED ring_vars /\ pc = "result" /\ cqe = NULL
        /\ (pc' = "handle" \/ (pc' = "wait" /\ cqe' = NULL))
    BY <1>9 DEF Result, ListenInv, HandlerFor
  <2>2. UNCHANGED <<sq_head, sq_list_tail, sqes, cq_head, cq_tail, cqes, inflight>>
    BY <2>1 DEF ring_vars, sq_vars, cq_vars, kernel_vars
  <2>3. (\A e : Outstanding(e)' = Outstanding(e)) /\ WriteBeforeRead'
    BY <1>1, <2>1, <2>2, ListenQuiet
  <2> QED
    BY <2>1, <2>3 DEF ListenInv, NeverFaults, HandlerFor, ConsoleReads, SignalReads
<1>10. CASE WaitCall \/ WaitReturn \/ WaitFails
  <2>1. UNCHANGED <<sq_head, sq_list_tail, sqes, cq_head, cq_tail, cqes, inflight, cqe>>
    BY <1>10 DEF WaitCall, WaitReturn, WaitFails, uring_wait, flush_sq, EnterShort,
      EnterReturn, EnterError, sq_vars, cq_vars
  <2>2. pc \in {"wait", "enter"} /\ pc' \in {"enter", "result", "exited"} /\ cqe = NULL
    BY <1>10 DEF WaitCall, WaitReturn, WaitFails, ListenInv, HandlerFor
  <2>3. (\A e : Outstanding(e)' = Outstanding(e)) /\ WriteBeforeRead'
    BY <1>1, <2>1, <2>2, ListenQuiet
  <2> QED
    BY <2>1, <2>2, <2>3 DEF ListenInv, NeverFaults, HandlerFor, ConsoleReads, SignalReads
<1>11. CASE ReadSqe
  BY <1>1, <1>11, ListenRead
<1>12. CASE Advance
  BY <1>1, <1>12, ListenAdvance
<1>13. CASE Completion
  <2>1. ASSUME NEW r \in WriteResults, WriteDone(r) PROVE ListenInv'
    BY <1>1, <1>2, <2>1, ListenPost DEF WriteDone
  <2>2. ASSUME NEW r \in ReadResults, ReadDone(r) PROVE ListenInv'
    BY <1>1, <1>2, <2>2, ListenPost DEF ReadDone
  <2>3. CASE ReadCancelled
    BY <1>1, <1>2, <2>3, ListenPost DEF ReadCancelled, ReadResults
  <2>4. CASE SignalDone
    BY <1>1, <1>2, <2>4, ListenPost DEF SignalDone, WriteResults
  <2> QED
    BY <1>13, <2>1, <2>2, <2>3, <2>4 DEF Completion
<1>14. CASE ChildExec \/ ChildProgramEnds \/ SignalRaised \/ UNCHANGED vars
  <2>1. UNCHANGED ring_vars /\ UNCHANGED <<cqe, pc>>
    BY <1>14 DEF ChildExec, ChildProgramEnds, ChildDies, SignalRaised, vars
  <2>2. UNCHANGED <<sq_head, sq_list_tail, sqes, cq_head, cq_tail, cqes, inflight>>
    BY <2>1 DEF ring_vars, sq_vars, cq_vars, kernel_vars
  <2>3. /\ \A e : Outstanding(e)' = Outstanding(e)
        /\ \A e : InHand(e)' <=> InHand(e)
        /\ WriteBeforeRead'
    BY <1>1, <2>1, <2>2, ListenQuiet
  <2> QED
    BY <2>1, <2>3 DEF ListenInv, NeverFaults, HandlerFor, ConsoleReads, SignalReads
<1> QED
  BY <1>4, <1>5, <1>6, <1>7, <1>8, <1>9, <1>10, <1>11, <1>12, <1>13, <1>14
    DEF Next, InitStep, EnterStep

\* Nothing is outstanding before init() queues the first requests.
LEMMA ListenInit == Init => ListenInv
<1> SUFFICES ASSUME Init PROVE ListenInv
  OBVIOUS
<1>1. /\ sq_head = 0 /\ sq_list_tail = 0 /\ cq_head = 0 /\ cq_tail = 0
      /\ inflight = [s \in SqeContent |-> 0] /\ pc = "boot" /\ cqe = NULL
  BY DEF Init, uring_init
<1>2. Minus(sq_list_tail, sq_head) = 0 /\ Posted = 0
  BY <1>1, MinusValue, Widths DEF Posted, Index
<1>3. 0 .. (0 - 1) = {}
  OBVIOUS
<1>4. ASSUME NEW e \in Events PROVE Outstanding(e) = 0
  <2>1. Queued(e) = 0
    BY <1>2, <1>3, FS_EmptySet DEF Queued
  <2>2. Unreleased(e) = 0
    BY <1>2, <1>3, FS_EmptySet DEF Unreleased
  <2>3. inflight[e] = 0
    BY <1>1, LoopAssumption DEF SqeContent
  <2> QED
    BY <2>1, <2>2, <2>3 DEF Outstanding
<1>5. WriteBeforeRead
  BY <1>2, <1>3 DEF WriteBeforeRead
<1> QED
  BY <1>1, <1>4, <1>5 DEF ListenInv, NeverFaults, HandlerFor, ConsoleReads, SignalReads,
    Events

-----------------------------------------------------------------------------
(* The forked process.                                                     *)

\* There is one only while process_command() waits for it.
ForkInv == child # "none" => pc = "child_wait" \/ pc \in Ended

\* Every step is one of ChildLife's or leaves the child and init as they are.
LEMMA LifeStep ==
  LoopInv /\ ForkInv /\ [Next]_vars => ForkInv' /\ [Life!Next]_Life!vars
<1> SUFFICES ASSUME LoopInv, ForkInv, [Next]_vars
             PROVE  ForkInv' /\ [Life!Next]_Life!vars
  OBVIOUS
<1> USE DEF ForkInv, Ended
<1> DEFINE up == pc \notin Ended
<1>1. ASSUME up, ~up', UNCHANGED child PROVE [Life!Next]_Life!vars
  BY <1>1 DEF Life!Next, Life!Panic
<1>2. ASSUME up' = up, UNCHANGED child PROVE [Life!Next]_Life!vars
  BY <1>2 DEF Life!vars
<1>3. CASE Boot \/ OpenSocket \/ RunBuiltin \/ WaitidFails \/ PromptWrite \/ PromptRead
           \/ submit_sig_listen \/ WaitCall \/ Advance \/ Result \/ EnterStep
  <2>1. UNCHANGED child /\ up
    BY <1>3 DEF Boot, OpenSocket, RunBuiltin, WaitidFails, PromptWrite, PromptRead,
      submit_sig_listen, Submit, WaitCall, Advance, Result, EnterStep, ReadSqe, WaitReturn,
      WaitFails
  <2>2. ForkInv'
    BY <1>3 DEF Boot, OpenSocket, RunBuiltin, WaitidFails, PromptWrite, PromptRead,
      submit_sig_listen, Submit, WaitCall, Advance, Result, EnterStep, ReadSqe, WaitReturn,
      WaitFails
  <2>3. up' = up \/ ~up'
    BY <2>1, Zenon
  <2> QED
    BY <1>1, <1>2, <2>1, <2>2, <2>3
<1>4. CASE Handle
  <2>1. pc = "handle" /\ UNCHANGED child
    BY <1>4 DEF Handle
  <2>2. up /\ ForkInv'
    BY <2>1
  <2>3. up' = up \/ ~up'
    BY <2>2, Zenon
  <2> QED
    BY <1>1, <1>2, <2>1, <2>2, <2>3
<1>5. CASE Fork
  BY <1>5 DEF Fork, Life!Next, Life!Fork, Life!Becomes
<1>6. CASE Waitid
  BY <1>6 DEF Waitid, Life!Next, Life!Reap, Life!Becomes
<1>7. CASE ChildExec \/ ChildProgramEnds
  BY <1>7 DEF ChildExec, ChildProgramEnds, ChildDies, Life!Next, Life!Settle, Life!End,
    Life!Becomes
<1>8. CASE Completion \/ SignalRaised \/ UNCHANGED vars
  <2>1. UNCHANGED <<pc, child>>
    BY <1>8 DEF Completion, WriteDone, ReadDone, ReadCancelled, SignalDone, SignalRaised, vars
  <2> QED
    BY <1>2, <2>1
<1> QED
  BY <1>3, <1>4, <1>5, <1>6, <1>7, <1>8 DEF Next, InitStep

-----------------------------------------------------------------------------
(* The theorems.                                                           *)

\* The invariant of start()'s loop holds for every size of the rings.
THEOREM LoopInvariant == Spec => []LoopInv
  BY LoopInit, LoopStep, PTL DEF Spec

\* The pointer that handle() works on is to a CQE nobody has released.
THEOREM CqeStaysHeld == Spec => []CqeHeld
<1>1. LoopInv => CqeHeld
  BY DEF LoopInv
<1> QED
  BY <1>1, LoopInvariant, PTL

\* The account of the reads outstanding holds at every place of the program.
THEOREM ListenInvariant == Spec => []ListenInv
  BY LoopInvariant, ListenInit, ListenStep, PTL DEF Spec

\* create_console_prompt and submit_sig_listen always get an SQE: they never
\* store through NULL, however few SQEs each io_uring_enter reads.
THEOREM NeverStoresThroughNull == Spec => []NeverFaults
<1>1. ListenInv => NeverFaults
  BY DEF ListenInv
<1> QED
  BY <1>1, ListenInvariant, PTL

\* Whenever start() waits, one console read and one signal read are under
\* way: no handler forgets one and none queues a second.
THEOREM AlwaysListening == Spec => []ListensOnce
<1>1. ListenInv => ListensOnce
  BY DEF ListenInv, ListensOnce, ConsoleReads, SignalReads, Ended
<1> QED
  BY <1>1, ListenInvariant, PTL

\* While process_command() works on the global buffer, no read into it is
\* queued or with the kernel: the one read that may exist is in hand.
THEOREM BufferIsOurs == Spec => []BufferExclusive
<1>1. LoopInv /\ ListenInv => BufferExclusive
  <2> SUFFICES ASSUME LoopInv, ListenInv, pc \in {"command", "child_wait"}
               PROVE  Queued(EVENT_CONSOLE_READ) = 0 /\ inflight[EVENT_CONSOLE_READ] = 0
    BY DEF BufferExclusive
  <2> DEFINE e == EVENT_CONSOLE_READ
  <2>1. cqe # NULL /\ InHand(e)
    BY DEF LoopInv, ListenInv, HandlerFor
  <2>2. Unreleased(e) >= 1
    BY <2>1, HandIsOldest DEF InHand
  <2>3. Outstanding(e) = 1
    BY DEF ListenInv, ConsoleReads, Ended
  <2>4. Queued(e) \in Nat /\ inflight[e] \in Nat /\ Unreleased(e) \in Nat
    BY CountsAreOfWindows DEF LoopInv, CountsMapped, Events
  <2> QED
    BY <2>2, <2>3, <2>4 DEF Outstanding
<1> QED
  BY <1>1, LoopInvariant, ListenInvariant, PTL

\* The types of the loop's variables.
THEOREM LoopTypes == Spec => []TypeOK
<1>1. LoopInv => TypeOK
  BY DEF LoopInv
<1> QED
  BY <1>1, LoopInvariant, PTL

\* start() uses the ring as uring_ctl.c expects: the program refines the
\* ring's specification, so everything proved of the ring holds in it.
THEOREM LoopUsesRing == Spec => UsesRing
<1>1. Init => uring_init
  BY DEF Init
<1> QED
  BY <1>1, LoopIsRing, LoopInvariant, PTL DEF Spec, UsesRing, UringSpec

\* So the whole program sees the ring as the channel: what start() submits
\* reaches the kernel, and what the kernel posts reaches handle(), once each
\* and in order.
THEOREM LoopSeesChannel == Spec => ImplementsChannel
  BY LoopUsesRing, RingIsChannel, PTL DEF UsesRing

\* The loop starts no second process and goes on only when the first has
\* ended, whatever completes meanwhile: the safety part of ForksOneChild.
THEOREM LoopForksOneChild == Spec => Life!Spec
<1>1. Init => ForkInv /\ Life!Init
  BY DEF Init, ForkInv, Life!Init, Ended
<1> QED
  BY <1>1, LoopInvariant, LifeStep, PTL DEF Spec, Life!Spec

\* What ResultIsPosted, which the run of ForkedInit violates, takes to be
\* violated: execveat has to return in a child.  As long as it does not, all
\* of the above holds with the child's own cursors in the model as well, and
\* uring_result returns posted results only.
THEOREM HarmNeedsExecReturn ==
  ForkedSpec /\ [][~ChildExecFails]_<<vars, c_vars>> => Spec /\ []ResultIsPosted
<1>1. InitForked => Init /\ LoopInv
  BY LoopInit DEF InitForked
<1>2. ASSUME LoopInv, [ForkedNext]_<<vars, c_vars>>, [~ChildExecFails]_<<vars, c_vars>>
      PROVE  [Next]_vars
  <2>1. child \in {"none", "started", "program", "zombie"}
    BY <1>2 DEF LoopInv, TypeOK
  <2>2. ~ChildPrompt /\ ~ChildAdvance /\ ~ChildWaitCall /\ ~ChildEnterFails
    BY <2>1 DEF ChildPrompt, ChildSubmit, ChildAdvance, ChildWaitCall, ChildEnterFails
  <2> QED
    BY <1>2, <2>2 DEF ForkedNext
<1>3. LoopInv /\ [Next]_vars => LoopInv'
  BY LoopStep
<1>4. LoopInv => ResultIsPosted
  BY DEF LoopInv, CqeHeld, UringInv, CqWindow, ResultIsPosted
<1> QED
  BY <1>1, <1>2, <1>3, <1>4, PTL DEF ForkedSpec, Spec
=============================================================================
