-------------------------- MODULE UringQueueProofs --------------------------
(***************************************************************************)
(* The invariant of the ring, for rings of any size and cursors of any     *)
(* width.  The arithmetic comes first: remainders, then free-running       *)
(* cursors, then slots.  The steps of the ring only cite these lemmas.     *)
(***************************************************************************)
EXTENDS UringQueue, SequenceTheorems, TLAPS

-----------------------------------------------------------------------------
(* Remainders.                                                             *)

\* A number is the multiple it contains and its remainder.
LEMMA DivMod ==
  ASSUME NEW a \in Int, NEW e \in Nat \ {0}
  PROVE  a \div e \in Int /\ a % e \in 0 .. (e - 1) /\ a = e * (a \div e) + (a % e)
  OBVIOUS

\* ... and there is no other way to write it like that.
LEMMA ModUnique ==
  ASSUME NEW a \in Int, NEW e \in Nat \ {0}, NEW c \in Int, NEW r \in 0 .. (e - 1),
         a = e * c + r
  PROVE  a % e = r
  OBVIOUS

\* Adding a multiple changes no remainder.
LEMMA ModAddMultiple ==
  ASSUME NEW a \in Int, NEW e \in Nat \ {0}, NEW c \in Int
  PROVE  (a + e * c) % e = a % e
<1>1. a = e * (a \div e) + (a % e) /\ a % e \in 0 .. (e - 1) /\ a \div e \in Int
  BY DivMod
<1>2. a + e * c = e * ((a \div e) + c) + (a % e)
  BY <1>1
<1>3. a + e * c \in Int /\ (a \div e) + c \in Int
  BY <1>1
<1> QED
  BY <1>1, <1>2, <1>3, ModUnique

\* Taking the remainder of a part of a difference changes nothing.
LEMMA ModMinusMod ==
  ASSUME NEW a \in Int, NEW b \in Int, NEW e \in Nat \ {0}
  PROVE  ((a % e) - b) % e = (a - b) % e
<1>1. a = e * (a \div e) + (a % e) /\ a % e \in Int /\ a \div e \in Int
  BY DivMod
<1>2. a - b = ((a % e) - b) + e * (a \div e)
  BY <1>1
<1>3. (a % e) - b \in Int
  BY <1>1
<1>4. (((a % e) - b) + e * (a \div e)) % e = ((a % e) - b) % e
  BY <1>1, <1>3, ModAddMultiple
<1> QED
  BY <1>2, <1>4

-----------------------------------------------------------------------------
(* Free-running cursors.                                                   *)

\* The sizes of the rings, without their divisibility.
LEMMA Widths ==
  /\ Modulus \in Nat \ {0} /\ Entries \in Nat \ {0} /\ CqEntries \in Nat \ {0}
  /\ Entries + 1 < Modulus /\ CqEntries + 1 < Modulus
  BY RingAssumption

\* What one increment of a uint32_t cursor yields.
LEMMA IncValue ==
  ASSUME NEW x \in Index
  PROVE  Inc(x) = (IF x = Modulus - 1 THEN 0 ELSE x + 1) /\ Inc(x) \in Index
  BY Widths DEF Inc, Index

\* What the difference of two uint32_t cursors yields.
LEMMA MinusValue ==
  ASSUME NEW x \in Index, NEW y \in Index
  PROVE  Minus(x, y) = (IF x >= y THEN x - y ELSE x - y + Modulus)
         /\ Minus(x, y) \in Index
  BY Widths DEF Minus, Index

\* One more at the front, short of a full circle.
LEMMA MinusIncLeft ==
  ASSUME NEW x \in Index, NEW y \in Index, Minus(x, y) + 1 < Modulus
  PROVE  Minus(Inc(x), y) = Minus(x, y) + 1
<1>1. Inc(x) = (IF x = Modulus - 1 THEN 0 ELSE x + 1) /\ Inc(x) \in Index
  BY IncValue
<1>2. Minus(x, y) = (IF x >= y THEN x - y ELSE x - y + Modulus)
  BY MinusValue
<1>3. Minus(Inc(x), y) = (IF Inc(x) >= y THEN Inc(x) - y ELSE Inc(x) - y + Modulus)
  BY <1>1, MinusValue
<1> QED
  BY <1>1, <1>2, <1>3, Widths DEF Index

\* One less at the back, when there is one.
LEMMA MinusIncRight ==
  ASSUME NEW x \in Index, NEW y \in Index, Minus(x, y) > 0
  PROVE  Minus(x, Inc(y)) = Minus(x, y) - 1
<1>1. Inc(y) = (IF y = Modulus - 1 THEN 0 ELSE y + 1) /\ Inc(y) \in Index
  BY IncValue
<1>2. Minus(x, y) = (IF x >= y THEN x - y ELSE x - y + Modulus)
  BY MinusValue
<1>3. Minus(x, Inc(y)) = (IF x >= Inc(y) THEN x - Inc(y) ELSE x - Inc(y) + Modulus)
  BY <1>1, MinusValue
<1> QED
  BY <1>1, <1>2, <1>3, Widths DEF Index

\* A cursor plus the distance to another one is that other one, perhaps a
\* full circle later.
LEMMA PlusMinus ==
  ASSUME NEW x \in Index, NEW y \in Index
  PROVE  /\ y + Minus(x, y) = x \/ y + Minus(x, y) = x + Modulus
         /\ (y + Minus(x, y)) % Modulus = x
<1>1. Minus(x, y) = (IF x >= y THEN x - y ELSE x - y + Modulus)
  BY MinusValue
<1>2. y + Minus(x, y) = x \/ y + Minus(x, y) = x + Modulus
  BY <1>1, Widths DEF Index
<1>3. x % Modulus = x
  BY Widths DEF Index
<1>4. (x + Modulus) % Modulus = x
  BY Widths, ModUnique DEF Index
<1> QED
  BY <1>2, <1>3, <1>4

-----------------------------------------------------------------------------
(* Slots, for a ring of e of them whose size divides the cursors' range.   *)

\* A full circle of the cursor is a whole number of turns of the ring.
LEMMA SlotCircle ==
  ASSUME NEW e \in Nat \ {0}, Modulus % e = 0, NEW a \in Int
  PROVE  (a + Modulus) % e = a % e
<1>1. Modulus = e * (Modulus \div e) + (Modulus % e) /\ Modulus \div e \in Int
  BY DivMod, Widths
<1>2. a + Modulus = a + e * (Modulus \div e)
  BY <1>1, Widths
<1>3. (a + e * (Modulus \div e)) % e = a % e
  BY <1>1, ModAddMultiple
<1> QED
  BY <1>2, <1>3

\* The slot k behind the next cursor is the slot k + 1 behind this one.
LEMMA SlotInc ==
  ASSUME NEW e \in Nat \ {0}, Modulus % e = 0, NEW x \in Index, NEW k \in Nat
  PROVE  (Inc(x) + k) % e = (x + (k + 1)) % e
<1>1. Inc(x) = (IF x = Modulus - 1 THEN 0 ELSE x + 1)
  BY IncValue
<1>2. CASE x = Modulus - 1
  <2>1. Inc(x) + k = k /\ x + (k + 1) = k + Modulus
    BY <1>1, <1>2, Widths DEF Index
  <2> QED
    BY <2>1, SlotCircle
<1>3. CASE x # Modulus - 1
  <2>1. Inc(x) + k = x + (k + 1)
    BY <1>1, <1>3, Widths DEF Index
  <2> QED
    BY <2>1
<1> QED
  BY <1>2, <1>3

\* The slot of a cursor, counted from another cursor.
LEMMA SlotFrom ==
  ASSUME NEW e \in Nat \ {0}, Modulus % e = 0,
         NEW x \in Index, NEW y \in Index, NEW k \in Int
  PROVE  (x + k) % e = (y + (Minus(x, y) + k)) % e
<1>1. y + Minus(x, y) = x \/ y + Minus(x, y) = x + Modulus
  BY PlusMinus
<1>2. Minus(x, y) \in Int /\ x \in Int /\ y \in Int
  BY MinusValue, Widths DEF Index
<1>3. CASE y + Minus(x, y) = x
  <2>1. y + (Minus(x, y) + k) = x + k
    BY <1>2, <1>3
  <2> QED
    BY <2>1
<1>4. CASE y + Minus(x, y) = x + Modulus
  <2>1. y + (Minus(x, y) + k) = (x + k) + Modulus
    BY <1>2, <1>4, Widths
  <2>2. ((x + k) + Modulus) % e = (x + k) % e
    BY <1>2, SlotCircle
  <2> QED
    BY <2>1, <2>2
<1> QED
  BY <1>1, <1>3, <1>4

\* How far the slot k behind y lies behind the slot of x.
LEMMA SlotDistance ==
  ASSUME NEW e \in Nat \ {0}, Modulus % e = 0,
         NEW x \in Index, NEW y \in Index, Minus(x, y) <= e, NEW k \in 0 .. (e - 1)
  PROVE  (((y + k) % e) - x) % e =
           (IF k >= Minus(x, y) THEN k - Minus(x, y) ELSE k - Minus(x, y) + e)
<1> DEFINE d == Minus(x, y)
<1>1. d \in Nat /\ x \in Int /\ y \in Int
  BY MinusValue, Widths DEF Index
<1>2. (((y + k) % e) - x) % e = ((y + k) - x) % e
  <2>1. y + k \in Int
    BY <1>1
  <2> QED
    BY <1>1, <2>1, ModMinusMod
<1>3. y + d = x \/ y + d = x + Modulus
  BY PlusMinus
<1>4. ((y + k) - x) % e = (k - d) % e
  <2>1. CASE y + d = x
    <3>1. (y + k) - x = k - d
      BY <1>1, <2>1
    <3> QED
      BY <3>1
  <2>2. CASE y + d = x + Modulus
    <3>1. (y + k) - x = (k - d) + Modulus
      BY <1>1, <2>2, Widths
    <3>2. k - d \in Int
      BY <1>1
    <3> QED
      BY <3>1, <3>2, SlotCircle
  <2> QED
    BY <1>3, <2>1, <2>2
<1>5. CASE k >= d
  <2>1. k - d = e * 0 + (k - d) /\ k - d \in 0 .. (e - 1)
    BY <1>1, <1>5
  <2>2. (k - d) % e = k - d
    BY <2>1, ModUnique
  <2> QED
    BY <1>2, <1>4, <1>5, <2>2
<1>6. CASE ~(k >= d)
  <2>1. k - d = e * (-1) + (k - d + e) /\ k - d + e \in 0 .. (e - 1) /\ k - d \in Int
    BY <1>1, <1>6
  <2>2. (k - d) % e = k - d + e
    BY <2>1, ModUnique
  <2> QED
    BY <1>2, <1>4, <1>6, <2>2
<1> QED
  BY <1>5, <1>6

\* Within one turn of the ring, different distances are different slots.
LEMMA SlotsDiffer ==
  ASSUME NEW e \in Nat \ {0}, Modulus % e = 0, NEW x \in Index,
         NEW j \in 0 .. (e - 1), NEW k \in 0 .. (e - 1), (x + j) % e = (x + k) % e
  PROVE  j = k
<1>1. Minus(x, x) = 0
  BY MinusValue, Widths DEF Index
<1>2. (((x + j) % e) - x) % e = j
  BY <1>1, SlotDistance
<1>3. (((x + k) % e) - x) % e = k
  BY <1>1, SlotDistance
<1> QED
  BY <1>2, <1>3
-----------------------------------------------------------------------------
(* The rings.                                                              *)

\* A masked cursor is a slot of the submission ring ...
LEMMA SqSlotType ==
  ASSUME NEW a \in Int
  PROVE  SqSlot(a) \in SqSlots
  BY DivMod, Widths DEF SqSlot, SqSlots

\* ... or of the completion ring.
LEMMA CqSlotType ==
  ASSUME NEW a \in Int
  PROVE  CqSlot(a) \in CqSlots
  BY DivMod, Widths DEF CqSlot, CqSlots

\* SlotInc for the submission ring ...
LEMMA SqSlotInc ==
  ASSUME NEW x \in Index, NEW k \in Nat
  PROVE  SqSlot(Inc(x) + k) = SqSlot(x + (k + 1))
  BY SlotInc, RingAssumption DEF SqSlot

\* ... and for the completion ring.
LEMMA CqSlotInc ==
  ASSUME NEW x \in Index, NEW k \in Nat
  PROVE  CqSlot(Inc(x) + k) = CqSlot(x + (k + 1))
  BY SlotInc, RingAssumption DEF CqSlot

\* SlotFrom for the submission ring ...
LEMMA SqSlotFrom ==
  ASSUME NEW x \in Index, NEW y \in Index, NEW k \in Int
  PROVE  SqSlot(x + k) = SqSlot(y + (Minus(x, y) + k))
  BY SlotFrom, RingAssumption DEF SqSlot

\* ... and for the completion ring.
LEMMA CqSlotFrom ==
  ASSUME NEW x \in Index, NEW y \in Index
  PROVE  CqSlot(x) = CqSlot(y + Minus(x, y))
<1>1. (x + 0) % CqEntries = (y + (Minus(x, y) + 0)) % CqEntries
  BY SlotFrom, RingAssumption
<1>2. Minus(x, y) \in Int /\ x \in Int
  BY MinusValue, Widths DEF Index
<1> QED
  BY <1>1, <1>2 DEF CqSlot

\* SlotsDiffer for the submission ring ...
LEMMA SqSlotsDiffer ==
  ASSUME NEW x \in Index, NEW j \in SqSlots, NEW k \in SqSlots,
         SqSlot(x + j) = SqSlot(x + k)
  PROVE  j = k
  BY SlotsDiffer, RingAssumption DEF SqSlot, SqSlots

\* ... and for the completion ring.
LEMMA CqSlotsDiffer ==
  ASSUME NEW x \in Index, NEW j \in CqSlots, NEW k \in CqSlots,
         CqSlot(x + j) = CqSlot(x + k)
  PROVE  j = k
  BY SlotsDiffer, RingAssumption DEF CqSlot, CqSlots

\* uring_init establishes the invariant.
LEMMA RingInit == uring_init => UringInv
<1> SUFFICES ASSUME uring_init PROVE UringInv
  OBVIOUS
<1> USE DEF uring_init
<1>1. 0 \in Index /\ Minus(0, 0) = 0
  BY Widths, MinusValue DEF Index
<1>2. UringTypeOK
  BY <1>1, Widths DEF UringTypeOK, SqSlots, CqSlots, SqeContent
<1>3. SqWindow /\ Published = 0 /\ Unpublished = 0 /\ Posted = 0
  BY <1>1, Widths DEF SqWindow, Published, Unpublished, Posted
<1>4. KernelReadsFilled
  BY <1>3 DEF KernelReadsFilled
<1>5. SubmitsWhatIsThere
  BY DEF SubmitsWhatIsThere, InEnter
<1>6. CqWindow
  BY <1>3, Widths DEF CqWindow
<1> QED
  BY <1>2, <1>3, <1>4, <1>5, <1>6 DEF UringInv

\* What the invariant says about the distances between the cursors.
LEMMA Distances ==
  ASSUME UringTypeOK
  PROVE  /\ Published \in Nat /\ Published < Modulus
         /\ Unpublished \in Nat /\ Unpublished < Modulus
         /\ Posted \in Nat /\ Posted < Modulus
         /\ Minus(sq_list_tail, sq_head) \in Nat
<1>1. /\ Published \in Index /\ Unpublished \in Index /\ Posted \in Index
      /\ Minus(sq_list_tail, sq_head) \in Index
  BY MinusValue DEF UringTypeOK, Published, Unpublished, Posted
<1> QED
  BY <1>1, Widths DEF Index

\* Filling in an SQE touches no SQE that waits for the kernel.
LEMMA SubmissionStep ==
  ASSUME UringInv, NEW s \in Sqe, uring_new_submission(s)
  PROVE  UringInv'
<1> USE DEF uring_new_submission, sq_vars, cq_vars, kernel_vars
<1>1. UringTypeOK /\ SqWindow /\ KernelReadsFilled /\ SubmitsWhatIsThere /\ CqWindow
  BY DEF UringInv
<1> DEFINE d == Minus(sq_list_tail, sq_head)
<1>2. d \in Nat /\ Published \in Nat /\ Unpublished \in Nat
      /\ d = Published + Unpublished /\ d <= Entries /\ sq_list_head = sq_tail
  BY <1>1, Distances DEF SqWindow
<1>3. sq_list_tail' \in Index
  BY <1>1, IncValue DEF UringTypeOK
<1>4. Minus(sq_list_tail, sq_head)' = d + 1 /\ d + 1 <= Entries
  <2>1. d + 1 < Modulus
    BY <1>2, Widths
  <2>2. Minus(Inc(sq_list_tail), sq_head) = d + 1
    BY <1>1, <2>1, MinusIncLeft DEF UringTypeOK
  <2> QED
    BY <2>2 DEF HasRoom
<1>5. Unpublished' = Unpublished + 1 /\ Published' = Published /\ Posted' = Posted
  <2>1. Unpublished + 1 < Modulus
    BY <1>2, Widths
  <2> QED
    BY <1>1, <2>1, MinusIncLeft DEF UringTypeOK, Unpublished, Published, Posted
<1>6. UringTypeOK'
  BY <1>1, <1>3, SqSlotType DEF UringTypeOK, SqeContent, Index
<1>7. SqWindow'
  BY <1>2, <1>4, <1>5, Widths DEF SqWindow
<1>8. KernelReadsFilled'
  <2>1. ASSUME NEW k \in 0 .. (Published - 1)
        PROVE  sq_array[SqSlot(sq_head + k)] = SqSlot(sq_head + k)
    BY <1>1 DEF KernelReadsFilled
  <2>2. ASSUME NEW k \in 0 .. (Published + Unpublished)
        PROVE  sqes'[SqSlot(sq_head + k)] \in Sqe
    <3>1. sqes \in [SqSlots -> SqeContent] /\ sq_head + k \in Int
          /\ SqSlot(sq_head + k) \in SqSlots
      BY <1>1, <1>2, SqSlotType DEF UringTypeOK, Index
    <3>2. CASE k < Published + Unpublished
      <4>1. sqes[SqSlot(sq_head + k)] \in Sqe
        BY <1>1, <1>2, <3>2 DEF KernelReadsFilled
      <4> QED
        BY <3>1, <4>1
    <3>3. CASE k = Published + Unpublished
      <4>1. SqSlot(sq_list_tail) = SqSlot(sq_head + k)
        <5>1. SqSlot(sq_list_tail + 0) = SqSlot(sq_head + (d + 0))
          BY <1>1, SqSlotFrom DEF UringTypeOK
        <5> QED
          BY <1>1, <1>2, <3>3, <5>1, Widths DEF UringTypeOK, Index
      <4> QED
        BY <3>1, <4>1
    <3> QED
      BY <1>2, <3>2, <3>3
  <2> QED
    BY <1>2, <1>5, <2>1, <2>2 DEF KernelReadsFilled
<1>9. SubmitsWhatIsThere'
  BY <1>1, <1>5 DEF SubmitsWhatIsThere, InEnter
<1>10. CqWindow'
  BY <1>1, <1>5 DEF CqWindow
<1> QED
  BY <1>6, <1>7, <1>8, <1>9, <1>10 DEF UringInv

\* Flushing pairs every array position it hands over with the slot of the
\* SQE at that position, and leaves the positions handed over before alone.
LEMMA WaitStep ==
  ASSUME UringInv, uring_wait
  PROVE  UringInv'
<1> USE DEF uring_wait, cq_vars
<1>1. UringTypeOK /\ SqWindow /\ KernelReadsFilled /\ CqWindow
  BY DEF UringInv
<1> DEFINE P == Published
           U == Unpublished
<1>2. P \in Nat /\ U \in Nat /\ P + U <= Entries /\ sq_list_head = sq_tail
      /\ Minus(sq_list_tail, sq_head) = P + U
  BY <1>1, Distances DEF SqWindow
<1>3. sq_tail' = sq_list_tail
  BY <1>1, <1>2, PlusMinus DEF flush_sq, Unpublished, UringTypeOK
<1>4. Published' = P + U /\ Unpublished' = 0 /\ Posted' = Posted
  <2>1. Minus(sq_list_tail, sq_list_tail) = 0
    BY <1>1, MinusValue, Widths DEF UringTypeOK, Index
  <2> QED
    BY <1>2, <1>3, <2>1 DEF flush_sq, Published, Unpublished, Posted
<1>5. sq_array' = [s \in SqSlots |->
                     IF (s - sq_tail) % Entries < U
                       THEN SqSlot(sq_list_head + ((s - sq_tail) % Entries))
                       ELSE sq_array[s]]
  BY DEF flush_sq, FlushedSlot
<1>6. UringTypeOK'
  <2>1. sq_array' \in [SqSlots -> SqSlots]
    <3>1. ASSUME NEW s \in SqSlots
          PROVE  SqSlot(sq_list_head + ((s - sq_tail) % Entries)) \in SqSlots
      <4>1. s - sq_tail \in Int /\ sq_list_head \in Int
        BY <1>1, Widths DEF UringTypeOK, Index, SqSlots
      <4>2. (s - sq_tail) % Entries \in Int
        BY <4>1, Widths, DivMod
      <4> QED
        BY <4>1, <4>2, SqSlotType
    <3> QED
      BY <1>1, <1>5, <3>1 DEF UringTypeOK
  <2>2. to_submit' \in 0 .. Entries
    BY <1>2, <1>3, Widths DEF flush_sq, Submitted
  <2> QED
    BY <1>1, <1>3, <2>1, <2>2 DEF UringTypeOK, flush_sq
<1>7. SqWindow'
  BY <1>2, <1>3, <1>4, Widths DEF SqWindow, flush_sq
<1>8. KernelReadsFilled'
  <2>1. ASSUME NEW k \in 0 .. (P + U - 1)
        PROVE  sq_array'[SqSlot(sq_head + k)] = SqSlot(sq_head + k)
    <3> DEFINE s == SqSlot(sq_head + k)
               j == (s - sq_tail) % Entries
    <3>1. k \in 0 .. (Entries - 1) /\ P <= Entries /\ sq_head \in Index
          /\ sq_tail \in Index
      BY <1>1, <1>2, Widths DEF UringTypeOK
    <3>2. sq_head + k \in Int /\ s \in SqSlots
      <4>1. sq_head + k \in Int
        BY <3>1, Widths DEF Index
      <4> QED
        BY <4>1, SqSlotType
    <3>3. j = (IF k >= P THEN k - P ELSE k - P + Entries)
      BY <3>1, SlotDistance, RingAssumption DEF SqSlot, Published
    <3>4. CASE k >= P
      <4>1. j = k - P /\ j < U /\ j \in Int
        BY <1>2, <3>3, <3>4
      <4>2. sq_array'[s] = SqSlot(sq_tail + j)
        BY <1>2, <1>5, <3>2, <4>1
      <4>3. SqSlot(sq_tail + j) = SqSlot(sq_head + (P + j))
        BY <3>1, <4>1, SqSlotFrom DEF Published
      <4>4. P + j = k
        BY <1>2, <4>1
      <4> QED
        BY <4>2, <4>3, <4>4
    <3>5. CASE ~(k >= P)
      <4>1. ~(j < U)
        BY <1>2, <3>1, <3>3, <3>5, Widths
      <4>2. sq_array'[s] = sq_array[s]
        BY <1>5, <3>2, <4>1
      <4>3. k \in 0 .. (P - 1)
        BY <1>2, <3>5
      <4> QED
        BY <1>1, <4>2, <4>3 DEF KernelReadsFilled
    <3> QED
      BY <3>4, <3>5
  <2>2. \A k \in 0 .. (P + U - 1) : sqes[SqSlot(sq_head + k)] \in Sqe
    BY <1>1 DEF KernelReadsFilled
  <2>3. UNCHANGED <<sq_head, sqes>>
    BY DEF flush_sq
  <2>4. Published' - 1 = P + U - 1 /\ Published' + Unpublished' - 1 = P + U - 1
    BY <1>2, <1>4
  <2>5. \A k \in 0 .. (Published' - 1) :
          sq_array'[SqSlot(sq_head' + k)] = SqSlot(sq_head' + k)
    BY <2>1, <2>3, <2>4
  <2>6. \A k \in 0 .. (Published' + Unpublished' - 1) :
          sqes'[SqSlot(sq_head' + k)] \in Sqe
    BY <2>2, <2>3, <2>4
  <2> QED
    BY <2>5, <2>6 DEF KernelReadsFilled
<1>9. SubmitsWhatIsThere'
  BY DEF SubmitsWhatIsThere, Published, flush_sq, Submitted
<1>10. CqWindow'
  BY <1>1, <1>4 DEF CqWindow
<1> QED
  BY <1>6, <1>7, <1>8, <1>9, <1>10 DEF UringInv

\* Reading an SQE moves the window by one; the slots stay where they are.
LEMMA StartStep ==
  ASSUME UringInv, KernelStart
  PROVE  UringInv'
<1> USE DEF KernelStart, cq_vars
<1>1. UringTypeOK /\ SqWindow /\ KernelReadsFilled /\ SubmitsWhatIsThere /\ CqWindow
  BY DEF UringInv
<1> DEFINE P == Published
           U == Unpublished
<1>2. P \in Nat /\ U \in Nat /\ P + U <= Entries /\ P > 0 /\ to_submit = P
      /\ sq_list_head = sq_tail /\ Minus(sq_list_tail, sq_head) = P + U
  BY <1>1, Distances DEF SqWindow, SubmitsWhatIsThere
<1>3. sq_head' \in Index
  BY <1>1, IncValue DEF UringTypeOK
<1>4. Published' = P - 1 /\ Unpublished' = U /\ Posted' = Posted
      /\ Minus(sq_list_tail, sq_head)' = P + U - 1
  <2>1. Minus(sq_tail, Inc(sq_head)) = P - 1
    BY <1>1, <1>2, MinusIncRight DEF UringTypeOK, Published
  <2>2. Minus(sq_list_tail, Inc(sq_head)) = P + U - 1
    BY <1>1, <1>2, MinusIncRight DEF UringTypeOK
  <2> QED
    BY <2>1, <2>2 DEF Published, Unpublished, Posted
<1>5. UringTypeOK'
  <2>1. inflight' \in [SqeContent -> Nat]
    <3> DEFINE s == sqes[sq_array[SqSlot(sq_head)]]
    <3>1. inflight' = [inflight EXCEPT ![s] = inflight[s] + 1]
      OBVIOUS
    <3>2. s \in SqeContent
      <4>1. SqSlot(sq_head) \in SqSlots
        BY <1>1, SqSlotType DEF UringTypeOK, Index
      <4> QED
        BY <1>1, <4>1 DEF UringTypeOK
    <3> HIDE DEF s
    <3> QED
      BY <1>1, <3>1, <3>2 DEF UringTypeOK
  <2>2. to_submit' \in 0 .. Entries
    BY <1>2, Widths
  <2> QED
    BY <1>1, <1>3, <2>1, <2>2 DEF UringTypeOK
<1>6. SqWindow'
  BY <1>2, <1>4, Widths DEF SqWindow
<1>7. KernelReadsFilled'
  <2>1. ASSUME NEW k \in Nat
        PROVE  SqSlot(sq_head' + k) = SqSlot(sq_head + (k + 1))
    BY <1>1, SqSlotInc DEF UringTypeOK
  <2>2. ASSUME NEW k \in 0 .. (P - 1 - 1)
        PROVE  sq_array[SqSlot(sq_head' + k)] = SqSlot(sq_head' + k)
    <3>1. k + 1 \in 0 .. (P - 1) /\ k \in Nat
      BY <1>2
    <3> QED
      BY <1>1, <2>1, <3>1 DEF KernelReadsFilled
  <2>3. ASSUME NEW k \in 0 .. (P - 1 + U - 1)
        PROVE  sqes[SqSlot(sq_head' + k)] \in Sqe
    <3>1. k + 1 \in 0 .. (P + U - 1) /\ k \in Nat
      BY <1>2
    <3> QED
      BY <1>1, <2>1, <3>1 DEF KernelReadsFilled
  <2> QED
    BY <1>2, <1>4, <2>2, <2>3 DEF KernelReadsFilled
<1>8. SubmitsWhatIsThere'
  BY <1>2, <1>4 DEF SubmitsWhatIsThere
<1>9. CqWindow'
  BY <1>1, <1>4 DEF CqWindow
<1> QED
  BY <1>5, <1>6, <1>7, <1>8, <1>9 DEF UringInv

\* Posting fills the slot behind the last CQE, which nobody is to read yet.
LEMMA PostStep ==
  ASSUME UringInv, NEW s \in Sqe, NEW r \in Res, KernelPost(s, r)
  PROVE  UringInv'
<1> USE DEF KernelPost, sq_vars
<1>1. UringTypeOK /\ SqWindow /\ KernelReadsFilled /\ SubmitsWhatIsThere /\ CqWindow
  BY DEF UringInv
<1>2. Posted \in Nat /\ Posted < CqEntries
  BY <1>1, Distances
<1>3. cq_tail' \in Index
  BY <1>1, IncValue DEF UringTypeOK
<1>4. Published' = Published /\ Unpublished' = Unpublished /\ Posted' = Posted + 1
  <2>1. Posted + 1 < Modulus
    BY <1>2, Widths
  <2> QED
    BY <1>1, <2>1, MinusIncLeft DEF UringTypeOK, Published, Unpublished, Posted
<1> DEFINE c == [user_data |-> s, res |-> r]
<1>5. c \in Cqe
  BY DEF Cqe
<1>6. UringTypeOK'
  <2>1. inflight' \in [SqeContent -> Nat]
    BY <1>1 DEF UringTypeOK, SqeContent
  <2>2. cqes' \in [CqSlots -> Cqe \cup {NoCqe}]
    BY <1>1, <1>5 DEF UringTypeOK
  <2> QED
    BY <1>1, <1>3, <2>1, <2>2 DEF UringTypeOK
<1>7. CqWindow'
  <2>1. ASSUME NEW k \in 0 .. Posted
        PROVE  cqes'[CqSlot(cq_head + k)] \in Cqe
    <3>1. cqes \in [CqSlots -> Cqe \cup {NoCqe}] /\ CqSlot(cq_head + k) \in CqSlots
      BY <1>1, <1>2, CqSlotType DEF UringTypeOK, Index
    <3>2. CASE k < Posted
      <4>1. cqes[CqSlot(cq_head + k)] \in Cqe
        BY <1>1, <1>2, <3>2 DEF CqWindow
      <4> QED
        BY <1>5, <3>1, <4>1
    <3>3. CASE k = Posted
      <4>1. CqSlot(cq_tail) = CqSlot(cq_head + k)
        BY <1>1, <3>3, CqSlotFrom DEF UringTypeOK, Posted
      <4> QED
        BY <1>5, <3>1, <4>1
    <3> QED
      BY <1>2, <3>2, <3>3
  <2>2. Posted' <= CqEntries /\ 0 .. (Posted' - 1) = 0 .. Posted
    BY <1>2, <1>4, Widths
  <2>3. cq_head' = cq_head
    OBVIOUS
  <2> QED
    BY <2>1, <2>2, <2>3 DEF CqWindow
<1>8. SqWindow' /\ KernelReadsFilled' /\ SubmitsWhatIsThere'
  BY <1>1, <1>4 DEF SqWindow, KernelReadsFilled, SubmitsWhatIsThere, InEnter
<1> QED
  BY <1>6, <1>7, <1>8 DEF UringInv

\* Releasing a CQE moves the window by one.
LEMMA AdvanceStep ==
  ASSUME UringInv, CqReady, uring_advance
  PROVE  UringInv'
<1> USE DEF uring_advance, sq_vars, kernel_vars
<1>1. UringTypeOK /\ SqWindow /\ KernelReadsFilled /\ SubmitsWhatIsThere /\ CqWindow
  BY DEF UringInv
<1>2. Posted \in Nat /\ Posted > 0
  <2>1. Minus(cq_tail, cq_head) # 0
    <3>1. cq_tail \in Index /\ cq_head \in Index /\ cq_tail # cq_head
      BY <1>1 DEF UringTypeOK, CqReady
    <3>2. Minus(cq_tail, cq_head) = (IF cq_tail >= cq_head
                                       THEN cq_tail - cq_head
                                       ELSE cq_tail - cq_head + Modulus)
      BY <3>1, MinusValue
    <3> QED
      BY <3>1, <3>2, Widths DEF Index
  <2> QED
    BY <1>1, <2>1, Distances DEF Posted
<1>3. cq_head' \in Index
  BY <1>1, IncValue DEF UringTypeOK
<1>4. Published' = Published /\ Unpublished' = Unpublished /\ Posted' = Posted - 1
  BY <1>1, <1>2, MinusIncRight DEF UringTypeOK, Published, Unpublished, Posted
<1>5. UringTypeOK'
  BY <1>1, <1>3 DEF UringTypeOK
<1>6. CqWindow'
  <2>1. ASSUME NEW k \in 0 .. (Posted - 1 - 1)
        PROVE  cqes[CqSlot(cq_head' + k)] \in Cqe
    <3>1. k + 1 \in 0 .. (Posted - 1) /\ k \in Nat
      BY <1>2
    <3>2. CqSlot(cq_head' + k) = CqSlot(cq_head + (k + 1))
      BY <1>1, <3>1, CqSlotInc DEF UringTypeOK
    <3> QED
      BY <1>1, <3>1, <3>2 DEF CqWindow
  <2>2. Posted' <= CqEntries
    BY <1>1, <1>2, <1>4, Widths DEF CqWindow
  <2> QED
    BY <1>4, <2>1, <2>2 DEF CqWindow
<1>7. SqWindow' /\ KernelReadsFilled' /\ SubmitsWhatIsThere'
  BY <1>1, <1>4 DEF SqWindow, KernelReadsFilled, SubmitsWhatIsThere, InEnter
<1> QED
  BY <1>5, <1>6, <1>7 DEF UringInv

\* io_uring_enter returning, early or not, or failing moves no cursor.
LEMMA LeaveStep ==
  ASSUME UringInv, EnterShort \/ EnterReturn \/ EnterError
  PROVE  UringInv'
<1> USE DEF EnterShort, EnterReturn, EnterError, sq_vars, cq_vars
<1>1. UringTypeOK /\ SqWindow /\ KernelReadsFilled /\ CqWindow
  BY DEF UringInv
<1>2. Published' = Published /\ Unpublished' = Unpublished /\ Posted' = Posted
  BY DEF Published, Unpublished, Posted
<1>3. UringTypeOK'
  BY <1>1, Widths DEF UringTypeOK
<1>4. SqWindow' /\ KernelReadsFilled' /\ CqWindow'
  BY <1>1, <1>2 DEF SqWindow, KernelReadsFilled, CqWindow
<1>5. SubmitsWhatIsThere'
  BY DEF SubmitsWhatIsThere, InEnter
<1> QED
  BY <1>3, <1>4, <1>5 DEF UringInv

\* No step of the ring breaks the invariant.
LEMMA RingStep == UringInv /\ [UringNext]_ring_vars => UringInv'
<1> SUFFICES ASSUME UringInv, [UringNext]_ring_vars PROVE UringInv'
  OBVIOUS
<1>1. ASSUME NEW s \in Sqe, uring_new_submission(s) PROVE UringInv'
  BY <1>1, SubmissionStep
<1>2. CASE uring_wait
  BY <1>2, WaitStep
<1>3. CASE CqReady /\ uring_advance
  BY <1>3, AdvanceStep
<1>4. CASE KernelStart
  BY <1>4, StartStep
<1>5. CASE EnterShort \/ EnterReturn \/ EnterError
  BY <1>5, LeaveStep
<1>6. ASSUME NEW s \in Sqe, NEW r \in Res, KernelPost(s, r) PROVE UringInv'
  BY <1>6, PostStep
<1>7. CASE UNCHANGED ring_vars
  BY <1>7 DEF ring_vars, sq_vars, cq_vars, kernel_vars, UringInv, UringTypeOK,
    SqWindow, KernelReadsFilled, SubmitsWhatIsThere, InEnter, CqWindow,
    Published, Unpublished, Posted
<1> QED
  BY <1>1, <1>2, <1>3, <1>4, <1>5, <1>6, <1>7 DEF UringNext

-----------------------------------------------------------------------------
(* The two windows as queues: what a step puts in and takes out.           *)

QueueLength == Minus(sq_list_tail, sq_head)
RequestAt(k) == sqes[SqSlot(sq_head + k)]
ResultAt(k) == cqes[CqSlot(cq_head + k)]

\* uring_new_submission puts its request behind the others.
LEMMA SubmissionQueue ==
  ASSUME UringInv, NEW s \in Sqe, uring_new_submission(s)
  PROVE  /\ QueueLength \in Nat /\ QueueLength < Entries
         /\ QueueLength' = QueueLength + 1
         /\ \A k \in 0 .. (QueueLength - 1) : RequestAt(k)' = RequestAt(k)
         /\ \A k \in {QueueLength} : RequestAt(k)' = s
         /\ UNCHANGED <<cq_head, cq_tail, cqes, inflight>>
<1> USE DEF uring_new_submission, cq_vars, kernel_vars
<1>1. UringTypeOK
  BY DEF UringInv
<1> DEFINE d == Minus(sq_list_tail, sq_head)
<1>2. d \in Nat /\ d <= Entries
  BY <1>1, Distances DEF UringInv, SqWindow
<1>3. Minus(Inc(sq_list_tail), sq_head) = d + 1 /\ d + 1 <= Entries
  <2>1. d + 1 < Modulus
    BY <1>2, Widths
  <2>2. Minus(Inc(sq_list_tail), sq_head) = d + 1
    BY <1>1, <2>1, MinusIncLeft DEF UringTypeOK
  <2> QED
    BY <2>2 DEF HasRoom
<1>4. SqSlot(sq_list_tail) = SqSlot(sq_head + d)
  <2>1. SqSlot(sq_list_tail + 0) = SqSlot(sq_head + (d + 0))
    BY <1>1, SqSlotFrom DEF UringTypeOK
  <2> QED
    BY <1>1, <1>2, <2>1, Widths DEF UringTypeOK, Index
<1>5. sqes' = [sqes EXCEPT ![SqSlot(sq_head + d)] = s] /\ sq_head' = sq_head
  BY <1>4
<1>6. sqes \in [SqSlots -> SqeContent] /\ sq_head \in Index
  BY <1>1 DEF UringTypeOK
<1>7. ASSUME NEW k \in 0 .. d
      PROVE  /\ SqSlot(sq_head + k) \in SqSlots /\ k \in SqSlots
             /\ SqSlot(sq_head + k) = SqSlot(sq_head + d) => k = d
  <2>1. k \in SqSlots /\ d \in SqSlots /\ sq_head + k \in Int
    BY <1>2, <1>3, <1>6, Widths DEF SqSlots, Index
  <2> QED
    BY <1>6, <2>1, SqSlotType, SqSlotsDiffer
<1>8. ASSUME NEW k \in 0 .. (d - 1)
      PROVE  sqes'[SqSlot(sq_head' + k)] = sqes[SqSlot(sq_head + k)]
  <2>1. k \in 0 .. d /\ k # d
    BY <1>2
  <2>2. SqSlot(sq_head + k) \in SqSlots /\ SqSlot(sq_head + k) # SqSlot(sq_head + d)
    BY <1>7, <2>1
  <2> QED
    BY <1>5, <1>6, <2>2
<1>9. sqes'[SqSlot(sq_head' + d)] = s
  <2>1. SqSlot(sq_head + d) \in SqSlots
    BY <1>2, <1>7
  <2> QED
    BY <1>5, <1>6, <2>1
<1> QED
  BY <1>2, <1>3, <1>8, <1>9, Widths DEF QueueLength, RequestAt

\* The kernel takes the oldest request.
LEMMA StartQueue ==
  ASSUME UringInv, KernelStart
  PROVE  /\ QueueLength \in Nat \ {0} /\ QueueLength' = QueueLength - 1
         /\ \A k \in 0 .. (QueueLength - 2) : RequestAt(k)' = RequestAt(k + 1)
         /\ RequestAt(0) \in Sqe
         /\ sqes[sq_array[SqSlot(sq_head)]] = RequestAt(0)
         /\ inflight' = [inflight EXCEPT ![RequestAt(0)] = inflight[RequestAt(0)] + 1]
         /\ UNCHANGED <<cq_head, cq_tail, cqes>>
<1> USE DEF KernelStart, cq_vars
<1>1. UringTypeOK /\ SqWindow /\ KernelReadsFilled /\ SubmitsWhatIsThere
  BY DEF UringInv
<1>2. Published \in Nat /\ Unpublished \in Nat /\ Published > 0
      /\ Minus(sq_list_tail, sq_head) = Published + Unpublished /\ sq_head \in Index
  BY <1>1, Distances DEF SqWindow, SubmitsWhatIsThere, UringTypeOK
<1>3. Minus(sq_list_tail, Inc(sq_head)) = Minus(sq_list_tail, sq_head) - 1
  BY <1>1, <1>2, MinusIncRight DEF UringTypeOK
<1>4. ASSUME NEW k \in Nat
      PROVE  SqSlot(sq_head' + k) = SqSlot(sq_head + (k + 1))
  BY <1>2, SqSlotInc
<1>5. sq_head + 0 = sq_head
  BY <1>2, Widths DEF Index
<1>6. sq_array[SqSlot(sq_head + 0)] = SqSlot(sq_head + 0) /\ sqes[SqSlot(sq_head + 0)] \in Sqe
  BY <1>1, <1>2 DEF KernelReadsFilled
<1>7. inflight' = [inflight EXCEPT ![sqes[SqSlot(sq_head + 0)]] = inflight[sqes[SqSlot(sq_head + 0)]] + 1]
  BY <1>5, <1>6
<1>8. sqes' = sqes /\ sq_list_tail' = sq_list_tail /\ sq_head' = Inc(sq_head)
  OBVIOUS
<1>9. ASSUME NEW k \in 0 .. (Minus(sq_list_tail, sq_head) - 2)
      PROVE  sqes'[SqSlot(sq_head' + k)] = sqes[SqSlot(sq_head + (k + 1))]
  BY <1>4, <1>8
<1>10. QueueLength \in Nat \ {0} /\ QueueLength' = QueueLength - 1
  BY <1>2, <1>3, <1>8 DEF QueueLength
<1>11. \A k \in 0 .. (QueueLength - 2) : RequestAt(k)' = RequestAt(k + 1)
  BY <1>9 DEF QueueLength, RequestAt
<1> QED
  BY <1>5, <1>6, <1>7, <1>10, <1>11 DEF RequestAt

\* The kernel posts its result behind the others.
LEMMA PostQueue ==
  ASSUME UringInv, NEW s \in Sqe, NEW r \in Res, KernelPost(s, r)
  PROVE  /\ Posted \in Nat /\ Posted < CqEntries /\ Posted' = Posted + 1
         /\ \A k \in 0 .. (Posted - 1) : ResultAt(k)' = ResultAt(k)
         /\ \A k \in {Posted} : ResultAt(k)' = [user_data |-> s, res |-> r]
         /\ UNCHANGED <<sq_head, sq_list_tail, sqes>>
<1> USE DEF KernelPost, sq_vars
<1>1. UringTypeOK
  BY DEF UringInv
<1>2. Posted \in Nat /\ Posted < CqEntries /\ cq_head \in Index
  BY <1>1, Distances DEF UringTypeOK
<1>3. Posted' = Posted + 1
  <2>1. Posted + 1 < Modulus
    BY <1>2, Widths
  <2> QED
    BY <1>1, <2>1, MinusIncLeft DEF UringTypeOK, Posted
<1> DEFINE c == [user_data |-> s, res |-> r]
           d == Posted
<1>4. cqes' = [cqes EXCEPT ![CqSlot(cq_head + d)] = c] /\ cq_head' = cq_head
  BY <1>1, CqSlotFrom DEF UringTypeOK, Posted
<1>5. cqes \in [CqSlots -> Cqe \cup {NoCqe}]
  BY <1>1 DEF UringTypeOK
<1>6. ASSUME NEW k \in 0 .. d
      PROVE  /\ CqSlot(cq_head + k) \in CqSlots
             /\ CqSlot(cq_head + k) = CqSlot(cq_head + d) => k = d
  <2>1. k \in CqSlots /\ d \in CqSlots /\ cq_head + k \in Int
    BY <1>2, Widths DEF CqSlots, Index
  <2> QED
    BY <1>2, <2>1, CqSlotType, CqSlotsDiffer
<1> HIDE DEF c, d
<1>7. d = Posted
  BY DEF d
<1>8. ASSUME NEW k \in 0 .. (d - 1)
      PROVE  cqes'[CqSlot(cq_head' + k)] = cqes[CqSlot(cq_head + k)]
  <2>1. k \in 0 .. d /\ k # d
    BY <1>2, <1>7
  <2>2. CqSlot(cq_head + k) \in CqSlots /\ CqSlot(cq_head + k) # CqSlot(cq_head + d)
    BY <1>6, <2>1
  <2> QED
    BY <1>4, <1>5, <2>2
<1>9. cqes'[CqSlot(cq_head' + d)] = c
  <2>1. CqSlot(cq_head + d) \in CqSlots
    BY <1>2, <1>6, <1>7
  <2> QED
    BY <1>4, <1>5, <2>1
<1> QED
  BY <1>2, <1>3, <1>7, <1>8, <1>9 DEF ResultAt, c

\* The caller releases the oldest result.
LEMMA AdvanceQueue ==
  ASSUME UringInv, CqReady, uring_advance
  PROVE  /\ Posted \in Nat \ {0} /\ Posted' = Posted - 1
         /\ \A k \in 0 .. (Posted - 2) : ResultAt(k)' = ResultAt(k + 1)
         /\ UNCHANGED <<sq_head, sq_list_tail, sqes, inflight>>
<1> USE DEF uring_advance, sq_vars, kernel_vars
<1>1. UringTypeOK
  BY DEF UringInv
<1>2. Posted \in Nat /\ Posted > 0
  <2>1. cq_tail \in Index /\ cq_head \in Index /\ cq_tail # cq_head
    BY <1>1 DEF UringTypeOK, CqReady
  <2>2. Minus(cq_tail, cq_head) = (IF cq_tail >= cq_head
                                     THEN cq_tail - cq_head
                                     ELSE cq_tail - cq_head + Modulus)
    BY <2>1, MinusValue
  <2> QED
    BY <1>1, <2>1, <2>2, Distances, Widths DEF Posted, Index
<1>3. Posted' = Posted - 1
  BY <1>1, <1>2, MinusIncRight DEF UringTypeOK, Posted
<1>4. ASSUME NEW k \in 0 .. (Posted - 2)
      PROVE  cqes'[CqSlot(cq_head' + k)] = cqes[CqSlot(cq_head + (k + 1))]
  BY <1>1, CqSlotInc DEF UringTypeOK
<1> QED
  BY <1>2, <1>3, <1>4 DEF ResultAt

-----------------------------------------------------------------------------
(* The refinement: the windows, read as sequences, are the channel.        *)

\* A sequence with one element more at its end.
LEMMA SeqAppend ==
  ASSUME NEW S, NEW n \in Nat, NEW p \in [1 .. n -> S], NEW q \in [1 .. (n + 1) -> S],
         \A k \in 1 .. n : q[k] = p[k]
  PROVE  Len(p) = n /\ q = Append(p, q[n + 1])
<1>1. p \in Seq(S) /\ Len(p) = n
  OBVIOUS
<1>2. q \in Seq(S) /\ Len(q) = n + 1
  OBVIOUS
<1> QED
  BY <1>1, <1>2

\* A sequence without its first element.
LEMMA SeqTail ==
  ASSUME NEW S, NEW n \in Nat \ {0}, NEW p \in [1 .. n -> S],
         NEW q \in [1 .. (n - 1) -> S], \A k \in 1 .. (n - 1) : q[k] = p[k + 1]
  PROVE  p # <<>> /\ Head(p) = p[1] /\ q = Tail(p)
<1>1. p \in Seq(S) /\ Len(p) = n /\ p # <<>>
  OBVIOUS
<1>2. q \in Seq(S) /\ Len(q) = n - 1
  OBVIOUS
<1>3. /\ Tail(p) \in Seq(S) /\ Len(Tail(p)) = n - 1
      /\ \A k \in 1 .. (n - 1) : Tail(p)[k] = p[k + 1]
  BY <1>1
<1> QED
  BY <1>1, <1>2, <1>3, SeqEqual

\* A sequence of no elements.
LEMMA SeqEmpty ==
  ASSUME NEW S, NEW p \in [1 .. 0 -> S]
  PROVE  p = <<>>
<1>1. p \in Seq(S) /\ Len(p) = 0
  OBVIOUS
<1> QED
  BY <1>1, EmptySeq

\* The values that UringChannel's variables have.
Pending == [k \in 1 .. (Published + Unpublished) |-> PendingAt(k)]
Working == [s \in Sqe |-> inflight[s]]
Done == [k \in 1 .. Posted |-> cqes[CqSlot(cq_head + k - 1)]]

PendingMapped ==
  /\ QueueLength \in Nat
  /\ Pending \in [1 .. QueueLength -> Sqe]
  /\ \A k \in 1 .. QueueLength : Pending[k] = RequestAt(k - 1)

DoneMapped ==
  /\ Posted \in Nat
  /\ Done \in [1 .. Posted -> Cqe]
  /\ \A k \in 1 .. Posted : Done[k] = ResultAt(k - 1)

\* Through the index array or not, the requests are those of the window.
LEMMA PendingIsWindow == UringInv => PendingMapped
<1> SUFFICES ASSUME UringInv PROVE PendingMapped
  OBVIOUS
<1>1. UringTypeOK /\ SqWindow /\ KernelReadsFilled
  BY DEF UringInv
<1>2. Published \in Nat /\ Unpublished \in Nat /\ sq_list_head = sq_tail
      /\ Minus(sq_list_tail, sq_head) = Published + Unpublished
      /\ sq_head \in Index /\ sq_tail \in Index /\ sq_head \in Int /\ sq_tail \in Int
  BY <1>1, Distances, Widths DEF SqWindow, UringTypeOK, Index
<1>3. ASSUME NEW k \in 1 .. (Published + Unpublished)
      PROVE  PendingAt(k) = sqes[SqSlot(sq_head + (k - 1))]
             /\ sqes[SqSlot(sq_head + (k - 1))] \in Sqe
  <2>1. k - 1 \in 0 .. (Published + Unpublished - 1)
    BY <1>2
  <2>2. sqes[SqSlot(sq_head + (k - 1))] \in Sqe
    BY <1>1, <2>1 DEF KernelReadsFilled
  <2>3. CASE k <= Published
    <3>1. k - 1 \in 0 .. (Published - 1) /\ sq_head + k - 1 = sq_head + (k - 1)
      BY <1>2, <2>3
    <3>2. sq_array[SqSlot(sq_head + (k - 1))] = SqSlot(sq_head + (k - 1))
      BY <1>1, <3>1 DEF KernelReadsFilled
    <3> QED
      BY <2>2, <2>3, <3>1, <3>2 DEF PendingAt
  <2>4. CASE ~(k <= Published)
    <3> DEFINE j == (k - Published) - 1
    <3>1. j \in Int /\ sq_list_head + (k - Published) - 1 = sq_tail + j
          /\ Published + j = k - 1
      BY <1>2
    <3>2. SqSlot(sq_tail + j) = SqSlot(sq_head + (Published + j))
      BY <1>2, <3>1, SqSlotFrom DEF Published
    <3> QED
      BY <2>2, <2>4, <3>1, <3>2 DEF PendingAt
  <2> QED
    BY <2>3, <2>4
<1> QED
  BY <1>2, <1>3 DEF PendingMapped, Pending, QueueLength, RequestAt

\* The results that can be taken are those of the other window.
LEMMA DoneIsWindow == UringInv => DoneMapped
<1> SUFFICES ASSUME UringInv PROVE DoneMapped
  OBVIOUS
<1>1. Posted \in Nat /\ cq_head \in Int
  BY Distances, Widths DEF UringInv, UringTypeOK, Index
<1>2. ASSUME NEW k \in 1 .. Posted
      PROVE  cqes[CqSlot(cq_head + k - 1)] = cqes[CqSlot(cq_head + (k - 1))]
             /\ cqes[CqSlot(cq_head + (k - 1))] \in Cqe
  <2>1. k - 1 \in 0 .. (Posted - 1) /\ cq_head + k - 1 = cq_head + (k - 1)
    BY <1>1
  <2> QED
    BY <2>1 DEF UringInv, CqWindow
<1> QED
  BY <1>1, <1>2 DEF DoneMapped, Done, ResultAt

\* The rest of a step that leaves one window alone.
LEMMA SameWindows ==
  /\ UringInv /\ UringInv' /\ UNCHANGED <<sq_head, sq_list_tail, sqes>>
       => Pending' = Pending
  /\ UNCHANGED <<cq_head, cq_tail, cqes>> => Done' = Done
  /\ UNCHANGED inflight => Working' = Working
<1>1. ASSUME UNCHANGED <<sq_head, sq_list_tail, sqes>>, UringInv, UringInv'
      PROVE  Pending' = Pending
  <2>1. QueueLength' = QueueLength /\ \A k : RequestAt(k)' = RequestAt(k)
    BY <1>1 DEF QueueLength, RequestAt
  <2>2. PendingMapped /\ PendingMapped'
    BY <1>1, PendingIsWindow, PTL
  <2> QED
    BY <2>1, <2>2 DEF PendingMapped
<1>2. UNCHANGED <<cq_head, cq_tail, cqes>> => Done' = Done
  BY DEF Done, Posted
<1>3. UNCHANGED inflight => Working' = Working
  BY DEF Working
<1> QED
  BY <1>1, <1>2, <1>3

\* Filling in a request sends it.
LEMMA ChannelSubmit ==
  ASSUME UringInv, UringInv', NEW s \in Sqe, uring_new_submission(s)
  PROVE  Channel!Submit(s)
<1>1. /\ QueueLength \in Nat /\ QueueLength < Entries /\ QueueLength' = QueueLength + 1
      /\ \A k \in 0 .. (QueueLength - 1) : RequestAt(k)' = RequestAt(k)
      /\ \A k \in {QueueLength} : RequestAt(k)' = s
      /\ UNCHANGED <<cq_head, cq_tail, cqes, inflight>>
  BY SubmissionQueue
<1>0. PendingMapped /\ PendingMapped'
  BY PendingIsWindow, PTL
<1>2. /\ Pending \in [1 .. QueueLength -> Sqe]
      /\ \A k \in 1 .. QueueLength : Pending[k] = RequestAt(k - 1)
  BY <1>0 DEF PendingMapped
<1>3. /\ Pending' \in [1 .. QueueLength' -> Sqe]
      /\ \A k \in 1 .. QueueLength' : Pending'[k] = RequestAt(k - 1)'
  BY <1>0 DEF PendingMapped
<1>4. ASSUME NEW k \in 1 .. QueueLength PROVE Pending'[k] = Pending[k]
  <2>1. k - 1 \in 0 .. (QueueLength - 1) /\ k \in 1 .. QueueLength'
    BY <1>1
  <2> QED
    BY <1>1, <1>2, <1>3, <2>1
<1>5. Pending'[QueueLength + 1] = s
  <2>1. QueueLength + 1 \in 1 .. QueueLength' /\ (QueueLength + 1) - 1 = QueueLength
    BY <1>1
  <2>2. ASSUME NEW k \in 1 .. QueueLength', k - 1 = QueueLength PROVE Pending'[k] = s
    BY <1>1, <1>3, <2>2
  <2> QED
    BY <2>1, <2>2
<1>6. Len(Pending) = QueueLength /\ Pending' = Append(Pending, Pending'[QueueLength + 1])
  <2>1. Pending' \in [1 .. (QueueLength + 1) -> Sqe]
    BY <1>1, <1>3
  <2> HIDE DEF Pending, QueueLength
  <2> QED
    BY <1>1, <1>2, <1>4, <2>1, SeqAppend
<1>7. Done' = Done /\ Working' = Working
  BY <1>1, SameWindows
<1> QED
  BY <1>1, <1>5, <1>6, <1>7 DEF Channel!Submit, Pending, Done, Working

\* Reading a request starts the oldest one.
LEMMA ChannelStart ==
  ASSUME UringInv, UringInv', KernelStart
  PROVE  Channel!Start
<1>1. /\ QueueLength \in Nat \ {0} /\ QueueLength' = QueueLength - 1
      /\ \A k \in 0 .. (QueueLength - 2) : RequestAt(k)' = RequestAt(k + 1)
      /\ RequestAt(0) \in Sqe
      /\ inflight' = [inflight EXCEPT ![RequestAt(0)] = inflight[RequestAt(0)] + 1]
      /\ UNCHANGED <<cq_head, cq_tail, cqes>>
  BY StartQueue
<1>0. PendingMapped /\ PendingMapped'
  BY PendingIsWindow, PTL
<1>2. /\ Pending \in [1 .. QueueLength -> Sqe]
      /\ \A k \in 1 .. QueueLength : Pending[k] = RequestAt(k - 1)
  BY <1>0 DEF PendingMapped
<1>3. /\ Pending' \in [1 .. QueueLength' -> Sqe]
      /\ \A k \in 1 .. QueueLength' : Pending'[k] = RequestAt(k - 1)'
  BY <1>0 DEF PendingMapped
<1>4. ASSUME NEW k \in 1 .. (QueueLength - 1) PROVE Pending'[k] = Pending[k + 1]
  <2>1. /\ k - 1 \in 0 .. (QueueLength - 2) /\ k \in 1 .. QueueLength'
        /\ k + 1 \in 1 .. QueueLength /\ (k - 1) + 1 = k /\ (k + 1) - 1 = k
    BY <1>1
  <2>2. Pending'[k] = RequestAt(k - 1)' /\ RequestAt(k - 1)' = RequestAt((k - 1) + 1)
    BY <1>1, <1>3, <2>1
  <2>3. Pending[k + 1] = RequestAt((k + 1) - 1)
    BY <1>2, <2>1
  <2> QED
    BY <2>1, <2>2, <2>3
<1>5. Pending # <<>> /\ Head(Pending) = Pending[1] /\ Pending' = Tail(Pending)
  <2>1. Pending' \in [1 .. (QueueLength - 1) -> Sqe]
    BY <1>1, <1>3
  <2> QED
    BY <1>1, <1>2, <1>4, <2>1, SeqTail
<1>6. Pending[1] = RequestAt(0)
  <2>1. 1 \in 1 .. QueueLength /\ 1 - 1 = 0
    BY <1>1
  <2> QED
    BY <1>2, <2>1
<1>7. Working' = [Working EXCEPT ![RequestAt(0)] = Working[RequestAt(0)] + 1]
  <2>1. inflight \in [SqeContent -> Nat] /\ Sqe \subseteq SqeContent
    BY DEF UringInv, UringTypeOK, SqeContent
  <2> HIDE DEF RequestAt
  <2> QED
    BY <1>1, <2>1 DEF Working
<1>8. Done' = Done
  BY <1>1, SameWindows
<1>9. Head(Pending) \in Sqe /\ Working' = [Working EXCEPT ![Head(Pending)] = Working[Head(Pending)] + 1]
  BY <1>1, <1>5, <1>6, <1>7
<1> QED
  BY <1>5, <1>8, <1>9 DEF Channel!Start, Pending, Done, Working

\* Posting a result finishes a request.
LEMMA ChannelFinish ==
  ASSUME UringInv, UringInv', NEW s \in Sqe, NEW r \in Res, KernelPost(s, r)
  PROVE  Channel!Finish(s, r)
<1> DEFINE c == [user_data |-> s, res |-> r]
<1>1. /\ Posted \in Nat /\ Posted < CqEntries /\ Posted' = Posted + 1
      /\ \A k \in 0 .. (Posted - 1) : ResultAt(k)' = ResultAt(k)
      /\ \A k \in {Posted} : ResultAt(k)' = c
      /\ UNCHANGED <<sq_head, sq_list_tail, sqes>>
  BY PostQueue
<1>0. DoneMapped /\ DoneMapped'
  BY DoneIsWindow, PTL
<1>2. Done \in [1 .. Posted -> Cqe] /\ \A k \in 1 .. Posted : Done[k] = ResultAt(k - 1)
  BY <1>0 DEF DoneMapped
<1>3. /\ Done' \in [1 .. Posted' -> Cqe]
      /\ \A k \in 1 .. Posted' : Done'[k] = ResultAt(k - 1)'
  BY <1>0 DEF DoneMapped
<1>4. ASSUME NEW k \in 1 .. Posted PROVE Done'[k] = Done[k]
  <2>1. k - 1 \in 0 .. (Posted - 1) /\ k \in 1 .. Posted'
    BY <1>1
  <2> QED
    BY <1>1, <1>2, <1>3, <2>1
<1>5. Done'[Posted + 1] = c
  <2>1. Posted + 1 \in 1 .. Posted' /\ (Posted + 1) - 1 = Posted
    BY <1>1
  <2>2. ASSUME NEW k \in 1 .. Posted', k - 1 = Posted PROVE Done'[k] = c
    BY <1>1, <1>3, <2>2
  <2> QED
    BY <2>1, <2>2
<1>6. Len(Done) = Posted /\ Done' = Append(Done, Done'[Posted + 1])
  <2>1. Done' \in [1 .. (Posted + 1) -> Cqe]
    BY <1>1, <1>3
  <2> QED
    BY <1>1, <1>2, <1>4, <2>1, SeqAppend
<1>7. Pending' = Pending
  BY <1>1, SameWindows
<1>8. Working[s] > 0 /\ Working' = [Working EXCEPT ![s] = Working[s] - 1]
  <2>1. inflight \in [SqeContent -> Nat] /\ Sqe \subseteq SqeContent
    BY DEF UringInv, UringTypeOK, SqeContent
  <2> QED
    BY <2>1 DEF Working, KernelPost
<1> QED
  BY <1>1, <1>5, <1>6, <1>7, <1>8 DEF Channel!Finish, Pending, Done, Working

\* Releasing a CQE takes the oldest result.
LEMMA ChannelRelease ==
  ASSUME UringInv, UringInv', CqReady, uring_advance
  PROVE  Channel!Release
<1>1. /\ Posted \in Nat \ {0} /\ Posted' = Posted - 1
      /\ \A k \in 0 .. (Posted - 2) : ResultAt(k)' = ResultAt(k + 1)
      /\ UNCHANGED <<sq_head, sq_list_tail, sqes, inflight>>
  BY AdvanceQueue
<1>0. DoneMapped /\ DoneMapped'
  BY DoneIsWindow, PTL
<1>2. Done \in [1 .. Posted -> Cqe] /\ \A k \in 1 .. Posted : Done[k] = ResultAt(k - 1)
  BY <1>0 DEF DoneMapped
<1>3. /\ Done' \in [1 .. Posted' -> Cqe]
      /\ \A k \in 1 .. Posted' : Done'[k] = ResultAt(k - 1)'
  BY <1>0 DEF DoneMapped
<1>4. ASSUME NEW k \in 1 .. (Posted - 1) PROVE Done'[k] = Done[k + 1]
  <2>1. /\ k - 1 \in 0 .. (Posted - 2) /\ k \in 1 .. Posted'
        /\ k + 1 \in 1 .. Posted /\ (k - 1) + 1 = k /\ (k + 1) - 1 = k
    BY <1>1
  <2>2. Done'[k] = ResultAt(k - 1)' /\ ResultAt(k - 1)' = ResultAt((k - 1) + 1)
    BY <1>1, <1>3, <2>1
  <2>3. Done[k + 1] = ResultAt((k + 1) - 1)
    BY <1>2, <2>1
  <2> QED
    BY <2>1, <2>2, <2>3
<1>5. Done # <<>> /\ Done' = Tail(Done)
  <2>1. Done' \in [1 .. (Posted - 1) -> Cqe]
    BY <1>1, <1>3
  <2> QED
    BY <1>1, <1>2, <1>4, <2>1, SeqTail
<1>6. Pending' = Pending /\ Working' = Working
  BY <1>1, SameWindows
<1> QED
  BY <1>5, <1>6 DEF Channel!Release, Pending, Done, Working

\* uring_init gives an empty channel.
LEMMA ChannelInit == uring_init => Channel!Init
<1> SUFFICES ASSUME uring_init PROVE Channel!Init
  OBVIOUS
<1>1. UringInv
  BY RingInit
<1>2. Minus(0, 0) = 0
  BY MinusValue, Widths DEF Index
<1>3. QueueLength = 0 /\ Posted = 0
  BY <1>2 DEF uring_init, QueueLength, Posted
<1>4. Pending = <<>>
  <2>1. Pending \in [1 .. 0 -> Sqe]
    BY <1>1, <1>3, PendingIsWindow DEF PendingMapped
  <2> QED
    BY <2>1, SeqEmpty
<1>5. Done = <<>>
  <2>1. Done \in [1 .. 0 -> Cqe]
    BY <1>1, <1>3, DoneIsWindow DEF DoneMapped
  <2> QED
    BY <2>1, SeqEmpty
<1>6. Working = [s \in Sqe |-> 0]
  BY DEF Working, uring_init, SqeContent
<1> QED
  BY <1>4, <1>5, <1>6 DEF Channel!Init, Pending, Done, Working

\* Every step of the ring is one of the channel's, or none of its business.
LEMMA ChannelStep ==
  UringInv /\ UringInv' /\ [UringNext]_ring_vars => [Channel!Next]_Channel!vars
<1> SUFFICES ASSUME UringInv, UringInv', [UringNext]_ring_vars
             PROVE  [Channel!Next]_Channel!vars
  OBVIOUS
<1>1. ASSUME NEW s \in Sqe, uring_new_submission(s) PROVE Channel!Next
  BY <1>1, ChannelSubmit DEF Channel!Next
<1>2. CASE CqReady /\ uring_advance
  BY <1>2, ChannelRelease DEF Channel!Next
<1>3. CASE KernelStart
  BY <1>3, ChannelStart DEF Channel!Next
<1>4. ASSUME NEW s \in Sqe, NEW r \in Res, KernelPost(s, r) PROVE Channel!Next
  BY <1>4, ChannelFinish DEF Channel!Next
<1>5. ASSUME UNCHANGED <<sq_head, sq_list_tail, sqes, cq_head, cq_tail, cqes, inflight>>
      PROVE  UNCHANGED Channel!vars
  <2>1. Pending' = Pending /\ Done' = Done /\ Working' = Working
    BY <1>5, SameWindows
  <2> QED
    BY <2>1 DEF Channel!vars, Pending, Done, Working
<1>6. CASE uring_wait
  BY <1>5, <1>6 DEF uring_wait, flush_sq, cq_vars
<1>7. CASE EnterShort \/ EnterReturn \/ EnterError
  BY <1>5, <1>7 DEF EnterShort, EnterReturn, EnterError, sq_vars, cq_vars
<1>8. CASE UNCHANGED ring_vars
  BY <1>5, <1>8 DEF ring_vars, sq_vars, cq_vars, kernel_vars
<1> QED
  BY <1>1, <1>2, <1>3, <1>4, <1>6, <1>7, <1>8 DEF UringNext

-----------------------------------------------------------------------------
(* The theorems.                                                           *)

\* The ring of uring_ctl.c keeps its invariant for every size of the rings
\* and every width of the cursors.
THEOREM RingInvariant == UringSpec => []UringInv
  BY RingInit, RingStep, PTL DEF UringSpec

\* Cursors stay uint32_t and slots hold what they are for.
THEOREM RingTypes == UringSpec => []UringTypeOK
<1>1. UringInv => UringTypeOK
  BY DEF UringInv
<1> QED
  BY <1>1, RingInvariant, PTL

\* uring_new_submission never hands out a slot the kernel has yet to read.
THEOREM SubmissionWindow == UringSpec => []SqWindow
<1>1. UringInv => SqWindow
  BY DEF UringInv
<1> QED
  BY <1>1, RingInvariant, PTL

\* The kernel only reads SQEs that were filled in, through an index array
\* that uring_wait set up.
THEOREM KernelReads == UringSpec => []KernelReadsFilled
<1>1. UringInv => KernelReadsFilled
  BY DEF UringInv
<1> QED
  BY <1>1, RingInvariant, PTL

\* io_uring_enter is told to read exactly what uring_wait handed over.
THEOREM SubmitCount == UringSpec => []SubmitsWhatIsThere
<1>1. UringInv => SubmitsWhatIsThere
  BY DEF UringInv
<1> QED
  BY <1>1, RingInvariant, PTL

\* Every CQE that uring_result can return was posted and not yet released.
THEOREM CompletionWindow == UringSpec => []CqWindow
<1>1. UringInv => CqWindow
  BY DEF UringInv
<1> QED
  BY <1>1, RingInvariant, PTL

\* uring_new_submission returns NULL only when every slot is taken, and
\* uring_result only when every CQE has been released: the two tests, one on
\* a difference and one on the cursors themselves, agree with what is in the
\* rings also where a cursor has wrapped and the other has not.
NullMeansFull ==
  /\ HasRoom <=> Published + Unpublished < Entries
  /\ CqReady <=> Posted > 0

\* NULL never comes too early and never too late.
THEOREM NullOnlyWhenFull == UringSpec => []NullMeansFull
<1>1. ASSUME UringInv
      PROVE  NullMeansFull
  <2>1. UringTypeOK /\ SqWindow
    BY <1>1 DEF UringInv
  <2> DEFINE d == Minus(sq_list_tail, sq_head)
  <2>2. d \in Nat /\ d = Published + Unpublished /\ d <= Entries
    BY <2>1, Distances DEF SqWindow
  <2>3. Minus(Inc(sq_list_tail), sq_head) = d + 1
    BY <2>1, <2>2, Widths, MinusIncLeft DEF UringTypeOK
  <2>4. HasRoom <=> Published + Unpublished < Entries
    BY <2>2, <2>3, Widths DEF HasRoom
  <2>5. cq_head \in Index /\ cq_tail \in Index
    BY <2>1 DEF UringTypeOK
  <2>6. Posted = IF cq_tail >= cq_head THEN cq_tail - cq_head ELSE cq_tail - cq_head + Modulus
    BY <2>5, MinusValue DEF Posted
  <2>7. CqReady <=> Posted > 0
    BY <2>5, <2>6, Widths DEF CqReady, Index
  <2> QED
    BY <2>4, <2>7 DEF NullMeansFull
<1> QED
  BY <1>1, RingInvariant, PTL

\* Requests reach the kernel once each and in the order they were filled in,
\* and results the caller in the order they were posted: the ring, with its
\* masks, index array and wrap-around, implements the channel.
THEOREM RingIsChannel == UringSpec => ImplementsChannel
  BY RingInvariant, ChannelInit, ChannelStep, PTL DEF UringSpec, ImplementsChannel, Channel!Spec
=============================================================================
