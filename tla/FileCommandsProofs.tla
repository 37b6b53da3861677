------------------------- MODULE FileCommandsProofs -------------------------
(***************************************************************************)
(* The walk of dirlist through the buffer, and cmd_cat's loop, for every   *)
(* buffer size and every directory.  Launch's steps are those of this      *)
(* module or leave its variables alone; LaunchProofs puts them together.   *)
(***************************************************************************)
EXTENDS FileCommands, LeastNumber, SequenceTheorems

\* No command is running.
LEMMA FileStart == FileInit => FileInv
<1> SUFFICES ASSUME FileInit PROVE FileInv
  OBVIOUS
<1> USE FileAssumption
<1>1. lens = <<>> /\ out = <<>> /\ Len(lens) = 0 /\ DOMAIN lens = {} /\ DOMAIN out = {}
  BY DEF FileInit
<1>2. FileTypeOK
  <2>1. buffer \in [Offsets -> 0 .. Len(lens)]
    BY <1>1 DEF FileInit
  <2>2. trouble \in BOOLEAN
    BY DEF FileInit
  <2>3. count \in -1 .. BufSize /\ pos \in 0 .. BufSize /\ given \in 0 .. Len(lens)
    BY <1>1 DEF FileInit
  <2> QED
    BY <1>1, <2>1, <2>2, <2>3 DEF FileInit, FileTypeOK
<1> QED
  BY <1>1, <1>2 DEF FileInit, FileInv, InOrder, PrintsAll

\* A command begins with nothing given out or printed.
LEMMA GivenStep ==
  ASSUME FileInv, CommandGiven
  PROVE  FileInv'
<1> USE FileAssumption
<1>1. /\ pc = "idle" /\ pc' = "open" /\ out = <<>> /\ out' = out /\ given' = 0
      /\ ~trouble /\ trouble' = trouble /\ cmd' \in {"ls", "cat"}
      /\ UNCHANGED <<buffer, count, pos>>
  BY DEF CommandGiven, FileInv
<1>2. /\ lens' \in Seq(1 .. MaxLen) /\ Len(lens') <= MaxItems
      /\ cmd' = "cat" => \A j \in DOMAIN lens' : lens'[j] = 1
  <2>1. ASSUME NEW k \in 0 .. MaxItems, lens' \in [1 .. k -> 1 .. MaxLen]
        PROVE  lens' \in Seq(1 .. MaxLen) /\ Len(lens') = k /\ Len(lens') <= MaxItems
    BY <2>1
  <2>2. CASE cmd' = "ls"
    BY <2>1, <2>2 DEF CommandGiven
  <2>3. CASE cmd' = "cat"
    <3>1. PICK k \in 0 .. MaxItems : lens' = [j \in 1 .. k |-> 1]
      BY <2>3 DEF CommandGiven
    <3> QED
      BY <2>1, <3>1
  <2> QED
    BY <1>1, <2>2, <2>3
<1>3. buffer' \in [Offsets -> 0 .. Len(lens')]
  <2>1. Len(lens) = 0 /\ Len(lens') \in Nat /\ buffer \in [Offsets -> 0 .. Len(lens)]
    BY <1>1, <1>2 DEF FileInv, FileTypeOK
  <2> QED
    BY <1>1, <2>1
<1> QED
  BY <1>1, <1>2, <1>3 DEF FileInv, FileTypeOK, InOrder, PrintsAll
\* The open succeeds, or the command ends.
LEMMA OpenStep ==
  ASSUME FileInv, NEW succeeds \in BOOLEAN, Open(succeeds)
  PROVE  FileInv'
<1>1. /\ pc = "open" /\ pc' = (IF succeeds THEN "fill" ELSE "done")
      /\ out = <<>> /\ given = 0
      /\ UNCHANGED <<cmd, lens, given, buffer, count, pos, out>>
  BY DEF Open, FileInv
<1>2. trouble' = ~succeeds /\ trouble' \in BOOLEAN
  BY Zenon DEF Open
<1>3. FileTypeOK'
  BY <1>1, <1>2 DEF FileInv, FileTypeOK
<1>4. InOrder'
  BY <1>1 DEF FileInv, InOrder
<1>5. PrintedTo(0)'
  BY <1>1 DEF PrintedTo
<1>6. PrintsAll'
  BY <1>1, <1>2 DEF PrintsAll
<1> QED
  BY <1>1, <1>3, <1>4, <1>5, <1>6 DEF FileInv, PrintedTo

\* The kernel fills the buffer: the entries lie one behind the other, so each
\* offset is the start of one entry at most.
LEMMA FillStep ==
  ASSUME FileInv, Fill
  PROVE  FileInv'
<1> USE FileAssumption
<1>1. pc = "fill" /\ pc' = "walk" /\ pos' = 0 /\ UNCHANGED <<cmd, lens, out>>
      /\ FileTypeOK /\ PrintedTo(given) /\ lens \in Seq(1 .. MaxLen)
  BY DEF Fill, FileInv
<1>2. InOrder' /\ PrintsAll'
  BY <1>1 DEF FileInv, InOrder, PrintsAll
<1>3. ASSUME UNCHANGED <<given, buffer>>, count' = 0 \/ count' = -1, trouble' \in BOOLEAN,
             \/ count' = -1 /\ trouble'
             \/ count' = 0 /\ PrintedTo(Len(lens))'
      PROVE  FileInv'
  <2>1. FileTypeOK'
    BY <1>1, <1>3 DEF FileTypeOK
  <2> QED
    BY <1>1, <1>2, <1>3, <2>1 DEF FileInv
<1>4. CASE given = Len(lens) /\ count' = 0 /\ UNCHANGED <<given, buffer, trouble>>
  <2>1. PrintedTo(Len(lens))'
    BY <1>1, <1>4 DEF PrintedTo
  <2> QED
    BY <1>1, <1>3, <1>4, <2>1 DEF FileTypeOK
<1>5. CASE count' = -1 /\ trouble' = TRUE /\ UNCHANGED <<given, buffer>>
  BY <1>3, <1>5
<1>6. ASSUME NEW k \in 1 .. (Len(lens) - given), NEW at \in [0 .. k -> 0 .. BufSize],
             Placed(k, at), count' = at[k], given' = given + k,
             buffer' = [p \in Offsets |->
               IF p >= at[k] THEN buffer[p]
               ELSE IF \E j \in 1 .. k : at[j - 1] = p
                    THEN given + (CHOOSE j \in 1 .. k : at[j - 1] = p)
                    ELSE 0],
             UNCHANGED trouble
      PROVE  FileInv'
  <2>1. /\ given \in Nat /\ Len(lens) \in Nat /\ given + k <= Len(lens) /\ k \in Nat \ {0}
        /\ given <= Len(lens) /\ DOMAIN lens = 1 .. Len(lens)
    BY <1>1 DEF FileTypeOK
  <2>2. \A j \in 1 .. k : lens[given + j] \in 1 .. MaxLen
    BY <1>1, <2>1
  <2>3. \A j \in 1 .. k : at[j] = at[j - 1] + lens[given + j] /\ at[j - 1] < at[j]
    <3> SUFFICES ASSUME NEW j \in 1 .. k
                 PROVE  at[j] = at[j - 1] + lens[given + j] /\ at[j - 1] < at[j]
      OBVIOUS
    <3>1. at[j] = at[j - 1] + lens[given + j] /\ lens[given + j] \in 1 .. MaxLen
          /\ at[j - 1] \in 0 .. BufSize
      BY <1>6, <2>1, <2>2 DEF Placed
    <3> QED
      BY <3>1
  <2>4. \A i, j \in 0 .. k : i < j => at[i] < at[j]
    <3>1. at \in [0 .. k -> Int] /\ k \in Nat
      BY <2>1
    <3> QED
      BY <2>3, <3>1, Rising
  <2>5. ASSUME NEW j \in 1 .. k
        PROVE  /\ at[j - 1] \in Offsets /\ at[j - 1] < at[k]
               /\ \A i \in 1 .. k : at[i - 1] = at[j - 1] => i = j
    <3>1. j - 1 \in 0 .. k /\ j - 1 < k /\ k \in 0 .. k
      BY <2>1
    <3>2. at[j - 1] < at[k] /\ at[k] \in 0 .. BufSize /\ at[j - 1] \in 0 .. BufSize
      BY <2>4, <3>1
    <3>3. ASSUME NEW i \in 1 .. k, at[i - 1] = at[j - 1] PROVE i = j
      <4>1. i - 1 \in 0 .. k /\ at[i - 1] \in 0 .. BufSize
        BY <2>1
      <4>2. ~(i - 1 < j - 1) /\ ~(j - 1 < i - 1)
        BY <2>4, <3>1, <3>2, <3>3, <4>1
      <4> QED
        BY <4>2
    <3> QED
      BY <3>2, <3>3 DEF Offsets
  <2>6. \A j \in 1 .. k : buffer'[at[j - 1]] = given + j
    <3> SUFFICES ASSUME NEW j \in 1 .. k PROVE buffer'[at[j - 1]] = given + j
      OBVIOUS
    <3>1. at[j - 1] \in Offsets /\ ~(at[j - 1] >= at[k])
      <4>1. at[j - 1] \in 0 .. BufSize /\ at[k] \in 0 .. BufSize
        BY <2>1
      <4> QED
        BY <2>5, <4>1
    <3>2. (CHOOSE i \in 1 .. k : at[i - 1] = at[j - 1]) = j
      BY <2>5
    <3> QED
      BY <1>6, <3>1, <3>2
  <2>7. buffer' \in [Offsets -> 0 .. Len(lens)]
    <3> SUFFICES ASSUME NEW p \in Offsets PROVE buffer'[p] \in 0 .. Len(lens)
      BY <1>6
    <3>1. CASE p >= at[k]
      BY <1>1, <1>6, <3>1 DEF FileTypeOK
    <3>2. CASE ~(p >= at[k])
      <4>1. CASE \E j \in 1 .. k : at[j - 1] = p
        <5>1. PICK j \in 1 .. k : at[j - 1] = p
          BY <4>1
        <5> QED
          BY <2>1, <2>6, <5>1
      <4>2. CASE ~\E j \in 1 .. k : at[j - 1] = p
        BY <1>6, <2>1, <3>2, <4>2
      <4> QED
        BY <4>1, <4>2
    <3> QED
      BY <3>1, <3>2
  <2>8. FileTypeOK'
    <3>1. count' \in 0 .. BufSize /\ pos' \in 0 .. BufSize /\ given' \in 0 .. Len(lens)
      BY <1>1, <1>6, <2>1
    <3>2. trouble' \in BOOLEAN
      BY <1>1, <1>6 DEF FileTypeOK
    <3>3. count' \in -1 .. BufSize
      BY <3>1
    <3> QED
      BY <1>1, <2>7, <3>1, <3>2, <3>3 DEF FileTypeOK
  <2>9. Walking(k, at, 0)'
    <3>1. given' - k = given /\ (given' - k) + 0 = given
      BY <1>6, <2>1
    <3>2. PrintedTo((given - k) + 0)'
      BY <1>1, <1>6, <3>1 DEF PrintedTo
    <3> QED
      BY <1>1, <1>6, <2>3, <2>6, <3>1, <3>2 DEF Walking, Placed
  <2>10. count' > 0 /\ k \in 1 .. given' /\ 0 \in 0 .. k
    <3>1. at[0] < at[k] /\ at[0] = 0
      BY <1>6, <2>1, <2>4 DEF Placed
    <3> QED
      BY <1>6, <2>1, <3>1
  <2> QED
    BY <1>1, <1>2, <2>8, <2>9, <2>10 DEF FileInv
<1> QED
  BY <1>4, <1>5, <1>6 DEF Fill

\* The first j of the c entries behind the n-th are written.
LEMMA PrintsStep ==
  ASSUME FileInv, NEW n \in Nat, NEW c \in Nat, PrintedTo(n), n + c <= Len(lens),
         NEW items \in [1 .. c -> Nat], \A p \in 1 .. c : items[p] = n + p,
         NEW j \in 0 .. c, Prints(items, j), UNCHANGED lens
  PROVE  /\ out' \in Seq(1 .. Len(lens)) /\ InOrder' /\ PrintedTo(n + c)'
         /\ trouble' \in BOOLEAN
<1>1. out \in Seq(1 .. Len(lens)) /\ lens \in Seq(1 .. MaxLen) /\ InOrder /\ trouble \in BOOLEAN
  BY DEF FileInv, FileTypeOK
<1>2. Len(lens) \in Nat /\ DOMAIN lens = 1 .. Len(lens) /\ Len(out) \in Nat
      /\ \A m \in 1 .. Len(out) : out[m] \in 1 .. Len(lens) /\ out[m] <= n
  BY <1>1 DEF PrintedTo
<1>3. items \in Seq(Nat) /\ Len(items) = c
  OBVIOUS
<1> DEFINE sub == SubSeq(items, 1, j)
<1>4. sub \in Seq(1 .. Len(lens)) /\ Len(sub) = j /\ \A m \in 1 .. j : sub[m] = n + m
  <2>1. Len(sub) = j /\ sub = [m \in 1 .. j |-> items[m]]
    BY <1>3
  <2>2. \A m \in 1 .. j : sub[m] = n + m /\ sub[m] \in 1 .. Len(lens)
    BY <1>2, <2>1
  <2> QED
    BY <2>1, <2>2
<1>5. out' = out \o sub
  BY DEF Prints
<1> HIDE DEF sub
<1>6. /\ out' \in Seq(1 .. Len(lens)) /\ Len(out') = Len(out) + j
      /\ \A m \in 1 .. Len(out') :
           /\ m <= Len(out) => out'[m] = out[m]
           /\ m > Len(out) => out'[m] = n + (m - Len(out))
  <2>1. /\ out \o sub \in Seq(1 .. Len(lens)) /\ Len(out \o sub) = Len(out) + Len(sub)
        /\ \A m \in 1 .. Len(out) + Len(sub) :
             (out \o sub)[m] = IF m <= Len(out) THEN out[m] ELSE sub[m - Len(out)]
    BY <1>1, <1>4, ConcatProperties, Zenon
  <2>2. /\ out' \in Seq(1 .. Len(lens)) /\ Len(out') = Len(out) + j
        /\ \A m \in 1 .. (Len(out) + j) :
             out'[m] = IF m <= Len(out) THEN out[m] ELSE sub[m - Len(out)]
    BY <1>4, <1>5, <2>1
  <2>3. ASSUME NEW m \in 1 .. (Len(out) + j), m > Len(out)
        PROVE  out'[m] = n + (m - Len(out))
    <3>1. m - Len(out) \in 1 .. j /\ ~(m <= Len(out))
      BY <1>2, <2>3
    <3> QED
      BY <1>4, <2>2, <3>1
  <2> QED
    BY <2>2, <2>3
<1>7. \A m \in 1 .. Len(out') : out'[m] \in 1 .. Len(lens) /\ out'[m] <= n + c
  <2> SUFFICES ASSUME NEW m \in 1 .. (Len(out) + j)
               PROVE  out'[m] \in 1 .. Len(lens) /\ out'[m] <= n + c
    BY <1>6
  <2>1. CASE m <= Len(out)
    <3>1. m \in 1 .. Len(out)
      BY <1>2, <2>1
    <3>2. out'[m] = out[m] /\ out[m] \in 1 .. Len(lens) /\ out[m] <= n
      BY <1>2, <1>6, <2>1, <3>1
    <3> QED
      BY <1>2, <3>2
  <2>2. CASE m > Len(out)
    BY <1>2, <1>6, <2>2
  <2> QED
    BY <1>2, <2>1, <2>2
<1>8. \A l, m \in 1 .. Len(out') : l < m => out'[l] < out'[m]
  <2> SUFFICES ASSUME NEW l \in 1 .. (Len(out) + j), NEW m \in 1 .. (Len(out) + j), l < m
               PROVE  out'[l] < out'[m]
    BY <1>6
  <2>1. CASE m <= Len(out)
    <3>1. l \in 1 .. Len(out) /\ m \in 1 .. Len(out) /\ l <= Len(out)
      BY <1>2, <2>1
    <3>2. out[l] < out[m]
      <4>1. DOMAIN out = 1 .. Len(out)
        BY <1>1
      <4> QED
        BY <1>1, <3>1, <4>1, Zenon DEF InOrder
    <3>3. l \in 1 .. Len(out') /\ m \in 1 .. Len(out') /\ m <= Len(out)
      BY <1>6, <2>1
    <3>4. out'[l] = out[l] /\ out'[m] = out[m]
      BY <1>6, <3>1, <3>3, Zenon
    <3> QED
      BY <3>2, <3>4
  <2>2. CASE m > Len(out)
    <3>1. out'[m] = n + (m - Len(out)) /\ out'[m] > n /\ out'[m] \in Nat
      BY <1>2, <1>6, <2>2
    <3>2. CASE l <= Len(out)
      <4>1. l \in 1 .. Len(out)
        BY <1>2, <3>2
      <4>2. out'[l] = out[l] /\ out[l] \in 1 .. Len(lens) /\ out[l] <= n
        BY <1>2, <1>6, <3>2, <4>1
      <4>3. out'[l] <= n /\ out'[l] \in Nat
        BY <1>2, <4>2
      <4> QED
        BY <3>1, <4>3
    <3>3. CASE l > Len(out)
      BY <1>2, <1>6, <3>1, <3>3
    <3> QED
      BY <1>2, <3>2, <3>3
  <2> QED
    BY <1>2, <2>1, <2>2
<1>9. InOrder'
  BY <1>2, <1>6, <1>7, <1>8 DEF InOrder
<1>10. trouble' = (trouble \/ j < c) /\ trouble' \in BOOLEAN
  BY <1>1, <1>3, Zenon DEF Prints
<1>11. PrintedTo(n + c)'
  <2>1. ~trouble' => ~trouble /\ ~(j < c)
    BY <1>10, Zenon
  <2>2. ~trouble => Len(out) = n
    BY Zenon DEF PrintedTo
  <2>3. ~(j < c) => j = c
    OBVIOUS
  <2>4. Len(out) = n /\ j = c => Len(out') = n + c
    BY <1>6
  <2>5. ~trouble' => Len(out') = n + c
    BY <2>1, <2>2, <2>3, <2>4, Zenon
  <2>6. \A m \in DOMAIN out' : out'[m] <= n + c
    BY <1>6, <1>7
  <2> QED
    BY <2>5, <2>6, Zenon DEF PrintedTo
<1> QED
  BY <1>6, <1>9, <1>10, <1>11

\* What the walk is about to print is the next entry, and the one behind it
\* starts where it ends.
LEMMA WalkMeets ==
  ASSUME FileInv, NEW k \in 1 .. given, NEW at \in [0 .. k -> 0 .. BufSize],
         NEW i \in 0 .. k, Walking(k, at, i), pos < count
  PROVE  /\ i + 1 \in 1 .. k /\ buffer[pos] = (given - k) + (i + 1)
         /\ buffer[pos] \in 1 .. Len(lens)
         /\ at[i + 1] = pos + lens[buffer[pos]]
<1>1. given \in 0 .. Len(lens) /\ Len(lens) \in Nat /\ count \in Int /\ pos \in Int
  BY DEF FileInv, FileTypeOK
<1>2. i # k
  BY <1>1 DEF Walking
<1>3. i + 1 \in 1 .. k /\ (i + 1) - 1 = i
  BY <1>1, <1>2
<1>4. /\ at[i] = pos /\ at[i + 1] = at[i] + lens[(given - k) + (i + 1)]
      /\ buffer[at[i]] = (given - k) + (i + 1)
  BY <1>3 DEF Walking
<1>5. (given - k) + (i + 1) \in 1 .. Len(lens)
  BY <1>1, <1>3
<1> QED
  BY <1>3, <1>4, <1>5

\* dirlist prints an entry.
LEMMA EntryStep ==
  ASSUME FileInv, PrintEntry
  PROVE  FileInv'
<1> USE FileAssumption
<1>1. /\ pc = "walk" /\ cmd = "ls" /\ pos < count /\ FileTypeOK
      /\ UNCHANGED <<cmd, lens, pc, given, buffer, count>>
  BY DEF PrintEntry, More, FileInv
<1>2. given \in 0 .. Len(lens) /\ Len(lens) \in Nat /\ count \in Int /\ pos \in 0 .. BufSize
  BY <1>1 DEF FileInv, FileTypeOK
<1>k. PICK k \in 1 .. given :
        \E at \in [0 .. k -> 0 .. BufSize] : \E i \in 0 .. k : Walking(k, at, i)
  <2>1. count # -1 /\ count # 0
    BY <1>1, <1>2
  <2> QED
    BY <1>1, <2>1, Zenon DEF FileInv
<1>at. PICK at \in [0 .. k -> 0 .. BufSize] : \E i \in 0 .. k : Walking(k, at, i)
  BY <1>k
<1>3. PICK i \in 0 .. k : Walking(k, at, i)
  BY <1>at
<1>n. PICK n : n = (given - k) + i
  OBVIOUS
<1>4. /\ i + 1 \in 1 .. k /\ buffer[pos] = (given - k) + (i + 1)
      /\ buffer[pos] \in 1 .. Len(lens) /\ at[i + 1] = pos + lens[buffer[pos]]
  BY <1>1, <1>3, WalkMeets
<1>5. n \in Nat /\ n + 1 <= Len(lens) /\ buffer[pos] = n + 1 /\ PrintedTo(n)
      /\ n + 1 = (given - k) + (i + 1)
  BY <1>2, <1>3, <1>4, <1>n DEF Walking
<1>6. pos' = at[i + 1] /\ at[i + 1] \in 0 .. BufSize
  <2>1. buffer[pos] # 0
    BY <1>4
  <2> QED
    BY <1>4, <2>1 DEF PrintEntry, Reclen
<1>7. PICK j \in 0 .. 1 : Prints(<<buffer[pos]>>, j)
  BY DEF PrintEntry
<1>8. /\ out' \in Seq(1 .. Len(lens)) /\ InOrder' /\ PrintedTo(n + 1)' /\ trouble' \in BOOLEAN
  <2>1. PICK items : items = <<buffer[pos]>>
    OBVIOUS
  <2>2. items \in [1 .. 1 -> Nat] /\ \A p \in 1 .. 1 : items[p] = n + p
    BY <1>5, <2>1
  <2>3. Prints(items, j)
    BY <1>7, <2>1
  <2> QED
    BY <1>1, <1>5, <2>2, <2>3, PrintsStep
<1>9. FileTypeOK'
  BY <1>1, <1>6, <1>8 DEF FileTypeOK
<1>10. Walking(k, at, i + 1)'
  <2>1. PrintedTo((given - k) + (i + 1))'
    BY <1>1, <1>5, <1>8 DEF PrintedTo
  <2>2. /\ at[0] = 0 /\ at[k] = count'
        /\ \A m \in 1 .. k : /\ at[m] = at[m - 1] + lens'[(given' - k) + m]
                             /\ buffer'[at[m - 1]] = (given' - k) + m
    BY <1>1, <1>3 DEF Walking
  <2> QED
    BY <1>6, <2>1, <2>2 DEF Walking
<1>11. count' > 0 /\ k \in 1 .. given' /\ i + 1 \in 0 .. k
  BY <1>1, <1>2, <1>4
<1> QED
  BY <1>1, <1>8, <1>9, <1>10, <1>11 DEF FileInv, PrintsAll

\* dirlist has come to the end of the buffer.
LEMMA BufferStep ==
  ASSUME FileInv, NextBuffer
  PROVE  FileInv'
<1> USE FileAssumption
<1>1. /\ pc = "walk" /\ ~(pos < count) /\ FileTypeOK
      /\ pc' = (IF count > 0 THEN "fill" ELSE "done")
      /\ UNCHANGED <<cmd, lens, given, buffer, count, pos, out, trouble>>
  BY DEF NextBuffer, More, FileInv
<1>2. FileTypeOK' /\ InOrder'
  BY <1>1 DEF FileInv, FileTypeOK, InOrder
<1>3. /\ given \in 0 .. Len(lens) /\ Len(lens) \in Nat
      /\ count \in -1 .. BufSize /\ pos \in 0 .. BufSize
      /\ DOMAIN lens = 1 .. Len(lens) /\ \A m \in 1 .. Len(lens) : lens[m] \in 1 .. MaxLen
  BY <1>1 DEF FileInv, FileTypeOK
<1>4. CASE count > 0
  <2>1. PICK k \in 1 .. given :
          \E at \in [0 .. k -> 0 .. BufSize] : \E i \in 0 .. k : Walking(k, at, i)
    <3>1. count # -1 /\ count # 0
      BY <1>3, <1>4
    <3> QED
      BY <1>1, <3>1, Zenon DEF FileInv
  <2>2. PICK at \in [0 .. k -> 0 .. BufSize] : \E i \in 0 .. k : Walking(k, at, i)
    BY <2>1
  <2>3. PICK i \in 0 .. k : Walking(k, at, i)
    BY <2>2
  <2>4. i = k
    <3>1. \A j \in 1 .. k : at[j - 1] < at[j]
      <4> SUFFICES ASSUME NEW j \in 1 .. k PROVE at[j - 1] < at[j]
        OBVIOUS
      <4>1. (given - k) + j \in 1 .. Len(lens) /\ j - 1 \in 0 .. k
        BY <1>3
      <4>2. lens[(given - k) + j] \in 1 .. MaxLen
        BY <1>3, <4>1
      <4>3. at[j] = at[j - 1] + lens[(given - k) + j] /\ at[j - 1] \in 0 .. BufSize
        BY <2>3, <4>1 DEF Walking
      <4> QED
        BY <4>2, <4>3
    <3>2. at \in [0 .. k -> Int] /\ k \in Nat
      OBVIOUS
    <3>3. \A a, b \in 0 .. k : a < b => at[a] < at[b]
      BY <3>1, <3>2, Rising
    <3>4. k \in 0 .. k /\ (i < k => at[i] < at[k])
      BY <3>2, <3>3
    <3> QED
      BY <1>1, <1>3, <2>3, <3>4 DEF Walking
  <2>5. (given - k) + k = given
    BY <1>3
  <2>6. PrintedTo(given)
    BY <2>3, <2>4, <2>5 DEF Walking
  <2>7. PrintedTo(given)'
    BY <1>1, <2>6 DEF PrintedTo
  <2> QED
    BY <1>1, <1>2, <1>4, <2>7 DEF FileInv, PrintsAll
<1>5. CASE ~(count > 0)
  <2>1. trouble \/ PrintedTo(Len(lens))
    BY <1>1, <1>5, Zenon DEF FileInv
  <2>2. PrintsAll'
    BY <1>1, <2>1, Zenon DEF PrintsAll, PrintedTo
  <2> QED
    BY <1>1, <1>2, <1>5, <2>2 DEF FileInv
<1> QED
  BY <1>4, <1>5

\* cmd_cat: the bytes in the buffer are the next ones, and all are written.
LEMMA CatStep ==
  ASSUME FileInv, cmd_cat
  PROVE  FileInv'
<1> USE FileAssumption
<1>1. /\ pc = "walk" /\ cmd = "cat" /\ FileTypeOK
      /\ UNCHANGED <<cmd, lens, given, buffer, count, pos>>
  BY DEF cmd_cat, FileInv
<1>2. /\ given \in 0 .. Len(lens) /\ Len(lens) \in Nat
      /\ count \in -1 .. BufSize /\ pos \in 0 .. BufSize
      /\ DOMAIN lens = 1 .. Len(lens) /\ \A m \in 1 .. Len(lens) : lens[m] \in 1 .. MaxLen
  <2>1. given \in 0 .. Len(lens) /\ count \in -1 .. BufSize /\ pos \in 0 .. BufSize
    BY <1>1 DEF FileTypeOK
  <2>2. lens \in Seq(1 .. MaxLen)
    BY DEF FileInv
  <2> QED
    BY <2>1, <2>2
<1>3. CASE count > 0
  <2>1. PICK k \in 1 .. given :
          \E at \in [0 .. k -> 0 .. BufSize] : \E i \in 0 .. k : Walking(k, at, i)
    <3>1. count # -1 /\ count # 0
      BY <1>2, <1>3
    <3> QED
      BY <1>1, <3>1, Zenon DEF FileInv
  <2>2. PICK at \in [0 .. k -> 0 .. BufSize] : \E i \in 0 .. k : Walking(k, at, i)
    BY <2>1
  <2>3. PICK i \in 0 .. k : Walking(k, at, i)
    BY <2>2
  <2>4. pos = 0
    BY <1>1, <1>3 DEF FileInv
  <2>5. \A j \in 0 .. k : at[j] = j
    <3>1. \A j \in 1 .. k : at[j] = at[j - 1] + 1
      <4> SUFFICES ASSUME NEW j \in 1 .. k PROVE at[j] = at[j - 1] + 1
        OBVIOUS
      <4>1. (given - k) + j \in 1 .. Len(lens)
        BY <1>2
      <4>2. lens[(given - k) + j] = 1
        BY <1>1, <1>2, <4>1 DEF FileInv
      <4> QED
        BY <2>3, <4>2 DEF Walking
    <3>2. at \in [0 .. k -> Int] /\ k \in Nat /\ at[0] = 0
      BY <2>3 DEF Walking
    <3> QED
      BY <3>1, <3>2, CountsUp
  <2>6. i = 0 /\ count = k
    BY <2>3, <2>4, <2>5 DEF Walking
  <2>7. PICK n : n = given - k
    OBVIOUS
  <2>8. /\ n \in Nat /\ k \in Nat /\ n + k = given /\ n + k <= Len(lens) /\ PrintedTo(n)
        /\ \A p \in 1 .. k : buffer[p - 1] = n + p
    <3>1. n \in Nat /\ k \in Nat /\ n + k = given /\ n + k <= Len(lens) /\ n + 0 = n
      BY <1>2, <2>7
    <3>2. PrintedTo(n)
      BY <2>3, <2>6, <2>7, <3>1 DEF Walking
    <3>3. \A p \in 1 .. k : at[p - 1] = p - 1
      BY <2>5
    <3> QED
      BY <2>3, <2>7, <3>1, <3>2, <3>3 DEF Walking
  <2>9. PICK items : items = [p \in 1 .. k |-> buffer[p - 1]]
    OBVIOUS
  <2>10. PICK j \in 0 .. k : Prints(items, j)
    BY <1>3, <2>6, <2>9 DEF cmd_cat
  <2>11. items \in [1 .. k -> Nat] /\ \A p \in 1 .. k : items[p] = n + p
    BY <2>8, <2>9
  <2>12. out' \in Seq(1 .. Len(lens)) /\ InOrder' /\ PrintedTo(n + k)' /\ trouble' \in BOOLEAN
    BY <1>1, <2>8, <2>10, <2>11, PrintsStep
  <2>13. pc' = "fill" /\ FileTypeOK'
    BY <1>1, <1>3, <2>12 DEF cmd_cat, FileTypeOK
  <2>14. PrintedTo(given)'
    BY <1>1, <2>8, <2>12
  <2> QED
    BY <1>1, <2>12, <2>13, <2>14 DEF FileInv, PrintsAll
<1>4. CASE ~(count > 0)
  <2>1. pc' = "done" /\ UNCHANGED <<out, trouble>>
    BY <1>4 DEF cmd_cat
  <2>2. trouble \/ PrintedTo(Len(lens))
    BY <1>1, <1>4, Zenon DEF FileInv
  <2>3. PrintsAll'
    BY <1>1, <2>1, <2>2, Zenon DEF PrintsAll, PrintedTo
  <2>4. FileTypeOK' /\ InOrder'
    BY <1>1, <2>1 DEF FileInv, FileTypeOK, InOrder
  <2> QED
    BY <1>1, <2>1, <2>3, <2>4 DEF FileInv
<1> QED
  BY <1>3, <1>4

\* No step of the commands breaks the invariant.
LEMMA FileStepHolds ==
  FileInv /\ (CommandGiven \/ Open(TRUE) \/ Open(FALSE) \/ Loop \/ UNCHANGED file_vars)
    => FileInv'
<1> SUFFICES ASSUME FileInv,
                    CommandGiven \/ Open(TRUE) \/ Open(FALSE) \/ Loop \/ UNCHANGED file_vars
             PROVE  FileInv'
  OBVIOUS
<1>1. CASE CommandReturns
  <2>1. FileInit'
    BY <1>1 DEF CommandReturns, FileInit
  <2> QED
    BY <2>1, FileStart, PTL
<1>2. CASE UNCHANGED file_vars
  <2>1. FileTypeOK' /\ InOrder' /\ PrintsAll'
    BY <1>2 DEF file_vars, FileInv, FileTypeOK, InOrder, PrintsAll
  <2>2. \A n : PrintedTo(n)' <=> PrintedTo(n)
    BY <1>2 DEF file_vars, PrintedTo
  <2>3. \A k, at, i : Walking(k, at, i)' <=> Walking(k, at, i)
    BY <1>2, <2>2 DEF file_vars, Walking
  <2> QED
    BY <1>2, <2>1, <2>2, <2>3 DEF file_vars, FileInv
<1> QED
  BY <1>1, <1>2, GivenStep, OpenStep, FillStep, EntryStep, BufferStep, CatStep DEF Loop

\* What the invariant is for.
LEMMA FileInvImplies == FileInv => FileTypeOK /\ InOrder /\ PrintsAll
  BY DEF FileInv

-----------------------------------------------------------------------------
(* The loops come to an end.                                               *)

\* How near a command is to its end while the kernel gives out nothing new: a
\* buffer is walked through, then the next one is asked for, and one that is
\* empty or an error is the last.
Stage ==
  IF pc = "open" THEN 4
  ELSE IF pc = "walk" /\ count > 0 THEN 3
  ELSE IF pc = "fill" THEN 2
  ELSE IF pc = "walk" THEN 1 ELSE 0

\* A step gets something new from the kernel, or comes to a later stage, or
\* further in the buffer.  None of the three can go on for ever: FileTypeOK
\* bounds given by the length of the file and pos by that of the buffer.
Closer ==
  /\ lens' = lens
  /\ \/ given' > given
     \/ given' = given /\ Stage' < Stage
     \/ given' = given /\ Stage' = Stage /\ pos' > pos

\* A command that has not come to its end comes closer.
Advances == pc \in {"open", "fill", "walk"} => Closer

\* A record has a length, so the walk of dirlist gets on.
LEMMA EntryAdvances ==
  ASSUME FileInv, PrintEntry
  PROVE  Closer
<1>1. /\ pc = "walk" /\ pos < count /\ UNCHANGED <<cmd, lens, pc, given, buffer, count>>
      /\ pos' = pos + Reclen(buffer[pos])
  BY DEF PrintEntry, More
<1>2. /\ count \in -1 .. BufSize /\ pos \in Nat /\ BufSize \in Nat
      /\ buffer \in [Offsets -> 0 .. Len(lens)] /\ Len(lens) \in Nat
      /\ \A j \in 1 .. Len(lens) : lens[j] \in 1 .. MaxLen
  <2>1. FileTypeOK /\ lens \in Seq(1 .. MaxLen)
    BY DEF FileInv
  <2>2. Len(lens) \in Nat /\ DOMAIN lens = 1 .. Len(lens)
    BY <2>1
  <2> QED
    BY <2>1, <2>2, FileAssumption DEF FileTypeOK
<1>3. pos \in Offsets
  BY <1>1, <1>2 DEF Offsets
<1>4. buffer[pos] \in 0 .. Len(lens)
  BY <1>2, <1>3
<1>5. PICK r : r = Reclen(buffer[pos])
  OBVIOUS
<1>6. r \in Nat /\ r >= 1
  <2>1. CASE buffer[pos] = 0
    BY <1>5, <2>1 DEF Reclen
  <2>2. CASE buffer[pos] # 0
    <3>1. lens[buffer[pos]] \in 1 .. MaxLen
      BY <1>2, <1>4, <2>2
    <3> QED
      BY <1>5, <2>2, <3>1, FileAssumption DEF Reclen
  <2> QED
    BY <2>1, <2>2
<1>7. pos' > pos
  BY <1>1, <1>2, <1>5, <1>6
<1>8. Stage' = Stage
  BY <1>1 DEF Stage
<1> QED
  BY <1>1, <1>7, <1>8 DEF Closer

\* Every step of ls or cat between the call and the return brings it closer to
\* its end.
LEMMA CommandAdvances ==
  ASSUME FileInv, pc \in {"open", "fill", "walk"}, Open(TRUE) \/ Open(FALSE) \/ Loop
  PROVE  Closer
<1>1. given \in Nat /\ count \in Int /\ Len(lens) \in Nat /\ given <= Len(lens)
  BY FileAssumption DEF FileInv, FileTypeOK
<1>2. CASE Open(TRUE) \/ Open(FALSE)
  BY <1>1, <1>2 DEF Open, Closer, Stage
<1>3. CASE Fill
  <2>1. pc = "fill" /\ pc' = "walk" /\ lens' = lens
    BY <1>3 DEF Fill
  <2>2. CASE \E k \in 1 .. (Len(lens) - given) : given' = given + k
    BY <1>1, <2>1, <2>2 DEF Closer
  <2>3. CASE given' = given /\ (count' = 0 \/ count' = -1)
    BY <2>1, <2>3 DEF Closer, Stage
  <2> QED
    BY <1>3, <2>2, <2>3 DEF Fill
<1>4. CASE PrintEntry
  BY <1>4, EntryAdvances
<1>5. CASE NextBuffer
  BY <1>1, <1>5 DEF NextBuffer, Closer, Stage
<1>6. CASE cmd_cat
  BY <1>1, <1>6 DEF cmd_cat, Closer, Stage
<1>7. CASE CommandReturns
  BY <1>7 DEF CommandReturns
<1> QED
  BY <1>2, <1>3, <1>4, <1>5, <1>6, <1>7 DEF Loop

=============================================================================
