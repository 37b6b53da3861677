------------------------------ MODULE MemUtil -------------------------------
(***************************************************************************)
(* memmove, memcpy and memset of util/util.c, one step for each turn of    *)
(* their loops.  Source and destination may overlap in any way.            *)
(***************************************************************************)
EXTENDS Integers

CONSTANTS
  Size,      \* of the memory: addresses are the numbers below it
  Byte,      \* what an address can hold
  Contents   \* the memories that the functions are tried on

Addr == 0 .. (Size - 1)

ASSUME MemAssumption == Size \in Nat /\ Contents \subseteq [Addr -> Byte]

VARIABLES
  mem,                 \* the memory
  mem0,                \* the memory when the function was called
  fn,                  \* the function
  dst, src, n, b,      \* its arguments: addresses, how many, memset's byte
  len,                 \* the parameter len, as the loop counts it down
  pos                  \* memmove's variable; for memset, p - dst - 1

args == <<mem0, fn, dst, src, n, b>>
vars == <<mem, args, len, pos>>

Init ==
  /\ mem \in Contents /\ mem0 = mem
  /\ fn \in {"memmove", "memset"}
  /\ n \in 0 .. Size /\ b \in Byte
  /\ dst \in 0 .. (Size - n) /\ src \in 0 .. (Size - n)
  /\ len = n
  /\ pos = IF fn = "memset" \/ dst <= src THEN -1 ELSE n

\* Mutated forms: the copy always ascends, or takes a turn too many.
memmove_ascends ==
  /\ fn = "memmove" /\ len > 0
  /\ len' = len - 1
  /\ pos' = IF dst <= src THEN pos + 1 ELSE n - len
  /\ mem' = [mem EXCEPT ![dst + pos'] = mem[src + pos']]
  /\ UNCHANGED args
memmove_last_twice ==
  /\ fn = "memmove" /\ len >= 0
  /\ len' = len - 1
  /\ pos' = pos + IF dst <= src THEN 1 ELSE -1
  /\ IF dst + pos' \in Addr /\ src + pos' \in Addr
       THEN mem' = [mem EXCEPT ![dst + pos'] = mem[src + pos']]
       ELSE UNCHANGED mem
  /\ UNCHANGED args

memmove ==
  /\ fn = "memmove" /\ len > 0
  /\ len' = len - 1
  /\ pos' = pos + IF dst <= src THEN 1 ELSE -1
  /\ mem' = [mem EXCEPT ![dst + pos'] = mem[src + pos']]
  /\ UNCHANGED args

memset ==
  /\ fn = "memset" /\ len > 0
  /\ len' = len - 1
  /\ pos' = pos + 1
  /\ mem' = [mem EXCEPT ![dst + pos'] = b]
  /\ UNCHANGED args

Next == memmove \/ memset

Spec == Init /\ [][Next]_vars

-----------------------------------------------------------------------------
\* The variables have their types, and the arguments stay in the memory.
TypeOK ==
  /\ mem \in [Addr -> Byte] /\ mem0 \in [Addr -> Byte]
  /\ fn \in {"memmove", "memset"}
  /\ dst \in Nat /\ src \in Nat /\ n \in Nat /\ b \in Byte
  /\ dst + n <= Size /\ src + n <= Size
  /\ len \in 0 .. n
  /\ pos \in -1 .. n

\* What the functions promise: the destination gets what the source, or the
\* byte, was at the call, and no other address is changed.
Wanted(a) ==
  IF a - dst \notin 0 .. (n - 1) THEN mem0[a]
  ELSE IF fn = "memset" THEN b ELSE mem0[a - dst + src]

\* memmove() copies right however source and destination overlap: no turn of
\* the loop overwrites a byte that a later one has to read.
Moved == len = 0 => \A a \in Addr : mem[a] = Wanted(a)

\* The loop invariant: the offsets that have had their turn, and where pos is.
Ascends == fn = "memset" \/ dst <= src
Turned == IF Ascends THEN 0 .. (n - len - 1) ELSE len .. (n - 1)
LoopInv ==
  /\ pos = IF Ascends THEN n - len - 1 ELSE len
  /\ \A a \in Addr : mem[a] = IF a - dst \in Turned THEN Wanted(a) ELSE mem0[a]
=============================================================================
