---------------------------- MODULE FileCommands ----------------------------
(***************************************************************************)
(* The loops of cmd_cat and of dirlist, which cmd_ls calls (init/          *)
(* command.c): the kernel fills a buffer, the loop prints what is in it,   *)
(* until nothing comes any more.  A directory is a list of entries of      *)
(* different lengths, a file a list of bytes, each of length one.  Launch  *)
(* extends this module with the descriptors that the files are opened on.  *)
(***************************************************************************)
EXTENDS Integers, Sequences

CONSTANTS
  BufSize,    \* the size of the buffer
  MaxLen,     \* the length of the longest directory entry
  MaxItems    \* how many entries or bytes there are at most

ASSUME FileAssumption == BufSize \in Nat /\ MaxLen \in 1 .. BufSize /\ MaxItems \in Nat

VARIABLES
  cmd,        \* "ls", "cat" or "none"
  lens,       \* the lengths of the entries
  pc,         \* where the loop is
  given,      \* how many entries the kernel has given out
  buffer,     \* the entry that starts at an offset, 0 for none
  count,      \* what getdents64 or read has returned
  pos,        \* dirlist's position in the buffer
  out,        \* the entries printed
  trouble     \* the open, a read or a write has failed, or a write was short

file_vars == <<cmd, lens, pc, given, buffer, count, pos, out, trouble>>

Offsets == 0 .. (BufSize - 1)

FileInit ==
  /\ cmd = "none" /\ lens = <<>> /\ pc = "idle"
  /\ given = 0 /\ count = 0 /\ pos = 0
  /\ buffer = [p \in Offsets |-> 0]
  /\ out = <<>> /\ trouble = FALSE

\* ls of a directory, or of the root, or cat of a file that has an end.
CommandGiven ==
  /\ pc = "idle" /\ pc' = "open"
  /\ \/ cmd' = "ls" /\ lens' \in UNION {[1 .. k -> 1 .. MaxLen] : k \in 0 .. MaxItems}
     \/ cmd' = "cat" /\ lens' \in {[j \in 1 .. k |-> 1] : k \in 0 .. MaxItems}
  /\ UNCHANGED <<given, buffer, count, pos, out, trouble>>

\* open and openat2.  An error is printed, and the command returns.
Open(succeeds) ==
  /\ pc = "open"
  /\ pc' = IF succeeds THEN "fill" ELSE "done"
  /\ trouble' = ~succeeds
  /\ UNCHANGED <<cmd, lens, given, buffer, count, pos, out>>

\* The next k entries one behind the other: entry given + j ends at at[j].
Placed(k, at) ==
  /\ at[0] = 0
  /\ \A j \in 1 .. k : at[j] = at[j - 1] + lens[given + j]

\* getdents64 and read: any number of entries that fit, zero at the end, or an
\* error.  What was in the buffer behind them stays there.
Fill ==
  /\ pc = "fill"
  /\ \/ \E k \in 1 .. (Len(lens) - given) : \E at \in [0 .. k -> 0 .. BufSize] :
          /\ Placed(k, at)
          /\ count' = at[k] /\ given' = given + k
          /\ buffer' = [p \in Offsets |->
               IF p >= at[k] THEN buffer[p]
               ELSE IF \E j \in 1 .. k : at[j - 1] = p
                    THEN given + (CHOOSE j \in 1 .. k : at[j - 1] = p)
                    ELSE 0]
          /\ UNCHANGED trouble
     \/ given = Len(lens) /\ count' = 0 /\ UNCHANGED <<given, buffer, trouble>>
     \/ count' = -1 /\ trouble' = TRUE /\ UNCHANGED <<given, buffer>>
  /\ pos' = 0
  /\ pc' = "walk"
  /\ UNCHANGED <<cmd, lens, out>>

\* A write that is not looked at closely: j of the characters get out.
Prints(items, j) ==
  /\ out' = out \o SubSeq(items, 1, j)
  /\ trouble' = (trouble \/ j < Len(items))

\* Mutated form: one entry too far, into what an earlier call has left.
MoreInclusive == pos <= count /\ pos \in Offsets

\* The condition of dirlist's for loop.
More == pos < count

\* An entry that is not one, which More excludes, has no length of its own.
Reclen(entry) == IF entry = 0 THEN 1 ELSE lens[entry]

\* dirlist prints the entry at pos and goes to the one behind it.
PrintEntry ==
  /\ pc = "walk" /\ cmd = "ls" /\ More
  /\ \E j \in {0, 1} : Prints(<<buffer[pos]>>, j)
  /\ pos' = pos + Reclen(buffer[pos])
  /\ UNCHANGED <<cmd, lens, pc, given, buffer, count>>

\* Mutated forms: a buffer that is not full is taken for the last one, or an
\* error is tried again.
NextBufferFull ==
  /\ pc = "walk" /\ cmd = "ls" /\ ~More
  /\ pc' = IF count = BufSize THEN "fill" ELSE "done"
  /\ UNCHANGED <<cmd, lens, given, buffer, count, pos, out, trouble>>
NextBufferRetries ==
  /\ pc = "walk" /\ cmd = "ls" /\ ~More
  /\ pc' = IF count # 0 THEN "fill" ELSE "done"
  /\ UNCHANGED <<cmd, lens, given, buffer, count, pos, out, trouble>>

\* dirlist's do loop goes on unless there was nothing or an error.
NextBuffer ==
  /\ pc = "walk" /\ cmd = "ls" /\ ~More
  /\ pc' = IF count > 0 THEN "fill" ELSE "done"
  /\ UNCHANGED <<cmd, lens, given, buffer, count, pos, out, trouble>>

\* cmd_cat's loop writes all of the buffer at once, and goes on whatever the
\* result; it returns when there was nothing or an error.
cmd_cat ==
  /\ pc = "walk" /\ cmd = "cat"
  /\ IF count > 0
       THEN /\ \E j \in 0 .. count : Prints([p \in 1 .. count |-> buffer[p - 1]], j)
            /\ pc' = "fill"
       ELSE pc' = "done" /\ UNCHANGED <<out, trouble>>
  /\ UNCHANGED <<cmd, lens, given, buffer, count, pos>>

\* Back in the loop of init.c.
CommandReturns ==
  /\ pc = "done"
  /\ cmd' = "none" /\ lens' = <<>> /\ pc' = "idle"
  /\ given' = 0 /\ count' = 0 /\ pos' = 0
  /\ buffer' = [p \in Offsets |-> 0]
  /\ out' = <<>> /\ trouble' = FALSE

\* What happens between the open and the end of the command.
Loop == Fill \/ PrintEntry \/ NextBuffer \/ cmd_cat \/ CommandReturns

-----------------------------------------------------------------------------
\* The variables of the loops have their types.
FileTypeOK ==
  /\ cmd \in {"ls", "cat", "none"}
  /\ Len(lens) <= MaxItems /\ \A j \in DOMAIN lens : lens[j] \in 1 .. MaxLen
  /\ pc \in {"idle", "open", "fill", "walk", "done"}
  /\ given \in 0 .. Len(lens)
  /\ buffer \in [Offsets -> 0 .. Len(lens)]
  /\ count \in -1 .. BufSize /\ pos \in 0 .. BufSize
  /\ trouble \in BOOLEAN

\* What is printed are entries, or bytes, in their order and none twice: the
\* walk through the buffer by record lengths only meets entries of this call,
\* also where longer ones of an earlier call are still behind them.
InOrder ==
  /\ \A j \in DOMAIN out : out[j] \in DOMAIN lens
  /\ \A j, k \in DOMAIN out : j < k => out[j] < out[k]

\* A command that returns and has met no error has printed everything, however
\* the kernel has portioned it.
PrintsAll == pc = "done" /\ ~trouble => Len(out) = Len(lens)

\* Nothing behind the first n entries is printed, and they all are if there
\* was no error.
PrintedTo(n) ==
  /\ \A j \in DOMAIN out : out[j] <= n
  /\ ~trouble => Len(out) = n

\* The last k entries given out fill the buffer up to count, and the walk has
\* come to the end of the i-th of them.
Walking(k, at, i) ==
  /\ at[0] = 0 /\ at[k] = count /\ at[i] = pos
  /\ \A j \in 1 .. k : /\ at[j] = at[j - 1] + lens[(given - k) + j]
                       /\ buffer[at[j - 1]] = (given - k) + j
  /\ PrintedTo((given - k) + i)

\* Why InOrder and PrintsAll hold: between two calls everything given out has
\* been printed, during the walk everything before pos.
FileInv ==
  /\ FileTypeOK
  /\ lens \in Seq(1 .. MaxLen) /\ out \in Seq(1 .. Len(lens))
  /\ cmd = "cat" => \A j \in DOMAIN lens : lens[j] = 1
  /\ InOrder
  /\ pc = "idle" => lens = <<>>
  /\ pc \in {"idle", "open"} => given = 0 /\ out = <<>> /\ ~trouble
  /\ pc = "fill" => PrintedTo(given)
  /\ pc = "walk" =>
       \/ count = -1 /\ trouble /\ pos = 0
       \/ count = 0 /\ PrintedTo(Len(lens)) /\ pos = 0
       \/ /\ count > 0 /\ (cmd = "cat" => pos = 0)
          /\ \E k \in 1 .. given : \E at \in [0 .. k -> 0 .. BufSize] :
               \E i \in 0 .. k : Walking(k, at, i)
  /\ PrintsAll

=============================================================================
