------------------------------ MODULE ArgParse ------------------------------
(***************************************************************************)
(* How init/command.c takes a command line apart: process_command splits   *)
(* off the program, the builtins and busybox() split off their arguments,  *)
(* and fill_args stores pointers to them in the array given to execveat.   *)
(* Everything happens in place: the line is memory, an argument is a       *)
(* pointer into it, and terminate_arg ends one by overwriting the blank    *)
(* behind it.                                                              *)
(*                                                                         *)
(* The line may hold anything, also a NUL before its end, and what follows *)
(* the first NUL is whatever earlier lines left in the buffer.  Which      *)
(* program the first word names is left open.                              *)
(***************************************************************************)
EXTENDS Integers, FiniteSets, FiniteSetsExt

CONSTANTS
  MaxArgs,     \* MAX_ARGS: pointers in the array given to execveat
  LineLength,  \* bound: characters before the NUL that process_input stores
  NULL,        \* the null pointer
  Unset,       \* a pointer nobody has stored yet
  Busybox      \* the string constant "/busybox"

ASSUME ArgAssumption ==
  /\ MaxArgs \in Nat /\ MaxArgs >= 3
  /\ LineLength \in Nat
  /\ {NULL, Unset, Busybox} \cap 0 .. LineLength = {}
  /\ NULL # Unset /\ NULL # Busybox /\ Unset # Busybox

Positions == 0 .. LineLength
NUL == "nul"
Blanks == {"space", "tab"}
Chars == Blanks \cup {"letter", NUL}

VARIABLES
  typed,   \* history: the line as it was read
  line,    \* the line as it is now
  pc,      \* what runs next
  kind,    \* which program the first word names
  prog,    \* process_command's pointer to that word
  next,    \* where the rest of the line starts, or NULL
  args,    \* the array; position MaxArgs is the memory behind it
  first,   \* the element of args that fill_args is given
  i        \* fill_args: arguments stored

vars == <<typed, line, pc, kind, prog, next, args, first, i>>

Kinds == {"plain", "path", "memrun", "busybox"}

-----------------------------------------------------------------------------

\* Where a scan from p stops that goes on while the character is in skip.
ScanEnd(mem, p, skip) == Min({q \in p .. LineLength : mem[q] \notin skip})

\* Mutated form: tabs are not skipped.
find_arg_space_only(mem, p) ==
  LET q == ScanEnd(mem, p, {"space"}) IN IF mem[q] = NUL THEN NULL ELSE q

find_arg(mem, p) ==
  LET q == ScanEnd(mem, p, Blanks) IN IF mem[q] = NUL THEN NULL ELSE q

\* The character behind the argument at p.
ArgEnd(mem, p) == ScanEnd(mem, p, {"letter"})

\* Mutated forms: the NUL at the end of the line is stepped over, always or
\* only while the buffer goes on.
terminate_arg_always_steps(mem, p) == ArgEnd(mem, p) + 1
terminate_arg_past_end(mem, p) ==
  LET q == ArgEnd(mem, p) IN IF q = LineLength THEN q ELSE q + 1

\* What terminate_arg returns, and the line it leaves.
terminate_arg(mem, p) ==
  LET q == ArgEnd(mem, p) IN IF mem[q] = NUL THEN q ELSE q + 1
terminated(mem, p) == [mem EXCEPT ![ArgEnd(mem, p)] = NUL]

-----------------------------------------------------------------------------

Init ==
  /\ typed \in {m \in [Positions -> Chars] : m[LineLength] = NUL}
  /\ line = typed
  /\ pc = "command"
  /\ kind = Unset /\ prog = Unset /\ next = Unset
  /\ args = [k \in 0 .. MaxArgs |-> Unset]
  /\ first = 0 /\ i = 0

\* The first word decides: a builtin without arguments, one with a path (ls,
\* cat), memrun, or the name of a busybox applet.
process_command ==
  LET p == find_arg(line, 0)
  IN  /\ pc = "command"
      /\ \/ /\ p = NULL
            /\ pc' = "done"
            /\ UNCHANGED <<line, kind, prog, next>>
         \/ /\ p # NULL
            /\ prog' = p
            /\ next' = terminate_arg(line, p)
            /\ line' = terminated(line, p)
            /\ kind' \in Kinds
            /\ pc' = IF kind' = "plain" THEN "done" ELSE kind'
      /\ UNCHANGED <<typed, args, first, i>>

\* cmd_ls, cmd_cat: the path, if there is one.
path_command ==
  LET p == find_arg(line, next)
  IN  /\ pc = "path"
      /\ pc' = "done"
      /\ next' = IF p = NULL THEN next ELSE terminate_arg(line, p)
      /\ line' = IF p = NULL THEN line ELSE terminated(line, p)
      /\ UNCHANGED <<typed, kind, prog, args, first, i>>

\* cmd_memrun: the path is args[0]; fill_args gets what terminate_arg returned.
cmd_memrun ==
  LET p == find_arg(line, next)
  IN  /\ pc = "memrun"
      /\ \/ /\ p = NULL
            /\ pc' = "done"
            /\ UNCHANGED <<line, next, args, first>>
         \/ /\ p # NULL
            /\ next' = terminate_arg(line, p)
            /\ line' = terminated(line, p)
            /\ args' = [args EXCEPT ![0] = p]
            /\ first' = 1
            /\ pc' = "fill"
      /\ UNCHANGED <<typed, kind, prog, i>>

busybox ==
  /\ pc = "busybox"
  /\ next' = find_arg(line, next)
  /\ args' = [args EXCEPT ![0] = Busybox, ![1] = prog]
  /\ first' = 2
  /\ pc' = "fill"
  /\ UNCHANGED <<typed, line, kind, prog, i>>

\* The loop of fill_args: maxargs is what is left of the array.
MoreArgs == next # NULL /\ i < MaxArgs - first

fill_args_loop ==
  LET temp == terminate_arg(line, next)
      mem == terminated(line, next)
  IN  /\ pc = "fill"
      /\ MoreArgs
      /\ line' = mem
      /\ args' = [args EXCEPT ![first + i] = next]
      /\ next' = find_arg(mem, temp)
      /\ i' = i + 1
      /\ UNCHANGED <<typed, pc, kind, prog, first>>

\* Its end: the comparison is with MAX_ARGS, not with maxargs.
fill_args_end ==
  /\ pc = "fill"
  /\ ~MoreArgs
  /\ args' = IF i = MaxArgs THEN args ELSE [args EXCEPT ![first + i] = NULL]
  /\ pc' = "exec"
  /\ UNCHANGED <<typed, line, kind, prog, next, first, i>>

Next ==
  \/ process_command \/ path_command \/ cmd_memrun \/ busybox
  \/ fill_args_loop \/ fill_args_end

Spec == Init /\ [][Next]_vars

-----------------------------------------------------------------------------
(* The words of the line, defined without scanning it.                     *)

LineEnd == Min({q \in Positions : typed[q] = NUL})
WordStarts ==
  {s \in 0 .. (LineEnd - 1) :
     typed[s] \notin Blanks /\ (s > 0 => typed[s - 1] \in Blanks)}
WordEnd(s) == Min({q \in s .. LineEnd : typed[q] \in Blanks \cup {NUL}})
StringEnd(p) == Min({q \in p .. LineLength : line[q] = NUL})

\* How many words start before p.
Before(p) == Cardinality({t \in WordStarts : t < p})

\* The pointer is the start of word n and the string there is that word.
IsWord(p, n) == p \in WordStarts /\ Before(p) = n /\ StringEnd(p) = WordEnd(p)

\* The empty argument cmd_memrun can put in front of the others.
Empties == IF kind = "memrun" /\ args[1] # NULL /\ StringEnd(args[1]) = args[1]
             THEN 1 ELSE 0

\* The word that element n of the array stands for, with e of them empty.
Nth(n, e) == IF kind = "busybox" THEN n - 1 ELSE IF n = 0 THEN 1 ELSE (n + 1) - e
WordOf(n) == Nth(n, Empties)

-----------------------------------------------------------------------------
(* Properties.                                                             *)

Pointers == Positions \cup {NULL, Unset, Busybox}

\* Every pointer is null, unset or inside the line.
TypeOK ==
  /\ typed \in [Positions -> Chars] /\ line \in [Positions -> Chars]
  /\ pc \in {"command", "path", "memrun", "busybox", "fill", "exec", "done"}
  /\ kind \in Kinds \cup {Unset}
  /\ prog \in Pointers /\ next \in Pointers
  /\ args \in [0 .. MaxArgs -> Pointers]
  /\ first \in 0 .. 2 /\ i \in 0 .. MaxArgs

\* What the program is given is what was typed: element by element the words
\* of the line, whatever the blanks between them, cut off only by the size of
\* the array, and each string ends where its word ends although find_arg and
\* terminate_arg work on a line they are overwriting.  The one exception is
\* an empty string that cmd_memrun, which does not call find_arg behind the
\* path, can put in front of the others.
ArgsAreWords ==
  pc = "exec" =>
    \A n \in (IF kind = "busybox" THEN 1 ELSE 0) .. (MaxArgs - 1) :
      (kind = "memrun" /\ n = 1 /\ Empties = 1) \/
        IF WordOf(n) < Cardinality(WordStarts)
          THEN IsWord(args[n], WordOf(n))
          ELSE args[n] = IF WordOf(n) = Cardinality(WordStarts) THEN NULL ELSE Unset

\* Nothing behind the NUL that ends the line is looked at or changed, so what
\* an earlier, longer line left in the buffer never shows.
StaysInLine ==
  /\ \A q \in Positions : q >= LineEnd => line[q] = typed[q]
  /\ next \in Positions => next <= LineEnd
  /\ \A k \in 0 .. MaxArgs : args[k] \in Positions => args[k] <= LineEnd

\* The rest of the line from p on: still as it was typed, and p is not within a
\* word.
Fresh(p) ==
  /\ p \in 0 .. LineEnd
  /\ \A q \in p .. LineLength : line[q] = typed[q]
  /\ p = 0 \/ typed[p] # "letter" \/ typed[p - 1] \in Blanks

\* The elements that are the line's own: busybox's first is a constant.
Lowest == IF kind = "busybox" THEN 1 ELSE 0

\* An element in front of the rest of the line, and what it has to be.
Stored(n, e) ==
  /\ args[n] \in 0 .. LineEnd
  /\ IF e = 1 /\ n = 1 THEN StringEnd(args[n]) = args[n] ELSE IsWord(args[n], Nth(n, e))
  /\ next # NULL => StringEnd(args[n]) <= next

\* fill_args has stored its elements, and next is the word that comes after
\* them, or the empty string behind memrun's path, or there is none.
Filling(e) ==
  /\ e = 1 => kind = "memrun"
  /\ \A n \in Lowest .. ((first + i) - 1) : Stored(n, e)
  /\ \A n \in (first + i) .. MaxArgs : args[n] = Unset
  /\ IF next = NULL
       THEN Nth(first + i, e) = Cardinality(WordStarts) /\ (kind = "memrun" => i > 0)
       ELSE /\ Fresh(next)
            /\ IF e = 1 /\ i = 0 THEN typed[next] # "letter" /\ Before(next) = 2
               ELSE next \in WordStarts /\ Before(next) = Nth(first + i, e)

\* Why ArgsAreWords and StaysInLine hold.
WordsInv ==
  /\ TypeOK /\ StaysInLine /\ ArgsAreWords
  /\ typed[LineLength] = NUL
  /\ pc = "command" => line = typed
  /\ pc \in {"command", "path", "memrun", "busybox"} =>
       first = 0 /\ i = 0 /\ \A n \in 0 .. MaxArgs : args[n] = Unset
  /\ pc \in {"path", "memrun", "busybox"} =>
       /\ kind = pc /\ prog \in 0 .. LineEnd /\ IsWord(prog, 0)
       /\ Fresh(next) /\ StringEnd(prog) <= next /\ Before(next) = 1
  /\ pc = "fill" =>
       /\ kind \in {"memrun", "busybox"} /\ first = IF kind = "memrun" THEN 1 ELSE 2
       /\ i <= MaxArgs - first
       /\ \E e \in {0, 1} : Filling(e)

\* fill_args stores into the maxargs elements of its parameter
\* "char *args[maxargs]" and nowhere else.
StoresInArray == args[MaxArgs] = Unset
=============================================================================
