------------------------------ MODULE StrUtil -------------------------------
(***************************************************************************)
(* The string functions of util/util.c and streq of init/command.c, one    *)
(* step for each turn of their loops, on arrays that hold a string and     *)
(* whatever is behind its NUL.                                             *)
(***************************************************************************)
EXTENDS Integers

CONSTANTS
  Size,     \* the length of the arrays
  CharMod   \* how many values a char has

Char  == 0 .. (CharMod - 1)
Nul   == 0
Index == 0 .. (Size - 1)
Array == [Index -> Char]
HasEnd(s) == \E k \in Index : s[k] = Nul

VARIABLES
  fn,          \* the function
  s1, s2, c,   \* its arguments: for strcpy, s1 is the destination; c is the
               \* character of strchr and the length of memcmp
  old,         \* s1 when it was called
  i,           \* how far the loop is
  ret          \* its result

vars == <<fn, s1, s2, c, old, i, ret>>

NoResult == -2
NULL == -1     \* strchr's; other results are indices, 0 or 1, or a difference

Init ==
  /\ fn \in {"strlen", "strchr", "streq", "strcpy", "memcmp"}
  /\ s1 \in Array /\ s2 \in Array
  /\ fn \in {"strlen", "strchr", "streq"} => HasEnd(s1)
  /\ fn \in {"streq", "strcpy"} => HasEnd(s2)
  /\ fn \in {"strlen", "strchr"} => s2 = s1
  /\ c \in IF fn = "strchr" THEN Char ELSE IF fn = "memcmp" THEN 0 .. Size ELSE {0}
  /\ old = s1 /\ i = 0 /\ ret = NoResult

\* No call: one that has found the length of an empty string.
Idle ==
  /\ fn = "strlen" /\ c = 0 /\ i = 0 /\ ret = 0
  /\ s1 = [k \in Index |-> Nul] /\ s2 = s1 /\ old = s1

Running(f) == fn = f /\ ret = NoResult
Turn(more, result) ==
  /\ IF more THEN i' = i + 1 /\ ret' = ret ELSE ret' = result /\ i' = i
  /\ UNCHANGED <<fn, s2, c, old>>

nolibc_strlen ==
  Running("strlen") /\ Turn(s1[i] # Nul, i) /\ UNCHANGED s1

\* Finds no NUL: the loop ends before it looks.
strchr ==
  /\ Running("strchr")
  /\ Turn(s1[i] # Nul /\ s1[i] # c, IF s1[i] = Nul THEN NULL ELSE i)
  /\ UNCHANGED s1

\* Mutated forms: the end of the first string is enough, or not looked for.
streq_prefix ==
  /\ Running("streq")
  /\ Turn(s1[i] # Nul /\ s1[i] = s2[i], IF s1[i] = Nul THEN 1 ELSE 0)
  /\ UNCHANGED s1
streq_past_end ==
  /\ Running("streq")
  /\ Turn(s1[i] = s2[i] /\ i + 1 \in Index, IF s1[i] = s2[i] THEN 1 ELSE 0)
  /\ UNCHANGED s1

streq ==
  /\ Running("streq")
  /\ Turn(s1[i] = s2[i] /\ s1[i] # Nul, IF s1[i] = s2[i] THEN 1 ELSE 0)
  /\ UNCHANGED s1

strcpy ==
  /\ Running("strcpy")
  /\ s1' = [s1 EXCEPT ![i] = s2[i]]
  /\ Turn(s2[i] # Nul, 0)

\* The difference is cut to a char: zero if and only if the bytes are equal.
Difference == IF i < c THEN (s1[i] - s2[i]) % CharMod ELSE 0
memcmp ==
  Running("memcmp") /\ Turn(i < c /\ Difference = 0, Difference) /\ UNCHANGED s1

Next == nolibc_strlen \/ strchr \/ streq \/ strcpy \/ memcmp

Spec == Init /\ [][Next]_vars

-----------------------------------------------------------------------------
\* The variables have their types.
TypeOK ==
  /\ fn \in {"strlen", "strchr", "streq", "strcpy", "memcmp"}
  /\ s1 \in Array /\ s2 \in Array /\ old \in Array
  /\ c \in Char \cup 0 .. Size
  /\ i \in 0 .. Size
  /\ ret \in {NoResult, NULL} \cup Char \cup Index

\* The position of the NUL that ends a string.
EndOf(s) == CHOOSE k \in Index : s[k] = Nul /\ \A j \in 0 .. (k - 1) : s[j] # Nul

\* No loop looks or stores behind the NUL of a string it was given, or behind
\* the length.
InString ==
  ret = NoResult =>
    /\ fn \in {"strlen", "strchr", "streq"} => i <= EndOf(s1)
    /\ fn \in {"streq", "strcpy"} => i <= EndOf(s2)
    /\ fn = "memcmp" => i <= c

\* The results: length, first occurrence, equality of the strings (not of
\* what is behind them: "l" and "lsx" are not "ls"), copy, equal bytes.
Right ==
  ret # NoResult =>
    /\ fn = "strlen" => ret = EndOf(s1)
    /\ fn = "strchr" =>
         LET found == {k \in 0 .. (EndOf(s1) - 1) : s1[k] = c}
         IN  IF found = {} THEN ret = NULL
                           ELSE ret \in found /\ \A k \in found : ret <= k
    /\ fn = "streq" =>
         (ret = 1 <=> EndOf(s1) = EndOf(s2) /\ \A k \in 0 .. EndOf(s1) : s1[k] = s2[k])
    /\ fn = "strcpy" =>
         \A k \in Index : s1[k] = IF k <= EndOf(s2) THEN s2[k] ELSE old[k]
    /\ fn = "memcmp" => (ret = 0 <=> \A k \in 0 .. (c - 1) : s1[k] = s2[k])

\* Why InString and Right hold: the strings have ends, and what a loop knows
\* of the characters it has passed.
StringInv ==
  /\ fn \in {"strlen", "strchr", "streq"} => HasEnd(s1)
  /\ fn \in {"streq", "strcpy"} => HasEnd(s2)
  /\ fn = "memcmp" => c \in 0 .. Size
  /\ ret = NoResult =>
       /\ fn \in {"strlen", "strchr", "streq"} => \A k \in 0 .. (i - 1) : s1[k] # Nul
       /\ fn = "strcpy" => \A k \in 0 .. (i - 1) : s2[k] # Nul
       /\ fn = "strchr" => \A k \in 0 .. (i - 1) : s1[k] # c
       /\ fn \in {"streq", "memcmp"} => \A k \in 0 .. (i - 1) : s1[k] = s2[k]
       /\ fn = "memcmp" => i <= c
       /\ fn = "strcpy" => \A k \in Index : s1[k] = IF k < i THEN s2[k] ELSE old[k]
=============================================================================
