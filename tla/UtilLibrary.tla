---------------------------- MODULE UtilLibrary -----------------------------
(***************************************************************************)
(* The functions of util/util.c together.  They share nothing, so a        *)
(* behaviour is one call of one of them, and the others' variables keep    *)
(* the values of a call that is over.                                      *)
(***************************************************************************)
EXTENDS MemUtil

CONSTANTS Bits, BufLen, StrSize, CharMod

\* The buffer of ltoa and of intstr: a sign, the digits, a NUL, "large enough
\* for -9223372036854775808".
ASSUME UtilAssumption ==
  /\ StrSize \in Nat \ {0} /\ CharMod \in Nat /\ CharMod >= 2
  /\ Bits \in Nat \ {0} /\ BufLen \in Nat /\ BufLen >= 3
  /\ 2 ^ (Bits - 1) < 10 ^ (BufLen - 2)

\* Arithmetic that the provers do not know: what a power is.
ASSUME PowerAssumption ==
  /\ 2 ^ (Bits - 1) \in Nat \ {0} /\ 2 ^ Bits = 2 * 2 ^ (Bits - 1)
  /\ 10 ^ 0 = 1
  /\ \A k \in 0 .. BufLen : 10 ^ k \in Nat /\ 10 ^ (k + 1) = 10 * 10 ^ k

VARIABLES
  pc, conv, val, in, abs, next, buffer, out,   \* of IntToStr
  f, s1, s2, c, old, i, ret                    \* of StrUtil

Num == INSTANCE IntToStr WITH fn <- conv, n <- abs, pos <- next
Str == INSTANCE StrUtil WITH fn <- f, Size <- StrSize

num_vars == <<pc, conv, val, in, abs, next, buffer, out>>
str_vars == <<f, s1, s2, c, old, i, ret>>

MemIdle == Init /\ n = 0 /\ dst = 0 /\ src = 0 /\ fn = "memset" /\ b = mem[0]

LibInit ==
  \/ Init /\ Num!Idle /\ Str!Idle
  \/ MemIdle /\ Num!Init /\ Str!Idle
  \/ MemIdle /\ Num!Idle /\ Str!Init

LibNext ==
  \/ Next /\ UNCHANGED <<num_vars, str_vars>>
  \/ Num!Next /\ UNCHANGED <<vars, str_vars>>
  \/ Str!Next /\ UNCHANGED <<vars, num_vars>>

LibSpec == LibInit /\ [][LibNext]_<<vars, num_vars, str_vars>>

-----------------------------------------------------------------------------
\* The variables of all functions have their types.
LibTypeOK == TypeOK /\ Num!TypeOK /\ Str!TypeOK

\* "large enough for -9223372036854775808" (ltoa, intstr): no store is outside
\* the buffer, also not for the smallest number, which fills it entirely.
InBuffer == Num!InBuffer

\* write_int prints the number it is given, up to the largest long, and from
\* there on the negative one of the same bits; the copy that int_to_str returns
\* holds the digits of SYSCHECK's error.  Also the smallest number is right,
\* whose negation overflows.
PrintsNumber == Num!PrintsNumber

\* No loop of strlen, strchr, streq, strcpy or memcmp looks or stores behind
\* the NUL of a string it was given, or behind the length.
InString == Str!InString

\* Whatever lies behind the end of the strings: strlen gives the length, strchr
\* the first place of a character other than the NUL, streq 1 for equal strings
\* only, strcpy copies up to the NUL, and memcmp gives 0 for equal bytes only
\* (nothing is said of its sign).
Right == Str!Right

\* Why they hold: which bytes of a copy have had their turn, what the loops of
\* the string functions know of the characters they have passed, and that the
\* rest of a number's digits and its sign fit in front of what is written, which
\* are its last digits.
LibInv ==
  /\ LibTypeOK /\ LoopInv /\ Str!StringInv /\ Right
  /\ Num!DigitsFit /\ Num!DigitsRight
=============================================================================
