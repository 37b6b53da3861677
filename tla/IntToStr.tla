------------------------------ MODULE IntToStr ------------------------------
(***************************************************************************)
(* ltoa and int_to_str of util/util.c, which write a number's digits from  *)
(* the end of a buffer forwards, and their callers write_int and SYSCHECK, *)
(* which print what the returned pointer designates.  The two functions    *)
(* have the same loop; ltoa's buffer is static, int_to_str's is a local    *)
(* variable of which it returns a copy, with a pointer into the original.  *)
(***************************************************************************)
EXTENDS Integers, Sequences, FiniteSetsExt

CONSTANTS
  Bits,     \* the width of long and intmax_t
  BufLen    \* the length of the buffer: sign, digits of the smallest, NUL

\* Characters: the digits are numbers, Junk is what nobody has stored.
Dash == 10
Nul  == 11
Junk == 12

VARIABLES
  pc, fn,
  val,           \* what the caller was given: write_int's val, SYSCHECK's res
  in,            \* the function's argument
  n,             \* its absolute value, unsigned
  pos,           \* where the next character goes
  buffer,
  out            \* what the caller has printed, or NotPrinted

vars == <<pc, fn, val, in, n, pos, buffer, out>>

Long == -(2 ^ (Bits - 1)) .. (2 ^ (Bits - 1) - 1)
NotPrinted == <<>>
Overwritten == <<Junk>>

\* write_int's uint64_t becomes ltoa's long.
ToLong(v) == IF v >= 2 ^ (Bits - 1) THEN v - 2 ^ Bits ELSE v

\* write_int calls ltoa with any value, SYSCHECK int_to_str with an error.
Init ==
  /\ \/ fn = "ltoa" /\ val \in 0 .. (2 ^ Bits - 1) /\ in = ToLong(val)
     \/ fn = "int_to_str" /\ val \in {i \in Long : i < 0} /\ in = val
  /\ pc = "begin" /\ n = 0
  /\ pos = BufLen - 1
  /\ buffer = [i \in 0 .. (BufLen - 1) |-> Junk]
  /\ out = NotPrinted

\* No call: one that has printed 0.
Idle ==
  /\ fn = "ltoa" /\ val = 0 /\ in = 0 /\ n = 0 /\ pos = BufLen - 3 /\ pc = "printed"
  /\ buffer = [i \in 0 .. (BufLen - 1) |-> IF i = BufLen - 1 THEN Nul ELSE 0]
  /\ out = <<0>>

\* A store through pos, if that is inside the buffer.
Store(c) ==
  /\ buffer' = [i \in DOMAIN buffer |-> IF i = pos THEN c ELSE buffer[i]]
  /\ pos' = pos - 1

\* The smallest value is its own negation, and right as an unsigned number.
Begin ==
  /\ pc = "begin"
  /\ n' = IF in < 0 THEN (-in) % 2 ^ Bits ELSE in
  /\ Store(Nul)
  /\ pc' = "digit"
  /\ UNCHANGED <<fn, val, in, out>>

\* Mutated forms: the loop ends one digit early, or runs whatever pos is.
DigitStopsEarly ==
  /\ pc = "digit"
  /\ Store(n % 10)
  /\ n' = n \div 10
  /\ pc' = IF pos' < 0 THEN "return" ELSE IF n' > 9 THEN "digit" ELSE "sign"
  /\ UNCHANGED <<fn, val, in, out>>
DigitFillsBuffer ==
  /\ pc = "digit"
  /\ Store(n % 10)
  /\ n' = n \div 10
  /\ pc' = IF pos' < 0 THEN "sign" ELSE "digit"
  /\ UNCHANGED <<fn, val, in, out>>

Digit ==
  /\ pc = "digit"
  /\ Store(n % 10)
  /\ n' = n \div 10
  /\ pc' = IF pos' < 0 THEN "return" ELSE IF n' # 0 THEN "digit" ELSE "sign"
  /\ UNCHANGED <<fn, val, in, out>>

Sign ==
  /\ pc = "sign"
  /\ IF in < 0 THEN Store(Dash) ELSE UNCHANGED <<buffer, pos>>
  /\ pc' = "return"
  /\ UNCHANGED <<fn, val, in, n, out>>

\* The string at an index: what strlen and write take it to be.
StringAt(i) ==
  LET end == Min({k \in DOMAIN buffer : k >= i /\ buffer[k] = Nul})
  IN  [k \in 1 .. (end - i) |-> buffer[i + k - 1]]

write_int ==
  /\ pc = "return" /\ fn = "ltoa"
  /\ out' = StringAt(pos + 1)
  /\ pc' = "printed"
  /\ UNCHANGED <<fn, val, in, n, pos, buffer>>

\* The member str of what int_to_str returns points into its frame, which is
\* dead by then: the digits are still there, or anything is.
SYSCHECK ==
  /\ pc = "return" /\ fn = "int_to_str"
  /\ out' \in {StringAt(pos + 1), Overwritten}
  /\ pc' = "printed"
  /\ UNCHANGED <<fn, val, in, n, pos, buffer>>

Next == Begin \/ Digit \/ Sign \/ write_int \/ SYSCHECK

Spec == Init /\ [][Next]_vars

-----------------------------------------------------------------------------
\* The variables have their types.
TypeOK ==
  /\ pc \in {"begin", "digit", "sign", "return", "printed"}
  /\ fn \in {"ltoa", "int_to_str"} /\ in \in Long
  /\ n \in 0 .. (2 ^ Bits - 1)
  /\ pos \in -1 .. (BufLen - 1)
  /\ buffer \in [0 .. (BufLen - 1) -> 0 .. Junk]

\* What digits stand for: each counts with ten times what is before it.
Value(digits) ==
  LET upto[k \in 0 .. Len(digits)] == IF k = 0 THEN 0 ELSE 10 * upto[k - 1] + digits[k]
  IN  upto[Len(digits)]

Magnitude == IF in < 0 THEN -in ELSE in

\* The string is the decimal notation of i: a dash for a negative one, then
\* digits, the first not zero unless it is the only one.
Denotes(string, i) ==
  LET digits == IF i < 0 THEN Tail(string) ELSE string
  IN  /\ i < 0 => string # <<>> /\ Head(string) = Dash
      /\ digits # <<>> /\ \A k \in DOMAIN digits : digits[k] \in 0 .. 9
      /\ Len(digits) > 1 => digits[1] # 0
      /\ Value(digits) = IF i < 0 THEN -i ELSE i

\* "large enough for -9223372036854775808": no store is outside the buffer,
\* also not for the smallest number, which fills it to the first byte.
InBuffer == pc \in {"begin", "digit"} \/ (pc = "sign" /\ in < 0) => pos >= 0

\* Why InBuffer holds: in front of pos there is room for the digits of n and
\* for the sign.
DigitsFit ==
  /\ pc = "begin" => pos = BufLen - 1
  /\ pc = "digit" => pos \in 1 .. (BufLen - 2) /\ n < 10 ^ pos
  /\ pc = "sign" => pos >= 0

\* write_int prints the number it is given, up to the largest long; a larger
\* one is printed as the negative number that has the same bits, which is what
\* its callers have converted (errors, an exit status), including the smallest,
\* whose negation overflows.  The copy that int_to_str returns holds the
\* notation of SYSCHECK's error; what SYSCHECK prints is not said, because it
\* reads the original.
PrintsNumber ==
  pc = "printed" =>
    /\ fn = "ltoa" /\ val < 2 ^ (Bits - 1) => Denotes(out, val)
    /\ fn = "ltoa" /\ val >= 2 ^ (Bits - 1) => Denotes(out, val - 2 ^ Bits)
    /\ fn = "int_to_str" => Denotes(StringAt(pos + 1), val)

\* From p on the buffer holds the last digits of the number, or all of them.
LastDigits(p) ==
  /\ buffer[BufLen - 1] = Nul
  /\ \A k \in p .. (BufLen - 2) : buffer[k] = (Magnitude \div 10 ^ ((BufLen - 2) - k)) % 10
AllDigits(p) ==
  /\ p \in 0 .. (BufLen - 2) /\ LastDigits(p)
  /\ Magnitude \div 10 ^ ((BufLen - 1) - p) = 0
  /\ p < BufLen - 2 => Magnitude \div 10 ^ ((BufLen - 2) - p) # 0

\* The argument is what the caller was given, as a long.
Converted ==
  \/ fn = "ltoa" /\ val \in 0 .. (2 ^ Bits - 1) /\ in = ToLong(val)
  \/ fn = "int_to_str" /\ in = val

\* The buffer holds the notation of the argument, and ltoa's is printed.
Printed ==
  pc = "printed" =>
    /\ Denotes(StringAt(pos + 1), in)
    /\ fn = "ltoa" => out = StringAt(pos + 1)

\* Why PrintsNumber holds: n is the number without the digits that are there.
DigitsRight ==
  /\ pc = "digit" => /\ LastDigits(pos + 1)
                     /\ n = Magnitude \div 10 ^ ((BufLen - 2) - pos)
                     /\ pos < BufLen - 2 => n # 0
  /\ pc = "sign" => AllDigits(pos + 1)
  /\ pc = "return" => IF in < 0 THEN buffer[pos + 1] = Dash /\ AllDigits(pos + 2)
                                ELSE AllDigits(pos + 1)
  /\ Converted /\ Printed
=============================================================================
