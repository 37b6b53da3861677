------------------------- MODULE UtilLibraryProofs --------------------------
(***************************************************************************)
(* The functions of util/util.c, for memories, strings and numbers of any  *)
(* size: memmove, memcpy and memset copy right however source and          *)
(* destination overlap, the string functions stay in their strings and     *)
(* return what they should, a number's digits fit into the buffer and what *)
(* is printed is the number.                                               *)
(***************************************************************************)
EXTENDS UtilLibrary, LeastNumber, Sequences

Inv == TypeOK /\ LoopInv

-----------------------------------------------------------------------------
(* memmove, memcpy and memset.                                             *)

(* A call starts with no offset turned and the memory as it was. *)
LEMMA InitInv == Init => Inv
BY MemAssumption DEF Init, Inv, TypeOK, LoopInv, Turned, Ascends, Addr

(* A turn of memmove's loop: the byte read has not been overwritten, since *)
(* the turns go away from the bytes that are still to be read.             *)
LEMMA memmoveInv == Inv /\ memmove => Inv'
<1> SUFFICES ASSUME Inv, memmove PROVE Inv'
  OBVIOUS
<1> USE DEF Inv, TypeOK, memmove, args
<1>1. pos' \in 0 .. (n - 1) /\ pos' = IF dst <= src THEN n - len ELSE len - 1
  BY DEF LoopInv, Ascends
<1>2. dst + pos' \in Addr /\ src + pos' \in Addr
  BY <1>1, MemAssumption DEF Addr
<1>3. TypeOK'
  BY <1>1, <1>2
<1>4. mem[src + pos'] = mem0[src + pos']
  <2>1. (src + pos') - dst \notin Turned
    BY <1>1 DEF Turned, Ascends
  <2> QED
    BY <2>1, <1>2 DEF LoopInv
<1>5. LoopInv'
  <2>1. pos' = IF Ascends' THEN n' - len' - 1 ELSE len'
    BY <1>1 DEF Ascends
  <2>2. ASSUME NEW a \in Addr
        PROVE  mem'[a] = IF a - dst' \in Turned' THEN Wanted(a)' ELSE mem0'[a]
    <3>1. CASE a = dst + pos'
      BY <1>1, <1>2, <1>4, <3>1 DEF Turned, Ascends, Wanted
    <3>2. CASE a # dst + pos'
      <4>1. mem'[a] = mem[a]
        BY <3>2
      <4>2. a - dst' \in Turned' <=> a - dst \in Turned
        BY <1>1, <3>2 DEF Turned, Ascends, Addr
      <4> QED
        BY <4>1, <4>2 DEF LoopInv, Wanted
    <3> QED
      BY <3>1, <3>2
  <2> QED
    BY <2>1, <2>2 DEF LoopInv
<1> QED
  BY <1>3, <1>5

(* A turn of memset's loop. *)
LEMMA memsetInv == Inv /\ memset => Inv'
<1> SUFFICES ASSUME Inv, memset PROVE Inv'
  OBVIOUS
<1> USE DEF Inv, TypeOK, memset, args
<1>1. pos' \in 0 .. (n - 1) /\ pos' = n - len
  BY DEF LoopInv, Ascends
<1>2. dst + pos' \in Addr
  BY <1>1, MemAssumption DEF Addr
<1>3. TypeOK'
  BY <1>1, <1>2
<1>4. ASSUME NEW a \in Addr
      PROVE  mem'[a] = IF a - dst' \in Turned' THEN Wanted(a)' ELSE mem0'[a]
  <2>1. CASE a = dst + pos'
    BY <1>1, <1>2, <2>1 DEF Turned, Ascends, Wanted
  <2>2. CASE a # dst + pos'
    <3>1. a - dst' \in Turned' <=> a - dst \in Turned
      BY <1>1, <2>2 DEF Turned, Ascends, Addr
    <3> QED
      BY <3>1, <2>2 DEF LoopInv, Wanted
  <2> QED
    BY <2>1, <2>2
<1> QED
  BY <1>1, <1>3, <1>4 DEF LoopInv, Ascends

(* The loops keep their invariant: which offsets have had their turn, and  *)
(* that all others are as they were when the function was called.          *)
LEMMA LoopStep == Inv /\ [Next]_vars => Inv'
<1>1. Inv /\ UNCHANGED vars => Inv'
  BY DEF Inv, TypeOK, LoopInv, Turned, Ascends, Wanted, vars, args
<1> QED
  BY <1>1, memmoveInv, memsetInv DEF Next

(* When the loop is over, every offset has had its turn. *)
LEMMA InvMoved == Inv => Moved
<1> SUFFICES ASSUME TypeOK, LoopInv, len = 0, NEW a \in Addr
             PROVE  mem[a] = Wanted(a)
  BY DEF Moved, Inv
<1>1. a - dst \in Turned <=> a - dst \in 0 .. (n - 1)
  BY DEF TypeOK, Turned, Ascends, Addr
<1> QED
  BY <1>1 DEF LoopInv, Wanted

-----------------------------------------------------------------------------
(* The string functions.                                                   *)

StrInv == Str!TypeOK /\ Str!StringInv /\ Str!Right

(* A string that has an end has a first one. *)
LEMMA EndExists ==
  ASSUME UtilAssumption, NEW s \in Str!Array, Str!HasEnd(s)
  PROVE  /\ Str!EndOf(s) \in Str!Index /\ s[Str!EndOf(s)] = 0
         /\ \A j \in 0 .. (Str!EndOf(s) - 1) : s[j] # 0
<1> DEFINE T == {k \in Str!Index : s[k] = 0}
<1>1. T \in SUBSET Nat /\ T # {}
  BY DEF Str!HasEnd, Str!Index, Str!Nul
<1>2. PICK e \in T : \A y \in T : e <= y
  BY <1>1, Least
<1>3. e \in Str!Index /\ s[e] = 0 /\ \A j \in 0 .. (e - 1) : s[j] # 0
  BY <1>2 DEF Str!Index, UtilAssumption
<1> QED
  BY <1>3 DEF Str!EndOf, Str!Nul

(* ... and only one. *)
LEMMA EndUnique ==
  ASSUME UtilAssumption, NEW s \in Str!Array, NEW e \in Str!Index, s[e] = 0,
         \A j \in 0 .. (e - 1) : s[j] # 0
  PROVE  Str!EndOf(s) = e
<1>1. Str!HasEnd(s)
  BY DEF Str!HasEnd, Str!Nul
<1>2. /\ Str!EndOf(s) \in Str!Index /\ s[Str!EndOf(s)] = 0
      /\ \A j \in 0 .. (Str!EndOf(s) - 1) : s[j] # 0
  BY <1>1, EndExists
<1>3. Str!EndOf(s) \in Nat /\ e \in Nat
  BY <1>2 DEF Str!Index
<1> QED
  BY <1>2, <1>3

(* What has no NUL before it is not behind the end. *)
LEMMA NotBehindEnd ==
  ASSUME UtilAssumption, NEW s \in Str!Array, Str!HasEnd(s), NEW x \in Nat,
         \A j \in 0 .. (x - 1) : s[j] # 0
  PROVE  x <= Str!EndOf(s) /\ x \in Str!Index
<1>1. Str!EndOf(s) \in Str!Index /\ s[Str!EndOf(s)] = 0
  BY EndExists
<1>2. Str!EndOf(s) \in Nat /\ Str!EndOf(s) <= StrSize - 1
  BY <1>1 DEF Str!Index, UtilAssumption
<1> QED
  BY <1>1, <1>2 DEF Str!Index, UtilAssumption

(* No loop goes on behind the end of a string. *)
LEMMA StrInvInString == UtilAssumption /\ StrInv => InString
<1> SUFFICES ASSUME UtilAssumption, StrInv, ret = Str!NoResult
             PROVE  /\ f \in {"strlen", "strchr", "streq"} => i <= Str!EndOf(s1)
                    /\ f \in {"streq", "strcpy"} => i <= Str!EndOf(s2)
                    /\ f = "memcmp" => i <= c
  BY DEF InString, Str!InString
<1>1. s1 \in Str!Array /\ s2 \in Str!Array /\ i \in Nat
  BY DEF StrInv, Str!TypeOK
<1>2. f \in {"strlen", "strchr", "streq"} => i <= Str!EndOf(s1)
  BY <1>1, NotBehindEnd DEF StrInv, Str!StringInv, Str!Nul
<1>3. f \in {"streq", "strcpy"} => i <= Str!EndOf(s2)
  <2>1. f = "streq" => \A k \in 0 .. (i - 1) : s2[k] # 0
    BY DEF StrInv, Str!StringInv, Str!Nul
  <2> QED
    BY <1>1, <2>1, NotBehindEnd DEF StrInv, Str!StringInv, Str!Nul
<1>4. f = "memcmp" => i <= c
  BY DEF StrInv, Str!StringInv
<1> QED
  BY <1>2, <1>3, <1>4

(* A turn of strlen. *)
LEMMA StrlenTurn ==
  ASSUME UtilAssumption, StrInv, Str!nolibc_strlen
  PROVE  StrInv'
<1>1. /\ f = "strlen" /\ ret = -2 /\ f' = f /\ s1' = s1 /\ s2' = s2 /\ c' = c /\ old' = old
      /\ IF s1[i] # 0 THEN i' = i + 1 /\ ret' = ret ELSE ret' = i /\ i' = i
      /\ Str!HasEnd(s1) /\ s1 \in Str!Array /\ i \in Nat /\ StrSize \in Nat
      /\ \A k \in 0 .. (i - 1) : s1[k] # 0
  BY DEF StrInv, Str!TypeOK, Str!StringInv, Str!nolibc_strlen, Str!Running, Str!Turn, Str!NoResult,
     Str!Nul, UtilAssumption
<1>2. i <= Str!EndOf(s1) /\ i \in Str!Index /\ i < StrSize
  BY <1>1, NotBehindEnd DEF Str!Index
<1>3. CASE s1[i] # 0
  <2>1. i' = i + 1 /\ ret' = ret /\ \A k \in 0 .. (i' - 1) : s1[k] # 0
    BY <1>1, <1>3
  <2>2. Str!TypeOK'
    BY <1>1, <1>2, <2>1 DEF StrInv, Str!TypeOK
  <2> QED
    BY <1>1, <2>1, <2>2 DEF StrInv, Str!StringInv, Str!Right, Str!NoResult, Str!Nul, Str!HasEnd
<1>4. CASE s1[i] = 0
  <2>1. i' = i /\ ret' = i /\ Str!EndOf(s1) = i
    BY <1>1, <1>2, <1>4, EndUnique
  <2>2. Str!TypeOK'
    BY <1>1, <1>2, <2>1 DEF StrInv, Str!TypeOK
  <2>3. ret' # -2
    BY <1>1, <2>1
  <2>4. Str!Right'
    BY <1>1, <2>1 DEF Str!Right, Str!EndOf
  <2> QED
    BY <1>1, <2>1, <2>2, <2>3, <2>4 DEF StrInv, Str!StringInv, Str!NoResult, Str!HasEnd
<1> QED
  BY <1>3, <1>4

(* A turn of strchr. *)
LEMMA StrchrTurn ==
  ASSUME UtilAssumption, StrInv, Str!strchr
  PROVE  StrInv'
<1>1. /\ f = "strchr" /\ ret = -2 /\ f' = f /\ s1' = s1 /\ s2' = s2 /\ c' = c /\ old' = old
      /\ IF s1[i] # 0 /\ s1[i] # c THEN i' = i + 1 /\ ret' = ret
         ELSE ret' = (IF s1[i] = 0 THEN -1 ELSE i) /\ i' = i
      /\ Str!HasEnd(s1) /\ s1 \in Str!Array /\ i \in Nat /\ StrSize \in Nat
      /\ \A k \in 0 .. (i - 1) : s1[k] # 0
      /\ \A k \in 0 .. (i - 1) : s1[k] # c
  BY DEF StrInv, Str!TypeOK, Str!StringInv, Str!strchr, Str!Running, Str!Turn, Str!NoResult,
     Str!Nul, Str!NULL, UtilAssumption
<1>2. i <= Str!EndOf(s1) /\ i \in Str!Index /\ i < StrSize
  BY <1>1, NotBehindEnd DEF Str!Index
<1>3. PICK e : e = Str!EndOf(s1) /\ e \in Nat /\ e = Str!EndOf(s1)'
  BY <1>1, EndExists DEF Str!EndOf, Str!Index
<1>4. CASE s1[i] # 0 /\ s1[i] # c
  <2>1. /\ i' = i + 1 /\ ret' = ret /\ \A k \in 0 .. (i' - 1) : s1[k] # 0
        /\ \A k \in 0 .. (i' - 1) : s1[k] # c
    BY <1>1, <1>4
  <2>2. Str!TypeOK'
    BY <1>1, <1>2, <2>1 DEF StrInv, Str!TypeOK
  <2> QED
    BY <1>1, <2>1, <2>2 DEF StrInv, Str!StringInv, Str!Right, Str!NoResult, Str!Nul, Str!HasEnd
<1>5. CASE s1[i] = 0
  <2>1. i' = i /\ ret' = -1 /\ e = i
    BY <1>1, <1>2, <1>3, <1>5, EndUnique
  <2>2. Str!TypeOK'
    BY <1>1, <1>2, <2>1 DEF StrInv, Str!TypeOK, Str!NULL
  <2>3. {k \in 0 .. (e - 1) : s1[k] = c} = {}
    BY <1>1, <2>1
  <2>4. Str!Right'
    BY <1>1, <1>3, <2>1, <2>3 DEF Str!Right, Str!NULL
  <2> QED
    BY <1>1, <2>1, <2>2, <2>4 DEF StrInv, Str!StringInv, Str!NoResult, Str!HasEnd
<1>6. CASE s1[i] # 0 /\ s1[i] = c
  <2>1. i' = i /\ ret' = i
    BY <1>1, <1>6
  <2>2. Str!TypeOK'
    BY <1>1, <1>2, <2>1 DEF StrInv, Str!TypeOK
  <2>3. i # e
    BY <1>1, <1>3, <1>6, EndExists
  <2>4. i \in {k \in 0 .. (e - 1) : s1[k] = c} /\ \A k \in {x \in 0 .. (e - 1) : s1[x] = c} : i <= k
    BY <1>1, <1>2, <1>3, <1>6, <2>3
  <2>5. Str!Right'
    BY <1>1, <1>3, <2>1, <2>4 DEF Str!Right
  <2>6. ret' # -2
    BY <1>1, <2>1
  <2> QED
    BY <1>1, <2>1, <2>2, <2>5, <2>6 DEF StrInv, Str!StringInv, Str!NoResult, Str!HasEnd
<1> QED
  BY <1>4, <1>5, <1>6

(* A turn of streq. *)
LEMMA StreqTurn ==
  ASSUME UtilAssumption, StrInv, Str!streq
  PROVE  StrInv'
<1>1. /\ f = "streq" /\ ret = -2 /\ f' = f /\ s1' = s1 /\ s2' = s2 /\ c' = c /\ old' = old
      /\ IF s1[i] = s2[i] /\ s1[i] # 0 THEN i' = i + 1 /\ ret' = ret
         ELSE ret' = (IF s1[i] = s2[i] THEN 1 ELSE 0) /\ i' = i
      /\ Str!HasEnd(s1) /\ Str!HasEnd(s2) /\ s1 \in Str!Array /\ s2 \in Str!Array
      /\ i \in Nat /\ StrSize \in Nat
      /\ \A k \in 0 .. (i - 1) : s1[k] # 0
      /\ \A k \in 0 .. (i - 1) : s1[k] = s2[k]
  BY DEF StrInv, Str!TypeOK, Str!StringInv, Str!streq, Str!Running, Str!Turn, Str!NoResult,
     Str!Nul, UtilAssumption
<1>2. \A k \in 0 .. (i - 1) : s2[k] # 0
  BY <1>1
<1>3. i \in Str!Index /\ i < StrSize /\ i <= Str!EndOf(s1) /\ i <= Str!EndOf(s2)
  BY <1>1, <1>2, NotBehindEnd DEF Str!Index
<1>4. PICK e1 : e1 = Str!EndOf(s1) /\ e1 \in Nat /\ e1 = Str!EndOf(s1)'
  BY <1>1, EndExists DEF Str!EndOf, Str!Index
<1>5. PICK e2 : e2 = Str!EndOf(s2) /\ e2 \in Nat /\ e2 = Str!EndOf(s2)'
  BY <1>1, EndExists DEF Str!EndOf, Str!Index
<1>6. CASE s1[i] = s2[i] /\ s1[i] # 0
  <2>1. /\ i' = i + 1 /\ ret' = ret /\ \A k \in 0 .. (i' - 1) : s1[k] # 0
        /\ \A k \in 0 .. (i' - 1) : s1[k] = s2[k]
    BY <1>1, <1>6
  <2>2. Str!TypeOK'
    BY <1>1, <1>3, <2>1 DEF StrInv, Str!TypeOK
  <2> QED
    BY <1>1, <2>1, <2>2 DEF StrInv, Str!StringInv, Str!Right, Str!NoResult, Str!Nul, Str!HasEnd
<1>7. CASE ~(s1[i] = s2[i] /\ s1[i] # 0)
  <2>1. i' = i /\ ret' = IF s1[i] = s2[i] THEN 1 ELSE 0
    BY <1>1, <1>7
  <2>2. Str!TypeOK'
    BY <1>1, <1>3, <2>1 DEF StrInv, Str!TypeOK, Str!Char, UtilAssumption
  <2>3. ret' = 1 <=> e1 = e2 /\ \A k \in 0 .. e1 : s1[k] = s2[k]
    <3>1. CASE s1[i] = s2[i]
      <4>1. e1 = i /\ e2 = i
        BY <1>1, <1>2, <1>3, <1>4, <1>5, <1>7, <3>1, EndUnique
      <4> QED
        BY <1>1, <2>1, <3>1, <4>1
    <3>2. CASE s1[i] # s2[i]
      <4>1. i \in 0 .. e1
        BY <1>1, <1>3, <1>4
      <4> QED
        BY <2>1, <3>2, <4>1
    <3> QED
      BY <3>1, <3>2
  <2>4. Str!Right'
    BY <1>1, <1>4, <1>5, <2>3 DEF Str!Right
  <2>5. ret' # -2
    BY <2>1
  <2> QED
    BY <1>1, <2>1, <2>2, <2>4, <2>5 DEF StrInv, Str!StringInv, Str!NoResult, Str!HasEnd
<1> QED
  BY <1>6, <1>7

(* A turn of strcpy: the NUL is copied too. *)
LEMMA StrcpyTurn ==
  ASSUME UtilAssumption, StrInv, Str!strcpy
  PROVE  StrInv'
<1>1. /\ f = "strcpy" /\ ret = -2 /\ f' = f /\ s2' = s2 /\ c' = c /\ old' = old
      /\ s1' = [s1 EXCEPT ![i] = s2[i]]
      /\ IF s2[i] # 0 THEN i' = i + 1 /\ ret' = ret ELSE ret' = 0 /\ i' = i
      /\ Str!HasEnd(s2) /\ s1 \in Str!Array /\ s2 \in Str!Array
      /\ i \in Nat /\ StrSize \in Nat
      /\ \A k \in 0 .. (i - 1) : s2[k] # 0
      /\ \A k \in Str!Index : s1[k] = IF k < i THEN s2[k] ELSE old[k]
  BY DEF StrInv, Str!TypeOK, Str!StringInv, Str!strcpy, Str!Running, Str!Turn, Str!NoResult,
     Str!Nul, UtilAssumption
<1>2. i \in Str!Index /\ i < StrSize
  BY <1>1, NotBehindEnd DEF Str!Index
<1>3. s1' \in Str!Array
  BY <1>1, <1>2 DEF Str!Array
<1>4. \A k \in Str!Index : s1'[k] = IF k <= i THEN s2[k] ELSE old[k]
  <2> SUFFICES ASSUME NEW k \in Str!Index
               PROVE  s1'[k] = IF k <= i THEN s2[k] ELSE old[k]
    OBVIOUS
  <2>1. k \in Nat
    BY DEF Str!Index
  <2>2. s1'[k] = IF k = i THEN s2[i] ELSE s1[k]
    BY <1>1, <1>2 DEF Str!Array
  <2> QED
    BY <1>1, <2>1, <2>2
<1>5. CASE s2[i] # 0
  <2>1. i' = i + 1 /\ ret' = ret /\ \A k \in 0 .. (i' - 1) : s2[k] # 0
    BY <1>1, <1>5
  <2>2. \A k \in Str!Index : s1'[k] = IF k < i' THEN s2[k] ELSE old[k]
    BY <1>1, <1>4, <2>1 DEF Str!Index
  <2>3. Str!TypeOK'
    BY <1>1, <1>2, <1>3, <2>1 DEF StrInv, Str!TypeOK
  <2> QED
    BY <1>1, <2>1, <2>2, <2>3 DEF StrInv, Str!StringInv, Str!Right, Str!NoResult, Str!Nul, Str!HasEnd
<1>6. CASE s2[i] = 0
  <2>1. i' = i /\ ret' = 0 /\ Str!EndOf(s2) = i /\ Str!EndOf(s2)' = Str!EndOf(s2)
    BY <1>1, <1>2, <1>6, EndUnique DEF Str!EndOf
  <2>2. Str!TypeOK'
    BY <1>1, <1>2, <1>3, <2>1 DEF StrInv, Str!TypeOK, Str!Char, UtilAssumption
  <2>3. Str!Right'
    BY <1>1, <1>4, <2>1 DEF Str!Right
  <2> QED
    BY <1>1, <2>1, <2>2, <2>3 DEF StrInv, Str!StringInv, Str!NoResult, Str!HasEnd
<1> QED
  BY <1>5, <1>6

(* The difference of two chars, cut to a char, is zero for equal ones only. *)
LEMMA CharDifference ==
  ASSUME UtilAssumption, NEW x \in Str!Char, NEW y \in Str!Char
  PROVE  (x - y) % CharMod \in Str!Char /\ ((x - y) % CharMod = 0 <=> x = y)
<1>1. CharMod \in Nat \ {0} /\ x \in 0 .. (CharMod - 1) /\ y \in 0 .. (CharMod - 1)
  BY DEF UtilAssumption, Str!Char
<1>2. x >= y => (x - y) % CharMod = x - y
  BY <1>1
<1>3. x < y => (x - y) % CharMod = (x - y) + CharMod
  BY <1>1
<1> QED
  BY <1>1, <1>2, <1>3 DEF Str!Char

(* A turn of memcmp. *)
LEMMA MemcmpTurn ==
  ASSUME UtilAssumption, StrInv, Str!memcmp
  PROVE  StrInv'
<1>1. /\ f = "memcmp" /\ ret = -2 /\ f' = f /\ s1' = s1 /\ s2' = s2 /\ c' = c /\ old' = old
      /\ s1 \in Str!Array /\ s2 \in Str!Array /\ i \in Nat /\ StrSize \in Nat
      /\ c \in 0 .. StrSize /\ i <= c
      /\ \A k \in 0 .. (i - 1) : s1[k] = s2[k]
  BY DEF StrInv, Str!TypeOK, Str!StringInv, Str!memcmp, Str!Running, Str!Turn, Str!NoResult,
     UtilAssumption
<1>2. PICK d : d = Str!Difference
  OBVIOUS
<1>3. IF i < c /\ d = 0 THEN i' = i + 1 /\ ret' = ret ELSE ret' = d /\ i' = i
  BY <1>2 DEF Str!memcmp, Str!Turn
<1>4. CASE i < c
  <2>1. i \in Str!Index /\ s1[i] \in Str!Char /\ s2[i] \in Str!Char
    BY <1>1, <1>4 DEF Str!Index, Str!Array
  <2>2. d \in Str!Char /\ (d = 0 <=> s1[i] = s2[i])
    BY <1>2, <1>4, <2>1, CharDifference DEF Str!Difference
  <2>3. CASE d = 0
    <3>1. i' = i + 1 /\ ret' = ret /\ i' <= c /\ i' \in 0 .. StrSize
      BY <1>1, <1>3, <1>4, <2>3
    <3>2. \A k \in 0 .. (i' - 1) : s1[k] = s2[k]
      BY <1>1, <2>2, <2>3, <3>1
    <3>3. Str!TypeOK'
      BY <1>1, <3>1 DEF StrInv, Str!TypeOK
    <3> QED
      BY <1>1, <3>1, <3>2, <3>3 DEF StrInv, Str!StringInv, Str!Right, Str!NoResult
  <2>4. CASE d # 0
    <3>1. i' = i /\ ret' = d /\ i \in 0 .. (c - 1) /\ s1[i] # s2[i]
      BY <1>1, <1>3, <1>4, <2>2, <2>4
    <3>2. Str!TypeOK' /\ ret' # -2
      BY <1>1, <2>2, <3>1 DEF StrInv, Str!TypeOK, Str!Char
    <3>3. Str!Right'
      BY <1>1, <2>4, <3>1 DEF Str!Right
    <3> QED
      BY <1>1, <3>1, <3>2, <3>3 DEF StrInv, Str!StringInv, Str!NoResult
  <2> QED
    BY <2>3, <2>4
<1>5. CASE ~(i < c)
  <2>1. i' = i /\ ret' = 0 /\ i = c
    BY <1>1, <1>2, <1>3, <1>5 DEF Str!Difference
  <2>2. Str!TypeOK'
    BY <1>1, <2>1 DEF StrInv, Str!TypeOK, Str!Char, UtilAssumption
  <2>3. Str!Right'
    BY <1>1, <2>1 DEF Str!Right
  <2> QED
    BY <1>1, <2>1, <2>2, <2>3 DEF StrInv, Str!StringInv, Str!NoResult
<1> QED
  BY <1>4, <1>5

(* A step of one of the string functions. *)
LEMMA StrStep ==
  ASSUME UtilAssumption, StrInv, Str!Next
  PROVE  StrInv'
  BY StrlenTurn, StrchrTurn, StreqTurn, StrcpyTurn, MemcmpTurn DEF Str!Next

(* A call of one of them, and no call. *)
LEMMA StrBegins ==
  ASSUME UtilAssumption, Str!Init \/ Str!Idle
  PROVE  StrInv
<1>1. CASE Str!Init
  BY <1>1 DEF Str!Init, StrInv, Str!TypeOK, Str!StringInv, Str!Right, Str!NoResult, Str!Index, UtilAssumption,
     Str!HasEnd
<1>2. CASE Str!Idle
  <2>1. /\ f = "strlen" /\ c = 0 /\ i = 0 /\ ret = 0 /\ s1 = [k \in Str!Index |-> 0] /\ s2 = s1 /\ old = s1
    BY <1>2 DEF Str!Idle, Str!Nul
  <2>2. 0 \in Str!Index /\ 0 \in Str!Char /\ StrSize \in Nat
    BY DEF Str!Index, Str!Char, UtilAssumption
  <2>3. s1 \in Str!Array /\ s1[0] = 0
    BY <2>1, <2>2 DEF Str!Array
  <2>4. Str!EndOf(s1) = 0
    BY <2>2, <2>3, EndUnique
  <2>5. Str!HasEnd(s1)
    BY <2>2, <2>3 DEF Str!HasEnd, Str!Nul
  <2>6. Str!TypeOK
    BY <2>1, <2>2, <2>3 DEF Str!TypeOK
  <2> QED
    BY <2>1, <2>4, <2>5, <2>6 DEF StrInv, Str!StringInv, Str!Right, Str!NoResult
<1> QED
  BY <1>1, <1>2

-----------------------------------------------------------------------------
(* ltoa and int_to_str.                                                    *)

(* The number's variables have their types, and its digits their room. *)
NumRoom == Num!TypeOK /\ Num!DigitsFit

(* Sixty-four bits and their negation, in the general. *)
LEMMA Widths ==
  ASSUME UtilAssumption, PowerAssumption
  PROVE  /\ \A x \in Num!Long : x < 0 => (-x) % 2 ^ Bits = -x /\ -x \in 1 .. 2 ^ (Bits - 1)
         /\ \A x \in Num!Long : x >= 0 => x < 2 ^ (Bits - 1)
         /\ \A v \in 0 .. (2 ^ Bits - 1) : Num!ToLong(v) \in Num!Long
         /\ 2 ^ Bits \in Nat /\ 2 ^ (Bits - 1) \in Nat /\ 2 ^ (Bits - 1) <= 2 ^ Bits - 1 /\ 0 \in Num!Long
<1>1. PICK h, w : h = 2 ^ (Bits - 1) /\ w = 2 ^ Bits
  OBVIOUS
<1>2. h \in Nat \ {0} /\ w = 2 * h
  BY <1>1 DEF PowerAssumption
<1>3. Num!Long = (-h) .. (h - 1)
  BY <1>1 DEF Num!Long
<1>4. ASSUME NEW x \in Num!Long, x < 0
      PROVE  (-x) % w = -x /\ -x \in 1 .. h
  <2>1. -x \in 1 .. h /\ -x \in 0 .. (w - 1) /\ w \in Nat \ {0}
    BY <1>2, <1>3, <1>4
  <2> QED
    BY <2>1
<1>5. \A x \in Num!Long : x >= 0 => x < h
  BY <1>2, <1>3
<1>6. \A v \in 0 .. (w - 1) : Num!ToLong(v) \in Num!Long
  BY <1>1, <1>2, <1>3 DEF Num!ToLong
<1>7. w \in Nat /\ h \in Nat /\ h <= w - 1 /\ 0 \in Num!Long
  BY <1>2, <1>3
<1> QED
  BY <1>1, <1>4, <1>5, <1>6, <1>7

(* A call of one of the two, and no call. *)
LEMMA RoomBegins ==
  ASSUME UtilAssumption, PowerAssumption, Num!Init \/ Num!Idle
  PROVE  NumRoom
<1>1. PICK w : w = 2 ^ Bits /\ w \in Nat /\ w >= 1
  BY Widths
<1>2. BufLen \in Nat /\ BufLen >= 3
  BY DEF UtilAssumption
<1>3. CASE Num!Init
  <2>1. in \in Num!Long
    BY <1>3, Widths DEF Num!Init
  <2>2. /\ pc = "begin" /\ abs = 0 /\ next = BufLen - 1 /\ conv \in {"ltoa", "int_to_str"}
        /\ buffer = [k \in 0 .. (BufLen - 1) |-> 12]
    BY <1>3 DEF Num!Init, Num!Junk
  <2>3. buffer \in [0 .. (BufLen - 1) -> 0 .. 12]
    BY <2>2
  <2> QED
    BY <1>1, <1>2, <2>1, <2>2, <2>3 DEF NumRoom, Num!TypeOK, Num!DigitsFit, Num!Junk
<1>4. CASE Num!Idle
  <2>1. /\ pc = "printed" /\ abs = 0 /\ next = BufLen - 3 /\ conv = "ltoa" /\ in = 0
        /\ buffer = [k \in 0 .. (BufLen - 1) |-> IF k = BufLen - 1 THEN 11 ELSE 0]
    BY <1>4 DEF Num!Idle, Num!Nul
  <2>2. buffer \in [0 .. (BufLen - 1) -> 0 .. 12]
    BY <2>1
  <2> QED
    BY <1>1, <1>2, <2>1, <2>2, Widths DEF NumRoom, Num!TypeOK, Num!DigitsFit, Num!Junk
<1> QED
  BY <1>3, <1>4

(* A store keeps the buffer a buffer. *)
LEMMA StoreKeeps ==
  ASSUME UtilAssumption, NEW x \in 0 .. 12, Num!TypeOK, Num!Store(x)
  PROVE  buffer' \in [0 .. (BufLen - 1) -> 0 .. 12] /\ next' = next - 1
<1>1. buffer \in [0 .. (BufLen - 1) -> 0 .. 12]
  BY DEF Num!TypeOK, Num!Junk
<1> QED
  BY <1>1 DEF Num!Store

(* A step of ltoa, int_to_str or their callers: there is room for it. *)
LEMMA RoomStep ==
  ASSUME UtilAssumption, PowerAssumption, NumRoom, Num!Next
  PROVE  NumRoom'
<1>1. /\ BufLen \in Nat /\ BufLen >= 3 /\ next \in -1 .. (BufLen - 1) /\ in \in Num!Long
      /\ conv \in {"ltoa", "int_to_str"} /\ Num!TypeOK
      /\ buffer \in [0 .. (BufLen - 1) -> 0 .. 12]
  BY DEF UtilAssumption, NumRoom, Num!TypeOK, Num!Junk
<1>2. PICK w, h : w = 2 ^ Bits /\ h = 2 ^ (Bits - 1) /\ w \in Nat /\ h \in Nat /\ h <= w - 1
  BY Widths
<1>3. abs \in 0 .. (w - 1)
  BY <1>2 DEF NumRoom, Num!TypeOK
<1>4. CASE Num!Begin
  <2>1. /\ pc = "begin" /\ pc' = "digit" /\ conv' = conv /\ in' = in
        /\ abs' = IF in < 0 THEN (-in) % w ELSE in
    BY <1>2, <1>4 DEF Num!Begin
  <2>2. buffer' \in [0 .. (BufLen - 1) -> 0 .. 12] /\ next' = next - 1 /\ next = BufLen - 1
    BY <1>1, <1>4, <2>1, StoreKeeps DEF Num!Begin, Num!Nul, NumRoom, Num!DigitsFit
  <2>3. abs' \in 0 .. h
    <3>1. in < 0 => (-in) % w = -in /\ -in \in 1 .. h
      BY <1>1, <1>2, Widths
    <3>2. in >= 0 => in < h
      BY <1>1, <1>2, Widths
    <3>3. in \in Int
      BY <1>1, <1>2 DEF Num!Long
    <3> QED
      BY <1>2, <2>1, <3>1, <3>2, <3>3
  <2>4. h < 10 ^ (BufLen - 2) /\ 10 ^ (BufLen - 2) \in Nat
    BY <1>1, <1>2 DEF UtilAssumption, PowerAssumption
  <2>5. next' = BufLen - 2
    BY <1>1, <2>2
  <2>6. next' \in 1 .. (BufLen - 2) /\ abs' < 10 ^ next'
    BY <1>1, <1>2, <2>3, <2>4, <2>5
  <2>7. abs' \in 0 .. (2 ^ Bits - 1) /\ next' \in -1 .. (BufLen - 1)
    BY <1>1, <1>2, <2>3, <2>5
  <2> QED
    BY <1>1, <2>1, <2>2, <2>6, <2>7 DEF NumRoom, Num!TypeOK, Num!DigitsFit, Num!Junk
<1>5. CASE Num!Digit
  <2>1. /\ pc = "digit" /\ conv' = conv /\ in' = in /\ abs' = abs \div 10
        /\ pc' = IF next' < 0 THEN "return" ELSE IF abs' # 0 THEN "digit" ELSE "sign"
    BY <1>5 DEF Num!Digit
  <2>2. abs % 10 \in 0 .. 12 /\ abs \div 10 \in 0 .. abs /\ abs \in Nat
    BY <1>3
  <2>3. buffer' \in [0 .. (BufLen - 1) -> 0 .. 12] /\ next' = next - 1
    BY <1>1, <1>5, <2>2, StoreKeeps DEF Num!Digit
  <2>4. next \in 1 .. (BufLen - 2) /\ abs < 10 ^ next
    BY <2>1 DEF NumRoom, Num!DigitsFit
  <2>5. PICK p, k : k = next - 1 /\ p = 10 ^ k
    OBVIOUS
  <2>6. k \in 0 .. BufLen /\ next = k + 1
    BY <1>1, <2>4, <2>5
  <2>7. p \in Nat /\ 10 ^ (k + 1) = 10 * p
    BY <2>5, <2>6 DEF PowerAssumption
  <2>8. abs < 10 * p
    BY <2>4, <2>6, <2>7
  <2>9. abs' < p /\ abs' \in Nat
    BY <2>1, <2>2, <2>7, <2>8
  <2>10. k = 0 => p = 1
    BY <2>5 DEF PowerAssumption
  <2>11. pc' = "digit" => next' \in 1 .. (BufLen - 2) /\ abs' < 10 ^ next'
    BY <1>1, <2>1, <2>3, <2>4, <2>5, <2>6, <2>9, <2>10
  <2>12. next' >= 0
    BY <2>3, <2>5, <2>6
  <2>13. abs' \in 0 .. (2 ^ Bits - 1) /\ next' \in -1 .. (BufLen - 1)
    BY <1>1, <1>2, <1>3, <2>1, <2>2, <2>3, <2>4
  <2> QED
    BY <1>1, <2>1, <2>3, <2>11, <2>12, <2>13 DEF NumRoom, Num!TypeOK, Num!DigitsFit, Num!Junk
<1>6. CASE Num!Sign
  <2>1. pc = "sign" /\ pc' = "return" /\ conv' = conv /\ in' = in /\ abs' = abs /\ next >= 0
    BY <1>6 DEF Num!Sign, NumRoom, Num!DigitsFit
  <2>2. buffer' \in [0 .. (BufLen - 1) -> 0 .. 12] /\ (next' = next - 1 \/ next' = next)
    BY <1>1, <1>6, StoreKeeps DEF Num!Sign, Num!Dash
  <2>3. next' \in -1 .. (BufLen - 1)
    BY <1>1, <2>1, <2>2
  <2> QED
    BY <1>1, <1>2, <1>3, <2>1, <2>2, <2>3 DEF NumRoom, Num!TypeOK, Num!DigitsFit, Num!Junk
<1>7. CASE Num!write_int \/ Num!SYSCHECK
  <2>1. /\ pc' = "printed" /\ conv' = conv /\ in' = in /\ abs' = abs /\ next' = next /\ buffer' = buffer
    BY <1>7 DEF Num!write_int, Num!SYSCHECK
  <2> QED
    BY <2>1 DEF NumRoom, Num!TypeOK, Num!DigitsFit
<1> QED
  BY <1>4, <1>5, <1>6, <1>7 DEF Num!Next

(* Dropping the digits that p counts and one more. *)
LEMMA DivTen ==
  ASSUME NEW a \in Nat, NEW p \in Nat \ {0}
  PROVE  /\ a \div (10 * p) = (a \div p) \div 10
         /\ a \div p \in Nat
<1>1. PICK q, r : q = a \div p /\ r = a % p
  OBVIOUS
<1>2. q \in Nat /\ r \in 0 .. (p - 1) /\ a = p * q + r
  BY <1>1
<1>3. PICK u, v : u = q \div 10 /\ v = q % 10
  OBVIOUS
<1>4. u \in Nat /\ v \in 0 .. 9 /\ q = 10 * u + v
  BY <1>2, <1>3
<1>5. PICK t : t = p * v + r
  OBVIOUS
<1>6. t \in 0 .. (10 * p - 1)
  <2>1. p * v \in Nat /\ p * v <= p * 9
    BY <1>4
  <2> QED
    BY <1>2, <1>5, <2>1
<1>7. a = (10 * p) * u + t
  <2>1. p * q = p * (10 * u) + p * v
    BY <1>4
  <2>2. p * (10 * u) = (10 * p) * u
    BY <1>4
  <2> QED
    BY <1>2, <1>5, <2>1, <2>2, <1>4
<1>8. a \div (10 * p) = u
  <2>1. PICK m : m = 10 * p
    OBVIOUS
  <2>2. m \in Nat \ {0} /\ t \in 0 .. (m - 1) /\ a = m * u + t
    BY <1>6, <1>7, <2>1
  <2>3. a \div m = u
    BY <1>4, <2>2
  <2> QED
    BY <2>1, <2>3
<1> QED
  BY <1>1, <1>2, <1>3, <1>8

(* Value is the end of any sequence of numbers that starts with zero and   *)
(* adds one digit after the other.                                         *)
LEMMA ValueIs ==
  ASSUME NEW d, Len(d) \in Nat, \A k \in 1 .. Len(d) : d[k] \in Int,
         NEW w \in [0 .. Len(d) -> Int], w[0] = 0,
         \A k \in 1 .. Len(d) : w[k] = 10 * w[k - 1] + d[k]
  PROVE  Num!Value(d) = w[Len(d)]
<1> DEFINE Step(g) == [k \in 0 .. Len(d) |-> IF k = 0 THEN 0 ELSE 10 * g[k - 1] + d[k]]
           v == CHOOSE g : g = Step(g)
<1>1. w = Step(w)
  OBVIOUS
<1>2. v = Step(v)
  BY <1>1, Zenon
<1>3. Num!Value(d) = v[Len(d)]
  BY DEF Num!Value
<1> HIDE DEF v
<1>4. v[0] = 0 /\ \A k \in 1 .. Len(d) : v[k] = 10 * v[k - 1] + d[k]
  BY <1>2
<1>5. ASSUME NEW n0 \in 0 .. Len(d), v[n0] # w[n0]
      PROVE  FALSE
  <2> DEFINE T == {k \in 0 .. Len(d) : v[k] # w[k]}
  <2>1. T \in SUBSET Nat /\ n0 \in T
    BY <1>5
  <2>2. PICK m \in T : \A y \in T : m <= y
    BY <2>1, Least
  <2>3. m \in 1 .. Len(d) /\ v[m] # w[m]
    BY <1>4
  <2>4. m - 1 \in 0 .. Len(d) /\ m - 1 \notin T
    BY <2>2, <2>3
  <2> QED
    BY <1>4, <2>3, <2>4
<1> QED
  BY <1>3, <1>5

(* Dropping no digits. *)
LEMMA DivOne ==
  ASSUME NEW a \in Nat
  PROVE  a \div 1 = a
  OBVIOUS

(* Powers of ten are not zero. *)
LEMMA PowersPositive ==
  ASSUME UtilAssumption, PowerAssumption, NEW j \in 0 .. BufLen
  PROVE  10 ^ j \in Nat \ {0}
<1>1. BufLen \in Nat
  BY DEF UtilAssumption
<1> DEFINE T == {k \in 0 .. BufLen : 10 ^ k = 0}
<1> SUFFICES ASSUME j \in T
             PROVE  FALSE
  BY DEF PowerAssumption
<1>2. PICK m \in T : \A y \in T : m <= y
  <2>1. T \in SUBSET (0 .. BufLen) /\ T # {}
    BY Zenon
  <2>2. T \in SUBSET Nat
    BY <1>1, <2>1
  <2> QED
    BY <2>1, <2>2, Least, Zenon
<1>3. m \in 1 .. BufLen /\ 10 ^ m = 0
  <2>1. 10 ^ 0 # 0
    BY DEF PowerAssumption
  <2>2. m \in 0 .. BufLen /\ 10 ^ m = 0 /\ m # 0
    BY <2>1
  <2> QED
    BY <1>1, <2>2
<1>4. PICK i0 : i0 = m - 1
  OBVIOUS
<1>5. i0 \in 0 .. BufLen /\ m = i0 + 1 /\ ~(m <= i0)
  BY <1>1, <1>3, <1>4
<1>6. 10 ^ i0 \in Nat /\ 10 ^ m = 10 * 10 ^ i0
  BY <1>5 DEF PowerAssumption
<1>7. 10 ^ i0 = 0
  BY <1>3, <1>6
<1> QED
  BY <1>2, <1>5, <1>7

(* The last digit and the rest. *)
LEMMA LastDigit ==
  ASSUME NEW q \in Nat
  PROVE  q % 10 \in 0 .. 9 /\ q \div 10 \in Nat /\ q = 10 * (q \div 10) + (q % 10)
  OBVIOUS

(* d are the digits of a, each by its place, and there are no more. *)
Places(a, n0, d) ==
  /\ a \div 10 ^ n0 = 0
  /\ \A k \in 1 .. n0 : d[k] = (a \div 10 ^ (n0 - k)) % 10

(* The digits of a number, each by its place, stand for the number. *)
LEMMA DigitsDenote ==
  ASSUME UtilAssumption, PowerAssumption, NEW a \in Nat, NEW n0 \in 1 .. BufLen,
         NEW d, Len(d) = n0, Places(a, n0, d)
  PROVE  /\ Num!Value(d) = a
         /\ \A k \in 1 .. n0 : d[k] \in 0 .. 9
         /\ a \div 10 ^ (n0 - 1) # 0 => d[1] # 0
<1>1. BufLen \in Nat /\ n0 \in Nat
  BY DEF UtilAssumption
<1>2. PICK w : w = [k \in 0 .. n0 |-> a \div 10 ^ (n0 - k)]
  OBVIOUS
<1>3. ASSUME NEW k \in 0 .. n0
      PROVE  w[k] = a \div 10 ^ (n0 - k) /\ w[k] \in Nat
  <2>1. PICK p, j : j = n0 - k /\ p = 10 ^ j
    OBVIOUS
  <2>2. j \in 0 .. BufLen
    BY <1>1, <2>1
  <2>3. p \in Nat \ {0}
    BY <2>1, <2>2, PowersPositive
  <2>4. a \div p \in Nat
    BY <2>3, DivTen
  <2> QED
    BY <1>2, <2>1, <2>4
<1>4. ASSUME NEW k \in 1 .. n0
      PROVE  w[k] = 10 * w[k - 1] + d[k] /\ d[k] = w[k] % 10 /\ w[k - 1] = w[k] \div 10
  <2>1. PICK p, j : j = n0 - k /\ p = 10 ^ j
    OBVIOUS
  <2>2. j \in 0 .. BufLen /\ n0 - (k - 1) = j + 1 /\ k - 1 \in 0 .. n0 /\ k \in 0 .. n0
    BY <1>1, <2>1
  <2>3. p \in Nat \ {0} /\ 10 ^ (j + 1) = 10 * p
    BY <2>1, <2>2, PowersPositive DEF PowerAssumption
  <2>4. w[k] = a \div p /\ w[k - 1] = a \div (10 * p) /\ w[k] \in Nat
    BY <1>3, <2>1, <2>2, <2>3
  <2>5. w[k - 1] = w[k] \div 10
    <3>1. a \div (10 * p) = (a \div p) \div 10
      BY <2>3, DivTen
    <3> QED
      BY <2>4, <3>1, Zenon
  <2>6. d[k] = w[k] % 10
    BY <2>1, <2>4, Zenon DEF Places
  <2>7. w[k] = 10 * w[k - 1] + d[k]
    <3>1. PICK q : q = w[k] /\ q \in Nat
      BY <2>4
    <3>2. q = 10 * (q \div 10) + (q % 10)
      BY <3>1, LastDigit
    <3> QED
      BY <2>5, <2>6, <3>1, <3>2, Zenon
  <2> QED
    BY <2>5, <2>6, <2>7
<1>5. \A k \in 1 .. n0 : d[k] \in 0 .. 9
  <2> SUFFICES ASSUME NEW k \in 1 .. n0
               PROVE  d[k] \in 0 .. 9
    OBVIOUS
  <2>1. d[k] = w[k] % 10 /\ w[k] \in Nat
    BY <1>1, <1>3, <1>4
  <2> QED
    BY <2>1, LastDigit
<1>6. w[0] = 0 /\ w[n0] = a
  <2>1. 0 \in 0 .. n0 /\ n0 \in 0 .. n0 /\ n0 - 0 = n0 /\ n0 - n0 = 0
    BY <1>1
  <2>2. w[0] = a \div 10 ^ (n0 - 0) /\ w[n0] = a \div 10 ^ (n0 - n0)
    BY <1>3, <2>1, Zenon
  <2>3. a \div 10 ^ n0 = 0
    BY Zenon DEF Places
  <2>4. w[0] = 0 /\ w[n0] = a \div 10 ^ 0
    BY <2>1, <2>2, <2>3, Zenon
  <2> QED
    BY <2>4, DivOne DEF PowerAssumption
<1>7. w \in [0 .. n0 -> Int]
  <2>1. w = [k \in 0 .. n0 |-> w[k]]
    BY <1>2
  <2> QED
    BY <1>3, <2>1
<1>8. Num!Value(d) = a
  <2>1. \A k \in 1 .. n0 : d[k] \in Int
    BY <1>5
  <2>2. /\ Len(d) \in Nat /\ \A k \in 1 .. Len(d) : d[k] \in Int
        /\ w \in [0 .. Len(d) -> Int] /\ \A k \in 1 .. Len(d) : w[k] = 10 * w[k - 1] + d[k]
    BY <1>1, <1>4, <1>7, <2>1, Zenon
  <2>3. Num!Value(d) = w[Len(d)]
    BY <1>6, <2>2, ValueIs, Zenon
  <2> QED
    BY <1>6, <2>3
<1>9. ASSUME w[1] # 0
      PROVE  d[1] # 0
  <2>1. d[1] = w[1] % 10 /\ w[0] = w[1] \div 10 /\ w[1] \in Nat
    BY <1>1, <1>3, <1>4
  <2> QED
    BY <1>6, <1>9, <2>1
<1>10. w[1] = a \div 10 ^ (n0 - 1)
  BY <1>1, <1>3
<1> QED
  BY <1>5, <1>8, <1>9, <1>10

(* The string that starts at p ends in front of the buffer's last byte.    *)
LEMMA StringIs ==
  ASSUME UtilAssumption, NEW p \in 0 .. (BufLen - 1),
         buffer \in [0 .. (BufLen - 1) -> 0 .. 12], buffer[BufLen - 1] = 11,
         \A k \in p .. (BufLen - 2) : buffer[k] # 11
  PROVE  Num!StringAt(p) = [k \in 1 .. ((BufLen - 1) - p) |-> buffer[p + k - 1]]
<1>1. PICK e : e = BufLen - 1
  OBVIOUS
<1>2. e \in Nat /\ p \in 0 .. e /\ DOMAIN buffer = 0 .. e /\ BufLen - 2 = e - 1
  BY <1>1 DEF UtilAssumption
<1> DEFINE T == {k \in DOMAIN buffer : k >= p /\ buffer[k] = 11}
<1>3. T = {e}
  <2>1. e \in T
    BY <1>1, <1>2
  <2>2. ASSUME NEW k \in T
        PROVE  k = e
    <3>1. k \in 0 .. e /\ k >= p /\ buffer[k] = 11
      BY <1>2
    <3>2. ~(k \in p .. (e - 1))
      BY <1>2, <3>1
    <3> QED
      BY <1>2, <3>1, <3>2
  <2> QED
    BY <2>1, <2>2
<1>4. Min(T) = e
  <2>1. {e} \in SUBSET Nat /\ {e} # {}
    BY <1>2
  <2> QED
    BY <1>3, <2>1, MinIsLeast
<1>5. Num!StringAt(p) = [k \in 1 .. (Min(T) - p) |-> buffer[p + k - 1]]
  BY Zenon DEF Num!StringAt, Num!Nul, Num!Min, Min
<1> QED
  BY <1>1, <1>4, <1>5

(* What the buffer buf holds of the number a from p on. *)
LastIn(buf, a, p) ==
  /\ buf[BufLen - 1] = 11
  /\ \A k \in p .. (BufLen - 2) : buf[k] = (a \div 10 ^ ((BufLen - 2) - k)) % 10
AllIn(buf, a, p) ==
  /\ p \in 0 .. (BufLen - 2) /\ LastIn(buf, a, p)
  /\ a \div 10 ^ ((BufLen - 1) - p) = 0
  /\ p < BufLen - 2 => a \div 10 ^ ((BufLen - 2) - p) # 0

(* What each place of the loop knows of it. *)
RightIn(at, x, buf, a, rest, p) ==
  /\ at = "digit" => /\ LastIn(buf, a, p + 1)
                     /\ rest = a \div 10 ^ ((BufLen - 2) - p)
                     /\ p < BufLen - 2 => rest # 0
  /\ at = "sign" => AllIn(buf, a, p + 1)
  /\ at = "return" => IF x < 0 THEN buf[p + 1] = 10 /\ AllIn(buf, a, p + 2)
                               ELSE AllIn(buf, a, p + 1)

(* It is what DigitsRight says of the program's variables, before a step  *)
(* and after it.                                                           *)
LEMMA RightIs ==
  /\ Num!DigitsRight <=> /\ RightIn(pc, in, buffer, Num!Magnitude, abs, next)
                         /\ Num!Converted /\ Num!Printed
  /\ Num!DigitsRight' <=> /\ RightIn(pc', in', buffer', Num!Magnitude', abs', next')
                          /\ Num!Converted' /\ Num!Printed'
<1> USE DEF Num!DigitsRight, RightIn, AllIn, LastIn, Num!AllDigits, Num!LastDigits, Num!Nul, Num!Dash
<1>1. Num!DigitsRight <=> /\ RightIn(pc, in, buffer, Num!Magnitude, abs, next)
                          /\ Num!Converted /\ Num!Printed
  BY Zenon
<1>2. Num!DigitsRight' <=> /\ RightIn(pc', in', buffer', Num!Magnitude', abs', next')
                           /\ Num!Converted' /\ Num!Printed'
  BY Zenon
<1> QED
  BY <1>1, <1>2

(* The buffer with a character stored at p. *)
Stored(buf, p, x) == [k \in DOMAIN buf |-> IF k = p THEN x ELSE buf[k]]

(* A digit goes in front of those that are there, and a dash changes none. *)
LEMMA DigitStored ==
  ASSUME UtilAssumption, NEW a, NEW buf, buf \in [0 .. (BufLen - 1) -> 0 .. 12],
         NEW p, p \in 0 .. (BufLen - 2), LastIn(buf, a, p + 1), NEW x
  PROVE  /\ LastIn(Stored(buf, p, x), a, p + 1)
         /\ x = (a \div 10 ^ ((BufLen - 2) - p)) % 10 => LastIn(Stored(buf, p, x), a, p)
<1>1. BufLen \in Nat /\ BufLen >= 3
  BY DEF UtilAssumption
<1>2. DOMAIN buf = 0 .. (BufLen - 1) /\ p \in DOMAIN buf /\ BufLen - 1 \in DOMAIN buf /\ BufLen - 1 # p
  BY <1>1
<1>3. \A k \in (p + 1) .. (BufLen - 2) : k \in DOMAIN buf /\ k # p
  BY <1>1, <1>2
<1>4. /\ Stored(buf, p, x)[p] = x /\ Stored(buf, p, x)[BufLen - 1] = 11
      /\ \A k \in (p + 1) .. (BufLen - 2) : Stored(buf, p, x)[k] = buf[k]
  BY <1>2, <1>3, Zenon DEF LastIn, Stored
<1>5. LastIn(Stored(buf, p, x), a, p + 1)
  BY <1>4, Zenon DEF LastIn
<1>6. \A k \in p .. (BufLen - 2) : k = p \/ k \in (p + 1) .. (BufLen - 2)
  BY <1>1
<1> QED
  BY <1>4, <1>5, <1>6, Zenon DEF LastIn

(* A digit is no dash and no end of a string. *)
LEMMA DigitsAreDigits ==
  ASSUME UtilAssumption, PowerAssumption, NEW a \in Nat, NEW buf, NEW p \in 0 .. (BufLen - 2),
         LastIn(buf, a, p), NEW k \in p .. (BufLen - 2)
  PROVE  buf[k] \in 0 .. 9
<1>1. BufLen \in Nat /\ BufLen >= 3
  BY DEF UtilAssumption
<1>2. PICK t, j : j = (BufLen - 2) - k /\ t = 10 ^ j
  OBVIOUS
<1>3. j \in 0 .. BufLen
  BY <1>1, <1>2
<1>4. t \in Nat \ {0}
  BY <1>2, <1>3, PowersPositive
<1>5. PICK q : q = a \div t /\ q \in Nat
  BY <1>4, DivTen
<1>6. buf[k] = q % 10
  BY <1>2, <1>5, Zenon DEF LastIn
<1> QED
  BY <1>5, <1>6, LastDigit

(* What the caller prints. *)
LEMMA StringDenotes ==
  ASSUME UtilAssumption, PowerAssumption, buffer \in [0 .. (BufLen - 1) -> 0 .. 12],
         NEW a \in Nat, NEW p \in 0 .. (BufLen - 2), AllIn(buffer, a, p)
  PROVE  \E d : /\ d = [k \in 1 .. ((BufLen - 1) - p) |-> buffer[p + k - 1]]
                /\ Num!Value(d) = a /\ d # <<>> /\ Len(d) = (BufLen - 1) - p
                /\ \A k \in DOMAIN d : d[k] \in 0 .. 9
                /\ Len(d) > 1 => d[1] # 0
<1>1. BufLen \in Nat /\ BufLen >= 3
  BY DEF UtilAssumption
<1>2. PICK n0 : n0 = (BufLen - 1) - p
  OBVIOUS
<1>3. n0 \in 1 .. BufLen /\ n0 \in Nat /\ n0 - 1 = (BufLen - 2) - p
  BY <1>1, <1>2
<1>4. PICK d : d = [k \in 1 .. n0 |-> buffer[p + k - 1]]
  OBVIOUS
<1>5. ASSUME NEW k \in 1 .. n0
      PROVE  /\ d[k] = (a \div 10 ^ (n0 - k)) % 10 /\ d[k] \in 0 .. 9
  <2>1. p + k - 1 \in p .. (BufLen - 2) /\ (BufLen - 2) - (p + k - 1) = n0 - k
    BY <1>1, <1>2
  <2>2. d[k] = buffer[p + k - 1]
    BY <1>4
  <2>3. LastIn(buffer, a, p)
    BY DEF AllIn
  <2>4. buffer[p + k - 1] = (a \div 10 ^ (n0 - k)) % 10
    BY <2>1, <2>3, Zenon DEF LastIn
  <2>5. buffer[p + k - 1] \in 0 .. 9
    BY <2>1, <2>3, DigitsAreDigits
  <2> QED
    BY <2>2, <2>4, <2>5
<1>6. Len(d) = n0 /\ d \in Seq(0 .. 9) /\ DOMAIN d = 1 .. n0 /\ d # <<>>
  <2>1. d \in [1 .. n0 -> 0 .. 9]
    BY <1>4, <1>5
  <2> QED
    BY <1>3, <2>1
<1>7. a \div 10 ^ n0 = 0 /\ (n0 > 1 => a \div 10 ^ (n0 - 1) # 0)
  <2>1. a \div 10 ^ n0 = 0
    BY <1>2 DEF AllIn
  <2>2. n0 > 1 => p < BufLen - 2
    BY <1>1, <1>2
  <2> QED
    BY <1>3, <2>1, <2>2 DEF AllIn
<1>8. Places(a, n0, d)
  BY <1>5, <1>7, Zenon DEF Places
<1>9. Num!Value(d) = a /\ (a \div 10 ^ (n0 - 1) # 0 => d[1] # 0)
  BY <1>3, <1>6, <1>8, DigitsDenote
<1>10. d = [k \in 1 .. ((BufLen - 1) - p) |-> buffer[p + k - 1]]
  BY <1>2, <1>4, Zenon
<1>11. \A k \in DOMAIN d : d[k] \in 0 .. 9
  BY <1>5, <1>6
<1> QED
  BY <1>2, <1>6, <1>7, <1>9, <1>10, <1>11

(* Tail, as a function. *)
LEMMA TailIs ==
  ASSUME NEW S, NEW s \in Seq(S), s # <<>>
  PROVE  Tail(s) = [k \in 1 .. (Len(s) - 1) |-> s[k + 1]]
<1>1. Tail(s) \in Seq(S) /\ Len(Tail(s)) = Len(s) - 1 /\ Len(s) \in Nat
  OBVIOUS
<1>2. \A k \in 1 .. (Len(s) - 1) : Tail(s)[k] = s[k + 1]
  OBVIOUS
<1>3. PICK t, n0 : t = Tail(s) /\ n0 = Len(s) - 1
  OBVIOUS
<1>4. t \in Seq(S) /\ Len(t) = n0 /\ \A k \in 1 .. n0 : t[k] = s[k + 1]
  BY <1>1, <1>2, <1>3, Zenon
<1>5. t = [k \in 1 .. n0 |-> s[k + 1]]
  BY <1>4
<1> QED
  BY <1>3, <1>5, Zenon

(* What it takes to be the notation of a number. *)
LEMMA Notation ==
  ASSUME NEW x \in Int, NEW s, NEW d, d = IF x < 0 THEN Tail(s) ELSE s,
         x < 0 => s # <<>> /\ Head(s) = 10,
         d # <<>>, \A k \in DOMAIN d : d[k] \in 0 .. 9, Len(d) > 1 => d[1] # 0,
         Num!Value(d) = IF x < 0 THEN -x ELSE x
  PROVE  Num!Denotes(s, x)
  BY Zenon DEF Num!Denotes, Num!Dash

(* The functions return the notation of their argument. *)
LEMMA ReturnsRight ==
  ASSUME UtilAssumption, PowerAssumption, Num!TypeOK, Num!DigitsRight, pc = "return"
  PROVE  Num!Denotes(Num!StringAt(next + 1), in)
<1>1. /\ BufLen \in Nat /\ BufLen >= 3 /\ next \in -1 .. (BufLen - 1)
      /\ buffer \in [0 .. (BufLen - 1) -> 0 .. 12]
  BY DEF UtilAssumption, Num!TypeOK, Num!Junk
<1>2. in \in Int
  BY Widths DEF Num!TypeOK, Num!Long
<1>3. PICK a : a = Num!Magnitude /\ a \in Nat
  BY <1>2 DEF Num!Magnitude
<1>4. IF in < 0 THEN buffer[next + 1] = 10 /\ AllIn(buffer, a, next + 2)
                ELSE AllIn(buffer, a, next + 1)
  BY <1>3, RightIs, Zenon DEF RightIn
<1>5. PICK p : p = IF in < 0 THEN next + 2 ELSE next + 1
  OBVIOUS
<1>6. AllIn(buffer, a, p) /\ p \in 0 .. (BufLen - 2)
  BY <1>4, <1>5 DEF AllIn
<1>7. PICK d : /\ d = [k \in 1 .. ((BufLen - 1) - p) |-> buffer[p + k - 1]]
               /\ Num!Value(d) = a /\ d # <<>> /\ Len(d) = (BufLen - 1) - p
               /\ \A k \in DOMAIN d : d[k] \in 0 .. 9
               /\ Len(d) > 1 => d[1] # 0
  BY <1>1, <1>3, <1>6, StringDenotes
<1>8. buffer[BufLen - 1] = 11 /\ \A k \in p .. (BufLen - 2) : buffer[k] \in 0 .. 9
  <2>1. LastIn(buffer, a, p)
    BY <1>6 DEF AllIn
  <2> QED
    BY <1>3, <1>6, <2>1, DigitsAreDigits DEF LastIn
<1>9. CASE ~(in < 0)
  <2>1. \A k \in p .. (BufLen - 2) : buffer[k] # 11
    BY <1>8
  <2>2. Num!StringAt(p) = d
    <3>1. p \in 0 .. (BufLen - 1)
      BY <1>1, <1>6
    <3> QED
      BY <1>1, <1>7, <1>8, <2>1, <3>1, StringIs
  <2>3. Num!StringAt(next + 1) = d /\ a = in
    BY <1>3, <1>5, <1>9, <2>2 DEF Num!Magnitude
  <2> QED
    <3>1. Num!Denotes(d, in)
      BY <1>2, <1>7, <1>9, <2>3, Notation
    <3> QED
      BY <2>3, <3>1, Zenon
<1>10. CASE in < 0
  <2>1. PICK q : q = next + 1
    OBVIOUS
  <2>2. q = p - 1 /\ q \in 0 .. (BufLen - 1) /\ buffer[q] = 10
    BY <1>1, <1>4, <1>5, <1>6, <1>10, <2>1
  <2>3. \A k \in q .. (BufLen - 2) : buffer[k] # 11
    <3> SUFFICES ASSUME NEW k \in q .. (BufLen - 2)
                 PROVE  buffer[k] # 11
      OBVIOUS
    <3>1. k = q \/ k \in p .. (BufLen - 2)
      BY <1>1, <1>6, <2>2
    <3> QED
      BY <1>8, <2>2, <3>1
  <2>4. PICK s : s = [k \in 1 .. ((BufLen - 1) - q) |-> buffer[q + k - 1]]
    OBVIOUS
  <2>5. Num!StringAt(next + 1) = s
    BY <1>1, <1>8, <2>1, <2>2, <2>3, <2>4, StringIs
  <2>6. PICK n0 : n0 = (BufLen - 1) - p
    OBVIOUS
  <2>7. n0 \in Nat /\ (BufLen - 1) - q = n0 + 1 /\ Len(d) = n0
    <3>1. n0 \in Nat /\ (BufLen - 1) - q = n0 + 1
      BY <1>1, <1>6, <2>2, <2>6
    <3> QED
      BY <1>7, <2>6, <3>1
  <2>8. s \in [1 .. (n0 + 1) -> 0 .. 12] /\ s[1] = 10
    <3>1. s = [k \in 1 .. (n0 + 1) |-> buffer[q + k - 1]]
      BY <2>4, <2>7
    <3>2. \A k \in 1 .. (n0 + 1) : q + k - 1 \in 0 .. (BufLen - 1)
      BY <1>1, <2>2, <2>7
    <3>3. 1 \in 1 .. (n0 + 1) /\ q + 1 - 1 = q
      BY <2>2, <2>7, <1>1
    <3>4. s[1] = 10
      BY <2>2, <3>1, <3>3
    <3> QED
      BY <1>1, <3>1, <3>2, <3>4
  <2>9. s \in Seq(0 .. 12) /\ Len(s) = n0 + 1 /\ s # <<>> /\ Head(s) = 10
    BY <2>7, <2>8
  <2>10. Tail(s) = d
    <3>1. Tail(s) = [k \in 1 .. n0 |-> s[k + 1]]
      <4>1. Tail(s) = [k \in 1 .. (Len(s) - 1) |-> s[k + 1]]
        BY <2>9, TailIs
      <4>2. Len(s) - 1 = n0
        BY <2>7, <2>9
      <4> QED
        BY <4>1, <4>2, Zenon
    <3>2. ASSUME NEW k \in 1 .. n0
          PROVE  s[k + 1] = buffer[p + k - 1]
      <4>1. k + 1 \in 1 .. ((BufLen - 1) - q) /\ q + (k + 1) - 1 = p + k - 1
        BY <1>1, <1>6, <2>2, <2>7
      <4> QED
        BY <2>4, <4>1
    <3>3. d = [k \in 1 .. n0 |-> buffer[p + k - 1]]
      BY <1>7, <2>6, Zenon
    <3> QED
      BY <3>1, <3>2, <3>3, Zenon
  <2>11. a = -in
    BY <1>3, <1>10 DEF Num!Magnitude
  <2> QED
    <3>1. Num!Denotes(s, in)
      BY <1>2, <1>7, <1>10, <2>9, <2>10, <2>11, Notation
    <3> QED
      BY <2>5, <3>1, Zenon
<1> QED
  BY <1>9, <1>10

(* A step of ltoa, int_to_str or their callers: the digits are right.      *)
LEMMA DigitsStep ==
  ASSUME UtilAssumption, PowerAssumption, Num!TypeOK, Num!DigitsFit, Num!DigitsRight, Num!Next
  PROVE  Num!DigitsRight'
<1>1. /\ BufLen \in Nat /\ BufLen >= 3 /\ next \in -1 .. (BufLen - 1) /\ in \in Num!Long
      /\ buffer \in [0 .. (BufLen - 1) -> 0 .. 12] /\ abs \in Nat
  BY Widths DEF UtilAssumption, Num!TypeOK, Num!Junk
<1>2. in \in Int /\ in' = in /\ val' = val /\ conv' = conv
  BY <1>1, Widths DEF Num!Long, Num!Next, Num!Begin, Num!Digit, Num!Sign, Num!write_int, Num!SYSCHECK
<1>3. PICK a : a = Num!Magnitude /\ a = Num!Magnitude' /\ a \in Nat
  BY <1>2 DEF Num!Magnitude
<1>4. RightIn(pc, in, buffer, a, abs, next)
  BY <1>3, RightIs, Zenon
<1>5. ASSUME RightIn(pc', in, buffer', a, abs', next'), Num!Printed'
      PROVE  Num!DigitsRight'
  <2>1. Num!Converted
    BY RightIs
  <2>2. Num!Converted'
    BY <1>2, <2>1 DEF Num!Converted, Num!ToLong
  <2> QED
    BY <1>2, <1>3, <1>5, <2>2, RightIs, Zenon
<1>6. CASE Num!Begin
  <2>1. /\ pc = "begin" /\ pc' = "digit" /\ next = BufLen - 1 /\ next' = next - 1
        /\ buffer' = [k \in DOMAIN buffer |-> IF k = next THEN 11 ELSE buffer[k]]
        /\ abs' = IF in < 0 THEN (-in) % 2 ^ Bits ELSE in
    BY <1>6 DEF Num!Begin, Num!Store, Num!Nul, Num!DigitsFit
  <2>2. abs' = a
    BY <1>1, <1>3, <2>1, Widths DEF Num!Magnitude
  <2>3. next' = BufLen - 2 /\ (BufLen - 2) - next' = 0 /\ buffer'[BufLen - 1] = 11 /\ next' + 1 = BufLen - 1
    BY <1>1, <2>1
  <2>4. LastIn(buffer', a, next' + 1)
    <3>1. \A k \in (BufLen - 1) .. (BufLen - 2) : FALSE
      BY <1>1
    <3> QED
      BY <2>3, <3>1, Zenon DEF LastIn
  <2>5. abs' = a \div 10 ^ ((BufLen - 2) - next')
    <3>1. PICK t : t = 10 ^ 0
      OBVIOUS
    <3>2. t = 1
      BY <3>1 DEF PowerAssumption
    <3>3. a \div t = a
      BY <1>3, <3>2, DivOne, Zenon
    <3> QED
      BY <2>2, <2>3, <3>1, <3>3
  <2>6. RightIn(pc', in, buffer', a, abs', next')
    BY <1>1, <2>1, <2>3, <2>4, <2>5 DEF RightIn
  <2>7. Num!Printed'
    BY <2>1 DEF Num!Printed
  <2> QED
    BY <1>5, <2>6, <2>7
<1>7. CASE Num!Digit
  <2>1. /\ pc = "digit" /\ next' = next - 1 /\ abs' = abs \div 10
        /\ buffer' = [k \in DOMAIN buffer |-> IF k = next THEN abs % 10 ELSE buffer[k]]
        /\ pc' = IF next' < 0 THEN "return" ELSE IF abs' # 0 THEN "digit" ELSE "sign"
        /\ next >= 1
    BY <1>7 DEF Num!Digit, Num!Store, Num!DigitsFit
  <2>2. PICK j, t : j = (BufLen - 2) - next /\ t = 10 ^ j
    OBVIOUS
  <2>3. LastIn(buffer, a, next + 1) /\ abs = a \div t /\ (next < BufLen - 2 => abs # 0)
    BY <1>4, <2>1, <2>2, Zenon DEF RightIn
  <2>4. next \in 0 .. (BufLen - 2)
    BY <1>1, <2>1 DEF Num!DigitsFit
  <2>5. j \in 0 .. BufLen /\ (BufLen - 2) - next' = j + 1 /\ (BufLen - 1) - next = j + 1
    BY <1>1, <2>1, <2>2, <2>4
  <2>6. t \in Nat \ {0} /\ 10 ^ (j + 1) = 10 * t
    BY <2>2, <2>5, PowersPositive DEF PowerAssumption
  <2>7. abs' = a \div 10 ^ (j + 1)
    <3>1. a \div (10 * t) = (a \div t) \div 10
      BY <1>3, <2>6, DivTen
    <3> QED
      BY <2>1, <2>3, <2>6, <3>1, Zenon
  <2>8. LastIn(buffer', a, next)
    <3>1. abs % 10 = (a \div 10 ^ ((BufLen - 2) - next)) % 10
      BY <2>2, <2>3, Zenon
    <3>2. PICK b1, b2, p, x : b1 = buffer /\ b2 = buffer' /\ p = next /\ x = abs % 10
      OBVIOUS
    <3>3. /\ b1 \in [0 .. (BufLen - 1) -> 0 .. 12] /\ p \in 0 .. (BufLen - 2) /\ LastIn(b1, a, p + 1)
          /\ b2 = Stored(b1, p, x)
      BY <1>1, <2>1, <2>3, <2>4, <3>2, Zenon DEF Stored
    <3>4. x = (a \div 10 ^ ((BufLen - 2) - p)) % 10
      BY <3>1, <3>2, Zenon
    <3>5. LastIn(b2, a, p)
      BY <3>3, <3>4, DigitStored, Zenon
    <3> QED
      BY <3>2, <3>5, Zenon
  <2>9. next' + 1 = next /\ ~(next' < 0)
    BY <1>1, <2>1
  <2>10. CASE abs' # 0
    <3>1. pc' = "digit"
      BY <2>1, <2>9, <2>10
    <3>2. RightIn(pc', in, buffer', a, abs', next')
      BY <2>5, <2>7, <2>8, <2>9, <2>10, <3>1, Zenon DEF RightIn
    <3>3. Num!Printed'
      BY <3>1 DEF Num!Printed
    <3> QED
      BY <1>5, <3>2, <3>3
  <2>11. CASE abs' = 0
    <3>1. AllIn(buffer', a, next' + 1)
      BY <2>2, <2>3, <2>4, <2>5, <2>7, <2>8, <2>9, <2>11, Zenon DEF AllIn
    <3>2. pc' = "sign"
      BY <2>1, <2>9, <2>11
    <3>3. RightIn(pc', in, buffer', a, abs', next') /\ Num!Printed'
      BY <3>1, <3>2 DEF RightIn, Num!Printed
    <3> QED
      BY <1>5, <3>3
  <2> QED
    BY <2>10, <2>11
<1>8. CASE Num!Sign
  <2>1. /\ pc = "sign" /\ pc' = "return" /\ next >= 0
        /\ IF in < 0
             THEN /\ buffer' = [k \in DOMAIN buffer |-> IF k = next THEN 10 ELSE buffer[k]]
                  /\ next' = next - 1
             ELSE buffer' = buffer /\ next' = next
    BY <1>8 DEF Num!Sign, Num!Store, Num!Dash, Num!DigitsFit
  <2>2. AllIn(buffer, a, next + 1)
    BY <1>4, <2>1, Zenon DEF RightIn
  <2>3. CASE ~(in < 0)
    BY <1>5, <2>1, <2>2, <2>3 DEF RightIn, Num!Printed
  <2>4. CASE in < 0
    <3>1. LastIn(buffer, a, next + 1) /\ next + 1 \in 0 .. (BufLen - 2)
      BY <2>2 DEF AllIn
    <3>2. next \in 0 .. (BufLen - 2) /\ next' + 2 = next + 1 /\ next' + 1 = next
      BY <1>1, <2>1, <2>4, <3>1
    <3>3. LastIn(buffer', a, next + 1) /\ buffer'[next] = 10
      <4>1. PICK b1, b2, p, x : b1 = buffer /\ b2 = buffer' /\ p = next /\ x = 10
        OBVIOUS
      <4>2. /\ b1 \in [0 .. (BufLen - 1) -> 0 .. 12] /\ p \in 0 .. (BufLen - 2) /\ LastIn(b1, a, p + 1)
            /\ b2 = Stored(b1, p, x)
        BY <1>1, <2>1, <2>4, <3>1, <3>2, <4>1, Zenon DEF Stored
      <4>3. LastIn(Stored(b1, p, x), a, p + 1) /\ Stored(b1, p, x)[p] = x
        <5>1. LastIn(Stored(b1, p, x), a, p + 1)
          BY <4>2, DigitStored, Zenon
        <5>2. p \in DOMAIN b1
          BY <1>1, <4>2
        <5>3. Stored(b1, p, x)[p] = x
          BY <5>2, Zenon DEF Stored
        <5> QED
          BY <5>1, <5>3
      <4>4. LastIn(b2, a, p + 1) /\ b2[p] = x
        BY <4>2, <4>3
      <4> QED
        BY <4>1, <4>4, Zenon
    <3>4. AllIn(buffer', a, next + 1)
      BY <2>2, <3>3, Zenon DEF AllIn
    <3>5. RightIn(pc', in, buffer', a, abs', next') /\ Num!Printed'
      BY <2>1, <2>4, <3>2, <3>3, <3>4 DEF RightIn, Num!Printed
    <3> QED
      BY <1>5, <3>5
  <2> QED
    BY <2>3, <2>4
<1>9. CASE Num!write_int \/ Num!SYSCHECK
  <2>1. /\ pc = "return" /\ pc' = "printed" /\ buffer' = buffer /\ next' = next
        /\ conv = "ltoa" => out' = Num!StringAt(next + 1)
    BY <1>9 DEF Num!write_int, Num!SYSCHECK
  <2>2. Num!Printed'
    <3>1. Num!StringAt(next + 1)' = Num!StringAt(next + 1)
      BY <2>1 DEF Num!StringAt
    <3>2. Num!Denotes(Num!StringAt(next + 1), in)
      BY <2>1, ReturnsRight
    <3>3. PICK str, x : str = Num!StringAt(next + 1) /\ x = in
      OBVIOUS
    <3>4. Num!StringAt(next + 1)' = str /\ in' = x /\ Num!Denotes(str, x)
      BY <1>2, <3>1, <3>2, <3>3
    <3>5. conv' = "ltoa" => out' = str
      BY <1>2, <2>1, <3>3
    <3> QED
      BY <3>4, <3>5, Zenon DEF Num!Printed
  <2>3. RightIn(pc', in, buffer', a, abs', next')
    BY <2>1 DEF RightIn
  <2> QED
    BY <1>5, <2>2, <2>3
<1> QED
  BY <1>6, <1>7, <1>8, <1>9 DEF Num!Next

(* The number's invariant. *)
NumInv == NumRoom /\ Num!DigitsRight

(* A call of one of the two has stored nothing, and no call has printed 0. *)
LEMMA NumBegins ==
  ASSUME UtilAssumption, PowerAssumption, Num!Init \/ Num!Idle
  PROVE  NumInv
<1>1. NumRoom
  BY RoomBegins
<1>2. CASE Num!Init
  <2>1. pc = "begin" /\ Num!Converted
    BY <1>2 DEF Num!Init, Num!Converted
  <2> QED
    BY <1>1, <2>1 DEF NumInv, Num!DigitsRight, Num!Printed
<1>3. CASE Num!Idle
  <2>1. /\ pc = "printed" /\ conv = "ltoa" /\ val = 0 /\ in = 0 /\ out = <<0>> /\ next = BufLen - 3
        /\ buffer = [k \in 0 .. (BufLen - 1) |-> IF k = BufLen - 1 THEN 11 ELSE 0]
    BY <1>3 DEF Num!Idle, Num!Nul
  <2>2. PICK d : d = <<0>>
    OBVIOUS
  <2>3. Len(d) = 1 /\ d # <<>> /\ d[1] = 0 /\ DOMAIN d = 1 .. 1
    BY <2>2
  <2>4. Num!Value(d) = 0
    <3>1. PICK w : w = [k \in 0 .. 1 |-> 0]
      OBVIOUS
    <3>2. w \in [0 .. Len(d) -> Int] /\ w[0] = 0 /\ w[Len(d)] = 0
      BY <2>3, <3>1
    <3>3. /\ Len(d) \in Nat /\ \A k \in 1 .. Len(d) : d[k] \in Int
          /\ \A k \in 1 .. Len(d) : w[k] = 10 * w[k - 1] + d[k]
      BY <2>3, <3>1
    <3>4. Num!Value(d) = w[Len(d)]
      BY <3>2, <3>3, ValueIs, Zenon
    <3> QED
      BY <3>2, <3>4
  <2>5. Num!Denotes(d, 0)
    <3>1. d = (IF 0 < 0 THEN Tail(d) ELSE d) /\ ~(0 < 0) /\ ~(Len(d) > 1)
      BY <2>3
    <3>2. \A k \in DOMAIN d : d[k] \in 0 .. 9
      BY <2>3
    <3> QED
      BY <2>3, <2>4, <3>1, <3>2 DEF Num!Denotes
  <2>6. Num!StringAt(next + 1) = d
    <3>1. BufLen \in Nat /\ BufLen >= 3
      BY DEF UtilAssumption
    <3>2. PICK q : q = next + 1
      OBVIOUS
    <3>3. q = BufLen - 2 /\ q \in 0 .. (BufLen - 1) /\ (BufLen - 1) - q = 1
      BY <2>1, <3>1, <3>2
    <3>4. /\ buffer \in [0 .. (BufLen - 1) -> 0 .. 12] /\ buffer[BufLen - 1] = 11 /\ buffer[q] = 0
          /\ \A k \in q .. (BufLen - 2) : buffer[k] # 11
      BY <2>1, <3>1, <3>3
    <3>5. Num!StringAt(q) = [k \in 1 .. ((BufLen - 1) - q) |-> buffer[q + k - 1]]
      BY <3>1, <3>3, <3>4, StringIs
    <3>6. [k \in 1 .. 1 |-> buffer[q + k - 1]] = <<0>>
      BY <3>3, <3>4, <3>1
    <3> QED
      BY <2>2, <3>2, <3>3, <3>5, <3>6
  <2>7. Num!Printed
    BY <2>1, <2>2, <2>5, <2>6 DEF Num!Printed
  <2>8. Num!Converted
    <3>1. PICK w, h : w = 2 ^ Bits /\ h = 2 ^ (Bits - 1) /\ w \in Nat \ {0} /\ h \in Nat \ {0}
      BY DEF PowerAssumption
    <3> QED
      BY <2>1, <3>1 DEF Num!Converted, Num!ToLong
  <2> QED
    BY <1>1, <2>1, <2>7, <2>8 DEF NumInv, Num!DigitsRight
<1> QED
  BY <1>2, <1>3

(* A step of ltoa, int_to_str or their callers. *)
LEMMA NumStep ==
  ASSUME UtilAssumption, PowerAssumption, NumInv, Num!Next
  PROVE  NumInv'
<1>1. NumRoom'
  BY RoomStep DEF NumInv
<1>2. Num!DigitsRight'
  BY DigitsStep DEF NumInv, NumRoom
<1> QED
  BY <1>1, <1>2 DEF NumInv

(* A step of another function. *)
LEMMA NumKept ==
  ASSUME NumInv, UNCHANGED num_vars
  PROVE  NumInv'
<1>1. /\ pc' = pc /\ conv' = conv /\ val' = val /\ in' = in /\ abs' = abs /\ next' = next
      /\ buffer' = buffer /\ out' = out
  BY DEF num_vars
<1>2. NumRoom'
  BY <1>1 DEF NumInv, NumRoom, Num!TypeOK, Num!DigitsFit
<1>3. Num!Magnitude' = Num!Magnitude
  BY <1>1 DEF Num!Magnitude
<1>4. Num!Converted' /\ Num!Printed'
  <2>1. Num!Converted /\ Num!Printed
    BY DEF NumInv, Num!DigitsRight
  <2>2. Num!Converted'
    BY <1>1, <2>1 DEF Num!Converted, Num!ToLong
  <2>3. Num!Printed'
    <3>1. Num!StringAt(next + 1)' = Num!StringAt(next + 1)
      BY <1>1 DEF Num!StringAt
    <3>2. PICK str, x : str = Num!StringAt(next + 1) /\ x = in
      OBVIOUS
    <3>3. pc' = "printed" => Num!Denotes(str, x) /\ (conv' = "ltoa" => out' = str)
      BY <1>1, <2>1, <3>2, Zenon DEF Num!Printed
    <3>4. Num!StringAt(next + 1)' = str /\ in' = x
      BY <1>1, <3>1, <3>2
    <3> QED
      BY <3>3, <3>4, Zenon DEF Num!Printed
  <2> QED
    BY <2>2, <2>3
<1>5. RightIn(pc, in, buffer, Num!Magnitude, abs, next)
  BY RightIs, Zenon DEF NumInv
<1>6. RightIn(pc', in', buffer', Num!Magnitude', abs', next')
  BY <1>1, <1>3, <1>5
<1>7. Num!DigitsRight'
  BY <1>4, <1>6, RightIs, Zenon
<1> QED
  BY <1>2, <1>7 DEF NumInv

-----------------------------------------------------------------------------
(* The library.                                                            *)

LibParts == Inv /\ StrInv /\ NumInv

(* The three parts start right. *)
LEMMA LibBegins ==
  ASSUME UtilAssumption, PowerAssumption, LibInit
  PROVE  LibParts
<1>1. Init /\ (Str!Init \/ Str!Idle) /\ (Num!Init \/ Num!Idle)
  BY DEF LibInit, MemIdle
<1> QED
  BY <1>1, InitInv, StrBegins, NumBegins DEF LibParts

(* A step of one part leaves the others alone. *)
LEMMA LibStep ==
  ASSUME UtilAssumption, PowerAssumption, LibParts, [LibNext]_<<vars, num_vars, str_vars>>
  PROVE  LibParts'
<1>1. UNCHANGED vars => Inv'
  BY LoopStep DEF LibParts
<1>2. UNCHANGED str_vars => StrInv'
  BY DEF LibParts, StrInv, str_vars, Str!TypeOK, Str!StringInv, Str!Right, Str!EndOf, Str!HasEnd
<1>3. UNCHANGED num_vars => NumInv'
  BY NumKept DEF LibParts
<1>4. Next => Inv'
  BY LoopStep DEF LibParts
<1>5. Str!Next => StrInv'
  BY StrStep DEF LibParts
<1>6. Num!Next => NumInv'
  BY NumStep DEF LibParts
<1> QED
  BY <1>1, <1>2, <1>3, <1>4, <1>5, <1>6 DEF LibNext, LibParts

(* The induction. *)
LEMMA LibHolds == LibSpec => []LibParts
<1>1. LibInit => LibParts
  BY UtilAssumption, PowerAssumption, LibBegins
<1>2. LibParts /\ [LibNext]_<<vars, num_vars, str_vars>> => LibParts'
  BY UtilAssumption, PowerAssumption, LibStep
<1> QED
  BY <1>1, <1>2, PTL DEF LibSpec

(* All invariants of the library together: types, the bytes that have had  *)
(* their turn, the characters passed, the digits stored and their room.    *)
THEOREM LibInvariant == LibSpec => []LibInv
<1>1. LibParts => LibInv
  BY DEF LibParts, LibInv, LibTypeOK, Inv, StrInv, NumInv, NumRoom, Right
<1> QED
  BY <1>1, LibHolds, PTL

(* When memmove, memcpy or memset return, the destination holds what the   *)
(* source held at the call, or the byte, and nothing else has changed.     *)
THEOREM CopiesRight == LibSpec => []Moved
<1>1. LibParts => Moved
  BY InvMoved DEF LibParts
<1> QED
  BY <1>1, LibHolds, PTL

(* The string functions never look or store behind the end of a string.    *)
THEOREM StaysInString == LibSpec => []InString
<1>1. LibParts => InString
  BY UtilAssumption, StrInvInString DEF LibParts
<1> QED
  BY <1>1, LibHolds, PTL

(* strlen, strchr, streq, strcpy and memcmp return what they should.       *)
THEOREM StringsRight == LibSpec => []Right
<1>1. LibParts => Right
  BY DEF LibParts, StrInv, Right
<1> QED
  BY <1>1, LibHolds, PTL

(* ltoa and int_to_str never store outside their buffer, which is          *)
(* long enough for the smallest number of the type.                        *)
THEOREM DigitsInBuffer == LibSpec => []InBuffer
<1>1. LibParts => next \in Int /\ BufLen \in Nat /\ BufLen >= 3
  BY UtilAssumption DEF LibParts, NumInv, NumRoom, Num!TypeOK, UtilAssumption
<1>2. LibParts => InBuffer
  BY <1>1 DEF LibParts, NumInv, NumRoom, InBuffer, Num!InBuffer, Num!DigitsFit
<1> QED
  BY <1>2, LibHolds, PTL

(* write_int prints the number it is given, from 2 ^ (Bits - 1) on as the  *)
(* negative number of the same bits: its digits in their order, none       *)
(* missing and none too many, behind a dash if it is negative; also the    *)
(* smallest, whose negation overflows.  The copy that int_to_str returns   *)
(* holds the digits of SYSCHECK's error in the same way.                   *)
THEOREM PrintsTheNumber == LibSpec => []PrintsNumber
<1>1. LibParts => PrintsNumber
  <2> SUFFICES ASSUME LibParts, pc = "printed"
               PROVE  /\ conv = "ltoa" /\ val < 2 ^ (Bits - 1) => Num!Denotes(out, val)
                      /\ conv = "ltoa" /\ val >= 2 ^ (Bits - 1) => Num!Denotes(out, val - 2 ^ Bits)
                      /\ conv = "int_to_str" => Num!Denotes(Num!StringAt(next + 1), val)
    BY DEF PrintsNumber, Num!PrintsNumber
  <2>1. Num!Converted /\ Num!Printed
    BY DEF LibParts, NumInv, Num!DigitsRight
  <2>2. PICK w, h : w = 2 ^ Bits /\ h = 2 ^ (Bits - 1) /\ w \in Nat /\ h \in Nat
    BY PowerAssumption, UtilAssumption, Widths
  <2>3. /\ conv = "ltoa" /\ val < h => in = val
        /\ conv = "ltoa" /\ val >= h => in = val - w
        /\ conv = "int_to_str" => in = val
    BY <2>1, <2>2 DEF Num!Converted, Num!ToLong
  <2>4. /\ Num!Denotes(Num!StringAt(next + 1), in)
        /\ conv = "ltoa" => out = Num!StringAt(next + 1)
    BY <2>1 DEF Num!Printed
  <2> QED
    BY <2>2, <2>3, <2>4, Zenon
<1> QED
  BY <1>1, LibHolds, PTL

-----------------------------------------------------------------------------
(* Every call ends.                                                        *)

\* How many steps the functions still take, at most.
NumTurns ==
  IF pc = "begin" THEN BufLen + 2
  ELSE IF pc = "digit" THEN next + 3
  ELSE IF pc = "sign" THEN 2
  ELSE IF pc = "return" THEN 1 ELSE 0
StrTurns == IF ret = Str!NoResult THEN StrSize + 1 - i ELSE 0
TurnsLeft == len + NumTurns + StrTurns

(* The parts of the measure are numbers. *)
AreNumbers == len \in Nat /\ NumTurns \in Nat /\ StrTurns \in Nat
LEMMA TurnsAreNumbers ==
  ASSUME UtilAssumption, LibParts
  PROVE  AreNumbers
<1>1. len \in Nat
  BY DEF LibParts, Inv, TypeOK
<1>2. NumTurns \in Nat
  <2>1. BufLen \in Nat /\ (pc = "digit" => next \in Nat)
    BY DEF UtilAssumption, LibParts, NumInv, NumRoom, Num!DigitsFit
  <2> QED
    BY <2>1 DEF NumTurns
<1>3. StrTurns \in Nat
  BY DEF StrTurns, UtilAssumption, LibParts, StrInv, Str!TypeOK
<1> QED
  BY <1>1, <1>2, <1>3 DEF AreNumbers

(* A step of ltoa, int_to_str or their callers is one less. *)
LEMMA NumTurn ==
  ASSUME UtilAssumption, NumInv, Num!Next
  PROVE  NumTurns' < NumTurns
<1>1. BufLen \in Nat /\ BufLen >= 3 /\ (pc = "digit" => next \in Nat /\ next >= 1)
  BY DEF UtilAssumption, NumInv, NumRoom, Num!DigitsFit
<1>2. CASE Num!Begin
  <2>1. pc = "begin" /\ pc' = "digit" /\ next' = BufLen - 2
    BY <1>1, <1>2 DEF Num!Begin, Num!Store, NumInv, NumRoom, Num!DigitsFit
  <2> QED
    BY <1>1, <2>1 DEF NumTurns
<1>3. CASE Num!Digit
  <2>1. pc = "digit" /\ pc' \in {"digit", "sign", "return"} /\ next' = next - 1
    BY <1>3 DEF Num!Digit, Num!Store
  <2> QED
    BY <1>1, <2>1 DEF NumTurns
<1>4. CASE Num!Sign
  BY <1>4 DEF Num!Sign, NumTurns
<1>5. CASE Num!write_int \/ Num!SYSCHECK
  BY <1>5 DEF Num!write_int, Num!SYSCHECK, NumTurns
<1> QED
  BY <1>2, <1>3, <1>4, <1>5 DEF Num!Next

(* So is a turn of a string function. *)
LEMMA StrTurn ==
  ASSUME UtilAssumption, StrInv, StrInv', Str!Next
  PROVE  StrTurns' < StrTurns
<1>1. StrSize \in Nat /\ i \in 0 .. StrSize /\ i' \in 0 .. StrSize
  BY DEF UtilAssumption, StrInv, Str!TypeOK
<1>2. ret = -2 /\ (i' = i + 1 \/ ret' # -2)
  <2>1. ret = -2
    BY DEF Str!Next, Str!nolibc_strlen, Str!strchr, Str!streq, Str!strcpy, Str!memcmp, Str!Running,
           Str!NoResult
  <2>2. CASE Str!nolibc_strlen
    BY <1>1, <2>1, <2>2 DEF Str!nolibc_strlen, Str!Turn
  <2>3. CASE Str!strchr
    BY <1>1, <2>1, <2>3 DEF Str!strchr, Str!Turn, Str!NULL
  <2>4. CASE Str!streq
    BY <2>1, <2>4 DEF Str!streq, Str!Turn
  <2>5. CASE Str!strcpy
    BY <2>1, <2>5 DEF Str!strcpy, Str!Turn
  <2>6. CASE Str!memcmp
    <3>1. f = "memcmp" /\ c \in 0 .. StrSize
      BY <2>6 DEF Str!memcmp, Str!Running, StrInv, Str!StringInv
    <3>2. Str!Difference \in Nat
      <4>1. CASE i < c
        <5>1. i \in 0 .. (StrSize - 1)
          BY <1>1, <3>1, <4>1
        <5>2. /\ s1 \in [0 .. (StrSize - 1) -> 0 .. (CharMod - 1)]
              /\ s2 \in [0 .. (StrSize - 1) -> 0 .. (CharMod - 1)]
          BY DEF StrInv, Str!TypeOK, Str!Array, Str!Index, Str!Char
        <5>3. s1[i] \in Int /\ s2[i] \in Int
          BY <5>1, <5>2
        <5> QED
          BY <4>1, <5>3 DEF Str!Difference, UtilAssumption
      <4>2. CASE ~(i < c)
        BY <4>2 DEF Str!Difference
      <4> QED
        BY <4>1, <4>2
    <3> QED
      BY <2>1, <2>6, <3>2 DEF Str!memcmp, Str!Turn
  <2> QED
    BY <2>2, <2>3, <2>4, <2>5, <2>6 DEF Str!Next
<1>3. StrTurns = StrSize + 1 - i
  BY <1>2 DEF StrTurns, Str!NoResult
<1>4. StrTurns' = IF ret' = -2 THEN StrSize + 1 - i' ELSE 0
  BY DEF StrTurns, Str!NoResult
<1>5. PICK x, y, m : x = StrTurns /\ y = StrTurns' /\ m = StrSize
  OBVIOUS
<1>6. m \in Nat /\ x = m + 1 - i /\ (y = 0 \/ (i' = i + 1 /\ y = m + 1 - i'))
  BY <1>1, <1>2, <1>3, <1>4, <1>5
<1>7. y < x
  BY <1>1, <1>5, <1>6
<1> QED
  BY <1>5, <1>7

(* Every step of a call leaves fewer to come: no function of util.c runs   *)
(* for ever, whatever its arguments.                                       *)
THEOREM CallsEnd ==
  LibSpec => [](TurnsLeft \in Nat) /\ [][TurnsLeft' < TurnsLeft]_<<vars, num_vars, str_vars>>
<1>1. LibParts => AreNumbers
  BY UtilAssumption, TurnsAreNumbers
<1>2. AreNumbers => TurnsLeft \in Nat
  BY DEF AreNumbers, TurnsLeft
<1>3. ASSUME LibParts, LibParts', AreNumbers, AreNumbers', [LibNext]_<<vars, num_vars, str_vars>>
      PROVE  [TurnsLeft' < TurnsLeft]_<<vars, num_vars, str_vars>>
  <2>1. /\ len \in Nat /\ NumTurns \in Nat /\ StrTurns \in Nat
        /\ len' \in Nat /\ NumTurns' \in Nat /\ StrTurns' \in Nat
    BY <1>3 DEF AreNumbers
  <2>2. UNCHANGED vars => len' = len
    BY DEF vars
  <2>3. UNCHANGED num_vars => NumTurns' = NumTurns
    BY DEF num_vars, NumTurns
  <2>4. UNCHANGED str_vars => StrTurns' = StrTurns
    BY DEF str_vars, StrTurns, Str!NoResult
  <2>5. Next => len' < len
    BY <2>1 DEF Next, memmove, memset
  <2>6. Num!Next => NumTurns' < NumTurns
    BY <1>3, UtilAssumption, NumTurn DEF LibParts
  <2>7. Str!Next => StrTurns' < StrTurns
    BY <1>3, UtilAssumption, StrTurn DEF LibParts
  <2>8. PICK x, y, z, x1, y1, z1 :
           /\ x = len /\ y = NumTurns /\ z = StrTurns
           /\ x1 = len' /\ y1 = NumTurns' /\ z1 = StrTurns'
    OBVIOUS
  <2>9. /\ x \in Nat /\ y \in Nat /\ z \in Nat /\ x1 \in Nat /\ y1 \in Nat /\ z1 \in Nat
        /\ TurnsLeft = x + y + z /\ TurnsLeft' = x1 + y1 + z1
    BY <2>1, <2>8, Zenon DEF TurnsLeft
  <2>10. CASE Next /\ UNCHANGED <<num_vars, str_vars>>
    <3>1. UNCHANGED num_vars /\ UNCHANGED str_vars
      BY <2>10
    <3>2. x1 < x /\ y1 = y /\ z1 = z
      BY <2>3, <2>4, <2>5, <2>8, <2>10, <3>1
    <3>3. x1 + y1 + z1 < x + y + z
      BY <2>9, <3>2
    <3> QED
      BY <2>9, <3>3, Zenon
  <2>11. CASE Num!Next /\ UNCHANGED <<vars, str_vars>>
    <3>1. UNCHANGED vars /\ UNCHANGED str_vars
      BY <2>11
    <3>2. x1 = x /\ y1 < y /\ z1 = z
      BY <2>2, <2>4, <2>6, <2>8, <2>11, <3>1
    <3>3. x1 + y1 + z1 < x + y + z
      BY <2>9, <3>2
    <3> QED
      BY <2>9, <3>3, Zenon
  <2>12. CASE Str!Next /\ UNCHANGED <<vars, num_vars>>
    <3>1. UNCHANGED vars /\ UNCHANGED num_vars
      BY <2>12
    <3>2. x1 = x /\ y1 = y /\ z1 < z
      BY <2>2, <2>3, <2>7, <2>8, <2>12, <3>1
    <3>3. x1 + y1 + z1 < x + y + z
      BY <2>9, <3>2
    <3> QED
      BY <2>9, <3>3, Zenon
  <2> QED
    BY <1>3, <2>10, <2>11, <2>12 DEF LibNext
<1> QED
  BY <1>1, <1>2, <1>3, LibHolds, PTL DEF LibSpec
=============================================================================
