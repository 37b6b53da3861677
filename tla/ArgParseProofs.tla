--------------------------- MODULE ArgParseProofs ---------------------------
(***************************************************************************)
(* Proofs about ArgParse, for lines and arrays of every length: what the   *)
(* program is given are the words of the line.  The lemmas about the scans *)
(* speak of a memory m, because every action scans one line and leaves     *)
(* another; FreshIn and EndIn are Fresh and StringEnd of such a memory.    *)
(***************************************************************************)
EXTENDS ArgParse, LeastNumber, FiniteSetTheorems

Lines == [Positions -> Chars]
IsLine == typed \in Lines /\ typed[LineLength] = NUL
EndIn(m, p) == Min({q \in p .. LineLength : m[q] = NUL})
FreshIn(m, p) ==
  /\ p \in 0 .. LineEnd
  /\ \A q \in p .. LineLength : m[q] = typed[q]
  /\ p = 0 \/ typed[p] # "letter" \/ typed[p - 1] \in Blanks

-----------------------------------------------------------------------------
(* The line and its words.                                                 *)

\* The line ends at its first NUL, and before it there are blanks and letters.
LEMMA LineEnds ==
  ASSUME ArgAssumption, IsLine
  PROVE  /\ LineEnd \in Positions /\ typed[LineEnd] = NUL
         /\ \A q \in 0 .. (LineEnd - 1) : typed[q] # NUL
<1> DEFINE T == {q \in Positions : typed[q] = NUL}
<1>1. T \in SUBSET Nat /\ LineLength \in T
  BY DEF ArgAssumption, IsLine, Positions
<1>2. LineEnd \in T /\ \A y \in T : LineEnd <= y
  BY <1>1, MinIsLeast DEF LineEnd
<1>3. LineEnd \in Positions /\ typed[LineEnd] = NUL /\ LineEnd \in Nat /\ LineEnd <= LineLength
  BY <1>1, <1>2 DEF Positions
<1>4. ASSUME NEW q \in 0 .. (LineEnd - 1)
      PROVE  typed[q] # NUL
  <2>1. q \in Positions /\ q \in Int /\ q < LineEnd
    BY <1>3 DEF Positions, ArgAssumption
  <2> QED
    BY <1>2, <1>3, <2>1
<1> QED
  BY <1>3, <1>4

\* A word starts with a letter, before the end of the line.
LEMMA StartsWithLetter ==
  ASSUME ArgAssumption, IsLine, NEW s \in WordStarts
  PROVE  s \in 0 .. (LineEnd - 1) /\ s \in Positions /\ typed[s] = "letter"
<1>1. s \in 0 .. (LineEnd - 1) /\ typed[s] \notin Blanks /\ LineEnd \in 0 .. LineLength
  BY LineEnds DEF WordStarts, Positions
<1>2. s \in Positions /\ typed[s] # NUL
  BY <1>1, LineEnds DEF Positions, ArgAssumption
<1>3. typed[s] \in Chars
  BY <1>2 DEF IsLine, Lines
<1> QED
  BY <1>1, <1>2, <1>3 DEF Chars

\* There are finitely many words.
LEMMA FiniteWords ==
  ASSUME ArgAssumption, IsLine, NEW p \in Int
  PROVE  /\ IsFiniteSet(WordStarts) /\ Cardinality(WordStarts) \in Nat
         /\ IsFiniteSet({t \in WordStarts : t < p}) /\ Before(p) \in Nat
<1>1. IsFiniteSet(0 .. (LineEnd - 1))
  BY LineEnds, FS_Interval DEF Positions, ArgAssumption
<1>2. WordStarts \in SUBSET (0 .. (LineEnd - 1))
  BY DEF WordStarts
<1>3. IsFiniteSet(WordStarts) /\ Cardinality(WordStarts) \in Nat
  BY <1>1, <1>2, FS_Subset, FS_CardinalityType
<1>4. {t \in WordStarts : t < p} \in SUBSET WordStarts
  OBVIOUS
<1> QED
  BY <1>3, <1>4, FS_Subset, FS_CardinalityType DEF Before

\* No word starts before the first position.
LEMMA NoneBefore ==
  ASSUME ArgAssumption, IsLine
  PROVE  Before(0) = 0
<1>1. {t \in WordStarts : t < 0} = {}
  BY StartsWithLetter
<1> QED
  BY <1>1, FS_EmptySet DEF Before

\* The number of a word is below the number of words.
LEMMA WordNumber ==
  ASSUME ArgAssumption, IsLine, NEW s \in WordStarts
  PROVE  Before(s) < Cardinality(WordStarts)
<1> DEFINE T == {t \in WordStarts : t < s}
<1>1. s \in Int /\ ~(s < s)
  BY StartsWithLetter
<1>2. T \in SUBSET WordStarts /\ s \notin T /\ T # WordStarts
  BY <1>1
<1>3. IsFiniteSet(WordStarts) /\ Cardinality(WordStarts) \in Nat /\ Cardinality(T) \in Nat
  BY <1>1, FiniteWords DEF Before
<1> HIDE DEF T
<1>4. Cardinality(T) <= Cardinality(WordStarts) /\ Cardinality(T) # Cardinality(WordStarts)
  BY <1>2, <1>3, FS_Subset
<1>5. Cardinality(T) < Cardinality(WordStarts)
  BY <1>3, <1>4
<1> QED
  BY <1>5 DEF Before, T

-----------------------------------------------------------------------------
(* What the scans find.                                                    *)

\* A scan that meets a character it does not skip stops at the first such.
LEMMA ScanStops ==
  ASSUME ArgAssumption, NEW m, NEW p \in Nat, NEW skip,
         NEW z \in p .. LineLength, m[z] \notin skip
  PROVE  /\ ScanEnd(m, p, skip) \in p .. z
         /\ m[ScanEnd(m, p, skip)] \notin skip
         /\ \A x \in p .. (ScanEnd(m, p, skip) - 1) : m[x] \in skip
<1> DEFINE T == {q \in p .. LineLength : m[q] \notin skip}
<1>1. T \in SUBSET Nat /\ z \in T
  BY DEF ArgAssumption
<1>2. Min(T) \in T /\ \A y \in T : Min(T) <= y
  BY <1>1, MinIsLeast
<1>3. PICK r : r = Min(T)
  OBVIOUS
<1>4. r \in T /\ r \in Nat /\ r <= z /\ z \in Nat
  BY <1>1, <1>2, <1>3
<1>5. ASSUME NEW x \in p .. (r - 1), m[x] \notin skip
      PROVE  FALSE
  <2>1. x \in T /\ x < r /\ x \in Nat
    BY <1>4, <1>5 DEF ArgAssumption
  <2> QED
    BY <1>2, <1>3, <1>4, <2>1
<1>6. ScanEnd(m, p, skip) = r
  BY <1>3 DEF ScanEnd
<1> QED
  BY <1>4, <1>5, <1>6

\* The string at a goes to the first NUL.
LEMMA StringEnds ==
  ASSUME ArgAssumption, NEW m, NEW a \in Nat, NEW z \in a .. LineLength, m[z] = NUL
  PROVE  /\ EndIn(m, a) \in a .. z /\ m[EndIn(m, a)] = NUL
         /\ \A x \in a .. (EndIn(m, a) - 1) : m[x] # NUL
<1> DEFINE T == {q \in a .. LineLength : m[q] = NUL}
<1>1. T \in SUBSET Nat /\ z \in T
  BY DEF ArgAssumption
<1>2. Min(T) \in T /\ \A y \in T : Min(T) <= y
  BY <1>1, MinIsLeast
<1>3. PICK r : r = Min(T)
  OBVIOUS
<1>4. r \in T /\ r \in Nat /\ r <= z /\ z \in Nat
  BY <1>1, <1>2, <1>3
<1>5. ASSUME NEW x \in a .. (r - 1), m[x] = NUL
      PROVE  FALSE
  <2>1. x \in T /\ x < r /\ x \in Nat
    BY <1>4, <1>5 DEF ArgAssumption
  <2> QED
    BY <1>2, <1>3, <1>4, <2>1
<1>6. EndIn(m, a) = r
  BY <1>3 DEF EndIn
<1> QED
  BY <1>4, <1>5, <1>6

\* And conversely: a NUL with none before it is the end.
LEMMA EndIs ==
  ASSUME ArgAssumption, NEW m, NEW a \in Nat, NEW z \in a .. LineLength, m[z] = NUL,
         \A x \in a .. (z - 1) : m[x] # NUL
  PROVE  EndIn(m, a) = z
<1>1. EndIn(m, a) \in a .. z /\ m[EndIn(m, a)] = NUL
  BY StringEnds
<1>2. z \in Nat /\ EndIn(m, a) \in Nat
  BY <1>1
<1> QED
  BY <1>1, <1>2

\* The end of a word, in the same way.
LEMMA WordEndIs ==
  ASSUME ArgAssumption, IsLine, NEW s \in Nat, NEW z \in s .. LineEnd,
         typed[z] \in Blanks \cup {NUL},
         \A x \in s .. (z - 1) : typed[x] \notin Blanks \cup {NUL}
  PROVE  WordEnd(s) = z
<1> DEFINE T == {q \in s .. LineEnd : typed[q] \in Blanks \cup {NUL}}
<1>1. T \in SUBSET Nat /\ z \in T /\ LineEnd \in Nat
  BY LineEnds DEF Positions
<1>2. Min(T) \in T /\ \A y \in T : Min(T) <= y
  BY <1>1, MinIsLeast
<1>3. PICK r : r = Min(T)
  OBVIOUS
<1>4. r \in s .. LineEnd /\ typed[r] \in Blanks \cup {NUL} /\ r <= z /\ z \in Nat
  BY <1>1, <1>2, <1>3
<1>5. ~(r \in s .. (z - 1))
  BY <1>4
<1>6. r = z
  BY <1>4, <1>5
<1> QED
  BY <1>3, <1>6 DEF WordEnd

\* A fresh rest that starts with a letter starts with a word.
LEMMA FreshWord ==
  ASSUME ArgAssumption, IsLine, NEW m, NEW p, FreshIn(m, p), typed[p] = "letter"
  PROVE  p \in WordStarts
<1>1. p \in 0 .. LineEnd /\ LineEnd \in Nat /\ typed[LineEnd] = NUL
  BY LineEnds DEF FreshIn, Positions
<1>2. p # LineEnd
  BY <1>1 DEF NUL
<1>3. p \in 0 .. (LineEnd - 1)
  BY <1>1, <1>2
<1>4. typed[p] \notin Blanks
  BY DEF Blanks
<1>5. p > 0 => typed[p - 1] \in Blanks
  BY <1>1 DEF FreshIn
<1> QED
  BY <1>3, <1>4, <1>5 DEF WordStarts

\* find_arg, from a fresh rest on: there is no further word, or it is the next
\* one and what comes behind it is fresh too.
LEMMA Finds ==
  ASSUME ArgAssumption, IsLine, NEW m \in Lines, NEW p, FreshIn(m, p),
         NEW r, r = find_arg(m, p)
  PROVE  \/ r = NULL /\ Before(p) = Cardinality(WordStarts)
         \/ /\ r # NULL /\ r \in WordStarts /\ r >= p
            /\ Before(r) = Before(p) /\ FreshIn(m, r)
<1>1. /\ LineEnd \in Nat /\ LineEnd <= LineLength /\ typed[LineEnd] = NUL
      /\ LineLength \in Nat /\ p \in Nat /\ p <= LineEnd
  BY LineEnds DEF Positions, FreshIn, ArgAssumption
<1>2. m[LineEnd] = NUL /\ NUL \notin Blanks /\ "letter" \notin Blanks /\ NUL # "letter"
  BY <1>1 DEF FreshIn, NUL, Blanks
<1>3. PICK q : q = ScanEnd(m, p, Blanks)
  OBVIOUS
<1>4. /\ q \in p .. LineEnd /\ m[q] \notin Blanks
      /\ \A x \in p .. (q - 1) : m[x] \in Blanks
  BY <1>1, <1>2, <1>3, ScanStops
<1>5. q \in Nat /\ p <= q /\ q <= LineEnd /\ m[q] = typed[q] /\ q \in Positions /\ q \in p .. LineLength
  BY <1>1, <1>4 DEF FreshIn, Positions
<1>6. \A t \in WordStarts : t < q <=> t < p
  <2> SUFFICES ASSUME NEW t \in WordStarts, t < q, ~(t < p)
               PROVE  FALSE
    BY <1>1, <1>5, StartsWithLetter
  <2>1. t \in p .. (q - 1) /\ typed[t] = "letter" /\ t \in p .. LineLength
    BY <1>1, <1>5, StartsWithLetter
  <2>2. m[t] \in Blanks /\ m[t] = typed[t]
    BY <1>4, <2>1 DEF FreshIn
  <2> QED
    BY <1>2, <2>1, <2>2
<1>7. {t \in WordStarts : t < q} = {t \in WordStarts : t < p}
  BY <1>6
<1>8. Before(q) = Before(p)
  BY <1>7 DEF Before
<1>9. CASE m[q] = NUL
  <2>1. r = NULL
    BY <1>3, <1>9 DEF find_arg
  <2>2. ~(q \in 0 .. (LineEnd - 1))
    BY <1>5, <1>9, LineEnds
  <2>3. q = LineEnd
    BY <1>1, <1>5, <2>2
  <2>4. \A t \in WordStarts : t < q
    BY <1>1, <2>3, StartsWithLetter
  <2>5. {t \in WordStarts : t < q} = WordStarts
    BY <2>4
  <2> QED
    BY <1>8, <2>1, <2>5 DEF Before
<1>10. CASE m[q] # NUL
  <2>1. r = q /\ r # NULL
    BY <1>3, <1>5, <1>10 DEF find_arg, ArgAssumption, Positions
  <2>2. typed[q] = "letter"
    BY <1>4, <1>5, <1>10 DEF Lines, Chars
  <2>3. \A x \in q .. LineLength : m[x] = typed[x]
    BY <1>1, <1>5 DEF FreshIn
  <2>4. q = 0 \/ typed[q] # "letter" \/ typed[q - 1] \in Blanks
    <3>1. CASE q = p
      BY <3>1 DEF FreshIn
    <3>2. CASE q # p
      <4>1. q - 1 \in p .. (q - 1) /\ q - 1 \in p .. LineLength
        BY <1>1, <1>5, <3>2
      <4> QED
        BY <1>4, <4>1 DEF FreshIn
    <3> QED
      BY <3>1, <3>2
  <2>5. FreshIn(m, q)
    BY <1>1, <1>5, <2>3, <2>4 DEF FreshIn
  <2> QED
    BY <1>5, <1>8, <2>1, <2>2, <2>5, FreshWord
<1> QED
  BY <1>9, <1>10

\* What terminate_arg does to a fresh rest, whatever stands at its start.
LEMMA Ends ==
  ASSUME ArgAssumption, IsLine, NEW m \in Lines, NEW p, FreshIn(m, p),
         NEW e, e = ArgEnd(m, p), NEW t, t = terminate_arg(m, p),
         NEW m2, m2 = terminated(m, p)
  PROVE  /\ e \in p .. LineEnd /\ t \in e .. LineEnd /\ t <= e + 1
         /\ \A x \in p .. (e - 1) : typed[x] = "letter"
         /\ typed[e] \in Blanks \cup {NUL}
         /\ m2 \in Lines /\ m2[e] = NUL
         /\ \A x \in Positions : x # e => m2[x] = m[x]
         /\ \A x \in Positions : x >= LineEnd => m2[x] = m[x]
         /\ FreshIn(m2, t) /\ EndIn(m2, p) = e
<1>1. /\ LineEnd \in Nat /\ LineEnd <= LineLength /\ typed[LineEnd] = NUL
      /\ LineLength \in Nat /\ p \in Nat /\ p <= LineEnd
  BY LineEnds DEF Positions, FreshIn, ArgAssumption
<1>2. m[LineEnd] = NUL /\ NUL \notin Blanks /\ "letter" \notin Blanks /\ NUL # "letter"
  BY <1>1 DEF FreshIn, NUL, Blanks
<1>3. e = ScanEnd(m, p, {"letter"}) /\ m[LineEnd] \notin {"letter"}
  BY <1>2 DEF ArgEnd
<1>4. /\ e \in p .. LineEnd /\ m[e] \notin {"letter"}
      /\ \A x \in p .. (e - 1) : m[x] \in {"letter"}
  BY <1>1, <1>3, ScanStops
<1>5. e \in Nat /\ p <= e /\ e <= LineEnd /\ e \in Positions /\ e \in p .. LineLength
  BY <1>1, <1>4 DEF Positions
<1>6. m[e] = typed[e] /\ \A x \in p .. (e - 1) : m[x] = typed[x] /\ x \in Positions
  BY <1>1, <1>5 DEF FreshIn, Positions
<1>7. typed[e] \in Blanks \cup {NUL}
  BY <1>4, <1>5, <1>6 DEF Lines, Chars
<1>8. m2 = [m EXCEPT ![e] = NUL] /\ t = IF m[e] = NUL THEN e ELSE e + 1
  BY DEF terminated, terminate_arg
<1>9. NUL \in Chars
  BY DEF Chars
<1>10. /\ m2 \in Lines /\ m2[e] = NUL
       /\ \A x \in Positions : x # e => m2[x] = m[x]
  BY <1>5, <1>8, <1>9 DEF Lines
<1>11. \A x \in Positions : x >= LineEnd => m2[x] = m[x]
  BY <1>1, <1>2, <1>5, <1>10 DEF Positions
<1>12. \A x \in p .. (e - 1) : m2[x] # NUL
  BY <1>2, <1>4, <1>5, <1>6, <1>10
<1>13. EndIn(m2, p) = e
  BY <1>1, <1>5, <1>10, <1>12, EndIs
<1>14. m[e] = NUL => e = LineEnd
  <2>1. m[e] = NUL => ~(e \in 0 .. (LineEnd - 1))
    BY <1>6, LineEnds
  <2> QED
    BY <1>1, <1>5, <2>1
<1>15. t \in e .. LineEnd /\ t <= e + 1
  <2>1. CASE m[e] = NUL
    BY <1>1, <1>5, <1>8, <2>1
  <2>2. CASE m[e] # NUL
    BY <1>1, <1>2, <1>5, <1>8, <2>2
  <2> QED
    BY <2>1, <2>2
<1>16. \A x \in t .. LineLength : m2[x] = typed[x]
  <2> SUFFICES ASSUME NEW x \in t .. LineLength
               PROVE  m2[x] = typed[x]
    OBVIOUS
  <2>1. x \in Positions /\ x \in p .. LineLength /\ m[x] = typed[x]
    BY <1>1, <1>5, <1>15 DEF FreshIn, Positions
  <2>2. CASE x = e
    BY <1>5, <1>8, <1>10, <2>1, <2>2
  <2>3. CASE x # e
    BY <1>10, <2>1, <2>3
  <2> QED
    BY <2>2, <2>3
<1>17. typed[t] # "letter" \/ typed[t - 1] \in Blanks
  <2>1. CASE m[e] = NUL
    BY <1>2, <1>6, <1>8, <2>1
  <2>2. CASE m[e] # NUL
    BY <1>5, <1>6, <1>7, <1>8, <2>2
  <2> QED
    BY <2>1, <2>2
<1>18. FreshIn(m2, t)
  BY <1>1, <1>5, <1>15, <1>16, <1>17 DEF FreshIn
<1> QED
  BY <1>4, <1>6, <1>7, <1>10, <1>11, <1>13, <1>15, <1>18

\* A word that is terminated ends where it was typed to end, and the rest
\* begins behind it.
LEMMA EndsWord ==
  ASSUME ArgAssumption, IsLine, NEW m \in Lines, NEW p \in WordStarts, FreshIn(m, p),
         NEW e, e = ArgEnd(m, p), NEW t, t = terminate_arg(m, p)
  PROVE  e = WordEnd(p) /\ p < e /\ Before(t) = Before(p) + 1
<1>1. /\ LineEnd \in Nat /\ p \in Nat /\ p < LineEnd /\ typed[p] = "letter"
  BY LineEnds, StartsWithLetter DEF Positions
<1>2. /\ e \in p .. LineEnd /\ t \in e .. LineEnd /\ t <= e + 1
      /\ \A x \in p .. (e - 1) : typed[x] = "letter"
      /\ typed[e] \in Blanks \cup {NUL}
  BY Ends
<1>3. "letter" \notin Blanks \cup {NUL}
  BY DEF Blanks, NUL
<1>4. e = WordEnd(p)
  <2>1. \A x \in p .. (e - 1) : typed[x] \notin Blanks \cup {NUL}
    BY <1>2, <1>3
  <2> QED
    BY <1>1, <1>2, <2>1, WordEndIs
<1>5. p # e /\ e \in Nat /\ t \in Nat
  BY <1>1, <1>2, <1>3
<1>6. p < e /\ p < t
  BY <1>1, <1>2, <1>5
<1>7. \A u \in WordStarts : u < t <=> u < p \/ u = p
  <2> SUFFICES ASSUME NEW u \in WordStarts, u < t, p < u
               PROVE  FALSE
    BY <1>1, <1>5, <1>6, StartsWithLetter
  <2>1. u \in Nat /\ u - 1 \in p .. (e - 1) /\ u > 0
    BY <1>1, <1>2, <1>5, StartsWithLetter
  <2>2. typed[u - 1] \in Blanks
    BY <2>1 DEF WordStarts
  <2> QED
    BY <1>2, <1>3, <2>1, <2>2
<1> DEFINE T == {u \in WordStarts : u < p}
<1>8. {u \in WordStarts : u < t} = T \cup {p}
  BY <1>7
<1>9. p \notin T /\ IsFiniteSet(T)
  BY <1>1, FiniteWords
<1> HIDE DEF T
<1>10. Cardinality(T \cup {p}) = Cardinality(T) + 1
  BY <1>9, FS_AddElement
<1>11. Before(p) = Cardinality(T) /\ Before(t) = Cardinality(T \cup {p})
  BY <1>8 DEF Before, T
<1> QED
  BY <1>4, <1>6, <1>10, <1>11

\* Where no word starts, terminate_arg makes an empty string and passes no word.
LEMMA EndsEmpty ==
  ASSUME ArgAssumption, IsLine, NEW m \in Lines, NEW p, FreshIn(m, p), typed[p] # "letter",
         NEW e, e = ArgEnd(m, p), NEW t, t = terminate_arg(m, p)
  PROVE  e = p /\ Before(t) = Before(p)
<1>1. /\ e \in p .. LineEnd /\ t \in e .. LineEnd /\ t <= e + 1
      /\ \A x \in p .. (e - 1) : typed[x] = "letter"
  BY Ends
<1>2. p \in Nat /\ e \in Nat /\ t \in Nat
  BY <1>1, LineEnds DEF FreshIn, Positions
<1>3. e = p
  BY <1>1, <1>2
<1>4. \A u \in WordStarts : u < t <=> u < p
  <2> SUFFICES ASSUME NEW u \in WordStarts
               PROVE  u < t <=> u < p
    OBVIOUS
  <2>1. u \in Nat /\ u # p
    BY StartsWithLetter
  <2> QED
    BY <1>1, <1>2, <1>3, <2>1
<1>5. {u \in WordStarts : u < t} = {u \in WordStarts : u < p}
  BY <1>4
<1> QED
  BY <1>3, <1>5 DEF Before

\* A string that ends before the rest of the line keeps its end.
LEMMA KeepsEnd ==
  ASSUME ArgAssumption, IsLine, NEW m \in Lines, NEW p, FreshIn(m, p),
         NEW m2, m2 = terminated(m, p),
         NEW a \in Positions, EndIn(m, a) <= p
  PROVE  EndIn(m2, a) = EndIn(m, a)
<1>1. PICK e, t : e = ArgEnd(m, p) /\ t = terminate_arg(m, p)
  OBVIOUS
<1>2. /\ e \in p .. LineEnd /\ m2[e] = NUL
      /\ \A x \in Positions : x # e => m2[x] = m[x]
  BY <1>1, Ends
<1>3. LineEnd \in Nat /\ LineEnd <= LineLength /\ LineLength \in Nat /\ p \in Nat /\ a \in Nat
  BY LineEnds DEF Positions, FreshIn, ArgAssumption
<1>4. m[LineLength] = NUL /\ LineLength \in a .. LineLength
  BY <1>3 DEF FreshIn, Positions, IsLine
<1>5. PICK x : x = EndIn(m, a)
  OBVIOUS
<1>6. x \in a .. LineLength /\ m[x] = NUL /\ \A y \in a .. (x - 1) : m[y] # NUL
  BY <1>3, <1>4, <1>5, StringEnds
<1>7. x \in Positions /\ x <= e /\ x \in Nat /\ e \in Nat
  BY <1>2, <1>3, <1>5, <1>6 DEF Positions
<1>8. m2[x] = NUL
  BY <1>2, <1>6, <1>7
<1>9. \A y \in a .. (x - 1) : m2[y] # NUL
  <2> SUFFICES ASSUME NEW y \in a .. (x - 1)
               PROVE  m2[y] # NUL
    OBVIOUS
  <2>1. y \in Positions /\ y # e
    BY <1>3, <1>6, <1>7 DEF Positions
  <2> QED
    BY <1>2, <1>6, <2>1
<1>10. EndIn(m2, a) = x
  BY <1>3, <1>6, <1>8, <1>9, EndIs
<1> QED
  BY <1>5, <1>10

-----------------------------------------------------------------------------
(* fill_args: what Filling says, of given values of the variables, and why *)
(* one more element keeps it.                                              *)

NthIn(k, n, e) == IF k = "busybox" THEN n - 1 ELSE IF n = 0 THEN 1 ELSE (n + 1) - e
IsWordIn(m, p, n) == p \in WordStarts /\ Before(p) = n /\ EndIn(m, p) = WordEnd(p)
StoredIn(m, a, k, nx, n, e) ==
  /\ a \in 0 .. LineEnd
  /\ IF e = 1 /\ n = 1 THEN EndIn(m, a) = a ELSE IsWordIn(m, a, NthIn(k, n, e))
  /\ nx # NULL => EndIn(m, a) <= nx
RestIn(m, k, nx, n, j, e) ==
  IF nx = NULL
    THEN NthIn(k, n, e) = Cardinality(WordStarts) /\ (k = "memrun" => j > 0)
    ELSE /\ FreshIn(m, nx)
         /\ IF e = 1 /\ j = 0 THEN typed[nx] # "letter" /\ Before(nx) = 2
            ELSE nx \in WordStarts /\ Before(nx) = NthIn(k, n, e)
Calls(k, f) == (k = "memrun" /\ f = 1) \/ (k = "busybox" /\ f = 2)

\* The element that the loop stores.
LEMMA StoresNext ==
  ASSUME ArgAssumption, IsLine, NEW m \in Lines, NEW k, NEW f, Calls(k, f), NEW j \in Nat,
         NEW e \in {0, 1}, e = 1 => k = "memrun",
         NEW nx, nx # NULL, RestIn(m, k, nx, f + j, j, e),
         NEW m2, m2 = terminated(m, nx), NEW t, t = terminate_arg(m, nx),
         NEW nx2, nx2 = find_arg(m2, t)
  PROVE  /\ StoredIn(m2, nx, k, nx2, f + j, e) /\ RestIn(m2, k, nx2, f + (j + 1), j + 1, e)
         /\ m2 \in Lines /\ \A x \in Positions : x >= LineEnd => m2[x] = m[x]
         /\ nx \in 0 .. LineEnd /\ (nx2 # NULL => nx2 \in 0 .. LineEnd /\ nx <= nx2)
<1>1. FreshIn(m, nx)
  BY DEF RestIn
<1>2. PICK q : q = ArgEnd(m, nx)
  OBVIOUS
<1>3. /\ q \in nx .. LineEnd /\ t \in q .. LineEnd
      /\ m2 \in Lines /\ \A x \in Positions : x >= LineEnd => m2[x] = m[x]
      /\ FreshIn(m2, t) /\ EndIn(m2, nx) = q
  BY <1>1, <1>2, Ends
<1>4. nx \in Nat /\ nx \in 0 .. LineEnd /\ LineEnd \in Nat /\ q \in Nat /\ t \in Nat /\ q <= t /\ nx <= q
  BY <1>1, <1>3, LineEnds DEF FreshIn, Positions
<1>5. \/ nx2 = NULL /\ Before(t) = Cardinality(WordStarts)
      \/ /\ nx2 # NULL /\ nx2 \in WordStarts /\ nx2 >= t
         /\ Before(nx2) = Before(t) /\ FreshIn(m2, nx2)
  BY <1>3, Finds
<1>6. f \in {1, 2} /\ f + j \in Nat /\ f + j > 0
  BY DEF Calls
<1>7. nx2 # NULL => nx2 \in 0 .. LineEnd /\ nx2 \in Nat /\ q <= nx2 /\ nx <= nx2
  BY <1>3, <1>4, <1>5 DEF FreshIn
<1>8. CASE e = 1 /\ j = 0
  <2>1. typed[nx] # "letter" /\ Before(nx) = 2 /\ k = "memrun" /\ f = 1
    BY <1>8 DEF RestIn, Calls
  <2>2. q = nx /\ Before(t) = 2
    BY <1>1, <1>2, <2>1, EndsEmpty
  <2>3. NthIn(k, f + (j + 1), e) = 2
    BY <1>8, <2>1 DEF NthIn
  <2>4. StoredIn(m2, nx, k, nx2, f + j, e)
    BY <1>3, <1>4, <1>7, <1>8, <2>1, <2>2 DEF StoredIn
  <2>5. RestIn(m2, k, nx2, f + (j + 1), j + 1, e)
    BY <1>5, <1>8, <2>2, <2>3 DEF RestIn
  <2> QED
    BY <1>3, <1>4, <1>7, <2>4, <2>5
<1>9. CASE ~(e = 1 /\ j = 0)
  <2>1. nx \in WordStarts /\ Before(nx) = NthIn(k, f + j, e)
    BY <1>9 DEF RestIn
  <2>2. q = WordEnd(nx) /\ Before(t) = Before(nx) + 1
    BY <1>1, <1>2, <2>1, EndsWord
  <2>3. NthIn(k, f + (j + 1), e) = NthIn(k, f + j, e) + 1
    BY <1>6 DEF NthIn
  <2>4. ~(e = 1 /\ f + j = 1)
    BY <1>9 DEF Calls
  <2>5. IsWordIn(m2, nx, NthIn(k, f + j, e))
    BY <1>3, <2>1, <2>2 DEF IsWordIn
  <2>6. StoredIn(m2, nx, k, nx2, f + j, e)
    BY <1>3, <1>4, <1>7, <2>4, <2>5 DEF StoredIn
  <2>7. Before(t) = NthIn(k, f + (j + 1), e)
    BY <2>1, <2>2, <2>3
  <2>8. RestIn(m2, k, nx2, f + (j + 1), j + 1, e)
    BY <1>5, <2>7 DEF RestIn
  <2> QED
    BY <1>3, <1>4, <1>7, <2>6, <2>8
<1> QED
  BY <1>8, <1>9

\* The elements that are there already.
LEMMA StaysStored ==
  ASSUME ArgAssumption, IsLine, NEW m \in Lines, NEW k, NEW nx, nx # NULL, FreshIn(m, nx),
         NEW a, NEW n, NEW e, StoredIn(m, a, k, nx, n, e),
         NEW m2, m2 = terminated(m, nx), NEW nx2, nx2 # NULL => nx2 \in Nat /\ nx <= nx2
  PROVE  StoredIn(m2, a, k, nx2, n, e)
<1>1. a \in 0 .. LineEnd /\ EndIn(m, a) <= nx /\ nx \in Nat
  BY LineEnds DEF StoredIn, FreshIn, Positions
<1>2. a \in Positions /\ a \in Nat /\ LineLength \in a .. LineLength
  BY <1>1, LineEnds DEF Positions, ArgAssumption
<1>3. EndIn(m2, a) = EndIn(m, a)
  BY <1>1, <1>2, KeepsEnd
<1>4. m[LineLength] = NUL
  BY <1>1, LineEnds DEF FreshIn, IsLine, Positions, ArgAssumption
<1>5. EndIn(m, a) \in Nat
  BY <1>2, <1>4, StringEnds
<1>6. nx2 # NULL => EndIn(m, a) <= nx2
  BY <1>1, <1>5
<1> QED
  BY <1>3, <1>6 DEF StoredIn, IsWordIn

-----------------------------------------------------------------------------
(* From given values back to the variables, after a step.                  *)

\* The words do not change: the line as it was typed is kept.
LEMMA WordsStay ==
  ASSUME typed' = typed
  PROVE  /\ LineEnd' = LineEnd /\ WordStarts' = WordStarts
         /\ \A s : WordEnd(s)' = WordEnd(s) /\ Before(s)' = Before(s)
<1>1. LineEnd' = LineEnd
  BY DEF LineEnd
<1>2. WordStarts' = WordStarts
  BY <1>1 DEF WordStarts
<1> QED
  BY <1>1, <1>2 DEF WordEnd, Before

\* An element after the step.
LEMMA StoredNext ==
  ASSUME typed' = typed, NEW m, m = line', NEW k, k = kind', NEW nx, nx = next',
         NEW n, NEW e, NEW a, a = args'[n], StoredIn(m, a, k, nx, n, e)
  PROVE  Stored(n, e)'
<1>1. StringEnd(args[n])' = EndIn(m, a)
  BY DEF StringEnd, EndIn
<1>2. WordEnd(args[n])' = WordEnd(a)
  BY WordsStay DEF WordEnd
<1>3. Before(args[n])' = Before(a)
  BY WordsStay DEF Before
<1>4. Nth(n, e)' = NthIn(k, n, e)
  BY DEF Nth, NthIn
<1>5. IsWord(args[n], Nth(n, e))' <=> IsWordIn(m, a, NthIn(k, n, e))
  BY <1>1, <1>2, <1>3, <1>4, WordsStay DEF IsWord, IsWordIn
<1> QED
  BY <1>1, <1>5, WordsStay DEF Stored, StoredIn

\* The rest of the line after the step.
LEMMA FreshNext ==
  ASSUME typed' = typed, NEW m, m = line', NEW nx, nx = next', FreshIn(m, nx)
  PROVE  Fresh(next)'
  BY WordsStay DEF Fresh, FreshIn

\* Filling after the step.
LEMMA FillingNext ==
  ASSUME typed' = typed, NEW m, m = line', NEW k, k = kind', NEW nx, nx = next',
         NEW f, f = first', NEW j, j = i', NEW e, e = 1 => k = "memrun",
         \A n \in (IF k = "busybox" THEN 1 ELSE 0) .. ((f + j) - 1) :
           StoredIn(m, args'[n], k, nx, n, e),
         \A n \in (f + j) .. MaxArgs : args'[n] = Unset,
         RestIn(m, k, nx, f + j, j, e)
  PROVE  Filling(e)'
<1>1. Nth(first + i, e)' = NthIn(k, f + j, e)
  BY DEF Nth, NthIn
<1>2. \A n \in (Lowest .. ((first + i) - 1))' : Stored(n, e)'
  <2> SUFFICES ASSUME NEW n \in (Lowest .. ((first + i) - 1))'
               PROVE  Stored(n, e)'
    OBVIOUS
  <2>1. PICK a : a = args'[n]
    OBVIOUS
  <2>2. StoredIn(m, a, k, nx, n, e)
    BY <2>1 DEF Lowest
  <2> QED
    BY <2>1, <2>2, StoredNext
<1>3. Before(next)' = Before(nx)
  BY WordsStay DEF Before
<1>4. nx # NULL => Fresh(next)'
  BY FreshNext DEF RestIn
<1> QED
  BY <1>1, <1>2, <1>3, <1>4, WordsStay DEF Filling, RestIn

-----------------------------------------------------------------------------
(* The steps.                                                              *)

\* The part of the invariant that says nothing of where the program is.
InLine == TypeOK /\ StaysInLine /\ typed[LineLength] = NUL

\* It stays when the line is changed before its end only and the pointers that
\* are stored point into it.
LEMMA StepInLine ==
  ASSUME ArgAssumption, InLine, typed' = typed,
         line' \in Lines, \A x \in Positions : x >= LineEnd => line'[x] = line[x],
         next' = next \/ next' = NULL \/ next' \in 0 .. LineEnd,
         args' \in [0 .. MaxArgs -> Pointers],
         \A k \in 0 .. MaxArgs : args'[k] = args[k] \/ args'[k] \in 0 .. LineEnd \/ args'[k] \notin Positions,
         pc' \in {"command", "path", "memrun", "busybox", "fill", "exec", "done"},
         kind' \in Kinds \cup {Unset}, prog' = prog \/ prog' \in 0 .. LineEnd,
         first' \in 0 .. 2, i' \in 0 .. MaxArgs
  PROVE  InLine'
<1>1. IsLine
  BY DEF InLine, TypeOK, IsLine, Lines
<1>2. LineEnd \in Nat /\ LineEnd <= LineLength /\ 0 .. LineEnd \in SUBSET Positions /\ NULL \notin Positions
  BY <1>1, LineEnds DEF Positions, ArgAssumption
<1>3. LineEnd' = LineEnd
  BY WordsStay
<1>4. TypeOK'
  BY <1>2 DEF InLine, TypeOK, Lines, Pointers
<1>5. (\A q \in Positions : q >= LineEnd => line[q] = typed[q])'
  BY <1>3 DEF InLine, StaysInLine
<1>6. (next \in Positions => next <= LineEnd)'
  BY <1>2, <1>3 DEF InLine, StaysInLine
<1>7. (\A k \in 0 .. MaxArgs : args[k] \in Positions => args[k] <= LineEnd)'
  BY <1>2, <1>3 DEF InLine, StaysInLine
<1> QED
  BY <1>4, <1>5, <1>6, <1>7 DEF InLine, StaysInLine

\* The program's name is split off.
LEMMA CommandKeeps ==
  ASSUME ArgAssumption, WordsInv, process_command
  PROVE  WordsInv'
<1>1. /\ InLine /\ IsLine /\ line = typed /\ line \in Lines /\ typed' = typed
      /\ args' = args /\ first' = first /\ i' = i
      /\ first = 0 /\ i = 0 /\ \A n \in 0 .. MaxArgs : args[n] = Unset
  BY DEF WordsInv, InLine, IsLine, process_command, TypeOK, Lines
<1>2. PICK m, p : m = line /\ p = find_arg(m, 0)
  OBVIOUS
<1>3. FreshIn(m, 0) /\ m \in Lines
  BY <1>1, <1>2, LineEnds DEF FreshIn, Positions
<1>4. CASE p = NULL
  <2>1. pc' = "done" /\ line' = line /\ kind' = kind /\ prog' = prog /\ next' = next
    BY <1>1, <1>2, <1>4 DEF process_command
  <2>2. InLine'
    BY <1>1, <2>1, StepInLine DEF InLine, TypeOK
  <2> QED
    BY <2>1, <2>2 DEF WordsInv, InLine, ArgsAreWords
<1>5. CASE p # NULL
  <2>1. PICK t, m2, e : t = terminate_arg(m, p) /\ m2 = terminated(m, p) /\ e = ArgEnd(m, p)
    OBVIOUS
  <2>2. /\ prog' = p /\ next' = t /\ line' = m2 /\ kind' \in Kinds
        /\ pc' = IF kind' = "plain" THEN "done" ELSE kind'
    BY <1>1, <1>2, <1>5, <2>1 DEF process_command
  <2>3. p \in WordStarts /\ Before(p) = 0 /\ FreshIn(m, p)
    BY <1>1, <1>2, <1>3, <1>5, Finds, NoneBefore
  <2>4. /\ e \in p .. LineEnd /\ t \in e .. LineEnd /\ m2 \in Lines
        /\ \A x \in Positions : x >= LineEnd => m2[x] = m[x]
        /\ FreshIn(m2, t) /\ EndIn(m2, p) = e
    BY <1>1, <1>3, <2>1, <2>3, Ends
  <2>5. e = WordEnd(p) /\ Before(t) = 1
    BY <1>1, <1>3, <2>1, <2>3, EndsWord
  <2>6. p \in 0 .. LineEnd /\ t \in 0 .. LineEnd /\ e <= t
    BY <1>1, <2>3, <2>4, StartsWithLetter, LineEnds DEF Positions
  <2>7. InLine'
    BY <1>1, <1>2, <2>2, <2>4, <2>6, StepInLine DEF InLine, TypeOK, Kinds
  <2>8. Fresh(next)' /\ LineEnd' = LineEnd
    BY <1>1, <2>2, <2>4, FreshNext, WordsStay
  <2>9. StringEnd(prog)' = e
    BY <2>2, <2>4 DEF StringEnd, EndIn
  <2>10. WordEnd(prog)' = WordEnd(p) /\ Before(prog)' = Before(p) /\ Before(next)' = Before(t)
    BY <1>1, <2>2, WordsStay DEF WordEnd, Before
  <2>11. IsWord(prog, 0)'
    BY <1>1, <2>2, <2>3, <2>5, <2>9, <2>10, WordsStay DEF IsWord
  <2>12. pc' # "command" /\ pc' # "fill" /\ pc' # "exec" /\ (pc' \in {"path", "memrun", "busybox"} => kind' = pc')
    BY <2>2 DEF Kinds
  <2> QED
    BY <1>1, <2>2, <2>5, <2>6, <2>7, <2>8, <2>9, <2>10, <2>11, <2>12 DEF WordsInv, InLine, ArgsAreWords
<1> QED
  BY <1>4, <1>5

\* The path of ls or cat is split off.
LEMMA PathKeeps ==
  ASSUME ArgAssumption, WordsInv, path_command
  PROVE  WordsInv'
<1>1. /\ InLine /\ IsLine /\ line \in Lines /\ Fresh(next) /\ typed' = typed
      /\ args' = args /\ first' = first /\ i' = i /\ kind' = kind /\ prog' = prog /\ pc' = "done"
  BY DEF WordsInv, InLine, IsLine, path_command, TypeOK, Lines
<1>2. PICK m, nx : m = line /\ nx = next
  OBVIOUS
<1>3. PICK p : p = find_arg(m, nx)
  OBVIOUS
<1>4. FreshIn(m, nx) /\ m \in Lines
  BY <1>1, <1>2 DEF Fresh, FreshIn
<1>5. InLine'
  <2>1. CASE p = NULL
    <3>1. line' = line /\ next' = next
      BY <1>2, <1>3, <2>1 DEF path_command
    <3> QED
      BY <1>1, <3>1, StepInLine DEF InLine, TypeOK
  <2>2. CASE p # NULL
    <3>1. PICK t, m2, e : t = terminate_arg(m, p) /\ m2 = terminated(m, p) /\ e = ArgEnd(m, p)
      OBVIOUS
    <3>2. next' = t /\ line' = m2
      BY <1>2, <1>3, <2>2, <3>1 DEF path_command
    <3>3. p \in WordStarts /\ FreshIn(m, p)
      BY <1>1, <1>3, <1>4, <2>2, Finds
    <3>4. /\ e \in p .. LineEnd /\ t \in e .. LineEnd /\ m2 \in Lines
          /\ \A x \in Positions : x >= LineEnd => m2[x] = m[x]
      BY <1>1, <1>4, <3>1, <3>3, Ends
    <3>5. t \in 0 .. LineEnd
      BY <1>1, <3>3, <3>4, StartsWithLetter, LineEnds DEF Positions
    <3> QED
      BY <1>1, <1>2, <3>2, <3>4, <3>5, StepInLine DEF InLine, TypeOK
  <2> QED
    BY <2>1, <2>2
<1> QED
  BY <1>1, <1>5 DEF WordsInv, InLine, ArgsAreWords

\* memrun's path is split off; what follows it may be an empty string.
LEMMA MemrunKeeps ==
  ASSUME ArgAssumption, WordsInv, cmd_memrun
  PROVE  WordsInv'
<1>1. /\ InLine /\ IsLine /\ line \in Lines /\ Fresh(next) /\ Before(next) = 1 /\ typed' = typed
      /\ i' = i /\ kind' = kind /\ prog' = prog /\ kind = "memrun"
      /\ first = 0 /\ i = 0 /\ \A n \in 0 .. MaxArgs : args[n] = Unset
      /\ MaxArgs \in Nat /\ MaxArgs >= 3 /\ args \in [0 .. MaxArgs -> Pointers]
  BY DEF WordsInv, InLine, IsLine, cmd_memrun, TypeOK, Lines, ArgAssumption
<1>2. PICK m, nx : m = line /\ nx = next
  OBVIOUS
<1>3. PICK p : p = find_arg(m, nx)
  OBVIOUS
<1>4. FreshIn(m, nx) /\ m \in Lines /\ Before(nx) = 1
  BY <1>1, <1>2 DEF Fresh, FreshIn
<1>5. IsLine
  BY <1>1
<1>6. CASE p = NULL
  <2>1. pc' = "done" /\ line' = line /\ next' = next /\ args' = args /\ first' = first
    BY <1>2, <1>3, <1>6 DEF cmd_memrun
  <2>2. InLine'
    BY <1>1, <2>1, StepInLine DEF InLine, TypeOK
  <2> QED
    BY <2>1, <2>2 DEF WordsInv, InLine, ArgsAreWords
<1>7. CASE p # NULL
  <2>1. PICK t, m2, q : t = terminate_arg(m, p) /\ m2 = terminated(m, p) /\ q = ArgEnd(m, p)
    OBVIOUS
  <2>2. /\ next' = t /\ line' = m2 /\ args' = [args EXCEPT ![0] = p] /\ first' = 1 /\ pc' = "fill"
    BY <1>2, <1>3, <1>7, <2>1 DEF cmd_memrun
  <2>3. p \in WordStarts /\ FreshIn(m, p) /\ Before(p) = 1
    BY <1>1, <1>3, <1>4, <1>7, Finds
  <2>4. /\ q \in p .. LineEnd /\ t \in q .. LineEnd /\ m2 \in Lines
        /\ \A x \in Positions : x >= LineEnd => m2[x] = m[x]
        /\ FreshIn(m2, t) /\ EndIn(m2, p) = q
    BY <1>4, <1>5, <2>1, <2>3, Ends
  <2>5. q = WordEnd(p) /\ Before(t) = 2
    BY <1>4, <1>5, <2>1, <2>3, EndsWord
  <2>6. /\ p \in 0 .. LineEnd /\ t \in 0 .. LineEnd /\ q <= t /\ p \in Positions
        /\ t \in Positions /\ t # NULL
    <3>1. p \in Nat /\ LineEnd \in Nat /\ LineEnd <= LineLength /\ LineLength \in Nat /\ p <= LineEnd
      BY <1>5, <2>3, StartsWithLetter, LineEnds DEF Positions, ArgAssumption
    <3> QED
      BY <2>4, <3>1 DEF Positions, ArgAssumption
  <2>7. /\ args' \in [0 .. MaxArgs -> Pointers] /\ args'[0] = p
        /\ \A n \in 1 .. MaxArgs : args'[n] = Unset
    BY <1>1, <2>2, <2>6 DEF Pointers
  <2>8. \A n \in 0 .. MaxArgs : args'[n] = args[n] \/ args'[n] \in 0 .. LineEnd
    BY <1>1, <2>6, <2>7
  <2>9. InLine'
    BY <1>1, <1>2, <2>2, <2>4, <2>6, <2>7, <2>8, StepInLine DEF InLine, TypeOK
  <2>10. PICK e \in {0, 1} : e = 0 <=> typed[t] = "letter"
    OBVIOUS
  <2>11. NthIn("memrun", 0, e) = 1 /\ (e = 0 => NthIn("memrun", 1, e) = 2)
    BY DEF NthIn
  <2>12. StoredIn(m2, p, "memrun", t, 0, e)
    BY <2>3, <2>4, <2>5, <2>6, <2>11 DEF StoredIn, IsWordIn
  <2>13. RestIn(m2, "memrun", t, 1, 0, e)
    BY <1>1, <2>4, <2>5, <2>6, <2>10, <2>11, FreshWord DEF RestIn
  <2>14. /\ \A n \in 0 .. ((1 + 0) - 1) : StoredIn(m2, args'[n], "memrun", t, n, e)
         /\ \A n \in (1 + 0) .. MaxArgs : args'[n] = Unset
         /\ RestIn(m2, "memrun", t, 1 + 0, 0, e)
    BY <2>7, <2>12, <2>13
  <2>15. PICK k, f, j : k = "memrun" /\ k = kind' /\ f = 1 /\ f = first' /\ j = 0 /\ j = i'
    BY <1>1, <2>2
  <2>16. Filling(e)'
    BY <1>1, <2>2, <2>14, <2>15, FillingNext
  <2>17. (\E e1 \in {0, 1} : Filling(e1))'
    BY <2>16, <2>10
  <2> QED
    BY <1>1, <2>2, <2>9, <2>17 DEF WordsInv, InLine, ArgsAreWords
<1> QED
  BY <1>6, <1>7

\* busybox: the program's name and the first word behind it.
LEMMA BusyboxKeeps ==
  ASSUME ArgAssumption, WordsInv, busybox
  PROVE  WordsInv'
<1>1. /\ InLine /\ IsLine /\ line \in Lines /\ Fresh(next) /\ Before(next) = 1 /\ typed' = typed
      /\ line' = line /\ i' = i /\ kind' = kind /\ prog' = prog /\ kind = "busybox" /\ pc' = "fill"
      /\ first = 0 /\ i = 0 /\ first' = 2 /\ \A n \in 0 .. MaxArgs : args[n] = Unset
      /\ MaxArgs \in Nat /\ MaxArgs >= 3 /\ args \in [0 .. MaxArgs -> Pointers]
      /\ prog \in 0 .. LineEnd /\ IsWord(prog, 0) /\ StringEnd(prog) <= next
      /\ args' = [args EXCEPT ![0] = Busybox, ![1] = prog]
  BY DEF WordsInv, InLine, IsLine, busybox, TypeOK, Lines, ArgAssumption
<1>2. PICK m, nx, p : m = line /\ nx = next /\ p = prog
  OBVIOUS
<1>3. PICK nx2 : nx2 = find_arg(m, nx)
  OBVIOUS
<1>4. FreshIn(m, nx) /\ m \in Lines /\ Before(nx) = 1 /\ nx2 = next'
  <2>1. nx2 = next'
    BY <1>2, <1>3, Zenon DEF busybox
  <2>2. FreshIn(m, nx)
    BY <1>1, <1>2, Zenon DEF Fresh, FreshIn
  <2> QED
    BY <1>1, <1>2, <2>1, <2>2, Zenon
<1>5. \/ nx2 = NULL /\ 1 = Cardinality(WordStarts)
      \/ /\ nx2 # NULL /\ nx2 \in WordStarts /\ nx2 >= nx
         /\ Before(nx2) = 1 /\ FreshIn(m, nx2)
  <2>1. IsLine /\ m \in Lines /\ FreshIn(m, nx) /\ nx2 = find_arg(m, nx) /\ Before(nx) = 1
    BY <1>1, <1>3, <1>4, Zenon
  <2> QED
    BY <2>1, Finds, Zenon
<1>6. IsWordIn(m, p, 0) /\ EndIn(m, p) <= nx /\ p \in 0 .. LineEnd
  BY <1>1, <1>2 DEF IsWord, IsWordIn, StringEnd, EndIn
<1>7. nx \in Nat /\ p \in Nat /\ p <= LineLength /\ LineEnd \in Nat /\ LineEnd <= LineLength /\ LineLength \in Nat
  BY <1>1, <1>4, <1>6, LineEnds DEF FreshIn, Positions, ArgAssumption
<1>8. m[LineLength] = NUL /\ LineLength \in p .. LineLength
  BY <1>1, <1>2, <1>7 DEF InLine, StaysInLine, Positions
<1>9. EndIn(m, p) \in Nat
  BY <1>7, <1>8, StringEnds
<1>10. nx2 # NULL => nx2 \in 0 .. LineEnd /\ EndIn(m, p) <= nx2
  BY <1>5, <1>6, <1>7, <1>9 DEF FreshIn
<1>11. NthIn("busybox", 1, 0) = 0 /\ NthIn("busybox", 2, 0) = 1
  BY DEF NthIn
<1>12. StoredIn(m, p, "busybox", nx2, 1, 0)
  BY <1>6, <1>10, <1>11 DEF StoredIn
<1>13. RestIn(m, "busybox", nx2, 2, 0, 0)
  BY <1>5, <1>11 DEF RestIn
<1>14. /\ args' \in [0 .. MaxArgs -> Pointers] /\ args'[0] = Busybox /\ args'[1] = p
       /\ \A n \in 2 .. MaxArgs : args'[n] = Unset
  <2>1. p \in Pointers /\ Busybox \in Pointers /\ p = prog /\ 0 \in 0 .. MaxArgs /\ 1 \in 0 .. MaxArgs
    BY <1>1, <1>2, <1>6, <1>7 DEF Pointers, Positions
  <2>2. \A n \in 2 .. MaxArgs : n \in 0 .. MaxArgs /\ n # 0 /\ n # 1
    BY <1>1
  <2> QED
    BY <1>1, <2>1, <2>2
<1>15. \A n \in 0 .. MaxArgs : args'[n] = args[n] \/ args'[n] \in 0 .. LineEnd \/ args'[n] \notin Positions
  BY <1>1, <1>6, <1>14 DEF ArgAssumption, Positions
<1>16. InLine'
  BY <1>1, <1>4, <1>10, <1>14, <1>15, StepInLine DEF InLine, TypeOK
<1>17. /\ \A n \in 1 .. ((2 + 0) - 1) : StoredIn(m, args'[n], "busybox", nx2, n, 0)
       /\ \A n \in (2 + 0) .. MaxArgs : args'[n] = Unset
       /\ RestIn(m, "busybox", nx2, 2 + 0, 0, 0)
  BY <1>12, <1>13, <1>14
<1>18. PICK k, f, j, e : k = "busybox" /\ k = kind' /\ f = 2 /\ f = first' /\ j = 0 /\ j = i' /\ e = 0
  BY <1>1
<1>19. Filling(e)'
  <2>1. m = line' /\ nx2 = next' /\ typed' = typed
    BY <1>1, <1>2, <1>4, Zenon
  <2> QED
    BY <1>17, <1>18, <2>1, FillingNext
<1>20. (\E e1 \in {0, 1} : Filling(e1))'
  BY <1>18, <1>19
<1> QED
  BY <1>1, <1>16, <1>20 DEF WordsInv, InLine, ArgsAreWords

\* One more argument is stored.
LEMMA LoopKeeps ==
  ASSUME ArgAssumption, WordsInv, fill_args_loop
  PROVE  WordsInv'
<1>1. /\ InLine /\ IsLine /\ line \in Lines /\ typed' = typed /\ pc = "fill" /\ pc' = "fill"
      /\ kind' = kind /\ prog' = prog /\ first' = first /\ i' = i + 1
      /\ next # NULL /\ i < MaxArgs - first /\ args' = [args EXCEPT ![first + i] = next]
      /\ kind \in {"memrun", "busybox"} /\ first = IF kind = "memrun" THEN 1 ELSE 2
      /\ i \in Nat /\ MaxArgs \in Nat /\ args \in [0 .. MaxArgs -> Pointers]
  BY DEF WordsInv, InLine, IsLine, fill_args_loop, MoreArgs, TypeOK, Lines, ArgAssumption
<1>2. IsLine
  BY <1>1
<1>3. PICK e \in {0, 1} : Filling(e)
  BY <1>1 DEF WordsInv
<1>4. PICK m, k, f, j, nx : m = line /\ k = kind /\ f = first /\ j = i /\ nx = next
  OBVIOUS
<1>5. PICK m2, t : m2 = terminated(m, nx) /\ t = terminate_arg(m, nx)
  OBVIOUS
<1>6. PICK nx2 : nx2 = find_arg(m2, t)
  OBVIOUS
<1>7. line' = m2 /\ next' = nx2
  BY <1>4, <1>5, <1>6 DEF fill_args_loop
<1>8. /\ m \in Lines /\ Calls(k, f) /\ f \in {1, 2} /\ j \in Nat /\ nx # NULL /\ f + j < MaxArgs
      /\ k \in {"memrun", "busybox"}
  BY <1>1, <1>4 DEF Calls
<1>9. /\ e = 1 => k = "memrun"
      /\ \A n \in (IF k = "busybox" THEN 1 ELSE 0) .. ((f + j) - 1) :
           StoredIn(m, args[n], k, nx, n, e)
      /\ \A n \in (f + j) .. MaxArgs : args[n] = Unset
      /\ RestIn(m, k, nx, f + j, j, e) /\ FreshIn(m, nx)
  BY <1>3, <1>4, <1>8 DEF Filling, Lowest, Stored, StoredIn, RestIn, Fresh, FreshIn, Nth, NthIn,
     IsWord, IsWordIn, StringEnd, EndIn
<1>10. /\ StoredIn(m2, nx, k, nx2, f + j, e) /\ RestIn(m2, k, nx2, f + (j + 1), j + 1, e)
       /\ m2 \in Lines /\ \A x \in Positions : x >= LineEnd => m2[x] = m[x]
       /\ nx \in 0 .. LineEnd /\ (nx2 # NULL => nx2 \in 0 .. LineEnd /\ nx <= nx2)
  BY <1>2, <1>3, <1>5, <1>6, <1>8, <1>9, StoresNext
<1>11. nx \in Pointers /\ f + j \in 0 .. MaxArgs
  BY <1>1, <1>4, <1>8 DEF InLine, TypeOK
<1>12. /\ args' \in [0 .. MaxArgs -> Pointers] /\ args'[f + j] = nx
       /\ \A n \in 0 .. MaxArgs : n # f + j => args'[n] = args[n]
  BY <1>1, <1>4, <1>11
<1>13. InLine'
  <2>1. next' = NULL \/ next' \in 0 .. LineEnd
    BY <1>7, <1>10
  <2>2. \A n \in 0 .. MaxArgs : args'[n] = args[n] \/ args'[n] \in 0 .. LineEnd
    BY <1>10, <1>12
  <2>3. line' \in Lines /\ \A x \in Positions : x >= LineEnd => line'[x] = line[x]
    BY <1>4, <1>7, <1>10
  <2>4. i' \in 0 .. MaxArgs
    BY <1>1, <1>4, <1>8
  <2> QED
    BY <1>1, <1>12, <2>1, <2>2, <2>3, <2>4, StepInLine DEF InLine, TypeOK
<1>14. ASSUME NEW n \in (IF k = "busybox" THEN 1 ELSE 0) .. ((f + (j + 1)) - 1)
       PROVE  StoredIn(m2, args'[n], k, nx2, n, e)
  <2>1. PICK a : a = args[n]
    OBVIOUS
  <2>2. CASE n = f + j
    BY <1>10, <1>12, <2>2
  <2>3. CASE n # f + j
    <3>1. n \in (IF k = "busybox" THEN 1 ELSE 0) .. ((f + j) - 1) /\ n \in 0 .. MaxArgs
      BY <1>1, <1>8, <2>3
    <3>2. StoredIn(m, a, k, nx, n, e) /\ args'[n] = a
      BY <1>9, <1>12, <2>1, <2>3, <3>1
    <3>3. nx2 # NULL => nx2 \in Nat /\ nx <= nx2
      BY <1>2, <1>10, LineEnds DEF Positions
    <3>4. StoredIn(m2, a, k, nx2, n, e)
      BY <1>2, <1>5, <1>8, <1>9, <3>2, <3>3, StaysStored
    <3> QED
      BY <3>2, <3>4
  <2> QED
    BY <2>2, <2>3
<1>15. \A n \in (f + (j + 1)) .. MaxArgs : args'[n] = Unset
  BY <1>1, <1>8, <1>9, <1>12
<1>16. PICK j2 : j2 = j + 1
  OBVIOUS
<1>17. /\ \A n \in (IF k = "busybox" THEN 1 ELSE 0) .. ((f + j2) - 1) : StoredIn(m2, args'[n], k, nx2, n, e)
       /\ \A n \in (f + j2) .. MaxArgs : args'[n] = Unset
       /\ RestIn(m2, k, nx2, f + j2, j2, e)
       /\ m2 = line' /\ k = kind' /\ nx2 = next' /\ f = first' /\ j2 = i'
  BY <1>1, <1>4, <1>7, <1>10, <1>14, <1>15, <1>16
<1>18. Filling(e)'
  BY <1>1, <1>9, <1>17, FillingNext
<1>19. (\E e1 \in {0, 1} : Filling(e1))'
  BY <1>3, <1>18
<1>20. (i <= MaxArgs - first)'
  BY <1>1
<1> QED
  BY <1>1, <1>13, <1>19, <1>20 DEF WordsInv, InLine, ArgsAreWords

\* The array as the program gets it, for given values.
GivenIn(m, a, k, n, e) ==
  \/ k = "memrun" /\ n = 1 /\ e = 1
  \/ IF NthIn(k, n, e) < Cardinality(WordStarts)
       THEN IsWordIn(m, a, NthIn(k, n, e))
       ELSE a = IF NthIn(k, n, e) = Cardinality(WordStarts) THEN NULL ELSE Unset

\* An element that is stored is a word of the line.
LEMMA StoredGiven ==
  ASSUME ArgAssumption, IsLine, NEW m, NEW a, NEW k, NEW nx, NEW n, NEW e, e = 1 => k = "memrun",
         StoredIn(m, a, k, nx, n, e)
  PROVE  GivenIn(m, a, k, n, e)
<1>1. CASE e = 1 /\ n = 1
  BY <1>1 DEF GivenIn
<1>2. CASE ~(e = 1 /\ n = 1)
  <2>1. IsWordIn(m, a, NthIn(k, n, e))
    BY <1>2 DEF StoredIn
  <2>2. NthIn(k, n, e) < Cardinality(WordStarts)
    BY <2>1, WordNumber DEF IsWordIn
  <2> QED
    BY <2>1, <2>2 DEF GivenIn
<1> QED
  BY <1>1, <1>2

\* memrun's first argument is empty exactly when it was found to be.
LEMMA EmptyIs ==
  ASSUME ArgAssumption, IsLine, NEW m, NEW a, NEW nx, NEW e \in {0, 1},
         StoredIn(m, a, "memrun", nx, 1, e)
  PROVE  a # NULL /\ (EndIn(m, a) = a <=> e = 1)
<1>1. a \in 0 .. LineEnd /\ LineEnd \in Nat /\ LineEnd <= LineLength
  BY LineEnds DEF StoredIn, Positions
<1>2. a # NULL
  BY <1>1 DEF ArgAssumption
<1>3. CASE e = 1
  BY <1>2, <1>3 DEF StoredIn
<1>4. CASE e = 0
  <2>1. a \in WordStarts /\ EndIn(m, a) = WordEnd(a)
    BY <1>4 DEF StoredIn, IsWordIn
  <2>2. typed[a] = "letter" /\ a \in Nat /\ a < LineEnd /\ typed[LineEnd] = NUL
    BY <1>1, <2>1, StartsWithLetter, LineEnds
  <2> DEFINE T == {q \in a .. LineEnd : typed[q] \in Blanks \cup {NUL}}
  <2>3. T \in SUBSET Nat /\ LineEnd \in T /\ a \notin T
    BY <1>1, <2>2 DEF Blanks, NUL
  <2>4. WordEnd(a) \in T
    BY <2>3, MinIsLeast DEF WordEnd
  <2> QED
    BY <1>2, <1>4, <2>1, <2>3, <2>4
<1> QED
  BY <1>3, <1>4

\* The end of fill_args: the array is complete.
LEMMA EndKeeps ==
  ASSUME ArgAssumption, WordsInv, fill_args_end
  PROVE  WordsInv'
<1>1. /\ InLine /\ IsLine /\ line \in Lines /\ typed' = typed /\ line' = line /\ pc = "fill" /\ pc' = "exec"
      /\ kind' = kind /\ prog' = prog /\ first' = first /\ i' = i /\ next' = next
      /\ ~(next # NULL /\ i < MaxArgs - first) /\ i <= MaxArgs - first
      /\ kind \in {"memrun", "busybox"} /\ first = IF kind = "memrun" THEN 1 ELSE 2
      /\ i \in Nat /\ MaxArgs \in Nat /\ MaxArgs >= 3 /\ args \in [0 .. MaxArgs -> Pointers]
  BY DEF WordsInv, InLine, IsLine, fill_args_end, MoreArgs, TypeOK, Lines, ArgAssumption
<1>2. IsLine
  BY <1>1
<1>3. PICK e \in {0, 1} : Filling(e)
  BY <1>1 DEF WordsInv
<1>4. PICK m, k, f, j, nx : m = line /\ k = kind /\ f = first /\ j = i /\ nx = next
  OBVIOUS
<1>5. /\ f \in {1, 2} /\ j \in Nat /\ f + j <= MaxArgs /\ j # MaxArgs
      /\ k \in {"memrun", "busybox"} /\ (k = "memrun" <=> f = 1)
      /\ (nx = NULL \/ f + j = MaxArgs)
  BY <1>1, <1>4
<1>6. /\ e = 1 => k = "memrun"
      /\ \A n \in (IF k = "busybox" THEN 1 ELSE 0) .. ((f + j) - 1) :
           StoredIn(m, args[n], k, nx, n, e)
      /\ \A n \in (f + j) .. MaxArgs : args[n] = Unset
      /\ RestIn(m, k, nx, f + j, j, e)
  BY <1>3, <1>4, <1>5 DEF Filling, Lowest, Stored, StoredIn, RestIn, Fresh, FreshIn, Nth, NthIn,
     IsWord, IsWordIn, StringEnd, EndIn
<1>7. PICK as : as = args'
  OBVIOUS
<1>8. as = [args EXCEPT ![f + j] = NULL] /\ NULL \in Pointers /\ f + j \in 0 .. MaxArgs
  BY <1>4, <1>5, <1>7 DEF fill_args_end, Pointers
<1>9. /\ as \in [0 .. MaxArgs -> Pointers] /\ as[f + j] = NULL
      /\ \A n \in 0 .. MaxArgs : n # f + j => as[n] = args[n]
  BY <1>1, <1>8
<1>10. InLine'
  <2>1. \A n \in 0 .. MaxArgs : args'[n] = args[n] \/ args'[n] \notin Positions
    BY <1>7, <1>9 DEF ArgAssumption, Positions
  <2> QED
    BY <1>1, <1>7, <1>9, <2>1, StepInLine DEF InLine, TypeOK
<1>11. ASSUME NEW n \in (IF k = "busybox" THEN 1 ELSE 0) .. ((f + j) - 1)
       PROVE  StoredIn(m, as[n], k, nx, n, e)
  <2>1. n \in 0 .. MaxArgs /\ n # f + j
    BY <1>1, <1>5
  <2> QED
    BY <1>6, <1>9, <2>1
<1>12. ASSUME NEW n \in (IF k = "busybox" THEN 1 ELSE 0) .. (MaxArgs - 1)
       PROVE  GivenIn(m, as[n], k, n, e)
  <2>1. PICK a : a = as[n]
    OBVIOUS
  <2>2. CASE n < f + j
    <3>1. n \in (IF k = "busybox" THEN 1 ELSE 0) .. ((f + j) - 1)
      BY <1>1, <1>5, <2>2
    <3>2. StoredIn(m, a, k, nx, n, e)
      BY <1>11, <2>1, <3>1
    <3> QED
      BY <1>2, <1>6, <2>1, <3>2, StoredGiven
  <2>3. CASE n >= f + j
    <3>1. nx = NULL /\ n \in 0 .. MaxArgs /\ n \in (f + j) .. MaxArgs
      BY <1>1, <1>5, <2>3
    <3>2. NthIn(k, f + j, e) = Cardinality(WordStarts)
      BY <1>6, <3>1 DEF RestIn
    <3>3. NthIn(k, n, e) = NthIn(k, f + j, e) + (n - (f + j))
      BY <1>5, <2>3 DEF NthIn
    <3>4. NthIn(k, n, e) \in Int /\ NthIn(k, f + j, e) \in Int
      BY <1>5 DEF NthIn
    <3>5. ~(NthIn(k, n, e) < Cardinality(WordStarts))
      BY <1>5, <2>3, <3>2, <3>3, <3>4
    <3>6. NthIn(k, n, e) = Cardinality(WordStarts) <=> n = f + j
      BY <1>5, <3>2, <3>3, <3>4
    <3>7. a = IF n = f + j THEN NULL ELSE Unset
      BY <1>6, <1>9, <2>1, <3>1
    <3> QED
      BY <2>1, <3>5, <3>6, <3>7 DEF GivenIn
  <2>4. n \in Int /\ f + j \in Int
    BY <1>5
  <2>5. n < f + j \/ n >= f + j
    BY <2>4
  <2> QED
    BY <2>2, <2>3, <2>5
<1>13. Empties' = e
  <2>1. CASE k = "memrun"
    <3>1. j > 0
      BY <1>1, <1>5, <1>6, <2>1 DEF RestIn
    <3>2. PICK a : a = as[1]
      OBVIOUS
    <3>3. StoredIn(m, a, "memrun", nx, 1, e)
      <4>1. 1 \in (IF k = "busybox" THEN 1 ELSE 0) .. ((f + j) - 1)
        BY <1>5, <2>1, <3>1
      <4> QED
        BY <1>11, <2>1, <3>2, <4>1
    <3>4. a # NULL /\ (EndIn(m, a) = a <=> e = 1)
      BY <1>2, <1>3, <3>3, EmptyIs
    <3>5. StringEnd(args[1])' = EndIn(m, a) /\ args'[1] = a
      BY <1>1, <1>4, <1>7, <3>2 DEF StringEnd, EndIn
    <3> QED
      BY <1>1, <1>3, <1>4, <2>1, <3>4, <3>5 DEF Empties
  <2>2. CASE k = "busybox"
    BY <1>1, <1>3, <1>4, <1>6, <2>2 DEF Empties
  <2> QED
    BY <1>5, <2>1, <2>2
<1>14. ASSUME NEW n \in (IF k = "busybox" THEN 1 ELSE 0) .. (MaxArgs - 1)
       PROVE  /\ WordOf(n)' = NthIn(k, n, e)
              /\ IsWord(args[n], WordOf(n))' <=> IsWordIn(m, as[n], NthIn(k, n, e))
  <2>1. WordOf(n)' = NthIn(k, n, e)
    BY <1>1, <1>4, <1>13 DEF WordOf, Nth, NthIn
  <2>2. StringEnd(args[n])' = EndIn(m, as[n])
    BY <1>1, <1>4, <1>7 DEF StringEnd, EndIn
  <2>3. WordEnd(args[n])' = WordEnd(as[n])
    BY <1>1, <1>7, WordsStay DEF WordEnd
  <2>4. Before(args[n])' = Before(as[n])
    BY <1>1, <1>7, WordsStay DEF Before
  <2> QED
    BY <1>1, <1>7, <2>1, <2>2, <2>3, <2>4, WordsStay DEF IsWord, IsWordIn
<1>15. ArgsAreWords'
  <2> SUFFICES ASSUME NEW n \in (IF k = "busybox" THEN 1 ELSE 0) .. (MaxArgs - 1)
               PROVE  ((kind = "memrun" /\ n = 1 /\ Empties = 1) \/
                        IF WordOf(n) < Cardinality(WordStarts)
                          THEN IsWord(args[n], WordOf(n))
                          ELSE args[n] = IF WordOf(n) = Cardinality(WordStarts) THEN NULL ELSE Unset)'
    BY <1>1, <1>4 DEF ArgsAreWords
  <2>1. GivenIn(m, as[n], k, n, e)
    BY <1>12
  <2>2. WordStarts' = WordStarts /\ kind' = k /\ args'[n] = as[n] /\ Empties' = e
    BY <1>1, <1>4, <1>7, <1>13, WordsStay
  <2> QED
    BY <1>14, <2>1, <2>2 DEF GivenIn
<1> QED
  BY <1>1, <1>10, <1>15 DEF WordsInv, InLine

-----------------------------------------------------------------------------
(* The theorems.                                                           *)

\* The invariant holds of every line when it has been read.
LEMMA WordsInit ==
  ASSUME ArgAssumption, Init
  PROVE  WordsInv
<1>1. typed \in Lines /\ typed[LineLength] = NUL /\ line = typed /\ pc = "command" /\ next = Unset
      /\ args = [k \in 0 .. MaxArgs |-> Unset] /\ first = 0 /\ i = 0 /\ kind = Unset /\ prog = Unset
  BY DEF Init, Lines
<1>2. TypeOK
  BY <1>1 DEF TypeOK, Lines, Pointers, ArgAssumption
<1>3. StaysInLine
  BY <1>1 DEF StaysInLine, ArgAssumption, Positions
<1> QED
  BY <1>1, <1>2, <1>3 DEF WordsInv, ArgsAreWords

\* Nor does a step that changes nothing.
LEMMA WordsStutter ==
  ASSUME WordsInv, UNCHANGED vars
  PROVE  WordsInv'
<1>1. /\ typed' = typed /\ line' = line /\ pc' = pc /\ kind' = kind /\ prog' = prog
      /\ next' = next /\ args' = args /\ first' = first /\ i' = i
  BY DEF vars
<1>2. LineEnd' = LineEnd /\ WordStarts' = WordStarts
  BY <1>1, WordsStay
<1>3. /\ StringEnd(prog)' = StringEnd(prog) /\ WordEnd(prog)' = WordEnd(prog)
      /\ Before(prog)' = Before(prog) /\ Before(next)' = Before(next)
      /\ Fresh(next)' <=> Fresh(next)
  BY <1>1, <1>2 DEF StringEnd, WordEnd, Before, Fresh
<1>4. IsWord(prog, 0)' <=> IsWord(prog, 0)
  BY <1>1, <1>2, <1>3 DEF IsWord
<1>5. \A n : /\ StringEnd(args[n])' = StringEnd(args[n]) /\ WordEnd(args[n])' = WordEnd(args[n])
            /\ Before(args[n])' = Before(args[n])
  BY <1>1, <1>2 DEF StringEnd, WordEnd, Before
<1>6. (\A n, e : Nth(n, e)' = Nth(n, e)) /\ Empties' = Empties
  BY <1>1, <1>5 DEF Nth, Empties
<1>7. \A n : WordOf(n)' = WordOf(n)
  BY <1>6 DEF WordOf, Nth
<1>8. \A n : IsWord(args[n], WordOf(n))' <=> IsWord(args[n], WordOf(n))
  BY <1>1, <1>2, <1>5, <1>7 DEF IsWord
<1>9. \A n, e : IsWord(args[n], Nth(n, e))' <=> IsWord(args[n], Nth(n, e))
  BY <1>1, <1>2, <1>5, <1>6 DEF IsWord
<1>10. \A n, e : Stored(n, e)' <=> Stored(n, e)
  BY <1>1, <1>2, <1>5, <1>9 DEF Stored
<1>11. \A e : Nth(first + i, e)' = Nth(first + i, e)
  BY <1>1 DEF Nth
<1>12. \A e : Filling(e)' <=> Filling(e)
  BY <1>1, <1>2, <1>3, <1>10, <1>11 DEF Filling, Lowest
<1>13. TypeOK' /\ StaysInLine'
  BY <1>1, <1>2 DEF WordsInv, TypeOK, StaysInLine
<1>14. ArgsAreWords'
  BY <1>1, <1>2, <1>6, <1>7, <1>8 DEF WordsInv, ArgsAreWords
<1> QED
  BY <1>1, <1>2, <1>3, <1>4, <1>12, <1>13, <1>14 DEF WordsInv

\* No step of the program breaks it.
LEMMA WordsStep ==
  ASSUME ArgAssumption, WordsInv, [Next]_vars
  PROVE  WordsInv'
<1>1. CASE process_command
  BY <1>1, CommandKeeps
<1>2. CASE path_command
  BY <1>2, PathKeeps
<1>3. CASE cmd_memrun
  BY <1>3, MemrunKeeps
<1>4. CASE busybox
  BY <1>4, BusyboxKeeps
<1>5. CASE fill_args_loop
  BY <1>5, LoopKeeps
<1>6. CASE fill_args_end
  BY <1>6, EndKeeps
<1>7. CASE UNCHANGED vars
  BY <1>7, WordsStutter
<1> QED
  BY <1>1, <1>2, <1>3, <1>4, <1>5, <1>6, <1>7 DEF Next

\* fill_args always has the words so far and the next one to store (command.c,
\* fill_args, find_arg and terminate_arg), for a line of any length.
THEOREM WordsInvariant == Spec => []WordsInv
<1>1. Init => WordsInv
  BY ArgAssumption, WordsInit
<1>2. WordsInv /\ [Next]_vars => WordsInv'
  BY ArgAssumption, WordsStep
<1> QED
  BY <1>1, <1>2, PTL DEF Spec

\* find_arg and terminate_arg never look at or write what is behind the NUL.
THEOREM NeverLeavesLine == Spec => []StaysInLine
<1>1. WordsInv => StaysInLine
  BY DEF WordsInv
<1> QED
  BY <1>1, WordsInvariant, PTL

\* The arguments given to execveat are the words of the line, cut off only by
\* the size of the array.
THEOREM GivesTheWords == Spec => []ArgsAreWords
<1>1. WordsInv => ArgsAreWords
  BY DEF WordsInv
<1> QED
  BY <1>1, WordsInvariant, PTL

-----------------------------------------------------------------------------
(* What StoresInArray, which the code violates, is still true of.          *)

\* The most that fill_args does to the memory behind the array is to store a
\* null pointer there, and it does nothing to it for a line whose words leave
\* an element free for each of "/busybox" and the null pointer.
OverrunBounded ==
  /\ args[MaxArgs] \in {Unset, NULL}
  /\ Cardinality(WordStarts) + 1 < MaxArgs => StoresInArray

\* Up to the end of fill_args nothing is stored there.
LEMMA UnsetUntilEnd ==
  ASSUME ArgAssumption, WordsInv, pc \notin {"exec", "done"}
  PROVE  args[MaxArgs] = Unset
<1>1. /\ MaxArgs \in Nat /\ first \in 0 .. 2 /\ i \in 0 .. MaxArgs
      /\ pc \in {"command", "path", "memrun", "busybox", "fill"}
  BY DEF WordsInv, TypeOK, ArgAssumption
<1>2. CASE pc = "fill"
  <2>1. PICK e \in {0, 1} : Filling(e)
    BY <1>2 DEF WordsInv
  <2>2. MaxArgs \in (first + i) .. MaxArgs
    BY <1>1, <1>2 DEF WordsInv
  <2> QED
    BY <2>1, <2>2 DEF Filling
<1>3. CASE pc # "fill"
  <2>1. MaxArgs \in 0 .. MaxArgs
    BY <1>1
  <2> QED
    BY <1>1, <1>3, <2>1 DEF WordsInv
<1> QED
  BY <1>2, <1>3

\* The null pointer is stored there if the words and what is in front of them
\* have filled the array.
LEMMA EndBounded ==
  ASSUME ArgAssumption, WordsInv, fill_args_end
  PROVE  OverrunBounded'
<1>1. /\ pc = "fill" /\ typed' = typed /\ IsLine /\ ~(next # NULL /\ i < MaxArgs - first)
      /\ i <= MaxArgs - first /\ i \in Nat /\ MaxArgs \in Nat /\ MaxArgs >= 3
      /\ kind \in {"memrun", "busybox"} /\ first = IF kind = "memrun" THEN 1 ELSE 2
      /\ args \in [0 .. MaxArgs -> Pointers]
  BY DEF WordsInv, IsLine, fill_args_end, MoreArgs, TypeOK, Lines, ArgAssumption
<1>2. PICK w : w = Cardinality(WordStarts) /\ w = Cardinality(WordStarts)' /\ w \in Nat
  <2>1. WordStarts' = WordStarts
    BY <1>1 DEF WordStarts, LineEnd
  <2>2. 0 \in Int
    OBVIOUS
  <2>3. Cardinality(WordStarts) \in Nat
    BY <1>1, <2>2, FiniteWords
  <2> QED
    BY <2>1, <2>3
<1>3. args[MaxArgs] = Unset
  BY <1>1, UnsetUntilEnd
<1>4. CASE first + i = MaxArgs
  <2>1. args'[MaxArgs] \in {Unset, NULL}
    BY <1>1, <1>3, <1>4 DEF fill_args_end
  <2>2. PICK e \in {0, 1} : Filling(e)
    BY <1>1 DEF WordsInv
  <2>3. PICK x : x = Nth(MaxArgs, e)
    OBVIOUS
  <2>4. x >= MaxArgs - 1 /\ x \in Int
    BY <1>1, <2>3 DEF Nth
  <2>5. x <= w
    <3>1. CASE next = NULL
      BY <1>2, <1>4, <2>2, <2>3, <2>4, <3>1 DEF Filling
    <3>2. CASE next # NULL
      <4>1. next \in WordStarts /\ Before(next) = x
        BY <1>1, <1>4, <2>2, <2>3, <3>2 DEF Filling
      <4>2. Before(next) < Cardinality(WordStarts)
        BY <1>1, <4>1, WordNumber
      <4> QED
        BY <1>2, <2>4, <4>1, <4>2
    <3> QED
      BY <3>1, <3>2
  <2>6. ~(w + 1 < MaxArgs)
    BY <1>1, <1>2, <2>4, <2>5
  <2> QED
    BY <1>2, <2>1, <2>6 DEF OverrunBounded
<1>5. CASE first + i # MaxArgs
  <2>1. args'[MaxArgs] = Unset
    BY <1>1, <1>3, <1>5 DEF fill_args_end
  <2> QED
    BY <2>1 DEF OverrunBounded, StoresInArray
<1> QED
  BY <1>4, <1>5

\* MAX_ARGS and not maxargs is what fill_args compares with at its end, so the
\* null pointer can be stored one element behind the array; nothing else ever
\* is, and not for a line that leaves room.
THEOREM OverrunIsOneNull == Spec => []OverrunBounded
<1>1. Init => OverrunBounded
  BY ArgAssumption DEF Init, OverrunBounded, StoresInArray, ArgAssumption
<1>2. ASSUME WordsInv, OverrunBounded, WordsInv', [Next]_vars
      PROVE  OverrunBounded'
  <2>1. CASE fill_args_end
    BY <1>2, <2>1, ArgAssumption, EndBounded
  <2>2. CASE UNCHANGED <<typed, args>>
    BY <1>2, <2>2 DEF OverrunBounded, StoresInArray, WordStarts, LineEnd
  <2>3. CASE pc' = "fill"
    <3>1. args'[MaxArgs] = Unset
      <4>1. MaxArgs \in Nat /\ first' \in 0 .. 2 /\ i' \in 0 .. MaxArgs
        BY <1>2, ArgAssumption DEF WordsInv, TypeOK, ArgAssumption
      <4>2. PICK e \in {0, 1} : Filling(e)'
        BY <1>2, <2>3 DEF WordsInv
      <4>3. MaxArgs \in (first' + i') .. MaxArgs
        BY <1>2, <2>3, <4>1 DEF WordsInv
      <4> QED
        BY <4>2, <4>3 DEF Filling
    <3> QED
      BY <3>1 DEF OverrunBounded, StoresInArray
  <2> QED
    BY <1>2, <2>1, <2>2, <2>3 DEF Next, process_command, path_command, cmd_memrun, busybox,
       fill_args_loop, vars
<1> QED
  BY <1>1, <1>2, WordsInvariant, PTL DEF Spec
=============================================================================
