---------------------------- MODULE LaunchProofs ----------------------------
(***************************************************************************)
(* The boot sequence and the way from fork to exec for any number of       *)
(* descriptors and processes.  Both are texts, lists of calls, that a      *)
(* process goes through one call at a time; the invariant says what it has *)
(* by the time it comes to the i-th call.                                  *)
(***************************************************************************)
EXTENDS Launch, FileCommandsProofs

-----------------------------------------------------------------------------
(* The texts.                                                              *)

\* st is s with t behind it.
Join(s, t, st) ==
  /\ Len(st) = Len(s) + Len(t)
  /\ \A i \in 1 .. Len(s) : st[i] = s[i]
  /\ \A i \in 1 .. Len(t) : st[Len(s) + i] = t[i]

\* A text put together from two keeps the calls of both.
LEMMA Joined ==
  ASSUME NEW S, NEW s \in Seq(S), NEW t \in Seq(S)
  PROVE  s \o t \in Seq(S) /\ Join(s, t, s \o t)
<1> DEFINE m == Len(s)
           n == Len(t)
           st == s \o t
<1>1. /\ st \in Seq(S) /\ Len(st) = m + n
      /\ \A i \in 1 .. m + n : st[i] = IF i <= m THEN s[i] ELSE t[i - m]
  BY ConcatProperties, Zenon
<1>2. m \in Nat /\ n \in Nat
  BY LenProperties, Zenon
<1> HIDE DEF m, n, st
<1>3. \A i \in 1 .. m : i \in 1 .. (m + n) /\ i <= m
  BY <1>2
<1>4. \A i \in 1 .. n : m + i \in 1 .. (m + n) /\ ~(m + i <= m) /\ (m + i) - m = i
  BY <1>2
<1>5. /\ st \in Seq(S) /\ Len(st) = m + n
      /\ \A i \in 1 .. m : st[i] = s[i]
      /\ \A i \in 1 .. n : st[m + i] = t[i]
  BY <1>1, <1>3, <1>4
<1> QED
  BY <1>5 DEF m, n, st, Join

\* start() makes sixteen calls before its loop.
LEMMA StartText ==
  /\ start \in Seq(Texts) /\ Len(start) = 16
  /\ start[1] = <<"mkdir", "/proc">>
  /\ start[2] = <<"mkdir", "/dev">>
  /\ start[3] = <<"mkdir", "/sys">>
  /\ start[4] = <<"mount", "/proc">>
  /\ start[5] = <<"mount", "/sys">>
  /\ start[6] = <<"mount", "/dev">>
  /\ start[7] = <<"open", "con", "console_in">>
  /\ start[8] = <<"open", "stdout", "console_out">>
  /\ start[9] = <<"dup3", "stdout">>
  /\ start[10] = <<"open", "printkfd", "printk">>
  /\ start[11] = <<"write", "printkfd">>
  /\ start[12] = <<"close", "printkfd">>
  /\ start[13] = <<"open", "ring", "uring">>
  /\ start[14] = <<"block">>
  /\ start[15] = <<"open", "sigfd", "signalfd">>
  /\ start[16] = <<"open", "eth", "socket">>
<1> DEFINE b == << <<"open", "con", "console_in">>, <<"open", "stdout", "console_out">> >>
           ab == mount_all \o b
<1>1. mount_all \in Seq(Texts) /\ Len(mount_all) = 6
  BY DEF mount_all, Texts
<1>2. /\ b \in Seq(Texts) /\ Len(b) = 2
      /\ b[1] = <<"open", "con", "console_in">> /\ b[2] = <<"open", "stdout", "console_out">>
  BY DEF Texts
<1>3. after_console \in Seq(Texts) /\ Len(after_console) = 8
  BY DEF after_console, Texts
<1>4. start = ab \o after_console
  BY DEF start
<1>ab. ab = mount_all \o b
  OBVIOUS
<1> HIDE DEF b, ab
<1>5. /\ ab \in Seq(Texts) /\ Len(ab) = 6 + 2
      /\ \A i \in 1 .. 6 : ab[i] = mount_all[i]
      /\ \A i \in 1 .. 2 : ab[6 + i] = b[i]
  <2>1. ab \in Seq(Texts) /\ Join(mount_all, b, ab)
    BY <1>1, <1>2, <1>ab, Joined, Zenon
  <2> QED
    BY <1>1, <1>2, <1>ab, <2>1 DEF Join
<1>6. /\ start \in Seq(Texts) /\ Len(start) = 8 + 8
      /\ \A i \in 1 .. 8 : start[i] = ab[i]
      /\ \A i \in 1 .. 8 : start[8 + i] = after_console[i]
  <2>1. start \in Seq(Texts) /\ Join(ab, after_console, start)
    BY <1>3, <1>4, <1>5, Joined, Zenon
  <2> QED
    BY <1>3, <1>4, <1>5, <2>1 DEF Join
<1>7. /\ \A i \in 1 .. 6 : start[i] = mount_all[i]
      /\ start[7] = b[1] /\ start[8] = b[2]
      /\ start[9] = after_console[1] /\ start[10] = after_console[2]
      /\ start[11] = after_console[3] /\ start[12] = after_console[4]
      /\ start[13] = after_console[5] /\ start[14] = after_console[6]
      /\ start[15] = after_console[7] /\ start[16] = after_console[8]
  BY <1>5, <1>6
<1> QED
  BY <1>2, <1>6, <1>7 DEF mount_all, after_console

\* What the children do first.
LEMMA ReopenText ==
  /\ reopen_console \in Seq(Texts) /\ Len(reopen_console) = 3
  /\ << <<"close_all">> >> \o reopen_console \in Seq(Texts)
  /\ Len(<< <<"close_all">> >> \o reopen_console) = 4
  /\ \A i \in 1 .. 1 : (<< <<"close_all">> >> \o reopen_console)[i] = <<"close_all">>
  /\ \A i \in 1 .. 3 : (<< <<"close_all">> >> \o reopen_console)[1 + i] = reopen_console[i]
<1> DEFINE a == << <<"close_all">> >>
           ab == a \o reopen_console
<1>1. reopen_console \in Seq(Texts) /\ Len(reopen_console) = 3
  BY DEF reopen_console, Texts
<1>2. a \in Seq(Texts) /\ Len(a) = 1 /\ \A i \in 1 .. 1 : a[i] = <<"close_all">>
  BY DEF Texts
<1>3. ab = a \o reopen_console
  OBVIOUS
<1> HIDE DEF a, ab
<1>4. /\ ab \in Seq(Texts) /\ Len(ab) = 1 + 3
      /\ \A i \in 1 .. 1 : ab[i] = a[i]
      /\ \A i \in 1 .. 3 : ab[1 + i] = reopen_console[i]
  <2>1. ab \in Seq(Texts) /\ Join(a, reopen_console, ab)
    BY <1>1, <1>2, <1>3, Joined, Zenon
  <2> QED
    BY <1>1, <1>2, <2>1 DEF Join
<1>5. /\ ab \in Seq(Texts) /\ Len(ab) = 4
      /\ \A i \in 1 .. 1 : ab[i] = <<"close_all">>
      /\ \A i \in 1 .. 3 : ab[1 + i] = reopen_console[i]
  BY <1>2, <1>4
<1> QED
  BY <1>1, <1>5, Zenon DEF ab, a

\* The child of busybox() makes six calls.
LEMMA BusyboxText ==
  /\ busybox \in Seq(Texts) /\ Len(busybox) = 6
  /\ busybox[1] = <<"close_all">>
  /\ busybox[2] = <<"open", "stdin", "console_in">>
  /\ busybox[3] = <<"open", "stdout", "console_out">>
  /\ busybox[4] = <<"dup3", "stdout">>
  /\ busybox[5] = <<"unblock">>
  /\ busybox[6] = <<"exec">>
<1> DEFINE a == << <<"close_all">> >> \o reopen_console
           b == << <<"unblock">>, <<"exec">> >>
<1>1. a \in Seq(Texts) /\ Len(a) = 4 /\ a[1] = <<"close_all">>
      /\ a[2] = reopen_console[1] /\ a[3] = reopen_console[2] /\ a[4] = reopen_console[3]
  BY ReopenText
<1>2. b \in Seq(Texts) /\ Len(b) = 2 /\ b[1] = <<"unblock">> /\ b[2] = <<"exec">>
  BY DEF Texts
<1>3. busybox = a \o b
  BY DEF busybox
<1> HIDE DEF a, b
<1>4. /\ busybox \in Seq(Texts) /\ Len(busybox) = 4 + 2
      /\ \A i \in 1 .. 4 : busybox[i] = a[i]
      /\ \A i \in 1 .. 2 : busybox[4 + i] = b[i]
  <2>1. busybox \in Seq(Texts) /\ Join(a, b, busybox)
    BY <1>1, <1>2, <1>3, Joined, Zenon
  <2> QED
    BY <1>1, <1>2, <1>3, <2>1 DEF Join
<1> QED
  BY <1>1, <1>2, <1>4 DEF reopen_console

\* The child of cmd_memrun() makes ten.
LEMMA MemrunText ==
  /\ cmd_memrun \in Seq(Texts) /\ Len(cmd_memrun) = 10
  /\ cmd_memrun[1] = <<"close_all">>
  /\ cmd_memrun[2] = <<"open", "stdin", "console_in">>
  /\ cmd_memrun[3] = <<"open", "stdout", "console_out">>
  /\ cmd_memrun[4] = <<"dup3", "stdout">>
  /\ cmd_memrun[5] = <<"memfd_create", "memfd", "memfd">>
  /\ cmd_memrun[6] = <<"open", "infd", "exe">>
  /\ cmd_memrun[7] = <<"fstatat", "infd">>
  /\ cmd_memrun[8] = <<"copy_file_range", "memfd">>
  /\ cmd_memrun[9] = <<"unblock">>
  /\ cmd_memrun[10] = <<"exec">>
<1> DEFINE a == << <<"close_all">> >> \o reopen_console
           b == << <<"memfd_create", "memfd", "memfd">>, <<"open", "infd", "exe">>,
                   <<"fstatat", "infd">>, <<"copy_file_range", "memfd">>, <<"unblock">>,
                   <<"exec">> >>
<1>1. a \in Seq(Texts) /\ Len(a) = 4 /\ a[1] = <<"close_all">>
      /\ a[2] = reopen_console[1] /\ a[3] = reopen_console[2] /\ a[4] = reopen_console[3]
  BY ReopenText
<1>2. /\ b \in Seq(Texts) /\ Len(b) = 6
      /\ b[1] = <<"memfd_create", "memfd", "memfd">> /\ b[2] = <<"open", "infd", "exe">>
      /\ b[3] = <<"fstatat", "infd">> /\ b[4] = <<"copy_file_range", "memfd">>
      /\ b[5] = <<"unblock">> /\ b[6] = <<"exec">>
  BY DEF Texts
<1>3. cmd_memrun = a \o b
  BY DEF cmd_memrun
<1> HIDE DEF a, b
<1>4. /\ cmd_memrun \in Seq(Texts) /\ Len(cmd_memrun) = 4 + 6
      /\ \A i \in 1 .. 4 : cmd_memrun[i] = a[i]
      /\ \A i \in 1 .. 6 : cmd_memrun[4 + i] = b[i]
  <2>1. cmd_memrun \in Seq(Texts) /\ Join(a, b, cmd_memrun)
    BY <1>1, <1>2, <1>3, Joined, Zenon
  <2> QED
    BY <1>1, <1>2, <1>3, <2>1 DEF Join
<1> QED
  BY <1>1, <1>2, <1>4 DEF reopen_console

\* What is left of a text from its i-th call on: that call is the next one.
LEMMA Rest ==
  ASSUME NEW text \in Seq(Texts), NEW i \in 1 .. Len(text),
         NEW rest, rest = SubSeq(text, i, Len(text))
  PROVE  /\ rest \in Seq(Texts) /\ rest # <<>>
         /\ Head(rest) = text[i] /\ rest[1] = text[i]
         /\ Tail(rest) = SubSeq(text, i + 1, Len(text)) /\ Tail(rest) \in Seq(Texts)
<1>1. PICK n : n = Len(text)
  OBVIOUS
<1>2. n \in Nat /\ i \in 1 .. n /\ \A j \in 1 .. n : text[j] \in Texts
  BY <1>1, LenProperties, ElementOfSeq
<1>3. n \in i .. n /\ i \in Int /\ n \in Int
  BY <1>2
<1>4. \A j \in i .. n : text[j] \in Texts
  BY <1>2
<1>5. /\ rest \in Seq(Texts) /\ Len(rest) = IF i <= n THEN (n - i) + 1 ELSE 0
  <2>1. /\ SubSeq(text, i, n) \in Seq(Texts)
        /\ Len(SubSeq(text, i, n)) = IF i <= n THEN n - i + 1 ELSE 0
    BY <1>3, <1>4, SubSeqProperties, Zenon
  <2> QED
    BY <1>1, <2>1
<1>6. Len(rest) # 0
  BY <1>2, <1>5
<1>7. rest # <<>>
  <2>1. Len(<<>>) = 0
    OBVIOUS
  <2> QED
    BY <1>6, <2>1, Zenon
<1>8. Head(rest) = text[i] /\ Tail(rest) = SubSeq(text, i + 1, n)
  BY <1>1, <1>3, HeadTailOfSubSeq, Zenon
<1>9. Tail(rest) \in Seq(Texts)
  BY <1>5, <1>7, HeadTailProperties, Zenon
<1>10. rest[1] = Head(rest)
  BY <1>5, <1>7
<1> QED
  BY <1>1, <1>5, <1>7, <1>8, <1>9, <1>10, Zenon

\* Behind its last call nothing is left.
LEMMA NothingLeft ==
  ASSUME NEW text \in Seq(Texts)
  PROVE  SubSeq(text, Len(text) + 1, Len(text)) = <<>>
<1>1. PICK n : n = Len(text)
  OBVIOUS
<1>2. n \in Int /\ n + 1 \in Int /\ n < n + 1
  BY <1>1, LenProperties
<1> QED
  BY <1>1, <1>2, SubSeqEmpty, Zenon

-----------------------------------------------------------------------------
(* Descriptors.                                                            *)

\* The kernel gives out the lowest descriptor that is free.
LEMMA LowestIs ==
  ASSUME NEW p, NEW n \in Fds, fds[p][n] = Free, \A m \in 0 .. (n - 1) : fds[p][m] # Free
  PROVE  HasFree(p) /\ Lowest(p) = n
<1>1. \A m \in Fds : fds[p][m] = Free /\ (\A k \in 0 .. (m - 1) : fds[p][k] # Free) => m = n
  BY LaunchAssumption DEF Fds
<1> QED
  BY <1>1 DEF HasFree, Lowest

\* There is one if there is any.
LEMMA LowestFree ==
  ASSUME NEW p, HasFree(p)
  PROVE  Lowest(p) \in Fds /\ fds[p][Lowest(p)] = Free
<1> DEFINE T == {n \in Fds : fds[p][n] = Free}
<1>1. T \in SUBSET Nat /\ T # {}
  BY DEF HasFree, Fds
<1>2. PICK n \in T : \A m \in T : n <= m
  BY <1>1, Least
<1>3. n \in Fds /\ fds[p][n] = Free /\ \A m \in 0 .. (n - 1) : fds[p][m] # Free
  BY <1>2, LaunchAssumption DEF Fds
<1>4. Lowest(p) = n
  BY <1>3, LowestIs
<1> QED
  BY <1>3, <1>4

\* Where each kind of call comes in start.
LEMMA StartKinds ==
  ASSUME NEW i \in 1 .. 16
  PROVE  \/ i \in 1 .. 3 /\ start[i][1] = "mkdir"
         \/ i \in 4 .. 6 /\ start[i][1] = "mount"
         \/ i \in {7, 8, 10, 13, 15, 16} /\ start[i][1] = "open"
         \/ i = 9 /\ start[i][1] = "dup3"
         \/ i = 11 /\ start[i][1] = "write"
         \/ i = 12 /\ start[i][1] = "close"
         \/ i = 14 /\ start[i][1] = "block"
<1>1. /\ start[1][1] = "mkdir" /\ start[2][1] = "mkdir" /\ start[3][1] = "mkdir"
      /\ start[4][1] = "mount" /\ start[5][1] = "mount" /\ start[6][1] = "mount"
  BY StartText
<1>2. /\ start[7][1] = "open" /\ start[8][1] = "open" /\ start[10][1] = "open"
      /\ start[13][1] = "open" /\ start[15][1] = "open" /\ start[16][1] = "open"
  BY StartText
<1>3. /\ start[9][1] = "dup3" /\ start[11][1] = "write" /\ start[12][1] = "close"
      /\ start[14][1] = "block"
  BY StartText
<1> QED
  BY <1>1, <1>2, <1>3

-----------------------------------------------------------------------------
(* The call that a process is about to make.                               *)

\* init comes to the calls of start one after the other, and has no child yet.
LEMMA InitCall ==
  ASSUME LaunchInv, NEW calls, At("init", calls)
  PROVE  /\ child = "none"
         /\ \E i \in 1 .. 16 :
              /\ InitAt(i) /\ Arg("init") = start[i] /\ start[i][1] \in calls
              /\ Tail(todo["init"]) = SubSeq(start, i + 1, Len(start))
              /\ Tail(todo["init"]) \in Seq(Texts)
<1>1. up /\ todo["init"] # <<>> /\ todo["init"][1][1] \in calls
  BY DEF At
<1>2. child = "none" /\ \E i \in 1 .. 17 : InitAt(i)
  BY <1>1 DEF LaunchInv
<1>3. PICK i \in 1 .. 17 : InitAt(i)
  BY <1>2
<1>4. todo["init"] = SubSeq(start, i, Len(start)) /\ start \in Seq(Texts) /\ Len(start) = 16
  BY <1>3, StartText DEF InitAt
<1>5. i # 17
  BY <1>1, <1>4, NothingLeft
<1>6. i \in 1 .. 16 /\ i \in 1 .. Len(start)
  BY <1>4, <1>5
<1>7. /\ Head(todo["init"]) = start[i] /\ todo["init"][1] = start[i]
      /\ Tail(todo["init"]) = SubSeq(start, i + 1, Len(start))
      /\ Tail(todo["init"]) \in Seq(Texts)
  <2>1. PICK rest : rest = todo["init"]
    OBVIOUS
  <2>2. rest = SubSeq(start, i, Len(start)) /\ start \in Seq(Texts) /\ i \in 1 .. Len(start)
    BY <1>4, <1>6, <2>1, Zenon
  <2>3. /\ Head(rest) = start[i] /\ rest[1] = start[i]
        /\ Tail(rest) = SubSeq(start, i + 1, Len(start)) /\ Tail(rest) \in Seq(Texts)
    BY <2>2, Rest, Zenon
  <2> QED
    BY <2>1, <2>3, Zenon
<1>8. Arg("init") = start[i] /\ start[i][1] \in calls
  BY <1>1, <1>7 DEF Arg
<1> QED
  BY <1>2, <1>3, <1>6, <1>7, <1>8

\* Which calls may come i-th in a text of n calls.
Listed(n, i, call) ==
  \/ i = 1 /\ call = <<"close_all">>
  \/ i = 2 /\ call = <<"open", "stdin", "console_in">>
  \/ i = 3 /\ call = <<"open", "stdout", "console_out">>
  \/ i = 4 /\ call = <<"dup3", "stdout">>
  \/ i = 5 /\ n = 10 /\ call = <<"memfd_create", "memfd", "memfd">>
  \/ i = 6 /\ n = 10 /\ call = <<"open", "infd", "exe">>
  \/ i = 7 /\ n = 10 /\ call = <<"fstatat", "infd">>
  \/ i = 8 /\ n = 10 /\ call = <<"copy_file_range", "memfd">>
  \/ i = n - 1 /\ call = <<"unblock">>
  \/ i = n /\ call = <<"exec">>

\* The calls that open a file, none of which is one of the last two.
LEMMA ListedOpen ==
  ASSUME NEW n \in {6, 10}, NEW i, NEW call, Listed(n, i, call), call[1] = "open"
  PROVE  /\ i < n /\ i + 1 # n
         /\ \/ i = 2 /\ call = <<"open", "stdin", "console_in">>
            \/ i = 3 /\ call = <<"open", "stdout", "console_out">>
            \/ i = 6 /\ call = <<"open", "infd", "exe">>
<1>1. \/ i = 2 /\ call = <<"open", "stdin", "console_in">>
      \/ i = 3 /\ call = <<"open", "stdout", "console_out">>
      \/ i = 6 /\ n = 10 /\ call = <<"open", "infd", "exe">>
  BY DEF Listed
<1> QED
  BY <1>1

\* What the two texts have in common.
LEMMA ChildText ==
  ASSUME NEW text \in {busybox, cmd_memrun}, NEW n, n = Len(text), NEW i \in 1 .. 10, i <= n
  PROVE  /\ text \in Seq(Texts) /\ n \in Nat /\ (n = 6 \/ n = 10)
         /\ Listed(n, i, text[i])
<1>1. CASE text = busybox
  <2>1. n = 6 /\ i \in 1 .. 6
    BY <1>1, BusyboxText
  <2> QED
    BY <1>1, <2>1, BusyboxText DEF Listed
<1>2. CASE text = cmd_memrun
  <2>1. n = 10
    BY <1>2, MemrunText
  <2> QED
    BY <1>2, <2>1, MemrunText DEF Listed
<1> QED
  BY <1>1, <1>2

\* The child is about to make the i-th of the n calls of its text.
ChildBefore(text, n, i) ==
  /\ n = Len(text) /\ i <= n /\ (n = 6 \/ n = 10)
  /\ ChildAt(text, i) /\ Listed(n, i, Arg("child"))
  /\ Tail(todo["child"]) = SubSeq(text, i + 1, n)
  /\ Tail(todo["child"]) \in Seq(Texts)

\* It comes to them one after the other.
LEMMA ChildCall ==
  ASSUME LaunchInv, NEW calls, At("child", calls)
  PROVE  /\ child = "started" /\ up /\ Arg("child")[1] \in calls
         /\ \E text \in {busybox, cmd_memrun}, n \in Nat, i \in 1 .. 10 : ChildBefore(text, n, i)
<1>1. up /\ child = "started" /\ todo["child"] # <<>> /\ todo["child"][1][1] \in calls
  BY DEF At
<1>2. \/ \E i \in 1 .. 6 : ChildAt(busybox, i)
      \/ \E i \in 1 .. 10 : ChildAt(cmd_memrun, i)
  BY <1>1 DEF LaunchInv
<1>3. Arg("child")[1] \in calls
  BY <1>1 DEF LaunchInv, TypeOK, Procs, Arg
<1>4. ASSUME NEW text \in {busybox, cmd_memrun}, NEW n \in Nat, n = Len(text),
             NEW i \in 1 .. 10, i <= n, ChildAt(text, i)
      PROVE  ChildBefore(text, n, i)
  <2>1. text \in Seq(Texts) /\ (n = 6 \/ n = 10) /\ Listed(n, i, text[i])
    BY <1>4, ChildText, Zenon
  <2>2. i \in 1 .. Len(text) /\ todo["child"] = SubSeq(text, i, Len(text))
    BY <1>4 DEF ChildAt
  <2>3. /\ Head(todo["child"]) = text[i]
        /\ Tail(todo["child"]) = SubSeq(text, i + 1, Len(text))
        /\ Tail(todo["child"]) \in Seq(Texts)
    BY <1>4, <2>1, <2>2, Rest
  <2> QED
    BY <1>4, <2>1, <2>3 DEF ChildBefore, Arg
<1>5. CASE \E i \in 1 .. 6 : ChildAt(busybox, i)
  <2>1. PICK i \in 1 .. 6 : ChildAt(busybox, i)
    BY <1>5
  <2>2. ChildBefore(busybox, 6, i)
    BY <1>4, <2>1, BusyboxText
  <2> QED
    BY <1>1, <1>3, <2>1, <2>2
<1>6. CASE \E i \in 1 .. 10 : ChildAt(cmd_memrun, i)
  <2>1. PICK i \in 1 .. 10 : ChildAt(cmd_memrun, i)
    BY <1>6
  <2>2. Len(cmd_memrun) = 10 /\ i <= 10
    BY <2>1, MemrunText
  <2>3. ChildBefore(cmd_memrun, 10, i)
    BY <1>4, <2>1, <2>2
  <2> QED
    BY <1>1, <1>3, <2>1, <2>3
<1> QED
  BY <1>2, <1>5, <1>6

-----------------------------------------------------------------------------
(* What a step has to show.                                                *)

\* The types of what a process has.
ProcessOK ==
  /\ todo \in [Procs -> Seq(Texts)]
  /\ fds \in [Procs -> [Fds -> Files \cup {Free}]]
  /\ var \in [Procs -> [Vars -> Fds \cup {-1}]]
  /\ blocked \in [Procs -> BOOLEAN]
  /\ failure \in [Procs -> Reasons]

\* A process keeps all it has.
Keeps(p) ==
  /\ todo'[p] = todo[p] /\ fds'[p] = fds[p] /\ var'[p] = var[p]
  /\ blocked'[p] = blocked[p] /\ failure'[p] = failure[p]

\* Where the child is in its text.
ChildSomewhere ==
  child = "started" => \/ \E i \in 1 .. 6 : ChildAt(busybox, i)
                       \/ \E i \in 1 .. 10 : ChildAt(cmd_memrun, i)

\* init stays where it is in start.
LEMMA InitKept ==
  ASSUME Keeps("init"), UNCHANGED dirs, NEW i, InitAt(i)
  PROVE  InitAt(i)'
  BY DEF Keeps, InitAt, InitTable, InitVars, Mounted

\* So does the child in its text.
LEMMA ChildKept ==
  ASSUME Keeps("child"), UNCHANGED child, ChildSomewhere
  PROVE  ChildSomewhere'
<1>1. \A text, i : ChildAt(text, i) => ChildAt(text, i)'
  BY DEF Keeps, ChildAt, ChildTable, ChildMemfd
<1> QED
  BY <1>1 DEF ChildSomewhere

\* A step of init leaves the child alone.
LEMMA InitMoves ==
  ASSUME LaunchInv, FileInv', ProcessOK', Keeps("child"), failure'["init"] \in {"none", "other"},
         UNCHANGED <<child, adopted, dead, copied>>, up' \in BOOLEAN,
         child # "none" => todo'["init"] = <<>> /\ UNCHANGED dirs,
         up' => \E i \in 1 .. 17 : InitAt(i)'
  PROVE  LaunchInv'
<1>1. ChildSomewhere'
  BY ChildKept DEF LaunchInv, ChildSomewhere
<1>2. TypeOK'
  BY DEF LaunchInv, TypeOK, ProcessOK, Keeps, FileInv
<1>3. NoOwnFailure'
  BY DEF LaunchInv, NoOwnFailure, Keeps, Procs
<1>4. ProgramEnvironment' /\ StrayHasNoRing'
  BY DEF LaunchInv, ProgramEnvironment, StrayHasNoRing, Keeps
<1>5. /\ (adopted + dead <= MaxPids)'
      /\ (child # "none" => todo["init"] = <<>> /\ <<"mount", "/dev">> \in dirs)'
      /\ (child = "stray" => todo["child"] = <<>>)'
  BY DEF LaunchInv, Keeps
<1> QED
  BY <1>1, <1>2, <1>3, <1>4, <1>5 DEF LaunchInv, ChildSomewhere

\* A step of the child, or one that starts or ends it, leaves init alone.
LEMMA ChildMoves ==
  ASSUME LaunchInv, FileInv', ProcessOK', Keeps("init"), failure'["child"] \in {"none", "other"},
         UNCHANGED <<dirs, up>>, copied' \in 0 .. FileSize,
         \/ UNCHANGED <<adopted, dead>>
         \/ adopted' \in Nat /\ dead' \in Nat /\ adopted' + dead' <= MaxPids,
         child # "none" \/ (todo["init"] = <<>> /\ <<"mount", "/dev">> \in dirs),
         child' \in {"none", "started", "program", "zombie", "stray"},
         child' # "started" => todo'["child"] = <<>>,
         ProgramEnvironment', StrayHasNoRing', ChildSomewhere'
  PROVE  LaunchInv'
<1>1. up' => \E i \in 1 .. 17 : InitAt(i)'
  BY InitKept DEF LaunchInv
<1>2. /\ adopted' \in 0 .. MaxPids /\ dead' \in 0 .. MaxPids
      /\ adopted' + dead' <= MaxPids
  BY LaunchAssumption DEF LaunchInv, TypeOK
<1>3. TypeOK'
  BY <1>2 DEF LaunchInv, TypeOK, ProcessOK, Keeps, FileInv
<1>4. NoOwnFailure'
  BY DEF LaunchInv, NoOwnFailure, Keeps, Procs
<1>5. /\ (child # "none" => todo["init"] = <<>> /\ <<"mount", "/dev">> \in dirs)'
      /\ (child = "stray" => todo["child"] = <<>>)'
  BY DEF LaunchInv, Keeps
<1> QED
  BY <1>1, <1>2, <1>3, <1>4, <1>5 DEF LaunchInv, ChildSomewhere

\* SYSCHECK's exit, for a reason that is not the program's own doing.
LEMMA ExitsHolds ==
  ASSUME LaunchInv, FileInv', NEW p \in Procs, Exits(p, "other"), up,
         p = "child" => child \in {"started", "stray"}
  PROVE  LaunchInv'
<1>1. ProcessOK
  BY DEF LaunchInv, TypeOK, ProcessOK
<1>2. Closed \in [Fds -> Files \cup {Free}] /\ <<>> \in Seq(Texts) /\ "other" \in Reasons
  BY DEF Closed, Reasons
<1>3. ProcessOK'
  BY <1>1, <1>2 DEF Exits, ProcessOK
<1>4. failure'[p] = "other" /\ todo'[p] = <<>>
  BY <1>1 DEF Exits, ProcessOK
<1>5. \A q \in Procs \ {p} : Keeps(q)
  BY <1>1 DEF Exits, ProcessOK, Keeps
<1>6. CASE p = "init"
  <2>1. up' = FALSE /\ UNCHANGED <<child, adopted, dead, copied, dirs>>
    BY <1>6 DEF Exits
  <2> QED
    BY <1>3, <1>4, <1>5, <1>6, <2>1, InitMoves DEF Procs
<1>7. CASE p = "child"
  <2>1. child' = "zombie" /\ UNCHANGED <<dirs, up, adopted, dead, copied>>
    BY <1>7 DEF Exits
  <2>2. ProgramEnvironment' /\ StrayHasNoRing' /\ ChildSomewhere'
    BY <2>1 DEF ProgramEnvironment, StrayHasNoRing, ChildSomewhere
  <2>3. copied' \in 0 .. FileSize /\ child # "none"
    BY <1>7, <2>1 DEF LaunchInv, TypeOK
  <2> QED
    BY <1>3, <1>4, <1>5, <1>7, <2>1, <2>2, <2>3, ChildMoves DEF Procs
<1> QED
  BY <1>6, <1>7 DEF Procs

-----------------------------------------------------------------------------
(* What the calls do to the descriptors.                                   *)

\* What stays of a process p that makes a call, and of the other one.
Only(p) ==
  /\ todo'[p] = Tail(todo[p]) /\ \A q \in Procs \ {p} : Keeps(q)
  /\ failure'[p] = failure[p] /\ UNCHANGED <<up, adopted, dead>>

\* A descriptor is given out.
LEMMA Assigned ==
  ASSUME ProcessOK, NEW p \in Procs, NEW v \in Vars, NEW file \in Files, Assign(p, v, file),
         NEW n \in Fds, Lowest(p) = n, Tail(todo[p]) \in Seq(Texts)
  PROVE  /\ ProcessOK' /\ Only(p) /\ blocked'[p] = blocked[p]
         /\ UNCHANGED <<dirs, copied, child>>
         /\ \A k \in Fds : fds'[p][k] = IF k = n THEN file ELSE fds[p][k]
         /\ \A w \in Vars : var'[p][w] = IF w = v THEN n ELSE var[p][w]
<1>1. /\ fds' = [fds EXCEPT ![p][n] = file] /\ var' = [var EXCEPT ![p][v] = n]
      /\ todo' = [todo EXCEPT ![p] = Tail(todo[p])]
      /\ UNCHANGED <<blocked, failure, dirs, copied, child, up, adopted, dead>>
  BY DEF Assign, Goes
<1>2. fds' \in [Procs -> [Fds -> Files \cup {Free}]] /\ var' \in [Procs -> [Vars -> Fds \cup {-1}]]
  BY <1>1 DEF ProcessOK
<1>3. ProcessOK'
  BY <1>1, <1>2 DEF ProcessOK
<1>4. Only(p)
  BY <1>1 DEF ProcessOK, Only, Keeps
<1> QED
  BY <1>1, <1>3, <1>4 DEF ProcessOK

\* The calls that give out none.
LEMMA Passed ==
  ASSUME ProcessOK, NEW p \in Procs, Goes(p), Tail(todo[p]) \in Seq(Texts),
         UNCHANGED <<failure, up, adopted, dead, var>>,
         fds' \in [Procs -> [Fds -> Files \cup {Free}]], \A q \in Procs \ {p} : fds'[q] = fds[q],
         blocked' \in [Procs -> BOOLEAN], \A q \in Procs \ {p} : blocked'[q] = blocked[q]
  PROVE  ProcessOK' /\ Only(p)
<1>1. ProcessOK'
  BY DEF ProcessOK, Goes
<1>2. Only(p)
  BY DEF ProcessOK, Only, Keeps, Goes
<1> QED
  BY <1>1, <1>2

-----------------------------------------------------------------------------
(* The calls of init.                                                      *)

\* init goes on to the next call.
LEMMA InitGoes ==
  ASSUME LaunchInv, FileInv', ProcessOK', Only("init"), child = "none",
         UNCHANGED <<child, copied>>, NEW i \in 1 .. 17, InitAt(i)'
  PROVE  LaunchInv'
<1>1. failure'["init"] \in {"none", "other"} /\ Keeps("child") /\ up' \in BOOLEAN
  BY DEF LaunchInv, TypeOK, NoOwnFailure, Only, Procs, Reasons
<1> QED
  BY <1>1, InitMoves DEF Only

\* It is then at that call if it has what InitAt asks for there.
LEMMA InitNext ==
  ASSUME NEW i \in 1 .. 16, Tail(todo["init"]) = SubSeq(start, i + 1, Len(start)), Only("init"),
         InitTable(i + 1)', InitVars(i + 1)', Mounted(i + 1)', i >= 14 => blocked'["init"]
  PROVE  InitAt(i + 1)'
<1>1. todo'["init"] = SubSeq(start, i + 1, Len(start))
  BY DEF Only
<1>2. i + 1 > 14 => blocked'["init"]
  OBVIOUS
<1> QED
  BY <1>1, <1>2 DEF InitAt

\* mkdir and mount: the directory is made before anything is mounted on it.
LEMMA InitMounts ==
  ASSUME LaunchInv, FileInv', mkdir_mount("init")
  PROVE  LaunchInv'
<1>1. PICK i \in 1 .. 16 :
        /\ InitAt(i) /\ Arg("init") = start[i] /\ start[i][1] \in {"mkdir", "mount"}
        /\ Tail(todo["init"]) = SubSeq(start, i + 1, Len(start))
        /\ Tail(todo["init"]) \in Seq(Texts)
  BY InitCall DEF mkdir_mount
<1>2. child = "none" /\ ProcessOK /\ "init" \in Procs
  BY InitCall DEF mkdir_mount, LaunchInv, TypeOK, ProcessOK, Procs
<1>3. i \in 1 .. 6
  <2>1. start[i][1] = "mkdir" \/ start[i][1] = "mount"
    BY <1>1
  <2> QED
    BY <2>1, StartKinds
<1>4. Arg("init")[1] = "mount" => <<"mkdir", Arg("init")[2]>> \in dirs
  <2>1. Mounted(i)
    BY <1>1 DEF InitAt
  <2>2. CASE i \in 1 .. 3
    <3>1. start[i][1] = "mkdir"
      BY <2>2, StartKinds
    <3> QED
      BY <1>1, <3>1
  <2>3. CASE i = 4
    <3>1. start[1] \in dirs
      BY <2>1, <2>3 DEF Mounted
    <3>2. <<"mkdir", "/proc">> \in dirs /\ Arg("init") = <<"mount", "/proc">>
      BY <1>1, <2>3, <3>1, StartText
    <3> QED
      BY <3>2
  <2>4. CASE i = 5
    <3>1. start[3] \in dirs
      BY <2>1, <2>4 DEF Mounted
    <3>2. <<"mkdir", "/sys">> \in dirs /\ Arg("init") = <<"mount", "/sys">>
      BY <1>1, <2>4, <3>1, StartText
    <3> QED
      BY <3>2
  <2>5. CASE i = 6
    <3>1. start[2] \in dirs
      BY <2>1, <2>5 DEF Mounted
    <3>2. <<"mkdir", "/dev">> \in dirs /\ Arg("init") = <<"mount", "/dev">>
      BY <1>1, <2>5, <3>1, StartText
    <3> QED
      BY <3>2
  <2> QED
    BY <1>3, <2>2, <2>3, <2>4, <2>5
<1>5. /\ dirs' = dirs \cup {start[i]} /\ Goes("init")
      /\ UNCHANGED <<fds, var, blocked, failure, copied, child, up, adopted, dead>>
  BY <1>1, <1>4 DEF mkdir_mount
<1>6. /\ ProcessOK' /\ Only("init")
      /\ fds'["init"] = fds["init"] /\ var'["init"] = var["init"]
      /\ blocked'["init"] = blocked["init"]
  BY <1>1, <1>2, <1>5, Passed DEF ProcessOK
<1>7. InitAt(i + 1)'
  <2>1. Mounted(i + 1)'
    <3>1. dirs' = dirs \cup {start[i]} /\ \A j \in 1 .. 6 : j < i => start[j] \in dirs
      BY <1>1, <1>5 DEF InitAt, Mounted
    <3>2. \A j \in 1 .. 6 : j < i + 1 => j < i \/ j = i
      BY <1>3
    <3> QED
      BY <3>1, <3>2 DEF Mounted
  <2>2. InitTable(i + 1)' /\ InitVars(i + 1)'
    BY <1>1, <1>3, <1>6 DEF InitAt, InitTable, InitVars
  <2>3. ~(i >= 14)
    BY <1>3
  <2> QED
    BY <1>1, <1>6, <2>1, <2>2, <2>3, InitNext
<1> QED
  BY <1>2, <1>3, <1>5, <1>6, <1>7, InitGoes

\* open, io_uring_setup, signalfd and socket: the file is reachable, and the
\* lowest free descriptor is the one that InitAt names.
LEMMA InitOpens ==
  ASSUME LaunchInv, FileInv', open("init")
  PROVE  LaunchInv'
<1>1. PICK i \in 1 .. 16 :
        /\ InitAt(i) /\ Arg("init") = start[i] /\ start[i][1] \in {"open"}
        /\ Tail(todo["init"]) = SubSeq(start, i + 1, Len(start))
        /\ Tail(todo["init"]) \in Seq(Texts)
  BY InitCall DEF open
<1>2. child = "none" /\ ProcessOK /\ "init" \in Procs
  BY InitCall DEF open, LaunchInv, TypeOK, ProcessOK, Procs
<1>3. i \in {7, 8, 10, 13, 15, 16}
  BY <1>1, StartKinds
<1>4. <<"mount", "/dev">> \in dirs /\ <<"mount", "/proc">> \in dirs
  <2>1. start[6] \in dirs /\ start[4] \in dirs
    BY <1>1, <1>3 DEF InitAt, Mounted
  <2> QED
    BY <2>1, StartText
<1>5. Reachable(Arg("init")[3])
  BY <1>4 DEF Reachable
<1>6. 0 \in Fds /\ 1 \in Fds /\ 2 \in Fds /\ 3 \in Fds /\ 4 \in Fds /\ 5 \in Fds
  BY LaunchAssumption DEF Fds
<1>7. ASSUME NEW n \in Fds, fds["init"][n] = Free,
             \A m \in 0 .. (n - 1) : fds["init"][m] # Free,
             Arg("init")[2] \in Vars, Arg("init")[3] \in Files
      PROVE  /\ ProcessOK' /\ Only("init") /\ blocked'["init"] = blocked["init"]
             /\ UNCHANGED <<dirs, copied, child>>
             /\ \A k \in Fds : fds'["init"][k] = IF k = n THEN Arg("init")[3] ELSE fds["init"][k]
             /\ \A w \in Vars : var'["init"][w] = IF w = Arg("init")[2] THEN n
                                                                      ELSE var["init"][w]
  <2>1. HasFree("init") /\ Lowest("init") = n
    BY <1>7, LowestIs
  <2>2. PICK v, file : v = Arg("init")[2] /\ file = Arg("init")[3]
    OBVIOUS
  <2>3. Assign("init", v, file)
    BY <1>5, <2>1, <2>2 DEF open
  <2> QED
    BY <1>1, <1>2, <1>7, <2>1, <2>2, <2>3, Assigned
<1>8. ASSUME ProcessOK', Only("init"), UNCHANGED <<dirs, copied, child>>,
             blocked'["init"] = blocked["init"],
             InitTable(i + 1)', InitVars(i + 1)'
      PROVE  LaunchInv'
  <2>1. Mounted(i + 1)'
    BY <1>1, <1>3, <1>8 DEF InitAt, Mounted
  <2>2. i >= 14 => blocked'["init"]
    <3>1. i >= 14 => i > 14
      BY <1>3
    <3>2. i > 14 => blocked["init"]
      BY <1>1, Zenon DEF InitAt
    <3> QED
      BY <1>8, <3>1, <3>2, Zenon
  <2>3. InitAt(i + 1)'
    BY <1>1, <1>8, <2>1, <2>2, InitNext
  <2> QED
    BY <1>2, <1>3, <1>8, <2>3, InitGoes
<1>9. CASE i = 7
  <2>1. InitTable(7) /\ InitVars(7) /\ Arg("init") = <<"open", "con", "console_in">>
    BY <1>1, <1>9, StartText DEF InitAt
  <2>2. fds["init"][0] = Free /\ \A m \in 0 .. (0 - 1) : fds["init"][m] # Free
    BY <2>1 DEF InitTable, Free
  <2>3. InitTable(8)' /\ InitVars(8)'
    BY <1>6, <1>7, <2>1, <2>2 DEF InitTable, InitVars, Vars, Files
  <2> QED
    BY <1>6, <1>7, <1>8, <1>9, <2>1, <2>2, <2>3 DEF Vars, Files
<1>10. CASE i = 8
  <2>1. InitTable(8) /\ InitVars(8) /\ Arg("init") = <<"open", "stdout", "console_out">>
    BY <1>1, <1>10, StartText DEF InitAt
  <2>2. fds["init"][1] = Free /\ \A m \in 0 .. (1 - 1) : fds["init"][m] # Free
    BY <2>1 DEF InitTable, Free
  <2>3. InitTable(9)' /\ InitVars(9)'
    BY <1>6, <1>7, <2>1, <2>2 DEF InitTable, InitVars, Vars, Files
  <2> QED
    BY <1>6, <1>7, <1>8, <1>10, <2>1, <2>2, <2>3 DEF Vars, Files
<1>11. CASE i = 10
  <2>1. InitTable(10) /\ InitVars(10) /\ Arg("init") = <<"open", "printkfd", "printk">>
    BY <1>1, <1>11, StartText DEF InitAt
  <2>2. fds["init"][3] = Free /\ \A m \in 0 .. (3 - 1) : fds["init"][m] # Free
    BY <2>1 DEF InitTable, Free
  <2>3. InitTable(11)' /\ InitVars(11)'
    BY <1>6, <1>7, <2>1, <2>2 DEF InitTable, InitVars, Vars, Files
  <2> QED
    BY <1>6, <1>7, <1>8, <1>11, <2>1, <2>2, <2>3 DEF Vars, Files
<1>12. CASE i = 13
  <2>1. InitTable(13) /\ InitVars(13) /\ Arg("init") = <<"open", "ring", "uring">>
    BY <1>1, <1>12, StartText DEF InitAt
  <2>2. fds["init"][3] = Free /\ \A m \in 0 .. (3 - 1) : fds["init"][m] # Free
    BY <2>1 DEF InitTable, Free
  <2>3. InitTable(14)' /\ InitVars(14)'
    BY <1>6, <1>7, <2>1, <2>2 DEF InitTable, InitVars, Vars, Files
  <2> QED
    BY <1>6, <1>7, <1>8, <1>12, <2>1, <2>2, <2>3 DEF Vars, Files
<1>13. CASE i = 15
  <2>1. InitTable(15) /\ InitVars(15) /\ Arg("init") = <<"open", "sigfd", "signalfd">>
    BY <1>1, <1>13, StartText DEF InitAt
  <2>2. fds["init"][4] = Free /\ \A m \in 0 .. (4 - 1) : fds["init"][m] # Free
    BY <2>1 DEF InitTable, Free
  <2>3. InitTable(16)' /\ InitVars(16)'
    BY <1>6, <1>7, <2>1, <2>2 DEF InitTable, InitVars, Vars, Files
  <2> QED
    BY <1>6, <1>7, <1>8, <1>13, <2>1, <2>2, <2>3 DEF Vars, Files
<1>14. CASE i = 16
  <2>1. InitTable(16) /\ InitVars(16) /\ Arg("init") = <<"open", "eth", "socket">>
    BY <1>1, <1>14, StartText DEF InitAt
  <2>2. fds["init"][5] = Free /\ \A m \in 0 .. (5 - 1) : fds["init"][m] # Free
    BY <2>1 DEF InitTable, Free
  <2>3. InitTable(17)' /\ InitVars(17)'
    BY <1>6, <1>7, <2>1, <2>2 DEF InitTable, InitVars, Vars, Files
  <2> QED
    BY <1>6, <1>7, <1>8, <1>14, <2>1, <2>2, <2>3 DEF Vars, Files
<1> QED
  BY <1>3, <1>9, <1>10, <1>11, <1>12, <1>13, <1>14

\* dup3 onto 2, which is not the descriptor that STDOUT has.
LEMMA InitDups ==
  ASSUME LaunchInv, FileInv', dup3("init")
  PROVE  LaunchInv'
<1>1. PICK i \in 1 .. 16 :
        /\ InitAt(i) /\ Arg("init") = start[i] /\ start[i][1] \in {"dup3"}
        /\ Tail(todo["init"]) = SubSeq(start, i + 1, Len(start))
        /\ Tail(todo["init"]) \in Seq(Texts)
  BY InitCall DEF dup3
<1>2. child = "none" /\ ProcessOK /\ "init" \in Procs
  BY InitCall DEF dup3, LaunchInv, TypeOK, ProcessOK, Procs
<1>3. i = 9
  BY <1>1, StartKinds
<1>4. InitTable(9) /\ InitVars(9) /\ Mounted(9)
  BY <1>1, <1>3 DEF InitAt
<1>5. var["init"].stdout = 1 /\ fds["init"][1] = "console_out"
  BY <1>4 DEF InitTable, InitVars
<1>6. /\ fds' = [fds EXCEPT !["init"][2] = "console_out"] /\ Goes("init")
      /\ UNCHANGED <<var, blocked, failure, dirs, copied, child, up, adopted, dead>>
  BY <1>5 DEF dup3
<1>7. /\ fds' \in [Procs -> [Fds -> Files \cup {Free}]]
      /\ \A q \in Procs \ {"init"} : fds'[q] = fds[q]
      /\ \A k \in Fds : fds'["init"][k] = IF k = 2 THEN "console_out" ELSE fds["init"][k]
  BY <1>2, <1>6 DEF ProcessOK, Files
<1>8. ProcessOK' /\ Only("init")
  BY <1>1, <1>2, <1>6, <1>7, Passed DEF ProcessOK
<1>9. InitTable(10)' /\ InitVars(10)' /\ Mounted(10)'
  BY <1>4, <1>6, <1>7, LaunchAssumption DEF InitTable, InitVars, Mounted, Fds
<1>10. InitAt(10)'
  BY <1>1, <1>3, <1>8, <1>9 DEF InitAt, Only
<1> QED
  BY <1>2, <1>6, <1>8, <1>10, InitGoes

\* close of the descriptor that the kernel's log level has been written to.
LEMMA InitCloses ==
  ASSUME LaunchInv, FileInv', close("init")
  PROVE  LaunchInv'
<1>1. PICK i \in 1 .. 16 :
        /\ InitAt(i) /\ Arg("init") = start[i] /\ start[i][1] \in {"close", "close_all"}
        /\ Tail(todo["init"]) = SubSeq(start, i + 1, Len(start))
        /\ Tail(todo["init"]) \in Seq(Texts)
  BY InitCall DEF close
<1>2. child = "none" /\ ProcessOK /\ "init" \in Procs
  BY InitCall DEF close, LaunchInv, TypeOK, ProcessOK, Procs
<1>3. i = 12
  BY <1>1, StartKinds
<1>4. InitTable(12) /\ InitVars(12) /\ Mounted(12) /\ Arg("init")[1] = "close"
  BY <1>1, <1>3, StartText DEF InitAt
<1>5. var["init"].printkfd = 3
  BY <1>4 DEF InitVars
<1>6. /\ fds' = [fds EXCEPT !["init"] = [fds["init"] EXCEPT ![3] = Free]] /\ Goes("init")
      /\ UNCHANGED <<var, blocked, failure, dirs, copied, child, up, adopted, dead>>
  BY <1>4, <1>5 DEF close
<1>7. /\ fds' \in [Procs -> [Fds -> Files \cup {Free}]]
      /\ \A q \in Procs \ {"init"} : fds'[q] = fds[q]
      /\ \A k \in Fds : fds'["init"][k] = IF k = 3 THEN Free ELSE fds["init"][k]
  BY <1>2, <1>6 DEF ProcessOK, Files
<1>8. ProcessOK' /\ Only("init")
  BY <1>1, <1>2, <1>6, <1>7, Passed DEF ProcessOK
<1>9. InitTable(13)' /\ InitVars(13)' /\ Mounted(13)'
  BY <1>4, <1>6, <1>7, LaunchAssumption DEF InitTable, InitVars, Mounted, Fds
<1>10. InitAt(13)'
  BY <1>1, <1>3, <1>8, <1>9 DEF InitAt, Only
<1> QED
  BY <1>2, <1>6, <1>8, <1>10, InitGoes

\* sigprocmask blocks all signals.
LEMMA InitBlocks ==
  ASSUME LaunchInv, FileInv', sigprocmask("init")
  PROVE  LaunchInv'
<1>1. PICK i \in 1 .. 16 :
        /\ InitAt(i) /\ Arg("init") = start[i] /\ start[i][1] \in {"block", "unblock"}
        /\ Tail(todo["init"]) = SubSeq(start, i + 1, Len(start))
        /\ Tail(todo["init"]) \in Seq(Texts)
  BY InitCall DEF sigprocmask
<1>2. child = "none" /\ ProcessOK /\ "init" \in Procs
  BY InitCall DEF sigprocmask, LaunchInv, TypeOK, ProcessOK, Procs
<1>3. i = 14
  BY <1>1, StartKinds
<1>4. InitTable(14) /\ InitVars(14) /\ Mounted(14) /\ Arg("init")[1] = "block"
  BY <1>1, <1>3, StartText DEF InitAt
<1>5. /\ blocked' = [blocked EXCEPT !["init"] = TRUE] /\ Goes("init")
      /\ UNCHANGED <<fds, var, failure, dirs, copied, child, up, adopted, dead>>
  BY <1>4 DEF sigprocmask
<1>6. blocked' \in [Procs -> BOOLEAN] /\ (\A q \in Procs \ {"init"} : blocked'[q] = blocked[q])
  BY <1>2, <1>5 DEF ProcessOK
<1>7. blocked'["init"]
  BY <1>2, <1>5 DEF ProcessOK
<1>8. ProcessOK' /\ Only("init")
  BY <1>1, <1>2, <1>5, <1>6, Passed DEF ProcessOK
<1>9. InitTable(15)' /\ InitVars(15)' /\ Mounted(15)'
  BY <1>4, <1>5 DEF InitTable, InitVars, Mounted
<1>10. InitAt(15)'
  BY <1>1, <1>3, <1>7, <1>8, <1>9 DEF InitAt, Only
<1> QED
  BY <1>2, <1>5, <1>8, <1>10, InitGoes

\* The write of the log level.
LEMMA InitWrites ==
  ASSUME LaunchInv, FileInv', NoEffect("init")
  PROVE  LaunchInv'
<1>1. PICK i \in 1 .. 16 :
        /\ InitAt(i) /\ Arg("init") = start[i] /\ start[i][1] \in {"write", "fstatat"}
        /\ Tail(todo["init"]) = SubSeq(start, i + 1, Len(start))
        /\ Tail(todo["init"]) \in Seq(Texts)
  BY InitCall DEF NoEffect
<1>2. child = "none" /\ ProcessOK /\ "init" \in Procs
  BY InitCall DEF NoEffect, LaunchInv, TypeOK, ProcessOK, Procs
<1>3. i = 11
  BY <1>1, StartKinds
<1>4. InitTable(11) /\ InitVars(11) /\ Mounted(11)
  BY <1>1, <1>3 DEF InitAt
<1>5. /\ Goes("init")
      /\ UNCHANGED <<fds, var, blocked, failure, dirs, copied, child, up, adopted, dead>>
  BY DEF NoEffect
<1>6. ProcessOK' /\ Only("init")
  BY <1>1, <1>2, <1>5, Passed DEF ProcessOK
<1>7. InitTable(12)' /\ InitVars(12)' /\ Mounted(12)'
  BY <1>4, <1>5 DEF InitTable, InitVars, Mounted
<1>8. InitAt(12)'
  BY <1>1, <1>3, <1>6, <1>7 DEF InitAt, Only
<1> QED
  BY <1>2, <1>5, <1>6, <1>8, InitGoes

\* The calls that only the children make.
LEMMA InitNever ==
  ASSUME LaunchInv
  PROVE  \A call \in {"memfd_create", "copy_file_range", "exec"} : ~At("init", {call})
<1> SUFFICES ASSUME NEW call \in {"memfd_create", "copy_file_range", "exec"}, At("init", {call})
             PROVE  FALSE
  OBVIOUS
<1>1. PICK calls : calls = {call} /\ At("init", calls)
  OBVIOUS
<1>2. PICK i \in 1 .. 16 : start[i][1] \in calls
  BY <1>1, InitCall
<1> QED
  BY <1>1, <1>2, StartText

\* Every call of init.
LEMMA InitSteps ==
  ASSUME LaunchInv, FileInv', Step("init")
  PROVE  LaunchInv'
<1>1. CASE SyscheckFails("init")
  BY <1>1, ExitsHolds DEF SyscheckFails, At, Procs
<1>2. CASE memfd_create("init") \/ copy_file_range("init") \/ execveat("init")
  BY <1>2, InitNever DEF memfd_create, copy_file_range, execveat
<1> QED
  BY <1>1, <1>2, InitMounts, InitOpens, InitDups, InitCloses, InitBlocks, InitWrites DEF Step

-----------------------------------------------------------------------------
(* The calls of the child.                                                 *)

\* The child goes on to the next call.
LEMMA ChildGoes ==
  ASSUME LaunchInv, FileInv', ProcessOK', Only("child"), child = "started",
         UNCHANGED <<child, dirs>>, copied' \in 0 .. FileSize,
         NEW text \in {busybox, cmd_memrun}, NEW i \in 1 .. 10, NEW n \in Nat,
         ChildBefore(text, n, i), i < n,
         ChildTable(i + 1)', ChildMemfd(i + 1)', i + 1 > 3 => var'["child"].stdout = 1,
         i + 1 = n => ~blocked'["child"]
  PROVE  LaunchInv'
<1>1. failure'["child"] \in {"none", "other"} /\ Keeps("init")
  BY DEF LaunchInv, TypeOK, NoOwnFailure, Only, Procs, Reasons
<1>2. n = Len(text) /\ ChildAt(text, i + 1)'
  BY DEF ChildBefore, ChildAt, Only
<1>3. ChildSomewhere'
  <2>1. CASE text = busybox
    <3>1. i + 1 \in 1 .. 6
      BY <1>2, <2>1, BusyboxText
    <3> QED
      BY <1>2, <2>1, <3>1 DEF ChildSomewhere
  <2>2. CASE text = cmd_memrun
    <3>1. i + 1 \in 1 .. 10
      BY <1>2, <2>2, MemrunText
    <3> QED
      BY <1>2, <2>2, <3>1 DEF ChildSomewhere
  <2> QED
    BY <2>1, <2>2
<1>4. ProgramEnvironment' /\ StrayHasNoRing'
  BY DEF ProgramEnvironment, StrayHasNoRing
<1> QED
  BY <1>1, <1>3, <1>4, ChildMoves DEF Only

\* close_all_files() leaves nothing open of what init has, however much that is.
LEMMA ChildCloses ==
  ASSUME LaunchInv, FileInv', close("child")
  PROVE  LaunchInv'
<1>1. /\ child = "started" /\ ProcessOK /\ "child" \in Procs /\ copied \in 0 .. FileSize
      /\ Arg("child")[1] \in {"close", "close_all"}
  BY ChildCall DEF close, LaunchInv, TypeOK, ProcessOK, Procs
<1>2. PICK text \in {busybox, cmd_memrun}, n \in Nat, i \in 1 .. 10 : ChildBefore(text, n, i)
  BY ChildCall DEF close
<1>3. i = 1 /\ i < n /\ i + 1 # n /\ Arg("child") = <<"close_all">>
  BY <1>1, <1>2 DEF ChildBefore, Listed
<1>4. /\ fds' = [fds EXCEPT !["child"] = Closed] /\ Goes("child")
      /\ UNCHANGED <<var, blocked, failure, dirs, copied, child, up, adopted, dead>>
  <2>1. ~(Arg("child")[1] = "close")
    BY <1>3
  <2> QED
    BY <2>1, Zenon DEF close
<1>5. Closed \in [Fds -> Files \cup {Free}]
  BY DEF Closed
<1>6. /\ fds' \in [Procs -> [Fds -> Files \cup {Free}]]
      /\ \A q \in Procs \ {"child"} : fds'[q] = fds[q]
      /\ \A k \in Fds : fds'["child"][k] = Free
  BY <1>1, <1>4, <1>5 DEF ProcessOK, Closed
<1>7. ProcessOK' /\ Only("child")
  BY <1>1, <1>2, <1>4, <1>6, Passed DEF ProcessOK, ChildBefore
<1>8. ChildTable(2)'
  BY <1>6, LaunchAssumption DEF ChildTable, Fds
<1>9. ChildMemfd(2)'
  <2>1. ChildMemfd(1)
    BY <1>2, <1>3 DEF ChildBefore, ChildAt
  <2> QED
    BY <1>4, <2>1 DEF ChildMemfd
<1> QED
  BY <1>1, <1>2, <1>3, <1>4, <1>7, <1>8, <1>9, ChildGoes

\* The child opens the console, and in cmd_memrun the file to run: there is a
\* descriptor for each.
LEMMA ChildOpens ==
  ASSUME LaunchInv, FileInv', open("child")
  PROVE  LaunchInv'
<1>1. /\ child = "started" /\ ProcessOK /\ "child" \in Procs /\ copied \in 0 .. FileSize
      /\ Arg("child")[1] \in {"open"} /\ <<"mount", "/dev">> \in dirs
  BY ChildCall DEF open, LaunchInv, TypeOK, ProcessOK, Procs
<1>2. PICK text \in {busybox, cmd_memrun}, n \in Nat, i \in 1 .. 10 : ChildBefore(text, n, i)
  BY ChildCall DEF open
<1>3. /\ i < n /\ i + 1 # n
      /\ \/ i = 2 /\ Arg("child") = <<"open", "stdin", "console_in">>
         \/ i = 3 /\ Arg("child") = <<"open", "stdout", "console_out">>
         \/ i = 6 /\ Arg("child") = <<"open", "infd", "exe">>
  <2>1. n \in {6, 10} /\ Listed(n, i, Arg("child")) /\ Arg("child")[1] = "open"
    BY <1>1, <1>2 DEF ChildBefore
  <2> QED
    BY <2>1, ListedOpen, Zenon
<1>4. PICK v \in Vars, file \in Files : v = Arg("child")[2] /\ file = Arg("child")[3]
  BY <1>3 DEF Vars, Files
<1>5. Reachable(file)
  BY <1>1, <1>3, <1>4 DEF Reachable
<1>6. 0 \in Fds /\ 1 \in Fds /\ 2 \in Fds /\ 4 \in Fds \ (0 .. 3)
  BY LaunchAssumption DEF Fds
<1>7. ChildTable(i) /\ (i > 3 => var["child"].stdout = 1)
  BY <1>2 DEF ChildBefore, ChildAt
<1>8. HasFree("child")
  <2>1. i = 2 => fds["child"][0] = Free
    BY <1>7 DEF ChildTable
  <2>2. i = 3 => fds["child"][1] = Free
    BY <1>7 DEF ChildTable
  <2>3. i = 6 => fds["child"][4] = Free
    BY <1>6, <1>7 DEF ChildTable
  <2> QED
    BY <1>3, <1>6, <2>1, <2>2, <2>3 DEF HasFree
<1>9. PICK m \in Fds : m = Lowest("child") /\ fds["child"][m] = Free
  BY <1>8, LowestFree
<1>10. Assign("child", v, file)
  BY <1>4, <1>5, <1>8 DEF open
<1>11. /\ ProcessOK' /\ Only("child") /\ blocked'["child"] = blocked["child"]
       /\ UNCHANGED <<dirs, copied, child>>
       /\ \A k \in Fds : fds'["child"][k] = IF k = m THEN file ELSE fds["child"][k]
       /\ \A w \in Vars : var'["child"][w] = IF w = v THEN m ELSE var["child"][w]
  BY <1>1, <1>2, <1>9, <1>10, Assigned DEF ChildBefore
<1>12. ChildTable(i + 1)' /\ (i + 1 > 3 => var'["child"].stdout = 1)
  <2>1. CASE i = 2
    <3>1. fds["child"][0] = Free /\ \A k \in 0 .. (0 - 1) : fds["child"][k] # Free
      BY <1>7, <2>1 DEF ChildTable
    <3>2. m = 0 /\ file = "console_in"
      BY <1>3, <1>4, <1>6, <1>9, <2>1, <3>1, LowestIs
    <3> QED
      BY <1>6, <1>7, <1>11, <2>1, <3>2 DEF ChildTable
  <2>2. CASE i = 3
    <3>1. fds["child"][1] = Free /\ \A k \in 0 .. (1 - 1) : fds["child"][k] # Free
      BY <1>7, <2>2 DEF ChildTable, Free
    <3>2. m = 1 /\ file = "console_out" /\ v = "stdout"
      BY <1>3, <1>4, <1>6, <1>9, <2>2, <3>1, LowestIs
    <3>3. var'["child"].stdout = 1
      BY <1>11, <3>2 DEF Vars
    <3> QED
      BY <1>6, <1>7, <1>11, <2>2, <3>2, <3>3 DEF ChildTable
  <2>3. CASE i = 6
    <3>1. m \notin 0 .. 2 /\ file = "exe" /\ v = "infd"
      BY <1>3, <1>4, <1>7, <1>9, <2>3 DEF ChildTable, Free
    <3>2. var'["child"].stdout = 1
      BY <1>7, <1>11, <2>3, <3>1 DEF Vars
    <3>3. ChildTable(7)'
      BY <1>6, <1>7, <1>11, <2>3, <3>1 DEF ChildTable
    <3> QED
      BY <2>3, <3>2, <3>3
  <2> QED
    BY <1>3, <2>1, <2>2, <2>3
<1>13. ChildMemfd(i + 1)'
  <2>1. ChildMemfd(i) /\ v # "memfd" /\ (v = "infd" => i = 6)
    BY <1>2, <1>3, <1>4 DEF ChildBefore, ChildAt
  <2>2. /\ var'["child"].memfd = var["child"].memfd
        /\ i < 6 => var'["child"].infd = var["child"].infd
    BY <1>11, <2>1 DEF Vars
  <2>3. var["child"].memfd # -1 => fds'["child"][var["child"].memfd] = "memfd"
    <3>1. var["child"].memfd \in Fds \cup {-1}
      BY <1>1 DEF ProcessOK, Vars
    <3>2. var["child"].memfd # -1 => fds["child"][var["child"].memfd] = "memfd"
      BY <2>1 DEF ChildMemfd
    <3> QED
      BY <1>9, <1>11, <3>1, <3>2 DEF Free
  <2> QED
    BY <1>3, <2>1, <2>2, <2>3 DEF ChildMemfd
<1> QED
  BY <1>1, <1>2, <1>3, <1>11, <1>12, <1>13, ChildGoes

\* memfd_create, whose result is not looked at, leaves descriptors for the file.
LEMMA ChildCreates ==
  ASSUME LaunchInv, FileInv', memfd_create("child")
  PROVE  LaunchInv'
<1>1. /\ child = "started" /\ ProcessOK /\ "child" \in Procs /\ copied \in 0 .. FileSize
      /\ Arg("child")[1] \in {"memfd_create"}
  BY ChildCall DEF memfd_create, LaunchInv, TypeOK, ProcessOK, Procs
<1>2. PICK text \in {busybox, cmd_memrun}, n \in Nat, i \in 1 .. 10 : ChildBefore(text, n, i)
  BY ChildCall DEF memfd_create
<1>3. i = 5 /\ n = 10
  BY <1>1, <1>2 DEF ChildBefore, Listed
<1>4. ChildTable(5) /\ ChildMemfd(5) /\ var["child"].stdout = 1
  BY <1>2, <1>3 DEF ChildBefore, ChildAt
<1>5. 0 \in Fds /\ 1 \in Fds /\ 2 \in Fds /\ 3 \in Fds \ (0 .. 2)
  BY LaunchAssumption DEF Fds
<1>6. CASE HasFree("child") /\ Assign("child", "memfd", "memfd")
  <2>1. fds["child"][3] = Free /\ \A k \in 0 .. (3 - 1) : fds["child"][k] # Free
    BY <1>4, <1>5 DEF ChildTable, Free
  <2>2. Lowest("child") = 3 /\ "memfd" \in Vars /\ "memfd" \in Files
    BY <1>5, <2>1, LowestIs DEF Vars, Files
  <2>3. /\ ProcessOK' /\ Only("child") /\ blocked'["child"] = blocked["child"]
        /\ UNCHANGED <<dirs, copied, child>>
        /\ \A k \in Fds : fds'["child"][k] = IF k = 3 THEN "memfd" ELSE fds["child"][k]
        /\ \A w \in Vars : var'["child"][w] = IF w = "memfd" THEN 3 ELSE var["child"][w]
    BY <1>1, <1>2, <1>5, <1>6, <2>2, Assigned DEF ChildBefore
  <2>4. var'["child"].stdout = 1
    BY <1>4, <2>3 DEF Vars
  <2>5. ChildTable(6)'
    BY <1>4, <1>5, <2>3 DEF ChildTable
  <2>6. ChildMemfd(6)'
    BY <1>4, <1>5, <2>3 DEF ChildMemfd, Vars
  <2> QED
    BY <1>1, <1>2, <1>3, <2>3, <2>4, <2>5, <2>6, ChildGoes
<1>7. CASE /\ Goes("child")
           /\ UNCHANGED <<fds, var, blocked, failure, dirs, copied, child, up, adopted, dead>>
  <2>1. ProcessOK' /\ Only("child")
    BY <1>1, <1>2, <1>7, Passed DEF ProcessOK, ChildBefore
  <2>2. ChildTable(6)' /\ ChildMemfd(6)' /\ var'["child"].stdout = 1
    BY <1>4, <1>7 DEF ChildTable, ChildMemfd
  <2> QED
    BY <1>1, <1>2, <1>3, <1>7, <2>1, <2>2, ChildGoes
<1> QED
  BY <1>6, <1>7 DEF memfd_create

\* dup3 onto 2.
LEMMA ChildDups ==
  ASSUME LaunchInv, FileInv', dup3("child")
  PROVE  LaunchInv'
<1>1. /\ child = "started" /\ ProcessOK /\ "child" \in Procs /\ copied \in 0 .. FileSize
      /\ Arg("child")[1] \in {"dup3"}
  BY ChildCall DEF dup3, LaunchInv, TypeOK, ProcessOK, Procs
<1>2. PICK text \in {busybox, cmd_memrun}, n \in Nat, i \in 1 .. 10 : ChildBefore(text, n, i)
  BY ChildCall DEF dup3
<1>3. i = 4 /\ i < n /\ i + 1 # n
  <2>1. i = 4
    BY <1>1, <1>2 DEF ChildBefore, Listed
  <2>2. n = 6 \/ n = 10
    BY <1>2 DEF ChildBefore
  <2> QED
    BY <2>1, <2>2
<1>4. ChildTable(4) /\ var["child"].stdout = 1
  BY <1>2, <1>3 DEF ChildBefore, ChildAt
<1>5. fds["child"][1] = "console_out"
  BY <1>4 DEF ChildTable
<1>6. /\ fds' = [fds EXCEPT !["child"][2] = "console_out"] /\ Goes("child")
      /\ UNCHANGED <<var, blocked, failure, dirs, copied, child, up, adopted, dead>>
  BY <1>4, <1>5 DEF dup3
<1>7. /\ fds' \in [Procs -> [Fds -> Files \cup {Free}]]
      /\ \A q \in Procs \ {"child"} : fds'[q] = fds[q]
      /\ \A k \in Fds : fds'["child"][k] = IF k = 2 THEN "console_out" ELSE fds["child"][k]
  BY <1>1, <1>6 DEF ProcessOK, Files
<1>8. ProcessOK' /\ Only("child")
  BY <1>1, <1>2, <1>6, <1>7, Passed DEF ProcessOK, ChildBefore
<1>9. ChildTable(5)'
  BY <1>4, <1>7, LaunchAssumption DEF ChildTable, Fds
<1>10. ChildMemfd(5)'
  <2>1. ChildMemfd(4)
    BY <1>2, <1>3 DEF ChildBefore, ChildAt
  <2> QED
    BY <1>6, <2>1 DEF ChildMemfd
<1> QED
  BY <1>1, <1>2, <1>3, <1>4, <1>6, <1>8, <1>9, <1>10, ChildGoes

\* fstatat and copy_file_range leave the descriptors as they are; the second
\* one needs the memfd.
LEMMA ChildCopies ==
  ASSUME LaunchInv, FileInv', NoEffect("child") \/ copy_file_range("child")
  PROVE  LaunchInv'
<1>1. /\ child = "started" /\ ProcessOK /\ "child" \in Procs /\ copied \in 0 .. FileSize
      /\ Arg("child")[1] \in {"write", "fstatat", "copy_file_range"}
  BY ChildCall DEF NoEffect, copy_file_range, LaunchInv, TypeOK, ProcessOK, Procs
<1>2. PICK text \in {busybox, cmd_memrun}, n \in Nat, i \in 1 .. 10 : ChildBefore(text, n, i)
  BY ChildCall DEF NoEffect, copy_file_range
<1>3. (i = 7 \/ i = 8) /\ n = 10
  BY <1>1, <1>2 DEF ChildBefore, Listed
<1>4. ChildTable(i) /\ var["child"].stdout = 1
  BY <1>2, <1>3 DEF ChildBefore, ChildAt
<1>5. /\ Goes("child") /\ copied' \in 0 .. FileSize
      /\ UNCHANGED <<fds, var, blocked, failure, dirs, child, up, adopted, dead>>
  BY <1>1 DEF NoEffect, copy_file_range
<1>6. ProcessOK' /\ Only("child")
  BY <1>1, <1>2, <1>5, Passed DEF ProcessOK, ChildBefore
<1>7. ChildTable(i + 1)' /\ var'["child"].stdout = 1
  BY <1>3, <1>4, <1>5 DEF ChildTable
<1>8. ChildMemfd(i + 1)'
  <2>1. i = 8 => var["child"].memfd # -1
    <3>1. i = 8 => Arg("child")[1] = "copy_file_range"
      BY <1>2, <1>3 DEF ChildBefore, Listed
    <3>2. NoEffect("child") => Arg("child")[1] \in {"write", "fstatat"}
      BY ChildCall DEF NoEffect
    <3>3. copy_file_range("child") => var["child"].memfd # -1
      BY DEF copy_file_range
    <3> QED
      BY <3>1, <3>2, <3>3
  <2>2. ChildMemfd(i)
    BY <1>2 DEF ChildBefore, ChildAt
  <2> QED
    BY <1>3, <1>5, <2>1, <2>2 DEF ChildMemfd
<1> QED
  BY <1>1, <1>2, <1>3, <1>5, <1>6, <1>7, <1>8, ChildGoes

\* sigprocmask undoes what the child has from init.
LEMMA ChildUnblocks ==
  ASSUME LaunchInv, FileInv', sigprocmask("child")
  PROVE  LaunchInv'
<1>1. /\ child = "started" /\ ProcessOK /\ "child" \in Procs /\ copied \in 0 .. FileSize
      /\ Arg("child")[1] \in {"block", "unblock"}
  BY ChildCall DEF sigprocmask, LaunchInv, TypeOK, ProcessOK, Procs
<1>2. PICK text \in {busybox, cmd_memrun}, n \in Nat, i \in 1 .. 10 : ChildBefore(text, n, i)
  BY ChildCall DEF sigprocmask
<1>3. i = n - 1 /\ (n = 6 \/ n = 10) /\ Arg("child")[1] # "block"
  BY <1>1, <1>2 DEF ChildBefore, Listed
<1>4. ChildTable(i) /\ var["child"].stdout = 1
  BY <1>2, <1>3 DEF ChildBefore, ChildAt
<1>5. /\ blocked' = [blocked EXCEPT !["child"] = FALSE] /\ Goes("child")
      /\ UNCHANGED <<fds, var, failure, dirs, copied, child, up, adopted, dead>>
  BY <1>3 DEF sigprocmask
<1>6. blocked' \in [Procs -> BOOLEAN] /\ (\A q \in Procs \ {"child"} : blocked'[q] = blocked[q])
  BY <1>1, <1>5 DEF ProcessOK
<1>7. ~blocked'["child"]
  BY <1>1, <1>5 DEF ProcessOK
<1>8. ProcessOK' /\ Only("child")
  BY <1>1, <1>2, <1>5, <1>6, Passed DEF ProcessOK, ChildBefore
<1>9. ChildTable(i + 1)' /\ var'["child"].stdout = 1
  BY <1>3, <1>4, <1>5 DEF ChildTable
<1>10. ChildMemfd(i + 1)'
  <2>1. ChildMemfd(i) /\ (i = 5 \/ i = 9)
    BY <1>2, <1>3 DEF ChildBefore, ChildAt
  <2> QED
    BY <1>5, <2>1 DEF ChildMemfd
<1> QED
  BY <1>1, <1>2, <1>3, <1>5, <1>7, <1>8, <1>9, <1>10, ChildGoes

\* execveat: what is left open is the console and the memfd.  If it returns,
\* the file that was to be run is open too, but not the ring.
LEMMA ChildExecs ==
  ASSUME LaunchInv, FileInv', execveat("child")
  PROVE  LaunchInv'
<1>1. /\ child = "started" /\ ProcessOK /\ "child" \in Procs /\ copied \in 0 .. FileSize
      /\ Arg("child")[1] \in {"exec"}
  BY ChildCall DEF execveat, LaunchInv, TypeOK, ProcessOK, Procs
<1>2. PICK text \in {busybox, cmd_memrun}, n \in Nat, i \in 1 .. 10 : ChildBefore(text, n, i)
  BY ChildCall DEF execveat
<1>3. i = n /\ (n = 6 \/ n = 10)
  BY <1>1, <1>2 DEF ChildBefore, Listed
<1>4. ChildTable(i) /\ ~blocked["child"] /\ n = Len(text)
  BY <1>2, <1>3 DEF ChildBefore, ChildAt
<1>5. /\ fds["child"][0] = "console_in"
      /\ fds["child"][1] = "console_out" /\ fds["child"][2] = "console_out"
      /\ \A k \in Fds \ (0 .. 2) : fds["child"][k] \in {Free, "memfd", "exe"}
  <2>1. i > 1 /\ i > 2 /\ i > 3 /\ i > 4
    BY <1>2, <1>3
  <2> QED
    BY <1>4, <2>1 DEF ChildTable
<1>6. /\ Goes("child") /\ child' \in {"program", "stray"}
      /\ UNCHANGED <<var, blocked, failure, dirs, copied, up, adopted, dead>>
  BY DEF execveat
<1>7. Tail(todo["child"]) = <<>> /\ <<>> \in Seq(Texts)
  <2>1. text \in Seq(Texts)
    BY <1>2, BusyboxText, MemrunText
  <2> QED
    BY <1>2, <1>3, <1>4, <2>1, NothingLeft DEF ChildBefore
<1>8. \/ child' = "program" /\ fds' = [fds EXCEPT !["child"] =
           [k \in Fds |-> IF fds["child"][k] \in Cloexec THEN Free ELSE fds["child"][k]]]
      \/ child' = "stray" /\ UNCHANGED fds
  BY DEF execveat
<1>9. /\ fds' \in [Procs -> [Fds -> Files \cup {Free}]]
      /\ \A q \in Procs \ {"child"} : fds'[q] = fds[q]
  <2>1. PICK table : table =
          [k \in Fds |-> IF fds["child"][k] \in Cloexec THEN Free ELSE fds["child"][k]]
    OBVIOUS
  <2>2. table \in [Fds -> Files \cup {Free}]
    BY <1>1, <2>1 DEF ProcessOK
  <2>3. fds' = [fds EXCEPT !["child"] = table] \/ fds' = fds
    BY <1>8, <2>1
  <2> QED
    BY <1>1, <2>2, <2>3 DEF ProcessOK
<1>10. ProcessOK' /\ Only("child")
  BY <1>1, <1>6, <1>7, <1>9, Passed DEF ProcessOK
<1>11. 0 \in Fds /\ 1 \in Fds /\ 2 \in Fds
  BY LaunchAssumption DEF Fds
<1>12. ProgramEnvironment'
  <2>1. ~blocked'["child"]
    BY <1>4, <1>6
  <2>2. child' = "program" => \A k \in Fds : fds'["child"][k] =
          IF fds["child"][k] \in Cloexec THEN Free ELSE fds["child"][k]
    BY <1>1, <1>8 DEF ProcessOK
  <2>3. child' = "program" =>
          /\ fds'["child"][0] = "console_in"
          /\ fds'["child"][1] = "console_out" /\ fds'["child"][2] = "console_out"
          /\ \A k \in Fds \ (0 .. 2) : fds'["child"][k] \in {Free, "memfd"}
    BY <1>5, <1>11, <2>2 DEF Cloexec
  <2>4. ASSUME var'["child"].infd # -1
        PROVE  var'["child"].memfd # -1 /\ fds'["child"][var'["child"].memfd] = "memfd"
    <3>1. ChildMemfd(i) /\ var' = var
      BY <1>2, <1>6 DEF ChildBefore, ChildAt
    <3>2. ~(i < 7)
      BY <2>4, <3>1 DEF ChildMemfd
    <3>3. var["child"].memfd # -1 /\ fds["child"][var["child"].memfd] = "memfd"
      BY <1>3, <3>1, <3>2 DEF ChildMemfd
    <3>4. var["child"].memfd \in Fds
      BY <1>1, <3>3 DEF ProcessOK, Vars
    <3>5. fds'["child"][var["child"].memfd] = "memfd"
      BY <1>8, <2>2, <3>3, <3>4 DEF Cloexec
    <3> QED
      BY <3>1, <3>3, <3>5
  <2> QED
    BY <2>1, <2>3, <2>4 DEF ProgramEnvironment
<1>13. StrayHasNoRing'
  <2> SUFFICES ASSUME child' = "stray", NEW k \in Fds PROVE fds'["child"][k] # "uring"
    BY DEF StrayHasNoRing
  <2>1. fds' = fds
    BY <1>8
  <2>2. CASE k \in 0 .. 2
    BY <1>5, <2>1, <2>2
  <2>3. CASE k \notin 0 .. 2
    BY <1>5, <2>1, <2>3 DEF Free
  <2> QED
    BY <2>2, <2>3
<1>14. failure'["child"] \in {"none", "other"} /\ Keeps("init")
  BY <1>10 DEF LaunchInv, TypeOK, NoOwnFailure, Only, Procs, Reasons
<1>15. ChildSomewhere' /\ todo'["child"] = <<>>
  BY <1>6, <1>7, <1>10 DEF ChildSomewhere, Only
<1> QED
  BY <1>1, <1>6, <1>10, <1>12, <1>13, <1>14, <1>15, ChildMoves

\* Every call of the child.
LEMMA ChildSteps ==
  ASSUME LaunchInv, FileInv', Step("child")
  PROVE  LaunchInv'
<1>1. CASE SyscheckFails("child")
  BY <1>1, ExitsHolds DEF SyscheckFails, At, Procs
<1>2. CASE mkdir_mount("child")
  <2>1. Arg("child")[1] \in {"mkdir", "mount"}
    BY <1>2, ChildCall DEF mkdir_mount
  <2>2. PICK text \in {busybox, cmd_memrun}, n \in Nat, i \in 1 .. 10 : ChildBefore(text, n, i)
    BY <1>2, ChildCall DEF mkdir_mount
  <2> QED
    BY <2>1, <2>2 DEF ChildBefore, Listed
<1> QED
  BY <1>1, <1>2, ChildOpens, ChildCreates, ChildDups, ChildCloses, ChildUnblocks, ChildCopies,
    ChildExecs DEF Step

-----------------------------------------------------------------------------
(* Commands, and what becomes of the processes they start.                 *)

\* init serves no command before it has come to the end of start.
LEMMA InitDone ==
  ASSUME LaunchInv, up, todo["init"] = <<>>
  PROVE  InitAt(17)
<1>1. PICK i \in 1 .. 17 : InitAt(i)
  BY DEF LaunchInv
<1>2. start \in Seq(Texts) /\ Len(start) = 16 /\ todo["init"] = SubSeq(start, i, Len(start))
  BY <1>1, StartText DEF InitAt
<1>3. ASSUME i # 17 PROVE FALSE
  <2>1. i \in 1 .. Len(start)
    BY <1>1, <1>2, <1>3
  <2> QED
    BY <1>2, <2>1, Rest
<1> QED
  BY <1>1, <1>3

\* A step that changes nothing but the number of processes left behind.
LEMMA OthersMove ==
  ASSUME LaunchInv, FileInv', UNCHANGED <<process, dirs, copied, child, up>>,
         \/ UNCHANGED <<adopted, dead>>
         \/ adopted' \in Nat /\ dead' \in Nat /\ adopted' + dead' <= MaxPids
  PROVE  LaunchInv'
<1>1. Keeps("init") /\ Keeps("child") /\ UNCHANGED <<todo, fds, var, blocked, failure>>
  BY DEF process, Keeps
<1>2. up' => \E i \in 1 .. 17 : InitAt(i)'
  BY <1>1, InitKept DEF LaunchInv
<1>3. ChildSomewhere'
  BY <1>1, ChildKept DEF LaunchInv, ChildSomewhere
<1>4. /\ adopted' \in 0 .. MaxPids /\ dead' \in 0 .. MaxPids
      /\ adopted' + dead' <= MaxPids
  BY LaunchAssumption DEF LaunchInv, TypeOK
<1>5. TypeOK'
  BY <1>1, <1>4 DEF LaunchInv, TypeOK, FileInv
<1>6. NoOwnFailure' /\ ProgramEnvironment' /\ StrayHasNoRing'
  BY <1>1 DEF LaunchInv, NoOwnFailure, ProgramEnvironment, StrayHasNoRing
<1>7. /\ (child # "none" => todo["init"] = <<>> /\ <<"mount", "/dev">> \in dirs)'
      /\ (child = "stray" => todo["child"] = <<>>)'
  BY <1>1 DEF LaunchInv
<1> QED
  BY <1>2, <1>3, <1>4, <1>5, <1>6, <1>7 DEF LaunchInv, ChildSomewhere

\* cat and ls take descriptors that init does not use.
LEMMA FileOpens ==
  ASSUME LaunchInv, FileInv', OpensAndKeeps, todo["init"] = <<>>
  PROVE  LaunchInv'
<1>1. CASE UNCHANGED fds
  <2>1. UNCHANGED <<process, dirs, copied, child, up, adopted, dead>>
    BY <1>1 DEF OpensAndKeeps, process
  <2> QED
    BY <2>1, OthersMove
<1>2. CASE HasFree("init") /\ fds' = [fds EXCEPT !["init"][Lowest("init")] = "file"]
  <2>1. InitAt(17) /\ ProcessOK
    BY InitDone DEF OpensAndKeeps, LaunchInv, TypeOK, ProcessOK
  <2>2. PICK m \in Fds : m = Lowest("init") /\ fds["init"][m] = Free
    BY <1>2, LowestFree
  <2>3. m \notin 0 .. 4
    BY <2>1, <2>2 DEF InitAt, InitTable, Free
  <2>4. up /\ UNCHANGED <<todo, var, blocked, failure, dirs, copied, child, up, adopted, dead>>
    BY DEF OpensAndKeeps
  <2>5. /\ fds' \in [Procs -> [Fds -> Files \cup {Free}]] /\ fds'["child"] = fds["child"]
        /\ \A k \in Fds : fds'["init"][k] = IF k = m THEN "file" ELSE fds["init"][k]
    BY <1>2, <2>1, <2>2 DEF ProcessOK, Files, Procs
  <2>6. ProcessOK' /\ Keeps("child")
    BY <2>1, <2>4, <2>5 DEF ProcessOK, Keeps
  <2>7. InitTable(17)'
    <3>1. 0 \in Fds /\ 1 \in Fds /\ 2 \in Fds /\ 3 \in Fds /\ 4 \in Fds
      BY LaunchAssumption DEF Fds
    <3>2. /\ fds'["init"][0] = fds["init"][0] /\ fds'["init"][1] = fds["init"][1]
          /\ fds'["init"][2] = fds["init"][2] /\ fds'["init"][3] = fds["init"][3]
          /\ fds'["init"][4] = fds["init"][4]
      BY <2>3, <2>5, <3>1
    <3> QED
      BY <2>1, <3>2 DEF InitAt, InitTable
  <2>8. InitAt(17)'
    BY <2>1, <2>4, <2>7 DEF InitAt, InitVars, Mounted
  <2>9. failure'["init"] \in {"none", "other"} /\ up' \in BOOLEAN
    BY <2>4 DEF LaunchInv, TypeOK, NoOwnFailure, Procs, Reasons
  <2> QED
    BY <2>4, <2>6, <2>8, <2>9, InitMoves
<1> QED
  BY <1>1, <1>2 DEF OpensAndKeeps

\* clone3: the child starts with all that init has, at the first call.
LEMMA Forks ==
  ASSUME LaunchInv, FileInv', NEW text \in {busybox, cmd_memrun}, Fork(text)
  PROVE  LaunchInv'
<1>1. /\ todo' = [todo EXCEPT !["child"] = text]
      /\ fds' = [fds EXCEPT !["child"] = fds["init"]]
      /\ var' = [var EXCEPT !["child"] = var["init"]]
      /\ blocked' = [blocked EXCEPT !["child"] = blocked["init"]]
      /\ failure' = [failure EXCEPT !["child"] = "none"]
      /\ copied' = 0 /\ child' = "started" /\ UNCHANGED <<dirs, up, adopted, dead>>
      /\ up /\ todo["init"] = <<>>
  BY DEF Fork, Serving
<1>2. ProcessOK
  BY DEF LaunchInv, TypeOK, ProcessOK
<1>3. text \in Seq(Texts)
  BY BusyboxText, MemrunText
<1>4. fds["init"] \in [Fds -> Files \cup {Free}] /\ var["init"] \in [Vars -> Fds \cup {-1}]
      /\ blocked["init"] \in BOOLEAN /\ "none" \in Reasons
  BY <1>2 DEF ProcessOK, Procs, Reasons
<1>5. ProcessOK'
  BY <1>1, <1>2, <1>3, <1>4 DEF ProcessOK
<1>6. Keeps("init") /\ todo'["child"] = text /\ failure'["child"] = "none"
  BY <1>1, <1>2 DEF ProcessOK, Keeps, Procs
<1>7. <<"mount", "/dev">> \in dirs
  <2>1. Mounted(17)
    BY <1>1, InitDone DEF InitAt
  <2>2. start[6] \in dirs
    BY <2>1 DEF Mounted
  <2> QED
    BY <2>2, StartText
<1>8. todo'["child"] = SubSeq(text, 1, Len(text))
  BY <1>3, <1>6, SubSeqFull, Zenon
<1>9. Len(text) = 6 \/ Len(text) = 10
  BY BusyboxText, MemrunText
<1>10. ChildAt(text, 1)'
  <2>1. ChildTable(1)' /\ 1 # Len(text)
    BY <1>9 DEF ChildTable
  <2>2. ChildMemfd(1)'
    <3>1. var'["child"] = var["init"]
      BY <1>1, <1>2 DEF ProcessOK, Procs
    <3>2. InitVars(17)
      BY <1>1, InitDone DEF InitAt
    <3> QED
      BY <3>1, <3>2 DEF InitVars, ChildMemfd
  <2> QED
    BY <1>8, <2>1, <2>2 DEF ChildAt
<1>11. ChildSomewhere'
  BY <1>10 DEF ChildSomewhere
<1>12. ProgramEnvironment' /\ StrayHasNoRing' /\ copied' \in 0 .. FileSize
  BY <1>1, LaunchAssumption DEF ProgramEnvironment, StrayHasNoRing
<1> QED
  BY <1>1, <1>5, <1>6, <1>7, <1>11, <1>12, ChildMoves

\* A program ends, and waitid returns.
LEMMA Ends ==
  ASSUME LaunchInv, FileInv', ProgramEnds \/ Reap
  PROVE  LaunchInv'
<1>1. ProcessOK /\ copied \in 0 .. FileSize /\ adopted \in Nat /\ dead \in Nat /\ up
      /\ child \in {"program", "zombie"} /\ todo["child"] = <<>>
      /\ failure["child"] \in {"none", "other"}
  BY DEF LaunchInv, TypeOK, NoOwnFailure, ProcessOK, ProgramEnds, Reap, Procs, Reasons
<1>2. Closed \in [Fds -> Files \cup {Free}] /\ Unset \in [Vars -> Fds \cup {-1}]
  BY DEF Closed, Unset
<1>3. ProcessOK' /\ Keeps("init")
  BY <1>1, <1>2 DEF ProgramEnds, Reap, ProcessOK, Keeps, Procs
<1>4. /\ child' \in {"none", "zombie"} /\ UNCHANGED <<todo, failure, dirs, copied, up>>
      /\ UNCHANGED dead
      /\ \/ UNCHANGED adopted
         \/ adopted' = adopted + 1 /\ adopted + dead + 1 < MaxPids
  BY DEF ProgramEnds, Reap
<1>5. \/ UNCHANGED <<adopted, dead>>
      \/ adopted' \in Nat /\ dead' \in Nat /\ adopted' + dead' <= MaxPids
  BY <1>1, <1>4, LaunchAssumption
<1>6. ProgramEnvironment' /\ StrayHasNoRing' /\ ChildSomewhere'
  BY <1>4 DEF ProgramEnvironment, StrayHasNoRing, ChildSomewhere
<1> QED
  BY <1>1, <1>3, <1>4, <1>5, <1>6, ChildMoves

\* exit ends init.
LEMMA Exit ==
  ASSUME LaunchInv, FileInv', cmd_exit
  PROVE  LaunchInv'
<1>1. /\ up' = FALSE /\ UNCHANGED <<todo, fds, var, blocked, failure, dirs, copied, child>>
      /\ UNCHANGED <<adopted, dead>> /\ todo["init"] = <<>>
  BY DEF cmd_exit, Serving, process
<1>2. ProcessOK' /\ Keeps("child") /\ failure'["init"] \in {"none", "other"}
  BY <1>1 DEF LaunchInv, TypeOK, NoOwnFailure, ProcessOK, Keeps, Procs, Reasons
<1> QED
  BY <1>1, <1>2, InitMoves

\* What the loops of cat and ls see of a step.
LEMMA FilePart ==
  [Next]_vars => CommandGiven \/ Open(TRUE) \/ Open(FALSE) \/ Loop \/ UNCHANGED file_vars
  BY DEF Next, vars, FileStep, OpensAndKeeps

\* A builtin that opens files runs only after boot.
AfterBoot == pc # "idle" => todo["init"] = <<>>

\* Only init itself goes through start, and then no command is running.
LEMMA AfterBootStep ==
  ASSUME LaunchInv, AfterBoot, [Next]_vars
  PROVE  AfterBoot'
<1>1. ProcessOK
  BY DEF LaunchInv, TypeOK, ProcessOK
<1>2. CASE Other /\ UNCHANGED file_vars
  <2>1. pc' = pc
    BY <1>2 DEF file_vars
  <2>2. CASE Step("init")
    <3>1. todo["init"] # <<>>
      BY <2>2 DEF Step, At, SyscheckFails, mkdir_mount, open, memfd_create, dup3, close,
        sigprocmask, NoEffect, copy_file_range, execveat
    <3> QED
      BY <2>1, <3>1 DEF AfterBoot
  <2>3. CASE Step("child") \/ StrayEnds
    <3>1. \/ todo' = [todo EXCEPT !["child"] = Tail(todo["child"])]
          \/ todo' = [todo EXCEPT !["child"] = <<>>]
      BY <2>3 DEF Step, SyscheckFails, mkdir_mount, open, memfd_create, dup3, close,
        sigprocmask, NoEffect, copy_file_range, execveat, Goes, Exits, Assign, StrayEnds
    <3>2. todo'["init"] = todo["init"]
      BY <1>1, <3>1 DEF ProcessOK, Procs
    <3> QED
      BY <2>1, <3>2 DEF AfterBoot
  <2>4. CASE WaitidFails
    <3>1. todo'["init"] = <<>>
      BY <1>1, <2>4 DEF WaitidFails, Exits, ProcessOK, Procs
    <3> QED
      BY <3>1 DEF AfterBoot
  <2>5. CASE \/ cmd_exit \/ ProgramEnds \/ AdoptedForks \/ OrphanDies \/ Reap
    <3>1. todo' = todo
      BY <2>5 DEF cmd_exit, ProgramEnds, AdoptedForks, OrphanDies, Reap, process
    <3> QED
      BY <2>1, <3>1 DEF AfterBoot
  <2>6. CASE Fork(busybox) \/ Fork(cmd_memrun)
    <3>1. pc = "idle"
      BY <2>6 DEF Fork, Serving
    <3> QED
      BY <2>1, <3>1 DEF AfterBoot
  <2> QED
    BY <1>2, <2>2, <2>3, <2>4, <2>5, <2>6 DEF Other, Procs
<1>3. CASE Serving /\ CommandGiven /\ UNCHANGED system
  BY <1>3 DEF Serving, system, process, AfterBoot
<1>4. CASE FileStep
  <2>1. todo' = todo
    BY <1>4 DEF FileStep, OpensAndKeeps, system, process
  <2>2. pc = "idle" => pc' = "idle"
    BY <1>4 DEF FileStep, OpensAndKeeps, Open, Loop, Fill, PrintEntry, NextBuffer, cmd_cat,
      CommandReturns
  <2> QED
    BY <2>1, <2>2 DEF AfterBoot
<1>5. CASE UNCHANGED vars
  BY <1>5 DEF vars, system, process, file_vars, AfterBoot
<1> QED
  BY <1>2, <1>3, <1>4, <1>5 DEF Next

\* No step breaks the invariants.
LEMMA LaunchStep ==
  LaunchInv /\ FileInv /\ AfterBoot /\ [Next]_vars => LaunchInv' /\ FileInv' /\ AfterBoot'
<1> SUFFICES ASSUME LaunchInv, FileInv, AfterBoot, [Next]_vars
             PROVE  LaunchInv' /\ FileInv' /\ AfterBoot'
  OBVIOUS
<1>1. FileInv'
  BY FilePart, FileStepHolds
<1>2. AfterBoot'
  BY AfterBootStep
<1>3. LaunchInv'
  <2>1. CASE \E p \in Procs : Step(p)
    BY <1>1, <2>1, InitSteps, ChildSteps DEF Procs
  <2>2. CASE Fork(busybox) \/ Fork(cmd_memrun)
    BY <1>1, <2>2, Forks
  <2>3. CASE StrayEnds \/ WaitidFails
    BY <1>1, <2>3, ExitsHolds DEF StrayEnds, WaitidFails, Procs
  <2>4. CASE AdoptedForks \/ OrphanDies
    <3>1. UNCHANGED <<process, dirs, copied, child, up>>
      BY <2>4 DEF AdoptedForks, OrphanDies
    <3>2. adopted \in Nat /\ dead \in Nat /\ adopted + dead <= MaxPids
      BY DEF LaunchInv, TypeOK
    <3>3. adopted' \in Nat /\ dead' \in Nat /\ adopted' + dead' <= MaxPids
      BY <2>4, <3>2, LaunchAssumption DEF AdoptedForks, OrphanDies
    <3> QED
      BY <1>1, <3>1, <3>3, OthersMove
  <2>5. CASE UNCHANGED system
    BY <1>1, <2>5, OthersMove DEF system
  <2>6. CASE OpensAndKeeps
    <3>1. todo["init"] = <<>>
      BY <2>6 DEF OpensAndKeeps, Open, AfterBoot
    <3> QED
      BY <1>1, <2>6, <3>1, FileOpens
  <2> QED
    BY <1>1, <2>1, <2>2, <2>3, <2>4, <2>5, <2>6, Ends, Exit DEF Next, Other, FileStep, vars
<1> QED
  BY <1>1, <1>2, <1>3

\* They hold when the kernel starts init.
LEMMA LaunchStart == Init => LaunchInv /\ FileInv /\ AfterBoot
<1> SUFFICES ASSUME Init PROVE LaunchInv /\ FileInv /\ AfterBoot
  OBVIOUS
<1>1. FileInv /\ pc = "idle"
  BY FileStart DEF Init, FileInit
<1>2. start \in Seq(Texts) /\ <<>> \in Seq(Texts)
  BY StartText
<1>3. ProcessOK
  BY <1>2 DEF Init, ProcessOK, Closed, Unset, Reasons
<1>4. TypeOK
  BY <1>1, <1>3, LaunchAssumption DEF Init, TypeOK, ProcessOK, FileInv, Procs
<1>5. InitAt(1)
  <2>1. todo["init"] = start /\ \A n \in Fds : fds["init"][n] = Free
    BY DEF Init, Procs, Closed
  <2>2. start = SubSeq(start, 1, Len(start))
    BY <1>2, SubSeqFull, Zenon
  <2>3. InitTable(1)
    BY <2>1, LaunchAssumption DEF InitTable, Fds
  <2>4. InitVars(1) /\ Mounted(1)
    BY DEF Init, Procs, Unset, Vars, InitVars, Mounted
  <2> QED
    BY <2>1, <2>2, <2>3, <2>4 DEF InitAt
<1>6. NoOwnFailure /\ ProgramEnvironment /\ StrayHasNoRing
  BY DEF Init, NoOwnFailure, ProgramEnvironment, StrayHasNoRing, Procs
<1>7. adopted + dead <= MaxPids /\ child = "none"
  BY LaunchAssumption DEF Init
<1> QED
  BY <1>1, <1>4, <1>5, <1>6, <1>7 DEF LaunchInv, AfterBoot

-----------------------------------------------------------------------------
(* What busybox() and cmd_memrun() promise.                                *)

\* Every step is one of ChildLife's or leaves the child and init as they are.
LEMMA LifeStep == LaunchInv /\ [Next]_vars => [Life!Next]_Life!vars
<1> SUFFICES ASSUME LaunchInv, [Next]_vars PROVE [Life!Next]_Life!vars
  OBVIOUS
<1>1. ASSUME up, ~up', UNCHANGED child PROVE [Life!Next]_Life!vars
  BY <1>1 DEF Life!Next, Life!Panic
<1>2. ASSUME UNCHANGED <<child, up>> PROVE [Life!Next]_Life!vars
  BY <1>2 DEF Life!vars
<1>3. CASE Step("init")
  <2>1. ~execveat("init")
    BY InitNever DEF execveat
  <2>2. up /\ UNCHANGED child /\ (UNCHANGED up \/ ~up')
    BY <1>3, <2>1 DEF Step, SyscheckFails, mkdir_mount, open, memfd_create, dup3, close,
      sigprocmask, NoEffect, copy_file_range, At, Exits, Assign
  <2> QED
    BY <1>1, <1>2, <2>2
<1>4. CASE Step("child")
  <2>1. /\ up /\ child = "started" /\ UNCHANGED up
        /\ child' \in {"started", "program", "zombie", "stray"}
    BY <1>4 DEF Step, SyscheckFails, mkdir_mount, open, memfd_create, dup3, close,
      sigprocmask, NoEffect, copy_file_range, execveat, At, Exits, Assign
  <2> QED
    BY <2>1 DEF Life!Next, Life!Settle, Life!Becomes, Life!vars
<1>5. CASE cmd_exit \/ WaitidFails
  <2>1. up /\ ~up' /\ UNCHANGED child
    BY <1>5 DEF cmd_exit, Serving, WaitidFails, Exits
  <2> QED
    BY <1>1, <2>1
<1>6. CASE Fork(busybox) \/ Fork(cmd_memrun)
  BY <1>6 DEF Fork, Serving, Life!Next, Life!Fork, Life!Becomes
<1>7. CASE ProgramEnds
  BY <1>7 DEF ProgramEnds, Life!Next, Life!End, Life!Becomes
<1>8. CASE StrayEnds
  BY <1>8 DEF StrayEnds, Exits, Life!Next, Life!Settle, Life!Becomes
<1>9. CASE Reap
  BY <1>9 DEF Reap, Life!Next, Life!Reap, Life!Becomes
<1>10. CASE AdoptedForks \/ OrphanDies \/ UNCHANGED system \/ OpensAndKeeps
  <2>1. UNCHANGED <<child, up>>
    BY <1>10 DEF AdoptedForks, OrphanDies, system, OpensAndKeeps
  <2> QED
    BY <1>2, <2>1
<1> QED
  BY <1>3, <1>4, <1>5, <1>6, <1>7, <1>8, <1>9, <1>10 DEF Next, Other, FileStep, Procs, vars

-----------------------------------------------------------------------------
(* The theorems.                                                           *)

\* What start(), busybox() and cmd_memrun() have by the time of each call, and
\* what the loops of cat and ls have printed, whatever the limits are.
THEOREM LaunchInvariant == Spec => []InitInv
<1>1. Spec => [](LaunchInv /\ FileInv /\ AfterBoot)
  BY LaunchStart, LaunchStep, PTL DEF Spec
<1> QED
  BY <1>1, PTL DEF InitInv

\* start() opens nothing before it is mounted, and the children find the
\* descriptors they need however many init has open.
THEOREM NeverOwnFailure == Spec => []NoOwnFailure
<1>1. LaunchInv => NoOwnFailure
  BY DEF LaunchInv
<1> QED
  BY <1>1, LaunchInvariant, PTL DEF InitInv

\* The numbers that the loop of init.c uses stay what start() opened, whatever
\* cat and ls leave open.
THEOREM InitKeepsDescriptors == Spec => []InitDescriptors
<1>1. LaunchInv => InitDescriptors
  <2> SUFFICES ASSUME LaunchInv, up, todo["init"] = <<>>
               PROVE  /\ fds["init"][0] = "console_in"
                      /\ fds["init"][1] = "console_out" /\ fds["init"][2] = "console_out"
                      /\ fds["init"][var["init"].ring] = "uring"
                      /\ fds["init"][var["init"].sigfd] = "signalfd"
                      /\ blocked["init"]
    BY DEF InitDescriptors
  <2>1. InitTable(17) /\ InitVars(17) /\ blocked["init"]
    BY InitDone DEF InitAt
  <2> QED
    BY <2>1 DEF InitTable, InitVars
<1> QED
  BY <1>1, LaunchInvariant, PTL DEF InitInv

\* What busybox and memrun start has the console, nothing else of init's, and
\* no signal blocked.
THEOREM ProgramsAreClean == Spec => []ProgramEnvironment
<1>1. LaunchInv => ProgramEnvironment
  BY DEF LaunchInv
<1> QED
  BY <1>1, LaunchInvariant, PTL DEF InitInv

\* A child whose execveat has returned cannot enter init's ring.
THEOREM StrayLeavesRing == Spec => []StrayHasNoRing
<1>1. LaunchInv => StrayHasNoRing
  BY DEF LaunchInv
<1> QED
  BY <1>1, LaunchInvariant, PTL DEF InitInv

\* cat and ls print in order and nothing twice, however the kernel portions a
\* file or a directory, for any size of the buffer and of the entries.
THEOREM PrintsInOrder == Spec => []InOrder
<1>1. FileInv => InOrder
  BY FileInvImplies
<1> QED
  BY <1>1, LaunchInvariant, PTL DEF InitInv

\* Without an error they print everything.
THEOREM PrintsEverything == Spec => []PrintsAll
<1>1. FileInv => PrintsAll
  BY FileInvImplies
<1> QED
  BY <1>1, LaunchInvariant, PTL DEF InitInv

\* The safety part of ImplementsChild: one process at a time, which becomes the
\* program or ends, and is waited for until it has ended.
THEOREM LaunchesOneChild == Spec => Life!Spec
<1>1. Init => Life!Init
  BY DEF Init, Life!Init
<1> QED
  BY <1>1, LaunchInvariant, LifeStep, PTL DEF InitInv, Spec, Life!Spec

\* What Returns rests on besides scheduling: whatever the kernel gives out,
\* and with errors of open, getdents64, read and write, no step of ls or cat
\* leaves them as far from their end as they were.
THEOREM CommandsAdvance == Spec => [][Advances]_file_vars
<1>1. ASSUME FileInv, [Next]_vars
      PROVE  [Advances]_file_vars
  <2>1. CASE Serving /\ CommandGiven
    BY <2>1 DEF CommandGiven, Advances
  <2>2. CASE FileStep
    <3>1. Open(TRUE) \/ Open(FALSE) \/ Loop
      BY <2>2 DEF FileStep, OpensAndKeeps
    <3> QED
      BY <1>1, <3>1, CommandAdvances DEF Advances
  <2>3. CASE UNCHANGED file_vars
    BY <2>3
  <2> QED
    BY <1>1, <2>1, <2>2, <2>3 DEF Next, vars
<1> QED
  BY <1>1, LaunchInvariant, PTL DEF InitInv, Spec
=============================================================================
