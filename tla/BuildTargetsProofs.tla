------------------------- MODULE BuildTargetsProofs -------------------------
(***************************************************************************)
(* Proofs about the build script, for any set of source files and any      *)
(* sequence of invocations: no target leads back to itself, the init       *)
(* program is up to date, and the kernel and the menu start from the saved *)
(* configuration.                                                          *)
(***************************************************************************)
EXTENDS BuildTargets, LeastNumber, FiniteSetTheorems

Frames == [target : Targets, at : Nat]

-----------------------------------------------------------------------------
(* The targets and their steps.                                            *)

\* The targets, one by one.
LEMMA TargetNames ==
  Targets = {"use_saved_config", "signing_key", "generate_initramfs", "bare_kernel",
             "kernel_headers", "kernel", "clean", "save_config", "configure",
             "hello_world", "lib_util", "lib_init", "init"}
  BY DEF Targets, availableTargets

\* There are finitely many files.
LEMMA FiniteFiles ==
  ASSUME BuildAssumption
  PROVE  IsFiniteSet(UtilFiles) /\ IsFiniteSet(InitFiles) /\ IsFiniteSet(HelloFiles)
  BY DEF BuildAssumption

\* The steps w are runs of gcc for the files S, one at least for each of them.
Compiles(w, S) ==
  /\ w \in Seq({<<"gcc_c", x>> : x \in S}) /\ Len(w) \in Nat
  /\ \A n \in 1 .. Len(w) : \E x \in S : w[n] = <<"gcc_c", x>>
  /\ \A x \in S : \E n \in 1 .. Len(w) : w[n] = <<"gcc_c", x>>

\* The files of a directory are compiled one after the other, and all of them.
LEMMA EveryFile ==
  ASSUME NEW S, IsFiniteSet(S)
  PROVE  Compiles(gcc_c_all(S), S)
<1> SUFFICES ASSUME NEW w, w = gcc_c_all(S)
             PROVE  Compiles(w, S)
  OBVIOUS
<1> DEFINE k == Cardinality(S)
<1>1. k \in Nat /\ ExistsBijection(1 .. k, S)
  BY FS_CardinalityType
<1>2. PICK g : g \in [1 .. k -> S] /\ IsInjective(g)
  BY <1>1 DEF ExistsBijection, Bijection, Injection
<1>3. PICK q : q = SetToSeq(S)
  OBVIOUS
<1>4. q \in [1 .. k -> S] /\ IsInjective(q)
  BY <1>2, <1>3 DEF SetToSeq
<1>5. q \in Injection(1 .. k, S)
  BY <1>4 DEF Injection
<1>6. Cardinality(1 .. k) = k
  BY <1>1, FS_Interval
<1>7. q \in Surjection(1 .. k, S)
  BY <1>5, <1>6, FS_Injection
<1>8. \A x \in S : \E n \in 1 .. k : q[n] = x
  BY <1>7 DEF Surjection
<1>9. w = [n \in 1 .. k |-> <<"gcc_c", q[n]>>]
  BY <1>3 DEF gcc_c_all
<1> HIDE DEF k
<1>10. w \in Seq({<<"gcc_c", x>> : x \in S}) /\ Len(w) = k
  BY <1>1, <1>4, <1>9
<1>11. \A n \in 1 .. k : \E x \in S : w[n] = <<"gcc_c", x>>
  BY <1>4, <1>9
<1>12. \A x \in S : \E n \in 1 .. k : w[n] = <<"gcc_c", x>>
  BY <1>8, <1>9
<1> QED
  BY <1>1, <1>10, <1>11, <1>12 DEF Compiles

\* A number for each target, larger than those of the targets it calls.
Rank == [t \in Targets |->
          IF t \in {"bare_kernel", "configure", "init"} THEN 1
          ELSE IF t = "kernel_headers" THEN 2 ELSE IF t = "kernel" THEN 3 ELSE 0]

\* The facts about the steps that the properties depend on.
Fits(t, n, s) ==
  /\ \A u \in Targets : s = Call(u) => Rank[u] < Rank[t] /\ u # "kernel" /\ u # "configure"
  /\ s = Do("copy_saved") <=> t = "use_saved_config" /\ n = 1
  /\ s = Do("config_modify") <=> t = "kernel" /\ n = 5
  /\ s = Do("bzImage") <=> t = "kernel" /\ n = 6
  /\ s = Do("menuconfig") <=> t = "configure" /\ n = 2
  /\ s = Do("link_init") <=> t = "init" /\ n = 3
  /\ s = Do("copy_installed") => t = "save_config"
  /\ \A x : s = <<"gcc_c", x>> =>
       \/ t = "lib_util" /\ x \in UtilFiles
       \/ t = "lib_init" /\ x \in InitFiles
       \/ t = "hello_world" /\ x \in HelloFiles
  /\ t = "kernel" /\ n = 4 => s = Call("use_saved_config")
  /\ t = "configure" /\ n = 1 => s = Call("use_saved_config")
  /\ t = "init" /\ n = 1 => s = Call("lib_util")
  /\ t = "init" /\ n = 2 => s = Call("lib_init")

\* They hold of every target.
LEMMA StepFacts ==
  ASSUME BuildAssumption, NEW t \in Targets
  PROVE  /\ Len(availableTargets[t]) \in Nat
         /\ \A n \in Steps(t) : Fits(t, n, availableTargets[t][n])
<1> USE DEF Fits, Do, Call, Steps
<1>1. CASE t = "use_saved_config"
  BY <1>1, TargetNames DEF availableTargets, use_saved_config, Rank
<1>2. CASE t = "signing_key"
  BY <1>2, TargetNames DEF availableTargets, signing_key, dirs, Rank
<1>3. CASE t = "generate_initramfs"
  BY <1>3, TargetNames DEF availableTargets, generate_initramfs, Rank
<1>4. CASE t = "bare_kernel"
  BY <1>4, TargetNames DEF availableTargets, bare_kernel, Rank
<1>5. CASE t = "kernel_headers"
  BY <1>5, TargetNames DEF availableTargets, kernel_headers, dirs, Rank
<1>6. CASE t = "kernel"
  BY <1>6, TargetNames DEF availableTargets, kernel, Rank
<1>7. CASE t = "clean"
  BY <1>7, TargetNames DEF availableTargets, clean, Rank
<1>8. CASE t = "save_config"
  BY <1>8, TargetNames DEF availableTargets, save_config, Rank
<1>9. CASE t = "configure"
  BY <1>9, TargetNames DEF availableTargets, configure, Rank
<1>10. CASE t = "init"
  BY <1>10, TargetNames DEF availableTargets, init, Rank
<1>11. CASE t = "lib_util"
  <2>1. availableTargets[t] = gcc_c_all(UtilFiles)
    BY <1>11 DEF availableTargets, lib_util
  <2>2. /\ Len(availableTargets[t]) \in Nat
        /\ \A n \in Steps(t) : \E x \in UtilFiles : availableTargets[t][n] = <<"gcc_c", x>>
    <3>1. Compiles(gcc_c_all(UtilFiles), UtilFiles)
      BY FiniteFiles, EveryFile
    <3> QED
      BY <2>1, <3>1 DEF Compiles
  <2> QED
    BY <1>11, <2>2
<1>12. CASE t = "lib_init"
  <2>1. availableTargets[t] = gcc_c_all(InitFiles)
    BY <1>12 DEF availableTargets, lib_init
  <2>2. /\ Len(availableTargets[t]) \in Nat
        /\ \A n \in Steps(t) : \E x \in InitFiles : availableTargets[t][n] = <<"gcc_c", x>>
    <3>1. Compiles(gcc_c_all(InitFiles), InitFiles)
      BY FiniteFiles, EveryFile
    <3> QED
      BY <2>1, <3>1 DEF Compiles
  <2> QED
    BY <1>12, <2>2
<1>13. CASE t = "hello_world"
  <2>1. availableTargets[t] = Append(gcc_c_all(HelloFiles), Do("link_hello"))
    BY <1>13 DEF availableTargets, hello_world
  <2>2. PICK q : q = gcc_c_all(HelloFiles)
    OBVIOUS
  <2>3. /\ Len(q) \in Nat /\ q \in Seq({<<"gcc_c", x>> : x \in HelloFiles})
        /\ \A n \in 1 .. Len(q) : \E x \in HelloFiles : q[n] = <<"gcc_c", x>>
    <3>1. Compiles(gcc_c_all(HelloFiles), HelloFiles)
      BY FiniteFiles, EveryFile
    <3> QED
      BY <2>2, <3>1 DEF Compiles
  <2>4. Len(Append(q, Do("link_hello"))) = Len(q) + 1
    BY <2>3
  <2>5. \A n \in 1 .. (Len(q) + 1) : Append(q, Do("link_hello"))[n] = IF n = Len(q) + 1 THEN Do("link_hello") ELSE q[n]
    BY <2>3
  <2>6. /\ Len(availableTargets[t]) \in Nat
        /\ \A n \in Steps(t) : \/ availableTargets[t][n] = Do("link_hello")
                              \/ \E x \in HelloFiles : availableTargets[t][n] = <<"gcc_c", x>>
    BY <2>1, <2>2, <2>3, <2>4, <2>5
  <2> QED
    BY <1>13, <2>6
<1> QED
  BY TargetNames, <1>1, <1>2, <1>3, <1>4, <1>5, <1>6, <1>7, <1>8, <1>9, <1>10, <1>11, <1>12, <1>13

\* The library targets have looked at all their files when they return.
LEMMA AllFilesDone ==
  ASSUME BuildAssumption
  PROVE  /\ \A x \in UtilFiles : \E n \in Steps("lib_util") :
               availableTargets["lib_util"][n] = <<"gcc_c", x>>
         /\ \A x \in InitFiles : \E n \in Steps("lib_init") :
               availableTargets["lib_init"][n] = <<"gcc_c", x>>
<1>1. Compiles(gcc_c_all(UtilFiles), UtilFiles) /\ Compiles(gcc_c_all(InitFiles), InitFiles)
  BY FiniteFiles, EveryFile
<1>2. /\ availableTargets["lib_util"] = gcc_c_all(UtilFiles)
      /\ availableTargets["lib_init"] = gcc_c_all(InitFiles)
  BY DEF availableTargets, lib_util, lib_init
<1> QED
  BY <1>1, <1>2 DEF Steps, Compiles

\* How many steps the targets have whose last one matters.
LEMMA Lengths ==
  /\ Len(availableTargets["use_saved_config"]) = 1
  /\ Len(availableTargets["init"]) = 3
  /\ Len(availableTargets["kernel"]) = 6
  BY DEF availableTargets, use_saved_config, init, kernel

-----------------------------------------------------------------------------
(* What happens to the stack.                                              *)

\* s2 is the stack st when its innermost target has made a step.
OneStep(st, s2) ==
  /\ s2 \in Seq(Frames) /\ Len(s2) = Len(st) /\ Len(st) \in Nat /\ Len(st) >= 1
  /\ s2[1].target = st[1].target /\ s2[1].at = st[1].at + 1
  /\ st[1].target \in Targets /\ st[1].at \in Nat
  /\ \A k \in 2 .. Len(st) : s2[k] = st[k]

\* The innermost target makes a step.
LEMMA StackSteps ==
  ASSUME NEW st \in Seq(Frames), st # <<>>, NEW s2, s2 = [st EXCEPT ![1].at = @ + 1]
  PROVE  OneStep(st, s2)
<1>1. Len(st) \in Nat /\ Len(st) >= 1 /\ 1 \in 1 .. Len(st) /\ st[1] \in Frames
  OBVIOUS
<1>2. st[1].target \in Targets /\ st[1].at \in Nat
  BY <1>1 DEF Frames
<1>3. PICK g : g = [st[1] EXCEPT !.at = @ + 1]
  OBVIOUS
<1>4. g \in Frames /\ g.target = st[1].target /\ g.at = st[1].at + 1
  BY <1>1, <1>2, <1>3 DEF Frames
<1>5. s2 = [st EXCEPT ![1] = g]
  BY <1>1, <1>3
<1> QED
  BY <1>1, <1>2, <1>4, <1>5 DEF OneStep

\* s2 is the stack st when target u has been entered.
Entered(u, st, s2) ==
  /\ s2 \in Seq(Frames) /\ Len(s2) = Len(st) + 1 /\ Len(st) \in Nat
  /\ s2[1].target = u /\ s2[1].at = 1
  /\ \A k \in 2 .. Len(s2) : s2[k] = st[k - 1] /\ k - 1 \in 1 .. Len(st)

\* A target is entered.
LEMMA StackPush ==
  ASSUME NEW st \in Seq(Frames), NEW u \in Targets, NEW s2, s2 = <<[target |-> u, at |-> 1]>> \o st
  PROVE  Entered(u, st, s2)
<1>1. PICK g : g = [target |-> u, at |-> 1]
  OBVIOUS
<1>2. g \in Frames /\ g.target = u /\ g.at = 1
  BY <1>1 DEF Frames
<1>3. /\ s2 \in Seq(Frames) /\ Len(s2) = Len(st) + 1 /\ s2[1] = g /\ Len(st) \in Nat
      /\ \A k \in 2 .. Len(s2) : s2[k] = st[k - 1] /\ k - 1 \in 1 .. Len(st)
  BY <1>1, <1>2
<1> QED
  BY <1>2, <1>3 DEF Entered

\* s2 is the stack st when its innermost target has returned.
Returned(st, s2) ==
  /\ s2 \in Seq(Frames) /\ Len(s2) = Len(st) - 1 /\ Len(st) \in Nat /\ Len(st) >= 1
  /\ \A k \in 1 .. Len(s2) : s2[k] = st[k + 1] /\ k + 1 \in 2 .. Len(st)

\* A target returns.
LEMMA StackPop ==
  ASSUME NEW st \in Seq(Frames), st # <<>>, NEW s2, s2 = Tail(st)
  PROVE  Returned(st, s2)
  BY DEF Returned

-----------------------------------------------------------------------------
(* The calls in progress, as StackInv has them.                            *)

\* What StackInv says of a stack and a set of called targets.
Waiting(st, cd) ==
  /\ \A i \in 1 .. Len(st) :
        st[i].at \in 1 .. (Len(availableTargets[st[i].target]) + 1) /\ st[i].target \notin cd
  /\ \A i \in 2 .. Len(st) :
        st[i].at > 1 /\ availableTargets[st[i].target][st[i].at - 1] = Call(st[i - 1].target)
  /\ \A i \in 1 .. Len(st), t \in Targets : \A n \in 1 .. (st[i].at - 1) :
        availableTargets[st[i].target][n] = Call(t) => t \in cd \/ (i > 1 /\ n = st[i].at - 1)

\* A frame is at a step of its target, or behind the last one, and its target
\* has not returned yet.
LEMMA Frame ==
  ASSUME NEW st \in Seq(Frames), NEW cd, Waiting(st, cd), NEW i \in 1 .. Len(st)
  PROVE  /\ st[i].target \in Targets /\ st[i].at \in Nat
         /\ st[i].at \in 1 .. (Len(availableTargets[st[i].target]) + 1)
         /\ st[i].target \notin cd
<1>1. st[i] \in Frames
  OBVIOUS
<1> QED
  BY <1>1 DEF Waiting, Frames

\* A target has called the one above it.
LEMMA Caller ==
  ASSUME NEW st, NEW cd, Waiting(st, cd), NEW i \in 2 .. Len(st)
  PROVE  st[i].at > 1 /\ availableTargets[st[i].target][st[i].at - 1] = Call(st[i - 1].target)
  BY DEF Waiting

\* What a target called before has returned.
LEMMA Before ==
  ASSUME NEW st, NEW cd, Waiting(st, cd), NEW i \in 1 .. Len(st), NEW t \in Targets,
         NEW n \in 1 .. (st[i].at - 1), availableTargets[st[i].target][n] = Call(t)
  PROVE  t \in cd \/ (i > 1 /\ n = st[i].at - 1)
  BY DEF Waiting

\* A target that waits has made a call, of a target of smaller rank.
LEMMA Callers ==
  ASSUME BuildAssumption, NEW st \in Seq(Frames), NEW cd, Waiting(st, cd), NEW i \in 2 .. Len(st)
  PROVE  /\ i - 1 \in 1 .. Len(st) /\ i \in 1 .. Len(st)
         /\ st[i].target \in Targets /\ st[i - 1].target \in Targets
         /\ st[i].at - 1 \in Steps(st[i].target)
         /\ availableTargets[st[i].target][st[i].at - 1] = Call(st[i - 1].target)
         /\ Rank[st[i - 1].target] < Rank[st[i].target]
         /\ st[i - 1].target # "kernel" /\ st[i - 1].target # "configure"
<1>1. Len(st) \in Nat /\ i - 1 \in 1 .. Len(st) /\ i \in 1 .. Len(st)
  OBVIOUS
<1>2. st[i] \in Frames /\ st[i - 1] \in Frames
  BY <1>1
<1>3. st[i].target \in Targets /\ st[i].at \in Nat /\ st[i - 1].target \in Targets
  BY <1>2 DEF Frames
<1>4. PICK a, t, u : a = st[i].at /\ t = st[i].target /\ u = st[i - 1].target
  OBVIOUS
<1>5. a \in Nat /\ t \in Targets /\ u \in Targets
  BY <1>3, <1>4
<1>6. a \in 1 .. (Len(availableTargets[t]) + 1) /\ a > 1 /\ availableTargets[t][a - 1] = Call(u)
  BY <1>1, <1>4 DEF Waiting
<1>7. Len(availableTargets[t]) \in Nat /\ \A n \in Steps(t) : Fits(t, n, availableTargets[t][n])
  BY <1>5, StepFacts
<1>8. a - 1 \in Steps(t)
  BY <1>5, <1>6, <1>7 DEF Steps
<1>9. Fits(t, a - 1, Call(u))
  BY <1>6, <1>7, <1>8
<1>10. Rank[u] < Rank[t] /\ u # "kernel" /\ u # "configure"
  BY <1>5, <1>9 DEF Fits
<1> QED
  BY <1>1, <1>4, <1>5, <1>6, <1>8, <1>10

\* Ranks are numbers.
LEMMA RankType ==
  ASSUME NEW t \in Targets
  PROVE  Rank[t] \in Int
  BY DEF Rank

\* No target is in progress twice.
LEMMA Distinct ==
  ASSUME BuildAssumption, NEW st \in Seq(Frames), NEW cd, Waiting(st, cd),
         NEW i \in 1 .. Len(st), NEW j \in 1 .. Len(st), st[i].target = st[j].target
  PROVE  i = j
<1>1. Len(st) \in Nat /\ Len(st) - 1 \in Nat
  OBVIOUS
<1>2. PICK k : k = Len(st) - 1
  OBVIOUS
<1>3. \A m \in 0 .. k : m + 1 \in 1 .. Len(st) /\ st[m + 1] \in Frames
  BY <1>1, <1>2
<1>4. \A m \in 0 .. k : st[m + 1].target \in Targets
  BY <1>3 DEF Frames
<1>5. PICK f : f = [m \in 0 .. k |-> Rank[st[m + 1].target]]
  OBVIOUS
<1>6. f \in [0 .. k -> Int]
  BY <1>4, <1>5, RankType
<1>7. ASSUME NEW m \in 1 .. k
      PROVE  f[m - 1] < f[m]
  <2>1. m + 1 \in 2 .. Len(st) /\ m - 1 \in 0 .. k /\ m \in 0 .. k /\ (m + 1) - 1 = m /\ (m - 1) + 1 = m
    BY <1>1, <1>2
  <2>2. Rank[st[(m + 1) - 1].target] < Rank[st[m + 1].target]
    BY <2>1, Callers
  <2>3. f[m - 1] = Rank[st[m].target] /\ f[m] = Rank[st[m + 1].target]
    BY <1>5, <2>1
  <2> QED
    BY <2>1, <2>2, <2>3
<1>8. \A a, b \in 0 .. k : a < b => f[a] < f[b]
  BY <1>1, <1>2, <1>6, <1>7, Rising
<1>9. i - 1 \in 0 .. k /\ j - 1 \in 0 .. k /\ (i - 1) + 1 = i /\ (j - 1) + 1 = j
  BY <1>1, <1>2
<1>10. f[i - 1] = f[j - 1] /\ f[i - 1] \in Int /\ f[j - 1] \in Int
  BY <1>5, <1>6, <1>9
<1>11. ~(i - 1 < j - 1) /\ ~(j - 1 < i - 1)
  BY <1>8, <1>9, <1>10
<1> QED
  BY <1>11

\* kernel and configure are only started by main; and a target whose last step
\* was not a call is the innermost one.
LEMMA Positions ==
  ASSUME BuildAssumption, NEW st \in Seq(Frames), NEW cd, Waiting(st, cd), NEW i \in 1 .. Len(st)
  PROVE  /\ st[i].target \in {"kernel", "configure"} => i = Len(st)
         /\ (\A u : availableTargets[st[i].target][st[i].at - 1] # Call(u)) => i = 1
<1>1. ASSUME i # Len(st)
      PROVE  st[i].target \notin {"kernel", "configure"}
  <2>1. i + 1 \in 2 .. Len(st) /\ (i + 1) - 1 = i
    BY <1>1
  <2>2. st[(i + 1) - 1].target # "kernel" /\ st[(i + 1) - 1].target # "configure"
    BY <2>1, Callers
  <2> QED
    BY <2>1, <2>2
<1>2. ASSUME i # 1
      PROVE  \E u : availableTargets[st[i].target][st[i].at - 1] = Call(u)
  <2>1. i \in 2 .. Len(st)
    BY <1>2
  <2> QED
    BY <2>1, Callers
<1> QED
  BY <1>1, <1>2

\* Nobody waits in an empty stack.
LEMMA WaitingNone ==
  ASSUME NEW cd
  PROVE  Waiting(<<>>, cd)
  BY DEF Waiting

\* The innermost target makes a step that is no call, or a call of a target
\* that has run.
LEMMA WaitingSteps ==
  ASSUME BuildAssumption, NEW st \in Seq(Frames), NEW cd, Waiting(st, cd), st # <<>>,
         st[1].at \in Steps(st[1].target),
         \A t \in Targets : availableTargets[st[1].target][st[1].at] = Call(t) => t \in cd,
         NEW s2, OneStep(st, s2)
  PROVE  Waiting(s2, cd)
<1>1. /\ s2 \in Seq(Frames) /\ Len(s2) = Len(st) /\ Len(st) \in Nat /\ Len(st) >= 1
      /\ s2[1].target = st[1].target /\ s2[1].at = st[1].at + 1
      /\ st[1].target \in Targets /\ st[1].at \in Nat
      /\ \A k \in 2 .. Len(st) : s2[k] = st[k]
  BY DEF OneStep
<1>2. Len(availableTargets[st[1].target]) \in Nat
  BY <1>1, StepFacts
<1>3. st[1].at \in 1 .. (Len(availableTargets[st[1].target]) + 1) /\ st[1].target \notin cd
  BY <1>1, Frame
<1>4. ASSUME NEW i \in 1 .. Len(s2)
      PROVE  s2[i].at \in 1 .. (Len(availableTargets[s2[i].target]) + 1) /\ s2[i].target \notin cd
  <2>1. CASE i = 1
    BY <2>1, <1>1, <1>2, <1>3 DEF Steps
  <2>2. CASE i # 1
    BY <2>2, <1>1 DEF Waiting
  <2> QED
    BY <2>1, <2>2
<1>5. ASSUME NEW i \in 2 .. Len(s2)
      PROVE  s2[i].at > 1 /\ availableTargets[s2[i].target][s2[i].at - 1] = Call(s2[i - 1].target)
  <2>1. s2[i] = st[i] /\ s2[i - 1].target = st[i - 1].target
    BY <1>1
  <2>2. st[i].at > 1 /\ availableTargets[st[i].target][st[i].at - 1] = Call(st[i - 1].target)
    BY <1>1 DEF Waiting
  <2> QED
    BY <2>1, <2>2
<1>6. ASSUME NEW i \in 1 .. Len(s2), NEW t \in Targets, NEW n \in 1 .. (s2[i].at - 1),
             availableTargets[s2[i].target][n] = Call(t)
      PROVE  t \in cd \/ (i > 1 /\ n = s2[i].at - 1)
  <2>1. CASE i = 1 /\ n = st[1].at
    BY <2>1, <1>1, <1>6
  <2>2. CASE i = 1 /\ n # st[1].at
    <3>1. n \in 1 .. (st[1].at - 1) /\ availableTargets[st[1].target][n] = Call(t) /\ 1 \in 1 .. Len(st)
      BY <2>2, <1>1, <1>6
    <3> QED
      BY <3>1, Before
  <2>3. CASE i # 1
    <3>1. s2[i] = st[i] /\ i \in 1 .. Len(st)
      BY <2>3, <1>1
    <3> QED
      <4>1. n \in 1 .. (st[i].at - 1) /\ availableTargets[st[i].target][n] = Call(t)
        BY <3>1, <1>6
      <4>2. t \in cd \/ (i > 1 /\ n = st[i].at - 1)
        BY <3>1, <4>1, Before
      <4> QED
        BY <3>1, <4>2
  <2> QED
    BY <2>1, <2>2, <2>3
<1> QED
  BY <1>4, <1>5, <1>6 DEF Waiting

\* The innermost target calls one that has not run.
LEMMA WaitingCalls ==
  ASSUME BuildAssumption, NEW st \in Seq(Frames), NEW cd, Waiting(st, cd), st # <<>>,
         st[1].at \in Steps(st[1].target), NEW u \in Targets, u \notin cd,
         availableTargets[st[1].target][st[1].at] = Call(u),
         NEW s1, OneStep(st, s1), NEW s2, Entered(u, s1, s2)
  PROVE  Waiting(s2, cd)
<1>1. /\ s1 \in Seq(Frames) /\ Len(s1) = Len(st) /\ Len(st) \in Nat /\ Len(st) >= 1
      /\ s1[1].target = st[1].target /\ s1[1].at = st[1].at + 1
      /\ st[1].target \in Targets /\ st[1].at \in Nat
      /\ \A k \in 2 .. Len(st) : s1[k] = st[k]
  BY DEF OneStep
<1>2. 1 \in 1 .. Len(st)
  BY <1>1
<1>3. /\ s2 \in Seq(Frames) /\ Len(s2) = Len(s1) + 1 /\ s2[1].target = u /\ s2[1].at = 1
      /\ \A k \in 2 .. Len(s2) : s2[k] = s1[k - 1] /\ k - 1 \in 1 .. Len(s1)
  BY DEF Entered
<1>5. Len(availableTargets[st[1].target]) \in Nat /\ Len(availableTargets[u]) \in Nat
  BY <1>1, StepFacts
<1>6. st[1].at \in 1 .. (Len(availableTargets[st[1].target]) + 1) /\ st[1].target \notin cd
  BY <1>2, Frame
<1>7. Call(u) = Call(u) /\ \A t \in Targets : Call(t) = Call(u) => t = u
  BY DEF Call
<1>8. ASSUME NEW i \in 1 .. Len(s2)
      PROVE  s2[i].at \in 1 .. (Len(availableTargets[s2[i].target]) + 1) /\ s2[i].target \notin cd
  <2>1. CASE i = 1
    BY <2>1, <1>3, <1>5
  <2>2. CASE i = 2
    <3>1. s2[i] = s1[1]
      BY <2>2, <1>1, <1>3
    <3>2. s2[i].target = st[1].target /\ s2[i].at = st[1].at + 1
      BY <3>1, <1>1
    <3>3. st[1].at + 1 \in 1 .. (Len(availableTargets[st[1].target]) + 1)
      BY <1>1, <1>5, <1>6 DEF Steps
    <3> QED
      BY <3>2, <3>3, <1>6
  <2>3. CASE i > 2
    <3>0. i - 1 \in 2 .. Len(st) /\ i \in 2 .. Len(s2)
      BY <2>3, <1>1, <1>3
    <3>1. i - 1 \in 2 .. Len(st) /\ i - 1 \in 1 .. Len(st) /\ s2[i] = st[i - 1]
      BY <3>0, <1>1, <1>3
    <3>2. st[i - 1].at \in 1 .. (Len(availableTargets[st[i - 1].target]) + 1) /\ st[i - 1].target \notin cd
      BY <3>1, <1>1, Frame
    <3> QED
      BY <3>1, <3>2
  <2> QED
    BY <2>1, <2>2, <2>3, <1>3
<1>9. ASSUME NEW i \in 2 .. Len(s2)
      PROVE  s2[i].at > 1 /\ availableTargets[s2[i].target][s2[i].at - 1] = Call(s2[i - 1].target)
  <2>1. CASE i = 2
    <3>1. s2[i] = s1[1] /\ s2[i - 1].target = u /\ s2[i - 1].at = 1
      BY <2>1, <1>1, <1>3
    <3>2. s2[i].target = st[1].target /\ s2[i].at = st[1].at + 1 /\ s2[i - 1].target = u
      BY <3>1, <1>1, <1>3
    <3>3. s2[i].at - 1 = st[1].at /\ s2[i].at > 1
      BY <3>2, <1>1, <1>6
    <3> QED
      BY <3>2, <3>3
  <2>2. CASE i > 2
    <3>1. /\ i - 1 \in 2 .. Len(st) /\ i - 1 \in 2 .. Len(s2) /\ (i - 1) - 1 = i - 2
          /\ i - 2 \in 1 .. Len(st) /\ i - 2 >= 1
      BY <2>2, <1>1, <1>3
    <3>2. s2[i] = st[i - 1]
      BY <3>1, <1>1, <1>3
    <3>3. s2[i - 1] = s1[i - 2]
      BY <3>1, <1>3
    <3>4. s1[i - 2].target = st[i - 2].target
      BY <3>1, <1>1
    <3>5. st[i - 1].at > 1 /\ availableTargets[st[i - 1].target][st[i - 1].at - 1] = Call(st[(i - 1) - 1].target)
      BY <3>1, Caller
    <3> QED
      BY <3>1, <3>2, <3>3, <3>4, <3>5
  <2> QED
    BY <2>1, <2>2
<1>10. ASSUME NEW i \in 1 .. Len(s2), NEW t \in Targets, NEW n \in 1 .. (s2[i].at - 1),
              availableTargets[s2[i].target][n] = Call(t)
       PROVE  t \in cd \/ (i > 1 /\ n = s2[i].at - 1)
  <2>1. CASE i = 1
    BY <2>1, <1>3
  <2>2. CASE i = 2
    <3>1. s2[i] = s1[1]
      BY <2>2, <1>1, <1>3
    <3>2. n = st[1].at \/ n \in 1 .. (st[1].at - 1)
      BY <3>1, <1>1
    <3>3. CASE n = st[1].at
      BY <2>2, <3>1, <3>3, <1>1
    <3>4. CASE n \in 1 .. (st[1].at - 1)
      <4>1. availableTargets[st[1].target][n] = Call(t)
        BY <1>1, <1>10, <3>1
      <4> QED
        BY <1>2, <3>4, <4>1, Before
    <3> QED
      BY <3>2, <3>3, <3>4
  <2>3. CASE i > 2
    <3>1. i - 1 \in 1 .. Len(st) /\ i - 1 > 1 /\ s2[i] = st[i - 1]
      <4>1. i - 1 \in 2 .. Len(st) /\ i \in 2 .. Len(s2)
        BY <2>3, <1>1, <1>3
      <4>2. s2[i] = s1[i - 1]
        BY <4>1, <1>3
      <4>3. s1[i - 1] = st[i - 1]
        BY <4>1, <1>1
      <4>4. i - 1 \in 1 .. Len(st) /\ i - 1 > 1
        BY <4>1, <1>1
      <4> QED
        BY <4>2, <4>3, <4>4
    <3>2. n \in 1 .. (st[i - 1].at - 1) /\ availableTargets[st[i - 1].target][n] = Call(t)
      BY <3>1, <1>10
    <3>3. t \in cd \/ (i - 1 > 1 /\ n = st[i - 1].at - 1)
      BY <3>1, <3>2, Before
    <3> QED
      BY <2>3, <3>1, <3>3
  <2> QED
    BY <2>1, <2>2, <2>3, <1>3
<1> QED
  BY <1>8, <1>9, <1>10 DEF Waiting

\* main enters a target that has not run.
LEMMA WaitingEnters ==
  ASSUME BuildAssumption, NEW cd, NEW u \in Targets, u \notin cd,
         NEW s2, s2 = <<[target |-> u, at |-> 1]>> \o <<>>
  PROVE  Waiting(s2, cd) /\ s2 \in Seq(Frames) /\ Len(s2) = 1 /\ s2[1] = [target |-> u, at |-> 1]
<1>1. PICK g : g = [target |-> u, at |-> 1]
  OBVIOUS
<1>2. g \in Frames /\ g.target = u /\ g.at = 1
  BY <1>1 DEF Frames
<1>3. s2 = <<g>>
  BY <1>1
<1>4. s2 \in Seq(Frames) /\ Len(s2) = 1 /\ s2[1] = g
  BY <1>2, <1>3
<1>5. Len(availableTargets[u]) \in Nat
  BY StepFacts
<1>6. \A i \in 1 .. Len(s2) : s2[i] = g
  BY <1>4
<1>7. \A i \in 1 .. Len(s2) : s2[i].at \in 1 .. (Len(availableTargets[s2[i].target]) + 1) /\ s2[i].target \notin cd
  BY <1>2, <1>5, <1>6
<1> QED
  BY <1>1, <1>2, <1>4, <1>6, <1>7 DEF Waiting

\* The innermost target returns.
LEMMA WaitingReturns ==
  ASSUME BuildAssumption, NEW st \in Seq(Frames), NEW cd, Waiting(st, cd),
         NEW s2, Returned(st, s2), NEW c2, c2 = cd \cup {st[1].target}
  PROVE  Waiting(s2, c2)
<1>1. /\ s2 \in Seq(Frames) /\ Len(s2) = Len(st) - 1 /\ Len(st) \in Nat /\ Len(st) >= 1
      /\ \A k \in 1 .. Len(s2) : s2[k] = st[k + 1] /\ k + 1 \in 2 .. Len(st)
  BY DEF Returned
<1>2. ASSUME NEW i \in 1 .. Len(s2)
      PROVE  s2[i].at \in 1 .. (Len(availableTargets[s2[i].target]) + 1) /\ s2[i].target \notin c2
  <2>1. s2[i] = st[i + 1] /\ i + 1 \in 1 .. Len(st) /\ i + 1 # 1 /\ 1 \in 1 .. Len(st)
    BY <1>1
  <2>2. st[i + 1].target # st[1].target
    BY <2>1, Distinct
  <2>3. st[i + 1].at \in 1 .. (Len(availableTargets[st[i + 1].target]) + 1) /\ st[i + 1].target \notin cd
    BY <2>1 DEF Waiting
  <2> QED
    BY <2>1, <2>2, <2>3
<1>3. ASSUME NEW i \in 2 .. Len(s2)
      PROVE  s2[i].at > 1 /\ availableTargets[s2[i].target][s2[i].at - 1] = Call(s2[i - 1].target)
  <2>1. s2[i] = st[i + 1] /\ i + 1 \in 2 .. Len(st) /\ s2[i - 1] = st[i] /\ (i + 1) - 1 = i
    BY <1>1
  <2>2. st[i + 1].at > 1 /\ availableTargets[st[i + 1].target][st[i + 1].at - 1] = Call(st[(i + 1) - 1].target)
    BY <2>1 DEF Waiting
  <2> QED
    BY <2>1, <2>2
<1>4. ASSUME NEW i \in 1 .. Len(s2), NEW t \in Targets, NEW n \in 1 .. (s2[i].at - 1),
             availableTargets[s2[i].target][n] = Call(t)
      PROVE  t \in c2 \/ (i > 1 /\ n = s2[i].at - 1)
  <2>1. s2[i] = st[i + 1] /\ i + 1 \in 2 .. Len(st) /\ i + 1 \in 1 .. Len(st) /\ (i + 1) - 1 = i
    BY <1>1
  <2>2. t \in cd \/ n = st[i + 1].at - 1
    BY <2>1, <1>4, Before
  <2>3. CASE i = 1 /\ n = st[i + 1].at - 1
    <3>1. availableTargets[st[i + 1].target][st[i + 1].at - 1] = Call(st[(i + 1) - 1].target)
      BY <2>1 DEF Waiting
    <3>2. Call(t) = Call(st[1].target)
      BY <2>1, <2>3, <3>1, <1>4
    <3> QED
      BY <3>2 DEF Call
  <2> QED
    BY <2>1, <2>2, <2>3, <1>1
<1> QED
  BY <1>2, <1>3, <1>4 DEF Waiting

-----------------------------------------------------------------------------
(* What a move of the process makes true of the targets.                   *)

\* Doing, Past and Compiled of BuildTargets, for any stack.
DoingIn(st, t, n) == \E i \in 1 .. Len(st) : st[i].target = t /\ st[i].at = n
PastIn(st, t, n)  == \E i \in 1 .. Len(st) : st[i].target = t /\ st[i].at >= n
MadeIn(st, f) ==
  \E i \in 1 .. Len(st) : \E n \in 1 .. (st[i].at - 1) :
     availableTargets[st[i].target][n] = <<"gcc_c", f>>
CompiledIn(st, cd, f) ==
  \/ f \in UtilFiles /\ "lib_util" \in cd
  \/ f \in InitFiles /\ "lib_init" \in cd
  \/ MadeIn(st, f)

\* From stack st and called targets cd to s2 and c2, by step s: what the
\* properties speak of becomes true only by its own step.
Progress(st, cd, s2, c2, s) ==
  /\ cd \subseteq c2
  /\ \A f : CompiledIn(s2, c2, f) => CompiledIn(st, cd, f) \/ s = <<"gcc_c", f>>
  /\ "init" \in c2 \/ DoingIn(s2, "init", 4) =>
        "init" \in cd \/ DoingIn(st, "init", 4) \/ s = Do("link_init")
  /\ "use_saved_config" \in c2 => "use_saved_config" \in cd \/ DoingIn(st, "use_saved_config", 2)
  /\ DoingIn(s2, "use_saved_config", 2) =>
        DoingIn(st, "use_saved_config", 2) \/ s = Do("copy_saved")
  /\ "configure" \in cd \/ PastIn(st, "configure", 3) =>
        "configure" \in c2 \/ PastIn(s2, "configure", 3)
  /\ "kernel" \in cd \/ PastIn(st, "kernel", 6) => "kernel" \in c2 \/ PastIn(s2, "kernel", 6)

\* The innermost target is one step further, the others are where they were.
LEMMA StepDoes ==
  ASSUME NEW st \in Seq(Frames), NEW s2, OneStep(st, s2), NEW t, NEW n \in Nat
  PROVE  /\ DoingIn(s2, t, n) => DoingIn(st, t, n) \/ (st[1].target = t /\ st[1].at + 1 = n)
         /\ PastIn(st, t, n) => PastIn(s2, t, n)
<1>1. /\ s2 \in Seq(Frames) /\ Len(s2) = Len(st) /\ Len(st) \in Nat /\ Len(st) >= 1
      /\ s2[1].target = st[1].target /\ s2[1].at = st[1].at + 1
      /\ st[1].target \in Targets /\ st[1].at \in Nat
      /\ \A k \in 2 .. Len(st) : s2[k] = st[k]
  BY DEF OneStep
<1>2. ASSUME NEW i \in 1 .. Len(s2), s2[i].target = t, s2[i].at = n
      PROVE  DoingIn(st, t, n) \/ (st[1].target = t /\ st[1].at + 1 = n)
  <2>1. CASE i = 1
    BY <1>1, <1>2, <2>1
  <2>2. CASE i # 1
    BY <1>1, <1>2, <2>2 DEF DoingIn
  <2> QED
    BY <2>1, <2>2
<1>3. ASSUME NEW i \in 1 .. Len(st), st[i].target = t, st[i].at >= n
      PROVE  PastIn(s2, t, n)
  <2>1. CASE i = 1
    <3>1. s2[1].target = t /\ s2[1].at >= n /\ 1 \in 1 .. Len(s2)
      BY <1>1, <1>3, <2>1
    <3> QED
      BY <3>1 DEF PastIn
  <2>2. CASE i # 1
    <3>1. s2[i] = st[i] /\ i \in 1 .. Len(s2)
      BY <1>1, <2>2
    <3> QED
      BY <1>3, <3>1 DEF PastIn
  <2> QED
    BY <2>1, <2>2
<1>4. DoingIn(s2, t, n) => DoingIn(st, t, n) \/ (st[1].target = t /\ st[1].at + 1 = n)
  <2>1. HAVE DoingIn(s2, t, n)
  <2>2. PICK i \in 1 .. Len(s2) : s2[i].target = t /\ s2[i].at = n
    BY <2>1 DEF DoingIn
  <2> QED
    BY <1>2, <2>2
<1>5. PastIn(st, t, n) => PastIn(s2, t, n)
  <2>1. HAVE PastIn(st, t, n)
  <2>2. PICK i \in 1 .. Len(st) : st[i].target = t /\ st[i].at >= n
    BY <2>1 DEF PastIn
  <2> QED
    BY <1>3, <2>2
<1> QED
  BY <1>4, <1>5

\* A step compiles the file that it is about, and no other.
LEMMA StepCompiles ==
  ASSUME NEW st \in Seq(Frames), NEW s2, OneStep(st, s2), NEW f, MadeIn(s2, f)
  PROVE  MadeIn(st, f) \/ availableTargets[st[1].target][st[1].at] = <<"gcc_c", f>>
<1>1. /\ s2 \in Seq(Frames) /\ Len(s2) = Len(st) /\ Len(st) \in Nat /\ Len(st) >= 1
      /\ s2[1].target = st[1].target /\ s2[1].at = st[1].at + 1
      /\ st[1].target \in Targets /\ st[1].at \in Nat
      /\ \A k \in 2 .. Len(st) : s2[k] = st[k]
  BY DEF OneStep
<1>2. PICK i \in 1 .. Len(s2) : \E n \in 1 .. (s2[i].at - 1) :
        availableTargets[s2[i].target][n] = <<"gcc_c", f>>
  BY DEF MadeIn
<1>3. PICK n \in 1 .. (s2[i].at - 1) : availableTargets[s2[i].target][n] = <<"gcc_c", f>>
  BY <1>2
<1>4. CASE i # 1
  <2>1. s2[i] = st[i] /\ i \in 1 .. Len(st)
    BY <1>1, <1>2, <1>4
  <2> QED
    BY <2>1, <1>3 DEF MadeIn
<1>5. CASE i = 1
  <2>1. n = st[1].at \/ n \in 1 .. (st[1].at - 1)
    BY <1>1, <1>3, <1>5
  <2>2. availableTargets[st[1].target][n] = <<"gcc_c", f>> /\ 1 \in 1 .. Len(st)
    BY <1>1, <1>3, <1>5
  <2> QED
    BY <2>1, <2>2 DEF MadeIn
<1> QED
  BY <1>4, <1>5

\* A target that is entered has made no step.
LEMMA EnterDoes ==
  ASSUME NEW st \in Seq(Frames), NEW u, NEW s2, Entered(u, st, s2), NEW t, NEW n \in Nat
  PROVE  /\ DoingIn(s2, t, n) /\ n > 1 => DoingIn(st, t, n)
         /\ PastIn(st, t, n) => PastIn(s2, t, n)
         /\ \A f : MadeIn(s2, f) => MadeIn(st, f)
<1>1. /\ s2 \in Seq(Frames) /\ Len(s2) = Len(st) + 1 /\ Len(st) \in Nat
      /\ s2[1].target = u /\ s2[1].at = 1
      /\ \A k \in 2 .. Len(s2) : s2[k] = st[k - 1] /\ k - 1 \in 1 .. Len(st)
  BY DEF Entered
<1>2. ASSUME DoingIn(s2, t, n), n > 1
      PROVE  DoingIn(st, t, n)
  <2>1. PICK i \in 1 .. Len(s2) : s2[i].target = t /\ s2[i].at = n
    BY <1>2 DEF DoingIn
  <2>2. i \in 2 .. Len(s2)
    BY <1>1, <1>2, <2>1
  <2>3. i - 1 \in 1 .. Len(st) /\ s2[i] = st[i - 1]
    BY <1>1, <2>2
  <2> QED
    BY <2>1, <2>3 DEF DoingIn
<1>3. ASSUME PastIn(st, t, n)
      PROVE  PastIn(s2, t, n)
  <2>1. PICK i \in 1 .. Len(st) : st[i].target = t /\ st[i].at >= n
    BY <1>3 DEF PastIn
  <2>2. i + 1 \in 2 .. Len(s2) /\ i + 1 \in 1 .. Len(s2) /\ (i + 1) - 1 = i
    BY <1>1, <2>1
  <2>3. s2[i + 1] = st[i]
    BY <1>1, <2>2
  <2> QED
    BY <2>1, <2>2, <2>3 DEF PastIn
<1>4. ASSUME NEW f, MadeIn(s2, f)
      PROVE  MadeIn(st, f)
  <2>1. PICK i \in 1 .. Len(s2) : \E m \in 1 .. (s2[i].at - 1) :
          availableTargets[s2[i].target][m] = <<"gcc_c", f>>
    BY <1>4 DEF MadeIn
  <2>2. i \in 2 .. Len(s2)
    BY <1>1, <2>1
  <2>3. i - 1 \in 1 .. Len(st) /\ s2[i] = st[i - 1]
    BY <1>1, <2>2
  <2> QED
    BY <2>1, <2>3 DEF MadeIn
<1> QED
  BY <1>2, <1>3, <1>4

\* The targets below the innermost one are where they were when it returns.
LEMMA ReturnDoes ==
  ASSUME NEW st \in Seq(Frames), NEW s2, Returned(st, s2), NEW t, NEW n \in Nat
  PROVE  /\ DoingIn(s2, t, n) => DoingIn(st, t, n)
         /\ PastIn(st, t, n) => PastIn(s2, t, n) \/ st[1].target = t
         /\ \A f : MadeIn(s2, f) => MadeIn(st, f)
<1>1. /\ s2 \in Seq(Frames) /\ Len(s2) = Len(st) - 1 /\ Len(st) \in Nat /\ Len(st) >= 1
      /\ \A k \in 1 .. Len(s2) : s2[k] = st[k + 1] /\ k + 1 \in 2 .. Len(st)
  BY DEF Returned
<1>2. \A k \in 1 .. Len(s2) : s2[k] = st[k + 1] /\ k + 1 \in 1 .. Len(st)
  BY <1>1
<1>3. ASSUME DoingIn(s2, t, n)
      PROVE  DoingIn(st, t, n)
  BY <1>2, <1>3 DEF DoingIn
<1>4. ASSUME PastIn(st, t, n), st[1].target # t
      PROVE  PastIn(s2, t, n)
  <2>1. PICK i \in 1 .. Len(st) : st[i].target = t /\ st[i].at >= n
    BY <1>4 DEF PastIn
  <2>2. i - 1 \in 1 .. Len(s2) /\ (i - 1) + 1 = i
    BY <1>1, <1>4, <2>1
  <2>3. s2[i - 1] = st[i]
    BY <1>1, <2>2
  <2> QED
    BY <2>1, <2>2, <2>3 DEF PastIn
<1>5. ASSUME NEW f, MadeIn(s2, f)
      PROVE  MadeIn(st, f)
  BY <1>2, <1>5 DEF MadeIn
<1> QED
  BY <1>3, <1>4, <1>5

\* A step of the innermost target.
LEMMA ProgressSteps ==
  ASSUME BuildAssumption, NEW st \in Seq(Frames), NEW cd,
         st[1].at \in Steps(st[1].target), NEW s2, OneStep(st, s2),
         NEW s, s = availableTargets[st[1].target][st[1].at]
  PROVE  Progress(st, cd, s2, cd, s)
<1>1. st[1].target \in Targets /\ st[1].at \in Nat
  BY DEF OneStep
<1>2. Fits(st[1].target, st[1].at, s)
  BY <1>1, StepFacts
<1>3. ASSUME NEW f, CompiledIn(s2, cd, f)
      PROVE  CompiledIn(st, cd, f) \/ s = <<"gcc_c", f>>
  BY <1>3, StepCompiles DEF CompiledIn
<1>4. DoingIn(s2, "init", 4) => DoingIn(st, "init", 4) \/ s = Do("link_init")
  <2>1. DoingIn(s2, "init", 4) => DoingIn(st, "init", 4) \/ (st[1].target = "init" /\ st[1].at + 1 = 4)
    BY StepDoes
  <2> QED
    BY <1>1, <1>2, <2>1 DEF Fits
<1>5. DoingIn(s2, "use_saved_config", 2) =>
        DoingIn(st, "use_saved_config", 2) \/ s = Do("copy_saved")
  <2>1. DoingIn(s2, "use_saved_config", 2) =>
          DoingIn(st, "use_saved_config", 2) \/ (st[1].target = "use_saved_config" /\ st[1].at + 1 = 2)
    BY StepDoes
  <2> QED
    BY <1>1, <1>2, <2>1 DEF Fits
<1>6. PastIn(st, "configure", 3) => PastIn(s2, "configure", 3)
  BY StepDoes
<1>7. PastIn(st, "kernel", 6) => PastIn(s2, "kernel", 6)
  BY StepDoes
<1> QED
  BY <1>3, <1>4, <1>5, <1>6, <1>7 DEF Progress

\* A target is entered, after a step or by main.
LEMMA ProgressEnters ==
  ASSUME NEW st, NEW cd, NEW s1 \in Seq(Frames), NEW s, Progress(st, cd, s1, cd, s),
         NEW u, NEW s2, Entered(u, s1, s2)
  PROVE  Progress(st, cd, s2, cd, s)
<1>1. ASSUME NEW f, CompiledIn(s2, cd, f)
      PROVE  CompiledIn(s1, cd, f)
  <2>1. MadeIn(s2, f) => MadeIn(s1, f)
    BY EnterDoes
  <2> QED
    BY <1>1, <2>1 DEF CompiledIn
<1>2. DoingIn(s2, "init", 4) => DoingIn(s1, "init", 4)
  BY EnterDoes
<1>3. DoingIn(s2, "use_saved_config", 2) => DoingIn(s1, "use_saved_config", 2)
  BY EnterDoes
<1>4. PastIn(s1, "configure", 3) => PastIn(s2, "configure", 3)
  BY EnterDoes
<1>5. PastIn(s1, "kernel", 6) => PastIn(s2, "kernel", 6)
  BY EnterDoes
<1> QED
  BY <1>1, <1>2, <1>3, <1>4, <1>5 DEF Progress

\* Nothing moves.
LEMMA ProgressStays ==
  ASSUME NEW st, NEW cd, NEW s
  PROVE  Progress(st, cd, st, cd, s)
  BY DEF Progress

\* The innermost target returns.
LEMMA ProgressReturns ==
  ASSUME BuildAssumption, NEW st \in Seq(Frames), NEW cd, Waiting(st, cd),
         st[1].at \notin Steps(st[1].target),
         NEW s2, Returned(st, s2), NEW c2, c2 = cd \cup {st[1].target}, NEW s
  PROVE  Progress(st, cd, s2, c2, s)
<1>1. 1 \in 1 .. Len(st)
  BY DEF Returned
<1>2. /\ st[1].target \in Targets /\ st[1].at \in Nat
      /\ st[1].at \in 1 .. (Len(availableTargets[st[1].target]) + 1)
  BY <1>1, Frame
<1>3. Len(availableTargets[st[1].target]) \in Nat
  BY <1>2, StepFacts
<1>4. st[1].at = Len(availableTargets[st[1].target]) + 1
  BY <1>2, <1>3 DEF Steps
<1>5. ASSUME NEW t \in Targets, NEW f, st[1].target = t,
             \E n \in Steps(t) : availableTargets[t][n] = <<"gcc_c", f>>
      PROVE  MadeIn(st, f)
  <2>1. PICK n \in Steps(t) : availableTargets[t][n] = <<"gcc_c", f>>
    BY <1>5
  <2>2. n \in 1 .. (st[1].at - 1)
    BY <1>3, <1>4, <1>5, <2>1 DEF Steps
  <2> QED
    BY <1>1, <1>5, <2>1, <2>2 DEF MadeIn
<1>6. ASSUME NEW f, CompiledIn(s2, c2, f)
      PROVE  CompiledIn(st, cd, f)
  <2>1. MadeIn(s2, f) => MadeIn(st, f)
    BY ReturnDoes
  <2>2. CASE f \in UtilFiles /\ st[1].target = "lib_util"
    BY <2>2, <1>2, <1>5, AllFilesDone DEF CompiledIn
  <2>3. CASE f \in InitFiles /\ st[1].target = "lib_init"
    BY <2>3, <1>2, <1>5, AllFilesDone DEF CompiledIn
  <2> QED
    BY <1>6, <2>1, <2>2, <2>3 DEF CompiledIn
<1>7. \A t : \A n \in Nat : st[1].target = t /\ st[1].at = n => DoingIn(st, t, n)
  BY <1>1 DEF DoingIn
<1>8. "init" \in c2 \/ DoingIn(s2, "init", 4) => "init" \in cd \/ DoingIn(st, "init", 4)
  <2>1. DoingIn(s2, "init", 4) => DoingIn(st, "init", 4)
    BY ReturnDoes
  <2>2. ASSUME st[1].target = "init"
        PROVE  st[1].at = 4
    <3>1. st[1].at = Len(availableTargets["init"]) + 1
      BY <1>4, <2>2
    <3> QED
      BY <3>1, Lengths
  <2> QED
    BY <2>1, <2>2, <1>7
<1>9. "use_saved_config" \in c2 => "use_saved_config" \in cd \/ DoingIn(st, "use_saved_config", 2)
  <2>1. ASSUME st[1].target = "use_saved_config"
        PROVE  st[1].at = 2
    <3>1. st[1].at = Len(availableTargets["use_saved_config"]) + 1
      BY <1>4, <2>1
    <3> QED
      BY <3>1, Lengths
  <2> QED
    BY <2>1, <1>7
<1>10. /\ DoingIn(s2, "use_saved_config", 2) => DoingIn(st, "use_saved_config", 2)
       /\ PastIn(st, "configure", 3) => PastIn(s2, "configure", 3) \/ st[1].target = "configure"
  BY ReturnDoes
<1>11. PastIn(st, "kernel", 6) => PastIn(s2, "kernel", 6) \/ st[1].target = "kernel"
  BY ReturnDoes
<1> QED
  BY <1>6, <1>8, <1>9, <1>10, <1>11 DEF Progress

-----------------------------------------------------------------------------
(* The process, step by step.                                              *)

\* The three parts of TypeOK.
TypeProcess ==
  /\ running \in BOOLEAN /\ called \subseteq Targets /\ stack \in Seq(Frames)
  /\ start \in [Files \cup {Script} -> Times]
TypeFiles ==
  /\ clock \in Times /\ src \in [Files \cup {Script} -> Times]
  /\ obj \in [Files -> {Absent} \cup [of : Made, mtime : Times]]
  /\ elf = Absent \/ elf \in [of : [ElfFiles -> Made], mtime : Times]
  /\ out \subseteq Outputs
TypeConfigs ==
  /\ saved \in Configs /\ configs \in 0 .. MaxConfig
  /\ installed = Absent \/ installed \in Configs

\* They are all of it.
LEMMA TypeParts == TypeOK <=> TypeProcess /\ TypeFiles /\ TypeConfigs
  BY DEF TypeOK, TypeProcess, TypeFiles, TypeConfigs, Frames

\* StackInv in terms of Waiting.
LEMMA StackParts ==
  StackInv <=> (stack # <<>> => running) /\ (~running => called = {}) /\ Waiting(stack, called)
  BY DEF StackInv, Waiting

\* The process goes on, by step s.
Moves(s) ==
  /\ running /\ running' = running /\ start' = start
  /\ called' \subseteq Targets /\ stack' \in Seq(Frames)
  /\ Waiting(stack', called') /\ Progress(stack, called, stack', called', s)

\* The innermost target makes a step other than a call.
LEMMA RunsMoves ==
  ASSUME BuildAssumption, TypeProcess, StackInv, NEW s, \A u : s # Call(u), Runs(s)
  PROVE  Moves(s)
<1>1. /\ stack # <<>> /\ stack[1].at \in Steps(stack[1].target)
      /\ availableTargets[stack[1].target][stack[1].at] = s
      /\ stack' = [stack EXCEPT ![1].at = @ + 1]
      /\ running' = running /\ called' = called /\ start' = start
  BY DEF Runs, At, Stepped
<1>2. running /\ Waiting(stack, called)
  BY <1>1, StackParts
<1>3. stack \in Seq(Frames) /\ called \subseteq Targets
  BY DEF TypeProcess
<1>4. PICK st, s2, cd : st = stack /\ s2 = stack' /\ cd = called
  OBVIOUS
<1>5. OneStep(st, s2)
  BY <1>1, <1>3, <1>4, StackSteps
<1>6. Waiting(s2, cd)
  BY <1>1, <1>2, <1>3, <1>4, <1>5, WaitingSteps
<1>7. Progress(st, cd, s2, cd, s)
  BY <1>1, <1>3, <1>4, <1>5, ProgressSteps
<1>8. s2 \in Seq(Frames)
  BY <1>5 DEF OneStep
<1> QED
  BY <1>1, <1>2, <1>3, <1>4, <1>6, <1>7, <1>8 DEF Moves

\* It calls another target.
LEMMA CallMoves ==
  ASSUME BuildAssumption, TypeProcess, StackInv, NEW u \in Targets, CallTarget(u)
  PROVE  Moves(Call(u))
<1>1. /\ stack # <<>> /\ stack[1].at \in Steps(stack[1].target)
      /\ availableTargets[stack[1].target][stack[1].at] = Call(u)
      /\ running' = running /\ called' = called /\ start' = start
  BY DEF CallTarget, At
<1>2. running /\ Waiting(stack, called)
  BY <1>1, StackParts
<1>3. stack \in Seq(Frames) /\ called \subseteq Targets
  BY DEF TypeProcess
<1>4. PICK st, s1, s2, cd : st = stack /\ s1 = [stack EXCEPT ![1].at = @ + 1] /\ s2 = stack' /\ cd = called
  OBVIOUS
<1>5. OneStep(st, s1)
  BY <1>1, <1>3, <1>4, StackSteps
<1>6. s1 \in Seq(Frames)
  BY <1>5 DEF OneStep
<1>7. Progress(st, cd, s1, cd, Call(u))
  BY <1>1, <1>3, <1>4, <1>5, ProgressSteps
<1>8. CASE u \in called
  <2>1. s2 = s1
    BY <1>4, <1>8 DEF CallTarget, Enter, Stepped
  <2>2. \A t \in Targets : Call(u) = Call(t) => t \in cd
    BY <1>4, <1>8 DEF Call
  <2>3. Waiting(s1, cd)
    BY <1>1, <1>2, <1>3, <1>4, <1>5, <2>2, WaitingSteps
  <2> QED
    BY <1>1, <1>2, <1>3, <1>4, <1>6, <1>7, <2>1, <2>3 DEF Moves
<1>9. CASE u \notin called
  <2>1. s2 = <<[target |-> u, at |-> 1]>> \o s1
    BY <1>4, <1>9 DEF CallTarget, Enter, Stepped
  <2>2. Entered(u, s1, s2)
    BY <1>6, <2>1, StackPush
  <2>3. Waiting(s2, cd)
    BY <1>1, <1>2, <1>3, <1>4, <1>5, <1>9, <2>2, WaitingCalls
  <2>4. Progress(st, cd, s2, cd, Call(u))
    BY <1>6, <1>7, <2>2, ProgressEnters
  <2>5. s2 \in Seq(Frames)
    BY <2>2 DEF Entered
  <2> QED
    BY <1>1, <1>2, <1>3, <1>4, <2>3, <2>4, <2>5 DEF Moves
<1> QED
  BY <1>8, <1>9

\* It returns.
LEMMA ReturnMoves ==
  ASSUME BuildAssumption, TypeProcess, StackInv, Return
  PROVE  Moves(Do("return"))
<1>1. /\ stack # <<>> /\ stack[1].at \notin Steps(stack[1].target)
      /\ called' = called \cup {stack[1].target} /\ stack' = Tail(stack)
      /\ running' = running /\ start' = start
  BY DEF Return
<1>2. running /\ Waiting(stack, called)
  BY <1>1, StackParts
<1>3. stack \in Seq(Frames) /\ called \subseteq Targets
  BY DEF TypeProcess
<1>4. PICK st, s2, cd, c2 : st = stack /\ s2 = stack' /\ cd = called /\ c2 = called'
  OBVIOUS
<1>5. Returned(st, s2)
  BY <1>1, <1>3, <1>4, StackPop
<1>6. Waiting(s2, c2)
  BY <1>1, <1>2, <1>3, <1>4, <1>5, WaitingReturns
<1>7. Progress(st, cd, s2, c2, Do("return"))
  BY <1>1, <1>2, <1>3, <1>4, <1>5, ProgressReturns
<1>8. s2 \in Seq(Frames) /\ 1 \in 1 .. Len(st)
  BY <1>5 DEF Returned
<1>9. st[1].target \in Targets
  BY <1>2, <1>3, <1>4, <1>8, Frame
<1> QED
  BY <1>1, <1>2, <1>3, <1>4, <1>6, <1>7, <1>8, <1>9 DEF Moves

\* main starts a target, or skips a name.
LEMMA MainMoves ==
  ASSUME BuildAssumption, TypeProcess, StackInv, main, argv # <<>>
  PROVE  Moves(Do("main"))
<1>1. /\ running /\ stack = <<>> /\ running' = running /\ called' = called /\ start' = start
      /\ IF Head(argv) \in Targets THEN Enter(Head(argv), <<>>) ELSE stack' = stack
  BY DEF main
<1>2. stack \in Seq(Frames) /\ called \subseteq Targets
  BY DEF TypeProcess
<1>3. CASE stack' = <<>>
  <2>1. Progress(stack, called, stack, called, Do("main"))
    BY ProgressStays
  <2>2. Waiting(stack', called)
    BY <1>3, WaitingNone
  <2> QED
    BY <1>1, <1>2, <1>3, <2>1, <2>2 DEF Moves
<1>4. CASE stack' # <<>>
  <2>1. PICK u, s1, s2, cd : u = Head(argv) /\ s1 = stack /\ s2 = stack' /\ cd = called
    OBVIOUS
  <2>2. u \in Targets /\ u \notin cd /\ s2 = <<[target |-> u, at |-> 1]>> \o s1
    BY <1>1, <1>4, <2>1 DEF Enter
  <2>3. s1 \in Seq(Frames) /\ s1 = <<>>
    BY <1>1, <1>2, <2>1
  <2>4. Entered(u, s1, s2)
    BY <2>2, <2>3, StackPush
  <2>5. Progress(s1, cd, s1, cd, Do("main"))
    BY ProgressStays
  <2>6. Progress(s1, cd, s2, cd, Do("main"))
    BY <2>3, <2>4, <2>5, ProgressEnters
  <2>7. Waiting(s2, cd) /\ s2 \in Seq(Frames)
    BY <2>2, <2>3, WaitingEnters
  <2> QED
    BY <1>1, <1>2, <2>1, <2>6, <2>7 DEF Moves
<1> QED
  BY <1>3, <1>4

\* What a step of the innermost target tells about it.
LEMMA AtFacts ==
  ASSUME BuildAssumption, TypeProcess, StackInv, NEW s, At(s)
  PROVE  /\ running /\ 1 \in 1 .. Len(stack) /\ Waiting(stack, called)
         /\ stack[1].target \in Targets /\ stack[1].at \in Nat /\ stack[1].target \notin called
         /\ Fits(stack[1].target, stack[1].at, s)
<1>1. /\ stack # <<>> /\ stack[1].at \in Steps(stack[1].target)
      /\ availableTargets[stack[1].target][stack[1].at] = s
  BY DEF At
<1>2. running /\ Waiting(stack, called)
  BY <1>1, StackParts
<1>3. stack \in Seq(Frames)
  BY DEF TypeProcess
<1>4. 1 \in 1 .. Len(stack)
  BY <1>1, <1>3
<1>5. stack[1].target \in Targets /\ stack[1].at \in Nat /\ stack[1].target \notin called
  BY <1>2, <1>3, <1>4, Frame
<1>6. Fits(stack[1].target, stack[1].at, s)
  BY <1>1, <1>5, StepFacts
<1> QED
  BY <1>2, <1>4, <1>5, <1>6

\* What has been called when the innermost target makes step n.
LEMMA CalledBefore ==
  ASSUME BuildAssumption, TypeProcess, StackInv, NEW s, At(s),
         NEW t \in Targets, NEW n \in 1 .. (stack[1].at - 1),
         availableTargets[stack[1].target][n] = Call(t)
  PROVE  t \in called
<1>1. 1 \in 1 .. Len(stack) /\ Waiting(stack, called)
  BY AtFacts
<1> QED
  BY <1>1, Before

-----------------------------------------------------------------------------
(* The files of the project.                                               *)

\* The last two parts of FilesInv.
Updated ==
  \A f \in ElfFiles : CompiledIn(stack, called, f) /\ obj[f] # Absent =>
     obj[f].of.src >= start[f] /\ obj[f].of.script >= start[Script]
Linked ==
  ("init" \in called \/ DoingIn(stack, "init", 4)) /\ elf # Absent => Current(elf.of)

\* FilesInv in terms of them.
LEMMA FilesParts == FilesInv <=> TimesInv /\ MadeInv /\ Updated /\ Linked
  BY DEF FilesInv, Updated, Linked, Compiled, CompiledIn, MadeIn, Doing, DoingIn

\* Later is what its name says.
LEMMA LaterIsLater ==
  ASSUME BuildAssumption, TypeFiles, TimesInv
  PROVE  /\ Later \in Nat /\ clock <= Later
         /\ \A f \in Files \cup {Script} : src[f] < Later
         /\ \A f \in Files : obj[f] # Absent => obj[f].mtime < Later
         /\ elf # Absent => elf.mtime < Later
<1>1. clock \in Nat /\ MaxClock \in Nat
  BY DEF TypeFiles, Times, BuildAssumption
<1>2. Later \in Nat /\ (Later = clock \/ Later = clock + 1)
  BY <1>1 DEF Later
<1>3. ASSUME NEW f \in Files \cup {Script}
      PROVE  src[f] < Later
  <2>1. src[f] \in Nat /\ src[f] <= clock /\ src[f] \in Range(src)
    BY <1>1 DEF TypeFiles, TimesInv, Times, Range
  <2>2. src[f] = clock => Later = clock + 1
    BY <2>1 DEF Later
  <2> QED
    BY <1>1, <1>2, <2>1, <2>2
<1>4. ASSUME NEW f \in Files, obj[f] # Absent
      PROVE  obj[f].mtime < Later
  <2>1. obj[f] \in [of : Made, mtime : Times] /\ obj[f].mtime <= clock
    BY <1>4 DEF TypeFiles, TimesInv
  <2>2. obj[f].mtime \in Nat
    BY <2>1, <1>1 DEF Times
  <2>3. obj[f].mtime = clock => Later = clock + 1
    BY <1>4 DEF Later
  <2> QED
    BY <1>1, <1>2, <2>1, <2>2, <2>3
<1>5. ASSUME elf # Absent
      PROVE  elf.mtime < Later
  <2>1. elf \in [of : [ElfFiles -> Made], mtime : Times] /\ elf.mtime <= clock
    BY <1>5 DEF TypeFiles, TimesInv
  <2>2. elf.mtime \in Nat
    BY <2>1, <1>1 DEF Times
  <2>3. elf.mtime = clock => Later = clock + 1
    BY <1>5 DEF Later
  <2> QED
    BY <1>1, <1>2, <2>1, <2>2, <2>3
<1> QED
  BY <1>1, <1>2, <1>3, <1>4, <1>5

\* The process goes on without touching the files.
LEMMA FilesKept ==
  ASSUME FilesInv, NEW s, Moves(s), s # Do("link_init"), \A f : s # <<"gcc_c", f>>,
         UNCHANGED project
  PROVE  FilesInv'
<1>1. TimesInv /\ MadeInv /\ Updated /\ Linked
  BY FilesParts
<1>2. clock' = clock /\ src' = src /\ obj' = obj /\ elf' = elf
  BY DEF project
<1>3. /\ running' = running /\ start' = start /\ called \subseteq called'
      /\ \A f : CompiledIn(stack', called', f) => CompiledIn(stack, called, f)
      /\ "init" \in called' \/ DoingIn(stack', "init", 4) => "init" \in called \/ DoingIn(stack, "init", 4)
  BY DEF Moves, Progress
<1>4. TimesInv'
  BY <1>1, <1>2, <1>3 DEF TimesInv
<1>5. MadeInv'
  BY <1>1, <1>2, <1>3 DEF MadeInv
<1>6. Updated'
  BY <1>1, <1>2, <1>3 DEF Updated
<1>7. Linked'
  BY <1>1, <1>2, <1>3 DEF Linked, Current
<1> QED
  BY <1>4, <1>5, <1>6, <1>7, FilesParts, PTL

\* The process ends, and may take an object or the program with it.
LEMMA FilesEnd ==
  ASSUME BuildAssumption, TypeFiles, FilesInv, Ends, clock' = clock, src' = src,
         \A f \in Files : obj'[f] = obj[f] \/ obj'[f] = Absent,
         elf' = elf \/ elf' = Absent
  PROVE  FilesInv'
<1>1. TimesInv /\ MadeInv
  BY FilesParts
<1>2. running' = FALSE /\ stack' = <<>> /\ called' = {} /\ start' = [f \in DOMAIN src |-> 0]
  BY DEF Ends
<1>3. \A f \in Files \cup {Script} : start'[f] = 0 /\ src[f] \in Nat
  BY <1>2 DEF TypeFiles, Times, BuildAssumption
<1>4. TimesInv'
  BY <1>1, <1>3 DEF TimesInv
<1>5. MadeInv'
  <2>1. ASSUME NEW f \in Files, obj'[f] # Absent
        PROVE  /\ src'[f] <= obj'[f].mtime => obj'[f].of.src = src'[f]
               /\ src'[Script] <= obj'[f].mtime => obj'[f].of.script = src'[Script]
    BY <1>1, <2>1 DEF MadeInv
  <2>2. ASSUME NEW f \in ElfFiles, elf' # Absent, obj'[f] # Absent, obj'[f].mtime <= elf'.mtime
        PROVE  elf'.of[f] = obj'[f].of
    BY <1>1, <2>2 DEF MadeInv, ElfFiles, Files
  <2> QED
    BY <1>2, <2>1, <2>2 DEF MadeInv
<1>6. Updated'
  BY <1>2 DEF Updated, CompiledIn, MadeIn
<1>7. Linked'
  BY <1>2 DEF Linked, DoingIn
<1> QED
  BY <1>4, <1>5, <1>6, <1>7, FilesParts, PTL

\* An object found up to date, or compiled again.
LEMMA FilesCompile ==
  ASSUME BuildAssumption, TypeProcess, TypeFiles, StackInv, FilesInv, NEW x \in Files, gcc_c(x),
         Runs(<<"gcc_c", x>>)
  PROVE  FilesInv'
<1> DEFINE s == <<"gcc_c", x>>
<1>1. TimesInv /\ MadeInv /\ Updated /\ Linked
  BY FilesParts
<1>2. At(s)
  BY DEF gcc_c
<1>3. \A u : s # Call(u)
  BY DEF Call
<1>4. Moves(s)
  BY <1>3, RunsMoves
<1>5. /\ running /\ running' = running /\ start' = start /\ called \subseteq called'
      /\ \A f : CompiledIn(stack', called', f) => CompiledIn(stack, called, f) \/ f = x
      /\ "init" \in called' \/ DoingIn(stack', "init", 4) => "init" \in called \/ DoingIn(stack, "init", 4)
  BY <1>4 DEF Moves, Progress, Do
<1>6. clock' = clock /\ src' = src /\ elf' = elf
  BY DEF gcc_c
<1>7. x \in Files \cup {Script} /\ Script \in Files \cup {Script}
  OBVIOUS
<1>8. /\ clock \in Nat /\ src[x] \in Nat /\ src[Script] \in Nat
      /\ start[x] \in Nat /\ start[Script] \in Nat
  BY <1>7 DEF TypeFiles, TypeProcess, Times, BuildAssumption
<1>9. start[x] <= src[x] /\ start[Script] <= src[Script] /\ src[x] <= clock /\ src[Script] <= clock
  BY <1>1, <1>7 DEF TimesInv
<1>10. x \in ElfFiles /\ elf # Absent => elf.mtime < clock
  <2>1. stack[1].target \notin called /\ Fits(stack[1].target, stack[1].at, s)
    BY <1>2, AtFacts
  <2>2. \/ stack[1].target = "lib_util" /\ x \in UtilFiles
        \/ stack[1].target = "lib_init" /\ x \in InitFiles
        \/ stack[1].target = "hello_world" /\ x \in HelloFiles
    BY <2>1 DEF Fits
  <2>3. x \in ElfFiles => ~({"lib_util", "lib_init"} \subseteq called)
    BY <2>1, <2>2 DEF ElfFiles, BuildAssumption
  <2> QED
    BY <1>1, <1>5, <2>3 DEF MadeInv
<1>11. CASE ~is_any_newer(obj[x], {src[x], src[Script]})
  <2>1. obj' = obj
    BY <1>11 DEF gcc_c
  <2>2. obj[x] # Absent /\ ~(src[x] > obj[x].mtime) /\ ~(src[Script] > obj[x].mtime)
    BY <1>11 DEF is_any_newer
  <2>3. obj[x].mtime \in Nat
    BY <2>2 DEF TypeFiles, Times, BuildAssumption
  <2>4. obj[x].of.src = src[x] /\ obj[x].of.script = src[Script]
    BY <1>1, <1>8, <2>2, <2>3 DEF MadeInv
  <2>5. TimesInv'
    BY <1>1, <1>5, <1>6, <2>1 DEF TimesInv
  <2>6. MadeInv'
    BY <1>1, <1>5, <1>6, <2>1 DEF MadeInv
  <2>7. Updated'
    BY <1>1, <1>5, <1>8, <1>9, <2>1, <2>4 DEF Updated
  <2>8. Linked'
    BY <1>1, <1>5, <1>6 DEF Linked, Current
  <2> QED
    BY <2>5, <2>6, <2>7, <2>8, FilesParts, PTL
<1>12. CASE is_any_newer(obj[x], {src[x], src[Script]})
  <2>1. \/ obj' = [obj EXCEPT ![x] = [of |-> [src |-> src[x], script |-> src[Script]], mtime |-> clock]]
        \/ stack' = <<>>
    BY <1>12 DEF gcc_c, gcc_fails, Ends
  <2>2. stack' # <<>>
    <3>1. OneStep(stack, stack')
      <4>1. stack \in Seq(Frames) /\ stack # <<>> /\ stack' = [stack EXCEPT ![1].at = @ + 1]
        BY DEF TypeProcess, Runs, At, Stepped
      <4> QED
        BY <4>1, StackSteps
    <3> QED
      BY <3>1 DEF OneStep
  <2>3. PICK g : g = [of |-> [src |-> src[x], script |-> src[Script]], mtime |-> clock]
    OBVIOUS
  <2>4. g.of.src = src[x] /\ g.of.script = src[Script] /\ g.mtime = clock
    BY <2>3
  <2>5. obj'[x] = g /\ \A f \in Files : f # x => obj'[f] = obj[f]
    BY <2>1, <2>2, <2>3 DEF TypeFiles
  <2>6. TimesInv'
    <3>1. \A f \in Files : obj'[f] # Absent => obj'[f].mtime <= clock
      BY <1>1, <1>8, <2>4, <2>5 DEF TimesInv
    <3> QED
      BY <1>1, <1>5, <1>6, <3>1 DEF TimesInv
  <2>7. MadeInv'
    <3>1. ASSUME NEW f \in Files, obj'[f] # Absent
          PROVE  /\ src'[f] <= obj'[f].mtime => obj'[f].of.src = src'[f]
                 /\ src'[Script] <= obj'[f].mtime => obj'[f].of.script = src'[Script]
      BY <1>1, <1>6, <2>4, <2>5, <3>1 DEF MadeInv
    <3>2. ASSUME NEW f \in ElfFiles, elf' # Absent, obj'[f] # Absent, obj'[f].mtime <= elf'.mtime
          PROVE  elf'.of[f] = obj'[f].of
      <4>1. CASE f = x
        <5>1. elf \in [of : [ElfFiles -> Made], mtime : Times]
          BY <1>6, <3>2 DEF TypeFiles
        <5>2. elf.mtime \in Nat
          BY <5>1 DEF Times, BuildAssumption
        <5>3. elf.mtime < clock /\ clock <= elf.mtime
          BY <1>6, <1>10, <2>4, <2>5, <3>2, <4>1
        <5> QED
          BY <1>8, <5>2, <5>3
      <4>2. CASE f # x
        BY <1>1, <1>6, <2>5, <3>2, <4>2 DEF MadeInv, ElfFiles, Files
      <4> QED
        BY <4>1, <4>2
    <3>3. elf' # Absent /\ running' /\ ~({"lib_util", "lib_init"} \subseteq called') => elf'.mtime < clock'
      BY <1>1, <1>5, <1>6 DEF MadeInv
    <3> QED
      BY <3>1, <3>2, <3>3 DEF MadeInv
  <2>8. Updated'
    <3>1. ASSUME NEW f \in ElfFiles, CompiledIn(stack', called', f), obj'[f] # Absent
          PROVE  obj'[f].of.src >= start[f] /\ obj'[f].of.script >= start[Script]
      <4>1. CASE f = x
        BY <1>8, <1>9, <2>4, <2>5, <4>1
      <4>2. CASE f # x
        BY <1>1, <1>5, <2>5, <3>1, <4>2 DEF Updated, ElfFiles, Files
      <4> QED
        BY <4>1, <4>2
    <3> QED
      BY <1>5, <3>1 DEF Updated
  <2>9. Linked'
    BY <1>1, <1>5, <1>6 DEF Linked, Current
  <2> QED
    BY <2>6, <2>7, <2>8, <2>9, FilesParts, PTL
<1> QED
  BY <1>11, <1>12

\* The program found up to date, or linked again.
LEMMA FilesLink ==
  ASSUME BuildAssumption, TypeProcess, TypeFiles, StackInv, FilesInv, link_init,
         Runs(Do("link_init"))
  PROVE  FilesInv'
<1>1. TimesInv /\ MadeInv /\ Updated /\ Linked
  BY FilesParts
<1>2. At(Do("link_init"))
  BY DEF link_init
<1>3. \A u : Do("link_init") # Call(u)
  BY DEF Call, Do
<1>4. Moves(Do("link_init"))
  BY <1>3, RunsMoves
<1>5. /\ running /\ running' = running /\ start' = start /\ called \subseteq called'
      /\ \A f : CompiledIn(stack', called', f) => CompiledIn(stack, called, f)
  BY <1>4 DEF Moves, Progress, Do
<1>6. clock' = clock /\ src' = src /\ obj' = obj
  BY DEF link_init
<1>7. "lib_util" \in called /\ "lib_init" \in called
  <2>1. Fits(stack[1].target, stack[1].at, Do("link_init"))
    BY <1>2, AtFacts
  <2>2. stack[1].target = "init" /\ stack[1].at = 3
    BY <2>1 DEF Fits
  <2>3. availableTargets["init"][1] = Call("lib_util") /\ availableTargets["init"][2] = Call("lib_init")
    BY DEF availableTargets, init
  <2>4. 1 \in 1 .. (stack[1].at - 1) /\ 2 \in 1 .. (stack[1].at - 1)
    BY <2>2
  <2>5. "lib_util" \in Targets /\ "lib_init" \in Targets
    BY TargetNames
  <2> QED
    BY <1>2, <2>2, <2>3, <2>4, <2>5, CalledBefore
<1>8. \A f \in ElfFiles : CompiledIn(stack, called, f)
  BY <1>7 DEF ElfFiles, CompiledIn
<1>9. stack' # <<>>
  <2>1. OneStep(stack, stack')
    <3>1. stack \in Seq(Frames) /\ stack # <<>> /\ stack' = [stack EXCEPT ![1].at = @ + 1]
      BY DEF TypeProcess, Runs, At, Stepped
    <3> QED
      BY <3>1, StackSteps
  <2> QED
    BY <2>1 DEF OneStep
<1>10. \A f \in ElfFiles : obj[f] # Absent
  BY <1>9 DEF link_init, gcc_fails, Ends
<1>11. \A f \in ElfFiles : obj[f].of.src >= start[f] /\ obj[f].of.script >= start[Script]
  BY <1>1, <1>8, <1>10 DEF Updated
<1>12. /\ elf' # Absent => elf'.mtime <= clock
       /\ elf' # Absent => \A f \in ElfFiles : obj[f].mtime <= elf'.mtime => elf'.of[f] = obj[f].of
       /\ elf' # Absent => \A f \in ElfFiles : elf'.of[f] = obj[f].of
  <2>0. \A f \in ElfFiles : obj[f] \in [of : Made, mtime : Times] /\ obj[f].mtime \in Nat
    BY <1>10 DEF TypeFiles, ElfFiles, Files, Times, BuildAssumption
  <2>1. CASE elf' = elf /\ ~is_any_newer(elf, link_times)
    <3>1. elf # Absent /\ \A m \in link_times : ~(m > elf.mtime)
      BY <2>1 DEF is_any_newer
    <3>2. elf.mtime \in Nat
      BY <3>1 DEF TypeFiles, Times, BuildAssumption
    <3>3. \A f \in ElfFiles : obj[f].mtime <= elf.mtime
      BY <1>10, <2>0, <3>1, <3>2 DEF link_times
    <3>4. \A f \in ElfFiles : elf.of[f] = obj[f].of
      BY <1>1, <1>10, <3>1, <3>3 DEF MadeInv
    <3> QED
      BY <1>1, <2>1, <3>4 DEF TimesInv
  <2>2. CASE elf' = [of |-> [f \in ElfFiles |-> obj[f].of], mtime |-> clock]
    <3>1. elf'.mtime = clock /\ clock \in Nat /\ elf'.of = [f \in ElfFiles |-> obj[f].of]
      BY <2>2 DEF TypeFiles, Times, BuildAssumption
    <3> QED
      BY <3>1
  <2> QED
    BY <1>9, <1>10, <2>1, <2>2 DEF link_init, gcc_fails, Ends
<1>13. TimesInv'
  BY <1>1, <1>5, <1>6, <1>12 DEF TimesInv
<1>14. MadeInv'
  BY <1>1, <1>5, <1>6, <1>7, <1>12 DEF MadeInv
<1>15. Updated'
  BY <1>1, <1>5, <1>6 DEF Updated
<1>16. Linked'
  BY <1>5, <1>11, <1>12 DEF Linked, Current
<1> QED
  BY <1>13, <1>14, <1>15, <1>16, FilesParts, PTL

\* clean() deletes objects and program.
LEMMA FilesRemoved ==
  ASSUME FilesInv, Moves(Do("rmtree")), rmtree
  PROVE  FilesInv'
<1>1. TimesInv
  BY FilesParts
<1>2. /\ clock' = clock /\ src' = src /\ elf' = Absent /\ \A f \in Files : obj'[f] = Absent
      /\ start' = start
  BY DEF rmtree, Moves
<1>3. TimesInv' /\ MadeInv'
  BY <1>1, <1>2 DEF TimesInv, MadeInv, ElfFiles, Files
<1>4. Updated' /\ Linked'
  BY <1>2 DEF Updated, Linked, ElfFiles, Files
<1> QED
  BY <1>3, <1>4, FilesParts, PTL

\* Time goes on, and perhaps a source is edited.
LEMMA FilesAge ==
  ASSUME BuildAssumption, TypeFiles, TypeProcess, FilesInv, UNCHANGED process, clock' = Later,
         UNCHANGED <<obj, elf>>,
         src' = src \/ \E f \in Files \cup {Script} : src' = [src EXCEPT ![f] = Later]
  PROVE  FilesInv'
<1>1. TimesInv /\ MadeInv /\ Updated /\ Linked
  BY FilesParts
<1>2. /\ Later \in Nat /\ clock <= Later
      /\ \A f \in Files \cup {Script} : src[f] < Later
      /\ \A f \in Files : obj[f] # Absent => obj[f].mtime < Later
      /\ elf # Absent => elf.mtime < Later
  BY <1>1, LaterIsLater
<1>3. /\ running' = running /\ stack' = stack /\ called' = called /\ start' = start
      /\ obj' = obj /\ elf' = elf
  BY DEF process
<1>4. \A f \in Files \cup {Script} : src'[f] = src[f] \/ src'[f] = Later
  BY DEF TypeFiles
<1>5. /\ \A f \in Files \cup {Script} : src[f] \in Nat /\ start[f] \in Nat
      /\ \A f \in Files : obj[f] # Absent => obj[f].mtime \in Nat
      /\ elf # Absent => elf.mtime \in Nat
      /\ clock \in Nat
  BY DEF TypeFiles, TypeProcess, Times, BuildAssumption
<1>6. TimesInv'
  <2>1. ASSUME NEW f \in Files \cup {Script}
        PROVE  start[f] <= src'[f] /\ src'[f] <= Later
    <3>1. start[f] <= src[f] /\ src[f] < Later
      BY <1>1, <1>2 DEF TimesInv
    <3> QED
      BY <1>2, <1>4, <1>5, <3>1
  <2>2. \A f \in Files : obj[f] # Absent => obj[f].mtime <= Later
    BY <1>2, <1>5
  <2>3. elf # Absent => elf.mtime <= Later
    BY <1>2, <1>5
  <2> QED
    BY <1>3, <2>1, <2>2, <2>3 DEF TimesInv
<1>7. MadeInv'
  <2>1. ASSUME NEW f \in Files, obj[f] # Absent, NEW g \in Files \cup {Script}, src'[g] <= obj[f].mtime
        PROVE  src'[g] = src[g]
    BY <1>2, <1>4, <1>5, <2>1
  <2>2. ASSUME NEW f \in Files, obj[f] # Absent
        PROVE  /\ src'[f] <= obj[f].mtime => obj[f].of.src = src'[f]
               /\ src'[Script] <= obj[f].mtime => obj[f].of.script = src'[Script]
    <3>1. f \in Files \cup {Script} /\ Script \in Files \cup {Script}
      OBVIOUS
    <3> QED
      BY <1>1, <2>1, <2>2, <3>1 DEF MadeInv
  <2>3. elf # Absent =>
          /\ \A f \in ElfFiles : obj[f] # Absent /\ obj[f].mtime <= elf.mtime => elf.of[f] = obj[f].of
          /\ elf.mtime < Later
    BY <1>1, <1>2 DEF MadeInv
  <2> QED
    BY <1>3, <2>2, <2>3 DEF MadeInv
<1>8. Updated'
  BY <1>1, <1>3 DEF Updated
<1>9. Linked'
  BY <1>1, <1>3 DEF Linked, Current
<1> QED
  BY <1>6, <1>7, <1>8, <1>9, FilesParts, PTL

\* A process starts.
LEMMA FilesStart ==
  ASSUME BuildAssumption, TypeFiles, TypeProcess, StackInv, FilesInv, Invoke
  PROVE  FilesInv'
<1>1. TimesInv /\ MadeInv
  BY FilesParts
<1>2. /\ Later \in Nat /\ clock <= Later
      /\ \A f \in Files \cup {Script} : src[f] < Later
      /\ \A f \in Files : obj[f] # Absent => obj[f].mtime < Later
      /\ elf # Absent => elf.mtime < Later
  BY <1>1, LaterIsLater
<1>3. /\ clock' = Later /\ called' = {} /\ start' = src /\ stack' = stack
      /\ src' = src /\ obj' = obj /\ elf' = elf /\ ~running
  BY DEF Invoke
<1>4. stack = <<>>
  BY <1>3, StackParts
<1>5. /\ \A f \in Files \cup {Script} : src[f] \in Nat
      /\ \A f \in Files : obj[f] # Absent => obj[f].mtime \in Nat
      /\ elf # Absent => elf.mtime \in Nat
  BY DEF TypeFiles, Times, BuildAssumption
<1>6. TimesInv'
  BY <1>1, <1>2, <1>3, <1>5 DEF TimesInv
<1>7. MadeInv'
  BY <1>1, <1>2, <1>3 DEF MadeInv
<1>8. Updated' /\ Linked'
  BY <1>3, <1>4 DEF Updated, Linked, CompiledIn, MadeIn, DoingIn
<1> QED
  BY <1>6, <1>7, <1>8, FilesParts, PTL

\* Neither process nor files are concerned.
LEMMA FilesIdle ==
  ASSUME FilesInv, UNCHANGED <<process, project>>
  PROVE  FilesInv'
<1>1. TimesInv /\ MadeInv /\ Updated /\ Linked
  BY FilesParts
<1>2. /\ running' = running /\ stack' = stack /\ called' = called /\ start' = start
      /\ clock' = clock /\ src' = src /\ obj' = obj /\ elf' = elf
  BY DEF process, project
<1>3. TimesInv' /\ MadeInv' /\ Updated' /\ Linked'
  BY <1>1, <1>2 DEF TimesInv, MadeInv, Updated, Linked, Current
<1> QED
  BY <1>3, FilesParts, PTL

-----------------------------------------------------------------------------
(* The configurations of the kernel.                                       *)

\* ConfigInv for any stack.
LEMMA ConfigParts ==
  ConfigInv <=>
    /\ "use_saved_config" \in called => installed \in Configs
    /\ DoingIn(stack, "use_saved_config", 2) => installed = saved
    /\ "use_saved_config" \in called /\ "configure" \notin called /\ ~PastIn(stack, "configure", 3) =>
          \/ installed = saved
          \/ ("kernel" \in called \/ PastIn(stack, "kernel", 6)) /\ installed = WithInitrd(saved)
    /\ "use_saved_config" \in called =>
          installed \in {saved, WithInitrd(saved)} \/ installed.edit = configs
  BY DEF ConfigInv, Doing, Past, DoingIn, PastIn

\* The process goes on without touching the configurations.
LEMMA ConfigKept ==
  ASSUME TypeConfigs, ConfigInv, NEW s, Moves(s), s # Do("copy_saved"), UNCHANGED kconfig
  PROVE  ConfigInv'
<1> DEFINE U == "use_saved_config" \in called
           D == DoingIn(stack, "use_saved_config", 2)
           P == "configure" \in called \/ PastIn(stack, "configure", 3)
           K == "kernel" \in called \/ PastIn(stack, "kernel", 6)
           B == installed \in {saved, WithInitrd(saved)} \/ installed.edit = configs
<1>1. /\ U => installed \in Configs
      /\ D => installed = saved
      /\ U /\ ~P => installed = saved \/ (K /\ installed = WithInitrd(saved))
      /\ U => B
  BY ConfigParts
<1>2. /\ U' => U \/ D
      /\ D' => D
      /\ P => P'
      /\ K => K'
      /\ called \subseteq called'
  BY DEF Moves, Progress
<1>3. /\ saved' = saved /\ installed' = installed /\ saved \in Configs
      /\ WithInitrd(saved)' = WithInitrd(saved) /\ B' <=> B
      /\ installed = saved => B
  BY DEF TypeConfigs, kconfig, WithInitrd
<1> HIDE DEF U, D, P, K, B
<1>4. U' => installed' \in Configs
  BY <1>1, <1>2, <1>3
<1>5. D' => installed' = saved'
  BY <1>1, <1>2, <1>3
<1>6. U' /\ ~P' => installed' = saved' \/ (K' /\ installed' = WithInitrd(saved)')
  BY <1>1, <1>2, <1>3
<1>7. U' => B'
  BY <1>1, <1>2, <1>3
<1> QED
  BY <1>4, <1>5, <1>6, <1>7 DEF ConfigInv, Doing, Past, DoingIn, PastIn, U, D, P, K, B

\* Nothing is in progress and nothing has run.
LEMMA ConfigNone ==
  ASSUME stack' = <<>>, called' = {}
  PROVE  ConfigInv'
  BY DEF ConfigInv, Doing, Past

\* The process and the configurations are not concerned.
LEMMA ConfigIdle ==
  ASSUME ConfigInv, UNCHANGED <<stack, called, kconfig>>
  PROVE  ConfigInv'
  BY DEF ConfigInv, Doing, Past, kconfig, WithInitrd

\* A target whose last step is not a call is the innermost one.
LEMMA DoingHead ==
  ASSUME BuildAssumption, NEW st \in Seq(Frames), NEW cd, Waiting(st, cd)
  PROVE  DoingIn(st, "use_saved_config", 2) => st[1].target = "use_saved_config"
<1>1. \A u : availableTargets["use_saved_config"][1] # Call(u)
  BY DEF availableTargets, use_saved_config, Do, Call
<1>2. ASSUME NEW i \in 1 .. Len(st), st[i].target = "use_saved_config", st[i].at = 2
      PROVE  st[1].target = "use_saved_config"
  <2>1. \A u : availableTargets[st[i].target][st[i].at - 1] # Call(u)
    BY <1>1, <1>2
  <2>2. i = 1
    BY <2>1, Positions
  <2> QED
    BY <1>2, <2>2
<1> QED
  BY <1>2 DEF DoingIn

\* The steps that change configurations: where the process is before and after.
LEMMA ConfigStep ==
  ASSUME BuildAssumption, TypeProcess, StackInv, NEW e, Runs(Do(e))
  PROVE  /\ At(Do(e)) /\ called' = called /\ Moves(Do(e)) /\ OneStep(stack, stack')
         /\ DoingIn(stack', "use_saved_config", 2) => stack[1].target = "use_saved_config"
<1>1. At(Do(e)) /\ called' = called /\ stack # <<>> /\ stack' = [stack EXCEPT ![1].at = @ + 1]
  BY DEF Runs, At, Stepped
<1>2. \A u : Do(e) # Call(u)
  BY DEF Call, Do
<1>3. Moves(Do(e))
  BY <1>2, RunsMoves
<1>4. OneStep(stack, stack')
  BY <1>1, StackSteps DEF TypeProcess
<1>5. stack' \in Seq(Frames) /\ Waiting(stack', called') /\ stack'[1].target = stack[1].target
  BY <1>3, <1>4 DEF Moves, OneStep
<1>6. DoingIn(stack', "use_saved_config", 2) => stack'[1].target = "use_saved_config"
  BY <1>5, DoingHead
<1> QED
  BY <1>1, <1>3, <1>4, <1>5, <1>6

\* use_saved_config() installs the saved configuration.
LEMMA ConfigReset ==
  ASSUME BuildAssumption, TypeProcess, TypeConfigs, StackInv, copy_saved
  PROVE  ConfigInv'
<1>1. Runs(Do("copy_saved")) /\ installed' = saved /\ saved' = saved
  BY DEF copy_saved
<1>2. saved \in Configs
  BY DEF TypeConfigs
<1> QED
  BY <1>1, <1>2 DEF ConfigInv

\* kernel() has the options of the initramfs set.
LEMMA ConfigModified ==
  ASSUME BuildAssumption, TypeProcess, TypeConfigs, StackInv, ConfigInv, config_modify
  PROVE  ConfigInv' /\ installed' \in Configs
<1>1. /\ Runs(Do("config_modify")) /\ installed' \in {installed, WithInitrd(installed)}
      /\ saved' = saved /\ configs' = configs
  BY DEF config_modify
<1>2. /\ At(Do("config_modify")) /\ called' = called /\ OneStep(stack, stack')
      /\ DoingIn(stack', "use_saved_config", 2) => stack[1].target = "use_saved_config"
  BY <1>1, ConfigStep
<1>3. /\ Fits(stack[1].target, stack[1].at, Do("config_modify"))
      /\ 1 \in 1 .. Len(stack) /\ Waiting(stack, called)
  BY <1>2, AtFacts
<1>4. stack[1].target = "kernel" /\ stack[1].at = 5
  BY <1>3 DEF Fits
<1>5. "use_saved_config" \in called
  <2>1. availableTargets["kernel"][4] = Call("use_saved_config") /\ "use_saved_config" \in Targets
    BY TargetNames DEF availableTargets, kernel
  <2>2. 4 \in 1 .. (stack[1].at - 1)
    BY <1>4
  <2> QED
    BY <1>2, <1>4, <2>1, <2>2, CalledBefore
<1>6. stack \in Seq(Frames)
  BY DEF TypeProcess
<1>7. Len(stack) = 1
  BY <1>3, <1>4, <1>6, Positions
<1>8. ~PastIn(stack, "configure", 3)
  BY <1>4, <1>7 DEF PastIn
<1>9. ~DoingIn(stack', "use_saved_config", 2)
  BY <1>2, <1>4
<1>10. PastIn(stack', "kernel", 6)
  <2>1. stack'[1].target = "kernel" /\ stack'[1].at = 6 /\ 1 \in 1 .. Len(stack')
    BY <1>2, <1>4 DEF OneStep
  <2> QED
    BY <2>1 DEF PastIn
<1>11. /\ installed \in Configs /\ saved \in Configs
       /\ "configure" \notin called => installed \in {saved, WithInitrd(saved)}
       /\ installed \in {saved, WithInitrd(saved)} \/ installed.edit = configs
  BY <1>5, <1>8, ConfigParts DEF TypeConfigs
<1>12. /\ installed' \in Configs
       /\ installed'.edit = installed.edit
       /\ installed \in {saved, WithInitrd(saved)} => installed' \in {saved, WithInitrd(saved)}
  BY <1>1, <1>11 DEF Configs, WithInitrd
<1>13. ConfigInv'
  <2>1. "use_saved_config" \in called' => installed' \in Configs
    BY <1>12
  <2>2. ~Doing("use_saved_config", 2)' /\ Past("kernel", 6)'
    BY <1>9, <1>10 DEF Doing, Past, DoingIn, PastIn
  <2>3. WithInitrd(saved)' = WithInitrd(saved)
    BY <1>1 DEF WithInitrd
  <2>4. "configure" \notin called' => installed' \in {saved', WithInitrd(saved)'}
    BY <1>1, <1>2, <1>11, <1>12, <2>3
  <2>5. installed' \in {saved', WithInitrd(saved)'} \/ installed'.edit = configs'
    BY <1>1, <1>11, <1>12, <2>3
  <2> QED
    BY <2>1, <2>2, <2>4, <2>5 DEF ConfigInv
<1> QED
  BY <1>12, <1>13

\* The menu of configure().
LEMMA ConfigMenu ==
  ASSUME BuildAssumption, TypeProcess, TypeConfigs, StackInv, ConfigInv, menuconfig
  PROVE  ConfigInv' /\ installed' \in Configs /\ saved' = saved /\ configs' \in 0 .. MaxConfig
<1>1. /\ Runs(Do("menuconfig")) /\ saved' = saved
      /\ \/ installed' = installed /\ configs' = configs
         \/ /\ configs < MaxConfig /\ configs' = configs + 1
            /\ installed' = [installed EXCEPT !.edit = configs + 1]
  BY DEF menuconfig, kconfig
<1>2. /\ At(Do("menuconfig")) /\ called' = called /\ OneStep(stack, stack')
      /\ DoingIn(stack', "use_saved_config", 2) => stack[1].target = "use_saved_config"
  BY <1>1, ConfigStep
<1>3. Fits(stack[1].target, stack[1].at, Do("menuconfig"))
  BY <1>2, AtFacts
<1>4. stack[1].target = "configure" /\ stack[1].at = 2
  BY <1>3 DEF Fits
<1>5. "use_saved_config" \in called
  <2>1. availableTargets["configure"][1] = Call("use_saved_config") /\ "use_saved_config" \in Targets
    BY TargetNames DEF availableTargets, configure
  <2>2. 1 \in 1 .. (stack[1].at - 1)
    BY <1>4
  <2> QED
    BY <1>2, <1>4, <2>1, <2>2, CalledBefore
<1>6. PastIn(stack', "configure", 3)
  <2>1. stack'[1].target = "configure" /\ stack'[1].at = 3 /\ 1 \in 1 .. Len(stack')
    BY <1>2, <1>4 DEF OneStep
  <2> QED
    BY <2>1 DEF PastIn
<1>7. ~DoingIn(stack', "use_saved_config", 2)
  BY <1>2, <1>4
<1>8. /\ installed \in Configs /\ configs \in 0 .. MaxConfig /\ MaxConfig \in Nat
      /\ installed \in {saved, WithInitrd(saved)} \/ installed.edit = configs
  BY <1>5, ConfigParts DEF TypeConfigs, BuildAssumption
<1>9. configs' \in 0 .. MaxConfig
  BY <1>1, <1>8
<1>10. installed' \in Configs
  <2>1. CASE installed' = installed
    BY <1>8, <2>1
  <2>2. CASE configs < MaxConfig /\ installed' = [installed EXCEPT !.edit = configs + 1]
    <3>1. configs + 1 \in 0 .. MaxConfig
      BY <1>8, <2>2
    <3> QED
      BY <1>8, <2>2, <3>1 DEF Configs
  <2> QED
    BY <1>1, <2>1, <2>2
<1>11. installed' \in {saved, WithInitrd(saved)} \/ installed'.edit = configs'
  BY <1>1, <1>8 DEF Configs
<1>12. WithInitrd(saved)' = WithInitrd(saved)
  BY <1>1 DEF WithInitrd
<1>13. ConfigInv'
  BY <1>1, <1>6, <1>7, <1>10, <1>11, <1>12 DEF ConfigInv, Doing, Past, DoingIn, PastIn
<1> QED
  BY <1>1, <1>9, <1>10, <1>13

\* save_config() saves what is installed.
LEMMA ConfigSaved ==
  ASSUME BuildAssumption, TypeProcess, TypeConfigs, StackInv, ConfigInv, copy_installed,
         installed # Absent
  PROVE  ConfigInv' /\ Runs(Do("copy_installed")) /\ saved' \in Configs
<1>1. Runs(Do("copy_installed")) /\ saved' = installed /\ installed' = installed
  BY DEF copy_installed
<1>2. installed \in Configs
  BY DEF TypeConfigs
<1> QED
  BY <1>1, <1>2 DEF ConfigInv

-----------------------------------------------------------------------------
(* All together.                                                           *)

BuildParts == TypeProcess /\ TypeFiles /\ TypeConfigs /\ StackInv /\ FilesInv /\ ConfigInv

\* The stack is as it should be when the process has gone on.
LEMMA MovesStack ==
  ASSUME TypeProcess, NEW s, Moves(s)
  PROVE  TypeProcess' /\ StackInv'
<1>1. TypeProcess'
  BY DEF TypeProcess, Moves
<1>2. (stack' # <<>> => running') /\ (~running' => called' = {}) /\ Waiting(stack', called')
  BY DEF Moves
<1>3. StackInv'
  BY <1>2 DEF StackInv, Waiting
<1> QED
  BY <1>1, <1>3

\* And when it has ended.
LEMMA EndsStack ==
  ASSUME BuildAssumption, TypeFiles, Ends
  PROVE  TypeProcess' /\ StackInv' /\ stack' = <<>> /\ called' = {}
<1>1. running' = FALSE /\ stack' = <<>> /\ called' = {} /\ start' = [f \in DOMAIN src |-> 0]
  BY DEF Ends
<1>2. start' \in [Files \cup {Script} -> Times]
  BY <1>1 DEF TypeFiles, Times, BuildAssumption
<1>3. stack' \in Seq(Frames) /\ called' \subseteq Targets /\ running' \in BOOLEAN
  <2>1. stack' \in Seq(Frames) /\ called' \subseteq Targets
    BY <1>1
  <2>2. running' \in BOOLEAN
    BY <1>1, Zenon
  <2> QED
    BY <2>1, <2>2
<1>4. Waiting(stack', called')
  BY <1>1, WaitingNone
<1>5. StackInv'
  BY <1>1, <1>4 DEF StackInv, Waiting
<1> QED
  BY <1>1, <1>2, <1>3, <1>5 DEF TypeProcess

\* A step of the process that changes no more than the output directory.
LEMMA OnlyMoves ==
  ASSUME BuildParts, NEW s, Moves(s), s # Do("link_init"), \A f : s # <<"gcc_c", f>>,
         s # Do("copy_saved"),
         UNCHANGED <<project, kconfig>>, out' \subseteq Outputs
  PROVE  BuildParts'
<1>1. TypeProcess' /\ StackInv'
  BY MovesStack DEF BuildParts
<1>2. FilesInv'
  BY FilesKept DEF BuildParts
<1>3. ConfigInv'
  BY ConfigKept DEF BuildParts, kconfig
<1>4. TypeFiles' /\ TypeConfigs'
  BY DEF BuildParts, TypeFiles, TypeConfigs, project, kconfig
<1> QED
  BY <1>1, <1>2, <1>3, <1>4 DEF BuildParts

\* The process ends, by itself or not.
LEMMA OnlyEnds ==
  ASSUME BuildAssumption, BuildParts, Ends, clock' = clock, src' = src,
         obj' = obj \/ \E f \in Files : obj' = [obj EXCEPT ![f] = Absent],
         elf' = elf \/ elf' = Absent, UNCHANGED kconfig, out' \subseteq Outputs
  PROVE  BuildParts'
<1>1. TypeProcess' /\ StackInv' /\ stack' = <<>> /\ called' = {}
  BY EndsStack DEF BuildParts
<1>2. TypeFiles'
  BY DEF BuildParts, TypeFiles
<1>3. \A f \in Files : obj'[f] = obj[f] \/ obj'[f] = Absent
  BY DEF BuildParts, TypeFiles
<1>4. FilesInv'
  BY <1>3, FilesEnd DEF BuildParts
<1>5. ConfigInv'
  BY <1>1, ConfigNone
<1>6. TypeConfigs'
  BY DEF BuildParts, TypeConfigs, kconfig
<1> QED
  BY <1>1, <1>2, <1>4, <1>5, <1>6 DEF BuildParts

\* The steps of main and of the wrapper that requires() makes.
LEMMA ProcessSteps ==
  ASSUME BuildAssumption, BuildParts,
         main \/ Interrupt \/ (\E t \in Targets : CallTarget(t)) \/ Return
  PROVE  BuildParts'
<1>1. TypeProcess /\ StackInv /\ out \subseteq Outputs
  BY DEF BuildParts, TypeFiles
<1>2. \A t : /\ Call(t) # Do("link_init") /\ Call(t) # Do("copy_saved")
             /\ \A f : Call(t) # <<"gcc_c", f>>
  BY DEF Call, Do
<1>3. \A e : e \in {"main", "return"} =>
             /\ Do(e) # Do("link_init") /\ Do(e) # Do("copy_saved")
             /\ \A f : Do(e) # <<"gcc_c", f>>
  BY DEF Do
<1>4. CASE main /\ argv # <<>>
  <2>1. Moves(Do("main"))
    BY <1>1, <1>4, MainMoves
  <2>2. UNCHANGED <<project, kconfig>> /\ out' = out
    BY <1>4 DEF main
  <2> QED
    BY <1>1, <1>3, <2>1, <2>2, OnlyMoves
<1>5. CASE Return
  <2>1. Moves(Do("return"))
    BY <1>1, <1>5, ReturnMoves
  <2>2. UNCHANGED <<project, kconfig>> /\ out' = out
    BY <1>5 DEF Return
  <2> QED
    BY <1>1, <1>3, <2>1, <2>2, OnlyMoves
<1>6. ASSUME NEW t \in Targets, CallTarget(t)
      PROVE  BuildParts'
  <2>1. Moves(Call(t))
    BY <1>1, <1>6, CallMoves
  <2>2. UNCHANGED <<project, kconfig>> /\ out' = out
    BY <1>6 DEF CallTarget
  <2> QED
    BY <1>1, <1>2, <2>1, <2>2, OnlyMoves
<1>7. CASE Interrupt \/ (main /\ argv = <<>>)
  <2>1. Ends /\ UNCHANGED <<project, kconfig>> /\ out' = out
    BY <1>7 DEF Interrupt, main
  <2> QED
    BY <1>1, <2>1, OnlyEnds DEF project
<1> QED
  BY <1>4, <1>5, <1>6, <1>7

\* The steps of a target that change no more than the output directory.
LEMMA OutputSteps ==
  ASSUME BuildAssumption, BuildParts,
         \/ make_dirs \/ openssl \/ write_list \/ headers_install \/ link_hello
         \/ \E goal \in {"vmlinux", "bzImage", "clean"} : kernel_target(goal)
  PROVE  BuildParts'
<1>1. TypeProcess /\ StackInv /\ out \subseteq Outputs
  BY DEF BuildParts, TypeFiles
<1>2. ASSUME NEW e \in {"mkdir", "openssl", "write_list", "headers_install", "link_hello",
                       "vmlinux", "bzImage", "clean"},
             Runs(Do(e)), UNCHANGED <<project, kconfig>>, out' \subseteq Outputs
      PROVE  BuildParts'
  <2>1. Moves(Do(e))
    BY <1>1, <1>2, ConfigStep
  <2>2. /\ Do(e) # Do("link_init") /\ Do(e) # Do("copy_saved")
        /\ \A f : Do(e) # <<"gcc_c", f>>
    BY DEF Do
  <2> QED
    BY <1>2, <2>1, <2>2, OnlyMoves
<1>3. ASSUME Ends, UNCHANGED <<project, kconfig>>, out' = out
      PROVE  BuildParts'
  BY <1>1, <1>3, OnlyEnds DEF project
<1>4. CASE make_dirs
  <2>1. Runs(Do("mkdir")) /\ UNCHANGED <<project, kconfig>> /\ out' \subseteq Outputs
    BY <1>1, <1>4 DEF make_dirs, dirs, Outputs
  <2> QED
    BY <1>2, <2>1
<1>5. CASE openssl
  <2>1. Runs(Do("openssl")) /\ UNCHANGED <<project, kconfig>> /\ out' \subseteq Outputs
    BY <1>1, <1>5 DEF openssl, Outputs
  <2> QED
    BY <1>2, <2>1
<1>6. CASE write_list
  <2>1. /\ UNCHANGED <<project, kconfig>>
        /\ \/ Runs(Do("write_list")) /\ out' \subseteq Outputs
           \/ Ends /\ out' = out
    BY <1>1, <1>6 DEF write_list, Outputs
  <2> QED
    BY <1>2, <1>3, <2>1
<1>7. CASE headers_install
  <2>1. Runs(Do("headers_install")) /\ UNCHANGED <<project, kconfig>> /\ out' \subseteq Outputs
    BY <1>1, <1>7 DEF headers_install, Outputs
  <2> QED
    BY <1>2, <2>1
<1>8. CASE link_hello
  <2>1. /\ UNCHANGED <<project, kconfig>> /\ out' = out
        /\ Runs(Do("link_hello")) \/ Ends
    BY <1>8 DEF link_hello, gcc_fails
  <2> QED
    BY <1>1, <1>2, <1>3, <2>1
<1>9. ASSUME NEW goal \in {"vmlinux", "bzImage", "clean"}, kernel_target(goal)
      PROVE  BuildParts'
  <2>1. Runs(Do(goal)) /\ UNCHANGED <<project, kconfig>> /\ out' = out
    BY <1>9 DEF kernel_target
  <2> QED
    BY <1>1, <1>2, <2>1
<1> QED
  BY <1>4, <1>5, <1>6, <1>7, <1>8, <1>9

\* The steps that write the objects and the program.
LEMMA FileSteps ==
  ASSUME BuildAssumption, BuildParts, (\E f \in Files : gcc_c(f)) \/ link_init \/ rmtree
  PROVE  BuildParts'
<1>1. TypeProcess /\ TypeFiles /\ StackInv /\ FilesInv /\ TypeConfigs /\ ConfigInv
  BY DEF BuildParts
<1>2. out \subseteq Outputs /\ clock \in Times
  BY <1>1 DEF TypeFiles
<1>3. ASSUME NEW s, Runs(s), \A u : s # Call(u), s # Do("copy_saved"),
             UNCHANGED kconfig, TypeFiles', FilesInv'
      PROVE  BuildParts'
  <2>1. Moves(s)
    BY <1>1, <1>3, RunsMoves
  <2>2. TypeProcess' /\ StackInv'
    BY <1>1, <2>1, MovesStack
  <2>3. ConfigInv'
    BY <1>1, <1>3, <2>1, ConfigKept DEF kconfig
  <2>4. TypeConfigs'
    BY <1>1, <1>3 DEF TypeConfigs, kconfig
  <2> QED
    BY <1>3, <2>2, <2>3, <2>4 DEF BuildParts
<1>4. ASSUME NEW x \in Files, gcc_c(x)
      PROVE  BuildParts'
  <2>1. /\ UNCHANGED kconfig /\ clock' = clock /\ src' = src /\ elf' = elf
        /\ out' = out \cup {"dir"}
    BY <1>4 DEF gcc_c
  <2>2. out' \subseteq Outputs
    BY <1>2, <2>1 DEF Outputs
  <2>3. CASE Runs(<<"gcc_c", x>>) /\ ~(gcc_fails)
    <3>1. FilesInv'
      BY <1>1, <1>4, <2>3, FilesCompile
    <3>2. \/ obj' = obj
          \/ obj' = [obj EXCEPT ![x] = [of |-> [src |-> src[x], script |-> src[Script]], mtime |-> clock]]
      BY <1>4, <2>3 DEF gcc_c
    <3>3. [of |-> [src |-> src[x], script |-> src[Script]], mtime |-> clock] \in [of : Made, mtime : Times]
      BY <1>1, <1>2 DEF TypeFiles, Made
    <3>4. obj' \in [Files -> {Absent} \cup [of : Made, mtime : Times]]
      BY <1>1, <3>2, <3>3 DEF TypeFiles
    <3>5. TypeFiles'
      BY <1>1, <2>1, <2>2, <3>4 DEF TypeFiles
    <3>6. \A u : <<"gcc_c", x>> # Call(u)
      BY DEF Call
    <3>7. <<"gcc_c", x>> # Do("copy_saved")
      BY DEF Do
    <3> QED
      BY <1>3, <2>1, <2>3, <3>1, <3>5, <3>6, <3>7
  <2>4. CASE gcc_fails /\ (obj' = obj \/ obj' = [obj EXCEPT ![x] = Absent])
    <3>1. Ends
      BY <2>4 DEF gcc_fails
    <3> QED
      BY <2>1, <2>2, <2>4, <3>1, OnlyEnds
  <2>5. Runs(<<"gcc_c", x>>) => ~gcc_fails
    <3>1. Runs(<<"gcc_c", x>>) => stack' # <<>>
      <4>1. HAVE Runs(<<"gcc_c", x>>)
      <4>2. stack \in Seq(Frames) /\ stack # <<>> /\ stack' = [stack EXCEPT ![1].at = @ + 1]
        BY <1>1, <4>1 DEF TypeProcess, Runs, At, Stepped
      <4>3. OneStep(stack, stack')
        BY <4>2, StackSteps
      <4> QED
        BY <4>3 DEF OneStep
    <3> QED
      BY <3>1 DEF gcc_fails, Ends
  <2> QED
    BY <1>4, <2>3, <2>4, <2>5 DEF gcc_c
<1>5. CASE link_init
  <2>1. UNCHANGED kconfig /\ clock' = clock /\ src' = src /\ obj' = obj /\ out' = out
    BY <1>5 DEF link_init
  <2>2. CASE Runs(Do("link_init"))
    <3>1. FilesInv'
      BY <1>1, <1>5, <2>2, FilesLink
    <3>2. \/ elf' \in {elf, Absent}
          \/ /\ \A f \in ElfFiles : obj[f] # Absent
             /\ elf' = [of |-> [f \in ElfFiles |-> obj[f].of], mtime |-> clock]
      BY <1>5 DEF link_init
    <3>3. ASSUME \A f \in ElfFiles : obj[f] # Absent
          PROVE  [of |-> [f \in ElfFiles |-> obj[f].of], mtime |-> clock]
                    \in [of : [ElfFiles -> Made], mtime : Times]
      <4>1. \A f \in ElfFiles : obj[f].of \in Made
        BY <1>1, <3>3 DEF TypeFiles, ElfFiles, Files
      <4> QED
        BY <1>2, <4>1
    <3>4. elf' = Absent \/ elf' \in [of : [ElfFiles -> Made], mtime : Times]
      BY <1>1, <3>2, <3>3 DEF TypeFiles
    <3>5. TypeFiles'
      BY <1>1, <1>2, <2>1, <3>4 DEF TypeFiles
    <3>6. \A u : Do("link_init") # Call(u)
      BY DEF Call, Do
    <3>7. Do("link_init") # Do("copy_saved")
      BY DEF Do
    <3> QED
      BY <1>3, <2>1, <2>2, <3>1, <3>5, <3>6, <3>7
  <2>3. CASE Ends /\ elf' \in {elf, Absent}
    BY <1>2, <2>1, <2>3, OnlyEnds
  <2> QED
    BY <1>5, <2>2, <2>3 DEF link_init, gcc_fails
<1>6. CASE rmtree
  <2>1. /\ Runs(Do("rmtree")) /\ UNCHANGED kconfig /\ clock' = clock /\ src' = src
        /\ obj' = [f \in Files |-> Absent] /\ elf' = Absent /\ out' = {}
    BY <1>6 DEF rmtree
  <2>2. Moves(Do("rmtree"))
    BY <1>1, <2>1, ConfigStep
  <2>3. FilesInv'
    BY <1>1, <1>6, <2>2, FilesRemoved
  <2>4. TypeFiles'
    BY <1>1, <2>1 DEF TypeFiles
  <2>5. \A u : Do("rmtree") # Call(u)
    BY DEF Call, Do
  <2>6. Do("rmtree") # Do("copy_saved")
    BY DEF Do
  <2> QED
    BY <1>3, <2>1, <2>3, <2>4, <2>5, <2>6
<1> QED
  BY <1>4, <1>5, <1>6

\* The steps that write the configurations.
LEMMA ConfigSteps ==
  ASSUME BuildAssumption, BuildParts, copy_saved \/ config_modify \/ copy_installed \/ menuconfig
  PROVE  BuildParts'
<1>1. TypeProcess /\ TypeFiles /\ StackInv /\ FilesInv /\ TypeConfigs /\ ConfigInv
  BY DEF BuildParts
<1>2. out \subseteq Outputs
  BY <1>1 DEF TypeFiles
<1>3. ASSUME NEW e \in {"copy_saved", "config_modify", "copy_installed", "menuconfig"},
             Runs(Do(e)), UNCHANGED <<project, out>>, TypeConfigs', ConfigInv'
      PROVE  BuildParts'
  <2>1. Moves(Do(e))
    BY <1>1, <1>3, ConfigStep
  <2>2. TypeProcess' /\ StackInv'
    BY <1>1, <2>1, MovesStack
  <2>3. Do(e) # Do("link_init") /\ \A f : Do(e) # <<"gcc_c", f>>
    BY DEF Do
  <2>4. FilesInv'
    BY <1>1, <1>3, <2>1, <2>3, FilesKept
  <2>5. TypeFiles'
    BY <1>1, <1>3 DEF TypeFiles, project
  <2> QED
    BY <1>3, <2>2, <2>4, <2>5 DEF BuildParts
<1>4. CASE copy_saved
  <2>1. /\ Runs(Do("copy_saved")) /\ UNCHANGED <<project, out>> /\ installed' = saved
        /\ saved' = saved /\ configs' = configs
    BY <1>4 DEF copy_saved
  <2>2. TypeConfigs'
    BY <1>1, <2>1 DEF TypeConfigs
  <2>3. ConfigInv'
    BY <1>1, <1>4, ConfigReset
  <2> QED
    BY <1>3, <2>1, <2>2, <2>3
<1>5. CASE config_modify
  <2>1. /\ Runs(Do("config_modify")) /\ UNCHANGED <<project, out>>
        /\ saved' = saved /\ configs' = configs
    BY <1>5 DEF config_modify
  <2>2. ConfigInv' /\ installed' \in Configs
    BY <1>1, <1>5, ConfigModified
  <2>3. TypeConfigs'
    BY <1>1, <2>1, <2>2 DEF TypeConfigs
  <2> QED
    BY <1>3, <2>1, <2>2, <2>3
<1>6. CASE menuconfig
  <2>1. Runs(Do("menuconfig")) /\ UNCHANGED <<project, out>>
    BY <1>6 DEF menuconfig
  <2>2. ConfigInv' /\ installed' \in Configs /\ saved' = saved /\ configs' \in 0 .. MaxConfig
    BY <1>1, <1>6, ConfigMenu
  <2>3. TypeConfigs'
    BY <1>1, <2>2 DEF TypeConfigs
  <2> QED
    BY <1>3, <2>1, <2>2, <2>3
<1>7. CASE copy_installed /\ installed # Absent
  <2>1. UNCHANGED <<project, out>> /\ installed' = installed /\ configs' = configs
    BY <1>7 DEF copy_installed
  <2>2. ConfigInv' /\ Runs(Do("copy_installed")) /\ saved' \in Configs
    BY <1>1, <1>7, ConfigSaved
  <2>3. TypeConfigs'
    BY <1>1, <2>1, <2>2 DEF TypeConfigs
  <2> QED
    BY <1>3, <2>1, <2>2, <2>3
<1>8. CASE copy_installed /\ installed = Absent
  <2>1. Ends /\ UNCHANGED <<project, out, kconfig>>
    BY <1>8 DEF copy_installed, kconfig
  <2> QED
    BY <1>2, <2>1, OnlyEnds DEF project
<1> QED
  BY <1>4, <1>5, <1>6, <1>7, <1>8

\* What the user does.
LEMMA UserSteps ==
  ASSUME BuildAssumption, BuildParts,
         Invoke \/ (\E f \in Files \cup {Script} : Edit(f)) \/ Tick \/ ReplaceSaved
  PROVE  BuildParts'
<1>1. TypeProcess /\ TypeFiles /\ StackInv /\ FilesInv /\ TypeConfigs /\ ConfigInv
  BY DEF BuildParts
<1>2. Later \in Nat /\ MaxClock \in Nat /\ MaxConfig \in Nat
  <2>1. TimesInv
    BY <1>1, FilesParts
  <2> QED
    BY <1>1, <2>1, LaterIsLater DEF BuildAssumption
<1>3. ASSUME UNCHANGED process
      PROVE  TypeProcess' /\ StackInv'
  BY <1>1, <1>3 DEF TypeProcess, StackInv, process
<1>4. ASSUME UNCHANGED <<process, kconfig>>
      PROVE  TypeConfigs' /\ ConfigInv'
  <2>1. UNCHANGED <<stack, called, kconfig>>
    BY <1>4 DEF process
  <2>2. ConfigInv'
    BY <1>1, <2>1, ConfigIdle
  <2>3. TypeConfigs'
    BY <1>1, <2>1 DEF TypeConfigs, kconfig
  <2> QED
    BY <2>2, <2>3
<1>5. CASE Invoke
  <2>1. /\ ~running /\ Later <= MaxClock /\ clock' = Later /\ running' = TRUE /\ called' = {}
        /\ start' = src /\ stack' = stack /\ src' = src /\ obj' = obj /\ elf' = elf /\ out' = out
        /\ saved' = saved /\ installed' = installed /\ configs' = configs
    BY <1>5 DEF Invoke, kconfig
  <2>2. stack = <<>>
    BY <1>1, <2>1, StackParts
  <2>3. TypeProcess'
    <3>1. running' \in BOOLEAN
      BY <2>1, Zenon
    <3>2. start' \in [Files \cup {Script} -> Times] /\ called' \subseteq Targets /\ stack' \in Seq(Frames)
      BY <1>1, <2>1 DEF TypeProcess, TypeFiles
    <3> QED
      BY <3>1, <3>2 DEF TypeProcess
  <2>4. StackInv'
    <3>1. Waiting(stack', called')
      BY <2>1, <2>2, WaitingNone
    <3> QED
      BY <2>1, <3>1 DEF StackInv, Waiting
  <2>5. clock' \in Times
    BY <1>2, <2>1 DEF Times
  <2>6. TypeFiles'
    BY <1>1, <2>1, <2>5 DEF TypeFiles
  <2>7. TypeConfigs'
    BY <1>1, <2>1 DEF TypeConfigs
  <2>8. FilesInv'
    BY <1>1, <1>5, FilesStart
  <2>9. ConfigInv'
    BY <2>1, <2>2, ConfigNone
  <2> QED
    BY <2>3, <2>4, <2>6, <2>7, <2>8, <2>9 DEF BuildParts
<1>6. ASSUME NEW f \in Files \cup {Script}, Edit(f)
      PROVE  BuildParts'
  <2>1. /\ Later < MaxClock /\ clock' = Later /\ src' = [src EXCEPT ![f] = Later]
        /\ UNCHANGED process /\ UNCHANGED kconfig /\ obj' = obj /\ elf' = elf /\ out' = out
    BY <1>6 DEF Edit
  <2>2. Later \in Times
    BY <1>2, <2>1 DEF Times
  <2>3. TypeFiles'
    BY <1>1, <2>1, <2>2 DEF TypeFiles
  <2>4. FilesInv'
    BY <1>1, <2>1, FilesAge
  <2> QED
    BY <1>3, <1>4, <2>1, <2>3, <2>4 DEF BuildParts
<1>7. CASE Tick
  <2>1. /\ Later <= MaxClock /\ clock' = Later /\ src' = src
        /\ UNCHANGED process /\ UNCHANGED kconfig /\ obj' = obj /\ elf' = elf /\ out' = out
    BY <1>7 DEF Tick
  <2>2. Later \in Times
    BY <1>2, <2>1 DEF Times
  <2>3. TypeFiles'
    BY <1>1, <2>1, <2>2 DEF TypeFiles
  <2>4. FilesInv'
    BY <1>1, <2>1, FilesAge
  <2> QED
    BY <1>3, <1>4, <2>1, <2>3, <2>4 DEF BuildParts
<1>8. CASE ReplaceSaved
  <2>1. /\ ~running /\ configs < MaxConfig /\ configs' = configs + 1
        /\ saved' = [edit |-> configs + 1, initrd |-> FALSE] /\ installed' = installed
        /\ UNCHANGED process /\ UNCHANGED project /\ out' = out
    BY <1>8 DEF ReplaceSaved
  <2>2. stack' = <<>> /\ called' = {}
    BY <1>1, <2>1, StackParts DEF process
  <2>3. ConfigInv'
    BY <2>2, ConfigNone
  <2>4. configs + 1 \in 0 .. MaxConfig
    BY <1>1, <1>2, <2>1 DEF TypeConfigs
  <2>5. [edit |-> configs + 1, initrd |-> FALSE] \in Configs
    <3>1. FALSE \in BOOLEAN
      OBVIOUS
    <3> QED
      BY <2>4, <3>1 DEF Configs
  <2>6. TypeConfigs'
    BY <1>1, <2>1, <2>4, <2>5 DEF TypeConfigs
  <2>7. TypeFiles'
    BY <1>1, <2>1 DEF TypeFiles, project
  <2>8. FilesInv'
    BY <1>1, <2>1, FilesIdle
  <2> QED
    BY <1>3, <2>1, <2>3, <2>6, <2>7, <2>8 DEF BuildParts
<1> QED
  BY <1>5, <1>6, <1>7, <1>8

\* Nothing has been built yet.
LEMMA BuildStarts ==
  ASSUME BuildAssumption, Init
  PROVE  BuildParts
<1>1. /\ running = FALSE /\ stack = <<>> /\ called = {} /\ clock = 1 /\ start = src
      /\ src = [f \in Files \cup {Script} |-> 0] /\ obj = [f \in Files |-> Absent]
      /\ elf = Absent /\ out = {} /\ installed = Absent /\ configs = 0
      /\ saved = [edit |-> 0, initrd |-> FALSE]
  BY DEF Init
<1>2. 0 \in Times /\ 1 \in Times /\ 0 \in 0 .. MaxConfig
  BY DEF Times, BuildAssumption
<1>3. TypeProcess
  <2>1. running \in BOOLEAN
    BY <1>1, Zenon
  <2>2. called \subseteq Targets /\ stack \in Seq(Frames)
    BY <1>1
  <2>3. start \in [Files \cup {Script} -> Times]
    BY <1>1, <1>2
  <2> QED
    BY <2>1, <2>2, <2>3 DEF TypeProcess
<1>4. TypeFiles
  BY <1>1, <1>2 DEF TypeFiles
<1>5. TypeConfigs
  <2>1. FALSE \in BOOLEAN
    OBVIOUS
  <2>2. saved \in Configs
    BY <1>1, <1>2, <2>1 DEF Configs
  <2> QED
    BY <1>1, <1>2, <2>2 DEF TypeConfigs
<1>6. StackInv
  <2>1. Waiting(stack, called)
    BY <1>1, WaitingNone
  <2> QED
    BY <1>1, <2>1, StackParts
<1>7. FilesInv
  <2>1. TimesInv /\ MadeInv
    BY <1>1 DEF TimesInv, MadeInv
  <2>2. Updated /\ Linked
    BY <1>1 DEF Updated, Linked, ElfFiles, Files
  <2> QED
    BY <2>1, <2>2, FilesParts
<1>8. ConfigInv
  BY <1>1 DEF ConfigInv, Doing, Past
<1> QED
  BY <1>3, <1>4, <1>5, <1>6, <1>7, <1>8 DEF BuildParts

\* A step of anything else changes nothing here.
LEMMA BuildStutters ==
  ASSUME BuildParts, UNCHANGED vars
  PROVE  BuildParts'
<1>1. UNCHANGED process /\ UNCHANGED project /\ out' = out /\ UNCHANGED kconfig
  BY DEF vars
<1>2. TypeProcess' /\ StackInv'
  BY <1>1 DEF BuildParts, TypeProcess, StackInv, process
<1>3. TypeFiles' /\ TypeConfigs'
  BY <1>1 DEF BuildParts, TypeFiles, TypeConfigs, project, kconfig
<1>4. FilesInv'
  BY <1>1, FilesIdle DEF BuildParts
<1>5. ConfigInv'
  BY <1>1, ConfigIdle DEF BuildParts, process, kconfig
<1> QED
  BY <1>2, <1>3, <1>4, <1>5 DEF BuildParts

\* The induction.
LEMMA BuildHolds == Spec => []BuildParts
<1> USE BuildAssumption
<1>1. Init => BuildParts
  BY BuildStarts
<1>2. BuildParts /\ [Next]_vars => BuildParts'
  <2>1. SUFFICES ASSUME BuildParts, [Next]_vars PROVE BuildParts'
    OBVIOUS
  <2>2. CASE UNCHANGED vars
    BY <2>1, <2>2, BuildStutters
  <2>3. CASE main \/ Interrupt \/ (\E t \in Targets : CallTarget(t)) \/ Return
    BY <2>1, <2>3, ProcessSteps
  <2>4. CASE \/ make_dirs \/ openssl \/ write_list \/ headers_install \/ link_hello
             \/ \E goal \in {"vmlinux", "bzImage", "clean"} : kernel_target(goal)
    BY <2>1, <2>4, OutputSteps
  <2>5. CASE (\E f \in Files : gcc_c(f)) \/ link_init \/ rmtree
    BY <2>1, <2>5, FileSteps
  <2>6. CASE copy_saved \/ config_modify \/ copy_installed \/ menuconfig
    BY <2>1, <2>6, ConfigSteps
  <2>7. CASE Invoke \/ (\E f \in Files \cup {Script} : Edit(f)) \/ Tick \/ ReplaceSaved
    BY <2>1, <2>7, UserSteps
  <2> QED
    BY <2>1, <2>2, <2>3, <2>4, <2>5, <2>6, <2>7 DEF Next
<1> QED
  BY <1>1, <1>2, PTL DEF Spec

-----------------------------------------------------------------------------
(* What follows.                                                           *)

\* The inductive invariant of the build script: types, so that no configuration
\* is made out of a file that does not exist; the calls in progress, as
\* requires() means them; what the files were made from; the configurations.
THEOREM BuildInvariant == Spec => []BuildInv
<1>1. BuildParts => BuildInv
  BY TypeParts DEF BuildParts, BuildInv
<1> QED
  BY <1>1, BuildHolds, PTL

\* No target of the script leads back to itself.
THEOREM NeverReenters == Spec => []NoReentry
<1>1. BuildParts => NoReentry
  <2>1. SUFFICES ASSUME BuildParts PROVE NoReentry
    OBVIOUS
  <2>2. stack \in Seq(Frames) /\ Waiting(stack, called)
    BY <2>1, StackParts DEF BuildParts, TypeProcess
  <2> QED
    BY <2>2, BuildAssumption, Distinct DEF NoReentry
<1> QED
  BY <1>1, BuildHolds, PTL

\* When init() has run, the program is linked from objects of everything that
\* was edited before the process started.
THEOREM ElfUpToDate == Spec => []ElfIsCurrent
<1>1. BuildParts => ElfIsCurrent
  BY DEF BuildParts, FilesInv, ElfIsCurrent
<1> QED
  BY <1>1, BuildHolds, PTL

\* kernel() builds the image from the saved configuration, with its options set
\* or not, or from the one that the menu of configure() has made in the same
\* process.
THEOREM KernelUsesSaved == Spec => []KernelFromSaved
<1>1. BuildParts => KernelFromSaved
  <2>1. SUFFICES ASSUME BuildParts, At(Do("bzImage"))
                 PROVE  \/ installed \in {saved, WithInitrd(saved)}
                        \/ "configure" \in called /\ installed.edit = configs
    BY DEF KernelFromSaved
  <2>2. TypeProcess /\ StackInv /\ ConfigInv /\ stack \in Seq(Frames)
    BY <2>1 DEF BuildParts, TypeProcess
  <2>3. /\ 1 \in 1 .. Len(stack) /\ Waiting(stack, called)
        /\ Fits(stack[1].target, stack[1].at, Do("bzImage"))
    BY <2>1, <2>2, BuildAssumption, AtFacts
  <2>4. stack[1].target = "kernel" /\ stack[1].at = 6
    BY <2>3 DEF Fits
  <2>5. "use_saved_config" \in called
    <3>1. availableTargets["kernel"][4] = Call("use_saved_config") /\ "use_saved_config" \in Targets
      BY TargetNames DEF availableTargets, kernel
    <3>2. 4 \in 1 .. (stack[1].at - 1)
      BY <2>4
    <3> QED
      BY <2>1, <2>2, <2>4, <3>1, <3>2, BuildAssumption, CalledBefore
  <2>6. Len(stack) = 1
    BY <2>2, <2>3, <2>4, BuildAssumption, Positions
  <2>7. ~PastIn(stack, "configure", 3)
    BY <2>4, <2>6 DEF PastIn
  <2> QED
    BY <2>2, <2>5, <2>7, ConfigParts
<1> QED
  BY <1>1, BuildHolds, PTL

\* The menu of configure() opens on the saved configuration, behind kernel()
\* perhaps with its options set.
THEOREM MenuUsesSaved == Spec => []MenuFromSaved
<1>1. BuildParts => MenuFromSaved
  <2>1. SUFFICES ASSUME BuildParts, At(Do("menuconfig"))
                 PROVE  \/ installed = saved
                        \/ "kernel" \in called /\ installed = WithInitrd(saved)
    BY DEF MenuFromSaved
  <2>2. TypeProcess /\ StackInv /\ ConfigInv /\ stack \in Seq(Frames)
    BY <2>1 DEF BuildParts, TypeProcess
  <2>3. /\ 1 \in 1 .. Len(stack) /\ Waiting(stack, called) /\ stack[1].target \notin called
        /\ Fits(stack[1].target, stack[1].at, Do("menuconfig"))
    BY <2>1, <2>2, BuildAssumption, AtFacts
  <2>4. stack[1].target = "configure" /\ stack[1].at = 2
    BY <2>3 DEF Fits
  <2>5. "use_saved_config" \in called
    <3>1. availableTargets["configure"][1] = Call("use_saved_config") /\ "use_saved_config" \in Targets
      BY TargetNames DEF availableTargets, configure
    <3>2. 1 \in 1 .. (stack[1].at - 1)
      BY <2>4
    <3> QED
      BY <2>1, <2>2, <2>4, <3>1, <3>2, BuildAssumption, CalledBefore
  <2>6. Len(stack) = 1
    BY <2>2, <2>3, <2>4, BuildAssumption, Positions
  <2>7. ~PastIn(stack, "configure", 3) /\ ~PastIn(stack, "kernel", 6)
    BY <2>4, <2>6 DEF PastIn
  <2> QED
    BY <2>1, <2>2, <2>3, <2>4, <2>5, <2>7, ConfigParts
<1> QED
  BY <1>1, BuildHolds, PTL
=============================================================================
