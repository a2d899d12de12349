-------------------------- MODULE NestedUseProofs --------------------------
(***************************************************************************)
(* More about ProcessTable, when no two programs of a run have the same    *)
(* file name: PTable::GetCurrentThreadId then finds the caller, and when   *)
(* every process joins a child before its next Exec and before Exit, Join  *)
(* returns the status the child gave to Exit and Remove takes a joined     *)
(* process from the table only.                                            *)
(***************************************************************************)
EXTENDS ProcessTableProofs

(* Zenon proves the leaves that name no prover; those with arithmetic or   *)
(* sequences name the SMT solver.                                          *)
USE ZenonT(60)

(* Inside of ExecUpdate before the new thread has its name. *)
Pending(t) == pc[t] \in {"exec", "execFork"}

(* No two of the processes and of the pending calls of Exec share a name. *)
NamesInv ==
  /\ \A t \in Thread : Pending(t) => frame[t].name # MainName
  /\ \A t \in Thread \ {MainThread} : Live(t) => file[t] # MainName
  /\ \A t, u \in Thread : Live(t) /\ Live(u) /\ file[t] = file[u] => t = u
  /\ \A t, u \in Thread : Pending(t) /\ Live(u) => frame[t].name # file[u]
  /\ \A t, u \in Thread : Pending(t) /\ Pending(u) /\ frame[t].name = frame[u].name => t = u

(* A pid is marked exactly while its process has not gone. *)
BitsInv == \A i \in Pid \ {0} : i \in bm <=> pcb[i] # NoThread /\ pc[pcb[i]] # "gone"

(***************************************************************************)
(* No process, finished or not, that the search meets before a process     *)
(* has the same name: lower pids were marked, so in use by others, when    *)
(* the process was made.                                                   *)
(***************************************************************************)
EarlierInv ==
  \A i, j \in Pid \ {0} : j < i /\ pcb[i] # NoThread /\ pcb[j] # NoThread =>
    /\ Live(pcb[i]) => file[pcb[i]] # file[pcb[j]]
    /\ \A t \in Thread : pc[t] = "execFork" /\ frame[t].id = i => frame[t].name # file[pcb[j]]

(* The pid that ExitUpdate has found is the caller's own. *)
OwnPid(t) == pc[t] \in {"exitWait", "remove"} => pcb[frame[t].me] = t

(* The inductive invariant when no two processes share a name. *)
UniqueInv ==
  AnyInv /\ NamesInv /\ BitsInv /\ EarlierInv /\ \A t \in Thread : OwnPid(t)

(* GetCurrentThreadId finds the caller. *)
LEMMA FindsCaller ==
  ASSUME UniqueInv, outcome = "none", NEW c \in Thread, Live(c)
  PROVE  IsExist(GetCurrentThreadId(c)) /\ pcb[GetCurrentThreadId(c)] = c
<1>1. 0 \in Pid /\ pcb[0] = MainThread /\ Pid \subseteq Nat
  BY SMTT(60), ProcessAssumption DEF UniqueInv, AnyInv, MainInv, Pid
<1>2. CASE c = MainThread
  BY <1>1, <1>2, ThreadAssumption DEF IsExist, GetCurrentThreadId, ThreadName
<1>3. CASE c # MainThread
  <2>1. ThreadName(c) = file[c] /\ ThreadName(c) # MainName
    BY <1>3 DEF ThreadName, UniqueInv, NamesInv
  <2>2. PICK i \in Pid : pcb[i] = c
    BY DEF UniqueInv, AnyInv, PidInv, TypesInv
  <2>3. i # 0
    BY <1>1, <1>3, <2>2
  <2>4. i \in Matches(c)
    BY <2>1, <2>2, <2>3, ThreadAssumption DEF Matches, IsExist
  <2>5. ASSUME NEW j \in Matches(c) PROVE i <= j
    <3>1. j \in Pid \ {0} /\ pcb[j] # NoThread /\ file[pcb[j]] = file[c]
      BY <2>1 DEF Matches, IsExist
    <3>2. ~(j < i)
      BY <2>2, <2>3, <3>1, ThreadAssumption DEF UniqueInv, EarlierInv
    <3> QED
      BY SMTT(60), <1>1, <3>1, <3>2
  <2>6. Matches(c) \subseteq Nat
    BY <1>1 DEF Matches
  <2>7. Min(Matches(c)) = i
    BY SMTT(60), <2>4, <2>5, <2>6 DEF Min
  <2>8. GetCurrentThreadId(c) = i
    BY <2>1, <2>4, <2>7 DEF GetCurrentThreadId
  <2> QED
    BY <2>2, <2>8, ThreadAssumption DEF IsExist
<1> QED
  BY <1>2, <1>3

LEMMA InitUniqueInv == PInit => UniqueInv
<1> SUFFICES ASSUME PInit PROVE UniqueInv
  OBVIOUS
<1>1. AnyInv
  BY InitAnyInv
<1>2. /\ \A t \in Thread : pc[t] = IF t = MainThread THEN "load" ELSE "none"
      /\ \A i \in Pid : pcb[i] = IF i = 0 THEN MainThread ELSE NoThread
      /\ bm = {0}
  BY DEF PInit, LoadMainThread, MainPidMarked
<1> QED
  BY <1>1, <1>2, ThreadAssumption
     DEF UniqueInv, NamesInv, BitsInv, EarlierInv, OwnPid, Pending, Live

(***************************************************************************)
(* Steps that leave the table alone, and start and end no program: at most *)
(* a pending call of Exec comes to its end.                                *)
(***************************************************************************)
LEMMA UniqueKept ==
  ASSUME UniqueInv, AnyInv', UNCHANGED <<pcb, bm, file>>,
         \A t \in Thread :
           /\ pc'[t] \in {"none", "gone"} \/ pc[t] \in {"none", "gone"} => pc'[t] = pc[t]
           /\ Pending(t)' => Pending(t) /\ frame'[t] = frame[t]
           /\ pc'[t] = "execFork" => pc[t] = "execFork"
           /\ OwnPid(t)'
  PROVE  UniqueInv'
<1>1. \A t \in Thread : Live(t)' <=> Live(t)
  BY DEF Live
<1>2. NamesInv'
  BY SMTT(60), <1>1 DEF UniqueInv, NamesInv
<1>3. \A i \in Pid : pcb[i] # NoThread => pcb[i] \in Thread
  BY DEF UniqueInv, AnyInv, TypesInv
<1>4. BitsInv'
  BY <1>3 DEF UniqueInv, BitsInv
<1>5. EarlierInv'
  BY SMTT(60), <1>1, <1>3 DEF UniqueInv, EarlierInv, Pending
<1> QED
  BY <1>2, <1>4, <1>5 DEF UniqueInv

(* Exec with a name that is not in use. *)
LEMMA ExecUniqueInv ==
  ASSUME UniqueInv, AnyInv', UniqueNames, NEW p \in Name, Exec(p)
  PROVE  UniqueInv'
<1>1. PICK c \in Thread : c = currentThread /\ mode = "running" /\ pc[c] = "user"
  BY Running DEF Exec, At, UniqueInv
<1>2. /\ pc' = [pc EXCEPT ![c] = "exec"] /\ UNCHANGED <<pcb, bm, file>>
      /\ frame' = [frame EXCEPT ![c] = [NoFrame EXCEPT !.name = p]]
      /\ p # MainName /\ \A t \in Thread : Live(t) => file[t] # p /\ frame[t].name # p
  BY <1>1 DEF Exec, Enter, Goto, SetFrame, table, heap, InUse
<1>3. /\ pc'[c] = "exec" /\ \A t \in Thread : t # c => pc'[t] = pc[t] /\ frame'[t] = frame[t]
      /\ frame'[c].name = p
  BY <1>2 DEF UniqueInv, AnyInv, TypesInv, NoFrame
<1>4. \A t \in Thread : /\ Live(t)' <=> Live(t)
                        /\ t # c => (Pending(t)' <=> Pending(t))
                        /\ Pending(t) => Live(t)
  BY <1>1, <1>3 DEF Live, Pending
<1>5. NamesInv'
  BY SMTT(60), <1>2, <1>3, <1>4 DEF UniqueInv, NamesInv
<1>6. \A i \in Pid : pcb[i] # NoThread => pcb[i] \in Thread
  BY DEF UniqueInv, AnyInv, TypesInv
<1>7. BitsInv'
  BY <1>1, <1>2, <1>3, <1>6 DEF UniqueInv, BitsInv
<1>8. EarlierInv'
  BY SMTT(60), <1>2, <1>3, <1>4, <1>6 DEF UniqueInv, EarlierInv
<1>9. (\A t \in Thread : OwnPid(t))'
  BY <1>2, <1>3 DEF UniqueInv, OwnPid
<1> QED
  BY <1>5, <1>7, <1>8, <1>9 DEF UniqueInv

(* The PCB of a new process: the pids before its own belong to processes with other names. *)
LEMMA ExecCreateUniqueInv ==
  ASSUME UniqueInv, AnyInv', NEW x \in Thread, NEW c \in Thread, NEW g \in Pid, ExecCreates(c, x, g)
  PROVE  UniqueInv'
<1>1. /\ pc'[c] = "execFork" /\ \A t \in Thread : t # c => pc'[t] = pc[t] /\ frame'[t] = frame[t]
      /\ pcb'[g] = x /\ \A j \in Pid : j # g => pcb'[j] = pcb[j]
      /\ frame'[c].name = frame[c].name /\ frame'[c].id = g
      /\ c # x /\ pc[x] = "none" /\ pc[c] = "exec"
      /\ UNCHANGED file /\ bm' = bm \cup {g} /\ g \notin bm /\ g # 0
      /\ file[x] = NoName
  BY DEF UniqueInv, AnyInv, TypesInv, ExecCreates, StatusInv
<1>2. \A t \in Thread : (Live(t)' <=> Live(t)) /\ (Pending(t)' <=> Pending(t))
  BY <1>1 DEF Live, Pending
<1>3. \A i \in Pid : pcb[i] # NoThread => pcb[i] \in Thread /\ pcb[i] # x
  BY DEF UniqueInv, AnyInv, TypesInv, ExecCreates
<1>4. NamesInv'
  BY SMTT(60), <1>1, <1>2 DEF UniqueInv, NamesInv
<1>5. BitsInv'
  BY SMTT(60), <1>1, <1>3, ThreadAssumption DEF UniqueInv, BitsInv
<1>6. (\A t \in Thread : OwnPid(t))'
  <2> SUFFICES ASSUME NEW t \in Thread, pc'[t] \in {"exitWait", "remove"}
               PROVE  pcb'[frame'[t].me] = t
    BY DEF OwnPid
  <2>1. pc[t] = pc'[t] /\ frame'[t] = frame[t] /\ pcb[frame[t].me] = t /\ frame[t].me \in Pid \ {0}
    BY <1>1 DEF UniqueInv, OwnPid, AnyInv, FrameOk
  <2>2. frame[t].me \in bm
    BY <2>1, ThreadAssumption DEF UniqueInv, BitsInv
  <2> QED
    BY <1>1, <2>1, <2>2
<1>7. EarlierInv'
  <2>1. \A t \in Thread : pc'[t] = "execFork" => t = c
    BY <1>1, OneInExec DEF UniqueInv, ExecCreates, ExecLabels
  <2>2. ASSUME NEW j \in Pid \ {0}, j < g, pcb[j] # NoThread
        PROVE  frame[c].name # file[pcb[j]]
    <3>1. j \in bm
      BY <2>2 DEF ExecCreates
    <3>2. pcb[j] \in Thread /\ Live(pcb[j])
      <4>1. pc[pcb[j]] # "gone"
        BY <2>2, <3>1 DEF UniqueInv, BitsInv
      <4>2. pc[pcb[j]] # "none"
        BY SMTT(60), <2>2, OneInExec DEF UniqueInv, AnyInv, HalfMade, ExecCreates, ExecLabels
      <4> QED
        BY <1>3, <2>2, <4>1, <4>2 DEF Live
    <3> QED
      BY <1>1, <3>2 DEF UniqueInv, NamesInv, Pending
  <2>3. ASSUME NEW i \in Pid \ {0}, NEW j \in Pid \ {0}, j < i, pcb'[i] # NoThread, pcb'[j] # NoThread,
               Live(pcb[i])'
        PROVE  file'[pcb'[i]] # file'[pcb'[j]]
    <3>1. i # g
      BY <1>1, <2>3 DEF Live
    <3>2. pcb'[i] = pcb[i] /\ Live(pcb[i])
      BY <1>1, <1>2, <1>3, <2>3, <3>1
    <3>3. CASE j = g
      BY <1>1, <1>3, <2>3, <3>2, <3>3 DEF UniqueInv, AnyInv, StatusInv, Live
    <3>4. CASE j # g
      BY SMTT(60), <1>1, <2>3, <3>2, <3>4 DEF UniqueInv, EarlierInv
    <3> QED
      BY <3>3, <3>4
  <2>4. ASSUME NEW i \in Pid \ {0}, NEW j \in Pid \ {0}, j < i, pcb'[j] # NoThread,
               NEW t \in Thread, pc'[t] = "execFork", frame'[t].id = i
        PROVE  frame'[t].name # file'[pcb'[j]]
    <3>1. t = c /\ i = g /\ j # g
      BY SMTT(60), <1>1, <2>1, <2>4 DEF Pid
    <3>2. pcb'[j] = pcb[j]
      BY <1>1, <3>1
    <3> QED
      BY <1>1, <2>2, <2>4, <3>1, <3>2
  <2> QED
    BY <2>3, <2>4 DEF EarlierInv
<1> QED
  BY <1>4, <1>5, <1>6, <1>7 DEF UniqueInv

(* The new thread gets its name. *)
LEMMA ExecForkUniqueInv ==
  ASSUME UniqueInv, AnyInv', NEW c \in Thread, NEW x \in Thread, ExecForks(c, x)
  PROVE  UniqueInv'
<1>1. /\ pc'[c] = "execUnlock" /\ pc'[x] = "load" /\ c # x
      /\ \A t \in Thread : t \notin {c, x} => pc'[t] = pc[t]
      /\ file'[x] = frame[c].name /\ \A t \in Thread : t # x => file'[t] = file[t]
      /\ UNCHANGED <<pcb, bm, frame>>
      /\ pc[x] = "none" /\ pc[c] = "execFork" /\ x = frame[c].this
    BY DEF UniqueInv, AnyInv, TypesInv, ExecForks
<1>2. \A t \in Thread : /\ Live(t)' <=> Live(t) \/ t = x
                        /\ Pending(t)' <=> Pending(t) /\ t # c
                        /\ pc'[t] # "execFork"
  BY <1>1, OneInExec DEF Live, Pending, ExecForks, ExecLabels, UniqueInv
<1>3. \A i \in Pid : /\ pcb[i] # NoThread => pcb[i] \in Thread
                     /\ pcb[i] = x <=> i = frame[c].id
  BY SMTT(60), <1>1 DEF UniqueInv, AnyInv, TypesInv, HalfMade
<1>4. Pending(c) /\ ~Live(x) /\ x # MainThread
  BY <1>1 DEF Pending, Live, UniqueInv, AnyInv, MainInv
<1>5. NamesInv'
  BY SMTT(60), <1>1, <1>2, <1>4 DEF UniqueInv, NamesInv
<1>6. BitsInv'
  BY <1>1, <1>3 DEF UniqueInv, BitsInv
<1>7. EarlierInv'
  <2> SUFFICES ASSUME NEW i \in Pid \ {0}, NEW j \in Pid \ {0}, j < i,
                      pcb[i] # NoThread, pcb[j] # NoThread, Live(pcb[i])'
               PROVE  file'[pcb[i]] # file'[pcb[j]]
    BY <1>1, <1>2 DEF EarlierInv
  <2>1. CASE pcb[i] = x
    <3>1. pcb[j] # x /\ pcb[j] \in Thread /\ i = frame[c].id
      BY SMTT(60), <1>3, <2>1 DEF Pid
    <3> QED
      BY SMTT(60), <1>1, <2>1, <3>1 DEF UniqueInv, EarlierInv
  <2>2. CASE pcb[i] # x
    <3>1. pcb[i] \in Thread /\ Live(pcb[i])
      BY <1>1, <1>2, <1>3, <2>2
    <3>2. CASE pcb[j] = x
      BY <1>1, <1>4, <2>2, <3>1, <3>2 DEF UniqueInv, NamesInv
    <3>3. CASE pcb[j] # x
      BY <1>1, <1>3, <2>2, <3>1, <3>3 DEF UniqueInv, EarlierInv
    <3> QED
      BY <3>2, <3>3
  <2> QED
    BY <2>1, <2>2
<1>8. (\A t \in Thread : OwnPid(t))'
  BY <1>1 DEF UniqueInv, OwnPid
<1> QED
  BY <1>5, <1>6, <1>7, <1>8 DEF UniqueInv

(* Remove, of the caller's own pid. *)
Removes(c) ==
  /\ c = currentThread /\ mode = "running" /\ pc[c] = "remove"
  /\ Finish
  /\ pc' = [pc EXCEPT ![c] = "gone"]
  /\ frame' = [frame EXCEPT ![c] = NoFrame]
  /\ bm' = bm \ {frame[c].me}
  /\ UNCHANGED <<pcb, file, exitcode, exited, joining, outstanding, outcome>>

LEMMA RemoveEffect ==
  ASSUME UniqueInv, Remove
  PROVE  \E c \in Thread : Removes(c)
<1>1. PICK c \in Thread : c = currentThread /\ mode = "running" /\ pc[c] = "remove"
  BY Running DEF Remove, At, UniqueInv
<1>2. pcb[frame[c].me] = c
  BY <1>1 DEF UniqueInv, OwnPid
<1> QED
  BY <1>1, <1>2 DEF Remove, Removes, Goto, SetFrame, heap, history

LEMMA RemoveUniqueInv ==
  ASSUME UniqueInv, AnyInv', NEW c \in Thread, Removes(c)
  PROVE  UniqueInv'
<1>1. /\ pc'[c] = "gone" /\ \A t \in Thread : t # c => pc'[t] = pc[t] /\ frame'[t] = frame[t]
      /\ UNCHANGED <<pcb, file>> /\ pc[c] = "remove" /\ bm' = bm \ {frame[c].me}
      /\ pcb[frame[c].me] = c /\ frame[c].me \in Pid \ {0}
      /\ outcome = "none"
  BY SMTT(60), Running DEF UniqueInv, AnyInv, TypesInv, Removes, OwnPid, FrameOk
<1>2. \A t \in Thread : /\ Live(t)' <=> Live(t) /\ t # c
                        /\ Pending(t)' <=> Pending(t)
                        /\ Pending(t) => t # c
  BY <1>1 DEF Live, Pending
<1>3. \A i \in Pid : /\ pcb[i] # NoThread => pcb[i] \in Thread
                     /\ pcb[i] = c <=> i = frame[c].me
  <2>1. PICK k \in bm : \A j \in Pid : pcb[j] = c <=> j = k
    BY <1>1 DEF UniqueInv, AnyInv, PidInv, Live
  <2> QED
    BY <1>1, <2>1 DEF UniqueInv, AnyInv, TypesInv
<1>4. NamesInv'
  BY SMTT(60), <1>1, <1>2 DEF UniqueInv, NamesInv
<1>5. BitsInv'
  BY <1>1, <1>3 DEF UniqueInv, BitsInv
<1>6. EarlierInv'
  BY SMTT(60), <1>1, <1>2, <1>3 DEF UniqueInv, EarlierInv
<1>7. (\A t \in Thread : OwnPid(t))'
  BY <1>1 DEF UniqueInv, OwnPid
<1> QED
  BY <1>4, <1>5, <1>6, <1>7 DEF UniqueInv

(* Load, Join, Exit and the failing calls; Exit finds its own pid. *)
LEMMA PlainUniqueInv ==
  ASSUME UniqueInv, AnyInv',
         \/ Load \/ Allocate \/ ExecNoName
         \/ \E i \in Pid \cup {-1} : Join(i) \/ JoinRefused(i)
         \/ JoinCount \/ JoinWait \/ JoinUncount \/ JoinRelease \/ JoinReturn
         \/ \E x \in ExitCode : Exit(x)
         \/ ExitWait
  PROVE  UniqueInv'
<1>1. PICK c \in Thread, l \in PlainLabels : PlainStep(c, l)
  BY PlainSteps DEF UniqueInv
<1>2. /\ c = currentThread /\ mode = "running"
      /\ pc[c] \notin {"none", "gone", "exec", "execFork"}
      /\ l \notin {"none", "gone", "exec", "execFork"}
      /\ pc'[c] = l /\ \A t \in Thread : t # c => pc'[t] = pc[t] /\ frame'[t] = frame[t]
      /\ UNCHANGED <<pcb, bm, file>>
  BY <1>1 DEF PlainStep, PlainLabels, JoinLabels, UniqueInv, AnyInv, TypesInv
<1>3. OwnPid(c)'
  <2>1. CASE \E x \in ExitCode : Exit(x)
    <3>1. pcb[Caller] = c
      BY <1>2, FindsCaller, Running DEF Caller, Live, UniqueInv
    <3>2. frame' = [frame EXCEPT ![c] = [NoFrame EXCEPT !.me = Caller]]
      BY <1>2, <2>1 DEF Exit, Enter, SetFrame
    <3>3. frame'[c].me = Caller
      BY <3>2 DEF UniqueInv, AnyInv, TypesInv, NoFrame
    <3> QED
      BY <1>2, <3>1, <3>3 DEF OwnPid
  <2>2. CASE ExitWait
    BY <1>2, <2>2 DEF ExitWait, At, OwnPid, UniqueInv
  <2>3. CASE ~ExitWait /\ ~\E x \in ExitCode : Exit(x)
    <3>1. \E q \in Labels \ {"exitWait", "remove"} : pc' = [pc EXCEPT ![c] = q]
      BY <1>2, <2>3
         DEF Load, Allocate, ExecNoName, Join, JoinRefused, JoinCount, JoinWait, JoinUncount,
             JoinRelease, JoinReturn, Goto, Return, Enter, Labels, PlainLabels, JoinLabels
    <3>2. pc'[c] \notin {"exitWait", "remove"}
      BY <3>1 DEF UniqueInv, AnyInv, TypesInv
    <3> QED
      BY <3>2 DEF OwnPid
  <2> QED
    BY <2>1, <2>2, <2>3
<1>4. \A t \in Thread :
        /\ pc'[t] \in {"none", "gone"} \/ pc[t] \in {"none", "gone"} => pc'[t] = pc[t]
        /\ Pending(t)' => Pending(t) /\ frame'[t] = frame[t]
        /\ pc'[t] = "execFork" => pc[t] = "execFork"
        /\ OwnPid(t)'
  BY <1>2, <1>3 DEF Pending, OwnPid, UniqueInv
<1> QED
  BY <1>2, <1>4, UniqueKept

(* Every step preserves the invariant, when no two processes share a name. *)
LEMMA UniqueStep ==
  ASSUME UniqueInv, [PNext]_allvars, UniqueNames
  PROVE  UniqueInv'
<1>1. AnyInv'
  BY AnyStep DEF UniqueInv
<1>2. CASE \/ Load \/ Allocate \/ ExecNoName
           \/ \E i \in Pid \cup {-1} : Join(i) \/ JoinRefused(i)
           \/ JoinCount \/ JoinWait \/ JoinUncount \/ JoinRelease \/ JoinReturn
           \/ \E x \in ExitCode : Exit(x)
           \/ ExitWait
  BY <1>1, <1>2, PlainUniqueInv
<1>3. CASE \E p \in Name : Exec(p)
  BY <1>1, <1>3, ExecUniqueInv
<1>4. CASE ExecRefused \/ ExecDone \/ ExecUnlock
  <2>1. PICK c \in Thread : c = currentThread /\ pc[c] \in ExecLabels
    BY <1>4, Running DEF ExecRefused, ExecDone, ExecUnlock, At, ExecLabels, UniqueInv
  <2>2. PICK l \in {"user", "execDone"} : pc' = [pc EXCEPT ![c] = l]
    BY <1>4, <2>1 DEF ExecRefused, ExecDone, ExecUnlock, Return, Goto
  <2>3. \A t \in Thread : t # c => frame'[t] = frame[t]
    BY <1>4, <2>1
       DEF ExecRefused, ExecDone, ExecUnlock, Return, SetFrame, UniqueInv, AnyInv, TypesInv
  <2>4. UNCHANGED <<pcb, bm, file>>
    BY <1>4 DEF ExecRefused, ExecDone, ExecUnlock, table, heap
  <2>5. pc'[c] = l /\ \A t \in Thread : t # c => pc'[t] = pc[t]
    BY <2>2 DEF UniqueInv, AnyInv, TypesInv
  <2> QED
    BY <1>1, <2>1, <2>3, <2>4, <2>5, UniqueKept DEF Pending, OwnPid, ExecLabels, UniqueInv
<1>5. CASE \E x \in Thread : ExecCreate(x)
  BY <1>1, <1>5, ExecCreateEffect, ExecCreateUniqueInv DEF UniqueInv
<1>6. CASE ExecFork
  BY <1>1, <1>6, ExecForkEffect, ExecForkUniqueInv DEF UniqueInv
<1>7. CASE Remove
  BY <1>1, <1>7, RemoveEffect, RemoveUniqueInv
<1>8. CASE LoadFailed \/ ExitMain \/ CallFaults \/ UserException \/ Kernel(KernelNext) \/ UNCHANGED allvars
  <2>1. UNCHANGED <<pcb, bm, file, pc, frame>>
    BY <1>8 DEF LoadFailed, ExitMain, CallFaults, UserException, Stop, Kernel, allvars, pvars,
                table, heap
  <2> QED
    BY <1>1, <2>1, UniqueKept DEF Pending, OwnPid, UniqueInv
<1> QED
  BY <1>2, <1>3, <1>4, <1>5, <1>6, <1>7, <1>8 DEF PNext, SystemCall, InKernel

(* The invariant of the process table when no two processes share a name. *)
THEOREM UniqueNamesInvariant == UniqueNames => (PSpec => []UniqueInv)
<1> SUFFICES ASSUME UniqueNames PROVE PSpec => []UniqueInv
  OBVIOUS
<1>1. PInit => UniqueInv
  BY InitUniqueInv
<1>2. UniqueInv /\ [PNext]_allvars => UniqueInv'
  BY UniqueStep
<1> QED
  BY <1>1, <1>2, PTL DEF PSpec

(***************************************************************************)
(* GetCurrentThreadId identifies the caller of a system call as itself,    *)
(* although it compares names and meets the PCBs of finished processes.    *)
(***************************************************************************)
THEOREM CallerAlwaysSelf == UniqueNames => (PSpec => []CallerIsSelf)
<1> SUFFICES ASSUME UniqueNames PROVE PSpec => []CallerIsSelf
  OBVIOUS
<1>1. UniqueInv => CallerIsSelf
  <2> SUFFICES ASSUME UniqueInv, At("user"), ~ScanFaults(currentThread)
               PROVE  ~CallerFaults /\ pcb[Caller] = currentThread
    BY DEF CallerIsSelf
  <2>1. PICK c \in Thread : c = currentThread /\ pc[c] = "user" /\ outcome = "none"
    BY Running DEF At, UniqueInv
  <2> QED
    BY <2>1, FindsCaller DEF Live, CallerFaults, Caller
<1>2. PSpec => []UniqueInv
  BY UniqueNamesInvariant
<1> QED
  BY <1>1, <1>2, PTL

-----------------------------------------------------------------------------
HistoryTypes ==
  /\ outstanding \in [Thread -> SUBSET Thread]
  /\ joining \in [Thread -> Thread \cup {NoThread}]
  /\ exitcode \in [Thread -> Int]
  /\ exited \in [Thread -> Int \cup {NoName}]
  /\ result \in [Thread -> Int]

(* The processes that may not go yet: the first one, and a child until it is joined. *)
Unjoined(x) == x = MainThread \/ \E p \in Thread : x \in outstanding[p]

(***************************************************************************)
(* The unjoined processes form a chain from the first process to the one   *)
(* that has no child, which alone can call Exec or Exit, or be at the end  *)
(* of a Join: so no pid is given away between the exit of a child and the  *)
(* moment Join reads the exit code in the table.                           *)
(***************************************************************************)
ChainInv ==
  /\ \A p \in Thread : MainThread \notin outstanding[p]
  /\ \A p, q, x \in Thread : x \in outstanding[p] /\ x \in outstanding[q] => p = q
  /\ \A p, x, y \in Thread : x \in outstanding[p] /\ y \in outstanding[p] => x = y
  /\ \A p, x \in Thread : x \in outstanding[p] /\ pc[x] = "none" =>
       pc[p] = "execFork" /\ frame[p].this = x
  /\ \A p \in Thread : pc[p] = "execFork" => frame[p].this \in outstanding[p]
  /\ \A p \in Thread : pc[p] \in {"none", "exec", "joinReturn"} \cup Over => outstanding[p] = {}
  /\ \A x, y \in Thread : Unjoined(x) /\ Unjoined(y) /\ outstanding[x] = {} /\ outstanding[y] = {}
       => x = y
  /\ \A t \in Thread : pc[t] \notin {"none"} \cup Over => Unjoined(t)

(***************************************************************************)
(* joinsem and exitsem of a PCB: only the parent sleeps on the one and the *)
(* process itself on the other; joinsem has no unit before Exit, and       *)
(* exitsem has none before the process is joined, so it cannot go.         *)
(***************************************************************************)
UnitsInv ==
  /\ \A t, x \in Thread : waitingOn[t] = Exitsem(x) => t = x /\ pc[t] = "remove"
  /\ \A t, x \in Thread : waitingOn[t] = Joinsem(x) => pc[t] = "joinUncount" /\ x = joining[t]
  /\ \A t \in Thread : pc[t] = "none" \/ Unjoined(t) =>
       /\ value[Exitsem(t)] = 0 /\ pc[t] # "gone"
       /\ pc[t] = "remove" => waitingOn[t] = Exitsem(t)
  /\ \A t \in Thread : pc[t] \notin Over => value[Joinsem(t)] = 0
  /\ \A t \in Thread : pc[t] \in Over => exitcode[t] = exited[t]

(* A thread in Join: the pid in its frame is that of its child, which is over after JoinWait. *)
JoinOk(p) ==
  /\ pc[p] \in JoinLabels => joining[p] \in Thread /\ pcb[frame[p].id] = joining[p]
  /\ pc[p] \in JoinLabels \ {"joinReturn"} => joining[p] \in outstanding[p]
  /\ \/ pc[p] \in {"joinUncounted", "joinRelease", "joinReturn"}
     \/ pc[p] = "joinUncount" /\ waitingOn[p] # Joinsem(joining[p])
     => pc[joining[p]] \in Over

(* The inductive invariant when also every child is joined before the next Exec and Exit. *)
NestedFacts == ChainInv /\ UnitsInv /\ \A p \in Thread : JoinOk(p)
NestedInv == UniqueInv /\ HistoryTypes /\ (nested => NestedFacts)

LEMMA InitNestedInv == PInit => NestedInv
<1> SUFFICES ASSUME PInit PROVE NestedInv
  OBVIOUS
<1>1. UniqueInv
  BY InitUniqueInv
<1>2. /\ \A t \in Thread : /\ pc[t] = IF t = MainThread THEN "load" ELSE "none"
                           /\ outstanding[t] = {}
                           /\ waitingOn[t] = NoSemaphore
                           /\ value[Exitsem(t)] = 0 /\ value[Joinsem(t)] = 0
  BY ProcessAssumption
     DEF PInit, LoadMainThread, Init, SemaphoreInit, ProcessSemaphores, Exitsem, Joinsem
<1>3. HistoryTypes
  BY SMTT(60) DEF PInit, HistoryTypes
<1>4. ChainInv
  BY <1>2 DEF ChainInv, Unjoined, Over
<1>5. UnitsInv
  BY SMTT(60), <1>2, SemaphoresDiffer DEF UnitsInv, Over
<1>6. \A p \in Thread : JoinOk(p)
  BY <1>2 DEF JoinOk, JoinLabels
<1> QED
  BY <1>1, <1>3, <1>4, <1>5, <1>6 DEF NestedInv, NestedFacts

(* Register 2, the exit codes and the history variables keep their types. *)
LEMMA HistoryStep ==
  ASSUME NestedInv, [PNext]_allvars
  PROVE  HistoryTypes' /\ nested' = nested
<1>1. nested' = nested
  BY DEF PNext, Kernel, allvars, pvars
<1> SUFFICES HistoryTypes'
  BY <1>1
<1>2. currentThread \in Thread
  BY DEF NestedInv, UniqueInv, AnyInv, IInv, TypeOK
<1>3. /\ outstanding \in [Thread -> SUBSET Thread]
      /\ joining \in [Thread -> Thread \cup {NoThread}]
      /\ exitcode \in [Thread -> Int]
      /\ exited \in [Thread -> Int \cup {NoName}]
      /\ result \in [Thread -> Int]
      /\ \A i \in Pid : pcb[i] \in Thread \cup {NoThread}
      /\ frame[currentThread] \in Frames
      /\ FrameOk(currentThread)
  BY <1>2 DEF NestedInv, HistoryTypes, UniqueInv, AnyInv, TypesInv
<1>4. CASE UNCHANGED <<history, exitcode, result>>
  BY <1>3, <1>4 DEF HistoryTypes, history
<1>5. /\ 0 \in Int
      /\ \A x \in Int : Return(x) \/ result' = [result EXCEPT ![currentThread] = x]
                         => result' \in [Thread -> Int]
  BY SMTT(60), <1>3 DEF Return
<1>6. CASE \/ ExecNoName \/ \E i \in Pid \cup {-1} : JoinRefused(i)
           \/ ExecRefused \/ ExecDone \/ \E p \in Name : Exec(p)
  <2>1. result' \in [Thread -> Int]
    <3>1. -1 \in Int /\ 0 \in Int /\ frame[currentThread].id \in Int
      BY SMTT(60), <1>3 DEF Frames
    <3>2. CASE ExecNoName \/ ExecRefused \/ \E i \in Pid \cup {-1} : JoinRefused(i)
      BY <1>5, <3>1, <3>2 DEF ExecNoName, ExecRefused, JoinRefused
    <3>3. CASE ExecDone
      BY <1>5, <3>1, <3>3 DEF ExecDone
    <3>4. CASE \E p \in Name : Exec(p)
      BY <1>5, <3>1, <3>4 DEF Exec, Enter
    <3> QED
      BY <1>6, <3>2, <3>3, <3>4
  <2>2. UNCHANGED <<history, exitcode>>
    BY <1>6 DEF ExecNoName, JoinRefused, ExecRefused, ExecDone, Exec, heap
  <2> QED
    BY <1>3, <2>1, <2>2 DEF HistoryTypes, history
<1>7. CASE JoinReturn
  <2>1. pcb[frame[currentThread].id] \in Thread
    BY <1>3, <1>7 DEF JoinReturn, At, FrameOk, JoinLabels
  <2>2. result' \in [Thread -> Int]
    BY <1>3, <1>5, <1>7, <2>1 DEF JoinReturn
  <2> QED
    BY <1>3, <1>7, <2>2 DEF HistoryTypes, JoinReturn, heap
<1>8. CASE \E i \in Pid \cup {-1} : Join(i)
  <2>1. PICK i \in Pid : Join(i) /\ pcb[i] \in Thread
    BY <1>3, <1>8 DEF Join, IsExist
  <2>2. /\ result' = [result EXCEPT ![currentThread] = 0]
        /\ joining' = [joining EXCEPT ![currentThread] = pcb[i]]
        /\ UNCHANGED <<exitcode, exited, outstanding>>
    BY <2>1 DEF Join, Enter, heap
  <2>3. result' \in [Thread -> Int]
    BY <1>5, <2>2
  <2>4. joining' \in [Thread -> Thread \cup {NoThread}]
    BY <1>3, <2>1, <2>2
  <2> QED
    BY <1>3, <2>2, <2>3, <2>4 DEF HistoryTypes
<1>9. CASE \E x \in ExitCode : Exit(x)
  <2>1. PICK x \in ExitCode : Exit(x) /\ x \in Int
    BY <1>9, ProcessAssumption
  <2>2. PICK k \in Pid : k = Caller /\ pcb[k] \in Thread
    BY <1>3, <2>1 DEF Exit, CallerFaults, IsExist
  <2>3. exitcode' \in [Thread -> Int]
    BY <1>3, <2>1, <2>2 DEF Exit, SetExitCode
  <2>4. /\ result' = [result EXCEPT ![currentThread] = 0]
        /\ exited' = [exited EXCEPT ![currentThread] = x]
        /\ UNCHANGED <<joining, outstanding>>
    BY <2>1 DEF Exit, Enter
  <2>5. result' \in [Thread -> Int]
    BY <1>5, <2>4
  <2>6. exited' \in [Thread -> Int \cup {NoName}]
    BY <1>3, <2>1, <2>4
  <2> QED
    BY <1>3, <2>3, <2>4, <2>5, <2>6 DEF HistoryTypes
<1>10. CASE JoinRelease \/ \E x \in Thread : ExecCreate(x)
  <2>1. \E S \in SUBSET Thread : outstanding' = [outstanding EXCEPT ![currentThread] = S]
    <3>1. CASE JoinRelease
      BY <1>2, <1>3, <3>1 DEF JoinRelease
    <3>2. CASE \E x \in Thread : ExecCreate(x)
      <4>1. PICK x \in Thread :
              outstanding' = [outstanding EXCEPT ![currentThread] = outstanding[currentThread] \cup {x}]
        BY <3>2 DEF ExecCreate
      <4> QED
        BY <1>2, <1>3, <4>1
    <3> QED
      BY <1>10, <3>1, <3>2
  <2>2. UNCHANGED <<joining, exitcode, exited, result>>
    BY <1>10 DEF JoinRelease, ExecCreate, heap
  <2>3. outstanding' \in [Thread -> SUBSET Thread]
    BY <1>3, <2>1 DEF HistoryTypes
  <2> QED
    BY <1>3, <2>2, <2>3 DEF HistoryTypes
<1>11. CASE Kernel(KernelNext) \/ UNCHANGED allvars
  BY <1>4, <1>11 DEF Kernel, allvars, pvars, heap
<1>12. CASE \/ Load \/ Allocate \/ ExecFork \/ ExecUnlock \/ JoinCount \/ JoinWait \/ JoinUncount
            \/ ExitWait \/ Remove
  BY <1>4, <1>12
     DEF Load, Allocate, ExecFork, ExecUnlock, JoinCount, JoinWait, JoinUncount, ExitWait, Remove, heap
<1>13. CASE LoadFailed \/ ExitMain \/ CallFaults \/ UserException
  BY <1>4, <1>13 DEF LoadFailed, ExitMain, CallFaults, UserException, Stop, heap
<1> QED
  BY <1>6, <1>7, <1>8, <1>9, <1>10, <1>11, <1>12, <1>13 DEF PNext, SystemCall, InKernel

(* A step that concerns no joinsem and no exitsem. *)
SameUnits ==
  /\ \A t \in Thread : value'[Exitsem(t)] = value[Exitsem(t)] /\ value'[Joinsem(t)] = value[Joinsem(t)]
  /\ \A t, x \in Thread : /\ waitingOn'[t] = Exitsem(x) <=> waitingOn[t] = Exitsem(x)
                          /\ waitingOn'[t] = Joinsem(x) <=> waitingOn[t] = Joinsem(x)

LEMMA OtherUnits ==
  ASSUME IInv, NEW s \in Semaphore, \A x \in Thread : s # Exitsem(x) /\ s # Joinsem(x),
         \/ P(s) \/ V(s) \/ UNCHANGED <<value, waitingOn>>
         \/ \E t \in Thread : /\ waitingOn[t] = s
                              /\ value' = [value EXCEPT ![s] = @ - 1]
                              /\ waitingOn' = [waitingOn EXCEPT ![t] = NoSemaphore]
  PROVE  SameUnits
<1>1. /\ value \in [Semaphore -> Int] /\ waitingOn \in [Thread -> Semaphore \cup {NoSemaphore}]
      /\ \A x \in Thread : Exitsem(x) \in Semaphore /\ Joinsem(x) \in Semaphore
      /\ NoSemaphore \notin Semaphore
  BY SemaphoresDiffer DEF IInv, TypeOK
<1>2. CASE P(s)
  BY SMTT(60), <1>1, <1>2, PUnits DEF SameUnits
<1>3. CASE V(s)
  BY <1>1, <1>3, VUnits DEF SameUnits
<1>4. CASE UNCHANGED <<value, waitingOn>>
  BY <1>4 DEF SameUnits
<1>5. ASSUME NEW u \in Thread, waitingOn[u] = s,
             value' = [value EXCEPT ![s] = @ - 1],
             waitingOn' = [waitingOn EXCEPT ![u] = NoSemaphore]
      PROVE  SameUnits
  BY <1>1, <1>5 DEF SameUnits
<1> QED
  BY <1>2, <1>3, <1>4, <1>5

(***************************************************************************)
(* A step of thread c that neither starts nor ends a program, and leaves   *)
(* the chain, the exit codes, joinsem and exitsem alone.                   *)
(***************************************************************************)
Moves(t) ==
  /\ pc[t] \notin {"none", "execFork"} \cup Over
  /\ pc'[t] \notin {"none", "execFork"} \cup Over
  /\ pc'[t] \in {"exec", "joinReturn"} => outstanding[t] = {}
  /\ waitingOn[t] = NoSemaphore

LEMMA NestedKept ==
  ASSUME NestedInv, NestedFacts, SameUnits, NEW c \in Thread,
         UNCHANGED <<pcb, outstanding, exitcode, exited>>,
         \A t \in Thread : t # c =>
           pc'[t] = pc[t] /\ joining'[t] = joining[t] /\ frame'[t] = frame[t],
         \/ Moves(c) /\ JoinOk(c)'
         \/ pc'[c] = pc[c] /\ joining'[c] = joining[c] /\ frame'[c] = frame[c]
  PROVE  NestedFacts'
<1>1. \A t \in Thread : Unjoined(t)' <=> Unjoined(t)
  BY DEF Unjoined
<1>2. \A t \in Thread : /\ pc'[t] \in {"none"} \cup Over \/ pc[t] \in {"none"} \cup Over => pc'[t] = pc[t]
                        /\ pc[t] = "execFork" \/ pc'[t] = "execFork" =>
                             pc'[t] = pc[t] /\ frame'[t] = frame[t]
  BY DEF Moves
<1>3. ChainInv'
  BY SMTT(60), <1>1, <1>2 DEF NestedFacts, ChainInv, Moves
<1>4. UnitsInv'
  <2>1. \A t, x \in Thread : waitingOn[t] \in {Joinsem(x), Exitsem(x)} =>
          pc'[t] = pc[t] /\ joining'[t] = joining[t]
    BY SemaphoresDiffer DEF Moves
  <2>2. "none" \notin Over /\ "remove" \in Over /\ "gone" \in Over
    BY DEF Over
  <2> QED
    BY SMTT(60), <1>1, <1>2, <2>1, <2>2 DEF NestedFacts, UnitsInv, SameUnits
<1>5. ASSUME NEW t \in Thread, pc'[t] = pc[t], joining'[t] = joining[t], frame'[t] = frame[t]
      PROVE  JoinOk(t)'
  <2>1. pc[t] \in JoinLabels => joining[t] \in Thread
    BY DEF NestedFacts, JoinOk
  <2>2. pc[t] \in JoinLabels => (waitingOn'[t] = Joinsem(joining[t]) <=> waitingOn[t] = Joinsem(joining[t]))
    BY <2>1 DEF SameUnits
  <2>3. {"joinUncounted", "joinRelease", "joinReturn", "joinUncount"} \subseteq JoinLabels
    BY DEF JoinLabels
  <2> QED
    BY SMTT(60), <1>2, <1>5, <2>1, <2>2, <2>3 DEF NestedFacts, JoinOk
<1> QED
  BY <1>3, <1>4, <1>5 DEF NestedFacts

(* The calls and returns that leave the chain alone. *)
LEMMA MoveNested ==
  ASSUME NestedInv, NestedFacts, nested,
         \/ Load \/ Allocate \/ ExecNoName \/ ExecRefused \/ ExecUnlock \/ ExecDone \/ JoinReturn
         \/ \E i \in Pid \cup {-1} : Join(i) \/ JoinRefused(i)
         \/ \E p \in Name : Exec(p)
         \/ JoinCount \/ JoinUncount
  PROVE  NestedFacts'
<1>1. mode = "running"
  BY DEF Load, Allocate, ExecNoName, ExecRefused, ExecUnlock, ExecDone, JoinReturn, Join,
         JoinRefused, Exec, JoinCount, JoinUncount, At
<1>2. AnyInv /\ IInv
  BY DEF NestedInv, UniqueInv, AnyInv
<1>3. PICK c \in Thread : c = currentThread /\ waitingOn[c] = NoSemaphore
  BY <1>1, <1>2, Running
<1>4. /\ pc \in [Thread -> Labels] /\ frame \in [Thread -> Frames] /\ frame[c] \in Frames
      /\ pcb \in [Pid -> Thread \cup {NoThread}]
      /\ joining \in [Thread -> Thread \cup {NoThread}]
      /\ FrameOk(c) /\ JoinOk(c)
  BY DEF NestedInv, NestedFacts, HistoryTypes, UniqueInv, AnyInv, TypesInv
<1>5. ASSUME NEW s \in Semaphore, s \in {Bmsem, AddrLock} \/ \E t \in Thread : s = Mutex(t),
             P(s) \/ V(s) \/ UNCHANGED <<value, waitingOn>>
      PROVE  SameUnits
  BY <1>2, <1>5, OtherUnits, SemaphoresDiffer
<1>6. CASE \/ Load \/ Allocate \/ ExecNoName \/ ExecRefused \/ ExecUnlock \/ ExecDone \/ JoinReturn
           \/ \E i \in Pid \cup {-1} : JoinRefused(i)
  <2>1. PICK l \in {"allocate", "noMemory", "user", "execDone"} : pc' = [pc EXCEPT ![c] = l]
    BY <1>3, <1>6 DEF Load, Allocate, ExecNoName, ExecRefused, ExecUnlock, ExecDone, JoinReturn,
                      JoinRefused, Goto, Return
  <2>2. pc[c] \in {"load", "allocate", "user", "exec", "execUnlock", "execDone", "joinReturn"}
    BY <1>3, <1>6 DEF Load, Allocate, ExecNoName, ExecRefused, ExecUnlock, ExecDone, JoinReturn,
                      JoinRefused, At
  <2>3. SameUnits
    <3>1. CASE Load \/ Allocate
      BY <1>5, <3>1, SemaphoresDiffer DEF Load, Allocate
    <3>2. CASE ExecNoName \/ JoinReturn \/ \E i \in Pid \cup {-1} : JoinRefused(i)
      BY <1>5, <3>2, SemaphoresDiffer DEF ExecNoName, JoinReturn, JoinRefused, vars
    <3>3. CASE ExecRefused \/ ExecDone
      BY <1>5, <3>3, SemaphoresDiffer DEF ExecRefused, ExecDone
    <3>4. CASE ExecUnlock
      <4>1. frame[c].this \in Thread /\ V(Mutex(frame[c].this))
        BY <1>3, <1>4, <3>4 DEF ExecUnlock, At, FrameOk
      <4> QED
        BY <1>5, <4>1, SemaphoresDiffer
    <3> QED
      BY <1>6, <3>1, <3>2, <3>3, <3>4
  <2>4. UNCHANGED <<pcb, outstanding, exitcode, exited>>
    BY <1>6 DEF Load, Allocate, ExecNoName, ExecRefused, ExecUnlock, ExecDone, JoinReturn,
                JoinRefused, table, heap, history
  <2>5. \A t \in Thread : t # c => joining'[t] = joining[t]
    BY <1>3, <1>4, <1>6 DEF Load, Allocate, ExecNoName, ExecRefused, ExecUnlock, ExecDone,
                            JoinReturn, JoinRefused, history
  <2>6. \A t \in Thread : t # c => frame'[t] = frame[t]
    BY <1>3, <1>4, <1>6 DEF Load, Allocate, ExecNoName, ExecRefused, ExecUnlock, ExecDone,
                            JoinReturn, JoinRefused, Return, SetFrame
  <2>7. pc'[c] = l /\ \A t \in Thread : t # c => pc'[t] = pc[t]
    BY <1>4, <2>1
  <2>8. Moves(c) /\ JoinOk(c)'
    BY <1>3, <2>1, <2>2, <2>7 DEF Moves, JoinOk, JoinLabels, Over
  <2> QED
    BY <2>3, <2>4, <2>5, <2>6, <2>7, <2>8, NestedKept
<1>7. ASSUME NEW p \in Name, Exec(p)
      PROVE  NestedFacts'
  <2>1. /\ pc[c] = "user" /\ pc' = [pc EXCEPT ![c] = "exec"] /\ outstanding[c] = {}
        /\ \A t \in Thread : t # c => frame'[t] = frame[t]
        /\ UNCHANGED <<pcb, outstanding, exitcode, exited, joining>>
    BY <1>3, <1>4, <1>7 DEF Exec, At, Enter, Goto, SetFrame, table, heap, history
  <2>2. SameUnits
    BY <1>5, <1>7, SemaphoresDiffer DEF Exec, LockTable
  <2>3. pc'[c] = "exec" /\ \A t \in Thread : t # c => pc'[t] = pc[t]
    BY <1>4, <2>1
  <2>4. Moves(c) /\ JoinOk(c)'
    BY <1>3, <2>1, <2>3 DEF Moves, JoinOk, JoinLabels, Over
  <2> QED
    BY <2>1, <2>2, <2>3, <2>4, NestedKept
<1>8. ASSUME NEW i \in Pid \cup {-1}, Join(i)
      PROVE  NestedFacts'
  <2>1. /\ i \in Pid /\ Caller \in Pid /\ pcb[i] \in outstanding[c] /\ pcb[i] # NoThread
        /\ pcb[Caller] # NoThread
        /\ P(Mutex(pcb[Caller])) /\ pc[c] = "user" /\ pc' = [pc EXCEPT ![c] = "joinCount"]
        /\ joining' = [joining EXCEPT ![c] = pcb[i]]
        /\ UNCHANGED <<pcb, outstanding, exitcode, exited>>
        /\ frame' = [frame EXCEPT ![c] =
                       [name |-> NoName, id |-> i, me |-> Caller, this |-> pcb[Caller]]]
    BY <1>3, <1>8
       DEF Join, CallerFaults, IsExist, Enter, Goto, SetFrame, At, table, heap
  <2>2. /\ frame'[c].id = i /\ pc'[c] = "joinCount" /\ joining'[c] = pcb[i]
        /\ \A t \in Thread : t # c =>
             pc'[t] = pc[t] /\ joining'[t] = joining[t] /\ frame'[t] = frame[t]
    BY <1>4, <2>1
  <2>3. pcb[i] \in Thread /\ pcb[Caller] \in Thread
    BY <1>4, <2>1
  <2>4. SameUnits
    BY <1>5, <2>1, <2>3, SemaphoresDiffer
  <2>5. Moves(c) /\ JoinOk(c)'
    BY <1>3, <2>1, <2>2, <2>3 DEF Moves, JoinOk, JoinLabels, Over
  <2> QED
    BY <2>1, <2>2, <2>4, <2>5, NestedKept
<1>9. CASE JoinCount
  <2>1. /\ frame[c].this \in Thread /\ V(Mutex(frame[c].this))
        /\ UNCHANGED <<pcb, outstanding, exitcode, exited, joining, frame>>
    BY <1>3, <1>4, <1>9 DEF JoinCount, At, FrameOk, table, heap, history
  <2>2. \/ pc[c] = "joinCount" /\ pc' = [pc EXCEPT ![c] = "joinWait"]
        \/ pc[c] = "joinUncounted" /\ pc' = [pc EXCEPT ![c] = "joinRelease"]
    BY <1>3, <1>9 DEF JoinCount, At, Goto
  <2>3. SameUnits
    BY SMTT(60), <1>5, <2>1, SemaphoresDiffer
  <2>4. /\ \/ pc[c] = "joinCount" /\ pc'[c] = "joinWait"
           \/ pc[c] = "joinUncounted" /\ pc'[c] = "joinRelease"
        /\ \A t \in Thread : t # c => pc'[t] = pc[t]
    BY <1>4, <2>2
  <2>5. Moves(c)
    BY <1>3, <2>4 DEF Moves, Over
  <2>6. JoinOk(c)'
    BY <1>4, <2>1, <2>4 DEF JoinOk, JoinLabels, Over
  <2> QED
    BY <2>1, <2>3, <2>4, <2>5, <2>6, NestedKept
<1>10. CASE JoinUncount
  <2>1. /\ pc[c] = "joinUncount" /\ P(Mutex(pcb[frame[c].me]))
        /\ pc' = [pc EXCEPT ![c] = "joinUncounted"]
        /\ frame' = [frame EXCEPT ![c] = [frame[c] EXCEPT !.this = pcb[frame[c].me]]]
        /\ UNCHANGED <<pcb, outstanding, exitcode, exited, joining>>
    BY <1>3, <1>10 DEF JoinUncount, At, Goto, SetFrame, table, heap, history
  <2>2. pcb[frame[c].me] \in Thread
    BY <1>4, <2>1 DEF FrameOk, JoinLabels
  <2>3. SameUnits
    BY SMTT(60), <1>5, <2>1, <2>2, SemaphoresDiffer
  <2>4. /\ pc'[c] = "joinUncounted" /\ frame'[c].id = frame[c].id
        /\ \A t \in Thread : t # c => pc'[t] = pc[t] /\ frame'[t] = frame[t]
    BY <1>4, <2>1 DEF Frames
  <2>5. joining[c] \in Thread /\ pc[joining[c]] \in Over
    BY <1>3, <1>4, <2>1, SemaphoresDiffer DEF JoinOk, JoinLabels
  <2>6. Moves(c)
    BY <1>3, <2>1, <2>4 DEF Moves, Over
  <2>7. JoinOk(c)'
    BY <1>4, <2>1, <2>4, <2>5 DEF JoinOk, JoinLabels, Over
  <2> QED
    BY <2>1, <2>3, <2>4, <2>6, <2>7, NestedKept
<1> QED
  BY <1>6, <1>7, <1>8, <1>9, <1>10

(* What the kernel does on its own: a woken parent or child gets on. *)
LEMMA KernelNested ==
  ASSUME NestedInv, NestedFacts, Kernel(KernelNext)
  PROVE  NestedFacts'
<1>1. IInv /\ MainThread \in Thread
  BY ThreadAssumption DEF NestedInv, UniqueInv, AnyInv
<1>2. UNCHANGED <<pcb, outstanding, exitcode, exited, joining, pc, frame>>
  BY DEF Kernel, pvars, table, heap, history
<1>3. ASSUME SameUnits PROVE NestedFacts'
  BY <1>1, <1>2, <1>3, NestedKept
<1>4. ASSUME NEW t \in Thread, NEW s \in Semaphore, waitingOn[t] = s, value[s] # 0,
             value' = [value EXCEPT ![s] = @ - 1],
             waitingOn' = [waitingOn EXCEPT ![t] = NoSemaphore],
             NEW x \in Thread, s \in {Exitsem(x), Joinsem(x)}
      PROVE  NestedFacts'
  <2>1. /\ \A u \in Semaphore : u # s => value'[u] = value[u]
        /\ waitingOn'[t] = NoSemaphore
        /\ \A u \in Thread : u # t => waitingOn'[u] = waitingOn[u]
    BY <1>1, <1>4 DEF IInv, TypeOK
  <2>2. \A y \in Thread : Unjoined(y)' <=> Unjoined(y)
    BY <1>2 DEF Unjoined
  <2>3. ChainInv'
    BY <1>2, <2>2 DEF NestedFacts, ChainInv
  <2>4. /\ s = Exitsem(x) => t = x /\ pc[t] = "remove" /\ ~Unjoined(x)
        /\ s = Joinsem(x) => pc[t] = "joinUncount" /\ x = joining[t] /\ pc[x] \in Over
    BY <1>4 DEF NestedFacts, UnitsInv
  <2>5. UnitsInv'
    <3>1. /\ \A u, y \in Thread : /\ waitingOn'[u] = Exitsem(y) => u = y /\ pc'[u] = "remove"
                                  /\ waitingOn'[u] = Joinsem(y) => pc'[u] = "joinUncount" /\ y = joining'[u]
      BY SMTT(60), <1>2, <2>1, SemaphoresDiffer DEF NestedFacts, UnitsInv
    <3>2. ASSUME NEW y \in Thread, pc[y] = "none" \/ Unjoined(y)
          PROVE  /\ value'[Exitsem(y)] = 0 /\ pc[y] # "gone"
                 /\ pc[y] = "remove" => waitingOn'[y] = Exitsem(y)
      <4>1. Exitsem(y) # s
        BY <1>4, <2>4, <3>2, SemaphoresDiffer
      <4>2. pc[y] = "remove" => y # t
        BY <1>4, <2>4, <3>2, <4>1 DEF NestedFacts, UnitsInv
      <4> QED
        BY <2>1, <3>2, <4>1, <4>2, SemaphoresDiffer DEF NestedFacts, UnitsInv
    <3>3. \A y \in Thread : pc[y] \notin Over => value'[Joinsem(y)] = 0
      BY <1>4, <2>1, <2>4, SemaphoresDiffer DEF NestedFacts, UnitsInv
    <3> QED
      BY <1>2, <2>2, <3>1, <3>2, <3>3 DEF NestedFacts, UnitsInv
  <2>6. ASSUME NEW p \in Thread PROVE JoinOk(p)'
    <3>1. CASE p # t
      BY <1>2, <2>1, <2>6, <3>1 DEF NestedFacts, JoinOk
    <3>2. CASE p = t
      BY <1>2, <1>4, <2>4, <2>6, <3>2 DEF NestedFacts, JoinOk, JoinLabels
    <3> QED
      BY <3>1, <3>2
  <2> QED
    BY <2>3, <2>5, <2>6 DEF NestedFacts
<1>5. ASSUME NEW t \in Thread, NEW s \in Semaphore, waitingOn[t] = s, value[s] # 0,
             value' = [value EXCEPT ![s] = @ - 1],
             waitingOn' = [waitingOn EXCEPT ![t] = NoSemaphore]
      PROVE  NestedFacts'
  <2>1. CASE \A x \in Thread : s # Exitsem(x) /\ s # Joinsem(x)
    BY <1>1, <1>3, <1>5, <2>1, OtherUnits
  <2>2. CASE \E x \in Thread : s \in {Exitsem(x), Joinsem(x)}
    BY <1>4, <1>5, <2>2
  <2> QED
    BY <2>1, <2>2
<1>6. CASE UNCHANGED <<value, waitingOn>>
  BY <1>3, <1>6 DEF SameUnits
<1> QED
  BY <1>1, <1>5, <1>6, KernelUnits, SemaphoresDiffer DEF Kernel

(* The parent waits in PCB::JoinWait, or finds that its child has exited. *)
LEMMA JoinWaitNested ==
  ASSUME NestedInv, NestedFacts, JoinWait
  PROVE  NestedFacts'
<1>1. PICK c \in Thread : /\ c = currentThread /\ mode = "running" /\ pc[c] = "joinWait"
                          /\ waitingOn[c] = NoSemaphore
  BY Running DEF JoinWait, At, NestedInv, UniqueInv
<1>2. PICK x \in Thread : x = joining[c] /\ pcb[frame[c].id] = x /\ x \in outstanding[c]
  BY <1>1 DEF NestedFacts, JoinOk, JoinLabels
<1>3. /\ UNCHANGED <<pcb, outstanding, exitcode, exited, joining, frame>>
      /\ pc'[c] = "joinUncount" /\ \A t \in Thread : t # c => pc'[t] = pc[t]
  BY <1>1 DEF JoinWait, Goto, table, heap, history, NestedInv, UniqueInv, AnyInv, TypesInv
<1>4. \/ /\ UNCHANGED value /\ waitingOn'[c] = Joinsem(x)
         /\ \A t \in Thread : t # c => waitingOn'[t] = waitingOn[t]
      \/ /\ value[Joinsem(x)] # 0 /\ UNCHANGED waitingOn
         /\ \A s \in Semaphore : s # Joinsem(x) => value'[s] = value[s]
  <2>1. P(Joinsem(x)) /\ Joinsem(x) \in Semaphore /\ IInv
    BY <1>1, <1>2, SemaphoresDiffer DEF JoinWait, NestedInv, UniqueInv, AnyInv
  <2>2. /\ value \in [Semaphore -> Int]
        /\ waitingOn \in [Thread -> Semaphore \cup {NoSemaphore}]
    BY <2>1 DEF IInv, TypeOK
  <2> QED
    BY <1>1, <2>1, <2>2, PUnits
<1>5. \A y \in Thread : Unjoined(y)' <=> Unjoined(y)
  BY <1>3 DEF Unjoined
<1>6. ChainInv'
  BY SMTT(60), <1>1, <1>3, <1>5 DEF NestedFacts, ChainInv, Over
<1>7. UnitsInv'
  <2>1. ASSUME NEW u \in Thread, NEW y \in Thread
        PROVE  /\ waitingOn'[u] = Exitsem(y) => u = y /\ pc'[u] = "remove"
               /\ waitingOn'[u] = Joinsem(y) => pc'[u] = "joinUncount" /\ y = joining'[u]
    BY SMTT(60), <1>1, <1>2, <1>3, <1>4, SemaphoresDiffer DEF NestedFacts, UnitsInv
  <2>2. \A y \in Thread : value'[Exitsem(y)] = value[Exitsem(y)]
    BY <1>4, SemaphoresDiffer
  <2>3. ASSUME NEW y \in Thread, pc'[y] \notin Over PROVE value'[Joinsem(y)] = 0
    BY SMTT(60), <1>1, <1>3, <1>4, <2>3, SemaphoresDiffer DEF NestedFacts, UnitsInv, Over
  <2>4. ASSUME NEW y \in Thread, pc'[y] = "none" \/ Unjoined(y)
        PROVE  /\ value'[Exitsem(y)] = 0 /\ pc'[y] # "gone"
               /\ pc'[y] = "remove" => waitingOn'[y] = Exitsem(y)
    BY <1>3, <1>4, <2>2, <2>4 DEF NestedFacts, UnitsInv
  <2>5. \A y \in Thread : pc'[y] \in Over => exitcode'[y] = exited'[y]
    BY <1>3 DEF NestedFacts, UnitsInv, Over
  <2> QED
    BY <1>5, <2>1, <2>3, <2>4, <2>5 DEF UnitsInv
<1>8. ASSUME NEW p \in Thread PROVE JoinOk(p)'
  <2>1. CASE p # c
    BY <1>1, <1>3, <1>4, <1>8, <2>1 DEF NestedFacts, JoinOk, JoinLabels, Over
  <2>2. CASE p = c
    BY SMTT(60), <1>1, <1>2, <1>3, <1>4, <2>2 DEF NestedFacts, UnitsInv, JoinOk, JoinLabels, Over
  <2> QED
    BY <2>1, <2>2
<1> QED
  BY <1>6, <1>7, <1>8 DEF NestedFacts

(* PCB::ExitRelease: the child leaves the chain, its parent is the end of it. *)
LEMMA JoinReleaseNested ==
  ASSUME NestedInv, NestedFacts, JoinRelease
  PROVE  NestedFacts'
<1>1. PICK c \in Thread : /\ c = currentThread /\ mode = "running" /\ pc[c] = "joinRelease"
                          /\ waitingOn[c] = NoSemaphore
  BY Running DEF JoinRelease, At, NestedInv, UniqueInv
<1>2. PICK x \in Thread : /\ x = joining[c] /\ pcb[frame[c].id] = x /\ x \in outstanding[c]
                          /\ pc[x] \in Over
  BY <1>1 DEF NestedFacts, JoinOk, JoinLabels
<1>3. /\ UNCHANGED <<pcb, exitcode, exited, joining, frame>>
      /\ pc'[c] = "joinReturn" /\ \A t \in Thread : t # c => pc'[t] = pc[t]
      /\ outstanding'[c] = outstanding[c] \ {x}
      /\ \A t \in Thread : t # c => outstanding'[t] = outstanding[t]
  BY <1>1, <1>2
     DEF JoinRelease, Goto, table, heap, NestedInv, HistoryTypes, UniqueInv, AnyInv, TypesInv
<1>4. /\ UNCHANGED waitingOn
      /\ \A s \in Semaphore : s # Exitsem(x) => value'[s] = value[s]
  <2>1. V(Exitsem(x)) /\ Exitsem(x) \in Semaphore /\ IInv
    BY <1>1, <1>2, SemaphoresDiffer DEF JoinRelease, NestedInv, UniqueInv, AnyInv
  <2>2. value \in [Semaphore -> Int]
    BY <2>1 DEF IInv, TypeOK
  <2> QED
    BY <2>1, <2>2, VUnits
<1>5. /\ outstanding'[c] = {}
      /\ \A p \in Thread : outstanding'[p] \subseteq outstanding[p]
      /\ \A p \in Thread : x \notin outstanding'[p]
      /\ outstanding[x] = {} /\ x # c /\ x # MainThread
  <2>1. outstanding[c] = {x}
    <3>1. outstanding[c] \subseteq Thread
      BY DEF NestedInv, HistoryTypes
    <3> QED
      BY SMTT(60), <1>2, <3>1 DEF NestedFacts, ChainInv
  <2>2. \A p \in Thread : p # c => x \notin outstanding[p]
    BY <1>2 DEF NestedFacts, ChainInv
  <2>3. outstanding[x] = {} /\ x # c /\ x # MainThread
    BY SMTT(60), <1>1, <1>2 DEF NestedFacts, ChainInv, Over
  <2> QED
    BY <1>3, <2>1, <2>2, <2>3
<1>6. \A y \in Thread : Unjoined(y)' <=> Unjoined(y) /\ y # x
  BY SMTT(60), <1>2, <1>3, <1>5 DEF Unjoined
<1>7. ChainInv'
  <2>1. \A y, z \in Thread : Unjoined(y)' /\ Unjoined(z)' /\ outstanding'[y] = {} /\ outstanding'[z] = {}
          => y = z
    <3>1. Unjoined(x)
      BY <1>2 DEF Unjoined
    <3>2. ASSUME NEW y \in Thread, Unjoined(y)', outstanding'[y] = {} PROVE y = c
      BY <1>3, <1>5, <1>6, <3>1, <3>2 DEF NestedFacts, ChainInv
    <3> QED
      BY <3>2
  <2>2. \A t \in Thread : pc'[t] \notin {"none"} \cup Over => Unjoined(t)'
    BY <1>1, <1>2, <1>3, <1>6 DEF NestedFacts, ChainInv, Over
  <2>3. \A p \in Thread : pc'[p] \in {"none", "exec", "joinReturn"} \cup Over => outstanding'[p] = {}
    BY <1>3, <1>5 DEF NestedFacts, ChainInv, Over
  <2>4. \A p, y \in Thread : y \in outstanding'[p] /\ pc'[y] = "none" =>
           pc'[p] = "execFork" /\ frame'[p].this = y
    BY SMTT(60), <1>3, <1>5 DEF NestedFacts, ChainInv
  <2>5. \A p \in Thread : pc'[p] = "execFork" => frame'[p].this \in outstanding'[p]
    BY <1>3 DEF NestedFacts, ChainInv
  <2> QED
    BY <1>5, <2>1, <2>2, <2>3, <2>4, <2>5 DEF NestedFacts, ChainInv
<1>8. UnitsInv'
  <2>1. \A u, y \in Thread :
          /\ waitingOn'[u] = Exitsem(y) => u = y /\ pc'[u] = "remove"
          /\ waitingOn'[u] = Joinsem(y) => pc'[u] = "joinUncount" /\ y = joining'[u]
    BY SMTT(60), <1>1, <1>3, <1>4, SemaphoresDiffer DEF NestedFacts, UnitsInv
  <2>2. ASSUME NEW y \in Thread, pc'[y] = "none" \/ Unjoined(y)'
        PROVE  /\ value'[Exitsem(y)] = 0 /\ pc'[y] # "gone"
               /\ pc'[y] = "remove" => waitingOn'[y] = Exitsem(y)
    <3>1. y # x
      BY <1>2, <1>3, <1>5, <1>6, <2>2 DEF Over
    <3>2. Exitsem(y) # Exitsem(x) /\ Exitsem(y) \in Semaphore
      BY <3>1, SemaphoresDiffer
    <3> QED
      BY <1>3, <1>4, <1>6, <2>2, <3>2 DEF NestedFacts, UnitsInv
  <2>3. \A y \in Thread : value'[Joinsem(y)] = value[Joinsem(y)]
    BY <1>4, SemaphoresDiffer
  <2>4. \A y \in Thread : /\ pc'[y] \notin Over => value'[Joinsem(y)] = 0
                          /\ pc'[y] \in Over => exitcode'[y] = exited'[y]
    BY <1>1, <1>3, <2>3 DEF NestedFacts, UnitsInv, Over
  <2> QED
    BY <2>1, <2>2, <2>4 DEF UnitsInv
<1>9. ASSUME NEW p \in Thread PROVE JoinOk(p)'
  <2>1. CASE p # c
    BY <1>1, <1>3, <1>4, <2>1 DEF NestedFacts, JoinOk, JoinLabels, Over
  <2>2. CASE p = c
    BY <1>1, <1>2, <1>3, <2>2 DEF JoinOk, JoinLabels, Over
  <2> QED
    BY <2>1, <2>2
<1> QED
  BY <1>7, <1>8, <1>9 DEF NestedFacts

(* SysExit: the exit code is in the PCB before joinsem has its unit. *)
LEMMA ExitNested ==
  ASSUME NestedInv, NestedFacts, nested, NEW z \in ExitCode, Exit(z)
  PROVE  NestedFacts'
<1>1. PICK c \in Thread : /\ c = currentThread /\ mode = "running" /\ pc[c] = "user"
                          /\ waitingOn[c] = NoSemaphore /\ outcome = "none"
  BY Running DEF Exit, At, NestedInv, UniqueInv
<1>2. pcb[Caller] = c
  BY <1>1, FindsCaller DEF Caller, Live, NestedInv
<1>3. /\ UNCHANGED <<pcb, outstanding, joining>> /\ outstanding[c] = {}
      /\ pc'[c] = "exitWait" /\ \A t \in Thread : t # c => pc'[t] = pc[t] /\ frame'[t] = frame[t]
      /\ exitcode'[c] = z /\ exited'[c] = z
      /\ \A t \in Thread : t # c => exitcode'[t] = exitcode[t] /\ exited'[t] = exited[t]
  BY <1>1, <1>2
     DEF Exit, Enter, Goto, SetFrame, SetExitCode, table, NestedInv, HistoryTypes, UniqueInv,
         AnyInv, TypesInv
<1>4. /\ UNCHANGED waitingOn
      /\ \A s \in Semaphore : s # Joinsem(c) => value'[s] = value[s]
  <2>1. V(Joinsem(c)) /\ Joinsem(c) \in Semaphore /\ IInv
    BY <1>1, <1>2, SemaphoresDiffer DEF Exit, ReleaseParent, NestedInv, UniqueInv, AnyInv
  <2>2. value \in [Semaphore -> Int]
    BY <2>1 DEF IInv, TypeOK
  <2> QED
    BY <2>1, <2>2, VUnits
<1>5. \A y \in Thread : Unjoined(y)' <=> Unjoined(y)
  BY <1>3 DEF Unjoined
<1>6. ChainInv'
  BY SMTT(60), <1>1, <1>3, <1>5 DEF NestedFacts, ChainInv, Over
<1>7. UnitsInv'
  <2>1. \A u, y \in Thread :
          /\ waitingOn'[u] = Exitsem(y) => u = y /\ pc'[u] = "remove"
          /\ waitingOn'[u] = Joinsem(y) => pc'[u] = "joinUncount" /\ y = joining'[u]
    <3>1. ASSUME NEW y \in Thread PROVE waitingOn'[c] # Exitsem(y) /\ waitingOn'[c] # Joinsem(y)
      <4>1. waitingOn'[c] = NoSemaphore
        BY <1>1, <1>4
      <4> QED
        BY SMTT(60), <4>1, SemaphoresDiffer
    <3>2. \A u, y \in Thread :
            /\ waitingOn[u] = Exitsem(y) => u = y /\ pc[u] = "remove"
            /\ waitingOn[u] = Joinsem(y) => pc[u] = "joinUncount" /\ y = joining[u]
      BY DEF NestedFacts, UnitsInv
    <3>3. ASSUME NEW u \in Thread, NEW y \in Thread, u # c
          PROVE  /\ waitingOn'[u] = Exitsem(y) => u = y /\ pc'[u] = "remove"
                 /\ waitingOn'[u] = Joinsem(y) => pc'[u] = "joinUncount" /\ y = joining'[u]
      BY <1>3, <1>4, <3>2, <3>3
    <3> QED
      BY <3>1, <3>3
  <2>2. \A y \in Thread : value'[Exitsem(y)] = value[Exitsem(y)]
    BY <1>4, SemaphoresDiffer
  <2>3. \A y \in Thread : y # c => value'[Joinsem(y)] = value[Joinsem(y)]
    BY <1>4, SemaphoresDiffer
  <2>4. \A y \in Thread : pc'[y] = "none" \/ Unjoined(y)' =>
          /\ value'[Exitsem(y)] = 0 /\ pc'[y] # "gone"
          /\ pc'[y] = "remove" => waitingOn'[y] = Exitsem(y)
    BY SMTT(60), <1>3, <1>4, <1>5, <2>2 DEF NestedFacts, UnitsInv
  <2>5. \A y \in Thread : /\ pc'[y] \notin Over => value'[Joinsem(y)] = 0
                          /\ pc'[y] \in Over => exitcode'[y] = exited'[y]
    BY <1>3, <2>3 DEF NestedFacts, UnitsInv, Over
  <2> QED
    BY <2>1, <2>4, <2>5 DEF UnitsInv
<1>8. ASSUME NEW p \in Thread PROVE JoinOk(p)'
  BY <1>1, <1>3, <1>4 DEF NestedFacts, JoinOk, JoinLabels, Over
<1> QED
  BY <1>6, <1>7, <1>8 DEF NestedFacts

(* PCB::ExitWait: a child that is not joined finds no unit and sleeps. *)
LEMMA ExitWaitNested ==
  ASSUME NestedInv, NestedFacts, ExitWait
  PROVE  NestedFacts'
<1>1. PICK c \in Thread : /\ c = currentThread /\ mode = "running" /\ pc[c] = "exitWait"
                          /\ waitingOn[c] = NoSemaphore
  BY Running DEF ExitWait, At, NestedInv, UniqueInv
<1>2. pcb[frame[c].me] = c
  BY <1>1 DEF NestedInv, UniqueInv, OwnPid
<1>3. /\ UNCHANGED <<pcb, outstanding, exitcode, exited, joining, frame>>
      /\ pc'[c] = "remove" /\ \A t \in Thread : t # c => pc'[t] = pc[t]
  BY <1>1 DEF ExitWait, Goto, table, heap, history, NestedInv, UniqueInv, AnyInv, TypesInv
<1>4. \/ /\ UNCHANGED value /\ waitingOn'[c] = Exitsem(c)
         /\ \A t \in Thread : t # c => waitingOn'[t] = waitingOn[t]
      \/ /\ value[Exitsem(c)] # 0 /\ UNCHANGED waitingOn
         /\ \A s \in Semaphore : s # Exitsem(c) => value'[s] = value[s]
  <2>1. P(Exitsem(c)) /\ Exitsem(c) \in Semaphore /\ IInv
    BY <1>1, <1>2, SemaphoresDiffer DEF ExitWait, WaitForParent, NestedInv, UniqueInv, AnyInv
  <2>2. /\ value \in [Semaphore -> Int]
        /\ waitingOn \in [Thread -> Semaphore \cup {NoSemaphore}]
    BY <2>1 DEF IInv, TypeOK
  <2> QED
    BY <1>1, <2>1, <2>2, PUnits
<1>5. \A y \in Thread : Unjoined(y)' <=> Unjoined(y)
  BY <1>3 DEF Unjoined
<1>6. ChainInv'
  BY SMTT(60), <1>1, <1>3, <1>5 DEF NestedFacts, ChainInv, Over
<1>7. UnitsInv'
  <2>1. ASSUME NEW u \in Thread, NEW y \in Thread
        PROVE  /\ waitingOn'[u] = Exitsem(y) => u = y /\ pc'[u] = "remove"
               /\ waitingOn'[u] = Joinsem(y) => pc'[u] = "joinUncount" /\ y = joining'[u]
    BY SMTT(60), <1>1, <1>3, <1>4, SemaphoresDiffer DEF NestedFacts, UnitsInv
  <2>2. \A y \in Thread : value'[Joinsem(y)] = value[Joinsem(y)]
    BY <1>4, SemaphoresDiffer
  <2>3. \A y \in Thread : y # c => value'[Exitsem(y)] = value[Exitsem(y)]
    BY <1>4, SemaphoresDiffer
  <2>4. ASSUME NEW y \in Thread, pc'[y] = "none" \/ Unjoined(y)'
        PROVE  /\ value'[Exitsem(y)] = 0 /\ pc'[y] # "gone"
               /\ pc'[y] = "remove" => waitingOn'[y] = Exitsem(y)
    <3>1. CASE y = c
      BY SMTT(60), <1>3, <1>4, <1>5, <2>4, <3>1 DEF NestedFacts, UnitsInv
    <3>2. CASE y # c
      BY <1>3, <1>4, <1>5, <2>3, <2>4, <3>2 DEF NestedFacts, UnitsInv
    <3> QED
      BY <3>1, <3>2
  <2>5. \A y \in Thread : /\ pc'[y] \notin Over => value'[Joinsem(y)] = 0
                          /\ pc'[y] \in Over => exitcode'[y] = exited'[y]
    BY <1>1, <1>3, <2>2 DEF NestedFacts, UnitsInv, Over
  <2> QED
    BY <2>1, <2>4, <2>5 DEF UnitsInv
<1>8. ASSUME NEW p \in Thread PROVE JoinOk(p)'
  <2>1. CASE p # c
    BY <1>1, <1>3, <1>4, <2>1 DEF NestedFacts, JoinOk, JoinLabels, Over
  <2>2. CASE p = c
    BY <1>3, <2>2 DEF JoinOk, JoinLabels
  <2> QED
    BY <2>1, <2>2
<1> QED
  BY <1>6, <1>7, <1>8 DEF NestedFacts

(* PTable::Remove: only a process that is joined gets here. *)
LEMMA RemoveNested ==
  ASSUME NestedInv, NestedFacts, NEW c \in Thread, Removes(c)
  PROVE  NestedFacts'
<1>1. /\ pc[c] = "remove" /\ waitingOn[c] = NoSemaphore
      /\ UNCHANGED <<value, waitingOn, pcb, outstanding, exitcode, exited, joining>>
      /\ pc'[c] = "gone" /\ \A t \in Thread : t # c => pc'[t] = pc[t] /\ frame'[t] = frame[t]
  BY Running DEF Removes, Finish, NestedInv, UniqueInv, AnyInv, TypesInv
<1>2. ~Unjoined(c)
  BY <1>1, SemaphoresDiffer DEF NestedFacts, UnitsInv
<1>3. \A y \in Thread : Unjoined(y)' <=> Unjoined(y)
  BY <1>1 DEF Unjoined
<1>4. ChainInv'
  BY <1>1, <1>3 DEF NestedFacts, ChainInv, Over
<1>5. UnitsInv'
  BY SMTT(60), <1>1, <1>2, <1>3, SemaphoresDiffer DEF NestedFacts, UnitsInv, Over
<1>6. ASSUME NEW p \in Thread PROVE JoinOk(p)'
  BY <1>1 DEF NestedFacts, JoinOk, JoinLabels, Over
<1> QED
  BY <1>4, <1>5, <1>6 DEF NestedFacts

(* ExecUpdate: the new process is the end of the chain, and its pid was nobody's in a Join. *)
LEMMA ExecCreateNested ==
  ASSUME NestedInv, NestedFacts, NEW c \in Thread, NEW x \in Thread, NEW g \in Pid,
         ExecCreates(c, x, g)
  PROVE  NestedFacts'
<1>1. /\ pc[c] = "exec" /\ waitingOn[c] = NoSemaphore /\ c # x /\ pc[x] = "none"
      /\ UNCHANGED <<exitcode, exited, joining>>
      /\ pc'[c] = "execFork" /\ \A t \in Thread : t # c => pc'[t] = pc[t] /\ frame'[t] = frame[t]
      /\ frame'[c].this = x
      /\ outstanding'[c] = outstanding[c] \cup {x}
      /\ \A t \in Thread : t # c => outstanding'[t] = outstanding[t]
      /\ \A i \in Pid : i # g => pcb'[i] = pcb[i]
  BY Running DEF ExecCreates, NestedInv, HistoryTypes, UniqueInv, AnyInv, TypesInv
<1>2. SameUnits
  <2>1. P(Mutex(x)) /\ Mutex(x) \in Semaphore /\ IInv
    BY SemaphoresDiffer DEF ExecCreates, NestedInv, UniqueInv, AnyInv
  <2> QED
    BY <2>1, OtherUnits, SemaphoresDiffer
<1>3. /\ outstanding[c] = {} /\ outstanding[x] = {} /\ Unjoined(c) /\ x # MainThread
      /\ \A p \in Thread : x \notin outstanding[p]
  <2>1. \A t \in Thread : pc[t] # "execFork"
    BY <1>1, OneInExec DEF ExecCreates, ExecLabels, NestedInv, UniqueInv
  <2> QED
    BY <1>1, <2>1 DEF NestedFacts, ChainInv, Over, NestedInv, UniqueInv, AnyInv, MainInv
<1>4. \A y \in Thread : Unjoined(y)' <=> Unjoined(y) \/ y = x
  BY <1>1, <1>3 DEF Unjoined
<1>5. ChainInv'
  <2>1. \A p \in Thread : MainThread \notin outstanding'[p]
    BY <1>1, <1>3 DEF NestedFacts, ChainInv
  <2>2. \A p, q, y \in Thread : y \in outstanding'[p] /\ y \in outstanding'[q] => p = q
    BY SMTT(60), <1>1, <1>3 DEF NestedFacts, ChainInv
  <2>3. \A p, y, z \in Thread : y \in outstanding'[p] /\ z \in outstanding'[p] => y = z
    BY SMTT(60), <1>1, <1>3 DEF NestedFacts, ChainInv
  <2>4. \A p, y \in Thread : y \in outstanding'[p] /\ pc'[y] = "none" =>
          pc'[p] = "execFork" /\ frame'[p].this = y
    BY SMTT(60), <1>1, <1>3 DEF NestedFacts, ChainInv
  <2>5. \A p \in Thread : pc'[p] \in {"none", "exec", "joinReturn"} \cup Over => outstanding'[p] = {}
    BY <1>1 DEF NestedFacts, ChainInv, Over
  <2>6. ASSUME NEW y \in Thread, Unjoined(y)', outstanding'[y] = {} PROVE y = x
    <3>1. y # c
      BY <1>1, <2>6
    <3>2. outstanding[y] = {}
      BY <1>1, <2>6, <3>1
    <3>3. y = x \/ Unjoined(y)
      BY <1>4, <2>6
    <3>4. y = x \/ y = c
      BY <1>3, <3>2, <3>3 DEF NestedFacts, ChainInv
    <3> QED
      BY <3>1, <3>4
  <2>7. \A t \in Thread : pc'[t] \notin {"none"} \cup Over => Unjoined(t)'
    BY SMTT(60), <1>1, <1>3, <1>4 DEF NestedFacts, ChainInv
  <2>8. \A p \in Thread : pc'[p] = "execFork" => frame'[p].this \in outstanding'[p]
    BY <1>1 DEF NestedFacts, ChainInv
  <2> QED
    BY <2>1, <2>2, <2>3, <2>4, <2>5, <2>6, <2>7, <2>8 DEF ChainInv
<1>6. UnitsInv'
  <2>1. \A t \in Thread : waitingOn[c] # Exitsem(t) /\ waitingOn[c] # Joinsem(t)
    BY <1>1, SemaphoresDiffer
  <2>2. /\ \A u, y \in Thread :
             /\ waitingOn'[u] = Exitsem(y) => u = y /\ pc'[u] = "remove"
             /\ waitingOn'[u] = Joinsem(y) => pc'[u] = "joinUncount" /\ y = joining'[u]
    BY SMTT(60), <1>1, <1>2, <2>1 DEF NestedFacts, UnitsInv, SameUnits
  <2>3. \A y \in Thread : pc'[y] = "none" \/ Unjoined(y)' =>
             /\ value'[Exitsem(y)] = 0 /\ pc'[y] # "gone"
             /\ pc'[y] = "remove" => waitingOn'[y] = Exitsem(y)
    BY SMTT(60), <1>1, <1>2, <1>4 DEF NestedFacts, UnitsInv, SameUnits
  <2>4. \A y \in Thread : /\ pc'[y] \notin Over => value'[Joinsem(y)] = 0
                          /\ pc'[y] \in Over => exitcode'[y] = exited'[y]
    BY <1>1, <1>2 DEF NestedFacts, UnitsInv, SameUnits, Over
  <2> QED
    BY <2>2, <2>3, <2>4 DEF UnitsInv
<1>7. ASSUME NEW p \in Thread PROVE JoinOk(p)'
  <2>1. CASE p = c
    BY <1>1, <2>1 DEF JoinOk, JoinLabels
  <2>2. CASE p # c /\ pc[p] \in JoinLabels
    <3>1. joining[p] \in Thread /\ pcb[frame[p].id] = joining[p] /\ frame[p].id \in Pid
      BY <2>2 DEF NestedFacts, JoinOk, NestedInv, UniqueInv, AnyInv, FrameOk
    <3>2. frame[p].id # g
      <4> SUFFICES ASSUME frame[p].id = g PROVE FALSE
        OBVIOUS
      <4>1. pc[joining[p]] = "gone"
        BY <3>1, ThreadAssumption DEF ExecCreates, NestedInv, UniqueInv, BitsInv
      <4>2. CASE pc[p] = "joinReturn"
        BY <1>1, <1>3, <2>2, <4>2 DEF NestedFacts, ChainInv, Over
      <4>3. CASE pc[p] # "joinReturn"
        BY <2>2, <3>1, <4>1, <4>3 DEF NestedFacts, JoinOk, UnitsInv, Unjoined
      <4> QED
        BY <4>2, <4>3
    <3>3. pc[joining[p]] \in Over => pc'[joining[p]] \in Over
      BY <1>1, <3>1 DEF Over
    <3>4. pcb'[frame[p].id] = pcb[frame[p].id]
      BY <1>1, <3>1, <3>2
    <3>5. waitingOn'[p] = Joinsem(joining[p]) <=> waitingOn[p] = Joinsem(joining[p])
      BY <1>2, <3>1 DEF SameUnits
    <3>6. /\ pc'[p] = pc[p] /\ joining'[p] = joining[p] /\ frame'[p] = frame[p]
          /\ outstanding'[p] = outstanding[p]
      BY <1>1, <2>2
    <3>7. JoinOk(p)
      BY DEF NestedFacts
    <3> QED
      BY <3>3, <3>4, <3>5, <3>6, <3>7, <1>1 DEF JoinOk
  <2>3. CASE p # c /\ pc[p] \notin JoinLabels
    BY <1>1, <2>3 DEF JoinOk, JoinLabels
  <2> QED
    BY <2>1, <2>2, <2>3
<1> QED
  BY <1>5, <1>6, <1>7 DEF NestedFacts

(* PCB::Exec forks the thread of the new process. *)
LEMMA ExecForkNested ==
  ASSUME NestedInv, NestedFacts, NEW c \in Thread, NEW x \in Thread, ExecForks(c, x)
  PROVE  NestedFacts'
<1>1. /\ pc'[c] = "execUnlock" /\ pc'[x] = "load" /\ c # x
      /\ \A t \in Thread : t \notin {c, x} => pc'[t] = pc[t]
      /\ UNCHANGED <<pcb, frame, exitcode, exited, joining, outstanding, value, waitingOn>>
      /\ pc[x] = "none" /\ pc[c] = "execFork" /\ x = frame[c].this
      /\ waitingOn[c] = NoSemaphore
  BY Running DEF ExecForks, Fork, NestedInv, UniqueInv, AnyInv, TypesInv
<1>2. \A y \in Thread : Unjoined(y)' <=> Unjoined(y)
  BY <1>1 DEF Unjoined
<1>3. Unjoined(x)
  BY <1>1 DEF NestedFacts, ChainInv, Unjoined
<1>4. \A t \in Thread : pc[t] = "execFork" => t = c
  BY <1>1, OneInExec DEF ExecForks, ExecLabels, NestedInv, UniqueInv
<1>5. ChainInv'
  <2>1. \A p, y \in Thread : y \in outstanding[p] => pc'[y] # "none"
    BY <1>1, <1>4 DEF NestedFacts, ChainInv
  <2>2. \A p \in Thread : pc'[p] # "execFork"
    BY <1>1, <1>4
  <2>3. \A p \in Thread : pc'[p] \in {"none", "exec", "joinReturn"} \cup Over => outstanding[p] = {}
    BY <1>1 DEF NestedFacts, ChainInv, Over
  <2>4. \A t \in Thread : pc'[t] \notin {"none"} \cup Over => Unjoined(t)
    BY <1>1, <1>3 DEF NestedFacts, ChainInv, Over
  <2> QED
    BY <1>1, <1>2, <2>1, <2>2, <2>3, <2>4 DEF NestedFacts, ChainInv
<1>6. UnitsInv'
  <2>1. \A t \in Thread : /\ pc'[t] = "none" => pc[t] = "none"
                          /\ pc'[t] \in Over <=> pc[t] \in Over
                          /\ pc[t] \in Over \cup {"joinUncount"} => pc'[t] = pc[t]
                          /\ pc'[t] \in Over => pc'[t] = pc[t]
    BY <1>1 DEF Over
  <2> QED
    BY SMTT(60), <1>1, <1>2, <2>1 DEF NestedFacts, UnitsInv, Over
<1>7. ASSUME NEW p \in Thread PROVE JoinOk(p)'
  BY <1>1 DEF NestedFacts, JoinOk, JoinLabels, Over
<1> QED
  BY <1>5, <1>6, <1>7 DEF NestedFacts

(* Every step preserves the invariant. *)
LEMMA NestedStep ==
  ASSUME NestedInv, [PNext]_allvars, UniqueNames
  PROVE  NestedInv'
<1>1. UniqueInv' /\ HistoryTypes' /\ nested' = nested
  BY UniqueStep, HistoryStep DEF NestedInv
<1>2. ASSUME nested PROVE NestedFacts'
  <2>1. NestedFacts
    BY <1>2 DEF NestedInv
  <2>2. CASE \/ Load \/ Allocate \/ ExecNoName \/ ExecRefused \/ ExecUnlock \/ ExecDone \/ JoinReturn
             \/ \E i \in Pid \cup {-1} : Join(i) \/ JoinRefused(i)
             \/ \E p \in Name : Exec(p)
             \/ JoinCount \/ JoinUncount
    BY <1>2, <2>1, <2>2, MoveNested
  <2>3. CASE LoadFailed \/ ExitMain \/ CallFaults \/ UserException \/ UNCHANGED allvars
    <3>1. UNCHANGED <<pcb, outstanding, exitcode, exited, joining, frame, pc, value, waitingOn>>
      BY <2>3 DEF LoadFailed, ExitMain, CallFaults, UserException, Stop, Halt, allvars, vars, pvars,
                  table, heap, history
    <3>2. SameUnits
      BY <3>1 DEF SameUnits
    <3> QED
      BY <2>1, <3>1, <3>2, NestedKept, ThreadAssumption
  <2>4. CASE \E x \in Thread : ExecCreate(x)
    BY <2>1, <2>4, ExecCreateEffect, ExecCreateNested DEF NestedInv, UniqueInv
  <2>5. CASE ExecFork
    BY <2>1, <2>5, ExecForkEffect, ExecForkNested DEF NestedInv, UniqueInv
  <2>6. CASE Remove
    BY <2>1, <2>6, RemoveEffect, RemoveNested DEF NestedInv
  <2>7. CASE JoinWait \/ JoinRelease \/ ExitWait \/ \E x \in ExitCode : Exit(x)
    BY <1>2, <2>1, <2>7, JoinWaitNested, JoinReleaseNested, ExitWaitNested, ExitNested
  <2>8. CASE Kernel(KernelNext)
    BY <2>1, <2>8, KernelNested
  <2> QED
    BY <2>2, <2>3, <2>4, <2>5, <2>6, <2>7, <2>8 DEF PNext, SystemCall, InKernel
<1> QED
  BY <1>1, <1>2 DEF NestedInv

(* The invariant of the process table when children are joined one at a time. *)
THEOREM NestedInvariant == UniqueNames => (PSpec => []NestedInv)
<1> SUFFICES ASSUME UniqueNames PROVE PSpec => []NestedInv
  OBVIOUS
<1>1. PInit => NestedInv
  BY InitNestedInv
<1>2. NestedInv /\ [PNext]_allvars => NestedInv'
  BY NestedStep
<1> QED
  BY <1>1, <1>2, PTL DEF PSpec

(***************************************************************************)
(* ExitWait: no process is removed while its parent has not joined it,     *)
(* when every child is joined before its parent's next Exec and Exit.      *)
(***************************************************************************)
THEOREM AlwaysRemovedWhenJoined == UniqueNames => (PSpec => []RemovedOnlyWhenJoined)
<1> SUFFICES ASSUME UniqueNames PROVE PSpec => []RemovedOnlyWhenJoined
  OBVIOUS
<1>1. NestedInv => RemovedOnlyWhenJoined
  BY DEF NestedInv, NestedFacts, UnitsInv, Unjoined, RemovedOnlyWhenJoined
<1>2. PSpec => []NestedInv
  BY NestedInvariant
<1> QED
  BY <1>1, <1>2, PTL

(***************************************************************************)
(* Join returns the status its process passed to Exit, although it is read *)
(* in the table after ExitRelease let that process go, when every child is *)
(* joined before its parent's next Exec and Exit.                          *)
(***************************************************************************)
THEOREM JoinAlwaysReturnsStatus ==
  UniqueNames => (PSpec /\ nested => JoinReturnsExitStatus)
<1> SUFFICES ASSUME UniqueNames PROVE PSpec /\ nested => JoinReturnsExitStatus
  OBVIOUS
<1> DEFINE Returned == \A t \in Thread :
             pc[t] = "joinReturn" /\ pc'[t] = "user" => result'[t] = exited[joining[t]]
<1>1. NestedInv /\ nested /\ [PNext]_allvars => [Returned]_allvars
  <2> SUFFICES ASSUME NestedInv, nested, PNext,
                      NEW t \in Thread, pc[t] = "joinReturn", pc'[t] = "user"
               PROVE  result'[t] = exited[joining[t]]
    BY DEF Returned
  <2>1. pc \in [Thread -> Labels] /\ result \in [Thread -> Int] /\ currentThread \in Thread
    BY DEF NestedInv, HistoryTypes, UniqueInv, AnyInv, TypesInv, IInv, TypeOK
  <2>2. JoinReturn /\ t = currentThread
    <3>1. CASE \/ Load \/ Allocate \/ ExecNoName \/ ExecRefused \/ ExecUnlock \/ ExecDone
               \/ \E i \in Pid \cup {-1} : Join(i) \/ JoinRefused(i)
               \/ \E p \in Name : Exec(p)
               \/ JoinCount \/ JoinUncount \/ JoinWait \/ JoinRelease
               \/ \E x \in ExitCode : Exit(x)
               \/ ExitWait
      <4>1. pc[currentThread] # "joinReturn" /\ \E l : pc' = [pc EXCEPT ![currentThread] = l]
        BY <3>1
           DEF Load, Allocate, ExecNoName, ExecRefused, ExecUnlock, ExecDone, Join, JoinRefused,
                    Exec, JoinCount, JoinUncount, JoinWait, JoinRelease, Exit, ExitWait, At, Goto,
                    Enter, Return
      <4> QED
        BY <2>1, <4>1
    <3>2. CASE LoadFailed \/ ExitMain \/ CallFaults \/ UserException \/ Kernel(KernelNext)
      BY <3>2 DEF LoadFailed, ExitMain, CallFaults, UserException, Stop, Kernel, pvars
    <3>3. CASE \E x \in Thread : ExecCreate(x)
      BY <2>1, <3>3 DEF ExecCreate, Goto, At
    <3>4. CASE ExecFork
      BY <2>1, <3>4 DEF ExecFork, At
    <3>5. CASE Remove
      BY <2>1, <3>5 DEF Remove, Goto, At
    <3>6. CASE JoinReturn
      BY <2>1, <3>6 DEF JoinReturn, Return, Goto
    <3> QED
      BY <3>1, <3>2, <3>3, <3>4, <3>5, <3>6 DEF PNext, SystemCall, InKernel
  <2>3. result'[t] = exitcode[pcb[frame[t].id]]
    BY <2>1, <2>2 DEF JoinReturn, Return
  <2>4. joining[t] \in Thread /\ pcb[frame[t].id] = joining[t] /\ pc[joining[t]] \in Over
    BY DEF NestedInv, NestedFacts, JoinOk, JoinLabels
  <2> QED
    BY <2>3, <2>4 DEF NestedInv, NestedFacts, UnitsInv
<1>2. PSpec => []NestedInv
  BY NestedInvariant
<1>3. nested /\ [PNext]_allvars => nested'
  BY DEF PNext, Kernel, allvars, pvars
<1> QED
  BY <1>1, <1>2, <1>3, PTL DEF PSpec, JoinReturnsExitStatus, Returned
=============================================================================
