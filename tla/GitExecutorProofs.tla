-------------------------- MODULE GitExecutorProofs --------------------------
(***************************************************************************)
(* The mutation gate and the git commands that pass it, for any number of  *)
(* calls, windows, paths, roots, executors and slots.                      *)
(*                                                                         *)
(* Each of the gate's two coordinators behaves as MutationCoordinator      *)
(* says, so what is proved of the queue holds of both; the phases of run   *)
(* tie the two together.  Every step of an executor is a step of the gate  *)
(* or leaves it alone, so what is proved of the gate holds of a window     *)
(* that runs commands and sessions; the slots are proved on their own.     *)
(***************************************************************************)
EXTENDS GitExecutor, FiniteSetTheorems, SequenceTheorems, TLAPS

ByPath == INSTANCE MutationCoordinatorProofs WITH
  Key <- Window \X Path, tails <- pathTails, previous <- pathPrevious, keyOf <- pathKey,
  state <- pathState, ticket <- pathTicket, calls <- pathCalls

ByRoot == INSTANCE MutationCoordinatorProofs WITH
  Key <- Window \X Root, tails <- rootTails, previous <- rootPrevious, keyOf <- rootKey,
  state <- rootState, ticket <- rootTicket, calls <- rootCalls

LEMMA SomeKey == None \notin Call /\ Window \X Path # {} /\ Window \X Root # {}
<1>1. PICK w \in Window, p \in Path, r \in Root : TRUE
  BY GateAssumption DEF GateAssumption
<1>2. <<w, p>> \in Window \X Path /\ <<w, r>> \in Window \X Root
  OBVIOUS
<1> QED
  BY <1>2, GateAssumption DEF GateAssumption

\* The gate's state keeps its types (repositoryMutationGate.ts:18-46).
THEOREM TypeCorrect == Spec => []TypeOK
<1>1. Init => TypeOK
  BY GateAssumption, SomeKey DEF Init, TypeOK, Phase, Requested!Init, Requested!TypeOK,
     Canonical!Init, Canonical!TypeOK
<1>2. TypeOK /\ [Next]_vars => TypeOK'
  <2> SUFFICES ASSUME TypeOK, [Next]_vars PROVE TypeOK'
    OBVIOUS
  <2> USE DEF TypeOK, Phase, Move
  <2>1. ASSUME NEW c \in Call, Run(c) PROVE TypeOK'
    <3> USE DEF Run, rootVars
    <3>1. Requested!TypeOK'
      BY <2>1 DEF Requested!Register, Requested!TypeOK
    <3> QED
      BY <2>1, <3>1 DEF Canonical!TypeOK
  <2>2. ASSUME NEW c \in Call, BeginResolve(c) PROVE TypeOK'
    BY <2>2 DEF BeginResolve, Requested!Start, Requested!TypeOK, Canonical!TypeOK, rootVars
  <2>3. ASSUME NEW c \in Call, EndResolve(c) PROVE TypeOK'
    <3> USE DEF EndResolve
    <3>1. <<pathKey[c][1], realRoot[pathKey[c][2]]>> \in Window \X Root
      BY DEF Requested!TypeOK
    <3>2. ASSUME NEW k \in Window \X Root, Canonical!Register(c, k) PROVE Canonical!TypeOK'
      BY <3>2 DEF Canonical!Register, Canonical!TypeOK
    <3>3. ASSUME UNCHANGED rootVars PROVE Canonical!TypeOK'
      BY <3>3 DEF Canonical!TypeOK, rootVars
    <3>4. Canonical!TypeOK'
      BY <2>3, <3>1, <3>2, <3>3
    <3> QED
      BY <2>3, <3>4 DEF Requested!TypeOK, pathVars
  <2>4. ASSUME NEW c \in Call, BeginAcquire(c) PROVE TypeOK'
    BY <2>4 DEF BeginAcquire, Canonical!Start, Requested!TypeOK, Canonical!TypeOK, pathVars
  <2>5. ASSUME NEW c \in Call, Acquire(c) \/ GiveUp(c) \/ EndOperation(c) PROVE TypeOK'
    BY <2>5 DEF Acquire, GiveUp, EndOperation, Requested!TypeOK, Canonical!TypeOK, pathVars, rootVars
  <2>6. ASSUME NEW c \in Call, LeaveRoot(c) PROVE TypeOK'
    BY <2>6 DEF LeaveRoot, Canonical!Finish, Requested!TypeOK, Canonical!TypeOK, pathVars
  <2>7. ASSUME NEW c \in Call, LeavePath(c) PROVE TypeOK'
    BY <2>7 DEF LeavePath, Requested!Finish, Requested!TypeOK, Canonical!TypeOK, rootVars
  <2>8. CASE UNCHANGED vars
    BY <2>8 DEF vars, pathVars, rootVars, Requested!TypeOK, Canonical!TypeOK
  <2> QED
    BY <2>1, <2>2, <2>3, <2>4, <2>5, <2>6, <2>7, <2>8 DEF Next, Progress
<1> QED
  BY <1>1, <1>2, PTL DEF Spec

\* requestedPathCoordinator is a queue over the paths asked for
\* (repositoryMutationGate.ts:37).
THEOREM QueuesByPath == Spec => ByPath!Spec
<1>1. Init => ByPath!Init
  BY DEF Init, Requested!Init, ByPath!Init
<1>2. [Next]_vars => [ByPath!Next]_(ByPath!queueVars)
  BY DEF Next, Progress, Run, BeginResolve, EndResolve, BeginAcquire, Acquire, GiveUp,
     EndOperation, LeaveRoot, LeavePath, vars, pathVars, ByPath!Next, ByPath!queueVars,
     Requested!Register, ByPath!Register, Requested!Start, ByPath!Start,
     Requested!Finish, ByPath!Finish
<1> QED
  BY <1>1, <1>2, PTL DEF Spec, ByPath!Spec

\* coordinator is a queue over the roots the paths resolve to
\* (repositoryMutationGate.ts:39).
THEOREM QueuesByRoot == Spec => ByRoot!Spec
<1>1. Init => ByRoot!Init
  BY DEF Init, Canonical!Init, ByRoot!Init
<1>2. TypeOK /\ [Next]_vars => [ByRoot!Next]_(ByRoot!queueVars)
  <2> SUFFICES ASSUME TypeOK, [Next]_vars PROVE [ByRoot!Next]_(ByRoot!queueVars)
    OBVIOUS
  <2> USE DEF ByRoot!Next, ByRoot!queueVars
  <2>1. ASSUME NEW c \in Call, EndResolve(c) PROVE [ByRoot!Next]_(ByRoot!queueVars)
    <3>1. <<pathKey[c][1], realRoot[pathKey[c][2]]>> \in Window \X Root
      BY DEF TypeOK, Requested!TypeOK
    <3> QED
      BY <2>1, <3>1 DEF EndResolve, Canonical!Register, ByRoot!Register, rootVars
  <2>2. ASSUME NEW c \in Call, BeginAcquire(c) PROVE [ByRoot!Next]_(ByRoot!queueVars)
    BY <2>2 DEF BeginAcquire, Canonical!Start, ByRoot!Start
  <2>3. ASSUME NEW c \in Call, LeaveRoot(c) PROVE [ByRoot!Next]_(ByRoot!queueVars)
    BY <2>3 DEF LeaveRoot, Canonical!Finish, ByRoot!Finish
  <2>4. ASSUME UNCHANGED rootVars PROVE [ByRoot!Next]_(ByRoot!queueVars)
    BY <2>4 DEF rootVars
  <2>5. \A c \in Call :
          Run(c) \/ BeginResolve(c) \/ Acquire(c) \/ GiveUp(c) \/ EndOperation(c) \/ LeavePath(c)
          => UNCHANGED rootVars
    BY DEF Run, BeginResolve, Acquire, GiveUp, EndOperation, LeavePath
  <2> QED
    BY <2>1, <2>2, <2>3, <2>4, <2>5 DEF Next, Progress, vars
<1> QED
  BY <1>1, <1>2, TypeCorrect, PTL DEF Spec, ByRoot!Spec

LEMMA QueueInvs == Spec => [](ByPath!QueueInv /\ ByRoot!QueueInv)
<1>1. ByPath!Spec => []ByPath!QueueInv
  BY SomeKey, ByPath!QueueInvAlways
<1>2. ByRoot!Spec => []ByRoot!QueueInv
  BY SomeKey, ByRoot!QueueInvAlways
<1> QED
  BY <1>1, <1>2, QueuesByPath, QueuesByRoot, PTL

(***************************************************************************)
(* How run's phases follow its two queues: a call waits or runs in a queue *)
(* exactly between registering there and settling its promise, and it      *)
(* queues by the root its path leads to.                                   *)
(***************************************************************************)
PhasesByPath ==
  \A c \in Call :
    /\ pathState[c] = "new" <=> phase[c] = "new"
    /\ pathState[c] = "waiting" <=> phase[c] = "requested"
    /\ pathState[c] = "over" <=> phase[c] = "over"

PhasesByRoot ==
  \A c \in Call :
    /\ phase[c] \in {"new", "requested", "resolving"} => rootState[c] = "new"
    /\ phase[c] = "queued" => rootState[c] = "waiting"
    /\ InGate(c) => rootState[c] = "running" /\ rootKey[c] = Worktree(c)
    /\ rootState[c] = "waiting" => phase[c] = "queued" /\ rootKey[c] = Worktree(c)

GateInv == PhasesByPath /\ PhasesByRoot /\ LockHeldWhileOperating

LEMMA GateInvInit == Init => GateInv
BY GateAssumption DEF GateAssumption, Init, Requested!Init, Canonical!Init, GateInv, PhasesByPath,
   PhasesByRoot, InGate, LockHeldWhileOperating

LEMMA GateInvStep == TypeOK /\ GateInv /\ [Next]_vars => GateInv'
<1> SUFFICES ASSUME TypeOK, GateInv, [Next]_vars PROVE GateInv'
  OBVIOUS
<1> USE GateAssumption DEF GateAssumption, TypeOK, Requested!TypeOK, Canonical!TypeOK, Phase, Move,
        GateInv, InGate, Worktree
<1>1. ASSUME NEW c \in Call, Run(c) PROVE GateInv'
  <2> USE <1>1 DEF Run, Requested!Register, rootVars
  <2>1. PhasesByPath'
    BY DEF PhasesByPath
  <2>2. PhasesByRoot'
    BY DEF PhasesByRoot, PhasesByPath
  <2>3. LockHeldWhileOperating'
    BY DEF LockHeldWhileOperating
  <2> QED
    BY <2>1, <2>2, <2>3
<1>2. ASSUME NEW c \in Call, BeginResolve(c) PROVE GateInv'
  <2> USE <1>2 DEF BeginResolve, Requested!Start, rootVars
  <2>1. PhasesByPath'
    BY DEF PhasesByPath
  <2>2. PhasesByRoot'
    BY DEF PhasesByRoot
  <2>3. LockHeldWhileOperating'
    BY DEF LockHeldWhileOperating
  <2> QED
    BY <2>1, <2>2, <2>3
<1>3. ASSUME NEW c \in Call, EndResolve(c) PROVE GateInv'
  <2> USE <1>3 DEF EndResolve, Canonical!Register, pathVars, rootVars
  <2>1. PhasesByPath'
    BY DEF PhasesByPath
  <2>2. PhasesByRoot'
    BY DEF PhasesByRoot
  <2>3. LockHeldWhileOperating'
    BY DEF LockHeldWhileOperating
  <2> QED
    BY <2>1, <2>2, <2>3
<1>4. ASSUME NEW c \in Call, BeginAcquire(c) PROVE GateInv'
  <2> USE <1>4 DEF BeginAcquire, Canonical!Start, pathVars
  <2>1. PhasesByPath'
    BY DEF PhasesByPath
  <2>2. PhasesByRoot'
    BY DEF PhasesByRoot
  <2>3. LockHeldWhileOperating'
    BY DEF LockHeldWhileOperating
  <2> QED
    BY <2>1, <2>2, <2>3
<1>5. ASSUME NEW c \in Call, Acquire(c) \/ GiveUp(c) \/ EndOperation(c) PROVE GateInv'
  <2> USE <1>5 DEF Acquire, GiveUp, EndOperation, pathVars, rootVars
  <2>1. PhasesByPath'
    BY DEF PhasesByPath
  <2>2. PhasesByRoot'
    BY DEF PhasesByRoot
  <2>3. LockHeldWhileOperating'
    BY DEF LockHeldWhileOperating
  <2> QED
    BY <2>1, <2>2, <2>3
<1>6. ASSUME NEW c \in Call, LeaveRoot(c) PROVE GateInv'
  <2> USE <1>6 DEF LeaveRoot, Canonical!Finish, pathVars
  <2>1. PhasesByPath'
    BY DEF PhasesByPath
  <2>2. PhasesByRoot'
    BY DEF PhasesByRoot
  <2>3. LockHeldWhileOperating'
    BY DEF LockHeldWhileOperating
  <2> QED
    BY <2>1, <2>2, <2>3
<1>7. ASSUME NEW c \in Call, LeavePath(c) PROVE GateInv'
  <2> USE <1>7 DEF LeavePath, Requested!Finish, rootVars
  <2>1. PhasesByPath'
    BY DEF PhasesByPath
  <2>2. PhasesByRoot'
    BY DEF PhasesByRoot
  <2>3. LockHeldWhileOperating'
    BY DEF LockHeldWhileOperating
  <2> QED
    BY <2>1, <2>2, <2>3
<1>8. CASE UNCHANGED vars
  BY <1>8 DEF vars, pathVars, rootVars, PhasesByPath, PhasesByRoot, LockHeldWhileOperating
<1> QED
  BY <1>1, <1>2, <1>3, <1>4, <1>5, <1>6, <1>7, <1>8 DEF Next, Progress

LEMMA GateInvAlways == Spec => []GateInv
BY GateInvInit, GateInvStep, TypeCorrect, PTL DEF Spec

\* Nobody holds the lock outside its operation, whatever the number of windows
\* and calls (repositoryMutationGate.ts:41-45).
THEOREM LockScoped == Spec => []LockHeldWhileOperating
<1>1. GateInv => LockHeldWhileOperating
  BY DEF GateInv
<1> QED
  BY <1>1, GateInvAlways, PTL

\* Calls a window makes with one path take their turns in the order they were
\* made, for any number of calls (repositoryMutationGate.ts:35-37).
THEOREM PathOrder == Spec => []SamePathOrder
<1>1. TypeOK /\ GateInv /\ ByPath!QueueInv => SamePathOrder
  <2> SUFFICES ASSUME TypeOK, GateInv, ByPath!QueueInv, NEW c \in Call, NEW d \in Call,
                      Requested!Before(c, d), phase[d] # "requested"
               PROVE  phase[c] = "over"
    BY DEF SamePathOrder
  <2>1. ByPath!Before(c, d) /\ pathState[d] # "new"
    BY DEF Requested!Before, ByPath!Before, Requested!Registered, ByPath!Registered
  <2>2. pathState[d] \in {"running", "over"}
    BY <2>1 DEF GateInv, PhasesByPath, TypeOK, Requested!TypeOK
  <2>3. pathState[c] = "over"
    BY <2>1, <2>2 DEF ByPath!QueueInv, ByPath!FirstComeFirstServed
  <2> QED
    BY <2>3 DEF GateInv, PhasesByPath
<1> QED
  BY <1>1, TypeCorrect, GateInvAlways, QueueInvs, PTL

\* The mutations of one worktree in one window run one at a time, by whatever
\* paths they were asked for (repositoryMutationGate.ts:39).
THEOREM WorktreeExclusion == Spec => []OnePerWorktree
<1>1. TypeOK /\ GateInv /\ ByRoot!QueueInv => OnePerWorktree
  <2> SUFFICES ASSUME TypeOK, GateInv, ByRoot!QueueInv, NEW c \in Call, NEW d \in Call,
                      InGate(c), InGate(d), Worktree(c) = Worktree(d), c # d
               PROVE  FALSE
    BY DEF OnePerWorktree
  <2>1. /\ rootState[c] = "running" /\ rootState[d] = "running"
        /\ rootKey[c] = rootKey[d]
    BY DEF GateInv, PhasesByRoot
  <2>2. ByRoot!Registered(c) /\ ByRoot!Registered(d)
    BY <2>1 DEF ByRoot!Registered
  <2>3. rootTicket[c] # rootTicket[d]
    BY <2>2 DEF ByRoot!QueueInv, ByRoot!TicketsOrder
  <2>4. rootTicket[c] \in Nat /\ rootTicket[d] \in Nat
    BY DEF TypeOK, Canonical!TypeOK
  <2>5. ByRoot!Before(c, d) \/ ByRoot!Before(d, c)
    BY <2>1, <2>2, <2>3, <2>4 DEF ByRoot!Before
  <2> QED
    BY <2>1, <2>5 DEF ByRoot!QueueInv, ByRoot!FirstComeFirstServed
<1> QED
  BY <1>1, TypeCorrect, GateInvAlways, QueueInvs, PTL

-----------------------------------------------------------------------------
(***************************************************************************)
(* The executor around the gate.                                           *)
(***************************************************************************)

\* A window that runs commands and sessions uses the gate as its own
\* specification says, so order, exclusion and the scope of the lock hold there
\* too (executor.ts:376-402, run.ts:107 and 130).
THEOREM ExecutorUsesGate == ExecSpec => Spec
<1>1. ExecInit => Init
  BY DEF ExecInit
<1>2. [ExecNext]_execVars => [Next]_vars
  <2> SUFFICES ASSUME [ExecNext]_execVars PROVE [Next]_vars
    OBVIOUS
  <2>1. ASSUME NEW c \in Call, Run(c) \/ Progress(c) PROVE Next
    BY <2>1 DEF Next
  <2>2. ASSUME NEW c \in Call, Advance(c) PROVE Next \/ UNCHANGED vars
    BY <2>1, <2>2 DEF Advance, Probe, EnterGate, InGateStep, LeaveGate, EndProcess, RunCommand
  <2>3. ASSUME NEW c \in Call, RunCommand(c) \/ RunSession(c) PROVE Next \/ UNCHANGED vars
    BY <2>1, <2>3 DEF RunCommand, RunSession, EnterGate
  <2> QED
    BY <2>2, <2>3 DEF ExecNext, execVars
<1> QED
  BY <1>1, <1>2, PTL DEF ExecSpec, Spec

(***************************************************************************)
(* The slots.  A call is queued at its executor exactly while it waits for *)
(* a slot, once; the counter is the number of calls past the semaphore,    *)
(* and only a full executor has a queue.                                   *)
(***************************************************************************)
Distinct(q) == \A i, k \in 1..Len(q) : q[i] = q[k] => i = k
Members(q) == {q[i] : i \in 1..Len(q)}

Waiters(e) == {c \in Call : job[c].executor = e /\ at[c] = "waiting"}
Holders(e) == {c \in Call : job[c].executor = e /\ HoldsSlot(c)}

Queued == \A e \in Executor : Distinct(queue[e]) /\ Members(queue[e]) = Waiters(e)

Counted ==
  \A e \in Executor :
    /\ IsFiniteSet(Holders(e))
    /\ active[e] = Cardinality(Holders(e))
    /\ queue[e] # <<>> => active[e] = MaxConcurrent

SlotInv == ExecTypeOK /\ Queued /\ Counted

LEMMA Appended ==
  ASSUME NEW S, NEW q \in Seq(S), Distinct(q), NEW x \in S, x \notin Members(q)
  PROVE  /\ Distinct(Append(q, x))
         /\ Members(Append(q, x)) = Members(q) \cup {x}
<1> DEFINE n == Len(q)  r == Append(q, x)
<1>1. n \in Nat /\ Len(r) = n + 1
  BY LenProperties, AppendProperties
<1>2. \A i \in 1..n : r[i] = q[i]
  BY AppendProperties
<1>3. r[n + 1] = x
  BY AppendProperties
<1> HIDE DEF n, r
<1>4. 1..n + 1 = 1..n \cup {n + 1}
  BY <1>1
<1>5. \A i \in 1..n : q[i] # x
  BY DEF Members, n
<1>6. \A i, k \in 1..n : q[i] = q[k] => i = k
  BY DEF Distinct, n
<1>7. Distinct(r)
  BY <1>1, <1>2, <1>3, <1>4, <1>5, <1>6 DEF Distinct
<1>8. Members(r) = Members(q) \cup {x}
  <2>1. Members(q) = {q[i] : i \in 1..n}
    BY DEF Members, n
  <2>2. Members(r) = {r[i] : i \in 1..n \cup {n + 1}}
    BY <1>1, <1>4 DEF Members
  <2> QED
    BY <1>2, <1>3, <2>1, <2>2
<1> QED
  BY <1>7, <1>8 DEF r

LEMMA HeadTaken ==
  ASSUME NEW S, NEW q \in Seq(S), q # <<>>, Distinct(q)
  PROVE  /\ Head(q) \in Members(q)
         /\ Distinct(Tail(q))
         /\ Members(Tail(q)) = Members(q) \ {Head(q)}
<1> DEFINE n == Len(q)  r == Tail(q)
<1>1. n \in Nat \ {0} /\ Len(r) = n - 1 /\ Head(q) = q[1]
  BY LenProperties, HeadTailProperties, EmptySeq
<1>2. \A i \in 1..n - 1 : r[i] = q[i + 1]
  BY HeadTailProperties
<1> HIDE DEF n, r
<1>3. \A i, k \in 1..n : q[i] = q[k] => i = k
  BY DEF Distinct, n
<1>4. Members(q) = {q[i] : i \in 1..n} /\ Members(r) = {r[i] : i \in 1..n - 1}
  BY <1>1 DEF Members, n
<1>5. Distinct(r)
  BY <1>1, <1>2, <1>3 DEF Distinct
<1>6. ASSUME NEW y \in Members(r) PROVE y \in Members(q) \ {q[1]}
  <2>1. PICK i \in 1..n - 1 : y = r[i]
    BY <1>4, <1>6
  <2>2. i + 1 \in 1..n /\ i + 1 # 1 /\ 1 \in 1..n
    BY <1>1
  <2> QED
    BY <1>2, <1>3, <1>4, <2>1, <2>2
<1>7. ASSUME NEW y \in Members(q), y # q[1] PROVE y \in Members(r)
  <2>1. PICK i \in 1..n : y = q[i]
    BY <1>4, <1>7
  <2>2. i - 1 \in 1..n - 1 /\ (i - 1) + 1 = i
    BY <1>1, <1>7, <2>1
  <2> QED
    BY <1>2, <1>4, <2>1, <2>2
<1>8. Head(q) \in Members(q)
  BY <1>1, <1>4
<1> QED
  BY <1>1, <1>5, <1>6, <1>7, <1>8 DEF r

LEMMA JobsAreTyped ==
  ASSUME ExecTypeOK, NEW c \in Call
  PROVE  job[c].executor \in Executor
<1>1. PICK d \in Call : job[c] \in Jobs[d]
  BY DEF ExecTypeOK
<1> QED
  BY <1>1, ExecutorAssumption DEF ExecutorAssumption

LEMMA RoutedHoldsSlot == \A c : Routed(c) \in {"probing", "running"}
BY DEF Routed

\* A release moves its call to "done" and at most one waiter to its slot.
LEMMA ReleaseMoves ==
  ASSUME SlotInv, NEW c \in Call, HoldsSlot(c), release(c), UNCHANGED job
  PROVE  /\ at'[c] = "done"
         /\ \A d \in Call : d # c => (at'[d] = "done" <=> at[d] = "done")
<1> DEFINE e == job[c].executor  next == Head(queue[e])
<1>1. e \in Executor
  BY JobsAreTyped DEF SlotInv
<1>2. ASSUME queue[e] # <<>> PROVE next \in Waiters(e)
  BY <1>1, <1>2, HeadTaken DEF SlotInv, Queued, ExecTypeOK
<1>3. CASE queue[e] # <<>> /\ at' = [at EXCEPT ![c] = "done", ![next] = Routed(next)]
  <2>1. next \in Call /\ next # c /\ at[next] # "done"
    BY <1>2, <1>3 DEF Waiters, HoldsSlot
  <2> HIDE DEF next
  <2> QED
    BY <1>3, <2>1, RoutedHoldsSlot DEF SlotInv, ExecTypeOK
<1>4. CASE at' = [at EXCEPT ![c] = "done"]
  BY <1>4 DEF SlotInv, ExecTypeOK
<1> QED
  BY <1>3, <1>4 DEF release

\* A call that asks is given a slot or the last place in the queue.
LEMMA AcquireKeeps ==
  ASSUME SlotInv, NEW c \in Call, at[c] = "idle", acquire(c), UNCHANGED <<job, succeeded, reported>>
  PROVE  SlotInv'
<1> DEFINE e == job[c].executor
<1>1. e \in Executor
  BY JobsAreTyped DEF SlotInv
<1>2. /\ queue[e] \in Seq(Call)
      /\ active[e] \in 0..MaxConcurrent
      /\ MaxConcurrent \in Nat \ {0}
  BY <1>1, ExecutorAssumption DEF ExecutorAssumption, SlotInv, ExecTypeOK
<1>3. c \notin Holders(e) /\ c \notin Waiters(e)
  BY DEF Holders, Waiters, HoldsSlot
<1>4. CASE active[e] < MaxConcurrent /\ active' = [active EXCEPT ![e] = @ + 1]
           /\ at' = [at EXCEPT ![c] = Routed(c)] /\ UNCHANGED queue
  <2>1. ExecTypeOK'
    <3>1. active' \in [Executor -> 0..MaxConcurrent]
      BY <1>1, <1>2, <1>4 DEF SlotInv, ExecTypeOK
    <3> QED
      BY <1>4, <3>1, RoutedHoldsSlot DEF SlotInv, ExecTypeOK
  <2>2. \A f : Waiters(f)' = Waiters(f)
    BY <1>4, RoutedHoldsSlot DEF Waiters, SlotInv, ExecTypeOK
  <2>3. \A f \in Executor : Holders(f)' = IF f = e THEN Holders(f) \cup {c} ELSE Holders(f)
    BY <1>4, RoutedHoldsSlot DEF Holders, HoldsSlot, SlotInv, ExecTypeOK
  <2>4. Queued'
    BY <1>4, <2>2 DEF Queued, SlotInv
  <2>5. Counted'
    <3> SUFFICES ASSUME NEW f \in Executor
                 PROVE  /\ IsFiniteSet(Holders(f)')
                        /\ active'[f] = Cardinality(Holders(f)')
                        /\ queue[f] # <<>> => active'[f] = MaxConcurrent
      BY <1>4 DEF Counted
    <3>1. CASE f = e
      <4>1. queue[e] = <<>> /\ IsFiniteSet(Holders(e)) /\ active[e] = Cardinality(Holders(e))
        BY <1>1, <1>2, <1>4 DEF Counted, SlotInv
      <4>2. /\ IsFiniteSet(Holders(e) \cup {c})
            /\ Cardinality(Holders(e) \cup {c}) = active[e] + 1
        BY <1>3, <4>1, FS_AddElement
      <4>3. active'[e] = active[e] + 1
        BY <1>1, <1>4 DEF SlotInv, ExecTypeOK
      <4> QED
        BY <2>3, <3>1, <4>1, <4>2, <4>3
    <3>2. CASE f # e
      BY <1>1, <1>4, <2>3, <3>2 DEF Counted, SlotInv, ExecTypeOK
    <3> QED
      BY <3>1, <3>2
  <2> QED
    BY <2>1, <2>4, <2>5 DEF SlotInv
<1>5. CASE active[e] >= MaxConcurrent /\ queue' = [queue EXCEPT ![e] = Append(@, c)]
           /\ at' = [at EXCEPT ![c] = "waiting"] /\ UNCHANGED active
  <2>1. queue'[e] = Append(queue[e], c) /\ Append(queue[e], c) \in Seq(Call)
    BY <1>1, <1>2, <1>5, AppendProperties DEF SlotInv, ExecTypeOK
  <2>2. ExecTypeOK'
    BY <1>1, <1>5, <2>1 DEF SlotInv, ExecTypeOK
  <2>3. \A f \in Executor : Waiters(f)' = IF f = e THEN Waiters(f) \cup {c} ELSE Waiters(f)
    BY <1>5 DEF Waiters, SlotInv, ExecTypeOK
  <2>4. \A f : Holders(f)' = Holders(f)
    BY <1>5 DEF Holders, HoldsSlot, SlotInv, ExecTypeOK
  <2>5. Queued'
    <3>1. Distinct(queue[e]) /\ Members(queue[e]) = Waiters(e)
      BY <1>1 DEF SlotInv, Queued
    <3>2. Distinct(Append(queue[e], c)) /\ Members(Append(queue[e], c)) = Waiters(e) \cup {c}
      BY <1>2, <1>3, <3>1, Appended
    <3>3. \A f \in Executor : f # e => queue'[f] = queue[f]
      BY <1>5 DEF SlotInv, ExecTypeOK
    <3> QED
      BY <2>1, <2>3, <3>2, <3>3 DEF Queued, SlotInv
  <2>6. active[e] = MaxConcurrent
    BY <1>2, <1>5
  <2>7. Counted'
    <3>1. \A f \in Executor : f # e => queue'[f] = queue[f]
      BY <1>5 DEF SlotInv, ExecTypeOK
    <3> QED
      BY <1>5, <2>4, <2>6, <3>1 DEF Counted, SlotInv
  <2> QED
    BY <2>2, <2>5, <2>7 DEF SlotInv
<1> QED
  BY <1>4, <1>5 DEF acquire

\* A released slot is the first waiter's, or free.
LEMMA ReleaseKeeps ==
  ASSUME SlotInv, NEW c \in Call, HoldsSlot(c), release(c), UNCHANGED job,
         succeeded' \in SUBSET Call, reported' \in SUBSET Call
  PROVE  SlotInv' /\ at' \in [Call -> {"idle", "waiting", "probing", "gated", "running", "done"}]
<1> DEFINE e == job[c].executor  next == Head(queue[e])
<1>1. e \in Executor
  BY JobsAreTyped DEF SlotInv
<1>2. /\ queue[e] \in Seq(Call)
      /\ active[e] \in 0..MaxConcurrent
      /\ MaxConcurrent \in Nat \ {0}
  BY <1>1, ExecutorAssumption DEF ExecutorAssumption, SlotInv, ExecTypeOK
<1>3. c \in Holders(e) /\ c \notin Waiters(e)
  BY DEF Holders, Waiters, HoldsSlot
<1>4. /\ IsFiniteSet(Holders(e))
      /\ active[e] = Cardinality(Holders(e))
      /\ queue[e] # <<>> => active[e] = MaxConcurrent
      /\ Distinct(queue[e])
      /\ Members(queue[e]) = Waiters(e)
  BY <1>1 DEF SlotInv, Counted, Queued
<1>5. /\ IsFiniteSet(Holders(e) \ {c})
      /\ Cardinality(Holders(e) \ {c}) = active[e] - 1
  <2>1. c \in Holders(e) /\ IsFiniteSet(Holders(e)) /\ active[e] = Cardinality(Holders(e))
    BY <1>3, <1>4
  <2> HIDE DEF e
  <2> QED
    BY <2>1, FS_RemoveElement
<1>6. CASE queue[e] # <<>> /\ queue' = [queue EXCEPT ![e] = Tail(@)]
           /\ at' = [at EXCEPT ![c] = "done", ![next] = Routed(next)] /\ UNCHANGED active
  <2>1. /\ next \in Waiters(e)
        /\ Distinct(Tail(queue[e]))
        /\ Members(Tail(queue[e])) = Waiters(e) \ {next}
        /\ Tail(queue[e]) \in Seq(Call)
    BY <1>2, <1>4, <1>6, HeadTaken, HeadTailProperties
  <2>2. next \in Call /\ next # c /\ next \notin Holders(e) /\ job[next].executor = e
    BY <1>3, <2>1 DEF Waiters, Holders, HoldsSlot
  <2>3. queue'[e] = Tail(queue[e]) /\ \A f \in Executor : f # e => queue'[f] = queue[f]
    BY <1>1, <1>6 DEF SlotInv, ExecTypeOK
  <2> HIDE DEF next
  <2>4. /\ at'[c] = "done" /\ at'[next] \in {"probing", "running"}
        /\ \A d \in Call : d # c /\ d # next => at'[d] = at[d]
    BY <1>6, <2>2, RoutedHoldsSlot DEF SlotInv, ExecTypeOK
  <2>5. ExecTypeOK'
    BY <1>1, <1>6, <2>1, RoutedHoldsSlot DEF SlotInv, ExecTypeOK
  <2>6. \A f \in Executor : Waiters(f)' = IF f = e THEN Waiters(f) \ {next} ELSE Waiters(f)
    BY <1>3, <2>2, <2>4 DEF Waiters
  <2>7. \A f \in Executor :
          Holders(f)' = IF f = e THEN (Holders(f) \ {c}) \cup {next} ELSE Holders(f)
    BY <1>3, <2>2, <2>4 DEF Holders, HoldsSlot
  <2>8. Queued'
    BY <2>1, <2>3, <2>6 DEF Queued, SlotInv
  <2>9. /\ IsFiniteSet((Holders(e) \ {c}) \cup {next})
        /\ Cardinality((Holders(e) \ {c}) \cup {next}) = (active[e] - 1) + 1
    BY <1>5, <2>2, FS_AddElement
  <2>10. (active[e] - 1) + 1 = active[e] /\ active[e] = MaxConcurrent
    BY <1>2, <1>4, <1>6
  <2>11. Counted'
    BY <1>6, <2>3, <2>7, <2>9, <2>10 DEF Counted, SlotInv
  <2> QED
    BY <2>5, <2>8, <2>11 DEF SlotInv, ExecTypeOK
<1>7. CASE queue[e] = <<>> /\ active' = [active EXCEPT ![e] = @ - 1]
           /\ at' = [at EXCEPT ![c] = "done"] /\ UNCHANGED queue
  <2>1. Cardinality(Holders(e)) # 0
    BY <1>3, <1>4, FS_EmptySet
  <2>2. ExecTypeOK'
    <3>1. active' \in [Executor -> 0..MaxConcurrent]
      BY <1>1, <1>2, <1>4, <1>7, <2>1 DEF SlotInv, ExecTypeOK
    <3> QED
      BY <1>7, <3>1 DEF SlotInv, ExecTypeOK
  <2>3. \A f : Waiters(f)' = Waiters(f)
    BY <1>3, <1>7 DEF Waiters, SlotInv, ExecTypeOK, Holders, HoldsSlot
  <2>4. \A f \in Executor : Holders(f)' = IF f = e THEN Holders(f) \ {c} ELSE Holders(f)
    BY <1>7 DEF Holders, HoldsSlot, SlotInv, ExecTypeOK
  <2>5. Queued'
    BY <1>7, <2>3 DEF Queued, SlotInv
  <2>6. active'[e] = active[e] - 1 /\ \A f \in Executor : f # e => active'[f] = active[f]
    BY <1>1, <1>7 DEF SlotInv, ExecTypeOK
  <2>7. Counted'
    BY <1>5, <1>7, <2>4, <2>6 DEF Counted, SlotInv
  <2> QED
    BY <2>2, <2>5, <2>7 DEF SlotInv, ExecTypeOK
<1> QED
  BY <1>6, <1>7 DEF release

\* A step that moves a call between two places where it holds its slot.
LEMMA SlotStays ==
  ASSUME SlotInv, NEW c \in Call, HoldsSlot(c), at' = [at EXCEPT ![c] = "gated"],
         UNCHANGED <<job, slotVars>>, succeeded' \in SUBSET Call, reported' \in SUBSET Call
  PROVE  SlotInv'
<1>1. \A f : Waiters(f)' = Waiters(f) /\ Holders(f)' = Holders(f)
  BY DEF SlotInv, ExecTypeOK, Waiters, Holders, HoldsSlot
<1> QED
  BY <1>1 DEF SlotInv, ExecTypeOK, Queued, Counted, slotVars

LEMMA SlotInvInit == ExecInit => SlotInv
<1> SUFFICES ASSUME ExecInit PROVE SlotInv
  OBVIOUS
<1>1. ExecTypeOK
  BY ExecutorAssumption DEF ExecInit, ExecTypeOK, ExecutorAssumption
<1>2. \A e \in Executor : queue[e] = <<>> /\ active[e] = 0
  BY DEF ExecInit
<1>3. \A e : Waiters(e) = {} /\ Holders(e) = {}
  BY DEF ExecInit, Waiters, Holders, HoldsSlot
<1>4. Len(<<>>) = 0
  OBVIOUS
<1>5. Distinct(<<>>) /\ Members(<<>>) = {}
  BY <1>4 DEF Distinct, Members
<1>6. Queued
  BY <1>2, <1>3, <1>5 DEF Queued
<1>7. Counted
  BY <1>2, <1>3, FS_EmptySet DEF Counted
<1> QED
  BY <1>1, <1>6, <1>7 DEF SlotInv

LEMMA SlotInvStep == SlotInv /\ [ExecNext]_execVars => SlotInv'
<1> SUFFICES ASSUME SlotInv, [ExecNext]_execVars PROVE SlotInv'
  OBVIOUS
<1>1. ASSUME NEW c \in Call, RunCommand(c) PROVE SlotInv'
  BY <1>1, AcquireKeeps DEF RunCommand
<1>2. ASSUME UNCHANGED <<job, at, slotVars>>, succeeded' \in SUBSET Call, UNCHANGED reported
      PROVE  SlotInv'
  BY <1>2 DEF SlotInv, ExecTypeOK, Queued, Counted, Waiters, Holders, HoldsSlot, slotVars
<1>3. ASSUME NEW c \in Call, RunSession(c) PROVE SlotInv'
  BY <1>2, <1>3 DEF RunSession, EnterGate, SlotInv, ExecTypeOK
<1>4. ASSUME NEW c \in Call, NEW success \in BOOLEAN, HoldsSlot(c), Leave(c, success)
      PROVE  SlotInv'
  <2>1. succeeded' \in SUBSET Call /\ reported' \in SUBSET Call
    BY <1>4 DEF Leave, SlotInv, ExecTypeOK
  <2> QED
    BY <1>4, <2>1, ReleaseKeeps DEF Leave
<1>5. ASSUME NEW c \in Call, Probe(c) PROVE SlotInv'
  <2>1. HoldsSlot(c)
    BY <1>5 DEF Probe, HoldsSlot
  <2>2. CASE EnterGate(c) /\ at' = [at EXCEPT ![c] = "gated"]
    <3>1. UNCHANGED <<job, slotVars>> /\ succeeded' \in SUBSET Call /\ reported' \in SUBSET Call
      BY <2>2 DEF EnterGate, SlotInv, ExecTypeOK
    <3> QED
      BY <2>1, <2>2, <3>1, SlotStays
  <2> QED
    BY <1>4, <1>5, <2>1, <2>2 DEF Probe
<1>6. ASSUME NEW c \in Call, InGateStep(c) PROVE SlotInv'
  <2>1. succeeded' \in SUBSET Call
    BY <1>6 DEF InGateStep, SlotInv, ExecTypeOK
  <2> QED
    BY <1>2, <1>6, <2>1 DEF InGateStep
<1>7. ASSUME NEW c \in Call, LeaveGate(c) PROVE SlotInv'
  <2>1. HoldsSlot(c) /\ Leave(c, c \in succeeded)
    BY <1>7 DEF LeaveGate, HoldsSlot
  <2>2. CASE c \in succeeded
    <3>1. Leave(c, TRUE)
      BY <2>1, <2>2 DEF Leave
    <3> QED
      BY <1>4, <2>1, <3>1
  <2>3. CASE c \notin succeeded
    <3>1. Leave(c, FALSE)
      BY <2>1, <2>3 DEF Leave
    <3> QED
      BY <1>4, <2>1, <3>1
  <2> QED
    BY <2>2, <2>3
<1>8. ASSUME NEW c \in Call, EndProcess(c) PROVE SlotInv'
  BY <1>4, <1>8 DEF EndProcess, HoldsSlot
<1>9. CASE UNCHANGED execVars
  BY <1>2, <1>9 DEF execVars, SlotInv, ExecTypeOK
<1> QED
  BY <1>1, <1>3, <1>5, <1>6, <1>7, <1>8, <1>9 DEF ExecNext, Advance

LEMMA CountsAreSlots == SlotInv => SlotsAccounted
<1> SUFFICES ASSUME SlotInv, NEW e \in Executor
             PROVE  /\ active[e] = Cardinality({c \in Call : job[c].executor = e /\ HoldsSlot(c)})
                    /\ active[e] <= MaxConcurrent
                    /\ queue[e] # <<>> => active[e] = MaxConcurrent
  BY DEF SlotsAccounted
<1>1. active[e] \in 0..MaxConcurrent /\ MaxConcurrent \in Nat
  BY ExecutorAssumption DEF ExecutorAssumption, SlotInv, ExecTypeOK
<1>2. active[e] = Cardinality(Holders(e)) /\ (queue[e] # <<>> => active[e] = MaxConcurrent)
  BY DEF SlotInv, Counted
<1>3. active[e] <= MaxConcurrent
  BY <1>1
<1> QED
  BY <1>2, <1>3 DEF Holders

\* An executor counts exactly the commands that hold one of its slots, never more
\* than the limit, and hands a released slot on while somebody waits, for any
\* number of executors and commands (executor.ts:92-101, 396-416).
THEOREM SlotsCounted == ExecSpec => []SlotsAccounted
BY CountsAreSlots, SlotInvInit, SlotInvStep, PTL DEF ExecSpec

(***************************************************************************)
(* The listener.  A call is reported exactly when it is done, succeeded    *)
(* and its subcommand is a notified one; a command that is still on its    *)
(* way was never reported.                                                 *)
(***************************************************************************)
Heard(c) == resolveSubcommand(job[c].args) \in NOTIFIED_SUBCOMMANDS

Reporting == \A c \in Call : c \in reported <=> at[c] = "done" /\ c \in succeeded /\ Heard(c)

LEMMA ReportingInit == ExecInit => Reporting
BY DEF ExecInit, Reporting

LEMMA ReportingStep == SlotInv /\ Reporting /\ [ExecNext]_execVars => Reporting'
<1> SUFFICES ASSUME SlotInv, Reporting, [ExecNext]_execVars PROVE Reporting'
  OBVIOUS
<1> USE DEF SlotInv, ExecTypeOK
<1>1. ASSUME NEW c \in Call, RunCommand(c) PROVE Reporting'
  <2>1. /\ at[c] = "idle" /\ at'[c] # "done"
        /\ \A d \in Call : d # c => at'[d] = at[d]
    BY <1>1, RoutedHoldsSlot DEF RunCommand, acquire
  <2> QED
    BY <1>1, <2>1 DEF RunCommand, Reporting, Heard
<1>2. ASSUME NEW c \in Call, RunSession(c) PROVE Reporting'
  BY <1>2 DEF RunSession, EnterGate, Reporting, Heard
<1>3. ASSUME NEW c \in Call, NEW success \in BOOLEAN, HoldsSlot(c), Leave(c, success)
      PROVE  Reporting'
  <2>1. at[c] # "done" /\ at'[c] = "done"
    BY <1>3, RoutedHoldsSlot, ReleaseMoves DEF HoldsSlot, Leave
  <2>2. \A d \in Call : d # c => (at'[d] = "done" <=> at[d] = "done")
    BY <1>3, ReleaseMoves DEF Leave
  <2>3. job' = job /\ succeeded' = (IF success THEN succeeded \cup {c} ELSE succeeded \ {c})
    BY <1>3 DEF Leave
  <2>4. reported' = IF success /\ Heard(c) THEN reported \cup {c} ELSE reported
    BY <1>3 DEF Leave, Heard
  <2>5. \A d : Heard(d)' = Heard(d)
    BY <2>3 DEF Heard
  <2> QED
    BY <2>1, <2>2, <2>3, <2>4, <2>5 DEF Reporting
<1>4. ASSUME NEW c \in Call, Probe(c) PROVE Reporting'
  <2>1. CASE EnterGate(c) /\ at' = [at EXCEPT ![c] = "gated"]
    BY <1>4, <2>1 DEF Probe, EnterGate, Reporting, Heard
  <2> QED
    BY <1>3, <1>4, <2>1 DEF Probe, HoldsSlot
<1>5. ASSUME NEW c \in Call, InGateStep(c) PROVE Reporting'
  <2>1. CASE UNCHANGED succeeded
    BY <1>5, <2>1 DEF InGateStep, Reporting, Heard
  <2>2. CASE at[c] = "gated" /\ succeeded' = succeeded \cup {c}
    BY <1>5, <2>2 DEF InGateStep, Reporting, Heard
  <2> QED
    BY <1>5, <2>1, <2>2 DEF InGateStep
<1>6. ASSUME NEW c \in Call, LeaveGate(c) PROVE Reporting'
  <2>1. HoldsSlot(c) /\ Leave(c, c \in succeeded)
    BY <1>6 DEF LeaveGate, HoldsSlot
  <2>2. CASE c \in succeeded
    <3>1. Leave(c, TRUE)
      BY <2>1, <2>2 DEF Leave
    <3> QED
      BY <1>3, <2>1, <3>1
  <2>3. CASE c \notin succeeded
    <3>1. Leave(c, FALSE)
      BY <2>1, <2>3 DEF Leave
    <3> QED
      BY <1>3, <2>1, <3>1
  <2> QED
    BY <2>2, <2>3
<1>7. ASSUME NEW c \in Call, EndProcess(c) PROVE Reporting'
  BY <1>3, <1>7 DEF EndProcess, HoldsSlot
<1>8. CASE UNCHANGED execVars
  BY <1>8 DEF execVars, Reporting, Heard
<1> QED
  BY <1>1, <1>2, <1>4, <1>5, <1>6, <1>7, <1>8 DEF ExecNext, Advance

\* Slots are counted and handed on, and, where the subcommand read from each call's
\* arguments is the one git runs, the listener hears of exactly the commits and
\* pushes that succeeded (executor.ts:92-101, 278-283, 306-315, 396-416).
THEOREM CommandsAccounted == VerbsAreRead => (ExecSpec => []CommandsAreAccounted)
<1> SUFFICES ASSUME VerbsAreRead PROVE ExecSpec => []CommandsAreAccounted
  OBVIOUS
<1>1. SlotInv /\ Reporting => CommandsAreAccounted
  <2> SUFFICES ASSUME SlotInv, Reporting PROVE CommandsAreAccounted
    OBVIOUS
  <2>1. ASSUME NEW c \in Call PROVE Heard(c) <=> job[c].verb \in NOTIFIED_SUBCOMMANDS
    <3>1. PICK d \in Call : job[c] \in Jobs[d]
      BY DEF SlotInv, ExecTypeOK
    <3> QED
      BY <3>1 DEF VerbsAreRead, Heard
  <2>2. SuccessesReported
    BY <2>1 DEF SuccessesReported, Reporting
  <2> QED
    BY <2>2, CountsAreSlots DEF CommandsAreAccounted, SlotInv
<1> QED
  BY <1>1, SlotInvInit, SlotInvStep, ReportingInit, ReportingStep, PTL DEF ExecSpec

=============================================================================
