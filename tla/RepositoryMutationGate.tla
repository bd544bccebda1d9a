----------------------- MODULE RepositoryMutationGate -----------------------
(***************************************************************************)
(* git/repositoryMutationGate.ts: the two queues a mutation passes in its  *)
(* own window (by the path it was asked for, then by the canonical root)   *)
(* and the cross-process lock it holds while its operation runs.           *)
(*                                                                         *)
(* The windows share one Git common directory.  The lock is the exclusive  *)
(* lock RepositoryLock implements while nothing at its path goes stale.    *)
(* Asking for it is retried until a deadline; a busy answer may also come  *)
(* when nobody holds it, so giving up is possible at any time.             *)
(***************************************************************************)
EXTENDS Naturals

CONSTANTS
  Call,   \* calls of the gate's run
  Window, \* extension host processes
  Path,   \* lexical repository paths
  Root,   \* canonical worktree roots
  None

ASSUME GateAssumption == None \notin Call /\ Window # {} /\ Path # {} /\ Root # {}

VARIABLES
  phase,    \* where each call is inside run
  realRoot, \* what each path resolves to on disk (symbolic links)
  holder,   \* the call holding the cross-process lock
  pathTails, pathPrevious, pathKey, pathState, pathTicket, pathCalls,
  rootTails, rootPrevious, rootKey, rootState, rootTicket, rootCalls

\* requestedPathCoordinator, one per window.
Requested == INSTANCE MutationCoordinator WITH
  Key <- Window \X Path, tails <- pathTails, previous <- pathPrevious, keyOf <- pathKey,
  state <- pathState, ticket <- pathTicket, calls <- pathCalls

\* coordinator, one per window.
Canonical == INSTANCE MutationCoordinator WITH
  Key <- Window \X Root, tails <- rootTails, previous <- rootPrevious, keyOf <- rootKey,
  state <- rootState, ticket <- rootTicket, calls <- rootCalls

pathVars == <<pathTails, pathPrevious, pathKey, pathState, pathTicket, pathCalls>>
rootVars == <<rootTails, rootPrevious, rootKey, rootState, rootTicket, rootCalls>>
vars == <<phase, realRoot, holder, pathVars, rootVars>>

Phase == {"new", "requested", "resolving", "queued", "acquiring", "operating",
          "leaving", "returning", "over"}

TypeOK ==
  /\ phase \in [Call -> Phase]
  /\ realRoot \in [Path -> Root]
  /\ holder \in Call \cup {None}
  /\ Requested!TypeOK
  /\ Canonical!TypeOK

Init ==
  /\ phase = [c \in Call |-> "new"]
  /\ realRoot \in [Path -> Root]
  /\ holder = None
  /\ Requested!Init
  /\ Canonical!Init

Move(c, from, to) == phase[c] = from /\ phase' = [phase EXCEPT ![c] = to]

Run(c) ==
  /\ Move(c, "new", "requested")
  /\ \E w \in Window, p \in Path : Requested!Register(c, <<w, p>>)
  /\ UNCHANGED <<realRoot, holder, rootVars>>

\* Mutant: realpath starts without waiting for the calls before.
BeginResolveAtOnce(c) ==
  /\ Move(c, "requested", "resolving")
  /\ pathState' = [pathState EXCEPT ![c] = "running"]
  /\ UNCHANGED <<pathTails, pathPrevious, pathKey, pathTicket, pathCalls>>
  /\ UNCHANGED <<realRoot, holder, rootVars>>

\* Its turn by path: realpath starts.
BeginResolve(c) ==
  /\ Move(c, "requested", "resolving")
  /\ Requested!Start(c)
  /\ UNCHANGED <<realRoot, holder, rootVars>>

\* realpath answers, or throws.
EndResolve(c) ==
  /\ \/ /\ Move(c, "resolving", "queued")
        /\ LET asked == pathKey[c] IN Canonical!Register(c, <<asked[1], realRoot[asked[2]]>>)
     \/ Move(c, "resolving", "returning") /\ UNCHANGED rootVars
  /\ UNCHANGED <<realRoot, holder, pathVars>>

\* Mutant: the lock is asked for without waiting for the calls before.
BeginAcquireAtOnce(c) ==
  /\ Move(c, "queued", "acquiring")
  /\ rootState' = [rootState EXCEPT ![c] = "running"]
  /\ UNCHANGED <<rootTails, rootPrevious, rootKey, rootTicket, rootCalls>>
  /\ UNCHANGED <<realRoot, holder, pathVars>>

\* Its turn by root: acquireWithBriefWait starts asking for the lock.
BeginAcquire(c) ==
  /\ Move(c, "queued", "acquiring")
  /\ Canonical!Start(c)
  /\ UNCHANGED <<realRoot, holder, pathVars>>

\* The lock answers, and the operation starts.
Acquire(c) ==
  /\ Move(c, "acquiring", "operating")
  /\ holder = None
  /\ holder' = c
  /\ UNCHANGED <<realRoot, pathVars, rootVars>>

\* The last busy answer is past the deadline.
GiveUp(c) ==
  /\ Move(c, "acquiring", "leaving")
  /\ UNCHANGED <<realRoot, holder, pathVars, rootVars>>

\* Mutant: a failing operation keeps the lock.
EndOperationKeeping(c) ==
  /\ Move(c, "operating", "leaving")
  /\ UNCHANGED <<realRoot, holder, pathVars, rootVars>>

\* The operation returns or throws; the lock is released either way.
EndOperation(c) ==
  /\ Move(c, "operating", "leaving")
  /\ holder' = None
  /\ UNCHANGED <<realRoot, pathVars, rootVars>>

LeaveRoot(c) ==
  /\ Move(c, "leaving", "returning")
  /\ Canonical!Finish(c)
  /\ UNCHANGED <<realRoot, holder, pathVars>>

LeavePath(c) ==
  /\ Move(c, "returning", "over")
  /\ Requested!Finish(c)
  /\ UNCHANGED <<realRoot, holder, rootVars>>

Progress(c) ==
  \/ BeginResolve(c) \/ EndResolve(c) \/ BeginAcquire(c) \/ Acquire(c) \/ GiveUp(c)
  \/ EndOperation(c) \/ LeaveRoot(c) \/ LeavePath(c)

Next == \E c \in Call : Run(c) \/ Progress(c)

Spec == Init /\ [][Next]_vars

\* Promises settle, realpath answers, operations end, and a wait for the lock is
\* bounded by its timeout.
FairSpec == Spec /\ \A c \in Call : WF_vars(Progress(c))

-----------------------------------------------------------------------------
Worktree(c) == <<pathKey[c][1], realRoot[pathKey[c][2]]>>

InGate(c) == phase[c] \in {"acquiring", "operating", "leaving"}

\* Calls a window makes with one path take their turns in the order they were
\* made, however long canonicalization takes for each
\* (repositoryMutationGate.ts:35-36).
SamePathOrder ==
  \A c, d \in Call :
    Requested!Before(c, d) /\ phase[d] # "requested" => phase[c] = "over"

\* Whatever paths they came by, the mutations of one worktree in one window ask
\* for the lock and run one at a time (repositoryMutationGate.ts:39).
OnePerWorktree ==
  \A c, d \in Call : InGate(c) /\ InGate(d) /\ Worktree(c) = Worktree(d) => c = d

\* Nobody holds the lock outside its operation, so a window is never shut out by
\* a call that already returned (repositoryMutationGate.ts:41-45).
LockHeldWhileOperating == \A c \in Call : holder = c <=> phase[c] = "operating"

\* Every mutation asked for returns or throws: neither a slow path, nor a failed
\* canonicalization, nor a busy lock blocks those behind it
\* (repositoryMutationGate.ts:37-46).
EveryMutationReturns == \A c \in Call : []<>(phase[c] \in {"new", "over"})

=============================================================================
