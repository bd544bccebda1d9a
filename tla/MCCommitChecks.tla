---------------------------- MODULE MCCommitChecks ----------------------------
(* The checks of a commit, from the view that shows their badge to the server:    *)
(* the coordinator of the views, the cache of snapshots and the gate every        *)
(* request passes.  None keeps state of another, so TLC explores them side by     *)
(* side and not their product: `part` is "coordinator", "service" or "gate", and  *)
(* the others stay as they began.                                                 *)
EXTENDS CommitChecksService, CommitChecksCoordinatorState, RequestGateState

VARIABLE part

Badges == INSTANCE CommitChecksCoordinator

Sent(status, limit, remaining, reset, retry, near) ==
  [status |-> status, limit |-> limit, remaining |-> remaining, reset |-> reset, retry |-> retry,
   near |-> near]

\* One response of each telling kind.
Responses ==
  {Sent(200, Absent, Absent, 0, 0, FALSE),   \* says nothing
   Sent(200, 2, 2, 2, 0, TRUE),              \* a whole quota, plenty left
   Sent(200, 2, Absent, 0, 0, FALSE),        \* a limit alone
   Sent(200, Absent, 0, 9, 0, FALSE),        \* nothing left, until far beyond any window
   Sent(403, Absent, 0, 1, 0, FALSE),        \* GitHub's way of saying 429
   Sent(429, Absent, Absent, 0, 9, FALSE)}   \* retry after far too long

Gate == INSTANCE RequestGate

ChecksInit ==
  /\ part \in {"service", "coordinator", "gate"}
  /\ Init /\ (part # "service" => ~backed /\ \A k \in Key : persisted[k] = None)
  /\ Badges!Init
  /\ Gate!Init /\ (part # "gate" => provider = "github")

\* The names of calls and requests say nothing: they are named in the order they come.
NamedInOrder ==
  \A i \in 1..2 :
    /\ call'[<<"c1", "c2", "c3">>[i + 1]].phase # "new" => call'[<<"c1", "c2", "c3">>[i]].phase # "new"
    /\ phase'[<<"t1", "t2", "t3">>[i + 1]] # "new" => phase'[<<"t1", "t2", "t3">>[i]] # "new"

Of(component) == part = component /\ UNCHANGED part

ChecksNext ==
  \/ Of("service") /\ Next /\ UNCHANGED <<badgesVars, gateVars>> /\ NamedInOrder
  \/ Of("coordinator") /\ Badges!Next /\ UNCHANGED <<vars, gateVars>>
  \/ Of("gate") /\ Gate!Next /\ UNCHANGED <<vars, badgesVars>> /\ NamedInOrder

\* The fairness each component states, while the behaviour is of it.
ChecksFairSpec ==
  /\ ChecksInit /\ [][ChecksNext]_<<part, vars, badgesVars, gateVars>>
  /\ WF_vars(Of("service") /\ RunOperation) /\ WF_vars(Of("service") /\ EndOperation)
  /\ \A c \in Call : WF_vars(Of("service") /\ Progress(c))
  /\ WF_badgesVars(Of("coordinator") /\ Badges!Refresh)
  /\ WF_badgesVars(Of("coordinator") /\ Badges!AskAgain)
  /\ \A t \in RowTask : WF_badgesVars(Of("coordinator") /\ Badges!Progress(t))
  /\ \A t \in Task : WF_gateVars(Of("gate") /\ Gate!Progress(t))

-----------------------------------------------------------------------------
\* Every call of the cache is served, every badge comes to show an answer although a moved demand
\* drops what is under way, and every request is let through (service.ts:71-108;
\* CommitList.tsx:485-590; requestGate.ts:225-236).
EveryCallSettles ==
  EveryCallIsServed /\ Badges!EveryBadgeSettles /\ Gate!EveryRequestSettles

=============================================================================
