--------------------- MODULE CommitMessageGenerationState ---------------------
(***************************************************************************)
(* What ai/commitMessageGenerationCoordinator.ts keeps of each root, each  *)
(* commit's lease and each attempt to generate a message, and what has to  *)
(* hold of it.  CommitMessageGeneration has the steps.                     *)
(***************************************************************************)
EXTENDS Sequences, SequencesExt, Naturals

CONSTANTS
  Attempt,    \* submissions, each made once, with a request id of its own
  Root,       \* repository roots
  Host,       \* editors and panels that submit
  Lease,      \* calls of acquireCommitLease
  Absent,     \* undefined
  MaxSignals, \* bound: changes a watcher reports to one attempt
  MaxChunks   \* bound: chunks a model streams to one attempt

ASSUME GenerationAssumption ==
  /\ Absent \notin Attempt \cup Root
  /\ "released" \notin Root
  /\ Root # {} /\ Host # {}
  /\ MaxSignals \in Nat /\ MaxChunks \in Nat

VARIABLES
  activeByRoot,      \* the active attempt of each root
  commitLeaseCounts, \* leases counted per root
  lease,             \* what each lease fences: Absent, a root, or "released"
  disposed,
  attempt,           \* the attempts, see AttemptRecord
  operating          \* whether a merge, rebase, ... is in progress in each root

coordinatorVars == <<activeByRoot, commitLeaseCounts, lease, disposed, attempt, operating>>

Terminal == {"done", "cancelled", "error"}
Acquiring == {"validating", "diffing", "listing"}

AttemptRecord ==
  [phase : {"new", "checking", "queued", "preparing", "streaming", "finalizing", "over"} \cup Acquiring,
   root : Root,
   host : Host,
   active : BOOLEAN,
   watching : BOOLEAN,
   unseen : BOOLEAN,                           \* a change of the markers is not reported yet
   signals : 0..MaxSignals,                    \* wholeIndexSignalVersion
   captured : 0..MaxSignals,                   \* finalize's signalVersion
   checks : Seq({"run", "recheck", "drain", "final"}), \* wholeIndexCheckTail; "drain" awaits it
   reading : {"none", "clean", "busy"},        \* the answer the first check is about to give
   events : Seq(Terminal \cup {"start", "chunk"})] \* what the host was sent

CoordinatorTypeOK ==
  /\ activeByRoot \in [Root -> Attempt \cup {Absent}]
  /\ commitLeaseCounts \in [Root -> Nat]
  /\ lease \in [Lease -> Root \cup {Absent, "released"}]
  /\ disposed \in BOOLEAN
  /\ attempt \in [Attempt -> AttemptRecord]
  /\ operating \in [Root -> BOOLEAN]

-----------------------------------------------------------------------------
\* No message is generated for a root while any commit of it holds a lease
\* (commitMessageGenerationCoordinator.ts:171, 249-263).
NoGenerationWhileCommitting ==
  ~disposed => \A l \in Lease : lease[l] \in Root => activeByRoot[lease[l]] = Absent

\* The acquisitions of one root read its status and its diff one at a time, the
\* ones of superseded attempts included
\* (commitMessageGenerationCoordinator.ts:310-320).
OneAcquisitionPerRoot ==
  \A a, b \in Attempt :
    (/\ attempt[a].phase \in Acquiring /\ attempt[b].phase \in Acquiring
     /\ attempt[a].root = attempt[b].root) => a = b

\* While a commit holds its root's lease no attempt generates for that root, and
\* the acquisitions of one root read its diff one at a time
\* (commitMessageGenerationCoordinator.ts:171-179, 249-263, 310-325).
CommitsAreFenced == NoGenerationWhileCommitting /\ OneAcquisitionPerRoot

\* A host hears "start", then chunks, then one terminal event, and nothing after
\* it, whoever ended the attempt (commitMessageGenerationCoordinator.ts:390-398,
\* 449).
EventsInOrder ==
  \A a \in Attempt : LET heard == attempt[a].events IN
    /\ \A i \in 1..Len(heard) : heard[i] \in Terminal => i = Len(heard)
    /\ \A i \in 1..Len(heard) : heard[i] = "chunk" => heard[1] = "start"

\* An attempt is over for its host exactly when the coordinator has let go of
\* it: its root is free and its watcher is closed
\* (commitMessageGenerationCoordinator.ts:439-455).
EndedIsReleased ==
  \A a \in Attempt : attempt[a].phase # "new" =>
    LET ended == \E i \in 1..Len(attempt[a].events) : attempt[a].events[i] \in Terminal IN
    /\ ended <=> activeByRoot[attempt[a].root] # a
    /\ ended => ~attempt[a].watching

\* A host hears "start", chunks and one end, and nothing after it, whatever a
\* watcher, the user or the model reports in which order; an ended attempt has
\* let go of its root (commitMessageGenerationCoordinator.ts:390-398, 439-455).
HostsHearInOrder == CoordinatorTypeOK /\ EventsInOrder /\ EndedIsReleased

DoneWhileQuiet ==
  \A a \in Attempt :
    (Last(<<"none">> \o attempt'[a].events) = "done" /\ attempt'[a].events # attempt[a].events)
      => attempt[a].unseen \/ ~operating[attempt[a].root]

\* A message is delivered as done only when no merge or rebase is in progress,
\* unless the watcher has not reported its start yet
\* (commitMessageGenerationCoordinator.ts:274-308, 376-436).
DoneMeansQuiet == [][DoneWhileQuiet]_attempt

=============================================================================
