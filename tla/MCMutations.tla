----------------------------- MODULE MCMutations -----------------------------
(* A window's git commands, with the queues and the gate they pass, which extend  *)
(* here with the lock as one variable, and the lock itself, as two windows        *)
(* contend for its file, in behaviours where its writes and renames succeed and   *)
(* in others, with one nonce, where they may fail.  TLC explores the parts side   *)
(* by side: `part` is the one a behaviour is of, and the other stays as it began. *)
EXTENDS MCGitExecutor, RepositoryLockState

VARIABLE part

lockVars == <<lockFile, aside, seen, nonce, pc, alive, faulty>>

Lock == INSTANCE RepositoryLock
FaultyLock == INSTANCE RepositoryLock WITH Nonce <- {CHOOSE n \in Nonce : TRUE}

MutationsInit ==
  /\ part \in {"commands", "lock"}
  /\ ExecInit
  /\ part # "commands" => /\ realRoot = [p \in Path |-> CHOOSE r \in Root : TRUE]
                          /\ job = [c \in Call |-> CHOOSE j \in Jobs[c] : TRUE]
  /\ Lock!Init
  /\ faulty => part = "lock" /\ FaultyLock!Init

Of(component) == part = component /\ UNCHANGED part

MutationsNext ==
  \/ Of("commands") /\ ExecNext /\ UNCHANGED lockVars
  \/ Of("lock") /\ ~faulty /\ Lock!Next /\ UNCHANGED execVars
  \/ Of("lock") /\ faulty /\ FaultyLock!Next /\ UNCHANGED execVars

\* The fairness each component states, while the behaviour is of it.
MutationsFairSpec ==
  /\ MutationsInit /\ [][MutationsNext]_<<part, execVars, lockVars>>
  /\ \A c \in Call : WF_execVars(Of("commands") /\ Advance(c))
  /\ \A p \in Proc : /\ WF_lockVars(Of("lock") /\ ~faulty /\ Lock!Begin(p))
                     /\ WF_lockVars(Of("lock") /\ ~faulty /\ Lock!AcquireStep(p))
                     /\ WF_lockVars(Of("lock") /\ ~faulty /\ Lock!ReleaseStep(p))
  /\ WF_lockVars(Of("lock") /\ ~faulty /\ Lock!GrowOld)

-----------------------------------------------------------------------------
\* Every command ends, and a dead window's record is taken over where writes succeed
\* (executor.ts:92-123; repositoryLock.ts:90-133, 153-181).
NobodyWaitsForEver == EveryGitCallEnds /\ (~faulty => Lock!DeadRecordReclaimed)

=============================================================================
