------------------------- MODULE RepositoryLockState -------------------------
(* The state of the lock of git/repositoryLock.ts, and what holds of it whatever  *)
(* fails.  RepositoryLock has its steps.                                          *)

CONSTANTS
  Proc,     \* extension host processes; a process that dies does not return
  Nonce,    \* the random ids an acquire may draw (bounds ids live at a time)
  Beat,     \* heartbeat timestamps (bounds timestamps live at a time)
  FirstBeat,\* the timestamp an acquire takes before its claim
  NoFile,   \* what a path that names nothing holds
  Stalls,   \* whether a file can ever outlive the stale window
  Crashes,  \* whether processes may be killed
  Faults    \* whether writes and restoring renames can ever fail

File == [owner: Proc, nonce: Nonce, beat: Beat, whole: BOOLEAN, old: BOOLEAN]

ASSUME ConstantsAssumption ==
  /\ FirstBeat \in Beat
  /\ NoFile \notin File
  /\ Stalls \in BOOLEAN /\ Crashes \in BOOLEAN /\ Faults \in BOOLEAN

VARIABLES
  lockFile, \* the file at lockPath
  aside,    \* the file at each process's takeover-<nonce> path
  seen,     \* the LockFileState each acquire judged stale ("existing")
  nonce,    \* the nonce of each process's current or last acquire
  pc,       \* where each process is in acquire, the hold, or the release
  alive,    \* the processes still running
  faulty    \* whether, in this behaviour, writes and restoring renames may fail

Label == {"idle", "create", "write", "confirm", "read", "probe", "moveAside",
          "compare", "restore", "claim", "claimWrite",
          "held", "releaseRead", "remove"}

LockTypeOK ==
  /\ lockFile \in File \cup {NoFile}
  /\ aside \in [Proc -> File \cup {NoFile}]
  /\ seen \in [Proc -> File \cup {NoFile}]
  /\ nonce \in [Proc -> Nonce]
  /\ pc \in [Proc -> Label]
  /\ alive \in SUBSET Proc
  /\ faulty \in BOOLEAN

-----------------------------------------------------------------------------
\* p is running the operation the lock protects.
Holds(p) == p \in alive /\ pc[p] = "held"

\* Two extension hosts never mutate one repository at a time: acquire
\* (repositoryLock.ts:70) grants the lock to one process.
MutualExclusion == \A p, q \in Proc : Holds(p) /\ Holds(q) => p = q

\* As long as writes and restoring renames succeed, at most one process holds the
\* lock, stalls and dead owners included (repositoryLock.ts:69-151, 199-232).
LockIsExclusive == LockTypeOK /\ (~faulty => MutualExclusion)

\* The acquire that created f has gone on to hold the lock and has not let go.
HeldBy(f) ==
  /\ f # NoFile
  /\ f.owner \in alive
  /\ f.nonce = nonce[f.owner]
  /\ pc[f.owner] \in {"held", "releaseRead", "remove"}

\* A takeover that has passed the identity check, and is about to claim the path
\* and delete the file it moved, never deletes the file of an acquire that holds
\* the lock (repositoryLock.ts:104, 130).
TakeoverDisplacesNoHolder ==
  \A p \in Proc : pc[p] \in {"claim", "claimWrite"} => ~HeldBy(aside[p])

\* A lock path with no whole record is never the file of a process that believes
\* it holds the lock, so judging it by its age alone is safe
\* (repositoryLock.ts:156-162).
UnreadableIsNotHeld == lockFile # NoFile /\ ~lockFile.whole => ~HeldBy(lockFile)

=============================================================================
