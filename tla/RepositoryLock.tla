--------------------------- MODULE RepositoryLock ---------------------------
(***************************************************************************)
(* The cross-process lock file of git/repositoryLock.ts.                   *)
(*                                                                         *)
(* Extension hosts contend for one file.  A claim is an exclusive create   *)
(* followed, in a separate step, by the write of the record; it becomes a  *)
(* held lock only after the path has been read back.  A contender that     *)
(* finds a record older than the stale window, of a process the probe      *)
(* reports gone, moves the file aside, checks that what it moved is what   *)
(* it judged, and claims the path in its place.                            *)
(*                                                                         *)
(* A file is an inode: the write of a claim lands in the file the claim    *)
(* created, wherever a contender has moved it since.  Every file system    *)
(* call is one step.  Time appears only as the flag "old" of a file: its   *)
(* heartbeat (or, for a file with no record yet, its mtime) is further     *)
(* back than staleAfterMs.                                                 *)
(***************************************************************************)
EXTENDS Naturals, FiniteSets, RepositoryLockState

vars == <<lockFile, aside, seen, nonce, pc, alive, faulty>>

Init ==
  /\ lockFile = NoFile
  /\ aside = [p \in Proc |-> NoFile]
  /\ seen = [p \in Proc |-> NoFile]
  /\ \E n \in Nonce : nonce = [p \in Proc |-> n]
  /\ pc = [p \in Proc |-> "idle"]
  /\ alive = Proc
  /\ faulty \in BOOLEAN /\ (faulty => Faults)

-----------------------------------------------------------------------------
(* Files and records. *)

Step(p, from, to) ==
  /\ p \in alive
  /\ pc[p] = from
  /\ pc' = [pc EXCEPT ![p] = to]
  /\ UNCHANGED faulty

\* The exclusive create makes the file before any byte of the record is in it.
EmptyFile(p) == [owner |-> p, nonce |-> nonce[p], beat |-> FirstBeat,
                 whole |-> FALSE, old |-> FALSE]

\* The file p's current acquire created, whichever path names it now.
IsOwnFile(f, p) == f # NoFile /\ f.owner = p /\ f.nonce = nonce[p]

\* readLockFile found a whole record carrying p's nonce.
IsOwnRecord(f, p) == IsOwnFile(f, p) /\ f.whole

\* The record arriving through the handle its claimant still holds open.
Filled(f, p) == IF IsOwnFile(f, p) THEN [f EXCEPT !.whole = TRUE] ELSE f

WriteRecord(p) ==
  /\ lockFile' = Filled(lockFile, p)
  /\ aside' = [q \in Proc |-> Filled(aside[q], p)]

\* Every file some path or some pending judgement still refers to.
Referenced == ({lockFile} \cup {aside[q] : q \in Proc} \cup {seen[q] : q \in Proc})
                 \ {NoFile}

isStale(f) == f # NoFile /\ f.old

isSameLockFile(moved, expected) ==
  IF expected.whole
  THEN /\ moved.whole
       /\ moved.owner = expected.owner
       /\ moved.nonce = expected.nonce
       /\ moved.beat = expected.beat
  ELSE ~moved.whole

-----------------------------------------------------------------------------
(* acquire *)

\* A fresh random nonce: no file or pending judgement carries it yet.
Begin(p) ==
  /\ Step(p, "idle", "create")
  /\ \E n \in Nonce :
       /\ \A f \in Referenced : f.owner = p => f.nonce # n
       /\ nonce' = [nonce EXCEPT ![p] = n]
  /\ UNCHANGED <<lockFile, aside, seen, alive>>

\* writeFile(lockPath, ..., "wx") up to the open: it wins the path or is blocked.
Create(p) ==
  /\ \/ /\ lockFile = NoFile
        /\ Step(p, "create", "write")
        /\ lockFile' = EmptyFile(p)
     \/ /\ lockFile # NoFile
        /\ Step(p, "create", "read")
        /\ UNCHANGED lockFile
  /\ UNCHANGED <<aside, seen, nonce, alive>>

\* The record lands, or the write fails and its error leaves acquire.
Write(p) ==
  /\ \/ Step(p, "write", "confirm") /\ WriteRecord(p)
     \/ faulty /\ Step(p, "write", "idle") /\ UNCHANGED <<lockFile, aside>>
  /\ UNCHANGED <<seen, nonce, alive>>

\* Mutant: the claim counts as held without reading the path back.
ConfirmUnread(p) ==
  /\ Step(p, "confirm", "held")
  /\ UNCHANGED <<lockFile, aside, seen, nonce, alive>>

\* confirmClaim: only a path that reads back as ours is a held lock.
Confirm(p) ==
  /\ Step(p, "confirm", IF IsOwnRecord(lockFile, p) THEN "held" ELSE "idle")
  /\ UNCHANGED <<lockFile, aside, seen, nonce, alive>>

\* An absent or recent file is busy; a stale record has a pid to probe, a stale
\* unreadable file has none.
Read(p) ==
  /\ \/ ~isStale(lockFile) /\ Step(p, "read", "idle") /\ UNCHANGED seen
     \/ /\ isStale(lockFile)
        /\ Step(p, "read", IF lockFile.whole THEN "probe" ELSE "moveAside")
        /\ seen' = [seen EXCEPT ![p] = lockFile]
  /\ UNCHANGED <<lockFile, aside, nonce, alive>>

\* Mutant: a stale record is taken over without asking for its owner.
ProbeNobody(p) ==
  /\ Step(p, "probe", "moveAside")
  /\ UNCHANGED <<lockFile, aside, seen, nonce, alive>>

\* livenessProbe: a live owner is never displaced.
Probe(p) ==
  /\ \/ /\ Step(p, "probe", "idle")
        /\ seen[p].owner \in alive
        /\ seen' = [seen EXCEPT ![p] = NoFile]
     \/ /\ Step(p, "probe", "moveAside")
        /\ seen[p].owner \notin alive
        /\ UNCHANGED seen
  /\ UNCHANGED <<lockFile, aside, nonce, alive>>

\* rename(lockPath, takeoverPath): ENOENT starts over, anything else moves
\* whatever is at the path by now.
MoveAside(p) ==
  /\ \/ /\ lockFile = NoFile
        /\ Step(p, "moveAside", "create")
        /\ seen' = [seen EXCEPT ![p] = NoFile]
        /\ UNCHANGED <<lockFile, aside>>
     \/ /\ lockFile # NoFile
        /\ Step(p, "moveAside", "compare")
        /\ aside' = [aside EXCEPT ![p] = lockFile]
        /\ lockFile' = NoFile
        /\ UNCHANGED seen
  /\ UNCHANGED <<nonce, alive>>

Compare(p) ==
  /\ Step(p, "compare", IF isSameLockFile(aside[p], seen[p]) THEN "claim" ELSE "restore")
  /\ seen' = [seen EXCEPT ![p] = NoFile]
  /\ UNCHANGED <<lockFile, aside, nonce, alive>>

PutBack(p) ==
  /\ lockFile' = aside[p]
  /\ aside' = [aside EXCEPT ![p] = NoFile]

\* The best-effort restore: the rename replaces whatever holds the path, or it
\* fails and the moved file stays where it is.  Busy either way.
Restore(p) ==
  /\ Step(p, "restore", "idle")
  /\ \/ PutBack(p)
     \/ faulty /\ UNCHANGED <<lockFile, aside>>
  /\ UNCHANGED <<seen, nonce, alive>>

\* The second exclusive create: the path is ours, or a rival was faster.
Claim(p) ==
  /\ \/ /\ lockFile = NoFile
        /\ Step(p, "claim", "claimWrite")
        /\ lockFile' = EmptyFile(p)
        /\ UNCHANGED aside
     \/ /\ lockFile # NoFile
        /\ Step(p, "claim", "idle")
        /\ aside' = [aside EXCEPT ![p] = NoFile]
        /\ UNCHANGED lockFile
  /\ UNCHANGED <<seen, nonce, alive>>

\* The record lands and the moved file is removed; a failed write puts the moved
\* file back over the empty one.
ClaimWrite(p) ==
  /\ \/ /\ Step(p, "claimWrite", "confirm")
        /\ lockFile' = Filled(lockFile, p)
        /\ aside' = [q \in Proc |-> IF q = p THEN NoFile ELSE Filled(aside[q], p)]
     \/ faulty /\ Step(p, "claimWrite", "idle") /\ PutBack(p)
  /\ UNCHANGED <<seen, nonce, alive>>

-----------------------------------------------------------------------------
(* The hold and its release. *)

\* Mutant: the heartbeat truncates the lock file and writes into it.
HeartbeatInPlace(p) ==
  /\ Step(p, "held", "held")
  /\ lockFile' = EmptyFile(p)
  /\ UNCHANGED <<aside, seen, nonce, alive>>

\* A heartbeat replaces whatever the lock path names by a whole record with a
\* new timestamp.
Heartbeat(p) ==
  /\ Step(p, "held", "held")
  /\ \E b \in Beat :
       /\ \A f \in Referenced : IsOwnFile(f, p) => f.beat # b
       /\ lockFile' = [owner |-> p, nonce |-> nonce[p], beat |-> b,
                       whole |-> TRUE, old |-> FALSE]
  /\ UNCHANGED <<aside, seen, nonce, alive>>

\* release: the timer is cleared and the owed writes are awaited.
Release(p) ==
  /\ Step(p, "held", "releaseRead")
  /\ UNCHANGED <<lockFile, aside, seen, nonce, alive>>

ReleaseRead(p) ==
  /\ Step(p, "releaseRead", IF IsOwnRecord(lockFile, p) THEN "remove" ELSE "idle")
  /\ UNCHANGED <<lockFile, aside, seen, nonce, alive>>

\* rm(lockPath, {force}): whatever is there by now.
Remove(p) ==
  /\ Step(p, "remove", "idle")
  /\ lockFile' = NoFile
  /\ UNCHANGED <<aside, seen, nonce, alive>>

-----------------------------------------------------------------------------
(* The environment: processes die and files grow old. *)

Crash(p) ==
  /\ Crashes
  /\ p \in alive
  /\ alive' = alive \ {p}
  /\ UNCHANGED <<lockFile, aside, seen, nonce, pc, faulty>>

GrowOld ==
  /\ Stalls
  /\ lockFile # NoFile /\ ~lockFile.old
  /\ lockFile' = [lockFile EXCEPT !.old = TRUE]
  /\ UNCHANGED <<aside, seen, nonce, pc, alive, faulty>>

AcquireStep(p) ==
  \/ Create(p) \/ Write(p) \/ Confirm(p) \/ Read(p) \/ Probe(p) \/ MoveAside(p)
  \/ Compare(p) \/ Restore(p) \/ Claim(p) \/ ClaimWrite(p)

ReleaseStep(p) == Release(p) \/ ReleaseRead(p) \/ Remove(p)

Next ==
  \/ \E p \in Proc : \/ Begin(p) \/ AcquireStep(p) \/ Heartbeat(p)
                     \/ ReleaseStep(p) \/ Crash(p)
  \/ GrowOld

Spec == Init /\ [][Next]_vars

(***************************************************************************)
(* A live process takes its next step, its callers keep asking for the     *)
(* lock (acquireWithBoundedWait and the next command), every operation     *)
(* under the lock ends, and time passes.  Heartbeats, crashes and faults   *)
(* need not happen.                                                        *)
(***************************************************************************)
Fairness ==
  /\ \A p \in Proc : WF_vars(Begin(p)) /\ WF_vars(AcquireStep(p)) /\ WF_vars(ReleaseStep(p))
  /\ WF_vars(GrowOld)

FairSpec == Spec /\ Fairness

-----------------------------------------------------------------------------
(* Properties. *)

\* A whole record of a running process at the lock path is the record of an
\* acquire of that process that is still under way or holds the lock: no
\* repository stays busy on behalf of nobody (repositoryLock.ts:189-195).
NoOwnerlessRecord ==
  lockFile # NoFile /\ lockFile.whole /\ lockFile.owner \in alive =>
    /\ lockFile.nonce = nonce[lockFile.owner]
    /\ pc[lockFile.owner] # "idle"

\* The record a killed process left behind does not keep the repository locked:
\* while somebody is alive to ask for the lock it is taken over
\* (repositoryLock.ts:88-131).
DeadRecordReclaimed ==
  \A d \in Proc :
    []<>(d \in alive \/ lockFile = NoFile \/ lockFile.owner # d \/ alive = {})

=============================================================================
