------------------------ MODULE RepositoryLockProofs ------------------------
(***************************************************************************)
(* What RepositoryLock guarantees for any number of processes: its types,  *)
(* that a takeover never deletes the file of a holder, and mutual          *)
(* exclusion as long as no file outlives the stale window; and for two     *)
(* processes mutual exclusion whatever goes stale.                         *)
(***************************************************************************)
EXTENDS RepositoryLock, TLAPS

-----------------------------------------------------------------------------
(***************************************************************************)
(* The invariant that carries the takeover properties.  A random nonce     *)
(* names no file before its claim, and one file until the lock is held     *)
(* (only a heartbeat makes a second one), so a claimant whose file has     *)
(* been moved aside cannot read its record back at the lock path.          *)
(***************************************************************************)
Unclaimed == {"create", "read", "probe", "moveAside", "compare", "restore", "claim"}
Claiming == {"write", "confirm", "claimWrite"}

NonceUnused ==
  \A p \in Proc : pc[p] \in Unclaimed =>
    /\ ~IsOwnFile(lockFile, p)
    /\ \A q \in Proc : ~IsOwnFile(aside[q], p)

OneFilePerClaim ==
  \A p \in Proc : pc[p] \in Claiming =>
    /\ IsOwnFile(lockFile, p) => \A q \in Proc : ~IsOwnFile(aside[q], p)
    /\ \A q, r \in Proc : IsOwnFile(aside[q], p) /\ IsOwnFile(aside[r], p) => q = r

RecordLanded ==
  \A p \in Proc : pc[p] \in {"confirm", "held", "releaseRead", "remove"} =>
    /\ IsOwnFile(lockFile, p) => lockFile.whole
    /\ \A q \in Proc : IsOwnFile(aside[q], p) => aside[q].whole

JudgedIsDead ==
  \A p \in Proc :
    /\ pc[p] \in {"probe", "moveAside", "compare"} => seen[p] # NoFile
    /\ pc[p] \in {"moveAside", "compare"} /\ seen[p].whole => seen[p].owner \notin alive

LockInv ==
  /\ LockTypeOK
  /\ NonceUnused
  /\ OneFilePerClaim
  /\ RecordLanded
  /\ JudgedIsDead
  /\ TakeoverDisplacesNoHolder

(***************************************************************************)
(* The invariant that carries mutual exclusion while no file goes stale:   *)
(* nobody takes over, and a claim keeps the lock path until it is removed. *)
(***************************************************************************)
FreshInv ==
  /\ LockTypeOK
  /\ lockFile # NoFile => ~lockFile.old
  /\ \A p \in Proc : pc[p] \in {"idle", "create", "read"} \cup Claiming
                                  \cup {"held", "releaseRead", "remove"}
                    /\ pc[p] # "claimWrite"
  /\ \A p \in Proc : pc[p] \in Claiming => IsOwnFile(lockFile, p)
  /\ \A p \in Proc : pc[p] \in {"held", "releaseRead", "remove"} => IsOwnRecord(lockFile, p)

-----------------------------------------------------------------------------
(* Steps and types. *)

\* Every step of the specification is one of these.
LEMMA StepCases ==
  ASSUME [Next]_vars,
         NEW G,
         ASSUME NEW p \in Proc,
                \/ Begin(p) \/ Create(p) \/ Write(p) \/ Confirm(p) \/ Read(p) \/ Probe(p)
                \/ MoveAside(p) \/ Compare(p) \/ Restore(p) \/ Claim(p) \/ ClaimWrite(p)
                \/ Heartbeat(p) \/ Release(p) \/ ReleaseRead(p) \/ Remove(p) \/ Crash(p)
         PROVE  G,
         GrowOld => G,
         UNCHANGED vars => G
  PROVE  G
BY DEF Next, AcquireStep, ReleaseStep

\* Filling a file keeps it a file, and keeps what identifies it.
LEMMA FilledFile ==
  ASSUME NEW f \in File \cup {NoFile}, NEW p \in Proc
  PROVE  Filled(f, p) \in File \cup {NoFile}
BY DEF Filled, IsOwnFile, File

LEMMA EmptyIsFile ==
  ASSUME LockTypeOK, NEW p \in Proc
  PROVE  EmptyFile(p) \in File /\ EmptyFile(p) # NoFile
<1>1. EmptyFile(p) \in File
  BY ConstantsAssumption DEF ConstantsAssumption, EmptyFile, File, LockTypeOK
<1> QED
  BY <1>1, ConstantsAssumption DEF ConstantsAssumption

\* A record that lands leaves every takeover path naming a file or nothing.
LEMMA FilledPaths ==
  ASSUME LockTypeOK, NEW p \in Proc
  PROVE  \A q \in Proc : Filled(aside[q], p) \in File \cup {NoFile}
BY FilledFile DEF LockTypeOK

\* The variables keep the types of the program's state: paths name files or
\* nothing, and a process is at a step of acquire, of the hold or of its release.
THEOREM TypeCorrect == Spec => []LockTypeOK
<1>1. Init => LockTypeOK
  BY ConstantsAssumption DEF ConstantsAssumption, Init, LockTypeOK, Label
<1>2. LockTypeOK /\ [Next]_vars => LockTypeOK'
  <2> SUFFICES ASSUME LockTypeOK, [Next]_vars PROVE LockTypeOK'
    OBVIOUS
  <2> USE DEF LockTypeOK
  <2>1. ASSUME NEW p \in Proc, Begin(p) PROVE LockTypeOK'
    BY <2>1 DEF Begin, Step, Label
  <2>2. ASSUME NEW p \in Proc, Create(p) PROVE LockTypeOK'
    <3>1. lockFile' \in File \cup {NoFile}
      BY <2>2, EmptyIsFile DEF Create
    <3>2. pc' \in [Proc -> Label]
      BY <2>2 DEF Create, Step, Label
    <3> QED
      BY <2>2, <3>1, <3>2 DEF Create, Step
  <2>3. ASSUME NEW p \in Proc, Write(p) PROVE LockTypeOK'
    <3>1. lockFile' \in File \cup {NoFile}
      BY <2>3, FilledFile DEF Write, WriteRecord
    <3>2. aside' \in [Proc -> File \cup {NoFile}]
      BY <2>3, FilledPaths DEF Write, WriteRecord
    <3>3. pc' \in [Proc -> Label]
      BY <2>3 DEF Write, Step, Label
    <3> QED
      BY <2>3, <3>1, <3>2, <3>3 DEF Write, Step
  <2>4. ASSUME NEW p \in Proc, Confirm(p) PROVE LockTypeOK'
    BY <2>4 DEF Confirm, Step, Label
  <2>5. ASSUME NEW p \in Proc, Read(p) PROVE LockTypeOK'
    BY <2>5 DEF Read, Step, Label
  <2>6. ASSUME NEW p \in Proc, Probe(p) PROVE LockTypeOK'
    BY <2>6 DEF Probe, Step, Label
  <2>7. ASSUME NEW p \in Proc, MoveAside(p) PROVE LockTypeOK'
    BY <2>7 DEF MoveAside, Step, Label
  <2>8. ASSUME NEW p \in Proc, Compare(p) PROVE LockTypeOK'
    BY <2>8 DEF Compare, Step, Label
  <2>9. ASSUME NEW p \in Proc, Restore(p) PROVE LockTypeOK'
    BY <2>9 DEF Restore, PutBack, Step, Label
  <2>10. ASSUME NEW p \in Proc, Claim(p) PROVE LockTypeOK'
    <3>1. lockFile' \in File \cup {NoFile}
      BY <2>10, EmptyIsFile DEF Claim
    <3>2. pc' \in [Proc -> Label]
      BY <2>10 DEF Claim, Step, Label
    <3> QED
      BY <2>10, <3>1, <3>2 DEF Claim, Step
  <2>11. ASSUME NEW p \in Proc, ClaimWrite(p) PROVE LockTypeOK'
    <3>1. lockFile' \in File \cup {NoFile}
      BY <2>11, FilledFile DEF ClaimWrite, PutBack
    <3>2. aside' \in [Proc -> File \cup {NoFile}]
      BY <2>11, FilledPaths DEF ClaimWrite, PutBack
    <3>3. pc' \in [Proc -> Label]
      BY <2>11 DEF ClaimWrite, Step, Label
    <3> QED
      BY <2>11, <3>1, <3>2, <3>3 DEF ClaimWrite, Step
  <2>12. ASSUME NEW p \in Proc, Heartbeat(p) PROVE LockTypeOK'
    BY <2>12 DEF Heartbeat, Step, Label, File
  <2>13. ASSUME NEW p \in Proc, Release(p) \/ ReleaseRead(p) \/ Remove(p) PROVE LockTypeOK'
    BY <2>13 DEF Release, ReleaseRead, Remove, Step, Label
  <2>14. ASSUME NEW p \in Proc, Crash(p) PROVE LockTypeOK'
    BY <2>14 DEF Crash
  <2>15. ASSUME GrowOld PROVE LockTypeOK'
    BY <2>15 DEF GrowOld, File
  <2>16. ASSUME UNCHANGED vars PROVE LockTypeOK'
    BY <2>16 DEF vars
  <2> HIDE DEF LockTypeOK
  <2> QED
    BY <2>1, <2>2, <2>3, <2>4, <2>5, <2>6, <2>7, <2>8, <2>9, <2>10, <2>11, <2>12, <2>13,
       <2>14, <2>15, <2>16, StepCases
<1> QED
  BY <1>1, <1>2, PTL DEF Spec

-----------------------------------------------------------------------------
(* Mutual exclusion while nothing goes stale. *)

LEMMA FreshInvStep ==
  ASSUME ~Stalls, FreshInv, LockTypeOK', [Next]_vars
  PROVE  FreshInv'
<1> USE DEF FreshInv, Claiming, Step
<1>0. \A p \in Proc : pc[p] \notin {"probe", "moveAside", "compare", "restore", "claim", "claimWrite"}
  BY DEF LockTypeOK
<1>1. ASSUME NEW p \in Proc, Begin(p) PROVE FreshInv'
  BY <1>1 DEF Begin, LockTypeOK, IsOwnFile, IsOwnRecord
<1>2. ASSUME NEW p \in Proc, Create(p) PROVE FreshInv'
  <2>1. CASE lockFile = NoFile
    <3>1. IsOwnFile(lockFile', p) /\ ~lockFile'.old
      BY <1>2, <2>1, EmptyIsFile DEF Create, EmptyFile, IsOwnFile, LockTypeOK
    <3>2. \A q \in Proc : q # p => pc[q] \notin Claiming \cup {"held", "releaseRead", "remove"}
      BY <2>1 DEF IsOwnFile, IsOwnRecord
    <3> QED
      BY <1>2, <2>1, <3>1, <3>2 DEF Create, LockTypeOK, IsOwnFile, IsOwnRecord
  <2>2. CASE lockFile # NoFile
    BY <1>2, <2>2 DEF Create, LockTypeOK, IsOwnFile, IsOwnRecord
  <2> QED
    BY <2>1, <2>2
<1>3. ASSUME NEW p \in Proc, Write(p) PROVE FreshInv'
  <2>1. IsOwnFile(lockFile, p) /\ lockFile \in File
    BY <1>3 DEF Write, LockTypeOK, IsOwnFile
  <2>2. \A q \in Proc : q # p => pc[q] \notin Claiming \cup {"held", "releaseRead", "remove"}
    BY <2>1 DEF IsOwnFile, IsOwnRecord
  <2>3. CASE WriteRecord(p) /\ pc' = [pc EXCEPT ![p] = "confirm"]
    <3>1. lockFile' = [lockFile EXCEPT !.whole = TRUE]
      BY <2>1, <2>3 DEF WriteRecord, Filled
    <3>2. IsOwnFile(lockFile, p)' /\ ~lockFile'.old
      BY <1>3, <2>1, <3>1, ConstantsAssumption DEF ConstantsAssumption, Write, IsOwnFile, File
    <3>3. \A q \in Proc : q # p => pc'[q] = pc[q]
      BY <2>3 DEF LockTypeOK
    <3>4. pc'[p] = "confirm" /\ IsOwnRecord(lockFile, p)' /\ p \in Proc
      BY <2>1, <2>3, <3>1, <3>2 DEF LockTypeOK, IsOwnRecord, File
    <3> QED
      BY <2>2, <3>2, <3>3, <3>4
  <2>4. CASE pc' = [pc EXCEPT ![p] = "idle"] /\ UNCHANGED lockFile
    BY <1>3, <2>2, <2>4 DEF Write, LockTypeOK
  <2> QED
    BY <1>3, <2>3, <2>4 DEF Write
<1>4. ASSUME NEW p \in Proc, Confirm(p) PROVE FreshInv'
  BY <1>4 DEF Confirm, LockTypeOK, IsOwnFile, IsOwnRecord
<1>5. ASSUME NEW p \in Proc, Read(p) PROVE FreshInv'
  BY <1>5 DEF Read, isStale, LockTypeOK, IsOwnFile, IsOwnRecord
<1>6. ASSUME NEW p \in Proc,
             \/ Probe(p) \/ MoveAside(p) \/ Compare(p) \/ Restore(p) \/ Claim(p) \/ ClaimWrite(p)
      PROVE  FreshInv'
  BY <1>6, <1>0 DEF Probe, MoveAside, Compare, Restore, Claim, ClaimWrite
<1>7. ASSUME NEW p \in Proc, Heartbeat(p) PROVE FreshInv'
  <2>1. lockFile' # NoFile /\ IsOwnRecord(lockFile, p)' /\ ~lockFile'.old
    <3>1. PICK b \in Beat : lockFile' = [owner |-> p, nonce |-> nonce[p], beat |-> b,
                                        whole |-> TRUE, old |-> FALSE]
      BY <1>7 DEF Heartbeat
    <3>2. lockFile' \in File /\ nonce' = nonce
      BY <1>7, <3>1 DEF Heartbeat, LockTypeOK, File
    <3>3. lockFile' # NoFile
      BY <3>2, ConstantsAssumption DEF ConstantsAssumption
    <3> QED
      BY <3>1, <3>2, <3>3 DEF IsOwnFile, IsOwnRecord
  <2>2. \A q \in Proc : q # p => pc[q] \notin Claiming \cup {"held", "releaseRead", "remove"}
    BY <1>7 DEF Heartbeat, IsOwnFile, IsOwnRecord
  <2> QED
    BY <1>7, <2>1, <2>2 DEF Heartbeat, LockTypeOK
<1>8. ASSUME NEW p \in Proc, Release(p) \/ ReleaseRead(p) \/ Remove(p) PROVE FreshInv'
  BY <1>8 DEF Release, ReleaseRead, Remove, LockTypeOK, IsOwnFile, IsOwnRecord
<1>9. ASSUME NEW p \in Proc, Crash(p) PROVE FreshInv'
  BY <1>9 DEF Crash, LockTypeOK, IsOwnFile, IsOwnRecord
<1>10. GrowOld => FreshInv'
  BY DEF GrowOld
<1>11. UNCHANGED vars => FreshInv'
  BY DEF vars, LockTypeOK, IsOwnFile, IsOwnRecord
<1> HIDE DEF FreshInv, Claiming, Step
<1> QED
  BY <1>1, <1>2, <1>3, <1>4, <1>5, <1>6, <1>7, <1>8, <1>9, <1>10, <1>11, StepCases

\* However many processes contend, and whoever crashes or fails to write, at most
\* one holds the lock as long as no file at the lock path outlives staleAfterMs:
\* the exclusive create and its read-back are a sound mutex by themselves.
THEOREM MutualExclusionWhileFresh == ASSUME ~Stalls PROVE Spec => []MutualExclusion
<1>1. Init => FreshInv
  BY ConstantsAssumption DEF ConstantsAssumption, Init, FreshInv, LockTypeOK, Label, Claiming
<1>2. FreshInv /\ LockTypeOK' /\ [Next]_vars => FreshInv'
  BY FreshInvStep
<1>3. FreshInv => MutualExclusion
  BY DEF FreshInv, MutualExclusion, Holds, IsOwnRecord, IsOwnFile
<1> QED
  BY <1>1, <1>2, <1>3, TypeCorrect, PTL DEF Spec

-----------------------------------------------------------------------------
(* Takeovers. *)

\* Filling a file changes neither whose it is nor, for anybody else's, whether
\* its record has landed.
LEMMA FilledIdentity ==
  ASSUME NEW f \in File \cup {NoFile}, NEW p \in Proc, NEW q \in Proc
  PROVE  /\ IsOwnFile(Filled(f, p), q) <=> IsOwnFile(f, q)
         /\ IsOwnFile(f, q) /\ f.whole => Filled(f, p).whole
         /\ IsOwnFile(f, p) => Filled(f, p).whole
         /\ HeldBy(Filled(f, p)) <=> HeldBy(f)
<1>1. CASE IsOwnFile(f, p)
  <2>1. f \in File /\ Filled(f, p) = [f EXCEPT !.whole = TRUE]
    BY <1>1 DEF IsOwnFile, Filled
  <2>2. Filled(f, p) \in File /\ Filled(f, p) # NoFile /\ f # NoFile
    BY <2>1, ConstantsAssumption DEF ConstantsAssumption, File
  <2> QED
    BY <2>1, <2>2 DEF IsOwnFile, HeldBy, File
<1>2. CASE ~IsOwnFile(f, p)
  BY <1>2 DEF Filled
<1> QED
  BY <1>1, <1>2

\* A step that moves p, and what p has judged, but no file.
LEMMA SameFiles ==
  ASSUME LockInv, LockTypeOK',
         NEW p \in Proc,
         \A q \in Proc : q # p => pc'[q] = pc[q] /\ seen'[q] = seen[q],
         UNCHANGED <<lockFile, aside, nonce, alive>>,
         \/ /\ pc[p] \in Unclaimed
            /\ pc'[p] \in (Unclaimed \ {"claim"}) \cup {"idle"}
         \/ pc[p] = "probe" /\ pc'[p] = "moveAside",
         pc'[p] \in {"probe", "moveAside", "compare"} => seen'[p] # NoFile,
         pc'[p] \in {"moveAside", "compare"} /\ seen'[p].whole => seen'[p].owner \notin alive
  PROVE  LockInv'
<1>1. \A f, q : IsOwnFile(f, q)' <=> IsOwnFile(f, q)
  BY DEF IsOwnFile
<1>2. \A q \in Proc : HeldBy(aside[q])' => HeldBy(aside[q])
  BY DEF LockInv, HeldBy, LockTypeOK, File, Unclaimed
<1>3. NonceUnused'
  BY <1>1 DEF LockInv, NonceUnused, Unclaimed
<1>4. OneFilePerClaim'
  BY <1>1 DEF LockInv, OneFilePerClaim, Unclaimed, Claiming
<1>5. RecordLanded'
  BY <1>1 DEF LockInv, RecordLanded, Unclaimed
<1>6. JudgedIsDead'
  BY DEF LockInv, JudgedIsDead
<1>7. TakeoverDisplacesNoHolder'
  BY <1>2 DEF LockInv, TakeoverDisplacesNoHolder, Unclaimed
<1> QED
  BY <1>3, <1>4, <1>5, <1>6, <1>7 DEF LockInv

\* A step that ends p's takeover and leaves the moved file where it is, deletes
\* it, or puts it back over whatever the lock path holds.
LEMMA MovedBack ==
  ASSUME LockInv, LockTypeOK',
         NEW p \in Proc,
         pc[p] \in {"restore", "claim", "claimWrite"}, pc'[p] = "idle",
         \A q \in Proc : q # p => pc'[q] = pc[q] /\ aside'[q] = aside[q],
         \/ lockFile' = aside[p] /\ aside'[p] = NoFile
         \/ lockFile' = lockFile /\ aside'[p] \in {aside[p], NoFile},
         UNCHANGED <<seen, nonce, alive>>
  PROVE  LockInv'
<1>1. \A f, q : IsOwnFile(f, q)' <=> IsOwnFile(f, q)
  BY DEF IsOwnFile
<1>2. \A q \in Proc : q # p /\ HeldBy(aside[q])' => HeldBy(aside[q])
  BY DEF LockInv, HeldBy, LockTypeOK, File
<1>3. \A q, r \in Proc : IsOwnFile(aside'[r], q) => aside'[r] = aside[r] /\ IsOwnFile(aside[r], q)
  BY DEF IsOwnFile
<1>4. NonceUnused'
  BY <1>1, <1>3 DEF LockInv, NonceUnused, Unclaimed
<1>5. OneFilePerClaim'
  <2>1. ASSUME NEW q \in Proc, pc'[q] \in Claiming
        PROVE  /\ IsOwnFile(lockFile', q) => \A r \in Proc : ~IsOwnFile(aside'[r], q)
               /\ \A r, t \in Proc : IsOwnFile(aside'[r], q) /\ IsOwnFile(aside'[t], q) => r = t
    BY <1>3, <2>1 DEF LockInv, OneFilePerClaim, Claiming, IsOwnFile
  <2> QED
    BY <1>1, <2>1 DEF OneFilePerClaim
<1>6. RecordLanded'
  BY <1>1, <1>3 DEF LockInv, RecordLanded
<1>7. JudgedIsDead'
  BY DEF LockInv, JudgedIsDead
<1>8. TakeoverDisplacesNoHolder'
  BY <1>2 DEF LockInv, TakeoverDisplacesNoHolder
<1> QED
  BY <1>4, <1>5, <1>6, <1>7, <1>8 DEF LockInv

LEMMA LockInvStep ==
  ASSUME LockInv, LockTypeOK', [Next]_vars
  PROVE  LockInv'
<1> USE DEF LockInv, Unclaimed, Claiming, Step
<1>1. ASSUME NEW p \in Proc, Begin(p) PROVE LockInv'
  <2> DEFINE fresh == \A f \in Referenced : f.owner = p => f.nonce # nonce'[p]
  <2>1. /\ fresh
        /\ \A q \in Proc : q # p => nonce'[q] = nonce[q] /\ pc'[q] = pc[q]
        /\ pc'[p] = "create" /\ pc[p] = "idle"
        /\ UNCHANGED <<lockFile, aside, seen, alive>>
    BY <1>1 DEF Begin, LockTypeOK
  <2>2. ~IsOwnFile(lockFile, p)' /\ \A q \in Proc : ~IsOwnFile(aside[q], p)'
    BY <2>1 DEF IsOwnFile, Referenced
  <2>3. \A q \in Proc : q # p => \A f : IsOwnFile(f, q)' <=> IsOwnFile(f, q)
    BY <2>1 DEF IsOwnFile
  <2>4. \A f : f \in File \cup {NoFile} /\ HeldBy(f)' => HeldBy(f)
    BY <2>1 DEF HeldBy, File
  <2>5. NonceUnused'
    BY <2>1, <2>2, <2>3 DEF NonceUnused
  <2>6. OneFilePerClaim'
    BY <2>1, <2>2, <2>3 DEF OneFilePerClaim
  <2>7. RecordLanded'
    BY <2>1, <2>2, <2>3 DEF RecordLanded
  <2>8. JudgedIsDead'
    BY <2>1 DEF JudgedIsDead
  <2>9. TakeoverDisplacesNoHolder'
    BY <2>1, <2>4 DEF TakeoverDisplacesNoHolder, LockTypeOK
  <2> QED
    BY <2>5, <2>6, <2>7, <2>8, <2>9
<1>2. ASSUME NEW p \in Proc, Create(p) PROVE LockInv'
  <2>1. CASE lockFile = NoFile
    <3>1. /\ lockFile' = EmptyFile(p)
          /\ \A q \in Proc : q # p => pc'[q] = pc[q]
          /\ pc[p] = "create" /\ pc'[p] = "write"
          /\ UNCHANGED <<aside, seen, nonce, alive>>
      BY <1>2, <2>1 DEF Create, LockTypeOK
    <3>2. /\ \A f, q : IsOwnFile(f, q)' <=> IsOwnFile(f, q)
          /\ \A q \in Proc : IsOwnFile(lockFile', q) => q = p
      BY <3>1 DEF IsOwnFile, EmptyFile
    <3>3. \A q \in Proc : HeldBy(aside[q])' => HeldBy(aside[q])
      BY <3>1 DEF HeldBy, LockTypeOK, File
    <3>4. NonceUnused'
      BY <3>1, <3>2 DEF NonceUnused
    <3>5. OneFilePerClaim'
      BY <3>1, <3>2 DEF OneFilePerClaim, NonceUnused
    <3>6. RecordLanded'
      BY <3>1, <3>2 DEF RecordLanded
    <3>7. JudgedIsDead'
      BY <3>1 DEF JudgedIsDead
    <3>8. TakeoverDisplacesNoHolder'
      BY <3>1, <3>3 DEF TakeoverDisplacesNoHolder
    <3> QED
      BY <3>4, <3>5, <3>6, <3>7, <3>8
  <2>2. CASE lockFile # NoFile
    <3>1. /\ \A q \in Proc : q # p => pc'[q] = pc[q]
          /\ pc[p] = "create" /\ pc'[p] = "read"
          /\ UNCHANGED <<lockFile, aside, seen, nonce, alive>>
      BY <1>2, <2>2 DEF Create, LockTypeOK
    <3> QED
      BY <3>1, SameFiles
  <2> QED
    BY <2>1, <2>2
<1>3. ASSUME NEW p \in Proc, Write(p) PROVE LockInv'
  <2>1. /\ \A q \in Proc : q # p => pc'[q] = pc[q]
        /\ pc[p] = "write" /\ pc'[p] \in {"confirm", "idle"}
        /\ UNCHANGED <<seen, nonce, alive>>
    BY <1>3 DEF Write, LockTypeOK
  <2>2. \A f, q : IsOwnFile(f, q)' <=> IsOwnFile(f, q)
    BY <2>1 DEF IsOwnFile
  <2>3. CASE WriteRecord(p)
    <3>1. \A q \in Proc : IsOwnFile(lockFile', q) <=> IsOwnFile(lockFile, q)
      BY <2>3, FilledIdentity DEF WriteRecord, LockTypeOK
    <3>2. \A q, r \in Proc : IsOwnFile(aside'[r], q) <=> IsOwnFile(aside[r], q)
      BY <2>3, FilledIdentity DEF WriteRecord, LockTypeOK
    <3>3. \A q \in Proc : HeldBy(aside[q])' => HeldBy(aside[q])
      <4>1. \A q \in Proc : HeldBy(aside'[q]) => HeldBy(aside[q])
        BY <2>3, FilledIdentity DEF WriteRecord, LockTypeOK
      <4> QED
        BY <2>1, <4>1 DEF HeldBy, LockTypeOK, File
    <3>4. NonceUnused'
      BY <2>1, <2>2, <3>1, <3>2 DEF NonceUnused
    <3>5. OneFilePerClaim'
      BY <2>1, <2>2, <3>1, <3>2 DEF OneFilePerClaim
    <3>6. RecordLanded'
      <4>1. ASSUME NEW q \in Proc, pc'[q] \in {"confirm", "held", "releaseRead", "remove"}
            PROVE  /\ IsOwnFile(lockFile', q) => lockFile'.whole
                   /\ \A r \in Proc : IsOwnFile(aside'[r], q) => aside'[r].whole
        <5>1. CASE q = p
          BY <2>3, <3>1, <3>2, <5>1, FilledIdentity DEF WriteRecord, LockTypeOK
        <5>2. CASE q # p
          <6>1. /\ IsOwnFile(lockFile, q) => lockFile.whole
                /\ \A r \in Proc : IsOwnFile(aside[r], q) => aside[r].whole
            BY <2>1, <4>1, <5>2 DEF RecordLanded
          <6> QED
            BY <2>3, <3>1, <3>2, <6>1, FilledIdentity DEF WriteRecord, LockTypeOK
        <5> QED
          BY <5>1, <5>2
      <4> QED
        BY <2>2, <4>1 DEF RecordLanded
    <3>7. JudgedIsDead'
      BY <2>1 DEF JudgedIsDead
    <3>8. TakeoverDisplacesNoHolder'
      BY <2>1, <3>3 DEF TakeoverDisplacesNoHolder
    <3> QED
      BY <3>4, <3>5, <3>6, <3>7, <3>8
  <2>4. CASE UNCHANGED <<lockFile, aside>> /\ pc'[p] = "idle"
    <3>1. \A q \in Proc : HeldBy(aside[q])' => HeldBy(aside[q])
      BY <2>1, <2>4 DEF HeldBy, LockTypeOK, File
    <3>2. NonceUnused' /\ OneFilePerClaim' /\ RecordLanded'
      BY <2>1, <2>2, <2>4 DEF NonceUnused, OneFilePerClaim, RecordLanded
    <3>3. JudgedIsDead' /\ TakeoverDisplacesNoHolder'
      BY <2>1, <2>4, <3>1 DEF JudgedIsDead, TakeoverDisplacesNoHolder
    <3> QED
      BY <3>2, <3>3
  <2> QED
    BY <1>3, <2>3, <2>4 DEF Write, LockTypeOK
<1>4. ASSUME NEW p \in Proc, Confirm(p) PROVE LockInv'
  <2>1. /\ \A q \in Proc : q # p => pc'[q] = pc[q]
        /\ pc[p] = "confirm" /\ pc'[p] \in {"held", "idle"}
        /\ pc'[p] = "held" => IsOwnFile(lockFile, p)
        /\ UNCHANGED <<lockFile, aside, seen, nonce, alive>>
    BY <1>4 DEF Confirm, IsOwnRecord, LockTypeOK
  <2>2. \A f, q : IsOwnFile(f, q)' <=> IsOwnFile(f, q)
    BY <2>1 DEF IsOwnFile
  <2>3. \A q \in Proc : HeldBy(aside[q])' => HeldBy(aside[q])
    <3> SUFFICES ASSUME NEW q \in Proc, HeldBy(aside[q])', ~HeldBy(aside[q]) PROVE FALSE
      OBVIOUS
    <3>1. aside[q].owner = p /\ IsOwnFile(aside[q], p) /\ pc'[p] = "held"
      BY <2>1 DEF HeldBy, IsOwnFile, LockTypeOK, File
    <3> QED
      BY <2>1, <3>1 DEF OneFilePerClaim
  <2>4. NonceUnused'
    BY <2>1, <2>2, <2>3 DEF NonceUnused
  <2>5. OneFilePerClaim'
    BY <2>1, <2>2, <2>3 DEF OneFilePerClaim
  <2>6. RecordLanded'
    BY <2>1, <2>2, <2>3 DEF RecordLanded
  <2>7. JudgedIsDead'
    BY <2>1, <2>2, <2>3 DEF JudgedIsDead
  <2>8. TakeoverDisplacesNoHolder'
    BY <2>1, <2>2, <2>3 DEF TakeoverDisplacesNoHolder
  <2> QED
    BY <2>4, <2>5, <2>6, <2>7, <2>8
<1>5. ASSUME NEW p \in Proc, Read(p) PROVE LockInv'
  <2>1. /\ \A q \in Proc : q # p => pc'[q] = pc[q] /\ seen'[q] = seen[q]
        /\ pc[p] = "read" /\ pc'[p] \in {"idle", "probe", "moveAside"}
        /\ pc'[p] = "probe" => seen'[p] # NoFile
        /\ pc'[p] = "moveAside" => seen'[p] # NoFile /\ ~seen'[p].whole
        /\ UNCHANGED <<lockFile, aside, nonce, alive>>
    BY <1>5 DEF Read, isStale, LockTypeOK
  <2> QED
    BY <2>1, SameFiles
<1>6. ASSUME NEW p \in Proc, Probe(p) PROVE LockInv'
  <2>1. /\ \A q \in Proc : q # p => pc'[q] = pc[q] /\ seen'[q] = seen[q]
        /\ pc[p] = "probe" /\ pc'[p] \in {"idle", "moveAside"}
        /\ pc'[p] = "moveAside" => seen'[p] = seen[p] /\ seen[p].owner \notin alive
        /\ UNCHANGED <<lockFile, aside, nonce, alive>>
    BY <1>6 DEF Probe, LockTypeOK
  <2>2. seen[p] # NoFile
    BY <2>1 DEF JudgedIsDead
  <2> QED
    BY <2>1, <2>2, SameFiles
<1>7. ASSUME NEW p \in Proc, MoveAside(p) PROVE LockInv'
  <2>1. CASE lockFile = NoFile
    <3>1. /\ \A q \in Proc : q # p => pc'[q] = pc[q] /\ seen'[q] = seen[q]
          /\ pc[p] = "moveAside" /\ pc'[p] = "create"
          /\ UNCHANGED <<lockFile, aside, nonce, alive>>
      BY <1>7, <2>1 DEF MoveAside, LockTypeOK
    <3> QED
      BY <3>1, SameFiles
  <2>2. CASE lockFile # NoFile
    <3>1. /\ \A q \in Proc : q # p => pc'[q] = pc[q] /\ aside'[q] = aside[q]
          /\ pc[p] = "moveAside" /\ pc'[p] = "compare"
          /\ lockFile' = NoFile /\ aside'[p] = lockFile
          /\ UNCHANGED <<seen, nonce, alive>>
      BY <1>7, <2>2 DEF MoveAside, LockTypeOK
    <3>2. /\ \A f, q : IsOwnFile(f, q)' <=> IsOwnFile(f, q)
          /\ \A q \in Proc : ~IsOwnFile(lockFile', q)
      BY <3>1 DEF IsOwnFile
    <3>3. \A q \in Proc : q # p /\ HeldBy(aside[q])' => HeldBy(aside[q])
      BY <3>1 DEF HeldBy, LockTypeOK, File
    <3>4. NonceUnused'
      BY <3>1, <3>2 DEF NonceUnused
    <3>5. OneFilePerClaim'
      BY <3>1, <3>2 DEF OneFilePerClaim
    <3>6. RecordLanded'
      BY <3>1, <3>2 DEF RecordLanded
    <3>7. JudgedIsDead'
      BY <3>1 DEF JudgedIsDead
    <3>8. TakeoverDisplacesNoHolder'
      BY <3>1, <3>3 DEF TakeoverDisplacesNoHolder
    <3> QED
      BY <3>4, <3>5, <3>6, <3>7, <3>8
  <2> QED
    BY <2>1, <2>2
<1>8. ASSUME NEW p \in Proc, Compare(p) PROVE LockInv'
  <2>1. /\ \A q \in Proc : q # p => pc'[q] = pc[q] /\ seen'[q] = seen[q]
        /\ pc[p] = "compare" /\ pc'[p] \in {"claim", "restore"}
        /\ pc'[p] = "claim" => isSameLockFile(aside[p], seen[p])
        /\ UNCHANGED <<lockFile, aside, nonce, alive>>
    BY <1>8 DEF Compare, LockTypeOK
  <2>2. \A f, q : IsOwnFile(f, q)' <=> IsOwnFile(f, q)
    BY <2>1 DEF IsOwnFile
  <2>3. \A q \in Proc : HeldBy(aside[q])' => HeldBy(aside[q])
    BY <2>1 DEF HeldBy, LockTypeOK, File
  <2>4. pc'[p] = "claim" => ~HeldBy(aside[p])
    <3> SUFFICES ASSUME isSameLockFile(aside[p], seen[p]), HeldBy(aside[p]) PROVE FALSE
      BY <2>1
    <3>1. aside[p] \in File /\ IsOwnFile(aside[p], aside[p].owner)
      BY DEF HeldBy, IsOwnFile, LockTypeOK
    <3>2. aside[p].whole
      BY <3>1 DEF RecordLanded, HeldBy, File
    <3>3. seen[p].whole /\ aside[p].owner = seen[p].owner
      BY <3>2 DEF isSameLockFile
    <3> QED
      BY <2>1, <3>3 DEF JudgedIsDead, HeldBy
  <2>5. NonceUnused'
    BY <2>1, <2>2, <2>3, <2>4 DEF NonceUnused
  <2>6. OneFilePerClaim'
    BY <2>1, <2>2, <2>3, <2>4 DEF OneFilePerClaim
  <2>7. RecordLanded'
    BY <2>1, <2>2, <2>3, <2>4 DEF RecordLanded
  <2>8. JudgedIsDead'
    BY <2>1, <2>2, <2>3, <2>4 DEF JudgedIsDead
  <2>9. TakeoverDisplacesNoHolder'
    BY <2>1, <2>2, <2>3, <2>4 DEF TakeoverDisplacesNoHolder
  <2> QED
    BY <2>5, <2>6, <2>7, <2>8, <2>9
<1>9. ASSUME NEW p \in Proc, Restore(p) PROVE LockInv'
  <2>1. /\ \A q \in Proc : q # p => pc'[q] = pc[q] /\ aside'[q] = aside[q]
        /\ pc[p] = "restore" /\ pc'[p] = "idle"
        /\ \/ lockFile' = aside[p] /\ aside'[p] = NoFile
           \/ lockFile' = lockFile /\ aside'[p] = aside[p]
        /\ UNCHANGED <<seen, nonce, alive>>
    BY <1>9 DEF Restore, PutBack, LockTypeOK
  <2> QED
    BY <2>1, MovedBack
<1>10. ASSUME NEW p \in Proc, Claim(p) PROVE LockInv'
  <2>1. CASE lockFile = NoFile
    <3>1. /\ lockFile' = EmptyFile(p)
          /\ \A q \in Proc : q # p => pc'[q] = pc[q]
          /\ pc[p] = "claim" /\ pc'[p] = "claimWrite"
          /\ UNCHANGED <<aside, seen, nonce, alive>>
      BY <1>10, <2>1 DEF Claim, LockTypeOK
    <3>2. /\ \A f, q : IsOwnFile(f, q)' <=> IsOwnFile(f, q)
          /\ \A q \in Proc : IsOwnFile(lockFile', q) => q = p
      BY <3>1 DEF IsOwnFile, EmptyFile
    <3>3. \A q \in Proc : HeldBy(aside[q])' => HeldBy(aside[q])
      BY <3>1 DEF HeldBy, LockTypeOK, File
    <3>4. NonceUnused'
      BY <3>1, <3>2 DEF NonceUnused
    <3>5. OneFilePerClaim'
      BY <3>1, <3>2 DEF OneFilePerClaim, NonceUnused
    <3>6. RecordLanded'
      BY <3>1, <3>2 DEF RecordLanded
    <3>7. JudgedIsDead'
      BY <3>1 DEF JudgedIsDead
    <3>8. TakeoverDisplacesNoHolder'
      BY <3>1, <3>3 DEF TakeoverDisplacesNoHolder
    <3> QED
      BY <3>4, <3>5, <3>6, <3>7, <3>8
  <2>2. CASE lockFile # NoFile
    <3>1. /\ \A q \in Proc : q # p => pc'[q] = pc[q] /\ aside'[q] = aside[q]
          /\ pc[p] = "claim" /\ pc'[p] = "idle"
          /\ lockFile' = lockFile /\ aside'[p] = NoFile
          /\ UNCHANGED <<seen, nonce, alive>>
      BY <1>10, <2>2 DEF Claim, LockTypeOK
    <3> QED
      BY <3>1, MovedBack
  <2> QED
    BY <2>1, <2>2
<1>11. ASSUME NEW p \in Proc, ClaimWrite(p) PROVE LockInv'
  <2>1. /\ \A q \in Proc : q # p => pc'[q] = pc[q]
        /\ pc[p] = "claimWrite"
        /\ UNCHANGED <<seen, nonce, alive>>
    BY <1>11 DEF ClaimWrite, LockTypeOK
  <2>2. \A f, q : IsOwnFile(f, q)' <=> IsOwnFile(f, q)
    BY <2>1 DEF IsOwnFile
  <2>3. CASE /\ pc'[p] = "confirm"
             /\ lockFile' = Filled(lockFile, p)
             /\ aside' = [q \in Proc |-> IF q = p THEN NoFile ELSE Filled(aside[q], p)]
    <3>1. \A q \in Proc : IsOwnFile(lockFile', q) <=> IsOwnFile(lockFile, q)
      BY <2>3, FilledIdentity DEF LockTypeOK
    <3>2. \A q, r \in Proc : IsOwnFile(aside'[r], q) => IsOwnFile(aside[r], q)
      <4>1. \A q, r \in Proc : IsOwnFile(aside'[r], q) => aside'[r] = Filled(aside[r], p)
        BY <2>3 DEF IsOwnFile
      <4> QED
        BY <4>1, FilledIdentity DEF LockTypeOK
    <3>3. \A q \in Proc : HeldBy(aside[q])' => HeldBy(aside[q])
      <4>1. \A q \in Proc : HeldBy(aside'[q]) => HeldBy(aside[q])
        BY <2>3, FilledIdentity DEF HeldBy, LockTypeOK
      <4> QED
        BY <2>1, <2>3, <4>1 DEF HeldBy, LockTypeOK, File
    <3>4. NonceUnused'
      BY <2>1, <2>2, <2>3, <3>1, <3>2 DEF NonceUnused
    <3>5. OneFilePerClaim'
      BY <2>1, <2>2, <3>1, <3>2 DEF OneFilePerClaim
    <3>6. RecordLanded'
      <4>1. ASSUME NEW q \in Proc, pc'[q] \in {"confirm", "held", "releaseRead", "remove"}
            PROVE  /\ IsOwnFile(lockFile', q) => lockFile'.whole
                   /\ \A r \in Proc : IsOwnFile(aside'[r], q) => aside'[r].whole
        <5>1. \A r \in Proc : IsOwnFile(aside'[r], q) => r # p /\ aside'[r] = Filled(aside[r], p)
          BY <2>3 DEF IsOwnFile
        <5>2. CASE q = p
          BY <2>3, <3>1, <3>2, <5>1, <5>2, FilledIdentity DEF LockTypeOK
        <5>3. CASE q # p
          <6>1. /\ IsOwnFile(lockFile, q) => lockFile.whole
                /\ \A r \in Proc : IsOwnFile(aside[r], q) => aside[r].whole
            BY <2>1, <4>1, <5>3 DEF RecordLanded
          <6> QED
            BY <2>3, <3>1, <3>2, <5>1, <6>1, FilledIdentity DEF LockTypeOK
        <5> QED
          BY <5>2, <5>3
      <4> QED
        BY <2>2, <4>1 DEF RecordLanded
    <3>7. JudgedIsDead'
      BY <2>1, <2>3 DEF JudgedIsDead
    <3>8. TakeoverDisplacesNoHolder'
      BY <2>1, <2>3, <3>3 DEF TakeoverDisplacesNoHolder
    <3> QED
      BY <3>4, <3>5, <3>6, <3>7, <3>8
  <2>4. CASE PutBack(p) /\ pc'[p] = "idle"
    <3>1. /\ lockFile' = aside[p] /\ aside'[p] = NoFile
          /\ \A q \in Proc : q # p => aside'[q] = aside[q]
      BY <2>4 DEF PutBack, LockTypeOK
    <3> QED
      BY <2>1, <2>4, <3>1, MovedBack
  <2> QED
    BY <1>11, <2>3, <2>4 DEF ClaimWrite, LockTypeOK
<1>12. ASSUME NEW p \in Proc, Heartbeat(p) PROVE LockInv'
  <2>1. PICK b \in Beat : lockFile' = [owner |-> p, nonce |-> nonce[p], beat |-> b,
                                      whole |-> TRUE, old |-> FALSE]
    BY <1>12 DEF Heartbeat
  <2>2. pc' = pc /\ pc[p] = "held" /\ UNCHANGED <<aside, seen, nonce, alive>>
    BY <1>12 DEF Heartbeat, LockTypeOK
  <2>3. /\ \A f, q : IsOwnFile(f, q)' <=> IsOwnFile(f, q)
        /\ \A q \in Proc : IsOwnFile(lockFile', q) => q = p
        /\ lockFile'.whole
    BY <2>1, <2>2 DEF IsOwnFile
  <2>4. \A q \in Proc : HeldBy(aside[q])' => HeldBy(aside[q])
    BY <2>2 DEF HeldBy
  <2>5. NonceUnused'
    BY <2>2, <2>3, <2>4 DEF NonceUnused
  <2>6. OneFilePerClaim'
    BY <2>2, <2>3, <2>4 DEF OneFilePerClaim
  <2>7. RecordLanded'
    BY <2>2, <2>3, <2>4 DEF RecordLanded
  <2>8. JudgedIsDead'
    BY <2>2, <2>3, <2>4 DEF JudgedIsDead
  <2>9. TakeoverDisplacesNoHolder'
    BY <2>2, <2>3, <2>4 DEF TakeoverDisplacesNoHolder
  <2> QED
    BY <2>5, <2>6, <2>7, <2>8, <2>9
<1>13. ASSUME NEW p \in Proc, Release(p) \/ ReleaseRead(p) \/ Remove(p) PROVE LockInv'
  <2>1. /\ \A q \in Proc : q # p => pc'[q] = pc[q]
        /\ pc[p] \in {"held", "releaseRead", "remove"}
        /\ pc'[p] \in {"releaseRead", "remove", "idle"}
        /\ lockFile' \in {lockFile, NoFile}
        /\ UNCHANGED <<aside, seen, nonce, alive>>
    BY <1>13 DEF Release, ReleaseRead, Remove, LockTypeOK
  <2>2. /\ \A f, q : IsOwnFile(f, q)' <=> IsOwnFile(f, q)
        /\ \A q \in Proc : IsOwnFile(lockFile', q) => IsOwnFile(lockFile, q) /\ lockFile' = lockFile
    BY <2>1 DEF IsOwnFile
  <2>3. \A q \in Proc : HeldBy(aside[q])' => HeldBy(aside[q])
    BY <2>1 DEF HeldBy, LockTypeOK, File
  <2>4. NonceUnused'
    BY <2>1, <2>2, <2>3 DEF NonceUnused
  <2>5. OneFilePerClaim'
    BY <2>1, <2>2, <2>3 DEF OneFilePerClaim
  <2>6. RecordLanded'
    BY <2>1, <2>2, <2>3 DEF RecordLanded
  <2>7. JudgedIsDead'
    BY <2>1, <2>2, <2>3 DEF JudgedIsDead
  <2>8. TakeoverDisplacesNoHolder'
    BY <2>1, <2>2, <2>3 DEF TakeoverDisplacesNoHolder
  <2> QED
    BY <2>4, <2>5, <2>6, <2>7, <2>8
<1>14. ASSUME NEW p \in Proc, Crash(p) PROVE LockInv'
  <2>1. /\ alive' \subseteq alive
        /\ UNCHANGED <<lockFile, aside, seen, nonce, pc>>
    BY <1>14 DEF Crash
  <2>2. /\ \A f, q : IsOwnFile(f, q)' <=> IsOwnFile(f, q)
        /\ \A q \in Proc : HeldBy(aside[q])' => HeldBy(aside[q])
    BY <2>1 DEF IsOwnFile, HeldBy
  <2>3. NonceUnused'
    BY <2>1, <2>2 DEF NonceUnused
  <2>4. OneFilePerClaim'
    BY <2>1, <2>2 DEF OneFilePerClaim
  <2>5. RecordLanded'
    BY <2>1, <2>2 DEF RecordLanded
  <2>6. JudgedIsDead'
    BY <2>1, <2>2 DEF JudgedIsDead
  <2>7. TakeoverDisplacesNoHolder'
    BY <2>1, <2>2 DEF TakeoverDisplacesNoHolder
  <2> QED
    BY <2>3, <2>4, <2>5, <2>6, <2>7
<1>15. GrowOld => LockInv'
  <2> SUFFICES ASSUME GrowOld PROVE LockInv'
    OBVIOUS
  <2>1. /\ lockFile \in File /\ lockFile' = [lockFile EXCEPT !.old = TRUE]
        /\ UNCHANGED <<aside, seen, nonce, pc, alive>>
    BY DEF GrowOld, LockTypeOK
  <2>2. /\ \A f, q : IsOwnFile(f, q)' <=> IsOwnFile(f, q)
        /\ \A q \in Proc : IsOwnFile(lockFile', q) => IsOwnFile(lockFile, q)
        /\ lockFile'.whole = lockFile.whole
    <3>1. lockFile # NoFile
      BY <2>1, ConstantsAssumption DEF ConstantsAssumption
    <3> QED
      BY <2>1, <3>1 DEF IsOwnFile, File
  <2>3. \A q \in Proc : HeldBy(aside[q])' => HeldBy(aside[q])
    BY <2>1 DEF HeldBy
  <2>4. NonceUnused'
    BY <2>1, <2>2, <2>3 DEF NonceUnused
  <2>5. OneFilePerClaim'
    BY <2>1, <2>2, <2>3 DEF OneFilePerClaim
  <2>6. RecordLanded'
    BY <2>1, <2>2, <2>3 DEF RecordLanded
  <2>7. JudgedIsDead'
    BY <2>1, <2>2, <2>3 DEF JudgedIsDead
  <2>8. TakeoverDisplacesNoHolder'
    BY <2>1, <2>2, <2>3 DEF TakeoverDisplacesNoHolder
  <2> QED
    BY <2>4, <2>5, <2>6, <2>7, <2>8
<1>16. UNCHANGED vars => LockInv'
  <2> SUFFICES ASSUME UNCHANGED vars PROVE LockInv'
    OBVIOUS
  <2>1. \A f, q : IsOwnFile(f, q)' <=> IsOwnFile(f, q)
    BY DEF vars, IsOwnFile
  <2>2. \A q \in Proc : HeldBy(aside[q])' => HeldBy(aside[q])
    BY DEF vars, HeldBy
  <2>3. NonceUnused'
    BY <2>1, <2>2 DEF NonceUnused, vars
  <2>4. OneFilePerClaim'
    BY <2>1, <2>2 DEF OneFilePerClaim, vars
  <2>5. RecordLanded'
    BY <2>1, <2>2 DEF RecordLanded, vars
  <2>6. JudgedIsDead'
    BY <2>1, <2>2 DEF JudgedIsDead, vars
  <2>7. TakeoverDisplacesNoHolder'
    BY <2>1, <2>2 DEF TakeoverDisplacesNoHolder, vars
  <2> QED
    BY <2>3, <2>4, <2>5, <2>6, <2>7
<1> HIDE DEF LockInv, Unclaimed, Claiming, Step
<1> QED
  BY <1>1, <1>2, <1>3, <1>4, <1>5, <1>6, <1>7, <1>8, <1>9, <1>10, <1>11, <1>12, <1>13,
     <1>14, <1>15, <1>16, StepCases

LEMMA LockInvInit == Init => LockInv
<1>1. Init => LockTypeOK
  BY ConstantsAssumption DEF ConstantsAssumption, Init, LockTypeOK, Label
<1>2. Init => \A f, p : ~IsOwnFile(NoFile, p)
  BY DEF IsOwnFile
<1> QED
  BY <1>1, <1>2 DEF Init, LockInv, NonceUnused, OneFilePerClaim, RecordLanded, JudgedIsDead,
                    TakeoverDisplacesNoHolder, Unclaimed, Claiming

\* The path of every behaviour stays inside LockInv.
LEMMA LockInvAlways == Spec => []LockInv
<1>1. LockInv /\ LockTypeOK' /\ [Next]_vars => LockInv'
  BY LockInvStep
<1> QED
  BY <1>1, LockInvInit, TypeCorrect, PTL DEF Spec

\* A takeover never deletes the file of a process that holds the lock: not while
\* claimants stall between create and write, whatever is renamed meanwhile, and
\* whichever write or restore fails (repositoryLock.ts:103-130).
THEOREM TakeoverSafe == Spec => []TakeoverDisplacesNoHolder
<1>1. LockInv => TakeoverDisplacesNoHolder
  BY DEF LockInv
<1> QED
  BY <1>1, LockInvAlways, PTL

\* A lock path holding no whole record is never the file of a process that holds
\* the lock, so reclaiming it on its age alone displaces nobody
\* (repositoryLock.ts:156-162).
THEOREM UnreadableSafe == Spec => []UnreadableIsNotHeld
<1>1. LockInv => UnreadableIsNotHeld
  BY DEF LockInv, UnreadableIsNotHeld, HeldBy, RecordLanded, IsOwnFile, LockTypeOK, File
<1> QED
  BY <1>1, LockInvAlways, PTL

-----------------------------------------------------------------------------
(***************************************************************************)
(* Mutual exclusion of two windows, whatever goes stale.                   *)
(*                                                                         *)
(* While both live and writes succeed, a file with no record is of a claim *)
(* still being written, so a window that takes over found its rival there  *)
(* and is alone in doing so.  What it moves is the rival's.  A holder's    *)
(* file is whole, so it stays at the lock path or is the moved file that   *)
(* will not compare equal and is put back; until then nobody else is there *)
(* to create another.  A third window is (lock_three).                     *)
(***************************************************************************)
TakingOver == {"moveAside", "compare", "restore", "claim"}
Releasing == {"held", "releaseRead", "remove"}

OneTakesOver == \A p, q \in Proc : pc[p] \in TakingOver /\ pc[q] \in TakingOver => p = q

Written(f) ==
  f # NoFile /\ ~f.whole => pc[f.owner] \in {"write", "claimWrite"} /\ f.nonce = nonce[f.owner]

UnwrittenIsClaimed == Written(lockFile) /\ \A q \in Proc : Written(aside[q])

RivalsFileMoves ==
  \A p \in Proc :
    /\ pc[p] = "moveAside" /\ lockFile # NoFile => lockFile.owner # p
    /\ pc[p] \in {"compare", "restore"} => aside[p] # NoFile /\ aside[p].owner # p

\* p's file is in the hands of q, who will put it back.
WillReturn(p, q) ==
  /\ aside[q] # NoFile /\ aside[q].owner = p
  /\ pc[q] = "restore" \/ (pc[q] = "compare" /\ aside[q].whole)

HolderKeepsPath ==
  \A p \in Proc : pc[p] \in Releasing =>
    \/ lockFile # NoFile /\ lockFile.owner = p
    \/ lockFile = NoFile /\ \E q \in Proc : WillReturn(p, q)

PairInv == OneTakesOver /\ UnwrittenIsClaimed /\ RivalsFileMoves /\ HolderKeepsPath

Calm == alive = Proc /\ ~faulty

LEMMA OneReleases ==
  ASSUME PairInv, NEW p \in Proc, NEW q \in Proc, pc[p] \in Releasing, pc[q] \in Releasing
  PROVE  p = q
BY DEF PairInv, OneTakesOver, TakingOver, HolderKeepsPath, WillReturn

\* A step that moves p outside a takeover and the hold, and touches no file.
LEMMA PairElsewhere ==
  ASSUME PairInv, NEW p \in Proc, \A q \in Proc : q # p => pc'[q] = pc[q],
         \A q \in Proc : q # p => nonce'[q] = nonce[q],
         LockTypeOK, pc[p] \notin {"write", "claimWrite", "restore"},
         pc[p] \in TakingOver => pc'[p] \notin {"moveAside", "compare", "restore"},
         pc[p] = "compare" => ~aside[p].whole,
         pc'[p] \notin TakingOver \/ pc[p] \in TakingOver,
         pc'[p] \in Releasing => pc[p] \in Releasing,
         UNCHANGED <<lockFile, aside>>
  PROVE  PairInv'
<1>1. OneTakesOver'
  BY DEF PairInv, OneTakesOver
<1>2. UnwrittenIsClaimed'
  BY DEF PairInv, UnwrittenIsClaimed, Written, LockTypeOK, File
<1>3. RivalsFileMoves'
  BY DEF PairInv, RivalsFileMoves, TakingOver
<1>4. HolderKeepsPath'
  BY DEF PairInv, HolderKeepsPath, WillReturn, TakingOver
<1> QED
  BY <1>1, <1>2, <1>3, <1>4 DEF PairInv

\* p's claim is written into the one file it made, wherever that has gone; a
\* takeover ends with it.
LEMMA PairWrites ==
  ASSUME PairInv, LockTypeOK, NEW p \in Proc, pc[p] \in {"write", "claimWrite"}, pc'[p] = "confirm",
         \A q \in Proc : q # p => pc'[q] = pc[q],
         lockFile' = Filled(lockFile, p),
         \A q \in Proc : aside'[q] = Filled(aside[q], p) \/ (q = p /\ aside'[q] = NoFile),
         UNCHANGED nonce
  PROVE  PairInv'
<1>1. ASSUME NEW f \in File \cup {NoFile}
      PROVE  /\ Filled(f, p) # NoFile <=> f # NoFile
             /\ f # NoFile => Filled(f, p).owner = f.owner /\ Filled(f, p).nonce = f.nonce
             /\ f # NoFile /\ f.whole => Filled(f, p).whole
             /\ f # NoFile /\ ~Filled(f, p).whole => ~f.whole /\ ~IsOwnFile(f, p)
  <2>1. CASE IsOwnFile(f, p)
    <3>1. f \in File /\ Filled(f, p) = [f EXCEPT !.whole = TRUE]
      BY <2>1 DEF IsOwnFile, Filled
    <3>2. Filled(f, p) \in File /\ Filled(f, p) # NoFile /\ f # NoFile
      BY <3>1, ConstantsAssumption DEF ConstantsAssumption, File
    <3> QED
      BY <3>1, <3>2 DEF File
  <2>2. CASE ~IsOwnFile(f, p)
    BY <2>2 DEF Filled
  <2> QED
    BY <2>1, <2>2
<1>2. lockFile \in File \cup {NoFile} /\ \A q \in Proc : aside[q] \in File \cup {NoFile}
  BY DEF LockTypeOK
<1>3. OneTakesOver'
  BY DEF PairInv, OneTakesOver, TakingOver
<1>4. UnwrittenIsClaimed'
  <2>1. ASSUME NEW f \in File \cup {NoFile}, Written(f),
               Filled(f, p) # NoFile, ~Filled(f, p).whole
        PROVE  /\ pc'[Filled(f, p).owner] \in {"write", "claimWrite"}
               /\ Filled(f, p).nonce = nonce[Filled(f, p).owner]
    <3>1. /\ f # NoFile /\ f.owner \in Proc /\ ~f.whole /\ ~IsOwnFile(f, p)
          /\ Filled(f, p).owner = f.owner /\ Filled(f, p).nonce = f.nonce
      BY <1>1, <2>1 DEF File
    <3>2. pc[f.owner] \in {"write", "claimWrite"} /\ f.nonce = nonce[f.owner]
      BY <2>1, <3>1 DEF Written
    <3>3. f.owner # p
      BY <3>1, <3>2 DEF IsOwnFile
    <3> QED
      BY <3>1, <3>2, <3>3
  <2>2. Written(lockFile)'
    BY <1>2, <2>1 DEF PairInv, UnwrittenIsClaimed, Written
  <2>3. ASSUME NEW q \in Proc PROVE Written(aside[q])'
    <3>1. CASE aside'[q] = Filled(aside[q], p)
      BY <1>2, <2>1, <3>1 DEF PairInv, UnwrittenIsClaimed, Written
    <3>2. CASE aside'[q] = NoFile
      BY <3>2 DEF Written
    <3> QED
      BY <3>1, <3>2
  <2> QED
    BY <2>2, <2>3 DEF UnwrittenIsClaimed
<1>5. RivalsFileMoves'
  BY <1>1, <1>2 DEF PairInv, RivalsFileMoves
<1>6. HolderKeepsPath'
  BY <1>1, <1>2 DEF PairInv, HolderKeepsPath, WillReturn, Releasing
<1> QED
  BY <1>3, <1>4, <1>5, <1>6 DEF PairInv

\* A file of p is new at the lock path: empty, as p's claim begins, or the whole
\* record of a heartbeat.
LEMMA PairPlaces ==
  ASSUME PairInv, LockTypeOK, NEW p \in Proc,
         \A q \in Proc : q # p => pc'[q] = pc[q],
         UNCHANGED <<aside, nonce>>,
         lockFile' # NoFile, lockFile'.owner = p, lockFile'.nonce = nonce[p],
         \/ /\ lockFile = NoFile
            /\ pc[p] \in {"create", "claim"} /\ pc'[p] \in {"write", "claimWrite"}
            /\ \A q \in Proc : pc[q] \in Releasing => q = p
         \/ pc[p] = "held" /\ pc'[p] = "held" /\ lockFile'.whole
  PROVE  PairInv'
<1>1. OneTakesOver'
  BY DEF PairInv, OneTakesOver, TakingOver
<1>2. UnwrittenIsClaimed'
  BY DEF PairInv, UnwrittenIsClaimed, Written, LockTypeOK, File
<1>3. RivalsFileMoves'
  <2>1. ASSUME NEW q \in Proc, pc'[q] = "moveAside" PROVE q # p
    BY <2>1
  <2> QED
    BY <2>1 DEF PairInv, RivalsFileMoves
<1>4. HolderKeepsPath'
  <2>1. \A q \in Proc : pc'[q] \in Releasing => q = p
    BY OneReleases DEF Releasing
  <2> QED
    BY <2>1 DEF HolderKeepsPath
<1> QED
  BY <1>1, <1>2, <1>3, <1>4 DEF PairInv

LEMMA PairInvStep ==
  ASSUME NEW a \in Proc, NEW b \in Proc, Proc = {a, b},
         LockInv, Calm, PairInv, Calm', [Next]_vars
  PROVE  PairInv'
<1> USE DEF LockInv, Step
<1>1. ASSUME NEW p \in Proc, Begin(p) PROVE PairInv'
  <2>1. /\ \A q \in Proc : q # p => nonce'[q] = nonce[q] /\ pc'[q] = pc[q]
        /\ pc'[p] = "create" /\ pc[p] = "idle"
        /\ UNCHANGED <<lockFile, aside>>
    BY <1>1 DEF Begin, LockTypeOK
  <2> QED
    BY <2>1, PairElsewhere DEF TakingOver, Releasing
<1>2. ASSUME NEW p \in Proc, Create(p) PROVE PairInv'
  <2>1. CASE lockFile = NoFile
    <3>1. /\ lockFile' = EmptyFile(p)
          /\ \A q \in Proc : q # p => pc'[q] = pc[q]
          /\ pc[p] = "create" /\ pc'[p] = "write"
          /\ UNCHANGED <<aside, nonce>>
      BY <1>2, <2>1 DEF Create, LockTypeOK
    <3>2. lockFile' # NoFile /\ lockFile'.owner = p /\ lockFile'.nonce = nonce[p]
      BY <3>1, EmptyIsFile DEF EmptyFile
    <3>3. \A q \in Proc : pc[q] \in Releasing => q = p
      BY <2>1, <3>1 DEF PairInv, HolderKeepsPath, WillReturn, Releasing, RivalsFileMoves
    <3> QED
      BY <2>1, <3>1, <3>2, <3>3, PairPlaces
  <2>2. CASE lockFile # NoFile
    <3>1. /\ \A q \in Proc : q # p => pc'[q] = pc[q]
          /\ pc[p] = "create" /\ pc'[p] = "read"
          /\ UNCHANGED <<lockFile, aside, nonce>>
      BY <1>2, <2>2 DEF Create, LockTypeOK
    <3> QED
      BY <3>1, PairElsewhere DEF TakingOver, Releasing
  <2> QED
    BY <2>1, <2>2
<1>3. ASSUME NEW p \in Proc, Write(p) PROVE PairInv'
  BY <1>3, PairWrites DEF Write, WriteRecord, LockTypeOK, Calm
<1>4. ASSUME NEW p \in Proc, Confirm(p) PROVE PairInv'
  <2>1. /\ \A q \in Proc : q # p => pc'[q] = pc[q]
        /\ pc[p] = "confirm" /\ pc'[p] \in {"held", "idle"}
        /\ pc'[p] = "held" => IsOwnFile(lockFile, p)
        /\ UNCHANGED <<lockFile, aside, nonce>>
    BY <1>4 DEF Confirm, IsOwnRecord, LockTypeOK
  <2>2. CASE pc'[p] = "idle"
    BY <2>1, <2>2, PairElsewhere DEF TakingOver, Releasing
  <2>3. CASE pc'[p] = "held"
    <3>1. OneTakesOver'
      BY <2>1, <2>3 DEF PairInv, OneTakesOver, TakingOver
    <3>2. UnwrittenIsClaimed'
      BY <2>1, <2>3 DEF PairInv, UnwrittenIsClaimed, Written, LockTypeOK, File
    <3>3. RivalsFileMoves'
      BY <2>1, <2>3 DEF PairInv, RivalsFileMoves
    <3>4. HolderKeepsPath'
      BY <2>1, <2>3 DEF PairInv, HolderKeepsPath, WillReturn, IsOwnFile
    <3> QED
      BY <3>1, <3>2, <3>3, <3>4 DEF PairInv
  <2> QED
    BY <2>1, <2>2, <2>3
<1>5. ASSUME NEW p \in Proc, Read(p) PROVE PairInv'
  <2>1. /\ \A q \in Proc : q # p => pc'[q] = pc[q]
        /\ pc[p] = "read" /\ pc'[p] \in {"idle", "probe", "moveAside"}
        /\ pc'[p] = "moveAside" => lockFile # NoFile /\ ~lockFile.whole
        /\ UNCHANGED <<lockFile, aside, nonce>>
    BY <1>5 DEF Read, isStale, LockTypeOK
  <2>2. CASE pc'[p] # "moveAside"
    BY <2>1, <2>2, PairElsewhere DEF TakingOver, Releasing
  <2>3. CASE pc'[p] = "moveAside"
    <3>1. lockFile.owner \in Proc /\ pc[lockFile.owner] \in {"write", "claimWrite"}
      BY <2>1, <2>3 DEF PairInv, UnwrittenIsClaimed, Written, LockTypeOK, File
    <3>2. lockFile.owner # p /\ \A q \in Proc : q # p => q = lockFile.owner
      BY <2>1, <3>1
    <3>3. OneTakesOver'
      BY <2>1, <2>3, <3>1, <3>2 DEF PairInv, OneTakesOver, TakingOver
    <3>4. UnwrittenIsClaimed'
      BY <2>1, <2>3 DEF PairInv, UnwrittenIsClaimed, Written, LockTypeOK, File
    <3>5. RivalsFileMoves'
      BY <2>1, <2>3, <3>2 DEF PairInv, RivalsFileMoves
    <3>6. HolderKeepsPath'
      BY <2>1, <2>3 DEF PairInv, HolderKeepsPath, WillReturn, Releasing
    <3> QED
      BY <3>3, <3>4, <3>5, <3>6 DEF PairInv
  <2> QED
    BY <2>2, <2>3
<1>6. ASSUME NEW p \in Proc, Probe(p) PROVE PairInv'
  <2>1. /\ \A q \in Proc : q # p => pc'[q] = pc[q]
        /\ pc[p] = "probe" /\ pc'[p] \in {"idle", "moveAside"}
        /\ pc'[p] = "moveAside" => seen[p].owner \notin alive
        /\ UNCHANGED <<lockFile, aside, nonce>>
    BY <1>6 DEF Probe, LockTypeOK
  <2>2. seen[p] \in File
    BY <2>1 DEF JudgedIsDead, LockTypeOK
  <2>3. pc'[p] = "idle"
    BY <2>1, <2>2 DEF Calm, File
  <2> QED
    BY <2>1, <2>3, PairElsewhere DEF TakingOver, Releasing
<1>7. ASSUME NEW p \in Proc, MoveAside(p) PROVE PairInv'
  <2>1. CASE lockFile = NoFile
    <3>1. /\ \A q \in Proc : q # p => pc'[q] = pc[q]
          /\ pc[p] = "moveAside" /\ pc'[p] = "create"
          /\ UNCHANGED <<lockFile, aside, nonce>>
      BY <1>7, <2>1 DEF MoveAside, LockTypeOK
    <3> QED
      BY <3>1, PairElsewhere DEF TakingOver, Releasing
  <2>2. CASE lockFile # NoFile
    <3>1. /\ \A q \in Proc : q # p => pc'[q] = pc[q] /\ aside'[q] = aside[q]
          /\ pc[p] = "moveAside" /\ pc'[p] = "compare"
          /\ lockFile' = NoFile /\ aside'[p] = lockFile
          /\ UNCHANGED nonce
      BY <1>7, <2>2 DEF MoveAside, LockTypeOK
    <3>2. OneTakesOver'
      BY <3>1 DEF PairInv, OneTakesOver, TakingOver
    <3>3. UnwrittenIsClaimed'
      BY <3>1 DEF PairInv, UnwrittenIsClaimed, Written, LockTypeOK, File
    <3>4. RivalsFileMoves'
      BY <2>2, <3>1 DEF PairInv, RivalsFileMoves
    <3>5. HolderKeepsPath'
      <4> SUFFICES ASSUME NEW h \in Proc, pc'[h] \in Releasing PROVE WillReturn(h, p)'
        BY <3>1 DEF HolderKeepsPath
      <4>1. h # p /\ pc[h] \in Releasing /\ lockFile.owner = h
        BY <2>2, <3>1 DEF PairInv, HolderKeepsPath, Releasing
      <4>2. lockFile.whole
        BY <2>2, <4>1 DEF PairInv, UnwrittenIsClaimed, Written, Releasing
      <4> QED
        BY <2>2, <3>1, <4>1, <4>2 DEF WillReturn
    <3> QED
      BY <3>2, <3>3, <3>4, <3>5 DEF PairInv
  <2> QED
    BY <2>1, <2>2
<1>8. ASSUME NEW p \in Proc, Compare(p) PROVE PairInv'
  <2>1. /\ \A q \in Proc : q # p => pc'[q] = pc[q]
        /\ pc[p] = "compare"
        /\ pc'[p] = IF isSameLockFile(aside[p], seen[p]) THEN "claim" ELSE "restore"
        /\ UNCHANGED <<lockFile, aside, nonce>>
    BY <1>8 DEF Compare, LockTypeOK
  <2>2. seen[p] \in File /\ seen[p].owner \in alive
    BY <2>1 DEF JudgedIsDead, LockTypeOK, Calm, File
  <2>3. ~seen[p].whole
    BY <2>1, <2>2 DEF JudgedIsDead, LockTypeOK
  <2>4. CASE ~aside[p].whole
    <3>1. pc'[p] = "claim"
      BY <2>1, <2>3, <2>4 DEF isSameLockFile
    <3> QED
      BY <2>1, <2>4, <3>1, PairElsewhere DEF TakingOver, Releasing
  <2>5. CASE aside[p].whole
    <3>1. pc'[p] = "restore"
      BY <2>1, <2>3, <2>5 DEF isSameLockFile
    <3>2. OneTakesOver'
      BY <2>1, <3>1 DEF PairInv, OneTakesOver, TakingOver
    <3>3. UnwrittenIsClaimed'
      BY <2>1, <3>1 DEF PairInv, UnwrittenIsClaimed, Written, LockTypeOK, File
    <3>4. RivalsFileMoves'
      BY <2>1, <3>1 DEF PairInv, RivalsFileMoves
    <3>5. HolderKeepsPath'
      BY <2>1, <3>1 DEF PairInv, HolderKeepsPath, WillReturn, Releasing
    <3> QED
      BY <3>2, <3>3, <3>4, <3>5 DEF PairInv
  <2> QED
    BY <2>4, <2>5
<1>9. ASSUME NEW p \in Proc, Restore(p) PROVE PairInv'
  <2>1. /\ \A q \in Proc : q # p => pc'[q] = pc[q] /\ aside'[q] = aside[q]
        /\ pc[p] = "restore" /\ pc'[p] = "idle"
        /\ lockFile' = aside[p] /\ aside'[p] = NoFile
        /\ UNCHANGED nonce
    BY <1>9 DEF Restore, PutBack, LockTypeOK, Calm
  <2>2. aside[p] # NoFile /\ aside[p].owner # p
    BY <2>1 DEF PairInv, RivalsFileMoves
  <2>3. OneTakesOver'
    BY <2>1 DEF PairInv, OneTakesOver, TakingOver
  <2>4. UnwrittenIsClaimed'
    BY <2>1 DEF PairInv, UnwrittenIsClaimed, Written, LockTypeOK, File
  <2>5. RivalsFileMoves'
    <3>1. \A q \in Proc : pc'[q] \notin TakingOver
      BY <2>1 DEF PairInv, OneTakesOver, TakingOver
    <3> QED
      BY <3>1 DEF RivalsFileMoves, TakingOver
  <2>6. HolderKeepsPath'
    <3> SUFFICES ASSUME NEW h \in Proc, pc'[h] \in Releasing
                 PROVE  lockFile'.owner = h
      BY <2>1, <2>2 DEF HolderKeepsPath
    <3>1. h # p /\ aside[p] \in File /\ aside[p].owner \in Proc
      BY <2>1, <2>2 DEF Releasing, LockTypeOK, File
    <3> QED
      BY <2>1, <2>2, <3>1
  <2> QED
    BY <2>3, <2>4, <2>5, <2>6 DEF PairInv
<1>10. ASSUME NEW p \in Proc, Claim(p) PROVE PairInv'
  <2>1. CASE lockFile = NoFile
    <3>1. /\ lockFile' = EmptyFile(p)
          /\ \A q \in Proc : q # p => pc'[q] = pc[q]
          /\ pc[p] = "claim" /\ pc'[p] = "claimWrite"
          /\ UNCHANGED <<aside, nonce>>
      BY <1>10, <2>1 DEF Claim, LockTypeOK
    <3>2. lockFile' # NoFile /\ lockFile'.owner = p /\ lockFile'.nonce = nonce[p]
      BY <3>1, EmptyIsFile DEF EmptyFile
    <3>3. \A q \in Proc : pc[q] \in Releasing => q = p
      BY <2>1, <3>1 DEF PairInv, HolderKeepsPath, WillReturn, OneTakesOver, TakingOver
    <3> QED
      BY <2>1, <3>1, <3>2, <3>3, PairPlaces
  <2>2. CASE lockFile # NoFile
    <3>1. /\ \A q \in Proc : q # p => pc'[q] = pc[q] /\ aside'[q] = aside[q]
          /\ pc[p] = "claim" /\ pc'[p] = "idle"
          /\ lockFile' = lockFile /\ aside'[p] = NoFile
          /\ UNCHANGED nonce
      BY <1>10, <2>2 DEF Claim, LockTypeOK
    <3>2. OneTakesOver'
      BY <3>1 DEF PairInv, OneTakesOver, TakingOver
    <3>3. UnwrittenIsClaimed'
      BY <3>1 DEF PairInv, UnwrittenIsClaimed, Written, LockTypeOK, File
    <3>4. RivalsFileMoves'
      BY <3>1 DEF PairInv, RivalsFileMoves
    <3>5. HolderKeepsPath'
      BY <2>2, <3>1 DEF PairInv, HolderKeepsPath, Releasing
    <3> QED
      BY <3>2, <3>3, <3>4, <3>5 DEF PairInv
  <2> QED
    BY <2>1, <2>2
<1>11. ASSUME NEW p \in Proc, ClaimWrite(p) PROVE PairInv'
  <2>1. /\ pc[p] = "claimWrite" /\ pc'[p] = "confirm"
        /\ \A q \in Proc : q # p => pc'[q] = pc[q]
        /\ lockFile' = Filled(lockFile, p)
        /\ \A q \in Proc : aside'[q] = IF q = p THEN NoFile ELSE Filled(aside[q], p)
        /\ UNCHANGED nonce
    BY <1>11 DEF ClaimWrite, LockTypeOK, Calm
  <2> QED
    BY <2>1, PairWrites
<1>12. ASSUME NEW p \in Proc, Heartbeat(p) PROVE PairInv'
  <2>1. PICK beat \in Beat : lockFile' = [owner |-> p, nonce |-> nonce[p], beat |-> beat,
                                      whole |-> TRUE, old |-> FALSE]
    BY <1>12 DEF Heartbeat
  <2>2. pc' = pc /\ pc[p] = "held" /\ UNCHANGED <<aside, nonce>>
    BY <1>12 DEF Heartbeat, LockTypeOK
  <2>3. lockFile' \in File
    BY <2>1 DEF LockTypeOK, File
  <2>4. lockFile' # NoFile /\ lockFile'.owner = p /\ lockFile'.nonce = nonce[p] /\ lockFile'.whole
    BY <2>1, <2>3, ConstantsAssumption DEF ConstantsAssumption
  <2> QED
    BY <2>2, <2>4, PairPlaces
<1>13. ASSUME NEW p \in Proc, Release(p) \/ ReleaseRead(p) PROVE PairInv'
  <2>1. /\ \A q \in Proc : q # p => pc'[q] = pc[q]
        /\ pc[p] \in {"held", "releaseRead"}
        /\ pc'[p] \in {"releaseRead", "remove", "idle"}
        /\ UNCHANGED <<lockFile, aside, nonce>>
    BY <1>13 DEF Release, ReleaseRead, LockTypeOK
  <2> QED
    BY <2>1, PairElsewhere DEF TakingOver, Releasing
<1>14. ASSUME NEW p \in Proc, Remove(p) PROVE PairInv'
  <2>1. /\ \A q \in Proc : q # p => pc'[q] = pc[q]
        /\ pc[p] = "remove" /\ pc'[p] = "idle"
        /\ lockFile' = NoFile
        /\ UNCHANGED <<aside, nonce>>
    BY <1>14 DEF Remove, LockTypeOK
  <2>2. \A q \in Proc : pc'[q] \notin Releasing
    BY <2>1, OneReleases DEF Releasing
  <2>3. OneTakesOver'
    BY <2>1 DEF PairInv, OneTakesOver, TakingOver
  <2>4. UnwrittenIsClaimed'
    BY <2>1 DEF PairInv, UnwrittenIsClaimed, Written, LockTypeOK, File
  <2>5. RivalsFileMoves'
    BY <2>1 DEF PairInv, RivalsFileMoves
  <2>6. HolderKeepsPath'
    BY <2>2 DEF HolderKeepsPath
  <2> QED
    BY <2>3, <2>4, <2>5, <2>6 DEF PairInv
<1>15. ASSUME NEW p \in Proc, Crash(p) PROVE PairInv'
  BY <1>15 DEF Crash, Calm
<1>16. GrowOld => PairInv'
  <2> SUFFICES ASSUME GrowOld PROVE PairInv'
    OBVIOUS
  <2>1. /\ lockFile \in File /\ lockFile' = [lockFile EXCEPT !.old = TRUE]
        /\ UNCHANGED <<aside, nonce, pc>>
    BY DEF GrowOld, LockTypeOK
  <2>2. lockFile' \in File /\ lockFile' # NoFile /\ lockFile # NoFile
    BY <2>1, ConstantsAssumption DEF ConstantsAssumption, File
  <2>3. lockFile'.owner = lockFile.owner /\ lockFile'.nonce = lockFile.nonce
        /\ lockFile'.whole = lockFile.whole
    BY <2>1 DEF File
  <2>4. UnwrittenIsClaimed'
    BY <2>1, <2>2, <2>3 DEF PairInv, UnwrittenIsClaimed, Written
  <2> QED
    BY <2>1, <2>2, <2>3, <2>4 DEF PairInv, OneTakesOver, RivalsFileMoves, HolderKeepsPath, WillReturn
<1>17. UNCHANGED vars => PairInv'
  BY DEF vars, PairInv, OneTakesOver, UnwrittenIsClaimed, Written, RivalsFileMoves,
         HolderKeepsPath, WillReturn
<1> HIDE DEF LockInv, Step
<1> QED
  BY <1>1, <1>2, <1>3, <1>4, <1>5, <1>6, <1>7, <1>8, <1>9, <1>10, <1>11, <1>12, <1>13,
     <1>14, <1>15, <1>16, <1>17, StepCases

LEMMA PairInvInit == Init => PairInv
BY DEF Init, PairInv, OneTakesOver, TakingOver, UnwrittenIsClaimed, Written, RivalsFileMoves,
       HolderKeepsPath, Releasing

\* Nobody comes back to life, and whether a file system fails does not change.
LEMMA CalmBefore == LockInv /\ Calm' /\ [Next]_vars => Calm
<1> SUFFICES ASSUME LockInv, Calm', [Next]_vars PROVE Calm
  OBVIOUS
<1>1. UNCHANGED faulty
  BY DEF Next, AcquireStep, ReleaseStep, Begin, Create, Write, Confirm, Read, Probe, MoveAside,
         Compare, Restore, Claim, ClaimWrite, Heartbeat, Release, ReleaseRead, Remove, Crash,
         GrowOld, Step, vars
<1>2. alive' \subseteq alive
  BY DEF Next, AcquireStep, ReleaseStep, Begin, Create, Write, Confirm, Read, Probe, MoveAside,
         Compare, Restore, Claim, ClaimWrite, Heartbeat, Release, ReleaseRead, Remove, Crash,
         GrowOld, vars
<1> QED
  BY <1>1, <1>2 DEF Calm, LockInv, LockTypeOK

\* Of two windows at most one holds the lock where writes succeed: whatever is
\* judged stale, moved aside, compared and put back, while both live or after one
\* has died (repositoryLock.ts:69-151, 199-232).
THEOREM PairExcludes ==
  ASSUME NEW a \in Proc, NEW b \in Proc, Proc = {a, b}
  PROVE  Spec => []LockIsExclusive
<1> DEFINE Inv == LockInv /\ (Calm => PairInv)
<1>1. Init => Inv
  BY LockInvInit, PairInvInit
<1>2. Inv /\ LockTypeOK' /\ [Next]_vars => Inv'
  <2> SUFFICES ASSUME Inv, LockTypeOK', [Next]_vars PROVE Inv'
    OBVIOUS
  <2>1. LockInv'
    BY LockInvStep
  <2>2. ASSUME Calm' PROVE PairInv'
    <3>1. Calm
      BY <2>2, CalmBefore
    <3> QED
      BY <2>2, <3>1, PairInvStep
  <2> QED
    BY <2>1, <2>2
<1>3. Inv => LockIsExclusive
  <2> SUFFICES ASSUME Inv, ~faulty, NEW p \in Proc, NEW q \in Proc, Holds(p), Holds(q)
               PROVE  p = q
    BY DEF LockIsExclusive, MutualExclusion, LockInv
  <2>1. CASE Calm
    BY <2>1, OneReleases DEF Holds, Releasing
  <2>2. CASE ~Calm
    <3>1. PICK d \in Proc : d \notin alive
      BY <2>2 DEF Calm, LockInv, LockTypeOK
    <3> QED
      BY <3>1 DEF Holds
  <2> QED
    BY <2>1, <2>2
<1> HIDE DEF Inv
<1> QED
  BY <1>1, <1>2, <1>3, TypeCorrect, PTL DEF Spec

=============================================================================
