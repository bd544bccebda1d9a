---------------------------- MODULE ShelvingProofs ----------------------------
(***************************************************************************)
(* Shelving, for any number of files, changes, entries and bounds: the     *)
(* transaction that takes files out of the worktree and rolls them back    *)
(* (ShelfReverter), the merge sessions (ShelfConflictSession), the squash  *)
(* (SquashCommits) and the commit of checked files (PanelCommit).          *)
(***************************************************************************)
EXTENDS Shelving, ShelfServiceProofs, SequenceTheorems

\* Where each file stands while the transaction goes forward: those before `at` are done, it is at
\* `at`, and those after it are as they were.
Underway == revertPc \in {"move", "journalMoved", "settle", "create", "fill", "journalWritten",
                    "checkWritten", "writeIndex", "readIndex", "journalIndex", "recheck"}

\* The progress of a path in the journal, and the entry beside it, are what recovery goes by.
Progressed(p) == revertJournal # None /\ revertJournal.pathProgress[p] # None

\* A path as it was before the transaction.
AsItWas(p) ==
  target[p] = original[p].target /\ index[p] = original[p].index /\ revertRecovery[p] = "absent"

\* A path as the transaction leaves it.
AsTheBase(p) ==
  /\ target[p] = IF inBase[p] THEN "base" ELSE "absent"
  /\ index[p] = "base" /\ revertRecovery[p] = original[p].target

\* There is a journal from the first step on; it is committed by the last but one, and nothing is
\* rolled back after that.
JournalMatches ==
  /\ revertPc = "begin" => revertJournal = None
  /\ revertPc \in Reverter!Forward \ {"begin"} => revertJournal # None
  /\ revertPc \in Reverter!Forward \ {"begin", "flush"} =>
       revertJournal.state = "shelvePendingRevert"
  /\ revertPc = "flush" => revertJournal.state = "shelved"
  /\ revertJournal # None /\ revertJournal.state # "shelvePendingRevert" =>
       revertPc \in {"flush", "idle"}

\* The files are taken in order: those that are moved and journaled are those the transaction has
\* come to.
InOrderAt(p) ==
  /\ p \in moved <=> (p < at \/ (p = at /\ Underway /\ revertPc # "move"))
  /\ Progressed(p) <=> (p < at \/ (p = at /\ Underway))
  /\ Progressed(p) => entry[p] # None
  /\ revertPc = "move" /\ p = at =>
       revertJournal.pathProgress[p] = [phase |-> "planned", entry |-> entry[p]]
  /\ revertPc \in {"checkWritten", "writeIndex", "readIndex", "journalIndex", "recheck"}
       /\ p = at =>
       revertJournal.pathProgress[p].phase = "written"
InOrder ==
  revertPc \in Reverter!Forward =>
    /\ (at = fileCount + 1) <=> (revertPc \in {"commit", "flush"})
    /\ revertPc = "begin" => at = 1
    /\ \A p \in Reverter!Path : InOrderAt(p)

\* What is rolled back was moved, and what was moved is journaled.
RollsBack ==
  revertPc \in Reverter!Backward =>
    /\ todo \cup retained \subseteq moved /\ (revertPc = "conclude" <=> todo = {})
    /\ \A p \in moved : Progressed(p) /\ entry[p] # None

\* What the user had is at its path until it is in recovery.
KeptAt(p) ==
  /\ original[p].target \in {"absent", "mine"}
  /\ original[p].target = "mine" =>
       revertRecovery[p] = "mine" \/ (target[p] = "mine" /\ revertRecovery[p] = "absent")

\* What an entry, in memory or in the journal, says of its path.
Tells(e, p) ==
  /\ ~e.hadOriginal => original[p].target = "absent" /\ revertRecovery[p] = "absent"
  /\ p \notin revertTouched => /\ e.originalIndex = original[p].index
                        /\ e.hadOriginal = (original[p].target # "absent")

\* What no journal names is as it was; what is in recovery came from the path; and the index of a
\* path is left alone until its file is written.
RecordedAt(p) ==
  /\ KeptAt(p)
  /\ entry[p] # None => Tells(entry[p], p)
  /\ Progressed(p) => Tells(revertJournal.pathProgress[p].entry, p)
  /\ ~Progressed(p) => revertRecovery[p] = "absent" /\ (p \notin revertTouched => AsItWas(p))
  /\ p \notin revertTouched /\ revertRecovery[p] # "absent" =>
       revertRecovery[p] = original[p].target
  /\ p \notin revertTouched /\ Progressed(p)
       /\ revertJournal.pathProgress[p].phase \in {"planned", "moved"} =>
       index[p] = original[p].index
Recorded == \A p \in Reverter!Path : RecordedAt(p)

\* The file the transaction is at, unless it was touched.
Advancing ==
  /\ revertPc \in Reverter!Forward => \A p \in Reverter!Path : p < at /\ p \notin revertTouched =>
       AsTheBase(p)
  /\ revertPc \in Reverter!Forward /\ revertPc = "move" =>
       revertRecovery[at] = "absent" /\ (at \notin revertTouched =>
         AsItWas(at) /\ entry[at].hadOriginal = (original[at].target # "absent"))
  /\ Underway /\ revertPc # "move" /\ at \notin revertTouched =>
       /\ revertRecovery[at] = original[at].target
       /\ revertPc \in {"journalMoved", "settle", "create", "fill", "journalWritten",
            "checkWritten",
                  "writeIndex"} => index[at] = original[at].index
       /\ revertPc \in {"journalIndex", "readIndex", "recheck"} => index[at] = "base"
       /\ revertPc \in {"journalMoved", "settle", "create"} => target[at] = "absent"
       /\ revertPc = "fill" => target[at] = "partial" /\ inBase[at]
       /\ revertPc \in {"journalWritten", "checkWritten", "writeIndex", "readIndex", "journalIndex",
                  "recheck"} => target[at] = IF inBase[at] THEN "base" ELSE "absent"

\* What has been rolled back is as it was, and the file that is rolled back is on its way there.
Returning ==
  revertPc \in Reverter!Backward =>
    /\ \A p \in Reverter!Path \ (todo \cup retained) :
         revertRecovery[p] = "absent" /\ (p \notin revertTouched => AsItWas(p))
    /\ revertPc \in {"unindex", "unwrite", "vacant", "restore"}
         /\ entry[Reverter!Last].hadOriginal =>
         revertRecovery[Reverter!Last] # "absent"
    /\ revertPc \in {"vacant", "restore"} => entry[Reverter!Last].hadOriginal
    /\ revertPc # "conclude" /\ Reverter!Last \notin revertTouched =>
         /\ revertPc \in {"unindex", "unwrite"} =>
              target[Reverter!Last] = entry[Reverter!Last].written
         /\ revertPc \in {"vacant", "restore"} =>
              index[Reverter!Last] = original[Reverter!Last].index

CommittedIsDone ==
  revertJournal # None /\ revertJournal.state = "shelved" =>
    \A p \in Reverter!Path \ revertTouched : AsTheBase(p)

ReverterInv ==
  /\ Reverter!TypeOK /\ JournalMatches /\ InOrder /\ RollsBack
  /\ Recorded /\ Advancing /\ Returning /\ CommittedIsDone

LEMMA LeastElement ==
  ASSUME NEW S \in SUBSET Nat, S # {}
  PROVE  \E m \in S : \A n \in S : m <= n
<1> DEFINE R == OpToRel(<, Nat)
<1>1. IsWellFoundedOn(R, Nat)
  BY NatLessThanWellFounded
<1>2. \A x, y \in Nat : <<x, y>> \in R <=> x < y
  BY DEF OpToRel
<1> HIDE DEF R
<1>3. PICK m \in S : \A n \in S : ~(<<n, m>> \in R)
  BY <1>1, WFMin
<1>4. ASSUME NEW n \in S PROVE m <= n
  <2>1. ~(n < m)
    BY <1>2, <1>3
  <2> QED
    BY <2>1
<1> QED
  BY <1>4

\* The path rolled back next is the last of those to be rolled back.
LEMMA LastInTodo == ASSUME Reverter!TypeOK, todo # {}
PROVE Reverter!Last \in todo /\ Reverter!Last \in Reverter!Path
<1> DEFINE bounds == {n \in Nat : \A q \in todo : q <= n}
<1>1. fileCount \in Nat /\ todo \subseteq 1..fileCount
  BY ReverterAssumption DEF Reverter!TypeOK, Reverter!Path
<1>2. fileCount \in bounds
  BY <1>1
<1>3. PICK m \in bounds : \A n \in bounds : m <= n
  <2>1. bounds \in SUBSET Nat /\ bounds # {}
    BY <1>2
  <2> HIDE DEF bounds
  <2> QED
    BY <2>1, LeastElement
<1>4. m \in todo
  <2> SUFFICES ASSUME m \notin todo PROVE FALSE
    OBVIOUS
  <2>1. PICK q \in todo : q \in 1..fileCount /\ q <= m
    BY <1>1, <1>3
  <2>2. m - 1 \in Nat
    BY <1>1, <1>3, <2>1
  <2>3. ASSUME NEW r \in todo PROVE r <= m - 1
    <3>1. r \in Nat /\ m \in Nat /\ r <= m /\ r # m
      BY <1>1, <1>3
    <3> QED
      BY <3>1
  <2>4. m - 1 \in bounds
    BY <2>2, <2>3
  <2> QED
    BY <1>3, <2>4
<1>5. \E p \in todo : \A q \in todo : q <= p
  BY <1>3, <1>4
<1> QED
  BY <1>1, <1>5 DEF Reverter!Last, Reverter!Path

\* While the transaction is at a file, its journal is there; and once it is underway, its entry.
LEMMA Underlying ==
  ASSUME ReverterInv
  PROVE  /\ revertPc \in {"plan", "move", "journalMoved", "settle", "create", "fill",
              "journalWritten",
                     "checkWritten", "writeIndex", "readIndex", "journalIndex", "recheck"} =>
              at \in Reverter!Path /\ revertJournal # None /\ revertJournal \in Reverter!Journal
         /\ Underway => entry[at] \in Reverter!MovedPath /\ entry[at] # None
<1>1. at \in 1..fileCount + 1 /\ fileCount \in Nat
        /\ entry \in [Reverter!Path -> Reverter!MovedPath \cup {None}]
  BY ReverterAssumption DEF ReverterInv, Reverter!TypeOK
<1>2. ASSUME revertPc \in {"plan", "move", "journalMoved", "settle", "create", "fill",
             "journalWritten",
                     "checkWritten", "writeIndex", "readIndex", "journalIndex", "recheck"}
      PROVE  at \in Reverter!Path /\ revertJournal # None /\ revertJournal \in Reverter!Journal
  BY <1>1, <1>2
  DEF ReverterInv, Reverter!TypeOK, InOrder, JournalMatches, Reverter!Forward, Reverter!Path
<1>3. ASSUME Underway PROVE entry[at] \in Reverter!MovedPath /\ entry[at] # None
  <2>1. at \in Reverter!Path /\ revertPc \in Reverter!Forward
    BY <1>2, <1>3 DEF Underway, Reverter!Forward
  <2>2. InOrderAt(at)
    BY <2>1 DEF ReverterInv, InOrder
  <2> QED
    BY <1>1, <1>3, <2>1, <2>2 DEF InOrderAt
<1> QED
  BY <1>2, <1>3

\* A step within the file at hand keeps the order of the others.
LEMMA StaysInOrder ==
  ASSUME ReverterInv, revertPc \in Reverter!Forward, revertPc' \in Reverter!Forward \ {"begin"},
         at \in Reverter!Path, at' = at,
         revertPc \notin {"commit", "flush"}, revertPc' \notin {"commit", "flush"},
           UNCHANGED fileCount,
         \A p \in Reverter!Path \ {at} :
           /\ p \in moved' <=> p \in moved
           /\ Progressed(p)' <=> Progressed(p)
           /\ entry'[p] = entry[p],
         InOrderAt(at)'
  PROVE  InOrder'
<1>1. Reverter!Path' = Reverter!Path
  BY DEF Reverter!Path
<1>2. ASSUME NEW p \in Reverter!Path, p # at PROVE InOrderAt(p)'
  BY <1>2 DEF ReverterInv, InOrder, InOrderAt
<1>3. at' # fileCount' + 1
  BY ReverterAssumption DEF ReverterInv, Reverter!TypeOK, Reverter!Path
<1> QED
  BY <1>1, <1>2, <1>3 DEF InOrder

\* What is forgotten keeps its types.
LEMMA ForgottenTypes ==
  ASSUME Reverter!TypeOK, Reverter!Forgotten, UNCHANGED fileCount
  PROVE  /\ Reverter!Path' = Reverter!Path /\ at' = 1 /\ at' \in 1..fileCount + 1 /\ moved' = {}
         /\ entry' \in [Reverter!Path -> Reverter!MovedPath \cup {None}]
              /\ \A p \in Reverter!Path : entry'[p] = None
         /\ expectedIndex' = index /\ todo' = {} /\ retained' = {} /\ revertResuming' = FALSE
BY ReverterAssumption DEF Reverter!TypeOK, Reverter!Forgotten, Reverter!Path

\* A journal stays one when it becomes a ghost.
LEMMA GhostOf ==
  ASSUME Reverter!TypeOK, revertJournal # None, NEW next,
         next \in {revertJournal, [revertJournal EXCEPT !.state = "ghost"]}
  PROVE  /\ next \in Reverter!Journal /\ next # None
         /\ next.pathProgress = revertJournal.pathProgress
         /\ next.state \in {revertJournal.state, "ghost"}
<1>1. revertJournal \in Reverter!Journal
  BY DEF Reverter!TypeOK
<1>2. next \in Reverter!Journal
  BY <1>1 DEF Reverter!Journal
<1>3. next # None
  BY <1>2, ReverterAssumption DEF Reverter!Journal, Reverter!Path, Reverter!TypeOK
<1> QED
  BY <1>1, <1>2, <1>3 DEF Reverter!Journal

\* The path that is rolled back was moved, and its entry tells how it was.
LEMMA Rolling ==
  ASSUME ReverterInv, revertPc \in Reverter!Backward \ {"conclude"}
  PROVE  /\ Reverter!Last \in todo /\ Reverter!Last \in Reverter!Path /\ Reverter!Last \in moved
         /\ Progressed(Reverter!Last) /\ RecordedAt(Reverter!Last)
         /\ entry[Reverter!Last] \in Reverter!MovedPath /\ entry[Reverter!Last] # None
         /\ Tells(entry[Reverter!Last], Reverter!Last)
<1>1. todo # {} /\ todo \subseteq moved
  BY DEF ReverterInv, RollsBack
<1>2. Reverter!Last \in todo /\ Reverter!Last \in Reverter!Path
  BY <1>1, LastInTodo DEF ReverterInv
<1>3. Reverter!Last \in moved /\ Progressed(Reverter!Last) /\ entry[Reverter!Last] # None
        /\ RecordedAt(Reverter!Last)
  BY <1>1, <1>2 DEF ReverterInv, RollsBack, Recorded
<1> QED
  BY <1>2, <1>3 DEF RecordedAt, ReverterInv, Reverter!TypeOK

\* A path leaves the rollback restored or retained, and the others stay as they were.
LEMMA Settling ==
  ASSUME ReverterInv, revertPc \in Reverter!Backward \ {"conclude"},
         NEW keep \in SUBSET {Reverter!Last}, Reverter!Settled(keep),
         UNCHANGED fileCount
  PROVE  /\ todo' = todo \ {Reverter!Last} /\ todo' \in SUBSET Reverter!Path
         /\ retained' \in SUBSET Reverter!Path
         /\ todo' \cup retained' \subseteq todo \cup retained
         /\ Reverter!Path \ (todo' \cup retained') \subseteq
              (Reverter!Path \ (todo \cup retained)) \cup ({Reverter!Last} \ keep)
         /\ revertPc' \in {"check", "conclude"}
         /\ UNCHANGED <<Reverter!memory, revertResuming, revertJournal>>
         /\ RollsBack'
<1>1. Reverter!Last \in todo /\ Reverter!Last \in Reverter!Path
  BY Rolling
<1>2. /\ todo' = todo \ {Reverter!Last} /\ retained' = retained \cup keep
      /\ revertPc' \in {"check", "conclude"}
      /\ UNCHANGED <<Reverter!memory, revertResuming, revertJournal>>
      /\ revertPc' = "conclude" <=> todo = {Reverter!Last}
  BY DEF Reverter!Settled
<1>3. /\ todo \cup retained \subseteq moved /\ todo \in SUBSET Reverter!Path
      /\ retained \in SUBSET Reverter!Path
      /\ \A p \in moved : Progressed(p) /\ entry[p] # None
  BY DEF ReverterInv, RollsBack, Reverter!TypeOK
<1>4. RollsBack'
  BY <1>1, <1>2, <1>3 DEF RollsBack, Reverter!memory, Progressed
<1> QED
  BY <1>1, <1>2, <1>3, <1>4

\* What is recorded of a path holds on while nothing of it changes.
LEMMA RecordedFrame ==
  ASSUME NEW p \in Reverter!Path, RecordedAt(p), UNCHANGED original,
         target'[p] = target[p], revertRecovery'[p] = revertRecovery[p], index'[p] = index[p],
         entry'[p] \in {None, entry[p]}, p \in revertTouched' <=> p \in revertTouched,
         Progressed(p)' <=> Progressed(p),
         Progressed(p) => revertJournal'.pathProgress[p] = revertJournal.pathProgress[p]
  PROVE  RecordedAt(p)'
BY DEF RecordedAt, KeptAt, Tells, AsItWas

LEMMA ProgressWritten ==
  ASSUME Reverter!TypeOK, revertJournal # None, at \in Reverter!Path,
         NEW step \in {"planned", "moved", "written", "reverted"}, NEW e \in Reverter!MovedPath,
         revertJournal' = [revertJournal EXCEPT !.pathProgress[at] = [phase |-> step, entry |-> e]]
  PROVE  /\ revertJournal' \in Reverter!Journal /\ revertJournal' # None
         /\ revertJournal'.state = revertJournal.state
         /\ revertJournal'.pathProgress[at] = [phase |-> step, entry |-> e]
         /\ [phase |-> step, entry |-> e] # None
         /\ \A p \in Reverter!Path \ {at} : revertJournal'.pathProgress[p] = revertJournal.pathProgress[p]
<1>1. [phase |-> step, entry |-> e] \in Reverter!Progress
  BY DEF Reverter!Progress
<1>2. /\ revertJournal \in Reverter!Journal
      /\ revertJournal' = [revertJournal EXCEPT !.pathProgress =
                       [revertJournal.pathProgress EXCEPT ![at] = [phase |-> step, entry |-> e]]]
  BY DEF Reverter!TypeOK
<1>3. [revertJournal.pathProgress EXCEPT ![at] = [phase |-> step, entry |-> e]]
        \in [Reverter!Path -> Reverter!Progress \cup {None}]
  BY <1>1, <1>2 DEF Reverter!Journal
<1>4. revertJournal' \in Reverter!Journal
  BY <1>2, <1>3 DEF Reverter!Journal
<1>5. revertJournal' # None
  BY <1>4, ReverterAssumption DEF Reverter!Journal, Reverter!TypeOK, Reverter!Path
<1> QED
  BY <1>1, <1>2, <1>4, <1>5, ReverterAssumption DEF Reverter!Journal

LEMMA BeginKeeps == ASSUME ReverterInv, Reverter!Begin PROVE ReverterInv'
<1>0. Reverter!Path' = Reverter!Path /\ Reverter!Journal' = Reverter!Journal
        /\ UNCHANGED <<fileCount, inBase, original>>
  BY DEF Reverter!Begin, Reverter!world, Reverter!given, Reverter!Path, Reverter!Journal
<1>a. /\ revertJournal' \in Reverter!Journal /\ revertJournal' # None
           /\ revertJournal'.state = "shelvePendingRevert"
      /\ \A p \in Reverter!Path : revertJournal'.pathProgress[p] = None
  <2>1. revertJournal' \in Reverter!Journal
    BY DEF Reverter!Begin, Reverter!Journal
  <2> QED
    BY <2>1, ReverterAssumption
    DEF Reverter!Begin, Reverter!Journal, Reverter!Path, ReverterInv, Reverter!TypeOK
<1>1. Reverter!TypeOK'
  BY <1>0, <1>a, ReverterAssumption
  DEF ReverterInv, Reverter!TypeOK, Reverter!Path, Reverter!Content, Reverter!IndexEntry,
      Reverter!Journal, Reverter!Progress, Reverter!MovedPath, Reverter!Forward, Reverter!Backward,
      InOrder, InOrderAt, Underway, Progressed, RollsBack, Reverter!Begin, Reverter!Go,
      Reverter!world, Reverter!rollback, Reverter!outside, Reverter!given
<1>2. JournalMatches'
  BY <1>0, <1>a, ReverterAssumption
  DEF ReverterInv, JournalMatches, Reverter!Forward, Reverter!Begin, Reverter!Go, Reverter!Path,
      Reverter!world, Reverter!rollback, Reverter!outside, Reverter!given
<1>3. InOrder'
  BY <1>0, <1>a, ReverterAssumption
  DEF ReverterInv, InOrder, Reverter!Forward, Reverter!Path, InOrderAt, Underway, Progressed,
      Reverter!TypeOK, Reverter!Content, Reverter!IndexEntry, Reverter!Journal, Reverter!Progress,
      Reverter!MovedPath, Reverter!Backward, JournalMatches, Reverter!Begin, Reverter!Go,
      Reverter!world, Reverter!rollback, Reverter!outside, Reverter!given
<1>4. RollsBack'
  BY <1>0, <1>a, ReverterAssumption
  DEF ReverterInv, RollsBack, Reverter!Backward, Progressed, Reverter!TypeOK, Reverter!Path,
      Reverter!Content, Reverter!IndexEntry, Reverter!Journal, Reverter!Progress,
      Reverter!MovedPath, Reverter!Forward, InOrder, InOrderAt, Underway, JournalMatches,
      Reverter!Begin, Reverter!Go, Reverter!world, Reverter!rollback, Reverter!outside,
      Reverter!given
<1>5. Recorded'
  BY <1>0, <1>a, ReverterAssumption
  DEF ReverterInv, Recorded, Reverter!Path, RecordedAt, KeptAt, Tells, Progressed, AsItWas,
      Reverter!TypeOK, Reverter!Content, Reverter!IndexEntry, Reverter!Journal, Reverter!Progress,
      Reverter!MovedPath, Reverter!Forward, Reverter!Backward, InOrder, InOrderAt, Underway,
      RollsBack, JournalMatches, Reverter!Begin, Reverter!Go, Reverter!world, Reverter!rollback,
      Reverter!outside, Reverter!given
<1>6. Advancing'
  BY <1>0, <1>a, ReverterAssumption
  DEF ReverterInv, Advancing, Reverter!Forward, Reverter!Path, AsTheBase, AsItWas, Underway,
      Reverter!TypeOK, Reverter!Content, Reverter!IndexEntry, Reverter!Journal, Reverter!Progress,
      Reverter!MovedPath, Reverter!Backward, InOrder, InOrderAt, Progressed, JournalMatches,
      Recorded, RecordedAt, KeptAt, Tells, Reverter!Begin, Reverter!Go, Reverter!world,
      Reverter!rollback, Reverter!outside, Reverter!given
<1>7. Returning'
  BY <1>0, <1>a, ReverterAssumption
  DEF ReverterInv, Returning, Reverter!Backward, Reverter!Path, AsItWas, Reverter!TypeOK,
      Reverter!Content, Reverter!IndexEntry, Reverter!Journal, Reverter!Progress,
      Reverter!MovedPath, Reverter!Forward, InOrder, InOrderAt, Underway, Progressed, RollsBack,
      JournalMatches, Recorded, RecordedAt, KeptAt, Tells, Advancing, AsTheBase, Reverter!Begin,
      Reverter!Go, Reverter!world, Reverter!rollback, Reverter!outside, Reverter!given
<1>8. CommittedIsDone'
  BY <1>0, <1>a, ReverterAssumption
  DEF ReverterInv, CommittedIsDone, Reverter!Path, AsTheBase, Reverter!TypeOK, Reverter!Content,
      Reverter!IndexEntry, Reverter!Journal, Reverter!Progress, Reverter!MovedPath,
      Reverter!Forward, Reverter!Backward, InOrder, InOrderAt, Underway, Progressed,
      JournalMatches, Advancing, AsItWas, Reverter!Begin, Reverter!Go, Reverter!world,
      Reverter!rollback, Reverter!outside, Reverter!given
<1> QED
  BY <1>1, <1>2, <1>3, <1>4, <1>5, <1>6, <1>7, <1>8 DEF ReverterInv

LEMMA VerifyKeeps == ASSUME ReverterInv, Reverter!Verify PROVE ReverterInv'
<1>0. Reverter!Path' = Reverter!Path /\ Reverter!Journal' = Reverter!Journal
        /\ UNCHANGED <<fileCount, inBase, original>>
  BY DEF Reverter!Verify, Reverter!world, Reverter!given, Reverter!Path, Reverter!Journal
<1>1. Reverter!TypeOK'
  BY <1>0, ReverterAssumption
  DEF ReverterInv, Reverter!TypeOK, Reverter!Path, Reverter!Content, Reverter!IndexEntry,
      Reverter!Journal, Reverter!Progress, Reverter!MovedPath, Reverter!Forward, Reverter!Backward,
      InOrder, InOrderAt, Underway, Progressed, RollsBack, Reverter!Verify, Reverter!Go,
      Reverter!GitUnchanged, Reverter!world, Reverter!memory, Reverter!rollback, Reverter!outside,
      Reverter!given
<1>2. JournalMatches'
  BY <1>0, ReverterAssumption
  DEF ReverterInv, JournalMatches, Reverter!Forward, Reverter!Verify, Reverter!Go,
      Reverter!GitUnchanged, Reverter!world, Reverter!memory, Reverter!rollback, Reverter!outside,
      Reverter!given
<1>3. InOrder'
  BY <1>0, ReverterAssumption
  DEF ReverterInv, InOrder, Reverter!Forward, Reverter!Path, InOrderAt, Underway, Progressed,
      Reverter!TypeOK, Reverter!Content, Reverter!IndexEntry, Reverter!Journal, Reverter!Progress,
      Reverter!MovedPath, Reverter!Backward, JournalMatches, Reverter!Verify, Reverter!Go,
      Reverter!GitUnchanged, Reverter!world, Reverter!memory, Reverter!rollback, Reverter!outside,
      Reverter!given
<1>4. RollsBack'
  BY <1>0, ReverterAssumption
  DEF ReverterInv, RollsBack, Reverter!Backward, Progressed, Reverter!TypeOK, Reverter!Path,
      Reverter!Content, Reverter!IndexEntry, Reverter!Journal, Reverter!Progress,
      Reverter!MovedPath, Reverter!Forward, InOrder, InOrderAt, Underway, JournalMatches,
      Reverter!Verify, Reverter!Go, Reverter!GitUnchanged, Reverter!world, Reverter!memory,
      Reverter!rollback, Reverter!outside, Reverter!given
<1>5. Recorded'
  BY <1>0, ReverterAssumption
  DEF ReverterInv, Recorded, Reverter!Path, RecordedAt, KeptAt, Tells, Progressed, AsItWas,
      Reverter!TypeOK, Reverter!Content, Reverter!IndexEntry, Reverter!Journal, Reverter!Progress,
      Reverter!MovedPath, Reverter!Forward, Reverter!Backward, InOrder, InOrderAt, Underway,
      RollsBack, JournalMatches, Reverter!Verify, Reverter!Go, Reverter!GitUnchanged,
      Reverter!world, Reverter!memory, Reverter!rollback, Reverter!outside, Reverter!given
<1>6. Advancing'
  BY <1>0, ReverterAssumption
  DEF ReverterInv, Advancing, Reverter!Forward, Reverter!Path, AsTheBase, AsItWas, Underway,
      Reverter!TypeOK, Reverter!Content, Reverter!IndexEntry, Reverter!Journal, Reverter!Progress,
      Reverter!MovedPath, Reverter!Backward, InOrder, InOrderAt, Progressed, JournalMatches,
      Recorded, RecordedAt, KeptAt, Tells, Reverter!Verify, Reverter!Go, Reverter!GitUnchanged,
      Reverter!world, Reverter!memory, Reverter!rollback, Reverter!outside, Reverter!given
<1>7. Returning'
  BY <1>0, ReverterAssumption
  DEF ReverterInv, Returning, Reverter!Backward, Reverter!Path, AsItWas, Reverter!TypeOK,
      Reverter!Content, Reverter!IndexEntry, Reverter!Journal, Reverter!Progress,
      Reverter!MovedPath, Reverter!Forward, InOrder, InOrderAt, Underway, Progressed, RollsBack,
      JournalMatches, Recorded, RecordedAt, KeptAt, Tells, Advancing, AsTheBase, Reverter!Verify,
      Reverter!Go, Reverter!GitUnchanged, Reverter!world, Reverter!memory, Reverter!rollback,
      Reverter!outside, Reverter!given
<1>8. CommittedIsDone'
  BY <1>0, ReverterAssumption
  DEF ReverterInv, CommittedIsDone, Reverter!Path, AsTheBase, Reverter!TypeOK, Reverter!Content,
      Reverter!IndexEntry, Reverter!Journal, Reverter!Progress, Reverter!MovedPath,
      Reverter!Forward, Reverter!Backward, InOrder, InOrderAt, Underway, Progressed,
      JournalMatches, Advancing, AsItWas, Reverter!Verify, Reverter!Go, Reverter!GitUnchanged,
      Reverter!world, Reverter!memory, Reverter!rollback, Reverter!outside, Reverter!given
<1> QED
  BY <1>1, <1>2, <1>3, <1>4, <1>5, <1>6, <1>7, <1>8 DEF ReverterInv

LEMMA PlanKeeps == ASSUME ReverterInv, Reverter!Plan PROVE ReverterInv'
<1>0. Reverter!Path' = Reverter!Path /\ Reverter!Journal' = Reverter!Journal
        /\ UNCHANGED <<fileCount, inBase, original>>
  BY
  DEF Reverter!Plan, Reverter!world, Reverter!given, Reverter!WriteProgress, Reverter!Path,
      Reverter!Journal
<1>a. at \in Reverter!Path /\ revertJournal # None /\ Reverter!Planned(at) \in Reverter!MovedPath
  <2>1. at \in Reverter!Path /\ revertJournal # None
    BY Underlying DEF Reverter!Plan, Reverter!Go
  <2> QED
    BY <2>1 DEF ReverterInv, Reverter!TypeOK, Reverter!Planned, Reverter!MovedPath, Reverter!Content
<1>b. /\ entry' \in [Reverter!Path -> Reverter!MovedPath \cup {None}]
           /\ entry'[at] = Reverter!Planned(at)
      /\ \A p \in Reverter!Path \ {at} : entry'[p] = entry[p]
  BY <1>a DEF Reverter!Plan, ReverterInv, Reverter!TypeOK
<1>c. /\ revertJournal' \in Reverter!Journal /\ revertJournal' # None
           /\ revertJournal'.state = revertJournal.state
      /\ revertJournal'.pathProgress[at] = [phase |-> "planned", entry |-> entry'[at]]
      /\ revertJournal'.pathProgress[at] # None /\ entry'[at] # None
      /\ \A p \in Reverter!Path \ {at} : revertJournal'.pathProgress[p] = revertJournal.pathProgress[p]
  BY <1>a, <1>b, ProgressWritten, ReverterAssumption
  DEF Reverter!Plan, Reverter!WriteProgress, ReverterInv
<1>d. /\ entry'[at].hadOriginal = (target[at] # "absent") /\ entry'[at].originalIndex = index[at]
  BY <1>b DEF Reverter!Planned
<1>1. Reverter!TypeOK'
  BY <1>0, <1>a, <1>b, <1>c, <1>d, ReverterAssumption
  DEF ReverterInv, Reverter!TypeOK, Reverter!Path, Reverter!Content, Reverter!IndexEntry,
      Reverter!Forward, Reverter!Backward, Reverter!MovedPath, InOrder, InOrderAt, Underway,
      Progressed, RollsBack, Reverter!Plan, Reverter!Go, Reverter!world, Reverter!rollback,
      Reverter!outside, Reverter!given
<1>2. JournalMatches'
  BY <1>0, <1>a, <1>b, <1>c, <1>d, ReverterAssumption
  DEF ReverterInv, JournalMatches, Reverter!Forward, Reverter!Plan, Reverter!Go, Reverter!world,
      Reverter!rollback, Reverter!outside, Reverter!given
<1>3. InOrder'
  <2>1. /\ revertPc \in Reverter!Forward /\ revertPc' \in Reverter!Forward
        /\ revertPc \notin {"begin", "commit", "flush"}
        /\ revertPc' \notin {"begin", "commit", "flush"} /\ Underway' /\ at' = at /\ moved' = moved
    BY DEF Reverter!Plan, Reverter!Go, Reverter!Forward, Underway
  <2>2. InOrderAt(at)
    BY <1>a, <2>1 DEF ReverterInv, InOrder
  <2>3. InOrderAt(at)'
    BY <1>a, <1>b, <1>c, <2>1, <2>2 DEF Reverter!Plan, Reverter!Go, InOrderAt, Underway, Progressed
  <2> QED
    BY <1>a, <1>b, <1>c, <2>1, <2>3, StaysInOrder, ReverterAssumption
    DEF Reverter!Plan, Reverter!world, Reverter!given, Progressed, ReverterInv, Reverter!TypeOK,
        Reverter!Path
<1>4. RollsBack'
  BY <1>0, <1>a, <1>b, <1>c, <1>d, ReverterAssumption
  DEF ReverterInv, RollsBack, Reverter!Backward, Progressed, Reverter!TypeOK, Reverter!Path,
      Reverter!Content, Reverter!IndexEntry, Reverter!Forward, Reverter!MovedPath, InOrder,
      InOrderAt, Underway, JournalMatches, Reverter!Plan, Reverter!Go, Reverter!world,
      Reverter!rollback, Reverter!outside, Reverter!given
<1>5. Recorded'
  <2>1. \A p \in Reverter!Path \ {at} : RecordedAt(p)'
    BY <1>a, <1>b, <1>c, RecordedFrame
    DEF Reverter!Plan, Progressed, Reverter!world, Reverter!outside, ReverterInv, Recorded
  <2>2. ~Progressed(at) /\ RecordedAt(at) /\ at' = at
    <3>1. InOrderAt(at) /\ RecordedAt(at) /\ ~Underway /\ at' = at
      BY <1>a
      DEF ReverterInv, InOrder, Reverter!Forward, Reverter!Plan, Reverter!Go, Underway, Recorded
    <3>2. ~(at < at)
      BY <1>a, ReverterAssumption DEF ReverterInv, Reverter!TypeOK, Reverter!Path
    <3> QED
      BY <3>1, <3>2 DEF InOrderAt
  <2>3. RecordedAt(at)'
    <3>1. /\ revertRecovery[at] = "absent" /\ original[at].target \in {"absent", "mine"}
          /\ original[at].target = "mine" => target[at] = "mine"
          /\ at \notin revertTouched => AsItWas(at)
      BY <2>2 DEF RecordedAt, KeptAt
    <3>2. /\ Progressed(at)' /\ revertJournal'.pathProgress[at].entry = entry'[at]
          /\ entry'[at].hadOriginal = (target'[at] # "absent")
          /\ entry'[at].originalIndex = index'[at]
          /\ UNCHANGED <<at, target, revertRecovery, index, revertTouched, original>>
      BY <1>c, <1>d DEF Progressed, Reverter!Plan, Reverter!world, Reverter!outside
    <3> QED
      BY <3>1, <3>2 DEF RecordedAt, KeptAt, Tells, AsItWas
  <2> QED
    BY <1>0, <2>1, <2>2, <2>3 DEF Recorded
<1>6. Advancing'
  BY <1>0, <1>a, <1>b, <1>c, <1>d, ReverterAssumption
  DEF ReverterInv, Advancing, Reverter!Forward, Reverter!Path, AsTheBase, AsItWas, Underway,
      Reverter!TypeOK, Reverter!Content, Reverter!IndexEntry, Reverter!Backward,
      Reverter!MovedPath, InOrder, InOrderAt, Progressed, JournalMatches, Recorded, RecordedAt,
      KeptAt, Tells, Reverter!Plan, Reverter!Go, Reverter!world, Reverter!rollback,
      Reverter!outside, Reverter!given
<1>7. Returning'
  BY <1>0, <1>a, <1>b, <1>c, <1>d, ReverterAssumption
  DEF ReverterInv, Returning, Reverter!Backward, Reverter!Path, AsItWas, Reverter!TypeOK,
      Reverter!Content, Reverter!IndexEntry, Reverter!Forward, Reverter!MovedPath, InOrder,
      InOrderAt, Underway, Progressed, RollsBack, JournalMatches, Recorded, RecordedAt, KeptAt,
      Tells, Advancing, AsTheBase, Reverter!Plan, Reverter!Go, Reverter!world, Reverter!rollback,
      Reverter!outside, Reverter!given
<1>8. CommittedIsDone'
  BY <1>0, <1>a, <1>b, <1>c, <1>d, ReverterAssumption
  DEF ReverterInv, CommittedIsDone, Reverter!Path, AsTheBase, Reverter!TypeOK, Reverter!Content,
      Reverter!IndexEntry, Reverter!Forward, Reverter!Backward, Reverter!MovedPath, InOrder,
      InOrderAt, Underway, Progressed, JournalMatches, Advancing, AsItWas, Reverter!Plan,
      Reverter!Go, Reverter!world, Reverter!rollback, Reverter!outside, Reverter!given
<1> QED
  BY <1>1, <1>2, <1>3, <1>4, <1>5, <1>6, <1>7, <1>8 DEF ReverterInv

LEMMA MoveOriginalKeeps == ASSUME ReverterInv, Reverter!MoveOriginal PROVE ReverterInv'
<1>0. Reverter!Path' = Reverter!Path /\ Reverter!Journal' = Reverter!Journal
        /\ UNCHANGED <<fileCount, inBase, original>>
  BY DEF Reverter!MoveOriginal, Reverter!given, Reverter!Path, Reverter!Journal
<1>a. /\ at \in Reverter!Path /\ revertPc = "move" /\ RecordedAt(at) /\ Progressed(at)
           /\ entry[at] # None
      /\ entry[at] \in Reverter!MovedPath
      /\ revertJournal.pathProgress[at] = [phase |-> "planned", entry |-> entry[at]]
      /\ revertRecovery[at] = "absent" /\ (at \notin revertTouched => AsItWas(at))
  <2>1. at \in Reverter!Path /\ revertPc = "move" /\ entry[at] # None
          /\ entry[at] \in Reverter!MovedPath
    BY Underlying DEF Reverter!MoveOriginal, Underway
  <2>2. RecordedAt(at) /\ InOrderAt(at)
    BY <2>1 DEF ReverterInv, Recorded, InOrder, Reverter!Forward
  <2> QED
    BY <2>1, <2>2 DEF InOrderAt, Underway, ReverterInv, Advancing, Reverter!Forward
<1>b. /\ Tells(entry[at], at) /\ UNCHANGED <<at, index, entry, revertJournal, revertTouched>>
      /\ \A p \in Reverter!Path \ {at} : target'[p] = target[p]
           /\ revertRecovery'[p] = revertRecovery[p]
  BY <1>a DEF RecordedAt, Reverter!MoveOriginal, Reverter!outside, ReverterInv, Reverter!TypeOK
<1>1. Reverter!TypeOK'
  <2>1. /\ target' \in [Reverter!Path -> Reverter!Content]
        /\ revertRecovery' \in [Reverter!Path -> Reverter!Content]
        /\ moved' \in SUBSET Reverter!Path
        /\ revertPc' \in {"journalMoved", "create"}
    BY <1>a DEF Reverter!MoveOriginal, ReverterInv, Reverter!TypeOK, Reverter!Content
  <2> QED
    BY <1>0, <1>b, <2>1
    DEF Reverter!MoveOriginal, ReverterInv, Reverter!TypeOK, Reverter!Forward, Reverter!rollback,
        Reverter!outside, Reverter!given
<1>2. JournalMatches'
  BY <1>0, <1>a, <1>b, ReverterAssumption
  DEF ReverterInv, JournalMatches, Reverter!Forward, Reverter!MoveOriginal, Reverter!rollback,
      Reverter!outside, Reverter!given
<1>3. InOrder'
  <2>1. /\ revertPc' \in {"journalMoved", "create"} /\ moved' = moved \cup {at}
        /\ fileCount' = fileCount
    BY DEF Reverter!MoveOriginal, Reverter!given
  <2>2. InOrderAt(at)
    BY <1>a DEF ReverterInv, InOrder, Reverter!Forward
  <2>3. InOrderAt(at)'
    BY <1>a, <1>b, <2>1, <2>2 DEF InOrderAt, Underway, Progressed
  <2>4. at' # fileCount' + 1
    BY <1>a, <1>b, <2>1, ReverterAssumption DEF ReverterInv, Reverter!TypeOK, Reverter!Path
  <2> QED
    BY <1>a, <1>b, <2>1, <2>3, <2>4, StaysInOrder DEF Reverter!Forward, Progressed
<1>4. RollsBack'
  BY <1>0, <1>a, <1>b, ReverterAssumption
  DEF ReverterInv, RollsBack, Reverter!Backward, Progressed, Reverter!TypeOK, Reverter!Path,
      Reverter!Content, Reverter!IndexEntry, Reverter!Journal, Reverter!Progress,
      Reverter!MovedPath, Reverter!Forward, InOrder, InOrderAt, Underway, JournalMatches,
      Reverter!MoveOriginal, Reverter!rollback, Reverter!outside, Reverter!given
<1>5. Recorded'
  <2>1. \A p \in Reverter!Path \ {at} : RecordedAt(p)'
    BY <1>0, <1>b, RecordedFrame DEF Progressed, ReverterInv, Recorded
  <2>2. RecordedAt(at)'
    <3>1. CASE entry[at].hadOriginal
      <4>1. /\ revertRecovery'[at] = target[at] /\ target'[at] = "absent" /\ target[at] # "absent"
            /\ Progressed(at)'
        BY <1>a, <1>b, <3>1 DEF Reverter!MoveOriginal, ReverterInv, Reverter!TypeOK, Progressed
      <4>2. /\ KeptAt(at)' /\ Tells(entry[at], at)'
        BY <1>0, <1>a, <1>b, <3>1, <4>1 DEF RecordedAt, KeptAt, Tells
      <4>3. at \notin revertTouched =>
              revertRecovery'[at] = original[at].target /\ index[at] = original[at].index
        BY <1>a, <4>1 DEF AsItWas
      <4> QED
        BY <1>0, <1>a, <1>b, <4>1, <4>2, <4>3 DEF RecordedAt
    <3>2. CASE ~entry[at].hadOriginal
      BY <1>0, <1>a, <1>b, <3>2, RecordedFrame DEF Reverter!MoveOriginal, Progressed
    <3> QED
      BY <3>1, <3>2
  <2> QED
    BY <1>0, <1>b, <2>1, <2>2 DEF Recorded
<1>6. Advancing'
  <2>1. ASSUME NEW p \in Reverter!Path, p < at, p \notin revertTouched PROVE AsTheBase(p)'
    <3>1. AsTheBase(p) /\ p # at
      BY <1>a, <2>1, ReverterAssumption
      DEF ReverterInv, Advancing, Reverter!Forward, Reverter!TypeOK, Reverter!Path
    <3> QED
      BY <1>0, <1>b, <3>1 DEF AsTheBase
  <2>2. ASSUME at \notin revertTouched
        PROVE  /\ revertRecovery'[at] = original[at].target /\ index[at] = original[at].index
               /\ target'[at] = "absent"
    BY <1>a, <1>b, <2>2 DEF AsItWas, Tells, Reverter!MoveOriginal, ReverterInv, Reverter!TypeOK
  <2>3. revertPc' \in {"journalMoved", "create"}
    BY DEF Reverter!MoveOriginal
  <2> QED
    BY <1>0, <1>b, <2>1, <2>2, <2>3 DEF Advancing, Underway
<1>7. Returning'
  BY <1>0, <1>a, <1>b, ReverterAssumption
  DEF ReverterInv, Returning, Reverter!Backward, Reverter!Path, AsItWas, Reverter!TypeOK,
      Reverter!Content, Reverter!IndexEntry, Reverter!Journal, Reverter!Progress,
      Reverter!MovedPath, Reverter!Forward, InOrder, InOrderAt, Underway, Progressed, RollsBack,
      JournalMatches, Recorded, RecordedAt, KeptAt, Tells, Advancing, AsTheBase,
      Reverter!MoveOriginal, Reverter!rollback, Reverter!outside, Reverter!given
<1>8. CommittedIsDone'
  BY <1>0, <1>a, <1>b, ReverterAssumption
  DEF ReverterInv, CommittedIsDone, Reverter!Path, AsTheBase, Reverter!TypeOK, Reverter!Content,
      Reverter!IndexEntry, Reverter!Journal, Reverter!Progress, Reverter!MovedPath,
      Reverter!Forward, Reverter!Backward, InOrder, InOrderAt, Underway, Progressed,
      JournalMatches, Advancing, AsItWas, Reverter!MoveOriginal, Reverter!rollback,
      Reverter!outside, Reverter!given
<1> QED
  BY <1>1, <1>2, <1>3, <1>4, <1>5, <1>6, <1>7, <1>8 DEF ReverterInv

LEMMA JournalMovedKeeps == ASSUME ReverterInv, Reverter!JournalMoved PROVE ReverterInv'
<1>0. Reverter!Path' = Reverter!Path /\ Reverter!Journal' = Reverter!Journal
        /\ UNCHANGED <<fileCount, inBase, original>>
  BY
  DEF Reverter!JournalMoved, Reverter!world, Reverter!given, Reverter!WriteProgress, Reverter!Path,
      Reverter!Journal
<1>a. at \in Reverter!Path /\ revertJournal # None /\ entry[at] \in Reverter!MovedPath
        /\ entry[at] # None
  BY Underlying DEF Reverter!JournalMoved, Reverter!Go, Underway
<1>b. /\ revertJournal' \in Reverter!Journal /\ revertJournal' # None
           /\ revertJournal'.state = revertJournal.state
      /\ revertJournal'.pathProgress[at] = [phase |-> "moved", entry |-> entry[at]]
      /\ revertJournal'.pathProgress[at] # None
      /\ \A p \in Reverter!Path \ {at} : revertJournal'.pathProgress[p] = revertJournal.pathProgress[p]
  BY <1>a, ProgressWritten DEF Reverter!JournalMoved, Reverter!WriteProgress, ReverterInv
<1>1. Reverter!TypeOK'
  BY <1>0, <1>a, <1>b, ReverterAssumption
  DEF ReverterInv, Reverter!TypeOK, Reverter!Path, Reverter!Content, Reverter!IndexEntry,
      Reverter!Forward, Reverter!Backward, Reverter!MovedPath, InOrder, InOrderAt, Underway,
      Progressed, RollsBack, Reverter!JournalMoved, Reverter!Go, Reverter!world, Reverter!rollback,
      Reverter!outside, Reverter!given
<1>2. JournalMatches'
  BY <1>0, <1>a, <1>b, ReverterAssumption
  DEF ReverterInv, JournalMatches, Reverter!Forward, Reverter!JournalMoved, Reverter!Go,
      Reverter!world, Reverter!rollback, Reverter!outside, Reverter!given
<1>3. InOrder'
  <2>1. /\ revertPc \in Reverter!Forward /\ revertPc' \in Reverter!Forward
        /\ revertPc \notin {"begin", "commit", "flush"}
        /\ revertPc' \notin {"begin", "commit", "flush"} /\ Underway' /\ at' = at /\ moved' = moved
    BY DEF Reverter!JournalMoved, Reverter!Go, Reverter!Forward, Underway
  <2>2. InOrderAt(at)
    BY <1>a, <2>1 DEF ReverterInv, InOrder
  <2>3. InOrderAt(at)'
    BY <1>a, <1>b, <2>1, <2>2
    DEF Reverter!JournalMoved, Reverter!Go, InOrderAt, Underway, Progressed
  <2> QED
    BY <1>a, <1>b, <2>1, <2>3, StaysInOrder, ReverterAssumption
    DEF Reverter!JournalMoved, Reverter!world, Reverter!given, Progressed, ReverterInv,
        Reverter!TypeOK, Reverter!Path
<1>4. RollsBack'
  BY <1>0, <1>a, <1>b, ReverterAssumption
  DEF ReverterInv, RollsBack, Reverter!Backward, Progressed, Reverter!TypeOK, Reverter!Path,
      Reverter!Content, Reverter!IndexEntry, Reverter!Forward, Reverter!MovedPath, InOrder,
      InOrderAt, Underway, JournalMatches, Reverter!JournalMoved, Reverter!Go, Reverter!world,
      Reverter!rollback, Reverter!outside, Reverter!given
<1>5. Recorded'
  <2>1. \A p \in Reverter!Path \ {at} : RecordedAt(p)'
    BY <1>a, <1>b, RecordedFrame
    DEF Reverter!JournalMoved, Progressed, Reverter!world, Reverter!outside, ReverterInv, Recorded
  <2>2. /\ RecordedAt(at) /\ Progressed(at)' /\ revertJournal'.pathProgress[at].entry = entry'[at]
        /\ UNCHANGED <<at, target, revertRecovery, index, revertTouched, original>>
        /\ entry' = entry /\ (at \notin revertTouched => index[at] = original[at].index)
    BY <1>a, <1>b
    DEF Reverter!JournalMoved, Reverter!Go, Progressed, Reverter!world, Reverter!outside,
        ReverterInv, Recorded, Advancing, Underway
  <2>3. RecordedAt(at)'
    BY <1>a, <1>b, <2>2 DEF RecordedAt, KeptAt, Tells, AsItWas
  <2> QED
    BY <1>0, <2>1, <2>2, <2>3 DEF Recorded
<1>6. Advancing'
  BY <1>0, <1>a, <1>b, ReverterAssumption
  DEF ReverterInv, Advancing, Reverter!Forward, Reverter!Path, AsTheBase, AsItWas, Underway,
      Reverter!TypeOK, Reverter!Content, Reverter!IndexEntry, Reverter!Backward,
      Reverter!MovedPath, InOrder, InOrderAt, Progressed, JournalMatches, Recorded, RecordedAt,
      KeptAt, Tells, Reverter!JournalMoved, Reverter!Go, Reverter!world, Reverter!rollback,
      Reverter!outside, Reverter!given
<1>7. Returning'
  BY <1>0, <1>a, <1>b, ReverterAssumption
  DEF ReverterInv, Returning, Reverter!Backward, Reverter!Path, AsItWas, Reverter!TypeOK,
      Reverter!Content, Reverter!IndexEntry, Reverter!Forward, Reverter!MovedPath, InOrder,
      InOrderAt, Underway, Progressed, RollsBack, JournalMatches, Recorded, RecordedAt, KeptAt,
      Tells, Advancing, AsTheBase, Reverter!JournalMoved, Reverter!Go, Reverter!world,
      Reverter!rollback, Reverter!outside, Reverter!given
<1>8. CommittedIsDone'
  BY <1>0, <1>a, <1>b, ReverterAssumption
  DEF ReverterInv, CommittedIsDone, Reverter!Path, AsTheBase, Reverter!TypeOK, Reverter!Content,
      Reverter!IndexEntry, Reverter!Forward, Reverter!Backward, Reverter!MovedPath, InOrder,
      InOrderAt, Underway, Progressed, JournalMatches, Advancing, AsItWas, Reverter!JournalMoved,
      Reverter!Go, Reverter!world, Reverter!rollback, Reverter!outside, Reverter!given
<1> QED
  BY <1>1, <1>2, <1>3, <1>4, <1>5, <1>6, <1>7, <1>8 DEF ReverterInv

LEMMA RevertSettleKeeps == ASSUME ReverterInv, Reverter!Settle PROVE ReverterInv'
<1>0. Reverter!Path' = Reverter!Path /\ Reverter!Journal' = Reverter!Journal
        /\ UNCHANGED <<fileCount, inBase, original>>
  BY DEF Reverter!Settle, Reverter!world, Reverter!given, Reverter!Path, Reverter!Journal
<1>1. Reverter!TypeOK'
  BY <1>0, ReverterAssumption
  DEF ReverterInv, Reverter!TypeOK, Reverter!Path, Reverter!Content, Reverter!IndexEntry,
      Reverter!Journal, Reverter!Progress, Reverter!MovedPath, Reverter!Forward, Reverter!Backward,
      InOrder, InOrderAt, Underway, Progressed, RollsBack, Reverter!Settle, Reverter!Go,
      Reverter!world, Reverter!memory, Reverter!rollback, Reverter!outside, Reverter!given
<1>2. JournalMatches'
  BY <1>0, ReverterAssumption
  DEF ReverterInv, JournalMatches, Reverter!Forward, Reverter!Settle, Reverter!Go, Reverter!world,
      Reverter!memory, Reverter!rollback, Reverter!outside, Reverter!given
<1>3. InOrder'
  BY <1>0, ReverterAssumption
  DEF ReverterInv, InOrder, Reverter!Forward, Reverter!Path, InOrderAt, Underway, Progressed,
      Reverter!TypeOK, Reverter!Content, Reverter!IndexEntry, Reverter!Journal, Reverter!Progress,
      Reverter!MovedPath, Reverter!Backward, JournalMatches, Reverter!Settle, Reverter!Go,
      Reverter!world, Reverter!memory, Reverter!rollback, Reverter!outside, Reverter!given
<1>4. RollsBack'
  BY <1>0, ReverterAssumption
  DEF ReverterInv, RollsBack, Reverter!Backward, Progressed, Reverter!TypeOK, Reverter!Path,
      Reverter!Content, Reverter!IndexEntry, Reverter!Journal, Reverter!Progress,
      Reverter!MovedPath, Reverter!Forward, InOrder, InOrderAt, Underway, JournalMatches,
      Reverter!Settle, Reverter!Go, Reverter!world, Reverter!memory, Reverter!rollback,
      Reverter!outside, Reverter!given
<1>5. Recorded'
  BY <1>0, ReverterAssumption
  DEF ReverterInv, Recorded, Reverter!Path, RecordedAt, KeptAt, Tells, Progressed, AsItWas,
      Reverter!TypeOK, Reverter!Content, Reverter!IndexEntry, Reverter!Journal, Reverter!Progress,
      Reverter!MovedPath, Reverter!Forward, Reverter!Backward, InOrder, InOrderAt, Underway,
      RollsBack, JournalMatches, Reverter!Settle, Reverter!Go, Reverter!world, Reverter!memory,
      Reverter!rollback, Reverter!outside, Reverter!given
<1>6. Advancing'
  BY <1>0, ReverterAssumption
  DEF ReverterInv, Advancing, Reverter!Forward, Reverter!Path, AsTheBase, AsItWas, Underway,
      Reverter!TypeOK, Reverter!Content, Reverter!IndexEntry, Reverter!Journal, Reverter!Progress,
      Reverter!MovedPath, Reverter!Backward, InOrder, InOrderAt, Progressed, JournalMatches,
      Recorded, RecordedAt, KeptAt, Tells, Reverter!Settle, Reverter!Go, Reverter!world,
      Reverter!memory, Reverter!rollback, Reverter!outside, Reverter!given
<1>7. Returning'
  BY <1>0, ReverterAssumption
  DEF ReverterInv, Returning, Reverter!Backward, Reverter!Path, AsItWas, Reverter!TypeOK,
      Reverter!Content, Reverter!IndexEntry, Reverter!Journal, Reverter!Progress,
      Reverter!MovedPath, Reverter!Forward, InOrder, InOrderAt, Underway, Progressed, RollsBack,
      JournalMatches, Recorded, RecordedAt, KeptAt, Tells, Advancing, AsTheBase, Reverter!Settle,
      Reverter!Go, Reverter!world, Reverter!memory, Reverter!rollback, Reverter!outside,
      Reverter!given
<1>8. CommittedIsDone'
  BY <1>0, ReverterAssumption
  DEF ReverterInv, CommittedIsDone, Reverter!Path, AsTheBase, Reverter!TypeOK, Reverter!Content,
      Reverter!IndexEntry, Reverter!Journal, Reverter!Progress, Reverter!MovedPath,
      Reverter!Forward, Reverter!Backward, InOrder, InOrderAt, Underway, Progressed,
      JournalMatches, Advancing, AsItWas, Reverter!Settle, Reverter!Go, Reverter!world,
      Reverter!memory, Reverter!rollback, Reverter!outside, Reverter!given
<1> QED
  BY <1>1, <1>2, <1>3, <1>4, <1>5, <1>6, <1>7, <1>8 DEF ReverterInv

LEMMA CreateBaseKeeps == ASSUME ReverterInv, Reverter!CreateBase PROVE ReverterInv'
<1>0. Reverter!Path' = Reverter!Path /\ Reverter!Journal' = Reverter!Journal
        /\ UNCHANGED <<fileCount, inBase, original>>
  BY DEF Reverter!CreateBase, Reverter!given, Reverter!Path, Reverter!Journal
<1>1. Reverter!TypeOK'
  BY <1>0, ReverterAssumption
  DEF ReverterInv, Reverter!TypeOK, Reverter!Path, Reverter!Content, Reverter!IndexEntry,
      Reverter!Journal, Reverter!Progress, Reverter!MovedPath, Reverter!Forward, Reverter!Backward,
      InOrder, InOrderAt, Underway, Progressed, RollsBack, Reverter!CreateBase, Reverter!memory,
      Reverter!rollback, Reverter!outside, Reverter!given
<1>2. JournalMatches'
  BY <1>0, ReverterAssumption
  DEF ReverterInv, JournalMatches, Reverter!Forward, Reverter!CreateBase, Reverter!memory,
      Reverter!rollback, Reverter!outside, Reverter!given
<1>3. InOrder'
  BY <1>0, ReverterAssumption
  DEF ReverterInv, InOrder, Reverter!Forward, Reverter!Path, InOrderAt, Underway, Progressed,
      Reverter!TypeOK, Reverter!Content, Reverter!IndexEntry, Reverter!Journal, Reverter!Progress,
      Reverter!MovedPath, Reverter!Backward, JournalMatches, Reverter!CreateBase, Reverter!memory,
      Reverter!rollback, Reverter!outside, Reverter!given
<1>4. RollsBack'
  BY <1>0, ReverterAssumption
  DEF ReverterInv, RollsBack, Reverter!Backward, Progressed, Reverter!TypeOK, Reverter!Path,
      Reverter!Content, Reverter!IndexEntry, Reverter!Journal, Reverter!Progress,
      Reverter!MovedPath, Reverter!Forward, InOrder, InOrderAt, Underway, JournalMatches,
      Reverter!CreateBase, Reverter!memory, Reverter!rollback, Reverter!outside, Reverter!given
<1>5. Recorded'
  BY <1>0, ReverterAssumption
  DEF ReverterInv, Recorded, Reverter!Path, RecordedAt, KeptAt, Tells, Progressed, AsItWas,
      Reverter!TypeOK, Reverter!Content, Reverter!IndexEntry, Reverter!Journal, Reverter!Progress,
      Reverter!MovedPath, Reverter!Forward, Reverter!Backward, InOrder, InOrderAt, Underway,
      RollsBack, JournalMatches, Reverter!CreateBase, Reverter!memory, Reverter!rollback,
      Reverter!outside, Reverter!given
<1>6. Advancing'
  BY <1>0, ReverterAssumption
  DEF ReverterInv, Advancing, Reverter!Forward, Reverter!Path, AsTheBase, AsItWas, Underway,
      Reverter!TypeOK, Reverter!Content, Reverter!IndexEntry, Reverter!Journal, Reverter!Progress,
      Reverter!MovedPath, Reverter!Backward, InOrder, InOrderAt, Progressed, JournalMatches,
      Recorded, RecordedAt, KeptAt, Tells, Reverter!CreateBase, Reverter!memory, Reverter!rollback,
      Reverter!outside, Reverter!given
<1>7. Returning'
  BY <1>0, ReverterAssumption
  DEF ReverterInv, Returning, Reverter!Backward, Reverter!Path, AsItWas, Reverter!TypeOK,
      Reverter!Content, Reverter!IndexEntry, Reverter!Journal, Reverter!Progress,
      Reverter!MovedPath, Reverter!Forward, InOrder, InOrderAt, Underway, Progressed, RollsBack,
      JournalMatches, Recorded, RecordedAt, KeptAt, Tells, Advancing, AsTheBase,
      Reverter!CreateBase, Reverter!memory, Reverter!rollback, Reverter!outside, Reverter!given
<1>8. CommittedIsDone'
  BY <1>0, ReverterAssumption
  DEF ReverterInv, CommittedIsDone, Reverter!Path, AsTheBase, Reverter!TypeOK, Reverter!Content,
      Reverter!IndexEntry, Reverter!Journal, Reverter!Progress, Reverter!MovedPath,
      Reverter!Forward, Reverter!Backward, InOrder, InOrderAt, Underway, Progressed,
      JournalMatches, Advancing, AsItWas, Reverter!CreateBase, Reverter!memory, Reverter!rollback,
      Reverter!outside, Reverter!given
<1> QED
  BY <1>1, <1>2, <1>3, <1>4, <1>5, <1>6, <1>7, <1>8 DEF ReverterInv

LEMMA FillBaseKeeps == ASSUME ReverterInv, Reverter!FillBase PROVE ReverterInv'
<1>0. Reverter!Path' = Reverter!Path /\ Reverter!Journal' = Reverter!Journal
        /\ UNCHANGED <<fileCount, inBase, original>>
  BY DEF Reverter!FillBase, Reverter!given, Reverter!Path, Reverter!Journal
<1>1. Reverter!TypeOK'
  BY <1>0, ReverterAssumption
  DEF ReverterInv, Reverter!TypeOK, Reverter!Path, Reverter!Content, Reverter!IndexEntry,
      Reverter!Journal, Reverter!Progress, Reverter!MovedPath, Reverter!Forward, Reverter!Backward,
      InOrder, InOrderAt, Underway, Progressed, RollsBack, Reverter!FillBase, Reverter!Go,
      Reverter!memory, Reverter!rollback, Reverter!outside, Reverter!given
<1>2. JournalMatches'
  BY <1>0, ReverterAssumption
  DEF ReverterInv, JournalMatches, Reverter!Forward, Reverter!FillBase, Reverter!Go,
      Reverter!memory, Reverter!rollback, Reverter!outside, Reverter!given
<1>3. InOrder'
  BY <1>0, ReverterAssumption
  DEF ReverterInv, InOrder, Reverter!Forward, Reverter!Path, InOrderAt, Underway, Progressed,
      Reverter!TypeOK, Reverter!Content, Reverter!IndexEntry, Reverter!Journal, Reverter!Progress,
      Reverter!MovedPath, Reverter!Backward, JournalMatches, Reverter!FillBase, Reverter!Go,
      Reverter!memory, Reverter!rollback, Reverter!outside, Reverter!given
<1>4. RollsBack'
  BY <1>0, ReverterAssumption
  DEF ReverterInv, RollsBack, Reverter!Backward, Progressed, Reverter!TypeOK, Reverter!Path,
      Reverter!Content, Reverter!IndexEntry, Reverter!Journal, Reverter!Progress,
      Reverter!MovedPath, Reverter!Forward, InOrder, InOrderAt, Underway, JournalMatches,
      Reverter!FillBase, Reverter!Go, Reverter!memory, Reverter!rollback, Reverter!outside,
      Reverter!given
<1>5. Recorded'
  BY <1>0, ReverterAssumption
  DEF ReverterInv, Recorded, Reverter!Path, RecordedAt, KeptAt, Tells, Progressed, AsItWas,
      Reverter!TypeOK, Reverter!Content, Reverter!IndexEntry, Reverter!Journal, Reverter!Progress,
      Reverter!MovedPath, Reverter!Forward, Reverter!Backward, InOrder, InOrderAt, Underway,
      RollsBack, JournalMatches, Reverter!FillBase, Reverter!Go, Reverter!memory,
      Reverter!rollback, Reverter!outside, Reverter!given
<1>6. Advancing'
  BY <1>0, ReverterAssumption
  DEF ReverterInv, Advancing, Reverter!Forward, Reverter!Path, AsTheBase, AsItWas, Underway,
      Reverter!TypeOK, Reverter!Content, Reverter!IndexEntry, Reverter!Journal, Reverter!Progress,
      Reverter!MovedPath, Reverter!Backward, InOrder, InOrderAt, Progressed, JournalMatches,
      Recorded, RecordedAt, KeptAt, Tells, Reverter!FillBase, Reverter!Go, Reverter!memory,
      Reverter!rollback, Reverter!outside, Reverter!given
<1>7. Returning'
  BY <1>0, ReverterAssumption
  DEF ReverterInv, Returning, Reverter!Backward, Reverter!Path, AsItWas, Reverter!TypeOK,
      Reverter!Content, Reverter!IndexEntry, Reverter!Journal, Reverter!Progress,
      Reverter!MovedPath, Reverter!Forward, InOrder, InOrderAt, Underway, Progressed, RollsBack,
      JournalMatches, Recorded, RecordedAt, KeptAt, Tells, Advancing, AsTheBase, Reverter!FillBase,
      Reverter!Go, Reverter!memory, Reverter!rollback, Reverter!outside, Reverter!given
<1>8. CommittedIsDone'
  BY <1>0, ReverterAssumption
  DEF ReverterInv, CommittedIsDone, Reverter!Path, AsTheBase, Reverter!TypeOK, Reverter!Content,
      Reverter!IndexEntry, Reverter!Journal, Reverter!Progress, Reverter!MovedPath,
      Reverter!Forward, Reverter!Backward, InOrder, InOrderAt, Underway, Progressed,
      JournalMatches, Advancing, AsItWas, Reverter!FillBase, Reverter!Go, Reverter!memory,
      Reverter!rollback, Reverter!outside, Reverter!given
<1> QED
  BY <1>1, <1>2, <1>3, <1>4, <1>5, <1>6, <1>7, <1>8 DEF ReverterInv

LEMMA JournalWrittenKeeps == ASSUME ReverterInv, Reverter!JournalWritten PROVE ReverterInv'
<1>0. Reverter!Path' = Reverter!Path /\ Reverter!Journal' = Reverter!Journal
        /\ UNCHANGED <<fileCount, inBase, original>>
  BY
  DEF Reverter!JournalWritten, Reverter!world, Reverter!given, Reverter!WriteProgress,
      Reverter!Path, Reverter!Journal
<1>a. at \in Reverter!Path /\ revertJournal # None /\ entry[at] \in Reverter!MovedPath
        /\ entry[at] # None
  BY Underlying DEF Reverter!JournalWritten, Reverter!Go, Underway
<1>b. /\ entry' \in [Reverter!Path -> Reverter!MovedPath \cup {None}]
      /\ \A p \in Reverter!Path \ {at} : entry'[p] = entry[p]
      /\ entry'[at] \in Reverter!MovedPath /\ entry'[at] # None
      /\ entry'[at].hadOriginal = entry[at].hadOriginal
      /\ entry'[at].originalIndex = entry[at].originalIndex
  BY <1>a, ReverterAssumption
  DEF Reverter!JournalWritten, ReverterInv, Reverter!TypeOK, Reverter!MovedPath
<1>c. /\ revertJournal' \in Reverter!Journal /\ revertJournal' # None
           /\ revertJournal'.state = revertJournal.state
      /\ revertJournal'.pathProgress[at] = [phase |-> "written", entry |-> entry'[at]]
      /\ revertJournal'.pathProgress[at] # None
      /\ \A p \in Reverter!Path \ {at} : revertJournal'.pathProgress[p] = revertJournal.pathProgress[p]
  BY <1>a, <1>b, ProgressWritten DEF Reverter!JournalWritten, Reverter!WriteProgress, ReverterInv
<1>1. Reverter!TypeOK'
  BY <1>0, <1>a, <1>b, <1>c, ReverterAssumption
  DEF ReverterInv, Reverter!TypeOK, Reverter!Path, Reverter!Content, Reverter!IndexEntry,
      Reverter!Forward, Reverter!Backward, Reverter!MovedPath, InOrder, InOrderAt, Underway,
      Progressed, RollsBack, Reverter!JournalWritten, Reverter!Go, Reverter!world,
      Reverter!rollback, Reverter!outside, Reverter!given
<1>2. JournalMatches'
  BY <1>0, <1>a, <1>b, <1>c, ReverterAssumption
  DEF ReverterInv, JournalMatches, Reverter!Forward, Reverter!JournalWritten, Reverter!Go,
      Reverter!world, Reverter!rollback, Reverter!outside, Reverter!given
<1>3. InOrder'
  <2>1. /\ revertPc \in Reverter!Forward /\ revertPc' \in Reverter!Forward
        /\ revertPc \notin {"begin", "commit", "flush"}
        /\ revertPc' \notin {"begin", "commit", "flush"} /\ Underway' /\ at' = at /\ moved' = moved
    BY DEF Reverter!JournalWritten, Reverter!Go, Reverter!Forward, Underway
  <2>2. InOrderAt(at)
    BY <1>a, <2>1 DEF ReverterInv, InOrder
  <2>3. InOrderAt(at)'
    BY <1>a, <1>b, <1>c, <2>1, <2>2
    DEF Reverter!JournalWritten, Reverter!Go, InOrderAt, Underway, Progressed
  <2> QED
    BY <1>a, <1>b, <1>c, <2>1, <2>3, StaysInOrder, ReverterAssumption
    DEF Reverter!JournalWritten, Reverter!world, Reverter!given, Progressed, ReverterInv,
        Reverter!TypeOK, Reverter!Path
<1>4. RollsBack'
  BY <1>0, <1>a, <1>b, <1>c, ReverterAssumption
  DEF ReverterInv, RollsBack, Reverter!Backward, Progressed, Reverter!TypeOK, Reverter!Path,
      Reverter!Content, Reverter!IndexEntry, Reverter!Forward, Reverter!MovedPath, InOrder,
      InOrderAt, Underway, JournalMatches, Reverter!JournalWritten, Reverter!Go, Reverter!world,
      Reverter!rollback, Reverter!outside, Reverter!given
<1>5. Recorded'
  <2>1. \A p \in Reverter!Path \ {at} : RecordedAt(p)'
    BY <1>a, <1>b, <1>c, RecordedFrame
    DEF Reverter!JournalWritten, Progressed, Reverter!world, Reverter!outside, ReverterInv, Recorded
  <2>2. /\ RecordedAt(at) /\ Progressed(at)' /\ revertJournal'.pathProgress[at].entry = entry'[at]
        /\ UNCHANGED <<at, target, revertRecovery, index, revertTouched, original>>
        /\ revertJournal'.pathProgress[at].phase = "written"
    BY <1>a, <1>b, <1>c
    DEF Reverter!JournalWritten, Reverter!Go, Progressed, Reverter!world, Reverter!outside,
        ReverterInv, Recorded, Advancing, Underway
  <2>3. RecordedAt(at)'
    BY <1>a, <1>b, <1>c, <2>2 DEF RecordedAt, KeptAt, Tells, AsItWas
  <2> QED
    BY <1>0, <2>1, <2>2, <2>3 DEF Recorded
<1>6. Advancing'
  BY <1>0, <1>a, <1>b, <1>c, ReverterAssumption
  DEF ReverterInv, Advancing, Reverter!Forward, Reverter!Path, AsTheBase, AsItWas, Underway,
      Reverter!TypeOK, Reverter!Content, Reverter!IndexEntry, Reverter!Backward,
      Reverter!MovedPath, InOrder, InOrderAt, Progressed, JournalMatches, Recorded, RecordedAt,
      KeptAt, Tells, Reverter!JournalWritten, Reverter!Go, Reverter!world, Reverter!rollback,
      Reverter!outside, Reverter!given
<1>7. Returning'
  BY <1>0, <1>a, <1>b, <1>c, ReverterAssumption
  DEF ReverterInv, Returning, Reverter!Backward, Reverter!Path, AsItWas, Reverter!TypeOK,
      Reverter!Content, Reverter!IndexEntry, Reverter!Forward, Reverter!MovedPath, InOrder,
      InOrderAt, Underway, Progressed, RollsBack, JournalMatches, Recorded, RecordedAt, KeptAt,
      Tells, Advancing, AsTheBase, Reverter!JournalWritten, Reverter!Go, Reverter!world,
      Reverter!rollback, Reverter!outside, Reverter!given
<1>8. CommittedIsDone'
  BY <1>0, <1>a, <1>b, <1>c, ReverterAssumption
  DEF ReverterInv, CommittedIsDone, Reverter!Path, AsTheBase, Reverter!TypeOK, Reverter!Content,
      Reverter!IndexEntry, Reverter!Forward, Reverter!Backward, Reverter!MovedPath, InOrder,
      InOrderAt, Underway, Progressed, JournalMatches, Advancing, AsItWas, Reverter!JournalWritten,
      Reverter!Go, Reverter!world, Reverter!rollback, Reverter!outside, Reverter!given
<1> QED
  BY <1>1, <1>2, <1>3, <1>4, <1>5, <1>6, <1>7, <1>8 DEF ReverterInv

LEMMA CheckWrittenKeeps == ASSUME ReverterInv, Reverter!CheckWritten PROVE ReverterInv'
<1>0. Reverter!Path' = Reverter!Path /\ Reverter!Journal' = Reverter!Journal
        /\ UNCHANGED <<fileCount, inBase, original>>
  BY DEF Reverter!CheckWritten, Reverter!world, Reverter!given, Reverter!Path, Reverter!Journal
<1>1. Reverter!TypeOK'
  BY <1>0, ReverterAssumption
  DEF ReverterInv, Reverter!TypeOK, Reverter!Path, Reverter!Content, Reverter!IndexEntry,
      Reverter!Journal, Reverter!Progress, Reverter!MovedPath, Reverter!Forward, Reverter!Backward,
      InOrder, InOrderAt, Underway, Progressed, RollsBack, Reverter!CheckWritten, Reverter!Go,
      Reverter!GitUnchanged, Reverter!world, Reverter!memory, Reverter!rollback, Reverter!outside,
      Reverter!given
<1>2. JournalMatches'
  BY <1>0, ReverterAssumption
  DEF ReverterInv, JournalMatches, Reverter!Forward, Reverter!CheckWritten, Reverter!Go,
      Reverter!GitUnchanged, Reverter!world, Reverter!memory, Reverter!rollback, Reverter!outside,
      Reverter!given
<1>3. InOrder'
  BY <1>0, ReverterAssumption
  DEF ReverterInv, InOrder, Reverter!Forward, Reverter!Path, InOrderAt, Underway, Progressed,
      Reverter!TypeOK, Reverter!Content, Reverter!IndexEntry, Reverter!Journal, Reverter!Progress,
      Reverter!MovedPath, Reverter!Backward, JournalMatches, Reverter!CheckWritten, Reverter!Go,
      Reverter!GitUnchanged, Reverter!world, Reverter!memory, Reverter!rollback, Reverter!outside,
      Reverter!given
<1>4. RollsBack'
  BY <1>0, ReverterAssumption
  DEF ReverterInv, RollsBack, Reverter!Backward, Progressed, Reverter!TypeOK, Reverter!Path,
      Reverter!Content, Reverter!IndexEntry, Reverter!Journal, Reverter!Progress,
      Reverter!MovedPath, Reverter!Forward, InOrder, InOrderAt, Underway, JournalMatches,
      Reverter!CheckWritten, Reverter!Go, Reverter!GitUnchanged, Reverter!world, Reverter!memory,
      Reverter!rollback, Reverter!outside, Reverter!given
<1>5. Recorded'
  BY <1>0, ReverterAssumption
  DEF ReverterInv, Recorded, Reverter!Path, RecordedAt, KeptAt, Tells, Progressed, AsItWas,
      Reverter!TypeOK, Reverter!Content, Reverter!IndexEntry, Reverter!Journal, Reverter!Progress,
      Reverter!MovedPath, Reverter!Forward, Reverter!Backward, InOrder, InOrderAt, Underway,
      RollsBack, JournalMatches, Reverter!CheckWritten, Reverter!Go, Reverter!GitUnchanged,
      Reverter!world, Reverter!memory, Reverter!rollback, Reverter!outside, Reverter!given
<1>6. Advancing'
  BY <1>0, ReverterAssumption
  DEF ReverterInv, Advancing, Reverter!Forward, Reverter!Path, AsTheBase, AsItWas, Underway,
      Reverter!TypeOK, Reverter!Content, Reverter!IndexEntry, Reverter!Journal, Reverter!Progress,
      Reverter!MovedPath, Reverter!Backward, InOrder, InOrderAt, Progressed, JournalMatches,
      Recorded, RecordedAt, KeptAt, Tells, Reverter!CheckWritten, Reverter!Go,
      Reverter!GitUnchanged, Reverter!world, Reverter!memory, Reverter!rollback, Reverter!outside,
      Reverter!given
<1>7. Returning'
  BY <1>0, ReverterAssumption
  DEF ReverterInv, Returning, Reverter!Backward, Reverter!Path, AsItWas, Reverter!TypeOK,
      Reverter!Content, Reverter!IndexEntry, Reverter!Journal, Reverter!Progress,
      Reverter!MovedPath, Reverter!Forward, InOrder, InOrderAt, Underway, Progressed, RollsBack,
      JournalMatches, Recorded, RecordedAt, KeptAt, Tells, Advancing, AsTheBase,
      Reverter!CheckWritten, Reverter!Go, Reverter!GitUnchanged, Reverter!world, Reverter!memory,
      Reverter!rollback, Reverter!outside, Reverter!given
<1>8. CommittedIsDone'
  BY <1>0, ReverterAssumption
  DEF ReverterInv, CommittedIsDone, Reverter!Path, AsTheBase, Reverter!TypeOK, Reverter!Content,
      Reverter!IndexEntry, Reverter!Journal, Reverter!Progress, Reverter!MovedPath,
      Reverter!Forward, Reverter!Backward, InOrder, InOrderAt, Underway, Progressed,
      JournalMatches, Advancing, AsItWas, Reverter!CheckWritten, Reverter!Go,
      Reverter!GitUnchanged, Reverter!world, Reverter!memory, Reverter!rollback, Reverter!outside,
      Reverter!given
<1> QED
  BY <1>1, <1>2, <1>3, <1>4, <1>5, <1>6, <1>7, <1>8 DEF ReverterInv

LEMMA WriteIndexKeeps == ASSUME ReverterInv, Reverter!WriteIndex PROVE ReverterInv'
<1>0. Reverter!Path' = Reverter!Path /\ Reverter!Journal' = Reverter!Journal
        /\ UNCHANGED <<fileCount, inBase, original>>
  BY DEF Reverter!WriteIndex, Reverter!given, Reverter!Path, Reverter!Journal
<1>1. Reverter!TypeOK'
  BY <1>0, ReverterAssumption
  DEF ReverterInv, Reverter!TypeOK, Reverter!Path, Reverter!Content, Reverter!IndexEntry,
      Reverter!Journal, Reverter!Progress, Reverter!MovedPath, Reverter!Forward, Reverter!Backward,
      InOrder, InOrderAt, Underway, Progressed, RollsBack, Reverter!WriteIndex, Reverter!Go,
      Reverter!memory, Reverter!rollback, Reverter!outside, Reverter!given
<1>2. JournalMatches'
  BY <1>0, ReverterAssumption
  DEF ReverterInv, JournalMatches, Reverter!Forward, Reverter!WriteIndex, Reverter!Go,
      Reverter!memory, Reverter!rollback, Reverter!outside, Reverter!given
<1>3. InOrder'
  BY <1>0, ReverterAssumption
  DEF ReverterInv, InOrder, Reverter!Forward, Reverter!Path, InOrderAt, Underway, Progressed,
      Reverter!TypeOK, Reverter!Content, Reverter!IndexEntry, Reverter!Journal, Reverter!Progress,
      Reverter!MovedPath, Reverter!Backward, JournalMatches, Reverter!WriteIndex, Reverter!Go,
      Reverter!memory, Reverter!rollback, Reverter!outside, Reverter!given
<1>4. RollsBack'
  BY <1>0, ReverterAssumption
  DEF ReverterInv, RollsBack, Reverter!Backward, Progressed, Reverter!TypeOK, Reverter!Path,
      Reverter!Content, Reverter!IndexEntry, Reverter!Journal, Reverter!Progress,
      Reverter!MovedPath, Reverter!Forward, InOrder, InOrderAt, Underway, JournalMatches,
      Reverter!WriteIndex, Reverter!Go, Reverter!memory, Reverter!rollback, Reverter!outside,
      Reverter!given
<1>5. Recorded'
  <2>1. at \in Reverter!Path /\ Progressed(at) /\ RecordedAt(at)
          /\ revertJournal.pathProgress[at].phase = "written"
    <3>1. at \in Reverter!Path
      BY Underlying DEF Reverter!WriteIndex, Reverter!Go
    <3> QED
      BY <3>1
      DEF Reverter!WriteIndex, Reverter!Go, ReverterInv, InOrder, InOrderAt, Reverter!Forward,
          Underway, Recorded
  <2>2. /\ UNCHANGED <<at, target, revertRecovery, entry, revertJournal, revertTouched>>
        /\ \A p \in Reverter!Path \ {at} : index'[p] = index[p]
    BY <2>1 DEF Reverter!WriteIndex, Reverter!memory, Reverter!outside, ReverterInv, Reverter!TypeOK
  <2>3. \A p \in Reverter!Path \ {at} : RecordedAt(p)'
    BY <1>0, <2>2, RecordedFrame DEF Progressed, ReverterInv, Recorded
  <2>4. RecordedAt(at)'
    BY <1>0, <2>1, <2>2 DEF RecordedAt, KeptAt, Tells, Progressed
  <2> QED
    BY <1>0, <2>2, <2>3, <2>4 DEF Recorded
<1>6. Advancing'
  BY <1>0, ReverterAssumption
  DEF ReverterInv, Advancing, Reverter!Forward, Reverter!Path, AsTheBase, AsItWas, Underway,
      Reverter!TypeOK, Reverter!Content, Reverter!IndexEntry, Reverter!Journal, Reverter!Progress,
      Reverter!MovedPath, Reverter!Backward, InOrder, InOrderAt, Progressed, JournalMatches,
      Recorded, RecordedAt, KeptAt, Tells, Reverter!WriteIndex, Reverter!Go, Reverter!memory,
      Reverter!rollback, Reverter!outside, Reverter!given
<1>7. Returning'
  BY <1>0, ReverterAssumption
  DEF ReverterInv, Returning, Reverter!Backward, Reverter!Path, AsItWas, Reverter!TypeOK,
      Reverter!Content, Reverter!IndexEntry, Reverter!Journal, Reverter!Progress,
      Reverter!MovedPath, Reverter!Forward, InOrder, InOrderAt, Underway, Progressed, RollsBack,
      JournalMatches, Recorded, RecordedAt, KeptAt, Tells, Advancing, AsTheBase,
      Reverter!WriteIndex, Reverter!Go, Reverter!memory, Reverter!rollback, Reverter!outside,
      Reverter!given
<1>8. CommittedIsDone'
  BY <1>0, ReverterAssumption
  DEF ReverterInv, CommittedIsDone, Reverter!Path, AsTheBase, Reverter!TypeOK, Reverter!Content,
      Reverter!IndexEntry, Reverter!Journal, Reverter!Progress, Reverter!MovedPath,
      Reverter!Forward, Reverter!Backward, InOrder, InOrderAt, Underway, Progressed,
      JournalMatches, Advancing, AsItWas, Reverter!WriteIndex, Reverter!Go, Reverter!memory,
      Reverter!rollback, Reverter!outside, Reverter!given
<1> QED
  BY <1>1, <1>2, <1>3, <1>4, <1>5, <1>6, <1>7, <1>8 DEF ReverterInv

LEMMA ReadIndexKeeps == ASSUME ReverterInv, Reverter!ReadIndex PROVE ReverterInv'
<1>0. Reverter!Path' = Reverter!Path /\ Reverter!Journal' = Reverter!Journal
        /\ UNCHANGED <<fileCount, inBase, original>>
  BY DEF Reverter!ReadIndex, Reverter!world, Reverter!given, Reverter!Path, Reverter!Journal
<1>a. at \in Reverter!Path /\ revertJournal # None /\ entry[at] \in Reverter!MovedPath
        /\ entry[at] # None
  BY Underlying DEF Reverter!ReadIndex, Reverter!Go, Underway
<1>b. /\ entry' \in [Reverter!Path -> Reverter!MovedPath \cup {None}]
      /\ \A p \in Reverter!Path \ {at} : entry'[p] = entry[p]
      /\ entry'[at] \in Reverter!MovedPath /\ entry'[at] # None
      /\ entry'[at].hadOriginal = entry[at].hadOriginal
      /\ entry'[at].originalIndex = entry[at].originalIndex
  BY <1>a, ReverterAssumption
  DEF Reverter!ReadIndex, ReverterInv, Reverter!TypeOK, Reverter!MovedPath
<1>1. Reverter!TypeOK'
  BY <1>0, <1>a, <1>b, ReverterAssumption
  DEF ReverterInv, Reverter!TypeOK, Reverter!Path, Reverter!Content, Reverter!IndexEntry,
      Reverter!Journal, Reverter!Progress, Reverter!MovedPath, Reverter!Forward, Reverter!Backward,
      InOrder, InOrderAt, Underway, Progressed, RollsBack, Reverter!ReadIndex, Reverter!Go,
      Reverter!world, Reverter!rollback, Reverter!outside, Reverter!given
<1>2. JournalMatches'
  BY <1>0, <1>a, <1>b, ReverterAssumption
  DEF ReverterInv, JournalMatches, Reverter!Forward, Reverter!ReadIndex, Reverter!Go,
      Reverter!world, Reverter!rollback, Reverter!outside, Reverter!given
<1>3. InOrder'
  BY <1>0, <1>a, <1>b, ReverterAssumption
  DEF ReverterInv, InOrder, Reverter!Forward, Reverter!Path, InOrderAt, Underway, Progressed,
      Reverter!TypeOK, Reverter!Content, Reverter!IndexEntry, Reverter!Journal, Reverter!Progress,
      Reverter!MovedPath, Reverter!Backward, JournalMatches, Reverter!ReadIndex, Reverter!Go,
      Reverter!world, Reverter!rollback, Reverter!outside, Reverter!given
<1>4. RollsBack'
  BY <1>0, <1>a, <1>b, ReverterAssumption
  DEF ReverterInv, RollsBack, Reverter!Backward, Progressed, Reverter!TypeOK, Reverter!Path,
      Reverter!Content, Reverter!IndexEntry, Reverter!Journal, Reverter!Progress,
      Reverter!MovedPath, Reverter!Forward, InOrder, InOrderAt, Underway, JournalMatches,
      Reverter!ReadIndex, Reverter!Go, Reverter!world, Reverter!rollback, Reverter!outside,
      Reverter!given
<1>5. Recorded'
  BY <1>0, <1>a, <1>b, ReverterAssumption
  DEF ReverterInv, Recorded, Reverter!Path, RecordedAt, KeptAt, Tells, Progressed, AsItWas,
      Reverter!TypeOK, Reverter!Content, Reverter!IndexEntry, Reverter!Journal, Reverter!Progress,
      Reverter!MovedPath, Reverter!Forward, Reverter!Backward, InOrder, InOrderAt, Underway,
      RollsBack, JournalMatches, Reverter!ReadIndex, Reverter!Go, Reverter!world,
      Reverter!rollback, Reverter!outside, Reverter!given
<1>6. Advancing'
  BY <1>0, <1>a, <1>b, ReverterAssumption
  DEF ReverterInv, Advancing, Reverter!Forward, Reverter!Path, AsTheBase, AsItWas, Underway,
      Reverter!TypeOK, Reverter!Content, Reverter!IndexEntry, Reverter!Journal, Reverter!Progress,
      Reverter!MovedPath, Reverter!Backward, InOrder, InOrderAt, Progressed, JournalMatches,
      Recorded, RecordedAt, KeptAt, Tells, Reverter!ReadIndex, Reverter!Go, Reverter!world,
      Reverter!rollback, Reverter!outside, Reverter!given
<1>7. Returning'
  BY <1>0, <1>a, <1>b, ReverterAssumption
  DEF ReverterInv, Returning, Reverter!Backward, Reverter!Path, AsItWas, Reverter!TypeOK,
      Reverter!Content, Reverter!IndexEntry, Reverter!Journal, Reverter!Progress,
      Reverter!MovedPath, Reverter!Forward, InOrder, InOrderAt, Underway, Progressed, RollsBack,
      JournalMatches, Recorded, RecordedAt, KeptAt, Tells, Advancing, AsTheBase,
      Reverter!ReadIndex, Reverter!Go, Reverter!world, Reverter!rollback, Reverter!outside,
      Reverter!given
<1>8. CommittedIsDone'
  BY <1>0, <1>a, <1>b, ReverterAssumption
  DEF ReverterInv, CommittedIsDone, Reverter!Path, AsTheBase, Reverter!TypeOK, Reverter!Content,
      Reverter!IndexEntry, Reverter!Journal, Reverter!Progress, Reverter!MovedPath,
      Reverter!Forward, Reverter!Backward, InOrder, InOrderAt, Underway, Progressed,
      JournalMatches, Advancing, AsItWas, Reverter!ReadIndex, Reverter!Go, Reverter!world,
      Reverter!rollback, Reverter!outside, Reverter!given
<1> QED
  BY <1>1, <1>2, <1>3, <1>4, <1>5, <1>6, <1>7, <1>8 DEF ReverterInv

LEMMA JournalIndexKeeps == ASSUME ReverterInv, Reverter!JournalIndex PROVE ReverterInv'
<1>0. Reverter!Path' = Reverter!Path /\ Reverter!Journal' = Reverter!Journal
        /\ UNCHANGED <<fileCount, inBase, original>>
  BY
  DEF Reverter!JournalIndex, Reverter!world, Reverter!given, Reverter!WriteProgress, Reverter!Path,
      Reverter!Journal
<1>a. at \in Reverter!Path /\ revertJournal # None /\ entry[at] \in Reverter!MovedPath
        /\ entry[at] # None
  BY Underlying DEF Reverter!JournalIndex, Reverter!Go, Underway
<1>b. /\ revertJournal' \in Reverter!Journal /\ revertJournal' # None
           /\ revertJournal'.state = revertJournal.state
      /\ revertJournal'.pathProgress[at] = [phase |-> "written", entry |-> entry[at]]
      /\ revertJournal'.pathProgress[at] # None
      /\ \A p \in Reverter!Path \ {at} : revertJournal'.pathProgress[p] = revertJournal.pathProgress[p]
  BY <1>a, ProgressWritten DEF Reverter!JournalIndex, Reverter!WriteProgress, ReverterInv
<1>1. Reverter!TypeOK'
  BY <1>0, <1>a, <1>b, ReverterAssumption
  DEF ReverterInv, Reverter!TypeOK, Reverter!Path, Reverter!Content, Reverter!IndexEntry,
      Reverter!Forward, Reverter!Backward, Reverter!MovedPath, InOrder, InOrderAt, Underway,
      Progressed, RollsBack, Reverter!JournalIndex, Reverter!Go, Reverter!world, Reverter!rollback,
      Reverter!outside, Reverter!given
<1>2. JournalMatches'
  BY <1>0, <1>a, <1>b, ReverterAssumption
  DEF ReverterInv, JournalMatches, Reverter!Forward, Reverter!JournalIndex, Reverter!Go,
      Reverter!world, Reverter!rollback, Reverter!outside, Reverter!given
<1>3. InOrder'
  <2>1. /\ revertPc \in Reverter!Forward /\ revertPc' \in Reverter!Forward
        /\ revertPc \notin {"begin", "commit", "flush"}
        /\ revertPc' \notin {"begin", "commit", "flush"} /\ Underway' /\ at' = at /\ moved' = moved
    BY DEF Reverter!JournalIndex, Reverter!Go, Reverter!Forward, Underway
  <2>2. InOrderAt(at)
    BY <1>a, <2>1 DEF ReverterInv, InOrder
  <2>3. InOrderAt(at)'
    BY <1>a, <1>b, <2>1, <2>2
    DEF Reverter!JournalIndex, Reverter!Go, InOrderAt, Underway, Progressed
  <2> QED
    BY <1>a, <1>b, <2>1, <2>3, StaysInOrder, ReverterAssumption
    DEF Reverter!JournalIndex, Reverter!world, Reverter!given, Progressed, ReverterInv,
        Reverter!TypeOK, Reverter!Path
<1>4. RollsBack'
  BY <1>0, <1>a, <1>b, ReverterAssumption
  DEF ReverterInv, RollsBack, Reverter!Backward, Progressed, Reverter!TypeOK, Reverter!Path,
      Reverter!Content, Reverter!IndexEntry, Reverter!Forward, Reverter!MovedPath, InOrder,
      InOrderAt, Underway, JournalMatches, Reverter!JournalIndex, Reverter!Go, Reverter!world,
      Reverter!rollback, Reverter!outside, Reverter!given
<1>5. Recorded'
  <2>1. \A p \in Reverter!Path \ {at} : RecordedAt(p)'
    BY <1>a, <1>b, RecordedFrame
    DEF Reverter!JournalIndex, Progressed, Reverter!world, Reverter!outside, ReverterInv, Recorded
  <2>2. /\ RecordedAt(at) /\ Progressed(at)' /\ revertJournal'.pathProgress[at].entry = entry'[at]
        /\ UNCHANGED <<at, target, revertRecovery, index, revertTouched, original>>
        /\ entry' = entry /\ revertJournal'.pathProgress[at].phase = "written"
    BY <1>a, <1>b
    DEF Reverter!JournalIndex, Reverter!Go, Progressed, Reverter!world, Reverter!outside,
        ReverterInv, Recorded, Advancing, Underway
  <2>3. RecordedAt(at)'
    BY <1>a, <1>b, <2>2 DEF RecordedAt, KeptAt, Tells, AsItWas
  <2> QED
    BY <1>0, <2>1, <2>2, <2>3 DEF Recorded
<1>6. Advancing'
  BY <1>0, <1>a, <1>b, ReverterAssumption
  DEF ReverterInv, Advancing, Reverter!Forward, Reverter!Path, AsTheBase, AsItWas, Underway,
      Reverter!TypeOK, Reverter!Content, Reverter!IndexEntry, Reverter!Backward,
      Reverter!MovedPath, InOrder, InOrderAt, Progressed, JournalMatches, Recorded, RecordedAt,
      KeptAt, Tells, Reverter!JournalIndex, Reverter!Go, Reverter!world, Reverter!rollback,
      Reverter!outside, Reverter!given
<1>7. Returning'
  BY <1>0, <1>a, <1>b, ReverterAssumption
  DEF ReverterInv, Returning, Reverter!Backward, Reverter!Path, AsItWas, Reverter!TypeOK,
      Reverter!Content, Reverter!IndexEntry, Reverter!Forward, Reverter!MovedPath, InOrder,
      InOrderAt, Underway, Progressed, RollsBack, JournalMatches, Recorded, RecordedAt, KeptAt,
      Tells, Advancing, AsTheBase, Reverter!JournalIndex, Reverter!Go, Reverter!world,
      Reverter!rollback, Reverter!outside, Reverter!given
<1>8. CommittedIsDone'
  BY <1>0, <1>a, <1>b, ReverterAssumption
  DEF ReverterInv, CommittedIsDone, Reverter!Path, AsTheBase, Reverter!TypeOK, Reverter!Content,
      Reverter!IndexEntry, Reverter!Forward, Reverter!Backward, Reverter!MovedPath, InOrder,
      InOrderAt, Underway, Progressed, JournalMatches, Advancing, AsItWas, Reverter!JournalIndex,
      Reverter!Go, Reverter!world, Reverter!rollback, Reverter!outside, Reverter!given
<1> QED
  BY <1>1, <1>2, <1>3, <1>4, <1>5, <1>6, <1>7, <1>8 DEF ReverterInv

LEMMA RecheckKeeps == ASSUME ReverterInv, Reverter!Recheck PROVE ReverterInv'
<1>0. Reverter!Path' = Reverter!Path /\ Reverter!Journal' = Reverter!Journal
        /\ UNCHANGED <<fileCount, inBase, original>>
  BY DEF Reverter!Recheck, Reverter!world, Reverter!given, Reverter!Path, Reverter!Journal
<1>1. Reverter!TypeOK'
  BY <1>0, ReverterAssumption
  DEF ReverterInv, Reverter!TypeOK, Reverter!Path, Reverter!Content, Reverter!IndexEntry,
      Reverter!Journal, Reverter!Progress, Reverter!MovedPath, Reverter!Forward, Reverter!Backward,
      InOrder, InOrderAt, Underway, Progressed, RollsBack, Reverter!Recheck, Reverter!GitUnchanged,
      Reverter!world, Reverter!rollback, Reverter!outside, Reverter!given
<1>2. JournalMatches'
  BY <1>0, ReverterAssumption
  DEF ReverterInv, JournalMatches, Reverter!Forward, Reverter!Recheck, Reverter!GitUnchanged,
      Reverter!world, Reverter!rollback, Reverter!outside, Reverter!given
<1>3. InOrder'
  <2>1. /\ revertPc = "recheck" /\ at \in Reverter!Path /\ at' = at + 1
        /\ UNCHANGED <<revertJournal, entry, moved>>
        /\ revertPc' = IF at = fileCount THEN "commit" ELSE "verify"
    BY Underlying DEF Reverter!Recheck
  <2>2. ASSUME NEW p \in Reverter!Path PROVE InOrderAt(p)'
    <3>1. InOrderAt(p) /\ p \in Nat /\ at \in Nat
      BY <2>1, ReverterAssumption DEF ReverterInv, InOrder, Reverter!Forward, Reverter!Path
    <3>2. p < at' <=> (p < at \/ p = at)
      BY <2>1, <3>1
    <3> QED
      BY <2>1, <3>1, <3>2 DEF InOrderAt, Underway, Progressed
  <2> QED
    BY <1>0, <2>1, <2>2, ReverterAssumption DEF InOrder, Reverter!Path, ReverterInv, Reverter!TypeOK
<1>4. RollsBack'
  BY <1>0, ReverterAssumption
  DEF ReverterInv, RollsBack, Reverter!Backward, Progressed, Reverter!TypeOK, Reverter!Path,
      Reverter!Content, Reverter!IndexEntry, Reverter!Journal, Reverter!Progress,
      Reverter!MovedPath, Reverter!Forward, InOrder, InOrderAt, Underway, JournalMatches,
      Reverter!Recheck, Reverter!GitUnchanged, Reverter!world, Reverter!rollback, Reverter!outside,
      Reverter!given
<1>5. Recorded'
  BY <1>0, ReverterAssumption
  DEF ReverterInv, Recorded, Reverter!Path, RecordedAt, KeptAt, Tells, Progressed, AsItWas,
      Reverter!TypeOK, Reverter!Content, Reverter!IndexEntry, Reverter!Journal, Reverter!Progress,
      Reverter!MovedPath, Reverter!Forward, Reverter!Backward, InOrder, InOrderAt, Underway,
      RollsBack, JournalMatches, Reverter!Recheck, Reverter!GitUnchanged, Reverter!world,
      Reverter!rollback, Reverter!outside, Reverter!given
<1>6. Advancing'
  BY <1>0, ReverterAssumption
  DEF ReverterInv, Advancing, Reverter!Forward, Reverter!Path, AsTheBase, AsItWas, Underway,
      Reverter!TypeOK, Reverter!Content, Reverter!IndexEntry, Reverter!Journal, Reverter!Progress,
      Reverter!MovedPath, Reverter!Backward, InOrder, InOrderAt, Progressed, JournalMatches,
      Recorded, RecordedAt, KeptAt, Tells, Reverter!Recheck, Reverter!GitUnchanged, Reverter!world,
      Reverter!rollback, Reverter!outside, Reverter!given
<1>7. Returning'
  BY <1>0, ReverterAssumption
  DEF ReverterInv, Returning, Reverter!Backward, Reverter!Path, AsItWas, Reverter!TypeOK,
      Reverter!Content, Reverter!IndexEntry, Reverter!Journal, Reverter!Progress,
      Reverter!MovedPath, Reverter!Forward, InOrder, InOrderAt, Underway, Progressed, RollsBack,
      JournalMatches, Recorded, RecordedAt, KeptAt, Tells, Advancing, AsTheBase, Reverter!Recheck,
      Reverter!GitUnchanged, Reverter!world, Reverter!rollback, Reverter!outside, Reverter!given
<1>8. CommittedIsDone'
  BY <1>0, ReverterAssumption
  DEF ReverterInv, CommittedIsDone, Reverter!Path, AsTheBase, Reverter!TypeOK, Reverter!Content,
      Reverter!IndexEntry, Reverter!Journal, Reverter!Progress, Reverter!MovedPath,
      Reverter!Forward, Reverter!Backward, InOrder, InOrderAt, Underway, Progressed,
      JournalMatches, Advancing, AsItWas, Reverter!Recheck, Reverter!GitUnchanged, Reverter!world,
      Reverter!rollback, Reverter!outside, Reverter!given
<1> QED
  BY <1>1, <1>2, <1>3, <1>4, <1>5, <1>6, <1>7, <1>8 DEF ReverterInv

LEMMA CommitJournalKeeps == ASSUME ReverterInv, Reverter!CommitJournal PROVE ReverterInv'
<1>0. Reverter!Path' = Reverter!Path /\ Reverter!Journal' = Reverter!Journal
        /\ UNCHANGED <<fileCount, inBase, original>>
  BY DEF Reverter!CommitJournal, Reverter!world, Reverter!given, Reverter!Path, Reverter!Journal
<1>a. /\ revertJournal \in Reverter!Journal /\ revertJournal # None /\ at = fileCount + 1
      /\ \A p \in Reverter!Path : p < at /\ revertJournal.pathProgress[p] # None
  BY
  DEF Reverter!CommitJournal, Reverter!Go, ReverterInv, InOrder, InOrderAt, JournalMatches,
      Reverter!TypeOK, Reverter!Path, Reverter!Forward, Progressed
<1>b. \A p \in Reverter!Path : /\ revertJournal.pathProgress[p] \in Reverter!Progress
                               /\ [revertJournal.pathProgress[p] EXCEPT !.phase = "reverted"] \in Reverter!Progress
                               /\ [revertJournal.pathProgress[p] EXCEPT !.phase = "reverted"].entry =
                                    revertJournal.pathProgress[p].entry
                               /\ [revertJournal.pathProgress[p] EXCEPT !.phase = "reverted"].phase = "reverted"
  BY <1>a DEF Reverter!Journal, Reverter!Progress
<1>c. /\ revertJournal' \in Reverter!Journal /\ revertJournal'.state = "shelved"
      /\ \A p \in Reverter!Path : /\ revertJournal'.pathProgress[p] \in Reverter!Progress
                                  /\ revertJournal'.pathProgress[p] # None
                                  /\ revertJournal'.pathProgress[p].entry = revertJournal.pathProgress[p].entry
                                  /\ revertJournal'.pathProgress[p].phase = "reverted"
  BY <1>b, ReverterAssumption DEF Reverter!CommitJournal, Reverter!Journal
<1>d. revertJournal' # None
  BY <1>c, ReverterAssumption DEF Reverter!Journal, Reverter!Path, ReverterInv, Reverter!TypeOK
<1>1. Reverter!TypeOK'
  BY <1>0, <1>a, <1>b, <1>c, <1>d, ReverterAssumption
  DEF ReverterInv, Reverter!TypeOK, Reverter!Path, Reverter!Content, Reverter!IndexEntry,
      Reverter!Forward, Reverter!Backward, Reverter!MovedPath, InOrder, InOrderAt, Underway,
      Progressed, RollsBack, Reverter!CommitJournal, Reverter!Go, Reverter!world, Reverter!memory,
      Reverter!rollback, Reverter!outside, Reverter!given
<1>2. JournalMatches'
  BY <1>0, <1>a, <1>b, <1>c, <1>d, ReverterAssumption
  DEF ReverterInv, JournalMatches, Reverter!Forward, Reverter!CommitJournal, Reverter!Go,
      Reverter!Path, Reverter!world, Reverter!memory, Reverter!rollback, Reverter!outside,
      Reverter!given
<1>3. InOrder'
  BY <1>0, <1>a, <1>b, <1>c, <1>d, ReverterAssumption
  DEF ReverterInv, InOrder, Reverter!Forward, Reverter!Path, InOrderAt, Underway, Progressed,
      Reverter!TypeOK, Reverter!Content, Reverter!IndexEntry, Reverter!Backward,
      Reverter!MovedPath, JournalMatches, Reverter!CommitJournal, Reverter!Go, Reverter!world,
      Reverter!memory, Reverter!rollback, Reverter!outside, Reverter!given
<1>4. RollsBack'
  BY <1>0, <1>a, <1>b, <1>c, <1>d, ReverterAssumption
  DEF ReverterInv, RollsBack, Reverter!Backward, Progressed, Reverter!TypeOK, Reverter!Path,
      Reverter!Content, Reverter!IndexEntry, Reverter!Forward, Reverter!MovedPath, InOrder,
      InOrderAt, Underway, JournalMatches, Reverter!CommitJournal, Reverter!Go, Reverter!world,
      Reverter!memory, Reverter!rollback, Reverter!outside, Reverter!given
<1>5. Recorded'
  BY <1>0, <1>a, <1>b, <1>c, <1>d, ReverterAssumption
  DEF ReverterInv, Recorded, Reverter!Path, RecordedAt, KeptAt, Tells, Progressed, AsItWas,
      Reverter!TypeOK, Reverter!Content, Reverter!IndexEntry, Reverter!Forward, Reverter!Backward,
      Reverter!MovedPath, InOrder, InOrderAt, Underway, RollsBack, JournalMatches,
      Reverter!CommitJournal, Reverter!Go, Reverter!world, Reverter!memory, Reverter!rollback,
      Reverter!outside, Reverter!given
<1>6. Advancing'
  BY <1>0, <1>a, <1>b, <1>c, <1>d, ReverterAssumption
  DEF ReverterInv, Advancing, Reverter!Forward, Reverter!Path, AsTheBase, AsItWas, Underway,
      Reverter!TypeOK, Reverter!Content, Reverter!IndexEntry, Reverter!Backward,
      Reverter!MovedPath, InOrder, InOrderAt, Progressed, JournalMatches, Recorded, RecordedAt,
      KeptAt, Tells, Reverter!CommitJournal, Reverter!Go, Reverter!world, Reverter!memory,
      Reverter!rollback, Reverter!outside, Reverter!given
<1>7. Returning'
  BY <1>0, <1>a, <1>b, <1>c, <1>d, ReverterAssumption
  DEF ReverterInv, Returning, Reverter!Backward, Reverter!Path, AsItWas, Reverter!TypeOK,
      Reverter!Content, Reverter!IndexEntry, Reverter!Forward, Reverter!MovedPath, InOrder,
      InOrderAt, Underway, Progressed, RollsBack, JournalMatches, Recorded, RecordedAt, KeptAt,
      Tells, Advancing, AsTheBase, Reverter!CommitJournal, Reverter!Go, Reverter!world,
      Reverter!memory, Reverter!rollback, Reverter!outside, Reverter!given
<1>8. CommittedIsDone'
  BY <1>0, <1>a, <1>b, <1>c, <1>d, ReverterAssumption
  DEF ReverterInv, CommittedIsDone, Reverter!Path, AsTheBase, Reverter!TypeOK, Reverter!Content,
      Reverter!IndexEntry, Reverter!Forward, Reverter!Backward, Reverter!MovedPath, InOrder,
      InOrderAt, Underway, Progressed, JournalMatches, Advancing, AsItWas, Reverter!CommitJournal,
      Reverter!Go, Reverter!world, Reverter!memory, Reverter!rollback, Reverter!outside,
      Reverter!given
<1> QED
  BY <1>1, <1>2, <1>3, <1>4, <1>5, <1>6, <1>7, <1>8 DEF ReverterInv

LEMMA FlushKeeps == ASSUME ReverterInv, Reverter!Flush PROVE ReverterInv'
<1>0. Reverter!Path' = Reverter!Path /\ Reverter!Journal' = Reverter!Journal
        /\ UNCHANGED <<fileCount, inBase, original>>
  BY DEF Reverter!Flush, Reverter!world, Reverter!given, Reverter!Path, Reverter!Journal
<1>a. /\ at' = 1 /\ at' \in 1..fileCount + 1 /\ moved' = {}
      /\ entry' \in [Reverter!Path -> Reverter!MovedPath \cup {None}]
           /\ \A p \in Reverter!Path : entry'[p] = None
      /\ expectedIndex' = index /\ todo' = {} /\ retained' = {} /\ revertResuming' = FALSE
  BY ForgottenTypes DEF Reverter!Flush, ReverterInv, Reverter!world, Reverter!given
<1>1. Reverter!TypeOK'
  BY <1>0, <1>a, ReverterAssumption
  DEF ReverterInv, Reverter!TypeOK, Reverter!Path, Reverter!Content, Reverter!IndexEntry,
      Reverter!Journal, Reverter!Progress, Reverter!MovedPath, Reverter!Forward, Reverter!Backward,
      InOrder, InOrderAt, Underway, Progressed, RollsBack, Reverter!Flush, Reverter!Go,
      Reverter!world, Reverter!outside, Reverter!given
<1>2. JournalMatches'
  BY <1>0, <1>a, ReverterAssumption
  DEF ReverterInv, JournalMatches, Reverter!Forward, Reverter!Flush, Reverter!Go, Reverter!world,
      Reverter!outside, Reverter!given
<1>3. InOrder'
  BY <1>0, <1>a, ReverterAssumption
  DEF ReverterInv, InOrder, Reverter!Forward, Reverter!Path, InOrderAt, Underway, Progressed,
      Reverter!TypeOK, Reverter!Content, Reverter!IndexEntry, Reverter!Journal, Reverter!Progress,
      Reverter!MovedPath, Reverter!Backward, JournalMatches, Reverter!Flush, Reverter!Go,
      Reverter!world, Reverter!outside, Reverter!given
<1>4. RollsBack'
  BY <1>0, <1>a, ReverterAssumption
  DEF ReverterInv, RollsBack, Reverter!Backward, Progressed, Reverter!TypeOK, Reverter!Path,
      Reverter!Content, Reverter!IndexEntry, Reverter!Journal, Reverter!Progress,
      Reverter!MovedPath, Reverter!Forward, InOrder, InOrderAt, Underway, JournalMatches,
      Reverter!Flush, Reverter!Go, Reverter!world, Reverter!outside, Reverter!given
<1>5. Recorded'
  BY <1>0, <1>a, ReverterAssumption
  DEF ReverterInv, Recorded, Reverter!Path, RecordedAt, KeptAt, Tells, Progressed, AsItWas,
      Reverter!TypeOK, Reverter!Content, Reverter!IndexEntry, Reverter!Journal, Reverter!Progress,
      Reverter!MovedPath, Reverter!Forward, Reverter!Backward, InOrder, InOrderAt, Underway,
      RollsBack, JournalMatches, Reverter!Flush, Reverter!Go, Reverter!world, Reverter!outside,
      Reverter!given
<1>6. Advancing'
  BY <1>0, <1>a, ReverterAssumption
  DEF ReverterInv, Advancing, Reverter!Forward, Reverter!Path, AsTheBase, AsItWas, Underway,
      Reverter!TypeOK, Reverter!Content, Reverter!IndexEntry, Reverter!Journal, Reverter!Progress,
      Reverter!MovedPath, Reverter!Backward, InOrder, InOrderAt, Progressed, JournalMatches,
      Recorded, RecordedAt, KeptAt, Tells, Reverter!Flush, Reverter!Go, Reverter!world,
      Reverter!outside, Reverter!given
<1>7. Returning'
  BY <1>0, <1>a, ReverterAssumption
  DEF ReverterInv, Returning, Reverter!Backward, Reverter!Path, AsItWas, Reverter!TypeOK,
      Reverter!Content, Reverter!IndexEntry, Reverter!Journal, Reverter!Progress,
      Reverter!MovedPath, Reverter!Forward, InOrder, InOrderAt, Underway, Progressed, RollsBack,
      JournalMatches, Recorded, RecordedAt, KeptAt, Tells, Advancing, AsTheBase, Reverter!Flush,
      Reverter!Go, Reverter!world, Reverter!outside, Reverter!given
<1>8. CommittedIsDone'
  BY <1>0, <1>a, ReverterAssumption
  DEF ReverterInv, CommittedIsDone, Reverter!Path, AsTheBase, Reverter!TypeOK, Reverter!Content,
      Reverter!IndexEntry, Reverter!Journal, Reverter!Progress, Reverter!MovedPath,
      Reverter!Forward, Reverter!Backward, InOrder, InOrderAt, Underway, Progressed,
      JournalMatches, Advancing, AsItWas, Reverter!Flush, Reverter!Go, Reverter!world,
      Reverter!outside, Reverter!given
<1> QED
  BY <1>1, <1>2, <1>3, <1>4, <1>5, <1>6, <1>7, <1>8 DEF ReverterInv

LEMMA RevertThrowKeeps == ASSUME ReverterInv, Reverter!Throw PROVE ReverterInv'
<1>0. Reverter!Path' = Reverter!Path /\ Reverter!Journal' = Reverter!Journal
        /\ UNCHANGED <<fileCount, inBase, original>>
  BY DEF Reverter!Throw, Reverter!world, Reverter!given, Reverter!Path, Reverter!Journal
<1>a. 1 \in 1..fileCount + 1 /\ revertPc # "flush" /\ UNCHANGED <<target, revertRecovery, index,
        revertTouched>>
  BY ReverterAssumption
  DEF Reverter!Throw, ReverterInv, Reverter!TypeOK, Reverter!world, Reverter!outside
<1>1. Reverter!TypeOK'
  BY <1>0, <1>a, ReverterAssumption
  DEF ReverterInv, Reverter!TypeOK, Reverter!Path, Reverter!Content, Reverter!IndexEntry,
      Reverter!Journal, Reverter!Progress, Reverter!MovedPath, Reverter!Forward, Reverter!Backward,
      InOrder, InOrderAt, Underway, Progressed, RollsBack, Reverter!Throw, Reverter!world,
      Reverter!outside, Reverter!given
<1>2. JournalMatches'
  BY <1>0, <1>a, ReverterAssumption
  DEF ReverterInv, JournalMatches, Reverter!Forward, Reverter!Throw, Reverter!world,
      Reverter!outside, Reverter!given
<1>3. InOrder'
  BY <1>0, <1>a, ReverterAssumption
  DEF ReverterInv, InOrder, Reverter!Forward, Reverter!Path, InOrderAt, Underway, Progressed,
      Reverter!TypeOK, Reverter!Content, Reverter!IndexEntry, Reverter!Journal, Reverter!Progress,
      Reverter!MovedPath, Reverter!Backward, JournalMatches, Reverter!Throw, Reverter!world,
      Reverter!outside, Reverter!given
<1>4. RollsBack'
  BY <1>0, <1>a, ReverterAssumption
  DEF ReverterInv, RollsBack, Reverter!Backward, Progressed, Reverter!TypeOK, Reverter!Path,
      Reverter!Content, Reverter!IndexEntry, Reverter!Journal, Reverter!Progress,
      Reverter!MovedPath, Reverter!Forward, InOrder, InOrderAt, Underway, JournalMatches,
      Reverter!Throw, Reverter!world, Reverter!outside, Reverter!given
<1>5. Recorded'
  BY <1>0, <1>a, ReverterAssumption
  DEF ReverterInv, Recorded, Reverter!Path, RecordedAt, KeptAt, Tells, Progressed, AsItWas,
      Reverter!TypeOK, Reverter!Content, Reverter!IndexEntry, Reverter!Journal, Reverter!Progress,
      Reverter!MovedPath, Reverter!Forward, Reverter!Backward, InOrder, InOrderAt, Underway,
      RollsBack, JournalMatches, Reverter!Throw, Reverter!world, Reverter!outside, Reverter!given
<1>6. Advancing'
  BY <1>0, <1>a, ReverterAssumption
  DEF ReverterInv, Advancing, Reverter!Forward, Reverter!Path, AsTheBase, AsItWas, Underway,
      Reverter!TypeOK, Reverter!Content, Reverter!IndexEntry, Reverter!Journal, Reverter!Progress,
      Reverter!MovedPath, Reverter!Backward, InOrder, InOrderAt, Progressed, JournalMatches,
      Recorded, RecordedAt, KeptAt, Tells, Reverter!Throw, Reverter!world, Reverter!outside,
      Reverter!given
<1>7. Returning'
  <2>1. revertPc' \in {"check", "conclude"} /\ todo' = moved /\ retained' = {}
          /\ revertPc \in Reverter!Forward
    BY DEF Reverter!Throw
  <2>2. ASSUME NEW p \in Reverter!Path, p \notin moved
        PROVE  revertRecovery[p] = "absent" /\ (p \notin revertTouched => AsItWas(p))
    <3>1. RecordedAt(p) /\ InOrderAt(p)
      BY <2>1 DEF ReverterInv, Recorded, InOrder
    <3>2. CASE ~Progressed(p)
      BY <3>1, <3>2 DEF RecordedAt
    <3>3. CASE Progressed(p)
      <4>1. p = at /\ revertPc = "move"
        BY <2>2, <3>1, <3>3 DEF InOrderAt
      <4> QED
        BY <2>1, <4>1 DEF ReverterInv, Advancing
    <3> QED
      BY <3>2, <3>3
  <2> QED
    BY <1>0, <1>a, <2>1, <2>2 DEF Returning, AsItWas
<1>8. CommittedIsDone'
  BY <1>0, <1>a, ReverterAssumption
  DEF ReverterInv, CommittedIsDone, Reverter!Path, AsTheBase, Reverter!TypeOK, Reverter!Content,
      Reverter!IndexEntry, Reverter!Journal, Reverter!Progress, Reverter!MovedPath,
      Reverter!Forward, Reverter!Backward, InOrder, InOrderAt, Underway, Progressed,
      JournalMatches, Advancing, AsItWas, Reverter!Throw, Reverter!world, Reverter!outside,
      Reverter!given
<1> QED
  BY <1>1, <1>2, <1>3, <1>4, <1>5, <1>6, <1>7, <1>8 DEF ReverterInv

LEMMA RetainKeeps == ASSUME ReverterInv, Reverter!Retain PROVE ReverterInv'
<1>0. Reverter!Path' = Reverter!Path /\ Reverter!Journal' = Reverter!Journal
        /\ UNCHANGED <<fileCount, inBase, original>>
  BY DEF Reverter!Retain, Reverter!world, Reverter!given, Reverter!Path, Reverter!Journal
<1>a. /\ Reverter!Last \in todo /\ Reverter!Last \in Reverter!Path /\ Reverter!Last \in moved
           /\ Progressed(Reverter!Last) /\ RecordedAt(Reverter!Last)
      /\ entry[Reverter!Last] \in Reverter!MovedPath /\ entry[Reverter!Last] # None
      /\ Tells(entry[Reverter!Last], Reverter!Last)
  BY Rolling DEF Reverter!Retain, Reverter!Go, Reverter!Backward
<1>b. /\ todo' = todo \ {Reverter!Last} /\ todo' \in SUBSET Reverter!Path
           /\ retained' \in SUBSET Reverter!Path
      /\ Reverter!Path \ (todo' \cup retained') \subseteq (Reverter!Path \ (todo \cup retained))
      /\ revertPc' \in {"check", "conclude"}
      /\ UNCHANGED <<Reverter!memory, revertResuming, revertJournal>>
      /\ RollsBack'
  BY Settling DEF Reverter!Retain, Reverter!Go, Reverter!Backward, Reverter!world, Reverter!given
<1>1. Reverter!TypeOK'
  BY <1>0, <1>b
  DEF Reverter!Retain, ReverterInv, Reverter!TypeOK, Reverter!memory, Reverter!world,
      Reverter!given, Reverter!outside, Reverter!Backward
<1>2. JournalMatches'
  BY <1>0, <1>a, <1>b, ReverterAssumption, LastInTodo
  DEF ReverterInv, JournalMatches, Reverter!Forward, Reverter!Retain, Reverter!Backward,
      Reverter!world, Reverter!outside, Reverter!given
<1>3. InOrder'
  BY <1>0, <1>a, <1>b, ReverterAssumption, LastInTodo
  DEF ReverterInv, InOrder, Reverter!Forward, Reverter!Path, InOrderAt, Underway, Progressed,
      Reverter!TypeOK, Reverter!Content, Reverter!IndexEntry, Reverter!Journal, Reverter!Progress,
      Reverter!MovedPath, Reverter!Backward, JournalMatches, Reverter!Retain, Reverter!world,
      Reverter!outside, Reverter!given
<1>4. RollsBack'
  BY <1>b
<1>5. Recorded'
  BY <1>0, <1>b, RecordedFrame
  DEF Reverter!Retain, Reverter!memory, Reverter!world, Reverter!outside, Progressed, ReverterInv,
      Recorded
<1>6. Advancing'
  BY <1>0, <1>a, <1>b, ReverterAssumption, LastInTodo
  DEF ReverterInv, Advancing, Reverter!Forward, Reverter!Path, AsTheBase, AsItWas, Underway,
      Reverter!TypeOK, Reverter!Content, Reverter!IndexEntry, Reverter!Journal, Reverter!Progress,
      Reverter!MovedPath, Reverter!Backward, InOrder, InOrderAt, Progressed, JournalMatches,
      Recorded, RecordedAt, KeptAt, Tells, Reverter!Retain, Reverter!world, Reverter!outside,
      Reverter!given
<1>7. Returning'
  BY <1>0, <1>a, <1>b, ReverterAssumption, LastInTodo
  DEF ReverterInv, Returning, Reverter!Backward, Reverter!Path, AsItWas, Reverter!TypeOK,
      Reverter!Content, Reverter!IndexEntry, Reverter!Journal, Reverter!Progress,
      Reverter!MovedPath, Reverter!Forward, InOrder, InOrderAt, Underway, Progressed, RollsBack,
      JournalMatches, Recorded, RecordedAt, KeptAt, Tells, Advancing, AsTheBase, Reverter!Retain,
      Reverter!world, Reverter!outside, Reverter!given
<1>8. CommittedIsDone'
  BY <1>0, <1>a, <1>b, ReverterAssumption, LastInTodo
  DEF ReverterInv, CommittedIsDone, Reverter!Path, AsTheBase, Reverter!TypeOK, Reverter!Content,
      Reverter!IndexEntry, Reverter!Journal, Reverter!Progress, Reverter!MovedPath,
      Reverter!Forward, Reverter!Backward, InOrder, InOrderAt, Underway, Progressed,
      JournalMatches, Advancing, AsItWas, Reverter!Retain, Reverter!world, Reverter!outside,
      Reverter!given
<1> QED
  BY <1>1, <1>2, <1>3, <1>4, <1>5, <1>6, <1>7, <1>8 DEF ReverterInv

LEMMA RollbackCheckKeeps == ASSUME ReverterInv, Reverter!RollbackCheck PROVE ReverterInv'
<1>0. Reverter!Path' = Reverter!Path /\ Reverter!Journal' = Reverter!Journal
        /\ UNCHANGED <<fileCount, inBase, original>>
  BY DEF Reverter!RollbackCheck, Reverter!world, Reverter!given, Reverter!Path, Reverter!Journal
<1>a. Reverter!Last' = Reverter!Last
  BY DEF Reverter!RollbackCheck, Reverter!rollback, Reverter!Last
<1>1. Reverter!TypeOK'
  BY <1>0, <1>a, ReverterAssumption, LastInTodo
  DEF ReverterInv, Reverter!TypeOK, Reverter!Path, Reverter!Content, Reverter!IndexEntry,
      Reverter!Journal, Reverter!Progress, Reverter!MovedPath, Reverter!Forward, Reverter!Backward,
      InOrder, InOrderAt, Underway, Progressed, RollsBack, Reverter!RollbackCheck, Reverter!Go,
      Reverter!MatchesWritten, Reverter!world, Reverter!memory, Reverter!rollback,
      Reverter!outside, Reverter!given
<1>2. JournalMatches'
  BY <1>0, <1>a, ReverterAssumption, LastInTodo
  DEF ReverterInv, JournalMatches, Reverter!Forward, Reverter!RollbackCheck, Reverter!Go,
      Reverter!MatchesWritten, Reverter!world, Reverter!memory, Reverter!rollback,
      Reverter!outside, Reverter!given
<1>3. InOrder'
  BY <1>0, <1>a, ReverterAssumption, LastInTodo
  DEF ReverterInv, InOrder, Reverter!Forward, Reverter!Path, InOrderAt, Underway, Progressed,
      Reverter!TypeOK, Reverter!Content, Reverter!IndexEntry, Reverter!Journal, Reverter!Progress,
      Reverter!MovedPath, Reverter!Backward, JournalMatches, Reverter!RollbackCheck, Reverter!Go,
      Reverter!MatchesWritten, Reverter!world, Reverter!memory, Reverter!rollback,
      Reverter!outside, Reverter!given
<1>4. RollsBack'
  BY <1>0, <1>a, ReverterAssumption, LastInTodo
  DEF ReverterInv, RollsBack, Reverter!Backward, Progressed, Reverter!TypeOK, Reverter!Path,
      Reverter!Content, Reverter!IndexEntry, Reverter!Journal, Reverter!Progress,
      Reverter!MovedPath, Reverter!Forward, InOrder, InOrderAt, Underway, JournalMatches,
      Reverter!RollbackCheck, Reverter!Go, Reverter!MatchesWritten, Reverter!world,
      Reverter!memory, Reverter!rollback, Reverter!outside, Reverter!given
<1>5. Recorded'
  BY <1>0, <1>a, ReverterAssumption, LastInTodo
  DEF ReverterInv, Recorded, Reverter!Path, RecordedAt, KeptAt, Tells, Progressed, AsItWas,
      Reverter!TypeOK, Reverter!Content, Reverter!IndexEntry, Reverter!Journal, Reverter!Progress,
      Reverter!MovedPath, Reverter!Forward, Reverter!Backward, InOrder, InOrderAt, Underway,
      RollsBack, JournalMatches, Reverter!RollbackCheck, Reverter!Go, Reverter!MatchesWritten,
      Reverter!world, Reverter!memory, Reverter!rollback, Reverter!outside, Reverter!given
<1>6. Advancing'
  BY <1>0, <1>a, ReverterAssumption, LastInTodo
  DEF ReverterInv, Advancing, Reverter!Forward, Reverter!Path, AsTheBase, AsItWas, Underway,
      Reverter!TypeOK, Reverter!Content, Reverter!IndexEntry, Reverter!Journal, Reverter!Progress,
      Reverter!MovedPath, Reverter!Backward, InOrder, InOrderAt, Progressed, JournalMatches,
      Recorded, RecordedAt, KeptAt, Tells, Reverter!RollbackCheck, Reverter!Go,
      Reverter!MatchesWritten, Reverter!world, Reverter!memory, Reverter!rollback,
      Reverter!outside, Reverter!given
<1>7. Returning'
  BY <1>0, <1>a, ReverterAssumption, LastInTodo
  DEF ReverterInv, Returning, Reverter!Backward, Reverter!Path, AsItWas, Reverter!TypeOK,
      Reverter!Content, Reverter!IndexEntry, Reverter!Journal, Reverter!Progress,
      Reverter!MovedPath, Reverter!Forward, InOrder, InOrderAt, Underway, Progressed, RollsBack,
      JournalMatches, Recorded, RecordedAt, KeptAt, Tells, Advancing, AsTheBase,
      Reverter!RollbackCheck, Reverter!Go, Reverter!MatchesWritten, Reverter!world,
      Reverter!memory, Reverter!rollback, Reverter!outside, Reverter!given
<1>8. CommittedIsDone'
  BY <1>0, <1>a, ReverterAssumption, LastInTodo
  DEF ReverterInv, CommittedIsDone, Reverter!Path, AsTheBase, Reverter!TypeOK, Reverter!Content,
      Reverter!IndexEntry, Reverter!Journal, Reverter!Progress, Reverter!MovedPath,
      Reverter!Forward, Reverter!Backward, InOrder, InOrderAt, Underway, Progressed,
      JournalMatches, Advancing, AsItWas, Reverter!RollbackCheck, Reverter!Go,
      Reverter!MatchesWritten, Reverter!world, Reverter!memory, Reverter!rollback,
      Reverter!outside, Reverter!given
<1> QED
  BY <1>1, <1>2, <1>3, <1>4, <1>5, <1>6, <1>7, <1>8 DEF ReverterInv

LEMMA RestoreIndexKeeps == ASSUME ReverterInv, Reverter!RestoreIndex PROVE ReverterInv'
<1>0. Reverter!Path' = Reverter!Path /\ Reverter!Journal' = Reverter!Journal
        /\ UNCHANGED <<fileCount, inBase, original>>
  BY DEF Reverter!RestoreIndex, Reverter!given, Reverter!Path, Reverter!Journal
<1>a. /\ Reverter!Last \in todo /\ Reverter!Last \in Reverter!Path /\ Reverter!Last \in moved
           /\ Progressed(Reverter!Last) /\ RecordedAt(Reverter!Last)
      /\ entry[Reverter!Last] \in Reverter!MovedPath /\ entry[Reverter!Last] # None
      /\ Tells(entry[Reverter!Last], Reverter!Last)
  BY Rolling DEF Reverter!RestoreIndex, Reverter!Go, Reverter!Backward
<1>b. /\ Reverter!Last' = Reverter!Last
           /\ index'[Reverter!Last] = entry[Reverter!Last].originalIndex
      /\ \A p \in Reverter!Path \ {Reverter!Last} : index'[p] = index[p]
      /\ UNCHANGED <<target, revertRecovery, entry, revertJournal, revertTouched>>
  BY <1>a
  DEF Reverter!RestoreIndex, Reverter!rollback, Reverter!Last, ReverterInv, Reverter!TypeOK,
      Reverter!memory, Reverter!outside
<1>1. Reverter!TypeOK'
  BY <1>0, <1>a, <1>b, ReverterAssumption, LastInTodo
  DEF ReverterInv, Reverter!TypeOK, Reverter!Path, Reverter!Content, Reverter!IndexEntry,
      Reverter!Journal, Reverter!Progress, Reverter!MovedPath, Reverter!Forward, Reverter!Backward,
      InOrder, InOrderAt, Underway, Progressed, RollsBack, Reverter!RestoreIndex, Reverter!Go,
      Reverter!memory, Reverter!rollback, Reverter!outside, Reverter!given
<1>2. JournalMatches'
  BY <1>0, <1>a, <1>b, ReverterAssumption, LastInTodo
  DEF ReverterInv, JournalMatches, Reverter!Forward, Reverter!RestoreIndex, Reverter!Go,
      Reverter!memory, Reverter!rollback, Reverter!outside, Reverter!given
<1>3. InOrder'
  BY <1>0, <1>a, <1>b, ReverterAssumption, LastInTodo
  DEF ReverterInv, InOrder, Reverter!Forward, Reverter!Path, InOrderAt, Underway, Progressed,
      Reverter!TypeOK, Reverter!Content, Reverter!IndexEntry, Reverter!Journal, Reverter!Progress,
      Reverter!MovedPath, Reverter!Backward, JournalMatches, Reverter!RestoreIndex, Reverter!Go,
      Reverter!memory, Reverter!rollback, Reverter!outside, Reverter!given
<1>4. RollsBack'
  BY <1>0, <1>a, <1>b, ReverterAssumption, LastInTodo
  DEF ReverterInv, RollsBack, Reverter!Backward, Progressed, Reverter!TypeOK, Reverter!Path,
      Reverter!Content, Reverter!IndexEntry, Reverter!Journal, Reverter!Progress,
      Reverter!MovedPath, Reverter!Forward, InOrder, InOrderAt, Underway, JournalMatches,
      Reverter!RestoreIndex, Reverter!Go, Reverter!memory, Reverter!rollback, Reverter!outside,
      Reverter!given
<1>5. Recorded'
  <2>1. \A p \in Reverter!Path \ {Reverter!Last} : RecordedAt(p)'
    BY <1>0, <1>b, RecordedFrame DEF Progressed, ReverterInv, Recorded
  <2>2. RecordedAt(Reverter!Last)'
    BY <1>0, <1>a, <1>b DEF RecordedAt, KeptAt, Tells, Progressed
  <2> QED
    BY <1>0, <1>b, <2>1, <2>2 DEF Recorded
<1>6. Advancing'
  BY <1>0, <1>a, <1>b, ReverterAssumption, LastInTodo
  DEF ReverterInv, Advancing, Reverter!Forward, Reverter!Path, AsTheBase, AsItWas, Underway,
      Reverter!TypeOK, Reverter!Content, Reverter!IndexEntry, Reverter!Journal, Reverter!Progress,
      Reverter!MovedPath, Reverter!Backward, InOrder, InOrderAt, Progressed, JournalMatches,
      Recorded, RecordedAt, KeptAt, Tells, Reverter!RestoreIndex, Reverter!Go, Reverter!memory,
      Reverter!rollback, Reverter!outside, Reverter!given
<1>7. Returning'
  BY <1>0, <1>a, <1>b, ReverterAssumption, LastInTodo
  DEF ReverterInv, Returning, Reverter!Backward, Reverter!Path, AsItWas, Reverter!TypeOK,
      Reverter!Content, Reverter!IndexEntry, Reverter!Journal, Reverter!Progress,
      Reverter!MovedPath, Reverter!Forward, InOrder, InOrderAt, Underway, Progressed, RollsBack,
      JournalMatches, Recorded, RecordedAt, KeptAt, Tells, Advancing, AsTheBase,
      Reverter!RestoreIndex, Reverter!Go, Reverter!memory, Reverter!rollback, Reverter!outside,
      Reverter!given
<1>8. CommittedIsDone'
  BY <1>0, <1>a, <1>b, ReverterAssumption, LastInTodo
  DEF ReverterInv, CommittedIsDone, Reverter!Path, AsTheBase, Reverter!TypeOK, Reverter!Content,
      Reverter!IndexEntry, Reverter!Journal, Reverter!Progress, Reverter!MovedPath,
      Reverter!Forward, Reverter!Backward, InOrder, InOrderAt, Underway, Progressed,
      JournalMatches, Advancing, AsItWas, Reverter!RestoreIndex, Reverter!Go, Reverter!memory,
      Reverter!rollback, Reverter!outside, Reverter!given
<1> QED
  BY <1>1, <1>2, <1>3, <1>4, <1>5, <1>6, <1>7, <1>8 DEF ReverterInv

LEMMA RemoveWrittenKeeps == ASSUME ReverterInv, Reverter!RemoveWritten PROVE ReverterInv'
<1>0. Reverter!Path' = Reverter!Path /\ Reverter!Journal' = Reverter!Journal
        /\ UNCHANGED <<fileCount, inBase, original>>
  BY DEF Reverter!RemoveWritten, Reverter!given, Reverter!Path, Reverter!Journal
<1>a. /\ Reverter!Last \in todo /\ Reverter!Last \in Reverter!Path /\ Reverter!Last \in moved
           /\ Progressed(Reverter!Last) /\ RecordedAt(Reverter!Last)
      /\ entry[Reverter!Last] \in Reverter!MovedPath /\ entry[Reverter!Last] # None
      /\ Tells(entry[Reverter!Last], Reverter!Last)
  BY Rolling DEF Reverter!RemoveWritten, Reverter!Go, Reverter!Backward
<1>b. /\ index[Reverter!Last] = entry[Reverter!Last].originalIndex
      /\ UNCHANGED <<revertRecovery, index, entry, at, moved, expectedIndex, revertJournal,
           revertResuming, revertTouched>>
      /\ target'[Reverter!Last] = IF entry[Reverter!Last].written = "absent" THEN target[Reverter!Last] ELSE "absent"
      /\ \A p \in Reverter!Path \ {Reverter!Last} : target'[p] = target[p]
      /\ target' \in [Reverter!Path -> Reverter!Content]
  BY <1>a
  DEF Reverter!RemoveWritten, ReverterInv, Reverter!TypeOK, Reverter!outside, Reverter!memory,
      Reverter!rollback, Reverter!Settled, Reverter!Content
<1>c. ASSUME entry[Reverter!Last].hadOriginal
      PROVE  revertPc' = "vacant" /\ UNCHANGED <<todo, retained>> /\ Reverter!Last' = Reverter!Last
               /\ revertRecovery[Reverter!Last] # "absent"
  BY <1>a, <1>c
  DEF Reverter!RemoveWritten, Reverter!rollback, Reverter!Last, ReverterInv, Returning,
      Reverter!Backward
<1>d. ASSUME ~entry[Reverter!Last].hadOriginal
      PROVE  /\ todo' = todo \ {Reverter!Last} /\ todo' \in SUBSET Reverter!Path
             /\ retained' \in SUBSET Reverter!Path
             /\ Reverter!Path \ (todo' \cup retained') \subseteq (Reverter!Path \ (todo \cup retained)) \cup {Reverter!Last}
             /\ revertPc' \in {"check", "conclude"} /\ RollsBack'
             /\ revertRecovery[Reverter!Last] = "absent"
  BY <1>a, <1>d, Settling DEF Reverter!RemoveWritten, Reverter!Backward, Reverter!given, Tells
<1>1. Reverter!TypeOK'
  BY <1>0, <1>a, <1>b, <1>c, <1>d, ReverterAssumption, LastInTodo
  DEF ReverterInv, Reverter!TypeOK, Reverter!Path, Reverter!Content, Reverter!IndexEntry,
      Reverter!Journal, Reverter!Progress, Reverter!MovedPath, Reverter!Forward, Reverter!Backward,
      InOrder, InOrderAt, Underway, Progressed, RollsBack, Reverter!RemoveWritten, Reverter!memory,
      Reverter!rollback, Reverter!outside, Reverter!given
<1>2. JournalMatches'
  BY <1>0, <1>a, <1>b, <1>c, <1>d, ReverterAssumption, LastInTodo
  DEF ReverterInv, JournalMatches, Reverter!Forward, Reverter!RemoveWritten, Reverter!memory,
      Reverter!rollback, Reverter!outside, Reverter!given
<1>3. InOrder'
  BY <1>0, <1>a, <1>b, <1>c, <1>d, ReverterAssumption, LastInTodo
  DEF ReverterInv, InOrder, Reverter!Forward, Reverter!Path, InOrderAt, Underway, Progressed,
      Reverter!TypeOK, Reverter!Content, Reverter!IndexEntry, Reverter!Journal, Reverter!Progress,
      Reverter!MovedPath, Reverter!Backward, JournalMatches, Reverter!RemoveWritten,
      Reverter!memory, Reverter!rollback, Reverter!outside, Reverter!given
<1>4. RollsBack'
  <2>1. CASE entry[Reverter!Last].hadOriginal
    BY <1>a, <1>b, <1>c, <2>1
    DEF Reverter!RemoveWritten, ReverterInv, RollsBack, Reverter!Backward, Progressed
  <2> QED
    BY <1>d, <2>1
<1>5. Recorded'
  <2>1. \A p \in Reverter!Path \ {Reverter!Last} : RecordedAt(p)'
    BY <1>0, <1>b, RecordedFrame DEF Progressed, ReverterInv, Recorded
  <2>2. ASSUME NEW p \in Reverter!Path, p = Reverter!Last PROVE RecordedAt(p)'
    <3>1. CASE entry[Reverter!Last].hadOriginal
      BY <1>0, <1>a, <1>b, <1>c, <2>2, <3>1 DEF RecordedAt, KeptAt, Tells, Progressed
    <3>2. CASE ~entry[Reverter!Last].hadOriginal
      BY <1>0, <1>a, <1>b, <1>d, <2>2, <3>2 DEF RecordedAt, KeptAt, Tells, Progressed
    <3> QED
      BY <3>1, <3>2
  <2> QED
    BY <1>0, <2>1, <2>2 DEF Recorded
<1>6. Advancing'
  BY <1>0, <1>a, <1>b, <1>c, <1>d, ReverterAssumption, LastInTodo
  DEF ReverterInv, Advancing, Reverter!Forward, Reverter!Path, AsTheBase, AsItWas, Underway,
      Reverter!TypeOK, Reverter!Content, Reverter!IndexEntry, Reverter!Journal, Reverter!Progress,
      Reverter!MovedPath, Reverter!Backward, InOrder, InOrderAt, Progressed, JournalMatches,
      Recorded, RecordedAt, KeptAt, Tells, Reverter!RemoveWritten, Reverter!memory,
      Reverter!rollback, Reverter!outside, Reverter!given
<1>7. Returning'
  <2>1. ASSUME NEW p \in Reverter!Path \ (todo \cup retained)
        PROVE  revertRecovery'[p] = "absent" /\ (p \notin revertTouched' => AsItWas(p)')
    <3>1. p # Reverter!Last /\ revertRecovery[p] = "absent"
            /\ (p \notin revertTouched => AsItWas(p))
      BY <1>a DEF ReverterInv, Returning, Reverter!RemoveWritten, Reverter!Backward
    <3> QED
      BY <1>0, <1>b, <3>1 DEF AsItWas
  <2>2. Reverter!Last \notin revertTouched => index[Reverter!Last] = original[Reverter!Last].index
    BY <1>a, <1>b DEF Tells
  <2>3. CASE entry[Reverter!Last].hadOriginal
    BY <1>0, <1>a, <1>b, <1>c, <2>1, <2>2, <2>3 DEF Returning
  <2>4. CASE ~entry[Reverter!Last].hadOriginal
    <3>1. ASSUME NEW p \in Reverter!Path, p = Reverter!Last
          PROVE  revertRecovery'[p] = "absent" /\ (p \notin revertTouched' => AsItWas(p)')
      <4>1. p \notin revertTouched => target[p] = entry[p].written /\ original[p].target = "absent"
        BY <1>a, <2>4, <3>1
        DEF ReverterInv, Returning, Reverter!RemoveWritten, Reverter!Backward, Tells
      <4> QED
        BY <1>0, <1>b, <1>d, <2>2, <2>4, <3>1, <4>1 DEF AsItWas
    <3> QED
      BY <1>0, <1>d, <2>1, <2>4, <3>1 DEF Returning
  <2> QED
    BY <2>3, <2>4
<1>8. CommittedIsDone'
  BY <1>0, <1>a, <1>b, <1>c, <1>d, ReverterAssumption, LastInTodo
  DEF ReverterInv, CommittedIsDone, Reverter!Path, AsTheBase, Reverter!TypeOK, Reverter!Content,
      Reverter!IndexEntry, Reverter!Journal, Reverter!Progress, Reverter!MovedPath,
      Reverter!Forward, Reverter!Backward, InOrder, InOrderAt, Underway, Progressed,
      JournalMatches, Advancing, AsItWas, Reverter!RemoveWritten, Reverter!memory,
      Reverter!rollback, Reverter!outside, Reverter!given
<1> QED
  BY <1>1, <1>2, <1>3, <1>4, <1>5, <1>6, <1>7, <1>8 DEF ReverterInv

LEMMA FindVacantKeeps == ASSUME ReverterInv, Reverter!FindVacant PROVE ReverterInv'
<1>0. Reverter!Path' = Reverter!Path /\ Reverter!Journal' = Reverter!Journal
        /\ UNCHANGED <<fileCount, inBase, original>>
  BY DEF Reverter!FindVacant, Reverter!world, Reverter!given, Reverter!Path, Reverter!Journal
<1>a. Reverter!Last' = Reverter!Last
  BY DEF Reverter!FindVacant, Reverter!rollback, Reverter!Last
<1>1. Reverter!TypeOK'
  BY <1>0, <1>a, ReverterAssumption, LastInTodo
  DEF ReverterInv, Reverter!TypeOK, Reverter!Path, Reverter!Content, Reverter!IndexEntry,
      Reverter!Journal, Reverter!Progress, Reverter!MovedPath, Reverter!Forward, Reverter!Backward,
      InOrder, InOrderAt, Underway, Progressed, RollsBack, Reverter!FindVacant, Reverter!Go,
      Reverter!world, Reverter!memory, Reverter!rollback, Reverter!outside, Reverter!given
<1>2. JournalMatches'
  BY <1>0, <1>a, ReverterAssumption, LastInTodo
  DEF ReverterInv, JournalMatches, Reverter!Forward, Reverter!FindVacant, Reverter!Go,
      Reverter!world, Reverter!memory, Reverter!rollback, Reverter!outside, Reverter!given
<1>3. InOrder'
  BY <1>0, <1>a, ReverterAssumption, LastInTodo
  DEF ReverterInv, InOrder, Reverter!Forward, Reverter!Path, InOrderAt, Underway, Progressed,
      Reverter!TypeOK, Reverter!Content, Reverter!IndexEntry, Reverter!Journal, Reverter!Progress,
      Reverter!MovedPath, Reverter!Backward, JournalMatches, Reverter!FindVacant, Reverter!Go,
      Reverter!world, Reverter!memory, Reverter!rollback, Reverter!outside, Reverter!given
<1>4. RollsBack'
  BY <1>0, <1>a, ReverterAssumption, LastInTodo
  DEF ReverterInv, RollsBack, Reverter!Backward, Progressed, Reverter!TypeOK, Reverter!Path,
      Reverter!Content, Reverter!IndexEntry, Reverter!Journal, Reverter!Progress,
      Reverter!MovedPath, Reverter!Forward, InOrder, InOrderAt, Underway, JournalMatches,
      Reverter!FindVacant, Reverter!Go, Reverter!world, Reverter!memory, Reverter!rollback,
      Reverter!outside, Reverter!given
<1>5. Recorded'
  BY <1>0, <1>a, ReverterAssumption, LastInTodo
  DEF ReverterInv, Recorded, Reverter!Path, RecordedAt, KeptAt, Tells, Progressed, AsItWas,
      Reverter!TypeOK, Reverter!Content, Reverter!IndexEntry, Reverter!Journal, Reverter!Progress,
      Reverter!MovedPath, Reverter!Forward, Reverter!Backward, InOrder, InOrderAt, Underway,
      RollsBack, JournalMatches, Reverter!FindVacant, Reverter!Go, Reverter!world, Reverter!memory,
      Reverter!rollback, Reverter!outside, Reverter!given
<1>6. Advancing'
  BY <1>0, <1>a, ReverterAssumption, LastInTodo
  DEF ReverterInv, Advancing, Reverter!Forward, Reverter!Path, AsTheBase, AsItWas, Underway,
      Reverter!TypeOK, Reverter!Content, Reverter!IndexEntry, Reverter!Journal, Reverter!Progress,
      Reverter!MovedPath, Reverter!Backward, InOrder, InOrderAt, Progressed, JournalMatches,
      Recorded, RecordedAt, KeptAt, Tells, Reverter!FindVacant, Reverter!Go, Reverter!world,
      Reverter!memory, Reverter!rollback, Reverter!outside, Reverter!given
<1>7. Returning'
  BY <1>0, <1>a, ReverterAssumption, LastInTodo
  DEF ReverterInv, Returning, Reverter!Backward, Reverter!Path, AsItWas, Reverter!TypeOK,
      Reverter!Content, Reverter!IndexEntry, Reverter!Journal, Reverter!Progress,
      Reverter!MovedPath, Reverter!Forward, InOrder, InOrderAt, Underway, Progressed, RollsBack,
      JournalMatches, Recorded, RecordedAt, KeptAt, Tells, Advancing, AsTheBase,
      Reverter!FindVacant, Reverter!Go, Reverter!world, Reverter!memory, Reverter!rollback,
      Reverter!outside, Reverter!given
<1>8. CommittedIsDone'
  BY <1>0, <1>a, ReverterAssumption, LastInTodo
  DEF ReverterInv, CommittedIsDone, Reverter!Path, AsTheBase, Reverter!TypeOK, Reverter!Content,
      Reverter!IndexEntry, Reverter!Journal, Reverter!Progress, Reverter!MovedPath,
      Reverter!Forward, Reverter!Backward, InOrder, InOrderAt, Underway, Progressed,
      JournalMatches, Advancing, AsItWas, Reverter!FindVacant, Reverter!Go, Reverter!world,
      Reverter!memory, Reverter!rollback, Reverter!outside, Reverter!given
<1> QED
  BY <1>1, <1>2, <1>3, <1>4, <1>5, <1>6, <1>7, <1>8 DEF ReverterInv

LEMMA RestoreOriginalKeeps == ASSUME ReverterInv, Reverter!RestoreOriginal PROVE ReverterInv'
<1>0. Reverter!Path' = Reverter!Path /\ Reverter!Journal' = Reverter!Journal
        /\ UNCHANGED <<fileCount, inBase, original>>
  BY DEF Reverter!RestoreOriginal, Reverter!given, Reverter!Path, Reverter!Journal
<1>a. /\ Reverter!Last \in todo /\ Reverter!Last \in Reverter!Path /\ Reverter!Last \in moved
           /\ Progressed(Reverter!Last) /\ RecordedAt(Reverter!Last)
      /\ entry[Reverter!Last] \in Reverter!MovedPath /\ entry[Reverter!Last] # None
      /\ Tells(entry[Reverter!Last], Reverter!Last)
  BY Rolling DEF Reverter!RestoreOriginal, Reverter!Go, Reverter!Backward
<1>b. /\ todo' = todo \ {Reverter!Last} /\ todo' \in SUBSET Reverter!Path
           /\ retained' \in SUBSET Reverter!Path
      /\ Reverter!Path \ (todo' \cup retained') \subseteq (Reverter!Path \ (todo \cup retained)) \cup {Reverter!Last}
      /\ revertPc' \in {"check", "conclude"}
      /\ UNCHANGED <<Reverter!memory, revertResuming, revertJournal>>
      /\ RollsBack'
  BY Settling
  DEF Reverter!RestoreOriginal, Reverter!Go, Reverter!Backward, Reverter!world, Reverter!given
<1>c. /\ UNCHANGED <<index, revertTouched>>
           /\ target'[Reverter!Last] = revertRecovery[Reverter!Last]
                /\ revertRecovery'[Reverter!Last] = "absent"
      /\ \A p \in Reverter!Path \ {Reverter!Last} : target'[p] = target[p]
           /\ revertRecovery'[p] = revertRecovery[p]
  BY <1>a DEF Reverter!RestoreOriginal, ReverterInv, Reverter!TypeOK, Reverter!outside
<1>1. Reverter!TypeOK'
  <2>1. target' \in [Reverter!Path -> Reverter!Content]
          /\ revertRecovery' \in [Reverter!Path -> Reverter!Content]
    BY <1>a DEF Reverter!RestoreOriginal, ReverterInv, Reverter!TypeOK, Reverter!Content
  <2> QED
    BY <1>0, <1>b, <2>1
    DEF Reverter!RestoreOriginal, ReverterInv, Reverter!TypeOK, Reverter!memory, Reverter!given,
        Reverter!outside, Reverter!Backward
<1>2. JournalMatches'
  BY <1>0, <1>a, <1>b, <1>c, ReverterAssumption, LastInTodo
  DEF ReverterInv, JournalMatches, Reverter!Forward, Reverter!RestoreOriginal, Reverter!outside,
      Reverter!given
<1>3. InOrder'
  BY <1>0, <1>a, <1>b, <1>c, ReverterAssumption, LastInTodo
  DEF ReverterInv, InOrder, Reverter!Forward, Reverter!Path, InOrderAt, Underway, Progressed,
      Reverter!TypeOK, Reverter!Content, Reverter!IndexEntry, Reverter!Journal, Reverter!Progress,
      Reverter!MovedPath, Reverter!Backward, JournalMatches, Reverter!RestoreOriginal,
      Reverter!outside, Reverter!given
<1>4. RollsBack'
  BY <1>b
<1>5. Recorded'
  <2>1. \A p \in Reverter!Path \ {Reverter!Last} : RecordedAt(p)'
    BY <1>0, <1>b, <1>c, RecordedFrame DEF Progressed, ReverterInv, Recorded, Reverter!memory
  <2>2. ASSUME NEW p \in Reverter!Path, p = Reverter!Last PROVE RecordedAt(p)'
    <3>1. revertRecovery[p] # "absent"
      BY <1>a, <2>2 DEF Reverter!RestoreOriginal, ReverterInv, Returning, Reverter!Backward
    <3> QED
      BY <1>0, <1>a, <1>b, <1>c, <2>2, <3>1
      DEF RecordedAt, KeptAt, Tells, Progressed, Reverter!memory
  <2> QED
    BY <1>0, <2>1, <2>2 DEF Recorded
<1>6. Advancing'
  BY <1>0, <1>a, <1>b, <1>c, ReverterAssumption, LastInTodo
  DEF ReverterInv, Advancing, Reverter!Forward, Reverter!Path, AsTheBase, AsItWas, Underway,
      Reverter!TypeOK, Reverter!Content, Reverter!IndexEntry, Reverter!Journal, Reverter!Progress,
      Reverter!MovedPath, Reverter!Backward, InOrder, InOrderAt, Progressed, JournalMatches,
      Recorded, RecordedAt, KeptAt, Tells, Reverter!RestoreOriginal, Reverter!outside,
      Reverter!given
<1>7. Returning'
  BY <1>0, <1>a, <1>b, <1>c, ReverterAssumption, LastInTodo
  DEF ReverterInv, Returning, Reverter!Backward, Reverter!Path, AsItWas, Reverter!TypeOK,
      Reverter!Content, Reverter!IndexEntry, Reverter!Journal, Reverter!Progress,
      Reverter!MovedPath, Reverter!Forward, InOrder, InOrderAt, Underway, Progressed, RollsBack,
      JournalMatches, Recorded, RecordedAt, KeptAt, Tells, Advancing, AsTheBase,
      Reverter!RestoreOriginal, Reverter!outside, Reverter!given
<1>8. CommittedIsDone'
  BY <1>0, <1>a, <1>b, <1>c, ReverterAssumption, LastInTodo
  DEF ReverterInv, CommittedIsDone, Reverter!Path, AsTheBase, Reverter!TypeOK, Reverter!Content,
      Reverter!IndexEntry, Reverter!Journal, Reverter!Progress, Reverter!MovedPath,
      Reverter!Forward, Reverter!Backward, InOrder, InOrderAt, Underway, Progressed,
      JournalMatches, Advancing, AsItWas, Reverter!RestoreOriginal, Reverter!outside, Reverter!given
<1> QED
  BY <1>1, <1>2, <1>3, <1>4, <1>5, <1>6, <1>7, <1>8 DEF ReverterInv

LEMMA RevertConcludeKeeps == ASSUME ReverterInv, Reverter!Conclude PROVE ReverterInv'
<1>0. Reverter!Path' = Reverter!Path /\ Reverter!Journal' = Reverter!Journal
        /\ UNCHANGED <<fileCount, inBase, original>>
  BY DEF Reverter!Conclude, Reverter!world, Reverter!given, Reverter!Path, Reverter!Journal
<1>a. /\ at' = 1 /\ at' \in 1..fileCount + 1 /\ moved' = {}
      /\ entry' \in [Reverter!Path -> Reverter!MovedPath \cup {None}]
           /\ \A p \in Reverter!Path : entry'[p] = None
      /\ expectedIndex' = index /\ todo' = {} /\ retained' = {} /\ revertResuming' = FALSE
  BY ForgottenTypes DEF Reverter!Conclude, ReverterInv, Reverter!world, Reverter!given
<1>1. Reverter!TypeOK'
  BY <1>0, <1>a, ReverterAssumption
  DEF ReverterInv, Reverter!TypeOK, Reverter!Path, Reverter!Content, Reverter!IndexEntry,
      Reverter!Journal, Reverter!Progress, Reverter!MovedPath, Reverter!Forward, Reverter!Backward,
      InOrder, InOrderAt, Underway, Progressed, RollsBack, Reverter!Conclude, Reverter!Go,
      Reverter!world, Reverter!outside, Reverter!given
<1>2. JournalMatches'
  BY <1>0, <1>a, ReverterAssumption
  DEF ReverterInv, JournalMatches, Reverter!Forward, Reverter!Conclude, Reverter!Go,
      Reverter!world, Reverter!outside, Reverter!given
<1>3. InOrder'
  BY <1>0, <1>a, ReverterAssumption
  DEF ReverterInv, InOrder, Reverter!Forward, Reverter!Path, InOrderAt, Underway, Progressed,
      Reverter!TypeOK, Reverter!Content, Reverter!IndexEntry, Reverter!Journal, Reverter!Progress,
      Reverter!MovedPath, Reverter!Backward, JournalMatches, Reverter!Conclude, Reverter!Go,
      Reverter!world, Reverter!outside, Reverter!given
<1>4. RollsBack'
  BY <1>0, <1>a, ReverterAssumption
  DEF ReverterInv, RollsBack, Reverter!Backward, Progressed, Reverter!TypeOK, Reverter!Path,
      Reverter!Content, Reverter!IndexEntry, Reverter!Journal, Reverter!Progress,
      Reverter!MovedPath, Reverter!Forward, InOrder, InOrderAt, Underway, JournalMatches,
      Reverter!Conclude, Reverter!Go, Reverter!world, Reverter!outside, Reverter!given
<1>5. Recorded'
  <2>1. todo = {} /\ UNCHANGED <<target, revertRecovery, index, revertTouched, original>>
    BY
    DEF Reverter!Conclude, Reverter!Go, ReverterInv, RollsBack, Reverter!Backward, Reverter!world,
        Reverter!outside
  <2>2. CASE retained = {}
    <3>1. ASSUME NEW p \in Reverter!Path PROVE RecordedAt(p)'
      <4>1. ~Progressed(p)' /\ revertRecovery[p] = "absent"
              /\ (p \notin revertTouched => AsItWas(p))
        BY <2>1, <2>2
        DEF Reverter!Conclude, Reverter!Go, Reverter!Backward, Progressed, ReverterInv, Returning
      <4>2. RecordedAt(p)
        BY DEF ReverterInv, Recorded
      <4> QED
        BY <1>a, <2>1, <4>1, <4>2 DEF RecordedAt, KeptAt, AsItWas
    <3> QED
      BY <1>0, <3>1 DEF Recorded
  <2>3. CASE retained # {}
    <3>1. revertJournal # None /\ revertJournal \in Reverter!Journal
      BY <2>3
      DEF Reverter!Conclude, Reverter!Go, Reverter!Backward, ReverterInv, RollsBack, Progressed,
          Reverter!TypeOK
    <3>2. revertJournal' \in Reverter!Journal /\ revertJournal' # None
            /\ revertJournal'.pathProgress = revertJournal.pathProgress
      BY <2>3, <3>1, GhostOf DEF Reverter!Conclude, ReverterInv
    <3> QED
      BY <1>0, <1>a, <2>1, <3>1, <3>2, RecordedFrame DEF ReverterInv, Recorded, Progressed
  <2> QED
    BY <2>2, <2>3
<1>6. Advancing'
  BY <1>0, <1>a, ReverterAssumption
  DEF ReverterInv, Advancing, Reverter!Forward, Reverter!Path, AsTheBase, AsItWas, Underway,
      Reverter!TypeOK, Reverter!Content, Reverter!IndexEntry, Reverter!Journal, Reverter!Progress,
      Reverter!MovedPath, Reverter!Backward, InOrder, InOrderAt, Progressed, JournalMatches,
      Recorded, RecordedAt, KeptAt, Tells, Reverter!Conclude, Reverter!Go, Reverter!world,
      Reverter!outside, Reverter!given
<1>7. Returning'
  BY <1>0, <1>a, ReverterAssumption
  DEF ReverterInv, Returning, Reverter!Backward, Reverter!Path, AsItWas, Reverter!TypeOK,
      Reverter!Content, Reverter!IndexEntry, Reverter!Journal, Reverter!Progress,
      Reverter!MovedPath, Reverter!Forward, InOrder, InOrderAt, Underway, Progressed, RollsBack,
      JournalMatches, Recorded, RecordedAt, KeptAt, Tells, Advancing, AsTheBase, Reverter!Conclude,
      Reverter!Go, Reverter!world, Reverter!outside, Reverter!given
<1>8. CommittedIsDone'
  BY <1>0, <1>a, ReverterAssumption
  DEF ReverterInv, CommittedIsDone, Reverter!Path, AsTheBase, Reverter!TypeOK, Reverter!Content,
      Reverter!IndexEntry, Reverter!Journal, Reverter!Progress, Reverter!MovedPath,
      Reverter!Forward, Reverter!Backward, InOrder, InOrderAt, Underway, Progressed,
      JournalMatches, Advancing, AsItWas, Reverter!Conclude, Reverter!Go, Reverter!world,
      Reverter!outside, Reverter!given
<1> QED
  BY <1>1, <1>2, <1>3, <1>4, <1>5, <1>6, <1>7, <1>8 DEF ReverterInv

LEMMA ConcludeFailsKeeps == ASSUME ReverterInv, Reverter!ConcludeFails PROVE ReverterInv'
<1>0. Reverter!Path' = Reverter!Path /\ Reverter!Journal' = Reverter!Journal
        /\ UNCHANGED <<fileCount, inBase, original>>
  BY DEF Reverter!ConcludeFails, Reverter!world, Reverter!given, Reverter!Path, Reverter!Journal
<1>a. /\ at' = 1 /\ at' \in 1..fileCount + 1 /\ moved' = {}
      /\ entry' \in [Reverter!Path -> Reverter!MovedPath \cup {None}]
           /\ \A p \in Reverter!Path : entry'[p] = None
      /\ expectedIndex' = index /\ todo' = {} /\ retained' = {} /\ revertResuming' = FALSE
  BY ForgottenTypes DEF Reverter!ConcludeFails, ReverterInv, Reverter!world, Reverter!given
<1>1. Reverter!TypeOK'
  BY <1>0, <1>a, ReverterAssumption
  DEF ReverterInv, Reverter!TypeOK, Reverter!Path, Reverter!Content, Reverter!IndexEntry,
      Reverter!Journal, Reverter!Progress, Reverter!MovedPath, Reverter!Forward, Reverter!Backward,
      InOrder, InOrderAt, Underway, Progressed, RollsBack, Reverter!ConcludeFails, Reverter!Go,
      Reverter!world, Reverter!outside, Reverter!given
<1>2. JournalMatches'
  BY <1>0, <1>a, ReverterAssumption
  DEF ReverterInv, JournalMatches, Reverter!Forward, Reverter!ConcludeFails, Reverter!Go,
      Reverter!world, Reverter!outside, Reverter!given
<1>3. InOrder'
  BY <1>0, <1>a, ReverterAssumption
  DEF ReverterInv, InOrder, Reverter!Forward, Reverter!Path, InOrderAt, Underway, Progressed,
      Reverter!TypeOK, Reverter!Content, Reverter!IndexEntry, Reverter!Journal, Reverter!Progress,
      Reverter!MovedPath, Reverter!Backward, JournalMatches, Reverter!ConcludeFails, Reverter!Go,
      Reverter!world, Reverter!outside, Reverter!given
<1>4. RollsBack'
  BY <1>0, <1>a, ReverterAssumption
  DEF ReverterInv, RollsBack, Reverter!Backward, Progressed, Reverter!TypeOK, Reverter!Path,
      Reverter!Content, Reverter!IndexEntry, Reverter!Journal, Reverter!Progress,
      Reverter!MovedPath, Reverter!Forward, InOrder, InOrderAt, Underway, JournalMatches,
      Reverter!ConcludeFails, Reverter!Go, Reverter!world, Reverter!outside, Reverter!given
<1>5. Recorded'
  <2>1. UNCHANGED <<target, revertRecovery, index, revertTouched, original>>
    BY DEF Reverter!ConcludeFails, Reverter!world, Reverter!outside
  <2>2. \/ revertJournal' = revertJournal
        \/ /\ revertJournal # None /\ revertJournal' # None
           /\ revertJournal'.pathProgress = revertJournal.pathProgress
    BY GhostOf DEF Reverter!ConcludeFails, ReverterInv, Reverter!TypeOK
  <2> QED
    BY <1>0, <1>a, <2>1, <2>2, RecordedFrame DEF ReverterInv, Recorded, Progressed
<1>6. Advancing'
  BY <1>0, <1>a, ReverterAssumption
  DEF ReverterInv, Advancing, Reverter!Forward, Reverter!Path, AsTheBase, AsItWas, Underway,
      Reverter!TypeOK, Reverter!Content, Reverter!IndexEntry, Reverter!Journal, Reverter!Progress,
      Reverter!MovedPath, Reverter!Backward, InOrder, InOrderAt, Progressed, JournalMatches,
      Recorded, RecordedAt, KeptAt, Tells, Reverter!ConcludeFails, Reverter!Go, Reverter!world,
      Reverter!outside, Reverter!given
<1>7. Returning'
  BY <1>0, <1>a, ReverterAssumption
  DEF ReverterInv, Returning, Reverter!Backward, Reverter!Path, AsItWas, Reverter!TypeOK,
      Reverter!Content, Reverter!IndexEntry, Reverter!Journal, Reverter!Progress,
      Reverter!MovedPath, Reverter!Forward, InOrder, InOrderAt, Underway, Progressed, RollsBack,
      JournalMatches, Recorded, RecordedAt, KeptAt, Tells, Advancing, AsTheBase,
      Reverter!ConcludeFails, Reverter!Go, Reverter!world, Reverter!outside, Reverter!given
<1>8. CommittedIsDone'
  BY <1>0, <1>a, ReverterAssumption
  DEF ReverterInv, CommittedIsDone, Reverter!Path, AsTheBase, Reverter!TypeOK, Reverter!Content,
      Reverter!IndexEntry, Reverter!Journal, Reverter!Progress, Reverter!MovedPath,
      Reverter!Forward, Reverter!Backward, InOrder, InOrderAt, Underway, Progressed,
      JournalMatches, Advancing, AsItWas, Reverter!ConcludeFails, Reverter!Go, Reverter!world,
      Reverter!outside, Reverter!given
<1> QED
  BY <1>1, <1>2, <1>3, <1>4, <1>5, <1>6, <1>7, <1>8 DEF ReverterInv

LEMMA ResumeKeeps == ASSUME ReverterInv, Reverter!Resume PROVE ReverterInv'
<1>0. Reverter!Path' = Reverter!Path /\ Reverter!Journal' = Reverter!Journal
        /\ UNCHANGED <<fileCount, inBase, original>>
  BY DEF Reverter!Resume, Reverter!world, Reverter!given, Reverter!Path, Reverter!Journal
<1>a. /\ revertJournal # None /\ revertJournal \in Reverter!Journal
           /\ revertJournal.state = "shelvePendingRevert"
      /\ \A p \in Reverter!Path : /\ p \in Reverter!Named <=> Progressed(p)
                                  /\ Progressed(p) =>
                                       revertJournal.pathProgress[p] \in Reverter!Progress
      /\ Reverter!Named \subseteq Reverter!Path
      /\ UNCHANGED <<target, revertRecovery, index, revertTouched>>
  BY
  DEF Reverter!Resume, Reverter!Pending, ReverterInv, Reverter!TypeOK, Reverter!Named, Progressed,
      Reverter!Journal, Reverter!world, Reverter!outside
<1>b. ASSUME \E p \in Reverter!Named : Reverter!Ambiguous(p)
      PROVE  /\ revertJournal' \in Reverter!Journal /\ revertJournal' # None
             /\ revertJournal'.pathProgress = revertJournal.pathProgress
             /\ revertJournal'.state = "ghost" /\ revertPc' = "idle"
             /\ UNCHANGED <<Reverter!memory, Reverter!rollback>>
  BY <1>a, <1>b, GhostOf DEF Reverter!Resume, Reverter!Journal, ReverterInv
<1>c. ASSUME ~ \E p \in Reverter!Named : Reverter!Ambiguous(p)
      PROVE  /\ \A p \in Reverter!Path : entry'[p] = IF Progressed(p) THEN revertJournal.pathProgress[p].entry ELSE None
             /\ entry' \in [Reverter!Path -> Reverter!MovedPath \cup {None}]
             /\ todo' = {p \in Reverter!Named : ~Reverter!Unmoved(p)}
             /\ todo' \in SUBSET Reverter!Path
             /\ moved' = todo' /\ retained' = {} /\ revertResuming' = TRUE
             /\ revertPc' = IF todo' = {} THEN "conclude" ELSE "check"
             /\ UNCHANGED <<revertJournal, at, expectedIndex>>
  <2>1. entry' = [p \in Reverter!Path |-> IF p \in Reverter!Named THEN revertJournal.pathProgress[p].entry ELSE None]
    BY <1>c DEF Reverter!Resume
  <2>2. \A p \in Reverter!Path : Progressed(p) =>
          revertJournal.pathProgress[p].entry \in Reverter!MovedPath
    BY <1>a DEF Reverter!Progress
  <2> QED
    BY <1>a, <1>c, <2>1, <2>2 DEF Reverter!Resume
<1>1. Reverter!TypeOK'
  <2>1. CASE \E p \in Reverter!Named : Reverter!Ambiguous(p)
    BY <1>0, <1>a, <1>b, <2>1
    DEF Reverter!Resume, ReverterInv, Reverter!TypeOK, Reverter!Path, Reverter!memory,
        Reverter!rollback, Reverter!outside, Reverter!world, Reverter!given
  <2>2. CASE ~ \E p \in Reverter!Named : Reverter!Ambiguous(p)
    BY <1>0, <1>a, <1>c, <2>2
    DEF Reverter!Resume, ReverterInv, Reverter!TypeOK, Reverter!Path, Reverter!outside,
        Reverter!world, Reverter!given, Reverter!Backward
  <2> QED
    BY <2>1, <2>2
<1>2. JournalMatches'
  <2>1. CASE \E p \in Reverter!Named : Reverter!Ambiguous(p)
    BY <1>b, <2>1 DEF JournalMatches, Reverter!Forward
  <2>2. CASE ~ \E p \in Reverter!Named : Reverter!Ambiguous(p)
    BY <1>a, <1>c, <2>2 DEF JournalMatches, Reverter!Forward
  <2> QED
    BY <2>1, <2>2
<1>3. InOrder'
  BY <1>b, <1>c DEF InOrder, Reverter!Forward
<1>4. RollsBack'
  <2>1. CASE \E p \in Reverter!Named : Reverter!Ambiguous(p)
    BY <1>b, <2>1 DEF RollsBack, Reverter!Backward
  <2>2. CASE ~ \E p \in Reverter!Named : Reverter!Ambiguous(p)
    <3>1. \A p \in todo' : Progressed(p)' /\ entry'[p] # None
      BY <1>a, <1>c, <2>2, ReverterAssumption DEF Progressed, Reverter!Progress
    <3> QED
      BY <1>0, <1>c, <2>2, <3>1 DEF RollsBack
  <2> QED
    BY <2>1, <2>2
<1>5. Recorded'
  <2>1. ASSUME NEW p \in Reverter!Path PROVE RecordedAt(p)'
    <3>1. RecordedAt(p)
      BY DEF ReverterInv, Recorded
    <3>2. CASE \E q \in Reverter!Named : Reverter!Ambiguous(q)
      BY <1>0, <1>a, <1>b, <3>1, <3>2, RecordedFrame DEF Progressed, Reverter!memory
    <3>3. CASE ~ \E q \in Reverter!Named : Reverter!Ambiguous(q)
      BY <1>0, <1>a, <1>c, <3>1, <3>3 DEF RecordedAt, Progressed, KeptAt, Tells, AsItWas
    <3> QED
      BY <3>2, <3>3
  <2> QED
    BY <1>0, <2>1 DEF Recorded
<1>6. Advancing'
  BY <1>b, <1>c DEF Advancing, Reverter!Forward, Underway
<1>7. Returning'
  <2>1. CASE \E p \in Reverter!Named : Reverter!Ambiguous(p)
    BY <1>b, <2>1 DEF Returning, Reverter!Backward
  <2>2. CASE ~ \E p \in Reverter!Named : Reverter!Ambiguous(p)
    <3>1. ASSUME NEW p \in Reverter!Path, p \notin todo'
          PROVE  revertRecovery[p] = "absent" /\ (p \notin revertTouched => AsItWas(p))
      <4>1. RecordedAt(p)
        BY DEF ReverterInv, Recorded
      <4>2. CASE ~Progressed(p)
        BY <4>1, <4>2 DEF RecordedAt
      <4>3. CASE Progressed(p)
        <5>1. Reverter!Unmoved(p)
          BY <1>a, <1>c, <2>2, <3>1, <4>3
        <5> QED
          BY <4>1, <4>3, <5>1 DEF RecordedAt, KeptAt, Tells, AsItWas, Reverter!Unmoved
      <4> QED
        BY <4>2, <4>3
    <3> QED
      BY <1>0, <1>a, <1>c, <2>2, <3>1 DEF Returning, AsItWas
  <2> QED
    BY <2>1, <2>2
<1>8. CommittedIsDone'
  <2>1. revertJournal' # None /\ revertJournal'.state # "shelved"
    BY <1>a, <1>b, <1>c
  <2> QED
    BY <2>1 DEF CommittedIsDone
<1> QED
  BY <1>1, <1>2, <1>3, <1>4, <1>5, <1>6, <1>7, <1>8 DEF ReverterInv

LEMMA RevertCrashKeeps == ASSUME ReverterInv, Reverter!Crash PROVE ReverterInv'
<1>0. Reverter!Path' = Reverter!Path /\ Reverter!Journal' = Reverter!Journal
        /\ UNCHANGED <<fileCount, inBase, original>>
  BY DEF Reverter!Crash, Reverter!world, Reverter!given, Reverter!Path, Reverter!Journal
<1>a. /\ at' = 1 /\ at' \in 1..fileCount + 1 /\ moved' = {}
      /\ entry' \in [Reverter!Path -> Reverter!MovedPath \cup {None}]
           /\ \A p \in Reverter!Path : entry'[p] = None
      /\ expectedIndex' = index /\ todo' = {} /\ retained' = {} /\ revertResuming' = FALSE
  BY ForgottenTypes DEF Reverter!Crash, ReverterInv, Reverter!world, Reverter!given
<1>b. crashes' \in 0..MaxCrashes
  BY ReverterAssumption DEF Reverter!Crash, ReverterInv, Reverter!TypeOK
<1>1. Reverter!TypeOK'
  BY <1>0, <1>a, <1>b, ReverterAssumption
  DEF ReverterInv, Reverter!TypeOK, Reverter!Path, Reverter!Content, Reverter!IndexEntry,
      Reverter!Journal, Reverter!Progress, Reverter!MovedPath, Reverter!Forward, Reverter!Backward,
      InOrder, InOrderAt, Underway, Progressed, RollsBack, Reverter!Crash, Reverter!world,
      Reverter!given
<1>2. JournalMatches'
  BY <1>0, <1>a, <1>b, ReverterAssumption
  DEF ReverterInv, JournalMatches, Reverter!Forward, Reverter!Crash, Reverter!world, Reverter!given
<1>3. InOrder'
  BY <1>0, <1>a, <1>b, ReverterAssumption
  DEF ReverterInv, InOrder, Reverter!Forward, Reverter!Path, InOrderAt, Underway, Progressed,
      Reverter!TypeOK, Reverter!Content, Reverter!IndexEntry, Reverter!Journal, Reverter!Progress,
      Reverter!MovedPath, Reverter!Backward, JournalMatches, Reverter!Crash, Reverter!world,
      Reverter!given
<1>4. RollsBack'
  BY <1>0, <1>a, <1>b, ReverterAssumption
  DEF ReverterInv, RollsBack, Reverter!Backward, Progressed, Reverter!TypeOK, Reverter!Path,
      Reverter!Content, Reverter!IndexEntry, Reverter!Journal, Reverter!Progress,
      Reverter!MovedPath, Reverter!Forward, InOrder, InOrderAt, Underway, JournalMatches,
      Reverter!Crash, Reverter!world, Reverter!given
<1>5. Recorded'
  BY <1>0, <1>a, <1>b, ReverterAssumption
  DEF ReverterInv, Recorded, Reverter!Path, RecordedAt, KeptAt, Tells, Progressed, AsItWas,
      Reverter!TypeOK, Reverter!Content, Reverter!IndexEntry, Reverter!Journal, Reverter!Progress,
      Reverter!MovedPath, Reverter!Forward, Reverter!Backward, InOrder, InOrderAt, Underway,
      RollsBack, JournalMatches, Reverter!Crash, Reverter!world, Reverter!given
<1>6. Advancing'
  BY <1>0, <1>a, <1>b, ReverterAssumption
  DEF ReverterInv, Advancing, Reverter!Forward, Reverter!Path, AsTheBase, AsItWas, Underway,
      Reverter!TypeOK, Reverter!Content, Reverter!IndexEntry, Reverter!Journal, Reverter!Progress,
      Reverter!MovedPath, Reverter!Backward, InOrder, InOrderAt, Progressed, JournalMatches,
      Recorded, RecordedAt, KeptAt, Tells, Reverter!Crash, Reverter!world, Reverter!given
<1>7. Returning'
  BY <1>0, <1>a, <1>b, ReverterAssumption
  DEF ReverterInv, Returning, Reverter!Backward, Reverter!Path, AsItWas, Reverter!TypeOK,
      Reverter!Content, Reverter!IndexEntry, Reverter!Journal, Reverter!Progress,
      Reverter!MovedPath, Reverter!Forward, InOrder, InOrderAt, Underway, Progressed, RollsBack,
      JournalMatches, Recorded, RecordedAt, KeptAt, Tells, Advancing, AsTheBase, Reverter!Crash,
      Reverter!world, Reverter!given
<1>8. CommittedIsDone'
  BY <1>0, <1>a, <1>b, ReverterAssumption
  DEF ReverterInv, CommittedIsDone, Reverter!Path, AsTheBase, Reverter!TypeOK, Reverter!Content,
      Reverter!IndexEntry, Reverter!Journal, Reverter!Progress, Reverter!MovedPath,
      Reverter!Forward, Reverter!Backward, InOrder, InOrderAt, Underway, Progressed,
      JournalMatches, Advancing, AsItWas, Reverter!Crash, Reverter!world, Reverter!given
<1> QED
  BY <1>1, <1>2, <1>3, <1>4, <1>5, <1>6, <1>7, <1>8 DEF ReverterInv

LEMMA EditKeeps == ASSUME ReverterInv, Reverter!Edit PROVE ReverterInv'
<1>0. Reverter!Path' = Reverter!Path /\ Reverter!Journal' = Reverter!Journal
        /\ UNCHANGED <<fileCount, inBase, original>>
  BY DEF Reverter!Edit, Reverter!given, Reverter!Path, Reverter!Journal
<1>a. PICK e \in Reverter!Path :
        /\ revertTouched' = revertTouched \cup {e}
        /\ \A p \in Reverter!Path \ {e} : target'[p] = target[p] /\ index'[p] = index[p]
        /\ target'[e] = target[e] \/ target[e] # "mine"
        /\ target' \in [Reverter!Path -> Reverter!Content]
        /\ index' \in [Reverter!Path -> Reverter!IndexEntry] /\ headMoved' \in BOOLEAN
  <2>1. PICK e \in Reverter!Path :
          /\ revertTouched' = revertTouched \cup {e}
          /\ \/ /\ target[e] # "mine"
                /\ \E content \in {"absent", "foreign"} \ {target[e]} :
                     target' = [target EXCEPT ![e] = content]
                /\ UNCHANGED <<index, headMoved>>
             \/ /\ index' = [index EXCEPT ![e] = "foreign"]
                /\ headMoved' \in {headMoved, TRUE}
                /\ UNCHANGED target
    BY DEF Reverter!Edit
  <2>2. CASE /\ target[e] # "mine"
             /\ \E content \in {"absent", "foreign"} \ {target[e]} :
                  target' = [target EXCEPT ![e] = content]
             /\ UNCHANGED <<index, headMoved>>
    BY <2>1, <2>2 DEF ReverterInv, Reverter!TypeOK, Reverter!Content
  <2>3. CASE /\ index' = [index EXCEPT ![e] = "foreign"]
             /\ headMoved' \in {headMoved, TRUE}
             /\ UNCHANGED target
    BY <2>1, <2>3 DEF ReverterInv, Reverter!TypeOK, Reverter!IndexEntry
  <2> QED
    BY <2>1, <2>2, <2>3
<1>b. /\ UNCHANGED <<revertRecovery, revertJournal, revertPc, at, entry, moved, expectedIndex, todo,
           retained, revertResuming, crashes>>
      /\ edits' \in 0..MaxEdits /\ Reverter!Last' = Reverter!Last
  BY ReverterAssumption
  DEF Reverter!Edit, Reverter!memory, Reverter!rollback, ReverterInv, Reverter!TypeOK, Reverter!Last
<1>1. Reverter!TypeOK'
  BY <1>0, <1>a, <1>b DEF ReverterInv, Reverter!TypeOK
<1>2. JournalMatches'
  BY <1>b DEF ReverterInv, JournalMatches
<1>3. InOrder'
  BY <1>0, <1>b DEF ReverterInv, InOrder, InOrderAt, Underway, Progressed
<1>4. RollsBack'
  BY <1>0, <1>b DEF ReverterInv, RollsBack, Progressed
<1>5. Recorded'
  <2>1. \A p \in Reverter!Path \ {e} : RecordedAt(p)'
    BY <1>0, <1>a, <1>b, RecordedFrame DEF ReverterInv, Recorded, Progressed
  <2>2. RecordedAt(e)
    BY DEF ReverterInv, Recorded
  <2>3. RecordedAt(e)'
    BY <1>0, <1>a, <1>b, <2>2 DEF RecordedAt, KeptAt, Tells, Progressed
  <2> QED
    BY <1>0, <2>1, <2>3 DEF Recorded
<1>6. Advancing'
  <2>1. \A p \in Reverter!Path : p \notin revertTouched' =>
          /\ p \notin revertTouched /\ AsTheBase(p)' = AsTheBase(p) /\ AsItWas(p)' = AsItWas(p)
          /\ target'[p] = target[p] /\ index'[p] = index[p]
    BY <1>0, <1>a, <1>b DEF AsTheBase, AsItWas
  <2>2. Underway => at \in Reverter!Path /\ revertPc \in Reverter!Forward
    BY Underlying DEF Underway, Reverter!Forward
  <2> QED
    BY <1>0, <1>b, <2>1, <2>2 DEF ReverterInv, Advancing, Underway
<1>7. Returning'
  <2>1. \A p \in Reverter!Path : p \notin revertTouched' =>
          /\ p \notin revertTouched /\ AsItWas(p)' = AsItWas(p)
          /\ target'[p] = target[p] /\ index'[p] = index[p]
    BY <1>0, <1>a, <1>b DEF AsItWas
  <2>2. revertPc \in Reverter!Backward \ {"conclude"} => Reverter!Last \in Reverter!Path
    BY Rolling
  <2> QED
    BY <1>0, <1>b, <2>1, <2>2 DEF ReverterInv, Returning
<1>8. CommittedIsDone'
  BY <1>0, <1>a, <1>b DEF ReverterInv, CommittedIsDone, AsTheBase
<1> QED
  BY <1>1, <1>2, <1>3, <1>4, <1>5, <1>6, <1>7, <1>8 DEF ReverterInv

LEMMA ReverterInvInit == Reverter!Init => ReverterInv
<1> SUFFICES ASSUME Reverter!Init PROVE ReverterInv
  OBVIOUS
<1>1. Reverter!TypeOK
  <2>1. 1 \in 1..fileCount + 1 /\ 0 \in 0..MaxEdits /\ 0 \in 0..MaxCrashes
    BY ReverterAssumption DEF Reverter!Init
  <2>2. target \in [Reverter!Path -> Reverter!Content]
          /\ index \in [Reverter!Path -> Reverter!IndexEntry]
    BY DEF Reverter!Init, Reverter!Content, Reverter!IndexEntry
  <2>3. /\ original \in [Reverter!Path -> [target : Reverter!Content, index : Reverter!IndexEntry]]
        /\ entry \in [Reverter!Path -> Reverter!MovedPath \cup {None}]
        /\ revertRecovery \in [Reverter!Path -> Reverter!Content]
    BY <2>2 DEF Reverter!Init, Reverter!Content
  <2> QED
    BY <2>1, <2>2, <2>3 DEF Reverter!Init, Reverter!TypeOK, Reverter!Forward
<1>2. \A p \in Reverter!Path : /\ ~Progressed(p) /\ entry[p] = None /\ AsItWas(p)
                     /\ target[p] \in {"absent", "mine"} /\ revertRecovery[p] = "absent"
  BY DEF Reverter!Init, Progressed, AsItWas
<1>3. /\ revertPc = "begin" /\ revertPc \in Reverter!Forward /\ revertPc \notin Reverter!Backward
      /\ ~Underway /\ revertJournal = None
      /\ at = 1 /\ moved = {}
  BY DEF Reverter!Init, Reverter!Forward, Reverter!Backward, Underway
<1>4. Recorded
  BY <1>2 DEF Recorded, RecordedAt, KeptAt, AsItWas
<1>5. InOrder
  BY <1>1, <1>2, <1>3, ReverterAssumption DEF InOrder, InOrderAt, Reverter!TypeOK, Reverter!Path
<1>6. Advancing
  BY <1>1, <1>3, ReverterAssumption DEF Advancing, Reverter!TypeOK, Reverter!Path
<1> QED
  BY <1>1, <1>3, <1>4, <1>5, <1>6
  DEF ReverterInv, JournalMatches, RollsBack, Returning, CommittedIsDone

LEMMA StutterKeeps == ASSUME ReverterInv, UNCHANGED Reverter!vars PROVE ReverterInv'
<1>1. /\ UNCHANGED <<fileCount, inBase, target, revertRecovery, index, headMoved, revertJournal,
           revertPc, at, entry>>
      /\ UNCHANGED <<moved, expectedIndex, todo, retained, revertResuming, edits, crashes,
           revertTouched, original>>
  BY
  DEF Reverter!vars, Reverter!world, Reverter!given, Reverter!memory, Reverter!rollback,
      Reverter!outside
<1>2. Reverter!Path' = Reverter!Path /\ Reverter!Journal' = Reverter!Journal
        /\ Reverter!Last' = Reverter!Last
  BY <1>1 DEF Reverter!Path, Reverter!Journal, Reverter!Last
<1>3. Reverter!TypeOK' /\ JournalMatches'
  BY <1>1, <1>2 DEF ReverterInv, Reverter!TypeOK, JournalMatches
<1>4. InOrder' /\ RollsBack'
  BY <1>1, <1>2 DEF ReverterInv, InOrder, InOrderAt, RollsBack, Progressed, Underway
<1>5. Recorded'
  BY <1>1, <1>2, RecordedFrame DEF ReverterInv, Recorded, Progressed
<1>6. Advancing' /\ Returning' /\ CommittedIsDone'
  BY <1>1, <1>2 DEF ReverterInv, Advancing, Returning, CommittedIsDone, AsTheBase, AsItWas, Underway
<1> QED
  BY <1>3, <1>4, <1>5, <1>6 DEF ReverterInv

LEMMA ReverterInvStep == ReverterInv /\ [Reverter!Next]_(Reverter!vars) => ReverterInv'
<1> SUFFICES ASSUME ReverterInv, [Reverter!Next]_(Reverter!vars) PROVE ReverterInv'
  OBVIOUS
<1>1. CASE Reverter!Transact
  BY <1>1, BeginKeeps, VerifyKeeps, PlanKeeps, MoveOriginalKeeps, JournalMovedKeeps, RevertSettleKeeps,
      CreateBaseKeeps, FillBaseKeeps,
     JournalWrittenKeeps, CheckWrittenKeeps, WriteIndexKeeps, ReadIndexKeeps, JournalIndexKeeps,
       RecheckKeeps, CommitJournalKeeps, FlushKeeps
  DEF Reverter!Transact
<1>2. CASE Reverter!Undo
  BY <1>2, RevertThrowKeeps, RetainKeeps, RollbackCheckKeeps, RestoreIndexKeeps, RemoveWrittenKeeps,
     FindVacantKeeps, RestoreOriginalKeeps, RevertConcludeKeeps, ConcludeFailsKeeps
  DEF Reverter!Undo
<1> QED
  BY <1>1, <1>2, ResumeKeeps, RevertCrashKeeps, EditKeeps, StutterKeeps DEF Reverter!Next

LEMMA ReverterInvAlways == Reverter!Spec => []ReverterInv
BY ReverterInvInit, ReverterInvStep, PTL DEF Reverter!Spec

\* A transaction over any number of files keeps what the user had, names what it moved, undoes
\* everything or does everything, whatever step throws and wherever the process dies
\* (recovery.ts:168-207, 251-314, 414-481, 610-624).
THEOREM Reverts == Reverter!Spec => []RevertStands
<1> SUFFICES ASSUME ReverterInv PROVE RevertStands
  BY ReverterInvAlways, PTL
<1>1. Reverter!OriginalKept
  BY DEF ReverterInv, Recorded, RecordedAt, KeptAt, Reverter!OriginalKept
<1>2. Reverter!NoOrphanedRecovery
  BY DEF ReverterInv, Recorded, RecordedAt, Progressed, Reverter!NoOrphanedRecovery, Reverter!Named
<1>3. Reverter!DeletedMeansUndone
  BY DEF ReverterInv, Recorded, RecordedAt, Progressed, AsItWas, Reverter!DeletedMeansUndone
<1>4. Reverter!ShelvedMeansDone
  BY DEF ReverterInv, CommittedIsDone, AsTheBase, Reverter!ShelvedMeansDone
<1> QED
  BY <1>1, <1>2, <1>3, <1>4 DEF ReverterInv, RevertStands

\* What has been committed is never rolled back, by this process or a later one (recovery.ts:173,
\* 251; tests/unit/shelf/recovery.test.ts:143, :632).
THEOREM CommittedStands == Reverter!Spec => Reverter!CommittedStays
<1>1. ReverterInv /\ [Reverter!Next]_(Reverter!vars) =>
        [revertJournal # None /\ revertJournal.state = "shelved" =>
          revertJournal' = revertJournal /\ revertRecovery' = revertRecovery]_(Reverter!vars)
  <2> SUFFICES ASSUME ReverterInv, Reverter!Next, revertJournal # None,
    revertJournal.state = "shelved"
               PROVE  revertJournal' = revertJournal /\ revertRecovery' = revertRecovery
    BY DEF Reverter!vars, Reverter!world
  <2>1. revertPc \in {"flush", "idle"} /\ ~Reverter!Pending
    BY DEF ReverterInv, JournalMatches, Reverter!Pending
  <2>2. CASE Reverter!Transact
    BY <2>1, <2>2
    DEF Reverter!Transact, Reverter!Go, Reverter!world, Reverter!Begin, Reverter!Verify,
        Reverter!Plan, Reverter!MoveOriginal, Reverter!JournalMoved, Reverter!Settle,
        Reverter!CreateBase, Reverter!FillBase, Reverter!JournalWritten, Reverter!CheckWritten,
        Reverter!WriteIndex, Reverter!ReadIndex, Reverter!JournalIndex, Reverter!Recheck,
        Reverter!CommitJournal, Reverter!Flush
  <2>3. CASE Reverter!Undo
    BY <2>1, <2>3, ReverterAssumption
    DEF Reverter!Undo, Reverter!Go, Reverter!Forward, Reverter!Backward, Reverter!Throw,
        Reverter!Retain, Reverter!RollbackCheck, Reverter!RestoreIndex, Reverter!RemoveWritten,
        Reverter!FindVacant, Reverter!RestoreOriginal, Reverter!Conclude, Reverter!ConcludeFails
  <2>4. CASE Reverter!Resume \/ Reverter!Crash \/ Reverter!Edit
    BY <2>1, <2>4 DEF Reverter!Resume, Reverter!Crash, Reverter!Edit, Reverter!world
  <2> QED
    BY <2>2, <2>3, <2>4 DEF Reverter!Next
<1> QED
  BY <1>1, ReverterInvAlways, PTL DEF Reverter!Spec, Reverter!CommittedStays

-----------------------------------------------------------------------------
(* The merge sessions. *)

\* What a session shows, or compares with later, is what is on disk, unless the user saved it where
\* nothing looks; and what it is about to overwrite is what it compared with or what is parked.
SeenAt(e) ==
  /\ session[e].at \in {"print", "park", "write"} =>
       saved[e] = session[e].shown \/ saved[e] \in slipped
  /\ session[e].at \in {"open", "compare"} =>
       session[e].print = session[e].shown \/ session[e].print \in slipped
  /\ session[e].at = "write" =>
       saved[e] \in slipped \/ saved[e] = session[e].print \/ <<e, saved[e]>> \in parked

ConflictsInv == Conflicts!TypeOK /\ \A e \in Conflicting : SeenAt(e)

Sessions ==
  [at : {"closed", "base", "file", "print", "open", "compare", "read", "park", "write", "mark"},
   shown : Conflicts!Version, print : Conflicts!Version, generation : 1..MaxGenerations,
   was : SUBSET Conflicting, override : BOOLEAN]

LEMMA ClosedSession ==
  /\ Conflicts!Closed \in Sessions /\ Conflicts!Closed.at = "closed"
  /\ 0 \in Conflicts!Version
BY ConflictsAssumption DEF Conflicts!Closed, Sessions, Conflicts!Version

LEMMA ConflictsInvInit == Conflicts!Init => ConflictsInv
<1> SUFFICES ASSUME Conflicts!Init PROVE ConflictsInv
  OBVIOUS
<1>1. Conflicts!TypeOK
  BY ClosedSession, ConflictsAssumption DEF Conflicts!Init, Conflicts!TypeOK, Sessions
<1>2. \A e \in Conflicting : SeenAt(e)
  BY ClosedSession DEF Conflicts!Init, SeenAt
<1> QED
  BY <1>1, <1>2 DEF ConflictsInv

LEMMA ConflictsTypeStep == Conflicts!TypeOK /\ Conflicts!Next => Conflicts!TypeOK'
<1> SUFFICES ASSUME Conflicts!TypeOK, Conflicts!Next PROVE Conflicts!TypeOK'
  OBVIOUS
<1>1. session \in [Conflicting -> Sessions]
  BY DEF Conflicts!TypeOK, Sessions
<1>2. \A v \in Conflicts!Version : v < MaxVersions => v + 1 \in Conflicts!Version
  BY ConflictsAssumption DEF Conflicts!Version
<1>3. generation < MaxGenerations => generation + 1 \in 1..MaxGenerations
  BY ConflictsAssumption DEF Conflicts!TypeOK
<1>4. session' \in [Conflicting -> Sessions]
  <2>1. CASE Conflicts!Rewrite
    BY <1>1, <2>1 DEF Conflicts!Rewrite
  <2>2. ASSUME NEW e \in Conflicting,
               Conflicts!Open(e) \/ Conflicts!Close(e) \/ Conflicts!Apply(e) \/ Conflicts!Work(e)
                 \/ Conflicts!Save(e)
        PROVE  session' \in [Conflicting -> Sessions]
    <3>1. PICK s : session' = [session EXCEPT ![e] = s] /\ s \in Sessions
      <4>1. session[e] \in Sessions /\ saved[e] \in Conflicts!Version
            /\ generation \in 1..MaxGenerations /\ applied \in SUBSET Conflicting
        BY <1>1 DEF Conflicts!TypeOK
      <4>2. CASE Conflicts!Open(e)
        <5> DEFINE filed == [Conflicts!Closed EXCEPT !.at = "file"]
        <5> DEFINE dated == [filed EXCEPT !.generation = generation]
        <5> DEFINE fresh == [dated EXCEPT !.was = applied]
        <5>1. session' = [session EXCEPT ![e] = fresh]
          BY <4>2 DEF Conflicts!Open
        <5>2. filed \in Sessions
          BY ClosedSession DEF Sessions
        <5> HIDE DEF filed
        <5>3. dated \in Sessions
          BY <4>1, <5>2 DEF Sessions
        <5> HIDE DEF dated
        <5>4. fresh \in Sessions
          BY <4>1, <5>3 DEF Sessions
        <5> HIDE DEF fresh
        <5> QED
          BY <5>1, <5>4
      <4>3. CASE Conflicts!Close(e)
        BY <4>3, ClosedSession DEF Conflicts!Close
      <4>4. CASE Conflicts!Apply(e)
        <5>1. PICK override \in BOOLEAN :
                session' = [session EXCEPT ![e].at = "compare", ![e].override = override]
          BY <4>4 DEF Conflicts!Apply
        <5>2. session' = [session EXCEPT ![e] =
                            [session[e] EXCEPT !.at = "compare", !.override = override]]
          BY <1>1, <5>1
        <5>3. [session[e] EXCEPT !.at = "compare", !.override = override] \in Sessions
          BY <4>1 DEF Sessions
        <5> QED
          BY <5>2, <5>3
      <4>5. CASE Conflicts!Save(e)
        BY <1>1, <4>1, <4>5 DEF Conflicts!Save
      <4>6. CASE Conflicts!Work(e)
        <5>1. \/ session' = [session EXCEPT ![e] = Conflicts!Closed]
              \/ session' = [session EXCEPT ![e].at = "print", ![e].shown = saved[e]]
              \/ session' = [session EXCEPT ![e].at = "open", ![e].print = saved[e]]
              \/ session' = [session EXCEPT ![e].at = "park", ![e].shown = saved[e]]
              \/ \E label \in {"write", "read", "open", "mark"} :
                   session' = [session EXCEPT ![e].at = label]
          BY <4>6 DEF Conflicts!Work, Conflicts!To, Conflicts!ReadCurrent, Conflicts!Fingerprint,
               Conflicts!Compare, Conflicts!ReadForPark, Conflicts!Park, Conflicts!Write,
               Conflicts!Mark
        <5>2. /\ [session[e] EXCEPT !.at = "print", !.shown = saved[e]] \in Sessions
              /\ [session[e] EXCEPT !.at = "open", !.print = saved[e]] \in Sessions
              /\ [session[e] EXCEPT !.at = "park", !.shown = saved[e]] \in Sessions
              /\ \A label \in {"write", "read", "open", "mark"} :
                   [session[e] EXCEPT !.at = label] \in Sessions
          BY <4>1 DEF Sessions
        <5> QED
          BY <1>1, <5>1, <5>2, ClosedSession
      <4> QED
        BY <2>2, <4>2, <4>3, <4>4, <4>5, <4>6
    <3> QED
      BY <1>1, <3>1
  <2> QED
    BY <2>1, <2>2 DEF Conflicts!Next
<1>5. /\ saved' \in [Conflicting -> Conflicts!Version] /\ versions' \in Conflicts!Version
      /\ generation' \in 1..MaxGenerations /\ applied' \in SUBSET Conflicting
      /\ parked' \in SUBSET (Conflicting \X Conflicts!Version) /\ slipped' \in SUBSET Conflicts!Version
  <2>1. CASE Conflicts!Rewrite
    BY <1>3, <2>1 DEF Conflicts!Rewrite, Conflicts!TypeOK
  <2>2. ASSUME NEW e \in Conflicting,
               Conflicts!Open(e) \/ Conflicts!Close(e) \/ Conflicts!Apply(e) \/ Conflicts!ReadCurrent(e)
                 \/ Conflicts!Fingerprint(e) \/ Conflicts!Compare(e) \/ Conflicts!ReadForPark(e)
        PROVE  UNCHANGED <<saved, versions, generation, applied, parked, slipped>>
    BY <2>2 DEF Conflicts!Open, Conflicts!Close, Conflicts!Apply, Conflicts!ReadCurrent,
         Conflicts!Fingerprint, Conflicts!Compare, Conflicts!ReadForPark
  <2>3. ASSUME NEW e \in Conflicting, Conflicts!Park(e)
        PROVE  /\ UNCHANGED <<saved, versions, generation, applied, slipped>>
               /\ parked' \in SUBSET (Conflicting \X Conflicts!Version)
    <3>1. session[e].shown \in Conflicts!Version
      BY <1>1 DEF Sessions
    <3> QED
      BY <2>3, <3>1 DEF Conflicts!Park, Conflicts!TypeOK
  <2>4. ASSUME NEW e \in Conflicting, Conflicts!Write(e)
        PROVE  /\ UNCHANGED <<generation, applied, parked, slipped>>
               /\ saved' \in [Conflicting -> Conflicts!Version] /\ versions' \in Conflicts!Version
    BY <1>2, <2>4 DEF Conflicts!Write, Conflicts!TypeOK
  <2>5. ASSUME NEW e \in Conflicting, Conflicts!Mark(e)
        PROVE  /\ UNCHANGED <<saved, versions, parked, slipped>>
               /\ generation' \in 1..MaxGenerations /\ applied' \in SUBSET Conflicting
    BY <1>3, <2>5 DEF Conflicts!Mark, Conflicts!TypeOK
  <2>6. ASSUME NEW e \in Conflicting, Conflicts!Save(e)
        PROVE  /\ UNCHANGED <<generation, applied, parked>>
               /\ saved' \in [Conflicting -> Conflicts!Version] /\ versions' \in Conflicts!Version
               /\ slipped' \in SUBSET Conflicts!Version
    BY <1>2, <2>6 DEF Conflicts!Save, Conflicts!TypeOK
  <2> QED
    BY <2>1, <2>2, <2>3, <2>4, <2>5, <2>6 DEF Conflicts!Next, Conflicts!Work, Conflicts!TypeOK
<1> QED
  BY <1>4, <1>5 DEF Conflicts!TypeOK, Sessions

LEMMA ConflictsInvStep ==
  ConflictsInv /\ [Conflicts!Next]_(Conflicts!conflictVars) => ConflictsInv'
<1> SUFFICES ASSUME ConflictsInv, [Conflicts!Next]_(Conflicts!conflictVars) PROVE ConflictsInv'
  OBVIOUS
<1>1. CASE UNCHANGED Conflicts!conflictVars
  BY <1>1 DEF Conflicts!conflictVars, ConflictsInv, Conflicts!TypeOK, SeenAt
<1>2. CASE Conflicts!Next
  <2>1. Conflicts!TypeOK /\ Conflicts!TypeOK'
    BY <1>2, ConflictsTypeStep DEF ConflictsInv
  <2>2. session \in [Conflicting -> Sessions] /\ session' \in [Conflicting -> Sessions]
    BY <2>1 DEF Conflicts!TypeOK, Sessions
  <2>3. ASSUME NEW e \in Conflicting PROVE SeenAt(e)'
    <3>1. SeenAt(e)
      BY DEF ConflictsInv
    <3>2. session[e] \in Sessions /\ session'[e] \in Sessions
      BY <2>2
    <3>3. CASE session'[e] = session[e] /\ saved'[e] = saved[e]
               /\ slipped \subseteq slipped' /\ parked \subseteq parked'
      BY <3>1, <3>3 DEF SeenAt
    <3>4. CASE Conflicts!Rewrite
      BY <3>3, <3>4 DEF Conflicts!Rewrite
    <3>5. ASSUME NEW f \in Conflicting, f # e,
                 Conflicts!Open(f) \/ Conflicts!Close(f) \/ Conflicts!Apply(f)
                   \/ Conflicts!Work(f) \/ Conflicts!Save(f)
          PROVE  SeenAt(e)'
      <4>1. saved \in [Conflicting -> Conflicts!Version]
        BY <2>1 DEF Conflicts!TypeOK
      <4>2. session'[e] = session[e]
        BY <2>2, <3>5 DEF Conflicts!Work, Conflicts!To, Conflicts!ReadCurrent,
             Conflicts!Fingerprint, Conflicts!Compare, Conflicts!ReadForPark, Conflicts!Park,
             Conflicts!Write, Conflicts!Mark, Conflicts!Open, Conflicts!Close, Conflicts!Apply,
             Conflicts!Save
      <4>3. /\ saved'[e] = saved[e]
            /\ slipped \subseteq slipped' /\ parked \subseteq parked'
        BY <4>1, <3>5 DEF Conflicts!Work, Conflicts!To, Conflicts!ReadCurrent,
             Conflicts!Fingerprint, Conflicts!Compare, Conflicts!ReadForPark, Conflicts!Park,
             Conflicts!Write, Conflicts!Mark, Conflicts!Open, Conflicts!Close, Conflicts!Apply,
             Conflicts!Save
      <4> QED
        BY <4>2, <4>3, <3>3
    <3>6. CASE Conflicts!Open(e) \/ Conflicts!Close(e) \/ Conflicts!Mark(e)
      <4>1. session'[e].at \in {"file", "closed"}
        BY <2>2, <3>6, ClosedSession DEF Conflicts!Open, Conflicts!Close, Conflicts!Mark,
             Conflicts!Closed
      <4> QED
        BY <4>1 DEF SeenAt
    <3>7. CASE Conflicts!Apply(e)
      BY <2>2, <3>1, <3>2, <3>7 DEF Conflicts!Apply, SeenAt, Sessions
    <3>8. CASE Conflicts!ReadCurrent(e)
      BY <2>2, <3>1, <3>2, <3>8 DEF Conflicts!ReadCurrent, SeenAt, Sessions
    <3>9. CASE Conflicts!Fingerprint(e)
      BY <2>2, <3>1, <3>2, <3>9 DEF Conflicts!Fingerprint, SeenAt, Sessions
    <3>10. CASE Conflicts!Compare(e)
      BY <2>2, <3>1, <3>2, <3>10 DEF Conflicts!Compare, Conflicts!To, SeenAt, Sessions
    <3>11. CASE Conflicts!ReadForPark(e)
      BY <2>2, <3>1, <3>2, <3>11 DEF Conflicts!ReadForPark, SeenAt, Sessions
    <3>12. CASE Conflicts!Park(e)
      BY <2>2, <3>1, <3>2, <3>12, ClosedSession DEF Conflicts!Park, Conflicts!To, SeenAt, Sessions
    <3>13. CASE Conflicts!Write(e)
      BY <2>2, <3>1, <3>2, <3>13, ClosedSession DEF Conflicts!Write, Conflicts!To, SeenAt, Sessions
    <3>14. CASE Conflicts!Save(e)
      <4>1. saved'[e] = versions + 1 /\ session'[e] = session[e] /\ slipped \subseteq slipped'
        BY <2>1, <3>14 DEF Conflicts!Save, Conflicts!TypeOK
      <4>2. session[e].at \in {"print", "park", "write"} => saved'[e] \in slipped'
        BY <4>1, <3>14 DEF Conflicts!Save
      <4> QED
        BY <4>1, <4>2, <3>1 DEF SeenAt
    <3> QED
      BY <1>2, <3>4, <3>5, <3>6, <3>7, <3>8, <3>9, <3>10, <3>11, <3>12, <3>13, <3>14
      DEF Conflicts!Next, Conflicts!Work
  <2> QED
    BY <2>1, <2>3 DEF ConflictsInv
<1> QED
  BY <1>1, <1>2

LEMMA ConflictsInvAlways == Conflicts!Spec => []ConflictsInv
BY ConflictsInvInit, ConflictsInvStep, PTL DEF Conflicts!Spec

\* Whatever is saved and rewritten between any two steps, a resolution overwrites only what its
\* session showed or what was parked first, but for the reads nothing repeats, and takes back no
\* other entry's (shelfConflictSession.ts:158-160, 270-308, 366-396).
THEOREM ResolutionsFenced == Conflicts!Spec => ResolutionsAreFenced
<1>1. ConflictsInv => Conflicts!TypeOK
  BY DEF ConflictsInv
<1>2. ConflictsInv /\ [Conflicts!Next]_(Conflicts!conflictVars) =>
        [\A e \in Conflicting : session[e].at = "write" /\ session'[e].at = "mark" =>
           saved[e] \in slipped \/ saved[e] = session[e].shown]_(Conflicts!conflictVars)
  BY DEF ConflictsInv, SeenAt
<1>3. ConflictsInv /\ [Conflicts!Next]_(Conflicts!conflictVars) =>
        [\A e \in Conflicting : session[e].at = "write" /\ session'[e].at = "mark"
                            /\ saved[e] \notin slipped =>
           saved[e] = session[e].print \/ <<e, saved[e]>> \in parked]_(Conflicts!conflictVars)
  BY DEF ConflictsInv, SeenAt
<1>4. ConflictsInv /\ [Conflicts!Next]_(Conflicts!conflictVars) =>
        [applied \subseteq applied']_(Conflicts!conflictVars)
  BY DEF Conflicts!Next, Conflicts!Work, Conflicts!To, Conflicts!ReadCurrent,
       Conflicts!Fingerprint, Conflicts!Compare, Conflicts!ReadForPark, Conflicts!Park,
       Conflicts!Write, Conflicts!Mark, Conflicts!Open, Conflicts!Close, Conflicts!Apply,
       Conflicts!Save, Conflicts!Rewrite
<1> QED
  BY <1>1, <1>2, <1>3, <1>4, ConflictsInvAlways, PTL
  DEF Conflicts!Spec, ResolutionsAreFenced, Conflicts!OverwritesWhatWasSeen,
      Conflicts!OverriddenIsParked, Conflicts!ResolvedStays

-----------------------------------------------------------------------------
(* The squash. *)

StashEntry == [id : Nat, holds : SUBSET (Change \cup {"old"})]

\* Where an entry is in the list, as long as nothing is dropped.
PlaceOf(e) == Len(stash) + 1 - e.id

SquashTyped ==
  /\ head \in {"start", "parent", "squashed", "theirs"} /\ staged \in BOOLEAN
  /\ worktree \subseteq Change \cup {"old"} /\ before \subseteq Change /\ taken \subseteq Change
  /\ stash \in Seq(StashEntry)
  /\ previousOid \in StashEntry \cup {None} /\ automaticStash \in StashEntry \cup {None}
  /\ softResetApplied \in BOOLEAN /\ squashSucceeded \in BOOLEAN /\ stashRef \in Nat
  /\ outside \in Nat
  /\ squashPc \in {"status", "tip", "push", "verify", "clean", "head", "reset", "commit", "hard",
                   "apply", "list", "same", "drop", "over"}
  /\ squashPc # "over" => told = None
  /\ squashPc \in {"status", "tip", "push"} => worktree \subseteq Change

\* Entries are numbered from the oldest, the user's own.
StashInOrder ==
  /\ Len(stash) >= 1 /\ stash[Len(stash)] = [id |-> 1, holds |-> {"old"}]
  /\ \A i \in 1..Len(stash) : stash[i].id = Len(stash) + 1 - i

\* What the squash took is in an entry no newer than the one it means to restore.
TakenIsStashed ==
  /\ squashPc \in {"status", "tip", "push"} => taken = {}
  /\ squashPc \in {"status", "tip", "push", "verify"} => automaticStash = None
  /\ taken # {} => \E i \in 1..Len(stash) :
       stash[i].holds = taken /\ (automaticStash # None => i >= PlaceOf(automaticStash))
  /\ automaticStash # None =>
       /\ PlaceOf(automaticStash) \in 1..Len(stash)
       /\ stash[PlaceOf(automaticStash)] = automaticStash

\* Once that entry is applied, what it holds is in the working tree or in a newer entry, and
\* the reference found is its or a newer one's.
RestoredIsKept ==
  /\ squashPc \in {"apply", "list", "same", "drop"} => automaticStash # None
  /\ squashPc \in {"list", "same", "drop"} =>
       \A x \in automaticStash.holds : x \in taken \cup {"old"} =>
         \/ x \in worktree
         \/ \E i \in 1..Len(stash) : i < PlaceOf(automaticStash) /\ x \in stash[i].holds
  /\ squashPc \in {"same", "drop"} => stashRef \in 1..PlaceOf(automaticStash)

\* What the squash found is set aside, in its stash.
Aside ==
  Len(stash) = 2 /\ automaticStash = stash[1] /\ stash[1].holds = before /\ worktree = {}

\* A squash nobody meddled with.
Undisturbed ==
  outside = 0 =>
    /\ squashPc \in {"status", "tip", "push", "verify", "clean", "head", "reset"} =>
         head = "start" /\ ~staged /\ ~softResetApplied /\ ~squashSucceeded
    /\ squashPc \in {"commit", "hard"} =>
         head = "parent" /\ staged /\ softResetApplied /\ ~squashSucceeded
    /\ squashPc \in {"apply", "list", "same", "drop"} =>
         ~staged /\ head = IF squashSucceeded THEN "squashed" ELSE "start"
    /\ squashPc \in {"status", "tip", "push"} => worktree = before /\ Len(stash) = 1
    /\ squashPc \in {"tip", "push"} => before # {}
    /\ squashPc = "push" => previousOid \in {None, stash[1]}
    /\ squashPc = "verify" =>
         /\ Len(stash) = 2 /\ stash[1].holds = before /\ worktree = {}
         /\ previousOid \in {None, stash[2]}
    /\ squashPc \in {"clean", "apply"} => Aside
    /\ squashPc \in {"head", "reset", "commit", "hard"} =>
         \/ Aside
         \/ automaticStash = None /\ worktree = {} /\ before = {} /\ Len(stash) = 1
    /\ squashPc \in {"list", "same", "drop"} =>
         /\ Len(stash) = 2 /\ automaticStash = stash[1] /\ stash[1].holds = before
         /\ worktree = before
    /\ squashPc \in {"same", "drop"} => stashRef = 1

SquashInv ==
  /\ SquashTyped /\ Squash!TypeOK /\ Squash!TakenIsKept /\ Squash!EndsWhole
  /\ squashPc # "over" => StashInOrder /\ TakenIsStashed /\ RestoredIsKept /\ Undisturbed

\* What the invariant says of the entries, one by one.
LEMMA StashEntries ==
  ASSUME SquashTyped
  PROVE  /\ Len(stash) \in Nat /\ DOMAIN stash = 1..Len(stash)
         /\ \A i \in 1..Len(stash) : stash[i] \in StashEntry /\ stash[i].id \in Nat
         /\ \A e \in StashEntry : e.holds \subseteq Change \cup {"old"} /\ e.id \in Nat
         /\ None \notin StashEntry /\ "old" \notin Change
<1>1. None \notin StashEntry /\ "old" \notin Change
  BY SquashAssumption DEF StashEntry
<1>2. \A e \in StashEntry : e.holds \subseteq Change \cup {"old"} /\ e.id \in Nat
  BY DEF StashEntry
<1>3. stash \in Seq(StashEntry)
  BY DEF SquashTyped
<1> QED
  BY <1>1, <1>2, <1>3

\* As long as it is in order, the list alone holds what was taken and what the user had stashed.
LEMMA KeptInStash ==
  ASSUME SquashTyped, StashInOrder, TakenIsStashed
  PROVE  /\ \A x \in taken \cup {"old"} : \E i \in 1..Len(stash) : x \in stash[i].holds
         /\ Squash!TakenIsKept /\ Squash!TypeOK
<1>1. \A x \in taken \cup {"old"} : \E i \in 1..Len(stash) : x \in stash[i].holds
  BY StashEntries DEF StashInOrder, TakenIsStashed
<1>2. Squash!TakenIsKept
  BY <1>1, StashEntries DEF Squash!TakenIsKept, Squash!Kept
<1>3. \A i, j \in DOMAIN stash : stash[i].id = stash[j].id => i = j
  <2> SUFFICES ASSUME NEW i \in 1..Len(stash), NEW j \in 1..Len(stash), stash[i].id = stash[j].id
               PROVE  i = j
    BY StashEntries
  <2>1. Len(stash) + 1 - i = Len(stash) + 1 - j
    BY DEF StashInOrder
  <2> QED
    BY <2>1, StashEntries
<1>4. Squash!TypeOK
  BY <1>3 DEF SquashTyped, Squash!TypeOK
<1> QED
  BY <1>1, <1>2, <1>4

LEMMA SquashInvInit == Squash!Init => SquashInv
<1> SUFFICES ASSUME Squash!Init PROVE SquashInv
  OBVIOUS
<1> DEFINE first == [id |-> 1, holds |-> {"old"}]
<1>1. first \in StashEntry /\ first.id = 1 /\ first.holds = {"old"}
  BY DEF StashEntry
<1>2. stash = <<first>>
  BY DEF Squash!Init
<1> HIDE DEF first
<1>3. stash \in Seq(StashEntry) /\ Len(stash) = 1 /\ DOMAIN stash = 1..1 /\ stash[1] = first
  BY <1>1, <1>2
<1>4. SquashTyped
  BY <1>3 DEF SquashTyped, Squash!Init
<1>5. StashInOrder
  BY <1>1, <1>3 DEF StashInOrder, first
<1>6. Squash!EndsWhole /\ TakenIsStashed /\ RestoredIsKept
  BY DEF Squash!Init, Squash!EndsWhole, TakenIsStashed, RestoredIsKept
<1>7. Squash!TypeOK /\ Squash!TakenIsKept
  BY <1>4, <1>5, <1>6, KeptInStash
<1>8. Undisturbed
  BY <1>3 DEF Squash!Init, Undisturbed
<1> QED
  BY <1>4, <1>5, <1>6, <1>7, <1>8 DEF SquashInv

\* A step that goes on has only the list and the typing to keep.
LEMMA GoesOn ==
  ASSUME SquashTyped', StashInOrder', TakenIsStashed', RestoredIsKept', Undisturbed',
         squashPc' # "over"
  PROVE  SquashInv'
<1>1. Squash!TakenIsKept' /\ Squash!TypeOK'
  BY KeptInStash, PTL
<1>2. Squash!EndsWhole'
  BY DEF SquashTyped, Squash!EndsWhole
<1> QED
  BY <1>1, <1>2 DEF SquashInv

\* A new entry is the first, and the others are one further down.
LEMMA NewEntry ==
  ASSUME SquashTyped, NEW changes \in SUBSET (Change \cup {"old"}), changes # {}
  PROVE  LET e == [id |-> Len(stash) + 1, holds |-> changes]
             after == Squash!Pushed(changes)
         IN  /\ e \in StashEntry /\ after \in Seq(StashEntry) /\ Len(after) = Len(stash) + 1
             /\ after[1] = e /\ \A i \in 1..Len(stash) : after[i + 1] = stash[i]
             /\ \A i \in 2..Len(after) : after[i] = stash[i - 1]
<1> DEFINE e == [id |-> Len(stash) + 1, holds |-> changes]
<1>1. e \in StashEntry /\ <<e>> \in Seq(StashEntry) /\ Len(<<e>>) = 1 /\ stash \in Seq(StashEntry)
  BY StashEntries DEF StashEntry, SquashTyped
<1>2. Squash!Pushed(changes) = <<e>> \o stash
  BY DEF Squash!Pushed
<1> HIDE DEF e
<1>3. <<e>> \o stash \in Seq(StashEntry) /\ Len(<<e>> \o stash) = Len(stash) + 1
  BY <1>1
<1>4. (<<e>> \o stash)[1] = e /\ \A i \in 1..Len(stash) : (<<e>> \o stash)[i + 1] = stash[i]
  BY <1>1
<1>5. \A i \in 2..Len(stash) + 1 : i - 1 \in 1..Len(stash) /\ (i - 1) + 1 = i
  BY StashEntries
<1> QED
  BY <1>1, <1>2, <1>3, <1>4, <1>5 DEF e

\* What a squash nobody meddled with owes when it is over.
EndedWhole ==
  outside = 0 /\ told \notin {None, "nothing"} =>
    /\ before \subseteq worktree \/ \E i \in 1..Len(stash) : before \subseteq stash[i].holds
    /\ told # "not rolled back" =>
         ~staged /\ head = IF squashSucceeded THEN "squashed" ELSE "start"
    /\ told = "squashed" => worktree = before /\ Len(stash) = 1

LEMMA WholeAtEnd == ASSUME SquashTyped, EndedWhole PROVE Squash!EndsWhole
<1>1. ASSUME before \subseteq worktree \/ \E i \in 1..Len(stash) : before \subseteq stash[i].holds
      PROVE  before \subseteq Squash!Kept
  BY <1>1, StashEntries DEF Squash!Kept
<1> QED
  BY <1>1 DEF EndedWhole, Squash!EndsWhole

\* The squash is over, and its list is as it was: what was set aside is still there.
LEMMA Ends ==
  ASSUME SquashInv, squashPc # "over", squashPc' = "over", UNCHANGED <<stash, taken, before>>,
         SquashTyped', EndedWhole'
  PROVE  SquashInv'
<1>1. \A x \in taken \cup {"old"} : \E i \in 1..Len(stash) : x \in stash[i].holds
  BY KeptInStash DEF SquashInv
<1>2. Squash!TakenIsKept'
  <2>1. \A x \in taken' \cup {"old"} : \E i \in DOMAIN stash' : x \in stash'[i].holds
    BY <1>1, StashEntries DEF SquashInv
  <2> QED
    BY <2>1 DEF Squash!TakenIsKept, Squash!Kept
<1>3. Squash!TypeOK'
  BY DEF SquashInv, SquashTyped, Squash!TypeOK
<1>4. Squash!EndsWhole'
  BY WholeAtEnd, PTL
<1> QED
  BY <1>2, <1>3, <1>4 DEF SquashInv

\* Its newest entry; and what it found is in the tree or in an entry.
LEMMA Newest ==
  ASSUME SquashTyped, StashInOrder
  PROVE  Squash!Tip = stash[1] /\ 1 \in 1..Len(stash) /\ stash[1] \in StashEntry
           /\ stash[1].id = Len(stash)
<1>1. 1 \in 1..Len(stash) /\ stash # <<>>
  BY StashEntries DEF StashInOrder
<1> QED
  BY <1>1, StashEntries DEF Squash!Tip, StashInOrder

LEMMA BeforeSomewhere ==
  ASSUME SquashTyped, StashInOrder, Undisturbed, squashPc # "over", outside = 0
  PROVE  \/ before \subseteq worktree
         \/ before \subseteq stash[1].holds /\ 1 \in 1..Len(stash)
BY Newest DEF SquashTyped, Undisturbed, Aside

LEMMA SquashStatusKeeps == ASSUME SquashInv, Squash!Status PROVE SquashInv'
<1>1. SquashTyped /\ squashPc # "over" /\ StashInOrder /\ TakenIsStashed /\ RestoredIsKept
        /\ Undisturbed
  BY DEF SquashInv, Squash!Status
<1>2. SquashTyped'
  BY <1>1, Newest, StashEntries
  DEF SquashTyped, Squash!Status, Squash!Goto, Squash!End, Squash!Trouble, Squash!Throw,
      Squash!Restored, Squash!repository, Squash!locals
<1>3. CASE squashPc' = "over"
  <2>1. UNCHANGED <<stash, taken, before, outside, squashSucceeded>> /\ worktree \subseteq worktree'
    BY <1>3
    DEF Squash!Status, Squash!Goto, Squash!End, Squash!Trouble, Squash!Throw, Squash!Restored,
        Squash!repository, Squash!locals
  <2>2. ASSUME outside = 0, told' \notin {None, "nothing"}
        PROVE  /\ told' # "not rolled back" =>
                    ~staged' /\ head' = IF squashSucceeded' THEN "squashed" ELSE "start"
               /\ told' = "squashed" => worktree' = before' /\ Len(stash') = 1
    BY <1>1, <1>3, <2>2, Newest
    DEF SquashTyped, Undisturbed, Aside, RestoredIsKept, TakenIsStashed, Squash!Status,
        Squash!Goto, Squash!End, Squash!Trouble, Squash!Throw, Squash!Restored, Squash!repository,
        Squash!locals
  <2>3. EndedWhole'
    BY <1>1, <2>1, <2>2, BeforeSomewhere DEF EndedWhole
  <2> QED
    BY <1>1, <1>2, <1>3, <2>1, <2>3, Ends
<1>4. CASE squashPc' # "over"
  <2>1. StashInOrder'
    BY <1>1
    DEF StashInOrder, Squash!Status, Squash!Goto, Squash!End, Squash!Trouble, Squash!Throw,
        Squash!Restored, Squash!repository, Squash!locals
  <2>2. TakenIsStashed'
    BY <1>1, <1>4, StashEntries, Newest
    DEF SquashTyped, TakenIsStashed, PlaceOf, Squash!Status, Squash!Goto, Squash!End,
        Squash!Trouble, Squash!Throw, Squash!Restored, Squash!repository, Squash!locals
  <2>3. RestoredIsKept'
    BY <1>1, <1>4, StashEntries
    DEF SquashTyped, RestoredIsKept, TakenIsStashed, PlaceOf, Squash!Status, Squash!Goto,
        Squash!End, Squash!Trouble, Squash!Throw, Squash!Restored, Squash!repository, Squash!locals
  <2>4. Undisturbed'
    BY <1>1, <1>4, StashEntries, Newest
    DEF SquashTyped, StashInOrder, TakenIsStashed, Undisturbed, Aside, Squash!Status, Squash!Goto,
        Squash!End, Squash!Trouble, Squash!Throw, Squash!Restored, Squash!repository, Squash!locals
  <2> QED
    BY <1>2, <1>4, <2>1, <2>2, <2>3, <2>4, GoesOn
<1> QED
  BY <1>3, <1>4

LEMMA SquashReadTipKeeps == ASSUME SquashInv, Squash!ReadTip PROVE SquashInv'
<1>1. SquashTyped /\ squashPc # "over" /\ StashInOrder /\ TakenIsStashed /\ RestoredIsKept
        /\ Undisturbed
  BY DEF SquashInv, Squash!ReadTip
<1>2. SquashTyped'
  BY <1>1, Newest, StashEntries
  DEF SquashTyped, Squash!ReadTip, Squash!Goto, Squash!End, Squash!Trouble, Squash!Throw,
      Squash!Restored, Squash!repository, Squash!locals
<1>3. CASE squashPc' = "over"
  <2>1. UNCHANGED <<stash, taken, before, outside, squashSucceeded>> /\ worktree \subseteq worktree'
    BY <1>3
    DEF Squash!ReadTip, Squash!Goto, Squash!End, Squash!Trouble, Squash!Throw, Squash!Restored,
        Squash!repository, Squash!locals
  <2>2. ASSUME outside = 0, told' \notin {None, "nothing"}
        PROVE  /\ told' # "not rolled back" =>
                    ~staged' /\ head' = IF squashSucceeded' THEN "squashed" ELSE "start"
               /\ told' = "squashed" => worktree' = before' /\ Len(stash') = 1
    BY <1>1, <1>3, <2>2, Newest
    DEF SquashTyped, Undisturbed, Aside, RestoredIsKept, TakenIsStashed, Squash!ReadTip,
        Squash!Goto, Squash!End, Squash!Trouble, Squash!Throw, Squash!Restored, Squash!repository,
        Squash!locals
  <2>3. EndedWhole'
    BY <1>1, <2>1, <2>2, BeforeSomewhere DEF EndedWhole
  <2> QED
    BY <1>1, <1>2, <1>3, <2>1, <2>3, Ends
<1>4. CASE squashPc' # "over"
  <2>1. StashInOrder'
    BY <1>1
    DEF StashInOrder, Squash!ReadTip, Squash!Goto, Squash!End, Squash!Trouble, Squash!Throw,
        Squash!Restored, Squash!repository, Squash!locals
  <2>2. TakenIsStashed'
    BY <1>1, <1>4, StashEntries, Newest
    DEF SquashTyped, TakenIsStashed, PlaceOf, Squash!ReadTip, Squash!Goto, Squash!End,
        Squash!Trouble, Squash!Throw, Squash!Restored, Squash!repository, Squash!locals
  <2>3. RestoredIsKept'
    BY <1>1, <1>4, StashEntries
    DEF SquashTyped, RestoredIsKept, TakenIsStashed, PlaceOf, Squash!ReadTip, Squash!Goto,
        Squash!End, Squash!Trouble, Squash!Throw, Squash!Restored, Squash!repository, Squash!locals
  <2>4. Undisturbed'
    BY <1>1, <1>4, StashEntries, Newest
    DEF SquashTyped, StashInOrder, TakenIsStashed, Undisturbed, Aside, Squash!ReadTip, Squash!Goto,
        Squash!End, Squash!Trouble, Squash!Throw, Squash!Restored, Squash!repository, Squash!locals
  <2> QED
    BY <1>2, <1>4, <2>1, <2>2, <2>3, <2>4, GoesOn
<1> QED
  BY <1>3, <1>4

LEMMA SquashVerifyKeeps == ASSUME SquashInv, Squash!Verify PROVE SquashInv'
<1>1. SquashTyped /\ squashPc # "over" /\ StashInOrder /\ TakenIsStashed /\ RestoredIsKept
        /\ Undisturbed
  BY DEF SquashInv, Squash!Verify
<1>2. SquashTyped'
  BY <1>1, Newest, StashEntries
  DEF SquashTyped, Squash!Verify, Squash!Goto, Squash!End, Squash!Trouble, Squash!Throw,
      Squash!Restored, Squash!repository, Squash!locals
<1>3. CASE squashPc' = "over"
  <2>1. UNCHANGED <<stash, taken, before, outside, squashSucceeded>> /\ worktree \subseteq worktree'
    BY <1>3
    DEF Squash!Verify, Squash!Goto, Squash!End, Squash!Trouble, Squash!Throw, Squash!Restored,
        Squash!repository, Squash!locals
  <2>2. ASSUME outside = 0, told' \notin {None, "nothing"}
        PROVE  /\ told' # "not rolled back" =>
                    ~staged' /\ head' = IF squashSucceeded' THEN "squashed" ELSE "start"
               /\ told' = "squashed" => worktree' = before' /\ Len(stash') = 1
    BY <1>1, <1>3, <2>2, Newest
    DEF SquashTyped, Undisturbed, Aside, RestoredIsKept, TakenIsStashed, Squash!Verify,
        Squash!Goto, Squash!End, Squash!Trouble, Squash!Throw, Squash!Restored, Squash!repository,
        Squash!locals
  <2>3. EndedWhole'
    BY <1>1, <2>1, <2>2, BeforeSomewhere DEF EndedWhole
  <2> QED
    BY <1>1, <1>2, <1>3, <2>1, <2>3, Ends
<1>4. CASE squashPc' # "over"
  <2>1. StashInOrder'
    BY <1>1
    DEF StashInOrder, Squash!Verify, Squash!Goto, Squash!End, Squash!Trouble, Squash!Throw,
        Squash!Restored, Squash!repository, Squash!locals
  <2>2. TakenIsStashed'
    BY <1>1, <1>4, StashEntries, Newest
    DEF SquashTyped, TakenIsStashed, PlaceOf, Squash!Verify, Squash!Goto, Squash!End,
        Squash!Trouble, Squash!Throw, Squash!Restored, Squash!repository, Squash!locals
  <2>3. RestoredIsKept'
    BY <1>1, <1>4, StashEntries
    DEF SquashTyped, RestoredIsKept, TakenIsStashed, PlaceOf, Squash!Verify, Squash!Goto,
        Squash!End, Squash!Trouble, Squash!Throw, Squash!Restored, Squash!repository, Squash!locals
  <2>4. Undisturbed'
    BY <1>1, <1>4, StashEntries, Newest
    DEF SquashTyped, StashInOrder, TakenIsStashed, Undisturbed, Aside, Squash!Verify, Squash!Goto,
        Squash!End, Squash!Trouble, Squash!Throw, Squash!Restored, Squash!repository, Squash!locals
  <2> QED
    BY <1>2, <1>4, <2>1, <2>2, <2>3, <2>4, GoesOn
<1> QED
  BY <1>3, <1>4

LEMMA SquashCheckHeadKeeps == ASSUME SquashInv, Squash!CheckHead PROVE SquashInv'
<1>1. SquashTyped /\ squashPc # "over" /\ StashInOrder /\ TakenIsStashed /\ RestoredIsKept
        /\ Undisturbed
  BY DEF SquashInv, Squash!CheckHead
<1>2. SquashTyped'
  BY <1>1, Newest, StashEntries
  DEF SquashTyped, Squash!CheckHead, Squash!Goto, Squash!End, Squash!Trouble, Squash!Throw,
      Squash!Restored, Squash!repository, Squash!locals
<1>3. CASE squashPc' = "over"
  <2>1. UNCHANGED <<stash, taken, before, outside, squashSucceeded>> /\ worktree \subseteq worktree'
    BY <1>3
    DEF Squash!CheckHead, Squash!Goto, Squash!End, Squash!Trouble, Squash!Throw, Squash!Restored,
        Squash!repository, Squash!locals
  <2>2. ASSUME outside = 0, told' \notin {None, "nothing"}
        PROVE  /\ told' # "not rolled back" =>
                    ~staged' /\ head' = IF squashSucceeded' THEN "squashed" ELSE "start"
               /\ told' = "squashed" => worktree' = before' /\ Len(stash') = 1
    BY <1>1, <1>3, <2>2, Newest
    DEF SquashTyped, Undisturbed, Aside, RestoredIsKept, TakenIsStashed, Squash!CheckHead,
        Squash!Goto, Squash!End, Squash!Trouble, Squash!Throw, Squash!Restored, Squash!repository,
        Squash!locals
  <2>3. EndedWhole'
    BY <1>1, <2>1, <2>2, BeforeSomewhere DEF EndedWhole
  <2> QED
    BY <1>1, <1>2, <1>3, <2>1, <2>3, Ends
<1>4. CASE squashPc' # "over"
  <2>1. StashInOrder'
    BY <1>1
    DEF StashInOrder, Squash!CheckHead, Squash!Goto, Squash!End, Squash!Trouble, Squash!Throw,
        Squash!Restored, Squash!repository, Squash!locals
  <2>2. TakenIsStashed'
    BY <1>1, <1>4, StashEntries, Newest
    DEF SquashTyped, TakenIsStashed, PlaceOf, Squash!CheckHead, Squash!Goto, Squash!End,
        Squash!Trouble, Squash!Throw, Squash!Restored, Squash!repository, Squash!locals
  <2>3. RestoredIsKept'
    BY <1>1, <1>4, StashEntries
    DEF SquashTyped, RestoredIsKept, TakenIsStashed, PlaceOf, Squash!CheckHead, Squash!Goto,
        Squash!End, Squash!Trouble, Squash!Throw, Squash!Restored, Squash!repository, Squash!locals
  <2>4. Undisturbed'
    BY <1>1, <1>4, StashEntries, Newest
    DEF SquashTyped, StashInOrder, TakenIsStashed, Undisturbed, Aside, Squash!CheckHead,
        Squash!Goto, Squash!End, Squash!Trouble, Squash!Throw, Squash!Restored, Squash!repository,
        Squash!locals
  <2> QED
    BY <1>2, <1>4, <2>1, <2>2, <2>3, <2>4, GoesOn
<1> QED
  BY <1>3, <1>4

LEMMA SquashSoftResetKeeps == ASSUME SquashInv, Squash!SoftReset PROVE SquashInv'
<1>1. SquashTyped /\ squashPc # "over" /\ StashInOrder /\ TakenIsStashed /\ RestoredIsKept
        /\ Undisturbed
  BY DEF SquashInv, Squash!SoftReset
<1>2. SquashTyped'
  BY <1>1, Newest, StashEntries
  DEF SquashTyped, Squash!SoftReset, Squash!Goto, Squash!End, Squash!Trouble, Squash!Throw,
      Squash!Restored, Squash!repository, Squash!locals
<1>3. CASE squashPc' = "over"
  <2>1. UNCHANGED <<stash, taken, before, outside, squashSucceeded>> /\ worktree \subseteq worktree'
    BY <1>3
    DEF Squash!SoftReset, Squash!Goto, Squash!End, Squash!Trouble, Squash!Throw, Squash!Restored,
        Squash!repository, Squash!locals
  <2>2. ASSUME outside = 0, told' \notin {None, "nothing"}
        PROVE  /\ told' # "not rolled back" =>
                    ~staged' /\ head' = IF squashSucceeded' THEN "squashed" ELSE "start"
               /\ told' = "squashed" => worktree' = before' /\ Len(stash') = 1
    <3>1. head = "start" /\ ~staged /\ ~squashSucceeded
      BY <1>1, <2>2 DEF Undisturbed, Squash!SoftReset
    <3>2. UNCHANGED <<head, staged, squashSucceeded>> /\ told' = "failed"
      BY <1>3
      DEF Squash!SoftReset, Squash!Goto, Squash!End, Squash!Trouble, Squash!Throw, Squash!Restored,
          Squash!repository, Squash!locals
    <3> QED
      BY <3>1, <3>2
  <2>3. EndedWhole'
    BY <1>1, <2>1, <2>2, BeforeSomewhere DEF EndedWhole
  <2> QED
    BY <1>1, <1>2, <1>3, <2>1, <2>3, Ends
<1>4. CASE squashPc' # "over"
  <2>1. StashInOrder'
    BY <1>1
    DEF StashInOrder, Squash!SoftReset, Squash!Goto, Squash!End, Squash!Trouble, Squash!Throw,
        Squash!Restored, Squash!repository, Squash!locals
  <2>2. TakenIsStashed'
    BY <1>1, <1>4, StashEntries, Newest
    DEF SquashTyped, TakenIsStashed, PlaceOf, Squash!SoftReset, Squash!Goto, Squash!End,
        Squash!Trouble, Squash!Throw, Squash!Restored, Squash!repository, Squash!locals
  <2>3. RestoredIsKept'
    BY <1>1, <1>4, StashEntries
    DEF SquashTyped, RestoredIsKept, TakenIsStashed, PlaceOf, Squash!SoftReset, Squash!Goto,
        Squash!End, Squash!Trouble, Squash!Throw, Squash!Restored, Squash!repository, Squash!locals
  <2>4. Undisturbed'
    BY <1>1, <1>4, StashEntries, Newest
    DEF SquashTyped, StashInOrder, TakenIsStashed, Undisturbed, Aside, Squash!SoftReset,
        Squash!Goto, Squash!End, Squash!Trouble, Squash!Throw, Squash!Restored, Squash!repository,
        Squash!locals
  <2> QED
    BY <1>2, <1>4, <2>1, <2>2, <2>3, <2>4, GoesOn
<1> QED
  BY <1>3, <1>4

LEMMA SquashCommitKeeps == ASSUME SquashInv, Squash!Commit PROVE SquashInv'
<1>1. SquashTyped /\ squashPc # "over" /\ StashInOrder /\ TakenIsStashed /\ RestoredIsKept
        /\ Undisturbed
  BY DEF SquashInv, Squash!Commit
<1>2. SquashTyped'
  BY <1>1, Newest, StashEntries
  DEF SquashTyped, Squash!Commit, Squash!Goto, Squash!End, Squash!Trouble, Squash!Throw,
      Squash!Restored, Squash!repository, Squash!locals
<1>3. CASE squashPc' = "over"
  <2>1. UNCHANGED <<stash, taken, before, outside>> /\ worktree' = worktree
    BY <1>3
    DEF Squash!Commit, Squash!Goto, Squash!End, Squash!Trouble, Squash!Throw, Squash!Restored,
        Squash!repository, Squash!locals
  <2>2. ASSUME outside = 0, told' \notin {None, "nothing"}
        PROVE  /\ told' # "not rolled back" =>
                    ~staged' /\ head' = IF squashSucceeded' THEN "squashed" ELSE "start"
               /\ told' = "squashed" => worktree' = before' /\ Len(stash') = 1
    <3>1. staged /\ softResetApplied
      BY <1>1, <2>2 DEF Undisturbed, Squash!Commit
    <3>2. head' = "squashed" /\ staged' = FALSE /\ squashSucceeded' = TRUE /\ automaticStash = None
      BY <1>3, <3>1
      DEF Squash!Commit, Squash!Goto, Squash!End, Squash!Trouble, Squash!Throw, Squash!Restored,
          Squash!repository, Squash!locals
    <3>3. automaticStash # stash[1]
      BY <1>1, <3>2, Newest, StashEntries
    <3>4. worktree = {} /\ before = {} /\ Len(stash) = 1
      BY <1>1, <2>2, <3>3 DEF Undisturbed, Aside, Squash!Commit
    <3> QED
      BY <2>1, <3>2, <3>4
  <2>3. EndedWhole'
    BY <1>1, <2>1, <2>2, BeforeSomewhere DEF EndedWhole
  <2> QED
    BY <1>1, <1>2, <1>3, <2>1, <2>3, Ends
<1>4. CASE squashPc' # "over"
  <2>1. StashInOrder'
    BY <1>1
    DEF StashInOrder, Squash!Commit, Squash!Goto, Squash!End, Squash!Trouble, Squash!Throw,
        Squash!Restored, Squash!repository, Squash!locals
  <2>2. TakenIsStashed'
    BY <1>1, <1>4, StashEntries, Newest
    DEF SquashTyped, TakenIsStashed, PlaceOf, Squash!Commit, Squash!Goto, Squash!End,
        Squash!Trouble, Squash!Throw, Squash!Restored, Squash!repository, Squash!locals
  <2>3. RestoredIsKept'
    BY <1>1, <1>4, StashEntries
    DEF SquashTyped, RestoredIsKept, TakenIsStashed, PlaceOf, Squash!Commit, Squash!Goto,
        Squash!End, Squash!Trouble, Squash!Throw, Squash!Restored, Squash!repository, Squash!locals
  <2>4. Undisturbed'
    BY <1>1, <1>4, StashEntries, Newest
    DEF SquashTyped, StashInOrder, TakenIsStashed, Undisturbed, Aside, Squash!Commit, Squash!Goto,
        Squash!End, Squash!Trouble, Squash!Throw, Squash!Restored, Squash!repository, Squash!locals
  <2> QED
    BY <1>2, <1>4, <2>1, <2>2, <2>3, <2>4, GoesOn
<1> QED
  BY <1>3, <1>4

LEMMA SquashHardResetKeeps == ASSUME SquashInv, Squash!HardReset PROVE SquashInv'
<1>1. SquashTyped /\ squashPc # "over" /\ StashInOrder /\ TakenIsStashed /\ RestoredIsKept
        /\ Undisturbed
  BY DEF SquashInv, Squash!HardReset
<1>2. SquashTyped'
  BY <1>1, Newest, StashEntries
  DEF SquashTyped, Squash!HardReset, Squash!Goto, Squash!End, Squash!Trouble, Squash!Throw,
      Squash!Restored, Squash!repository, Squash!locals
<1>3. CASE squashPc' = "over"
  <2>1. UNCHANGED <<stash, taken, before, outside, squashSucceeded>>
    BY <1>3
    DEF Squash!HardReset, Squash!Goto, Squash!End, Squash!Trouble, Squash!Throw, Squash!Restored,
        Squash!repository, Squash!locals
  <2>2. ASSUME outside = 0
        PROVE  /\ worktree = {} /\ worktree' = {}
               /\ told' \notin {None, "nothing"} =>
                    /\ told' # "not rolled back" =>
                         ~staged' /\ head' = IF squashSucceeded' THEN "squashed" ELSE "start"
                    /\ told' = "squashed" => worktree' = before' /\ Len(stash') = 1
    <3>1. worktree = {} /\ ~squashSucceeded
      BY <1>1, <2>2 DEF Undisturbed, Aside, Squash!HardReset
    <3>2. told' = "not rolled back" \/ (told' = "failed" /\ head' = "start" /\ staged' = FALSE)
      BY <1>3
      DEF Squash!HardReset, Squash!Goto, Squash!End, Squash!Trouble, Squash!Throw, Squash!Restored,
          Squash!repository, Squash!locals
    <3> QED
      BY <2>1, <3>1, <3>2 DEF Squash!HardReset
  <2>3. EndedWhole'
    BY <1>1, <2>1, <2>2, BeforeSomewhere DEF EndedWhole
  <2> QED
    BY <1>1, <1>2, <1>3, <2>1, <2>3, Ends
<1>4. CASE squashPc' # "over"
  <2>1. StashInOrder'
    BY <1>1
    DEF StashInOrder, Squash!HardReset, Squash!Goto, Squash!End, Squash!Trouble, Squash!Throw,
        Squash!Restored, Squash!repository, Squash!locals
  <2>2. TakenIsStashed'
    BY <1>1, <1>4, StashEntries, Newest
    DEF SquashTyped, TakenIsStashed, PlaceOf, Squash!HardReset, Squash!Goto, Squash!End,
        Squash!Trouble, Squash!Throw, Squash!Restored, Squash!repository, Squash!locals
  <2>3. RestoredIsKept'
    BY <1>1, <1>4, StashEntries
    DEF SquashTyped, RestoredIsKept, TakenIsStashed, PlaceOf, Squash!HardReset, Squash!Goto,
        Squash!End, Squash!Trouble, Squash!Throw, Squash!Restored, Squash!repository, Squash!locals
  <2>4. Undisturbed'
    BY <1>1, <1>4, StashEntries, Newest
    DEF SquashTyped, StashInOrder, TakenIsStashed, Undisturbed, Aside, Squash!HardReset,
        Squash!Goto, Squash!End, Squash!Trouble, Squash!Throw, Squash!Restored, Squash!repository,
        Squash!locals
  <2> QED
    BY <1>2, <1>4, <2>1, <2>2, <2>3, <2>4, GoesOn
<1> QED
  BY <1>3, <1>4

LEMMA SquashApplyKeeps == ASSUME SquashInv, Squash!Apply PROVE SquashInv'
<1>1. SquashTyped /\ squashPc # "over" /\ StashInOrder /\ TakenIsStashed /\ RestoredIsKept
        /\ Undisturbed
  BY DEF SquashInv, Squash!Apply
<1>2. SquashTyped'
  <2>1. automaticStash.holds \subseteq Change \cup {"old"}
    BY <1>1, StashEntries DEF SquashTyped, RestoredIsKept, Squash!Apply
  <2>2. worktree' \subseteq Change \cup {"old"} /\ squashPc' \in {"list", "over"}
    BY <1>1, <2>1 DEF SquashTyped, Squash!Apply, Squash!Goto, Squash!End
  <2>3. /\ UNCHANGED <<head, staged, stash, previousOid, automaticStash, softResetApplied,
                       squashSucceeded, stashRef, before, taken, outside>>
        /\ squashPc' # "over" => told' = told
    BY
    DEF Squash!Apply, Squash!Goto, Squash!End, Squash!Trouble, Squash!Throw, Squash!Restored,
        Squash!repository, Squash!locals
  <2> QED
    BY <1>1, <2>2, <2>3 DEF SquashTyped
<1>3. CASE squashPc' = "over"
  <2>1. UNCHANGED <<stash, taken, before, outside, squashSucceeded>> /\ worktree \subseteq worktree'
    BY <1>3
    DEF Squash!Apply, Squash!Goto, Squash!End, Squash!Trouble, Squash!Throw, Squash!Restored,
        Squash!repository, Squash!locals
  <2>2. ASSUME outside = 0, told' \notin {None, "nothing"}
        PROVE  /\ told' # "not rolled back" =>
                    ~staged' /\ head' = IF squashSucceeded' THEN "squashed" ELSE "start"
               /\ told' = "squashed" => worktree' = before' /\ Len(stash') = 1
    BY <1>1, <1>3, <2>2, Newest
    DEF SquashTyped, Undisturbed, Aside, RestoredIsKept, TakenIsStashed, Squash!Apply, Squash!Goto,
        Squash!End, Squash!Trouble, Squash!Throw, Squash!Restored, Squash!repository, Squash!locals
  <2>3. EndedWhole'
    BY <1>1, <2>1, <2>2, BeforeSomewhere DEF EndedWhole
  <2> QED
    BY <1>1, <1>2, <1>3, <2>1, <2>3, Ends
<1>4. CASE squashPc' # "over"
  <2>1. StashInOrder'
    BY <1>1
    DEF StashInOrder, Squash!Apply, Squash!Goto, Squash!End, Squash!Trouble, Squash!Throw,
        Squash!Restored, Squash!repository, Squash!locals
  <2>2. TakenIsStashed'
    BY <1>1, <1>4, StashEntries, Newest
    DEF SquashTyped, TakenIsStashed, PlaceOf, Squash!Apply, Squash!Goto, Squash!End,
        Squash!Trouble, Squash!Throw, Squash!Restored, Squash!repository, Squash!locals
  <2>3. RestoredIsKept'
    BY <1>1, <1>4, StashEntries
    DEF SquashTyped, RestoredIsKept, TakenIsStashed, PlaceOf, Squash!Apply, Squash!Goto,
        Squash!End, Squash!Trouble, Squash!Throw, Squash!Restored, Squash!repository, Squash!locals
  <2>4. Undisturbed'
    BY <1>1, <1>4, StashEntries, Newest
    DEF SquashTyped, StashInOrder, TakenIsStashed, Undisturbed, Aside, Squash!Apply, Squash!Goto,
        Squash!End, Squash!Trouble, Squash!Throw, Squash!Restored, Squash!repository, Squash!locals
  <2> QED
    BY <1>2, <1>4, <2>1, <2>2, <2>3, <2>4, GoesOn
<1> QED
  BY <1>3, <1>4

LEMMA SquashFindRefKeeps == ASSUME SquashInv, Squash!FindRef PROVE SquashInv'
<1>1. SquashTyped /\ squashPc # "over" /\ StashInOrder /\ TakenIsStashed /\ RestoredIsKept
        /\ Undisturbed
  BY DEF SquashInv, Squash!FindRef
<1>2. SquashTyped'
  <2>1. stashRef' \in Nat /\ squashPc' \in {"same", "over"}
    <3>1. \A i \in DOMAIN stash : i \in Nat
      BY <1>1, StashEntries
    <3>2. (\E i \in DOMAIN stash : stashRef' = i) \/ stashRef' = stashRef
      BY DEF Squash!FindRef
    <3>3. squashPc' \in {"same", "over"}
      BY DEF Squash!FindRef, Squash!Goto, Squash!End
    <3> QED
      BY <1>1, <3>1, <3>2, <3>3 DEF SquashTyped
  <2>2. /\ UNCHANGED <<head, staged, worktree, stash, previousOid, automaticStash, softResetApplied,
                       squashSucceeded, before, taken, outside>>
        /\ squashPc' # "over" => told' = told
    BY
    DEF Squash!FindRef, Squash!Goto, Squash!End, Squash!Trouble, Squash!Throw, Squash!Restored,
        Squash!repository, Squash!locals
  <2> QED
    BY <1>1, <2>1, <2>2 DEF SquashTyped
<1>3. CASE squashPc' = "over"
  <2>1. UNCHANGED <<stash, taken, before, outside, squashSucceeded>> /\ worktree \subseteq worktree'
    BY <1>3
    DEF Squash!FindRef, Squash!Goto, Squash!End, Squash!Trouble, Squash!Throw, Squash!Restored,
        Squash!repository, Squash!locals
  <2>2. ASSUME outside = 0, told' \notin {None, "nothing"}
        PROVE  /\ told' # "not rolled back" =>
                    ~staged' /\ head' = IF squashSucceeded' THEN "squashed" ELSE "start"
               /\ told' = "squashed" => worktree' = before' /\ Len(stash') = 1
    BY <1>1, <1>3, <2>2, Newest
    DEF SquashTyped, Undisturbed, Aside, RestoredIsKept, TakenIsStashed, Squash!FindRef,
        Squash!Goto, Squash!End, Squash!Trouble, Squash!Throw, Squash!Restored, Squash!repository,
        Squash!locals
  <2>3. EndedWhole'
    BY <1>1, <2>1, <2>2, BeforeSomewhere DEF EndedWhole
  <2> QED
    BY <1>1, <1>2, <1>3, <2>1, <2>3, Ends
<1>4. CASE squashPc' # "over"
  <2>1. StashInOrder'
    BY <1>1
    DEF StashInOrder, Squash!FindRef, Squash!Goto, Squash!End, Squash!Trouble, Squash!Throw,
        Squash!Restored, Squash!repository, Squash!locals
  <2>2. TakenIsStashed'
    BY <1>1, <1>4, StashEntries, Newest
    DEF SquashTyped, TakenIsStashed, PlaceOf, Squash!FindRef, Squash!Goto, Squash!End,
        Squash!Trouble, Squash!Throw, Squash!Restored, Squash!repository, Squash!locals
  <2>3. PICK i \in 1..Len(stash) : stash[i] = automaticStash /\ stashRef' = i
    BY <1>1, <1>4, StashEntries DEF Squash!FindRef, Squash!End
  <2>4. automaticStash.id = Len(stash) + 1 - i /\ PlaceOf(automaticStash) = i
    BY <1>1, <2>3, StashEntries DEF StashInOrder, PlaceOf
  <2>5. /\ UNCHANGED <<head, staged, worktree, stash, automaticStash, squashSucceeded, before,
             taken,
                       outside>>
        /\ squashPc = "list" /\ squashPc' = "same"
    BY <1>4
    DEF Squash!FindRef, Squash!Goto, Squash!End, Squash!Trouble, Squash!Throw, Squash!Restored,
        Squash!repository, Squash!locals
  <2>6. PlaceOf(automaticStash)' = PlaceOf(automaticStash)
    BY <2>5 DEF PlaceOf
  <2>7. RestoredIsKept'
    BY <1>1, <2>3, <2>4, <2>5, <2>6, StashEntries DEF RestoredIsKept
  <2>8. outside = 0 => i = 1
    BY <1>1, <2>4, <2>5, StashEntries, Newest DEF Undisturbed, SquashTyped
  <2>9. Undisturbed'
    BY <1>1, <2>3, <2>5, <2>8 DEF Undisturbed
  <2> QED
    BY <1>2, <1>4, <2>1, <2>2, <2>7, <2>9, GoesOn
<1> QED
  BY <1>3, <1>4

LEMMA SquashVerifyRefKeeps == ASSUME SquashInv, Squash!VerifyRef PROVE SquashInv'
<1>1. SquashTyped /\ squashPc # "over" /\ StashInOrder /\ TakenIsStashed /\ RestoredIsKept
        /\ Undisturbed
  BY DEF SquashInv, Squash!VerifyRef
<1>2. SquashTyped'
  BY <1>1, Newest, StashEntries
  DEF SquashTyped, Squash!VerifyRef, Squash!Goto, Squash!End, Squash!Trouble, Squash!Throw,
      Squash!Restored, Squash!repository, Squash!locals
<1>3. CASE squashPc' = "over"
  <2>1. UNCHANGED <<stash, taken, before, outside, squashSucceeded>> /\ worktree \subseteq worktree'
    BY <1>3
    DEF Squash!VerifyRef, Squash!Goto, Squash!End, Squash!Trouble, Squash!Throw, Squash!Restored,
        Squash!repository, Squash!locals
  <2>2. ASSUME outside = 0, told' \notin {None, "nothing"}
        PROVE  /\ told' # "not rolled back" =>
                    ~staged' /\ head' = IF squashSucceeded' THEN "squashed" ELSE "start"
               /\ told' = "squashed" => worktree' = before' /\ Len(stash') = 1
    BY <1>1, <1>3, <2>2, Newest
    DEF SquashTyped, Undisturbed, Aside, RestoredIsKept, TakenIsStashed, Squash!VerifyRef,
        Squash!Goto, Squash!End, Squash!Trouble, Squash!Throw, Squash!Restored, Squash!repository,
        Squash!locals
  <2>3. EndedWhole'
    BY <1>1, <2>1, <2>2, BeforeSomewhere DEF EndedWhole
  <2> QED
    BY <1>1, <1>2, <1>3, <2>1, <2>3, Ends
<1>4. CASE squashPc' # "over"
  <2>1. StashInOrder'
    BY <1>1
    DEF StashInOrder, Squash!VerifyRef, Squash!Goto, Squash!End, Squash!Trouble, Squash!Throw,
        Squash!Restored, Squash!repository, Squash!locals
  <2>2. TakenIsStashed'
    BY <1>1, <1>4, StashEntries, Newest
    DEF SquashTyped, TakenIsStashed, PlaceOf, Squash!VerifyRef, Squash!Goto, Squash!End,
        Squash!Trouble, Squash!Throw, Squash!Restored, Squash!repository, Squash!locals
  <2>3. RestoredIsKept'
    BY <1>1, <1>4, StashEntries
    DEF SquashTyped, RestoredIsKept, TakenIsStashed, PlaceOf, Squash!VerifyRef, Squash!Goto,
        Squash!End, Squash!Trouble, Squash!Throw, Squash!Restored, Squash!repository, Squash!locals
  <2>4. Undisturbed'
    BY <1>1, <1>4, StashEntries, Newest
    DEF SquashTyped, StashInOrder, TakenIsStashed, Undisturbed, Aside, Squash!VerifyRef,
        Squash!Goto, Squash!End, Squash!Trouble, Squash!Throw, Squash!Restored, Squash!repository,
        Squash!locals
  <2> QED
    BY <1>2, <1>4, <2>1, <2>2, <2>3, <2>4, GoesOn
<1> QED
  BY <1>3, <1>4

LEMMA SquashCrashKeeps == ASSUME SquashInv, Squash!Crash PROVE SquashInv'
<1>1. SquashTyped /\ squashPc # "over" /\ StashInOrder /\ TakenIsStashed /\ RestoredIsKept
        /\ Undisturbed
  BY DEF SquashInv, Squash!Crash
<1>2. SquashTyped'
  BY <1>1, Newest, StashEntries
  DEF SquashTyped, Squash!Crash, Squash!Goto, Squash!End, Squash!Trouble, Squash!Throw,
      Squash!Restored, Squash!repository, Squash!locals
<1>3. CASE squashPc' = "over"
  <2>1. UNCHANGED <<stash, taken, before, outside, squashSucceeded>> /\ worktree \subseteq worktree'
    BY <1>3
    DEF Squash!Crash, Squash!Goto, Squash!End, Squash!Trouble, Squash!Throw, Squash!Restored,
        Squash!repository, Squash!locals
  <2>2. ASSUME outside = 0, told' \notin {None, "nothing"}
        PROVE  /\ told' # "not rolled back" =>
                    ~staged' /\ head' = IF squashSucceeded' THEN "squashed" ELSE "start"
               /\ told' = "squashed" => worktree' = before' /\ Len(stash') = 1
    BY <1>1, <1>3, <2>2, Newest
    DEF SquashTyped, Undisturbed, Aside, RestoredIsKept, TakenIsStashed, Squash!Crash, Squash!Goto,
        Squash!End, Squash!Trouble, Squash!Throw, Squash!Restored, Squash!repository, Squash!locals
  <2>3. EndedWhole'
    BY <1>1, <2>1, <2>2, BeforeSomewhere DEF EndedWhole
  <2> QED
    BY <1>1, <1>2, <1>3, <2>1, <2>3, Ends
<1>4. CASE squashPc' # "over"
  <2>1. StashInOrder'
    BY <1>1
    DEF StashInOrder, Squash!Crash, Squash!Goto, Squash!End, Squash!Trouble, Squash!Throw,
        Squash!Restored, Squash!repository, Squash!locals
  <2>2. TakenIsStashed'
    BY <1>1, <1>4, StashEntries, Newest
    DEF SquashTyped, TakenIsStashed, PlaceOf, Squash!Crash, Squash!Goto, Squash!End,
        Squash!Trouble, Squash!Throw, Squash!Restored, Squash!repository, Squash!locals
  <2>3. RestoredIsKept'
    BY <1>1, <1>4, StashEntries
    DEF SquashTyped, RestoredIsKept, TakenIsStashed, PlaceOf, Squash!Crash, Squash!Goto,
        Squash!End, Squash!Trouble, Squash!Throw, Squash!Restored, Squash!repository, Squash!locals
  <2>4. Undisturbed'
    BY <1>1, <1>4, StashEntries, Newest
    DEF SquashTyped, StashInOrder, TakenIsStashed, Undisturbed, Aside, Squash!Crash, Squash!Goto,
        Squash!End, Squash!Trouble, Squash!Throw, Squash!Restored, Squash!repository, Squash!locals
  <2> QED
    BY <1>2, <1>4, <2>1, <2>2, <2>3, <2>4, GoesOn
<1> QED
  BY <1>3, <1>4

\* A list with a new entry is in order, and what was to be restored is one further down.
LEMMA Grown ==
  ASSUME SquashTyped, StashInOrder, NEW changes \in SUBSET (Change \cup {"old"}), changes # {},
         stash' = Squash!Pushed(changes)
  PROVE  /\ stash' \in Seq(StashEntry) /\ Len(stash') = Len(stash) + 1 /\ StashInOrder'
         /\ stash'[1].holds = changes /\ \A i \in 1..Len(stash) : stash'[i + 1] = stash[i]
         /\ automaticStash \in StashEntry /\ UNCHANGED automaticStash =>
              PlaceOf(automaticStash)' = PlaceOf(automaticStash) + 1
<1>1. /\ stash' \in Seq(StashEntry) /\ Len(stash') = Len(stash) + 1
      /\ stash'[1] = [id |-> Len(stash) + 1, holds |-> changes]
      /\ \A i \in 1..Len(stash) : stash'[i + 1] = stash[i]
      /\ \A i \in 2..Len(stash') : stash'[i] = stash[i - 1]
  BY NewEntry
<1>2. stash'[1].id = Len(stash) + 1 /\ stash'[1].holds = changes
  BY <1>1
<1>3. Len(stash) \in Nat /\ Len(stash) >= 1
  BY StashEntries DEF StashInOrder
<1>4. stash'[Len(stash')] = stash[Len(stash)]
  BY <1>1, <1>3
<1>5. ASSUME NEW i \in 1..Len(stash') PROVE stash'[i].id = Len(stash') + 1 - i
  <2>1. CASE i = 1
    BY <1>1, <1>2, <1>3, <2>1
  <2>2. CASE i # 1
    <3>1. i - 1 \in 1..Len(stash) /\ stash'[i] = stash[i - 1]
      BY <1>1, <1>3, <2>2
    <3>2. stash[i - 1].id = Len(stash) + 1 - (i - 1)
      BY <3>1 DEF StashInOrder
    <3> QED
      BY <1>1, <1>3, <3>1, <3>2
  <2> QED
    BY <2>1, <2>2
<1>6. StashInOrder'
  BY <1>1, <1>3, <1>4, <1>5 DEF StashInOrder
<1>7. ASSUME automaticStash \in StashEntry, UNCHANGED automaticStash
      PROVE  PlaceOf(automaticStash)' = PlaceOf(automaticStash) + 1
  BY <1>1, <1>3, <1>7, StashEntries DEF PlaceOf
<1> QED
  BY <1>1, <1>2, <1>6, <1>7

LEMMA SquashPushKeeps == ASSUME SquashInv, Squash!Push PROVE SquashInv'
<1>1. /\ SquashTyped /\ squashPc = "push" /\ StashInOrder /\ Undisturbed /\ taken = {}
      /\ automaticStash = None /\ worktree \subseteq Change
  BY DEF SquashInv, Squash!Push, TakenIsStashed, SquashTyped
<1>2. /\ UNCHANGED <<head, staged, previousOid, automaticStash, softResetApplied, squashSucceeded,
                     stashRef, before, outside>>
      /\ squashPc' # "over" => told' = told
      /\ worktree' \subseteq worktree /\ taken' \subseteq worktree
      /\ squashPc' \in {"verify", "hard", "apply", "over"}
      /\ stash' \in {stash, Squash!Pushed(worktree)}
  BY <1>1
  DEF Squash!Push, Squash!Goto, Squash!End, Squash!Trouble, Squash!Throw, Squash!Restored,
      Squash!repository, Squash!locals
<1>3. worktree = {} => Squash!Pushed(worktree) = stash
  BY DEF Squash!Pushed
<1>4. stash' \in Seq(StashEntry) /\ StashInOrder'
  <2>1. CASE stash' = stash
    BY <1>1, <2>1 DEF SquashTyped, StashInOrder
  <2>2. CASE stash' # stash
    BY <1>1, <1>2, <1>3, <2>2, Grown
  <2> QED
    BY <2>1, <2>2
<1>5. SquashTyped'
  BY <1>1, <1>2, <1>4 DEF SquashTyped
<1>6. automaticStash' = None /\ squashPc' # "apply"
  BY <1>1, <1>2
  DEF Squash!Push, Squash!Goto, Squash!End, Squash!Trouble, Squash!Throw, Squash!Restored,
      Squash!repository, Squash!locals
<1>7. TakenIsStashed'
  <2>1. ASSUME taken' # {} PROVE \E i \in 1..Len(stash') : stash'[i].holds = taken'
    <3>1. taken' = worktree /\ stash' = Squash!Pushed(worktree) /\ worktree # {}
      BY <1>1, <1>2, <2>1 DEF Squash!Push
    <3>2. stash'[1].holds = worktree /\ Len(stash') = Len(stash) + 1
      BY <1>1, <3>1, Grown
    <3> QED
      BY <1>1, <3>1, <3>2, StashEntries
  <2> QED
    BY <1>2, <1>6, <2>1 DEF TakenIsStashed
<1>8. RestoredIsKept'
  BY <1>2, <1>6 DEF RestoredIsKept
<1>9. ASSUME outside = 0
      PROVE  /\ before = worktree /\ before # {} /\ Len(stash) = 1 /\ head = "start" /\ ~staged
             /\ ~softResetApplied /\ ~squashSucceeded /\ previousOid \in {None, stash[1]}
  BY <1>1, <1>9 DEF Undisturbed
<1>10. CASE squashPc' = "verify"
  <2>1. stash' = Squash!Pushed(worktree) /\ worktree' = {}
    BY <1>1, <1>10
    DEF Squash!Push, Squash!Goto, Squash!End, Squash!Trouble, Squash!Throw, Squash!Restored,
        Squash!repository, Squash!locals
  <2>2. ASSUME outside = 0
        PROVE  /\ Len(stash') = 2 /\ stash'[1].holds = before
               /\ previousOid \in {None, stash'[2]}
    <3>1. /\ Len(stash') = Len(stash) + 1 /\ stash'[1].holds = worktree
          /\ \A i \in 1..Len(stash) : stash'[i + 1] = stash[i]
      BY <1>1, <1>9, <2>1, <2>2, Grown
    <3>2. Len(stash') = 2 /\ stash'[2] = stash[1]
      <4>1. 1 \in 1..Len(stash) /\ Len(stash) = 1 /\ 1 + 1 = 2
        BY <1>9, <2>2
      <4> QED
        BY <3>1, <4>1
    <3> QED
      BY <1>9, <2>2, <3>1, <3>2
  <2>3. Undisturbed'
    BY <1>2, <1>9, <1>10, <2>1, <2>2 DEF Undisturbed
  <2> QED
    BY <1>4, <1>5, <1>7, <1>8, <1>10, <2>3, GoesOn
<1>11. CASE squashPc' = "hard"
  <2>1. Undisturbed'
    BY <1>1, <1>2, <1>9, <1>11
    DEF Undisturbed, Squash!Push, Squash!Goto, Squash!End, Squash!Trouble, Squash!Throw,
        Squash!Restored, Squash!repository, Squash!locals
  <2> QED
    BY <1>4, <1>5, <1>7, <1>8, <1>11, <2>1, GoesOn
<1>12. CASE squashPc' = "over"
  <2>1. worktree' = worktree /\ told' = "failed"
    BY <1>1, <1>12
    DEF Squash!Push, Squash!Goto, Squash!End, Squash!Trouble, Squash!Throw, Squash!Restored,
        Squash!repository, Squash!locals
  <2>2. EndedWhole'
    BY <1>2, <1>9, <2>1 DEF EndedWhole
  <2>3. Squash!EndsWhole'
    BY <1>5, <2>2, WholeAtEnd, PTL
  <2>4. Squash!TakenIsKept' /\ Squash!TypeOK'
    BY <1>4, <1>5, <1>7, KeptInStash, PTL
  <2> QED
    BY <1>5, <1>12, <2>3, <2>4 DEF SquashInv
<1> QED
  BY <1>2, <1>6, <1>10, <1>11, <1>12

\* A sequence without one of its elements.
LEMMA Without ==
  ASSUME NEW S, NEW s \in Seq(S), NEW r \in 1..Len(s)
  PROVE  LET after == SubSeq(s, 1, r - 1) \o SubSeq(s, r + 1, Len(s))
         IN  /\ after \in Seq(S) /\ Len(after) = Len(s) - 1
             /\ \A i \in 1..Len(s) - 1 : after[i] = IF i < r THEN s[i] ELSE s[i + 1]
<1> DEFINE newer == SubSeq(s, 1, r - 1)
<1> DEFINE older == SubSeq(s, r + 1, Len(s))
<1>1. Len(s) \in Nat /\ r \in Nat /\ r >= 1 /\ r <= Len(s)
  OBVIOUS
<1>2. newer \in Seq(S) /\ Len(newer) = r - 1 /\ \A i \in 1..r - 1 : newer[i] = s[i]
  BY SubSeqProperties
<1>3. /\ older \in Seq(S) /\ Len(older) = Len(s) - r
      /\ \A i \in 1..Len(s) - r : older[i] = s[r + i]
  BY SubSeqProperties
<1> HIDE DEF newer, older
<1>4. /\ newer \o older \in Seq(S) /\ Len(newer \o older) = Len(newer) + Len(older)
      /\ \A i \in 1..Len(newer) + Len(older) :
           (newer \o older)[i] = IF i <= Len(newer) THEN newer[i] ELSE older[i - Len(newer)]
  BY <1>2, <1>3, ConcatProperties, Zenon
<1>5. Len(newer) + Len(older) = Len(s) - 1
  BY <1>1, <1>2, <1>3
<1>6. ASSUME NEW i \in 1..Len(s) - 1
      PROVE  (newer \o older)[i] = IF i < r THEN s[i] ELSE s[i + 1]
  <2>1. (newer \o older)[i] = IF i <= Len(newer) THEN newer[i] ELSE older[i - Len(newer)]
    BY <1>4, <1>5, Zenon
  <2>2. CASE i < r
    <3>1. i \in 1..r - 1 /\ i <= r - 1
      BY <1>1, <2>2
    <3> QED
      BY <1>2, <2>1, <2>2, <3>1, Zenon
  <2>3. CASE ~(i < r)
    <3>1. i - (r - 1) \in 1..Len(s) - r /\ r + (i - (r - 1)) = i + 1 /\ ~(i <= r - 1)
      BY <1>1, <2>3
    <3>2. older[i - (r - 1)] = s[i + 1]
      BY <1>3, <3>1, Zenon
    <3> QED
      BY <1>2, <2>1, <2>3, <3>1, <3>2, Zenon
  <2> QED
    BY <2>2, <2>3
<1>7. newer \o older \in Seq(S) /\ Len(newer \o older) = Len(s) - 1
  BY <1>4, <1>5, Zenon
<1> QED
  BY <1>6, <1>7, Zenon DEF newer, older

LEMMA Dropped ==
  ASSUME SquashTyped, NEW r \in 1..Len(stash),
         stash' = SubSeq(stash, 1, r - 1) \o SubSeq(stash, r + 1, Len(stash))
  PROVE  /\ stash' \in Seq(StashEntry) /\ Len(stash') = Len(stash) - 1
         /\ \A i \in 1..Len(stash') : stash'[i] = IF i < r THEN stash[i] ELSE stash[i + 1]
<1>1. stash \in Seq(StashEntry)
  BY DEF SquashTyped
<1> QED
  BY <1>1, Without, Zenon

LEMMA SquashDropKeeps == ASSUME SquashInv, Squash!Drop PROVE SquashInv'
<1>1. /\ SquashTyped /\ squashPc = "drop" /\ StashInOrder /\ TakenIsStashed /\ RestoredIsKept
      /\ Undisturbed /\ Squash!TypeOK
  BY DEF SquashInv, Squash!Drop
<1>2. /\ UNCHANGED <<head, staged, worktree, previousOid, automaticStash, softResetApplied,
                     squashSucceeded, stashRef, before, taken, outside>>
      /\ squashPc' = "over"
  BY DEF Squash!Drop, Squash!End, Squash!locals
<1>3. /\ automaticStash \in StashEntry /\ PlaceOf(automaticStash) \in 1..Len(stash)
      /\ stash[PlaceOf(automaticStash)] = automaticStash
      /\ stashRef \in 1..PlaceOf(automaticStash) /\ stashRef \in 1..Len(stash)
  BY <1>1, StashEntries DEF SquashTyped, TakenIsStashed, RestoredIsKept
<1>4. ASSUME outside = 0
      PROVE  /\ stashRef = 1 /\ Len(stash) = 2 /\ worktree = before /\ ~staged
             /\ head = IF squashSucceeded THEN "squashed" ELSE "start"
  BY <1>1, <1>4 DEF Undisturbed
<1>5. CASE stash' = stash /\ told' = "stash retained"
  <2>1. SquashTyped'
    BY <1>1, <1>2, <1>5 DEF SquashTyped
  <2>2. EndedWhole'
    BY <1>2, <1>4, <1>5 DEF EndedWhole
  <2> QED
    BY <1>1, <1>2, <1>5, <2>1, <2>2, Ends
<1>6. CASE /\ stash' = SubSeq(stash, 1, stashRef - 1) \o SubSeq(stash, stashRef + 1, Len(stash))
           /\ told' = IF squashSucceeded THEN "squashed" ELSE "failed"
  <2>1. /\ stash' \in Seq(StashEntry) /\ Len(stash') = Len(stash) - 1
        /\ \A i \in 1..Len(stash') : stash'[i] = IF i < stashRef THEN stash[i] ELSE stash[i + 1]
    BY <1>1, <1>3, <1>6, Dropped
  <2>2. SquashTyped'
    BY <1>1, <1>2, <2>1 DEF SquashTyped
  <2>3. Len(stash) \in Nat /\ DOMAIN stash' = 1..Len(stash') /\ stashRef \in Nat
    BY <1>1, <1>3, <2>1, StashEntries
  <2>4. Squash!TypeOK'
    <3>1. ASSUME NEW i \in 1..Len(stash'), NEW j \in 1..Len(stash'), i < j
          PROVE  stash'[i].id # stash'[j].id
      <4>1. /\ stash'[i] = stash[IF i < stashRef THEN i ELSE i + 1]
            /\ stash'[j] = stash[IF j < stashRef THEN j ELSE j + 1]
        BY <2>1
      <4>2. /\ (IF i < stashRef THEN i ELSE i + 1) \in 1..Len(stash)
            /\ (IF j < stashRef THEN j ELSE j + 1) \in 1..Len(stash)
            /\ (IF i < stashRef THEN i ELSE i + 1) < (IF j < stashRef THEN j ELSE j + 1)
        BY <2>1, <2>3, <3>1
      <4> DEFINE k == IF i < stashRef THEN i ELSE i + 1
      <4> DEFINE l == IF j < stashRef THEN j ELSE j + 1
      <4> HIDE DEF k, l
      <4>3. stash[k].id = Len(stash) + 1 - k /\ stash[l].id = Len(stash) + 1 - l /\ k < l
            /\ k \in 1..Len(stash) /\ l \in 1..Len(stash)
        BY <1>1, <4>2 DEF StashInOrder, k, l
      <4>4. stash[k].id # stash[l].id
        BY <2>3, <4>3
      <4> QED
        BY <4>1, <4>4 DEF k, l
    <3>2. \A i, j \in 1..Len(stash') : stash'[i].id = stash'[j].id => i = j
      <4> SUFFICES ASSUME NEW i \in 1..Len(stash'), NEW j \in 1..Len(stash'), i # j
                   PROVE  stash'[i].id # stash'[j].id
        OBVIOUS
      <4>1. i < j \/ j < i
        BY <2>1, <2>3
      <4> QED
        BY <3>1, <4>1
    <3> QED
      BY <2>2, <2>3, <3>2 DEF SquashTyped, Squash!TypeOK
  <2>5. ASSUME NEW x \in taken \cup {"old"}
        PROVE  x \in worktree \/ \E i \in 1..Len(stash) : i # stashRef /\ x \in stash[i].holds
    <3>1. PICK j \in 1..Len(stash) : x \in stash[j].holds /\ j >= PlaceOf(automaticStash)
      <4>1. CASE x \in taken
        BY <1>1, <1>3, <4>1, StashEntries DEF TakenIsStashed
      <4>2. CASE x = "old"
        BY <1>1, <1>3, <4>2, StashEntries DEF StashInOrder
      <4> QED
        BY <4>1, <4>2
    <3>2. CASE j = stashRef
      <4>1. PlaceOf(automaticStash) = stashRef /\ stash[j] = automaticStash
        BY <1>3, <3>1, <3>2
      <4>2. x \in worktree \/ \E i \in 1..Len(stash) : i < stashRef /\ x \in stash[i].holds
        BY <1>1, <3>1, <4>1 DEF RestoredIsKept
      <4> QED
        BY <2>3, <4>2
    <3> QED
      BY <3>1, <3>2
  <2>6. ASSUME NEW i \in 1..Len(stash), i # stashRef
        PROVE  \E j \in DOMAIN stash' : stash'[j] = stash[i]
    <3>1. CASE i < stashRef
      BY <1>3, <2>1, <2>3, <3>1
    <3>2. CASE ~(i < stashRef)
      <4>1. i - 1 \in 1..Len(stash') /\ ~(i - 1 < stashRef) /\ (i - 1) + 1 = i
        BY <1>3, <2>1, <2>3, <2>6, <3>2
      <4> QED
        BY <2>1, <2>3, <4>1
    <3> QED
      BY <3>1, <3>2
  <2>7. Squash!TakenIsKept'
    <3>1. \A x \in taken' \cup {"old"} :
            x \in worktree' \/ \E j \in DOMAIN stash' : x \in stash'[j].holds
      BY <1>2, <2>5, <2>6
    <3> QED
      BY <3>1 DEF Squash!TakenIsKept, Squash!Kept
  <2>8. EndedWhole'
    BY <1>2, <1>4, <1>6, <2>1 DEF EndedWhole
  <2>9. Squash!EndsWhole'
    BY <2>2, <2>8, WholeAtEnd, PTL
  <2> QED
    BY <1>2, <2>2, <2>4, <2>7, <2>9 DEF SquashInv
<1> QED
  BY <1>5, <1>6 DEF Squash!Drop, Squash!End

LEMMA SquashOutsideKeeps == ASSUME SquashInv, Squash!Outside PROVE SquashInv'
<1>1. /\ SquashTyped /\ squashPc # "over" /\ StashInOrder /\ TakenIsStashed /\ RestoredIsKept
  BY DEF SquashInv, Squash!Outside
<1>2. /\ UNCHANGED <<squashPc, previousOid, automaticStash, softResetApplied, squashSucceeded,
                     stashRef, told, before, taken>>
      /\ outside' = outside + 1 /\ outside' \in Nat /\ outside' # 0
  BY <1>1 DEF Squash!Outside, Squash!locals, SquashTyped
<1>3. Undisturbed'
  BY <1>2 DEF Undisturbed
<1>4. SquashTyped' /\ StashInOrder' /\ TakenIsStashed' /\ RestoredIsKept'
  <2>1. ASSUME NEW c \in Change, worktree' \in {worktree \cup {c}, worktree \ ({c} \ taken)},
               UNCHANGED <<head, staged, stash>>
        PROVE  SquashTyped' /\ StashInOrder' /\ TakenIsStashed' /\ RestoredIsKept'
    <3>1. SquashTyped'
      BY <1>1, <1>2, <2>1 DEF SquashTyped
    <3>2. StashInOrder' /\ TakenIsStashed'
      BY <1>1, <1>2, <2>1 DEF StashInOrder, TakenIsStashed, PlaceOf
    <3>3. \A x \in taken \cup {"old"} : x \in worktree => x \in worktree'
      BY <1>1, <2>1, StashEntries
    <3>4. RestoredIsKept'
      BY <1>1, <1>2, <2>1, <3>3 DEF RestoredIsKept, PlaceOf
    <3> QED
      BY <3>1, <3>2, <3>4
  <2>2. CASE head' = "theirs" /\ staged' = FALSE /\ UNCHANGED <<worktree, stash>>
    <3>1. SquashTyped'
      BY <1>1, <1>2, <2>2 DEF SquashTyped
    <3> QED
      BY <1>1, <1>2, <2>2, <3>1 DEF StashInOrder, TakenIsStashed, RestoredIsKept, PlaceOf
  <2>3. CASE worktree # {} /\ stash' = Squash!Pushed(worktree) /\ worktree' = {}
             /\ UNCHANGED <<head, staged>>
    <3>1. /\ stash' \in Seq(StashEntry) /\ Len(stash') = Len(stash) + 1 /\ StashInOrder'
          /\ stash'[1].holds = worktree /\ \A i \in 1..Len(stash) : stash'[i + 1] = stash[i]
          /\ automaticStash \in StashEntry =>
               PlaceOf(automaticStash)' = PlaceOf(automaticStash) + 1
      BY <1>1, <1>2, <2>3, Grown DEF SquashTyped
    <3>2. SquashTyped'
      BY <1>1, <1>2, <2>3, <3>1 DEF SquashTyped
    <3>3. Len(stash) \in Nat /\ automaticStash \in StashEntry \cup {None}
      BY <1>1, StashEntries DEF SquashTyped
    <3>4. ASSUME automaticStash # None
          PROVE  /\ PlaceOf(automaticStash) \in 1..Len(stash)
                 /\ PlaceOf(automaticStash)' = PlaceOf(automaticStash) + 1
                 /\ PlaceOf(automaticStash)' \in 1..Len(stash')
                 /\ stash'[PlaceOf(automaticStash)'] = automaticStash
      BY <1>1, <3>1, <3>3, <3>4 DEF TakenIsStashed
    <3>5. TakenIsStashed'
      <4>1. ASSUME taken # {}
            PROVE  \E i \in 1..Len(stash') :
                     /\ stash'[i].holds = taken
                     /\ automaticStash # None => i >= PlaceOf(automaticStash)'
        <5>1. PICK i \in 1..Len(stash) :
                stash[i].holds = taken /\ (automaticStash # None => i >= PlaceOf(automaticStash))
          BY <1>1, <4>1 DEF TakenIsStashed
        <5>2. i + 1 \in 1..Len(stash') /\ stash'[i + 1].holds = taken
          BY <3>1, <3>3, <5>1
        <5>3. automaticStash # None => i + 1 >= PlaceOf(automaticStash)'
          BY <3>3, <3>4, <5>1
        <5> QED
          BY <5>2, <5>3
      <4> QED
        BY <1>1, <1>2, <3>4, <4>1 DEF TakenIsStashed
    <3>6. RestoredIsKept'
      <4>1. ASSUME squashPc \in {"list", "same", "drop"}, NEW x \in automaticStash.holds,
                   x \in taken \cup {"old"}
            PROVE  \E i \in 1..Len(stash') : i < PlaceOf(automaticStash)' /\ x \in stash'[i].holds
        <5>1. automaticStash # None
          BY <1>1, <4>1 DEF RestoredIsKept
        <5>2. CASE x \in worktree
          BY <3>1, <3>3, <3>4, <5>1, <5>2
        <5>3. CASE \E i \in 1..Len(stash) : i < PlaceOf(automaticStash) /\ x \in stash[i].holds
          <6>1. PICK i \in 1..Len(stash) : i < PlaceOf(automaticStash) /\ x \in stash[i].holds
            BY <5>3
          <6>2. i + 1 \in 1..Len(stash') /\ x \in stash'[i + 1].holds
            BY <3>1, <3>3, <6>1
          <6>3. i + 1 < PlaceOf(automaticStash)'
            BY <3>3, <3>4, <5>1, <6>1
          <6> QED
            BY <6>2, <6>3
        <5> QED
          BY <1>1, <4>1, <5>2, <5>3 DEF RestoredIsKept
      <4>2. ASSUME squashPc \in {"same", "drop"} PROVE stashRef \in 1..PlaceOf(automaticStash)'
        <5>1. automaticStash # None /\ stashRef \in 1..PlaceOf(automaticStash)
          BY <1>1, <4>2 DEF RestoredIsKept
        <5> QED
          BY <3>3, <3>4, <5>1
      <4> QED
        BY <1>1, <1>2, <4>1, <4>2 DEF RestoredIsKept
    <3> QED
      BY <3>1, <3>2, <3>5, <3>6
  <2> QED
    BY <1>2, <2>1, <2>2, <2>3 DEF Squash!Outside
<1> QED
  BY <1>1, <1>2, <1>3, <1>4, GoesOn

LEMMA SquashInvStep == SquashInv /\ [Squash!Next]_(Squash!vars) => SquashInv'
<1> SUFFICES ASSUME SquashInv, [Squash!Next]_(Squash!vars) PROVE SquashInv'
  OBVIOUS
<1>1. CASE UNCHANGED Squash!vars
  <2>1. /\ UNCHANGED <<head, staged, worktree, stash, squashPc, previousOid, automaticStash>>
        /\ UNCHANGED <<softResetApplied, squashSucceeded, stashRef, told, before, taken, outside>>
    BY <1>1 DEF Squash!vars, Squash!repository, Squash!locals
  <2>2. SquashTyped' /\ Squash!TypeOK'
    BY <2>1 DEF SquashInv, SquashTyped, Squash!TypeOK
  <2>3. Squash!TakenIsKept' /\ Squash!EndsWhole'
    BY <2>1 DEF SquashInv, Squash!TakenIsKept, Squash!EndsWhole, Squash!Kept
  <2>4. StashInOrder' = StashInOrder /\ TakenIsStashed' = TakenIsStashed
    BY <2>1 DEF StashInOrder, TakenIsStashed, PlaceOf
  <2>5. RestoredIsKept' = RestoredIsKept /\ Undisturbed' = Undisturbed
    BY <2>1 DEF RestoredIsKept, Undisturbed, Aside, PlaceOf
  <2> QED
    BY <2>1, <2>2, <2>3, <2>4, <2>5 DEF SquashInv
<1>2. CASE Squash!Next
  BY <1>2, SquashStatusKeeps, SquashReadTipKeeps, SquashPushKeeps, SquashVerifyKeeps,
     SquashCheckHeadKeeps, SquashSoftResetKeeps, SquashCommitKeeps, SquashHardResetKeeps,
     SquashApplyKeeps, SquashFindRefKeeps, SquashVerifyRefKeeps, SquashDropKeeps,
     SquashCrashKeeps, SquashOutsideKeeps
  DEF Squash!Next
<1> QED
  BY <1>1, <1>2

LEMMA SquashInvAlways == Squash!Spec => []SquashInv
BY SquashInvInit, SquashInvStep, PTL DEF Squash!Spec

-----------------------------------------------------------------------------
(* The commit of checked files. *)

Made ==
  [before : PanelCommits!Tree, after : PanelCommits!Tree, merge : BOOLEAN, bare : BOOLEAN,
   wanted : PanelCommits!Tree]

Staging == {"exclude", "add", "marker", "snapshot", "unstage", "commit"}
Restoring == {"read", "lock", "rename"}
Pushing == {"branches", "publish", "push", "again", "rebase"}

TreesTyped ==
  /\ request \in PanelCommits!Request /\ names \in {"apart", "case", "folded"}
  /\ commitHead \in PanelCommits!Tree /\ commitIndex \in PanelCommits!Tree
  /\ commitWork \in PanelCommits!Tree /\ lockSeen \in PanelCommits!Tree
  /\ wanted \in PanelCommits!Tree /\ snapshot \in PanelCommits!Tree \cup {None}
  /\ commitMade \in Made \cup {None}
StepTyped ==
  /\ indexLock \in {"free", "own", "theirs"} /\ attempt \in 0..2
  /\ commitPc \in {"status", "over"} \cup Staging \cup Restoring \cup Pushing
  /\ draft \in {"typed", "cleared"}
  /\ told \in {None, "committed", "not pushed", "not restored", "failed", "nothing"}
PathsTyped ==
  /\ commitPaths \subseteq {"new", "old"} /\ stagedButUncheckedPaths \subseteq {"other", "from"}
  /\ pathsToStage \subseteq commitPaths
  /\ hasCaseOnlyRename \in BOOLEAN /\ whole \in BOOLEAN /\ merging \in BOOLEAN
  /\ failed \in BOOLEAN /\ copied \in BOOLEAN /\ late \in BOOLEAN /\ overwritten \in BOOLEAN
PanelTyped == TreesTyped /\ StepTyped /\ PathsTyped

\* Trees the index may hold: the old name is never in it, the new one always where it is a rename in
\* case alone, and the contents of that file are not those of others.
IndexOf(t) ==
  /\ t["old"] = None /\ (names # "apart" => t["new"] # None)
  /\ t["other"] # "a" /\ t["from"] # "a"

\* The file has its old name in HEAD until it is committed under the new one.
NamesHold ==
  /\ IndexOf(commitIndex) /\ IndexOf(lockSeen) /\ (snapshot # None => IndexOf(snapshot))
  /\ commitWork["old"] = None /\ commitWork["new"] \in {clicked, "later"}
  /\ names # "apart" => commitWork["new"] # None
  /\ commitWork["other"] # "a"
  /\ commitHead["other"] # "a" /\ commitHead["from"] # "a"
  /\ \/ commitHead["old"] = None /\ (names # "apart" => commitHead["new"] # None)
     \/ commitHead["old"] = "a" /\ commitHead["new"] = None
  /\ commitPc = "status" /\ commitHead["new"] = None =>
       commitIndex["new"] = IF commitHead["old"] = "a" THEN "a" ELSE None

\* What is committed is what was checked, with the name it had before.
PathsChosen ==
  /\ request.kind = "staged" => commitPaths = {}
  /\ commitPc = "status" => commitPaths = {} /\ request.kind = "selected"
  /\ "old" \in commitPaths => "new" \in commitPaths /\ "new" \in request.paths
  /\ commitPaths \subseteq request.paths \cup {"old"}
  /\ commitPc \in Staging /\ request.kind = "selected" => request.paths \subseteq commitPaths
  /\ commitPc \in Staging /\ commitPaths = {"new"} => commitHead["old"] = None
  /\ hasCaseOnlyRename = ("old" \in commitPaths /\ names # "apart")
  /\ stagedButUncheckedPaths # {} => hasCaseOnlyRename
  /\ commitPc \in {"snapshot", "unstage"} \cup Restoring => hasCaseOnlyRename
  /\ commitPc = "marker" => ~hasCaseOnlyRename
  /\ hasCaseOnlyRename /\ commitPc \in {"unstage", "commit"} \cup Restoring => snapshot # None

\* The steps of a commit, and what the user is told.
StepsFollow ==
  /\ commitPc # "over" => told = None /\ draft = "typed"
  /\ commitPc \in Staging \cup {"status"} => commitMade = None /\ ~failed
  /\ commitPc \in Restoring => (failed <=> commitMade = None)
  /\ commitPc \in Pushing => commitMade # None
  /\ failed => commitMade = None
  /\ commitPc = "rename" => indexLock = "own"
  /\ copied => hasCaseOnlyRename /\ commitPc \in Pushing \cup {"over"}
  /\ indexLock = "theirs" => lockSeen = commitIndex \/ copied
  /\ whole => ~hasCaseOnlyRename /\ commitPc \notin {"status", "exclude", "add", "marker"}
  /\ whole /\ ~late /\ commitPc = "commit" => merging

\* The checked file is in the index as it is on disk, or as the deletion that was staged.
NewIsStaged ==
  \/ commitIndex["new"] \in {clicked, "later"}
  \/ commitIndex["new"] = None /\ wanted["new"] = None

CheckedIsStaged ==
  /\ commitPc \in {"status", "exclude"} => commitIndex["new"] = wanted["new"]
  /\ "new" \in commitPaths =>
       /\ commitPc = "add" => "new" \in pathsToStage \/ NewIsStaged
       /\ commitPc \in {"snapshot", "marker", "unstage", "commit"} => NewIsStaged

\* The unchecked files are in the index as the user wants them, or in the copy of it.
Unchecked(t) == \A p \in PanelCommits!Path \ commitPaths : t[p] = wanted[p]
UncheckedIsKept ==
  /\ ~hasCaseOnlyRename \/ commitPc \in {"exclude", "add", "snapshot"} => Unchecked(commitIndex)
  /\ hasCaseOnlyRename /\ commitPc \in {"unstage", "commit"} \cup Restoring =>
       overwritten \/ Unchecked(snapshot)
  /\ hasCaseOnlyRename
       /\ (commitPc \in Pushing
             \/ (commitPc = "over" /\ told \in {"committed", "not pushed", "failed"})) =>
       overwritten \/ copied \/ Unchecked(commitIndex)

\* Unless somebody stages meanwhile, nothing unchecked is staged when the whole index is committed
\* for the sake of a name.
UncheckedIsOut ==
  hasCaseOnlyRename /\ ~late =>
    \A p \in {"other", "from"} :
      /\ commitPc \in {"exclude", "add", "snapshot", "unstage"} =>
           commitIndex[p] = commitHead[p] \/ p \in stagedButUncheckedPaths
      /\ commitPc = "commit" => commitIndex[p] = commitHead[p]

PanelInv ==
  /\ PanelTyped /\ NamesHold /\ PathsChosen /\ StepsFollow /\ CheckedIsStaged
  /\ UncheckedIsKept /\ UncheckedIsOut /\ PanelCommits!CommitsWhatWasChecked
  /\ (commitPc = "over" => PanelCommits!DraftFollowsCommit)

LEMMA NoneApart ==
  /\ None # "base" /\ None # "a" /\ None # "b" /\ None # "staged" /\ None # "work" /\ None # "later"
  /\ None \notin PanelCommits!Tree /\ None \notin Made
  /\ None \notin {"nothing", "committed", "not pushed", "not restored", "failed"}
BY CommitsAssumption DEF Made

\* What git takes into a tree where the old name is not, or is taken out: the file under its new
\* name alone.
LEMMA TakenIs ==
  ASSUME NEW t \in PanelCommits!Tree, NEW S \in SUBSET {"new", "old"},
         commitWork \in PanelCommits!Tree, commitWork["old"] = None,
         names \in {"apart", "case", "folded"},
         \/ t["old"] = None /\ (names # "apart" => t["new"] # None)
         \/ names = "apart" /\ "old" \in S
  PROVE  /\ PanelCommits!Taken(t, S) \in PanelCommits!Tree
         /\ PanelCommits!Taken(t, S)["other"] = t["other"]
         /\ PanelCommits!Taken(t, S)["from"] = t["from"]
         /\ PanelCommits!Taken(t, S)["old"] = None
         /\ "new" \in S => PanelCommits!Taken(t, S)["new"] = commitWork["new"]
         /\ S = {} => PanelCommits!Taken(t, S)["new"] = t["new"]
         /\ PanelCommits!Taken(t, S)["new"] \in {t["new"], commitWork["new"]}
<1>1. PanelCommits!Entry(t, "new") = "new"
  BY DEF PanelCommits!Entry
<1>2. PanelCommits!Entry(t, "old") \in {"new", "old"}
  <2>1. CASE names = "folded" /\ t["old"] = None
    <3>1. \E q \in {"new", "old"} : t[q] # None \/ t["new"] = t["old"]
      BY <2>1
    <3>2. (CHOOSE q \in {"new", "old"} : t[q] # None \/ t["new"] = t["old"]) \in {"new", "old"}
      BY <3>1
    <3> QED
      BY <2>1, <3>2 DEF PanelCommits!Entry
  <2>2. CASE ~(names = "folded" /\ t["old"] = None)
    BY <2>2 DEF PanelCommits!Entry
  <2> QED
    BY <2>1, <2>2
<1>3. names = "folded" => PanelCommits!Entry(t, "old") = "new"
  <2>1. SUFFICES ASSUME names = "folded" PROVE PanelCommits!Entry(t, "old") = "new"
    OBVIOUS
  <2>2. t["old"] = None /\ t["new"] # None
    BY <2>1
  <2>3. \A q \in {"new", "old"} : (t[q] # None \/ t["new"] = t["old"]) <=> q = "new"
    BY <2>2
  <2>4. (CHOOSE q \in {"new", "old"} : t[q] # None \/ t["new"] = t["old"]) = "new"
    BY <2>3
  <2> QED
    BY <2>1, <2>2, <2>4 DEF PanelCommits!Entry
<1>4. names # "folded" => PanelCommits!Entry(t, "old") = "old"
  BY DEF PanelCommits!Entry
<1> DEFINE put == {PanelCommits!Entry(t, p) : p \in S}
<1>5. put \subseteq {"new", "old"} /\ ("new" \in S => "new" \in put) /\ (S = {} => put = {})
      /\ (names # "folded" => put = S)
  BY <1>1, <1>2, <1>4
<1>6. PanelCommits!Taken(t, S) =
        [p \in PanelCommits!Path |-> IF p \in put THEN PanelCommits!Disk(p) ELSE t[p]]
  BY DEF PanelCommits!Taken
<1>7. PanelCommits!Disk("new") = commitWork["new"]
      /\ (names # "folded" => PanelCommits!Disk("old") = None)
  BY DEF PanelCommits!Disk
<1>8. names = "folded" => "old" \notin put
  BY <1>1, <1>3
<1> HIDE DEF put
<1>9. \A p \in PanelCommits!Path : PanelCommits!Disk(p) \in PanelCommits!Content
  BY DEF PanelCommits!Disk, PanelCommits!Tree, PanelCommits!Path
<1>10. PanelCommits!Taken(t, S) \in PanelCommits!Tree
  BY <1>6, <1>9 DEF PanelCommits!Tree
<1> QED
  BY <1>5, <1>6, <1>7, <1>8, <1>10 DEF PanelCommits!Path

LEMMA TakenOther ==
  ASSUME NEW t \in PanelCommits!Tree, commitWork \in PanelCommits!Tree
  PROVE  PanelCommits!Taken(t, {"other"}) = [t EXCEPT !["other"] = commitWork["other"]]
<1>1. {PanelCommits!Entry(t, p) : p \in {"other"}} = {"other"}
  BY DEF PanelCommits!Entry
<1>2. PanelCommits!Disk("other") = commitWork["other"]
  BY DEF PanelCommits!Disk
<1> QED
  BY <1>1, <1>2 DEF PanelCommits!Taken, PanelCommits!Tree, PanelCommits!Path

\* What staging does to the index, where nobody else holds it.
LEMMA StagedIs ==
  ASSUME TreesTyped, NamesHold, NEW S \in SUBSET {"new", "old"}
  PROVE  LET t == PanelCommits!Taken(commitIndex, S)
         IN  /\ t \in PanelCommits!Tree /\ IndexOf(t)
             /\ t["other"] = commitIndex["other"] /\ t["from"] = commitIndex["from"]
             /\ t["old"] = commitIndex["old"]
             /\ "new" \in S => t["new"] = commitWork["new"]
             /\ S = {} => t["new"] = commitIndex["new"]
             /\ t["new"] \in {commitIndex["new"], commitWork["new"]}
BY TakenIs DEF TreesTyped, NamesHold, IndexOf

\* What git status shows as renamed: the checked file while HEAD has its old name, and among the
\* others one of them.
LEMMA RenamedAs ==
  ASSUME TreesTyped, NamesHold, commitPc = "status"
  PROVE  /\ \A s \in PanelCommits!Path :
              PanelCommits!Renamed("new", s) <=> s = "old" /\ commitHead["old"] = "a"
         /\ \A s \in PanelCommits!Path : ~PanelCommits!Renamed("old", s)
         /\ \A p \in {"other", "from"} : ~PanelCommits!Renamed(p, "old")
         /\ names # "apart" => \A p \in {"other", "from"} : ~PanelCommits!Renamed(p, "new")
BY NoneApart DEF TreesTyped, NamesHold, IndexOf, PanelCommits!Renamed, PanelCommits!Path

LEMMA CheckedSources ==
  ASSUME TreesTyped, NamesHold, commitPc = "status"
  PROVE  /\ PanelCommits!WithSources({}) = {}
         /\ PanelCommits!WithSources({"new"}) =
              IF commitHead["old"] = "a" THEN {"new", "old"} ELSE {"new"}
BY RenamedAs DEF PanelCommits!WithSources, PanelCommits!Path

\* With a rename in case alone, what is staged of the others is taken out of the index, sources of
\* renames included, and nothing of the checked file.
LEMMA UncheckedSources ==
  ASSUME TreesTyped, NamesHold, commitPc = "status", names # "apart"
  PROVE  /\ PanelCommits!StagedButUnchecked({"new", "old"}) \subseteq {"other", "from"}
         /\ \A p \in {"other", "from"} :
              commitIndex[p] = commitHead[p] \/ p \in PanelCommits!StagedButUnchecked({"new",
                "old"})
<1> DEFINE left == PanelCommits!Staged \ {"new", "old"}
<1>1. left \subseteq {"other", "from"}
  BY DEF PanelCommits!Staged, PanelCommits!Path
<1>2. PanelCommits!StagedButUnchecked({"new", "old"}) =
        left \cup {s \in PanelCommits!Path : \E p \in left : PanelCommits!Renamed(p, s)}
  BY DEF PanelCommits!StagedButUnchecked, PanelCommits!WithSources
<1>3. ASSUME NEW p \in {"other", "from"}, commitIndex[p] # commitHead[p], p \notin left
      PROVE  \E q \in left : PanelCommits!Renamed(q, p)
  <2>1. PICK q \in PanelCommits!Path : PanelCommits!Renamed(q, p)
    BY <1>3 DEF PanelCommits!Staged, PanelCommits!Path
  <2>2. q \in {"other", "from"}
    BY <2>1, RenamedAs DEF PanelCommits!Path
  <2>3. commitIndex[q] # None /\ commitHead[q] = None
    BY <2>1 DEF PanelCommits!Renamed
  <2>4. \A r \in PanelCommits!Path : ~PanelCommits!Renamed(r, q)
    BY <2>3 DEF PanelCommits!Renamed
  <2> QED
    BY <2>1, <2>2, <2>3, <2>4 DEF PanelCommits!Staged, PanelCommits!Path
<1> HIDE DEF left
<1>4. PanelCommits!StagedButUnchecked({"new", "old"}) \subseteq {"other", "from"}
  BY <1>1, <1>2, RenamedAs DEF PanelCommits!Path
<1> QED
  BY <1>2, <1>3, <1>4 DEF PanelCommits!Path

\* What a commit of named paths holds: the file under its new name alone, and HEAD beside it.
LEMMA CommittedIs ==
  ASSUME TreesTyped, PathsTyped, NamesHold, PathsChosen, commitPc = "commit", ~PanelCommits!Bare
  PROVE  LET t == PanelCommits!Taken(commitHead, commitPaths)
         IN  /\ t \in PanelCommits!Tree /\ (commitPaths = {} => t = commitHead)
             /\ "new" \in commitPaths => t["new"] = commitWork["new"] /\ t["old"] = None
             /\ t["other"] = commitHead["other"] /\ t["from"] = commitHead["from"]
<1>1. commitPaths \in {{}, {"new"}, {"new", "old"}}
  BY DEF PathsTyped, PathsChosen
<1>2. CASE commitPaths = {}
  BY <1>2 DEF PanelCommits!Taken, PanelCommits!Tree, TreesTyped, PanelCommits!Path
<1>3. CASE commitPaths # {}
  <2>1. \/ commitHead["old"] = None /\ (names # "apart" => commitHead["new"] # None)
        \/ names = "apart" /\ "old" \in commitPaths
    <3>1. CASE commitPaths = {"new"}
      BY <3>1, NoneApart DEF PathsChosen, NamesHold, Staging
    <3>2. CASE commitPaths = {"new", "old"}
      BY <3>2 DEF PathsChosen, PathsTyped, PanelCommits!Bare
    <3> QED
      BY <1>1, <1>3, <3>1, <3>2
  <2>2. commitPaths \in SUBSET {"new", "old"} /\ "new" \in commitPaths
    BY <1>1, <1>3
  <2> QED
    BY <2>1, <2>2, TakenIs, NoneApart DEF TreesTyped, NamesHold
<1> QED
  BY <1>2, <1>3

LEMMA PanelStatusKeeps == ASSUME PanelInv, PanelCommits!Status PROVE PanelInv'
<1>1. /\ TreesTyped /\ StepTyped /\ PathsTyped /\ NamesHold /\ PathsChosen /\ StepsFollow
      /\ CheckedIsStaged
      /\ UncheckedIsKept /\ UncheckedIsOut /\ PanelCommits!CommitsWhatWasChecked
      /\ (commitPc = "over" => PanelCommits!DraftFollowsCommit)
  BY DEF PanelInv, PanelTyped
<1>2. UNCHANGED <<request, names, clicked, commitHead, commitIndex, commitWork, merging, indexLock,
        lockSeen, pathsToStage, whole, snapshot, attempt, failed, copied, wanted, late, overwritten,
          commitMade>>
  BY DEF PanelCommits!Status, PanelCommits!Trouble, PanelCommits!Goto, PanelCommits!End,
      PanelCommits!repository, PanelCommits!chosen, PanelCommits!restoring, PanelCommits!reply,
      PanelCommits!history
<1>3. (merging' <=> merging) /\ (whole' <=> whole) /\ (failed' <=> failed) /\ (copied' <=> copied)
        /\ (late' <=> late) /\ (overwritten' <=> overwritten)
  BY <1>2, Zenon
<1>a. /\ commitPaths = {} /\ ~hasCaseOnlyRename /\ stagedButUncheckedPaths = {}
      /\ request.kind = "selected" /\ request.paths \in {{}, {"new"}} /\ commitPc = "status"
  BY <1>1
  DEF PanelCommits!Status, PanelCommits!Trouble, PanelCommits!Goto, PanelCommits!End,
      PanelCommits!repository, PanelCommits!chosen, PanelCommits!restoring, PanelCommits!reply,
      PanelCommits!history, TreesTyped, PathsTyped, PathsChosen, PanelCommits!Request
<1>b. \/ commitPc' = "over"
           /\ UNCHANGED <<commitPaths, hasCaseOnlyRename, stagedButUncheckedPaths>>
      \/ /\ commitPc' = IF commitPaths' = {} THEN "marker" ELSE "exclude"
         /\ commitPaths' = PanelCommits!WithSources(request.paths)
         /\ hasCaseOnlyRename' = (names # "apart" /\ commitPaths' # request.paths)
         /\ stagedButUncheckedPaths' =
              IF hasCaseOnlyRename' THEN PanelCommits!StagedButUnchecked(commitPaths') ELSE {}
  BY DEF PanelCommits!Status, PanelCommits!Trouble, PanelCommits!Goto, PanelCommits!End,
      PanelCommits!repository, PanelCommits!chosen, PanelCommits!restoring, PanelCommits!reply,
      PanelCommits!history
<1>c. ASSUME commitPc' # "over"
      PROVE  /\ commitPaths' = IF request.paths = {} THEN {}
                               ELSE IF commitHead["old"] = "a" THEN {"new", "old"} ELSE {"new"}
             /\ hasCaseOnlyRename' \in BOOLEAN
             /\ hasCaseOnlyRename' <=> (names # "apart" /\ commitPaths' = {"new", "old"})
             /\ stagedButUncheckedPaths' \subseteq {"other", "from"}
             /\ stagedButUncheckedPaths' # {} => hasCaseOnlyRename'
             /\ hasCaseOnlyRename' => \A p \in {"other", "from"} :
                  commitIndex[p] = commitHead[p] \/ p \in stagedButUncheckedPaths'
  <2>1. commitPaths' = IF request.paths = {} THEN {}
                       ELSE IF commitHead["old"] = "a" THEN {"new", "old"} ELSE {"new"}
    BY <1>1, <1>a, <1>b, <1>c, CheckedSources
  <2>2. hasCaseOnlyRename' \in BOOLEAN
        /\ (hasCaseOnlyRename' <=> (names # "apart" /\ commitPaths' = {"new", "old"}))
    <3>1. {"new", "old"} # {"new"} /\ {"new", "old"} # {}
      OBVIOUS
    <3>2. commitPaths' # request.paths <=> commitPaths' = {"new", "old"}
      BY <1>a, <2>1, <3>1
    <3>3. hasCaseOnlyRename' = (names # "apart" /\ commitPaths' # request.paths)
      BY <1>b, <1>c
    <3> QED
      BY <3>2, <3>3
  <2>3. /\ stagedButUncheckedPaths' \subseteq {"other", "from"}
        /\ stagedButUncheckedPaths' # {} => hasCaseOnlyRename'
        /\ hasCaseOnlyRename' => \A p \in {"other", "from"} :
             commitIndex[p] = commitHead[p] \/ p \in stagedButUncheckedPaths'
    BY <1>1, <1>a, <1>b, <1>c, <2>2, UncheckedSources
  <2> QED
    BY <2>1, <2>2, <2>3
<1> USE <1>1, <1>2, <1>3, <1>a, <1>b, <1>c, NoneApart DEF PanelCommits!Status, PanelCommits!Trouble,
  PanelCommits!Goto, PanelCommits!End, PanelCommits!repository, PanelCommits!chosen,
    PanelCommits!restoring, PanelCommits!reply, PanelCommits!history, IndexOf, Staging, Restoring,
      Pushing
<1>4. TreesTyped'
  BY DEF TreesTyped, StepTyped, PathsTyped
<1>5. StepTyped'
  BY DEF TreesTyped, StepTyped, PathsTyped
<1>6. PathsTyped'
  BY DEF TreesTyped, StepTyped, PathsTyped
<1>7. NamesHold'
  BY DEF TreesTyped, StepTyped, PathsTyped, NamesHold, PathsChosen, StepsFollow
<1>8. PathsChosen'
  BY DEF TreesTyped, StepTyped, PathsTyped, PathsChosen, NamesHold, StepsFollow
<1>9. StepsFollow'
  BY DEF TreesTyped, StepTyped, PathsTyped, NamesHold, PathsChosen, StepsFollow
<1>10. CheckedIsStaged'
  BY DEF TreesTyped, StepTyped, PathsTyped, NamesHold, PathsChosen, StepsFollow, CheckedIsStaged,
      NewIsStaged
<1>11. UncheckedIsKept'
  BY DEF TreesTyped, StepTyped, PathsTyped, NamesHold, PathsChosen, StepsFollow, UncheckedIsKept,
      UncheckedIsOut, Unchecked, PanelCommits!Path
<1>12. UncheckedIsOut'
  BY DEF TreesTyped, StepTyped, PathsTyped, NamesHold, PathsChosen, StepsFollow, UncheckedIsKept,
      UncheckedIsOut, Unchecked
<1>13. PanelCommits!CommitsWhatWasChecked'
  BY DEF TreesTyped, StepTyped, PathsTyped, NamesHold, PathsChosen, StepsFollow, CheckedIsStaged,
      UncheckedIsKept, UncheckedIsOut, PanelCommits!CommitsWhatWasChecked, NewIsStaged, Unchecked
<1>14. (commitPc = "over" => PanelCommits!DraftFollowsCommit)'
  BY DEF TreesTyped, StepTyped, PathsTyped, NamesHold, PathsChosen, StepsFollow,
      PanelCommits!DraftFollowsCommit
<1> QED
  BY <1>4, <1>5, <1>6, <1>7, <1>8, <1>9, <1>10, <1>11, <1>12, <1>13, <1>14 DEF PanelInv, PanelTyped

LEMMA PanelExcludeKeeps == ASSUME PanelInv, PanelCommits!Exclude PROVE PanelInv'
<1>1. /\ TreesTyped /\ StepTyped /\ PathsTyped /\ NamesHold /\ PathsChosen /\ StepsFollow
      /\ CheckedIsStaged
      /\ UncheckedIsKept /\ UncheckedIsOut /\ PanelCommits!CommitsWhatWasChecked
      /\ (commitPc = "over" => PanelCommits!DraftFollowsCommit)
  BY DEF PanelInv, PanelTyped
<1>2. UNCHANGED <<request, names, clicked, commitHead, commitIndex, commitWork, merging, indexLock,
        lockSeen, commitPaths, hasCaseOnlyRename, stagedButUncheckedPaths, whole, snapshot, attempt,
          failed, copied, wanted, late, overwritten, commitMade>>
  BY DEF PanelCommits!Exclude, PanelCommits!Trouble, PanelCommits!Goto, PanelCommits!End,
      PanelCommits!AfterStaging, PanelCommits!AlreadyStagedDeleted, PanelCommits!Path,
      PanelCommits!repository, PanelCommits!chosen, PanelCommits!restoring, PanelCommits!reply,
      PanelCommits!history
<1>3. (merging' <=> merging) /\ (hasCaseOnlyRename' <=> hasCaseOnlyRename) /\ (whole' <=> whole)
        /\ (failed' <=> failed) /\ (copied' <=> copied) /\ (late' <=> late)
             /\ (overwritten' <=> overwritten)
  BY <1>2, Zenon
<1> USE <1>1, <1>2, <1>3, NoneApart DEF PanelCommits!Exclude, PanelCommits!Trouble,
  PanelCommits!Goto, PanelCommits!End, PanelCommits!AfterStaging, PanelCommits!AlreadyStagedDeleted,
    PanelCommits!Path, PanelCommits!repository, PanelCommits!chosen, PanelCommits!restoring,
      PanelCommits!reply, PanelCommits!history, IndexOf, Staging, Restoring, Pushing
<1>4. TreesTyped'
  BY DEF TreesTyped, StepTyped, PathsTyped
<1>5. StepTyped'
  BY DEF TreesTyped, StepTyped, PathsTyped
<1>6. PathsTyped'
  BY DEF TreesTyped, StepTyped, PathsTyped
<1>7. NamesHold'
  BY DEF TreesTyped, StepTyped, PathsTyped, NamesHold, PathsChosen, StepsFollow
<1>8. PathsChosen'
  BY DEF TreesTyped, StepTyped, PathsTyped, PathsChosen, NamesHold, StepsFollow
<1>9. StepsFollow'
  BY DEF TreesTyped, StepTyped, PathsTyped, NamesHold, PathsChosen, StepsFollow
<1>10. CheckedIsStaged'
  BY DEF TreesTyped, StepTyped, PathsTyped, NamesHold, PathsChosen, StepsFollow, CheckedIsStaged,
      NewIsStaged
<1>11. UncheckedIsKept'
  BY DEF TreesTyped, StepTyped, PathsTyped, NamesHold, PathsChosen, StepsFollow, UncheckedIsKept,
      UncheckedIsOut, Unchecked, PanelCommits!Path
<1>12. UncheckedIsOut'
  BY DEF TreesTyped, StepTyped, PathsTyped, NamesHold, PathsChosen, StepsFollow, UncheckedIsKept,
      UncheckedIsOut, Unchecked
<1>13. PanelCommits!CommitsWhatWasChecked'
  BY DEF PanelCommits!CommitsWhatWasChecked
<1>14. (commitPc = "over" => PanelCommits!DraftFollowsCommit)'
  BY DEF TreesTyped, StepTyped, PathsTyped, NamesHold, PathsChosen, StepsFollow,
      PanelCommits!DraftFollowsCommit
<1> QED
  BY <1>4, <1>5, <1>6, <1>7, <1>8, <1>9, <1>10, <1>11, <1>12, <1>13, <1>14 DEF PanelInv, PanelTyped

LEMMA PanelStageFilesKeeps == ASSUME PanelInv, PanelCommits!StageFiles PROVE PanelInv'
<1>1. /\ TreesTyped /\ StepTyped /\ PathsTyped /\ NamesHold /\ PathsChosen /\ StepsFollow
      /\ CheckedIsStaged
      /\ UncheckedIsKept /\ UncheckedIsOut /\ PanelCommits!CommitsWhatWasChecked
      /\ (commitPc = "over" => PanelCommits!DraftFollowsCommit)
  BY DEF PanelInv, PanelTyped
<1>2. UNCHANGED <<request, names, clicked, commitHead, commitWork, merging, indexLock, lockSeen,
        commitPaths, hasCaseOnlyRename, stagedButUncheckedPaths, pathsToStage, whole, snapshot,
          attempt, failed, copied, wanted, late, overwritten, commitMade>>
  BY DEF PanelCommits!StageFiles, PanelCommits!Trouble, PanelCommits!Goto, PanelCommits!End,
      PanelCommits!AfterStaging, PanelCommits!CanStage, PanelCommits!repository,
      PanelCommits!chosen, PanelCommits!restoring, PanelCommits!reply, PanelCommits!history
<1>3. (merging' <=> merging) /\ (hasCaseOnlyRename' <=> hasCaseOnlyRename) /\ (whole' <=> whole)
        /\ (failed' <=> failed) /\ (copied' <=> copied) /\ (late' <=> late)
             /\ (overwritten' <=> overwritten)
  BY <1>2, Zenon
<1>a. \/ /\ commitIndex' = PanelCommits!Taken(commitIndex, pathsToStage) /\ indexLock = "free"
         /\ commitPc' \in {"snapshot", "marker"}
      \/ commitIndex' = commitIndex /\ commitPc' = "over"
  BY DEF PanelCommits!StageFiles, PanelCommits!Trouble, PanelCommits!Goto, PanelCommits!End,
      PanelCommits!AfterStaging, PanelCommits!CanStage, PanelCommits!repository,
      PanelCommits!chosen, PanelCommits!restoring, PanelCommits!reply, PanelCommits!history
<1>b. /\ commitIndex' \in PanelCommits!Tree /\ IndexOf(commitIndex')
      /\ \A p \in {"other", "from", "old"} : commitIndex'[p] = commitIndex[p]
      /\ commitIndex'["new"] \in {commitIndex["new"], commitWork["new"]}
      /\ "new" \notin commitPaths => commitIndex'["new"] = commitIndex["new"]
      /\ commitPc' # "over" /\ "new" \in pathsToStage => commitIndex'["new"] = commitWork["new"]
  <2>1. CASE commitIndex' = commitIndex /\ commitPc' = "over"
    BY <1>1, <2>1 DEF TreesTyped, NamesHold, IndexOf
  <2>2. CASE commitIndex' = PanelCommits!Taken(commitIndex, pathsToStage)
    BY <1>1, <2>2, StagedIs DEF PathsTyped, PathsChosen
  <2> QED
    BY <1>a, <2>1, <2>2
<1> USE <1>1, <1>2, <1>3, <1>a, <1>b, NoneApart DEF PanelCommits!StageFiles, PanelCommits!Trouble,
  PanelCommits!Goto, PanelCommits!End, PanelCommits!AfterStaging, PanelCommits!CanStage,
    PanelCommits!repository, PanelCommits!chosen, PanelCommits!restoring, PanelCommits!reply,
      PanelCommits!history, IndexOf, Staging, Restoring, Pushing
<1>4. TreesTyped'
  BY DEF TreesTyped, StepTyped, PathsTyped
<1>5. StepTyped'
  BY DEF TreesTyped, StepTyped, PathsTyped
<1>6. PathsTyped'
  BY DEF TreesTyped, StepTyped, PathsTyped
<1>7. NamesHold'
  BY DEF TreesTyped, StepTyped, PathsTyped, NamesHold, PathsChosen, StepsFollow
<1>8. PathsChosen'
  BY DEF TreesTyped, StepTyped, PathsTyped, PathsChosen, NamesHold, StepsFollow
<1>9. StepsFollow'
  BY DEF TreesTyped, StepTyped, PathsTyped, NamesHold, PathsChosen, StepsFollow
<1>10. CheckedIsStaged'
  BY DEF TreesTyped, StepTyped, PathsTyped, NamesHold, PathsChosen, StepsFollow, CheckedIsStaged,
      NewIsStaged
<1>11. UncheckedIsKept'
  BY DEF TreesTyped, StepTyped, PathsTyped, NamesHold, PathsChosen, StepsFollow, UncheckedIsKept,
      UncheckedIsOut, Unchecked, PanelCommits!Path
<1>12. UncheckedIsOut'
  BY DEF TreesTyped, StepTyped, PathsTyped, NamesHold, PathsChosen, StepsFollow, UncheckedIsKept,
      UncheckedIsOut, Unchecked
<1>13. PanelCommits!CommitsWhatWasChecked'
  BY DEF PanelCommits!CommitsWhatWasChecked
<1>14. (commitPc = "over" => PanelCommits!DraftFollowsCommit)'
  BY DEF TreesTyped, StepTyped, PathsTyped, NamesHold, PathsChosen, StepsFollow,
      PanelCommits!DraftFollowsCommit
<1> QED
  BY <1>4, <1>5, <1>6, <1>7, <1>8, <1>9, <1>10, <1>11, <1>12, <1>13, <1>14 DEF PanelInv, PanelTyped

LEMMA PanelHasWholeIndexOperationInProgressKeeps == ASSUME PanelInv,
  PanelCommits!hasWholeIndexOperationInProgress PROVE PanelInv'
<1>1. /\ TreesTyped /\ StepTyped /\ PathsTyped /\ NamesHold /\ PathsChosen /\ StepsFollow
      /\ CheckedIsStaged
      /\ UncheckedIsKept /\ UncheckedIsOut /\ PanelCommits!CommitsWhatWasChecked
      /\ (commitPc = "over" => PanelCommits!DraftFollowsCommit)
  BY DEF PanelInv, PanelTyped
<1>2. UNCHANGED <<request, names, clicked, commitHead, commitIndex, commitWork, merging, indexLock,
        lockSeen, commitPaths, hasCaseOnlyRename, stagedButUncheckedPaths, pathsToStage, snapshot,
          attempt, failed, copied, wanted, late, overwritten, commitMade>>
  BY DEF PanelCommits!hasWholeIndexOperationInProgress, PanelCommits!Trouble, PanelCommits!Goto,
      PanelCommits!End, PanelCommits!repository, PanelCommits!chosen, PanelCommits!restoring,
      PanelCommits!reply, PanelCommits!history
<1>3. (merging' <=> merging) /\ (hasCaseOnlyRename' <=> hasCaseOnlyRename) /\ (failed' <=> failed)
        /\ (copied' <=> copied) /\ (late' <=> late) /\ (overwritten' <=> overwritten)
  BY <1>2, Zenon
<1> USE <1>1, <1>2, <1>3, NoneApart DEF PanelCommits!hasWholeIndexOperationInProgress,
  PanelCommits!Trouble, PanelCommits!Goto, PanelCommits!End, PanelCommits!repository,
    PanelCommits!chosen, PanelCommits!restoring, PanelCommits!reply, PanelCommits!history, IndexOf,
      Staging, Restoring, Pushing
<1>4. TreesTyped'
  BY DEF TreesTyped, StepTyped, PathsTyped
<1>5. StepTyped'
  BY DEF TreesTyped, StepTyped, PathsTyped
<1>6. PathsTyped'
  BY DEF TreesTyped, StepTyped, PathsTyped
<1>7. NamesHold'
  BY DEF TreesTyped, StepTyped, PathsTyped, NamesHold, PathsChosen, StepsFollow
<1>8. PathsChosen'
  BY DEF TreesTyped, StepTyped, PathsTyped, PathsChosen, NamesHold, StepsFollow
<1>9. StepsFollow'
  <2>1. (commitPc # "over" => told = None /\ draft = "typed")'
    BY DEF TreesTyped, StepTyped, PathsTyped, NamesHold, PathsChosen, StepsFollow
  <2>2. (commitPc \in Staging \cup {"status"} => commitMade = None /\ ~failed)'
    BY DEF TreesTyped, StepTyped, PathsTyped, NamesHold, PathsChosen, StepsFollow
  <2>3. (commitPc \in Restoring => (failed <=> commitMade = None))'
    BY DEF TreesTyped, StepTyped, PathsTyped, NamesHold, PathsChosen, StepsFollow
  <2>4. (commitPc \in Pushing => commitMade # None)'
    BY DEF TreesTyped, StepTyped, PathsTyped, NamesHold, PathsChosen, StepsFollow
  <2>5. (failed => commitMade = None)'
    BY DEF TreesTyped, StepTyped, PathsTyped, NamesHold, PathsChosen, StepsFollow
  <2>6. (commitPc = "rename" => indexLock = "own")'
    BY DEF TreesTyped, StepTyped, PathsTyped, NamesHold, PathsChosen, StepsFollow
  <2>7. (copied => hasCaseOnlyRename /\ commitPc \in Pushing \cup {"over"})'
    BY DEF TreesTyped, StepTyped, PathsTyped, NamesHold, PathsChosen, StepsFollow
  <2>8. (indexLock = "theirs" => lockSeen = commitIndex \/ copied)'
    BY DEF TreesTyped, StepTyped, PathsTyped, NamesHold, PathsChosen, StepsFollow
  <2>9. (whole => ~hasCaseOnlyRename /\ commitPc \notin {"status", "exclude", "add", "marker"})'
    BY DEF TreesTyped, StepTyped, PathsTyped, NamesHold, PathsChosen, StepsFollow
  <2>10. (whole /\ ~late /\ commitPc = "commit" => merging)'
    BY DEF TreesTyped, StepTyped, PathsTyped, NamesHold, PathsChosen, StepsFollow
  <2> QED
    BY <2>1, <2>2, <2>3, <2>4, <2>5, <2>6, <2>7, <2>8, <2>9, <2>10 DEF StepsFollow
<1>10. CheckedIsStaged'
  BY DEF TreesTyped, StepTyped, PathsTyped, NamesHold, PathsChosen, StepsFollow, CheckedIsStaged,
      NewIsStaged
<1>11. UncheckedIsKept'
  BY DEF TreesTyped, StepTyped, PathsTyped, NamesHold, PathsChosen, StepsFollow, UncheckedIsKept,
      UncheckedIsOut, Unchecked, PanelCommits!Path
<1>12. UncheckedIsOut'
  BY DEF TreesTyped, StepTyped, PathsTyped, NamesHold, PathsChosen, StepsFollow, UncheckedIsKept,
      UncheckedIsOut, Unchecked
<1>13. PanelCommits!CommitsWhatWasChecked'
  BY DEF PanelCommits!CommitsWhatWasChecked
<1>14. (commitPc = "over" => PanelCommits!DraftFollowsCommit)'
  BY DEF TreesTyped, StepTyped, PathsTyped, NamesHold, PathsChosen, StepsFollow,
      PanelCommits!DraftFollowsCommit
<1> QED
  BY <1>4, <1>5, <1>6, <1>7, <1>8, <1>9, <1>10, <1>11, <1>12, <1>13, <1>14 DEF PanelInv, PanelTyped

LEMMA PanelCommitDone ==
  ASSUME PanelInv, commitPc = "commit", PanelCommits!CanCommit,
         commitHead' = PanelCommits!Committed, merging' = FALSE,
         commitIndex' = IF PanelCommits!Bare THEN commitIndex
                        ELSE PanelCommits!Taken(commitIndex, commitPaths),
         commitMade' = [before |-> commitHead, after |-> PanelCommits!Committed, merge |-> merging,
                        bare |-> PanelCommits!Bare, wanted |-> wanted],
         IF hasCaseOnlyRename THEN PanelCommits!Goto("read") ELSE PanelCommits!AfterCommit,
         UNCHANGED failed, UNCHANGED <<request, names, clicked, commitWork, indexLock, lockSeen,
           commitPaths, hasCaseOnlyRename,
                       stagedButUncheckedPaths, pathsToStage, whole, snapshot, attempt, copied,
                         wanted,
                       late, overwritten>>
  PROVE  PanelInv'
<1>1. /\ TreesTyped /\ StepTyped /\ PathsTyped /\ NamesHold /\ PathsChosen /\ StepsFollow
      /\ CheckedIsStaged
      /\ UncheckedIsKept /\ UncheckedIsOut /\ PanelCommits!CommitsWhatWasChecked
      /\ (commitPc = "over" => PanelCommits!DraftFollowsCommit)
  BY DEF PanelInv, PanelTyped
<1>2. UNCHANGED <<request, names, clicked, commitWork, indexLock, lockSeen, commitPaths,
        hasCaseOnlyRename, stagedButUncheckedPaths, pathsToStage, whole, snapshot, attempt, failed,
          copied, wanted, late, overwritten>>
  BY DEF PanelCommits!Goto, PanelCommits!Post, PanelCommits!AfterCommit, PanelCommits!repository,
      PanelCommits!chosen, PanelCommits!restoring, PanelCommits!reply, PanelCommits!history
<1>3. (hasCaseOnlyRename' <=> hasCaseOnlyRename) /\ (whole' <=> whole) /\ (failed' <=> failed)
        /\ (copied' <=> copied) /\ (late' <=> late) /\ (overwritten' <=> overwritten)
  BY <1>2
<1>a. /\ commitPaths \in {{}, {"new"}, {"new", "old"}} /\ request.paths \in {{}, {"new"}}
      /\ request.kind = "selected" => request.paths \subseteq commitPaths
      /\ commitMade = None /\ ~failed /\ told = None /\ draft = "typed" /\ indexLock = "free"
  <2>1. request.paths \in {{}, {"new"}}
    BY <1>1 DEF TreesTyped, PanelCommits!Request
  <2>2. commitPaths \in {{}, {"new"}, {"new", "old"}}
    BY <1>1 DEF PathsTyped, PathsChosen
  <2>3. commitMade = None /\ ~failed /\ told = None /\ draft = "typed"
    BY <1>1 DEF StepsFollow, Staging
  <2>4. request.kind = "selected" => request.paths \subseteq commitPaths
    BY <1>1 DEF PathsChosen, Staging
  <2> QED
    BY <2>1, <2>2, <2>3, <2>4 DEF PanelCommits!CanCommit
<1>b. PanelCommits!Bare <=> (request.kind = "staged" \/ hasCaseOnlyRename \/ whole)
  BY DEF PanelCommits!Bare
<1>c. ASSUME PanelCommits!Bare
      PROVE  /\ commitHead' = commitIndex /\ commitIndex' = commitIndex
             /\ commitHead' \in PanelCommits!Tree /\ IndexOf(commitHead')
  BY <1>1, <1>c DEF PanelCommits!Committed, TreesTyped, NamesHold
<1>d. ASSUME ~PanelCommits!Bare
      PROVE  /\ commitHead' \in PanelCommits!Tree /\ commitIndex' \in PanelCommits!Tree
             /\ IndexOf(commitIndex') /\ ~merging
             /\ commitPaths = {} =>
                  commitHead' = commitHead /\ commitIndex'["new"] = commitIndex["new"]
             /\ "new" \in commitPaths =>
                  commitHead'["new"] = commitWork["new"] /\ commitHead'["old"] = None
             /\ \A p \in {"other", "from"} : commitHead'[p] = commitHead[p]
                  /\ commitIndex'[p] = commitIndex[p]
             /\ commitIndex'["old"] = commitIndex["old"]
             /\ commitIndex'["new"] \in {commitIndex["new"], commitWork["new"]}
  <2>1. /\ commitHead' = PanelCommits!Taken(commitHead, commitPaths)
        /\ commitIndex' = PanelCommits!Taken(commitIndex, commitPaths) /\ ~merging
    BY <1>d DEF PanelCommits!Committed, PanelCommits!CanCommit
  <2>2. commitPaths \in SUBSET {"new", "old"}
    BY <1>a
  <2> QED
    BY <1>1, <1>d, <2>1, <2>2, CommittedIs, StagedIs
<1>e. /\ commitMade' # None /\ commitMade' \in Made
      /\ commitMade'.before = commitHead /\ commitMade'.after = commitHead'
      /\ commitMade'.wanted = wanted
      /\ commitMade'.merge = merging /\ commitMade'.bare = PanelCommits!Bare
  <2>1. PanelCommits!Bare \in BOOLEAN /\ merging \in BOOLEAN
    BY <1>1 DEF PanelCommits!Bare, PathsTyped
  <2>2. commitHead' \in PanelCommits!Tree
    BY <1>c, <1>d
  <2>3. commitMade' \in Made
    BY <1>1, <2>1, <2>2 DEF Made, TreesTyped
  <2>4. commitMade' # None
    BY <2>3, NoneApart
  <2> QED
    BY <2>3, <2>4
<1>4. TreesTyped'
  BY <1>1, <1>2, <1>3, <1>a, <1>b, <1>c, <1>d, <1>e, NoneApart
  DEF TreesTyped, StepTyped, PathsTyped, Staging, Restoring, Pushing, PanelCommits!Goto,
      PanelCommits!Post, PanelCommits!AfterCommit, PanelCommits!repository, PanelCommits!chosen,
      PanelCommits!restoring, PanelCommits!reply, PanelCommits!history
<1>5. StepTyped'
  BY <1>1, <1>2, <1>3, <1>a, <1>b, <1>c, <1>d, <1>e, NoneApart
  DEF TreesTyped, StepTyped, PathsTyped, Staging, Restoring, Pushing, PanelCommits!Goto,
      PanelCommits!Post, PanelCommits!AfterCommit, PanelCommits!repository, PanelCommits!chosen,
      PanelCommits!restoring, PanelCommits!reply, PanelCommits!history
<1>6. PathsTyped'
  BY <1>1, <1>2, <1>3, <1>a, <1>b, <1>c, <1>d, <1>e, NoneApart
  DEF TreesTyped, StepTyped, PathsTyped, Staging, Restoring, Pushing, PanelCommits!Goto,
      PanelCommits!Post, PanelCommits!AfterCommit, PanelCommits!repository, PanelCommits!chosen,
      PanelCommits!restoring, PanelCommits!reply, PanelCommits!history
<1>7. NamesHold'
  BY <1>1, <1>2, <1>3, <1>a, <1>b, <1>c, <1>d, <1>e, NoneApart
  DEF TreesTyped, StepTyped, PathsTyped, NamesHold, PathsChosen, StepsFollow, IndexOf, Staging,
      Restoring, Pushing, PanelCommits!Goto, PanelCommits!Post, PanelCommits!AfterCommit,
      PanelCommits!repository, PanelCommits!chosen, PanelCommits!restoring, PanelCommits!reply,
      PanelCommits!history
<1>8. PathsChosen'
  BY <1>1, <1>2, <1>3, <1>a, <1>b, <1>c, <1>d, <1>e, NoneApart
  DEF TreesTyped, StepTyped, PathsTyped, PathsChosen, NamesHold, StepsFollow, Staging, Restoring,
      Pushing, IndexOf, PanelCommits!Goto, PanelCommits!Post, PanelCommits!AfterCommit,
      PanelCommits!repository, PanelCommits!chosen, PanelCommits!restoring, PanelCommits!reply,
      PanelCommits!history
<1>9. StepsFollow'
  BY <1>1, <1>2, <1>3, <1>a, <1>b, <1>c, <1>d, <1>e, NoneApart
  DEF TreesTyped, StepTyped, PathsTyped, NamesHold, PathsChosen, StepsFollow, Staging, Restoring,
      Pushing, IndexOf, PanelCommits!Goto, PanelCommits!Post, PanelCommits!AfterCommit,
      PanelCommits!repository, PanelCommits!chosen, PanelCommits!restoring, PanelCommits!reply,
      PanelCommits!history
<1>10. CheckedIsStaged'
  BY <1>1, <1>2, <1>3, <1>a, <1>b, <1>c, <1>d, <1>e, NoneApart
  DEF TreesTyped, StepTyped, PathsTyped, NamesHold, PathsChosen, StepsFollow, CheckedIsStaged,
      NewIsStaged, IndexOf, Staging, Restoring, Pushing, PanelCommits!Goto, PanelCommits!Post,
      PanelCommits!AfterCommit, PanelCommits!repository, PanelCommits!chosen,
      PanelCommits!restoring, PanelCommits!reply, PanelCommits!history
<1>11. UncheckedIsKept'
  <2>1. CASE hasCaseOnlyRename
    <3>1. commitPc' = "read" /\ told' = None
      BY <1>1, <1>a, <2>1 DEF PanelCommits!Goto, PanelCommits!reply
    <3> QED
      BY <1>1, <1>2, <1>3, <2>1, <3>1 DEF UncheckedIsKept, Unchecked, Staging, Restoring, Pushing
  <2>2. CASE ~hasCaseOnlyRename
    <3>1. \A p \in PanelCommits!Path \ commitPaths : commitIndex[p] = wanted[p]
      BY <1>1, <2>2 DEF UncheckedIsKept, Unchecked
    <3>2. \A p \in PanelCommits!Path \ commitPaths : commitIndex'[p] = commitIndex[p]
      BY <1>a, <1>c, <1>d DEF PanelCommits!Path
    <3>3. Unchecked(commitIndex)'
      BY <1>2, <3>1, <3>2 DEF Unchecked
    <3> QED
      BY <1>3, <2>2, <3>3 DEF UncheckedIsKept
  <2> QED
    BY <2>1, <2>2
<1>12. UncheckedIsOut'
  BY <1>1, <1>2, <1>3, <1>a, <1>b, <1>c, <1>d, <1>e, NoneApart
  DEF TreesTyped, StepTyped, PathsTyped, NamesHold, PathsChosen, StepsFollow, UncheckedIsKept,
      UncheckedIsOut, IndexOf, Unchecked, Staging, Restoring, Pushing, PanelCommits!Goto,
      PanelCommits!Post, PanelCommits!AfterCommit, PanelCommits!repository, PanelCommits!chosen,
      PanelCommits!restoring, PanelCommits!reply, PanelCommits!history
<1>13. PanelCommits!CommitsWhatWasChecked'
  <2> SUFFICES ASSUME request.kind = "selected"
               PROVE  PanelCommits!CommitsWhatWasChecked'
    BY <1>2 DEF PanelCommits!CommitsWhatWasChecked
  <2>1. ASSUME NEW p \in PanelCommits!Path \ commitPaths
        PROVE  \/ commitHead'[p] = IF merging THEN wanted[p] ELSE commitHead[p]
               \/ late /\ PanelCommits!Bare
               \/ merging /\ hasCaseOnlyRename
    <3>1. CASE hasCaseOnlyRename
      <4>1. p \in {"other", "from"}
        BY <1>1, <1>a, <2>1, <3>1 DEF PathsChosen, PanelCommits!Path
      <4> QED
        BY <1>1, <1>b, <1>c, <3>1, <4>1 DEF UncheckedIsOut
    <3>2. CASE ~hasCaseOnlyRename /\ whole
      <4>1. late \/ merging
        BY <1>1, <3>2 DEF StepsFollow
      <4>2. commitIndex[p] = wanted[p]
        BY <1>1, <2>1, <3>2 DEF UncheckedIsKept, Unchecked
      <4> QED
        BY <1>b, <1>c, <3>2, <4>1, <4>2
    <3>3. CASE ~PanelCommits!Bare
      <4>1. commitPaths = {"new"} => commitHead["old"] = None
        BY <1>1 DEF PathsChosen, Staging
      <4> QED
        BY <1>a, <1>d, <2>1, <3>3, <4>1 DEF PanelCommits!Path
    <3> QED
      BY <1>b, <3>1, <3>2, <3>3
  <2>2. ASSUME NEW p \in request.paths
        PROVE  /\ \/ commitHead'[p] \in {clicked, "later"}
                  \/ PanelCommits!Bare /\ commitHead'[p] = None /\ wanted[p] = None
               /\ commitHead'["old"] = None
    <3>1. p = "new" /\ "new" \in commitPaths
      BY <1>a, <2>2
    <3>2. CASE PanelCommits!Bare
      BY <1>1, <1>c, <3>1, <3>2 DEF CheckedIsStaged, NewIsStaged, IndexOf
    <3>3. CASE ~PanelCommits!Bare
      BY <1>1, <1>d, <3>1, <3>3 DEF NamesHold
    <3> QED
      BY <3>2, <3>3
  <2> QED
    BY <1>2, <1>e, <2>1, <2>2 DEF PanelCommits!CommitsWhatWasChecked
<1>14. (commitPc = "over" => PanelCommits!DraftFollowsCommit)'
  BY <1>1, <1>2, <1>3, <1>a, <1>b, <1>c, <1>d, <1>e, NoneApart
  DEF TreesTyped, StepTyped, PathsTyped, NamesHold, PathsChosen, StepsFollow,
      PanelCommits!DraftFollowsCommit, IndexOf, Staging, Restoring, Pushing, PanelCommits!Goto,
      PanelCommits!Post, PanelCommits!AfterCommit, PanelCommits!repository, PanelCommits!chosen,
      PanelCommits!restoring, PanelCommits!reply, PanelCommits!history
<1> QED
  BY <1>4, <1>5, <1>6, <1>7, <1>8, <1>9, <1>10, <1>11, <1>12, <1>13, <1>14 DEF PanelInv, PanelTyped

LEMMA PanelCommitFails ==
  ASSUME PanelInv, commitPc = "commit",
         IF hasCaseOnlyRename THEN PanelCommits!Goto("read") ELSE PanelCommits!End("failed"),
         failed' = TRUE, UNCHANGED <<commitHead, commitIndex, merging, commitMade>>,
           UNCHANGED <<request, names, clicked, commitWork, indexLock, lockSeen, commitPaths,
             hasCaseOnlyRename,
                       stagedButUncheckedPaths, pathsToStage, whole, snapshot, attempt, copied,
                         wanted,
                       late, overwritten>>
  PROVE  PanelInv'
<1>1. /\ TreesTyped /\ StepTyped /\ PathsTyped /\ NamesHold /\ PathsChosen /\ StepsFollow
      /\ CheckedIsStaged
      /\ UncheckedIsKept /\ UncheckedIsOut /\ PanelCommits!CommitsWhatWasChecked
      /\ (commitPc = "over" => PanelCommits!DraftFollowsCommit)
  BY DEF PanelInv, PanelTyped
<1>2. UNCHANGED <<request, names, clicked, commitHead, commitIndex, commitWork, merging, indexLock,
        lockSeen, commitPaths, hasCaseOnlyRename, stagedButUncheckedPaths, pathsToStage, whole,
          snapshot, attempt, copied, wanted, late, overwritten, commitMade>>
  BY DEF PanelCommits!Goto, PanelCommits!End, PanelCommits!repository, PanelCommits!chosen,
      PanelCommits!restoring, PanelCommits!reply, PanelCommits!history
<1>3. (merging' <=> merging) /\ (hasCaseOnlyRename' <=> hasCaseOnlyRename) /\ (whole' <=> whole)
        /\ (copied' <=> copied) /\ (late' <=> late) /\ (overwritten' <=> overwritten)
  BY <1>2
<1> USE <1>1, <1>2, <1>3, NoneApart DEF PanelCommits!Goto, PanelCommits!End,
  PanelCommits!repository, PanelCommits!chosen, PanelCommits!restoring, PanelCommits!reply,
    PanelCommits!history, IndexOf, Staging, Restoring, Pushing
<1>4. TreesTyped'
  BY DEF TreesTyped, StepTyped, PathsTyped
<1>5. StepTyped'
  BY DEF TreesTyped, StepTyped, PathsTyped
<1>6. PathsTyped'
  BY DEF TreesTyped, StepTyped, PathsTyped
<1>7. NamesHold'
  BY DEF TreesTyped, StepTyped, PathsTyped, NamesHold, PathsChosen, StepsFollow
<1>8. PathsChosen'
  BY DEF TreesTyped, StepTyped, PathsTyped, PathsChosen, NamesHold, StepsFollow
<1>9. StepsFollow'
  BY DEF TreesTyped, StepTyped, PathsTyped, NamesHold, PathsChosen, StepsFollow
<1>10. CheckedIsStaged'
  BY DEF TreesTyped, StepTyped, PathsTyped, NamesHold, PathsChosen, StepsFollow, CheckedIsStaged,
      NewIsStaged
<1>11. UncheckedIsKept'
  BY DEF TreesTyped, StepTyped, PathsTyped, NamesHold, PathsChosen, StepsFollow, UncheckedIsKept,
      UncheckedIsOut, Unchecked, PanelCommits!Path
<1>12. UncheckedIsOut'
  BY DEF TreesTyped, StepTyped, PathsTyped, NamesHold, PathsChosen, StepsFollow, UncheckedIsKept,
      UncheckedIsOut, Unchecked
<1>13. PanelCommits!CommitsWhatWasChecked'
  BY DEF PanelCommits!CommitsWhatWasChecked
<1>14. (commitPc = "over" => PanelCommits!DraftFollowsCommit)'
  BY DEF TreesTyped, StepTyped, PathsTyped, NamesHold, PathsChosen, StepsFollow,
      PanelCommits!DraftFollowsCommit
<1> QED
  BY <1>4, <1>5, <1>6, <1>7, <1>8, <1>9, <1>10, <1>11, <1>12, <1>13, <1>14 DEF PanelInv, PanelTyped

LEMMA PanelTakeSnapshotKeeps == ASSUME PanelInv, PanelCommits!TakeSnapshot PROVE PanelInv'
<1>1. /\ TreesTyped /\ StepTyped /\ PathsTyped /\ NamesHold /\ PathsChosen /\ StepsFollow
      /\ CheckedIsStaged
      /\ UncheckedIsKept /\ UncheckedIsOut /\ PanelCommits!CommitsWhatWasChecked
      /\ (commitPc = "over" => PanelCommits!DraftFollowsCommit)
  BY DEF PanelInv, PanelTyped
<1>2. UNCHANGED <<request, names, clicked, commitHead, commitIndex, commitWork, merging, indexLock,
        lockSeen, commitPaths, hasCaseOnlyRename, stagedButUncheckedPaths, pathsToStage, whole,
          attempt, failed, copied, wanted, late, overwritten, commitMade>>
  BY DEF PanelCommits!TakeSnapshot, PanelCommits!Trouble, PanelCommits!Goto, PanelCommits!End,
      PanelCommits!repository, PanelCommits!chosen, PanelCommits!restoring, PanelCommits!reply,
      PanelCommits!history
<1>3. (merging' <=> merging) /\ (hasCaseOnlyRename' <=> hasCaseOnlyRename) /\ (whole' <=> whole)
        /\ (failed' <=> failed) /\ (copied' <=> copied) /\ (late' <=> late)
             /\ (overwritten' <=> overwritten)
  BY <1>2, Zenon
<1> USE <1>1, <1>2, <1>3, NoneApart DEF PanelCommits!TakeSnapshot, PanelCommits!Trouble,
  PanelCommits!Goto, PanelCommits!End, PanelCommits!repository, PanelCommits!chosen,
    PanelCommits!restoring, PanelCommits!reply, PanelCommits!history, IndexOf, Staging, Restoring,
      Pushing
<1>4. TreesTyped'
  BY DEF TreesTyped, StepTyped, PathsTyped
<1>5. StepTyped'
  BY DEF TreesTyped, StepTyped, PathsTyped
<1>6. PathsTyped'
  BY DEF TreesTyped, StepTyped, PathsTyped
<1>7. NamesHold'
  BY DEF TreesTyped, StepTyped, PathsTyped, NamesHold, PathsChosen, StepsFollow
<1>8. PathsChosen'
  BY DEF TreesTyped, StepTyped, PathsTyped, PathsChosen, NamesHold, StepsFollow
<1>9. StepsFollow'
  BY DEF TreesTyped, StepTyped, PathsTyped, NamesHold, PathsChosen, StepsFollow
<1>10. CheckedIsStaged'
  BY DEF TreesTyped, StepTyped, PathsTyped, NamesHold, PathsChosen, StepsFollow, CheckedIsStaged,
      NewIsStaged
<1>11. UncheckedIsKept'
  BY DEF TreesTyped, StepTyped, PathsTyped, NamesHold, PathsChosen, StepsFollow, UncheckedIsKept,
      UncheckedIsOut, Unchecked, PanelCommits!Path
<1>12. UncheckedIsOut'
  BY DEF TreesTyped, StepTyped, PathsTyped, NamesHold, PathsChosen, StepsFollow, UncheckedIsKept,
      UncheckedIsOut, Unchecked
<1>13. PanelCommits!CommitsWhatWasChecked'
  BY DEF PanelCommits!CommitsWhatWasChecked
<1>14. (commitPc = "over" => PanelCommits!DraftFollowsCommit)'
  BY DEF TreesTyped, StepTyped, PathsTyped, NamesHold, PathsChosen, StepsFollow,
      PanelCommits!DraftFollowsCommit
<1> QED
  BY <1>4, <1>5, <1>6, <1>7, <1>8, <1>9, <1>10, <1>11, <1>12, <1>13, <1>14 DEF PanelInv, PanelTyped

LEMMA PanelUnstageFilesKeeps == ASSUME PanelInv, PanelCommits!UnstageFiles PROVE PanelInv'
<1>1. /\ TreesTyped /\ StepTyped /\ PathsTyped /\ NamesHold /\ PathsChosen /\ StepsFollow
      /\ CheckedIsStaged
      /\ UncheckedIsKept /\ UncheckedIsOut /\ PanelCommits!CommitsWhatWasChecked
      /\ (commitPc = "over" => PanelCommits!DraftFollowsCommit)
  BY DEF PanelInv, PanelTyped
<1>2. UNCHANGED <<request, names, clicked, commitHead, commitWork, merging, indexLock, lockSeen,
        commitPaths, hasCaseOnlyRename, stagedButUncheckedPaths, pathsToStage, whole, snapshot,
          attempt, copied, wanted, late, overwritten, commitMade>>
  BY DEF PanelCommits!UnstageFiles, PanelCommits!Trouble, PanelCommits!Goto, PanelCommits!End,
      PanelCommits!repository, PanelCommits!chosen, PanelCommits!restoring, PanelCommits!reply,
      PanelCommits!history
<1>3. (merging' <=> merging) /\ (hasCaseOnlyRename' <=> hasCaseOnlyRename) /\ (whole' <=> whole)
        /\ (copied' <=> copied) /\ (late' <=> late) /\ (overwritten' <=> overwritten)
  BY <1>2, Zenon
<1>a. \/ /\ commitPc' = "commit" /\ indexLock = "free" /\ failed' = failed
         /\ commitIndex' = [p \in PanelCommits!Path |->
              IF p \in stagedButUncheckedPaths THEN commitHead[p] ELSE commitIndex[p]]
      \/ commitPc' = "read" /\ failed' = TRUE /\ commitIndex' = commitIndex
  BY DEF PanelCommits!UnstageFiles, PanelCommits!Trouble, PanelCommits!Goto, PanelCommits!End,
      PanelCommits!repository, PanelCommits!chosen, PanelCommits!restoring, PanelCommits!reply,
      PanelCommits!history
<1>b. /\ commitIndex' \in PanelCommits!Tree /\ IndexOf(commitIndex')
      /\ commitIndex'["new"] = commitIndex["new"]
      /\ commitPc' = "commit" => \A p \in {"other", "from"} :
           commitIndex'[p] = IF p \in stagedButUncheckedPaths THEN commitHead[p] ELSE commitIndex[p]
  BY <1>1, <1>a DEF TreesTyped, PathsTyped, NamesHold, IndexOf, PanelCommits!Tree, PanelCommits!Path
<1> USE <1>1, <1>2, <1>3, <1>a, <1>b, NoneApart DEF PanelCommits!UnstageFiles, PanelCommits!Trouble,
  PanelCommits!Goto, PanelCommits!End, PanelCommits!repository, PanelCommits!chosen,
    PanelCommits!restoring, PanelCommits!reply, PanelCommits!history, IndexOf, Staging, Restoring,
      Pushing
<1>4. TreesTyped'
  BY DEF TreesTyped, StepTyped, PathsTyped
<1>5. StepTyped'
  BY DEF TreesTyped, StepTyped, PathsTyped
<1>6. PathsTyped'
  BY DEF TreesTyped, StepTyped, PathsTyped
<1>7. NamesHold'
  BY DEF TreesTyped, StepTyped, PathsTyped, NamesHold, PathsChosen, StepsFollow
<1>8. PathsChosen'
  BY DEF TreesTyped, StepTyped, PathsTyped, PathsChosen, NamesHold, StepsFollow
<1>9. StepsFollow'
  <2>1. (commitPc # "over" => told = None /\ draft = "typed")'
    BY DEF TreesTyped, StepTyped, PathsTyped, NamesHold, PathsChosen, StepsFollow
  <2>2. (commitPc \in Staging \cup {"status"} => commitMade = None /\ ~failed)'
    BY DEF TreesTyped, StepTyped, PathsTyped, NamesHold, PathsChosen, StepsFollow
  <2>3. (commitPc \in Restoring => (failed <=> commitMade = None))'
    BY DEF TreesTyped, StepTyped, PathsTyped, NamesHold, PathsChosen, StepsFollow
  <2>4. (commitPc \in Pushing => commitMade # None)'
    BY DEF TreesTyped, StepTyped, PathsTyped, NamesHold, PathsChosen, StepsFollow
  <2>5. (failed => commitMade = None)'
    BY DEF TreesTyped, StepTyped, PathsTyped, NamesHold, PathsChosen, StepsFollow
  <2>6. (commitPc = "rename" => indexLock = "own")'
    BY DEF TreesTyped, StepTyped, PathsTyped, NamesHold, PathsChosen, StepsFollow
  <2>7. (copied => hasCaseOnlyRename /\ commitPc \in Pushing \cup {"over"})'
    BY DEF TreesTyped, StepTyped, PathsTyped, NamesHold, PathsChosen, StepsFollow
  <2>8. (indexLock = "theirs" => lockSeen = commitIndex \/ copied)'
    BY DEF TreesTyped, StepTyped, PathsTyped, NamesHold, PathsChosen, StepsFollow
  <2>9. (whole => ~hasCaseOnlyRename /\ commitPc \notin {"status", "exclude", "add", "marker"})'
    BY DEF TreesTyped, StepTyped, PathsTyped, NamesHold, PathsChosen, StepsFollow
  <2>10. (whole /\ ~late /\ commitPc = "commit" => merging)'
    BY DEF TreesTyped, StepTyped, PathsTyped, NamesHold, PathsChosen, StepsFollow
  <2> QED
    BY <2>1, <2>2, <2>3, <2>4, <2>5, <2>6, <2>7, <2>8, <2>9, <2>10 DEF StepsFollow
<1>10. CheckedIsStaged'
  BY DEF TreesTyped, StepTyped, PathsTyped, NamesHold, PathsChosen, StepsFollow, CheckedIsStaged,
      NewIsStaged
<1>11. UncheckedIsKept'
  BY DEF TreesTyped, StepTyped, PathsTyped, NamesHold, PathsChosen, StepsFollow, UncheckedIsKept,
      UncheckedIsOut, Unchecked, PanelCommits!Path
<1>12. UncheckedIsOut'
  BY DEF TreesTyped, StepTyped, PathsTyped, NamesHold, PathsChosen, StepsFollow, UncheckedIsKept,
      UncheckedIsOut, Unchecked
<1>13. PanelCommits!CommitsWhatWasChecked'
  BY DEF PanelCommits!CommitsWhatWasChecked
<1>14. (commitPc = "over" => PanelCommits!DraftFollowsCommit)'
  BY DEF TreesTyped, StepTyped, PathsTyped, NamesHold, PathsChosen, StepsFollow,
      PanelCommits!DraftFollowsCommit
<1> QED
  BY <1>4, <1>5, <1>6, <1>7, <1>8, <1>9, <1>10, <1>11, <1>12, <1>13, <1>14 DEF PanelInv, PanelTyped

LEMMA PanelReadSnapshotKeeps == ASSUME PanelInv, PanelCommits!ReadSnapshot PROVE PanelInv'
<1>1. /\ TreesTyped /\ StepTyped /\ PathsTyped /\ NamesHold /\ PathsChosen /\ StepsFollow
      /\ CheckedIsStaged
      /\ UncheckedIsKept /\ UncheckedIsOut /\ PanelCommits!CommitsWhatWasChecked
      /\ (commitPc = "over" => PanelCommits!DraftFollowsCommit)
  BY DEF PanelInv, PanelTyped
<1>2. UNCHANGED <<request, names, clicked, commitHead, commitIndex, commitWork, merging, indexLock,
        lockSeen, commitPaths, hasCaseOnlyRename, stagedButUncheckedPaths, pathsToStage, whole,
          snapshot, attempt, failed, copied, wanted, late, overwritten, commitMade>>
  BY DEF PanelCommits!ReadSnapshot, PanelCommits!Trouble, PanelCommits!Goto, PanelCommits!End,
      PanelCommits!repository, PanelCommits!chosen, PanelCommits!restoring, PanelCommits!reply,
      PanelCommits!history
<1>3. (merging' <=> merging) /\ (hasCaseOnlyRename' <=> hasCaseOnlyRename) /\ (whole' <=> whole)
        /\ (failed' <=> failed) /\ (copied' <=> copied) /\ (late' <=> late)
             /\ (overwritten' <=> overwritten)
  BY <1>2, Zenon
<1> USE <1>1, <1>2, <1>3, NoneApart DEF PanelCommits!ReadSnapshot, PanelCommits!Trouble,
  PanelCommits!Goto, PanelCommits!End, PanelCommits!repository, PanelCommits!chosen,
    PanelCommits!restoring, PanelCommits!reply, PanelCommits!history, IndexOf, Staging, Restoring,
      Pushing
<1>4. TreesTyped'
  BY DEF TreesTyped, StepTyped, PathsTyped
<1>5. StepTyped'
  BY DEF TreesTyped, StepTyped, PathsTyped
<1>6. PathsTyped'
  BY DEF TreesTyped, StepTyped, PathsTyped
<1>7. NamesHold'
  BY DEF TreesTyped, StepTyped, PathsTyped, NamesHold, PathsChosen, StepsFollow
<1>8. PathsChosen'
  BY DEF TreesTyped, StepTyped, PathsTyped, PathsChosen, NamesHold, StepsFollow
<1>9. StepsFollow'
  BY DEF TreesTyped, StepTyped, PathsTyped, NamesHold, PathsChosen, StepsFollow
<1>10. CheckedIsStaged'
  BY DEF TreesTyped, StepTyped, PathsTyped, NamesHold, PathsChosen, StepsFollow, CheckedIsStaged,
      NewIsStaged
<1>11. UncheckedIsKept'
  BY DEF TreesTyped, StepTyped, PathsTyped, NamesHold, PathsChosen, StepsFollow, UncheckedIsKept,
      UncheckedIsOut, Unchecked, PanelCommits!Path
<1>12. UncheckedIsOut'
  BY DEF TreesTyped, StepTyped, PathsTyped, NamesHold, PathsChosen, StepsFollow, UncheckedIsKept,
      UncheckedIsOut, Unchecked
<1>13. PanelCommits!CommitsWhatWasChecked'
  BY DEF PanelCommits!CommitsWhatWasChecked
<1>14. (commitPc = "over" => PanelCommits!DraftFollowsCommit)'
  BY DEF TreesTyped, StepTyped, PathsTyped, NamesHold, PathsChosen, StepsFollow,
      PanelCommits!DraftFollowsCommit
<1> QED
  BY <1>4, <1>5, <1>6, <1>7, <1>8, <1>9, <1>10, <1>11, <1>12, <1>13, <1>14 DEF PanelInv, PanelTyped

LEMMA PanelLockIndexKeeps == ASSUME PanelInv, PanelCommits!LockIndex PROVE PanelInv'
<1>1. /\ TreesTyped /\ StepTyped /\ PathsTyped /\ NamesHold /\ PathsChosen /\ StepsFollow
      /\ CheckedIsStaged
      /\ UncheckedIsKept /\ UncheckedIsOut /\ PanelCommits!CommitsWhatWasChecked
      /\ (commitPc = "over" => PanelCommits!DraftFollowsCommit)
  BY DEF PanelInv, PanelTyped
<1>2. UNCHANGED <<request, names, clicked, commitHead, commitWork, merging, lockSeen, commitPaths,
        hasCaseOnlyRename, stagedButUncheckedPaths, pathsToStage, whole, snapshot, failed, wanted,
          late, overwritten, commitMade>>
  BY DEF PanelCommits!LockIndex, PanelCommits!Trouble, PanelCommits!Goto, PanelCommits!End,
      PanelCommits!Post, PanelCommits!AfterCommit, PanelCommits!Restored, PanelCommits!repository,
      PanelCommits!chosen, PanelCommits!restoring, PanelCommits!reply, PanelCommits!history
<1>3. (merging' <=> merging) /\ (hasCaseOnlyRename' <=> hasCaseOnlyRename) /\ (whole' <=> whole)
        /\ (failed' <=> failed) /\ (late' <=> late) /\ (overwritten' <=> overwritten)
  BY <1>2, Zenon
<1>a. /\ hasCaseOnlyRename /\ snapshot # None /\ commitPc = "lock"
      /\ snapshot \in PanelCommits!Tree /\ IndexOf(snapshot)
  BY <1>1
  DEF PanelCommits!LockIndex, PanelCommits!Trouble, PanelCommits!Goto, PanelCommits!End,
      PanelCommits!Post, PanelCommits!AfterCommit, PanelCommits!Restored, PanelCommits!repository,
      PanelCommits!chosen, PanelCommits!restoring, PanelCommits!reply, PanelCommits!history,
      TreesTyped, PathsChosen, NamesHold, Restoring
<1>b. indexLock' \in {"free", "own", "theirs"} /\ attempt' \in 0..2
  <2>1. indexLock' \in {indexLock, "free", "own"}
    BY DEF PanelCommits!LockIndex, PanelCommits!Trouble, PanelCommits!Goto, PanelCommits!End,
        PanelCommits!Post, PanelCommits!AfterCommit, PanelCommits!Restored,
        PanelCommits!repository, PanelCommits!chosen, PanelCommits!restoring, PanelCommits!reply,
        PanelCommits!history
  <2>2. attempt' = attempt \/ (attempt < 2 /\ attempt' = attempt + 1)
    BY DEF PanelCommits!LockIndex, PanelCommits!Trouble, PanelCommits!Goto, PanelCommits!End,
        PanelCommits!Post, PanelCommits!AfterCommit, PanelCommits!Restored,
        PanelCommits!repository, PanelCommits!chosen, PanelCommits!restoring, PanelCommits!reply,
        PanelCommits!history
  <2>3. attempt \in 0..2 /\ indexLock \in {"free", "own", "theirs"}
    BY <1>1 DEF StepTyped
  <2>4. attempt' \in 0..2
    BY <2>2, <2>3
  <2> QED
    BY <2>1, <2>3, <2>4
<1>c. /\ commitPc' = "rename" => indexLock' = "own"
      /\ indexLock' = "theirs" => indexLock = "theirs"
  BY DEF PanelCommits!LockIndex, PanelCommits!Trouble, PanelCommits!Goto, PanelCommits!End,
      PanelCommits!Post, PanelCommits!AfterCommit, PanelCommits!Restored, PanelCommits!repository,
      PanelCommits!chosen, PanelCommits!restoring, PanelCommits!reply, PanelCommits!history
<1>d. \/ commitIndex' = commitIndex /\ copied' = copied
           /\ (commitPc' \in {"rename", "lock"} \/ told' = "not restored")
      \/ commitIndex' = snapshot /\ copied' = TRUE /\ commitPc' \in {"branches", "over"}
  BY <1>1, <1>a
  DEF PanelCommits!LockIndex, PanelCommits!Trouble, PanelCommits!Goto, PanelCommits!End,
      PanelCommits!Post, PanelCommits!AfterCommit, PanelCommits!Restored, PanelCommits!repository,
      PanelCommits!chosen, PanelCommits!restoring, PanelCommits!reply, PanelCommits!history
<1> USE <1>1, <1>2, <1>3, <1>a, <1>b, <1>c, <1>d, NoneApart DEF PanelCommits!LockIndex,
  PanelCommits!Trouble, PanelCommits!Goto, PanelCommits!End, PanelCommits!Post,
    PanelCommits!AfterCommit, PanelCommits!Restored, PanelCommits!repository, PanelCommits!chosen,
      PanelCommits!restoring, PanelCommits!reply, PanelCommits!history, IndexOf, Staging, Restoring,
        Pushing
<1>4. TreesTyped'
  BY DEF TreesTyped, StepTyped, PathsTyped
<1>5. StepTyped'
  BY DEF TreesTyped, StepTyped, PathsTyped
<1>6. PathsTyped'
  BY DEF TreesTyped, StepTyped, PathsTyped
<1>7. NamesHold'
  BY DEF TreesTyped, StepTyped, PathsTyped, NamesHold, PathsChosen, StepsFollow
<1>8. PathsChosen'
  BY DEF TreesTyped, StepTyped, PathsTyped, PathsChosen, NamesHold, StepsFollow
<1>9. StepsFollow'
  <2>1. (commitPc # "over" => told = None /\ draft = "typed")'
    BY DEF TreesTyped, StepTyped, PathsTyped, NamesHold, PathsChosen, StepsFollow
  <2>2. (commitPc \in Staging \cup {"status"} => commitMade = None /\ ~failed)'
    BY DEF TreesTyped, StepTyped, PathsTyped, NamesHold, PathsChosen, StepsFollow
  <2>3. (commitPc \in Restoring => (failed <=> commitMade = None))'
    BY DEF TreesTyped, StepTyped, PathsTyped, NamesHold, PathsChosen, StepsFollow
  <2>4. (commitPc \in Pushing => commitMade # None)'
    BY DEF TreesTyped, StepTyped, PathsTyped, NamesHold, PathsChosen, StepsFollow
  <2>5. (failed => commitMade = None)'
    BY DEF TreesTyped, StepTyped, PathsTyped, NamesHold, PathsChosen, StepsFollow
  <2>6. (commitPc = "rename" => indexLock = "own")'
    BY DEF TreesTyped, StepTyped, PathsTyped, NamesHold, PathsChosen, StepsFollow
  <2>7. (copied => hasCaseOnlyRename /\ commitPc \in Pushing \cup {"over"})'
    BY DEF TreesTyped, StepTyped, PathsTyped, NamesHold, PathsChosen, StepsFollow
  <2>8. (indexLock = "theirs" => lockSeen = commitIndex \/ copied)'
    BY DEF TreesTyped, StepTyped, PathsTyped, NamesHold, PathsChosen, StepsFollow
  <2>9. (whole => ~hasCaseOnlyRename /\ commitPc \notin {"status", "exclude", "add", "marker"})'
    BY DEF TreesTyped, StepTyped, PathsTyped, NamesHold, PathsChosen, StepsFollow
  <2>10. (whole /\ ~late /\ commitPc = "commit" => merging)'
    BY DEF TreesTyped, StepTyped, PathsTyped, NamesHold, PathsChosen, StepsFollow
  <2> QED
    BY <2>1, <2>2, <2>3, <2>4, <2>5, <2>6, <2>7, <2>8, <2>9, <2>10 DEF StepsFollow
<1>10. CheckedIsStaged'
  BY DEF TreesTyped, StepTyped, PathsTyped, NamesHold, PathsChosen, StepsFollow, CheckedIsStaged,
      NewIsStaged
<1>11. UncheckedIsKept'
  BY DEF TreesTyped, StepTyped, PathsTyped, NamesHold, PathsChosen, StepsFollow, UncheckedIsKept,
      UncheckedIsOut, Unchecked, PanelCommits!Path
<1>12. UncheckedIsOut'
  BY DEF TreesTyped, StepTyped, PathsTyped, NamesHold, PathsChosen, StepsFollow, UncheckedIsKept,
      UncheckedIsOut, Unchecked
<1>13. PanelCommits!CommitsWhatWasChecked'
  BY DEF PanelCommits!CommitsWhatWasChecked
<1>14. (commitPc = "over" => PanelCommits!DraftFollowsCommit)'
  BY DEF TreesTyped, StepTyped, PathsTyped, NamesHold, PathsChosen, StepsFollow,
      PanelCommits!DraftFollowsCommit
<1> QED
  BY <1>4, <1>5, <1>6, <1>7, <1>8, <1>9, <1>10, <1>11, <1>12, <1>13, <1>14 DEF PanelInv, PanelTyped

LEMMA PanelRenameIndexKeeps == ASSUME PanelInv, PanelCommits!RenameIndex PROVE PanelInv'
<1>1. /\ TreesTyped /\ StepTyped /\ PathsTyped /\ NamesHold /\ PathsChosen /\ StepsFollow
      /\ CheckedIsStaged
      /\ UncheckedIsKept /\ UncheckedIsOut /\ PanelCommits!CommitsWhatWasChecked
      /\ (commitPc = "over" => PanelCommits!DraftFollowsCommit)
  BY DEF PanelInv, PanelTyped
<1>2. UNCHANGED <<request, names, clicked, commitHead, commitWork, merging, lockSeen, commitPaths,
        hasCaseOnlyRename, stagedButUncheckedPaths, pathsToStage, whole, snapshot, attempt, failed,
          copied, wanted, late, overwritten, commitMade>>
  BY DEF PanelCommits!RenameIndex, PanelCommits!Trouble, PanelCommits!Goto, PanelCommits!End,
      PanelCommits!Post, PanelCommits!AfterCommit, PanelCommits!Restored, PanelCommits!repository,
      PanelCommits!chosen, PanelCommits!restoring, PanelCommits!reply, PanelCommits!history
<1>3. (merging' <=> merging) /\ (hasCaseOnlyRename' <=> hasCaseOnlyRename) /\ (whole' <=> whole)
        /\ (failed' <=> failed) /\ (copied' <=> copied) /\ (late' <=> late)
             /\ (overwritten' <=> overwritten)
  BY <1>2, Zenon
<1>a. /\ hasCaseOnlyRename /\ snapshot # None /\ commitPc = "rename"
      /\ snapshot \in PanelCommits!Tree /\ IndexOf(snapshot)
  BY <1>1
  DEF PanelCommits!RenameIndex, PanelCommits!Trouble, PanelCommits!Goto, PanelCommits!End,
      PanelCommits!Post, PanelCommits!AfterCommit, PanelCommits!Restored, PanelCommits!repository,
      PanelCommits!chosen, PanelCommits!restoring, PanelCommits!reply, PanelCommits!history,
      TreesTyped, PathsChosen, NamesHold, Restoring
<1> USE <1>1, <1>2, <1>3, <1>a, NoneApart DEF PanelCommits!RenameIndex, PanelCommits!Trouble,
  PanelCommits!Goto, PanelCommits!End, PanelCommits!Post, PanelCommits!AfterCommit,
    PanelCommits!Restored, PanelCommits!repository, PanelCommits!chosen, PanelCommits!restoring,
      PanelCommits!reply, PanelCommits!history, IndexOf, Staging, Restoring, Pushing
<1>4. TreesTyped'
  BY DEF TreesTyped, StepTyped, PathsTyped
<1>5. StepTyped'
  BY DEF TreesTyped, StepTyped, PathsTyped
<1>6. PathsTyped'
  BY DEF TreesTyped, StepTyped, PathsTyped
<1>7. NamesHold'
  BY DEF TreesTyped, StepTyped, PathsTyped, NamesHold, PathsChosen, StepsFollow
<1>8. PathsChosen'
  BY DEF TreesTyped, StepTyped, PathsTyped, PathsChosen, NamesHold, StepsFollow
<1>9. StepsFollow'
  BY DEF TreesTyped, StepTyped, PathsTyped, NamesHold, PathsChosen, StepsFollow
<1>10. CheckedIsStaged'
  BY DEF TreesTyped, StepTyped, PathsTyped, NamesHold, PathsChosen, StepsFollow, CheckedIsStaged,
      NewIsStaged
<1>11. UncheckedIsKept'
  BY DEF TreesTyped, StepTyped, PathsTyped, NamesHold, PathsChosen, StepsFollow, UncheckedIsKept,
      UncheckedIsOut, Unchecked, PanelCommits!Path
<1>12. UncheckedIsOut'
  BY DEF TreesTyped, StepTyped, PathsTyped, NamesHold, PathsChosen, StepsFollow, UncheckedIsKept,
      UncheckedIsOut, Unchecked
<1>13. PanelCommits!CommitsWhatWasChecked'
  BY DEF PanelCommits!CommitsWhatWasChecked
<1>14. (commitPc = "over" => PanelCommits!DraftFollowsCommit)'
  BY DEF TreesTyped, StepTyped, PathsTyped, NamesHold, PathsChosen, StepsFollow,
      PanelCommits!DraftFollowsCommit
<1> QED
  BY <1>4, <1>5, <1>6, <1>7, <1>8, <1>9, <1>10, <1>11, <1>12, <1>13, <1>14 DEF PanelInv, PanelTyped

LEMMA PanelPushKeeps == ASSUME PanelInv, PanelCommits!Push PROVE PanelInv'
<1>1. /\ TreesTyped /\ StepTyped /\ PathsTyped /\ NamesHold /\ PathsChosen /\ StepsFollow
      /\ CheckedIsStaged
      /\ UncheckedIsKept /\ UncheckedIsOut /\ PanelCommits!CommitsWhatWasChecked
      /\ (commitPc = "over" => PanelCommits!DraftFollowsCommit)
  BY DEF PanelInv, PanelTyped
<1>2. UNCHANGED <<request, names, clicked, commitHead, commitIndex, commitWork, merging, indexLock,
        lockSeen, commitPaths, hasCaseOnlyRename, stagedButUncheckedPaths, pathsToStage, whole,
          snapshot, attempt, failed, copied, wanted, late, overwritten, commitMade>>
  BY DEF PanelCommits!Push, PanelCommits!Trouble, PanelCommits!Goto, PanelCommits!Post,
      PanelCommits!repository, PanelCommits!chosen, PanelCommits!restoring, PanelCommits!reply,
      PanelCommits!history
<1>3. (merging' <=> merging) /\ (hasCaseOnlyRename' <=> hasCaseOnlyRename) /\ (whole' <=> whole)
        /\ (failed' <=> failed) /\ (copied' <=> copied) /\ (late' <=> late)
             /\ (overwritten' <=> overwritten)
  BY <1>2, Zenon
<1> USE <1>1, <1>2, <1>3, NoneApart DEF PanelCommits!Push, PanelCommits!Trouble, PanelCommits!Goto,
  PanelCommits!Post, PanelCommits!repository, PanelCommits!chosen, PanelCommits!restoring,
    PanelCommits!reply, PanelCommits!history, IndexOf, Staging, Restoring, Pushing
<1>4. TreesTyped'
  BY DEF TreesTyped, StepTyped, PathsTyped
<1>5. StepTyped'
  BY DEF TreesTyped, StepTyped, PathsTyped
<1>6. PathsTyped'
  BY DEF TreesTyped, StepTyped, PathsTyped
<1>7. NamesHold'
  BY DEF TreesTyped, StepTyped, PathsTyped, NamesHold, PathsChosen, StepsFollow
<1>8. PathsChosen'
  BY DEF TreesTyped, StepTyped, PathsTyped, PathsChosen, NamesHold, StepsFollow
<1>9. StepsFollow'
  BY DEF TreesTyped, StepTyped, PathsTyped, NamesHold, PathsChosen, StepsFollow
<1>10. CheckedIsStaged'
  BY DEF TreesTyped, StepTyped, PathsTyped, NamesHold, PathsChosen, StepsFollow, CheckedIsStaged,
      NewIsStaged
<1>11. UncheckedIsKept'
  BY DEF TreesTyped, StepTyped, PathsTyped, NamesHold, PathsChosen, StepsFollow, UncheckedIsKept,
      UncheckedIsOut, Unchecked, PanelCommits!Path
<1>12. UncheckedIsOut'
  BY DEF TreesTyped, StepTyped, PathsTyped, NamesHold, PathsChosen, StepsFollow, UncheckedIsKept,
      UncheckedIsOut, Unchecked
<1>13. PanelCommits!CommitsWhatWasChecked'
  BY DEF PanelCommits!CommitsWhatWasChecked
<1>14. (commitPc = "over" => PanelCommits!DraftFollowsCommit)'
  BY DEF TreesTyped, StepTyped, PathsTyped, NamesHold, PathsChosen, StepsFollow,
      PanelCommits!DraftFollowsCommit
<1> QED
  BY <1>4, <1>5, <1>6, <1>7, <1>8, <1>9, <1>10, <1>11, <1>12, <1>13, <1>14 DEF PanelInv, PanelTyped

LEMMA PanelRebaseKeeps == ASSUME PanelInv, PanelCommits!Rebase PROVE PanelInv'
<1>1. /\ TreesTyped /\ StepTyped /\ PathsTyped /\ NamesHold /\ PathsChosen /\ StepsFollow
      /\ CheckedIsStaged
      /\ UncheckedIsKept /\ UncheckedIsOut /\ PanelCommits!CommitsWhatWasChecked
      /\ (commitPc = "over" => PanelCommits!DraftFollowsCommit)
  BY DEF PanelInv, PanelTyped
<1>2. UNCHANGED <<request, names, clicked, commitHead, commitIndex, commitWork, indexLock, lockSeen,
        commitPaths, hasCaseOnlyRename, stagedButUncheckedPaths, pathsToStage, whole, snapshot,
          attempt, failed, copied, wanted, late, overwritten, commitMade>>
  BY DEF PanelCommits!Rebase, PanelCommits!Goto, PanelCommits!Post, PanelCommits!repository,
      PanelCommits!chosen, PanelCommits!restoring, PanelCommits!reply, PanelCommits!history
<1>3. (hasCaseOnlyRename' <=> hasCaseOnlyRename) /\ (whole' <=> whole) /\ (failed' <=> failed)
        /\ (copied' <=> copied) /\ (late' <=> late) /\ (overwritten' <=> overwritten)
  BY <1>2, Zenon
<1> USE <1>1, <1>2, <1>3, NoneApart DEF PanelCommits!Rebase, PanelCommits!Goto, PanelCommits!Post,
  PanelCommits!repository, PanelCommits!chosen, PanelCommits!restoring, PanelCommits!reply,
    PanelCommits!history, IndexOf, Staging, Restoring, Pushing
<1>4. TreesTyped'
  BY DEF TreesTyped, StepTyped, PathsTyped
<1>5. StepTyped'
  BY DEF TreesTyped, StepTyped, PathsTyped
<1>6. PathsTyped'
  BY DEF TreesTyped, StepTyped, PathsTyped
<1>7. NamesHold'
  BY DEF TreesTyped, StepTyped, PathsTyped, NamesHold, PathsChosen, StepsFollow
<1>8. PathsChosen'
  BY DEF TreesTyped, StepTyped, PathsTyped, PathsChosen, NamesHold, StepsFollow
<1>9. StepsFollow'
  BY DEF TreesTyped, StepTyped, PathsTyped, NamesHold, PathsChosen, StepsFollow
<1>10. CheckedIsStaged'
  BY DEF TreesTyped, StepTyped, PathsTyped, NamesHold, PathsChosen, StepsFollow, CheckedIsStaged,
      NewIsStaged
<1>11. UncheckedIsKept'
  BY DEF TreesTyped, StepTyped, PathsTyped, NamesHold, PathsChosen, StepsFollow, UncheckedIsKept,
      UncheckedIsOut, Unchecked, PanelCommits!Path
<1>12. UncheckedIsOut'
  BY DEF TreesTyped, StepTyped, PathsTyped, NamesHold, PathsChosen, StepsFollow, UncheckedIsKept,
      UncheckedIsOut, Unchecked
<1>13. PanelCommits!CommitsWhatWasChecked'
  BY DEF PanelCommits!CommitsWhatWasChecked
<1>14. (commitPc = "over" => PanelCommits!DraftFollowsCommit)'
  BY DEF TreesTyped, StepTyped, PathsTyped, NamesHold, PathsChosen, StepsFollow,
      PanelCommits!DraftFollowsCommit
<1> QED
  BY <1>4, <1>5, <1>6, <1>7, <1>8, <1>9, <1>10, <1>11, <1>12, <1>13, <1>14 DEF PanelInv, PanelTyped

LEMMA PanelCrashKeeps == ASSUME PanelInv, PanelCommits!Crash PROVE PanelInv'
<1>1. /\ TreesTyped /\ StepTyped /\ PathsTyped /\ NamesHold /\ PathsChosen /\ StepsFollow
      /\ CheckedIsStaged
      /\ UncheckedIsKept /\ UncheckedIsOut /\ PanelCommits!CommitsWhatWasChecked
      /\ (commitPc = "over" => PanelCommits!DraftFollowsCommit)
  BY DEF PanelInv, PanelTyped
<1>2. UNCHANGED <<request, names, clicked, commitHead, commitIndex, commitWork, merging, indexLock,
        lockSeen, commitPaths, hasCaseOnlyRename, stagedButUncheckedPaths, pathsToStage, whole,
          snapshot, attempt, failed, copied, wanted, late, overwritten, commitMade>>
  BY DEF PanelCommits!Crash, PanelCommits!Trouble, PanelCommits!End, PanelCommits!repository,
      PanelCommits!chosen, PanelCommits!restoring, PanelCommits!reply, PanelCommits!history
<1>3. (merging' <=> merging) /\ (hasCaseOnlyRename' <=> hasCaseOnlyRename) /\ (whole' <=> whole)
        /\ (failed' <=> failed) /\ (copied' <=> copied) /\ (late' <=> late)
             /\ (overwritten' <=> overwritten)
  BY <1>2, Zenon
<1> USE <1>1, <1>2, <1>3, NoneApart DEF PanelCommits!Crash, PanelCommits!Trouble, PanelCommits!End,
  PanelCommits!repository, PanelCommits!chosen, PanelCommits!restoring, PanelCommits!reply,
    PanelCommits!history, IndexOf, Staging, Restoring, Pushing
<1>4. TreesTyped'
  BY DEF TreesTyped, StepTyped, PathsTyped
<1>5. StepTyped'
  BY DEF TreesTyped, StepTyped, PathsTyped
<1>6. PathsTyped'
  BY DEF TreesTyped, StepTyped, PathsTyped
<1>7. NamesHold'
  BY DEF TreesTyped, StepTyped, PathsTyped, NamesHold, PathsChosen, StepsFollow
<1>8. PathsChosen'
  BY DEF TreesTyped, StepTyped, PathsTyped, PathsChosen, NamesHold, StepsFollow
<1>9. StepsFollow'
  BY DEF TreesTyped, StepTyped, PathsTyped, NamesHold, PathsChosen, StepsFollow
<1>10. CheckedIsStaged'
  BY DEF TreesTyped, StepTyped, PathsTyped, NamesHold, PathsChosen, StepsFollow, CheckedIsStaged,
      NewIsStaged
<1>11. UncheckedIsKept'
  BY DEF TreesTyped, StepTyped, PathsTyped, NamesHold, PathsChosen, StepsFollow, UncheckedIsKept,
      UncheckedIsOut, Unchecked, PanelCommits!Path
<1>12. UncheckedIsOut'
  BY DEF TreesTyped, StepTyped, PathsTyped, NamesHold, PathsChosen, StepsFollow, UncheckedIsKept,
      UncheckedIsOut, Unchecked
<1>13. PanelCommits!CommitsWhatWasChecked'
  BY DEF PanelCommits!CommitsWhatWasChecked
<1>14. (commitPc = "over" => PanelCommits!DraftFollowsCommit)'
  BY DEF TreesTyped, StepTyped, PathsTyped, NamesHold, PathsChosen, StepsFollow,
      PanelCommits!DraftFollowsCommit
<1> QED
  BY <1>4, <1>5, <1>6, <1>7, <1>8, <1>9, <1>10, <1>11, <1>12, <1>13, <1>14 DEF PanelInv, PanelTyped

LEMMA PanelReleaseKeeps == ASSUME PanelInv, PanelCommits!Release PROVE PanelInv'
<1>1. /\ TreesTyped /\ StepTyped /\ PathsTyped /\ NamesHold /\ PathsChosen /\ StepsFollow
      /\ CheckedIsStaged
      /\ UncheckedIsKept /\ UncheckedIsOut /\ PanelCommits!CommitsWhatWasChecked
      /\ (commitPc = "over" => PanelCommits!DraftFollowsCommit)
  BY DEF PanelInv, PanelTyped
<1>2. UNCHANGED <<request, names, clicked, commitHead, commitWork, merging, lockSeen, commitPc,
        commitPaths, hasCaseOnlyRename, stagedButUncheckedPaths, pathsToStage, whole, snapshot,
          attempt, failed, copied, draft, told, wanted, late, overwritten, commitMade>>
  BY DEF PanelCommits!Release, PanelCommits!repository, PanelCommits!chosen, PanelCommits!restoring,
      PanelCommits!reply, PanelCommits!history
<1>3. (merging' <=> merging) /\ (hasCaseOnlyRename' <=> hasCaseOnlyRename) /\ (whole' <=> whole)
        /\ (failed' <=> failed) /\ (copied' <=> copied) /\ (late' <=> late)
             /\ (overwritten' <=> overwritten)
  BY <1>2, Zenon
<1>a. /\ commitIndex' \in PanelCommits!Tree /\ IndexOf(commitIndex')
      /\ commitIndex' = commitIndex \/ (copied /\ hasCaseOnlyRename
           /\ commitPc \in Pushing \cup {"over"})
  BY <1>1
  DEF PanelCommits!Release, PanelCommits!repository, PanelCommits!chosen, PanelCommits!restoring,
      PanelCommits!reply, PanelCommits!history, TreesTyped, NamesHold, StepsFollow
<1> USE <1>1, <1>2, <1>3, <1>a, NoneApart DEF PanelCommits!Release, PanelCommits!repository,
  PanelCommits!chosen, PanelCommits!restoring, PanelCommits!reply, PanelCommits!history, IndexOf,
    Staging, Restoring, Pushing
<1>4. TreesTyped'
  BY DEF TreesTyped, StepTyped, PathsTyped
<1>5. StepTyped'
  BY DEF TreesTyped, StepTyped, PathsTyped
<1>6. PathsTyped'
  BY DEF TreesTyped, StepTyped, PathsTyped
<1>7. NamesHold'
  BY DEF TreesTyped, StepTyped, PathsTyped, NamesHold, PathsChosen, StepsFollow
<1>8. PathsChosen'
  BY DEF TreesTyped, StepTyped, PathsTyped, PathsChosen, NamesHold, StepsFollow
<1>9. StepsFollow'
  BY DEF TreesTyped, StepTyped, PathsTyped, NamesHold, PathsChosen, StepsFollow
<1>10. CheckedIsStaged'
  BY DEF TreesTyped, StepTyped, PathsTyped, NamesHold, PathsChosen, StepsFollow, CheckedIsStaged,
      NewIsStaged
<1>11. UncheckedIsKept'
  BY DEF TreesTyped, StepTyped, PathsTyped, NamesHold, PathsChosen, StepsFollow, UncheckedIsKept,
      UncheckedIsOut, Unchecked, PanelCommits!Path
<1>12. UncheckedIsOut'
  BY DEF TreesTyped, StepTyped, PathsTyped, NamesHold, PathsChosen, StepsFollow, UncheckedIsKept,
      UncheckedIsOut, Unchecked
<1>13. PanelCommits!CommitsWhatWasChecked'
  BY DEF PanelCommits!CommitsWhatWasChecked
<1>14. (commitPc = "over" => PanelCommits!DraftFollowsCommit)'
  BY DEF TreesTyped, StepTyped, PathsTyped, NamesHold, PathsChosen, StepsFollow,
      PanelCommits!DraftFollowsCommit
<1> QED
  BY <1>4, <1>5, <1>6, <1>7, <1>8, <1>9, <1>10, <1>11, <1>12, <1>13, <1>14 DEF PanelInv, PanelTyped

LEMMA PanelCommitKeeps == ASSUME PanelInv, PanelCommits!Commit PROVE PanelInv'
<1>1. commitPc = "commit"
      /\ UNCHANGED <<request, names, clicked, commitWork, indexLock, lockSeen, commitPaths,
                     hasCaseOnlyRename, stagedButUncheckedPaths, pathsToStage, whole, snapshot,
                     attempt, copied, wanted, late, overwritten>>
  BY DEF PanelCommits!Commit, PanelCommits!chosen, PanelCommits!history
<1>2. CASE failed' = TRUE /\ UNCHANGED <<commitHead, commitIndex, merging, commitMade>>
             /\ (IF hasCaseOnlyRename THEN PanelCommits!Goto("read") ELSE PanelCommits!End("failed"))
  BY <1>1, <1>2, PanelCommitFails
<1>3. CASE ~(failed' = TRUE /\ UNCHANGED <<commitHead, commitIndex, merging, commitMade>>
             /\ (IF hasCaseOnlyRename THEN PanelCommits!Goto("read") ELSE PanelCommits!End("failed")))
  <2>1. /\ PanelCommits!CanCommit
        /\ commitHead' = PanelCommits!Committed /\ merging' = FALSE
        /\ commitIndex' = IF PanelCommits!Bare THEN commitIndex
                          ELSE PanelCommits!Taken(commitIndex, commitPaths)
        /\ commitMade' = [before |-> commitHead, after |-> PanelCommits!Committed,
             merge |-> merging,
                          bare |-> PanelCommits!Bare, wanted |-> wanted]
        /\ (IF hasCaseOnlyRename THEN PanelCommits!Goto("read") ELSE PanelCommits!AfterCommit)
        /\ UNCHANGED failed
    BY <1>3 DEF PanelCommits!Commit
  <2> QED
    BY <1>1, <2>1, PanelCommitDone
<1> QED
  BY <1>2, <1>3

\* What a terminal leaves in the index, others' paths staged or not or all committed, is wanted.
LEMMA PanelTerminalKeeps ==
  ASSUME PanelInv, PanelCommits!Terminal, commitPc # "over",
         UNCHANGED <<commitPc, request, names, clicked, commitPaths, hasCaseOnlyRename,
                     stagedButUncheckedPaths, pathsToStage, whole, snapshot, attempt, failed,
                       copied,
                     draft, told, commitMade>>
  PROVE  PanelInv'
<1>1. /\ TreesTyped /\ StepTyped /\ PathsTyped /\ NamesHold /\ PathsChosen /\ StepsFollow
      /\ CheckedIsStaged /\ UncheckedIsKept /\ UncheckedIsOut /\ PanelCommits!CommitsWhatWasChecked
  BY DEF PanelInv, PanelTyped
<1>2. UNCHANGED <<commitWork, indexLock, lockSeen>> /\ indexLock = "free"
  BY DEF PanelCommits!Terminal
<1>3. /\ wanted' = commitIndex' /\ late' = (late \/ commitPc # "status")
      /\ overwritten' = (overwritten
           \/ (hasCaseOnlyRename /\ commitPc \in {"unstage", "commit", "read", "lock"}))
  BY DEF PanelCommits!Terminal, PanelCommits!Wants
<1>4. /\ commitIndex' \in PanelCommits!Tree /\ IndexOf(commitIndex')
      /\ \A p \in {"new", "old", "from"} : commitIndex'[p] = commitIndex[p]
      /\ \/ commitHead' = commitHead /\ merging' = merging
         \/ commitHead' = commitIndex /\ commitIndex' = commitIndex /\ merging' = FALSE
  <2>1. CASE /\ PanelCommits!Wants(PanelCommits!Taken(commitIndex, {"other"}))
             /\ UNCHANGED <<commitHead, merging>>
    <3>1. commitIndex' = [commitIndex EXCEPT !["other"] = commitWork["other"]]
      BY <1>1, <2>1, TakenOther DEF TreesTyped, PanelCommits!Wants
    <3> QED
      BY <1>1, <2>1, <3>1 DEF TreesTyped, NamesHold, IndexOf, PanelCommits!Tree, PanelCommits!Path
  <2>2. CASE /\ PanelCommits!Wants([commitIndex EXCEPT !["other"] = commitHead["other"]])
             /\ UNCHANGED <<commitHead, merging>>
    <3>1. commitIndex' = [commitIndex EXCEPT !["other"] = commitHead["other"]]
      BY <2>2 DEF PanelCommits!Wants
    <3> QED
      BY <1>1, <2>2, <3>1 DEF TreesTyped, NamesHold, IndexOf, PanelCommits!Tree, PanelCommits!Path
  <2>3. CASE commitHead' = commitIndex /\ merging' = FALSE /\ PanelCommits!Wants(commitIndex)
    BY <1>1, <2>3 DEF TreesTyped, NamesHold, IndexOf, PanelCommits!Wants
  <2> QED
    BY <2>1, <2>2, <2>3 DEF PanelCommits!Terminal
<1>5. /\ late' \in BOOLEAN /\ overwritten' \in BOOLEAN /\ merging' \in BOOLEAN
      /\ (late => late') /\ (overwritten => overwritten')
      /\ commitHead' \in PanelCommits!Tree
  BY <1>1, <1>3, <1>4 DEF TreesTyped, PathsTyped
<1>6. late' \/ ~hasCaseOnlyRename
  BY <1>1, <1>3 DEF PathsChosen, PathsTyped
<1>7. TreesTyped' /\ StepTyped' /\ PathsTyped'
  <2>1. TreesTyped'
    BY <1>1, <1>2, <1>3, <1>4, <1>5 DEF TreesTyped
  <2>2. StepTyped'
    BY <1>1, <1>2 DEF StepTyped, Staging, Restoring, Pushing
  <2>3. PathsTyped'
    BY <1>1, <1>5 DEF PathsTyped
  <2> QED
    BY <2>1, <2>2, <2>3
<1>8. NamesHold'
  <2>1. CASE commitHead' = commitHead
    BY <1>1, <1>2, <1>4, <2>1 DEF NamesHold, IndexOf
  <2>2. CASE commitHead' = commitIndex
    BY <1>1, <1>2, <1>4, <2>2, NoneApart DEF NamesHold, IndexOf
  <2> QED
    BY <1>4, <2>1, <2>2
<1>9. PathsChosen'
  <2>1. commitHead["old"] = None => commitHead'["old"] = None
    BY <1>1, <1>4 DEF NamesHold, IndexOf
  <2> QED
    BY <1>1, <2>1 DEF PathsChosen, Staging, Restoring
<1>10. StepsFollow'
  <2>1. whole' /\ ~late' /\ commitPc' = "commit" => merging'
    BY <1>3
  <2>2. (whole' <=> whole) /\ (failed' <=> failed) /\ (copied' <=> copied)
    OBVIOUS
  <2> QED
    BY <1>1, <1>2, <2>1, <2>2 DEF StepsFollow, Staging, Restoring, Pushing
<1>11. CheckedIsStaged'
  BY <1>1, <1>3, <1>4 DEF CheckedIsStaged, NewIsStaged
<1>12. UncheckedIsKept'
  <2>1. Unchecked(commitIndex)'
    BY <1>3 DEF Unchecked
  <2>2. hasCaseOnlyRename /\ commitPc \in {"unstage", "commit"} \cup Restoring => overwritten'
    BY <1>1, <1>2, <1>3 DEF Restoring, StepsFollow
  <2> QED
    BY <2>1, <2>2 DEF UncheckedIsKept
<1>13. UncheckedIsOut'
  BY <1>6 DEF UncheckedIsOut
<1>14. PanelCommits!CommitsWhatWasChecked'
  BY <1>1, <1>5 DEF PanelCommits!CommitsWhatWasChecked
<1> QED
  BY <1>7, <1>8, <1>9, <1>10, <1>11, <1>12, <1>13, <1>14 DEF PanelInv, PanelTyped

LEMMA PanelSaveKeeps ==
  ASSUME PanelInv, PanelCommits!Save,
         UNCHANGED <<commitPc, request, names, clicked, commitPaths, hasCaseOnlyRename,
                     stagedButUncheckedPaths, pathsToStage, whole, snapshot, attempt, failed,
                       copied,
                     draft, told, commitMade>>
  PROVE  PanelInv'
<1>1. /\ TreesTyped /\ StepTyped /\ PathsTyped /\ NamesHold /\ PathsChosen /\ StepsFollow
      /\ CheckedIsStaged /\ UncheckedIsKept /\ UncheckedIsOut /\ PanelCommits!CommitsWhatWasChecked
      /\ (commitPc = "over" => PanelCommits!DraftFollowsCommit)
  BY DEF PanelInv, PanelTyped
<1>2. UNCHANGED <<commitHead, commitIndex, merging, indexLock, lockSeen, wanted, late, overwritten>>
  BY DEF PanelCommits!Save, PanelCommits!history
<1>3. /\ commitWork' \in PanelCommits!Tree
      /\ \A p \in PanelCommits!Path : commitWork'[p] \in {commitWork[p], "later"}
      /\ commitWork'["old"] = commitWork["old"]
  BY <1>1
  DEF PanelCommits!Save, TreesTyped, PanelCommits!Tree, PanelCommits!Path, PanelCommits!Content
<1>4. (failed' <=> failed) /\ (copied' <=> copied) /\ (late' <=> late) /\ (whole' <=> whole)
      /\ (overwritten' <=> overwritten) /\ (hasCaseOnlyRename' <=> hasCaseOnlyRename)
      /\ (merging' <=> merging)
  BY <1>2, Zenon
<1>5. TreesTyped' /\ StepTyped' /\ PathsTyped'
  <2>1. TreesTyped'
    BY <1>1, <1>2, <1>3 DEF TreesTyped
  <2>2. StepTyped'
    BY <1>1, <1>2 DEF StepTyped, Staging, Restoring, Pushing
  <2>3. PathsTyped'
    BY <1>1, <1>2 DEF PathsTyped
  <2> QED
    BY <2>1, <2>2, <2>3
<1>6. NamesHold'
  <2>1. commitWork'["new"] \in {commitWork["new"], "later"}
        /\ commitWork'["other"] \in {commitWork["other"], "later"}
    BY <1>3 DEF PanelCommits!Path
  <2> QED
    BY <1>1, <1>2, <1>3, <2>1, NoneApart DEF NamesHold, IndexOf
<1>7. PathsChosen'
  BY <1>1, <1>2, <1>4 DEF PathsChosen, Staging, Restoring
<1>8. StepsFollow'
  BY <1>1, <1>2, <1>4 DEF StepsFollow, Staging, Restoring, Pushing
<1>9. CheckedIsStaged' /\ UncheckedIsOut'
  BY <1>1, <1>2, <1>4 DEF CheckedIsStaged, NewIsStaged, UncheckedIsOut
<1>10. UncheckedIsKept'
  BY <1>1, <1>2, <1>4 DEF UncheckedIsKept, Unchecked, Restoring, Pushing
<1>11. PanelCommits!CommitsWhatWasChecked'
         /\ (commitPc = "over" => PanelCommits!DraftFollowsCommit)'
  BY <1>1, <1>2, <1>4 DEF PanelCommits!CommitsWhatWasChecked, PanelCommits!DraftFollowsCommit
<1> QED
  BY <1>5, <1>6, <1>7, <1>8, <1>9, <1>10, <1>11 DEF PanelInv, PanelTyped

LEMMA PanelHoldKeeps ==
  ASSUME PanelInv, PanelCommits!Hold,
         UNCHANGED <<commitPc, request, names, clicked, commitPaths, hasCaseOnlyRename,
                     stagedButUncheckedPaths, pathsToStage, whole, snapshot, attempt, failed,
                       copied,
                     draft, told, commitMade>>
  PROVE  PanelInv'
<1>1. /\ TreesTyped /\ StepTyped /\ PathsTyped /\ NamesHold /\ PathsChosen /\ StepsFollow
      /\ CheckedIsStaged /\ UncheckedIsKept /\ UncheckedIsOut /\ PanelCommits!CommitsWhatWasChecked
      /\ (commitPc = "over" => PanelCommits!DraftFollowsCommit)
  BY DEF PanelInv, PanelTyped
<1>2. /\ UNCHANGED <<commitHead, commitIndex, commitWork, merging, wanted, late, overwritten>>
      /\ indexLock = "free" /\ indexLock' = "theirs" /\ lockSeen' = commitIndex
  BY DEF PanelCommits!Hold, PanelCommits!history
<1>3. (failed' <=> failed) /\ (copied' <=> copied) /\ (late' <=> late) /\ (whole' <=> whole)
      /\ (overwritten' <=> overwritten) /\ (hasCaseOnlyRename' <=> hasCaseOnlyRename)
      /\ (merging' <=> merging)
  BY <1>2, Zenon
<1>4. TreesTyped' /\ StepTyped' /\ PathsTyped'
  <2>1. TreesTyped'
    BY <1>1, <1>2 DEF TreesTyped
  <2>2. StepTyped'
    BY <1>1, <1>2 DEF StepTyped, Staging, Restoring, Pushing
  <2>3. PathsTyped'
    BY <1>1, <1>2 DEF PathsTyped
  <2> QED
    BY <2>1, <2>2, <2>3
<1>5. NamesHold'
  BY <1>1, <1>2 DEF NamesHold, IndexOf
<1>6. PathsChosen'
  BY <1>1, <1>2, <1>3 DEF PathsChosen, Staging, Restoring
<1>7. StepsFollow'
  BY <1>1, <1>2, <1>3 DEF StepsFollow, Staging, Restoring, Pushing
<1>8. CheckedIsStaged' /\ UncheckedIsOut'
  BY <1>1, <1>2, <1>3 DEF CheckedIsStaged, NewIsStaged, UncheckedIsOut
<1>9. UncheckedIsKept'
  BY <1>1, <1>2, <1>3 DEF UncheckedIsKept, Unchecked, Restoring, Pushing
<1>10. PanelCommits!CommitsWhatWasChecked'
         /\ (commitPc = "over" => PanelCommits!DraftFollowsCommit)'
  BY <1>1, <1>2, <1>3 DEF PanelCommits!CommitsWhatWasChecked, PanelCommits!DraftFollowsCommit
<1> QED
  BY <1>4, <1>5, <1>6, <1>7, <1>8, <1>9, <1>10 DEF PanelInv, PanelTyped

LEMMA PanelOutsideKeeps == ASSUME PanelInv, PanelCommits!Outside PROVE PanelInv'
<1>1. commitPc # "over"
      /\ UNCHANGED <<commitPc, request, names, clicked, commitPaths, hasCaseOnlyRename,
                     stagedButUncheckedPaths, pathsToStage, whole, snapshot, attempt, failed,
                       copied,
                     draft, told, commitMade>>
  BY DEF PanelCommits!Outside, PanelCommits!chosen, PanelCommits!restoring, PanelCommits!reply
<1> QED
  BY <1>1, PanelTerminalKeeps, PanelSaveKeeps, PanelHoldKeeps DEF PanelCommits!Outside

\* The trees a commit begins with, spelt out.
LEMMA TreesAtFirst ==
  ASSUME PanelCommits!Init
  PROVE  /\ commitHead \in PanelCommits!Tree /\ commitIndex \in PanelCommits!Tree
         /\ commitWork \in PanelCommits!Tree
         /\ names \in {"apart", "case", "folded"}
         /\ commitIndex["old"] = None /\ commitWork["old"] = None
         /\ \/ /\ commitHead["new"] = "base" /\ commitHead["old"] = None /\ names = "apart"
               /\ commitIndex["new"] \in {"base", "staged", None}
               /\ commitWork["new"] \in {"work", None}
            \/ /\ commitHead["new"] = None /\ commitHead["old"] = "a"
               /\ commitIndex["new"] = "a" /\ commitWork["new"] \in {"a", "work"}
         /\ commitHead["other"] \in {"base", None} /\ commitHead["from"] \in {"b", None}
         /\ commitIndex["other"] \in {"base", "staged", "b"} /\ commitIndex["from"] = None
         /\ commitWork["other"] \in {"base", "work", "b"} /\ commitWork["from"] = None
<1> DEFINE both(one,
  two) == [p \in PanelCommits!Path |-> IF p \in DOMAIN one THEN one[p] ELSE two[p]]
<1>1. PICK c \in PanelCommits!CheckedFiles, u \in PanelCommits!UncheckedFiles :
        /\ commitHead = both(c.head, u.head) /\ commitIndex = both(c.index, u.index)
        /\ commitWork = both(c.work, u.work) /\ names = c.names
  BY DEF PanelCommits!Init
<1>2. PICK h \in {"base", None}, g \in {"a", None}, i \in {"base", "staged", "a", None},
           w \in {"work", "a", None} :
        /\ c.head = [new |-> h, old |-> g] /\ c.index = [new |-> i, old |-> None]
        /\ c.work = [new |-> w, old |-> None] /\ c.names \in {"apart", "case", "folded"}
        /\ \/ h = "base" /\ g = None /\ c.names = "apart" /\ i \in {"base", "staged", None}
                /\ w \in {"work", None}
           \/ h = None /\ g = "a" /\ i = "a" /\ w \in {"a", "work"}
  BY DEF PanelCommits!CheckedFiles
<1>3. PICK ho \in {"base", None}, hf \in {"b", None}, io \in {"base", "staged", "b"},
           wo \in {"base", "work", "b"} :
        /\ u.head = [other |-> ho, from |-> hf] /\ u.index = [other |-> io, from |-> None]
        /\ u.work = [other |-> wo, from |-> None]
  BY DEF PanelCommits!UncheckedFiles
<1>4. ASSUME NEW a, NEW b, NEW x, NEW y
      PROVE  LET t == both([new |-> a, old |-> b], [other |-> x, from |-> y])
             IN  /\ t["new"] = a /\ t["old"] = b /\ t["other"] = x /\ t["from"] = y
                 /\ ({a, b, x, y} \subseteq PanelCommits!Content => t \in PanelCommits!Tree)
  BY DEF PanelCommits!Path, PanelCommits!Tree
<1>5. /\ commitHead = both([new |-> h, old |-> g], [other |-> ho, from |-> hf])
      /\ commitIndex = both([new |-> i, old |-> None], [other |-> io, from |-> None])
      /\ commitWork = both([new |-> w, old |-> None], [other |-> wo, from |-> None])
  BY <1>1, <1>2, <1>3
<1> HIDE DEF both
<1>6. /\ {h, g, ho, hf} \subseteq PanelCommits!Content
      /\ {i, None, io, None} \subseteq PanelCommits!Content
      /\ {w, None, wo, None} \subseteq PanelCommits!Content
  BY DEF PanelCommits!Content
<1> QED
  BY <1>1, <1>2, <1>3, <1>4, <1>5, <1>6

LEMMA PanelInvInit == PanelCommits!Init => PanelInv
<1> SUFFICES ASSUME PanelCommits!Init PROVE PanelInv
  OBVIOUS
<1>1. /\ request \in PanelCommits!Request /\ merging \in BOOLEAN
      /\ indexLock = "free" /\ lockSeen = commitIndex
      /\ commitPc = IF request.kind = "selected" THEN "status" ELSE "commit"
      /\ commitPaths = {} /\ hasCaseOnlyRename = FALSE /\ stagedButUncheckedPaths = {}
      /\ pathsToStage = {} /\ whole = FALSE /\ snapshot = None /\ attempt = 0 /\ failed = FALSE
      /\ draft = "typed" /\ told = None /\ clicked = PanelCommits!Disk("new")
      /\ wanted = commitIndex /\ commitMade = None /\ late = FALSE /\ overwritten = FALSE
      /\ copied = FALSE
  BY DEF PanelCommits!Init
<1>2. clicked = commitWork["new"]
  BY <1>1 DEF PanelCommits!Disk
<1>3. TreesTyped
  BY <1>1, TreesAtFirst DEF TreesTyped
<1>4. StepTyped
  BY <1>1 DEF StepTyped, Staging
<1>5. PathsTyped
  BY <1>1 DEF PathsTyped
<1>6. NamesHold
  BY <1>1, <1>2, TreesAtFirst, NoneApart DEF NamesHold, IndexOf
<1>7. PathsChosen
  <2>1. request.kind # "selected" => request.kind = "staged"
    BY <1>1 DEF PanelCommits!Request
  <2> QED
    BY <1>1, <2>1 DEF PathsChosen, Staging, Restoring
<1>8. StepsFollow
  BY <1>1 DEF StepsFollow, Staging, Restoring, Pushing
<1>9. CheckedIsStaged /\ UncheckedIsKept /\ UncheckedIsOut
  BY <1>1 DEF CheckedIsStaged, UncheckedIsKept, Unchecked, UncheckedIsOut, Restoring, Pushing
<1>10. PanelCommits!CommitsWhatWasChecked /\ (commitPc = "over" => PanelCommits!DraftFollowsCommit)
  BY <1>1 DEF PanelCommits!CommitsWhatWasChecked
<1> QED
  BY <1>3, <1>4, <1>5, <1>6, <1>7, <1>8, <1>9, <1>10 DEF PanelInv, PanelTyped

LEMMA PanelInvStep == PanelInv /\ [PanelCommits!Next]_(PanelCommits!vars) => PanelInv'
<1> SUFFICES ASSUME PanelInv, [PanelCommits!Next]_(PanelCommits!vars) PROVE PanelInv'
  OBVIOUS
<1>1. CASE UNCHANGED PanelCommits!vars
  <2>1. UNCHANGED <<request, names, clicked, commitHead, commitIndex, commitWork, merging,
          indexLock,
                    lockSeen, commitPc, commitPaths, hasCaseOnlyRename, stagedButUncheckedPaths,
                    pathsToStage, whole, snapshot, attempt, failed, copied, draft, told, wanted,
                      late,
                    overwritten, commitMade>>
    BY <1>1 DEF PanelCommits!vars, PanelCommits!repository, PanelCommits!chosen,
       PanelCommits!restoring, PanelCommits!reply, PanelCommits!history
  <2>2. PanelTyped' = PanelTyped /\ NamesHold' = NamesHold /\ PathsChosen' = PathsChosen
    BY <2>1 DEF PanelTyped, TreesTyped, StepTyped, PathsTyped, NamesHold, IndexOf, PathsChosen
  <2>3. StepsFollow' = StepsFollow /\ CheckedIsStaged' = CheckedIsStaged
    BY <2>1 DEF StepsFollow, CheckedIsStaged, NewIsStaged
  <2>4. UncheckedIsKept' = UncheckedIsKept /\ UncheckedIsOut' = UncheckedIsOut
    BY <2>1 DEF UncheckedIsKept, Unchecked, UncheckedIsOut
  <2>5. PanelCommits!CommitsWhatWasChecked' = PanelCommits!CommitsWhatWasChecked
        /\ PanelCommits!DraftFollowsCommit' = PanelCommits!DraftFollowsCommit
    BY <2>1 DEF PanelCommits!CommitsWhatWasChecked, PanelCommits!DraftFollowsCommit
  <2> QED
    BY <2>1, <2>2, <2>3, <2>4, <2>5 DEF PanelInv
<1>2. CASE PanelCommits!Next
  BY <1>2, PanelStatusKeeps, PanelExcludeKeeps, PanelStageFilesKeeps,
     PanelHasWholeIndexOperationInProgressKeeps, PanelCommitKeeps, PanelTakeSnapshotKeeps,
     PanelUnstageFilesKeeps, PanelReadSnapshotKeeps, PanelLockIndexKeeps, PanelRenameIndexKeeps,
     PanelPushKeeps, PanelRebaseKeeps, PanelCrashKeeps, PanelOutsideKeeps, PanelReleaseKeeps
  DEF PanelCommits!Next
<1> QED
  BY <1>1, <1>2

LEMMA PanelInvHolds ==
  PanelInv =>
    /\ PanelCommits!TypeOK /\ PanelCommits!CommitsWhatWasChecked
    /\ PanelCommits!UncheckedStaysStaged /\ PanelCommits!DraftFollowsCommit
<1> SUFFICES ASSUME PanelInv
             PROVE  /\ PanelCommits!TypeOK /\ PanelCommits!CommitsWhatWasChecked
                    /\ PanelCommits!UncheckedStaysStaged /\ PanelCommits!DraftFollowsCommit
  OBVIOUS
<1>1. /\ TreesTyped /\ StepTyped /\ PathsTyped /\ PathsChosen /\ StepsFollow /\ UncheckedIsKept
  BY DEF PanelInv, PanelTyped
<1>2. PanelCommits!TypeOK
  BY <1>1 DEF PanelCommits!TypeOK, TreesTyped, StepTyped, PathsTyped, PathsChosen, PanelCommits!Path
<1>3. PanelCommits!DraftFollowsCommit
  <2>1. CASE commitPc = "over"
    BY <2>1 DEF PanelInv
  <2>2. CASE commitPc # "over"
    BY <1>1, <2>2, NoneApart DEF StepsFollow, PanelCommits!DraftFollowsCommit
  <2> QED
    BY <2>1, <2>2
<1>4. PanelCommits!UncheckedStaysStaged
  <2>1. CASE ~hasCaseOnlyRename
    BY <1>1, <2>1 DEF UncheckedIsKept, Unchecked, PanelCommits!UncheckedStaysStaged
  <2>2. CASE hasCaseOnlyRename
    <3>1. told = None \/ commitPc = "over"
      BY <1>1 DEF StepsFollow
    <3> QED
      BY <1>1, <2>2, <3>1
      DEF StepTyped, UncheckedIsKept, Unchecked, PanelCommits!UncheckedStaysStaged
  <2> QED
    BY <2>1, <2>2
<1> QED
  BY <1>2, <1>3, <1>4 DEF PanelInv

LEMMA PanelInvAlways == PanelCommits!Spec => []PanelInv
BY PanelInvInit, PanelInvStep, PTL DEF PanelCommits!Spec

\* A squash loses no change its stash took and nothing the user had stashed, whatever fails and
\* whatever a terminal does, and says how it ended (commitHistoryActions.ts:632-720, 767-863).  A
\* commit from the panel holds what was checked and nothing else, leaves the rest staged as it was,
\* and takes its message from the panel only if it was made (commitPanelActions.ts:565-703;
\* operations.ts:1004-1111).
THEOREM ChangesKept ==
  \/ Squash!Spec /\ [](part = "squash")
  \/ PanelCommits!Spec /\ [](part = "commit")
  => []CommitsKeepChanges
<1>1. SquashInv /\ part = "squash" => CommitsKeepChanges
  BY DEF SquashInv, CommitsKeepChanges
<1>2. PanelInv /\ part = "commit" => CommitsKeepChanges
  BY PanelInvHolds DEF CommitsKeepChanges
<1> QED
  BY <1>1, <1>2, SquashInvAlways, PanelInvAlways, PTL

-----------------------------------------------------------------------------
(* The store, of which ShelfServiceProofs has the invariant.               *)

\* A shelf nobody deletes can be read at every moment; unless something goes wrong, the catalog
\* lists what is on disk and a request submitted again is carried out once (store.ts:237-270,
\* 389-424, 569-577).
THEOREM StoreIsReadable == Spec => []StoreReadable
<1>1. ServiceInv => StoreReadable
  BY CatalogAndTokens DEF ServiceInv, StoreReadable
<1> QED
  BY <1>1, ServiceInvAlways, PTL

\* What is on record stands: a committed transaction is never rolled back, a written generation
\* never changes, and an entry is recorded as applied only when it was (recovery.ts:173, 251;
\* store.ts:237-270; shelfService.ts:194-216).
THEOREM RecordsAreKept == Spec /\ Reverter!Spec => RecordsStand
BY GenerationsKept, GhostsKept, CommittedStands, PTL DEF RecordsStand

=============================================================================
