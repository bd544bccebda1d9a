---------------------------- MODULE ShelfReverter ----------------------------
(***************************************************************************)
(* shelf/recovery.ts: shelving moves the user's files out of the worktree  *)
(* and puts the base in their place, as one journaled transaction.         *)
(*                                                                         *)
(* Each file in turn is renamed into the recovery directory, replaced by   *)
(* the base (or by nothing) and reset in the index.  The journal is        *)
(* written ahead of each change and marked "shelved" at the end.  When a   *)
(* step throws, the changes are rolled back; when the process dies, the    *)
(* next activation rolls them back from the journal.  The repository lock  *)
(* keeps other extension hosts out, but the user's editor and git do not   *)
(* ask: they may change a file, the index or HEAD between any two steps.   *)
(*                                                                         *)
(* A content is what fingerprint tells apart.  "mine" is whatever the user *)
(* had at a path before the transaction moved it: nothing looks inside it, *)
(* so saving it again is no step of the model.                             *)
(***************************************************************************)
EXTENDS Naturals, FiniteSets

CONSTANTS
  None,
  FlushFails,  \* whether syncing the journals' directory may fail after the commit
  MaxFiles,    \* bound: files of a transaction
  MaxEdits,    \* bound: changes from outside
  MaxCrashes   \* bound: times the process dies

Content == {"absent", "mine", "base", "partial", "foreign"}
IndexEntry == {"staged", "base", "foreign"}

VARIABLES
  fileCount, \* the files of the transaction, in order
  inBase,    \* whether the base commit has each path
  target, recovery, index, \* what is at each path, in recovery and in the index
  headMoved, \* whether HEAD left the commit the transaction began on
  journal,
  pc, at,    \* the step of the transaction, and the file it is at
  entry, moved, expectedIndex, \* RevertState: MovedPaths, the moved ones, the index
  todo, retained, resuming,    \* rollbackMovedPaths: paths left, kept, and its caller
  edits, crashes,
  original,  \* history: what each path and its index entry were at the start
  touched    \* history: paths whose file or index entry was changed from outside

Path == 1..fileCount
MovedPath ==
  [hadOriginal : BOOLEAN, originalIndex : IndexEntry,
   written : Content, writtenIndex : IndexEntry]
Progress == [phase : {"planned", "moved", "written", "reverted"}, entry : MovedPath]
Journal ==
  [state : {"shelvePendingRevert", "shelved", "ghost"},
   pathProgress : [Path -> Progress \cup {None}]]

given == <<fileCount, inBase>>
world == <<given, target, recovery, index, headMoved>>
memory == <<at, entry, moved, expectedIndex>>
rollback == <<todo, retained, resuming>>
outside == <<edits, crashes, touched>>
vars == <<world, journal, pc, memory, rollback, outside, original>>

Forward == {"begin", "verify", "plan", "move", "journalMoved", "settle", "create", "fill",
            "journalWritten", "checkWritten", "writeIndex", "readIndex", "journalIndex",
            "recheck", "commit", "flush"}
Backward == {"check", "unindex", "unwrite", "vacant", "restore", "conclude"}

TypeOK ==
  /\ fileCount \in 1..MaxFiles
  /\ inBase \in [Path -> BOOLEAN]
  /\ target \in [Path -> Content] /\ recovery \in [Path -> Content]
  /\ index \in [Path -> IndexEntry] /\ headMoved \in BOOLEAN
  /\ journal \in Journal \cup {None}
  /\ pc \in Forward \cup Backward \cup {"idle"}
  /\ at \in 1..fileCount + 1
  /\ entry \in [Path -> MovedPath \cup {None}] /\ moved \in SUBSET Path
  /\ expectedIndex \in [Path -> IndexEntry]
  /\ todo \in SUBSET Path /\ retained \in SUBSET Path /\ resuming \in BOOLEAN
  /\ edits \in 0..MaxEdits /\ crashes \in 0..MaxCrashes /\ touched \in SUBSET Path
  /\ original \in [Path -> [target : Content, index : IndexEntry]]

Forgotten ==
  /\ at' = 1 /\ entry' = [p \in Path |-> None] /\ moved' = {} /\ expectedIndex' = index
  /\ todo' = {} /\ retained' = {} /\ resuming' = FALSE

Init ==
  /\ fileCount \in 1..MaxFiles
  /\ inBase \in [Path -> BOOLEAN]
  /\ target \in [Path -> {"absent", "mine"}]
  /\ index \in [Path -> {"staged", "base"}]
  /\ recovery = [p \in Path |-> "absent"] /\ headMoved = FALSE
  /\ journal = None /\ pc = "begin"
  /\ at = 1 /\ entry = [p \in Path |-> None] /\ moved = {} /\ expectedIndex = index
  /\ todo = {} /\ retained = {} /\ resuming = FALSE
  /\ edits = 0 /\ crashes = 0 /\ touched = {}
  /\ original = [p \in Path |-> [target |-> target[p], index |-> index[p]]]

-----------------------------------------------------------------------------
(* The transaction. *)

Go(from, to) == pc = from /\ pc' = to

\* writePendingJournal with the progress of the file at hand.
WriteProgress(phase) ==
  /\ journal' = [journal EXCEPT !.pathProgress[at] = [phase |-> phase, entry |-> entry'[at]]]

\* verifyGitPreconditions
GitUnchanged == ~headMoved /\ index = expectedIndex

Begin ==
  /\ Go("begin", "verify")
  /\ expectedIndex' = index
  /\ journal' = [state |-> "shelvePendingRevert", pathProgress |-> [p \in Path |-> None]]
  /\ UNCHANGED <<world, at, entry, moved, rollback, outside, original>>

Verify ==
  /\ Go("verify", "plan") /\ GitUnchanged
  /\ UNCHANGED <<world, journal, memory, rollback, outside, original>>

\* The MovedPath of a file about to be moved.
Planned(p) ==
  [hadOriginal |-> target[p] # "absent", originalIndex |-> index[p],
   written |-> "absent", writtenIndex |-> index[p]]

Plan ==
  /\ Go("plan", "move")
  /\ entry' = [entry EXCEPT ![at] = Planned(at)]
  /\ WriteProgress("planned")
  /\ UNCHANGED <<world, at, moved, expectedIndex, rollback, outside, original>>

MoveOriginal ==
  /\ pc = "move"
  /\ moved' = moved \cup {at}
  /\ IF entry[at].hadOriginal
     THEN /\ target[at] # "absent" /\ recovery[at] = "absent"
          /\ recovery' = [recovery EXCEPT ![at] = target[at]]
          /\ target' = [target EXCEPT ![at] = "absent"]
          /\ pc' = "journalMoved"
     ELSE pc' = "create" /\ UNCHANGED <<target, recovery>>
  /\ UNCHANGED <<given, index, headMoved, journal, at, entry, expectedIndex,
                 rollback, outside, original>>

JournalMoved ==
  /\ Go("journalMoved", "settle")
  /\ entry' = entry
  /\ WriteProgress("moved")
  /\ UNCHANGED <<world, at, moved, expectedIndex, rollback, outside, original>>

\* The rest of moveOriginal: the path is vacant, the snapshot is stored and journaled.
Settle ==
  /\ Go("settle", "create")
  /\ target[at] = "absent" /\ recovery[at] # "absent"
  /\ UNCHANGED <<world, journal, memory, rollback, outside, original>>

\* writeBaseFile's exclusive open, when the base has the path.
CreateBase ==
  /\ pc = "create"
  /\ IF inBase[at]
     THEN /\ target[at] = "absent"
          /\ target' = [target EXCEPT ![at] = "partial"]
          /\ pc' = "fill"
     ELSE pc' = "journalWritten" /\ UNCHANGED target
  /\ UNCHANGED <<given, recovery, index, headMoved, journal, memory, rollback, outside, original>>

\* The bytes go to the file created, unless something else took its place.
FillBase ==
  /\ Go("fill", "journalWritten")
  /\ target' = [target EXCEPT ![at] = IF @ = "partial" THEN "base" ELSE @]
  /\ UNCHANGED <<given, recovery, index, headMoved, journal, memory, rollback, outside, original>>

JournalWritten ==
  /\ Go("journalWritten", "checkWritten")
  /\ entry' = [entry EXCEPT ![at].written = IF inBase[at] THEN target[at] ELSE @]
  /\ WriteProgress("written")
  /\ UNCHANGED <<world, at, moved, expectedIndex, rollback, outside, original>>

\* The fingerprint after the checkpoint, then updateIndex's preconditions.
CheckWritten ==
  /\ Go("checkWritten", "writeIndex")
  /\ target[at] = entry[at].written /\ GitUnchanged
  /\ UNCHANGED <<world, journal, memory, rollback, outside, original>>

WriteIndex ==
  /\ Go("writeIndex", "readIndex")
  /\ index' = [index EXCEPT ![at] = "base"]
  /\ UNCHANGED <<given, target, recovery, headMoved, journal, memory, rollback, outside, original>>

\* What is read back goes into the MovedPath before it is compared with the base.
ReadIndex ==
  /\ Go("readIndex", "journalIndex")
  /\ entry' = [entry EXCEPT ![at].writtenIndex = index[at]]
  /\ UNCHANGED <<world, journal, at, moved, expectedIndex, rollback, outside, original>>

JournalIndex ==
  /\ Go("journalIndex", "recheck")
  /\ entry[at].writtenIndex = "base"
  /\ expectedIndex' = index
  /\ entry' = entry
  /\ WriteProgress("written")
  /\ UNCHANGED <<world, at, moved, rollback, outside, original>>

Recheck ==
  /\ pc = "recheck"
  /\ entry[at].hadOriginal => recovery[at] # "absent"
  /\ GitUnchanged
  /\ at' = at + 1
  /\ pc' = IF at = fileCount THEN "commit" ELSE "verify"
  /\ UNCHANGED <<world, journal, entry, moved, expectedIndex, rollback, outside, original>>

CommitJournal ==
  /\ Go("commit", "flush")
  /\ journal' = [state |-> "shelved", pathProgress |->
                   [p \in Path |-> [journal.pathProgress[p] EXCEPT !.phase = "reverted"]]]
  /\ UNCHANGED <<world, memory, rollback, outside, original>>

\* writeAtomic syncs the directory after its rename; only then is committed set.
Flush ==
  /\ Go("flush", "idle")
  /\ Forgotten
  /\ UNCHANGED <<world, journal, outside, original>>

-----------------------------------------------------------------------------
(* The rollback, of the MovedPaths in memory or of those the journal names. *)

\* Every step may throw: a check that fails, or a call to the file system or git.
Throw ==
  /\ pc \in Forward
  /\ pc = "flush" => FlushFails
  /\ pc' = IF moved = {} THEN "conclude" ELSE "check"
  /\ todo' = moved /\ retained' = {} /\ resuming' = FALSE
  /\ at' = 1
  /\ UNCHANGED <<world, journal, entry, moved, expectedIndex, outside, original>>

Last == CHOOSE p \in todo : \A q \in todo : q <= p

Settled(keep) ==
  /\ todo' = todo \ {Last}
  /\ retained' = retained \cup keep
  /\ pc' = IF todo = {Last} THEN "conclude" ELSE "check"
  /\ UNCHANGED <<memory, resuming, journal>>

\* A check that fails or a call that throws: the path stays in recovery.
Retain ==
  /\ pc \in Backward \ {"conclude"}
  /\ Settled({Last})
  /\ UNCHANGED <<world, outside, original>>

MatchesWritten(p) ==
  /\ index[p] = entry[p].writtenIndex
  /\ target[p] = entry[p].written
  /\ entry[p].hadOriginal => recovery[p] # "absent"

RollbackCheck ==
  /\ Go("check", "unindex") /\ MatchesWritten(Last)
  /\ UNCHANGED <<world, journal, memory, rollback, outside, original>>

RestoreIndex ==
  /\ Go("unindex", "unwrite")
  /\ index' = [index EXCEPT ![Last] = entry[Last].originalIndex]
  /\ UNCHANGED <<given, target, recovery, headMoved, journal, memory, rollback, outside, original>>

\* matchesOriginalIndexState, then the removal of what the transaction wrote.
RemoveWritten ==
  /\ pc = "unwrite" /\ index[Last] = entry[Last].originalIndex
  /\ target' = [target EXCEPT ![Last] = IF entry[Last].written = "absent" THEN @ ELSE "absent"]
  /\ IF entry[Last].hadOriginal
     THEN pc' = "vacant" /\ UNCHANGED <<journal, memory, rollback>>
     ELSE Settled({})
  /\ UNCHANGED <<given, recovery, index, headMoved, outside, original>>

FindVacant ==
  /\ Go("vacant", "restore") /\ target[Last] = "absent"
  /\ UNCHANGED <<world, journal, memory, rollback, outside, original>>

\* Mutant: a file that came meanwhile stays, and the recovery copy goes.
RestoreUnlessPresent ==
  /\ pc = "restore"
  /\ target' = [target EXCEPT ![Last] = IF @ = "absent" THEN recovery[Last] ELSE @]
  /\ recovery' = [recovery EXCEPT ![Last] = "absent"]
  /\ Settled({})
  /\ UNCHANGED <<given, index, headMoved, outside, original>>

\* rename replaces whatever appeared at the target since the check.
RestoreOriginal ==
  /\ pc = "restore"
  /\ target' = [target EXCEPT ![Last] = recovery[Last]]
  /\ recovery' = [recovery EXCEPT ![Last] = "absent"]
  /\ Settled({})
  /\ UNCHANGED <<given, index, headMoved, outside, original>>

\* Mutant: a resume that retains something leaves the journal for another try.
ConcludeAgain ==
  /\ Go("conclude", "idle")
  /\ journal' = IF retained = {} THEN None ELSE journal
  /\ Forgotten
  /\ UNCHANGED <<world, outside, original>>

\* With paths retained the journal stays pending until the next resume, which makes it a
\* ghost; without, it is deleted.
Conclude ==
  /\ Go("conclude", "idle")
  /\ journal' = IF retained = {} THEN None
                ELSE IF resuming THEN [journal EXCEPT !.state = "ghost"] ELSE journal
  /\ Forgotten
  /\ UNCHANGED <<world, outside, original>>

\* deleteJournal or transitionJournal throws; only a resume has a second chance.
ConcludeFails ==
  /\ Go("conclude", "idle")
  /\ journal' \in IF resuming /\ journal # None
                  THEN {journal, [journal EXCEPT !.state = "ghost"]} ELSE {journal}
  /\ Forgotten
  /\ UNCHANGED <<world, outside, original>>

-----------------------------------------------------------------------------
(* Restart. *)

Named == IF journal = None THEN {} ELSE {p \in Path : journal.pathProgress[p] # None}

\* pendingMovedPaths passes over a path whose move was planned and did not happen.
Unmoved(p) ==
  /\ journal.pathProgress[p].phase = "planned" /\ recovery[p] = "absent"
  /\ (target[p] # "absent") = journal.pathProgress[p].entry.hadOriginal

\* It refuses the whole journal for a path it cannot explain.
Ambiguous(p) ==
  LET progress == journal.pathProgress[p] IN
  /\ ~Unmoved(p)
  /\ \/ progress.phase = "planned" /\ (~progress.entry.hadOriginal \/ target[p] # "absent")
     \/ progress.entry.hadOriginal /\ recovery[p] = "absent"

Pending == journal # None /\ journal.state = "shelvePendingRevert"

Resume ==
  /\ pc = "idle" /\ Pending
  /\ IF \E p \in Named : Ambiguous(p)
     THEN /\ journal' = [journal EXCEPT !.state = "ghost"]
          /\ UNCHANGED <<pc, memory, rollback>>
     ELSE /\ entry' = [p \in Path |-> IF p \in Named THEN journal.pathProgress[p].entry ELSE None]
          /\ todo' = {p \in Named : ~Unmoved(p)}
          /\ moved' = todo' /\ retained' = {} /\ resuming' = TRUE
          /\ pc' = IF todo' = {} THEN "conclude" ELSE "check"
          /\ UNCHANGED <<journal, at, expectedIndex>>
  /\ UNCHANGED <<world, outside, original>>

\* Everything in memory is lost; the next activation finds the journal.
Crash ==
  /\ pc # "idle" /\ crashes < MaxCrashes
  /\ crashes' = crashes + 1
  /\ pc' = "idle" /\ Forgotten
  /\ UNCHANGED <<world, journal, edits, touched, original>>

\* The user's editor or git: a file written or deleted, an entry staged, HEAD moved.
Edit ==
  /\ edits < MaxEdits
  /\ edits' = edits + 1
  /\ \E p \in Path :
       /\ touched' = touched \cup {p}
       /\ \/ /\ target[p] # "mine"
             /\ \E content \in {"absent", "foreign"} \ {target[p]} :
                  target' = [target EXCEPT ![p] = content]
             /\ UNCHANGED <<index, headMoved>>
          \/ /\ index' = [index EXCEPT ![p] = "foreign"]
             /\ headMoved' \in {headMoved, TRUE}
             /\ UNCHANGED target
  /\ UNCHANGED <<given, recovery, journal, pc, memory, rollback, crashes, original>>

Transact ==
  \/ Begin \/ Verify \/ Plan \/ MoveOriginal \/ JournalMoved \/ Settle
  \/ CreateBase \/ FillBase \/ JournalWritten \/ CheckWritten
  \/ WriteIndex \/ ReadIndex \/ JournalIndex \/ Recheck \/ CommitJournal \/ Flush
Undo ==
  \/ Throw \/ Retain \/ RollbackCheck \/ RestoreIndex \/ RemoveWritten
  \/ FindVacant \/ RestoreOriginal \/ Conclude \/ ConcludeFails

Next == Transact \/ Undo \/ Resume \/ Crash \/ Edit

Spec == Init /\ [][Next]_vars

\* The host runs its continuations, every activation resumes what is pending, and a journal
\* that can be written in the end is written.
FairSpec == Spec /\ WF_vars(Transact \/ Undo) /\ WF_vars(Resume) /\ SF_vars(Conclude)

-----------------------------------------------------------------------------
(* What the transaction promises. *)

\* What the user had at a path is at the path or in recovery at every step of a transaction,
\* a rollback and a resume, through crashes, failing steps and changes from outside
\* (recovery.ts:337, 610-624).
OriginalKept ==
  \A p \in Path : original[p].target = "mine" => "mine" \in {target[p], recovery[p]}

\* Whenever the transaction is over or interrupted, a file in recovery is named by a journal:
\* the plan is durable before the move (recovery.ts:300-304, 429-481).
NoOrphanedRecovery ==
  pc = "idle" => {p \in Path : recovery[p] # "absent"} \subseteq Named

\* A deleted journal means nothing happened: each path nobody else touched, and its index entry,
\* are as they were, whichever of the two rollbacks ran and wherever it started (recovery.ts:252-260,
\* 178-193).
DeletedMeansUndone ==
  pc = "idle" /\ journal = None =>
    \A p \in Path \ touched :
      target[p] = original[p].target /\ index[p] = original[p].index /\ recovery[p] = "absent"

\* A shelved journal means everything happened: each path nobody else touched and its index entry
\* are the base's, and what was there is in recovery (recovery.ts:300-314,
\* 414-427).
ShelvedMeansDone ==
  journal # None /\ journal.state = "shelved" =>
    \A p \in Path \ touched :
      /\ target[p] = IF inBase[p] THEN "base" ELSE "absent"
      /\ index[p] = "base" /\ recovery[p] = original[p].target

\* What has been committed is never rolled back, by this process or a later one (recovery.ts:173,
\* 251; tests/unit/shelf/recovery.test.ts:143, :632).
CommittedStays ==
  [][journal # None /\ journal.state = "shelved" =>
       journal' = journal /\ recovery' = recovery]_vars
=============================================================================
