------------------------------- MODULE Shelving -------------------------------
(* Shelving, from the store to the files: the shelves of a repository as several  *)
(* windows write them, which extends here, the transaction that takes the user's  *)
(* files out of the worktree, and the merge sessions on what no longer applies;   *)
(* beside them the squash, which sets local changes aside in a git stash, and the *)
(* commit of checked files, which sets the others aside in a copy of the index.   *)
(* What they promise is stated here, of the component a behaviour is of.          *)
EXTENDS ShelfService

CONSTANTS
  MaxFiles, MaxEdits, MaxCrashes, \* bounds of a transaction: see ShelfReverter
  Conflicting, MaxVersions, MaxGenerations, \* of the conflicts: see ShelfConflictSession
  MaxSquashOutside, MaxCommitOutside \* bounds: what editor and terminal do to either

VARIABLES
  part,
  fileCount, inBase, target, revertRecovery, index, headMoved, revertJournal, revertPc, at, entry,
  moved, expectedIndex, todo, retained, revertResuming, edits, crashes, original, revertTouched,
  saved, versions, generation, applied, session, parked, slipped,
  head, staged, worktree, stash, squashPc, previousOid, automaticStash, softResetApplied,
  squashSucceeded, stashRef, told, before, taken, outside, troubles,
  request, names, clicked, commitPaths, hasCaseOnlyRename, stagedButUncheckedPaths,
  commitHead, commitIndex, commitWork, merging, indexLock, lockSeen, commitPc, pathsToStage, whole,
  snapshot, attempt, failed, copied, draft, wanted, late, overwritten, commitMade

\* A transaction, which can flush its journal's directory.
Reverter == INSTANCE ShelfReverter WITH
  FlushFails <- FALSE, recovery <- revertRecovery, journal <- revertJournal, pc <- revertPc,
  resuming <- revertResuming, touched <- revertTouched

Conflicts == INSTANCE ShelfConflictSession WITH Entry <- Conflicting

Squash == INSTANCE SquashCommits WITH
  Old <- "old", MaxOutside <- MaxSquashOutside, local <- worktree, pc <- squashPc

PanelCommits == INSTANCE PanelCommit WITH
  Absent <- None, MaxOutside <- MaxCommitOutside, head <- commitHead, index <- commitIndex,
  work <- commitWork, lock <- indexLock, pc <- commitPc, made <- commitMade

\* None is neither an entry of a transaction nor the progress of one, nor a journal of any number
\* of files,
ASSUME ReverterAssumption ==
  /\ None \notin Reverter!MovedPath \cup Reverter!Progress
  /\ \A n \in 1..MaxFiles : None \notin
       [state : {"shelvePendingRevert", "shelved", "ghost"},
        pathProgress : [1..n -> Reverter!Progress \cup {None}]]
  /\ MaxFiles \in Nat /\ MaxEdits \in Nat /\ MaxCrashes \in Nat

ASSUME ConflictsAssumption == MaxVersions \in Nat /\ MaxGenerations \in Nat \ {0}

\* nor an entry of the stash, which holds the user's own beside the changes,
ASSUME SquashAssumption ==
  /\ "old" \notin Change /\ None \notin [id : Nat, holds : SUBSET (Change \cup {"old"})]

\* nor the contents of a path, a tree or a commit.
ASSUME CommitsAssumption ==
  /\ None \notin {"base", "a", "b", "staged", "work", "later"} /\ None \notin PanelCommits!Tree
  /\ None \notin {"nothing", "committed", "not pushed", "not restored", "failed"}
  /\ None \notin [before : PanelCommits!Tree, after : PanelCommits!Tree, merge : BOOLEAN,
                  bare : BOOLEAN, wanted : PanelCommits!Tree]

-----------------------------------------------------------------------------
(* What shelving promises. *)

\* Whatever step of a transaction fails and wherever the process dies, what the user had is at its
\* path or in a recovery copy some journal names; a journal deleted means nothing happened, one
\* marked shelved means everything did (recovery.ts:168-207, 251-314, 414-481, 610-624).
RevertStands ==
  part = "files" =>
    /\ Reverter!TypeOK /\ Reverter!OriginalKept /\ Reverter!NoOrphanedRecovery
    /\ Reverter!DeletedMeansUndone /\ Reverter!ShelvedMeansDone

\* A shelf nobody deletes can be read at every moment, whatever write was cut short; the catalog
\* lists what is on disk, and a request submitted again is carried out once, unless something went
\* wrong (store.ts:237-270, 389-424, 569-577).
StoreReadable == TypeOK /\ CurrentIsReadable /\ CatalogMatches /\ TokenOnce

\* A squash loses no change its stash took and nothing the user had stashed, whatever fails and
\* whatever a terminal does, and says how it ended (commitHistoryActions.ts:632-720, 767-863).  A
\* commit from the panel holds what was checked and nothing else, leaves the rest staged as it was,
\* and takes its message from the panel only if it was made (commitPanelActions.ts:565-703;
\* operations.ts:1004-1111).
CommitsKeepChanges ==
  /\ part = "squash" => Squash!TypeOK /\ Squash!TakenIsKept /\ Squash!EndsWhole
  /\ part = "commit" =>
       /\ PanelCommits!TypeOK /\ PanelCommits!CommitsWhatWasChecked
       /\ PanelCommits!UncheckedStaysStaged /\ PanelCommits!DraftFollowsCommit

\* What is on record stands: a committed transaction is never rolled back (recovery.ts:173, 251),
\* a written generation never changes and the pointer only advances (store.ts:237-270), and an
\* entry is recorded as applied only when it was (shelfService.ts:194-216).
RecordsStand == Reverter!CommittedStays /\ GenerationsStand /\ GhostsWereApplied

\* A resolution overwrites only what its session showed or what was parked first, but for the
\* reads nothing repeats, and takes back no other entry's (shelfConflictSession.ts:158-160,
\* 270-308, 366-396).
ResolutionsAreFenced ==
  /\ []Conflicts!TypeOK
  /\ Conflicts!OverwritesWhatWasSeen /\ Conflicts!OverriddenIsParked /\ Conflicts!ResolvedStays

\* Again and again no transaction and no shelf's journal is pending: a resume settles all of them
\* (recovery.ts:168-207, repositoryMode.ts:167).
EveryShelvingSettles == []<>(~Reverter!Pending /\ Pending = {})

=============================================================================
