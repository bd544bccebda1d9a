------------------------------ MODULE MCShelving ------------------------------
(* The components of Shelving, and the merge editor, which the sessions share     *)
(* with the conflicts of git.  TLC explores, side by side: "shelves", two shelves *)
(* of one change; "entries", one shelf of two changes and more trouble; "files",  *)
(* a transaction of two files, or of one that changes meanwhile; "conflicts";     *)
(* "squash"; "merges", three texts of a kind; "panel"; "commit".                  *)
EXTENDS Shelving

CONSTANTS
  Second, \* the change that only "entries" uses
  Later   \* the window that opens only while the other recovers

VARIABLES
  texts, chosen,
  activeRoot, conflicted, writer, open, shown, error, loads, panelOp, overtaken, switches, failures

revertVars ==
  <<fileCount, inBase, target, revertRecovery, index, headMoved, revertJournal, revertPc, at, entry,
    moved, expectedIndex, todo, retained, revertResuming, edits, crashes, original, revertTouched>>
conflictVars == <<saved, versions, generation, applied, session, parked, slipped>>
squashVars ==
  <<head, staged, worktree, stash, squashPc, previousOid, automaticStash, softResetApplied,
    squashSucceeded, stashRef, before, taken>>
mergeVars == <<texts, chosen>>
panelVars ==
  <<activeRoot, conflicted, writer, open, shown, error, loads, panelOp, overtaken, switches, failures>>
commitVars ==
  <<request, names, clicked, commitPaths, hasCaseOnlyRename, stagedButUncheckedPaths, commitHead,
    commitIndex, commitWork, merging, indexLock, lockSeen, commitPc, pathsToStage, whole, snapshot,
    attempt, failed, copied, draft, wanted, late, overwritten, commitMade>>
\* Of the squash and of the commit.
endVars == <<told, outside, troubles>>

\* How much the tokens of the texts say; the bracket alone says too little to be an anchor.
MCWidth ==
  [token \in {"A", "B", "x", "y", "z", ")", " ", "  "} |->
     IF token \in {" ", "  "} THEN 0 ELSE IF token = ")" THEN 1 ELSE 4]

\* The common subsequences are the longest, or the greedy ones of what is too large for these.
Merge == INSTANCE ThreeWayMerge WITH
  Width <- MCWidth, UNIMPORTANT_LINE_CHAR_COUNT <- 3, MAX_ANCHOR_WEIGHT <- 20,
  MAX_LCS_CELLS <- 100, MaxTokenCells <- 100

Greedy == INSTANCE ThreeWayMerge WITH
  Width <- MCWidth, UNIMPORTANT_LINE_CHAR_COUNT <- 3, MAX_ANCHOR_WEIGHT <- 20,
  MAX_LCS_CELLS <- 3, MaxTokenCells <- 5

MergePanel == INSTANCE MergeEditorPanel WITH
  Root <- {"r1", "r2"}, MaxSwitches <- 1, MaxFailures <- 1, op <- panelOp

\* The texts of up to n lines of a set.
TextsOf(lines, n) == UNION {[1..k -> lines] : k \in 0..n}

\* Texts of a few lines; of one line of a few words; of lines that differ in white space; and of
\* more lines than most, which only ours changes.
Texts ==
  [few |-> TextsOf({<<"A">>, <<"B">>, <<")">>}, 3),
   words |-> TextsOf({<<>>, <<"x">>, <<"x", " ", "y">>, <<"z", " ", "y">>, <<"x", " ", "z">>,
                      <<"z", " ", "x", " ", "y">>, <<"x", " ", "y", " ", "z">>, <<"x", ")", "y">>,
                      <<"x", " ", "z", " ", "y">>, <<")", "y">>, <<"x", " ", "y", ")">>,
                      <<"x", "  ", "y">>, <<" ", "x", " ", "y">>}, 1),
   white |-> TextsOf({<<"A">>, <<" ", "A">>, <<")">>, <<>>}, 2),
   long |-> TextsOf({<<"A">>, <<")">>, <<>>}, 4)]

MergeInit ==
  /\ texts \in [kind : DOMAIN Texts, ignoreWhitespace : BOOLEAN, base : {<<>>}, ours : {<<>>},
                theirs : {<<>>}]
  /\ texts.ignoreWhitespace => texts.kind \in {"words", "white"}
  /\ chosen = "nothing"

MergeNext ==
  \/ /\ chosen = "nothing" /\ chosen' = "base"
     /\ \E base \in Texts[texts.kind] : texts' = [texts EXCEPT !.base = base]
  \/ /\ chosen = "base" /\ chosen' = "sides"
     /\ \E ours, theirs \in Texts[texts.kind] :
          /\ texts.kind = "long" => theirs = texts.base
          /\ texts' = [texts EXCEPT !.ours = ours, !.theirs = theirs]

ShelvingInit ==
  /\ part \in {"shelves", "entries", "files", "conflicts", "squash", "merges", "panel",
              "commit"}
  /\ Init
  /\ Reverter!Init
  /\ part # "files" =>
       fileCount = 1 /\ inBase[1] = TRUE /\ target[1] = "mine" /\ index[1] = "base"
  /\ Conflicts!Init
  /\ Squash!Init
  /\ part # "squash" => worktree = {}
  /\ MergeInit /\ (part # "merges" => texts.kind = "few")
  /\ MergePanel!Init /\ (part # "panel" => activeRoot = "r1")
  /\ PanelCommits!Init
  /\ part # "commit" =>
       /\ request = [kind |-> "staged", paths |-> {}, amend |-> FALSE, push |-> FALSE]
       /\ commitIndex = commitHead /\ commitWork["new"] = "work"

\* The bounds of the two scenarios of the store, which share its variables; nothing is only
\* saved to a shelf in "shelves".  Windows are interchangeable: of two that do not recover, the
\* one to do so first is always the same.
Bounds ==
  /\ part = "shelves" =>
       /\ Cardinality(wrong') <= 1
       /\ local'[Second] = local[Second]
       /\ op' # Idle => Second \notin op'.todo /\ op'.kind # "save"
  /\ part = "entries" => used' <= 1 /\ (op' # Idle => op'.token = None)
  /\ (\A w \in Window : resuming[w] = AtRest) => resuming'[Later] = AtRest

Of(component) == part = component /\ UNCHANGED part

Store == (part = "shelves" \/ part = "entries") /\ UNCHANGED part

ShelvingNext ==
  \/ /\ Store /\ Next /\ Bounds
     /\ UNCHANGED <<revertVars, conflictVars, squashVars, mergeVars, panelVars, commitVars, endVars>>
  \/ /\ Of("files") /\ Reverter!Next /\ (fileCount > 1 => edits' = edits)
     /\ UNCHANGED <<shelfVars, conflictVars, squashVars, mergeVars, panelVars, commitVars, endVars>>
  \/ /\ Of("conflicts") /\ Conflicts!Next
     /\ UNCHANGED <<shelfVars, revertVars, squashVars, mergeVars, panelVars, commitVars, endVars>>
  \/ /\ Of("squash") /\ Squash!Next
     /\ UNCHANGED <<shelfVars, revertVars, conflictVars, mergeVars, panelVars, commitVars>>
  \/ /\ Of("merges") /\ MergeNext
     /\ UNCHANGED <<shelfVars, revertVars, conflictVars, squashVars, panelVars, commitVars, endVars>>
  \/ /\ Of("panel") /\ MergePanel!Next
     /\ UNCHANGED <<shelfVars, revertVars, conflictVars, squashVars, mergeVars, commitVars, endVars>>
  \/ /\ Of("commit") /\ PanelCommits!Next
     /\ UNCHANGED <<shelfVars, revertVars, conflictVars, squashVars, mergeVars, panelVars>>

\* The fairness each component states, while the behaviour is of it; of the windows, it is enough
\* that one is opened again.
ShelvingFairSpec ==
  /\ ShelvingInit
  /\ [][ShelvingNext]_<<part, shelfVars, revertVars, conflictVars, squashVars, mergeVars, panelVars,
                       commitVars, endVars>>
  /\ WF_shelfVars(Store /\ Work)
  /\ SF_shelfVars(Store /\ \E w \in Window : Activate(w))
  /\ WF_revertVars(Of("files") /\ (Reverter!Transact \/ Reverter!Undo))
  /\ WF_revertVars(Of("files") /\ Reverter!Resume) /\ SF_revertVars(Of("files") /\ Reverter!Conclude)

-----------------------------------------------------------------------------
(* What shelving promises. *)

\* Of what the longest common subsequences make of three texts, and of them with the sides swapped.
ExactIsSound(segments, swapped, base, ours, theirs, white) ==
  /\ Merge!SidesComeBack(segments, ours, theirs, white)
  /\ Merge!UnchangedGivesWay(segments, base, ours, theirs, white)
  /\ Merge!NothingIsDropped(segments, base, ours, theirs)
  /\ Merge!BothEditsAreMade(segments, white)
  /\ ~white => Merge!SidesAreEqual(segments, swapped)
                 /\ Merge!SeparateChangesMerge(segments, base, ours, theirs)

\* Of what the greedy ones make of them.
GreedyIsSound(segments, base, ours, theirs, white) ==
  /\ Greedy!SidesComeBack(segments, ours, theirs, white)
  /\ Greedy!UnchangedGivesWay(segments, base, ours, theirs, white)
  /\ Greedy!NothingIsDropped(segments, base, ours, theirs)
  /\ Greedy!BothEditsAreMade(segments, white)

MergeIsSound(base, ours, theirs, white) ==
  /\ ExactIsSound(Merge!parseConflictVersions(base, ours, theirs, white),
                  Merge!parseConflictVersions(base, theirs, ours, white), base, ours, theirs, white)
  /\ texts.kind # "few" =>
       GreedyIsSound(Greedy!parseConflictVersions(base, ours, theirs, white), base, ours, theirs, white)

\* The merge editor loses no line of either side, proposes what one side changed or both did apart,
\* drops no word that was added, and favours no side, long texts and white space included; and a
\* conflict its panel resolved is no longer shown (conflictParser.ts:83-381; lineDiff.ts:72-494;
\* autoMerge.ts:26-137; MergeEditorPanel.ts:211-251).
MergesAreSound ==
  /\ part = "panel" => MergePanel!TypeOK /\ MergePanel!ResolvedIsGone
  /\ chosen = "sides" => MergeIsSound(texts.base, texts.ours, texts.theirs, texts.ignoreWhitespace)

=============================================================================
