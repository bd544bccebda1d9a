----------------------------- MODULE PanelCommit -----------------------------
(* A commit from the Changes panel (views/commitPanelActions.ts over git/operations.ts). *)
(* The checked files are staged and committed alone, with git commit --only; where git   *)
(* cannot do that (a merge, a rename that differs in case alone) the index is committed, *)
(* in the second case after what is staged but unchecked was taken out of it, and then   *)
(* the index is put back from a copy.  A push may follow.  Each step is a command of its *)
(* own, so an editor, a terminal and a git status of anybody's come in between.          *)
EXTENDS Naturals

CONSTANTS
  Absent, None,             \* a path without a file; nothing yet
  MaxTroubles, MaxOutside   \* bounds: failures and a crash; what editor and terminal do

VARIABLES
  request, names,               \* what was clicked; how the names of a renamed file differ
  head, index, work, merging,   \* the contents of the paths, and whether a merge is going on
  lock, lockSeen,               \* index.lock, and the index its other holder may write
  pc, commitPaths, hasCaseOnlyRename, stagedButUncheckedPaths, pathsToStage, whole,
  snapshot, attempt, failed,    \* of withIndexSnapshot
  draft, told,
  clicked, wanted, made, late, overwritten, copied,   \* history
  outside, troubles

repository == <<head, index, work, merging, lock, lockSeen>>
chosen == <<request, names, clicked, commitPaths, hasCaseOnlyRename, stagedButUncheckedPaths>>
restoring == <<snapshot, attempt, failed, copied>>
reply == <<draft, told>>
history == <<wanted, late, overwritten>>
vars == <<repository, pc, chosen, pathsToStage, whole, restoring, reply, history, made, outside, troubles>>

\* "new" is what can be checked, "old" its name before; "from" that of "other", which never is.
Path == {"new", "old", "other", "from"}
Content == {Absent, "base", "a", "b", "staged", "work", "later"}
Tree == [Path -> Content]

TypeOK ==
  /\ head \in Tree /\ index \in Tree /\ work \in Tree /\ lockSeen \in Tree
  /\ commitPaths \subseteq Path /\ (stagedButUncheckedPaths # {} => hasCaseOnlyRename)
  /\ lock \in {"free", "own", "theirs"} /\ attempt \in 0..2
  /\ told \in {None, "committed", "not pushed", "not restored", "failed", "nothing"}

-----------------------------------------------------------------------------
\* What stands at a path, for git and for the editor, and under which name git takes it into a tree:
\* where the file system ignores case both names are one file, and git keeps the one it has.
Disk(p) == IF names = "folded" /\ p = "old" THEN work["new"] ELSE work[p]
Entry(tree, p) ==
  IF names = "folded" /\ p \in {"new", "old"} /\ tree[p] = Absent
    THEN CHOOSE q \in {"new", "old"} : tree[q] # Absent \/ tree["new"] = tree["old"]
    ELSE p
Taken(tree, paths) ==
  LET taken == {Entry(tree, p) : p \in paths}
  IN  [p \in Path |-> IF p \in taken THEN Disk(p) ELSE tree[p]]

\* Changed (or deleted, or staged), or renamed as git mv leaves it; what is unchecked is as
\* committed, staged and changed again, or renamed.
CheckedFiles ==
  [head : {[new |-> "base", old |-> Absent]}, index : {[new |-> c, old |-> Absent] : c \in {"base", "staged", Absent}},
   work : {[new |-> c, old |-> Absent] : c \in {"work", Absent}}, names : {"apart"}]
  \cup
  [head : {[new |-> Absent, old |-> "a"]}, index : {[new |-> "a", old |-> Absent]},
   work : {[new |-> c, old |-> Absent] : c \in {"a", "work"}}, names : {"apart", "case", "folded"}]

UncheckedFiles ==
  {LET tree(c, d) == [other |-> c, from |-> d]
   IN  [head |-> tree(f[1], f[4]), index |-> tree(f[2], Absent), work |-> tree(f[3], Absent)] :
     f \in {<<"base", "base", "base", Absent>>, <<"base", "staged", "work", Absent>>,
            <<Absent, "b", "b", "b">>}}

Request ==
  [kind : {"selected"}, paths : {{"new"}}, amend : BOOLEAN, push : BOOLEAN]
  \cup [kind : {"selected"}, paths : {{}}, amend : {TRUE}, push : BOOLEAN]
  \cup [kind : {"staged"}, paths : {{}}, amend : BOOLEAN, push : BOOLEAN]

\* What is refused with a warning, no message or no files, is not begun.
Init ==
  /\ request \in Request
  /\ \E c \in CheckedFiles, u \in UncheckedFiles :
       LET both(one, two) == [p \in Path |-> IF p \in DOMAIN one THEN one[p] ELSE two[p]]
       IN  /\ head = both(c.head, u.head) /\ index = both(c.index, u.index)
           /\ work = both(c.work, u.work) /\ names = c.names
  /\ merging \in BOOLEAN /\ (merging => index["other"] = "staged")
  /\ lock = "free" /\ lockSeen = index
  /\ pc = IF request.kind = "selected" THEN "status" ELSE "commit"
  /\ commitPaths = {} /\ hasCaseOnlyRename = FALSE /\ stagedButUncheckedPaths = {}
  /\ pathsToStage = {} /\ whole = FALSE
  /\ snapshot = None /\ attempt = 0 /\ failed = FALSE
  /\ draft = "typed" /\ told = None
  /\ clicked = Disk("new") /\ wanted = index /\ made = None
  /\ late = FALSE /\ overwritten = FALSE /\ copied = FALSE
  /\ outside = 0 /\ troubles = 0

Trouble == troubles < MaxTroubles /\ troubles' = troubles + 1
Goto(next) == pc' = next /\ UNCHANGED reply
End(message) == pc' = "over" /\ told' = message /\ UNCHANGED draft

\* postCommitted clears the draft, whatever became of the push.
Post(message) == pc' = "over" /\ told' = message /\ draft' = "cleared"
AfterCommit == IF request.push THEN Goto("branches") ELSE Post("committed")

-----------------------------------------------------------------------------
(* What is committed, and staging it. *)

\* git status pairs a staged deletion with a staged addition of its content.
Renamed(p, source) ==
  /\ index[p] # Absent /\ head[p] = Absent /\ index[source] = Absent /\ head[source] = index[p]

WithSources(paths) == paths \cup {source \in Path : \E p \in paths : Renamed(p, source)}
Staged == {p \in Path : index[p] # head[p] /\ ~\E q \in Path : Renamed(q, p)}

\* Mutant: of a staged rename only the new name is taken out of the index.
StagedButUncheckedWithoutSources(paths) == Staged \ paths

StagedButUnchecked(paths) == WithSources(Staged \ paths)

Status ==
  /\ pc = "status"
  /\ \/ /\ commitPaths' = WithSources(request.paths)
        /\ hasCaseOnlyRename' = (names # "apart" /\ commitPaths' # request.paths)
        /\ stagedButUncheckedPaths' =
             IF hasCaseOnlyRename' THEN StagedButUnchecked(commitPaths') ELSE {}
        /\ Goto(IF commitPaths' = {} THEN "marker" ELSE "exclude") /\ UNCHANGED troubles
     \/ Trouble /\ End("failed")
          /\ UNCHANGED <<commitPaths, hasCaseOnlyRename, stagedButUncheckedPaths>>
  /\ UNCHANGED <<repository, request, names, clicked, pathsToStage, whole, restoring, history, made, outside>>

AfterStaging == IF hasCaseOnlyRename THEN "snapshot" ELSE "marker"

AlreadyStagedDeleted == {p \in Path : index[p] = Absent /\ head[p] # Absent}

\* git add fails on what is neither in the index nor on disk.
Exclude ==
  /\ pc = "exclude"
  /\ \/ /\ pathsToStage' = commitPaths \ AlreadyStagedDeleted
        /\ Goto(IF pathsToStage' = {} THEN AfterStaging ELSE "add") /\ UNCHANGED troubles
     \/ Trouble /\ End("failed") /\ UNCHANGED pathsToStage
  /\ UNCHANGED <<repository, chosen, whole, restoring, history, made, outside>>

CanStage == lock = "free" /\ \A p \in pathsToStage : index[p] # Absent \/ Disk(p) # Absent

StageFiles ==
  /\ pc = "add"
  /\ \/ CanStage /\ index' = Taken(index, pathsToStage) /\ Goto(AfterStaging) /\ UNCHANGED troubles
     \/ (IF CanStage THEN Trouble ELSE UNCHANGED troubles) /\ End("failed") /\ UNCHANGED index
  /\ UNCHANGED <<head, work, merging, lock, lockSeen, chosen, pathsToStage, whole, restoring,
                 history, made, outside>>

-----------------------------------------------------------------------------
(* The commit, and the index around it. *)

hasWholeIndexOperationInProgress ==
  /\ pc = "marker"
  /\ \/ whole' = merging /\ Goto("commit") /\ UNCHANGED troubles
     \/ Trouble /\ End("failed") /\ UNCHANGED whole
  /\ UNCHANGED <<repository, chosen, pathsToStage, restoring, history, made, outside>>

\* With hasCaseOnlyRename and from the native input no paths are passed.
Bare == request.kind = "staged" \/ hasCaseOnlyRename \/ whole
Committed == IF Bare THEN index ELSE Taken(head, commitPaths)

\* Git commits no part of a merge nor amends one, nothing when nothing changed, and no path it
\* has never heard of.
CanCommit ==
  /\ lock = "free"
  /\ IF merging THEN Bare /\ ~request.amend ELSE request.amend \/ Committed # head
  /\ Bare \/ \A p \in commitPaths : index[p] # Absent \/ head[p] # Absent

Commit ==
  /\ pc = "commit"
  /\ \/ /\ CanCommit
        /\ head' = Committed /\ merging' = FALSE
        /\ index' = IF Bare THEN index ELSE Taken(index, commitPaths)
        /\ made' = [before |-> head, after |-> Committed, merge |-> merging, bare |-> Bare, wanted |-> wanted]
        /\ (IF hasCaseOnlyRename THEN Goto("read") ELSE AfterCommit)
        /\ UNCHANGED <<failed, troubles>>
     \/ /\ IF CanCommit THEN Trouble ELSE UNCHANGED troubles
        /\ (IF hasCaseOnlyRename THEN Goto("read") ELSE End("failed"))
        /\ failed' = TRUE /\ UNCHANGED <<head, index, merging, made>>
  /\ UNCHANGED <<work, lock, lockSeen, chosen, pathsToStage, whole, snapshot, attempt, copied,
                 history, outside>>

\* The copy of the index needs no lock.
TakeSnapshot ==
  /\ pc = "snapshot"
  /\ \/ /\ snapshot' = index /\ UNCHANGED troubles
        /\ Goto(IF stagedButUncheckedPaths = {} THEN "commit" ELSE "unstage")
     \/ Trouble /\ End("failed") /\ UNCHANGED snapshot
  /\ UNCHANGED <<repository, chosen, pathsToStage, whole, attempt, failed, copied, history, made, outside>>

UnstageFiles ==
  /\ pc = "unstage"
  /\ \/ /\ lock = "free" /\ Goto("commit") /\ UNCHANGED <<failed, troubles>>
        /\ index' = [p \in Path |-> IF p \in stagedButUncheckedPaths THEN head[p] ELSE index[p]]
     \/ /\ IF lock = "free" THEN Trouble ELSE UNCHANGED troubles
        /\ failed' = TRUE /\ Goto("read") /\ UNCHANGED index
  /\ UNCHANGED <<head, work, merging, lock, lockSeen, chosen, pathsToStage, whole, snapshot,
                 attempt, copied, history, made, outside>>

\* The operation's failure is thrown after the index is back.
Restored == IF failed THEN End("failed") ELSE AfterCommit

ReadSnapshot ==
  /\ pc = "read"
  /\ \/ Goto("lock") /\ UNCHANGED troubles
     \/ Trouble /\ End("not restored")
  /\ UNCHANGED <<repository, chosen, pathsToStage, whole, restoring, history, made, outside>>

\* A lock of somebody else's is waited for twice, then the index is overwritten beside it.  A write
\* that fails may leave the lock.
LockIndex ==
  /\ pc = "lock"
  /\ \/ /\ lock = "free" /\ lock' = "own" /\ Goto("rename")
        /\ UNCHANGED <<index, attempt, copied, troubles>>
     \/ /\ lock = "free" /\ lock' \in {"free", "own"} /\ Trouble /\ End("not restored")
        /\ UNCHANGED <<index, attempt, copied>>
     \/ /\ lock = "theirs" /\ attempt < 2 /\ attempt' = attempt + 1
        /\ UNCHANGED <<index, lock, pc, reply, copied, troubles>>
     \/ /\ lock = "theirs" /\ attempt = 2 /\ index' = snapshot /\ copied' = TRUE
        /\ Restored /\ UNCHANGED <<lock, attempt, troubles>>
  /\ UNCHANGED <<head, work, merging, lockSeen, chosen, pathsToStage, whole, snapshot, failed,
                 history, made, outside>>

RenameIndex ==
  /\ pc = "rename" /\ lock' = "free"
  /\ \/ index' = snapshot /\ Restored /\ UNCHANGED troubles
     \/ Trouble /\ End("not restored") /\ UNCHANGED index
  /\ UNCHANGED <<head, work, merging, lockSeen, chosen, pathsToStage, whole, restoring, history,
                 made, outside>>

-----------------------------------------------------------------------------
(* The push. *)

Push ==
  /\ \/ pc = "branches" /\ \E next \in {"publish", "push"} : Goto(next) /\ UNCHANGED troubles
     \/ pc \in {"publish", "push", "again"} /\ Post("committed") /\ UNCHANGED troubles
     \/ pc \in {"branches", "publish", "push", "again"} /\ Trouble /\ Post("not pushed")
     \/ pc = "push" /\ Trouble /\ Goto("rebase")
  /\ UNCHANGED <<repository, chosen, pathsToStage, whole, restoring, history, made, outside>>

\* Rejected, and the user wants it rebased, which git refuses with local changes and which may stop
\* at a conflict.
CanRebase == lock = "free" /\ ~merging /\ head = index /\ \A p \in Path : Disk(p) = index[p]

Rebase ==
  /\ pc = "rebase"
  /\ \/ CanRebase /\ Goto("again") /\ UNCHANGED merging
     \/ CanRebase /\ merging' = TRUE /\ Post("not pushed")
     \/ ~CanRebase /\ Post("not pushed") /\ UNCHANGED merging
  /\ UNCHANGED <<head, index, work, lock, lockSeen, chosen, pathsToStage, whole, restoring,
                 history, made, outside, troubles>>

Crash ==
  /\ pc # "over" /\ Trouble /\ End("nothing")
  /\ UNCHANGED <<repository, chosen, pathsToStage, whole, restoring, history, made, outside>>

-----------------------------------------------------------------------------
(* Everybody else. *)

\* What the outside has written to the index is what the user wants there.
Wants(tree) ==
  /\ index' = tree /\ wanted' = tree
  /\ late' = (late \/ pc # "status")
  /\ overwritten' =
       (overwritten \/ (hasCaseOnlyRename /\ pc \in {"unstage", "commit", "read", "lock"}))

\* A terminal stages, unstages or commits.
Terminal ==
  /\ lock = "free"
  /\ \/ Wants(Taken(index, {"other"})) /\ UNCHANGED <<head, merging>>
     \/ Wants([index EXCEPT !["other"] = head["other"]]) /\ UNCHANGED <<head, merging>>
     \/ (index # head \/ merging) /\ head' = index /\ merging' = FALSE /\ Wants(index)
  /\ UNCHANGED <<work, lock, lockSeen>>

Save ==
  /\ \E p \in {"new", "other"} : work' = [work EXCEPT ![p] = "later"]
  /\ UNCHANGED <<head, index, merging, lock, lockSeen, history>>

\* A git status holds the lock to write the index it read, refreshed, if that is still the index.
Hold ==
  /\ lock = "free" /\ lock' = "theirs" /\ lockSeen' = index
  /\ UNCHANGED <<head, index, work, merging, history>>

Outside ==
  /\ pc # "over" /\ outside < MaxOutside /\ outside' = outside + 1
  /\ Terminal \/ Save \/ Hold
  /\ UNCHANGED <<pc, chosen, pathsToStage, whole, restoring, reply, made, troubles>>

Release ==
  /\ lock = "theirs" /\ lock' = "free" /\ index' \in {index, lockSeen}
  /\ UNCHANGED <<head, work, merging, lockSeen, pc, chosen, pathsToStage, whole, restoring, reply,
                 history, made, outside, troubles>>

Next ==
  \/ Status \/ Exclude \/ StageFiles \/ hasWholeIndexOperationInProgress \/ Commit
  \/ TakeSnapshot \/ UnstageFiles \/ ReadSnapshot \/ LockIndex \/ RenameIndex
  \/ Push \/ Rebase \/ Crash \/ Outside \/ Release

Spec == Init /\ [][Next]_vars

-----------------------------------------------------------------------------
\* A commit of checked files holds these as they are on disk, a renamed one under its new name
\* alone, and of all others nothing, whatever is staged, whatever fails and whatever case the file
\* system ignores.  One that ends a merge holds what is staged of the others, but for the merge
\* with a rename in case alone; and whoever stages while the index is committed is committed with
\* it (commitPanelActions.ts:581-632, operations.ts:1101-1111).
CommitsWhatWasChecked ==
  made # None /\ request.kind = "selected" =>
    /\ \A p \in Path \ commitPaths :
         \/ made.after[p] = IF made.merge THEN made.wanted[p] ELSE made.before[p]
         \/ late /\ made.bare
         \/ made.merge /\ hasCaseOnlyRename
    /\ \A p \in request.paths :
         /\ \/ made.after[p] \in {clicked, "later"}
            \/ made.bare /\ made.after[p] = Absent /\ made.wanted[p] = Absent
         /\ made.after["old"] = Absent

\* Not so: a commit that ends a merge holds what is staged, and a deletion staged beside the file is
\* committed when it is checked.
MergesAreWhole ==
  made # None /\ made.merge => \A p \in Path \ commitPaths : made.after[p] = made.wanted[p]
DeletionsAreCommitted ==
  made # None /\ ~late => \A p \in request.paths : made.wanted[p] = Absent => made.after[p] = Absent

\* What is staged of the unchecked files stays staged, at every moment when the commit names its
\* paths and otherwise at its end, also when it failed; only what is staged while the copy is out
\* goes with it, and only beside a lock held too long may the copy be lost (operations.ts:1004-1095).
UncheckedStaysStaged ==
  \/ hasCaseOnlyRename /\ (told \in {None, "nothing", "not restored"} \/ overwritten \/ copied)
  \/ \A p \in Path \ commitPaths : index[p] = wanted[p]

\* The draft is cleared when the commit was made, whatever became of its push, and kept when it was
\* not (commitPanelActions.ts:565-703).
DraftFollowsCommit ==
  /\ draft = "cleared" <=> told \in {"committed", "not pushed"}
  /\ draft = "cleared" => made # None
  /\ told = "failed" => made = None

=============================================================================
