---------------------------- MODULE SquashCommits ----------------------------
(* The squash of a range of commits through HEAD (commands/commitHistoryActions.ts):   *)
(* under the gate local changes go to an automatic stash, a soft reset and a commit    *)
(* replace the range, and the stash is applied and dropped; what fails is rolled back. *)
(* Any git command may fail, and the window may die between two.  The gate keeps other *)
(* commands of IntelliGit out, but neither an editor that saves nor a terminal.        *)
(*                                                                                     *)
(* What comes before changes nothing and is left out, but for the HEAD it pinned.      *)
EXTENDS Naturals, Sequences

CONSTANTS
  Change,        \* local changes, saved or to be saved
  Old, None,     \* what a stash of the user's holds; nothing
  MaxTroubles, MaxOutside   \* bounds: failures and a crash; what editor and terminal do

VARIABLES
  head, staged,        \* HEAD; whether the range is staged
  local,               \* changes in the working tree
  stash,               \* entries, the newest first
  pc, previousOid, automaticStash, softResetApplied, squashSucceeded, stashRef,
  told,                \* how the squash ended, as the user is told
  before, taken,       \* history: the changes it found, and what its stash took
  outside, troubles

repository == <<head, staged, local, stash>>
locals == <<previousOid, automaticStash, softResetApplied, squashSucceeded, stashRef>>
vars == <<repository, pc, locals, told, before, taken, outside, troubles>>

Tip == IF stash = <<>> THEN None ELSE stash[1]
Kept == local \cup UNION {stash[i].holds : i \in DOMAIN stash}

TypeOK ==
  /\ head \in {"start", "parent", "squashed", "theirs"} /\ staged \in BOOLEAN
  /\ local \subseteq Change \cup {Old} /\ before \subseteq Change /\ taken \subseteq Change
  /\ \A i, j \in DOMAIN stash : stash[i].id = stash[j].id => i = j

\* The dialogs are over.
Init ==
  /\ head = "start" /\ staged = FALSE
  /\ local \in SUBSET Change /\ stash = <<[id |-> 1, holds |-> {Old}]>>
  /\ pc = "status" /\ previousOid = None /\ automaticStash = None
  /\ softResetApplied = FALSE /\ squashSucceeded = FALSE /\ stashRef = 0 /\ told = None
  /\ before = local /\ taken = {} /\ outside = 0 /\ troubles = 0

Trouble == troubles < MaxTroubles /\ troubles' = troubles + 1
Goto(next) == pc' = next /\ UNCHANGED told
End(message) == pc' = "over" /\ told' = message
Restored == IF automaticStash # None THEN Goto("apply") ELSE End("failed")

-----------------------------------------------------------------------------
\* The catch block: what was reset is rolled back first.
Throw == IF softResetApplied THEN Goto("hard") ELSE Restored

\* reset --hard to the pinned HEAD leaves of what changed meanwhile the untracked files; when it
\* fails, perhaps half done, the stash is only named.
HardReset ==
  /\ pc = "hard" /\ local' \in SUBSET local
  /\ \/ head' = "start" /\ staged' = FALSE /\ Restored /\ UNCHANGED troubles
     \/ Trouble /\ End("not rolled back") /\ UNCHANGED <<head, staged>>
  /\ UNCHANGED <<stash, locals, before, taken, outside>>

\* git status, once before the stash and once after it.
Status ==
  /\ pc \in {"status", "clean"}
  /\ \/ local = {} /\ Goto("head") /\ UNCHANGED troubles
     \/ local # {} /\ (IF pc = "status" THEN Goto("tip") ELSE Throw) /\ UNCHANGED troubles
     \/ Trouble /\ Throw
  /\ UNCHANGED <<repository, locals, before, taken, outside>>

\* Where git fails, the tip of the stash is undefined, as if there were none.
ReadTip ==
  /\ pc = "tip" /\ Goto("push")
  /\ \/ previousOid' = Tip /\ UNCHANGED troubles
     \/ previousOid' = None /\ Trouble
  /\ UNCHANGED <<repository, automaticStash, softResetApplied, squashSucceeded, stashRef,
                 before, taken, outside>>

\* The entry is stored and then the working tree cleaned: git may fail between the two.
Pushed(changes) ==
  IF changes = {} THEN stash ELSE <<[id |-> Len(stash) + 1, holds |-> changes]>> \o stash

Push ==
  /\ pc = "push"
  /\ \/ /\ stash' = Pushed(local) /\ local' = {} /\ taken' = local
        /\ Goto("verify") /\ UNCHANGED troubles
     \/ Trouble /\ Throw /\ stash' \in {stash, Pushed(local)} /\ UNCHANGED <<local, taken>>
  /\ UNCHANGED <<head, staged, locals, before, outside>>

\* No tip, or the one of before, is no automatic stash.
Verify ==
  /\ pc = "verify"
  /\ \/ /\ Tip # None /\ Tip # previousOid
        /\ automaticStash' = Tip /\ Goto("clean") /\ UNCHANGED troubles
     \/ Tip \in {None, previousOid} /\ Throw /\ UNCHANGED <<automaticStash, troubles>>
     \/ Trouble /\ Throw /\ UNCHANGED automaticStash
  /\ UNCHANGED <<repository, previousOid, softResetApplied, squashSucceeded, stashRef,
                 before, taken, outside>>

CheckHead ==
  /\ pc = "head"
  /\ \/ head = "start" /\ Goto("reset") /\ UNCHANGED troubles
     \/ head # "start" /\ Throw /\ UNCHANGED troubles
     \/ Trouble /\ Throw
  /\ UNCHANGED <<repository, locals, before, taken, outside>>

SoftReset ==
  /\ pc = "reset"
  /\ \/ /\ head' = "parent" /\ staged' = TRUE /\ softResetApplied' = TRUE
        /\ Goto("commit") /\ UNCHANGED troubles
     \/ Trouble /\ Throw /\ UNCHANGED <<head, staged, softResetApplied>>
  /\ UNCHANGED <<local, stash, previousOid, automaticStash, squashSucceeded, stashRef,
                 before, taken, outside>>

\* A hook may refuse the commit, and there is none to make when a terminal has made it.
Commit ==
  /\ pc = "commit"
  /\ \/ /\ staged /\ head' = "squashed" /\ staged' = FALSE /\ squashSucceeded' = TRUE
        /\ IF automaticStash # None THEN Goto("apply") ELSE End("squashed")
        /\ UNCHANGED troubles
     \/ /\ IF staged THEN Trouble ELSE UNCHANGED troubles
        /\ Throw /\ UNCHANGED <<head, staged, squashSucceeded>>
  /\ UNCHANGED <<local, stash, previousOid, automaticStash, softResetApplied, stashRef,
                 before, taken, outside>>

-----------------------------------------------------------------------------
(* The restoration of the stash, after a commit or a rollback. *)

\* Applied by its object, whatever the list says.  What changed meanwhile may be in its way, and
\* a conflict leaves its marks.
Apply ==
  /\ pc = "apply"
  /\ \/ local' = local \cup automaticStash.holds /\ Goto("list") /\ UNCHANGED troubles
     \/ /\ IF local = {} /\ head # "theirs" THEN Trouble ELSE UNCHANGED troubles
        /\ local' \in {local, local \cup automaticStash.holds} /\ End("stash retained")
  /\ UNCHANGED <<head, staged, stash, locals, before, taken, outside>>

\* stash list names the entry, and rev-parse says what that name stands for now.
FindRef ==
  /\ pc = "list"
  /\ \/ /\ \E i \in DOMAIN stash : stash[i] = automaticStash /\ stashRef' = i
        /\ Goto("same") /\ UNCHANGED troubles
     \/ Trouble /\ End("stash retained") /\ UNCHANGED stashRef
  /\ UNCHANGED <<repository, previousOid, automaticStash, softResetApplied, squashSucceeded,
                 before, taken, outside>>

VerifyRef ==
  /\ pc = "same"
  /\ \/ stash[stashRef] = automaticStash /\ Goto("drop") /\ UNCHANGED troubles
     \/ stash[stashRef] # automaticStash /\ End("stash retained") /\ UNCHANGED troubles
     \/ Trouble /\ End("stash retained")
  /\ UNCHANGED <<repository, locals, before, taken, outside>>

\* Git drops what the name stands for at last.
Drop ==
  /\ pc = "drop"
  /\ \/ /\ stash' = SubSeq(stash, 1, stashRef - 1) \o SubSeq(stash, stashRef + 1, Len(stash))
        /\ End(IF squashSucceeded THEN "squashed" ELSE "failed") /\ UNCHANGED troubles
     \/ Trouble /\ End("stash retained") /\ UNCHANGED stash
  /\ UNCHANGED <<head, staged, local, locals, before, taken, outside>>

Crash ==
  /\ pc # "over" /\ Trouble /\ End("nothing")
  /\ UNCHANGED <<repository, locals, before, taken, outside>>

-----------------------------------------------------------------------------
\* An editor saves a change, or takes one back that no stash took; a terminal commits what is
\* staged, or stashes.  It drops no stash.
Outside ==
  /\ pc # "over" /\ outside < MaxOutside /\ outside' = outside + 1
  /\ \/ /\ \E c \in Change : local' \in {local \cup {c}, local \ ({c} \ taken)} \ {local}
        /\ UNCHANGED <<head, staged, stash>>
     \/ head' = "theirs" /\ staged' = FALSE /\ UNCHANGED <<local, stash>>
     \/ local # {} /\ stash' = Pushed(local) /\ local' = {} /\ UNCHANGED <<head, staged>>
  /\ UNCHANGED <<pc, locals, told, before, taken, troubles>>

Next ==
  \/ Status \/ ReadTip \/ Push \/ Verify \/ CheckHead \/ SoftReset \/ Commit \/ HardReset
  \/ Apply \/ FindRef \/ VerifyRef \/ Drop \/ Crash \/ Outside

Spec == Init /\ [][Next]_vars

-----------------------------------------------------------------------------
\* What the automatic stash took is in the working tree or in a stash at every moment, and so is
\* what the user had stashed before, whatever fails and whatever a terminal does
\* (commitHistoryActions.ts:651-714, 773-808, 818-870).
TakenIsKept == taken \cup {Old} \subseteq Kept

\* A squash nobody meddled with ends with the range squashed or with HEAD as it was, never between
\* the two unless it says so; every change is where it was or in a stash; and it is called a
\* success only when all of them are back (commitHistoryActions.ts:633-720).
EndsWhole ==
  outside = 0 /\ told \notin {None, "nothing"} =>
    /\ before \subseteq Kept
    /\ told # "not rolled back" =>
         ~staged /\ head = IF squashSucceeded THEN "squashed" ELSE "start"
    /\ told = "squashed" => local = before /\ Len(stash) = 1

\* Not so: a rollback finds only what the squash itself did.
RollbackFindsClean == pc = "hard" => local = {}

\* Not so: what is dropped is the entry that was verified.
DropsItsOwn == pc = "drop" => stash[stashRef] = automaticStash

=============================================================================
