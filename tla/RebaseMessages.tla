---------------------------- MODULE RebaseMessages ----------------------------
(* The messages of an interactive rebase, from the dialog that drafts them        *)
(* (webviews/react/shared/components/RebaseDialog/) over the session it submits   *)
(* (git/interactiveRebase/todo.ts, session.ts) to the editor that git calls       *)
(* (editorHelper.ts), through conflicts, refusals and continues.                  *)
(*                                                                                *)
(* Commits are numbered from the oldest.  A message is a sequence of parts: what  *)
(* a commit said, or what the user typed for it.  Applying the todo is git's, as  *)
(* git 2.39 does it.                                                              *)
EXTENDS Naturals, SequencesExt

CONSTANTS
  Count,    \* of the commits that are offered
  None,
  MaxSteps, \* of the user in the dialog
  MaxTroubles

VARIABLES
  entries,  \* the todo, from the oldest: of each the commit, the action and the message
  edited,   \* editedMessageHashesRef: whose message the user typed
  phase,    \* of the dialog, and then of the rebase; why it is paused
  next,     \* the entry git comes to
  rebased,  \* the commits git has made: the message, and the commits it is of
  template, \* a squash in the chain of folds git is in has opened a message
  consumed, \* the markers of the session
  refused,  \* history: rewords that git took its own message for, after a failure
  steps, troubles

rebaseDialogVars == <<entries, edited, steps>>
gitVars == <<next, rebased, template, consumed, refused, troubles>>
vars == <<rebaseDialogVars, phase, gitVars>>

Commit == 1..Count
RebaseAction == {"pick", "reword", "squash", "fixup", "drop"}
Owning == {"pick", "reword", "squash"}
Folding == {"squash", "fixup"}

Body(hash) == <<[of |-> hash, typed |-> FALSE]>>
Typed(hash) == <<[of |-> hash, typed |-> TRUE]>>

Entry(hash, action, message) == [hash |-> hash, action |-> action, message |-> message]

TypeOK ==
  /\ {entries[k].hash : k \in 1..Len(entries)} = Commit /\ Len(entries) = Count
  /\ \A k \in Commit : entries[k].action \in RebaseAction
  /\ phase \in {"dialog", "running", "conflict", "editor", "amend", "done"}
  /\ next \in 1..Count + 1 /\ template \in BOOLEAN
  /\ edited \cup consumed \cup refused \subseteq Commit
  /\ \A k \in DOMAIN rebased : rebased[k].of \subseteq Commit

-----------------------------------------------------------------------------
(* The dialog.                                                                 *)

\* Places in a todo.
FirstActive(todo) == {k \in DOMAIN todo : \A j \in 1..k : (todo[j].action # "drop") <=> j = k}

normalizeFirstActive(todo) ==
  [k \in DOMAIN todo |->
     IF k \in FirstActive(todo) /\ todo[k].action \in Folding THEN Entry(todo[k].hash, "pick", None)
     ELSE todo[k]]

\* Mutant: the message of a commit that is dropped is folded into.
findMessageTargetAny(before) == {Last(before) : k \in {Len(before)} \ {0}}

findMessageTarget(before) ==
  {before[k] : k \in {k \in DOMAIN before : /\ before[k].action \in Owning
                                            /\ \A j \in k + 1..Len(before) : before[j].action \notin Owning}}

\* What is proposed for an entry, after those before it.
Draft(entry, before) ==
  CASE entry.action = "reword" -> Body(entry.hash)
    [] entry.action = "squash" ->
         LET said == {IF t.message = None THEN Body(t.hash) ELSE t.message : t \in findMessageTarget(before)}
         IN  IF said = {} THEN Body(entry.hash) ELSE (CHOOSE m \in said : TRUE) \o Body(entry.hash)
    [] OTHER -> None

recomputeRebaseMessages(todo, editedMessageHashes) ==
  LET normalized == normalizeFirstActive(todo)
      upTo[k \in 0..Len(todo)] ==
        IF k = 0 THEN <<>>
        ELSE LET entry == normalized[k]
             IN  Append(upTo[k - 1],
                        IF entry.hash \in editedMessageHashes THEN entry
                        ELSE [entry EXCEPT !.message = Draft(entry, upTo[k - 1])])
  IN  upTo[Len(todo)]

Init ==
  /\ entries = [k \in Commit |-> Entry(k, "pick", None)] /\ edited = {} /\ phase = "dialog"
  /\ next = 1 /\ rebased = <<>> /\ template = FALSE /\ consumed = {} /\ refused = {}
  /\ steps = 0 /\ troubles = 0

Dialog == phase = "dialog" /\ steps < MaxSteps /\ steps' = steps + 1 /\ UNCHANGED <<phase, gitVars>>

\* What folds is not on offer for the first commit that is kept.
changeAction(k, action) ==
  /\ Dialog /\ action # entries[k].action /\ ~(k \in FirstActive(entries) /\ action \in Folding)
  /\ edited' = edited \ {entries[k].hash}
  /\ entries' = recomputeRebaseMessages([entries EXCEPT ![k] = Entry(@.hash, action, None)], edited')

\* The drafts that were made of the message stay as they are.
changeMessage(k) ==
  /\ Dialog /\ entries[k].action \in {"reword", "squash"}
  /\ edited' = edited \cup {entries[k].hash}
  /\ entries' = [entries EXCEPT ![k].message = Typed(entries[k].hash)]

\* moveRebaseEntry and reorderRebaseEntries
reorderAt(source, target) ==
  /\ Dialog /\ source # target /\ UNCHANGED edited
  /\ entries' = recomputeRebaseMessages(
                  InsertAt(RemoveAt(entries, source), target, entries[source]), edited)

\* What the host asks of a submission; the dialog lets nobody submit a blank message.
validateRebaseSubmission(todo) ==
  /\ Len(todo) = Count /\ {todo[k].hash : k \in DOMAIN todo} = Commit
  /\ \A k \in DOMAIN todo : todo[k].action \in {"reword", "squash"} => todo[k].message # None
  /\ \A k \in FirstActive(todo) : todo[k].action \notin Folding

Submit ==
  /\ phase = "dialog" /\ validateRebaseSubmission(entries)
  /\ phase' = "running" /\ UNCHANGED <<rebaseDialogVars, gitVars>>

-----------------------------------------------------------------------------
(* git applies the todo; the message editor it calls is the session's.         *)

\* writePreparedMessage: the prepared message of the step git is at, once.
Prepared(entry) == entry.action \in {"reword", "squash"} /\ entry.hash \notin consumed
writePreparedMessage(entry, text) == IF Prepared(entry) THEN entry.message ELSE text

entry == entries[next]
Applies == next <= Count /\ entry.action # "drop"
Folds == entry.action \in Folding

\* Nothing more folds into this commit, whatever is dropped in between.
FinalFold ==
  LET later == {j \in next + 1..Count : entries[j].action # "drop"}
  IN  Folds /\ \A j \in later : j = Min(later) => entries[j].action \notin Folding

\* With the message of git.
Applied ==
  IF Folds
  THEN [rebased EXCEPT ![Len(rebased)] =
          [message |-> IF entry.action = "squash" THEN @.message \o Body(entry.hash) ELSE @.message,
           of |-> @.of \cup {entry.hash}]]
  ELSE Append(rebased, [message |-> Body(entry.hash), of |-> {entry.hash}])

\* With that of the editor.
Written == [Applied EXCEPT ![Len(Applied)].message = writePreparedMessage(entry, @)]

Templated == entry.action = "squash" \/ (entry.action = "fixup" /\ template)
OpensEditor == entry.action = "reword" \/ (FinalFold /\ Templated)

Consumes == consumed' = IF Prepared(entry) THEN consumed \cup {entry.hash} ELSE consumed
Trouble == troubles < MaxTroubles /\ troubles' = troubles + 1

Drop ==
  /\ phase = "running" /\ next <= Count /\ entry.action = "drop"
  /\ next' = next + 1
  /\ UNCHANGED <<rebaseDialogVars, phase, rebased, template, consumed, refused, troubles>>

Apply ==
  /\ phase = "running" /\ Applies
  /\ IF OpensEditor THEN rebased' = Written /\ Consumes ELSE rebased' = Applied /\ UNCHANGED consumed
  /\ template' = (Templated /\ ~FinalFold) /\ next' = next + 1
  /\ UNCHANGED <<rebaseDialogVars, phase, refused, troubles>>

Conflict ==
  /\ phase = "running" /\ Applies /\ Trouble /\ phase' = "conflict"
  /\ UNCHANGED <<rebaseDialogVars, next, rebased, template, consumed, refused>>

\* The helper fails before it has written the message, or a hook refuses what it wrote: the commit
\* of a reword is there by then, and that of a fold is not.
EditorFails ==
  /\ phase = "running" /\ Applies /\ OpensEditor /\ Trouble
  /\ IF Folds THEN phase' = "editor" /\ UNCHANGED <<rebased, consumed>>
     ELSE phase' = "amend" /\ rebased' = Applied /\ (Consumes \/ UNCHANGED consumed)
  /\ UNCHANGED <<rebaseDialogVars, next, template, refused>>

\* continueInteractiveRebase after a conflict or a failed fold: the editor is called in any case.
Continue ==
  /\ phase \in {"conflict", "editor"} /\ phase' = "running"
  /\ rebased' = Written /\ Consumes
  /\ template' = FALSE /\ next' = next + 1
  /\ UNCHANGED <<rebaseDialogVars, refused, troubles>>

ContinueFails ==
  /\ phase = "conflict" /\ Trouble /\ phase' = "editor"
  /\ UNCHANGED <<rebaseDialogVars, next, rebased, template, consumed, refused>>

\* And after a failed reword: it is not called again.
ContinueAmended ==
  /\ phase = "amend" /\ phase' = "running"
  /\ refused' = refused \cup {entry.hash} /\ next' = next + 1
  /\ UNCHANGED <<rebaseDialogVars, rebased, template, consumed, troubles>>

Finish ==
  /\ phase = "running" /\ next > Count /\ phase' = "done"
  /\ UNCHANGED <<rebaseDialogVars, gitVars>>

Next ==
  \/ \E k \in Commit, action \in RebaseAction : changeAction(k, action)
  \/ \E k \in Commit : changeMessage(k)
  \/ \E source, target \in Commit : reorderAt(source, target)
  \/ Submit
  \/ Drop \/ Apply \/ Conflict \/ EditorFails \/ Continue \/ ContinueFails \/ ContinueAmended \/ Finish

Spec == Init /\ [][Next]_vars

-----------------------------------------------------------------------------
\* The entry whose message a commit is to have: the last of its entries that owns one.
OwnerOf(commit) ==
  LET own == {k \in Commit : entries[k].hash \in commit.of /\ entries[k].action \in Owning}
  IN  entries[CHOOSE k \in own : \A j \in own : j <= k]

Expected(commit) ==
  LET owner == OwnerOf(commit) IN IF owner.message = None THEN Body(owner.hash) ELSE owner.message

\* A fixup comes after the squash whose message it is to leave alone.
FixedUpAfterSquash(commit) ==
  LET owner == OwnerOf(commit)
  IN  owner.action = "squash"
        /\ \E j, k \in Commit : /\ j < k /\ entries[j] = owner
                                /\ entries[k].action = "fixup" /\ entries[k].hash \in commit.of

\* Whatever the user does in the dialog, the host accepts what it submits: rows and messages are
\* complete, and nothing folds into nothing (rebaseDialogState.ts:22-164; todo.ts:43-84).
DialogIsAccepted == phase = "dialog" => validateRebaseSubmission(entries)

\* No commit says what was said or typed of a commit that is not in it (rebaseDialogState.ts:94-145;
\* editorHelper.ts:99-139).
MessagesStayHome ==
  \A k \in DOMAIN rebased, part \in Commit :
    (\E i \in DOMAIN rebased[k].message : rebased[k].message[i].of = part) => part \in rebased[k].of

\* Every commit has the message the dialog had for it, after conflicts and failed editors too, but
\* for rewords that were refused and fixups that follow a squash (session.ts:8-10;
\* editorHelper.ts:99-139).
MessagesArriveMostly ==
  phase = "done" =>
    \A k \in DOMAIN rebased :
      \/ rebased[k].message = Expected(rebased[k])
      \/ FixedUpAfterSquash(rebased[k]) \/ OwnerOf(rebased[k]).hash \in refused

\* Every commit has the message the dialog had for it: the helper is there to "inject prepared
\* messages, consuming each message exactly once" (CHANGELOG.md:631; editorHelper.ts:99-139).
MessagesArrive == phase = "done" => \A k \in DOMAIN rebased : rebased[k].message = Expected(rebased[k])

=============================================================================
