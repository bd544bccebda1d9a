--------------------------- MODULE MergeEditorPanel ---------------------------
(* The panel of the merge editor (views/MergeEditorPanel.ts) for one path that is *)
(* in conflict in several repositories: it reads the three versions, shows them,  *)
(* and writes and stages what the user makes of them.  Its root is a getter for   *)
(* that of the active repository, and git runs where its executor points when the *)
(* command is spawned; both are changed by a switch of repositories, which        *)
(* activating an editor is enough for (activation/repositoryMode.ts:562-628).     *)
(* One message is handled at a time, and nobody else resolves a conflict.         *)
EXTENDS Naturals

CONSTANTS
  Root, None,
  MaxSwitches, MaxFailures

VARIABLES
  activeRoot,  \* getRepoRoot, and the root of the executor
  conflicted,  \* repositories whose index has the three versions
  writer,      \* per repository: of which the panel showed what was last written to its file
  open, shown, \* the panel, and the repository whose versions its webview has
  error,       \* the webview shows an error in their place
  loads,       \* calls of postConflictData: the repository they have read, if any
  op,          \* the message being handled
  overtaken,   \* history: the panel was opened while a message to the one before was handled
  switches, failures

view == <<open, shown, error, loads, overtaken>>
disk == <<conflicted, writer>>
vars == <<activeRoot, disk, view, op, switches, failures>>

Idle == [step |-> None]
Unread == [root |-> None, found |-> FALSE]

TypeOK ==
  /\ activeRoot \in Root /\ conflicted \subseteq Root /\ writer \in [Root -> Root \cup {None}]
  /\ open \in BOOLEAN /\ shown \in Root \cup {None} /\ error \in BOOLEAN
  /\ loads \subseteq [root : Root \cup {None}, found : BOOLEAN]
  /\ overtaken \in BOOLEAN
  /\ op.step \in {None, "write", "stage", "checkout", "add", "abort", "end"}

Init ==
  /\ activeRoot \in Root /\ conflicted = Root /\ writer = [r \in Root |-> None]
  /\ open = FALSE /\ shown = None /\ error = FALSE /\ loads = {}
  /\ op = Idle /\ overtaken = FALSE /\ switches = 0 /\ failures = 0

-----------------------------------------------------------------------------
\* setActiveRepository; an open panel stays as it is.
Switch(r) ==
  /\ r # activeRoot /\ switches < MaxSwitches
  /\ activeRoot' = r /\ switches' = switches + 1
  /\ UNCHANGED <<disk, view, op, failures>>

\* open: panels are kept by path, so that of another repository is shown again.
Open ==
  /\ activeRoot \in conflicted
  /\ open' = TRUE /\ loads' = loads \cup {Unread}
  /\ overtaken' = IF open THEN overtaken ELSE op # Idle
  /\ UNCHANGED <<activeRoot, disk, shown, error, op, switches, failures>>

\* "ready" after an error, or "setIgnoreMode".
Reload ==
  /\ open /\ loads' = loads \cup {Unread}
  /\ error' = FALSE
  /\ UNCHANGED <<activeRoot, disk, open, shown, overtaken, op, switches, failures>>

\* getConflictFileVersions
Read ==
  /\ Unread \in loads
  /\ loads' = (loads \ {Unread}) \cup {[root |-> activeRoot, found |-> activeRoot \in conflicted]}
  /\ UNCHANGED <<activeRoot, disk, open, shown, error, overtaken, op, switches, failures>>

Post(load) ==
  /\ load # Unread /\ loads' = loads \ {load}
  /\ shown' = IF load.found THEN load.root ELSE shown
  /\ error' = ~load.found
  /\ UNCHANGED <<activeRoot, disk, open, overtaken, op, switches, failures>>

\* onDidDispose, after which nothing is posted; a handler that is under way goes on.
Dispose == open' = FALSE /\ shown' = None /\ error' = FALSE /\ loads' = {} /\ overtaken' = FALSE

Close ==
  /\ open /\ Dispose
  /\ op' = IF op = Idle THEN op ELSE [op EXCEPT !.disposed = TRUE]
  /\ UNCHANGED <<activeRoot, disk, switches, failures>>

-----------------------------------------------------------------------------
\* What is written goes below the root that is active as the message arrives.
Handle(step) ==
  /\ open /\ shown # None /\ ~error /\ op = Idle
  /\ op' = [step |-> step, of |-> shown, at |-> activeRoot, disposed |-> FALSE]
  /\ UNCHANGED <<activeRoot, disk, view, switches, failures>>

Goto(step) == op' = [op EXCEPT !.step = step]

Changed(root) == writer' = [writer EXCEPT ![root] = op.of]

\* applyResolution
WriteFile ==
  /\ op.step = "write"
  /\ Changed(op.at) /\ Goto("stage")
  /\ UNCHANGED <<activeRoot, conflicted, view, switches, failures>>

\* stageFile, and the add that follows the checkout of a side.
Add ==
  /\ op.step \in {"stage", "add"}
  /\ conflicted' = conflicted \ {activeRoot} /\ Goto("end")
  /\ UNCHANGED <<activeRoot, writer, view, switches, failures>>

\* acceptConflictSide
Checkout ==
  /\ op.step = "checkout" /\ activeRoot \in conflicted
  /\ Changed(activeRoot) /\ Goto("add")
  /\ UNCHANGED <<activeRoot, conflicted, view, switches, failures>>

\* abortMerge, which is confirmed
AbortMerge ==
  /\ op.step = "abort" /\ activeRoot \in conflicted
  /\ Changed(activeRoot) /\ conflicted' = conflicted \ {activeRoot} /\ Goto("end")
  /\ UNCHANGED <<activeRoot, view, switches, failures>>

\* The listeners have been told, and the panel goes if it is still that one.
End ==
  /\ op.step = "end" /\ op' = Idle
  /\ IF op.disposed THEN UNCHANGED view ELSE Dispose
  /\ UNCHANGED <<activeRoot, disk, switches, failures>>

\* A step fails, as a checkout and an abort do where nothing is in conflict; the panel says so,
\* unless it was the abort, of which a message does.
Fail ==
  /\ op # Idle /\ op.step # "end"
  /\ IF op.step \in {"checkout", "abort"} /\ activeRoot \notin conflicted THEN UNCHANGED failures
     ELSE failures < MaxFailures /\ failures' = failures + 1
  /\ error' = IF op.disposed \/ op.step = "abort" THEN error ELSE TRUE
  /\ op' = Idle
  /\ UNCHANGED <<activeRoot, disk, open, shown, loads, overtaken, switches>>

Next ==
  \/ \E r \in Root : Switch(r)
  \/ Open \/ Reload \/ Read \/ Close
  \/ \E load \in loads : Post(load)
  \/ \E step \in {"write", "checkout", "abort"} : Handle(step)
  \/ WriteFile \/ Add \/ Checkout \/ AbortMerge \/ End \/ Fail

Spec == Init /\ [][Next]_vars

-----------------------------------------------------------------------------
\* What a panel writes goes to the repository whose versions it shows
\* (MergeEditorPanel.ts:30-31, 208-209).
WritesStayAtHome == \A r \in Root : writer[r] \in {None, r}

\* While no repository was switched, a panel at rest shows a conflict that is still to be resolved,
\* unless it was opened before the one before it had done resolving (MergeEditorPanel.ts:49-50,
\* 211-225, 238-251).
ResolvedIsGone ==
  open /\ shown # None /\ ~error /\ op = Idle /\ switches = 0 /\ ~overtaken => shown \in conflicted

=============================================================================
