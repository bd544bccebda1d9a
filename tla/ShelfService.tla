---------------------------- MODULE ShelfService ----------------------------
(***************************************************************************)
(* services/shelfService.ts over shelf/store.ts: the shelves of one        *)
(* repository on disk, written by several windows that may crash.          *)
(*                                                                         *)
(* Everything that writes holds the gate and the store lock, so at most    *)
(* one command runs; it writes one file after another and may stop between *)
(* any two.  Activation takes the lock several times.  A file taken out of *)
(* the worktree is one step here: ShelfReverter has its details.  Commands *)
(* whose expected generation is stale change nothing and are left out.     *)
(***************************************************************************)
EXTENDS Naturals, FiniteSets, FiniteSetsExt

CONSTANTS
  Window,     \* extension hosts
  Change,     \* files the user has changed
  MaxShelves, \* bound: captures begun
  MaxGen,     \* bound: generations of a shelf
  Token,      \* idempotency tokens of requests
  None,
  MaxTroubles \* kinds of trouble in one behaviour, each at most once

VARIABLES
  local,     \* what is in the worktree at each change
  recovery,  \* what each shelf's transaction put into the recovery directory
  objects,   \* changes whose patches are stored beneath each shelf
  dirs,      \* generation directories of each shelf
  manifests, \* manifest of each generation
  current,   \* current pointer of each shelf, 0 when there is none
  catalog,   \* catalog.json: members and ledger
  journal,   \* each shelf's revert journal
  mark,      \* journals of applied entries, by the generation they leave
  used,      \* shelf ids drawn
  op, pc,    \* the command that holds the lock (by a window that recovers, or any), where it is
  resuming,  \* each window's resumePendingRecovery
  wrong,     \* what went wrong so far
  touched,   \* history: changes the user changed again, or deleted with a shelf
  doomed,    \* history: shelves whose deletion began
  cancelled, \* history: shelves whose revert was rolled back by recovery
  made       \* history: shelves captured for each token

tree == <<local, recovery>>
store == <<objects, dirs, manifests, current, catalog, journal, mark, used>>
history == <<wrong, touched, doomed, cancelled, made>>
shelfVars == <<tree, store, op, pc, resuming, history>>

Shelf == 1..MaxShelves
Gen == 1..MaxGen
Manifest == {m \in [held : SUBSET Change, applied : SUBSET Change] : m.applied \subseteq m.held}

\* What is nothing is neither a shelf nor a manifest.
ASSUME ServiceAssumption ==
  MaxShelves \in Nat /\ MaxGen \in Nat /\ None \notin Shelf /\ None \notin Manifest

Idle == [kind |-> "idle"]
AtRest == [at |-> "rest", links |-> {}, left |-> {}]

Kind == {"shelve", "save", "unshelve", "rewrite", "delete", "cleanUp", "resume", "drop"}
Op == [kind : Kind, by : Window \cup {None}, shelf : Shelf \cup {None}, token : Token \cup {None},
       todo : SUBSET Change, done : SUBSET Change, remove : BOOLEAN, next : Manifest \cup {None}]

TypeOK ==
  /\ local \in [Change -> {"clean", "mine", "edited", "merged"}]
  /\ recovery \in [Shelf -> [Change -> {"none", "mine", "edited", "merged"}]]
  /\ objects \in [Shelf -> SUBSET Change]
  /\ dirs \in [Shelf -> SUBSET Gen]
  /\ manifests \in [Shelf -> [Gen -> Manifest \cup {None}]]
  /\ current \in [Shelf -> 0..MaxGen]
  /\ catalog \in [shelves : SUBSET Shelf, ledger : [Token -> Shelf \cup {None}]]
  /\ journal \in [Shelf -> {"none", "pending", "shelved", "ghost"}]
  /\ mark \in [Shelf -> [Gen -> {"none", "pending", "settled"}]]
  /\ used \in 0..MaxShelves
  /\ op \in Op \cup {Idle}
  /\ resuming \in [Window -> [at : {"rest", "read", "run", "drop"}, links : SUBSET Shelf, left : SUBSET Shelf]]

Init ==
  /\ local = [c \in Change |-> "mine"]
  /\ recovery = [s \in Shelf |-> [c \in Change |-> "none"]]
  /\ objects = [s \in Shelf |-> {}]
  /\ dirs = [s \in Shelf |-> {}]
  /\ manifests = [s \in Shelf |-> [g \in Gen |-> None]]
  /\ current = [s \in Shelf |-> 0]
  /\ catalog = [shelves |-> {}, ledger |-> [t \in Token |-> None]]
  /\ journal = [s \in Shelf |-> "none"]
  /\ mark = [s \in Shelf |-> [g \in Gen |-> "none"]]
  /\ used = 0
  /\ op = Idle
  /\ pc = "idle"
  /\ resuming = [w \in Window |-> AtRest]
  /\ wrong = {}
  /\ touched = {}
  /\ doomed = {}
  /\ cancelled = {}
  /\ made = [t \in Token |-> {}]

-----------------------------------------------------------------------------
Trouble(kind) ==
  /\ kind \notin wrong
  /\ Cardinality(wrong) < MaxTroubles
  /\ wrong' = wrong \cup {kind}

\* readCurrentManifest, and the objects it names.
Manifested(s) == current[s] # 0 /\ manifests[s][current[s]] # None
Now(s) == manifests[s][current[s]]
Readable(s) == Manifested(s) /\ Now(s).held \subseteq objects[s]
Ghost(m) == m.applied = m.held
Listed == {s \in Shelf : Manifested(s)}

\* nextGeneration: beyond the pointer and beyond every directory.
nextGeneration(s) == Max(dirs[s] \cup {current[s]}) + 1

Start(kind, w, s, token, todo, remove, next) ==
  op' = [kind |-> kind, by |-> w, shelf |-> s, token |-> token, todo |-> todo, done |-> {},
         remove |-> remove, next |-> next]

Free == op = Idle

\* The command returns or throws, and the lock is released.
Return == op' = Idle /\ pc' = "idle"

At(label) == pc = label /\ op # Idle

-----------------------------------------------------------------------------
(* Commands, from the point where they have the lock.                      *)

\* captureShelf after runIdempotent found no record; "save" keeps the files.
BeginShelve ==
  /\ Free /\ used < MaxShelves
  /\ \E kind \in {"shelve", "save"}, token \in Token \cup {None},
        selected \in SUBSET {c \in Change : local[c] = "mine"} \ {{}} :
       /\ token # None => catalog.ledger[token] = None
       /\ Start(kind, None, used + 1, token, selected, FALSE, [held |-> selected, applied |-> {}])
  /\ used' = used + 1
  /\ pc' = "objects"
  /\ UNCHANGED <<tree, objects, dirs, manifests, current, catalog, journal, mark, resuming, history>>

\* putObject for every layer of every entry.
PutObjects ==
  /\ At("objects")
  /\ objects' = [objects EXCEPT ![op.shelf] = @ \cup op.next.held]
  /\ pc' = "reserve"
  /\ UNCHANGED <<tree, dirs, manifests, current, catalog, journal, mark, used, op, resuming, history>>

\* selectEntries takes entries whatever their lifecycle.
BeginUnshelve ==
  /\ Free
  /\ \E s \in Shelf, remove \in BOOLEAN :
       /\ Readable(s)
       /\ nextGeneration(s) <= MaxGen
       /\ \E selected \in SUBSET Now(s).held \ {{}} :
            Start("unshelve", None, s, None, selected, remove, None)
  /\ pc' = "apply"
  /\ UNCHANGED <<tree, store, resuming, history>>

\* renameShelf, restoreGhost, refreshHistoryBaseAvailability
BeginRewrite ==
  /\ Free
  /\ \E s \in Shelf :
       /\ Manifested(s)
       /\ nextGeneration(s) <= MaxGen
       /\ \E next \in {Now(s)} \cup (IF Ghost(Now(s)) THEN {[Now(s) EXCEPT !.applied = {}]} ELSE {}) :
            Start("rewrite", None, s, None, {}, FALSE, next)
  /\ pc' = "reserve"
  /\ UNCHANGED <<tree, store, resuming, history>>

BeginDelete ==
  /\ Free
  /\ \E s \in Shelf : Manifested(s) /\ Start("delete", None, s, None, {}, FALSE, None)
  /\ pc' = "remove"
  /\ UNCHANGED <<tree, store, resuming, history>>

\* Mutant: whatever is selected is deleted.
BeginCleanUpAny ==
  /\ Free
  /\ \E s \in Shelf : Manifested(s) /\ Start("cleanUp", None, s, None, {}, FALSE, None)
  /\ pc' = "remove"
  /\ UNCHANGED <<tree, store, resuming, history>>

\* cleanUpSelection and cleanUpExpiredGhosts, one shelf of the selection.
BeginCleanUp ==
  /\ Free
  /\ \E s \in Shelf :
       Manifested(s) /\ Ghost(Now(s)) /\ Start("cleanUp", None, s, None, {}, FALSE, None)
  /\ pc' = "remove"
  /\ UNCHANGED <<tree, store, resuming, history>>

-----------------------------------------------------------------------------
(* writeGeneration                                                         *)

Reserve ==
  /\ At("reserve")
  /\ nextGeneration(op.shelf) <= MaxGen
  /\ dirs' = [dirs EXCEPT ![op.shelf] = @ \cup {nextGeneration(op.shelf)}]
  /\ pc' = "manifest"
  /\ UNCHANGED <<tree, objects, manifests, current, catalog, journal, mark, used, op, resuming, history>>

\* The directory just reserved.
Fresh(s) == Max(dirs[s])

\* Mutant: the pointer advances and its manifest is not there yet.
AdvancePointerEarly ==
  /\ At("manifest")
  /\ current' = [current EXCEPT ![op.shelf] = Fresh(op.shelf)]
  /\ manifests' = [manifests EXCEPT ![op.shelf][Fresh(op.shelf)] = None]
  /\ pc' = "pointer"
  /\ UNCHANGED <<tree, objects, dirs, catalog, journal, mark, used, op, resuming, history>>

WriteManifest ==
  /\ At("manifest")
  /\ manifests' = [manifests EXCEPT ![op.shelf][Fresh(op.shelf)] = op.next]
  /\ pc' = "pointer"
  /\ UNCHANGED <<tree, objects, dirs, current, catalog, journal, mark, used, op, resuming, history>>

AdvancePointer ==
  /\ At("pointer")
  /\ current' = [current EXCEPT ![op.shelf] = Fresh(op.shelf)]
  /\ pc' = "enlist"
  /\ UNCHANGED <<tree, objects, dirs, manifests, catalog, journal, mark, used, op, resuming, history>>

\* addShelfToCatalog
Enlist ==
  /\ At("enlist")
  /\ catalog' = [catalog EXCEPT !.shelves = @ \cup {op.shelf}]
  /\ CASE op.kind = "shelve"   -> pc' = "journal" /\ op' = op
       [] op.kind = "save"     -> pc' = "record" /\ op' = op
       [] op.kind = "unshelve" -> pc' = "settle" /\ op' = op
       [] op.kind = "rewrite"  -> Return
  /\ UNCHANGED <<tree, objects, dirs, manifests, current, journal, mark, used, resuming, history>>

-----------------------------------------------------------------------------
(* ShelfReverter, in outline.                                              *)

WriteJournal ==
  /\ At("journal")
  /\ journal' = [journal EXCEPT ![op.shelf] = "pending"]
  /\ pc' = "move"
  /\ UNCHANGED <<tree, objects, dirs, manifests, current, catalog, mark, used, op, resuming, history>>

Move ==
  /\ At("move")
  /\ \E c \in op.todo :
       /\ recovery' = [recovery EXCEPT ![op.shelf][c] = IF local[c] = "clean" THEN "none" ELSE local[c]]
       /\ local' = [local EXCEPT ![c] = "clean"]
       /\ op' = [op EXCEPT !.todo = @ \ {c}]
       /\ pc' = IF op.todo = {c} THEN "commit" ELSE "move"
  /\ UNCHANGED <<store, resuming, history>>

Commit ==
  /\ At("commit")
  /\ journal' = [journal EXCEPT ![op.shelf] = "shelved"]
  /\ pc' = "record"
  /\ UNCHANGED <<tree, objects, dirs, manifests, current, catalog, mark, used, op, resuming, history>>

\* A step of the transaction throws.
Throw ==
  /\ At("move") \/ At("commit")
  /\ Trouble("fault")
  /\ pc' = "rollback"
  /\ UNCHANGED <<tree, store, op, resuming, touched, doomed, cancelled, made>>

\* What may be put back: nothing else is at its place.
Restorable(s) == {c \in Change : recovery[s][c] # "none" /\ local[c] = "clean"}

Restore(s) ==
  /\ local' = [c \in Change |-> IF c \in Restorable(s) THEN recovery[s][c] ELSE local[c]]
  /\ recovery' = [recovery EXCEPT ![s] = [c \in Change |-> IF c \in Restorable(s) THEN "none" ELSE @[c]]]

Restored(s) == \A c \in Change : recovery[s][c] = "none"

\* rollbackMovedPaths, then the journal is deleted, or stays pending for what could not be put back.
Rollback ==
  /\ At("rollback")
  /\ Restore(op.shelf)
  /\ pc' = "conclude"
  /\ UNCHANGED <<store, op, resuming, history>>

Conclude ==
  /\ At("conclude")
  /\ journal' = [journal EXCEPT ![op.shelf] = IF Restored(op.shelf) THEN "none" ELSE @]
  /\ Return
  /\ UNCHANGED <<tree, objects, dirs, manifests, current, catalog, mark, used, resuming, history>>

\* runIdempotent records the result in the catalog it reads again.
Record ==
  /\ At("record")
  /\ IF op.token = None THEN catalog' = catalog /\ made' = made
     ELSE /\ catalog' = [catalog EXCEPT !.ledger[op.token] = op.shelf]
          /\ made' = [made EXCEPT ![op.token] = @ \cup {op.shelf}]
  /\ Return
  /\ UNCHANGED <<tree, objects, dirs, manifests, current, journal, mark, used, resuming, wrong,
                 touched, doomed, cancelled>>

-----------------------------------------------------------------------------
(* unshelve                                                                *)

\* applyEntry: what the worktree at c becomes, and whether the entry counts as applied.
Outcome(c) ==
  CASE local[c] = "clean"  -> {<<"mine", TRUE>>}
    [] local[c] = "edited" -> {<<"edited", FALSE>>, <<"merged", TRUE>>}
    [] OTHER               -> {<<local[c], FALSE>>, <<local[c], TRUE>>}

Apply ==
  /\ At("apply")
  /\ \E c \in op.todo, outcome \in UNION {Outcome(d) : d \in op.todo} :
       /\ outcome \in Outcome(c)
       /\ local' = [local EXCEPT ![c] = outcome[1]]
       /\ LET done == IF outcome[2] THEN op.done \cup {c} ELSE op.done
              left == op.todo \ {c}
          IN  IF left = {} /\ (~op.remove \/ done = {})
              THEN Return
              ELSE /\ op' = [op EXCEPT !.todo = left, !.done = done]
                   /\ pc' = IF left = {} THEN "mark" ELSE "apply"
  /\ UNCHANGED <<recovery, store, resuming, history>>

\* Mutant: entries are marked applied in the manifest although not all were.
MarkAll ==
  /\ At("mark")
  /\ mark' = [mark EXCEPT ![op.shelf][current[op.shelf]] = "pending"]
  /\ op' = [op EXCEPT !.next = [Now(op.shelf) EXCEPT !.applied = Now(op.shelf).held]]
  /\ pc' = "reserve"
  /\ UNCHANGED <<tree, objects, dirs, manifests, current, catalog, journal, used, resuming, history>>

\* The journal ahead of the generation that marks the entries.
Mark ==
  /\ At("mark")
  /\ mark' = [mark EXCEPT ![op.shelf][current[op.shelf]] = "pending"]
  /\ op' = [op EXCEPT !.next = [Now(op.shelf) EXCEPT !.applied = @ \cup op.done]]
  /\ pc' = "reserve"
  /\ UNCHANGED <<tree, objects, dirs, manifests, current, catalog, journal, used, resuming, history>>

\* transitionJournal; the journal stays for ever.
Settle ==
  /\ At("settle")
  /\ mark' = [mark EXCEPT ![op.shelf] =
                [g \in Gen |-> IF @[g] = "pending" /\ g = Max({h \in Gen : @[h] = "pending"})
                               THEN "settled" ELSE @[g]]]
  /\ Return
  /\ UNCHANGED <<tree, objects, dirs, manifests, current, catalog, journal, used, resuming, history>>

-----------------------------------------------------------------------------
(* deleteShelf: the tree, entry by entry, then the catalog.                *)

Remove ==
  /\ At("remove")
  /\ IF Manifested(op.shelf)
     THEN /\ objects' = [objects EXCEPT ![op.shelf] = {}]
          /\ doomed' = doomed \cup {op.shelf}
          /\ touched' = IF op.kind = "delete" THEN touched \cup Now(op.shelf).held ELSE touched
          /\ pc' = "removing"
          /\ UNCHANGED <<op, resuming>>
     ELSE /\ Return
          /\ UNCHANGED <<objects, doomed, touched, resuming>>
  /\ UNCHANGED <<tree, dirs, manifests, current, catalog, journal, mark, used, wrong, cancelled,
                 made>>

RemoveRest ==
  /\ At("removing")
  /\ dirs' = [dirs EXCEPT ![op.shelf] = {}]
  /\ manifests' = [manifests EXCEPT ![op.shelf] = [g \in Gen |-> None]]
  /\ current' = [current EXCEPT ![op.shelf] = 0]
  /\ pc' = "unlist"
  /\ UNCHANGED <<tree, objects, catalog, journal, mark, used, op, resuming, history>>

Unlist ==
  /\ At("unlist")
  /\ catalog' = [catalog EXCEPT !.shelves = @ \ {op.shelf}]
  /\ Return
  /\ UNCHANGED <<tree, objects, dirs, manifests, current, journal, mark, used, resuming, history>>

-----------------------------------------------------------------------------
(* resumePendingRecovery, when a window activates.                         *)

Pending == {s \in Shelf : journal[s] = "pending"}

Recovering(w, at, links, left) ==
  resuming' = [resuming EXCEPT ![w] = [at |-> at, links |-> links, left |-> left]]

\* The journals are read without the lock.
ReadLinks(w) ==
  /\ resuming[w].at = "rest"
  /\ Pending # {}
  /\ Recovering(w, "read", Pending, {})
  /\ UNCHANGED <<tree, store, op, pc, history>>

BeginResume(w) ==
  /\ resuming[w].at = "read" /\ Free
  /\ Start("resume", w, None, None, {}, FALSE, None)
  /\ pc' = "journals"
  /\ Recovering(w, "run", resuming[w].links, {})
  /\ UNCHANGED <<tree, store, history>>

\* One pending journal: its files are put back,
ResumeRestore ==
  /\ At("journals")
  /\ Pending # {}
  /\ LET s == Min(Pending) IN Restore(s) /\ op' = [op EXCEPT !.shelf = s]
  /\ pc' = "journaled"
  /\ UNCHANGED <<store, resuming, history>>

\* and the journal is deleted, or kept for what could not be.
ResumeConclude ==
  /\ At("journaled")
  /\ IF Restored(op.shelf)
     THEN /\ journal' = [journal EXCEPT ![op.shelf] = "none"]
          /\ cancelled' = cancelled \cup {op.shelf}
          /\ Recovering(op.by, "run", resuming[op.by].links, resuming[op.by].left \cup {op.shelf})
     ELSE /\ journal' = [journal EXCEPT ![op.shelf] = "ghost"]
          /\ UNCHANGED <<cancelled, resuming>>
  /\ pc' = "journals"
  /\ UNCHANGED <<tree, objects, dirs, manifests, current, catalog, mark, used, op, wrong, touched,
                 doomed, made>>

\* The rolled back journals that were linked when the journals were read.
EndResume ==
  /\ At("journals")
  /\ Pending = {}
  /\ Return
  /\ LET r == resuming[op.by]
     IN  resuming' = [resuming EXCEPT ![op.by] =
           IF r.left \cap r.links = {} THEN AtRest
           ELSE [at |-> "drop", links |-> r.links, left |-> r.left \cap r.links]]
  /\ UNCHANGED <<tree, store, history>>

\* Each of their shelves is deleted under the lock; a shelf that is gone will do.
BeginDrop(w) ==
  /\ resuming[w].at = "drop" /\ Free
  /\ LET s == Min(resuming[w].left)
         left == resuming[w].left \ {s}
     IN  /\ resuming' = [resuming EXCEPT ![w] =
               IF left = {} THEN AtRest ELSE [at |-> "drop", links |-> @.links, left |-> left]]
         /\ Start("drop", w, s, None, {}, FALSE, None)
  /\ pc' = "remove"
  /\ UNCHANGED <<tree, store, history>>

\* The first failure ends the deletions.
FailDrop(w) ==
  /\ resuming[w].at = "drop"
  /\ Trouble("fault")
  /\ resuming' = [resuming EXCEPT ![w] = AtRest]
  /\ UNCHANGED <<tree, store, op, pc, touched, doomed, cancelled, made>>

-----------------------------------------------------------------------------
\* The host of a command, or one that recovers, dies; its locks are taken over.
Crash ==
  /\ \/ op # Idle /\ op.by = None /\ Return /\ UNCHANGED resuming
     \/ \E w \in Window :
          /\ resuming[w].at # "rest" \/ (op # Idle /\ op.by = w)
          /\ resuming' = [resuming EXCEPT ![w] = AtRest]
          /\ IF op # Idle /\ op.by = w THEN Return ELSE UNCHANGED <<op, pc>>
  /\ Trouble("crash")
  /\ UNCHANGED <<tree, store, touched, doomed, cancelled, made>>

\* The user changes a file again.
Outside ==
  /\ Trouble("outside")
  /\ \E c \in Change :
       /\ local' = [local EXCEPT ![c] = "edited"]
       /\ touched' = touched \cup {c}
  /\ UNCHANGED <<recovery, store, op, pc, resuming, doomed, cancelled, made>>

Work ==
  \/ PutObjects \/ Reserve \/ WriteManifest \/ AdvancePointer \/ Enlist \/ WriteJournal \/ Move
  \/ Commit \/ Rollback \/ Conclude \/ Record \/ Apply \/ Mark \/ Settle \/ Remove \/ RemoveRest
  \/ Unlist \/ ResumeRestore \/ ResumeConclude \/ EndResume

Activate(w) == ReadLinks(w) \/ BeginResume(w) \/ BeginDrop(w)

Next ==
  \/ BeginShelve \/ BeginUnshelve \/ BeginRewrite \/ BeginDelete \/ BeginCleanUp
  \/ Work \/ Throw \/ Outside \/ Crash
  \/ \E w \in Window : Activate(w) \/ FailDrop(w)

Spec == Init /\ [][Next]_shelfVars

\* A command goes on, and windows are opened again and get their turn at the lock.
FairSpec ==
  Spec /\ WF_shelfVars(Work) /\ \A w \in Window : SF_shelfVars(Activate(w))

-----------------------------------------------------------------------------
\* A shelf nobody deletes can be read at every moment, whatever write was cut short
\* (store.ts:243-266).
CurrentIsReadable == \A s \in Shelf \ doomed : current[s] # 0 => Readable(s)

\* Where a change still is: in the worktree, on a shelf not yet unshelved, or in the recovery
\* directory under a journal that says so.
Somewhere(c) ==
  \/ local[c] \in {"mine", "merged"}
  \/ \E s \in Shelf : Readable(s) /\ c \in Now(s).held
  \/ \E s \in Shelf : journal[s] \in {"pending", "ghost"} /\ recovery[s][c] \in {"mine", "merged"}

\* A change is lost only with a shelf the user deletes: not by a crash, a rollback, a recovery in
\* another window or a cleanup (shelfService.ts:557-589, 614-632).
NothingLost ==
  [][\A c \in Change \ touched' : Somewhere(c) => Somewhere(c)']_shelfVars

\* A written generation is never changed, and the pointer only advances (store.ts:237-270).
GenerationsStand ==
  [][\A s \in Shelf :
       current'[s] # 0 =>
         /\ current'[s] >= current[s]
         /\ \A g \in Gen : manifests[s][g] # None => manifests'[s][g] = manifests[s][g]]_shelfVars

\* An entry is on record as applied only if it was: its content is in the worktree, or was
\* before the user changed it or shelved it again (shelfService.ts:194-216).
GhostsWereApplied ==
  [][\A s \in Shelf : current[s] # 0 /\ Manifested(s)' /\ Manifested(s) =>
       \A c \in Now(s)'.applied \ Now(s).applied : c \in touched \/ local[c] \in {"mine", "merged"}]_shelfVars

\* A request submitted again is not carried out again (store.ts:389-424).
TokenOnce == wrong = {} => \A t \in Token : Cardinality(made[t]) <= 1

\* The catalog lists what is on disk (store.ts:569-577, 378-385, 405-411).
CatalogMatches == wrong = {} /\ Free => catalog.shelves = Listed

\* Recovery that cannot delete a shelf now leaves what a later one needs to: "Stop at the first
\* failed deletion so later recovery shelves remain available for retry" (shelfService.ts:569).
CancelledCanBeDropped ==
  \A s \in cancelled : Manifested(s) =>
    \/ journal[s] = "pending"
    \/ \E w \in Window : s \in resuming[w].left
    \/ op # Idle /\ op.shelf = s

=============================================================================
