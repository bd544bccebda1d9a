--------------------------- MODULE RepositorySwitch ---------------------------
(* Which repository a window works on, and what its views show of it              *)
(* (activation/repositoryMode.ts, services/worktreeService.ts, the full refresh   *)
(* of views/RefreshService.ts, the repositories of views/UndockedViewProvider     *)
(* .ts).  The docked views share one executor; the undocked panel has its own.    *)
(* A switch points an executor elsewhere at once and reads branches and worktrees *)
(* after; each read is one git command, which runs where its executor points when *)
(* a process slot is free for it.  Reads of a switch are guarded by the sequence  *)
(* numbers; those of a refresh are not.                                           *)
(*                                                                                *)
(* Branches, worktrees and cached paths are told apart by the repository they     *)
(* were read in.  The workspace keeps at least one repository.                    *)
EXTENDS Naturals, Sequences

CONSTANTS
  Repo, None,
  Load,      \* loads of branches and worktrees under way at a time
  MaxEvents  \* bound: switches, refreshes, discoveries, panels opened and closed, clicks

VARIABLES
  known,  \* the repositories discovered in the workspace
  root,   \* per surface, the repository its executor points at: activeRepository, and
          \* undockedSelectedRepositoryRoot
  cache,  \* per surface, of which repository its WorktreeService has the worktrees
  shown,  \* per surface, the branches it shows, see View
  open,   \* whether there is an undocked panel
  listed, \* undockedBranches, in which the host looks up the names the panel sends
  stored, \* the selection in the workspace state
  load,   \* the loads under way, see LoadRecord
  writes, \* activeEditorSelectionWrite: the loads that wait to store their selection
  action, \* the branch command that waits to run: where it was clicked, and the repository of
          \* its branch
  failed, \* history: the last switch of the docked views could not read branches
  crossed,\* history: the docked views show what an unguarded load read elsewhere
  events

vars == <<known, root, cache, shown, open, listed, stored, load, writes, action, failed,
          crossed, events>>
viewVars == <<shown, listed, crossed>>

Surface == {"docked", "panel"}
Origin == Repo \cup {None}

\* paths are the worktree paths that decorateBranches adds to branches.
View == [branches : Origin, paths : Origin]
Blank == [branches |-> None, paths |-> None]

Guarded == {"select", "follow", "choose"}
LoadRecord ==
  [kind : Guarded \cup {"initial", "refresh", "full", "load"},
   for : Repo,         \* the root as the load began
   current : BOOLEAN,  \* its shouldContinue
   branches : Origin,  \* None until its command is spawned
   worktrees : Origin,
   step : {"idle", "reading", "read", "queued", "writing"}]  \* of the worktrees, then of the selection

On(l) == IF load[l].kind \in {"choose", "load"} THEN "panel" ELSE "docked"
Is(l, kinds) == load[l] # None /\ load[l].kind \in kinds
Switching(l) == Is(l, {"select", "follow"}) /\ load[l].current

TypeOK ==
  /\ known \in (SUBSET Repo) \ {{}} /\ root \in [Surface -> Repo]
  /\ cache \in [Surface -> Origin] /\ shown \in [Surface -> View]
  /\ open \in BOOLEAN /\ listed \in Origin /\ stored \in Repo
  /\ load \in [Load -> LoadRecord \cup {None}]
  /\ writes \in Seq(Load)
  /\ \A i \in 1..Len(writes) : Is(writes[i], {"follow"}) /\ load[writes[i]].step \in {"queued", "writing"}
  /\ action \in {None} \cup [from : Surface, of : Repo]
  /\ failed \in BOOLEAN /\ crossed \in BOOLEAN
  /\ ~open => shown["panel"] = Blank /\ listed = None /\ \A l \in Load : load[l] = None \/ On(l) = "docked"

Began(kind, r) == [kind |-> kind, for |-> r, current |-> TRUE, branches |-> None,
                   worktrees |-> None, step |-> "idle"]

Event == events < MaxEvents /\ events' = events + 1

\* The loads with one more among them; a load that finds no slot is outside the bound.
Room(loads, n) == n = 0 \/ \E l \in Load : loads[l] = None /\ (n = 1 \/ \E m \in Load \ {l} : loads[m] = None)
Begin(loads, kind, r) ==
  [loads EXCEPT ![CHOOSE l \in Load : loads[l] = None] = Began(kind, r)]

Superseded(loads, kinds) ==
  [l \in Load |-> IF loads[l] # None /\ loads[l].kind \in kinds
                  THEN [loads[l] EXCEPT !.current = FALSE] ELSE loads[l]]

\* Activation with a selection stored, as its first load begins.
Init ==
  /\ known = Repo
  /\ root = [s \in Surface |-> CHOOSE r \in Repo : TRUE]
  /\ stored = root["docked"]
  /\ cache = [s \in Surface |-> None] /\ shown = [s \in Surface |-> Blank]
  /\ open = FALSE /\ listed = None
  /\ load = Begin([l \in Load |-> None], "initial", root["docked"])
  /\ writes = <<>> /\ action = None /\ failed = FALSE /\ crossed = FALSE /\ events = 0

-----------------------------------------------------------------------------
(* Switches. *)

\* setActiveRepository up to its first await, but for the root: a selection is stored at once,
\* that of an editor after its branches have been read.
setActiveRepository(loads, kind, r) ==
  /\ stored' = IF kind = "select" THEN r ELSE stored
  /\ failed' = FALSE
  /\ load' = Begin(Superseded(loads, {"select", "follow"}), kind, r)

\* selectRepository
Select(r) ==
  /\ r \in known /\ Room(load, 1) /\ Event
  /\ root' = [root EXCEPT !["docked"] = r]
  /\ setActiveRepository(load, "select", r)
  /\ UNCHANGED <<known, cache, viewVars, open, writes, action>>

\* updateActiveRepositoryFromEditor
Follow(r) ==
  /\ r \in known /\ r # root["docked"] /\ Room(load, 1) /\ Event
  /\ root' = [root EXCEPT !["docked"] = r]
  /\ setActiveRepository(load, "follow", r)
  /\ UNCHANGED <<known, cache, viewVars, open, writes, action>>

\* setActiveRepositoryRoot of the panel up to its first await.
Choose(r) ==
  /\ open /\ r \in known /\ Room(load, 1) /\ Event
  /\ root' = [root EXCEPT !["panel"] = r]
  /\ shown' = [shown EXCEPT !["panel"] = Blank]
  /\ load' = Begin(Superseded(load, {"choose"}), "choose", r)
  /\ UNCHANGED <<known, cache, open, listed, stored, writes, action, failed, crossed>>

\* refreshDiscoveredRepositories with setKnownRepositories: a surface whose repository is gone
\* falls back, the docked one to the first that is left, the panel to where that is.
Discover(found) ==
  LET lost == root["docked"] \notin found
      moved == root["panel"] \notin found
      reset == moved /\ open
      chosen(r) == IF reset THEN Begin(Superseded(load, {"choose"}), "choose", r) ELSE load IN
  /\ found # known /\ found # {} /\ Event
  /\ Room(load, (IF lost THEN 1 ELSE 0) + (IF reset THEN 1 ELSE 0))
  /\ known' = found
  /\ \E r \in found :
       /\ ~lost => r = root["docked"]
       /\ root' = [docked |-> r, panel |-> IF moved THEN r ELSE root["panel"]]
       /\ \/ lost /\ setActiveRepository(chosen(r), "select", r)
          \/ ~lost /\ load' = chosen(r) /\ UNCHANGED <<stored, failed>>
  /\ shown' = IF reset THEN [shown EXCEPT !["panel"] = Blank] ELSE shown
  /\ UNCHANGED <<cache, open, listed, writes, action, crossed>>

\* intelligit.refresh, and the timer of debouncedFullRefresh.  A timer is cleared with its service,
\* a refresh that has begun goes on; the first load or a switch registers the watchers.
Refresh(kind) ==
  /\ kind = "full" => \A l \in Load : Is(l, {"initial"}) => load[l].for # root["docked"]
  /\ Room(load, 1) /\ Event
  /\ load' = Begin(load, kind, root["docked"])
  /\ UNCHANGED <<known, root, cache, viewVars, open, stored, writes, action, failed>>

\* showUndockedGitLog with ensureUndockedPanel, and loadUndockedData, which actions repeat.
LoadUndocked ==
  /\ Room(load, 1) /\ Event
  /\ open' = TRUE
  /\ LET at == IF open \/ root["panel"] \in known THEN root["panel"] ELSE root["docked"] IN
     root' = [root EXCEPT !["panel"] = at] /\ load' = Begin(load, "load", at)
  /\ cache' = IF open THEN cache ELSE [cache EXCEPT !["panel"] = None]
  /\ UNCHANGED <<known, viewVars, stored, writes, action, failed>>

\* onDidDispose: what is still being read has nowhere to go.
Close ==
  /\ open /\ Event
  /\ open' = FALSE /\ listed' = None /\ shown' = [shown EXCEPT !["panel"] = Blank]
  /\ load' = [l \in Load |-> IF load[l] # None /\ On(l) = "panel" THEN None ELSE load[l]]
  /\ UNCHANGED <<known, root, cache, stored, writes, action, failed, crossed>>

-----------------------------------------------------------------------------
(* Loads. *)

UnchangedByReads == UNCHANGED <<known, root, viewVars, open, stored, writes, action>>

\* A switch that is overtaken while it stores its selection reads nothing.
Drop(l) ==
  /\ Is(l, {"select", "choose"}) /\ ~load[l].current
  /\ load[l].branches = None /\ load[l].step = "idle"
  /\ load' = [load EXCEPT ![l] = None]
  /\ UnchangedByReads /\ UNCHANGED <<cache, failed, events>>

\* getBranches gets its slot; the first load reads worktrees before.
ReadBranches(l) ==
  /\ load[l] # None /\ load[l].branches = None
  /\ load[l].kind = "initial" => load[l].step = "read"
  /\ load' = [load EXCEPT ![l].branches = root[On(l)]]
  /\ UnchangedByReads /\ UNCHANGED <<cache, failed, events>>

\* WorktreeService.refresh up to its result; debouncedFullRefresh reads branches before.
ReadWorktrees(l) ==
  /\ load[l] # None /\ load[l].step = "idle"
  /\ load[l].kind = "full" => load[l].branches # None
  /\ load' = [load EXCEPT ![l].worktrees = root[On(l)], ![l].step = "reading"]
  /\ cache' = [cache EXCEPT ![On(l)] = None]
  /\ UnchangedByReads /\ UNCHANGED <<failed, events>>

\* Its result fills the cache, whatever the cache has been given meanwhile; or git fails, and the
\* load goes on without worktrees.
EndWorktrees(l) ==
  /\ load[l] # None /\ load[l].step = "reading"
  /\ \/ /\ cache' = [cache EXCEPT ![On(l)] = load[l].worktrees]
        /\ load' = [load EXCEPT ![l].step = "read"]
     \/ /\ load' = [load EXCEPT ![l].step = "read", ![l].worktrees = None]
        /\ UNCHANGED cache
  /\ UnchangedByReads /\ UNCHANGED <<failed, events>>

\* getBranches fails, and its load with it; activation is taken to succeed.
Fail(l) ==
  /\ load[l] # None /\ ~Is(l, {"initial"}) /\ load[l].branches # None /\ load[l].step \in {"idle", "read"}
  /\ load' = [load EXCEPT ![l] = None]
  /\ failed' = (failed \/ Switching(l))
  /\ UnchangedByReads /\ UNCHANGED <<cache, events>>

\* Both have been read.
Ready(l, kinds) == Is(l, kinds) /\ load[l].branches # None /\ load[l].step = "read"

\* With decorateBranches: the paths come from whatever the cache holds by now.
Data(l) == [branches |-> load[l].branches, paths |-> cache[On(l)]]

\* The panel follows a refresh of the repository it is on too.
ShareWithPanel(view) ==
  IF open /\ root["panel"] = root["docked"]
  THEN shown' = [docked |-> view, panel |-> view] /\ listed' = view.branches
  ELSE shown' = [shown EXCEPT !["docked"] = view] /\ UNCHANGED listed

UnchangedByData == UNCHANGED <<known, root, cache, open, stored, action, failed, events>>

\* Mutant: what an overtaken switch read is shown.
ApplyActiveAnyway(l) ==
  /\ Ready(l, {"select", "refresh"})
  /\ load' = [load EXCEPT ![l] = None]
  /\ ShareWithPanel(Data(l))
  /\ crossed' = (Is(l, {"refresh"}) /\ Data(l).branches # root["docked"])
  /\ UnchangedByData /\ UNCHANGED writes

\* refreshActiveRepositoryWithGuard after its reads.
ApplyActive(l) ==
  /\ Ready(l, {"select", "refresh"})
  /\ load' = [load EXCEPT ![l] = None]
  /\ IF load[l].current
     THEN /\ ShareWithPanel(Data(l))
          /\ crossed' = (Is(l, {"refresh"}) /\ Data(l).branches # root["docked"])
     ELSE UNCHANGED viewVars
  /\ UnchangedByData /\ UNCHANGED writes

\* The same for the switch of an editor, which stores its selection before the panel follows.
ApplyFollowed(l) ==
  /\ Ready(l, {"follow"})
  /\ IF load[l].current
     THEN /\ shown' = [shown EXCEPT !["docked"] = Data(l)] /\ crossed' = FALSE
          /\ load' = [load EXCEPT ![l].step = "queued"]
          /\ writes' = Append(writes, l)
     ELSE load' = [load EXCEPT ![l] = None] /\ UNCHANGED <<shown, crossed, writes>>
  /\ UnchangedByData /\ UNCHANGED listed

\* persistActiveEditorSelection, one at a time: a selection overtaken before it is stored is
\* dropped, one overtaken while it is stored gives way to that of the active repository.
StoreFollowed ==
  /\ writes # <<>> /\ load[Head(writes)].step = "queued" /\ load[Head(writes)].current
  /\ stored' = load[Head(writes)].for
  /\ load' = [load EXCEPT ![Head(writes)].step = "writing"]
  /\ UNCHANGED <<known, root, cache, viewVars, open, writes, action, failed, events>>

EndFollowed ==
  /\ writes # <<>> /\ (load[Head(writes)].current => load[Head(writes)].step = "writing")
  /\ stored' = IF load[Head(writes)].step = "writing" /\ ~load[Head(writes)].current
               THEN root["docked"] ELSE stored
  /\ IF load[Head(writes)].current
     THEN ShareWithPanel(shown["docked"]) /\ UNCHANGED crossed
     ELSE UNCHANGED viewVars
  /\ load' = [load EXCEPT ![Head(writes)] = None] /\ writes' = Tail(writes)
  /\ UNCHANGED <<known, root, cache, open, action, failed, events>>

\* debouncedFullRefresh and the first load, once read: nothing is asked about the root, and the
\* former passes the branches to the panel.
ApplyUnguarded(l) ==
  /\ Ready(l, {"full", "initial"})
  /\ load' = [load EXCEPT ![l] = None]
  /\ shown' = [docked |-> Data(l),
               panel |-> IF open /\ Is(l, {"full"}) THEN Data(l) ELSE shown["panel"]]
  /\ crossed' = (Data(l).branches # root["docked"])
  /\ UnchangedByData /\ UNCHANGED <<listed, writes>>

\* commitUndockedRepositoryData, which compares roots, and reloadBranches, which asks its guard.
ApplyUndocked(l) ==
  /\ Ready(l, {"choose", "load"})
  /\ load' = [load EXCEPT ![l] = None]
  /\ LET same == load[l].for = root["panel"] IN
     /\ listed' = IF same THEN Data(l).branches ELSE listed
     /\ shown' = IF IF Is(l, {"choose"}) THEN load[l].current ELSE same
                 THEN [shown EXCEPT !["panel"] = Data(l)] ELSE shown
  /\ UnchangedByData /\ UNCHANGED <<crossed, writes>>

-----------------------------------------------------------------------------
(* Commands on branches. *)

\* onBranchAction: the docked views name a branch of currentBranches, which is what they show; the
\* panel sends a name, which the host finds among the branches it keeps.
Click(surface) ==
  /\ shown[surface].branches # None /\ (surface = "panel" => listed # None)
  /\ Event
  /\ action' = [from |-> surface, of |-> shown[surface].branches]
  /\ UNCHANGED <<known, root, cache, viewVars, open, stored, load, writes, failed>>

\* The handlers of branchCommands, confirmed: they run by the shared executor, where it points now.
RunAction ==
  /\ action # None
  /\ action' = None
  /\ UNCHANGED <<known, root, cache, viewVars, open, stored, load, writes, failed, events>>

Progress ==
  \/ \E l \in Load : \/ Drop(l) \/ ReadBranches(l) \/ ReadWorktrees(l) \/ EndWorktrees(l)
                     \/ ApplyActive(l) \/ ApplyFollowed(l) \/ ApplyUnguarded(l) \/ ApplyUndocked(l)
  \/ StoreFollowed \/ EndFollowed

Next ==
  \/ Progress
  \/ \E r \in Repo : Select(r) \/ Follow(r) \/ Choose(r)
  \/ \E found \in SUBSET Repo : Discover(found)
  \/ \E kind \in {"refresh", "full"} : Refresh(kind)
  \/ LoadUndocked \/ Close
  \/ \E l \in Load : Fail(l)
  \/ \E surface \in Surface : Click(surface)
  \/ RunAction

Spec == Init /\ [][Next]_vars

\* Git answers.
FairSpec == Spec /\ WF_vars(Progress)

-----------------------------------------------------------------------------
\* What a switch that is still current has read, it has read in the repository it switched to,
\* whatever waited for a slot (repositoryMode.ts:481-521; UndockedViewProvider.ts:500-553).
CurrentReadsAreOfItsRoot ==
  \A l \in Load :
    Is(l, Guarded) /\ load[l].current =>
      {load[l].branches, load[l].worktrees} \subseteq {None, root[On(l)]} /\ load[l].for = root[On(l)]

\* Once no switch is being loaded the docked views show the active repository, unless its branches
\* could not be read, or a load without guard came last and had read them elsewhere
\* (repositoryMode.ts:481-521, 562-628).
ActiveIsShown ==
  \/ shown["docked"].branches = root["docked"]
  \/ failed \/ crossed
  \/ \E l \in Load : Switching(l) \/ Is(l, {"initial"})

\* However selections by command and by editor overtake each other, the one that is stored is in the
\* end that of the active repository, unless its branches could not be read
\* (repositoryMode.ts:535-553, 596-607).
ActiveIsStored ==
  stored = root["docked"] \/ failed \/ writes # <<>> \/ \E l \in Load : Switching(l)

\* Every load and every write of a selection ends (repositoryMode.ts:535-553).
Settled == writes = <<>> /\ \A l \in Load : load[l] = None

\* What the plan of the undocked window and the documentation of the commands say: a command on a
\* branch that the panel shows runs in the repository the branch is of
\* (src/docs/superpowers/plans/2026-07-07-multi-repo-views-refined.md:516-520;
\* src/src/commands/branchCommands.ts:35-37).
PanelActionsStayHome ==
  [][action # None /\ action.from = "panel" /\ RunAction => root["docked"] = action.of]_vars

=============================================================================
