-------------------------- MODULE CommitPanelRefresh --------------------------
(***************************************************************************)
(* The commit panel's refreshes: views/CommitPanelViewProvider.ts, which   *)
(* keeps a runtime per repository and posts it to the webview, the timers  *)
(* of views/RefreshService.ts, the choice of a stash (panelFileActions.ts) *)
(* and what the webview keeps of the posts (useExtensionMessages.ts).      *)
(*                                                                         *)
(* A repository is the version of its working tree and operation, counted  *)
(* by the edits made to it; its list of stashes stays.  Reads of git and   *)
(* of icons take a step each, and interleave.                              *)
(***************************************************************************)
EXTENDS Naturals, FiniteSets

CONSTANTS
  Repo,
  Stash,
  First,    \* the first stash listed
  Slot,     \* refreshes, scans and selections of a repository under way at a time
  None,
  MaxEvents \* bound: edits, switches, selections, expansions, user refreshes and failures

VARIABLES
  git,      \* the version of each repository
  active,   \* activeRepositoryRoot
  expanded, \* expandedRepositoryRoots
  due,      \* the repositories with a refresh scheduled
  runtime,  \* files and selected stash, per repository
  jobs,     \* what is under way, see Job
  view,     \* what the webview shows
  events

vars == <<git, active, expanded, due, runtime, jobs, view, events>>

Version == 0..MaxEvents
Choice == Stash \cup {None}

Job ==
  [kind : {"refresh", "scan", "stash"},
   current : BOOLEAN, \* what it was counted as is still dataRefreshSeq, or countRefreshSeq
   silent : BOOLEAN, polled : BOOLEAN,
   step : {"status", "selection", "apply", "snapshot", "post", "settle"},
   files : Version, pick : Choice, operation : Version]

TypeOK ==
  /\ git \in [Repo -> Version]
  /\ active \in Repo /\ expanded \subseteq Repo /\ due \subseteq Repo
  /\ runtime \in [Repo -> [files : Version, selected : Choice]]
  /\ jobs \in [Repo -> [Slot -> Job \cup {None}]]
  /\ \A r \in Repo : \A s, t \in Slot :
       /\ jobs[r][s] # None /\ jobs[r][t] # None
       /\ jobs[r][s].kind = "refresh" /\ jobs[r][t].kind = "refresh"
       /\ jobs[r][s].current /\ jobs[r][t].current
       => s = t
  /\ view \in [Repo -> [files : Version, selected : Choice, operation : Version,
                        refreshing : BOOLEAN]]

Init ==
  /\ git = [r \in Repo |-> 0]
  /\ active = CHOOSE r \in Repo : TRUE
  /\ expanded = {} /\ due = {}
  /\ runtime = [r \in Repo |-> [files |-> 0, selected |-> First]]
  /\ jobs = [r \in Repo |-> [s \in Slot |-> None]]
  /\ view = [r \in Repo |-> [files |-> 0, selected |-> First, operation |-> 0,
                             refreshing |-> FALSE]]
  /\ events = 0

Event == events < MaxEvents /\ events' = events + 1

\* watchedRuntimes
Watched == {active} \cup expanded

Under(r, s, kind, step) == jobs[r][s] # None /\ jobs[r][s].kind = kind /\ jobs[r][s].step = step

NewJob(kind, step) ==
  [kind |-> kind, current |-> TRUE, silent |-> TRUE, polled |-> FALSE, step |-> step,
   files |-> 0, pick |-> None, operation |-> 0]

\* The jobs of r once one of the given kinds counts, whose number was the latest, no longer.
Outdated(r, kinds) ==
  [s \in Slot |-> IF jobs[r][s] # None /\ jobs[r][s].kind \in kinds
                  THEN [jobs[r][s] EXCEPT !.current = FALSE] ELSE jobs[r][s]]

HasFree(r) == \E s \in Slot : jobs[r][s] = None
Free(r) == CHOOSE s \in Slot : jobs[r][s] = None

Set(r, s, job) == jobs' = [jobs EXCEPT ![r][s] = job]

-----------------------------------------------------------------------------
\* refreshRepositoryData up to its first await, for every repository of R.
BeginAll(R, silent, polled) ==
  /\ \A r \in R : HasFree(r)
  /\ jobs' = [r \in Repo |->
               IF r \in R
               THEN [Outdated(r, {"refresh", "scan"}) EXCEPT ![Free(r)] =
                      [NewJob("refresh", "status") EXCEPT !.silent = silent, !.polled = polled]]
               ELSE jobs[r]]
  /\ view' = [r \in Repo |-> [view[r] EXCEPT !.refreshing = @ \/ (r \in R /\ ~silent)]]

\* getStatus of a refresh, and of a scan.
ReadStatus(r, s) ==
  /\ jobs[r][s] # None /\ jobs[r][s].step = "status"
  /\ Set(r, s, [jobs[r][s] EXCEPT !.files = git[r],
                                  !.step = IF @ = "status" /\ jobs[r][s].kind = "scan"
                                           THEN "apply" ELSE "selection"])
  /\ UNCHANGED <<git, active, expanded, due, runtime, view, events>>

\* The stashes are listed, and the selected one is kept or replaced.
ReadSelection(r, s) ==
  /\ Under(r, s, "refresh", "selection")
  /\ Set(r, s, [jobs[r][s] EXCEPT !.step = "apply",
                                  !.pick = IF runtime[r].selected \in Stash
                                           THEN runtime[r].selected ELSE First])
  /\ UNCHANGED <<git, active, expanded, due, runtime, view, events>>

\* What remains of a refresh: a visible one stays to settle its spinner.
Rest(job) == IF job.kind = "refresh" /\ ~job.silent THEN [job EXCEPT !.step = "settle"] ELSE None

\* Mutant: a refresh that was overtaken applies what it read.
ApplyLate(r, s) ==
  /\ Under(r, s, "refresh", "apply")
  /\ runtime' = [runtime EXCEPT ![r] = [files |-> jobs[r][s].files, selected |-> jobs[r][s].pick]]
  /\ Set(r, s, [jobs[r][s] EXCEPT !.step = "snapshot"])
  /\ UNCHANGED <<git, active, expanded, due, view, events>>

\* Mutant: a refresh that reads what the provider already has is not posted.
ApplyUnlessKnown(r, s) ==
  /\ Under(r, s, "refresh", "apply")
  /\ LET read == [files |-> jobs[r][s].files, selected |-> jobs[r][s].pick] IN
     IF jobs[r][s].current /\ runtime[r] # read
     THEN /\ runtime' = [runtime EXCEPT ![r] = read]
          /\ Set(r, s, [jobs[r][s] EXCEPT !.step = "snapshot"])
     ELSE Set(r, s, Rest(jobs[r][s])) /\ UNCHANGED runtime
  /\ UNCHANGED <<git, active, expanded, due, view, events>>

\* The reads of a refresh have arrived: the latest is applied, others are dropped.
Apply(r, s) ==
  /\ Under(r, s, "refresh", "apply")
  /\ IF jobs[r][s].current
     THEN /\ runtime' = [runtime EXCEPT ![r] = [files |-> jobs[r][s].files,
                                                selected |-> jobs[r][s].pick]]
          /\ Set(r, s, [jobs[r][s] EXCEPT !.step = "snapshot"])
     ELSE Set(r, s, Rest(jobs[r][s])) /\ UNCHANGED runtime
  /\ UNCHANGED <<git, active, expanded, due, view, events>>

\* operationSnapshotForRuntime of a refresh or of a selected stash.
ReadOperation(r, s) ==
  /\ jobs[r][s] # None /\ jobs[r][s].step = "snapshot"
  /\ Set(r, s, [jobs[r][s] EXCEPT !.operation = git[r], !.step = "post"])
  /\ UNCHANGED <<git, active, expanded, due, runtime, view, events>>

\* Mutant: an update leaves the spinner to the refresh that started it.
PostSpinning(r, s) ==
  /\ Under(r, s, "refresh", "post")
  /\ view' = [view EXCEPT ![r] = [files |-> runtime[r].files, selected |-> runtime[r].selected,
                                  operation |-> jobs[r][s].operation, refreshing |-> @.refreshing]]
  /\ Set(r, s, Rest(jobs[r][s]))
  /\ UNCHANGED <<git, active, expanded, due, runtime, events>>

\* The update of a refresh is posted, and shown.
Post(r, s) ==
  /\ Under(r, s, "refresh", "post")
  /\ view' = [view EXCEPT ![r] = [files |-> runtime[r].files, selected |-> runtime[r].selected,
                                  operation |-> jobs[r][s].operation, refreshing |-> FALSE]]
  /\ Set(r, s, Rest(jobs[r][s]))
  /\ UNCHANGED <<git, active, expanded, due, runtime, events>>

\* getStatus fails: what is left is the finally block.
Fail(r, s) ==
  /\ Event
  /\ jobs[r][s] # None /\ jobs[r][s].step = "status"
  /\ Set(r, s, Rest(jobs[r][s]))
  /\ UNCHANGED <<git, active, expanded, due, runtime, view>>

\* The finally block of a visible refresh, once its spinner has been seen.
Settle(r, s) ==
  /\ Under(r, s, "refresh", "settle")
  /\ Set(r, s, None)
  /\ view' = IF jobs[r][s].current THEN [view EXCEPT ![r].refreshing = FALSE] ELSE view
  /\ UNCHANGED <<git, active, expanded, due, runtime, events>>

\* scanRepositoryFileCount once git has answered.
EndScan(r, s) ==
  /\ Under(r, s, "scan", "apply")
  /\ runtime' = IF jobs[r][s].current THEN [runtime EXCEPT ![r].files = jobs[r][s].files]
                                      ELSE runtime
  /\ Set(r, s, None)
  /\ UNCHANGED <<git, active, expanded, due, view, events>>

-----------------------------------------------------------------------------
\* selectStashFromPanel up to its first await: the files are taken now.
SelectStash(r, stash) ==
  /\ Event
  /\ HasFree(r)
  /\ Set(r, Free(r), [NewJob("stash", "apply") EXCEPT !.pick = stash, !.files = runtime[r].files])
  /\ UNCHANGED <<git, active, expanded, due, runtime, view>>

\* setStashState
SetStashState(r, s) ==
  /\ Under(r, s, "stash", "apply")
  /\ runtime' = [runtime EXCEPT ![r].selected = jobs[r][s].pick]
  /\ Set(r, s, [jobs[r][s] EXCEPT !.step = "snapshot"])
  /\ UNCHANGED <<git, active, expanded, due, view, events>>

\* The update of a selected stash is posted, with the files it began with.
PostStash(r, s) ==
  /\ Under(r, s, "stash", "post")
  /\ view' = [view EXCEPT ![r] = [files |-> jobs[r][s].files, selected |-> jobs[r][s].pick,
                                  operation |-> jobs[r][s].operation, refreshing |-> @.refreshing]]
  /\ Set(r, s, None)
  /\ UNCHANGED <<git, active, expanded, due, runtime, events>>

-----------------------------------------------------------------------------
\* A change of the working tree, which the watchers of a shown repository report.
Edit(r) ==
  /\ Event
  /\ git' = [git EXCEPT ![r] = @ + 1]
  /\ due' = due \cup ({r} \cap Watched)
  /\ UNCHANGED <<active, expanded, runtime, jobs, view>>

\* The light timer of the active repository, or of an expanded row, and the refresh that
\* ends a switch.
Fire(r) ==
  /\ r \in due
  /\ due' = due \ {r}
  /\ BeginAll(IF r = active THEN Watched ELSE {r} \cap expanded, TRUE, FALSE)
  /\ UNCHANGED <<git, active, expanded, runtime, events>>

\* registerPollingRefresh: one polled refresh at a time.
Poll ==
  /\ \A r \in Repo, s \in Slot : jobs[r][s] # None => ~jobs[r][s].polled
  /\ BeginAll(Watched, TRUE, TRUE)
  /\ UNCHANGED <<git, active, expanded, due, runtime, events>>

\* refreshFromUserAction
UserRefresh(r) ==
  /\ Event
  /\ BeginAll({r}, FALSE, FALSE)
  /\ UNCHANGED <<git, active, expanded, due, runtime>>

\* setExpandedRepositories: a row that is expanded is read, one that is collapsed loses its
\* timer.
Expand(r) ==
  /\ Event
  /\ r \notin expanded
  /\ expanded' = expanded \cup {r}
  /\ BeginAll({r}, TRUE, FALSE)
  /\ UNCHANGED <<git, active, due, runtime>>

Collapse(r) ==
  /\ Event
  /\ r \in expanded
  /\ expanded' = expanded \ {r}
  /\ due' = due \ ({r} \ {active})
  /\ UNCHANGED <<git, active, runtime, jobs, view>>

\* setRepositoryRootUri: what was read of the previous repository is outdated, the files of
\* the next are scanned, and a refresh ends the switch.
Switch(r) ==
  /\ Event
  /\ r # active
  /\ active' = r
  /\ due' = (due \ {active}) \cup {r}
  /\ HasFree(r)
  /\ jobs' = [jobs EXCEPT ![active] = Outdated(active, {"refresh", "scan"}),
                          ![r] = [Outdated(r, {"scan"}) EXCEPT ![Free(r)] =
                                    NewJob("scan", "status")]]
  /\ UNCHANGED <<git, expanded, runtime, view>>

Next ==
  \/ \E r \in Repo :
       \/ Edit(r) \/ Fire(r) \/ UserRefresh(r) \/ Expand(r) \/ Collapse(r) \/ Switch(r)
       \/ \E stash \in Stash : SelectStash(r, stash)
       \/ \E s \in Slot :
            \/ ReadStatus(r, s) \/ ReadSelection(r, s) \/ Apply(r, s) \/ ReadOperation(r, s)
            \/ Post(r, s) \/ Fail(r, s) \/ Settle(r, s) \/ EndScan(r, s)
            \/ SetStashState(r, s) \/ PostStash(r, s)
  \/ Poll

Spec == Init /\ [][Next]_vars

Advance(r, s) ==
  \/ ReadStatus(r, s) \/ ReadSelection(r, s) \/ Apply(r, s) \/ ReadOperation(r, s)
  \/ Post(r, s) \/ Settle(r, s) \/ EndScan(r, s) \/ SetStashState(r, s) \/ PostStash(r, s)

\* Git answers, and timers fire.
FairSpec ==
  /\ Spec /\ WF_vars(Poll)
  /\ \A r \in Repo : WF_vars(Fire(r)) /\ \A s \in Slot : WF_vars(Advance(r, s))

-----------------------------------------------------------------------------
\* Among refreshes of one repository, what is applied is never older than what a later one
\* has applied: an overtaken refresh is dropped (CommitPanelViewProvider.ts:1368, 1429).
OvertakenAreDropped ==
  [][\A r \in Repo, s \in Slot :
       Under(r, s, "refresh", "apply") /\ runtime'[r] # runtime[r] /\ jobs'[r][s] # jobs[r][s] =>
         \A t \in Slot \ {s} : jobs[r][t] # None /\ jobs[r][t].kind = "refresh" =>
                                 ~jobs[r][t].current]_vars

\* Whatever is overtaken, fails or is answered with old files, a row that stays in sight comes
\* to show its working tree (RefreshService.ts:185-198, CommitPanelViewProvider.ts:806-832).
LatestIsShown ==
  \A r \in Repo : r \in Watched ~> (r \notin Watched \/ view[r].files = git[r])

\* The row is out of sight or its spinner stands still: this comes true again and again, though
\* the refresh that started the spinner was overtaken or failed
\* (CommitPanelViewProvider.ts:1453-1462, useExtensionMessages.ts:332).
Still(r) == r \notin Watched \/ ~view[r].refreshing

\* What the documentation of refreshData says ("The selected stash is preserved when it still
\* exists"): only the user's choice changes the selected stash.
SelectionPreserved ==
  [][\A r \in Repo :
       runtime'[r].selected # runtime[r].selected =>
         \E s \in Slot : Under(r, s, "stash", "apply") /\ jobs'[r][s] # jobs[r][s]]_vars

\* What the documentation of refreshRepositoryData says ("Request sequencing prevents stale
\* async responses from overwriting a later refresh"): no update shows an older operation.
OperationsInOrder == [][\A r \in Repo : view'[r].operation >= view[r].operation]_vars

=============================================================================
