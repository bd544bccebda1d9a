----------------------- MODULE CommitChecksCoordinator -----------------------
(***************************************************************************)
(* services/commitChecks/coordinator.ts under the demand of a graph        *)
(* (views/UndockedViewProvider.ts and CommitGraphViewProvider.ts, fanned   *)
(* out by views/commitCheckFanout.ts): the rows on screen ask for their    *)
(* badges, a task per row resolves the provider of the repository's remote *)
(* and fetches the snapshot, while repositories are switched, pages are    *)
(* reloaded and credentials change.                                        *)
(*                                                                         *)
(* The generations of the code (providerGeneration, commitChecksGeneration,*)
(* commitCheckDemandSeq) are only ever compared with the value captured    *)
(* when something began, so what is kept is whether they are still equal.  *)
(* The match of a provider is named by the repository whose remote it is.  *)
(***************************************************************************)
EXTENDS CommitChecksCoordinatorState

Idle == [phase |-> "idle", current |-> FALSE, cached |-> FALSE, search |-> NoMatch, got |-> NoMatch]

Init ==
  /\ root = CHOOSE r \in Repo : TRUE
  /\ memo = NoMatch /\ resolutionInFlight = NoMatch /\ scope = NoMatch
  /\ request = [q \in Request |-> [repo |-> root, current |-> FALSE]]
  /\ task = [t \in RowTask |-> Idle]
  /\ badge = [c \in Repo \X Row |-> "blank"]
  /\ wanted = FALSE /\ stale = FALSE /\ events = 0

Event == events < MaxEvents /\ events' = events + 1

\* clearProviderResolution, tasks being the tasks otherwise.
ClearProviderResolution(tasks) ==
  /\ memo' = NoMatch /\ resolutionInFlight' = NoMatch
  /\ task' = [t \in RowTask |-> IF tasks[t].phase = "idle" THEN Idle
                             ELSE [tasks[t] EXCEPT !.current = FALSE]]

\* commitCheckDemandSeq moves: no row of an earlier request is started any more.
Superseded == [q \in Request |-> [request[q] EXCEPT !.current = FALSE]]
Unstarted == [t \in RowTask |-> IF task[t].phase = "todo" THEN Idle ELSE task[t]]

\* ++commitChecksGeneration besides.
Uncached == [t \in RowTask |-> [Unstarted[t] EXCEPT !.cached = FALSE]]

-----------------------------------------------------------------------------
\* applyRepositoryRoot and resetRepositoryScopedState, or setActiveRepository and resetFilters.
Select(r) ==
  /\ r # root /\ Event
  /\ root' = r /\ scope' = NoMatch /\ wanted' = FALSE
  /\ request' = Superseded
  /\ ClearProviderResolution(Uncached)
  /\ UNCHANGED <<badge, stale>>

\* The first page of the selected repository: replaceCommitCheckHashScope.
Load ==
  /\ scope = root /\ ~stale => Event
  /\ scope # root \/ stale => UNCHANGED events
  /\ scope' = root /\ wanted' = TRUE /\ stale' = FALSE
  /\ request' = Superseded /\ task' = Unstarted
  /\ UNCHANGED <<root, memo, resolutionInFlight, badge>>

\* clearChecksCache: credentials changed, a refresh follows.  The demand of a graph
\* view survives it.
ClearChecksCache ==
  /\ Event /\ stale' = TRUE
  /\ ClearProviderResolution([t \in RowTask |-> [task[t] EXCEPT !.cached = FALSE]])
  /\ UNCHANGED <<root, scope, request, badge, wanted>>

\* sendVisibleCommitChecksRequest for the rows the webview shows: a demand of its own,
\* after the page it received or a scroll.
Ask(q) ==
  /\ scope # NoMatch
  /\ \A h \in Row : task[<<q, h>>].phase = "idle"
  /\ IF wanted THEN UNCHANGED events ELSE Event
  /\ wanted' = FALSE
  /\ request' = [Superseded EXCEPT ![q] = [repo |-> scope, current |-> TRUE]]
  /\ task' = [t \in RowTask |-> IF t[1] = q THEN [Idle EXCEPT !.phase = "todo"] ELSE Unstarted[t]]
  /\ badge' = [c \in DOMAIN badge |->
                 IF c[1] = scope /\ badge[c] = "blank" THEN "loading" ELSE badge[c]]
  /\ UNCHANGED <<root, memo, resolutionInFlight, scope, stale>>

\* The same with force: a retry joins the demand under way.
Retry(q, h) ==
  /\ scope # NoMatch /\ ~wanted /\ Event
  /\ \A j \in Row : task[<<q, j>>].phase = "idle"
  /\ badge[<<scope, h>>] \notin {"blank", "loading", "unavailable"}
  /\ request' = [request EXCEPT ![q] = [repo |-> scope, current |-> TRUE]]
  /\ task' = [task EXCEPT ![<<q, h>>].phase = "todo"]
  /\ UNCHANGED <<root, memo, resolutionInFlight, scope, badge, wanted, stale>>

-----------------------------------------------------------------------------
\* sendCommitChecks once getChecks has answered ts: who may post, and whether the answer
\* of an earlier generation clears the resolution once more.
Clears(ts) == LateReplyClears /\ \E t \in ts : ~task[t].cached

Posts(t) == request[t[1]].current /\ (LateReplyClears => task[t].cached)

Answer(ts, value, tasks) ==
  /\ badge' = [c \in DOMAIN badge |->
                 IF \E t \in ts : Posts(t) /\ RowOf(t) = c THEN value ELSE badge[c]]
  /\ Clears(ts) => ClearProviderResolution(tasks)

Ended(ts) == [t \in RowTask |-> IF t \in ts THEN Idle ELSE task[t]]

\* resolveProvider while the match is not memoized.
Await(t, begun) ==
  IF resolutionInFlight # NoMatch
  THEN /\ task' = [task EXCEPT ![t] =
                     [begun EXCEPT !.phase = "joined", !.search = resolutionInFlight]]
       /\ UNCHANGED resolutionInFlight
  ELSE /\ task' = [task EXCEPT ![t] = [begun EXCEPT !.phase = "searching"]]
       /\ resolutionInFlight' = t

\* A worker of the fan-out claims a row: sendCommitChecksIfCheckable up to its first await.
Claim(t) ==
  /\ task[t].phase = "todo"
  /\ Cardinality(Working(t[1])) < Fanout
  /\ LET begun == [Idle EXCEPT !.current = TRUE, !.cached = TRUE] IN
     \/ /\ scope # request[t[1]].repo
        /\ task' = Ended({t})
        /\ UNCHANGED <<resolutionInFlight, badge>>
     \/ /\ scope = request[t[1]].repo /\ t[2] \in Unpushed
        /\ task' = Ended({t})
        /\ badge' = [badge EXCEPT ![RowOf(t)] = "none"]
        /\ UNCHANGED resolutionInFlight
     \/ /\ scope = request[t[1]].repo /\ t[2] \notin Unpushed
        /\ memo = NoMatch
        /\ Await(t, begun)
        /\ UNCHANGED badge
     \/ /\ scope = request[t[1]].repo /\ t[2] \notin Unpushed
        /\ memo \in Hosted
        /\ task' = [task EXCEPT ![t] = [begun EXCEPT !.phase = "fetching", !.got = memo]]
        /\ UNCHANGED <<resolutionInFlight, badge>>
     \/ /\ scope = request[t[1]].repo /\ t[2] \notin Unpushed
        /\ memo \in Repo \ Hosted
        /\ task' = Ended({t})
        /\ badge' = [badge EXCEPT ![RowOf(t)] = "none"]
        /\ UNCHANGED resolutionInFlight
  /\ UNCHANGED <<root, memo, scope, request, wanted, stale, events>>

\* findProviderMatch has read the remote of the repository selected at that moment.
ReadRemotes(t) ==
  /\ task[t].phase = "searching"
  /\ task' = [task EXCEPT ![t].phase = "answered", ![t].got = root]
  /\ UNCHANGED <<root, memo, resolutionInFlight, scope, request, badge, wanted, stale, events>>

Awaiting(t) == {t} \cup {u \in RowTask : task[u].phase = "joined" /\ task[u].search = t}

\* Mutant: what a superseded search found is memoized.
MemoizeAny(t) == memo' = task[t].got

\* resolveProvider after its await: the generation guard.
Memoize(t) == memo' = IF task[t].current THEN task[t].got ELSE memo

\* The search is over: the match is memoized unless the generation moved, and everyone
\* who awaited it goes on.
EndSearch(t) ==
  /\ task[t].phase = "answered"
  /\ LET got == task[t].got
         onward == {u \in Awaiting(t) : task[u].current /\ got \in Hosted}
         after == [u \in RowTask |->
                     IF u \in onward
                     THEN [task[u] EXCEPT !.phase = "fetching", !.search = NoMatch, !.got = got]
                     ELSE Ended(Awaiting(t))[u]]
     IN /\ Answer(Awaiting(t) \ onward, "none", after)
        /\ ~Clears(Awaiting(t) \ onward) =>
             /\ task' = after
             /\ Memoize(t)
             /\ resolutionInFlight' = IF resolutionInFlight = t THEN NoMatch ELSE resolutionInFlight
  /\ UNCHANGED <<root, scope, request, wanted, stale, events>>

\* Git failed: everyone who awaited the search is told so, and nothing is memoized.
FailSearch(t) ==
  /\ task[t].phase \in {"searching", "answered"}
  /\ Answer(Awaiting(t), "unavailable", Ended(Awaiting(t)))
  /\ ~Clears(Awaiting(t)) =>
       /\ task' = Ended(Awaiting(t))
       /\ resolutionInFlight' = IF resolutionInFlight = t THEN NoMatch ELSE resolutionInFlight
       /\ UNCHANGED memo
  /\ UNCHANGED <<root, scope, request, wanted, stale, events>>

\* The shared service has a snapshot.
Fetched(t) ==
  /\ task[t].phase = "fetching"
  /\ Answer({t}, task[t].got, Ended({t}))
  /\ ~Clears({t}) => task' = Ended({t}) /\ UNCHANGED <<memo, resolutionInFlight>>
  /\ UNCHANGED <<root, scope, request, wanted, stale, events>>

Next ==
  \/ \E r \in Repo : Select(r)
  \/ Load \/ ClearChecksCache
  \/ \E q \in Request : Ask(q) \/ \E h \in Row : Retry(q, h)
  \/ \E t \in RowTask : Claim(t) \/ ReadRemotes(t) \/ EndSearch(t) \/ FailSearch(t) \/ Fetched(t)

Spec == Init /\ [][Next]_badgesVars

Progress(t) == Claim(t) \/ ReadRemotes(t) \/ EndSearch(t) \/ Fetched(t)
Refresh == (scope # root \/ stale) /\ Load
AskAgain == wanted /\ \E q \in Request : Ask(q)

FairSpec ==
  /\ Spec /\ WF_badgesVars(Refresh) /\ WF_badgesVars(AskAgain)
  /\ \A t \in RowTask : WF_badgesVars(Progress(t))

-----------------------------------------------------------------------------
\* A badge that shows a spinner gets its answer while its repository is shown, although
\* a moved demand drops what is under way (UndockedViewProvider.ts:1610-1619).
EveryBadgeSettles ==
  \A c \in Repo \X Row :
    []<>(badge[c] # "loading" \/ scope # c[1])

=============================================================================
