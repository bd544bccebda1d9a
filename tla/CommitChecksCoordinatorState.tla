-------------------- MODULE CommitChecksCoordinatorState --------------------
(***************************************************************************)
(* What services/commitChecks/coordinator.ts and the graph that asks it    *)
(* for badges keep, and what has to hold of it.  CommitChecksCoordinator   *)
(* has the steps.                                                          *)
(***************************************************************************)
EXTENDS Naturals, FiniteSets

CONSTANTS
  Repo,
  Row,             \* the rows of a page
  Hosted,          \* the repositories whose remote has an enabled provider
  Unpushed,        \* the rows that are not pushed
  Request,         \* requestVisibleCommitChecks under way at a time
  NoMatch,         \* undefined
  Fanout,          \* COMMIT_CHECK_FANOUT_LIMIT
  LateReplyClears, \* TRUE: UndockedViewProvider, FALSE: CommitGraphViewProvider
  MaxEvents        \* bound: switches, refreshes, credential changes, scrolls and retries

ASSUME CoordinatorAssumption ==
  /\ Repo # {} /\ Hosted \subseteq Repo /\ IsFiniteSet(Row)
  /\ NoMatch \notin Repo \cup (Request \X Row)
  /\ Repo \cap {"blank", "loading", "none", "unavailable"} = {}
  /\ Fanout \in Nat /\ LateReplyClears \in BOOLEAN /\ MaxEvents \in Nat

VARIABLES
  root,     \* the selected repository, which the executor's commands run in
  memo,     \* the memoized match, NoMatch: not resolved
  resolutionInFlight,  \* the task whose search others await
  scope,    \* the repository of loadedCommitHashes
  request,  \* what each request asks for, see RequestRecord
  task,     \* the task of each row of a request, see TaskRecord
  badge,    \* what the webview shows for each commit
  wanted,   \* whether the webview has yet to ask for the page it received
  stale,    \* whether credentials changed and the graph is yet to be refreshed
  events

badgesVars == <<root, memo, resolutionInFlight, scope, request, task, badge, wanted, stale,
               events>>

RowTask == Request \X Row

RequestRecord == [repo : Repo, current : BOOLEAN]

TaskRecord ==
  [phase : {"idle", "todo", "searching", "answered", "joined", "fetching"},
   current : BOOLEAN,               \* providerGeneration is as it was at the start
   cached : BOOLEAN,                \* commitChecksGeneration is as it was at the start
   search : RowTask \cup {NoMatch}, \* the search it joined
   got : Repo \cup {NoMatch}]       \* the match it found

\* The rows of a request whose task a worker has claimed.
Working(q) == {h \in Row : task[<<q, h>>].phase \notin {"idle", "todo"}}

BadgesTypeOK ==
  /\ root \in Repo
  /\ memo \in Repo \cup {NoMatch}
  /\ resolutionInFlight \in RowTask \cup {NoMatch}
  /\ scope \in Repo \cup {NoMatch}
  /\ request \in [Request -> RequestRecord]
  /\ task \in [RowTask -> TaskRecord]
  /\ badge \in [Repo \X Row -> Repo \cup {"blank", "loading", "none", "unavailable"}]
  /\ wanted \in BOOLEAN /\ stale \in BOOLEAN
  /\ events \in 0..MaxEvents
  /\ \A q \in Request : Cardinality(Working(q)) <= Fanout

RowOf(t) == <<request[t[1]].repo, t[2]>>

-----------------------------------------------------------------------------
\* A match found for one repository never badges a commit of another, however a switch
\* falls between the search, its joiners and the fetch (coordinator.ts:136-140, 178-182).
BadgesOfTheirRepository ==
  \A c \in DOMAIN badge : badge[c] \in Repo => badge[c] = c[1]

\* Tasks of one generation share one search (coordinator.ts:53-58): no two searches that
\* could both be memoized, and none that others join after its generation is over.
OneSearchPerGeneration ==
  LET current == {t \in RowTask : task[t].phase \in {"searching", "answered"} /\ task[t].current}
  IN /\ \A t, u \in current : t = u
     /\ resolutionInFlight # NoMatch => current = {resolutionInFlight}

\* A pushed commit of a hosted repository whose badge says that it has no checks
\* (coordinator.ts:139 answers so when the generation moved under the call) is asked for
\* again: a refresh, a request of the webview or a task of the current demand is due.
NoneIsAskedAgain ==
  \A c \in DOMAIN badge :
    (badge[c] = "none" /\ c[1] = scope /\ c[1] \in Hosted /\ c[2] \notin Unpushed) =>
      stale \/ wanted \/ \E t \in RowTask :
        RowOf(t) = c /\ request[t[1]].current /\ task[t].phase # "idle"

\* A badge is of its repository, whatever is switched while its provider is looked for; tasks of
\* one generation share one search; and a commit left without an answer is asked for again
\* (coordinator.ts:53-58, 136-140, 178-190; UndockedViewProvider.ts:1605-1673).
BadgesAreCurrent ==
  /\ BadgesTypeOK /\ BadgesOfTheirRepository /\ OneSearchPerGeneration /\ NoneIsAskedAgain

=============================================================================
