--------------------------- MODULE CommitGraphPages ---------------------------
(***************************************************************************)
(* The commit graph's pages: views/CommitGraphViewProvider.ts, which reads *)
(* the log page by page, and its webview (webviews/react/CommitGraphPanel  *)
(* .tsx, commit-graph/useCommitGraphMessages.ts), which shows and extends  *)
(* them.  The two exchange messages in order; reads of the log settle in   *)
(* any order, and requestSeq tells the latest from the superseded ones.    *)
(*                                                                         *)
(* A commit is its place in the log of a repository under a filter, and a  *)
(* page holds one.  A switch of repositories is followed by a refresh.     *)
(***************************************************************************)
EXTENDS Naturals, Sequences, FiniteSets, SequencesExt

CONSTANTS
  Repo,
  Filter,    \* branch and text filters
  All,       \* the filter that lets everything pass
  Load,      \* reads of the log under way at a time
  None,
  Depth,     \* the length of every log
  MaxEvents  \* bound: filters, scrolls, refreshes and switches

VARIABLES
  root,        \* the selected repository
  filter,      \* currentBranch and filterText
  offset,
  loadingMore, \* the host's guard
  loaded,      \* loadedCommitHashes
  load,        \* the reads under way, see LoadRecord
  due,         \* whether the refresh after a switch is yet to begin
  toHost,      \* messages to the host, in order
  toView,      \* messages to the webview, in order
  rows,        \* the commits shown
  hasMore,
  viewLoading, \* the webview's guard, also loadingMore
  events

vars == <<root, filter, offset, loadingMore, loaded, load, due, toHost, toView, rows, hasMore,
          viewLoading, events>>
hostVars == <<root, filter, offset, loadingMore, loaded, load, due>>
viewVars == <<rows, hasMore, viewLoading>>

Commit == [repo : Repo, filter : Filter, at : 1..Depth]

LoadRecord ==
  [current : BOOLEAN, \* its requestId is requestSeq
   append : BOOLEAN, repo : Repo, filter : Filter, offset : 0..Depth]

Loaded(page, append) ==
  [type |-> "loadCommits", page |-> page, append |-> append, hasMore |-> page # <<>>]
LoadError == [type |-> "loadError"]

TypeOK ==
  /\ root \in Repo /\ filter \in Filter
  /\ offset \in 0..Depth
  /\ loadingMore \in BOOLEAN /\ due \in BOOLEAN
  /\ loaded \subseteq Commit
  /\ load \in [Load -> LoadRecord \cup {None}]
  /\ \A l, m \in Load : load[l] # None /\ load[m] # None /\ load[l].current /\ load[m].current => l = m
  /\ toHost \in Seq(Filter \cup {"loadMore"})
  /\ \A i \in 1..Len(toView) : toView[i].type \in {"loadCommits", "loadError"}
  /\ rows \in Seq(Commit)
  /\ hasMore \in BOOLEAN /\ viewLoading \in BOOLEAN

Init ==
  /\ root = CHOOSE r \in Repo : TRUE
  /\ filter = All /\ offset = 0 /\ loadingMore = FALSE /\ loaded = {}
  /\ load = [l \in Load |-> None]
  /\ due = TRUE
  /\ toHost = <<>> /\ toView = <<>>
  /\ rows = <<>> /\ hasMore = FALSE /\ viewLoading = FALSE
  /\ events = 0

Event == events < MaxEvents /\ events' = events + 1

\* getLog with an offset: a page of the log, empty past its end.
Page(l) == IF load[l].offset < Depth
           THEN <<[repo |-> load[l].repo, filter |-> load[l].filter, at |-> load[l].offset + 1]>>
           ELSE <<>>

\* ++requestSeq
Superseded == [l \in Load |-> IF load[l] = None THEN None ELSE [load[l] EXCEPT !.current = FALSE]]

-----------------------------------------------------------------------------
\* Mutant: a reload does not count as the latest read.
LoadInitialUncounted(f) ==
  \E l \in Load :
    /\ load[l] = None
    /\ offset' = 0 /\ loadingMore' = FALSE /\ filter' = f
    /\ load' = [load EXCEPT ![l] = [current |-> TRUE, append |-> FALSE, repo |-> root,
                                   filter |-> f, offset |-> 0]]

\* loadInitial up to its first await, under filter f.
LoadInitial(f) ==
  \E l \in Load :
    /\ load[l] = None
    /\ offset' = 0 /\ loadingMore' = FALSE /\ filter' = f
    /\ load' = [Superseded EXCEPT ![l] = [current |-> TRUE, append |-> FALSE, repo |-> root,
                                          filter |-> f, offset |-> 0]]

\* loadMore up to its first await.
LoadMore ==
  \E l \in Load :
    /\ load[l] = None
    /\ loadingMore' = TRUE
    /\ load' = [Superseded EXCEPT ![l] = [current |-> TRUE, append |-> TRUE, repo |-> root,
                                          filter |-> filter, offset |-> offset]]
    /\ UNCHANGED <<offset, filter>>

\* onDidReceiveMessage: filterText, filterBranch and loadMore.
HandleMessage ==
  /\ toHost # <<>>
  /\ toHost' = Tail(toHost)
  /\ \/ Head(toHost) \in Filter /\ LoadInitial(Head(toHost))
     \/ Head(toHost) = "loadMore" /\ ~loadingMore /\ LoadMore
     \/ /\ Head(toHost) = "loadMore" /\ loadingMore
        /\ UNCHANGED <<filter, offset, loadingMore, load>>
  /\ UNCHANGED <<root, loaded, due, toView, viewVars, events>>

\* resetFilters
ResetFilters ==
  /\ filter' = All /\ loaded' = {} /\ due' = TRUE
  /\ load' = Superseded
  /\ UNCHANGED <<offset, loadingMore, toHost, toView, viewVars>>

\* setActiveRepository up to the refresh of its views.
Switch(r) == r # root /\ Event /\ root' = r /\ ResetFilters

\* refresh once theme and branches are read.
Refresh ==
  /\ IF due THEN UNCHANGED events ELSE Event
  /\ due' = FALSE
  /\ LoadInitial(filter)
  /\ UNCHANGED <<root, loaded, toHost, toView, viewVars>>

\* replaceCommitCheckHashScope and addCommitCheckHashScope.
AddCommitCheckHashScope(page, append) ==
  loaded' = IF append THEN loaded \cup ToSet(page) ELSE ToSet(page)

\* loadInitial and loadMore once the log is read, or git failed; what was superseded is
\* dropped, and leaves the guard alone.
EndLoad(l) ==
  /\ load[l] # None
  /\ load' = [load EXCEPT ![l] = None]
  /\ \/ /\ ~load[l].current
        /\ UNCHANGED <<offset, loadingMore, loaded, toView>>
     \/ /\ load[l].current
        /\ offset' = load[l].offset + Len(Page(l))
        /\ loadingMore' = FALSE
        /\ AddCommitCheckHashScope(Page(l), load[l].append)
        /\ toView' = Append(toView, Loaded(Page(l), load[l].append))
  /\ UNCHANGED <<root, filter, due, toHost, viewVars, events>>

FailLoad(l) ==
  /\ load[l] # None /\ Event
  /\ load' = [load EXCEPT ![l] = None]
  /\ IF load[l].current
     THEN toView' = Append(toView, LoadError) /\ loadingMore' = FALSE
     ELSE UNCHANGED <<toView, loadingMore>>
  /\ UNCHANGED <<root, filter, offset, loaded, due, toHost, viewVars>>

-----------------------------------------------------------------------------
\* handleLoadMore, when the list is scrolled to its end.
Scroll ==
  /\ hasMore /\ ~viewLoading /\ Event
  /\ viewLoading' = TRUE
  /\ toHost' = Append(toHost, "loadMore")
  /\ UNCHANGED <<hostVars, toView, rows, hasMore>>

\* handleFilterText and handleSelectBranch.
ChangeFilter(f) ==
  /\ Event
  /\ viewLoading' = FALSE
  /\ toHost' = Append(toHost, f)
  /\ UNCHANGED <<hostVars, toView, rows, hasMore>>

\* The message handler of the webview and its reducer.
Receive ==
  /\ toView # <<>>
  /\ toView' = Tail(toView)
  /\ viewLoading' = FALSE
  /\ LET m == Head(toView) IN
     \/ /\ m.type = "loadCommits"
        /\ rows' = IF m.append THEN rows \o m.page ELSE m.page
        /\ hasMore' = m.hasMore
     \/ /\ m.type = "loadError"
        /\ rows' = IF viewLoading THEN rows ELSE <<>>
        /\ hasMore' = FALSE
  /\ UNCHANGED <<hostVars, toHost, events>>

Next ==
  \/ HandleMessage \/ Refresh \/ \E r \in Repo : Switch(r)
  \/ \E l \in Load : EndLoad(l) \/ FailLoad(l)
  \/ Scroll \/ \E f \in Filter : ChangeFilter(f)
  \/ Receive

Spec == Init /\ [][Next]_vars

RefreshDue == due /\ Refresh

\* Messages are delivered, git answers, and a switch refreshes the views.
Progress == HandleMessage \/ RefreshDue \/ Receive \/ \E l \in Load : EndLoad(l)
FairSpec == Spec /\ WF_vars(Progress)

-----------------------------------------------------------------------------
\* No page of a repository that is no longer selected is sent: a read that a switch
\* overtook is dropped (CommitGraphViewProvider.ts:477-486, 601, 647).
PagesOfTheSelectedRepository ==
  [][Len(toView') > Len(toView) /\ Last(toView').type = "loadCommits" =>
       \A i \in 1..Len(Last(toView').page) : Last(toView').page[i].repo = root']_vars

\* The guard of pagination is up only while a page that will lower it is read, or the
\* first page that lowers it is due (CommitGraphViewProvider.ts:575, 669-671): no switch,
\* failure or superseded read leaves a graph that never pages again.
GuardIsBacked ==
  loadingMore => due \/ \E l \in Load : load[l] # None /\ load[l].current /\ load[l].append

\* A webview that asked for more is answered, with a page or an error
\* (CommitGraphPanel.tsx:436-440, useCommitGraphMessages.ts:67, 158).
EveryScrollIsAnswered == viewLoading ~> ~viewLoading

\* Badges are asked for, and sent, for commits of the selected repository alone, whichever
\* page is still being read when it is switched (CommitGraphViewProvider.ts:477-486, 829-866).
ScopeIsOfTheSelectedRepository == \A c \in loaded : c.repo = root

\* What the documentation of loadMore says ("Appends the next commit page"): the rows
\* shown are consecutive commits of one log.
AppendsTheNextPage ==
  \A i \in 1..Len(rows) - 1 : rows[i + 1] = [rows[i] EXCEPT !.at = @ + 1]

=============================================================================
