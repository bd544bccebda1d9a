------------------------------ MODULE ViewProofs ------------------------------
(* What MCViews checks of the views on small instances, for any repositories, logs,    *)
(* loads, slots, texts and bounds.  The parts keep no state of each other, so each has *)
(* an inductive invariant and a theorem of its own: GraphInv, PaneInv, PanelInv,       *)
(* DraftInv, SwitchInv and EditorInv.  The last theorem puts them together for the     *)
(* specification that TLC runs.                                                        *)
EXTENDS MCViews, SequenceTheorems, TLAPS

-----------------------------------------------------------------------------
(* The commit graph. *)

\* What the host posts to the graph.
GraphMessage ==
  [type : {"loadCommits"}, page : Seq(Graph!Commit), append : BOOLEAN, hasMore : BOOLEAN]
  \cup {Graph!LoadError}

\* The reads that still count are of the selected repository.
CountedLoadsAreOfTheRoot ==
  \A l \in Loads : graph_load[l] # None /\ graph_load[l].current => graph_load[l].repo = graph_root

\* The invariant of the graph: what its property says, and that only reads of the selected
\* repository count.
GraphInv ==
  /\ Graph!TypeOK /\ graph_toView \in Seq(GraphMessage)
  /\ CountedLoadsAreOfTheRoot
  /\ Graph!GuardIsBacked
  /\ Graph!ScopeIsOfTheSelectedRepository

\* What the graph needs of the constants.
LEMMA GraphConstants ==
  /\ Repo # {} /\ Everything \in Filters /\ "loadMore" \notin Filters
  /\ LogLength \in Nat /\ 0 \in 0..LogLength
  /\ None \notin Graph!LoadRecord
<1>1. LogLength \in Nat
  BY ViewsAssumption DEF ViewsAssumption
<1> QED
  BY <1>1, ViewsAssumption DEF ViewsAssumption

\* A graph begins with no read under way and nothing to page.
LEMMA GraphInit == Graph!Init => GraphInv
<1> SUFFICES ASSUME Graph!Init PROVE GraphInv
  OBVIOUS
<1> USE GraphConstants DEF Graph!Init
<1>1. graph_root \in Repo /\ graph_load \in [Loads -> Graph!LoadRecord \cup {None}]
  OBVIOUS
<1>2. graph_toView \in Seq(GraphMessage) /\ toHost \in Seq(Filters \cup {"loadMore"})
      /\ rows \in Seq(Graph!Commit) /\ Len(graph_toView) = 0
  OBVIOUS
<1>3. Graph!TypeOK
  <2>1. \A i \in 1..Len(graph_toView) : FALSE
    BY <1>2
  <2>2. \A l \in Loads : graph_load[l] = None
    OBVIOUS
  <2>3. filter \in Filters /\ offset \in 0..LogLength /\ loaded \subseteq Graph!Commit
    OBVIOUS
  <2>4. {loadingMore, graph_due, hasMore, viewLoading} \subseteq BOOLEAN
    OBVIOUS
  <2> HIDE DEF Graph!Init
  <2> QED
    BY <1>1, <1>2, <2>1, <2>2, <2>3, <2>4 DEF Graph!TypeOK
<1> QED
  BY <1>2, <1>3 DEF GraphInv, CountedLoadsAreOfTheRoot, Graph!GuardIsBacked,
                    Graph!ScopeIsOfTheSelectedRepository

\* A message is a page or tells of a failure.
LEMMA MessageKinds ==
  ASSUME NEW q \in Seq(GraphMessage)
  PROVE  \A i \in 1..Len(q) : q[i].type \in {"loadCommits", "loadError"}
BY DEF GraphMessage, Graph!LoadError

\* What counting a new read as the latest does to the others.
LEMMA GraphSuperseded ==
  ASSUME GraphInv
  PROVE  /\ Graph!Superseded \in [Loads -> Graph!LoadRecord \cup {None}]
         /\ \A l \in Loads : Graph!Superseded[l] # None => ~Graph!Superseded[l].current
BY DEF Graph!Superseded, Graph!LoadRecord, GraphInv, Graph!TypeOK

\* A new read is the only one that counts.
LEMMA NewLoad ==
  ASSUME GraphInv, NEW l \in Loads, NEW r \in Graph!LoadRecord, r.current,
         graph_load' = [Graph!Superseded EXCEPT ![l] = r]
  PROVE  /\ graph_load' \in [Loads -> Graph!LoadRecord \cup {None}]
         /\ \A m \in Loads : graph_load'[m] # None /\ graph_load'[m].current => m = l
         /\ graph_load'[l] = r /\ r # None
BY GraphSuperseded, GraphConstants

\* A new read of the log overtakes the others and is of the selected repository.
LEMMA GraphLoadInitial ==
  ASSUME GraphInv, NEW f \in Filters, Graph!LoadInitial(f), graph_root' = graph_root
  PROVE  /\ filter' \in Filters /\ offset' = 0 /\ loadingMore' = FALSE
         /\ graph_load' \in [Loads -> Graph!LoadRecord \cup {None}]
         /\ \A l, m \in Loads : graph_load'[l] # None /\ graph_load'[m] # None
              /\ graph_load'[l].current /\ graph_load'[m].current => l = m
         /\ CountedLoadsAreOfTheRoot'
<1>1. PICK l \in Loads : graph_load' = [Graph!Superseded EXCEPT
             ![l] = [current |-> TRUE, append |-> FALSE, repo |-> graph_root, filter |-> f,
                     offset |-> 0]]
  BY DEF Graph!LoadInitial
<1> DEFINE r == [current |-> TRUE, append |-> FALSE, repo |-> graph_root, filter |-> f,
                 offset |-> 0]
<1>2. r \in Graph!LoadRecord /\ r.current /\ r.repo = graph_root
  BY GraphConstants DEF Graph!LoadRecord, GraphInv, Graph!TypeOK
<1> HIDE DEF r
<1>3. /\ graph_load' \in [Loads -> Graph!LoadRecord \cup {None}]
      /\ \A m \in Loads : graph_load'[m] # None /\ graph_load'[m].current => m = l
      /\ graph_load'[l] = r
  BY <1>1, <1>2, NewLoad DEF r
<1> QED
  BY <1>2, <1>3 DEF Graph!LoadInitial, CountedLoadsAreOfTheRoot

\* So is a read of the next page, which the guard of the scroll is backed by.
LEMMA GraphLoadMore ==
  ASSUME GraphInv, Graph!LoadMore, graph_root' = graph_root
  PROVE  /\ graph_load' \in [Loads -> Graph!LoadRecord \cup {None}]
         /\ \A l, m \in Loads : graph_load'[l] # None /\ graph_load'[m] # None
              /\ graph_load'[l].current /\ graph_load'[m].current => l = m
         /\ CountedLoadsAreOfTheRoot'
         /\ \E l \in Loads : graph_load'[l] # None /\ graph_load'[l].current /\ graph_load'[l].append
<1>1. PICK l \in Loads : graph_load' = [Graph!Superseded EXCEPT
             ![l] = [current |-> TRUE, append |-> TRUE, repo |-> graph_root, filter |-> filter,
                     offset |-> offset]]
  BY DEF Graph!LoadMore
<1> DEFINE r == [current |-> TRUE, append |-> TRUE, repo |-> graph_root, filter |-> filter,
                 offset |-> offset]
<1>2. r \in Graph!LoadRecord /\ r.current /\ r.append /\ r.repo = graph_root
  BY DEF Graph!LoadRecord, GraphInv, Graph!TypeOK
<1> HIDE DEF r
<1>3. /\ graph_load' \in [Loads -> Graph!LoadRecord \cup {None}]
      /\ \A m \in Loads : graph_load'[m] # None /\ graph_load'[m].current => m = l
      /\ graph_load'[l] = r /\ r # None
  BY <1>1, <1>2, NewLoad DEF r
<1> QED
  BY <1>2, <1>3 DEF CountedLoadsAreOfTheRoot

\* A page lies within its log, under the repository it was read in.
LEMMA GraphPage ==
  ASSUME GraphInv, NEW l \in Loads, graph_load[l] # None
  PROVE  /\ Graph!Page(l) \in Seq(Graph!Commit)
         /\ \A i \in 1..Len(Graph!Page(l)) : Graph!Page(l)[i].repo = graph_load[l].repo
         /\ graph_load[l].offset + Len(Graph!Page(l)) \in 0..LogLength
         /\ Graph!ToSet(Graph!Page(l)) \subseteq Graph!Commit
         /\ \A c \in Graph!ToSet(Graph!Page(l)) : c.repo = graph_load[l].repo
<1> DEFINE r == graph_load[l]
           c == [repo |-> r.repo, filter |-> r.filter, at |-> r.offset + 1]
<1>1. r \in Graph!LoadRecord /\ LogLength \in Nat
  BY GraphConstants DEF GraphInv, Graph!TypeOK
<1>2. CASE r.offset < LogLength
  <2>1. c \in Graph!Commit
    BY <1>1, <1>2 DEF Graph!LoadRecord, Graph!Commit
  <2> HIDE DEF c
  <2>2. Graph!Page(l) = <<c>>
    BY <1>2 DEF Graph!Page, c
  <2>3. c.repo = r.repo
    BY DEF c
  <2> HIDE DEF r
  <2>4. Len(<<c>>) = 1 /\ <<c>>[1] = c /\ <<c>> \in Seq(Graph!Commit) /\ Graph!ToSet(<<c>>) = {c}
    BY <2>1 DEF Graph!ToSet
  <2>5. r.offset + 1 \in 0..LogLength
    BY <1>1, <1>2 DEF Graph!LoadRecord
  <2> QED
    BY <2>1, <2>2, <2>3, <2>4, <2>5 DEF r
<1>3. CASE ~(r.offset < LogLength)
  <2>1. Graph!Page(l) = <<>>
    BY <1>3 DEF Graph!Page
  <2>2. Len(<<>>) = 0 /\ Graph!ToSet(<<>>) = {}
    BY DEF Graph!ToSet
  <2> QED
    BY <1>1, <2>1, <2>2 DEF Graph!LoadRecord
<1> QED
  BY <1>2, <1>3

\* A read that ends posts its page if it still counts, and is forgotten.
LEMMA GraphEndLoad ==
  ASSUME GraphInv, NEW l \in Loads, Graph!EndLoad(l)
  PROVE  GraphInv'
<1> DEFINE m == Graph!Loaded(Graph!Page(l), graph_load[l].append)
<1>1. /\ graph_load' \in [Loads -> Graph!LoadRecord \cup {None}]
      /\ \A k \in Loads \ {l} : graph_load'[k] = graph_load[k]
      /\ graph_load'[l] = None
  BY DEF Graph!EndLoad, GraphInv, Graph!TypeOK
<1>2. graph_load[l] \in Graph!LoadRecord /\ graph_load[l] # None
  BY DEF Graph!EndLoad, GraphInv, Graph!TypeOK
<1>3. m \in GraphMessage
  BY <1>2, GraphPage DEF Graph!Loaded, GraphMessage, Graph!LoadRecord
<1>4. graph_toView' \in Seq(GraphMessage)
  BY <1>3 DEF Graph!EndLoad, GraphInv
<1>5. offset' \in 0..LogLength
  BY <1>2, GraphPage DEF Graph!EndLoad, GraphInv, Graph!TypeOK
<1>6. /\ loaded' \subseteq Graph!Commit
      /\ Graph!ScopeIsOfTheSelectedRepository'
  BY <1>2, GraphPage
  DEF Graph!EndLoad, GraphInv, Graph!TypeOK, Graph!AddCommitCheckHashScope,
      Graph!ScopeIsOfTheSelectedRepository, CountedLoadsAreOfTheRoot
<1>7. Graph!TypeOK'
  <2>1. \A i \in 1..Len(graph_toView') : graph_toView'[i].type \in {"loadCommits", "loadError"}
    BY <1>4, MessageKinds
  <2> QED
    BY <1>1, <1>5, <1>6, <2>1 DEF Graph!EndLoad, GraphInv, Graph!TypeOK, Graph!viewVars
<1>8. CountedLoadsAreOfTheRoot'
  BY <1>1 DEF Graph!EndLoad, GraphInv, CountedLoadsAreOfTheRoot
<1>9. Graph!GuardIsBacked'
  BY <1>1 DEF Graph!EndLoad, GraphInv, Graph!GuardIsBacked
<1> QED
  BY <1>4, <1>6, <1>7, <1>8, <1>9 DEF GraphInv

\* A read that fails tells the webview if it still counts, and is forgotten.
LEMMA GraphFailLoad ==
  ASSUME GraphInv, NEW l \in Loads, Graph!FailLoad(l)
  PROVE  GraphInv'
<1>1. /\ graph_load' \in [Loads -> Graph!LoadRecord \cup {None}]
      /\ \A k \in Loads \ {l} : graph_load'[k] = graph_load[k]
      /\ graph_load'[l] = None
  BY DEF Graph!FailLoad, GraphInv, Graph!TypeOK
<1>2. graph_toView' \in Seq(GraphMessage)
  BY DEF Graph!FailLoad, GraphInv, GraphMessage
<1>3. Graph!TypeOK'
  <2>1. \A i \in 1..Len(graph_toView') : graph_toView'[i].type \in {"loadCommits", "loadError"}
    BY <1>2, MessageKinds
  <2> QED
    BY <1>1, <2>1 DEF Graph!FailLoad, GraphInv, Graph!TypeOK, Graph!viewVars
<1>4. CountedLoadsAreOfTheRoot' /\ Graph!ScopeIsOfTheSelectedRepository'
  BY <1>1 DEF Graph!FailLoad, GraphInv, CountedLoadsAreOfTheRoot,
              Graph!ScopeIsOfTheSelectedRepository
<1>5. Graph!GuardIsBacked'
  BY <1>1 DEF Graph!FailLoad, GraphInv, Graph!GuardIsBacked
<1> QED
  BY <1>2, <1>3, <1>4, <1>5 DEF GraphInv

\* A message that arrives ends the loading that the webview shows.
LEMMA GraphReceive ==
  ASSUME GraphInv, Graph!Receive
  PROVE  GraphInv'
<1> DEFINE m == Head(graph_toView)
<1>1. m \in GraphMessage /\ graph_toView' \in Seq(GraphMessage)
  BY HeadTailProperties DEF Graph!Receive, GraphInv
<1>2. rows' \in Seq(Graph!Commit) /\ hasMore' \in BOOLEAN
  <2>1. CASE m.type = "loadCommits"
    <3>1. m.page \in Seq(Graph!Commit) /\ m.hasMore \in BOOLEAN
      BY <1>1, <2>1 DEF GraphMessage, Graph!LoadError
    <3>2. rows \in Seq(Graph!Commit)
      BY DEF GraphInv, Graph!TypeOK
    <3>3. rows \o m.page \in Seq(Graph!Commit)
      BY <3>1, <3>2, ConcatProperties
    <3>4. rows' \in {rows \o m.page, m.page} /\ hasMore' = m.hasMore
      BY <2>1 DEF Graph!Receive
    <3> QED
      BY <3>1, <3>3, <3>4
  <2>2. CASE m.type # "loadCommits"
    <3>1. (rows' = rows \/ rows' = <<>>) /\ hasMore' = FALSE
      BY <2>2 DEF Graph!Receive
    <3>2. <<>> \in Seq(Graph!Commit) /\ rows \in Seq(Graph!Commit)
      BY DEF GraphInv, Graph!TypeOK
    <3> QED
      BY <3>1, <3>2
  <2> QED
    BY <2>1, <2>2
<1>3. Graph!TypeOK'
  <2>1. \A i \in 1..Len(graph_toView') : graph_toView'[i].type \in {"loadCommits", "loadError"}
    BY <1>1, MessageKinds
  <2> QED
    BY <1>2, <2>1 DEF Graph!Receive, GraphInv, Graph!TypeOK, Graph!hostVars
<1> QED
  BY <1>1, <1>3 DEF Graph!Receive, GraphInv, Graph!hostVars, CountedLoadsAreOfTheRoot,
                    Graph!GuardIsBacked, Graph!ScopeIsOfTheSelectedRepository

\* Every step of the graph keeps its invariant.
LEMMA GraphNext ==
  ASSUME GraphInv, [Graph!Next]_Graph!vars
  PROVE  GraphInv'
<1> USE DEF GraphInv
<1>1. CASE Graph!HandleMessage
  <2>1. toHost \in Seq(Filters \cup {"loadMore"}) /\ toHost # <<>>
    BY <1>1 DEF Graph!HandleMessage, Graph!TypeOK
  <2>2. toHost' \in Seq(Filters \cup {"loadMore"})
    BY <1>1, <2>1, HeadTailProperties DEF Graph!HandleMessage
  <2>3. CASE Head(toHost) \in Filters /\ Graph!LoadInitial(Head(toHost))
    <3>1. /\ filter' \in Filters /\ offset' = 0 /\ loadingMore' = FALSE
          /\ graph_load' \in [Loads -> Graph!LoadRecord \cup {None}]
          /\ \A l, m \in Loads : graph_load'[l] # None /\ graph_load'[m] # None
               /\ graph_load'[l].current /\ graph_load'[m].current => l = m
          /\ CountedLoadsAreOfTheRoot'
      BY <1>1, <2>3, GraphLoadInitial DEF Graph!HandleMessage
    <3> QED
      BY <1>1, <2>2, <3>1, GraphConstants
      DEF Graph!HandleMessage, Graph!TypeOK, Graph!viewVars, Graph!GuardIsBacked,
          Graph!ScopeIsOfTheSelectedRepository
  <2>4. CASE ~loadingMore /\ Graph!LoadMore
    <3>1. /\ graph_load' \in [Loads -> Graph!LoadRecord \cup {None}]
          /\ \A l, m \in Loads : graph_load'[l] # None /\ graph_load'[m] # None
               /\ graph_load'[l].current /\ graph_load'[m].current => l = m
          /\ CountedLoadsAreOfTheRoot'
          /\ Graph!GuardIsBacked'
      BY <1>1, <2>4, GraphLoadMore DEF Graph!HandleMessage, Graph!GuardIsBacked
    <3> QED
      BY <1>1, <2>2, <2>4, <3>1
      DEF Graph!HandleMessage, Graph!LoadMore, Graph!TypeOK, Graph!viewVars,
          Graph!ScopeIsOfTheSelectedRepository
  <2>5. CASE UNCHANGED <<filter, offset, loadingMore, graph_load>>
    BY <1>1, <2>2, <2>5
    DEF Graph!HandleMessage, Graph!TypeOK, Graph!viewVars, Graph!GuardIsBacked,
        CountedLoadsAreOfTheRoot, Graph!ScopeIsOfTheSelectedRepository
  <2> QED
    BY <1>1, <2>3, <2>4, <2>5 DEF Graph!HandleMessage
<1>2. CASE Graph!Refresh
  <2>1. filter \in Filters /\ graph_root' = graph_root /\ Graph!LoadInitial(filter)
    BY <1>2 DEF Graph!Refresh, Graph!TypeOK
  <2>2. /\ filter' \in Filters /\ offset' = 0 /\ loadingMore' = FALSE
        /\ graph_load' \in [Loads -> Graph!LoadRecord \cup {None}]
        /\ \A l, m \in Loads : graph_load'[l] # None /\ graph_load'[m] # None
             /\ graph_load'[l].current /\ graph_load'[m].current => l = m
        /\ CountedLoadsAreOfTheRoot'
    BY <2>1, GraphLoadInitial
  <2> QED
    BY <1>2, <2>2, GraphConstants
    DEF Graph!Refresh, Graph!TypeOK, Graph!viewVars, Graph!GuardIsBacked,
        Graph!ScopeIsOfTheSelectedRepository
<1>3. ASSUME NEW r \in Repo, Graph!Switch(r) PROVE GraphInv'
  BY <1>3, GraphSuperseded, GraphConstants
  DEF Graph!Switch, Graph!ResetFilters, Graph!TypeOK, Graph!viewVars, Graph!GuardIsBacked,
      CountedLoadsAreOfTheRoot, Graph!ScopeIsOfTheSelectedRepository
<1>4. CASE Graph!Scroll
  <2>1. toHost' \in Seq(Filters \cup {"loadMore"})
    BY <1>4 DEF Graph!Scroll, Graph!TypeOK
  <2> QED
    BY <1>4, <2>1
    DEF Graph!Scroll, Graph!TypeOK, Graph!hostVars, Graph!GuardIsBacked,
        CountedLoadsAreOfTheRoot, Graph!ScopeIsOfTheSelectedRepository
<1>5. ASSUME NEW f \in Filters, Graph!ChangeFilter(f) PROVE GraphInv'
  <2>1. toHost' \in Seq(Filters \cup {"loadMore"})
    BY <1>5 DEF Graph!ChangeFilter, Graph!TypeOK
  <2> QED
    BY <1>5, <2>1
    DEF Graph!ChangeFilter, Graph!TypeOK, Graph!hostVars, Graph!GuardIsBacked,
        CountedLoadsAreOfTheRoot, Graph!ScopeIsOfTheSelectedRepository
<1>6. CASE UNCHANGED Graph!vars
  BY <1>6 DEF Graph!vars, Graph!TypeOK, Graph!GuardIsBacked, CountedLoadsAreOfTheRoot,
              Graph!ScopeIsOfTheSelectedRepository
<1> HIDE DEF GraphInv
<1> QED
  BY <1>1, <1>2, <1>3, <1>4, <1>5, <1>6, GraphEndLoad, GraphFailLoad, GraphReceive DEF Graph!Next

\* No switch, failure or superseded read leaves a graph that never pages again, and badges are
\* asked for commits of the selected repository alone.
THEOREM CurrentGraph == Graph!Spec => []GraphIsCurrent
<1>1. GraphInv => GraphIsCurrent
  BY DEF GraphInv, GraphIsCurrent
<1> QED
  BY <1>1, GraphInit, GraphNext, PTL DEF Graph!Spec

\* A page is posted by the end of a read that counts, and so is of the selected repository.
LEMMA GraphPosts ==
  ASSUME GraphInv, [Graph!Next]_Graph!vars,
         Len(graph_toView') > Len(graph_toView), Graph!Last(graph_toView').type = "loadCommits"
  PROVE  \A i \in 1..Len(Graph!Last(graph_toView').page) :
           Graph!Last(graph_toView').page[i].repo = graph_root'
<1>1. graph_toView \in Seq(GraphMessage) /\ Len(graph_toView) \in Nat
  BY DEF GraphInv
<1>2. ASSUME Graph!Receive PROVE FALSE
  BY <1>1, <1>2, HeadTailProperties DEF Graph!Receive
<1>3. ASSUME NEW l \in Loads, Graph!EndLoad(l)
      PROVE  \A i \in 1..Len(Graph!Last(graph_toView').page) :
               Graph!Last(graph_toView').page[i].repo = graph_root'
  <2> DEFINE m == Graph!Loaded(Graph!Page(l), graph_load[l].append)
  <2>1. graph_toView' = Append(graph_toView, m) /\ graph_load[l] # None /\ graph_load[l].current
    BY <1>1, <1>3 DEF Graph!EndLoad
  <2>2. Graph!Last(graph_toView').page = Graph!Page(l)
    <3>1. m.page = Graph!Page(l)
      BY DEF Graph!Loaded
    <3> HIDE DEF m
    <3> QED
      BY <1>1, <2>1, <3>1 DEF Graph!Last
  <2> QED
    BY <1>3, <2>1, <2>2, GraphPage DEF GraphInv, CountedLoadsAreOfTheRoot, Graph!EndLoad
<1>4. ASSUME NEW l \in Loads, Graph!FailLoad(l) PROVE FALSE
  <2>1. graph_toView' = Append(graph_toView, Graph!LoadError)
    BY <1>1, <1>4 DEF Graph!FailLoad
  <2>2. Graph!Last(graph_toView') = Graph!LoadError
    BY <1>1, <2>1 DEF Graph!Last
  <2> QED
    BY <2>2 DEF Graph!LoadError
<1>5. CASE UNCHANGED graph_toView
  BY <1>1, <1>5
<1> QED
  BY <1>2, <1>3, <1>4, <1>5
  DEF Graph!Next, Graph!HandleMessage, Graph!Refresh, Graph!Switch, Graph!ResetFilters,
      Graph!Scroll, Graph!ChangeFilter, Graph!vars

-----------------------------------------------------------------------------
(* The detail pane. *)

\* What is posted to the pane.
PaneMessage == Detail!Payload \cup {None}

\* What the document shows once its messages have arrived.
FinallyShown == IF detail_toView = <<>> THEN shown ELSE detail_toView[Len(detail_toView)]

\* A document that listens comes to show what was last posted; to another one nothing is sent.
LastIsFinal ==
  IF document = "ready" THEN FinallyShown = last ELSE detail_toView = <<>> /\ shown = None

\* What was last posted once nobody waits for an answer is the selection.
LastIsTheSelection ==
  document = "ready" /\ ~readying =>
    IF detail = None THEN last = None ELSE last # None /\ last.detail = detail

\* The invariant of the pane.
PaneInv ==
  /\ Detail!TypeOK
  /\ LastIsFinal /\ LastIsTheSelection

\* What the pane needs of the constants.
LEMMA PaneConstants ==
  /\ Repo # {}
  /\ None \notin Detail!Detail /\ None \notin Detail!Payload
  /\ None \notin [detail : Detail!Detail, current : BOOLEAN]
BY ViewsAssumption DEF ViewsAssumption

\* A pane begins with nothing selected and nothing posted.
LEMMA PaneInit == Detail!Init => PaneInv
<1> SUFFICES ASSUME Detail!Init PROVE PaneInv
  OBVIOUS
<1> USE PaneConstants DEF Detail!Init
<1>1. detail_root \in Repo /\ detail_load \in [Loads -> [detail : Detail!Detail, current : BOOLEAN] \cup {None}]
      /\ \A l \in Loads : detail_load[l] = None
  OBVIOUS
<1>2. detail_toView = <<>> /\ detail_toView \in Seq(PaneMessage)
  OBVIOUS
<1>3. Detail!TypeOK
  <2>1. theme \in 0..1
    OBVIOUS
  <2>3. {icons, newTheme, readying} \subseteq BOOLEAN
    OBVIOUS
  <2>2. document \in {"hidden", "loaded", "ready"} /\ detail = None /\ decorating = None
        /\ last = None /\ shown = None
    OBVIOUS
  <2> HIDE DEF Detail!Init
  <2> QED
    BY <1>1, <1>2, <2>1, <2>2, <2>3 DEF Detail!TypeOK, PaneMessage
<1> QED
  BY <1>2, <1>3 DEF PaneInv, LastIsFinal, LastIsTheSelection

\* The last of a queue is what was appended to it last.
LEMMA FinalLast ==
  ASSUME NEW q \in Seq(PaneMessage)
  PROVE  /\ q # <<>> => Detail!Last(q) = q[Len(q)]
         /\ \A m \in PaneMessage :
              /\ Append(q, m) # <<>> /\ Append(q, m)[Len(Append(q, m))] = m
              /\ Append(q, m) \in Seq(PaneMessage)
BY DEF Detail!Last

\* What a post does: the document that listens comes to show it, and the state is the selection.
LEMMA PanePosts ==
  ASSUME PaneInv, NEW was \in PaneMessage, was \in {last, None},
         detail' \in Detail!Detail \cup {None}, icons' \in BOOLEAN, theme' \in 0..1,
         document' = document, shown' = shown,
         Detail!PostState(was)
  PROVE  /\ last' \in PaneMessage /\ detail_toView' \in Seq(PaneMessage)
         /\ detail' = None => last' = None
         /\ detail' # None => last' # None /\ last'.detail = detail'
         /\ was = last \/ detail' = None => LastIsFinal'
         /\ Len(detail_toView') > Len(detail_toView) =>
              /\ detail_toView' = Append(detail_toView, last')
              /\ document = "ready" /\ (last' # None => last' # was)
<1> DEFINE p == [detail |-> detail', icons |-> icons', theme |-> theme']
<1>1. detail_toView \in Seq(PaneMessage) /\ None \in PaneMessage
  BY DEF PaneInv, Detail!TypeOK, PaneMessage
<1>2. Len(detail_toView) \in Nat
  BY <1>1
<1>3. CASE detail' # None
  <2>1. p \in Detail!Payload /\ p # None /\ p \in PaneMessage /\ p.detail = detail'
    BY <1>3, PaneConstants DEF Detail!Payload, PaneMessage
  <2>2. IF p = was THEN detail_toView' = detail_toView /\ last' = was
                   ELSE Detail!Send(p) /\ last' = p
    BY <1>3 DEF Detail!PostState
  <2> HIDE DEF p
  <2>3. CASE p = was
    BY <1>1, <1>2, <1>3, <2>1, <2>2, <2>3, PaneConstants DEF PaneInv, LastIsFinal, FinallyShown
  <2>4. CASE p # was
    <3>1. detail_toView' = IF document = "ready" THEN Append(detail_toView, p) ELSE detail_toView
      BY <2>2, <2>4 DEF Detail!Send
    <3>2. last' = p
      BY <2>2, <2>4
    <3>3. LastIsFinal'
      BY <1>1, <2>1, <3>1, <3>2, FinalLast DEF PaneInv, LastIsFinal, FinallyShown
    <3> QED
      BY <1>1, <1>2, <1>3, <2>1, <2>4, <3>1, <3>2, <3>3, FinalLast
  <2> QED
    BY <2>3, <2>4
<1>4. CASE detail' = None
  <2>1. detail_toView' = IF document = "ready" THEN Append(detail_toView, None) ELSE detail_toView
    BY <1>4 DEF Detail!PostState, Detail!Send
  <2>2. last' = None
    BY <1>4 DEF Detail!PostState
  <2>3. LastIsFinal'
    BY <1>1, <2>1, <2>2, FinalLast DEF PaneInv, LastIsFinal, FinallyShown
  <2> QED
    BY <1>1, <1>2, <1>4, <2>1, <2>2, <2>3, FinalLast
<1> QED
  BY <1>3, <1>4

\* No read of a commit counts once the selection has moved on.
LEMMA PaneOutdated ==
  ASSUME PaneInv
  PROVE  /\ Detail!Outdated \in [Loads -> [detail : Detail!Detail, current : BOOLEAN] \cup {None}]
         /\ \A l \in Loads : Detail!Outdated[l] # None => ~Detail!Outdated[l].current
BY DEF Detail!Outdated, PaneInv, Detail!TypeOK

\* The reads of commits are typed, and one counts at most.
PaneLoadsAreTyped ==
  /\ detail_load \in [Loads -> [detail : Detail!Detail, current : BOOLEAN] \cup {None}]
  /\ \A l, m \in Loads : detail_load[l] # None /\ detail_load[m] # None
       /\ detail_load[l].current /\ detail_load[m].current => l = m

\* A step that posts and keeps the document keeps the invariant.
LEMMA PaneAfterPost ==
  ASSUME PaneInv, detail_root' \in Repo, PaneLoadsAreTyped',
         detail' \in Detail!Detail \cup {None}, icons' \in BOOLEAN, theme' \in 0..1,
         decorating' \in Detail!Detail \cup {None}, decorating' # None => decorating' = detail',
         newTheme' \in BOOLEAN, readying' \in BOOLEAN,
         document' = document, shown' = shown,
         Detail!PostState(last) \/ (detail' = None /\ Detail!PostState(None))
  PROVE  PaneInv'
<1>1. last \in PaneMessage /\ None \in PaneMessage
  BY DEF PaneInv, Detail!TypeOK, PaneMessage
<1>2. /\ last' \in PaneMessage /\ detail_toView' \in Seq(PaneMessage)
      /\ detail' = None => last' = None
      /\ detail' # None => last' # None /\ last'.detail = detail'
      /\ LastIsFinal'
  BY <1>1, PanePosts
<1>3. Detail!TypeOK'
  BY <1>2 DEF PaneInv, Detail!TypeOK, PaneLoadsAreTyped, PaneMessage
<1> QED
  BY <1>2, <1>3 DEF PaneInv, LastIsTheSelection

\* A step that posts nothing and changes neither selection nor document keeps it too.
LEMMA PaneWithoutPost ==
  ASSUME PaneInv, detail_root' \in Repo, PaneLoadsAreTyped',
         decorating' \in {decorating, detail}, theme' \in 0..1, newTheme' \in BOOLEAN,
         UNCHANGED <<detail, icons, last, readying, document, detail_toView, shown>>
  PROVE  PaneInv'
<1>1. Detail!TypeOK'
  BY DEF PaneInv, Detail!TypeOK, PaneLoadsAreTyped
<1> QED
  BY <1>1 DEF PaneInv, LastIsFinal, FinallyShown, LastIsTheSelection

\* Reads stay so when they are outdated or end.
LEMMA PaneLoads ==
  ASSUME PaneInv
  PROVE  /\ PaneLoadsAreTyped
         /\ detail_load' = detail_load => PaneLoadsAreTyped'
         /\ detail_load' = Detail!Outdated => PaneLoadsAreTyped'
         /\ \A l \in Loads : detail_load' = [detail_load EXCEPT ![l] = None] => PaneLoadsAreTyped'
BY PaneOutdated DEF PaneInv, Detail!TypeOK, PaneLoadsAreTyped

\* Every step of the pane keeps its invariant.
LEMMA PaneNext ==
  ASSUME PaneInv, [Detail!Next]_Detail!vars
  PROVE  PaneInv'
<1> USE DEF PaneInv
<1>1. ASSUME NEW h \in Hashes, Detail!Select(h) PROVE PaneInv'
  <2>1. PICK l \in Loads : detail_load' = [Detail!Outdated EXCEPT
               ![l] = [detail |-> [repo |-> detail_root, hash |-> h], current |-> TRUE]]
    BY <1>1 DEF Detail!Select
  <2>2. [detail |-> [repo |-> detail_root, hash |-> h], current |-> TRUE]
           \in [detail : Detail!Detail, current : BOOLEAN]
    BY DEF Detail!Detail, Detail!TypeOK
  <2>3. PaneLoadsAreTyped'
    BY <2>1, <2>2, PaneOutdated DEF PaneLoadsAreTyped
  <2> QED
    BY <1>1, <2>3, PaneWithoutPost DEF Detail!Select, Detail!TypeOK
<1>2. ASSUME NEW l \in Loads, Detail!Loaded(l) PROVE PaneInv'
  <2>1. PaneLoadsAreTyped'
    BY <1>2, PaneLoads DEF Detail!Loaded
  <2>2. CASE detail_load[l].current
    <3>1. detail_load[l] \in [detail : Detail!Detail, current : BOOLEAN]
      BY <1>2 DEF Detail!Loaded, Detail!TypeOK
    <3>2. detail' \in Detail!Detail /\ decorating' = detail' /\ icons' = FALSE /\ theme' = theme
      BY <1>2, <2>2, <3>1 DEF Detail!Loaded
    <3> QED
      BY <1>2, <2>1, <2>2, <3>2, PaneAfterPost DEF Detail!Loaded, Detail!TypeOK
  <2>3. CASE ~detail_load[l].current
    BY <1>2, <2>1, <2>3, PaneWithoutPost DEF Detail!Loaded, Detail!TypeOK
  <2> QED
    BY <2>2, <2>3
<1>3. ASSUME NEW l \in Loads, Detail!LoadFails(l) PROVE PaneInv'
  BY <1>3, PaneLoads, PaneWithoutPost DEF Detail!LoadFails, Detail!TypeOK
<1>4. CASE Detail!Decorated
  <2>1. theme' \in 0..1
    BY <1>4 DEF Detail!Decorated, Detail!TypeOK
  <2> QED
    BY <1>4, <2>1, PaneLoads, PaneAfterPost DEF Detail!Decorated, Detail!TypeOK
<1>5. CASE Detail!FilterBranch
  BY <1>5, PaneLoads, PaneAfterPost DEF Detail!FilterBranch, Detail!Clear, Detail!TypeOK
<1>6. ASSUME NEW r \in Repo, Detail!Switch(r) PROVE PaneInv'
  BY <1>6, PaneLoads, PaneAfterPost DEF Detail!Switch, Detail!Clear, Detail!TypeOK
<1>7. CASE Detail!ChangeTheme
  BY <1>7, PaneLoads, PaneWithoutPost DEF Detail!ChangeTheme, Detail!TypeOK
<1>8. CASE Detail!RefreshTheme
  <2>1. theme' \in 0..1
    BY <1>8 DEF Detail!RefreshTheme, Detail!TypeOK
  <2>2. CASE detail # None
    BY <1>8, <2>1, <2>2, PaneLoads, PaneWithoutPost DEF Detail!RefreshTheme, Detail!TypeOK
  <2>3. CASE detail = None
    <3>1. /\ detail' = detail /\ icons' = icons /\ decorating' = decorating
          /\ detail_root' = detail_root /\ newTheme' = FALSE
          /\ UNCHANGED <<readying, document, shown, detail_load>> /\ Detail!PostState(last)
      BY <1>8, <2>3 DEF Detail!RefreshTheme
    <3>2. /\ detail \in Detail!Detail \cup {None} /\ icons \in BOOLEAN /\ readying \in BOOLEAN
          /\ decorating \in Detail!Detail \cup {None}
          /\ decorating # None => decorating = detail
          /\ detail_root \in Repo
      BY DEF Detail!TypeOK
    <3>3. PaneLoadsAreTyped' /\ newTheme' \in BOOLEAN /\ readying' \in BOOLEAN
      BY <3>1, <3>2, PaneLoads
    <3>4. /\ detail' \in Detail!Detail \cup {None} /\ icons' \in BOOLEAN /\ detail_root' \in Repo
          /\ decorating' \in Detail!Detail \cup {None}
          /\ decorating' # None => decorating' = detail'
      BY <3>1, <3>2
    <3>5. document' = document /\ shown' = shown
      BY <3>1
    <3> QED
      BY <2>1, <3>1, <3>3, <3>4, <3>5, PaneAfterPost
  <2> QED
    BY <2>2, <2>3
<1>9. CASE Detail!Hide
  <2>1. <<>> \in Seq(Detail!Payload \cup {None})
    OBVIOUS
  <2> QED
    BY <1>9, <2>1 DEF Detail!Hide, Detail!TypeOK, LastIsFinal, LastIsTheSelection
<1>10. CASE Detail!Show
  BY <1>10 DEF Detail!Show, Detail!TypeOK, LastIsFinal, LastIsTheSelection
<1>11. CASE Detail!Ready
  BY <1>11 DEF Detail!Ready, Detail!TypeOK, LastIsFinal, FinallyShown, LastIsTheSelection
<1>12. CASE Detail!EndReady
  <2>1. theme' \in 0..1
    BY <1>12 DEF Detail!EndReady, Detail!TypeOK
  <2>2. /\ detail' = detail /\ icons' = icons /\ decorating' = decorating
        /\ detail_root' = detail_root /\ newTheme' = FALSE /\ readying' = FALSE
        /\ UNCHANGED <<document, shown, detail_load>> /\ Detail!PostState(last)
    BY <1>12 DEF Detail!EndReady
  <2>3. /\ detail \in Detail!Detail \cup {None} /\ icons \in BOOLEAN
        /\ decorating \in Detail!Detail \cup {None}
        /\ decorating # None => decorating = detail
        /\ detail_root \in Repo
    BY DEF Detail!TypeOK
  <2>4. PaneLoadsAreTyped' /\ newTheme' \in BOOLEAN /\ readying' \in BOOLEAN
    BY <2>2, PaneLoads
  <2>5. /\ detail' \in Detail!Detail \cup {None} /\ icons' \in BOOLEAN /\ detail_root' \in Repo
        /\ decorating' \in Detail!Detail \cup {None}
        /\ decorating' # None => decorating' = detail'
    BY <2>2, <2>3
  <2>6. document' = document /\ shown' = shown
    BY <2>2
  <2> QED
    BY <2>1, <2>2, <2>4, <2>5, <2>6, PaneAfterPost
<1>13. CASE Detail!Receive
  <2>1. detail_toView \in Seq(PaneMessage) /\ detail_toView # <<>>
    BY <1>13 DEF Detail!Receive, Detail!TypeOK, PaneMessage
  <2>2. detail_toView' = Tail(detail_toView) /\ shown' = Head(detail_toView)
    BY <1>13 DEF Detail!Receive
  <2>3. detail_toView' \in Seq(PaneMessage) /\ shown' \in PaneMessage
    BY <2>1, <2>2, HeadTailProperties
  <2>4. FinallyShown' = FinallyShown
    <3>1. CASE Len(detail_toView) = 1
      <4>1. Tail(detail_toView) = <<>>
        <5>1. Tail(detail_toView) \in Seq(PaneMessage) /\ Len(Tail(detail_toView)) = 0
          BY <2>1, <3>1, HeadTailProperties
        <5> QED
          BY <5>1, EmptySeq
      <4>2. Head(detail_toView) = detail_toView[Len(detail_toView)]
        BY <2>1, <3>1
      <4> QED
        BY <2>1, <2>2, <4>1, <4>2 DEF FinallyShown
    <3>2. CASE Len(detail_toView) # 1
      <4> DEFINE q == Tail(detail_toView)
      <4>2. Len(detail_toView) \in Nat \ {0, 1}
        BY <2>1, <3>2, EmptySeq
      <4>3. Len(q) = Len(detail_toView) - 1 /\ \A i \in 1..Len(q) : q[i] = detail_toView[i + 1]
        BY <2>1, HeadTailProperties
      <4>4. Len(<<>>) = 0
        OBVIOUS
      <4> HIDE DEF q
      <4>5. Len(q) \in 1..Len(q) /\ Len(q) + 1 = Len(detail_toView) /\ Len(q) # 0
        BY <4>2, <4>3
      <4>1. q # <<>> /\ q[Len(q)] = detail_toView[Len(detail_toView)]
        BY <4>3, <4>4, <4>5
      <4> QED
        BY <2>1, <2>2, <4>1 DEF FinallyShown, q
    <3> QED
      BY <3>1, <3>2
  <2>5. Detail!TypeOK'
    BY <1>13, <2>3 DEF Detail!Receive, Detail!TypeOK, PaneMessage
  <2> QED
    BY <1>13, <2>1, <2>4, <2>5 DEF Detail!Receive, LastIsFinal, LastIsTheSelection
<1>14. CASE UNCHANGED Detail!vars
  BY <1>14 DEF Detail!vars, Detail!TypeOK, LastIsFinal, FinallyShown, LastIsTheSelection
<1> HIDE DEF PaneInv
<1> QED
  BY <1>1, <1>2, <1>3, <1>4, <1>5, <1>6, <1>7, <1>8, <1>9, <1>10, <1>11, <1>12, <1>13, <1>14
  DEF Detail!Next

\* A pane that has been answered comes to show the selected commit in its theme.
THEOREM SelectionIsShown == Detail!Spec => []PaneShowsTheSelection
<1>1. PaneInv => PaneShowsTheSelection
  <2> SUFFICES ASSUME PaneInv PROVE PaneShowsTheSelection
    OBVIOUS
  <2>1. detail_toView \in Seq(PaneMessage)
    BY DEF PaneInv, Detail!TypeOK, PaneMessage
  <2>2. FinallyShown = IF detail_toView = <<>> THEN shown ELSE Detail!Last(detail_toView)
    BY <2>1, FinalLast DEF FinallyShown
  <2>3. Detail!PaneShowsTheSelection
    BY <2>2 DEF PaneInv, LastIsFinal, LastIsTheSelection, Detail!PaneShowsTheSelection
  <2> QED
    BY <2>3 DEF PaneInv, PaneShowsTheSelection
<1> QED
  BY <1>1, PaneInit, PaneNext, PTL DEF Detail!Spec

\* What is posted differs from what was posted last, or from what the document shows.
LEMMA PaneNothingTwice ==
  ASSUME PaneInv, [Detail!Next]_Detail!vars,
         Len(detail_toView') > Len(detail_toView), Detail!Last(detail_toView') # None
  PROVE  Detail!Last(detail_toView')
           # (IF detail_toView = <<>> THEN shown ELSE Detail!Last(detail_toView))
<1>1. detail_toView \in Seq(PaneMessage) /\ Len(detail_toView) \in Nat
  BY DEF PaneInv, Detail!TypeOK, PaneMessage
<1>2. FinallyShown = IF detail_toView = <<>> THEN shown ELSE Detail!Last(detail_toView)
  BY <1>1, FinalLast DEF FinallyShown
<1>3. last \in PaneMessage /\ None \in PaneMessage
  BY DEF PaneInv, Detail!TypeOK, PaneMessage
<1>4. ASSUME detail' \in Detail!Detail \cup {None}, icons' \in BOOLEAN, theme' \in 0..1,
             document' = document, shown' = shown,
             Detail!PostState(last) \/ (detail' = None /\ Detail!PostState(None))
      PROVE  Detail!Last(detail_toView') # FinallyShown
  <2>1. /\ last' \in PaneMessage /\ detail_toView' \in Seq(PaneMessage)
        /\ detail' = None => last' = None
        /\ detail_toView' = Append(detail_toView, last') /\ document = "ready"
        /\ last' # None => (last' # last \/ detail' = None)
    BY <1>3, <1>4, PanePosts
  <2>2. Detail!Last(detail_toView') = last'
    BY <1>1, <2>1, FinalLast
  <2> QED
    BY <2>1, <2>2 DEF PaneInv, LastIsFinal
<1>5. CASE detail_toView' = detail_toView
  BY <1>1, <1>5
<1>6. ASSUME NEW l \in Loads, Detail!Loaded(l), detail_load[l].current
      PROVE  Detail!Last(detail_toView') # FinallyShown
  <2>1. detail_load[l] \in [detail : Detail!Detail, current : BOOLEAN]
    BY <1>6 DEF Detail!Loaded, PaneInv, Detail!TypeOK
  <2>2. detail' \in Detail!Detail /\ icons' = FALSE /\ theme' = theme
    BY <1>6, <2>1 DEF Detail!Loaded
  <2> QED
    BY <1>4, <1>6, <2>2 DEF Detail!Loaded, PaneInv, Detail!TypeOK
<1>7. CASE Detail!Decorated \/ Detail!EndReady \/ Detail!RefreshTheme
  <2>1. theme' \in 0..1 /\ icons' \in BOOLEAN /\ detail' = detail
    BY <1>7 DEF Detail!Decorated, Detail!EndReady, Detail!RefreshTheme, PaneInv, Detail!TypeOK
  <2> QED
    BY <1>2, <1>4, <1>5, <1>7, <2>1
    DEF Detail!Decorated, Detail!EndReady, Detail!RefreshTheme, PaneInv, Detail!TypeOK
<1>8. ASSUME Detail!FilterBranch \/ \E r \in Repo : Detail!Switch(r)
      PROVE  Detail!Last(detail_toView') # FinallyShown
  BY <1>4, <1>8 DEF Detail!FilterBranch, Detail!Switch, Detail!Clear, PaneInv, Detail!TypeOK
<1>9. ASSUME Detail!Hide \/ Detail!Receive PROVE FALSE
  BY <1>1, <1>9, HeadTailProperties DEF Detail!Hide, Detail!Receive
<1>10. ASSUME NEW l \in Loads, Detail!Loaded(l), ~detail_load[l].current
       PROVE  detail_toView' = detail_toView
  BY <1>10 DEF Detail!Loaded
<1> QED
  BY <1>2, <1>5, <1>6, <1>7, <1>8, <1>9, <1>10
  DEF Detail!Next, Detail!Select, Detail!LoadFails, Detail!ChangeTheme, Detail!Show, Detail!Ready,
      Detail!vars

-----------------------------------------------------------------------------
(* The rows of the commit panel. *)

\* The jobs of a repository.
JobRow == [Slots -> Panel!Job \cup {None}]
\* The fields of a job, whatever its step allows.
JobRecord ==
  [kind : {"refresh", "scan", "stash"}, current : BOOLEAN, silent : BOOLEAN, polled : BOOLEAN,
   step : {"status", "selection", "apply", "snapshot", "post", "settle"},
   files : Panel!Version, pick : Panel!Choice, operation : Panel!Version]

\* One refresh of a repository counts at most.
OneCounts(row) ==
  \A s, t \in Slots :
    /\ row[s] # None /\ row[t] # None
    /\ row[s].kind = "refresh" /\ row[t].kind = "refresh"
    /\ row[s].current /\ row[t].current
    => s = t

\* The jobs of every repository are typed and one refresh of each counts at most.
RowsAreSound == jobs \in [Repo -> JobRow] /\ \A r \in Repo : OneCounts(jobs[r])

\* The invariant of the rows, as far as dropping what was overtaken needs it.
PanelInv ==
  /\ RowsAreSound
  /\ git \in [Repo -> Panel!Version] /\ \A r \in Repo : git[r] <= panel_events
  /\ panel_events \in Panel!Version
  /\ active \in Repo /\ expanded \subseteq Repo
  /\ runtime \in [Repo -> [files : Panel!Version, selected : Panel!Choice]]

\* What the rows need of the constants.
LEMMA PanelConstants ==
  /\ Repo # {} /\ FirstStash \in Stashes /\ None \notin Panel!Job
  /\ PanelEvents \in Nat /\ Panel!Version = 0..PanelEvents /\ 0 \in Panel!Version
  /\ FirstStash \in Panel!Choice /\ None \in Panel!Choice
<1>1. PanelEvents \in Nat
  BY ViewsAssumption DEF ViewsAssumption
<1> QED
  BY <1>1, ViewsAssumption DEF ViewsAssumption, Panel!Version, Panel!Choice

\* The rows begin with no job.
LEMMA PanelInit == Panel!Init => PanelInv
<1> SUFFICES ASSUME Panel!Init PROVE PanelInv
  OBVIOUS
<1> USE PanelConstants DEF Panel!Init
<1>1. jobs \in [Repo -> JobRow] /\ \A r \in Repo, s \in Slots : jobs[r][s] = None
  BY DEF JobRow
<1>2. RowsAreSound
  BY <1>1 DEF RowsAreSound, OneCounts
<1>3. active \in Repo /\ expanded \subseteq Repo
  OBVIOUS
<1>4. runtime \in [Repo -> [files : Panel!Version, selected : Panel!Choice]]
  OBVIOUS
<1>5. git \in [Repo -> Panel!Version] /\ \A r \in Repo : git[r] = 0 /\ panel_events = 0
  OBVIOUS
<1> QED
  BY <1>2, <1>3, <1>4, <1>5 DEF PanelInv

\* A job moves on as it is counted, or ends.
LEMMA JobMovesOn ==
  ASSUME PanelInv, NEW r \in Repo, NEW s \in Slots, NEW job \in Panel!Job \cup {None},
         Panel!Set(r, s, job), jobs[r][s] # None,
         job # None => job.kind = jobs[r][s].kind /\ job.current = jobs[r][s].current
  PROVE  RowsAreSound'
<1>1. /\ jobs' \in [Repo -> JobRow]
      /\ \A q \in Repo, t \in Slots : jobs'[q][t] = IF q = r /\ t = s THEN job ELSE jobs[q][t]
  BY DEF Panel!Set, PanelInv, RowsAreSound, JobRow
<1>2. ASSUME NEW q \in Repo PROVE OneCounts(jobs'[q])
  BY <1>1 DEF OneCounts, PanelInv, RowsAreSound
<1> QED
  BY <1>1, <1>2 DEF RowsAreSound

\* Refreshes and scans outdated are still there and count no longer.
LEMMA PanelOutdated ==
  ASSUME PanelInv, NEW r \in Repo, NEW kinds
  PROVE  /\ Panel!Outdated(r, kinds) \in JobRow
         /\ OneCounts(Panel!Outdated(r, kinds))
         /\ "refresh" \in kinds => \A s \in Slots :
              Panel!Outdated(r, kinds)[s] # None /\ Panel!Outdated(r, kinds)[s].kind = "refresh" =>
                ~Panel!Outdated(r, kinds)[s].current
<1>1. jobs[r] \in JobRow /\ OneCounts(jobs[r])
  BY DEF PanelInv, RowsAreSound
<1>2. ASSUME NEW s \in Slots
      PROVE  /\ Panel!Outdated(r, kinds)[s] \in Panel!Job \cup {None}
             /\ Panel!Outdated(r, kinds)[s] # None =>
                  /\ jobs[r][s] # None
                  /\ Panel!Outdated(r, kinds)[s].kind = jobs[r][s].kind
                  /\ Panel!Outdated(r, kinds)[s].current => jobs[r][s].current
                  /\ jobs[r][s].kind \in kinds => ~Panel!Outdated(r, kinds)[s].current
  <2>1. jobs[r][s] \in Panel!Job \cup {None}
    BY <1>1 DEF JobRow
  <2> QED
    BY <2>1, PanelConstants DEF Panel!Outdated, Panel!Job
<1>3. Panel!Outdated(r, kinds) \in JobRow
  BY <1>2 DEF JobRow, Panel!Outdated
<1>4. OneCounts(Panel!Outdated(r, kinds))
  BY <1>1, <1>2 DEF OneCounts
<1> QED
  BY <1>2, <1>3, <1>4

\* A row in which no refresh counts takes one that does.
LEMMA RowTakes ==
  ASSUME NEW row \in JobRow, NEW s \in Slots, NEW job \in Panel!Job,
         \/ job.kind # "refresh" /\ OneCounts(row)
         \/ \A t \in Slots : row[t] # None /\ row[t].kind = "refresh" => ~row[t].current
  PROVE  /\ [row EXCEPT ![s] = job] \in JobRow
         /\ OneCounts([row EXCEPT ![s] = job])
BY PanelConstants DEF JobRow, OneCounts

\* A job that begins is typed, whatever it is made for.
LEMMA JobIsNew ==
  ASSUME NEW kind \in {"refresh", "scan", "stash"}, NEW step \in {"status", "apply"}
  PROVE  /\ Panel!NewJob(kind, step) \in Panel!Job
         /\ Panel!NewJob(kind, step).kind = kind
         /\ \A silent, polled \in BOOLEAN :
              LET job == [Panel!NewJob(kind, step) EXCEPT !.silent = silent, !.polled = polled] IN
              job \in Panel!Job /\ job.kind = kind
         /\ \A pick \in Panel!Choice, files \in Panel!Version :
              LET job == [Panel!NewJob(kind, step) EXCEPT !.pick = pick, !.files = files] IN
              job \in Panel!Job /\ job.kind = kind
BY PanelConstants DEF Panel!NewJob, Panel!Job

\* A free slot has no job.
LEMMA FreeSlot ==
  ASSUME NEW r \in Repo, Panel!HasFree(r)
  PROVE  Panel!Free(r) \in Slots /\ jobs[r][Panel!Free(r)] = None
BY DEF Panel!HasFree, Panel!Free

\* Refreshes that begin overtake those of their repositories.
LEMMA PanelBegins ==
  ASSUME PanelInv, NEW R \in SUBSET Repo, NEW silent \in BOOLEAN, NEW polled \in BOOLEAN,
         Panel!BeginAll(R, silent, polled)
  PROVE  RowsAreSound'
<1> DEFINE job == [Panel!NewJob("refresh", "status") EXCEPT !.silent = silent, !.polled = polled]
           row(r) == IF r \in R THEN [Panel!Outdated(r, {"refresh", "scan"}) EXCEPT
                                        ![Panel!Free(r)] = job]
                                ELSE jobs[r]
<1>1. job \in Panel!Job
  BY JobIsNew
<1>2. jobs' = [r \in Repo |-> row(r)]
  BY DEF Panel!BeginAll
<1>3. ASSUME NEW r \in Repo PROVE row(r) \in JobRow /\ OneCounts(row(r))
  <2>1. CASE r \in R
    <3>1. Panel!Free(r) \in Slots
      BY <2>1, FreeSlot DEF Panel!BeginAll
    <3> HIDE DEF job
    <3> QED
      BY <1>1, <2>1, <3>1, PanelOutdated, RowTakes
  <2>2. CASE r \notin R
    BY <2>2 DEF PanelInv, RowsAreSound
  <2> QED
    BY <2>1, <2>2
<1> HIDE DEF row
<1> QED
  BY <1>2, <1>3 DEF RowsAreSound

\* A step of the jobs of a repository that only moves one on.
LEMMA PanelAdvances ==
  ASSUME PanelInv, NEW r \in Repo, NEW s \in Slots,
         \/ Panel!ReadStatus(r, s) \/ Panel!ReadSelection(r, s) \/ Panel!Apply(r, s)
         \/ Panel!ReadOperation(r, s) \/ Panel!Post(r, s) \/ Panel!Fail(r, s)
         \/ Panel!Settle(r, s) \/ Panel!EndScan(r, s) \/ Panel!SetStashState(r, s)
         \/ Panel!PostStash(r, s)
  PROVE  RowsAreSound'
<1> DEFINE job == jobs[r][s]
<1>1. job \in Panel!Job \cup {None} /\ None \notin Panel!Job
  BY PanelConstants DEF PanelInv, RowsAreSound, JobRow
<1>2. job # None
  BY DEF Panel!ReadStatus, Panel!ReadSelection, Panel!Apply, Panel!ReadOperation, Panel!Post,
         Panel!Fail, Panel!Settle, Panel!EndScan, Panel!SetStashState, Panel!PostStash, Panel!Under
<1>3. job \in JobRecord
  BY <1>1, <1>2 DEF Panel!Job, JobRecord
<1>4. git[r] \in Panel!Version /\ runtime[r].selected \in Panel!Choice
      /\ Stashes \subseteq Panel!Choice
  BY DEF PanelInv, Panel!Choice
<1>5. PICK next \in Panel!Job \cup {None} :
        /\ Panel!Set(r, s, next)
        /\ next # None => next.kind = job.kind /\ next.current = job.current
  <2> HIDE DEF job
  <2> USE <1>2, <1>3, <1>4, PanelConstants DEF JobRecord, Panel!Job
  <2>1. Panel!Rest(job) \in Panel!Job \cup {None}
        /\ (Panel!Rest(job) # None =>
              Panel!Rest(job).kind = job.kind /\ Panel!Rest(job).current = job.current)
    BY DEF Panel!Rest
  <2>2. CASE Panel!ReadStatus(r, s)
    <3> DEFINE next == [job EXCEPT !.files = git[r],
                          !.step = IF @ = "status" /\ job.kind = "scan" THEN "apply"
                                                                       ELSE "selection"]
    <3>1. next \in Panel!Job /\ next.kind = job.kind /\ next.current = job.current
      OBVIOUS
    <3>2. Panel!Set(r, s, next)
      BY <2>2 DEF Panel!ReadStatus, job
    <3> QED
      BY <3>1, <3>2
  <2>3. CASE Panel!ReadSelection(r, s)
    <3> DEFINE next == [job EXCEPT !.step = "apply",
                          !.pick = IF runtime[r].selected \in Stashes
                                   THEN runtime[r].selected ELSE FirstStash]
    <3>1. next \in Panel!Job /\ next.kind = job.kind /\ next.current = job.current
      OBVIOUS
    <3>2. Panel!Set(r, s, next)
      BY <2>3 DEF Panel!ReadSelection, job
    <3> QED
      BY <3>1, <3>2
  <2>4. CASE Panel!Apply(r, s) \/ Panel!SetStashState(r, s)
    <3> DEFINE next == [job EXCEPT !.step = "snapshot"]
    <3>1. next \in Panel!Job /\ next.kind = job.kind /\ next.current = job.current
      OBVIOUS
    <3>2. Panel!Set(r, s, next) \/ Panel!Set(r, s, Panel!Rest(job))
      BY <2>4 DEF Panel!Apply, Panel!SetStashState, job
    <3> QED
      BY <2>1, <3>1, <3>2
  <2>5. CASE Panel!ReadOperation(r, s)
    <3> DEFINE next == [job EXCEPT !.operation = git[r], !.step = "post"]
    <3>1. next \in Panel!Job /\ next.kind = job.kind /\ next.current = job.current
      OBVIOUS
    <3>2. Panel!Set(r, s, next)
      BY <2>5 DEF Panel!ReadOperation, job
    <3> QED
      BY <3>1, <3>2
  <2>6. CASE Panel!Post(r, s) \/ Panel!Fail(r, s)
    <3>1. Panel!Set(r, s, Panel!Rest(job))
      BY <2>6 DEF Panel!Post, Panel!Fail, job
    <3> QED
      BY <2>1, <3>1
  <2>7. CASE Panel!Settle(r, s) \/ Panel!EndScan(r, s) \/ Panel!PostStash(r, s)
    <3>1. Panel!Set(r, s, None)
      BY <2>7 DEF Panel!Settle, Panel!EndScan, Panel!PostStash
    <3> QED
      BY <3>1
  <2> QED
    BY <2>2, <2>3, <2>4, <2>5, <2>6, <2>7
<1> QED
  BY <1>2, <1>5, JobMovesOn

\* Every step of the rows keeps one refresh that counts.
LEMMA PanelRows ==
  ASSUME PanelInv, [Panel!Next]_Panel!vars
  PROVE  RowsAreSound'
<1>1. ASSUME NEW r \in Repo, NEW s \in Slots,
             \/ Panel!ReadStatus(r, s) \/ Panel!ReadSelection(r, s) \/ Panel!Apply(r, s)
             \/ Panel!ReadOperation(r, s) \/ Panel!Post(r, s) \/ Panel!Fail(r, s)
             \/ Panel!Settle(r, s) \/ Panel!EndScan(r, s) \/ Panel!SetStashState(r, s)
             \/ Panel!PostStash(r, s)
      PROVE  RowsAreSound'
  BY <1>1, PanelAdvances
<1>2. ASSUME NEW r \in Repo, Panel!Edit(r) \/ Panel!Collapse(r)
      PROVE  RowsAreSound'
  BY <1>2 DEF Panel!Edit, Panel!Collapse, PanelInv, RowsAreSound
<1>3. ASSUME NEW r \in Repo, Panel!Fire(r) \/ Panel!UserRefresh(r) \/ Panel!Expand(r)
      PROVE  RowsAreSound'
  <2>1. PICK R \in SUBSET Repo, silent \in BOOLEAN, polled \in BOOLEAN :
          Panel!BeginAll(R, silent, polled)
    <3>1. CASE Panel!Fire(r)
      <4> DEFINE R == IF r = active THEN Panel!Watched ELSE {r} \cap expanded
      <4>1. R \in SUBSET Repo /\ Panel!BeginAll(R, TRUE, FALSE)
        BY <3>1 DEF Panel!Fire, Panel!Watched, PanelInv
      <4> QED
        BY <4>1
    <3>2. CASE Panel!UserRefresh(r)
      <4>1. {r} \in SUBSET Repo /\ Panel!BeginAll({r}, FALSE, FALSE)
        BY <3>2 DEF Panel!UserRefresh
      <4> QED
        BY <4>1
    <3>3. CASE Panel!Expand(r)
      <4>1. {r} \in SUBSET Repo /\ Panel!BeginAll({r}, TRUE, FALSE)
        BY <3>3 DEF Panel!Expand
      <4> QED
        BY <4>1
    <3> QED
      BY <1>3, <3>1, <3>2, <3>3
  <2> QED
    BY <2>1, PanelBegins
<1>4. CASE Panel!Poll
  <2>1. Panel!Watched \in SUBSET Repo /\ Panel!BeginAll(Panel!Watched, TRUE, TRUE)
    BY <1>4 DEF Panel!Poll, Panel!Watched, PanelInv
  <2> QED
    BY <2>1, PanelBegins
<1>5. ASSUME NEW r \in Repo, Panel!Switch(r)
      PROVE  RowsAreSound'
  <2> DEFINE old == Panel!Outdated(active, {"refresh", "scan"})
             new == [Panel!Outdated(r, {"scan"}) EXCEPT ![Panel!Free(r)] =
                       Panel!NewJob("scan", "status")]
  <2>1. active \in Repo /\ jobs \in [Repo -> JobRow] /\ \A q \in Repo : OneCounts(jobs[q])
    BY DEF PanelInv, RowsAreSound
  <2>2. jobs' = [jobs EXCEPT ![active] = old, ![r] = new]
    BY <1>5 DEF Panel!Switch
  <2>3. old \in JobRow /\ OneCounts(old)
    BY <2>1, PanelOutdated
  <2>4. new \in JobRow /\ OneCounts(new)
    <3>1. Panel!Free(r) \in Slots
      BY <1>5, FreeSlot DEF Panel!Switch
    <3>2. Panel!NewJob("scan", "status") \in Panel!Job
          /\ Panel!NewJob("scan", "status").kind = "scan"
      BY JobIsNew
    <3>3. Panel!Outdated(r, {"scan"}) \in JobRow /\ OneCounts(Panel!Outdated(r, {"scan"}))
      BY PanelOutdated
    <3> QED
      BY <3>1, <3>2, <3>3, RowTakes
  <2> HIDE DEF old, new
  <2> QED
    BY <2>1, <2>2, <2>3, <2>4 DEF RowsAreSound
<1>6. ASSUME NEW r \in Repo, NEW stash \in Stashes, Panel!SelectStash(r, stash)
      PROVE  RowsAreSound'
  <2> DEFINE job == [Panel!NewJob("stash", "apply") EXCEPT !.pick = stash,
                                                          !.files = runtime[r].files]
             row == [jobs[r] EXCEPT ![Panel!Free(r)] = job]
  <2>1. jobs \in [Repo -> JobRow] /\ \A q \in Repo : OneCounts(jobs[q])
    BY DEF PanelInv, RowsAreSound
  <2>2. job \in Panel!Job /\ job.kind = "stash"
    <3>1. stash \in Panel!Choice /\ runtime[r].files \in Panel!Version
      BY DEF Panel!Choice, PanelInv
    <3> HIDE DEF PanelInv
    <3>2. \A pick \in Panel!Choice, files \in Panel!Version :
            LET new == [Panel!NewJob("stash", "apply") EXCEPT !.pick = pick, !.files = files] IN
            new \in Panel!Job /\ new.kind = "stash"
      BY JobIsNew
    <3> QED
      BY <3>1, <3>2
  <2>3. jobs' = [jobs EXCEPT ![r] = row]
    BY <1>6, <2>1 DEF Panel!SelectStash, Panel!Set
  <2> HIDE DEF job
  <2>4. row \in JobRow /\ OneCounts(row)
    <3>1. Panel!Free(r) \in Slots
      BY <1>6, FreeSlot DEF Panel!SelectStash
    <3> QED
      BY <2>1, <2>2, <3>1, RowTakes
  <2> HIDE DEF row
  <2> QED
    BY <2>1, <2>3, <2>4 DEF RowsAreSound
<1>7. CASE UNCHANGED Panel!vars
  BY <1>7 DEF Panel!vars, PanelInv, RowsAreSound
<1> QED
  BY <1>1, <1>2, <1>3, <1>4, <1>5, <1>6, <1>7 DEF Panel!Next

\* What the steps that advance a job leave alone.
LEMMA PanelAdvanceFrame ==
  ASSUME NEW r \in Repo, NEW s \in Slots,
         \/ Panel!ReadStatus(r, s) \/ Panel!ReadSelection(r, s) \/ Panel!Apply(r, s)
         \/ Panel!ReadOperation(r, s) \/ Panel!Post(r, s) \/ Panel!Fail(r, s)
         \/ Panel!Settle(r, s) \/ Panel!EndScan(r, s) \/ Panel!SetStashState(r, s)
         \/ Panel!PostStash(r, s)
  PROVE  /\ UNCHANGED <<git, active, expanded>>
         /\ Panel!Event \/ UNCHANGED panel_events
         /\ \/ UNCHANGED runtime
            \/ Panel!Apply(r, s) \/ Panel!EndScan(r, s) \/ Panel!SetStashState(r, s)
<1>1. CASE Panel!ReadStatus(r, s) \/ Panel!ReadSelection(r, s) \/ Panel!ReadOperation(r, s)
  BY <1>1 DEF Panel!ReadStatus, Panel!ReadSelection, Panel!ReadOperation
<1>2. CASE Panel!Apply(r, s) \/ Panel!EndScan(r, s) \/ Panel!SetStashState(r, s)
  <2>1. UNCHANGED <<git, active, expanded, panel_events>>
    BY <1>2 DEF Panel!Apply, Panel!EndScan, Panel!SetStashState
  <2> QED
    BY <1>2, <2>1
<1>3. CASE Panel!Post(r, s) \/ Panel!Settle(r, s) \/ Panel!PostStash(r, s)
  BY <1>3 DEF Panel!Post, Panel!Settle, Panel!PostStash
<1>4. CASE Panel!Fail(r, s)
  BY <1>4 DEF Panel!Fail
<1> QED
  BY <1>1, <1>2, <1>3, <1>4

\* What the others leave alone.
LEMMA PanelFrame ==
  ASSUME PanelInv, [Panel!Next]_Panel!vars
  PROVE  /\ active' \in Repo /\ expanded' \subseteq Repo
         /\ Panel!Event \/ UNCHANGED panel_events
         /\ \/ git' = git
            \/ Panel!Event /\ \E r \in Repo : git' = [git EXCEPT ![r] = @ + 1]
         /\ \/ UNCHANGED runtime
            \/ \E r \in Repo, s \in Slots :
                 Panel!Apply(r, s) \/ Panel!EndScan(r, s) \/ Panel!SetStashState(r, s)
<1> USE DEF PanelInv
<1>1. ASSUME NEW r \in Repo, NEW s \in Slots,
             \/ Panel!ReadStatus(r, s) \/ Panel!ReadSelection(r, s) \/ Panel!Apply(r, s)
             \/ Panel!ReadOperation(r, s) \/ Panel!Post(r, s) \/ Panel!Fail(r, s)
             \/ Panel!Settle(r, s) \/ Panel!EndScan(r, s) \/ Panel!SetStashState(r, s)
             \/ Panel!PostStash(r, s)
      PROVE  /\ UNCHANGED <<git, active, expanded>>
             /\ Panel!Event \/ UNCHANGED panel_events
             /\ \/ UNCHANGED runtime
                \/ \E q \in Repo, t \in Slots :
                     Panel!Apply(q, t) \/ Panel!EndScan(q, t) \/ Panel!SetStashState(q, t)
  BY <1>1, PanelAdvanceFrame
<1>2. ASSUME NEW r \in Repo, Panel!Edit(r)
      PROVE  /\ UNCHANGED <<active, expanded, runtime>> /\ Panel!Event
             /\ git' = [git EXCEPT ![r] = @ + 1]
  BY <1>2 DEF Panel!Edit
<1>3. ASSUME NEW r \in Repo,
             \/ Panel!Fire(r) \/ Panel!UserRefresh(r) \/ Panel!Expand(r) \/ Panel!Collapse(r)
             \/ Panel!Switch(r)
      PROVE  /\ UNCHANGED <<git, runtime>>
             /\ Panel!Event \/ UNCHANGED panel_events
             /\ active' \in Repo /\ expanded' \subseteq Repo
  BY <1>3 DEF Panel!Fire, Panel!UserRefresh, Panel!Expand, Panel!Collapse, Panel!Switch
<1>4. ASSUME NEW r \in Repo, NEW stash \in Stashes, Panel!SelectStash(r, stash)
      PROVE  UNCHANGED <<git, active, expanded, runtime>> /\ Panel!Event
  BY <1>4 DEF Panel!SelectStash
<1>5. CASE Panel!Poll
  BY <1>5 DEF Panel!Poll
<1>6. CASE UNCHANGED Panel!vars
  BY <1>6 DEF Panel!vars
<1>7. active \in Repo /\ expanded \subseteq Repo
  OBVIOUS
<1> HIDE DEF PanelInv
<1> QED
  BY <1>1, <1>2, <1>3, <1>4, <1>5, <1>6, <1>7 DEF Panel!Next

\* Every step of the rows keeps their invariant.
LEMMA PanelNext ==
  ASSUME PanelInv, [Panel!Next]_Panel!vars
  PROVE  PanelInv'
<1>1. RowsAreSound'
  BY PanelRows
<1>2. active' \in Repo /\ expanded' \subseteq Repo
  BY PanelFrame
<1>3. panel_events \in Nat /\ panel_events <= PanelEvents /\ PanelEvents \in Nat
  BY PanelConstants DEF PanelInv
<1>4. panel_events' \in Panel!Version /\ panel_events <= panel_events'
  <2>1. CASE Panel!Event
    BY <1>3, <2>1, PanelConstants DEF Panel!Event
  <2>2. CASE UNCHANGED panel_events
    BY <1>3, <2>2, PanelConstants
  <2> QED
    BY <2>1, <2>2, PanelFrame
<1>5. git' \in [Repo -> Panel!Version] /\ \A r \in Repo : git'[r] <= panel_events'
  <2>1. \A r \in Repo : git[r] \in Nat /\ git[r] <= panel_events /\ git[r] <= PanelEvents
    BY PanelConstants DEF PanelInv
  <2>2. git \in [Repo -> Panel!Version]
    BY DEF PanelInv
  <2>3. CASE git' = git
    BY <1>3, <1>4, <2>1, <2>2, <2>3, PanelConstants
  <2>4. CASE Panel!Event /\ \E r \in Repo : git' = [git EXCEPT ![r] = @ + 1]
    <3>1. PICK r \in Repo : git' = [git EXCEPT ![r] = @ + 1]
      BY <2>4
    <3>2. panel_events' = panel_events + 1 /\ panel_events + 1 <= PanelEvents
      BY <1>3, <2>4 DEF Panel!Event
    <3>3. ASSUME NEW q \in Repo
          PROVE  git'[q] \in Panel!Version /\ git'[q] <= panel_events'
      BY <1>3, <2>1, <2>2, <3>1, <3>2, PanelConstants
    <3>4. git' = [q \in Repo |-> git'[q]]
      BY <2>2, <3>1
    <3> QED
      BY <3>3, <3>4
  <2> QED
    BY <2>3, <2>4, PanelFrame
<1>6. runtime' \in [Repo -> [files : Panel!Version, selected : Panel!Choice]]
  <2>1. ASSUME NEW r \in Repo, NEW s \in Slots,
               Panel!Apply(r, s) \/ Panel!EndScan(r, s) \/ Panel!SetStashState(r, s)
        PROVE  runtime' \in [Repo -> [files : Panel!Version, selected : Panel!Choice]]
    <3>1. jobs[r][s] \in Panel!Job \cup {None} /\ jobs[r][s] # None
      BY <2>1 DEF Panel!Apply, Panel!EndScan, Panel!SetStashState, Panel!Under, PanelInv,
                  RowsAreSound, JobRow
    <3>2. jobs[r][s].files \in Panel!Version /\ jobs[r][s].pick \in Panel!Choice
      BY <3>1 DEF Panel!Job
    <3>3. runtime \in [Repo -> [files : Panel!Version, selected : Panel!Choice]]
      BY DEF PanelInv
    <3>4. CASE Panel!Apply(r, s)
      BY <3>2, <3>3, <3>4 DEF Panel!Apply
    <3>5. CASE Panel!EndScan(r, s)
      BY <3>2, <3>3, <3>5 DEF Panel!EndScan
    <3>6. CASE Panel!SetStashState(r, s)
      BY <3>2, <3>3, <3>6 DEF Panel!SetStashState
    <3> QED
      BY <2>1, <3>4, <3>5, <3>6
  <2>2. CASE runtime' = runtime
    BY <2>2 DEF PanelInv
  <2> QED
    BY <2>1, <2>2, PanelFrame
<1> QED
  BY <1>1, <1>2, <1>4, <1>5, <1>6 DEF PanelInv

\* Only a refresh that is applied touches both what is shown of a repository and a refresh that
\* is about to be applied.
LEMMA PanelDrops ==
  ASSUME PanelInv, [Panel!Next]_Panel!vars, NEW r \in Repo, NEW s \in Slots,
         Panel!Under(r, s, "refresh", "apply"), runtime'[r] # runtime[r],
         jobs'[r][s] # jobs[r][s], NEW t \in Slots \ {s}, jobs[r][t] # None,
         jobs[r][t].kind = "refresh"
  PROVE  ~jobs[r][t].current
<1>1. ASSUME NEW q \in Repo, NEW u \in Slots,
             Panel!Apply(q, u) \/ Panel!EndScan(q, u) \/ Panel!SetStashState(q, u)
      PROVE  Panel!Apply(r, s) /\ jobs[r][s].current
  <2>1. /\ \A p \in Repo \ {q} : runtime'[p] = runtime[p]
        /\ \A v \in Slots \ {u} : jobs'[q][v] = jobs[q][v]
    BY <1>1 DEF Panel!Apply, Panel!EndScan, Panel!SetStashState, Panel!Set, PanelInv, RowsAreSound,
                JobRow
  <2>2. q = r /\ u = s
    BY <2>1
  <2>3. Panel!Apply(r, s)
    BY <1>1, <2>2 DEF Panel!EndScan, Panel!SetStashState, Panel!Under
  <2> QED
    BY <2>3 DEF Panel!Apply
<1>2. Panel!Apply(r, s) /\ jobs[r][s].current
  BY <1>1, PanelFrame
<1> QED
  BY <1>2 DEF Panel!Under, PanelInv, RowsAreSound, OneCounts

-----------------------------------------------------------------------------
(* The draft of a commit message. *)

\* While the box of a commit is yet to be cleared the stored draft is empty and its panel has the
\* repository, unless something came in between.
ClearedAreEmpty ==
  \A p \in Hosts : clearing[p] => overlapped \/ (stored = NoMessage /\ attached[p])

\* The invariant of the draft.
DraftInv ==
  /\ clearing \in [Hosts -> BOOLEAN] /\ attached \in [Hosts -> BOOLEAN]
  /\ overlapped \in BOOLEAN
  /\ Draft!AgreedIsStored
  /\ ClearedAreEmpty

\* A draft begins with nothing agreed on.
LEMMA DraftInit == Draft!Init => DraftInv
BY DEF Draft!Init, DraftInv, Draft!AgreedIsStored, ClearedAreEmpty

\* A tick stores what it adopts, and adopts what it pushes from the store.
LEMMA TickAgrees ==
  ASSUME DraftInv, NEW p \in Hosts, Draft!TickRoot(p), UNCHANGED <<clearing, attached>>
  PROVE  DraftInv'
<1> USE DEF DraftInv, ClearedAreEmpty, Draft!AgreedIsStored
<1>1. CASE UNCHANGED <<native, base, pending, stored, overlapped>>
  BY <1>1
<1>2. CASE Draft!Push
  BY <1>2 DEF Draft!Push
<1>3. CASE Draft!Adopt
  BY <1>3 DEF Draft!Adopt, Draft!Store
<1> QED
  BY <1>1, <1>2, <1>3 DEF Draft!TickRoot, Draft!record

\* Every step of the draft keeps its invariant.
LEMMA DraftNext ==
  ASSUME DraftInv, [Draft!Next]_Draft!vars
  PROVE  DraftInv'
<1> USE DEF DraftInv, ClearedAreEmpty, Draft!AgreedIsStored
<1>1. CASE Draft!NativeBox
  BY <1>1 DEF Draft!NativeBox, Draft!record, Draft!bridge
<1>2. ASSUME NEW p \in Hosts, Draft!Tick(p) PROVE DraftInv'
  <2>1. Draft!TickRoot(p) /\ UNCHANGED <<clearing, attached>>
    BY <1>2 DEF Draft!Tick, Draft!bridge
  <2> HIDE DEF DraftInv
  <2> QED
    BY <2>1, TickAgrees
<1>3. ASSUME NEW p \in Hosts, Draft!ResolveApi(p) PROVE DraftInv'
  BY <1>3 DEF Draft!ResolveApi, Draft!record
<1>4. ASSUME NEW p \in Hosts, Draft!Attach(p) \/ Draft!Dispose(p) PROVE DraftInv'
  <2>1. attached' \in [Hosts -> BOOLEAN] /\ \A q \in Hosts \ {p} : attached'[q] = attached[q]
    BY <1>4 DEF Draft!Attach, Draft!Dispose
  <2>2. UNCHANGED <<base, pending, stored, clearing>> /\ overlapped' = (overlapped \/ clearing[p])
    BY <1>4 DEF Draft!Attach, Draft!Dispose, Draft!record
  <2> QED
    BY <2>1, <2>2
<1>5. ASSUME NEW p \in Hosts, Draft!SetVisible(p) PROVE DraftInv'
  <2>1. UNCHANGED <<clearing, attached>>
    BY <1>5 DEF Draft!SetVisible
  <2>2. CASE Draft!TickRoot(p)
    <3> HIDE DEF DraftInv
    <3> QED
      BY <2>1, <2>2, TickAgrees
  <2>3. CASE UNCHANGED <<native, base, pending, stored, overlapped, seen>>
    BY <2>1, <2>3
  <2> QED
    BY <1>5, <2>2, <2>3 DEF Draft!SetVisible, Draft!record
<1>6. ASSUME NEW p \in Hosts, Draft!SaveCommitDraft(p) PROVE DraftInv'
  <2>1. PICK text \in Messages : Draft!SetFromPanel(p, text) /\ Draft!Store(text)
    BY <1>6 DEF Draft!SaveCommitDraft
  <2>2. pending' = TRUE \/ base' = stored'
    BY <2>1 DEF Draft!SetFromPanel, Draft!Store
  <2>3. UNCHANGED <<clearing, attached>>
        /\ overlapped' = (overlapped \/ \E q \in Hosts : clearing[q])
    BY <1>6, <2>1 DEF Draft!SaveCommitDraft, Draft!Store, Draft!bridge
  <2> QED
    BY <2>2, <2>3
<1>7. ASSUME NEW p \in Hosts, Draft!Committed(p) PROVE DraftInv'
  <2>1. /\ clearing' = [clearing EXCEPT ![p] = TRUE] /\ stored' = NoMessage
        /\ attached[p] /\ UNCHANGED <<base, pending, attached, overlapped>>
    BY <1>7 DEF Draft!Committed, Draft!bridge, Draft!record
  <2> QED
    BY <2>1
<1>8. ASSUME NEW p \in Hosts, Draft!PostCommitted(p) PROVE DraftInv'
  <2>1. /\ clearing[p] /\ clearing' = [clearing EXCEPT ![p] = FALSE]
        /\ UNCHANGED <<stored, attached, overlapped>>
    BY <1>8 DEF Draft!PostCommitted, Draft!bridge
  <2>2. CASE attached[p]
    <3>1. pending' = TRUE \/ base' = NoMessage
      BY <1>8, <2>2 DEF Draft!PostCommitted, Draft!SetFromPanel
    <3> QED
      BY <2>1, <3>1
  <2>3. CASE ~attached[p]
    BY <1>8, <2>1, <2>3 DEF Draft!PostCommitted, Draft!record
  <2> QED
    BY <2>2, <2>3
<1>9. CASE UNCHANGED Draft!vars
  BY <1>9 DEF Draft!vars, Draft!box, Draft!record, Draft!bridge
<1> HIDE DEF DraftInv
<1> QED
  BY <1>1, <1>2, <1>3, <1>4, <1>5, <1>6, <1>7, <1>8, <1>9 DEF Draft!Next

\* A tick writes to the box only when what is in it was agreed on.
LEMMA TickKeepsText ==
  ASSUME NEW p \in Hosts, Draft!TickRoot(p), base # None, native # base
  PROVE  native' = native
<1>1. Draft!Reconcile = "adopt"
  BY DEF Draft!Reconcile
<1> QED
  BY <1>1 DEF Draft!TickRoot, Draft!Adopt

\* What was typed since box and panel agreed is written over by the reader alone, by a commit,
\* or by a panel that saves or clears a draft.
LEMMA TextIsKept ==
  ASSUME Draft!Next, native' # native, base # None, native # base
  PROVE  Draft!NativeBox \/ \E p \in Hosts : Draft!SaveCommitDraft(p) \/ Draft!PostCommitted(p)
<1>1. ASSUME NEW p \in Hosts, Draft!Tick(p) PROVE FALSE
  BY <1>1, TickKeepsText DEF Draft!Tick
<1>2. ASSUME NEW p \in Hosts, Draft!SetVisible(p) PROVE FALSE
  BY <1>2, TickKeepsText DEF Draft!SetVisible
<1>3. ASSUME NEW p \in Hosts,
             Draft!ResolveApi(p) \/ Draft!Attach(p) \/ Draft!Dispose(p) \/ Draft!Committed(p)
      PROVE  FALSE
  BY <1>3 DEF Draft!ResolveApi, Draft!Attach, Draft!Dispose, Draft!Committed, Draft!box
<1> QED
  BY <1>1, <1>2, <1>3 DEF Draft!Next

\* What the box and the panels agreed on is what is stored, and no tick of a bridge writes over
\* what was typed into the box since.
THEOREM MessagesAreKept ==
  Draft!Init /\ [][Draft!Next]_Draft!vars => NoMessageIsLost
<1>1. DraftInv /\ [Draft!Next]_Draft!vars => DraftInv'
  BY DraftNext
<1>2. DraftInv => (part = "draft" => Draft!AgreedIsStored)
  BY DEF DraftInv
<1>3. [Draft!Next]_Draft!vars =>
        [native' # native /\ base # None /\ native # base
           => Draft!NativeBox
              \/ \E p \in Hosts : Draft!SaveCommitDraft(p) \/ Draft!PostCommitted(p)]_Draft!vars
  BY TextIsKept
<1>4. [][Draft!Next]_Draft!vars => Draft!NativeTextIsKept
  BY <1>3, PTL DEF Draft!NativeTextIsKept
<1>5. Draft!Init /\ [][Draft!Next]_Draft!vars => [](part = "draft" => Draft!AgreedIsStored)
  BY <1>1, <1>2, DraftInit, PTL
<1> QED
  BY <1>4, <1>5 DEF NoMessageIsLost

-----------------------------------------------------------------------------
(* The switch between repositories. *)

\* A switch waits to be stored once.
WritesDiffer == \A i, j \in 1..Len(writes) : writes[i] = writes[j] => i = j

\* Selections are stored one at a time, in order.
OnlyTheHeadIsWritten == \A i \in 2..Len(writes) : switch_load[writes[i]].step = "queued"

\* One switch of the docked views is current at most.
OneSwitches == \A l, m \in Loads : Switch!Switching(l) /\ Switch!Switching(m) => l = m

\* A load of the docked views, or of the panel, that is still current read where its surface points.
SwitchReads ==
  \A l \in Loads : Switch!Switching(l) =>
    /\ {switch_load[l].branches, switch_load[l].worktrees} \subseteq {None, switch_root["docked"]}
    /\ switch_load[l].for = switch_root["docked"]

\* The same of a choice of the undocked panel.
ChoiceReads ==
  \A l \in Loads : Switch!Is(l, {"choose"}) /\ switch_load[l].current =>
    /\ {switch_load[l].branches, switch_load[l].worktrees} \subseteq {None, switch_root["panel"]}
    /\ switch_load[l].for = switch_root["panel"]

\* What an editor's switch shows before its selection is stored is still shown.
FollowedIsShown ==
  \A l \in Loads : Switch!Switching(l) /\ switch_load[l].step \in {"queued", "writing"} =>
    switch_shown["docked"].branches = switch_root["docked"] \/ crossed

\* A current switch whose selection is stored by now is to the one that is stored.
SwitchedIsStored ==
  \A l \in Loads :
    Switch!Switching(l) /\ (switch_load[l].kind = "select" \/ switch_load[l].step = "writing") =>
      switch_stored = switch_root["docked"]

\* Otherwise the selection is still to be stored.
SelectionIsOnItsWay ==
  \/ switch_stored = switch_root["docked"]
  \/ failed
  \/ \E l \in Loads : Switch!Switching(l)
  \/ writes # <<>> /\ switch_load[Head(writes)].step = "writing"

\* The invariant of the docked views.
DockedInv ==
  /\ OnlyTheHeadIsWritten /\ OneSwitches /\ SwitchReads
  /\ FollowedIsShown /\ SwitchedIsStored /\ SelectionIsOnItsWay
  /\ Switch!ActiveIsShown

\* The invariant of the switch.
SwitchInv == Switch!TypeOK /\ WritesDiffer /\ ChoiceReads /\ DockedInv

\* A switch that waits for its selection to be stored.
Waits(step) == step \in {"queued", "writing"}

\* What the switch needs of the constants.
LEMMA SwitchConstants ==
  /\ Repo # {} /\ Loads # {} /\ None \notin Repo /\ None \notin Switch!LoadRecord
BY ViewsAssumption DEF ViewsAssumption

\* The fields of a load.
LEMMA LoadIsTyped ==
  ASSUME Switch!TypeOK, NEW l \in Loads, switch_load[l] # None
  PROVE  /\ switch_load[l] \in Switch!LoadRecord
         /\ switch_load[l].current \in BOOLEAN
         /\ switch_load[l].branches \in Switch!Origin /\ switch_load[l].worktrees \in Switch!Origin
         /\ switch_load[l].for \in Repo
BY DEF Switch!TypeOK, Switch!LoadRecord

\* What waits to be stored is a load of an editor's switch.
LEMMA WritesAreTyped ==
  ASSUME SwitchInv
  PROVE  /\ writes \in Seq(Loads) /\ Len(writes) \in Nat
         /\ \A i \in 1..Len(writes) :
              /\ writes[i] \in Loads /\ switch_load[writes[i]] # None
              /\ switch_load[writes[i]].kind = "follow" /\ Waits(switch_load[writes[i]].step)
BY DEF SwitchInv, Switch!TypeOK, Switch!Is, Waits

\* So is the first of them.
LEMMA HeadOfWrites ==
  ASSUME SwitchInv, writes # <<>>
  PROVE  /\ Len(writes) \in Nat \ {0} /\ 1 \in 1..Len(writes) /\ Head(writes) = writes[1]
         /\ Head(writes) \in Loads /\ switch_load[Head(writes)] # None
         /\ switch_load[Head(writes)].kind = "follow" /\ Waits(switch_load[Head(writes)].step)
<1>1. writes \in Seq(Loads)
  BY WritesAreTyped
<1>2. Len(writes) \in Nat \ {0} /\ Head(writes) = writes[1]
  BY <1>1, EmptySeq
<1>3. 1 \in 1..Len(writes)
  BY <1>2
<1> QED
  BY <1>2, <1>3, WritesAreTyped

-----------------------------------------------------------------------------
\* What beginning a load and outdating others make of the loads.
Aged(a, b, kinds) ==
  /\ b.kind = a.kind /\ b.for = a.for /\ b.step = a.step
  /\ b.branches = a.branches /\ b.worktrees = a.worktrees
  /\ b.current <=> a.current /\ a.kind \notin kinds

\* The loads under way.
LoadTable == [Loads -> Switch!LoadRecord \cup {None}]

\* Loads that are superseded stay what they are and count no longer.
LEMMA SupersededLoads ==
  ASSUME NEW L \in LoadTable, NEW kinds
  PROVE  /\ Switch!Superseded(L, kinds) \in LoadTable
         /\ \A l \in Loads :
              /\ Switch!Superseded(L, kinds)[l] = None <=> L[l] = None
              /\ L[l] # None => Aged(L[l], Switch!Superseded(L, kinds)[l], kinds)
<1>1. ASSUME NEW l \in Loads
      PROVE  /\ Switch!Superseded(L, kinds)[l] \in Switch!LoadRecord \cup {None}
             /\ Switch!Superseded(L, kinds)[l] = None <=> L[l] = None
             /\ L[l] # None => Aged(L[l], Switch!Superseded(L, kinds)[l], kinds)
  <2>1. CASE L[l] # None /\ L[l].kind \in kinds
    <3>1. L[l] \in Switch!LoadRecord
      BY <2>1 DEF LoadTable
    <3>2. Switch!Superseded(L, kinds)[l] = [L[l] EXCEPT !.current = FALSE]
      BY <2>1 DEF Switch!Superseded
    <3>3. [L[l] EXCEPT !.current = FALSE] \in Switch!LoadRecord
      BY <3>1 DEF Switch!LoadRecord
    <3>4. Aged(L[l], [L[l] EXCEPT !.current = FALSE], kinds)
      BY <2>1, <3>1 DEF Aged, Switch!LoadRecord
    <3> QED
      BY <2>1, <3>2, <3>3, <3>4, SwitchConstants
  <2>2. CASE ~(L[l] # None /\ L[l].kind \in kinds)
    <3>1. Switch!Superseded(L, kinds)[l] = L[l]
      BY <2>2 DEF Switch!Superseded
    <3> QED
      BY <2>2, <3>1 DEF Aged, LoadTable
  <2> QED
    BY <2>1, <2>2
<1>2. Switch!Superseded(L, kinds) \in LoadTable
  BY <1>1 DEF LoadTable, Switch!Superseded
<1> QED
  BY <1>1, <1>2

\* What a load is for.
Kinds == {"select", "follow", "choose", "initial", "refresh", "full", "load"}

\* A load that begins is typed and has read nothing.
LEMMA NewRecord ==
  ASSUME NEW kind \in Kinds, NEW r \in Repo
  PROVE  /\ Switch!Began(kind, r) \in Switch!LoadRecord /\ Switch!Began(kind, r) # None
         /\ Switch!Began(kind, r).kind = kind /\ Switch!Began(kind, r).for = r
         /\ Switch!Began(kind, r).current /\ Switch!Began(kind, r).step = "idle"
         /\ Switch!Began(kind, r).branches = None /\ Switch!Began(kind, r).worktrees = None
<1>1. Switch!Began(kind, r) \in Switch!LoadRecord
  BY DEF Switch!Began, Switch!LoadRecord, Switch!Guarded, Switch!Origin, Kinds
<1> QED
  BY <1>1, SwitchConstants DEF Switch!Began

\* It takes its slot and leaves the other loads as they were superseded.
LEMMA BegunLoad ==
  ASSUME NEW L \in LoadTable, NEW kind \in Kinds, NEW r \in Repo, \E l \in Loads : L[l] = None
  PROVE  /\ Switch!Begin(L, kind, r) \in LoadTable
         /\ \E k \in Loads :
              /\ L[k] = None /\ Switch!Begin(L, kind, r)[k] = Switch!Began(kind, r)
              /\ \A l \in Loads \ {k} : Switch!Begin(L, kind, r)[l] = L[l]
<1> DEFINE k == CHOOSE l \in Loads : L[l] = None
           e == Switch!Began(kind, r)
<1>1. k \in Loads /\ L[k] = None
  OBVIOUS
<1>2. Switch!Begin(L, kind, r) = [L EXCEPT ![k] = e]
  BY DEF Switch!Begin
<1>3. e \in Switch!LoadRecord
  BY NewRecord
<1> HIDE DEF k, e
<1>4. /\ [L EXCEPT ![k] = e] \in LoadTable /\ [L EXCEPT ![k] = e][k] = e
      /\ \A l \in Loads \ {k} : [L EXCEPT ![k] = e][l] = L[l]
  BY <1>1, <1>3 DEF LoadTable
<1>5. \A l \in Loads \ {k} : Switch!Begin(L, kind, r)[l] = L[l]
  BY <1>2, <1>4
<1> QED
  BY <1>1, <1>2, <1>4, <1>5 DEF e

\* A load begins in a free slot; those of some kinds count no longer, the others stay.
LEMMA OneBegins ==
  ASSUME NEW L \in LoadTable, NEW M, NEW kind \in Kinds, NEW r \in Repo, NEW kinds,
         \E l \in Loads : L[l] = None,
         \/ M = Switch!Begin(Switch!Superseded(L, kinds), kind, r)
         \/ M = Switch!Begin(L, kind, r) /\ kinds = {}
  PROVE  /\ M \in LoadTable
         /\ \E k \in Loads :
              /\ L[k] = None /\ M[k] = Switch!Began(kind, r)
              /\ \A l \in Loads \ {k} : \/ L[l] = None /\ M[l] = None
                                        \/ L[l] # None /\ M[l] # None /\ Aged(L[l], M[l], kinds)
<1>1. PICK N \in LoadTable :
        /\ M = Switch!Begin(N, kind, r)
        /\ \A l \in Loads : /\ N[l] = None <=> L[l] = None
                            /\ L[l] # None => Aged(L[l], N[l], kinds)
  <2>1. CASE M = Switch!Begin(Switch!Superseded(L, kinds), kind, r)
    BY <2>1, SupersededLoads
  <2>2. CASE M = Switch!Begin(L, kind, r) /\ kinds = {}
    <3>1. \A l \in Loads : Aged(L[l], L[l], kinds)
      BY <2>2 DEF Aged
    <3> QED
      BY <2>2, <3>1
  <2> QED
    BY <2>1, <2>2
<1>2. \E l \in Loads : N[l] = None
  BY <1>1
<1>3. /\ M \in LoadTable
      /\ \E k \in Loads : /\ N[k] = None /\ M[k] = Switch!Began(kind, r)
                          /\ \A l \in Loads \ {k} : M[l] = N[l]
  BY <1>1, <1>2, BegunLoad
<1> QED
  BY <1>1, <1>3

\* The same where no other load is outdated.
LEMMA OneMoreLoad ==
  ASSUME NEW L \in LoadTable, NEW kind \in Kinds, NEW r \in Repo, \E l \in Loads : L[l] = None
  PROVE  /\ Switch!Begin(L, kind, r) \in LoadTable
         /\ \E k \in Loads :
              /\ L[k] = None /\ Switch!Begin(L, kind, r)[k] = Switch!Began(kind, r)
              /\ \A l \in Loads \ {k} :
                   \/ L[l] = None /\ Switch!Begin(L, kind, r)[l] = None
                   \/ /\ L[l] # None /\ Switch!Begin(L, kind, r)[l] # None
                      /\ Aged(L[l], Switch!Begin(L, kind, r)[l], {})
BY OneBegins

-----------------------------------------------------------------------------
\* Loads that wait to store their selection stay what they are.
WritesKept ==
  \A l \in Loads : Switch!Is(l, {"follow"}) /\ Waits(switch_load[l].step) =>
    Switch!Is(l, {"follow"})' /\ switch_load'[l].step = switch_load[l].step

\* So do the switches that are current, but for what they read; none comes and none goes.
SwitchesKept ==
  \A l \in Loads :
    /\ Switch!Switching(l)' <=> Switch!Switching(l)
    /\ Switch!Switching(l) =>
         /\ switch_load'[l].kind = switch_load[l].kind /\ switch_load'[l].for = switch_load[l].for
         /\ Waits(switch_load'[l].step) => switch_load'[l].step = switch_load[l].step
         /\ {switch_load'[l].branches, switch_load'[l].worktrees} \subseteq
              {switch_load[l].branches, switch_load[l].worktrees, None, switch_root["docked"]}

\* A load that began with the window stays one.
FirstLoadKept == \A l \in Loads : Switch!Is(l, {"initial"}) => Switch!Is(l, {"initial"})'

\* What waits to be stored stays so while the loads that wait do.
LEMMA WritesStay ==
  ASSUME SwitchInv, writes' = writes, WritesKept
  PROVE  /\ writes' \in Seq(Loads)
         /\ \A i \in 1..Len(writes') : /\ Switch!Is(writes[i], {"follow"})'
                                       /\ switch_load'[writes'[i]].step \in {"queued", "writing"}
         /\ WritesDiffer' /\ OnlyTheHeadIsWritten'
<1>1. ASSUME NEW i \in 1..Len(writes)
      PROVE  /\ switch_load'[writes[i]] # None /\ switch_load'[writes[i]].kind = "follow"
             /\ switch_load'[writes[i]].step = switch_load[writes[i]].step
             /\ Waits(switch_load[writes[i]].step)
  BY WritesAreTyped DEF WritesKept, Switch!Is
<1>2. \A i \in 2..Len(writes) : i \in 1..Len(writes)
  BY WritesAreTyped
<1> QED
  BY <1>1, <1>2, WritesAreTyped
  DEF SwitchInv, DockedInv, WritesDiffer, OnlyTheHeadIsWritten, Switch!Is, Waits

\* A step that keeps the switches and the selection, and what the docked views show unless it
\* shows the active repository or remembers that it does not.
LEMMA DockedStays ==
  ASSUME SwitchInv, writes' = writes, switch_stored' = switch_stored, failed' = failed,
         switch_root'["docked"] = switch_root["docked"], WritesKept, SwitchesKept,
         \/ /\ switch_shown'["docked"] = switch_shown["docked"] /\ crossed' = crossed
            /\ FirstLoadKept
         \/ switch_shown'["docked"].branches = switch_root["docked"] \/ crossed'
  PROVE  DockedInv'
<1> USE DEF SwitchInv, DockedInv, SwitchesKept
<1>1. OneSwitches'
  BY DEF OneSwitches
<1>2. SwitchReads'
  BY DEF SwitchReads
<1>3. FollowedIsShown'
  BY DEF FollowedIsShown, Waits
<1>4. SwitchedIsStored'
  BY DEF SwitchedIsStored, Waits
<1>5. SelectionIsOnItsWay'
  <2>1. ASSUME writes # <<>>, switch_load[Head(writes)].step = "writing"
        PROVE  writes' # <<>> /\ switch_load'[Head(writes')].step = "writing"
    BY <2>1, HeadOfWrites DEF WritesKept, Switch!Is
  <2> QED
    BY <2>1 DEF SelectionIsOnItsWay
<1>6. Switch!ActiveIsShown'
  BY DEF Switch!ActiveIsShown, FirstLoadKept
<1> QED
  BY <1>1, <1>2, <1>3, <1>4, <1>5, <1>6, WritesStay

\* A new switch of the docked views overtakes all others.
LEMMA NewSwitch ==
  ASSUME SwitchInv, NEW kind \in {"select", "follow"}, NEW r \in Repo, NEW k \in Loads,
         switch_load'[k] = Switch!Began(kind, r), \A l \in Loads \ {k} : ~Switch!Switching(l)',
         writes' = writes, WritesKept, switch_root'["docked"] = r,
         kind = "select" => switch_stored' = r
  PROVE  DockedInv'
<1>1. /\ switch_load'[k] # None /\ switch_load'[k].kind = kind /\ switch_load'[k].for = r
      /\ switch_load'[k].current /\ switch_load'[k].step = "idle"
      /\ switch_load'[k].branches = None /\ switch_load'[k].worktrees = None
  BY NewRecord DEF Kinds
<1>2. Switch!Switching(k)'
  BY <1>1 DEF Switch!Switching, Switch!Is
<1>3. OneSwitches' /\ SwitchReads' /\ FollowedIsShown'
  BY <1>1 DEF OneSwitches, SwitchReads, FollowedIsShown
<1>4. SwitchedIsStored'
  BY <1>1 DEF SwitchedIsStored
<1>5. SelectionIsOnItsWay' /\ Switch!ActiveIsShown'
  BY <1>2 DEF SelectionIsOnItsWay, Switch!ActiveIsShown
<1> QED
  BY <1>3, <1>4, <1>5, WritesStay DEF DockedInv

-----------------------------------------------------------------------------
\* The table of loads is typed.
LEMMA SwitchLoadsAreTyped ==
  ASSUME SwitchInv
  PROVE  /\ switch_load \in LoadTable
         /\ switch_root["docked"] \in Repo /\ switch_root["panel"] \in Repo
BY DEF SwitchInv, Switch!TypeOK, Switch!Surface, LoadTable

\* A switch by command or by editor keeps the invariant.
LEMMA SwitchingKeeps ==
  ASSUME SwitchInv, NEW r \in Repo, Switch!Select(r) \/ Switch!Follow(r)
  PROVE  SwitchInv'
<1>1. PICK kind \in {"select", "follow"} : Switch!setActiveRepository(switch_load, kind, r)
  BY DEF Switch!Select, Switch!Follow
<1>2. /\ r \in known /\ Switch!Room(switch_load, 1) /\ Switch!Event
      /\ switch_root' = [switch_root EXCEPT !["docked"] = r]
      /\ UNCHANGED <<known, cache, switch_shown, listed, crossed, switch_open, writes, action>>
  BY DEF Switch!Select, Switch!Follow, Switch!viewVars
<1>3. /\ switch_load' = Switch!Begin(Switch!Superseded(switch_load, {"select", "follow"}), kind, r)
      /\ switch_stored' = (IF kind = "select" THEN r ELSE switch_stored) /\ failed' = FALSE
  BY <1>1 DEF Switch!setActiveRepository
<1>4. kind \in Kinds /\ \E l \in Loads : switch_load[l] = None
  BY <1>2 DEF Kinds, Switch!Room
<1>5. /\ switch_load' \in LoadTable
      /\ \E k \in Loads :
           /\ switch_load[k] = None /\ switch_load'[k] = Switch!Began(kind, r)
           /\ \A l \in Loads \ {k} :
                \/ switch_load[l] = None /\ switch_load'[l] = None
                \/ /\ switch_load[l] # None /\ switch_load'[l] # None
                   /\ Aged(switch_load[l], switch_load'[l], {"select", "follow"})
  BY <1>3, <1>4, OneBegins, SwitchLoadsAreTyped
<1>6. PICK k \in Loads :
        /\ switch_load[k] = None /\ switch_load'[k] = Switch!Began(kind, r)
        /\ \A l \in Loads \ {k} :
             \/ switch_load[l] = None /\ switch_load'[l] = None
             \/ /\ switch_load[l] # None /\ switch_load'[l] # None
                /\ Aged(switch_load[l], switch_load'[l], {"select", "follow"})
  BY <1>5
<1>7. /\ switch_load'[k] # None /\ switch_load'[k].kind = kind
  BY <1>4, <1>6, NewRecord
<1>8. WritesKept
  BY <1>6 DEF WritesKept, Aged, Switch!Is
<1>9. \A l \in Loads \ {k} : ~Switch!Switching(l)'
  BY <1>6 DEF Aged, Switch!Switching, Switch!Is
<1>10. switch_root \in [Switch!Surface -> Repo] /\ switch_root' \in [Switch!Surface -> Repo]
  BY <1>2 DEF SwitchInv, Switch!TypeOK, Switch!Surface
<1>11. switch_root'["docked"] = r /\ switch_root'["panel"] = switch_root["panel"]
  BY <1>2, <1>10 DEF Switch!Surface
<1>12. DockedInv'
  BY <1>2, <1>3, <1>6, <1>8, <1>9, <1>11, NewSwitch
<1>13. ChoiceReads'
  BY <1>6, <1>7, <1>11 DEF SwitchInv, ChoiceReads, Aged, Switch!Is
<1>14. Switch!TypeOK'
  <2>1. ASSUME ~switch_open'
        PROVE  \A l \in Loads : switch_load'[l] = None \/ Switch!On(l)' = "docked"
    BY <1>2, <1>6, <1>7, <2>1 DEF SwitchInv, Switch!TypeOK, Switch!On, Aged
  <2> QED
    BY <1>2, <1>3, <1>5, <1>8, <1>10, <2>1, WritesStay DEF SwitchInv, Switch!TypeOK, LoadTable
<1> QED
  BY <1>2, <1>8, <1>12, <1>13, <1>14, WritesStay DEF SwitchInv

\* A choice in the undocked panel keeps it: the docked views do not follow.
LEMMA ChooseKeeps ==
  ASSUME SwitchInv, NEW r \in Repo, Switch!Choose(r)
  PROVE  SwitchInv'
<1>1. /\ switch_open /\ Switch!Room(switch_load, 1)
      /\ switch_root' = [switch_root EXCEPT !["panel"] = r]
      /\ switch_shown' = [switch_shown EXCEPT !["panel"] = Switch!Blank]
      /\ switch_load' = Switch!Begin(Switch!Superseded(switch_load, {"choose"}), "choose", r)
      /\ UNCHANGED <<known, cache, switch_open, listed, switch_stored, writes, action, failed,
                     crossed>>
  BY DEF Switch!Choose
<1>2. "choose" \in Kinds /\ \E l \in Loads : switch_load[l] = None
  BY <1>1 DEF Kinds, Switch!Room
<1>3. /\ switch_load' \in LoadTable
      /\ \E k \in Loads :
           /\ switch_load[k] = None /\ switch_load'[k] = Switch!Began("choose", r)
           /\ \A l \in Loads \ {k} :
                \/ switch_load[l] = None /\ switch_load'[l] = None
                \/ /\ switch_load[l] # None /\ switch_load'[l] # None
                   /\ Aged(switch_load[l], switch_load'[l], {"choose"})
  <2>1. switch_load \in LoadTable
    BY SwitchLoadsAreTyped
  <2>2. switch_load' = Switch!Begin(Switch!Superseded(switch_load, {"choose"}), "choose", r)
    BY <1>1
  <2> QED
    BY <1>2, <2>1, <2>2, OneBegins
<1>4. PICK k \in Loads :
        /\ switch_load[k] = None /\ switch_load'[k] = Switch!Began("choose", r)
        /\ \A l \in Loads \ {k} :
             \/ switch_load[l] = None /\ switch_load'[l] = None
             \/ /\ switch_load[l] # None /\ switch_load'[l] # None
                /\ Aged(switch_load[l], switch_load'[l], {"choose"})
  BY <1>3
<1>5. /\ switch_load'[k] # None /\ switch_load'[k].kind = "choose" /\ switch_load'[k].for = r
      /\ switch_load'[k].branches = None /\ switch_load'[k].worktrees = None
  BY <1>2, <1>4, NewRecord
<1>6. WritesKept /\ FirstLoadKept
  BY <1>4 DEF WritesKept, FirstLoadKept, Aged, Switch!Is
<1>7. SwitchesKept
  BY <1>4, <1>5 DEF SwitchesKept, Aged, Switch!Switching, Switch!Is
<1>8. switch_root' \in [Switch!Surface -> Repo] /\ switch_shown' \in [Switch!Surface -> Switch!View]
  BY <1>1 DEF SwitchInv, Switch!TypeOK, Switch!Surface, Switch!Blank, Switch!View, Switch!Origin
<1>9. /\ switch_root'["docked"] = switch_root["docked"] /\ switch_root'["panel"] = r
      /\ switch_shown'["docked"] = switch_shown["docked"]
  BY <1>1 DEF SwitchInv, Switch!TypeOK, Switch!Surface
<1>10. DockedInv'
  BY <1>1, <1>6, <1>7, <1>9, DockedStays
<1>11. ChoiceReads'
  BY <1>4, <1>5, <1>9 DEF ChoiceReads, Aged, Switch!Is
<1>12. Switch!TypeOK'
  BY <1>1, <1>3, <1>6, <1>8, WritesStay DEF SwitchInv, Switch!TypeOK, LoadTable
<1> QED
  BY <1>1, <1>6, <1>10, <1>11, <1>12, WritesStay DEF SwitchInv

\* A refresh keeps it: it overtakes the switch only where it takes its place.
LEMMA RefreshKeeps ==
  ASSUME SwitchInv, NEW kind \in {"refresh", "full"}, Switch!Refresh(kind)
  PROVE  SwitchInv'
<1>1. /\ Switch!Room(switch_load, 1)
      /\ switch_load' = Switch!Begin(switch_load, kind, switch_root["docked"])
      /\ UNCHANGED <<known, switch_root, cache, switch_shown, listed, crossed, switch_open,
                     switch_stored, writes, action, failed>>
  BY DEF Switch!Refresh, Switch!viewVars
<1>2. kind \in Kinds /\ \E l \in Loads : switch_load[l] = None
  BY <1>1 DEF Kinds, Switch!Room
<1>3. /\ switch_load' \in LoadTable
      /\ \E k \in Loads :
           /\ switch_load[k] = None
           /\ switch_load'[k] = Switch!Began(kind, switch_root["docked"])
           /\ \A l \in Loads \ {k} :
                \/ switch_load[l] = None /\ switch_load'[l] = None
                \/ /\ switch_load[l] # None /\ switch_load'[l] # None
                   /\ Aged(switch_load[l], switch_load'[l], {})
  <2>1. switch_load \in LoadTable /\ switch_root["docked"] \in Repo
    BY SwitchLoadsAreTyped
  <2>2. switch_load' = Switch!Begin(switch_load, kind, switch_root["docked"])
    BY <1>1
  <2> QED
    BY <1>2, <2>1, <2>2, OneBegins
<1>4. PICK k \in Loads :
        /\ switch_load[k] = None
        /\ switch_load'[k] = Switch!Began(kind, switch_root["docked"])
        /\ \A l \in Loads \ {k} :
             \/ switch_load[l] = None /\ switch_load'[l] = None
             \/ /\ switch_load[l] # None /\ switch_load'[l] # None
                /\ Aged(switch_load[l], switch_load'[l], {})
  BY <1>3
<1>5. switch_load'[k] # None /\ switch_load'[k].kind = kind
  BY <1>2, <1>4, SwitchLoadsAreTyped, NewRecord
<1>6. WritesKept /\ FirstLoadKept
  BY <1>4 DEF WritesKept, FirstLoadKept, Aged, Switch!Is
<1>7. SwitchesKept
  BY <1>4, <1>5 DEF SwitchesKept, Aged, Switch!Switching, Switch!Is
<1>8. DockedInv'
  BY <1>1, <1>6, <1>7, DockedStays
<1>9. ChoiceReads'
  BY <1>1, <1>4, <1>5 DEF SwitchInv, ChoiceReads, Aged, Switch!Is
<1>10. Switch!TypeOK'
  <2>1. ASSUME ~switch_open'
        PROVE  \A l \in Loads : switch_load'[l] = None \/ Switch!On(l)' = "docked"
    BY <1>1, <1>4, <1>5, <2>1 DEF SwitchInv, Switch!TypeOK, Switch!On, Aged
  <2> QED
    BY <1>1, <1>3, <1>6, <2>1, WritesStay DEF SwitchInv, Switch!TypeOK, LoadTable
<1> QED
  BY <1>1, <1>6, <1>8, <1>9, <1>10, WritesStay DEF SwitchInv

\* The panel, opened or read anew, keeps it.
LEMMA LoadUndockedKeeps ==
  ASSUME SwitchInv, Switch!LoadUndocked
  PROVE  SwitchInv'
<1> DEFINE at == IF switch_open \/ switch_root["panel"] \in known THEN switch_root["panel"]
                 ELSE switch_root["docked"]
<1>1. /\ Switch!Room(switch_load, 1) /\ switch_open' = TRUE
      /\ switch_root' = [switch_root EXCEPT !["panel"] = at]
      /\ cache' = (IF switch_open THEN cache ELSE [cache EXCEPT !["panel"] = None])
      /\ UNCHANGED <<known, switch_shown, listed, crossed, switch_stored, writes, action, failed>>
  BY DEF Switch!LoadUndocked, Switch!viewVars
<1>2. switch_load' = Switch!Begin(switch_load, "load", at)
  BY DEF Switch!LoadUndocked
<1>3. "load" \in Kinds /\ \E l \in Loads : switch_load[l] = None
  BY <1>1 DEF Kinds, Switch!Room
<1>4. at \in Repo
  BY SwitchLoadsAreTyped
<1>5. switch_open => at = switch_root["panel"]
  OBVIOUS
<1> HIDE DEF at
<1>6. /\ switch_load' \in LoadTable
      /\ \E k \in Loads :
           /\ switch_load[k] = None /\ switch_load'[k] = Switch!Began("load", at)
           /\ \A l \in Loads \ {k} :
                \/ switch_load[l] = None /\ switch_load'[l] = None
                \/ /\ switch_load[l] # None /\ switch_load'[l] # None
                   /\ Aged(switch_load[l], switch_load'[l], {})
  <2>1. switch_load \in LoadTable
    BY SwitchLoadsAreTyped
  <2>2. at \in Repo /\ "load" \in Kinds /\ \E l \in Loads : switch_load[l] = None
    BY <1>3, <1>4
  <2>3. /\ switch_load' \in LoadTable
        /\ \E k \in Loads :
             /\ switch_load[k] = None /\ switch_load'[k] = Switch!Began("load", at)
             /\ \A l \in Loads \ {k} :
                  \/ switch_load[l] = None /\ switch_load'[l] = None
                  \/ /\ switch_load[l] # None /\ switch_load'[l] # None
                     /\ Aged(switch_load[l], switch_load'[l], {})
    BY <1>2, <2>1, <2>2, OneMoreLoad
  <2> QED
    BY <2>3
<1>7. PICK k \in Loads :
        /\ switch_load[k] = None /\ switch_load'[k] = Switch!Began("load", at)
        /\ \A l \in Loads \ {k} :
             \/ switch_load[l] = None /\ switch_load'[l] = None
             \/ /\ switch_load[l] # None /\ switch_load'[l] # None
                /\ Aged(switch_load[l], switch_load'[l], {})
  BY <1>6
<1>8. switch_load'[k] # None /\ switch_load'[k].kind = "load"
  BY <1>3, <1>4, <1>7, NewRecord
<1>9. WritesKept /\ FirstLoadKept
  BY <1>7 DEF WritesKept, FirstLoadKept, Aged, Switch!Is
<1>10. SwitchesKept
  BY <1>7, <1>8 DEF SwitchesKept, Aged, Switch!Switching, Switch!Is
<1>11. /\ switch_root' \in [Switch!Surface -> Repo] /\ switch_root'["docked"] = switch_root["docked"]
       /\ switch_root'["panel"] = at
       /\ cache' \in [Switch!Surface -> Switch!Origin]
  BY <1>1, <1>4 DEF SwitchInv, Switch!TypeOK, Switch!Surface, Switch!Origin
<1>12. DockedInv'
  BY <1>1, <1>9, <1>10, <1>11, DockedStays
<1>13. ChoiceReads'
  <2>1. ASSUME NEW l \in Loads, Switch!Is(l, {"choose"})', switch_load'[l].current
        PROVE  /\ {switch_load'[l].branches, switch_load'[l].worktrees} \subseteq {None, at}
               /\ switch_load'[l].for = at
    <3>1. /\ switch_load[l] # None /\ switch_load[l].kind = "choose"
          /\ Aged(switch_load[l], switch_load'[l], {}) /\ switch_load[l].current
      BY <1>7, <1>8, <2>1 DEF Switch!Is, Aged
    <3>2. switch_open
      BY <3>1 DEF SwitchInv, Switch!TypeOK, Switch!On
    <3> QED
      BY <1>5, <3>1, <3>2 DEF SwitchInv, ChoiceReads, Switch!Is, Aged
  <2> QED
    BY <1>11, <2>1 DEF ChoiceReads
<1>14. Switch!TypeOK'
  BY <1>1, <1>6, <1>9, <1>11, WritesStay DEF SwitchInv, Switch!TypeOK, LoadTable
<1> QED
  BY <1>1, <1>9, <1>12, <1>13, <1>14, WritesStay DEF SwitchInv

\* The panel that is closed takes its loads with it.
LEMMA CloseKeeps ==
  ASSUME SwitchInv, Switch!Close
  PROVE  SwitchInv'
<1>1. /\ switch_open /\ switch_open' = FALSE /\ listed' = None
      /\ switch_shown' = [switch_shown EXCEPT !["panel"] = Switch!Blank]
      /\ switch_load' = [l \in Loads |->
           IF switch_load[l] # None /\ Switch!On(l) = "panel" THEN None ELSE switch_load[l]]
      /\ UNCHANGED <<known, switch_root, cache, switch_stored, writes, action, failed, crossed>>
  BY DEF Switch!Close
<1>2. ASSUME NEW l \in Loads
      PROVE  \/ switch_load'[l] = None /\ (switch_load[l] = None \/ Switch!On(l) = "panel")
             \/ switch_load'[l] = switch_load[l] /\ Switch!On(l) # "panel"
  BY <1>1
<1>3. ASSUME NEW l \in Loads, Switch!Is(l, {"choose"})' PROVE FALSE
  BY <1>2, <1>3 DEF Switch!Is, Switch!On
<1>4. \A l \in Loads : switch_load'[l] = None \/ Switch!On(l)' = "docked"
  BY <1>2 DEF Switch!On
<1>5. switch_load' \in LoadTable
  BY <1>1 DEF SwitchInv, Switch!TypeOK, LoadTable
<1>6. WritesKept /\ FirstLoadKept
  BY <1>2 DEF WritesKept, FirstLoadKept, Switch!Is, Switch!On
<1>7. SwitchesKept
  BY <1>2 DEF SwitchesKept, Switch!Switching, Switch!Is, Switch!On
<1>8. /\ switch_shown' \in [Switch!Surface -> Switch!View]
      /\ switch_shown'["docked"] = switch_shown["docked"]
      /\ switch_shown'["panel"] = Switch!Blank
  BY <1>1 DEF SwitchInv, Switch!TypeOK, Switch!Surface, Switch!Blank, Switch!View, Switch!Origin
<1>9. DockedInv'
  BY <1>1, <1>6, <1>7, <1>8, DockedStays
<1>10. ChoiceReads'
  BY <1>3 DEF ChoiceReads
<1>11. Switch!TypeOK'
  BY <1>1, <1>4, <1>5, <1>6, <1>8, WritesStay
  DEF SwitchInv, Switch!TypeOK, LoadTable, Switch!Origin
<1> QED
  BY <1>1, <1>6, <1>9, <1>10, <1>11, WritesStay DEF SwitchInv

\* Repositories that come and go keep it: where the selected one goes, another is switched to.
LEMMA DiscoverKeeps ==
  ASSUME SwitchInv, NEW found \in SUBSET Repo, Switch!Discover(found)
  PROVE  SwitchInv'
<1> DEFINE lost  == switch_root["docked"] \notin found
           moved == switch_root["panel"] \notin found
           reset == moved /\ switch_open
           M(r)  == IF reset THEN Switch!Begin(Switch!Superseded(switch_load, {"choose"}), "choose", r)
                    ELSE switch_load
<1>1. /\ found # {} /\ known' = found
      /\ Switch!Room(switch_load, (IF lost THEN 1 ELSE 0) + (IF reset THEN 1 ELSE 0))
      /\ switch_shown' = IF reset THEN [switch_shown EXCEPT !["panel"] = Switch!Blank]
                         ELSE switch_shown
      /\ UNCHANGED <<cache, switch_open, listed, writes, action, crossed>>
  BY DEF Switch!Discover
<1>2. PICK r \in found :
        /\ ~lost => r = switch_root["docked"]
        /\ switch_root' = [docked |-> r, panel |-> IF moved THEN r ELSE switch_root["panel"]]
        /\ \/ lost /\ Switch!setActiveRepository(M(r), "select", r)
           \/ ~lost /\ switch_load' = M(r) /\ UNCHANGED <<switch_stored, failed>>
  BY DEF Switch!Discover
<1>3. r \in Repo
  BY <1>2
<1>4. switch_load \in LoadTable /\ {"choose", "select"} \subseteq Kinds
  BY SwitchLoadsAreTyped DEF Kinds
<1>5. /\ lost \/ reset => \E l \in Loads : switch_load[l] = None
      /\ lost /\ reset => \E l, m \in Loads : l # m /\ switch_load[l] = None /\ switch_load[m] = None
  BY <1>1 DEF Switch!Room
<1>6. PICK L : L = M(r)
  OBVIOUS
<1>7. /\ L \in LoadTable
      /\ lost => \E l \in Loads : L[l] = None
      /\ \A l \in Loads :
           \/ switch_load[l] = None /\ L[l] = None
           \/ /\ reset /\ switch_load[l] = None /\ L[l] # None /\ L[l].kind = "choose"
              /\ L[l].for = r /\ L[l].branches = None /\ L[l].worktrees = None
           \/ /\ switch_load[l] # None /\ L[l] # None /\ switch_load[l].kind = L[l].kind
              /\ Aged(switch_load[l], L[l], IF reset THEN {"choose"} ELSE {})
  <2>1. CASE reset
    <3>1. L = Switch!Begin(Switch!Superseded(switch_load, {"choose"}), "choose", r)
      BY <1>6, <2>1
    <3>2. \E l \in Loads : switch_load[l] = None
      BY <1>5, <2>1
    <3> HIDE DEF lost, reset, M, moved
    <3>3. /\ L \in LoadTable
          /\ \E k \in Loads :
               /\ switch_load[k] = None /\ L[k] = Switch!Began("choose", r)
               /\ \A l \in Loads \ {k} :
                    \/ switch_load[l] = None /\ L[l] = None
                    \/ switch_load[l] # None /\ L[l] # None /\ Aged(switch_load[l], L[l], {"choose"})
      BY <1>3, <1>4, <3>1, <3>2, OneBegins
    <3>4. PICK k \in Loads :
            /\ switch_load[k] = None /\ L[k] = Switch!Began("choose", r)
            /\ \A l \in Loads \ {k} :
                 \/ switch_load[l] = None /\ L[l] = None
                 \/ switch_load[l] # None /\ L[l] # None /\ Aged(switch_load[l], L[l], {"choose"})
      BY <3>3
    <3>5. /\ L[k] # None /\ L[k].kind = "choose" /\ L[k].for = r
          /\ L[k].branches = None /\ L[k].worktrees = None
      BY <1>3, <1>4, <3>4, NewRecord
    <3>6. lost => \E l \in Loads : L[l] = None
      BY <1>5, <2>1, <3>4
    <3> QED
      BY <2>1, <3>3, <3>4, <3>5, <3>6 DEF Aged
  <2>2. CASE ~reset
    <3>1. L = switch_load
      BY <1>6, <2>2
    <3>2. \A l \in Loads : Aged(switch_load[l], switch_load[l], {})
      BY DEF Aged
    <3> QED
      BY <1>4, <1>5, <2>2, <3>1, <3>2
  <2> QED
    BY <2>1, <2>2
<1>8. /\ lost => /\ switch_load' = Switch!Begin(Switch!Superseded(L, {"select", "follow"}), "select", r)
                 /\ switch_stored' = r /\ failed' = FALSE
      /\ ~lost => switch_load' = L /\ UNCHANGED <<switch_stored, failed>>
  BY <1>2, <1>6 DEF Switch!setActiveRepository
<1>9. /\ switch_root' \in [Switch!Surface -> Repo] /\ switch_root'["docked"] = r
      /\ switch_root'["panel"] = (IF moved THEN r ELSE switch_root["panel"])
  BY <1>2, <1>3, SwitchLoadsAreTyped DEF Switch!Surface
<1>10. /\ switch_shown' \in [Switch!Surface -> Switch!View]
       /\ switch_shown'["docked"] = switch_shown["docked"]
       /\ ~switch_open => switch_shown' = switch_shown
  BY <1>1 DEF SwitchInv, Switch!TypeOK, Switch!Surface, Switch!Blank, Switch!View, Switch!Origin
<1>11. ~lost => r = switch_root["docked"]
  BY <1>2
<1>12. reset => moved /\ switch_open
  OBVIOUS
<1>13. ~reset => ~moved \/ ~switch_open
  OBVIOUS
<1> HIDE DEF lost, moved, reset, M
<1>14. /\ switch_load' \in LoadTable
       /\ lost => \E k \in Loads : /\ L[k] = None /\ switch_load'[k] = Switch!Began("select", r)
                                   /\ \A l \in Loads \ {k} : ~Switch!Switching(l)'
       /\ \A l \in Loads :
            \/ L[l] = None /\ switch_load'[l] = None
            \/ /\ lost /\ L[l] = None /\ switch_load'[l] # None /\ switch_load'[l].kind = "select"
            \/ /\ L[l] # None /\ switch_load'[l] # None
               /\ Aged(L[l], switch_load'[l], IF lost THEN {"select", "follow"} ELSE {})
  <2>1. CASE lost
    <3>1. /\ switch_load' \in LoadTable
          /\ \E k \in Loads :
               /\ L[k] = None /\ switch_load'[k] = Switch!Began("select", r)
               /\ \A l \in Loads \ {k} :
                    \/ L[l] = None /\ switch_load'[l] = None
                    \/ /\ L[l] # None /\ switch_load'[l] # None
                       /\ Aged(L[l], switch_load'[l], {"select", "follow"})
      BY <1>3, <1>4, <1>7, <1>8, <2>1, OneBegins
    <3>2. PICK k \in Loads :
            /\ L[k] = None /\ switch_load'[k] = Switch!Began("select", r)
            /\ \A l \in Loads \ {k} :
                 \/ L[l] = None /\ switch_load'[l] = None
                 \/ /\ L[l] # None /\ switch_load'[l] # None
                    /\ Aged(L[l], switch_load'[l], {"select", "follow"})
      BY <3>1
    <3>3. switch_load'[k] # None /\ switch_load'[k].kind = "select"
      BY <1>3, <1>4, <3>2, NewRecord
    <3>4. \A l \in Loads \ {k} : ~Switch!Switching(l)'
      BY <3>2 DEF Aged, Switch!Switching, Switch!Is
    <3> QED
      BY <2>1, <3>1, <3>2, <3>3, <3>4
  <2>2. CASE ~lost
    <3>1. \A l \in Loads : Aged(L[l], L[l], {})
      BY DEF Aged
    <3> QED
      BY <1>7, <1>8, <2>2, <3>1
  <2> QED
    BY <2>1, <2>2
<1>15. \A l \in Loads :
         \/ switch_load[l] = None /\ switch_load'[l] = None
         \/ lost /\ switch_load[l] = None /\ switch_load'[l] # None /\ switch_load'[l].kind = "select"
         \/ /\ reset /\ switch_load[l] = None /\ switch_load'[l] # None
            /\ switch_load'[l].kind = "choose" /\ switch_load'[l].for = r
            /\ switch_load'[l].branches = None /\ switch_load'[l].worktrees = None
         \/ /\ switch_load[l] # None /\ switch_load'[l] # None
            /\ Aged(switch_load[l], switch_load'[l],
                    (IF reset THEN {"choose"} ELSE {}) \cup (IF lost THEN {"select", "follow"} ELSE {}))
  BY <1>7, <1>14 DEF Aged
<1>16. WritesKept /\ FirstLoadKept
  BY <1>15 DEF WritesKept, FirstLoadKept, Aged, Switch!Is
<1>17. DockedInv'
  <2>1. CASE lost
    <3>1. PICK k \in Loads : /\ switch_load'[k] = Switch!Began("select", r)
                             /\ \A l \in Loads \ {k} : ~Switch!Switching(l)'
      BY <1>14, <2>1
    <3> QED
      BY <1>1, <1>3, <1>8, <1>9, <1>16, <2>1, <3>1, NewSwitch
  <2>2. CASE ~lost
    <3>1. SwitchesKept
      BY <1>15, <2>2 DEF SwitchesKept, Aged, Switch!Switching, Switch!Is
    <3> QED
      BY <1>1, <1>8, <1>9, <1>10, <1>11, <1>16, <2>2, <3>1, DockedStays
  <2> QED
    BY <2>1, <2>2
<1>18. ChoiceReads'
  <2>1. ASSUME NEW l \in Loads, Switch!Is(l, {"choose"})', switch_load'[l].current
        PROVE  /\ {switch_load'[l].branches, switch_load'[l].worktrees}
                    \subseteq {None, switch_root'["panel"]}
               /\ switch_load'[l].for = switch_root'["panel"]
    <3>1. switch_load'[l] # None /\ switch_load'[l].kind = "choose"
      BY <2>1 DEF Switch!Is
    <3>2. CASE switch_load[l] = None
      BY <1>9, <1>12, <1>15, <3>1, <3>2
    <3>3. CASE switch_load[l] # None
      <4>1. /\ switch_load[l].kind = "choose" /\ switch_load[l].current /\ ~reset
            /\ switch_load'[l].branches = switch_load[l].branches
            /\ switch_load'[l].worktrees = switch_load[l].worktrees
            /\ switch_load'[l].for = switch_load[l].for
        BY <1>15, <2>1, <3>1, <3>3 DEF Aged
      <4>2. switch_open
        BY <3>3, <4>1 DEF SwitchInv, Switch!TypeOK, Switch!On
      <4> QED
        BY <1>9, <1>13, <3>3, <4>1, <4>2 DEF SwitchInv, ChoiceReads, Switch!Is
    <3> QED
      BY <3>2, <3>3
  <2> QED
    BY <2>1 DEF ChoiceReads
<1>19. Switch!TypeOK'
  <2>1. ASSUME ~switch_open'
        PROVE  \A l \in Loads : switch_load'[l] = None \/ Switch!On(l)' = "docked"
    BY <1>1, <1>12, <1>15, <2>1 DEF SwitchInv, Switch!TypeOK, Switch!On, Aged
  <2>2. switch_stored' \in Repo /\ failed' \in BOOLEAN
    BY <1>3, <1>8 DEF SwitchInv, Switch!TypeOK
  <2>3. known' \in (SUBSET Repo) \ {{}}
    <3>1. found # {} /\ known' = found
      BY <1>1
    <3> QED
      BY <3>1
  <2>4. ~switch_open' => switch_shown'["panel"] = Switch!Blank /\ listed' = None
    BY <1>1, <1>10 DEF SwitchInv, Switch!TypeOK
  <2>5. /\ cache' \in [Switch!Surface -> Switch!Origin] /\ switch_open' \in BOOLEAN
        /\ listed' \in Switch!Origin /\ action' \in {None} \cup [from : Switch!Surface, of : Repo]
        /\ crossed' \in BOOLEAN
    BY <1>1 DEF SwitchInv, Switch!TypeOK
  <2>6. writes' = writes
    BY <1>1
  <2> QED
    BY <1>9, <1>10, <1>14, <1>16, <2>1, <2>2, <2>3, <2>4, <2>5, <2>6, WritesStay
    DEF Switch!TypeOK, LoadTable
<1> QED
  BY <1>1, <1>16, <1>17, <1>18, <1>19, WritesStay DEF SwitchInv

-----------------------------------------------------------------------------
\* A step of one load leaves the others as they were.
LEMMA LoadChanges ==
  ASSUME SwitchInv, NEW l \in Loads, NEW e \in Switch!LoadRecord \cup {None},
         switch_load' = [switch_load EXCEPT ![l] = e]
  PROVE  /\ switch_load' \in LoadTable /\ switch_load'[l] = e
         /\ \A m \in Loads \ {l} : switch_load'[m] = switch_load[m]
BY SwitchLoadsAreTyped DEF LoadTable

\* A read is of the repository its surface points at, and changes nothing else of its load.
LEMMA ReadKeeps ==
  ASSUME SwitchInv, NEW l \in Loads, switch_load[l] # None, NEW e \in Switch!LoadRecord,
         switch_load' = [switch_load EXCEPT ![l] = e],
         e.kind = switch_load[l].kind, e.for = switch_load[l].for,
         e.current <=> switch_load[l].current,
         {e.branches, e.worktrees} \subseteq {switch_load[l].branches, switch_load[l].worktrees,
                                               None, switch_root[Switch!On(l)]},
         e.step = switch_load[l].step \/ (~Waits(e.step) /\ ~Waits(switch_load[l].step)),
         cache' \in [Switch!Surface -> Switch!Origin], Switch!UnchangedByReads, failed' = failed
  PROVE  SwitchInv'
<1>1. e # None
  BY SwitchConstants
<1>2. UNCHANGED <<known, switch_root, switch_shown, listed, crossed, switch_open, switch_stored,
                  writes, action>>
  BY DEF Switch!UnchangedByReads, Switch!viewVars
<1>3. /\ switch_load' \in LoadTable /\ switch_load'[l] = e
      /\ \A m \in Loads \ {l} : switch_load'[m] = switch_load[m]
  BY LoadChanges
<1>4. WritesKept /\ FirstLoadKept
  BY <1>1, <1>3 DEF WritesKept, FirstLoadKept, Switch!Is
<1>5. SwitchesKept
  <2>1. ASSUME Switch!Switching(l) PROVE Switch!On(l) = "docked"
    BY <2>1 DEF Switch!Switching, Switch!Is, Switch!On
  <2> QED
    BY <1>1, <1>3, <2>1 DEF SwitchesKept, Switch!Switching, Switch!Is
<1>6. DockedInv'
  BY <1>2, <1>4, <1>5, DockedStays
<1>7. ChoiceReads'
  <2>1. ASSUME Switch!Is(l, {"choose"}) PROVE Switch!On(l) = "panel"
    BY <2>1 DEF Switch!Is, Switch!On
  <2> QED
    BY <1>1, <1>2, <1>3, <2>1 DEF SwitchInv, ChoiceReads, Switch!Is
<1>8. Switch!TypeOK'
  <2>1. ASSUME ~switch_open'
        PROVE  \A m \in Loads : switch_load'[m] = None \/ Switch!On(m)' = "docked"
    BY <1>2, <1>3, <2>1 DEF SwitchInv, Switch!TypeOK, Switch!On
  <2> QED
    BY <1>2, <1>3, <1>4, <2>1, WritesStay DEF SwitchInv, Switch!TypeOK, LoadTable
<1> QED
  BY <1>2, <1>4, <1>6, <1>7, <1>8, WritesStay DEF SwitchInv

\* The read of the branches keeps it.
LEMMA ReadBranchesKeeps ==
  ASSUME SwitchInv, NEW l \in Loads, Switch!ReadBranches(l)
  PROVE  SwitchInv'
<1> DEFINE e == [switch_load[l] EXCEPT !.branches = switch_root[Switch!On(l)]]
<1>1. /\ switch_load[l] # None /\ switch_load' = [switch_load EXCEPT ![l] = e]
      /\ Switch!UnchangedByReads /\ UNCHANGED <<cache, failed>>
  BY DEF Switch!ReadBranches
<1>2. switch_load[l] \in Switch!LoadRecord /\ switch_root[Switch!On(l)] \in Repo
  BY <1>1, LoadIsTyped, SwitchLoadsAreTyped DEF SwitchInv, Switch!On
<1>3. e \in Switch!LoadRecord
  BY <1>2 DEF Switch!LoadRecord, Switch!Origin
<1>4. /\ e.kind = switch_load[l].kind /\ e.for = switch_load[l].for
      /\ e.current = switch_load[l].current /\ e.step = switch_load[l].step
      /\ e.branches = switch_root[Switch!On(l)] /\ e.worktrees = switch_load[l].worktrees
  BY <1>2 DEF Switch!LoadRecord
<1>5. cache' \in [Switch!Surface -> Switch!Origin]
  BY <1>1 DEF SwitchInv, Switch!TypeOK
<1> HIDE DEF e
<1> QED
  BY <1>1, <1>3, <1>4, <1>5, ReadKeeps

\* The read of the worktrees keeps it.
LEMMA ReadWorktreesKeeps ==
  ASSUME SwitchInv, NEW l \in Loads, Switch!ReadWorktrees(l)
  PROVE  SwitchInv'
<1> DEFINE e == [switch_load[l] EXCEPT !.worktrees = switch_root[Switch!On(l)], !.step = "reading"]
<1>1. /\ switch_load[l] # None /\ switch_load[l].step = "idle"
      /\ switch_load' = [switch_load EXCEPT ![l] = e]
      /\ cache' = [cache EXCEPT ![Switch!On(l)] = None]
      /\ Switch!UnchangedByReads /\ UNCHANGED failed
  BY DEF Switch!ReadWorktrees
<1>2. switch_load[l] \in Switch!LoadRecord /\ switch_root[Switch!On(l)] \in Repo
  BY <1>1, LoadIsTyped, SwitchLoadsAreTyped DEF SwitchInv, Switch!On
<1>3. e \in Switch!LoadRecord
  BY <1>2 DEF Switch!LoadRecord, Switch!Origin
<1>4. /\ e.kind = switch_load[l].kind /\ e.for = switch_load[l].for
      /\ e.current = switch_load[l].current /\ e.step = "reading"
      /\ e.branches = switch_load[l].branches /\ e.worktrees = switch_root[Switch!On(l)]
  BY <1>2 DEF Switch!LoadRecord
<1>5. cache' \in [Switch!Surface -> Switch!Origin]
  BY <1>1 DEF SwitchInv, Switch!TypeOK, Switch!Origin
<1>6. ~Waits(e.step) /\ ~Waits(switch_load[l].step)
  BY <1>1, <1>4 DEF Waits
<1> HIDE DEF e
<1> QED
  BY <1>1, <1>3, <1>4, <1>5, <1>6, ReadKeeps

\* The end of the read of the worktrees keeps it.
LEMMA EndWorktreesKeeps ==
  ASSUME SwitchInv, NEW l \in Loads, Switch!EndWorktrees(l)
  PROVE  SwitchInv'
<1> DEFINE some == [switch_load[l] EXCEPT !.step = "read"]
           none == [switch_load[l] EXCEPT !.step = "read", !.worktrees = None]
<1>1. /\ switch_load[l] # None /\ switch_load[l].step = "reading"
      /\ \/ /\ cache' = [cache EXCEPT ![Switch!On(l)] = switch_load[l].worktrees]
            /\ switch_load' = [switch_load EXCEPT ![l] = some]
         \/ switch_load' = [switch_load EXCEPT ![l] = none] /\ UNCHANGED cache
      /\ Switch!UnchangedByReads /\ UNCHANGED failed
  BY DEF Switch!EndWorktrees
<1>2. switch_load[l] \in Switch!LoadRecord /\ switch_load[l].worktrees \in Switch!Origin
  BY <1>1, LoadIsTyped DEF SwitchInv
<1>3. some \in Switch!LoadRecord /\ none \in Switch!LoadRecord
  BY <1>2 DEF Switch!LoadRecord, Switch!Origin
<1>4. \A e \in {some, none} :
        /\ e.kind = switch_load[l].kind /\ e.for = switch_load[l].for
        /\ e.current = switch_load[l].current /\ e.step = "read"
        /\ e.branches = switch_load[l].branches /\ e.worktrees \in {switch_load[l].worktrees, None}
  BY <1>2 DEF Switch!LoadRecord
<1>5. cache' \in [Switch!Surface -> Switch!Origin]
  BY <1>1, <1>2 DEF SwitchInv, Switch!TypeOK
<1>6. PICK e \in {some, none} : switch_load' = [switch_load EXCEPT ![l] = e]
  BY <1>1
<1>7. /\ e \in Switch!LoadRecord /\ e.kind = switch_load[l].kind /\ e.for = switch_load[l].for
      /\ e.current = switch_load[l].current /\ e.step = "read"
      /\ e.branches = switch_load[l].branches /\ e.worktrees \in {switch_load[l].worktrees, None}
  BY <1>3, <1>4, <1>6
<1>8. ~Waits(e.step) /\ ~Waits(switch_load[l].step)
  BY <1>1, <1>7 DEF Waits
<1> HIDE DEF some, none
<1> QED
  BY <1>1, <1>5, <1>6, <1>7, <1>8, ReadKeeps

-----------------------------------------------------------------------------
\* The end of a load that is no switch of the docked views.
LEMMA EndKeeps ==
  ASSUME SwitchInv, NEW l \in Loads, switch_load[l] # None, ~Waits(switch_load[l].step),
         ~Switch!Switching(l), switch_load' = [switch_load EXCEPT ![l] = None],
         UNCHANGED <<known, switch_root, cache, switch_open, switch_stored, writes, action, failed>>,
         switch_shown' \in [Switch!Surface -> Switch!View], listed' \in Switch!Origin,
         crossed' \in BOOLEAN,
         ~switch_open => switch_shown'["panel"] = Switch!Blank /\ listed' = None,
         \/ /\ switch_shown'["docked"] = switch_shown["docked"] /\ crossed' = crossed
            /\ ~Switch!Is(l, {"initial"})
         \/ switch_shown'["docked"].branches = switch_root["docked"] \/ crossed'
  PROVE  SwitchInv'
<1>1. /\ switch_load' \in LoadTable /\ switch_load'[l] = None
      /\ \A m \in Loads \ {l} : switch_load'[m] = switch_load[m]
  BY LoadChanges
<1>2. WritesKept
  BY <1>1 DEF WritesKept, Switch!Is
<1>3. SwitchesKept
  BY <1>1 DEF SwitchesKept, Switch!Switching, Switch!Is
<1>4. ~Switch!Is(l, {"initial"}) => FirstLoadKept
  BY <1>1 DEF FirstLoadKept, Switch!Is
<1>5. DockedInv'
  BY <1>2, <1>3, <1>4, DockedStays
<1>6. ChoiceReads'
  BY <1>1 DEF SwitchInv, ChoiceReads, Switch!Is
<1>7. Switch!TypeOK'
  <2>1. ASSUME ~switch_open'
        PROVE  \A m \in Loads : switch_load'[m] = None \/ Switch!On(m)' = "docked"
    BY <1>1, <2>1 DEF SwitchInv, Switch!TypeOK, Switch!On
  <2> QED
    BY <1>1, <1>2, <2>1, WritesStay DEF SwitchInv, Switch!TypeOK, LoadTable
<1> QED
  BY <1>2, <1>5, <1>6, <1>7, WritesStay DEF SwitchInv

\* What the views show is typed.
LEMMA ViewsAreTyped ==
  ASSUME SwitchInv
  PROVE  /\ switch_shown \in [Switch!Surface -> Switch!View] /\ listed \in Switch!Origin
         /\ {crossed, failed} \subseteq BOOLEAN
         /\ ~switch_open => switch_shown["panel"] = Switch!Blank /\ listed = None
BY DEF SwitchInv, Switch!TypeOK

\* So is what a load brings them.
LEMMA DataIsTyped ==
  ASSUME SwitchInv, NEW l \in Loads, switch_load[l] # None
  PROVE  /\ Switch!Data(l) \in Switch!View /\ Switch!Data(l).branches = switch_load[l].branches
         /\ switch_load[l].branches \in Switch!Origin
<1>1. Switch!On(l) \in Switch!Surface
  BY DEF Switch!On, Switch!Surface
<1>2. cache[Switch!On(l)] \in Switch!Origin /\ switch_load[l].branches \in Switch!Origin
  BY <1>1, LoadIsTyped DEF SwitchInv, Switch!TypeOK
<1> QED
  BY <1>2 DEF Switch!Data, Switch!View

\* What the panel shows tells nothing of the docked views.
LEMMA PanelShares ==
  ASSUME SwitchInv, NEW view \in Switch!View, Switch!ShareWithPanel(view)
  PROVE  /\ switch_shown' \in [Switch!Surface -> Switch!View] /\ switch_shown'["docked"] = view
         /\ listed' \in Switch!Origin
         /\ ~switch_open => switch_shown'["panel"] = Switch!Blank /\ listed' = None
<1>1. view.branches \in Switch!Origin
  BY DEF Switch!View
<1>2. CASE switch_open /\ switch_root["panel"] = switch_root["docked"]
  <2>1. switch_shown' = [docked |-> view, panel |-> view] /\ listed' = view.branches
    BY <1>2 DEF Switch!ShareWithPanel
  <2> QED
    BY <1>1, <1>2, <2>1 DEF Switch!Surface
<1>3. CASE ~(switch_open /\ switch_root["panel"] = switch_root["docked"])
  <2>1. switch_shown' = [switch_shown EXCEPT !["docked"] = view] /\ listed' = listed
    BY <1>3 DEF Switch!ShareWithPanel
  <2> QED
    BY <2>1, ViewsAreTyped DEF Switch!Surface
<1> QED
  BY <1>2, <1>3

\* A load that was overtaken is dropped.
LEMMA DropKeeps ==
  ASSUME SwitchInv, NEW l \in Loads, Switch!Drop(l)
  PROVE  SwitchInv'
<1>1. /\ switch_load[l] # None /\ switch_load[l].kind \in {"select", "choose"}
      /\ ~switch_load[l].current /\ switch_load[l].step = "idle"
      /\ switch_load' = [switch_load EXCEPT ![l] = None]
      /\ UNCHANGED <<known, switch_root, cache, switch_open, switch_stored, writes, action, failed>>
      /\ UNCHANGED <<switch_shown, listed, crossed>>
  BY DEF Switch!Drop, Switch!Is, Switch!UnchangedByReads, Switch!viewVars
<1>2. ~Waits(switch_load[l].step) /\ ~Switch!Switching(l) /\ ~Switch!Is(l, {"initial"})
  BY <1>1 DEF Waits, Switch!Switching, Switch!Is
<1> QED
  BY <1>1, <1>2, ViewsAreTyped, EndKeeps

\* A switch that fails is remembered to have.
LEMMA FailKeeps ==
  ASSUME SwitchInv, NEW l \in Loads, Switch!Fail(l)
  PROVE  SwitchInv'
<1>1. /\ switch_load[l] # None /\ ~Switch!Is(l, {"initial"}) /\ switch_load[l].step \in {"idle", "read"}
      /\ switch_load' = [switch_load EXCEPT ![l] = None]
      /\ failed' = (failed \/ Switch!Switching(l))
      /\ UNCHANGED <<known, switch_root, cache, switch_open, switch_stored, writes, action>>
      /\ UNCHANGED <<switch_shown, listed, crossed>>
  BY DEF Switch!Fail, Switch!UnchangedByReads, Switch!viewVars
<1>2. ~Waits(switch_load[l].step)
  BY <1>1 DEF Waits
<1>3. CASE ~Switch!Switching(l)
  <2>1. failed' = failed
    BY <1>1, <1>3, ViewsAreTyped
  <2> QED
    BY <1>1, <1>2, <1>3, <2>1, ViewsAreTyped, EndKeeps
<1>4. CASE Switch!Switching(l)
  <2>1. failed' = TRUE
    BY <1>1, <1>4, ViewsAreTyped
  <2>2. /\ switch_load' \in LoadTable /\ switch_load'[l] = None
        /\ \A m \in Loads \ {l} : switch_load'[m] = switch_load[m]
    BY <1>1, LoadChanges
  <2>3. WritesKept
    BY <1>2, <2>2 DEF WritesKept, Switch!Is
  <2>4. \A m \in Loads : ~Switch!Switching(m)'
    BY <1>4, <2>2 DEF SwitchInv, DockedInv, OneSwitches, Switch!Switching, Switch!Is
  <2>5. DockedInv'
    BY <1>1, <2>1, <2>3, <2>4, WritesStay
    DEF DockedInv, OneSwitches, SwitchReads, FollowedIsShown, SwitchedIsStored,
        SelectionIsOnItsWay, Switch!ActiveIsShown
  <2>6. ChoiceReads'
    BY <1>1, <2>2 DEF SwitchInv, ChoiceReads, Switch!Is
  <2>7. Switch!TypeOK'
    <3>1. ASSUME ~switch_open'
          PROVE \A m \in Loads : switch_load'[m] = None \/ Switch!On(m)' = "docked"
      BY <1>1, <2>2, <3>1 DEF SwitchInv, Switch!TypeOK, Switch!On
    <3> QED
      BY <1>1, <2>1, <2>2, <2>3, <3>1, WritesStay DEF SwitchInv, Switch!TypeOK, LoadTable
  <2> QED
    BY <1>1, <2>3, <2>5, <2>6, <2>7, WritesStay DEF SwitchInv
<1> QED
  BY <1>3, <1>4

\* A load that looks at nothing before it is applied is one of the views as they are.
LEMMA ApplyUnguardedKeeps ==
  ASSUME SwitchInv, NEW l \in Loads, Switch!ApplyUnguarded(l)
  PROVE  SwitchInv'
<1>1. /\ switch_load[l] # None /\ switch_load[l].kind \in {"full", "initial"}
      /\ switch_load[l].step = "read"
      /\ switch_load' = [switch_load EXCEPT ![l] = None]
      /\ UNCHANGED <<known, switch_root, cache, switch_open, switch_stored, writes, action, failed>>
      /\ UNCHANGED listed
  BY DEF Switch!ApplyUnguarded, Switch!Ready, Switch!Is, Switch!UnchangedByData
<1>2. switch_shown' = [docked |-> Switch!Data(l),
                       panel |-> IF switch_open /\ Switch!Is(l, {"full"}) THEN Switch!Data(l)
                                 ELSE switch_shown["panel"]]
  BY DEF Switch!ApplyUnguarded
<1>3. crossed' = (Switch!Data(l).branches # switch_root["docked"])
  BY DEF Switch!ApplyUnguarded
<1>4. ~Waits(switch_load[l].step) /\ ~Switch!Switching(l)
  BY <1>1 DEF Waits, Switch!Switching, Switch!Is
<1>5. /\ switch_shown' \in [Switch!Surface -> Switch!View]
      /\ switch_shown'["docked"] = Switch!Data(l)
      /\ ~switch_open => switch_shown'["panel"] = switch_shown["panel"]
  BY <1>1, <1>2, ViewsAreTyped, DataIsTyped DEF Switch!Surface
<1>6. crossed' \in BOOLEAN /\ (switch_shown'["docked"].branches = switch_root["docked"] \/ crossed')
  BY <1>3, <1>5
<1> QED
  BY <1>1, <1>4, <1>5, <1>6, ViewsAreTyped, EndKeeps

\* What the panel read is shown in the panel.
LEMMA ApplyUndockedKeeps ==
  ASSUME SwitchInv, NEW l \in Loads, Switch!ApplyUndocked(l)
  PROVE  SwitchInv'
<1>1. /\ switch_load[l] # None /\ switch_load[l].kind \in {"choose", "load"}
      /\ switch_load[l].step = "read"
      /\ switch_load' = [switch_load EXCEPT ![l] = None]
      /\ UNCHANGED <<known, switch_root, cache, switch_open, switch_stored, writes, action, failed>>
      /\ UNCHANGED crossed
  BY DEF Switch!ApplyUndocked, Switch!Ready, Switch!Is, Switch!UnchangedByData
<1>2. /\ listed' \in {listed, Switch!Data(l).branches}
      /\ switch_shown' \in {switch_shown, [switch_shown EXCEPT !["panel"] = Switch!Data(l)]}
  BY DEF Switch!ApplyUndocked
<1>3. ~Waits(switch_load[l].step) /\ ~Switch!Switching(l) /\ ~Switch!Is(l, {"initial"})
  BY <1>1 DEF Waits, Switch!Switching, Switch!Is
<1>4. switch_open
  BY <1>1 DEF SwitchInv, Switch!TypeOK, Switch!On
<1>5. /\ switch_shown' \in [Switch!Surface -> Switch!View] /\ listed' \in Switch!Origin
      /\ switch_shown'["docked"] = switch_shown["docked"]
  BY <1>1, <1>2, ViewsAreTyped, DataIsTyped DEF Switch!Surface
<1> QED
  BY <1>1, <1>3, <1>4, <1>5, ViewsAreTyped, EndKeeps

-----------------------------------------------------------------------------
\* A switch that is applied is shown by the docked views.
LEMMA ApplyActiveKeeps ==
  ASSUME SwitchInv, NEW l \in Loads, Switch!ApplyActive(l)
  PROVE  SwitchInv'
<1>1. /\ switch_load[l] # None /\ switch_load[l].kind \in {"select", "refresh"}
      /\ switch_load[l].step = "read" /\ switch_load[l].branches # None
      /\ switch_load' = [switch_load EXCEPT ![l] = None]
      /\ UNCHANGED <<known, switch_root, cache, switch_open, switch_stored, writes, action, failed>>
  BY DEF Switch!ApplyActive, Switch!Ready, Switch!Is, Switch!UnchangedByData
<1>2. ~Waits(switch_load[l].step) /\ ~Switch!Is(l, {"initial"})
  BY <1>1 DEF Waits, Switch!Is
<1>3. CASE ~switch_load[l].current
  <2>1. UNCHANGED <<switch_shown, listed, crossed>>
    BY <1>3 DEF Switch!ApplyActive, Switch!viewVars
  <2>2. ~Switch!Switching(l)
    BY <1>3 DEF Switch!Switching
  <2> QED
    BY <1>1, <1>2, <2>1, <2>2, ViewsAreTyped, EndKeeps
<1>4. CASE switch_load[l].current
  <2>1. /\ Switch!ShareWithPanel(Switch!Data(l))
        /\ crossed' = (Switch!Is(l, {"refresh"}) /\ Switch!Data(l).branches # switch_root["docked"])
    BY <1>4 DEF Switch!ApplyActive
  <2>2. /\ Switch!Data(l) \in Switch!View /\ Switch!Data(l).branches = switch_load[l].branches
    BY <1>1, DataIsTyped
  <2>3. /\ switch_shown' \in [Switch!Surface -> Switch!View]
        /\ switch_shown'["docked"] = Switch!Data(l) /\ listed' \in Switch!Origin
        /\ ~switch_open => switch_shown'["panel"] = Switch!Blank /\ listed' = None
    BY <2>1, <2>2, PanelShares
  <2>4. crossed' \in BOOLEAN
    BY <2>1
  <2>5. CASE switch_load[l].kind = "refresh"
    <3>1. ~Switch!Switching(l)
      BY <2>5 DEF Switch!Switching, Switch!Is
    <3>2. switch_shown'["docked"].branches = switch_root["docked"] \/ crossed'
      BY <1>1, <2>1, <2>3, <2>5 DEF Switch!Is
    <3> QED
      BY <1>1, <1>2, <2>3, <2>4, <3>1, <3>2, EndKeeps
  <2>6. CASE switch_load[l].kind = "select"
    <3>1. Switch!Switching(l)
      BY <1>1, <1>4, <2>6 DEF Switch!Switching, Switch!Is
    <3>2. /\ switch_load[l].branches = switch_root["docked"]
          /\ switch_stored = switch_root["docked"]
      BY <1>1, <2>6, <3>1 DEF SwitchInv, DockedInv, SwitchReads, SwitchedIsStored
    <3>3. /\ switch_load' \in LoadTable /\ switch_load'[l] = None
          /\ \A m \in Loads \ {l} : switch_load'[m] = switch_load[m]
      BY <1>1, LoadChanges
    <3>4. WritesKept
      BY <1>2, <3>3 DEF WritesKept, Switch!Is
    <3>5. \A m \in Loads : ~Switch!Switching(m)'
      BY <3>1, <3>3 DEF SwitchInv, DockedInv, OneSwitches, Switch!Switching, Switch!Is
    <3>6. switch_shown'["docked"].branches = switch_root'["docked"]
          /\ switch_stored' = switch_root'["docked"]
      BY <1>1, <2>2, <2>3, <3>2
    <3>7. DockedInv'
      BY <1>1, <3>4, <3>5, <3>6, WritesStay
      DEF DockedInv, OneSwitches, SwitchReads, FollowedIsShown, SwitchedIsStored,
          SelectionIsOnItsWay, Switch!ActiveIsShown
    <3>8. ChoiceReads'
      BY <1>1, <3>3 DEF SwitchInv, ChoiceReads, Switch!Is
    <3>9. Switch!TypeOK'
      <4>1. ASSUME ~switch_open'
            PROVE \A m \in Loads : switch_load'[m] = None \/ Switch!On(m)' = "docked"
        BY <1>1, <3>3, <4>1 DEF SwitchInv, Switch!TypeOK, Switch!On
      <4> QED
        BY <1>1, <2>3, <2>4, <3>3, <3>4, <4>1, WritesStay DEF SwitchInv, Switch!TypeOK, LoadTable
    <3> QED
      BY <1>1, <3>4, <3>7, <3>8, <3>9, WritesStay DEF SwitchInv
  <2> QED
    BY <1>1, <2>5, <2>6
<1> QED
  BY <1>3, <1>4

\* An editor's switch that is applied is shown and then waits to be stored.
LEMMA ApplyFollowedKeeps ==
  ASSUME SwitchInv, NEW l \in Loads, Switch!ApplyFollowed(l)
  PROVE  SwitchInv'
<1>1. /\ switch_load[l] # None /\ switch_load[l].kind = "follow"
      /\ switch_load[l].step = "read" /\ switch_load[l].branches # None
      /\ UNCHANGED <<known, switch_root, cache, switch_open, switch_stored, action, failed>>
      /\ UNCHANGED listed
  BY DEF Switch!ApplyFollowed, Switch!Ready, Switch!Is, Switch!UnchangedByData
<1>2. ~Waits(switch_load[l].step) /\ ~Switch!Is(l, {"initial"})
  BY <1>1 DEF Waits, Switch!Is
<1>3. CASE ~switch_load[l].current
  <2>1. /\ UNCHANGED <<switch_shown, crossed, writes>>
        /\ switch_load' = [switch_load EXCEPT ![l] = None]
    BY <1>3 DEF Switch!ApplyFollowed
  <2>2. ~Switch!Switching(l)
    BY <1>3 DEF Switch!Switching
  <2> QED
    BY <1>1, <1>2, <2>1, <2>2, ViewsAreTyped, EndKeeps
<1>4. CASE switch_load[l].current
  <2> DEFINE e == [switch_load[l] EXCEPT !.step = "queued"]
  <2>1. /\ switch_shown' = [switch_shown EXCEPT !["docked"] = Switch!Data(l)] /\ crossed' = FALSE
        /\ switch_load' = [switch_load EXCEPT ![l] = e]
        /\ writes' = Append(writes, l)
    BY <1>4 DEF Switch!ApplyFollowed
  <2>2. switch_load[l] \in Switch!LoadRecord
    BY <1>1, LoadIsTyped DEF SwitchInv
  <2>3. /\ e \in Switch!LoadRecord /\ e.kind = "follow" /\ e.for = switch_load[l].for
        /\ e.current /\ e.step = "queued"
        /\ e.branches = switch_load[l].branches /\ e.worktrees = switch_load[l].worktrees
    BY <1>1, <1>4, <2>2 DEF Switch!LoadRecord
  <2>4. e # None
    BY <2>3, SwitchConstants
  <2> HIDE DEF e
  <2>5. /\ switch_load' \in LoadTable /\ switch_load'[l] = e
        /\ \A m \in Loads \ {l} : switch_load'[m] = switch_load[m]
    BY <2>1, <2>3, LoadChanges
  <2>6. Switch!Switching(l) /\ Switch!Switching(l)'
    BY <1>1, <1>4, <2>3, <2>4, <2>5 DEF Switch!Switching, Switch!Is
  <2>7. \A m \in Loads : Switch!Switching(m)' => m = l
    BY <2>5, <2>6 DEF SwitchInv, DockedInv, OneSwitches, Switch!Switching, Switch!Is
  <2>8. /\ switch_load[l].branches = switch_root["docked"]
        /\ {e.branches, e.worktrees} \subseteq {None, switch_root["docked"]}
        /\ e.for = switch_root["docked"]
    BY <1>1, <2>3, <2>6 DEF SwitchInv, DockedInv, SwitchReads
  <2>9. /\ switch_shown' \in [Switch!Surface -> Switch!View]
        /\ switch_shown'["docked"].branches = switch_root["docked"]
        /\ switch_shown'["panel"] = switch_shown["panel"]
    BY <1>1, <2>1, <2>8, ViewsAreTyped, DataIsTyped DEF Switch!Surface
  <2>10. /\ writes' \in Seq(Loads) /\ Len(writes') = Len(writes) + 1 /\ writes'[Len(writes')] = l
         /\ \A i \in 1..Len(writes) : writes'[i] = writes[i]
    BY <2>1, WritesAreTyped
  <2>11. ASSUME NEW i \in 1..Len(writes')
         PROVE  \/ /\ i \in 1..Len(writes) /\ writes'[i] = writes[i] /\ writes'[i] # l
                   /\ switch_load'[writes'[i]] = switch_load[writes[i]]
                \/ i = Len(writes) + 1 /\ writes'[i] = l /\ switch_load'[writes'[i]] = e
    <3>1. CASE i \in 1..Len(writes)
      BY <1>2, <2>5, <2>10, <3>1, WritesAreTyped
    <3>2. CASE i = Len(writes) + 1
      BY <2>5, <2>10, <3>2
    <3> QED
      BY <2>10, <3>1, <3>2, WritesAreTyped
  <2>12. \A i \in 1..Len(writes') : /\ switch_load'[writes'[i]] # None
                                    /\ switch_load'[writes'[i]].kind = "follow"
                                    /\ switch_load'[writes'[i]].step \in {"queued", "writing"}
    BY <2>3, <2>4, <2>11, WritesAreTyped DEF Waits
  <2>13. WritesDiffer'
    BY <2>11, WritesAreTyped DEF SwitchInv, WritesDiffer
  <2>14. OnlyTheHeadIsWritten'
    <3>1. \A i \in 2..Len(writes') : i \in 1..Len(writes') /\ (i \in 1..Len(writes) => i \in 2..Len(writes))
      BY <2>10, WritesAreTyped
    <3> QED
      BY <2>3, <2>11, <3>1 DEF SwitchInv, DockedInv, OnlyTheHeadIsWritten
  <2>15. OneSwitches' /\ SelectionIsOnItsWay' /\ Switch!ActiveIsShown'
    BY <2>6, <2>7 DEF OneSwitches, SelectionIsOnItsWay, Switch!ActiveIsShown
  <2>16. SwitchReads' /\ FollowedIsShown' /\ SwitchedIsStored'
    BY <1>1, <2>3, <2>5, <2>7, <2>8, <2>9 DEF SwitchReads, FollowedIsShown, SwitchedIsStored
  <2>17. ChoiceReads'
    BY <1>1, <2>3, <2>5 DEF SwitchInv, ChoiceReads, Switch!Is
  <2>18. Switch!TypeOK'
    <3>1. ASSUME ~switch_open'
          PROVE /\ \A m \in Loads : switch_load'[m] = None \/ Switch!On(m)' = "docked"
                /\ switch_shown'["panel"] = Switch!Blank /\ listed' = None
      <4>1. Switch!On(l)' = "docked"
        BY <2>3, <2>5 DEF Switch!On
      <4> QED
        BY <1>1, <2>5, <2>9, <3>1, <4>1 DEF SwitchInv, Switch!TypeOK, Switch!On
    <3>2. \A i \in 1..Len(writes') : /\ Switch!Is(writes[i], {"follow"})'
                                     /\ switch_load'[writes'[i]].step \in {"queued", "writing"}
      BY <2>12 DEF Switch!Is
    <3> QED
      BY <1>1, <2>1, <2>5, <2>9, <2>10, <3>1, <3>2 DEF SwitchInv, Switch!TypeOK, LoadTable
  <2> QED
    BY <2>13, <2>14, <2>15, <2>16, <2>17, <2>18 DEF SwitchInv, DockedInv
<1> QED
  BY <1>3, <1>4

\* The first selection that waits is stored.
LEMMA StoreFollowedKeeps ==
  ASSUME SwitchInv, Switch!StoreFollowed
  PROVE  SwitchInv'
<1>0. PICK h \in Loads : h = Head(writes)
  BY HeadOfWrites DEF Switch!StoreFollowed
<1> DEFINE e == [switch_load[h] EXCEPT !.step = "writing"]
<1>1. /\ writes # <<>> /\ switch_load[h].step = "queued" /\ switch_load[h].current
      /\ switch_stored' = switch_load[h].for
      /\ switch_load' = [switch_load EXCEPT ![h] = e]
      /\ UNCHANGED <<known, switch_root, cache, switch_shown, listed, crossed, switch_open, writes,
                     action, failed>>
  BY <1>0 DEF Switch!StoreFollowed, Switch!viewVars
<1>2. /\ Len(writes) \in Nat \ {0} /\ 1 \in 1..Len(writes) /\ h = writes[1]
      /\ h \in Loads /\ switch_load[h] # None /\ switch_load[h].kind = "follow"
  BY <1>0, <1>1, HeadOfWrites
<1>3. switch_load[h] \in Switch!LoadRecord
  BY <1>2, LoadIsTyped DEF SwitchInv
<1>4. /\ e \in Switch!LoadRecord /\ e.kind = "follow" /\ e.for = switch_load[h].for
      /\ e.current /\ e.step = "writing"
      /\ e.branches = switch_load[h].branches /\ e.worktrees = switch_load[h].worktrees
  BY <1>1, <1>2, <1>3 DEF Switch!LoadRecord
<1>5. e # None
  BY <1>4, SwitchConstants
<1> HIDE DEF e
<1>6. /\ switch_load' \in LoadTable /\ switch_load'[h] = e
      /\ \A m \in Loads \ {h} : switch_load'[m] = switch_load[m]
  BY <1>1, <1>2, <1>4, LoadChanges
<1>7. Switch!Switching(h) /\ Switch!Switching(h)'
  BY <1>1, <1>2, <1>4, <1>5, <1>6 DEF Switch!Switching, Switch!Is
<1>8. \A m \in Loads : Switch!Switching(m)' => m = h
  BY <1>2, <1>6, <1>7 DEF SwitchInv, DockedInv, OneSwitches, Switch!Switching, Switch!Is
<1>9. /\ {e.branches, e.worktrees} \subseteq {None, switch_root["docked"]}
      /\ e.for = switch_root["docked"] /\ switch_stored' = switch_root["docked"]
  BY <1>1, <1>2, <1>4, <1>7 DEF SwitchInv, DockedInv, SwitchReads
<1>10. switch_shown["docked"].branches = switch_root["docked"] \/ crossed
  BY <1>1, <1>2, <1>7 DEF SwitchInv, DockedInv, FollowedIsShown
<1>11. ASSUME NEW i \in 2..Len(writes)
       PROVE  /\ i \in 1..Len(writes) /\ writes[i] # h
              /\ switch_load'[writes[i]] = switch_load[writes[i]]
  <2>1. i \in 1..Len(writes) /\ i # 1
    BY <1>2
  <2>2. writes[i] # h /\ writes[i] \in Loads
    BY <1>2, <2>1, WritesAreTyped DEF SwitchInv, WritesDiffer
  <2> QED
    BY <1>6, <2>1, <2>2
<1>12. OnlyTheHeadIsWritten'
  BY <1>1, <1>11 DEF SwitchInv, DockedInv, OnlyTheHeadIsWritten
<1>13. WritesDiffer'
  BY <1>1 DEF SwitchInv, WritesDiffer
<1>14. OneSwitches' /\ SelectionIsOnItsWay' /\ Switch!ActiveIsShown'
  BY <1>1, <1>2, <1>7, <1>8, <1>9 DEF OneSwitches, SelectionIsOnItsWay, Switch!ActiveIsShown
<1>15. SwitchReads' /\ FollowedIsShown' /\ SwitchedIsStored'
  BY <1>1, <1>6, <1>8, <1>9, <1>10 DEF SwitchReads, FollowedIsShown, SwitchedIsStored
<1>16. ChoiceReads'
  BY <1>1, <1>4, <1>6 DEF SwitchInv, ChoiceReads, Switch!Is
<1>17. Switch!TypeOK'
  <2>1. ASSUME ~switch_open'
        PROVE  \A m \in Loads : switch_load'[m] = None \/ Switch!On(m)' = "docked"
    <3>1. Switch!On(h)' = "docked"
      BY <1>4, <1>6 DEF Switch!On
    <3> QED
      BY <1>1, <1>6, <2>1, <3>1 DEF SwitchInv, Switch!TypeOK, Switch!On
  <2>2. ASSUME NEW i \in 1..Len(writes)
        PROVE  /\ switch_load'[writes[i]] # None /\ switch_load'[writes[i]].kind = "follow"
               /\ switch_load'[writes[i]].step \in {"queued", "writing"}
    <3>1. CASE writes[i] = h
      BY <1>4, <1>5, <1>6, <3>1
    <3>2. CASE writes[i] # h
      BY <1>6, <3>2, WritesAreTyped DEF Waits
    <3> QED
      BY <3>1, <3>2
  <2>3. \A i \in 1..Len(writes') : /\ Switch!Is(writes[i], {"follow"})'
                                   /\ switch_load'[writes'[i]].step \in {"queued", "writing"}
    BY <1>1, <2>2 DEF Switch!Is
  <2>4. switch_stored' \in Repo
    BY <1>9, SwitchLoadsAreTyped
  <2> QED
    BY <1>1, <1>6, <2>1, <2>3, <2>4 DEF SwitchInv, Switch!TypeOK, LoadTable
<1> QED
  BY <1>12, <1>13, <1>14, <1>15, <1>16, <1>17 DEF SwitchInv, DockedInv

\* The next one begins to be stored when the first is.
LEMMA EndFollowedKeeps ==
  ASSUME SwitchInv, Switch!EndFollowed
  PROVE  SwitchInv'
<1>1. PICK h \in Loads : h = Head(writes)
  BY HeadOfWrites DEF Switch!EndFollowed
<1>2. /\ writes # <<>> /\ (switch_load[h].current => switch_load[h].step = "writing")
      /\ switch_stored' = (IF switch_load[h].step = "writing" /\ ~switch_load[h].current
                           THEN switch_root["docked"] ELSE switch_stored)
      /\ switch_load' = [switch_load EXCEPT ![h] = None] /\ writes' = Tail(writes)
      /\ UNCHANGED <<known, switch_root, cache, switch_open, action, failed>>
  BY <1>1 DEF Switch!EndFollowed
<1>3. /\ switch_load[h].current => Switch!ShareWithPanel(switch_shown["docked"]) /\ UNCHANGED crossed
      /\ ~switch_load[h].current => UNCHANGED <<switch_shown, listed, crossed>>
  BY <1>1 DEF Switch!EndFollowed, Switch!viewVars
<1>4. /\ Len(writes) \in Nat \ {0} /\ 1 \in 1..Len(writes) /\ h = writes[1]
      /\ switch_load[h] # None /\ switch_load[h].kind = "follow" /\ Waits(switch_load[h].step)
  BY <1>1, <1>2, HeadOfWrites
<1>5. /\ switch_load' \in LoadTable /\ switch_load'[h] = None
      /\ \A m \in Loads \ {h} : switch_load'[m] = switch_load[m]
  BY <1>2, LoadChanges
<1>6. /\ writes' \in Seq(Loads) /\ Len(writes') = Len(writes) - 1
      /\ \A i \in 1..Len(writes') : writes'[i] = writes[i + 1]
  <2>1. writes \in Seq(Loads)
    BY WritesAreTyped
  <2> QED
    BY <1>2, <2>1, HeadTailProperties
<1>7. ASSUME NEW i \in 1..Len(writes')
      PROVE  /\ i + 1 \in 2..Len(writes) /\ i + 1 \in 1..Len(writes)
             /\ writes'[i] = writes[i + 1] /\ writes'[i] \in Loads /\ writes'[i] # h
             /\ switch_load'[writes'[i]] = switch_load[writes[i + 1]]
  <2>1. i + 1 \in 2..Len(writes) /\ i + 1 \in 1..Len(writes) /\ i + 1 # 1
    BY <1>4, <1>6
  <2>2. writes[i + 1] \in Loads /\ writes[i + 1] # h
    BY <1>4, <2>1, WritesAreTyped DEF SwitchInv, WritesDiffer
  <2> QED
    BY <1>5, <1>6, <2>1, <2>2
<1>8. /\ switch_shown' \in [Switch!Surface -> Switch!View]
      /\ switch_shown'["docked"] = switch_shown["docked"]
      /\ listed' \in Switch!Origin /\ crossed' = crossed
      /\ ~switch_open => switch_shown'["panel"] = Switch!Blank /\ listed' = None
  <2>1. CASE switch_load[h].current
    <3>1. switch_shown["docked"] \in Switch!View
      BY ViewsAreTyped DEF Switch!Surface
    <3> QED
      BY <1>3, <2>1, <3>1, PanelShares
  <2>2. CASE ~switch_load[h].current
    BY <1>3, <2>2, ViewsAreTyped
  <2> QED
    BY <2>1, <2>2
<1>9. WritesDiffer'
  BY <1>6, <1>7, WritesAreTyped DEF SwitchInv, WritesDiffer
<1>10. OnlyTheHeadIsWritten'
  <2>1. \A i \in 2..Len(writes') : i \in 1..Len(writes')
    BY <1>4, <1>6
  <2> QED
    BY <1>7, <2>1 DEF SwitchInv, DockedInv, OnlyTheHeadIsWritten
<1>11. FirstLoadKept
  BY <1>4, <1>5 DEF FirstLoadKept, Switch!Is
<1>12. \A m \in Loads : Switch!Switching(m)' => m # h /\ Switch!Switching(m) /\ switch_load'[m] = switch_load[m]
  BY <1>5 DEF Switch!Switching, Switch!Is
<1>13. OneSwitches' /\ SwitchReads' /\ FollowedIsShown'
  BY <1>2, <1>8, <1>12
  DEF SwitchInv, DockedInv, OneSwitches, SwitchReads, FollowedIsShown
<1>14. /\ SwitchedIsStored' /\ SelectionIsOnItsWay' /\ Switch!ActiveIsShown'
       /\ switch_stored' \in Repo
  <2>1. CASE switch_load[h].current
    <3>1. Switch!Switching(h) /\ switch_load[h].step = "writing"
      BY <1>2, <1>4, <2>1 DEF Switch!Switching, Switch!Is
    <3>2. /\ switch_stored = switch_root["docked"] /\ switch_stored' = switch_stored
          /\ switch_shown["docked"].branches = switch_root["docked"] \/ crossed
      BY <1>2, <2>1, <3>1 DEF SwitchInv, DockedInv, SwitchedIsStored, FollowedIsShown
    <3>3. switch_root' = switch_root
      BY <1>2
    <3>4. SwitchedIsStored' /\ SelectionIsOnItsWay' /\ Switch!ActiveIsShown'
      BY <1>8, <3>2, <3>3 DEF SwitchedIsStored, SelectionIsOnItsWay, Switch!ActiveIsShown
    <3> QED
      BY <3>2, <3>4, SwitchLoadsAreTyped
  <2>2. CASE ~switch_load[h].current
    <3>1. ~Switch!Switching(h)
      BY <2>2 DEF Switch!Switching
    <3>2. \A m \in Loads : Switch!Switching(m) => Switch!Switching(m)'
      BY <1>5, <3>1 DEF Switch!Switching, Switch!Is
    <3>3. Switch!ActiveIsShown'
      BY <1>2, <1>8, <1>11, <3>2 DEF SwitchInv, DockedInv, Switch!ActiveIsShown, FirstLoadKept
    <3>4. CASE switch_load[h].step = "writing"
      <4>1. switch_stored' = switch_root["docked"] /\ switch_root' = switch_root
        BY <1>2, <2>2, <3>4
      <4> QED
        BY <3>3, <4>1, SwitchLoadsAreTyped DEF SwitchedIsStored, SelectionIsOnItsWay
    <3>5. CASE switch_load[h].step # "writing"
      <4>1. switch_stored' = switch_stored /\ switch_root' = switch_root /\ failed' = failed
        BY <1>2, <3>5
      <4>2. SwitchedIsStored'
        BY <1>12, <4>1 DEF SwitchInv, DockedInv, SwitchedIsStored
      <4>3. SelectionIsOnItsWay'
        BY <1>1, <3>2, <3>5, <4>1 DEF SwitchInv, DockedInv, SelectionIsOnItsWay
      <4>4. switch_stored \in Repo
        BY DEF SwitchInv, Switch!TypeOK
      <4> QED
        BY <3>3, <4>1, <4>2, <4>3, <4>4
    <3> QED
      BY <3>4, <3>5
  <2> QED
    BY <2>1, <2>2
<1>15. ChoiceReads'
  BY <1>2, <1>5 DEF SwitchInv, ChoiceReads, Switch!Is
<1>16. Switch!TypeOK'
  <2>1. ASSUME ~switch_open'
        PROVE  \A m \in Loads : switch_load'[m] = None \/ Switch!On(m)' = "docked"
    BY <1>2, <1>5, <2>1 DEF SwitchInv, Switch!TypeOK, Switch!On
  <2>2. \A i \in 1..Len(writes') : /\ switch_load'[writes'[i]] # None
                                   /\ switch_load'[writes'[i]].kind = "follow"
                                   /\ switch_load'[writes'[i]].step \in {"queued", "writing"}
    BY <1>7, WritesAreTyped DEF Waits
  <2>3. \A i \in 1..Len(writes') : /\ Switch!Is(writes[i], {"follow"})'
                                   /\ switch_load'[writes'[i]].step \in {"queued", "writing"}
    BY <2>2 DEF Switch!Is
  <2> QED
    BY <1>2, <1>5, <1>6, <1>8, <1>14, <2>1, <2>3 DEF SwitchInv, Switch!TypeOK, LoadTable
<1> QED
  BY <1>9, <1>10, <1>13, <1>14, <1>15, <1>16 DEF SwitchInv, DockedInv

-----------------------------------------------------------------------------
\* A step that leaves the loads and the views alone.
LEMMA CommandsKeep ==
  ASSUME SwitchInv,
         UNCHANGED <<known, switch_root, cache, switch_shown, listed, crossed, switch_open,
                     switch_stored, switch_load, writes, failed>>,
         action' \in {None} \cup [from : Switch!Surface, of : Repo]
  PROVE  SwitchInv'
<1>1. WritesKept /\ FirstLoadKept
  BY DEF WritesKept, FirstLoadKept, Switch!Is
<1>2. SwitchesKept
  BY DEF SwitchesKept, Switch!Switching, Switch!Is
<1>3. DockedInv'
  BY <1>1, <1>2, DockedStays
<1>4. ChoiceReads'
  BY DEF SwitchInv, ChoiceReads, Switch!Is
<1>5. Switch!TypeOK'
  <2>1. ASSUME ~switch_open'
        PROVE  \A m \in Loads : switch_load'[m] = None \/ Switch!On(m)' = "docked"
    BY <2>1 DEF SwitchInv, Switch!TypeOK, Switch!On
  <2> QED
    BY <1>1, <2>1, WritesStay DEF SwitchInv, Switch!TypeOK
<1> QED
  BY <1>1, <1>3, <1>4, <1>5, WritesStay DEF SwitchInv

\* A click on a repository asks for its switch.
LEMMA ClickKeeps ==
  ASSUME SwitchInv, NEW surface \in Switch!Surface, Switch!Click(surface)
  PROVE  SwitchInv'
<1>1. /\ switch_shown[surface].branches # None
      /\ action' = [from |-> surface, of |-> switch_shown[surface].branches]
      /\ UNCHANGED <<known, switch_root, cache, switch_shown, listed, crossed, switch_open,
                     switch_stored, switch_load, writes, failed>>
  BY DEF Switch!Click, Switch!viewVars
<1>2. switch_shown[surface].branches \in Repo
  BY <1>1, ViewsAreTyped DEF Switch!View, Switch!Origin
<1>3. action' \in [from : Switch!Surface, of : Repo]
  BY <1>1, <1>2
<1> QED
  BY <1>1, <1>3, CommandsKeep

\* The window opens with one load, of the repository that was stored.
LEMMA SwitchBegins == Switch!Init => SwitchInv
<1> SUFFICES ASSUME Switch!Init PROVE SwitchInv
  OBVIOUS
<1> DEFINE none == [l \in Loads |-> None]
<1>1. /\ known = Repo /\ switch_root = [s \in Switch!Surface |-> CHOOSE r \in Repo : TRUE]
      /\ switch_stored = switch_root["docked"]
      /\ cache = [s \in Switch!Surface |-> None] /\ switch_shown = [s \in Switch!Surface |-> Switch!Blank]
      /\ switch_open = FALSE /\ listed = None
      /\ switch_load = Switch!Begin(none, "initial", switch_root["docked"])
      /\ writes = <<>> /\ action = None /\ failed = FALSE /\ crossed = FALSE
  BY DEF Switch!Init
<1>2. (CHOOSE r \in Repo : TRUE) \in Repo
  BY SwitchConstants
<1>3. switch_root \in [Switch!Surface -> Repo] /\ switch_root["docked"] \in Repo
  BY <1>1, <1>2 DEF Switch!Surface
<1>4. none \in LoadTable /\ "initial" \in Kinds /\ \E l \in Loads : none[l] = None
  BY SwitchConstants DEF LoadTable, Kinds
<1>5. \A l \in Loads : none[l] = None
  OBVIOUS
<1> HIDE DEF none
<1>6. /\ switch_load \in LoadTable
      /\ \E k \in Loads :
           /\ switch_load[k] = Switch!Began("initial", switch_root["docked"])
           /\ \A l \in Loads \ {k} : switch_load[l] = none[l]
  <2>1. switch_load = Switch!Begin(none, "initial", switch_root["docked"])
    BY <1>1
  <2>2. switch_root["docked"] \in Repo
    BY <1>3
  <2> QED
    BY <1>4, <2>1, <2>2, BegunLoad
<1>7. PICK k \in Loads :
        /\ switch_load[k] = Switch!Began("initial", switch_root["docked"])
        /\ \A l \in Loads \ {k} : switch_load[l] = None
  BY <1>5, <1>6
<1>8. switch_load[k] # None /\ switch_load[k].kind = "initial"
  BY <1>3, <1>4, <1>7, NewRecord
<1>9. \A l \in Loads : ~Switch!Is(l, {"choose"}) /\ ~Switch!Switching(l)
                       /\ (switch_load[l] = None \/ Switch!On(l) = "docked")
  BY <1>7, <1>8 DEF Switch!Is, Switch!Switching, Switch!On
<1>10. Switch!Is(k, {"initial"})
  BY <1>8 DEF Switch!Is
<1>11. /\ writes \in Seq(Loads) /\ \A i \in 1..Len(writes) : FALSE
       /\ \A i \in 2..Len(writes) : FALSE
  <2>1. writes = <<>> /\ <<>> \in Seq(Loads) /\ Len(<<>>) = 0
    BY <1>1
  <2> QED
    BY <2>1
<1>12. Switch!TypeOK
  <2>1. switch_shown \in [Switch!Surface -> Switch!View] /\ switch_shown["panel"] = Switch!Blank
    BY <1>1 DEF Switch!Surface, Switch!Blank, Switch!View, Switch!Origin
  <2>2. cache \in [Switch!Surface -> Switch!Origin] /\ listed \in Switch!Origin
    BY <1>1 DEF Switch!Origin
  <2>3. known \in (SUBSET Repo) \ {{}}
    BY <1>1, SwitchConstants
  <2> QED
    BY <1>1, <1>3, <1>6, <1>9, <1>11, <2>1, <2>2, <2>3 DEF Switch!TypeOK, LoadTable
<1>13. DockedInv
  BY <1>1, <1>9, <1>10, <1>11
  DEF DockedInv, OnlyTheHeadIsWritten, OneSwitches, SwitchReads, FollowedIsShown,
      SwitchedIsStored, SelectionIsOnItsWay, Switch!ActiveIsShown
<1> QED
  BY <1>9, <1>11, <1>12, <1>13 DEF SwitchInv, WritesDiffer, ChoiceReads

\* Every step of the switch keeps its invariant.
LEMMA SwitchSteps == SwitchInv /\ [Switch!Next]_Switch!vars => SwitchInv'
<1> SUFFICES ASSUME SwitchInv, [Switch!Next]_Switch!vars PROVE SwitchInv'
  OBVIOUS
<1>1. CASE Switch!Progress
  <2>1. CASE \E l \in Loads : \/ Switch!Drop(l) \/ Switch!ReadBranches(l)
                              \/ Switch!ReadWorktrees(l) \/ Switch!EndWorktrees(l)
    BY <2>1, DropKeeps, ReadBranchesKeeps, ReadWorktreesKeeps, EndWorktreesKeeps
  <2>2. CASE \E l \in Loads : \/ Switch!ApplyActive(l) \/ Switch!ApplyFollowed(l)
                              \/ Switch!ApplyUnguarded(l) \/ Switch!ApplyUndocked(l)
    BY <2>2, ApplyActiveKeeps, ApplyFollowedKeeps, ApplyUnguardedKeeps, ApplyUndockedKeeps
  <2>3. CASE Switch!StoreFollowed \/ Switch!EndFollowed
    BY <2>3, StoreFollowedKeeps, EndFollowedKeeps
  <2> QED
    BY <1>1, <2>1, <2>2, <2>3 DEF Switch!Progress
<1>2. CASE \E r \in Repo : Switch!Select(r) \/ Switch!Follow(r) \/ Switch!Choose(r)
  BY <1>2, SwitchingKeeps, ChooseKeeps
<1>3. CASE \E found \in SUBSET Repo : Switch!Discover(found)
  BY <1>3, DiscoverKeeps
<1>4. CASE \E kind \in {"refresh", "full"} : Switch!Refresh(kind)
  BY <1>4, RefreshKeeps
<1>5. CASE Switch!LoadUndocked \/ Switch!Close
  BY <1>5, LoadUndockedKeeps, CloseKeeps
<1>6. CASE \E l \in Loads : Switch!Fail(l)
  BY <1>6, FailKeeps
<1>7. CASE \E surface \in Switch!Surface : Switch!Click(surface)
  BY <1>7, ClickKeeps
<1>8. CASE Switch!RunAction
  <2>1. /\ UNCHANGED <<known, switch_root, cache, switch_shown, listed, crossed, switch_open,
                       switch_stored, switch_load, writes, failed>>
        /\ action' = None
    BY <1>8 DEF Switch!RunAction, Switch!viewVars
  <2> QED
    BY <2>1, CommandsKeep
<1>9. CASE UNCHANGED Switch!vars
  <2>1. UNCHANGED <<known, switch_root, cache, switch_shown, listed, crossed, switch_open,
                    switch_stored, switch_load, writes, failed, action>>
    BY <1>9 DEF Switch!vars
  <2>2. action \in {None} \cup [from : Switch!Surface, of : Repo]
    BY DEF SwitchInv, Switch!TypeOK
  <2> QED
    BY <2>1, <2>2, CommandsKeep
<1> QED
  BY <1>1, <1>2, <1>3, <1>4, <1>5, <1>6, <1>7, <1>8, <1>9 DEF Switch!Next

\* The invariant says what the property says.
LEMMA SwitchInvSuffices == SwitchInv => ActiveRepositoryIsShown
<1> SUFFICES ASSUME SwitchInv PROVE ActiveRepositoryIsShown
  OBVIOUS
<1>1. Switch!TypeOK /\ Switch!ActiveIsShown
  BY DEF SwitchInv, DockedInv
<1>2. Switch!CurrentReadsAreOfItsRoot
  <2>1. ASSUME NEW l \in Loads, Switch!Is(l, Switch!Guarded), switch_load[l].current
        PROVE  /\ {switch_load[l].branches, switch_load[l].worktrees}
                    \subseteq {None, switch_root[Switch!On(l)]}
               /\ switch_load[l].for = switch_root[Switch!On(l)]
    <3>1. CASE switch_load[l].kind = "choose"
      <4>1. Switch!Is(l, {"choose"}) /\ Switch!On(l) = "panel"
        BY <2>1, <3>1 DEF Switch!Is, Switch!On
      <4> QED
        BY <2>1, <4>1 DEF SwitchInv, ChoiceReads
    <3>2. CASE switch_load[l].kind # "choose"
      <4>1. Switch!Switching(l) /\ Switch!On(l) = "docked"
        BY <2>1, <3>2 DEF Switch!Is, Switch!On, Switch!Switching, Switch!Guarded
      <4> QED
        BY <4>1 DEF SwitchInv, DockedInv, SwitchReads
    <3> QED
      BY <3>1, <3>2
  <2> QED
    BY <2>1 DEF Switch!CurrentReadsAreOfItsRoot
<1>3. Switch!ActiveIsStored
  BY DEF SwitchInv, DockedInv, SelectionIsOnItsWay, Switch!ActiveIsStored
<1> QED
  BY <1>1, <1>2, <1>3 DEF ActiveRepositoryIsShown

\* A switch that is still current has read where it switched to, and once no switch is being
\* loaded the docked views show the active repository and its selection is stored.
THEOREM ActiveIsShown == Switch!Spec => []ActiveRepositoryIsShown
BY SwitchBegins, SwitchSteps, SwitchInvSuffices, PTL DEF Switch!Spec

-----------------------------------------------------------------------------
(* The editable diff. *)

\* The document said `text` in that version: the history has one text for every version.
Said(h, text, version) == version \in 1..Len(h) /\ text = h[version]

\* Texts, changes, payloads, drafts and edits of a history.
Versions(h) == {d \in [text : Texts, version : Nat] : Said(h, d.text, d.version)}
\* A change tells of a version.
Changes(h) == {d \in [text : Texts, version : Nat, own : BOOLEAN] : Said(h, d.text, d.version)}
\* A payload shows a version.
Payloads(h) ==
  {d \in [text : Texts, version : Nat, token : Nat, reseed : BOOLEAN,
          fate : {"sent", "delivered", "dropped", "threw"}] : Said(h, d.text, d.version)}
\* So does what the webview holds,
Taken(h) == {d \in [text : Texts, version : Nat, token : Nat] : Said(h, d.text, d.version)}
\* and a draft and an edit are measured on one.
Drafts(h) == {d \in [text : Texts, source : Texts, version : Nat, token : Nat] :
                Said(h, d.source, d.version)}
\* An edit has the text and the version it was measured on.
Edits(h) == {d \in [type : {"editText"}, from : Texts, to : Texts, version : Nat, token : Nat] :
               Said(h, d.from, d.version)}
\* An edit that VS Code has got.
HandedOver == [expected : Texts, version : Nat, answer : {"none", "applied", "rejected", "threw"}]

\* What everybody holds of the document is what it said in the version they hold it for.
DocumentIsKnown(h) ==
  /\ h \in Seq(Texts) /\ main \in Versions(h) /\ main.version = Len(h) /\ mirror \in Versions(h)
  /\ changes \in Seq(Changes(h)) /\ lastSeenVersion \in Nat /\ pendingEdits \in Seq(Texts)
\* The same of the session,
SessionIsKnown(h) ==
  /\ reseedToken \in Nat /\ deliveryFailed \in BOOLEAN /\ editQueue \in Seq(Edits(h))
  /\ applying \in {None, Editor!Reseeding} \cup HandedOver
  /\ posts \in [Slots -> Payloads(h) \cup {None}] /\ editor_toView \in Seq(Slots)
\* and of the webview.
WebviewIsKnown(h) ==
  /\ data \in Taken(h) \cup [text : {None}, version : Nat, token : Nat]
  /\ draft \in Drafts(h) \cup {None} /\ lastPostedText \in Texts \cup {None}
  /\ {timer, isComposing, reseedDuringComposition} \subseteq BOOLEAN
  /\ editor_toHost \in Seq(Edits(h) \cup {Editor!Ready})
\* Everybody together.
Known(h) == DocumentIsKnown(h) /\ SessionIsKnown(h) /\ WebviewIsKnown(h)

\* Payloads are on their way in the order of their tokens, and none that the webview took is newer
\* than the one it holds.
Flying(i) == posts[editor_toView[i]]
\* A payload is on its way once, and its fate is not known meanwhile.
PostsFly ==
  /\ \A i, j \in 1..Len(editor_toView) : editor_toView[i] = editor_toView[j] => i = j
  /\ \A i \in 1..Len(editor_toView) : Flying(i) # None /\ Flying(i).fate = "sent"
\* Tokens on their way do not decrease, and none is older than the one the webview holds.
PostsAreInOrder ==
  /\ \A i, j \in 1..Len(editor_toView) : i < j => Flying(i).token <= Flying(j).token
  /\ \A i \in 1..Len(editor_toView) : data.token <= Flying(i).token
  /\ data.token <= reseedToken
  /\ \A s \in Slots : posts[s] # None =>
       /\ posts[s].token <= reseedToken
       /\ posts[s].fate = "delivered" => posts[s].token <= data.token
\* What holds of the payloads.
Delivery == PostsFly /\ PostsAreInOrder /\ Editor!EveryTokenIsPublished

\* The mirror is behind the document by what is on its way.
MirrorIsBehind ==
  /\ lastSeenVersion = mirror.version
  /\ \A i \in 1..Len(changes) :
       mirror.version <= changes[i].version /\ changes[i].version <= main.version
  /\ \A i, j \in 1..Len(changes) : i < j => changes[i].version <= changes[j].version
  /\ mirror.version <= main.version
  /\ Editor!Sent => applying.version <= mirror.version

\* One echo is on its way at most, the first to move the mirror, and pendingEdits expects it and
\* then the edit that VS Code has not applied; without one, it expects that edit at most.
Waiting == Editor!Sent /\ applying.answer # "applied"
\* The changes on their way that are echoes of the session's own edits.
Own == {i \in 1..Len(changes) : changes[i].own}
\* One echo is on its way at most, the first to move the mirror, and pendingEdits expects it and
\* then the edit that VS Code has not applied.
EchoIsExpected ==
  \A i \in Own :
    /\ changes[i].version > mirror.version
    /\ \A j \in 1..Len(changes) : j < i => ~changes[j].own /\ changes[j].version = mirror.version
    /\ pendingEdits = IF Waiting THEN <<changes[i].text, applying.expected>>
                      ELSE <<changes[i].text>>
\* Without an echo on its way, that edit alone is expected, and surely if it will be applied.
NothingElseIsExpected ==
  Own = {} =>
    /\ \/ pendingEdits = <<>>
       \/ Waiting /\ pendingEdits = <<applying.expected>>
    /\ Waiting /\ applying.version = main.version => pendingEdits = <<applying.expected>>
\* What holds of the changes.
Echo == MirrorIsBehind /\ EchoIsExpected /\ NothingElseIsExpected

\* A payload that voids the draft of the edit in hand.
Reseeds(s) == posts[s] # None /\ posts[s].reseed
\* The queue waits for one such payload at most, and only while there is an edit in hand.
QueueWaits ==
  /\ \A s \in Slots : Reseeds(s) => applying = Editor!Reseeding
  /\ \A s, t \in Slots : Reseeds(s) /\ Reseeds(t) => s = t
  /\ applying # None => editQueue # <<>>

\* The invariant of the editor: the history is the one thing no variable holds.
EditorInv == (\E h \in Seq(Texts) : Known(h)) /\ Delivery /\ Echo /\ QueueWaits

-----------------------------------------------------------------------------
\* What the editor needs of the constants.
LEMMA EditorConstants ==
  /\ FirstText \in Texts /\ Slots # {} /\ EditorEvents \in Nat
  /\ None \notin Texts \cup {Garbled} /\ Garbled \notin Texts
  /\ None \notin Editor!Payload \cup Editor!Handed /\ Editor!Reseeding # None
BY ViewsAssumption DEF ViewsAssumption

\* A sequence over a set is one over a larger set.
LEMMA WiderSeq ==
  ASSUME NEW S, NEW T, S \subseteq T, NEW s \in Seq(S)
  PROVE  s \in Seq(T)
BY SeqDef

\* Payloads and edits of a history are typed, and none is None.
LEMMA KnownPayloads ==
  ASSUME NEW h
  PROVE  /\ Payloads(h) \subseteq Editor!Payload /\ HandedOver \subseteq Editor!Handed
         /\ None \notin Payloads(h) /\ None \notin HandedOver /\ Editor!Reseeding \notin HandedOver
<1>1. Payloads(h) \subseteq Editor!Payload
  BY DEF Payloads, Editor!Payload, Editor!Saying
<1>2. HandedOver \subseteq Editor!Handed
  BY DEF HandedOver, Editor!Handed, Editor!Saying
<1>3. Editor!Reseeding \notin HandedOver
  <2>1. Editor!Reseeding.answer = "reseed"
    BY DEF Editor!Reseeding
  <2> QED
    BY <2>1 DEF HandedOver
<1> QED
  BY <1>1, <1>2, <1>3, EditorConstants

\* Queues of one and of two.
LEMMA ShortQueues ==
  ASSUME NEW a, NEW b
  PROVE  /\ <<a>> # <<>> /\ Head(<<a>>) = a /\ Tail(<<a>>) = <<>>
         /\ <<a, b>> # <<>> /\ Head(<<a, b>>) = a /\ Tail(<<a, b>>) = <<b>>
         /\ Append(<<a>>, b) = <<a, b>>
<1>1. /\ <<a>> # <<>> /\ Head(<<a>>) = a /\ Tail(<<a>>) = <<>>
      /\ <<a, b>> # <<>> /\ Head(<<a, b>>) = a /\ Tail(<<a, b>>) = <<b>>
  OBVIOUS
<1>2. Append(<<a>>, b) = <<a, b>>
  <2> DEFINE q == Append(<<a>>, b)
             r == <<a, b>>
  <2>1. <<a>> \in Seq({a, b}) /\ Len(<<a>>) = 1 /\ <<a>>[1] = a
    OBVIOUS
  <2>2. r \in Seq({a, b}) /\ Len(r) = 2 /\ r[1] = a /\ r[2] = b
    OBVIOUS
  <2>3. q \in Seq({a, b}) /\ Len(q) = 2 /\ q[1] = a /\ q[2] = b
    BY <2>1, AppendProperties
  <2> HIDE DEF q, r
  <2>4. \A i \in 1..Len(q) : q[i] = r[i]
    BY <2>2, <2>3
  <2>5. q = r
    BY <2>2, <2>3, <2>4, SeqEqual
  <2> QED
    BY <2>5 DEF q, r
<1> QED
  BY <1>1, <1>2

\* A sequence without its i-th element.
LEMMA WithoutOne ==
  ASSUME NEW S, NEW q \in Seq(S), NEW i \in 1..Len(q)
  PROVE  /\ SubSeq(q, 1, i - 1) \o SubSeq(q, i + 1, Len(q)) \in Seq(S)
         /\ Len(SubSeq(q, 1, i - 1) \o SubSeq(q, i + 1, Len(q))) = Len(q) - 1
         /\ \A k \in 1..Len(q) - 1 :
              (SubSeq(q, 1, i - 1) \o SubSeq(q, i + 1, Len(q)))[k] = q[IF k < i THEN k ELSE k + 1]
<1> DEFINE a == SubSeq(q, 1, i - 1)
           b == SubSeq(q, i + 1, Len(q))
<1>1. Len(q) \in Nat /\ \A k \in 1..Len(q) : q[k] \in S
  OBVIOUS
<1>2. a \in Seq(S) /\ Len(a) = i - 1 /\ \A k \in 1..(i - 1) : a[k] = q[k]
  <2>1. \A k \in 1..(i - 1) : q[k] \in S
    BY <1>1
  <2> QED
    BY <1>1, <2>1, SubSeqProperties
<1>3. /\ b \in Seq(S) /\ Len(b) = Len(q) - i
      /\ \A k \in 1..(Len(q) - i) : b[k] = q[i + k]
  <2>1. \A k \in (i + 1)..Len(q) : q[k] \in S
    BY <1>1
  <2>2. /\ b \in Seq(S) /\ Len(b) = IF i + 1 <= Len(q) THEN Len(q) - (i + 1) + 1 ELSE 0
        /\ \A k \in 1..(Len(q) - (i + 1) + 1) : b[k] = q[(i + 1) + k - 1]
    BY <1>1, <2>1, SubSeqProperties
  <2> HIDE DEF b
  <2> QED
    BY <1>1, <2>2
<1> HIDE DEF a, b
<1>4. /\ a \o b \in Seq(S) /\ Len(a \o b) = Len(a) + Len(b)
      /\ \A k \in 1..Len(a) + Len(b) : (a \o b)[k] = IF k <= Len(a) THEN a[k] ELSE b[k - Len(a)]
  BY <1>2, <1>3, ConcatProperties
<1>5. ASSUME NEW k \in 1..Len(q) - 1
      PROVE  (a \o b)[k] = q[IF k < i THEN k ELSE k + 1]
  <2>1. CASE k < i
    BY <1>1, <1>2, <1>3, <1>4, <2>1
  <2>2. CASE ~(k < i)
    <3>1. k - (i - 1) \in 1..(Len(q) - i) /\ i + (k - (i - 1)) = k + 1
      BY <1>1, <2>2
    <3>2. (a \o b)[k] = b[k - (i - 1)]
      BY <1>1, <1>2, <1>3, <1>4, <2>2
    <3> QED
      BY <1>3, <2>2, <3>1, <3>2
  <2> QED
    BY <2>1, <2>2
<1>6. a \o b \in Seq(S) /\ Len(a \o b) = Len(q) - 1
  BY <1>1, <1>2, <1>3, <1>4
<1> QED
  BY <1>5, <1>6 DEF a, b

\* The history only grows.
LEMMA LongerHistory ==
  ASSUME NEW h \in Seq(Texts), NEW x \in Texts
  PROVE  /\ Append(h, x) \in Seq(Texts) /\ Len(Append(h, x)) = Len(h) + 1
         /\ Said(Append(h, x), x, Len(h) + 1)
         /\ \A text, version : Said(h, text, version) => Said(Append(h, x), text, version)
         /\ Versions(h) \subseteq Versions(Append(h, x)) /\ Changes(h) \subseteq Changes(Append(h, x))
         /\ Payloads(h) \subseteq Payloads(Append(h, x)) /\ Taken(h) \subseteq Taken(Append(h, x))
         /\ Drafts(h) \subseteq Drafts(Append(h, x)) /\ Edits(h) \subseteq Edits(Append(h, x))
<1> DEFINE g == Append(h, x)
<1>1. /\ g \in Seq(Texts) /\ Len(g) = Len(h) + 1 /\ g[Len(h) + 1] = x
      /\ Len(h) \in Nat /\ \A i \in 1..Len(h) : g[i] = h[i]
  OBVIOUS
<1> HIDE DEF g
<1>2. Said(g, x, Len(h) + 1) /\ \A text, version : Said(h, text, version) => Said(g, text, version)
  BY <1>1 DEF Said
<1>3. /\ Versions(h) \subseteq Versions(g) /\ Changes(h) \subseteq Changes(g)
      /\ Payloads(h) \subseteq Payloads(g) /\ Taken(h) \subseteq Taken(g)
      /\ Drafts(h) \subseteq Drafts(g) /\ Edits(h) \subseteq Edits(g)
  BY <1>2 DEF Versions, Changes, Payloads, Taken, Drafts, Edits
<1> QED
  BY <1>1, <1>2, <1>3 DEF g

-----------------------------------------------------------------------------
(* Payloads. *)

\* A payload is of the history, and its token is none to come.
LEMMA PostsAreTyped ==
  ASSUME NEW h, SessionIsKnown(h), Delivery, NEW s \in Slots, posts[s] # None
  PROVE  posts[s] \in Payloads(h) /\ posts[s].token \in Nat /\ posts[s].token <= reseedToken
BY DEF SessionIsKnown, Payloads, Delivery, PostsAreInOrder

\* So are those on their way.
LEMMA FlyingAreTyped ==
  ASSUME NEW h, SessionIsKnown(h), Delivery
  PROVE  /\ editor_toView \in Seq(Slots) /\ Len(editor_toView) \in Nat
         /\ \A i \in 1..Len(editor_toView) :
              /\ editor_toView[i] \in Slots /\ Flying(i) \in Payloads(h)
              /\ Flying(i).token \in Nat /\ Flying(i).token <= reseedToken
<1>1. editor_toView \in Seq(Slots) /\ Len(editor_toView) \in Nat
  BY DEF SessionIsKnown
<1>2. ASSUME NEW i \in 1..Len(editor_toView)
      PROVE  /\ editor_toView[i] \in Slots /\ Flying(i) \in Payloads(h)
             /\ Flying(i).token \in Nat /\ Flying(i).token <= reseedToken
  <2>1. editor_toView[i] \in Slots
    BY <1>1
  <2>2. posts[editor_toView[i]] # None
    BY DEF Delivery, PostsFly, Flying
  <2> QED
    BY <2>1, <2>2, PostsAreTyped DEF Flying
<1> QED
  BY <1>1, <1>2

\* What the webview holds is numbered.
LEMMA DataIsNumbered ==
  ASSUME NEW h, WebviewIsKnown(h)
  PROVE  data.token \in Nat /\ data.version \in Nat
BY DEF WebviewIsKnown, Taken

\* One more payload is posted, under the token of the day.
LEMMA OneIsPosted ==
  ASSUME NEW h, SessionIsKnown(h), Delivery, data.token \in Nat,
         NEW s \in Slots, posts[s] = None \/ posts[s].fate # "sent",
         NEW p \in Payloads(h), p.fate = "sent",
         posts' = [posts EXCEPT ![s] = p], editor_toView' = Append(editor_toView, s),
         p.token = reseedToken', reseedToken' \in {reseedToken, reseedToken + 1}, data' = data
  PROVE  /\ posts' \in [Slots -> Payloads(h) \cup {None}] /\ editor_toView' \in Seq(Slots)
         /\ Delivery'
         /\ \A r \in Slots \ {s} : posts'[r] = posts[r]
         /\ posts'[s] = p /\ p # None
<1>1. /\ posts' \in [Slots -> Payloads(h) \cup {None}] /\ posts'[s] = p
      /\ \A r \in Slots \ {s} : posts'[r] = posts[r]
      /\ p # None /\ reseedToken \in Nat
  BY KnownPayloads DEF SessionIsKnown
<1>2. /\ editor_toView' \in Seq(Slots) /\ Len(editor_toView') = Len(editor_toView) + 1
      /\ editor_toView'[Len(editor_toView) + 1] = s
      /\ \A i \in 1..Len(editor_toView) : editor_toView'[i] = editor_toView[i]
  BY FlyingAreTyped
<1>3. ASSUME NEW i \in 1..Len(editor_toView')
      PROVE  \/ /\ i \in 1..Len(editor_toView) /\ editor_toView'[i] = editor_toView[i]
                /\ editor_toView'[i] # s /\ Flying(i)' = Flying(i)
             \/ i = Len(editor_toView) + 1 /\ editor_toView'[i] = s /\ Flying(i)' = p
  <2>1. CASE i \in 1..Len(editor_toView)
    <3>1. editor_toView[i] \in Slots /\ posts[editor_toView[i]] # None
          /\ posts[editor_toView[i]].fate = "sent"
      BY <2>1, FlyingAreTyped DEF Delivery, PostsFly, Flying
    <3> QED
      BY <1>1, <1>2, <2>1, <3>1 DEF Flying
  <2>2. CASE i = Len(editor_toView) + 1
    BY <1>1, <1>2, <2>2 DEF Flying
  <2> QED
    BY <1>2, <2>1, <2>2, FlyingAreTyped
<1>4. PostsFly'
  BY <1>1, <1>3 DEF Delivery, PostsFly
<1>5. reseedToken' \in Nat /\ reseedToken <= reseedToken' /\ data.token <= reseedToken'
  BY <1>1 DEF Delivery, PostsAreInOrder
<1>6. \A i, j \in 1..Len(editor_toView') : i < j => Flying(i)'.token <= Flying(j)'.token
  <2>1. SUFFICES ASSUME NEW i \in 1..Len(editor_toView'), NEW j \in 1..Len(editor_toView'), i < j
                 PROVE  Flying(i)'.token <= Flying(j)'.token
    OBVIOUS
  <2>2. i \in 1..Len(editor_toView)
    BY <1>2, <2>1, FlyingAreTyped
  <2>3. Flying(i)' = Flying(i) /\ Flying(i).token \in Nat /\ Flying(i).token <= reseedToken
    BY <1>3, <2>2, FlyingAreTyped
  <2>4. CASE j \in 1..Len(editor_toView)
    <3>1. Flying(j)' = Flying(j)
      BY <1>3, <2>4, FlyingAreTyped
    <3> QED
      BY <2>1, <2>2, <2>3, <2>4, <3>1 DEF Delivery, PostsAreInOrder
  <2>5. CASE j = Len(editor_toView) + 1
    <3>1. Flying(j)' = p
      BY <1>3, <2>5, FlyingAreTyped
    <3> QED
      BY <1>1, <1>5, <2>3, <3>1
  <2> QED
    BY <1>2, <2>4, <2>5, FlyingAreTyped
<1>7. \A i \in 1..Len(editor_toView') : data'.token <= Flying(i)'.token
  BY <1>3, <1>5 DEF Delivery, PostsAreInOrder
<1>8. ASSUME NEW r \in Slots, posts'[r] # None
      PROVE  /\ posts'[r].token <= reseedToken'
             /\ posts'[r].fate = "delivered" => posts'[r].token <= data'.token
  <2>1. CASE r = s
    BY <1>1, <1>5, <2>1
  <2>2. CASE r # s
    <3>1. posts[r] # None /\ posts'[r] = posts[r]
      BY <1>1, <1>8, <2>2
    <3>2. posts[r].token \in Nat /\ posts[r].token <= reseedToken
      BY <3>1, PostsAreTyped
    <3>3. posts[r].fate = "delivered" => posts[r].token <= data.token
      BY <3>1 DEF Delivery, PostsAreInOrder
    <3> QED
      BY <1>1, <1>5, <3>1, <3>2, <3>3
  <2> QED
    BY <2>1, <2>2
<1>9. PostsAreInOrder'
  BY <1>5, <1>6, <1>7, <1>8 DEF PostsAreInOrder
<1>10. Editor!EveryTokenIsPublished'
  BY <1>1 DEF Editor!EveryTokenIsPublished
<1> QED
  BY <1>1, <1>2, <1>4, <1>9, <1>10 DEF Delivery

\* A render posts one payload, under the token of the day.
LEMMA RenderKeeps ==
  ASSUME NEW h, SessionIsKnown(h), Delivery, data.token \in Nat,
         NEW reseed \in BOOLEAN, Editor!Render(reseed), mirror' \in Versions(h),
         reseedToken' \in {reseedToken, reseedToken + 1}, data' = data
  PROVE  /\ posts' \in [Slots -> Payloads(h) \cup {None}] /\ editor_toView' \in Seq(Slots)
         /\ Delivery'
         /\ \E s \in Slots : /\ posts[s] = None /\ posts'[s] # None /\ posts'[s].reseed = reseed
                             /\ \A r \in Slots \ {s} : posts'[r] = posts[r]
<1> DEFINE p == [text |-> mirror'.text, version |-> mirror'.version, token |-> reseedToken',
                 reseed |-> reseed, fate |-> "sent"]
<1>1. PICK s \in Slots : /\ posts[s] = None /\ posts' = [posts EXCEPT ![s] = p]
                         /\ editor_toView' = Append(editor_toView, s)
  BY DEF Editor!Render
<1>2. reseedToken' \in Nat
  BY DEF SessionIsKnown
<1>3. p \in Payloads(h) /\ p.fate = "sent" /\ p.token = reseedToken' /\ p.reseed = reseed
  BY <1>2 DEF Payloads, Versions, Said
<1> HIDE DEF p
<1> QED
  BY <1>1, <1>3, OneIsPosted

\* Payloads stay as they are when nothing is posted, lost or taken.
LEMMA PostsStay ==
  ASSUME Delivery, UNCHANGED <<posts, editor_toView, reseedToken, deliveryFailed>>,
         data' = data
  PROVE  Delivery'
BY DEF Delivery, PostsFly, PostsAreInOrder, Flying, Editor!EveryTokenIsPublished

-----------------------------------------------------------------------------
(* The webview. *)

\* Changes stay as they are when none is made or taken.
LEMMA EchoStays ==
  ASSUME Echo, UNCHANGED <<main, changes, mirror, lastSeenVersion, pendingEdits, applying>>
  PROVE  Echo'
BY DEF Echo, MirrorIsBehind, EchoIsExpected, NothingElseIsExpected, Waiting, Own, Editor!Sent

\* What the document said stays known,
LEMMA DocumentStays ==
  ASSUME NEW h, DocumentIsKnown(h), UNCHANGED <<main, changes, mirror, lastSeenVersion, pendingEdits>>
  PROVE  DocumentIsKnown(h)'
BY DEF DocumentIsKnown

\* to the session
LEMMA SessionStays ==
  ASSUME NEW h, SessionIsKnown(h),
         UNCHANGED <<reseedToken, deliveryFailed, editQueue, applying, posts, editor_toView>>
  PROVE  SessionIsKnown(h)'
BY DEF SessionIsKnown

\* and to the webview.
LEMMA WebviewStays ==
  ASSUME NEW h, WebviewIsKnown(h),
         UNCHANGED <<data, draft, lastPostedText, timer, isComposing, reseedDuringComposition,
                     editor_toHost>>
  PROVE  WebviewIsKnown(h)'
BY DEF WebviewIsKnown

\* What the reader does changes the webview alone.
LEMMA ReaderKeeps ==
  ASSUME EditorInv, NEW h \in Seq(Texts), Known(h), Editor!viewFrame, WebviewIsKnown(h)'
  PROVE  EditorInv'
<1>1. /\ UNCHANGED <<main, changes, mirror, lastSeenVersion, pendingEdits>>
      /\ UNCHANGED <<reseedToken, deliveryFailed, editQueue, applying, posts, editor_toView>>
      /\ data' = data
  BY DEF Editor!viewFrame, Editor!hostVars
<1>2. Known(h)'
  BY <1>1, DocumentStays, SessionStays DEF Known
<1>3. Delivery' /\ Echo' /\ QueueWaits'
  BY <1>1, PostsStay, EchoStays DEF EditorInv, QueueWaits, Reseeds
<1> QED
  BY <1>2, <1>3 DEF EditorInv

\* An edit that is posted is measured on a text the document said.
LEMMA PostedEdit ==
  ASSUME NEW h, WebviewIsKnown(h), NEW edit \in Edits(h), editor_toHost' = Append(editor_toHost, edit)
  PROVE  editor_toHost' \in Seq(Edits(h) \cup {Editor!Ready})
BY DEF WebviewIsKnown

\* So is the draft that is posted.
LEMMA DraftIsPosted ==
  ASSUME NEW h, WebviewIsKnown(h), draft # None, Editor!PostDraft
  PROVE  /\ lastPostedText' \in Texts \cup {None}
         /\ editor_toHost' \in Seq(Edits(h) \cup {Editor!Ready})
<1> DEFINE edit == Editor!Delta(draft.source, draft.text, draft.version, draft.token)
<1>1. draft \in Drafts(h) /\ editor_toHost \in Seq(Edits(h) \cup {Editor!Ready})
      /\ lastPostedText \in Texts \cup {None}
  BY DEF WebviewIsKnown
<1>2. edit \in Edits(h)
  BY <1>1 DEF Drafts, Edits, Editor!Delta, Said
<1>3. \/ UNCHANGED <<lastPostedText, editor_toHost>>
      \/ lastPostedText' = draft.text /\ editor_toHost' = Append(editor_toHost, edit)
  BY DEF Editor!PostDraft
<1>4. draft.text \in Texts
  BY <1>1 DEF Drafts
<1> HIDE DEF edit
<1> QED
  BY <1>1, <1>2, <1>3, <1>4, PostedEdit

\* What the reader opens, types, leaves, composes, reverts or selects keeps the invariant.
LEMMA ReaderSteps ==
  ASSUME EditorInv,
         \/ Editor!StartEditing \/ Editor!HandleDraftTextChange \/ Editor!DebouncedPost
         \/ Editor!CommitDraft \/ Editor!CompositionStart \/ Editor!CompositionEnd
         \/ Editor!RevertHunk \/ Editor!SetIgnoreMode
  PROVE  EditorInv'
<1>1. PICK h \in Seq(Texts) : Known(h)
  BY DEF EditorInv
<1>2. WebviewIsKnown(h)
  BY <1>1 DEF Known
<1>3. /\ data \in Taken(h) \cup [text : {None}, version : Nat, token : Nat]
      /\ draft \in Drafts(h) \cup {None} /\ lastPostedText \in Texts \cup {None}
      /\ {timer, isComposing, reseedDuringComposition} \subseteq BOOLEAN
      /\ editor_toHost \in Seq(Edits(h) \cup {Editor!Ready})
  BY <1>2 DEF WebviewIsKnown
<1>4. Editor!viewFrame /\ data' = data
  BY DEF Editor!StartEditing, Editor!HandleDraftTextChange, Editor!DebouncedPost,
         Editor!CommitDraft, Editor!CompositionStart, Editor!CompositionEnd, Editor!RevertHunk,
         Editor!SetIgnoreMode, Editor!viewFrame
<1>5. data.text # None => data \in Taken(h)
  BY <1>3
<1>6. WebviewIsKnown(h)'
  <2>1. CASE Editor!StartEditing
    <3> DEFINE new == [text |-> data.text, source |-> data.text, version |-> data.version,
                       token |-> data.token]
    <3>1. /\ data.text # None /\ draft' = new /\ lastPostedText' = None
          /\ UNCHANGED <<timer, isComposing, reseedDuringComposition, editor_toHost>>
      BY <2>1 DEF Editor!StartEditing
    <3>2. new \in Drafts(h)
      BY <1>5, <3>1 DEF Taken, Drafts, Said
    <3> HIDE DEF new
    <3> QED
      BY <1>2, <1>4, <3>1, <3>2 DEF WebviewIsKnown
  <2>2. CASE Editor!HandleDraftTextChange
    <3>1. PICK text \in Texts : draft' = [draft EXCEPT !.text = text]
      BY <2>2 DEF Editor!HandleDraftTextChange
    <3>2. /\ draft # None /\ timer' = TRUE
          /\ UNCHANGED <<lastPostedText, isComposing, reseedDuringComposition, editor_toHost>>
      BY <2>2 DEF Editor!HandleDraftTextChange
    <3>3. draft' \in Drafts(h)
      BY <1>3, <3>1, <3>2 DEF Drafts, Said
    <3> QED
      BY <1>2, <1>4, <3>2, <3>3 DEF WebviewIsKnown
  <2>3. CASE Editor!DebouncedPost
    <3>1. /\ timer' = FALSE /\ UNCHANGED <<draft, isComposing, reseedDuringComposition>>
          /\ \/ draft # None /\ Editor!PostDraft
             \/ UNCHANGED <<lastPostedText, editor_toHost>>
      BY <2>3 DEF Editor!DebouncedPost
    <3>2. /\ lastPostedText' \in Texts \cup {None}
          /\ editor_toHost' \in Seq(Edits(h) \cup {Editor!Ready})
      BY <1>2, <1>3, <3>1, DraftIsPosted
    <3> QED
      BY <1>3, <1>4, <3>1, <3>2 DEF WebviewIsKnown
  <2>4. CASE Editor!CommitDraft
    <3>1. /\ draft' = None /\ timer' = FALSE /\ UNCHANGED <<isComposing, reseedDuringComposition>>
          /\ \/ draft # None /\ Editor!PostDraft
             \/ UNCHANGED <<lastPostedText, editor_toHost>>
      BY <2>4 DEF Editor!CommitDraft, Editor!ClearDraft
    <3>2. /\ lastPostedText' \in Texts \cup {None}
          /\ editor_toHost' \in Seq(Edits(h) \cup {Editor!Ready})
      BY <1>2, <1>3, <3>1, DraftIsPosted
    <3> QED
      BY <1>3, <1>4, <3>1, <3>2 DEF WebviewIsKnown
  <2>5. CASE Editor!CompositionStart \/ Editor!CompositionEnd
    <3>1. /\ UNCHANGED <<lastPostedText, editor_toHost>> /\ draft' \in {None, draft}
          /\ isComposing' \in BOOLEAN /\ timer' \in BOOLEAN \cup {timer}
          /\ reseedDuringComposition' \in {FALSE, reseedDuringComposition}
      BY <2>5 DEF Editor!CompositionStart, Editor!CompositionEnd, Editor!ClearDraft
    <3> QED
      BY <1>3, <1>4, <3>1 DEF WebviewIsKnown
  <2>6. CASE Editor!RevertHunk
    <3>1. PICK text \in Texts :
            editor_toHost' = Append(editor_toHost,
                                    Editor!Delta(data.text, text, data.version, data.token))
      BY <2>6 DEF Editor!RevertHunk
    <3>2. /\ data.text # None
          /\ UNCHANGED <<draft, lastPostedText, timer, isComposing, reseedDuringComposition>>
      BY <2>6 DEF Editor!RevertHunk, Editor!draftVars
    <3>3. Editor!Delta(data.text, text, data.version, data.token) \in Edits(h)
      BY <1>5, <3>2 DEF Taken, Edits, Editor!Delta, Said
    <3>4. editor_toHost' \in Seq(Edits(h) \cup {Editor!Ready})
      BY <1>2, <3>1, <3>3, PostedEdit
    <3> QED
      BY <1>3, <1>4, <3>2, <3>4 DEF WebviewIsKnown
  <2>7. CASE Editor!SetIgnoreMode
    <3>1. /\ editor_toHost' = Append(editor_toHost, Editor!Ready)
          /\ UNCHANGED <<draft, lastPostedText, timer, isComposing, reseedDuringComposition>>
      BY <2>7 DEF Editor!SetIgnoreMode, Editor!draftVars
    <3>2. editor_toHost' \in Seq(Edits(h) \cup {Editor!Ready})
      BY <1>3, <3>1
    <3> QED
      BY <1>3, <1>4, <3>1, <3>2 DEF WebviewIsKnown
  <2> QED
    BY <2>1, <2>2, <2>3, <2>4, <2>5, <2>6, <2>7
<1> QED
  BY <1>1, <1>4, <1>6, ReaderKeeps

-----------------------------------------------------------------------------
(* The fate of payloads. *)

\* The fate of a payload is known: it was lost, or it was the next to arrive.
LEMMA OneLands ==
  ASSUME NEW h, SessionIsKnown(h), Delivery, data.token \in Nat,
         NEW i \in 1..Len(editor_toView), NEW fate \in {"delivered", "dropped", "threw"},
         editor_toView' \in Seq(Slots), Len(editor_toView') = Len(editor_toView) - 1,
         \A k \in 1..Len(editor_toView') :
           editor_toView'[k] = editor_toView[IF k < i THEN k ELSE k + 1],
         posts' = [posts EXCEPT ![editor_toView[i]].fate = fate],
         \/ data' = data /\ fate # "delivered"
         \/ i = 1 /\ data'.token = Flying(1).token,
         UNCHANGED <<reseedToken, deliveryFailed>>
  PROVE  /\ posts' \in [Slots -> Payloads(h) \cup {None}] /\ Delivery'
         /\ \A r \in Slots : Reseeds(r)' <=> Reseeds(r)
<1> DEFINE s == editor_toView[i]
           p == [posts[s] EXCEPT !.fate = fate]
           At(k) == IF k < i THEN k ELSE k + 1
<1>1. /\ s \in Slots /\ posts[s] # None /\ posts[s] \in Payloads(h) /\ posts[s] = Flying(i)
      /\ posts[s].token \in Nat /\ posts[s].token <= reseedToken
      /\ reseedToken \in Nat /\ posts \in [Slots -> Payloads(h) \cup {None}]
  BY FlyingAreTyped, PostsAreTyped DEF Delivery, PostsFly, Flying, SessionIsKnown
<1>2. p \in Payloads(h) /\ p.token = posts[s].token /\ p.fate = fate /\ p.reseed = posts[s].reseed
  BY <1>1 DEF Payloads, Said
<1>3. p # None
  BY <1>2, KnownPayloads
<1>4. posts' = [posts EXCEPT ![s] = p]
  OBVIOUS
<1> HIDE DEF p
<1>5. /\ posts' \in [Slots -> Payloads(h) \cup {None}] /\ posts'[s] = p
      /\ \A r \in Slots \ {s} : posts'[r] = posts[r]
  BY <1>1, <1>2, <1>4
<1>6. ASSUME NEW k \in 1..Len(editor_toView')
      PROVE  /\ At(k) \in 1..Len(editor_toView) /\ At(k) # i
             /\ editor_toView'[k] = editor_toView[At(k)]
  BY FlyingAreTyped
<1>7. \A j, k \in 1..Len(editor_toView') : /\ j < k => At(j) < At(k)
                                           /\ At(j) = At(k) => j = k
  BY FlyingAreTyped
<1> HIDE DEF At
<1>8. ASSUME NEW k \in 1..Len(editor_toView')
      PROVE  editor_toView'[k] # s /\ Flying(k)' = Flying(At(k))
  <2>1. editor_toView[At(k)] # s
    BY <1>6 DEF Delivery, PostsFly
  <2> QED
    BY <1>5, <1>6, <2>1, FlyingAreTyped DEF Flying
<1>9. PostsFly'
  BY <1>6, <1>7, <1>8 DEF Delivery, PostsFly
<1>10. data.token <= data'.token /\ data'.token <= reseedToken /\ data'.token \in Nat
  BY <1>1 DEF Delivery, PostsAreInOrder, Flying
<1>11. \A k \in 1..Len(editor_toView') : data'.token <= Flying(k)'.token
  <2>1. CASE data' = data
    BY <1>6, <1>8, <2>1 DEF Delivery, PostsAreInOrder
  <2>2. CASE i = 1 /\ data'.token = Flying(1).token
    <3>1. \A k \in 1..Len(editor_toView') : At(k) \in 1..Len(editor_toView) /\ 1 < At(k)
      BY <1>6, <2>2
    <3> QED
      BY <1>8, <2>2, <3>1 DEF Delivery, PostsAreInOrder
  <2> QED
    BY <2>1, <2>2
<1>12. ASSUME NEW r \in Slots, posts'[r] # None
       PROVE  /\ posts'[r].token <= reseedToken'
              /\ posts'[r].fate = "delivered" => posts'[r].token <= data'.token
  <2>1. CASE r = s
    BY <1>1, <1>2, <1>5, <1>10, <2>1
  <2>2. CASE r # s
    <3>1. posts[r] # None /\ posts'[r] = posts[r]
      BY <1>5, <1>12, <2>2
    <3>2. posts[r].token \in Nat /\ posts[r].token <= reseedToken
      BY <3>1, PostsAreTyped
    <3>3. posts[r].fate = "delivered" => posts[r].token <= data.token
      BY <3>1 DEF Delivery, PostsAreInOrder
    <3>4. posts[r].fate = "delivered" => posts[r].token <= data'.token
      BY <1>10, <3>2, <3>3
    <3> QED
      BY <3>1, <3>2, <3>4
  <2> QED
    BY <2>1, <2>2
<1>13. PostsAreInOrder'
  <2>1. \A j, k \in 1..Len(editor_toView') : j < k => Flying(j)'.token <= Flying(k)'.token
    BY <1>6, <1>7, <1>8 DEF Delivery, PostsAreInOrder
  <2> QED
    BY <1>10, <1>11, <1>12, <2>1 DEF PostsAreInOrder
<1>14. Editor!EveryTokenIsPublished'
  <2>1. SUFFICES ASSUME data'.token # reseedToken
                 PROVE  deliveryFailed \/ \E r \in Slots : posts'[r] # None /\ posts'[r].token = reseedToken
    BY DEF Editor!EveryTokenIsPublished
  <2>2. data.token # reseedToken
    BY <1>1, <1>10, <2>1
  <2>3. deliveryFailed \/ \E r \in Slots : posts[r] # None /\ posts[r].token = reseedToken
    BY <2>2 DEF Delivery, Editor!EveryTokenIsPublished
  <2>4. ASSUME NEW r \in Slots, posts[r] # None, posts[r].token = reseedToken
        PROVE  posts'[r] # None /\ posts'[r].token = reseedToken
    BY <1>2, <1>3, <1>5, <2>4
  <2> QED
    BY <2>3, <2>4
<1>15. \A r \in Slots : Reseeds(r)' <=> Reseeds(r)
  BY <1>1, <1>2, <1>3, <1>5 DEF Reseeds
<1> QED
  BY <1>5, <1>9, <1>13, <1>14, <1>15 DEF Delivery

\* A payload that arrives keeps it: it reanchors the draft or voids it.
LEMMA ReceiveKeeps ==
  ASSUME EditorInv, Editor!Receive
  PROVE  EditorInv'
<1>1. PICK h \in Seq(Texts) : Known(h)
  BY DEF EditorInv
<1>2. SessionIsKnown(h) /\ WebviewIsKnown(h) /\ Delivery /\ data.token \in Nat
  BY <1>1, DataIsNumbered DEF Known, EditorInv
<1>3. /\ editor_toView # <<>> /\ editor_toView' = Tail(editor_toView)
      /\ posts' = [posts EXCEPT ![Head(editor_toView)].fate = "delivered"]
      /\ UNCHANGED <<main, changes, mirror, lastSeenVersion, pendingEdits, reseedToken,
                     deliveryFailed, editQueue, applying, editor_toHost>>
  BY DEF Editor!Receive, Editor!hostVars
<1>4. Len(editor_toView) \in Nat \ {0} /\ Head(editor_toView) = editor_toView[1]
  BY <1>2, <1>3, FlyingAreTyped, EmptySeq
<1>5. 1 \in 1..Len(editor_toView)
  BY <1>4
<1>6. /\ editor_toView' \in Seq(Slots) /\ Len(editor_toView') = Len(editor_toView) - 1
      /\ \A k \in 1..Len(editor_toView') : editor_toView'[k] = editor_toView[k + 1]
  <2>1. editor_toView \in Seq(Slots)
    BY <1>2, FlyingAreTyped
  <2> QED
    BY <1>3, <2>1, HeadTailProperties
<1>7. \A k \in 1..Len(editor_toView') :
        editor_toView'[k] = editor_toView[IF k < 1 THEN k ELSE k + 1]
  BY <1>4, <1>6
<1>8. Flying(1) \in Payloads(h)
  BY <1>2, <1>5, FlyingAreTyped
<1>9. /\ data' = [text |-> Flying(1).text, version |-> Flying(1).version, token |-> Flying(1).token]
      /\ \/ draft' \in {draft, None}
         \/ draft # None /\ draft' = [draft EXCEPT !.version = Flying(1).version,
                                                   !.source = Flying(1).text]
      /\ timer' \in {timer, FALSE} /\ reseedDuringComposition' \in {reseedDuringComposition, TRUE}
      /\ UNCHANGED <<lastPostedText, isComposing>>
  <2>1. posts[Head(editor_toView)] = Flying(1)
    BY <1>4 DEF Flying
  <2> QED
    BY <2>1 DEF Editor!Receive, Editor!ClearDraft, Editor!Reanchor
<1>10. data'.token = Flying(1).token /\ data' \in Taken(h)
  BY <1>8, <1>9 DEF Payloads, Taken, Said
<1>11. /\ posts' \in [Slots -> Payloads(h) \cup {None}] /\ Delivery'
       /\ \A r \in Slots : Reseeds(r)' <=> Reseeds(r)
  BY <1>2, <1>3, <1>4, <1>5, <1>6, <1>7, <1>10, OneLands
<1>12. draft' \in Drafts(h) \cup {None}
  <2>1. draft \in Drafts(h) \cup {None}
    BY <1>2 DEF WebviewIsKnown
  <2>2. CASE draft # None /\ draft' = [draft EXCEPT !.version = Flying(1).version,
                                                    !.source = Flying(1).text]
    BY <1>8, <2>1, <2>2 DEF Drafts, Payloads, Said
  <2> QED
    BY <1>9, <2>1, <2>2
<1>13. Known(h)'
  BY <1>1, <1>3, <1>6, <1>9, <1>10, <1>11, <1>12, DocumentStays
  DEF Known, SessionIsKnown, WebviewIsKnown
<1>14. Echo' /\ QueueWaits'
  BY <1>3, <1>11, EchoStays DEF EditorInv, QueueWaits
<1> QED
  BY <1>11, <1>13, <1>14 DEF EditorInv

\* A payload that is lost or refused keeps it.
LEMMA LoseKeeps ==
  ASSUME EditorInv, Editor!Lose
  PROVE  EditorInv'
<1>1. PICK h \in Seq(Texts) : Known(h)
  BY DEF EditorInv
<1>2. SessionIsKnown(h) /\ Delivery /\ data.token \in Nat
  BY <1>1, DataIsNumbered DEF Known, EditorInv
<1>3. editor_toView \in Seq(Slots)
  BY <1>2, FlyingAreTyped
<1>4. PICK i \in 1..Len(editor_toView), fate \in {"dropped", "threw"} :
        /\ editor_toView' = SubSeq(editor_toView, 1, i - 1)
                              \o SubSeq(editor_toView, i + 1, Len(editor_toView))
        /\ posts' = [posts EXCEPT ![editor_toView[i]].fate = fate]
  <2>1. DOMAIN editor_toView = 1..Len(editor_toView)
    BY <1>3
  <2> QED
    BY <2>1 DEF Editor!Lose
<1>5. /\ UNCHANGED <<main, changes, mirror, lastSeenVersion, pendingEdits, reseedToken,
                     deliveryFailed, editQueue, applying, editor_toHost>>
      /\ UNCHANGED <<draft, lastPostedText, timer, isComposing, reseedDuringComposition>>
      /\ data' = data
  BY DEF Editor!Lose, Editor!hostVars, Editor!draftVars
<1>6. /\ editor_toView' \in Seq(Slots) /\ Len(editor_toView') = Len(editor_toView) - 1
      /\ \A k \in 1..Len(editor_toView') :
           editor_toView'[k] = editor_toView[IF k < i THEN k ELSE k + 1]
  BY <1>3, <1>4, WithoutOne
<1>7. /\ posts' \in [Slots -> Payloads(h) \cup {None}] /\ Delivery'
      /\ \A r \in Slots : Reseeds(r)' <=> Reseeds(r)
  BY <1>2, <1>4, <1>5, <1>6, OneLands
<1>8. Known(h)'
  BY <1>1, <1>5, <1>6, <1>7, DocumentStays, WebviewStays DEF Known, SessionIsKnown
<1>9. Echo' /\ QueueWaits'
  BY <1>5, <1>7, EchoStays DEF EditorInv, QueueWaits
<1> QED
  BY <1>7, <1>8, <1>9 DEF EditorInv

\* A render that the queue does not wait for.
LEMMA QueueStays ==
  ASSUME QueueWaits, NEW s \in Slots, ~Reseeds(s)', \A r \in Slots \ {s} : posts'[r] = posts[r],
         applying' = applying, applying # None => editQueue' # <<>>
  PROVE  QueueWaits'
<1>1. \A r \in Slots : Reseeds(r)' => Reseeds(r)
  BY DEF Reseeds
<1> QED
  BY <1>1 DEF QueueWaits

\* A message for the session keeps it: a render, or an edit in the queue.
LEMMA HandleMessageKeeps ==
  ASSUME EditorInv, Editor!HandleMessage
  PROVE  EditorInv'
<1>1. PICK h \in Seq(Texts) : Known(h)
  BY DEF EditorInv
<1>2. /\ SessionIsKnown(h) /\ WebviewIsKnown(h) /\ Delivery /\ data.token \in Nat
      /\ mirror \in Versions(h) /\ reseedToken \in Nat
  BY <1>1, DataIsNumbered DEF Known, EditorInv, DocumentIsKnown, SessionIsKnown
<1>3. /\ editor_toHost # <<>> /\ editor_toHost' = Tail(editor_toHost)
      /\ UNCHANGED <<main, changes, mirror, lastSeenVersion, pendingEdits, reseedToken,
                     deliveryFailed, applying>>
      /\ UNCHANGED <<draft, lastPostedText, timer, isComposing, reseedDuringComposition>>
      /\ data' = data
  BY DEF Editor!HandleMessage, Editor!hostVars, Editor!draftVars
<1>4. editor_toHost \in Seq(Edits(h) \cup {Editor!Ready})
  BY <1>2 DEF WebviewIsKnown
<1>5. /\ editor_toHost' \in Seq(Edits(h) \cup {Editor!Ready})
      /\ Head(editor_toHost) \in Edits(h) \cup {Editor!Ready}
  BY <1>3, <1>4, HeadTailProperties
<1>6. DocumentIsKnown(h)' /\ WebviewIsKnown(h)'
  BY <1>1, <1>2, <1>3, <1>5, DocumentStays DEF Known, WebviewIsKnown
<1>7. Echo'
  BY <1>3, EchoStays DEF EditorInv
<1>8. CASE Head(editor_toHost) = Editor!Ready
  <2>1. Editor!Render(FALSE) /\ UNCHANGED editQueue
    BY <1>8 DEF Editor!HandleMessage
  <2>2. /\ posts' \in [Slots -> Payloads(h) \cup {None}] /\ editor_toView' \in Seq(Slots)
        /\ Delivery'
        /\ \E s \in Slots : /\ posts[s] = None /\ posts'[s] # None /\ posts'[s].reseed = FALSE
                            /\ \A r \in Slots \ {s} : posts'[r] = posts[r]
    BY <1>2, <1>3, <2>1, RenderKeeps
  <2>3. QueueWaits'
    BY <1>3, <2>1, <2>2, QueueStays DEF EditorInv, QueueWaits, Reseeds
  <2>4. SessionIsKnown(h)'
    BY <1>2, <1>3, <2>1, <2>2 DEF SessionIsKnown
  <2> QED
    BY <1>6, <1>7, <2>2, <2>3, <2>4 DEF EditorInv, Known
<1>9. CASE Head(editor_toHost) # Editor!Ready
  <2>1. editQueue' = Append(editQueue, Head(editor_toHost)) /\ UNCHANGED <<posts, editor_toView>>
    BY <1>9 DEF Editor!HandleMessage
  <2>2. editQueue \in Seq(Edits(h)) /\ Head(editor_toHost) \in Edits(h)
    BY <1>2, <1>5, <1>9 DEF SessionIsKnown
  <2>3. editQueue' \in Seq(Edits(h)) /\ editQueue' # <<>>
    BY <2>1, <2>2
  <2>4. SessionIsKnown(h)'
    BY <1>2, <1>3, <2>1, <2>3 DEF SessionIsKnown
  <2>5. Delivery' /\ QueueWaits'
    BY <1>2, <1>3, <2>1, <2>3, PostsStay DEF EditorInv, QueueWaits, Reseeds
  <2> QED
    BY <1>6, <1>7, <2>4, <2>5 DEF EditorInv, Known
<1> QED
  BY <1>8, <1>9

\* A payload whose fate is known is forgotten, and what it tells of the token remembered.
LEMMA PostIsForgotten ==
  ASSUME NEW h, SessionIsKnown(h), Delivery, data.token \in Nat,
         NEW s \in Slots, posts[s] # None, posts[s].fate # "sent",
         deliveryFailed' = Editor!After(posts[s]), posts' = [posts EXCEPT ![s] = None],
         UNCHANGED <<editor_toView, reseedToken>>, data' = data
  PROVE  posts' \in [Slots -> Payloads(h) \cup {None}] /\ Delivery'
<1>1. /\ posts' \in [Slots -> Payloads(h) \cup {None}] /\ posts'[s] = None
      /\ \A r \in Slots \ {s} : posts'[r] = posts[r]
  BY DEF SessionIsKnown
<1>2. ASSUME NEW i \in 1..Len(editor_toView) PROVE editor_toView[i] # s /\ Flying(i)' = Flying(i)
  <2>1. editor_toView[i] # s /\ editor_toView[i] \in Slots
    BY FlyingAreTyped DEF Delivery, PostsFly, Flying
  <2> QED
    BY <1>1, <2>1 DEF Flying
<1>3. PostsFly' /\ PostsAreInOrder'
  BY <1>1, <1>2 DEF Delivery, PostsFly, PostsAreInOrder
<1>4. Editor!EveryTokenIsPublished'
  <2>1. SUFFICES ASSUME data.token # reseedToken
                 PROVE  deliveryFailed' \/ \E r \in Slots : posts'[r] # None /\ posts'[r].token = reseedToken
    BY DEF Editor!EveryTokenIsPublished
  <2>2. CASE posts[s].fate = "threw"
    BY <2>2 DEF Editor!After
  <2>3. CASE posts[s].fate # "threw" /\ posts[s].token # reseedToken
    <3>1. deliveryFailed' = deliveryFailed
      BY <2>3 DEF Editor!After
    <3> QED
      BY <1>1, <2>1, <2>3, <3>1 DEF Delivery, Editor!EveryTokenIsPublished
  <2>4. CASE posts[s].fate # "threw" /\ posts[s].token = reseedToken
    <3>1. deliveryFailed' = (posts[s].fate = "dropped")
      BY <2>4 DEF Editor!After
    <3>2. CASE posts[s].fate = "delivered"
      <4>1. posts[s].token <= data.token /\ data.token <= reseedToken /\ reseedToken \in Nat
        BY <3>2 DEF Delivery, PostsAreInOrder, SessionIsKnown
      <4> QED
        BY <2>1, <2>4, <4>1
    <3>3. CASE posts[s].fate # "delivered"
      <4>1. posts[s].fate \in {"sent", "delivered", "dropped", "threw"}
        BY PostsAreTyped DEF Payloads
      <4> QED
        BY <2>4, <3>1, <3>3, <4>1
    <3> QED
      BY <3>2, <3>3
  <2> QED
    BY <2>2, <2>3, <2>4
<1> QED
  BY <1>1, <1>3, <1>4 DEF Delivery

\* The end of a render keeps it: a reseed that failed is posted again.
LEMMA SettleKeeps ==
  ASSUME EditorInv, NEW s \in Slots, Editor!Settle(s)
  PROVE  EditorInv'
<1>1. PICK h \in Seq(Texts) : Known(h)
  BY DEF EditorInv
<1>2. /\ SessionIsKnown(h) /\ Delivery /\ data.token \in Nat /\ mirror \in Versions(h)
      /\ reseedToken \in Nat /\ deliveryFailed \in BOOLEAN
  BY <1>1, DataIsNumbered DEF Known, EditorInv, DocumentIsKnown, SessionIsKnown
<1>3. /\ posts[s] # None /\ posts[s].fate # "sent"
      /\ deliveryFailed' = Editor!After(posts[s])
      /\ UNCHANGED <<main, changes, mirror, lastSeenVersion, pendingEdits, reseedToken,
                     editor_toHost>>
      /\ UNCHANGED <<draft, lastPostedText, timer, isComposing, reseedDuringComposition>>
      /\ data' = data
  BY DEF Editor!Settle, Editor!hostVars, Editor!draftVars
<1>4. \/ posts[s].reseed /\ editQueue' = Tail(editQueue) /\ applying' = None
      \/ ~posts[s].reseed /\ UNCHANGED <<editQueue, applying>>
  BY DEF Editor!Settle
<1>5. DocumentIsKnown(h)' /\ WebviewIsKnown(h)'
  BY <1>1, <1>3, DocumentStays, WebviewStays DEF Known
<1>6. deliveryFailed' \in BOOLEAN
  BY <1>2, <1>3 DEF Editor!After
<1> DEFINE p == [text |-> mirror.text, version |-> mirror.version, token |-> reseedToken,
                 reseed |-> FALSE, fate |-> "sent"]
<1>7. p \in Payloads(h) /\ p.fate = "sent" /\ p.token = reseedToken /\ p.reseed = FALSE
  BY <1>2 DEF Payloads, Versions, Said
<1>8. \/ posts' = [posts EXCEPT ![s] = p] /\ editor_toView' = Append(editor_toView, s)
      \/ posts' = [posts EXCEPT ![s] = None] /\ UNCHANGED editor_toView
  BY DEF Editor!Settle
<1> HIDE DEF p
<1>9. /\ posts' \in [Slots -> Payloads(h) \cup {None}] /\ editor_toView' \in Seq(Slots) /\ Delivery'
      /\ ~Reseeds(s)' /\ \A r \in Slots \ {s} : posts'[r] = posts[r]
  <2>1. CASE posts' = [posts EXCEPT ![s] = p] /\ editor_toView' = Append(editor_toView, s)
    BY <1>2, <1>3, <1>7, <2>1, OneIsPosted DEF Reseeds
  <2>2. CASE posts' = [posts EXCEPT ![s] = None] /\ UNCHANGED editor_toView
    <3>1. posts' \in [Slots -> Payloads(h) \cup {None}] /\ Delivery'
      BY <1>2, <1>3, <2>2, PostIsForgotten
    <3> QED
      BY <1>2, <2>2, <3>1 DEF Reseeds, SessionIsKnown
  <2> QED
    BY <1>8, <2>1, <2>2
<1>10. CASE ~posts[s].reseed
  <2>1. UNCHANGED <<editQueue, applying>>
    BY <1>4, <1>10
  <2>2. QueueWaits'
    BY <1>9, <2>1, QueueStays DEF EditorInv, QueueWaits
  <2>3. Echo'
    BY <1>3, <2>1, EchoStays DEF EditorInv
  <2>4. SessionIsKnown(h)'
    BY <1>2, <1>3, <1>6, <1>9, <2>1 DEF SessionIsKnown
  <2> QED
    BY <1>5, <1>9, <2>2, <2>3, <2>4 DEF EditorInv, Known
<1>11. CASE posts[s].reseed
  <2>1. editQueue' = Tail(editQueue) /\ applying' = None
    BY <1>4, <1>11
  <2>2. applying = Editor!Reseeding /\ editQueue # <<>>
    BY <1>3, <1>11, EditorConstants DEF EditorInv, QueueWaits, Reseeds
  <2>3. editQueue' \in Seq(Edits(h))
    BY <1>2, <2>1, <2>2, HeadTailProperties DEF SessionIsKnown
  <2>4. \A r \in Slots : ~Reseeds(r)'
    BY <1>3, <1>9, <1>11 DEF EditorInv, QueueWaits, Reseeds
  <2>5. QueueWaits'
    BY <2>1, <2>4 DEF QueueWaits
  <2>6. ~Editor!Sent /\ ~Editor!Sent'
    BY <2>1, <2>2 DEF Editor!Sent
  <2>7. Echo'
    BY <1>3, <2>6
    DEF EditorInv, Echo, MirrorIsBehind, EchoIsExpected, NothingElseIsExpected, Waiting, Own
  <2>8. SessionIsKnown(h)'
    BY <1>2, <1>3, <1>6, <1>9, <2>1, <2>3 DEF SessionIsKnown
  <2> QED
    BY <1>5, <1>9, <2>5, <2>7, <2>8 DEF EditorInv, Known
<1> QED
  BY <1>10, <1>11

-----------------------------------------------------------------------------
(* The document. *)

\* A change is of the history.
LEMMA ChangesAreTyped ==
  ASSUME NEW h, DocumentIsKnown(h)
  PROVE  /\ changes \in Seq(Changes(h)) /\ Len(changes) \in Nat
         /\ main.version \in Nat /\ mirror.version \in Nat
         /\ \A i \in 1..Len(changes) : /\ changes[i] \in Changes(h) /\ changes[i].version \in Nat
                                       /\ changes[i].own \in BOOLEAN /\ changes[i].text \in Texts
<1>1. changes \in Seq(Changes(h)) /\ Len(changes) \in Nat
  BY DEF DocumentIsKnown
<1>2. \A i \in 1..Len(changes) : changes[i] \in Changes(h)
  BY <1>1
<1>3. main.version \in Nat /\ mirror.version \in Nat
  BY DEF DocumentIsKnown, Versions
<1> QED
  BY <1>1, <1>2, <1>3 DEF Changes

\* An edit that was sent is typed.
LEMMA SentIsTyped ==
  ASSUME NEW h, SessionIsKnown(h), Editor!Sent
  PROVE  applying \in HandedOver /\ applying.version \in Nat /\ applying.expected \in Texts
<1>1. applying \in HandedOver
  BY DEF SessionIsKnown, Editor!Sent
<1> QED
  BY <1>1 DEF HandedOver

\* The document changes, and its history grows.
LEMMA WrittenIsKnown ==
  ASSUME NEW h \in Seq(Texts), Known(h), NEW text \in Texts, NEW own \in BOOLEAN,
         Editor!Write(text, own), applying' \in {None, Editor!Reseeding} \cup HandedOver,
         UNCHANGED <<mirror, lastSeenVersion, pendingEdits, reseedToken, deliveryFailed, editQueue,
                     posts, editor_toView>>,
         UNCHANGED <<data, draft, lastPostedText, timer, isComposing, reseedDuringComposition,
                     editor_toHost>>
  PROVE  \E g \in Seq(Texts) : Known(g)'
<1> DEFINE g == Append(h, text)
           change == [text |-> text, version |-> main.version + 1, own |-> own]
<1>1. /\ g \in Seq(Texts) /\ Len(g) = Len(h) + 1 /\ Said(g, text, Len(h) + 1)
      /\ Versions(h) \subseteq Versions(g) /\ Changes(h) \subseteq Changes(g)
      /\ Payloads(h) \subseteq Payloads(g) /\ Taken(h) \subseteq Taken(g)
      /\ Drafts(h) \subseteq Drafts(g) /\ Edits(h) \subseteq Edits(g)
  BY LongerHistory
<1> HIDE DEF g
<1>2. /\ main.version = Len(h) /\ Len(h) \in Nat /\ mirror \in Versions(h)
      /\ changes \in Seq(Changes(h)) /\ lastSeenVersion \in Nat /\ pendingEdits \in Seq(Texts)
  BY DEF Known, DocumentIsKnown
<1>3. main' = [text |-> text, version |-> main.version + 1] /\ changes' = Append(changes, change)
  BY DEF Editor!Write
<1>4. main' \in Versions(g) /\ main'.version = Len(g)
  BY <1>1, <1>2, <1>3 DEF Versions
<1>5. changes' \in Seq(Changes(g))
  <2>1. change \in Changes(g)
    BY <1>1, <1>2 DEF Changes
  <2>2. changes \in Seq(Changes(g))
    BY <1>1, <1>2, WiderSeq
  <2> HIDE DEF change
  <2> QED
    BY <1>3, <2>1, <2>2
<1>6. DocumentIsKnown(g)'
  BY <1>1, <1>2, <1>4, <1>5 DEF DocumentIsKnown
<1>7. SessionIsKnown(g)'
  <2>1. editQueue \in Seq(Edits(g))
    BY <1>1, WiderSeq DEF Known, SessionIsKnown
  <2>2. posts \in [Slots -> Payloads(g) \cup {None}]
    BY <1>1 DEF Known, SessionIsKnown
  <2> QED
    BY <2>1, <2>2 DEF Known, SessionIsKnown
<1>8. WebviewIsKnown(g)'
  <2>1. editor_toHost \in Seq(Edits(h) \cup {Editor!Ready})
    BY DEF Known, WebviewIsKnown
  <2>2. Edits(h) \cup {Editor!Ready} \subseteq Edits(g) \cup {Editor!Ready}
    BY <1>1
  <2>3. editor_toHost \in Seq(Edits(g) \cup {Editor!Ready})
    BY <2>1, <2>2, WiderSeq
  <2>4. data \in Taken(g) \cup [text : {None}, version : Nat, token : Nat] /\ draft \in Drafts(g) \cup {None}
    BY <1>1 DEF Known, WebviewIsKnown
  <2> QED
    BY <2>3, <2>4 DEF Known, WebviewIsKnown
<1> QED
  BY <1>1, <1>6, <1>7, <1>8 DEF Known

\* A change of somebody else joins those on their way.
LEMMA ForeignEcho ==
  ASSUME NEW h, DocumentIsKnown(h), SessionIsKnown(h), Echo, NEW change,
         changes' = Append(changes, change), ~change.own, change.version = main'.version,
         main'.version \in {main.version, main.version + 1},
         UNCHANGED <<mirror, lastSeenVersion, pendingEdits, applying>>
  PROVE  Echo'
<1>1. /\ Len(changes') = Len(changes) + 1 /\ Len(changes) \in Nat
      /\ changes'[Len(changes) + 1] = change
      /\ \A i \in 1..Len(changes) : changes'[i] = changes[i]
  BY ChangesAreTyped
<1>2. ASSUME NEW i \in 1..Len(changes')
      PROVE  \/ i \in 1..Len(changes) /\ changes'[i] = changes[i]
             \/ i = Len(changes) + 1 /\ changes'[i] = change
  BY <1>1
<1>3. \A i : i \in Own' <=> i \in Own
  BY <1>1, <1>2 DEF Own
<1>4. main.version <= main'.version /\ main'.version \in Nat
  BY ChangesAreTyped
<1>5. MirrorIsBehind'
  <2>1. /\ lastSeenVersion' = mirror'.version /\ mirror'.version <= main'.version
        /\ Editor!Sent' => applying'.version <= mirror'.version
    BY <1>4, ChangesAreTyped DEF Echo, MirrorIsBehind, Editor!Sent
  <2>2. ASSUME NEW i \in 1..Len(changes')
        PROVE  mirror'.version <= changes'[i].version /\ changes'[i].version <= main'.version
    BY <1>2, <1>4, ChangesAreTyped DEF Echo, MirrorIsBehind
  <2>3. ASSUME NEW i \in 1..Len(changes'), NEW j \in 1..Len(changes'), i < j
        PROVE  changes'[i].version <= changes'[j].version
    <3>1. i \in 1..Len(changes) /\ changes'[i] = changes[i]
      BY <1>1, <1>2, <2>3
    <3>2. CASE j \in 1..Len(changes)
      BY <1>1, <2>3, <3>1, <3>2 DEF Echo, MirrorIsBehind
    <3>3. CASE changes'[j] = change
      BY <1>4, <3>1, <3>3, ChangesAreTyped DEF Echo, MirrorIsBehind
    <3> QED
      BY <1>2, <3>2, <3>3
  <2> QED
    BY <2>1, <2>2, <2>3 DEF MirrorIsBehind
<1>6. EchoIsExpected'
  <2>1. ASSUME NEW i \in Own
        PROVE  /\ i \in 1..Len(changes) /\ changes'[i] = changes[i]
               /\ changes[i].version > mirror.version
               /\ \A j \in 1..Len(changes') : j < i => ~changes'[j].own
                                                       /\ changes'[j].version = mirror.version
               /\ pendingEdits = IF Waiting THEN <<changes[i].text, applying.expected>>
                                 ELSE <<changes[i].text>>
    BY <1>1, <1>2 DEF Echo, EchoIsExpected, Own
  <2> QED
    BY <1>3, <2>1 DEF EchoIsExpected, Waiting, Editor!Sent
<1>7. NothingElseIsExpected'
  <2>1. Waiting => applying.version \in Nat
    BY SentIsTyped DEF Waiting
  <2>2. Waiting /\ applying.version = main'.version => applying.version = main.version
    BY <2>1, ChangesAreTyped DEF Echo, MirrorIsBehind, Waiting
  <2>3. Own' = {} => Own = {}
    BY <1>3
  <2>4. Waiting' <=> Waiting
    BY DEF Waiting, Editor!Sent
  <2> QED
    BY <2>2, <2>3, <2>4 DEF Echo, NothingElseIsExpected
<1> QED
  BY <1>5, <1>6, <1>7 DEF Echo

\* A write of somebody else, or a flip of the dirty flag, keeps the invariant.
LEMMA ForeignWriteKeeps ==
  ASSUME EditorInv, Editor!ForeignWrite
  PROVE  EditorInv'
<1>1. PICK h \in Seq(Texts) : Known(h)
  BY DEF EditorInv
<1>2. DocumentIsKnown(h) /\ SessionIsKnown(h) /\ WebviewIsKnown(h) /\ Echo
  BY <1>1 DEF Known, EditorInv
<1>3. /\ UNCHANGED <<mirror, lastSeenVersion, pendingEdits, reseedToken, deliveryFailed, editQueue,
                     posts, editor_toView>>
      /\ UNCHANGED <<data, draft, lastPostedText, timer, isComposing, reseedDuringComposition,
                     editor_toHost>>
      /\ applying' = applying
  BY DEF Editor!ForeignWrite, Editor!hostVars, Editor!draftVars
<1>4. Delivery' /\ QueueWaits'
  BY <1>3, PostsStay DEF EditorInv, QueueWaits, Reseeds
<1>5. CASE \E text \in Texts \ {main.text} : Editor!Write(text, FALSE)
  <2>1. PICK text \in Texts : Editor!Write(text, FALSE)
    BY <1>5
  <2>2. \E g \in Seq(Texts) : Known(g)'
    BY <1>1, <1>2, <1>3, <2>1, WrittenIsKnown DEF SessionIsKnown
  <2> DEFINE change == [text |-> text, version |-> main.version + 1, own |-> FALSE]
  <2>3. /\ changes' = Append(changes, change) /\ ~change.own
        /\ main'.version = main.version + 1 /\ change.version = main.version + 1
    BY <2>1 DEF Editor!Write
  <2> HIDE DEF change
  <2>4. Echo'
    BY <1>2, <1>3, <2>3, ForeignEcho
  <2> QED
    BY <1>4, <2>2, <2>4 DEF EditorInv
<1>6. CASE UNCHANGED main
          /\ changes' = Append(changes, [text |-> main.text, version |-> main.version, own |-> FALSE])
  <2> DEFINE change == [text |-> main.text, version |-> main.version, own |-> FALSE]
  <2>1. /\ changes' = Append(changes, change) /\ ~change.own
        /\ main' = main /\ change.version = main.version
    BY <1>6
  <2>2. change \in Changes(h)
    BY <1>2 DEF DocumentIsKnown, Versions, Changes
  <2> HIDE DEF change
  <2>3. Echo'
    BY <1>2, <1>3, <2>1, ForeignEcho
  <2>4. DocumentIsKnown(h)'
    BY <1>2, <1>3, <2>1, <2>2 DEF DocumentIsKnown
  <2>5. Known(h)'
    BY <1>2, <1>3, <2>4, SessionStays, WebviewStays DEF Known
  <2> QED
    BY <1>4, <2>3, <2>5 DEF EditorInv
<1> QED
  BY <1>5, <1>6 DEF Editor!ForeignWrite

\* VS Code refuses the edit or throws: what is expected stays expected until the answer is read.
LEMMA AnswerKeeps ==
  ASSUME EditorInv, Editor!Sent, applying.answer = "none", NEW answer \in {"rejected", "threw"},
         applying' = [applying EXCEPT !.answer = answer],
         UNCHANGED <<main, changes, mirror, lastSeenVersion, pendingEdits>>,
         UNCHANGED <<reseedToken, deliveryFailed, editQueue, posts, editor_toView>>,
         UNCHANGED <<data, draft, lastPostedText, timer, isComposing, reseedDuringComposition,
                     editor_toHost>>
  PROVE  EditorInv'
<1>1. PICK h \in Seq(Texts) : Known(h)
  BY DEF EditorInv
<1>2. applying \in HandedOver
  BY <1>1, SentIsTyped DEF Known
<1>3. /\ applying' \in HandedOver /\ applying'.answer = answer
      /\ applying'.version = applying.version /\ applying'.expected = applying.expected
  BY <1>2 DEF HandedOver
<1>4. applying' # None /\ applying' # Editor!Reseeding
  BY <1>3, KnownPayloads
<1>5. Waiting /\ Waiting' /\ Editor!Sent'
  BY <1>3, <1>4 DEF Waiting, Editor!Sent
<1>6. Known(h)'
  BY <1>1, <1>3, DocumentStays, WebviewStays DEF Known, SessionIsKnown
<1>7. Delivery'
  BY PostsStay DEF EditorInv
<1>8. MirrorIsBehind'
  BY <1>3 DEF EditorInv, Echo, MirrorIsBehind
<1>9. EchoIsExpected' /\ NothingElseIsExpected'
  BY <1>3, <1>5 DEF EditorInv, Echo, EchoIsExpected, NothingElseIsExpected, Own
<1>10. QueueWaits'
  <2>1. \A s \in Slots : ~Reseeds(s)
    BY DEF EditorInv, QueueWaits, Editor!Sent
  <2>2. \A s \in Slots : ~Reseeds(s)'
    BY <2>1 DEF Reseeds
  <2>3. editQueue # <<>>
    BY DEF EditorInv, QueueWaits, Editor!Sent
  <2> QED
    BY <2>2, <2>3 DEF QueueWaits
<1> QED
  BY <1>6, <1>7, <1>8, <1>9, <1>10 DEF EditorInv, Echo

\* So does an edit that throws,
LEMMA MainThrowsKeeps ==
  ASSUME EditorInv, Editor!MainThrows
  PROVE  EditorInv'
<1>1. /\ Editor!Sent /\ applying.answer = "none" /\ applying' = [applying EXCEPT !.answer = "threw"]
      /\ UNCHANGED <<main, changes, mirror, lastSeenVersion, pendingEdits>>
      /\ UNCHANGED <<reseedToken, deliveryFailed, editQueue, posts, editor_toView>>
      /\ UNCHANGED <<data, draft, lastPostedText, timer, isComposing, reseedDuringComposition,
                     editor_toHost>>
  BY DEF Editor!MainThrows, Editor!hostVars, Editor!draftVars
<1> QED
  BY <1>1, AnswerKeeps

\* and one that VS Code applies, or refuses for its version.
LEMMA MainAppliesKeeps ==
  ASSUME EditorInv, Editor!MainApplies
  PROVE  EditorInv'
<1>1. PICK h \in Seq(Texts) : Known(h)
  BY DEF EditorInv
<1>2. DocumentIsKnown(h) /\ SessionIsKnown(h) /\ WebviewIsKnown(h) /\ Echo
  BY <1>1 DEF Known, EditorInv
<1>3. /\ Editor!Sent /\ applying.answer = "none"
      /\ UNCHANGED <<mirror, lastSeenVersion, pendingEdits, reseedToken, deliveryFailed, editQueue,
                     posts, editor_toView>>
      /\ UNCHANGED <<data, draft, lastPostedText, timer, isComposing, reseedDuringComposition,
                     editor_toHost>>
  BY DEF Editor!MainApplies, Editor!hostVars, Editor!draftVars
<1>4. CASE applying.version # main.version
  <2>1. applying' = [applying EXCEPT !.answer = "rejected"] /\ UNCHANGED <<main, changes>>
    BY <1>4 DEF Editor!MainApplies
  <2> QED
    BY <1>3, <2>1, AnswerKeeps
<1>5. CASE applying.version = main.version
  <2>1. /\ Editor!Write(applying.expected, TRUE)
        /\ applying' = [applying EXCEPT !.answer = "applied"]
    BY <1>5 DEF Editor!MainApplies
  <2>2. PICK text \in Texts : text = applying.expected
    BY <1>2, <1>3, SentIsTyped
  <2>3. Editor!Write(text, TRUE)
    BY <2>1, <2>2
  <2> DEFINE change == [text |-> text, version |-> main.version + 1, own |-> TRUE]
  <2>4. /\ changes' = Append(changes, change) /\ main'.version = main.version + 1
        /\ change.text = text /\ change.version = main.version + 1 /\ change.own
    BY <2>3 DEF Editor!Write
  <2> HIDE DEF change
  <2>5. applying' \in HandedOver /\ applying'.answer = "applied"
        /\ applying'.version = applying.version
    BY <1>2, <1>3, <2>1, SentIsTyped DEF HandedOver
  <2>6. \E g \in Seq(Texts) : Known(g)'
    BY <1>1, <1>3, <2>3, <2>5, WrittenIsKnown
  <2>7. ~Waiting' /\ Waiting
    BY <1>3, <2>5 DEF Waiting
  <2>8. /\ Len(changes') = Len(changes) + 1 /\ Len(changes) \in Nat
        /\ changes'[Len(changes) + 1] = change
        /\ \A i \in 1..Len(changes) : changes'[i] = changes[i]
    BY <1>2, <2>4, ChangesAreTyped
  <2>9. ASSUME NEW i \in 1..Len(changes')
        PROVE  \/ i \in 1..Len(changes) /\ changes'[i] = changes[i]
               \/ i = Len(changes) + 1 /\ changes'[i] = change
    BY <2>8
  <2>10. main.version \in Nat /\ mirror.version = main.version
    BY <1>2, <1>3, <1>5, ChangesAreTyped DEF Echo, MirrorIsBehind
  <2>11. \A i \in 1..Len(changes) : changes[i].version = main.version
    BY <1>2, <2>10, ChangesAreTyped DEF Echo, MirrorIsBehind
  <2>12. \A i \in 1..Len(changes) : ~changes[i].own
    <3>1. SUFFICES ASSUME NEW i \in 1..Len(changes), changes[i].own PROVE FALSE
      OBVIOUS
    <3>2. changes[i].version > mirror.version
      BY <1>2, <3>1 DEF Echo, EchoIsExpected, Own
    <3> QED
      BY <2>10, <2>11, <3>2
  <2>13. pendingEdits = <<text>>
    BY <1>2, <1>5, <2>2, <2>7, <2>12 DEF Echo, NothingElseIsExpected, Own
  <2>14. MirrorIsBehind'
    <3>1. lastSeenVersion' = mirror'.version /\ mirror'.version <= main'.version
      BY <1>2, <1>3, <2>4, <2>10 DEF Echo, MirrorIsBehind
    <3>2. Editor!Sent' => applying'.version <= mirror'.version
      BY <1>2, <1>3, <2>5 DEF Echo, MirrorIsBehind
    <3>3. ASSUME NEW i \in 1..Len(changes')
          PROVE  /\ mirror'.version <= changes'[i].version
                 /\ changes'[i].version <= main'.version
      BY <1>3, <2>4, <2>9, <2>10, <2>11
    <3>4. ASSUME NEW i \in 1..Len(changes'), NEW j \in 1..Len(changes'), i < j
          PROVE  changes'[i].version <= changes'[j].version
      <4>1. i \in 1..Len(changes)
        BY <2>8, <3>4
      <4> QED
        BY <2>4, <2>8, <2>9, <2>10, <2>11, <4>1
    <3> QED
      BY <3>1, <3>2, <3>3, <3>4 DEF MirrorIsBehind
  <2>15. EchoIsExpected'
    <3>1. SUFFICES ASSUME NEW i \in Own'
                   PROVE  /\ changes'[i].version > mirror'.version
                          /\ \A j \in 1..Len(changes') : j < i =>
                               ~changes'[j].own /\ changes'[j].version = mirror'.version
                          /\ pendingEdits' = <<changes'[i].text>>
      BY <2>7 DEF EchoIsExpected
    <3>2. i = Len(changes) + 1 /\ changes'[i] = change
      BY <2>9, <2>12, <3>1 DEF Own
    <3>3. \A j \in 1..Len(changes') : j < i => j \in 1..Len(changes)
      BY <2>8, <3>2
    <3> QED
      BY <1>3, <2>4, <2>8, <2>10, <2>11, <2>12, <2>13, <3>2, <3>3
  <2>16. NothingElseIsExpected'
    <3>1. Len(changes) + 1 \in Own'
      BY <2>4, <2>8 DEF Own
    <3> QED
      BY <3>1 DEF NothingElseIsExpected
  <2>17. QueueWaits'
    <3>1. \A s \in Slots : ~Reseeds(s)
      BY <1>3 DEF EditorInv, QueueWaits, Editor!Sent
    <3>2. \A s \in Slots : ~Reseeds(s)'
      BY <1>3, <3>1 DEF Reseeds
    <3>3. editQueue' # <<>>
      BY <1>3 DEF EditorInv, QueueWaits, Editor!Sent
    <3> QED
      BY <3>2, <3>3 DEF QueueWaits
  <2>18. Delivery'
    BY <1>3, PostsStay DEF EditorInv
  <2> QED
    BY <2>6, <2>14, <2>15, <2>16, <2>17, <2>18 DEF EditorInv, Echo
<1> QED
  BY <1>4, <1>5

\* What the mirror takes is what was first on its way.
LEMMA MirrorSteps ==
  ASSUME EditorInv, Editor!OnDidChangeTextDocument
  PROVE  /\ EditorInv'
         /\ Head(changes).own => reseedToken' = reseedToken
<1>1. PICK h \in Seq(Texts) : Known(h)
  BY DEF EditorInv
<1>2. /\ DocumentIsKnown(h) /\ SessionIsKnown(h) /\ WebviewIsKnown(h) /\ Delivery /\ Echo
      /\ data.token \in Nat
  BY <1>1, DataIsNumbered DEF Known, EditorInv
<1> DEFINE event == Head(changes)
<1>3. /\ changes # <<>> /\ changes' = Tail(changes)
      /\ mirror' = [text |-> event.text, version |-> event.version]
      /\ UNCHANGED <<main, deliveryFailed, editQueue, applying, editor_toHost>>
      /\ UNCHANGED <<draft, lastPostedText, timer, isComposing, reseedDuringComposition>>
      /\ data' = data
  BY DEF Editor!OnDidChangeTextDocument, Editor!draftVars
<1>4. \/ /\ event.version = lastSeenVersion
         /\ UNCHANGED <<lastSeenVersion, pendingEdits, reseedToken, posts, editor_toView>>
      \/ /\ event.version # lastSeenVersion /\ lastSeenVersion' = event.version
         /\ \/ /\ pendingEdits # <<>> /\ Head(pendingEdits) = event.text
               /\ pendingEdits' = Tail(pendingEdits) /\ UNCHANGED reseedToken
            \/ /\ ~(pendingEdits # <<>> /\ Head(pendingEdits) = event.text)
               /\ pendingEdits' = <<>> /\ reseedToken' = reseedToken + 1
         /\ Editor!Render(FALSE)
  BY DEF Editor!OnDidChangeTextDocument, Editor!Moves
<1>5. /\ Len(changes) \in Nat \ {0} /\ 1 \in 1..Len(changes) /\ event = changes[1]
      /\ changes' \in Seq(Changes(h)) /\ Len(changes') = Len(changes) - 1
      /\ \A i \in 1..Len(changes') : changes'[i] = changes[i + 1]
  <2>1. changes \in Seq(Changes(h)) /\ Len(changes) # 0
    BY <1>2, <1>3, ChangesAreTyped, EmptySeq
  <2> QED
    BY <1>3, <2>1, HeadTailProperties
<1>6. /\ event \in Changes(h) /\ event.version \in Nat /\ event.text \in Texts
      /\ main.version \in Nat /\ mirror.version \in Nat
  BY <1>2, <1>5, ChangesAreTyped
<1> HIDE DEF event
<1>7. mirror' \in Versions(h) /\ mirror'.version = event.version
  BY <1>3, <1>6 DEF Changes, Versions
<1>8. /\ lastSeenVersion = mirror.version /\ mirror.version <= event.version
      /\ event.version <= main.version
  BY <1>2, <1>5 DEF Echo, MirrorIsBehind
<1>9. lastSeenVersion' = event.version
  BY <1>4
<1>10. ASSUME NEW i \in 1..Len(changes')
       PROVE  /\ i + 1 \in 1..Len(changes) /\ 1 < i + 1 /\ changes'[i] = changes[i + 1]
              /\ event.version <= changes[i + 1].version
  <2>1. i + 1 \in 1..Len(changes) /\ 1 < i + 1
    BY <1>5
  <2> QED
    BY <1>2, <1>5, <2>1 DEF Echo, MirrorIsBehind
<1>11. MirrorIsBehind'
  <2>1. Editor!Sent' => applying'.version <= mirror'.version
    <3>1. SUFFICES ASSUME Editor!Sent PROVE applying.version <= event.version
      BY <1>3, <1>7 DEF Editor!Sent
    <3>2. applying.version \in Nat /\ applying.version <= mirror.version
      BY <1>2, <3>1, SentIsTyped DEF Echo, MirrorIsBehind
    <3> QED
      BY <1>6, <1>8, <3>2
  <2>2. \A i \in 1..Len(changes') :
          mirror'.version <= changes'[i].version /\ changes'[i].version <= main'.version
    BY <1>2, <1>3, <1>7, <1>10 DEF Echo, MirrorIsBehind
  <2>3. ASSUME NEW i \in 1..Len(changes'), NEW j \in 1..Len(changes'), i < j
        PROVE  changes'[i].version <= changes'[j].version
    <3>1. i + 1 < j + 1
      BY <2>3
    <3> QED
      BY <1>2, <1>10, <3>1 DEF Echo, MirrorIsBehind
  <2> QED
    BY <1>3, <1>7, <1>8, <1>9, <2>1, <2>2, <2>3 DEF MirrorIsBehind
<1>12. \A i \in Own' : i + 1 \in Own
  BY <1>10 DEF Own
<1>13. Waiting' <=> Waiting
  BY <1>3 DEF Waiting, Editor!Sent
<1>14. WebviewIsKnown(h)'
  BY <1>2, <1>3, WebviewStays
<1>15. CASE event.version = lastSeenVersion
  <2>1. UNCHANGED <<lastSeenVersion, pendingEdits, reseedToken, posts, editor_toView>>
    BY <1>4, <1>15
  <2>2. 1 \notin Own
    BY <1>2, <1>5, <1>6, <1>8, <1>15 DEF Echo, EchoIsExpected
  <2>3. EchoIsExpected'
    <3>1. SUFFICES ASSUME NEW i \in Own'
                   PROVE  /\ changes'[i].version > mirror'.version
                          /\ \A j \in 1..Len(changes') : j < i =>
                               ~changes'[j].own /\ changes'[j].version = mirror'.version
                          /\ pendingEdits = IF Waiting
                                            THEN <<changes'[i].text, applying.expected>>
                                            ELSE <<changes'[i].text>>
      BY <1>3, <1>13, <2>1 DEF EchoIsExpected
    <3>2. i \in 1..Len(changes') /\ i + 1 \in Own /\ changes'[i] = changes[i + 1]
      BY <1>10, <1>12, <3>1 DEF Own
    <3>3. mirror'.version = mirror.version
      BY <1>7, <1>8, <1>15
    <3>4. ASSUME NEW j \in 1..Len(changes'), j < i PROVE j + 1 < i + 1
      BY <1>5, <3>2, <3>4
    <3> QED
      BY <1>2, <1>10, <3>2, <3>3, <3>4 DEF Echo, EchoIsExpected
  <2>4. Own' = {} => Own = {}
    <3>1. ASSUME NEW k \in Own PROVE k - 1 \in Own'
      <4>1. k \in 1..Len(changes) /\ k # 1
        BY <2>2 DEF Own
      <4>2. k - 1 \in 1..Len(changes') /\ (k - 1) + 1 = k
        BY <1>5, <4>1
      <4> QED
        BY <1>10, <4>2 DEF Own
    <3> QED
      BY <3>1
  <2>5. NothingElseIsExpected'
    BY <1>2, <1>3, <1>13, <2>1, <2>4 DEF Echo, NothingElseIsExpected
  <2>6. Delivery' /\ QueueWaits'
    BY <1>2, <1>3, <2>1, PostsStay DEF EditorInv, QueueWaits, Reseeds
  <2>7. DocumentIsKnown(h)' /\ SessionIsKnown(h)'
    BY <1>2, <1>3, <1>5, <1>7, <2>1, SessionStays DEF DocumentIsKnown
  <2> QED
    BY <1>1, <1>11, <1>14, <2>1, <2>3, <2>5, <2>6, <2>7 DEF EditorInv, Known, Echo
<1>16. CASE event.version # lastSeenVersion
  <2>1. /\ \/ /\ pendingEdits # <<>> /\ Head(pendingEdits) = event.text
              /\ pendingEdits' = Tail(pendingEdits) /\ UNCHANGED reseedToken
           \/ /\ ~(pendingEdits # <<>> /\ Head(pendingEdits) = event.text)
              /\ pendingEdits' = <<>> /\ reseedToken' = reseedToken + 1
        /\ Editor!Render(FALSE)
    BY <1>4, <1>16
  <2>2. mirror.version < event.version
    BY <1>6, <1>8, <1>16
  <2>3. ASSUME NEW k \in Own PROVE k = 1
    <3>1. k \in 1..Len(changes) /\ (1 < k => changes[1].version = mirror.version)
      BY <1>2, <1>5 DEF Echo, EchoIsExpected, Own
    <3> QED
      BY <1>5, <1>6, <2>2, <3>1
  <2>4. Own' = {}
    <3>1. ASSUME NEW k \in Own' PROVE FALSE
      <4>1. k + 1 \in Own /\ k \in 1..Len(changes')
        BY <1>12, <3>1 DEF Own
      <4>2. k + 1 = 1
        BY <2>3, <4>1
      <4> QED
        BY <4>1, <4>2
    <3> QED
      BY <3>1
  <2>5. \/ pendingEdits = <<>>
        \/ pendingEdits = <<event.text>>
        \/ Waiting /\ pendingEdits = <<applying.expected>>
        \/ Waiting /\ pendingEdits = <<event.text, applying.expected>>
    <3>1. CASE 1 \in Own
      BY <1>2, <1>5, <3>1 DEF Echo, EchoIsExpected
    <3>2. CASE 1 \notin Own
      BY <1>2, <2>3, <3>2 DEF Echo, NothingElseIsExpected
    <3> QED
      BY <3>1, <3>2
  <2>6. \/ pendingEdits' = <<>>
        \/ Waiting /\ pendingEdits' = <<applying.expected>>
    <3>1. \/ pendingEdits' = <<>>
          \/ pendingEdits # <<>> /\ pendingEdits' = Tail(pendingEdits)
      BY <2>1
    <3>2. CASE pendingEdits' = Tail(pendingEdits) /\ pendingEdits = <<event.text>>
      BY <3>2, ShortQueues
    <3>3. CASE /\ Waiting /\ pendingEdits' = Tail(pendingEdits)
               /\ pendingEdits = <<applying.expected>>
      BY <3>3, ShortQueues
    <3>4. CASE /\ Waiting /\ pendingEdits' = Tail(pendingEdits)
               /\ pendingEdits = <<event.text, applying.expected>>
      BY <3>4, ShortQueues
    <3> QED
      BY <2>5, <3>1, <3>2, <3>3, <3>4
  <2>7. pendingEdits' \in Seq(Texts)
    <3>1. Waiting => applying.expected \in Texts
      BY <1>2, SentIsTyped DEF Waiting
    <3>2. <<>> \in Seq(Texts) /\ (Waiting => <<applying.expected>> \in Seq(Texts))
      BY <3>1, EmptySeq
    <3> QED
      BY <2>6, <3>2
  <2>8. ~(Waiting /\ applying.version = main.version)
    <3>1. Waiting => applying.version \in Nat /\ applying.version <= mirror.version
      BY <1>2, SentIsTyped DEF Echo, MirrorIsBehind, Waiting
    <3> QED
      BY <1>6, <1>8, <2>2, <3>1
  <2>9. EchoIsExpected' /\ NothingElseIsExpected'
    BY <1>3, <1>13, <2>4, <2>6, <2>8 DEF EchoIsExpected, NothingElseIsExpected
  <2>10. event.own => reseedToken' = reseedToken
    <3>1. SUFFICES ASSUME event.own PROVE pendingEdits # <<>> /\ Head(pendingEdits) = event.text
      BY <2>1
    <3>2. 1 \in Own
      BY <1>5, <3>1 DEF Own
    <3>3. \/ pendingEdits = <<event.text>>
          \/ pendingEdits = <<event.text, applying.expected>>
      BY <1>2, <1>5, <3>2 DEF Echo, EchoIsExpected
    <3> QED
      BY <3>3, ShortQueues
  <2>11. reseedToken' \in {reseedToken, reseedToken + 1} /\ reseedToken' \in Nat
    BY <1>2, <2>1 DEF SessionIsKnown
  <2>12. /\ posts' \in [Slots -> Payloads(h) \cup {None}] /\ editor_toView' \in Seq(Slots)
         /\ Delivery'
         /\ \E s \in Slots : /\ posts[s] = None /\ posts'[s] # None /\ posts'[s].reseed = FALSE
                             /\ \A r \in Slots \ {s} : posts'[r] = posts[r]
    BY <1>2, <1>3, <1>7, <2>1, <2>11, RenderKeeps
  <2>13. QueueWaits'
    BY <1>3, <2>12, QueueStays DEF EditorInv, QueueWaits, Reseeds
  <2>14. DocumentIsKnown(h)' /\ SessionIsKnown(h)'
    BY <1>2, <1>3, <1>5, <1>6, <1>7, <1>9, <2>7, <2>11, <2>12 DEF DocumentIsKnown, SessionIsKnown
  <2> QED
    BY <1>1, <1>11, <1>14, <2>9, <2>10, <2>12, <2>13, <2>14 DEF EditorInv, Known, Echo, event
<1> QED
  BY <1>15, <1>16

-----------------------------------------------------------------------------
(* The queue of edits. *)

\* The token moves on, and the queue waits for the payload that says so.
LEMMA ReseedKeeps ==
  ASSUME NEW h, SessionIsKnown(h), Delivery, QueueWaits, data.token \in Nat,
         mirror \in Versions(h), Editor!Reseed, applying # Editor!Reseeding, editQueue # <<>>,
         UNCHANGED <<editQueue, deliveryFailed>>, data' = data
  PROVE  SessionIsKnown(h)' /\ Delivery' /\ QueueWaits' /\ ~Editor!Sent'
<1> reseedToken \in Nat
  BY DEF SessionIsKnown
<1>1. /\ reseedToken' = reseedToken + 1 /\ mirror' = mirror
      /\ applying' = Editor!Reseeding /\ reseedToken' \in Nat
  BY DEF Editor!Reseed
<1>a. Editor!Render(TRUE)
  BY DEF Editor!Reseed
<1>2. /\ posts' \in [Slots -> Payloads(h) \cup {None}] /\ editor_toView' \in Seq(Slots)
      /\ Delivery'
      /\ \E s \in Slots : /\ posts[s] = None /\ posts'[s] # None /\ posts'[s].reseed = TRUE
                          /\ \A r \in Slots \ {s} : posts'[r] = posts[r]
  BY <1>1, <1>a, RenderKeeps
<1>3. \A s \in Slots : ~Reseeds(s)
  BY DEF QueueWaits
<1>4. QueueWaits'
  BY <1>1, <1>2, <1>3 DEF QueueWaits, Reseeds
<1>5. SessionIsKnown(h)'
  BY <1>1, <1>2 DEF SessionIsKnown
<1> QED
  BY <1>1, <1>2, <1>4, <1>5 DEF Editor!Sent

\* An edit that is sent was measured on the text of the mirror.
LEMMA MeasuredOnTheMirror ==
  ASSUME NEW h, mirror \in Versions(h), NEW delta \in Edits(h), Editor!Measured(delta)
  PROVE  Editor!Result(delta, mirror.text) = delta.to /\ delta.to \in Texts
BY DEF Versions, Edits, Said, Editor!Measured, Editor!Result

\* The head of the queue that is dropped, refused or sent keeps the invariant.
LEMMA ApplyEditKeeps ==
  ASSUME EditorInv, Editor!ApplyEdit
  PROVE  EditorInv'
<1>1. PICK h \in Seq(Texts) : Known(h)
  BY DEF EditorInv
<1>2. /\ DocumentIsKnown(h) /\ SessionIsKnown(h) /\ WebviewIsKnown(h)
      /\ Delivery /\ Echo /\ QueueWaits /\ data.token \in Nat
      /\ mirror \in Versions(h) /\ pendingEdits \in Seq(Texts) /\ mirror.version \in Nat
      /\ editQueue \in Seq(Edits(h)) /\ reseedToken \in Nat
  BY <1>1, DataIsNumbered, ChangesAreTyped DEF Known, EditorInv, DocumentIsKnown, SessionIsKnown
<1> DEFINE delta == Head(editQueue)
<1>3. /\ applying = None /\ editQueue # <<>>
      /\ UNCHANGED <<main, changes, deliveryFailed, editor_toHost>>
      /\ UNCHANGED <<draft, lastPostedText, timer, isComposing, reseedDuringComposition>>
      /\ data' = data
  BY DEF Editor!ApplyEdit, Editor!draftVars
<1>4. delta \in Edits(h) /\ Tail(editQueue) \in Seq(Edits(h))
  BY <1>2, <1>3, HeadTailProperties
<1>5. ~Editor!Sent /\ ~Waiting
  BY <1>3 DEF Editor!Sent, Waiting
<1>6. WebviewIsKnown(h)'
  BY <1>2, <1>3, WebviewStays
<1>7. CASE /\ delta.token # reseedToken
           /\ editQueue' = Tail(editQueue) /\ UNCHANGED <<Editor!hostVars, applying>>
           /\ Editor!Render(FALSE) \/ UNCHANGED <<posts, editor_toView>>
  <2>1. /\ UNCHANGED <<mirror, lastSeenVersion, pendingEdits, reseedToken>>
        /\ applying' = applying /\ editQueue' \in Seq(Edits(h))
    BY <1>4, <1>7 DEF Editor!hostVars
  <2>2. DocumentIsKnown(h)' /\ Echo'
    BY <1>2, <1>3, <2>1, DocumentStays, EchoStays
  <2>3. CASE Editor!Render(FALSE)
    <3>1. /\ posts' \in [Slots -> Payloads(h) \cup {None}] /\ editor_toView' \in Seq(Slots)
          /\ Delivery'
          /\ \E s \in Slots : /\ posts[s] = None /\ posts'[s] # None /\ posts'[s].reseed = FALSE
                              /\ \A r \in Slots \ {s} : posts'[r] = posts[r]
      BY <1>2, <1>3, <2>1, <2>3, RenderKeeps
    <3>2. QueueWaits'
      BY <1>2, <1>3, <2>1, <3>1, QueueStays DEF Reseeds
    <3>3. SessionIsKnown(h)'
      BY <1>2, <1>3, <2>1, <3>1 DEF SessionIsKnown
    <3> QED
      BY <1>1, <1>6, <2>2, <3>1, <3>2, <3>3 DEF EditorInv, Known
  <2>4. CASE UNCHANGED <<posts, editor_toView>>
    <3>1. Delivery' /\ QueueWaits'
      BY <1>2, <1>3, <2>1, <2>4, PostsStay DEF QueueWaits, Reseeds
    <3>2. SessionIsKnown(h)'
      BY <1>2, <1>3, <2>1, <2>4 DEF SessionIsKnown
    <3> QED
      BY <1>1, <1>6, <2>2, <3>1, <3>2 DEF EditorInv, Known
  <2> QED
    BY <1>7, <2>3, <2>4
<1>8. CASE Editor!Reseed /\ UNCHANGED <<pendingEdits, editQueue>>
  <2>1. applying # Editor!Reseeding
    BY <1>3, EditorConstants
  <2>2. SessionIsKnown(h)' /\ Delivery' /\ QueueWaits' /\ ~Editor!Sent'
    BY <1>2, <1>3, <1>8, <2>1, ReseedKeeps
  <2>3. UNCHANGED <<mirror, lastSeenVersion, pendingEdits>>
    BY <1>8 DEF Editor!Reseed
  <2>4. DocumentIsKnown(h)'
    BY <1>2, <1>3, <2>3, DocumentStays
  <2>5. Echo'
    BY <1>2, <1>3, <1>5, <2>2, <2>3
    DEF Echo, MirrorIsBehind, EchoIsExpected, NothingElseIsExpected, Waiting, Own
  <2> QED
    BY <1>1, <1>6, <2>2, <2>4, <2>5 DEF EditorInv, Known
<1>9. CASE /\ Editor!Measured(delta)
           /\ pendingEdits' = Append(pendingEdits, Editor!Result(delta, mirror.text))
           /\ applying' = Editor!Sending(Editor!Result(delta, mirror.text), mirror.version)
           /\ UNCHANGED <<mirror, lastSeenVersion, reseedToken, editQueue, posts, editor_toView>>
  <2>1. PICK text \in Texts : text = Editor!Result(delta, mirror.text)
    BY <1>2, <1>4, <1>9, MeasuredOnTheMirror
  <2>2. /\ pendingEdits' = Append(pendingEdits, text)
        /\ applying' = [expected |-> text, version |-> mirror.version, answer |-> "none"]
    BY <1>9, <2>1 DEF Editor!Sending
  <2>3. /\ applying' \in HandedOver /\ applying'.expected = text
        /\ applying'.version = mirror.version /\ applying'.answer = "none"
    BY <1>2, <2>2 DEF HandedOver
  <2>4. Editor!Sent' /\ Waiting'
    BY <2>3, KnownPayloads DEF Editor!Sent, Waiting
  <2>5. DocumentIsKnown(h)'
    BY <1>2, <1>3, <1>9, <2>2 DEF DocumentIsKnown
  <2>6. SessionIsKnown(h)'
    BY <1>2, <1>3, <1>9, <2>3 DEF SessionIsKnown
  <2>7. Delivery'
    BY <1>2, <1>3, <1>9, PostsStay
  <2>8. QueueWaits'
    <3>1. \A s \in Slots : ~Reseeds(s)
      BY <1>2, <1>3, EditorConstants DEF QueueWaits
    <3>2. \A s \in Slots : ~Reseeds(s)'
      BY <1>9, <3>1 DEF Reseeds
    <3> QED
      BY <1>3, <1>9, <3>2 DEF QueueWaits
  <2>9. MirrorIsBehind'
    BY <1>2, <1>3, <1>9, <2>3 DEF Echo, MirrorIsBehind
  <2>10. EchoIsExpected'
    <3>1. ASSUME NEW i \in Own PROVE pendingEdits' = <<changes[i].text, text>>
      <4>1. pendingEdits = <<changes[i].text>>
        BY <1>2, <1>5 DEF Echo, EchoIsExpected
      <4> QED
        BY <2>2, <4>1, ShortQueues
    <3> QED
      BY <1>2, <1>3, <1>9, <2>3, <2>4, <3>1 DEF Echo, EchoIsExpected, Own
  <2>11. NothingElseIsExpected'
    <3>1. SUFFICES ASSUME Own = {} PROVE pendingEdits' = <<text>>
      BY <1>3, <2>3, <2>4 DEF NothingElseIsExpected, Own
    <3>2. pendingEdits = <<>>
      BY <1>2, <1>5, <3>1 DEF Echo, NothingElseIsExpected
    <3> QED
      BY <2>2, <3>2
  <2> QED
    BY <1>1, <1>6, <2>5, <2>6, <2>7, <2>8, <2>9, <2>10, <2>11 DEF EditorInv, Known, Echo
<1> QED
  BY <1>7, <1>8, <1>9 DEF Editor!ApplyEdit

\* An edit that was not made is the last that was expected.
LEMMA DropsTheLast ==
  ASSUME NEW e, NEW t
  PROVE  /\ pendingEdits = <<>> => Editor!DropPendingEdit(e) = <<>>
         /\ pendingEdits = <<e>> => Editor!DropPendingEdit(e) = <<>>
         /\ pendingEdits = <<t, e>> => Editor!DropPendingEdit(e) = <<t>>
<1> DEFINE at == {i \in DOMAIN pendingEdits : pendingEdits[i] = e}
           latest == CHOOSE i \in at : \A j \in at : j <= i
           rest == SubSeq(pendingEdits, 1, latest - 1)
                     \o SubSeq(pendingEdits, latest + 1, Len(pendingEdits))
<1>1. Editor!DropPendingEdit(e) = IF at = {} THEN pendingEdits ELSE rest
  BY DEF Editor!DropPendingEdit
<1>2. ASSUME NEW i \in at, \A j \in at : j \in 1..i PROVE latest = i
  <2>1. \A j \in at : j <= i
    BY <1>2
  <2>2. latest \in at /\ \A j \in at : j <= latest
    BY <2>1
  <2> QED
    BY <1>2, <2>2
<1>3. ASSUME pendingEdits = <<>> PROVE at = {}
  BY <1>3
<1>4. ASSUME pendingEdits = <<e>> PROVE Editor!DropPendingEdit(e) = <<>>
  <2>1. /\ pendingEdits \in Seq({e}) /\ Len(pendingEdits) = 1
        /\ 1 \in at /\ \A j \in at : j \in 1..1
    BY <1>4
  <2>2. latest = 1
    BY <1>2, <2>1
  <2> HIDE DEF latest
  <2>3. rest \in Seq({e}) /\ Len(rest) = 1 - 1
    BY <2>1, <2>2, WithoutOne
  <2> HIDE DEF rest, at
  <2>4. rest = <<>>
    BY <2>3, EmptySeq
  <2> QED
    BY <1>1, <2>1, <2>4
<1>5. ASSUME pendingEdits = <<t, e>> PROVE Editor!DropPendingEdit(e) = <<t>>
  <2>1. /\ pendingEdits \in Seq({t, e}) /\ Len(pendingEdits) = 2
        /\ pendingEdits[1] = t /\ 2 \in at /\ \A j \in at : j \in 1..2
    BY <1>5
  <2>2. latest = 2
    BY <1>2, <2>1
  <2> HIDE DEF latest
  <2>3. /\ rest \in Seq({t, e}) /\ Len(rest) = 2 - 1
        /\ \A k \in 1..(2 - 1) : rest[k] = pendingEdits[IF k < 2 THEN k ELSE k + 1]
    BY <2>1, <2>2, WithoutOne
  <2> HIDE DEF rest, at
  <2>4. rest[1] = t
    BY <2>1, <2>3
  <2>5. rest = <<t>>
    BY <2>3, <2>4, SeqEqual
  <2> QED
    BY <1>1, <2>1, <2>5
<1> QED
  BY <1>1, <1>3, <1>4, <1>5

\* The answer to an edit keeps it, on whichever side of the echo it comes.
LEMMA EditAnsweredKeeps ==
  ASSUME EditorInv, Editor!EditAnswered
  PROVE  EditorInv'
<1>1. PICK h \in Seq(Texts) : Known(h)
  BY DEF EditorInv
<1>2. /\ DocumentIsKnown(h) /\ SessionIsKnown(h) /\ WebviewIsKnown(h)
      /\ Delivery /\ Echo /\ QueueWaits /\ data.token \in Nat
      /\ mirror \in Versions(h) /\ editQueue \in Seq(Edits(h))
  BY <1>1, DataIsNumbered DEF Known, EditorInv, DocumentIsKnown, SessionIsKnown
<1>3. /\ Editor!Sent /\ UNCHANGED <<main, changes, deliveryFailed, editor_toHost>>
      /\ UNCHANGED <<draft, lastPostedText, timer, isComposing, reseedDuringComposition>>
      /\ data' = data
  BY DEF Editor!EditAnswered, Editor!draftVars
<1>4. editQueue # <<>> /\ applying # Editor!Reseeding /\ \A s \in Slots : ~Reseeds(s)
  BY <1>2, <1>3 DEF QueueWaits, Editor!Sent
<1>5. WebviewIsKnown(h)'
  BY <1>2, <1>3, WebviewStays
<1>6. CASE /\ applying.answer = "applied" /\ editQueue' = Tail(editQueue) /\ applying' = None
           /\ UNCHANGED <<Editor!hostVars, posts, editor_toView>>
  <2>1. UNCHANGED <<mirror, lastSeenVersion, pendingEdits, reseedToken, posts, editor_toView>>
    BY <1>6 DEF Editor!hostVars
  <2>2. editQueue' \in Seq(Edits(h))
    BY <1>2, <1>4, <1>6, HeadTailProperties
  <2>3. DocumentIsKnown(h)' /\ SessionIsKnown(h)'
    BY <1>2, <1>3, <1>6, <2>1, <2>2, DocumentStays DEF SessionIsKnown
  <2>4. Delivery'
    BY <1>2, <1>3, <2>1, PostsStay
  <2>5. QueueWaits'
    BY <1>4, <1>6, <2>1 DEF QueueWaits, Reseeds
  <2>6. ~Waiting /\ ~Waiting' /\ ~Editor!Sent'
    BY <1>6 DEF Waiting, Editor!Sent
  <2>7. Echo'
    BY <1>2, <1>3, <2>1, <2>6
    DEF Echo, MirrorIsBehind, EchoIsExpected, NothingElseIsExpected, Own
  <2> QED
    BY <1>1, <1>5, <2>3, <2>4, <2>5, <2>7 DEF EditorInv, Known
<1>7. CASE /\ applying.answer \in {"rejected", "threw"}
           /\ pendingEdits' = Editor!DropPendingEdit(applying.expected)
           /\ Editor!Reseed /\ UNCHANGED editQueue
  <2>1. UNCHANGED <<mirror, lastSeenVersion>>
    BY <1>7 DEF Editor!Reseed
  <2>2. SessionIsKnown(h)' /\ Delivery' /\ QueueWaits' /\ ~Editor!Sent'
    BY <1>2, <1>3, <1>4, <1>7, ReseedKeeps
  <2>3. Waiting /\ ~Waiting'
    BY <1>3, <1>7, <2>2 DEF Waiting
  <2>4. MirrorIsBehind'
    BY <1>2, <1>3, <2>1, <2>2 DEF Echo, MirrorIsBehind
  <2>5. ASSUME NEW i \in Own PROVE pendingEdits' = <<changes[i].text>>
    <3>1. pendingEdits = <<changes[i].text, applying.expected>>
      BY <1>2, <2>3 DEF Echo, EchoIsExpected
    <3> QED
      BY <1>7, <3>1, DropsTheLast
  <2>6. Own = {} => pendingEdits' = <<>>
    <3>1. Own = {} => pendingEdits = <<>> \/ pendingEdits = <<applying.expected>>
      BY <1>2 DEF Echo, NothingElseIsExpected
    <3> QED
      BY <1>7, <3>1, DropsTheLast
  <2>7. EchoIsExpected' /\ NothingElseIsExpected'
    BY <1>2, <1>3, <2>1, <2>3, <2>5, <2>6
    DEF Echo, EchoIsExpected, NothingElseIsExpected, Own
  <2>8. pendingEdits' \in Seq(Texts)
    <3>1. CASE Own = {}
      BY <2>6, <3>1, EmptySeq
    <3>2. ASSUME NEW i \in Own PROVE pendingEdits' \in Seq(Texts)
      <4>1. PICK text \in Texts : text = changes[i].text
        BY <1>2, ChangesAreTyped DEF Own
      <4>2. <<text>> \in Seq(Texts)
        OBVIOUS
      <4> QED
        BY <2>5, <4>1, <4>2
    <3> QED
      BY <3>1, <3>2
  <2>9. DocumentIsKnown(h)'
    BY <1>2, <1>3, <2>1, <2>8 DEF DocumentIsKnown
  <2> QED
    BY <1>1, <1>5, <2>2, <2>4, <2>7, <2>9 DEF EditorInv, Known, Echo
<1> QED
  BY <1>6, <1>7 DEF Editor!EditAnswered

-----------------------------------------------------------------------------
\* The history begins with the text the document is opened with.
LEMMA EditorBegins == Editor!Init => EditorInv
<1>1. SUFFICES ASSUME Editor!Init PROVE EditorInv
  OBVIOUS
<1> DEFINE h == <<FirstText>>
<1>2. /\ main = [text |-> FirstText, version |-> 1] /\ changes = <<>> /\ mirror = main
      /\ lastSeenVersion = 1 /\ pendingEdits = <<>> /\ reseedToken = 0
      /\ deliveryFailed = FALSE /\ editQueue = <<>> /\ applying = None
      /\ posts = [s \in Slots |-> None] /\ editor_toView = <<>>
      /\ data = [text |-> None, version |-> 0, token |-> 0]
      /\ draft = None /\ lastPostedText = None /\ timer = FALSE
      /\ isComposing = FALSE /\ reseedDuringComposition = FALSE
      /\ editor_toHost = <<Editor!Ready>>
  BY <1>1 DEF Editor!Init
<1>3. h \in Seq(Texts) /\ Len(h) = 1 /\ h[1] = FirstText /\ FirstText \in Texts
  BY EditorConstants
<1> HIDE DEF h
<1>4. main \in Versions(h) /\ main.version = Len(h)
  BY <1>2, <1>3 DEF Versions, Said
<1>5. \A S : <<>> \in Seq(S)
  BY EmptySeq
<1>6. DocumentIsKnown(h)
  BY <1>2, <1>3, <1>4, <1>5 DEF DocumentIsKnown
<1>7. SessionIsKnown(h)
  BY <1>2, <1>5 DEF SessionIsKnown
<1>8. WebviewIsKnown(h)
  <2>1. <<Editor!Ready>> \in Seq(Edits(h) \cup {Editor!Ready})
    OBVIOUS
  <2> QED
    BY <1>2, <2>1 DEF WebviewIsKnown
<1>9. Len(editor_toView) = 0 /\ Len(changes) = 0 /\ ~Editor!Sent
  BY <1>2 DEF Editor!Sent
<1>10. Delivery
  BY <1>2, <1>9 DEF Delivery, PostsFly, PostsAreInOrder, Editor!EveryTokenIsPublished
<1>11. Echo
  BY <1>2, <1>9 DEF Echo, MirrorIsBehind, EchoIsExpected, NothingElseIsExpected, Waiting, Own
<1>12. QueueWaits
  BY <1>2 DEF QueueWaits, Reseeds
<1> QED
  BY <1>3, <1>6, <1>7, <1>8, <1>10, <1>11, <1>12 DEF EditorInv, Known

\* Nothing changes when nothing happens.
LEMMA EditorRests == EditorInv /\ UNCHANGED Editor!vars => EditorInv'
<1>1. SUFFICES ASSUME EditorInv, UNCHANGED Editor!vars PROVE EditorInv'
  OBVIOUS
<1>2. PICK h \in Seq(Texts) : Known(h)
  BY <1>1 DEF EditorInv
<1>3. /\ UNCHANGED <<main, changes, mirror, lastSeenVersion, pendingEdits, applying>>
      /\ UNCHANGED <<reseedToken, deliveryFailed, editQueue, posts, editor_toView>>
      /\ UNCHANGED <<data, draft, lastPostedText, timer, isComposing, reseedDuringComposition,
                     editor_toHost>>
  BY <1>1 DEF Editor!vars, Editor!hostVars, Editor!draftVars
<1>4. Known(h)'
  BY <1>2, <1>3, DocumentStays, SessionStays, WebviewStays DEF Known
<1>5. Delivery' /\ Echo' /\ QueueWaits'
  BY <1>1, <1>3, PostsStay, EchoStays DEF EditorInv, QueueWaits, Reseeds
<1> QED
  BY <1>4, <1>5 DEF EditorInv

\* Every step of the editor keeps its invariant.
LEMMA EditorNext == EditorInv /\ [Editor!Next]_Editor!vars => EditorInv'
<1>1. SUFFICES ASSUME EditorInv, Editor!Next PROVE EditorInv'
  BY EditorRests
<1>2. CASE Editor!Session
  BY <1>1, <1>2, HandleMessageKeeps, MirrorSteps, ApplyEditKeeps, EditAnsweredKeeps
  DEF Editor!Session
<1>3. ASSUME NEW s \in Slots, Editor!Settle(s) PROVE EditorInv'
  BY <1>1, <1>3, SettleKeeps
<1>4. CASE Editor!MainApplies \/ Editor!MainThrows \/ Editor!ForeignWrite \/ Editor!Lose
  BY <1>1, <1>4, MainAppliesKeeps, MainThrowsKeeps, ForeignWriteKeeps, LoseKeeps
<1>5. CASE Editor!Webview
  BY <1>1, <1>5, ReceiveKeeps, ReaderSteps DEF Editor!Webview
<1> QED
  BY <1>1, <1>2, <1>3, <1>4, <1>5 DEF Editor!Next

\* The invariant says what the property says: what the document says is in its history.
LEMMA EditorIsRight == EditorInv => EditsLandWhereMeasured
<1>1. SUFFICES ASSUME EditorInv PROVE EditsLandWhereMeasured
  OBVIOUS
<1>2. PICK h \in Seq(Texts) : Known(h)
  BY <1>1 DEF EditorInv
<1>3. DocumentIsKnown(h) /\ SessionIsKnown(h) /\ WebviewIsKnown(h)
  BY <1>2 DEF Known
<1>4. Texts \subseteq Editor!Saying
  BY DEF Editor!Saying
<1>5. {main, mirror} \subseteq [text : Editor!Saying, version : Nat] /\ main.text \in Texts
  BY <1>3, <1>4 DEF DocumentIsKnown, Versions
<1>6. changes \in Seq(Editor!Change) /\ pendingEdits \in Seq(Editor!Saying)
  <2>1. Changes(h) \subseteq Editor!Change
    BY <1>4 DEF Changes, Editor!Change
  <2> QED
    BY <1>3, <1>4, <2>1, WiderSeq DEF DocumentIsKnown
<1>7. editQueue \in Seq(Editor!Edit) /\ editor_toHost \in Seq(Editor!Edit \cup {Editor!Ready})
  <2>1. /\ Edits(h) \subseteq Editor!Edit
        /\ Edits(h) \cup {Editor!Ready} \subseteq Editor!Edit \cup {Editor!Ready}
    BY <1>4 DEF Edits, Editor!Edit
  <2> QED
    BY <1>3, <2>1, WiderSeq DEF SessionIsKnown, WebviewIsKnown
<1>8. /\ applying \in {None, Editor!Reseeding} \cup Editor!Handed
      /\ posts \in [Slots -> Editor!Payload \cup {None}] /\ editor_toView \in Seq(Slots)
  <2>1. applying \in {None, Editor!Reseeding} \cup Editor!Handed
    BY <1>3, KnownPayloads DEF SessionIsKnown
  <2>2. Payloads(h) \cup {None} \subseteq Editor!Payload \cup {None}
    BY KnownPayloads
  <2>3. posts \in [Slots -> Editor!Payload \cup {None}]
    BY <1>3, <2>2 DEF SessionIsKnown
  <2> QED
    BY <1>3, <2>1, <2>3 DEF SessionIsKnown
<1>9. /\ data \in [text : Editor!Saying \cup {None}, version : Nat, token : Nat]
      /\ draft \in [text : Editor!Saying, source : Editor!Saying, version : Nat, token : Nat]
                    \cup {None}
      /\ lastPostedText \in Editor!Saying \cup {None}
  BY <1>3, <1>4 DEF WebviewIsKnown, Taken, Drafts
<1>10. /\ {lastSeenVersion, reseedToken} \subseteq Nat
       /\ {deliveryFailed, timer, isComposing, reseedDuringComposition} \subseteq BOOLEAN
  BY <1>3 DEF DocumentIsKnown, SessionIsKnown, WebviewIsKnown
<1>11. Editor!TypeOK
  BY <1>5, <1>6, <1>7, <1>8, <1>9, <1>10 DEF Editor!TypeOK
<1>12. Editor!EditsLandWhereMeasured
  BY <1>5, EditorConstants DEF Editor!EditsLandWhereMeasured
<1> QED
  BY <1>11, <1>12 DEF EditsLandWhereMeasured

\* Every edit of the diff is applied to the text that it was measured on.
THEOREM EditsAreMeasured ==
  Editor!Init /\ [][Editor!Next]_Editor!vars => []EditsLandWhereMeasured
<1>1. Editor!Init => EditorInv
  BY EditorBegins
<1>2. EditorInv /\ [Editor!Next]_Editor!vars => EditorInv'
  BY EditorNext
<1>3. EditorInv => EditsLandWhereMeasured
  BY EditorIsRight
<1> QED
  BY <1>1, <1>2, <1>3, PTL

\* Changes are taken by the mirror alone.
LEMMA OnlyTheMirrorTakes ==
  ASSUME EditorInv, Editor!Next, changes # <<>>, changes' = Tail(changes)
  PROVE  Editor!OnDidChangeTextDocument
<1>1. PICK h \in Seq(Texts) : Known(h)
  BY DEF EditorInv
<1>2. changes \in Seq(Changes(h)) /\ Len(changes) \in Nat
  BY <1>1, ChangesAreTyped DEF Known
<1>3. Len(changes') = Len(changes) - 1
  BY <1>2, HeadTailProperties
<1>4. changes' # changes
  <2>1. SUFFICES ASSUME changes' = changes PROVE FALSE
    OBVIOUS
  <2>2. Len(changes') = Len(changes)
    BY <2>1
  <2> QED
    BY <1>2, <1>3, <2>2
<1>5. ASSUME NEW e PROVE changes' # Append(changes, e)
  <2>1. SUFFICES ASSUME changes' = Append(changes, e) PROVE FALSE
    OBVIOUS
  <2>2. Len(changes') = Len(changes) + 1
    BY <1>2, <2>1
  <2> QED
    BY <1>2, <1>3, <2>2
<1>6. CASE Editor!Session
  BY <1>4, <1>6 DEF Editor!Session, Editor!HandleMessage, Editor!ApplyEdit, Editor!EditAnswered
<1>7. ASSUME NEW s \in Slots, Editor!Settle(s) PROVE FALSE
  BY <1>4, <1>7 DEF Editor!Settle
<1>8. CASE Editor!MainApplies \/ Editor!MainThrows \/ Editor!ForeignWrite \/ Editor!Lose
  BY <1>4, <1>5, <1>8
  DEF Editor!MainApplies, Editor!MainThrows, Editor!ForeignWrite, Editor!Lose, Editor!Write
<1>9. CASE Editor!Webview
  BY <1>4, <1>9
  DEF Editor!Webview, Editor!Receive, Editor!StartEditing, Editor!HandleDraftTextChange,
      Editor!DebouncedPost, Editor!CommitDraft, Editor!CompositionStart, Editor!CompositionEnd,
      Editor!RevertHunk, Editor!SetIgnoreMode, Editor!viewFrame
<1> QED
  BY <1>6, <1>7, <1>8, <1>9 DEF Editor!Next

\* The echo of the session's own edit never voids the draft, and what would void it is published.
THEOREM DraftsLive ==
  Editor!Init /\ [][Editor!Next]_Editor!vars => DraftIsNotStranded
<1> DEFINE Taking == (changes # <<>> /\ Head(changes).own /\ changes' = Tail(changes))
                       => reseedToken' = reseedToken
<1>1. Editor!Init => EditorInv
  BY EditorBegins
<1>2. EditorInv /\ [Editor!Next]_Editor!vars => EditorInv'
  BY EditorNext
<1>3. EditorInv => (part = "editor" => Editor!EveryTokenIsPublished)
  BY DEF EditorInv, Delivery
<1>4. EditorInv /\ [Editor!Next]_Editor!vars => [Taking]_Editor!vars
  <2>1. SUFFICES ASSUME EditorInv, Editor!Next, changes # <<>>, Head(changes).own,
                        changes' = Tail(changes)
                 PROVE  reseedToken' = reseedToken
    OBVIOUS
  <2>2. Editor!OnDidChangeTextDocument
    BY <2>1, OnlyTheMirrorTakes
  <2> QED
    BY <2>1, <2>2, MirrorSteps
<1> QED
  BY <1>1, <1>2, <1>3, <1>4, PTL DEF DraftIsNotStranded, Editor!OwnEchoKeepsDraft

-----------------------------------------------------------------------------
(* The views together. *)

\* A behaviour of the views is one of each of them.
LEMMA ViewsAreTheirParts ==
  FairSpec => /\ Graph!Spec /\ Panel!Spec /\ Detail!Spec /\ Switch!Spec
              /\ Editor!Init /\ [][Editor!Next]_Editor!vars
              /\ Draft!Init /\ [][Draft!Next]_Draft!vars
<1>1. Init => /\ Graph!Init /\ Panel!Init /\ Detail!Init /\ Switch!Init
              /\ Editor!Init /\ Draft!Init
  BY DEF Init
<1>2. [Next]_allVars => [Graph!Next]_Graph!vars
  BY DEF Next, Of, allVars, graphVars, Graph!vars
<1>3. [Next]_allVars => [Panel!Next]_Panel!vars
  BY DEF Next, Of, allVars, panelVars, Panel!vars
<1>4. [Next]_allVars => [Detail!Next]_Detail!vars
  BY DEF Next, Of, allVars, detailVars, Detail!vars
<1>5. [Next]_allVars => [Switch!Next]_Switch!vars
  BY DEF Next, Of, allVars, switchVars, Switch!vars
<1>6. [Next]_allVars => [Editor!Next]_Editor!vars
  BY DEF Next, Of, allVars, editorVars, Editor!vars, Editor!hostVars, Editor!draftVars
<1>7. [Next]_allVars => [Draft!Next]_Draft!vars
  BY DEF Next, Of, allVars, draftVars, Draft!vars, Draft!box, Draft!record, Draft!bridge
<1> QED
  BY <1>1, <1>2, <1>3, <1>4, <1>5, <1>6, <1>7, PTL
  DEF FairSpec, Graph!Spec, Panel!Spec, Detail!Spec, Switch!Spec

\* No view posts what is old: no page of a repository that is no longer selected, no refresh that
\* a later one overtook, and no pane that is what was posted last.
THEOREM OldIsDropped == Graph!Spec /\ Panel!Spec /\ Detail!Spec => NothingOldIsPosted
<1>1. Graph!Spec => Graph!PagesOfTheSelectedRepository
  <2>1. GraphInv /\ [Graph!Next]_Graph!vars =>
          [Len(graph_toView') > Len(graph_toView)
             /\ Graph!Last(graph_toView').type = "loadCommits" =>
               \A i \in 1..Len(Graph!Last(graph_toView').page) :
                 Graph!Last(graph_toView').page[i].repo = graph_root']_Graph!vars
    BY GraphPosts
  <2> QED
    BY <2>1, GraphInit, GraphNext, PTL DEF Graph!Spec, Graph!PagesOfTheSelectedRepository
<1>2. Panel!Spec => Panel!OvertakenAreDropped
  <2>1. PanelInv /\ [Panel!Next]_Panel!vars =>
          [\A r \in Repo, s \in Slots :
             Panel!Under(r, s, "refresh", "apply") /\ runtime'[r] # runtime[r]
               /\ jobs'[r][s] # jobs[r][s] =>
                 \A t \in Slots \ {s} : jobs[r][t] # None /\ jobs[r][t].kind = "refresh" =>
                                        ~jobs[r][t].current]_Panel!vars
    BY PanelDrops
  <2> QED
    BY <2>1, PanelInit, PanelNext, PTL DEF Panel!Spec, Panel!OvertakenAreDropped
<1>3. Detail!Spec => Detail!NothingIsPostedTwice
  <2>1. PaneInv /\ [Detail!Next]_Detail!vars =>
          [Len(detail_toView') > Len(detail_toView) /\ Detail!Last(detail_toView') # None =>
             Detail!Last(detail_toView')
               # (IF detail_toView = <<>> THEN shown ELSE Detail!Last(detail_toView))]_Detail!vars
    BY PaneNothingTwice
  <2> QED
    BY <2>1, PaneInit, PaneNext, PTL DEF Detail!Spec, Detail!NothingIsPostedTwice
<1> QED
  BY <1>1, <1>2, <1>3 DEF NothingOldIsPosted

\* What the views' run checks on small instances holds of the views, whatever their constants:
\* its invariants, and its properties but for those that something comes about.
THEOREM ViewsAreSafe ==
  FairSpec =>
    /\ [](ActiveRepositoryIsShown /\ GraphIsCurrent /\ PaneShowsTheSelection
          /\ EditsLandWhereMeasured)
    /\ NothingOldIsPosted /\ DraftIsNotStranded /\ NoMessageIsLost
BY ViewsAreTheirParts, CurrentGraph, SelectionIsShown, ActiveIsShown, EditsAreMeasured,
   OldIsDropped, DraftsLive, MessagesAreKept, PTL

=============================================================================
