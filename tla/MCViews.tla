------------------------------- MODULE MCViews -------------------------------
(* The selected repository and the views of it: the switch between repositories,  *)
(* the commit graph, its detail pane, the commit panel, an editable diff and the  *)
(* draft of a commit message.                                                     *)
(* They keep no state of each other, so TLC explores them side by side and not    *)
(* their product: `part` is the one a behaviour is of, and the others stay as     *)
(* they began.                                                                    *)
EXTENDS Naturals

CONSTANTS
  Repo, None, Garbled,
  Filters, Everything,  \* branch and text filters, and the one that lets everything pass
  LogLength,
  Loads,                \* loads under way at a time, of the graph, of the pane and of a switch
  Stashes, FirstStash,
  Slots,                \* refreshes of a row, and payloads of an editor, under way at a time
  Hashes,
  Texts, FirstText,     \* what an edited document may say
  Hosts,                \* the panels with a commit message
  Messages, NoMessage,
  GraphEvents, PanelEvents, DetailEvents, EditorEvents, DraftEvents, SwitchEvents \* bounds

VARIABLES
  part,
  graph_root, filter, offset, loadingMore, loaded, graph_load, graph_due, toHost, graph_toView,
  rows, hasMore, viewLoading, graph_events,
  git, active, expanded, panel_due, runtime, jobs, panel_view, panel_events,
  detail_root, detail_load, detail, icons, decorating, theme, newTheme, last, readying,
  document, detail_toView, shown, detail_events,
  main, changes, mirror, lastSeenVersion, pendingEdits, reseedToken, deliveryFailed, editQueue,
  applying, posts, editor_toView, data, draft, lastPostedText, timer, isComposing,
  reseedDuringComposition, editor_toHost, editor_events,
  native, open, broken, base, pending, stored, api, attached, visible, seen, clearing, overlapped,
  draft_events,
  known, switch_root, cache, switch_shown, switch_open, listed, switch_stored, switch_load, writes,
  action, failed, crossed, switch_events

graphVars == <<graph_root, filter, offset, loadingMore, loaded, graph_load, graph_due, toHost,
               graph_toView, rows, hasMore, viewLoading, graph_events>>
panelVars == <<git, active, expanded, panel_due, runtime, jobs, panel_view, panel_events>>
detailVars == <<detail_root, detail_load, detail, icons, decorating, theme, newTheme, last,
                readying, document, detail_toView, shown, detail_events>>
editorVars == <<main, changes, mirror, lastSeenVersion, pendingEdits, reseedToken, deliveryFailed,
                editQueue, applying, posts, editor_toView, data, draft, lastPostedText, timer,
                isComposing, reseedDuringComposition, editor_toHost, editor_events>>
draftVars == <<native, open, broken, base, pending, stored, api, attached, visible, seen, clearing,
               overlapped, draft_events>>
switchVars == <<known, switch_root, cache, switch_shown, switch_open, listed, switch_stored,
                switch_load, writes, action, failed, crossed, switch_events>>

Graph == INSTANCE CommitGraphPages WITH
  Filter <- Filters, All <- Everything, Load <- Loads, Depth <- LogLength,
  MaxEvents <- GraphEvents,
  root <- graph_root, load <- graph_load, due <- graph_due, toView <- graph_toView,
  events <- graph_events

Panel == INSTANCE CommitPanelRefresh WITH
  Stash <- Stashes, First <- FirstStash, Slot <- Slots, MaxEvents <- PanelEvents,
  due <- panel_due, view <- panel_view, events <- panel_events

Detail == INSTANCE CommitDetailPane WITH
  Hash <- Hashes, Load <- Loads, MaxEvents <- DetailEvents,
  root <- detail_root, load <- detail_load, toView <- detail_toView, events <- detail_events

Editor == INSTANCE EditableDiffEditor WITH
  Text <- Texts, First <- FirstText, Slot <- Slots, MaxEvents <- EditorEvents,
  toView <- editor_toView, toHost <- editor_toHost, events <- editor_events

Draft == INSTANCE NativeCommitInputBridge WITH
  Host <- Hosts, Text <- Messages, Empty <- NoMessage, MaxEvents <- DraftEvents,
  events <- draft_events

Switch == INSTANCE RepositorySwitch WITH
  Load <- Loads, MaxEvents <- SwitchEvents,
  root <- switch_root, shown <- switch_shown, open <- switch_open, stored <- switch_stored,
  load <- switch_load, events <- switch_events

\* Nothing that is counted on is missing, and None and Garbled are told apart from what they
\* stand beside.
ASSUME ViewsAssumption ==
  /\ Repo # {} /\ Loads # {} /\ Slots # {}
  /\ Everything \in Filters /\ "loadMore" \notin Filters /\ FirstStash \in Stashes
  /\ FirstText \in Texts /\ NoMessage \in Messages
  /\ {LogLength, GraphEvents, PanelEvents, DetailEvents, EditorEvents, DraftEvents,
      SwitchEvents} \subseteq Nat
  /\ None \notin Repo \cup Stashes \cup Texts \cup Messages \cup {Garbled}
  /\ None \notin Graph!LoadRecord \cup Panel!Job \cup Switch!LoadRecord
  /\ None \notin Detail!Detail \cup Detail!Payload
  /\ None \notin [detail : Detail!Detail, current : BOOLEAN]
  /\ None \notin Editor!Payload \cup Editor!Handed \cup {Editor!Reseeding}
  /\ Garbled \notin Texts

Init ==
  /\ part \in {"graph", "panel", "detail", "editor", "draft", "switch"}
  /\ Graph!Init /\ Panel!Init /\ Detail!Init /\ Editor!Init /\ Draft!Init /\ Switch!Init
  /\ part # "draft" => native = NoMessage /\ stored = NoMessage /\ open

Of(view) == part = view /\ UNCHANGED part

Next ==
  \/ Of("graph") /\ Graph!Next
     /\ UNCHANGED <<panelVars, detailVars, editorVars, draftVars, switchVars>>
  \/ Of("panel") /\ Panel!Next
     /\ UNCHANGED <<graphVars, detailVars, editorVars, draftVars, switchVars>>
  \/ Of("detail") /\ Detail!Next
     /\ UNCHANGED <<graphVars, panelVars, editorVars, draftVars, switchVars>>
  \/ Of("editor") /\ Editor!Next
     /\ UNCHANGED <<graphVars, panelVars, detailVars, draftVars, switchVars>>
  \/ Of("draft") /\ Draft!Next
     /\ UNCHANGED <<graphVars, panelVars, detailVars, editorVars, switchVars>>
  \/ Of("switch") /\ Switch!Next
     /\ UNCHANGED <<graphVars, panelVars, detailVars, editorVars, draftVars>>

\* The fairness each part states.  A behaviour is of one part throughout, so one condition
\* stands for one of each.
allVars == <<part, graphVars, panelVars, detailVars, editorVars, draftVars, switchVars>>
Progress ==
  \/ Of("graph") /\ Graph!Progress
     /\ UNCHANGED <<panelVars, detailVars, editorVars, draftVars, switchVars>>
  \/ Of("panel") /\ Panel!Poll
     /\ UNCHANGED <<graphVars, detailVars, editorVars, draftVars, switchVars>>
  \/ Of("editor") /\ Editor!Progress
     /\ UNCHANGED <<graphVars, panelVars, detailVars, draftVars, switchVars>>
  \/ Of("draft") /\ Draft!Progress
     /\ UNCHANGED <<graphVars, panelVars, detailVars, editorVars, switchVars>>
  \/ Of("switch") /\ Switch!Progress
     /\ UNCHANGED <<graphVars, panelVars, detailVars, editorVars, draftVars>>

FairSpec ==
  /\ Init /\ [][Next]_allVars
  /\ WF_allVars(Progress)
  /\ \A r \in Repo :
       /\ WF_panelVars(Of("panel") /\ Panel!Fire(r))
       /\ \A s \in Slots : WF_panelVars(Of("panel") /\ Panel!Advance(r, s))

-----------------------------------------------------------------------------
\* No switch, failure or superseded read leaves a graph that never pages again, and badges are
\* asked for commits of the selected repository alone (CommitGraphViewProvider.ts:477-486, 575,
\* 669-671, 829-866).
GraphIsCurrent ==
  Graph!TypeOK /\ Graph!GuardIsBacked /\ Graph!ScopeIsOfTheSelectedRepository

\* A switch that is still current has read where it switched to.  However switches by command and
\* by editor and refreshes overtake each other, once no switch is being loaded the docked views
\* show the active repository and its selection is the one that is stored
\* (repositoryMode.ts:481-628; UndockedViewProvider.ts:500-553).
ActiveRepositoryIsShown ==
  /\ Switch!TypeOK /\ Switch!CurrentReadsAreOfItsRoot
  /\ Switch!ActiveIsShown /\ Switch!ActiveIsStored

\* A pane that has been answered comes to show the selected commit in its theme: no post is
\* dropped as a repeat of what another document was sent (CommitGraphViewProvider.ts:285-305,
\* 989-1013).
PaneShowsTheSelection == /\ Detail!TypeOK /\ Detail!PaneShowsTheSelection

\* No page of a repository that is no longer selected is sent, a refresh that a later one overtook
\* is dropped, and a pane is never posted what it was posted last
\* (CommitGraphViewProvider.ts:477-486, 601, 647; CommitPanelViewProvider.ts:1368, 1429;
\* postedPayload.ts:1-31).
NothingOldIsPosted ==
  /\ Graph!PagesOfTheSelectedRepository
  /\ Panel!OvertakenAreDropped /\ Detail!NothingIsPostedTwice

\* Whatever is overtaken, fails or is answered with old files, a row that stays in sight comes to
\* show its working tree (RefreshService.ts:185-198; CommitPanelViewProvider.ts:806-832).
LatestIsShown == [](part = "panel" => Panel!TypeOK) /\ (part = "panel" => Panel!LatestIsShown)

\* An edit of the diff changes the text it was measured on and no other: whatever is written,
\* answered, echoed, voided or composed meanwhile, offsets are never applied to a text they do not
\* fit (EditableDiffEditorProvider.ts:445-526; editableDraftSession.ts:621-692).
EditsLandWhereMeasured == Editor!TypeOK /\ Editor!EditsLandWhereMeasured

\* The reader's draft of the diff lives on: the echo of the session's own edit never voids it, and
\* while its edits are dropped for an old token a payload with the new one is on its way, or the
\* failure to deliver it is remembered (EditableDiffEditorProvider.ts:191-212, 252-350, 445-476,
\* 563-586).
DraftIsNotStranded == Editor!OwnEchoKeepsDraft /\ [](part = "editor" => Editor!EveryTokenIsPublished)

\* What the box and the panels agreed on is what is stored, and no tick of a bridge writes over
\* what was typed into the box since (nativeCommitInputBridge.ts:152-204, 242-270;
\* CommitPanelViewProvider.ts:966-981, 1912-1921).
NoMessageIsLost == Draft!NativeTextIsKept /\ [](part = "draft" => Draft!AgreedIsStored)

\* Neither the graph, waiting for a page, nor a row with a spinner waits for ever; the edits of a
\* diff never stall, a visible panel comes to be told what the box says, and every switch of
\* repositories is loaded and stored
\* (useCommitGraphMessages.ts:67, 158; CommitPanelViewProvider.ts:1453-1462;
\* EditableDiffEditorProvider.ts:418-442; nativeCommitInputBridge.ts:119-144, 206-229;
\* repositoryMode.ts:481-553).
EveryWaitEnds ==
  \A r \in Repo :
    []<>(~viewLoading /\ Panel!Still(r) /\ Editor!NoEditIsLeft /\ Draft!PanelsAreToldAll
         /\ (part = "switch" => Switch!Settled))

=============================================================================
