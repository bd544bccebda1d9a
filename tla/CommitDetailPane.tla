--------------------------- MODULE CommitDetailPane ---------------------------
(***************************************************************************)
(* The pane of a selected commit: activation/repositoryViewEvents.ts,      *)
(* which loads the detail, the commit graph's provider                     *)
(* (views/CommitGraphViewProvider.ts), which posts it at once and again    *)
(* when it is decorated with icons, unless that would repeat what was last *)
(* posted (views/shared/postedPayload.ts), and the webview, whose document *)
(* is lost when it is hidden and asks again when it is shown.              *)
(*                                                                         *)
(* The detail of a commit is its repository and hash; the theme is what    *)
(* initIconThemeData last read.                                            *)
(***************************************************************************)
EXTENDS Naturals, Sequences, SequencesExt

CONSTANTS
  Repo,
  Hash,
  Load,      \* loads of a detail under way at a time
  None,
  MaxEvents  \* bound: selections, switches, filters, themes and views hidden

VARIABLES
  root,
  load,       \* the loads under way, with whether each is the latest asked for
  detail,     \* selectedCommitDetail
  icons,      \* whether folderIconsByName holds its icons
  decorating, \* what is being decorated for the latest commitDetailSeq
  theme,      \* the theme posted with a detail
  newTheme,   \* whether another one is active
  last,       \* lastPostedPayload
  readying,   \* whether a ready message is being handled
  document,   \* the webview's document: "hidden", "loaded" or "ready" once it has asked
  toView,     \* what is posted and not yet received
  shown,      \* the payload the document shows
  events

vars == <<root, load, detail, icons, decorating, theme, newTheme, last, readying, document,
          toView, shown, events>>

Detail == [repo : Repo, hash : Hash]
Payload == [detail : Detail, icons : BOOLEAN, theme : 0..1]

TypeOK ==
  /\ root \in Repo
  /\ load \in [Load -> [detail : Detail, current : BOOLEAN] \cup {None}]
  /\ \A l, m \in Load : load[l] # None /\ load[m] # None /\ load[l].current /\ load[m].current => l = m
  /\ detail \in Detail \cup {None} /\ icons \in BOOLEAN
  /\ decorating \in Detail \cup {None}
  /\ decorating # None => decorating = detail
  /\ theme \in 0..1 /\ newTheme \in BOOLEAN
  /\ last \in Payload \cup {None}
  /\ readying \in BOOLEAN /\ document \in {"hidden", "loaded", "ready"}
  /\ toView \in Seq(Payload \cup {None})
  /\ shown \in Payload \cup {None}

Init ==
  /\ root = CHOOSE r \in Repo : TRUE
  /\ load = [l \in Load |-> None]
  /\ detail = None /\ icons = FALSE /\ decorating = None
  /\ theme = 0 /\ newTheme = FALSE
  /\ last = None /\ readying = FALSE
  /\ document = "loaded" /\ toView = <<>> /\ shown = None
  /\ events = 0

Event == events < MaxEvents /\ events' = events + 1

-----------------------------------------------------------------------------
\* postToWebview: before a document asks it does not listen, and what it is sent is lost.
Send(m) == toView' = IF document = "ready" THEN Append(toView, m) ELSE toView

\* postCommitDetailState, when the last payload posted was was; None stands for a clearing.
PostState(was) ==
  IF detail' # None
  THEN LET payload == [detail |-> detail', icons |-> icons', theme |-> theme'] IN
       IF payload = was THEN UNCHANGED toView /\ last' = was
                        ELSE Send(payload) /\ last' = payload
  ELSE Send(None) /\ last' = None

Outdated == [l \in Load |-> IF load[l] = None THEN None ELSE [load[l] EXCEPT !.current = FALSE]]

\* loadCommitDetail up to its await.
Select(h) ==
  /\ Event
  /\ \E l \in Load :
       /\ load[l] = None
       /\ load' = [Outdated EXCEPT ![l] = [detail |-> [repo |-> root, hash |-> h], current |-> TRUE]]
  /\ UNCHANGED <<root, detail, icons, decorating, theme, newTheme, last, readying, document,
                 toView, shown>>

\* The detail arrives: the latest asked for is set, posted and decorated.
Loaded(l) ==
  /\ load[l] # None
  /\ load' = [load EXCEPT ![l] = None]
  /\ IF load[l].current
     THEN /\ detail' = load[l].detail /\ icons' = FALSE /\ decorating' = detail'
          /\ UNCHANGED theme /\ PostState(last)
     ELSE UNCHANGED <<detail, icons, decorating, theme, last, toView>>
  /\ UNCHANGED <<root, newTheme, readying, document, shown, events>>

\* getCommitDetail fails.
LoadFails(l) ==
  /\ load[l] # None /\ Event
  /\ load' = [load EXCEPT ![l] = None]
  /\ UNCHANGED <<root, detail, icons, decorating, theme, newTheme, last, readying, document,
                 toView, shown>>

\* decorateAndStoreCommitDetail: the theme is read first, and may name no icon for its folders.
Decorated ==
  /\ decorating # None
  /\ decorating' = None
  /\ newTheme' = FALSE /\ theme' = IF newTheme THEN 1 - theme ELSE theme
  /\ UNCHANGED detail /\ icons' \in BOOLEAN /\ PostState(last)
  /\ UNCHANGED <<root, load, readying, document, shown, events>>

\* clearCommitDetail
Clear ==
  /\ detail' = None /\ icons' = FALSE /\ decorating' = None
  /\ UNCHANGED theme /\ PostState(None)

\* A filter clears the selection, and what is still being loaded for it.
FilterBranch ==
  /\ Event
  /\ load' = Outdated /\ Clear
  /\ UNCHANGED <<root, newTheme, readying, document, shown>>

\* setActiveRepository: clearSelection, which knows nothing of the loads.
Switch(r) ==
  /\ Event
  /\ r # root /\ root' = r /\ Clear
  /\ UNCHANGED <<load, newTheme, readying, document, shown>>

\* Another icon theme becomes active, and refreshThemeData reads it.
ChangeTheme ==
  /\ Event
  /\ ~newTheme /\ newTheme' = TRUE
  /\ UNCHANGED <<root, load, detail, icons, decorating, theme, last, readying, document, toView,
                 shown>>

RefreshTheme ==
  /\ newTheme
  /\ newTheme' = FALSE /\ theme' = 1 - theme
  /\ UNCHANGED <<detail, icons>>
  /\ IF detail # None THEN decorating' = detail /\ UNCHANGED <<last, toView>>
                      ELSE UNCHANGED decorating /\ PostState(last)
  /\ UNCHANGED <<root, load, readying, document, shown, events>>

-----------------------------------------------------------------------------
\* The view is hidden, and its document gone with what it was sent.
Hide ==
  /\ Event
  /\ document # "hidden" /\ document' = "hidden"
  /\ toView' = <<>> /\ shown' = None
  /\ UNCHANGED <<root, load, detail, icons, decorating, theme, newTheme, last, readying>>

Show ==
  /\ document = "hidden" /\ document' = "loaded"
  /\ UNCHANGED <<root, load, detail, icons, decorating, theme, newTheme, last, readying, toView,
                 shown, events>>

\* Mutant: what was posted to the previous document is remembered.
ReadyRemembering ==
  /\ document = "loaded" /\ document' = "ready"
  /\ readying' = TRUE
  /\ UNCHANGED <<root, load, detail, icons, decorating, theme, newTheme, last, toView, shown, events>>

\* The ready message up to its first await.
Ready ==
  /\ document = "loaded" /\ document' = "ready"
  /\ readying' = TRUE /\ last' = None
  /\ UNCHANGED <<root, load, detail, icons, decorating, theme, newTheme, toView, shown, events>>

\* The theme and the log are read: the state is posted.
EndReady ==
  /\ readying /\ readying' = FALSE
  /\ newTheme' = FALSE /\ theme' = IF newTheme THEN 1 - theme ELSE theme
  /\ UNCHANGED <<detail, icons>> /\ PostState(last)
  /\ UNCHANGED <<root, load, decorating, document, shown, events>>

Receive ==
  /\ toView # <<>>
  /\ toView' = Tail(toView) /\ shown' = Head(toView)
  /\ UNCHANGED <<root, load, detail, icons, decorating, theme, newTheme, last, readying,
                 document, events>>

Next ==
  \/ \E h \in Hash : Select(h)
  \/ \E l \in Load : Loaded(l) \/ LoadFails(l)
  \/ Decorated \/ FilterBranch \/ \E r \in Repo : Switch(r)
  \/ ChangeTheme \/ RefreshTheme
  \/ Hide \/ Show \/ Ready \/ EndReady \/ Receive

Spec == Init /\ [][Next]_vars

-----------------------------------------------------------------------------
\* A document that has been answered shows the selected commit, with the icons and theme it
\* was last posted with, or comes to when its messages arrive: no post is dropped as a repeat
\* of what another document was sent (CommitGraphViewProvider.ts:285-305, 989-1013).
PaneShowsTheSelection ==
  document = "ready" /\ ~readying =>
    LET final == IF toView = <<>> THEN shown ELSE Last(toView) IN
    IF detail = None THEN final = None ELSE final # None /\ final = last /\ final.detail = detail

\* A document is never posted what it was posted last (postedPayload.ts:1-31).
NothingIsPostedTwice ==
  [][Len(toView') > Len(toView) /\ Last(toView') # None =>
       Last(toView') # (IF toView = <<>> THEN shown ELSE Last(toView))]_vars

\* What the documentation of setRepositoryRootUri says ("pending status, graph, or decoration
\* work from the previous root cannot overwrite the new repository's state").
DetailOfTheSelectedRepository == detail # None => detail.repo = root

=============================================================================
