--------------------------- MODULE NativeCommitInputBridge ---------------------------
(* The commit message of one repository: it is typed into VS Code's own input box, or   *)
(* into the composer of the commit panel or of the undocked panel, and stored as a      *)
(* draft.  Each panel has a bridge (views/nativeCommitInputBridge.ts), which polls the  *)
(* box while its panel is visible; the bridges share one record of what was last agreed *)
(* (`base`) and of whether the panels wrote what the box has not taken (`pending`).     *)
(*                                                                                      *)
(* Left out: the webviews, the spelling of a root, the logs, and other repositories.    *)
EXTENDS Naturals, Sequences

CONSTANTS
  Host, None,      \* the panels, each with its bridge; a text nobody has set
  Text, Empty,     \* what may be typed, the empty text among it
  MaxEvents        \* bound: what is typed, committed, opened, shown and broken

VARIABLES
  native, open, broken,   \* VS Code's box: its text, whether it is there, whether it refuses writes
  base, pending,          \* the shared record
  stored,                 \* the stored draft
  api, attached, visible, seen,   \* of each bridge
  clearing,               \* of each panel: a commit's draft is cleared, its box not yet
  overlapped,             \* a text came, or its panel went, while a commit was being cleared
  events

box == <<native, open, broken>>
record == <<base, pending>>
bridge == <<api, attached, visible>>
vars == <<box, record, stored, bridge, seen, clearing, overlapped, events>>

Init ==
  /\ native \in Text /\ open \in BOOLEAN /\ broken = FALSE
  /\ base = None /\ pending = FALSE /\ stored \in Text
  /\ api = [p \in Host |-> FALSE] /\ attached = [p \in Host |-> TRUE]
  /\ visible = [p \in Host |-> FALSE] /\ seen = [p \in Host |-> None]
  /\ clearing = [p \in Host |-> FALSE] /\ overlapped = FALSE /\ events = 0

Event == events < MaxEvents /\ events' = events + 1

\* A text is stored; ghost: it may come before the end of a commit.
Store(text) ==
  /\ stored' = text
  /\ overlapped' = (overlapped \/ \E p \in Host : clearing[p])

-----------------------------------------------------------------------------
(* The bridge. *)

Reaches(p) == attached[p] /\ api[p] /\ open

\* Mutant: what waits is pushed before it is seen that the box was typed into.
ReconcilePendingFirst ==
  IF pending \/ (base = None /\ native = Empty) THEN "push"
  ELSE IF native # base THEN "adopt" ELSE "nothing"

\* What a tick does with the box: on first contact an empty box, or any while a panel waits,
\* yields to the draft; from then on a box that differs from what was agreed on wins.
Reconcile ==
  IF base # None /\ native # base THEN "adopt"
  ELSE IF pending \/ (base = None /\ native = Empty) THEN "push"
  ELSE IF base = None THEN "adopt" ELSE "nothing"

\* The stored draft is written to the box and agreed on.
Push == native' = stored /\ base' = stored /\ pending' = FALSE /\ UNCHANGED <<stored, overlapped>>

\* What is in the box is agreed on and stored.
Adopt == base' = native /\ pending' = FALSE /\ Store(native) /\ UNCHANGED native

\* A box that refuses the write ends the tick; a panel is told what was agreed on if it does not
\* know it.
TickRoot(p) ==
  IF Reconcile = "push" /\ broken /\ native # stored
  THEN UNCHANGED <<native, record, stored, overlapped, seen>>
  ELSE /\ CASE Reconcile = "push" -> Push
            [] Reconcile = "adopt" -> Adopt
            [] OTHER -> UNCHANGED <<native, record, stored, overlapped>>
       /\ seen' = [seen EXCEPT ![p] = base']

Tick(p) ==
  /\ visible[p] /\ Reaches(p) /\ TickRoot(p)
  /\ UNCHANGED <<open, broken, bridge, clearing, events>>

\* A panel's text goes to the box at once, or is left for a tick to push from the draft.
SetFromPanel(p, text) ==
  /\ seen' = [seen EXCEPT ![p] = text]
  /\ IF ~api[p] \/ ~open \/ base = None \/ (broken /\ native # text)
     THEN pending' = TRUE /\ UNCHANGED <<native, base>>
     ELSE native' = text /\ base' = text /\ pending' = FALSE

ResolveApi(p) ==
  /\ ~api[p] /\ api' = [api EXCEPT ![p] = TRUE]
  /\ UNCHANGED <<box, record, stored, attached, visible, seen, clearing, overlapped, events>>

\* A panel drops the repository, with what its bridge told it; or takes it up again.
Attach(p) ==
  /\ Event /\ attached' = [attached EXCEPT ![p] = ~@]
  /\ seen' = [seen EXCEPT ![p] = None]
  /\ overlapped' = (overlapped \/ clearing[p])
  /\ UNCHANGED <<box, record, stored, api, visible, clearing>>

\* A panel is closed, and a late answer of its bridge is dropped; the next one has a new bridge.
Dispose(p) ==
  /\ Event
  /\ api' = [api EXCEPT ![p] = FALSE] /\ attached' = [attached EXCEPT ![p] = FALSE]
  /\ visible' = [visible EXCEPT ![p] = FALSE] /\ seen' = [seen EXCEPT ![p] = None]
  /\ overlapped' = (overlapped \/ clearing[p])
  /\ UNCHANGED <<box, record, stored, clearing>>

\* Hiding stops the polling; showing ticks at once.
SetVisible(p) ==
  /\ Event /\ visible' = [visible EXCEPT ![p] = ~@]
  /\ IF ~visible[p] /\ Reaches(p) THEN TickRoot(p)
     ELSE UNCHANGED <<native, record, stored, overlapped, seen>>
  /\ UNCHANGED <<open, broken, api, attached, clearing>>

-----------------------------------------------------------------------------
(* The panels and VS Code. *)

\* A text of the composer, or the last commit's message, goes to the box and then to the store.
SaveCommitDraft(p) ==
  /\ Event /\ attached[p]
  /\ \E text \in Text : SetFromPanel(p, text) /\ Store(text)
  /\ UNCHANGED <<open, broken, bridge, clearing>>

\* A commit clears the draft, and when that is stored the box, if the panel still has it.
Committed(p) ==
  /\ Event /\ attached[p] /\ ~clearing[p]
  /\ clearing' = [clearing EXCEPT ![p] = TRUE] /\ stored' = Empty
  /\ UNCHANGED <<box, record, bridge, seen, overlapped>>

PostCommitted(p) ==
  /\ clearing[p] /\ clearing' = [clearing EXCEPT ![p] = FALSE]
  /\ IF attached[p] THEN SetFromPanel(p, Empty) ELSE UNCHANGED <<native, record, seen>>
  /\ UNCHANGED <<open, broken, stored, bridge, overlapped, events>>

\* The box is typed into, comes and goes with its repository, breaks or mends.
NativeBox ==
  /\ Event
  /\ \/ open /\ native' \in Text \ {native} /\ UNCHANGED <<open, broken>>
     \/ open' = ~open /\ native' \in {native, Empty} /\ UNCHANGED broken
     \/ broken' = ~broken /\ UNCHANGED <<native, open>>
  /\ UNCHANGED <<record, stored, bridge, seen, clearing, overlapped>>

-----------------------------------------------------------------------------
Next ==
  \/ NativeBox
  \/ \E p \in Host :
       \/ Tick(p) \/ ResolveApi(p) \/ Attach(p) \/ Dispose(p) \/ SetVisible(p)
       \/ SaveCommitDraft(p) \/ Committed(p) \/ PostCommitted(p)

\* A visible panel polls, and updates of the store settle; a poll that finds nothing new is no
\* step, so it is enough that some step is taken while one can be.
Progress == \E p \in Host : Tick(p) \/ PostCommitted(p)
FairSpec == Init /\ [][Next]_vars /\ WF_vars(Progress)

-----------------------------------------------------------------------------
\* What is agreed on and not waiting is what is stored, whichever bridge wrote or adopted it and
\* however often the box was away or refused a write: so a reload never restores another text.
\* Only what comes while a commit is being cleared is stored and not agreed on
\* (nativeCommitInputBridge.ts:152-204, 242-270; CommitPanelViewProvider.ts:966-981, 1912-1921;
\* UndockedViewProvider.ts:955-967, 1188-1200).
AgreedIsStored ==
  base # None /\ ~pending /\ (\A p \in Host : ~clearing[p]) => stored = base \/ overlapped

\* A tick never writes over what was typed into the box since it was last agreed on, whichever
\* bridge ticks and whatever waits in the other (nativeCommitInputBridge.ts:152-204).
NativeTextIsKept ==
  [][native' # native /\ base # None /\ native # base
       => NativeBox \/ \E p \in Host : SaveCommitDraft(p) \/ PostCommitted(p)]_vars

\* A visible panel that reaches the box comes to be told what is in it, and nothing waits for it
\* any more: this comes true again and again (nativeCommitInputBridge.ts:119-144, 206-229).
PanelsAreToldAll ==
  \A p \in Host : visible[p] /\ Reaches(p) /\ ~broken
                   => base = native /\ seen[p] = base /\ ~pending

=============================================================================
