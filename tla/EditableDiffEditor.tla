---------------------------- MODULE EditableDiffEditor ----------------------------
(* One editable diff (views/EditableDiffEditorProvider.ts and                       *)
(* webviews/react/diff-viewer): a text document VS Code's main process owns, the    *)
(* extension's mirror of it, the session that renders the mirror to a webview, and  *)
(* the draft the reader types there.  An edit travels as a delta measured against   *)
(* the text, version and reseed token of the payload its draft was made from; the   *)
(* session tells the echo of its own edits from a foreign write by `pendingEdits`.  *)
(*                                                                                  *)
(* The whole document is the one editable block, and a text is a member of Text.    *)
(* Left out: line endings, segments and caret, saving, and the panel's disposal.    *)
EXTENDS Naturals, Sequences

CONSTANTS
  Text, First,     \* what the document may say, and what it says when it is opened
  Garbled,         \* what a delta makes of a text it was not measured on
  Slot, None,      \* payloads posted whose fate the session does not know yet
  MaxEvents        \* bound: writes of others, faults, and what the reader opens, types or clicks

VARIABLES
  main,            \* the document, in VS Code's main process
  changes,         \* change events on their way to the extension
  mirror, lastSeenVersion, pendingEdits, reseedToken, deliveryFailed,
  editQueue,       \* deltas received and not finished: the head is the one in hand
  applying,        \* what has become of the head
  posts,           \* payloads posted
  toView,          \* those still on their way to the webview, in order
  data,            \* the last payload the webview took
  draft, lastPostedText, timer, isComposing, reseedDuringComposition,
  toHost,          \* messages for the session, in order
  events           \* what the environment has done, up to MaxEvents

hostVars == <<mirror, lastSeenVersion, pendingEdits, reseedToken>>
draftVars == <<draft, lastPostedText, timer, isComposing, reseedDuringComposition>>
vars == <<main, changes, hostVars, deliveryFailed, editQueue, applying, posts, toView, data,
          draftVars, toHost, events>>

\* The head of the queue is in hand: VS Code has it, or the payload that voids its draft is out.
Sending(expected, version) == [expected |-> expected, version |-> version, answer |-> "none"]
Reseeding == [answer |-> "reseed"]

Delta(from, to, version, token) ==
  [type |-> "editText", from |-> from, to |-> to, version |-> version, token |-> token]
Ready == [type |-> "ready"]

Saying == Text \cup {Garbled}
Change == [text : Saying, version : Nat, own : BOOLEAN]
Edit == [type : {"editText"}, from : Saying, to : Saying, version : Nat, token : Nat]
Handed == [expected : Saying, version : Nat, answer : {"none", "applied", "rejected", "threw"}]
Payload == [text : Saying, version : Nat, token : Nat, reseed : BOOLEAN,
            fate : {"sent", "delivered", "dropped", "threw"}]

TypeOK ==
  /\ {main, mirror} \subseteq [text : Saying, version : Nat] /\ changes \in Seq(Change)
  /\ {lastSeenVersion, reseedToken} \subseteq Nat /\ pendingEdits \in Seq(Saying)
  /\ editQueue \in Seq(Edit) /\ toHost \in Seq(Edit \cup {Ready})
  /\ applying \in {None, Reseeding} \cup Handed
  /\ posts \in [Slot -> Payload \cup {None}] /\ toView \in Seq(Slot)
  /\ data \in [text : Saying \cup {None}, version : Nat, token : Nat]
  /\ draft \in [text : Saying, source : Saying, version : Nat, token : Nat] \cup {None}
  /\ lastPostedText \in Saying \cup {None}
  /\ {deliveryFailed, timer, isComposing, reseedDuringComposition} \subseteq BOOLEAN

\* A delta is offsets and a text: what it makes of another text is anybody's guess.
Result(delta, text) == IF text = delta.from THEN delta.to ELSE Garbled

Init ==
  /\ main = [text |-> First, version |-> 1] /\ changes = <<>>
  /\ mirror = main /\ lastSeenVersion = 1 /\ pendingEdits = <<>> /\ reseedToken = 0
  /\ deliveryFailed = FALSE /\ editQueue = <<>> /\ applying = None
  /\ posts = [s \in Slot |-> None] /\ toView = <<>>
  /\ data = [text |-> None, version |-> 0, token |-> 0]
  /\ draft = None /\ lastPostedText = None /\ timer = FALSE
  /\ isComposing = FALSE /\ reseedDuringComposition = FALSE
  /\ toHost = <<Ready>> /\ events = 0

Event == events < MaxEvents /\ events' = events + 1

-----------------------------------------------------------------------------
(* The session. *)

\* The mirror is posted under the session's token, as they are after this step.
Render(reseed) == \E s \in Slot :
  /\ posts[s] = None
  /\ posts' = [posts EXCEPT ![s] =
       [text |-> mirror'.text, version |-> mirror'.version, token |-> reseedToken',
        reseed |-> reseed, fate |-> "sent"]]
  /\ toView' = Append(toView, s)

\* The token is minted and posted; the queue waits for the fate of the payload.
Reseed ==
  /\ reseedToken' = reseedToken + 1 /\ UNCHANGED <<mirror, lastSeenVersion>>
  /\ Render(TRUE) /\ applying' = Reseeding

\* Mutant: a delivery of an older token counts as the current one's.
AfterUnguarded(post) == post.fate # "delivered"

\* What the session makes of a fate: a delivery tells nothing once the token has moved on.
After(post) ==
  IF post.fate = "threw" THEN TRUE
  ELSE IF post.token # reseedToken THEN deliveryFailed ELSE post.fate = "dropped"

\* The end of a render.  A reseed whose payload failed is posted once more.
Settle(s) ==
  /\ posts[s] # None /\ posts[s].fate # "sent"
  /\ deliveryFailed' = After(posts[s])
  /\ IF posts[s].reseed
     THEN editQueue' = Tail(editQueue) /\ applying' = None
     ELSE UNCHANGED <<editQueue, applying>>
  /\ IF posts[s].reseed /\ deliveryFailed'
     THEN /\ posts' = [posts EXCEPT ![s] =
               [text |-> mirror.text, version |-> mirror.version, token |-> reseedToken,
                reseed |-> FALSE, fate |-> "sent"]]
          /\ toView' = Append(toView, s)
     ELSE posts' = [posts EXCEPT ![s] = None] /\ UNCHANGED toView
  /\ UNCHANGED <<main, changes, hostVars, data, draftVars, toHost, events>>

\* A flip of the dirty flag is an event like any other, and keeps the version.
Moves(event) == event.version # lastSeenVersion

\* The document changed.  The head of pendingEdits is the session's own edit coming back;
\* anything else voids the draft.
OnDidChangeTextDocument ==
  /\ changes # <<>>
  /\ changes' = Tail(changes)
  /\ LET event == Head(changes) IN
     /\ mirror' = [text |-> event.text, version |-> event.version]
     /\ \/ /\ ~Moves(event)
           /\ UNCHANGED <<lastSeenVersion, pendingEdits, reseedToken, posts, toView>>
        \/ /\ Moves(event)
           /\ lastSeenVersion' = event.version
           /\ IF pendingEdits # <<>> /\ Head(pendingEdits) = event.text
              THEN pendingEdits' = Tail(pendingEdits) /\ UNCHANGED reseedToken
              ELSE pendingEdits' = <<>> /\ reseedToken' = reseedToken + 1
           /\ Render(FALSE)
  /\ UNCHANGED <<main, deliveryFailed, editQueue, applying, data, draftVars, toHost, events>>

\* `ready`, and a change of the whitespace mode or of the immutable side, render; an edit queues.
HandleMessage ==
  /\ toHost # <<>>
  /\ toHost' = Tail(toHost) /\ UNCHANGED hostVars
  /\ IF Head(toHost) = Ready
     THEN Render(FALSE) /\ UNCHANGED editQueue
     ELSE editQueue' = Append(editQueue, Head(toHost)) /\ UNCHANGED <<posts, toView>>
  /\ UNCHANGED <<main, changes, deliveryFailed, applying, data, draftVars, events>>

\* Mutant: the version an edit was measured on is not looked at.
AnyMeasured(delta) == TRUE

\* Offsets fit one version of the document alone.
Measured(delta) == delta.version = mirror.version

\* The head of the queue: dropped when its draft is void (and what failed to say so is posted
\* again), refused when the document moved on, and else sent to VS Code.
ApplyEdit ==
  /\ applying = None /\ editQueue # <<>>
  /\ LET delta == Head(editQueue) IN
     \/ /\ delta.token # reseedToken
        /\ editQueue' = Tail(editQueue) /\ UNCHANGED <<hostVars, applying>>
        /\ IF deliveryFailed THEN Render(FALSE) ELSE UNCHANGED <<posts, toView>>
     \/ /\ delta.token = reseedToken /\ ~Measured(delta)
        /\ Reseed /\ UNCHANGED <<pendingEdits, editQueue>>
     \/ /\ delta.token = reseedToken /\ Measured(delta)
        /\ LET expected == Result(delta, mirror.text) IN
           /\ pendingEdits' = Append(pendingEdits, expected)
           /\ applying' = Sending(expected, mirror.version)
        /\ UNCHANGED <<mirror, lastSeenVersion, reseedToken, editQueue, posts, toView>>
  /\ UNCHANGED <<main, changes, deliveryFailed, data, draftVars, toHost, events>>

Sent == applying # None /\ applying # Reseeding

\* pendingEdits without the last expectation of this text.
DropPendingEdit(expected) ==
  LET at == {i \in DOMAIN pendingEdits : pendingEdits[i] = expected}
      last == CHOOSE i \in at : \A j \in at : j <= i
  IN IF at = {} THEN pendingEdits
     ELSE SubSeq(pendingEdits, 1, last - 1) \o SubSeq(pendingEdits, last + 1, Len(pendingEdits))

\* The answer reaches the session, before or after the change event of the same edit.  An edit
\* that was refused and one that threw both end in a reseed.
EditAnswered ==
  /\ Sent
  /\ \/ /\ applying.answer = "applied"
        /\ editQueue' = Tail(editQueue) /\ applying' = None
        /\ UNCHANGED <<hostVars, posts, toView>>
     \/ /\ applying.answer \in {"rejected", "threw"}
        /\ pendingEdits' = DropPendingEdit(applying.expected)
        /\ Reseed /\ UNCHANGED editQueue
  /\ UNCHANGED <<main, changes, deliveryFailed, data, draftVars, toHost, events>>

-----------------------------------------------------------------------------
(* VS Code: the document, and the channel to the webview. *)

Write(text, own) ==
  /\ main' = [text |-> text, version |-> main.version + 1]
  /\ changes' = Append(changes, [text |-> text, version |-> main.version + 1, own |-> own])

\* An edit is refused when the document is no longer at the version it was made for.
MainApplies ==
  /\ Sent /\ applying.answer = "none"
  /\ IF applying.version = main.version
     THEN Write(applying.expected, TRUE) /\ applying' = [applying EXCEPT !.answer = "applied"]
     ELSE applying' = [applying EXCEPT !.answer = "rejected"] /\ UNCHANGED <<main, changes>>
  /\ UNCHANGED <<hostVars, deliveryFailed, editQueue, posts, toView, data, draftVars, toHost, events>>

MainThrows ==
  /\ Event /\ Sent /\ applying.answer = "none"
  /\ applying' = [applying EXCEPT !.answer = "threw"]
  /\ UNCHANGED <<main, changes, hostVars, deliveryFailed, editQueue, posts, toView, data,
                 draftVars, toHost>>

\* Somebody else writes the document, or its dirty flag flips.
ForeignWrite ==
  /\ Event
  /\ \/ \E text \in Text \ {main.text} : Write(text, FALSE)
     \/ /\ changes' = Append(changes, [text |-> main.text, version |-> main.version, own |-> FALSE])
        /\ UNCHANGED main
  /\ UNCHANGED <<hostVars, deliveryFailed, editQueue, applying, posts, toView, data, draftVars,
                 toHost>>

\* A payload is reported undelivered, or was refused (or never built).
Lose ==
  /\ Event
  /\ \E i \in DOMAIN toView, fate \in {"dropped", "threw"} :
       /\ toView' = SubSeq(toView, 1, i - 1) \o SubSeq(toView, i + 1, Len(toView))
       /\ posts' = [posts EXCEPT ![toView[i]].fate = fate]
  /\ UNCHANGED <<main, changes, hostVars, deliveryFailed, editQueue, applying, data, draftVars,
                 toHost>>

-----------------------------------------------------------------------------
(* The webview. *)

ClearDraft == draft' = None /\ timer' = FALSE

\* A new token voids the draft, or is left to the end of the composition; a new version under the
\* same token is the echo the draft is measured on from now on.
Reanchor(d, text, version) == [d EXCEPT !.version = version, !.source = text]

Receive ==
  /\ toView # <<>>
  /\ toView' = Tail(toView)
  /\ LET post == posts[Head(toView)] IN
     /\ posts' = [posts EXCEPT ![Head(toView)].fate = "delivered"]
     /\ data' = [text |-> post.text, version |-> post.version, token |-> post.token]
     /\ IF post.token # data.token
        THEN IF isComposing
             THEN reseedDuringComposition' = TRUE /\ UNCHANGED <<draft, timer>>
             ELSE ClearDraft /\ UNCHANGED reseedDuringComposition
        ELSE /\ draft' = IF draft = None \/ draft.token # post.token THEN draft
                         ELSE Reanchor(draft, post.text, post.version)
             /\ UNCHANGED <<timer, reseedDuringComposition>>
     /\ UNCHANGED <<lastPostedText, isComposing>>
  /\ UNCHANGED <<main, changes, hostVars, deliveryFailed, editQueue, applying, toHost, events>>

viewFrame == UNCHANGED <<main, changes, hostVars, deliveryFailed, editQueue, applying, posts,
                         toView, data>>

StartEditing ==
  /\ Event /\ draft = None /\ data.text # None
  /\ draft' = [text |-> data.text, source |-> data.text, version |-> data.version,
               token |-> data.token]
  /\ lastPostedText' = None
  /\ UNCHANGED <<timer, isComposing, reseedDuringComposition, toHost>> /\ viewFrame

HandleDraftTextChange ==
  /\ Event /\ draft # None
  /\ \E text \in Text \ {draft.text} : draft' = [draft EXCEPT !.text = text]
  /\ timer' = TRUE
  /\ UNCHANGED <<lastPostedText, isComposing, reseedDuringComposition, toHost>> /\ viewFrame

\* What is typed is posted when it differs from what the draft was measured on.
PostDraft ==
  IF draft.text = draft.source THEN UNCHANGED <<lastPostedText, toHost>>
  ELSE /\ lastPostedText' = draft.text
       /\ toHost' = Append(toHost, Delta(draft.source, draft.text, draft.version, draft.token))

DebouncedPost ==
  /\ timer /\ timer' = FALSE
  /\ IF draft # None /\ ~isComposing /\ draft.token = data.token
     THEN PostDraft ELSE UNCHANGED <<lastPostedText, toHost>>
  /\ UNCHANGED <<draft, isComposing, reseedDuringComposition, events>> /\ viewFrame

\* The reader leaves the block.
CommitDraft ==
  /\ draft # None /\ ~isComposing
  /\ ClearDraft
  /\ IF draft.text # lastPostedText /\ draft.token = data.token
     THEN PostDraft ELSE UNCHANGED <<lastPostedText, toHost>>
  /\ UNCHANGED <<isComposing, reseedDuringComposition, events>> /\ viewFrame

CompositionStart ==
  /\ Event /\ draft # None /\ ~isComposing /\ isComposing' = TRUE
  /\ UNCHANGED <<draft, lastPostedText, timer, reseedDuringComposition, toHost>> /\ viewFrame

CompositionEnd ==
  /\ isComposing /\ isComposing' = FALSE
  /\ IF reseedDuringComposition
     THEN reseedDuringComposition' = FALSE /\ ClearDraft
     ELSE timer' = TRUE /\ UNCHANGED <<draft, reseedDuringComposition>>
  /\ UNCHANGED <<lastPostedText, toHost, events>> /\ viewFrame

\* One hunk is put back: an edit like any other, measured on the payload and not on the draft.
RevertHunk ==
  /\ Event /\ data.text # None
  /\ \E text \in Text \ {data.text} :
       toHost' = Append(toHost, Delta(data.text, text, data.version, data.token))
  /\ UNCHANGED draftVars /\ viewFrame

\* The reader changes the whitespace mode.
SetIgnoreMode ==
  /\ Event /\ toHost' = Append(toHost, Ready)
  /\ UNCHANGED draftVars /\ viewFrame

-----------------------------------------------------------------------------
Session == HandleMessage \/ OnDidChangeTextDocument \/ ApplyEdit \/ EditAnswered
Webview ==
  \/ Receive \/ StartEditing \/ HandleDraftTextChange \/ DebouncedPost \/ CommitDraft
  \/ CompositionStart \/ CompositionEnd \/ RevertHunk \/ SetIgnoreMode

Next ==
  \/ Session \/ \E s \in Slot : Settle(s)
  \/ MainApplies \/ MainThrows \/ ForeignWrite \/ Lose
  \/ Webview

\* Promises settle, VS Code answers and delivers; the reader owes nothing.  No such step undoes
\* another, so it is enough that some is taken while one can be.
Progress == Session \/ (\E s \in Slot : Settle(s)) \/ MainApplies \/ Receive
FairSpec == Init /\ [][Next]_vars /\ WF_vars(Progress)

-----------------------------------------------------------------------------
\* An edit changes the text it was measured on and no other: whatever is written, answered,
\* echoed, voided or composed meanwhile, offsets are never applied to a text they do not fit
\* (EditableDiffEditorProvider.ts:445-526; editableDraftSession.ts:621-692).
EditsLandWhereMeasured == main.text # Garbled

\* "This session publishes every token it mints": while the webview stamps its edits with an
\* older token, and so sees them dropped, a payload with the new one is on its way or the
\* failure to deliver it is remembered (EditableDiffEditorProvider.ts:191-201, 281-350, 445-476,
\* 563-586).
EveryTokenIsPublished ==
  data.token # reseedToken =>
    \/ deliveryFailed
    \/ \E s \in Slot : posts[s] # None /\ posts[s].token = reseedToken

\* The echo of the session's own edit, on whichever side of the answer it comes and whatever
\* else is written, never voids the draft (EditableDiffEditorProvider.ts:203-212, 252-271).
OwnEchoKeepsDraft ==
  [][(changes # <<>> /\ Head(changes).own /\ changes' = Tail(changes))
       => reseedToken' = reseedToken]_vars

\* The queue of edits never stops, whatever is refused, thrown or lost: this comes true again and
\* again (EditableDiffEditorProvider.ts:418-442).
NoEditIsLeft == editQueue = <<>>

=============================================================================
