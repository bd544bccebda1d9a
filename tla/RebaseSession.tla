---------------------------- MODULE RebaseSession ----------------------------
(***************************************************************************)
(* git/interactiveRebase: what several windows keep of one repository's    *)
(* interactive rebases (a reservation pointer, per session a directory of  *)
(* editor files and a manifest) beside the state git itself keeps.         *)
(*                                                                         *)
(* A window does one thing at a time: it runs a session (run.ts), controls *)
(* a paused one (control.ts), offers a push, or reconciles what it finds   *)
(* when it activates (reconcile.ts, rebaseReconciliation.ts).  Running and *)
(* controlling pass the mutation gate; reconciling does not.               *)
(***************************************************************************)
EXTENDS RebaseSessionState, Naturals, FiniteSets

CONSTANTS
  Overlap,    \* whether a window may reconcile while another works on a session, or
              \* take control of one that another is still leaving
  MaxTroubles \* kinds of trouble in one behaviour, each at most once

disk == <<pointer, manifest, files>>
local == <<flow, mine, keep, seen>>
git == <<rebase, head>>

Init ==
  /\ pointer = Nothing
  /\ manifest = [s \in Session |-> Nothing]
  /\ files = {}
  /\ rebase = Nothing
  /\ head = "start"
  /\ expected = [s \in Session |-> "start"]
  /\ used = {}
  /\ gate = Nothing
  /\ step = [w \in Window |-> "idle"]
  /\ flow = [w \in Window |-> "run"]
  /\ mine = [w \in Window |-> Nothing]
  /\ keep = {}
  /\ seen = [w \in Window |-> Unread]
  /\ trouble = {}

-----------------------------------------------------------------------------
Go(w, from, to) == step[w] = from /\ step' = [step EXCEPT ![w] = to]

\* The window is done, and so is its turn in the gate.
End(w) ==
  /\ step' = [step EXCEPT ![w] = "idle"]
  /\ mine' = [mine EXCEPT ![w] = Nothing]
  /\ seen' = [seen EXCEPT ![w] = Unread]
  /\ keep' = keep \ {w}
  /\ flow' = [flow EXCEPT ![w] = "run"]
  /\ gate' = IF gate = w THEN Nothing ELSE gate

LeaveGate(w) == gate' = IF gate = w THEN Nothing ELSE gate

Trouble(kind) ==
  /\ kind \notin trouble
  /\ Cardinality(trouble) < MaxTroubles
  /\ trouble' = trouble \cup {kind}

\* A file system call or a git probe fails.
Fault == Trouble("fault")

\* An exception leaves the gate's operation, if it is inside it.
Throw(w, from) ==
  /\ Fault
  /\ Go(w, from, "threw")
  /\ IF flow[w] = "run" THEN LeaveGate(w) ELSE UNCHANGED gate
  /\ UNCHANGED <<disk, git, expected, used, local>>

Put(s, lifecycle) == manifest' = [manifest EXCEPT ![s] = lifecycle]

Starting(w) ==
  flow[w] = "run" /\ step[w] \in {"reserve", "point", "files", "start", "gate", "check", "mark",
                                  "spawn", "editor", "rebasing", "stopped"}

\* A run that ended outside the gate it worked in.
Leaving(w) ==
  flow[w] = "run" /\ step[w] \in {"threw", "unlink", "forget", "compare", "release"}

Working(w) == mine[w] # Nothing /\ step[w] # "offer"

Reconciling(w) ==
  step[w] \in {"gather", "discard", "sweep", "probe", "recall", "reclaim", "prompt"}

-----------------------------------------------------------------------------
(* run.ts: runInteractiveRebaseSubmission.                                 *)

\* The dialog is submitted; tryAcquire finds no rebase under way.
Submit(w) ==
  /\ Go(w, "idle", "reserve")
  /\ rebase = Nothing
  /\ Overlap \/ ~\E v \in Window : Reconciling(v)
  /\ \E s \in Session \ used :
       /\ mine' = [mine EXCEPT ![w] = s]
       /\ used' = used \cup {s}
       /\ expected' = [expected EXCEPT ![s] = head]
  /\ UNCHANGED <<disk, git, gate, flow, keep, seen, trouble>>

\* writeFile with wx: the file is created, or already there.
Reserve(w) ==
  \/ /\ Go(w, "reserve", "point")
     /\ pointer = Nothing
     /\ pointer' = Torn
     /\ UNCHANGED <<manifest, files, git, expected, used, gate, local, trouble>>
  \/ /\ step[w] = "reserve"
     /\ pointer # Nothing
     /\ End(w)
     /\ UNCHANGED <<disk, git, expected, used, trouble>>

\* Its content follows; if it fails nobody owns the reservation to release it.
WritePointer(w) ==
  \/ /\ Go(w, "point", "files")
     /\ pointer' = mine[w]
     /\ UNCHANGED <<manifest, files, git, expected, used, gate, local, trouble>>
  \/ /\ step[w] = "point"
     /\ Fault
     /\ End(w)
     /\ UNCHANGED <<disk, git, expected, used>>

CreateFiles(w) ==
  \/ /\ Go(w, "files", "start")
     /\ files' = files \cup {mine[w]}
     /\ UNCHANGED <<pointer, manifest, git, expected, used, gate, local, trouble>>
  \/ Throw(w, "files")

WriteStarting(w) ==
  \/ /\ Go(w, "start", "gate")
     /\ Put(mine[w], "starting")
     /\ UNCHANGED <<pointer, files, git, expected, used, gate, local, trouble>>
  \/ Throw(w, "start")

\* Its turn, or a lock that stays busy.
EnterGate(w) ==
  /\ \/ Go(w, "gate", "check") /\ gate = Nothing /\ gate' = w
     \/ Go(w, "gate", "threw") /\ gate # Nothing /\ UNCHANGED gate
  /\ UNCHANGED <<disk, git, expected, used, local, trouble>>

\* Branch, HEAD, rebase directory and guards; a rejection is a result.
Check(w) ==
  /\ \/ Go(w, "check", "mark") /\ head = expected[mine[w]] /\ rebase = Nothing /\ UNCHANGED gate
     \/ Go(w, "check", "unlink") /\ LeaveGate(w)
  /\ UNCHANGED <<disk, git, expected, used, local, trouble>>

MarkRunning(w) ==
  \/ /\ Go(w, "mark", "spawn")
     /\ Put(mine[w], "running")
     /\ UNCHANGED <<pointer, files, git, expected, used, gate, local, trouble>>
  \/ Throw(w, "mark")

\* git rebase -i creates its directory, or refuses to start beside another.
Spawn(w) ==
  /\ \/ Go(w, "spawn", "editor") /\ rebase = Nothing /\ rebase' = Other /\ UNCHANGED gate
     \/ Go(w, "spawn", "threw") /\ rebase # Nothing /\ LeaveGate(w) /\ UNCHANGED rebase
  /\ UNCHANGED <<disk, head, expected, used, local, trouble>>

\* The sequence editor writes todo and marker, or fails and git withdraws.
SequenceEditor(w) ==
  /\ \/ Go(w, "editor", "rebasing") /\ mine[w] \in files /\ rebase' = mine[w]
     \/ Go(w, "editor", "stopped") /\ mine[w] \notin files /\ rebase' = Nothing
  /\ UNCHANGED <<disk, head, expected, used, gate, local, trouble>>

\* git ends the rebase, stops in it, or dies.
Rebase(w) ==
  /\ \/ /\ Go(w, "rebasing", "finished")
        /\ rebase = mine[w]
        /\ rebase' = Nothing
        /\ head' = mine[w]
        /\ UNCHANGED <<gate, trouble>>
     \/ Go(w, "rebasing", "stopped") /\ UNCHANGED <<git, gate, trouble>>
     \/ /\ Go(w, "rebasing", "threw")
        /\ Fault \/ (rebase # mine[w] /\ UNCHANGED trouble)
        /\ IF flow[w] = "run" THEN LeaveGate(w) ELSE UNCHANGED gate
        /\ UNCHANGED git
  /\ UNCHANGED <<disk, expected, used, local>>

\* completeInteractiveRebase: a push to offer, done, or a warning that it could not be written.
Complete(w) ==
  /\ Go(w, "finished", "unlink")
  /\ \/ Put(mine[w], "pending") /\ keep' = keep \cup {w} /\ UNCHANGED trouble
     \/ Put(mine[w], "done") /\ UNCHANGED <<keep, trouble>>
     \/ Fault /\ UNCHANGED <<manifest, keep>>
  /\ IF flow[w] = "run" THEN LeaveGate(w) ELSE UNCHANGED gate
  /\ UNCHANGED <<pointer, files, git, expected, used, flow, mine, seen>>

\* git exited with 1: the rebase is paused, gone, or no longer ours.
Stopped(w) ==
  \/ /\ Go(w, "stopped", "unlink")
     /\ rebase = Nothing
     /\ IF flow[w] = "run" THEN LeaveGate(w) ELSE UNCHANGED gate
     /\ UNCHANGED <<disk, git, expected, used, local, trouble>>
  \/ /\ step[w] = "stopped"
     /\ rebase = mine[w] \/ (flow[w] = "run" /\ rebase # Nothing)
     /\ Put(mine[w], "paused")
     /\ End(w)
     /\ UNCHANGED <<pointer, files, git, expected, used, trouble>>
  \/ /\ step[w] = "stopped"
     /\ flow[w] # "run" /\ rebase \notin {Nothing, mine[w]}
     /\ End(w)
     /\ UNCHANGED <<disk, git, expected, used, trouble>>
  \/ rebase # Nothing /\ Throw(w, "stopped")

\* Mutant: an exception always cleans up.
RecoverAlways(w) ==
  /\ Go(w, "threw", "unlink")
  /\ UNCHANGED <<disk, git, expected, used, gate, local, trouble>>

\* The catch blocks: isVerifiablyNotPaused, failOwnedIfNotLive.
Recover(w) ==
  \/ /\ Go(w, "threw", "unlink")
     /\ rebase = Nothing
     /\ UNCHANGED <<disk, git, expected, used, gate, local, trouble>>
  \/ /\ step[w] = "threw"
     /\ \/ rebase # Nothing /\ UNCHANGED trouble
        \/ rebase = Nothing /\ flow[w] = "run" /\ Fault
     /\ End(w)
     /\ UNCHANGED <<disk, git, expected, used>>

-----------------------------------------------------------------------------
(* The cleanup of run's finally, each step best effort, and the one of     *)
(* control.ts, which a failing step ends.                                  *)

Unclean(w, from, to) ==
  /\ Fault
  /\ \/ flow[w] = "run" /\ Go(w, from, to) /\ UNCHANGED <<gate, local>>
     \/ flow[w] = "continue" /\ Go(w, from, "threw") /\ UNCHANGED <<gate, local>>
     \/ flow[w] = "abort" /\ step[w] = from /\ End(w)
  /\ UNCHANGED <<disk, git, expected, used>>

DeleteFiles(w) ==
  \/ /\ Go(w, "unlink", IF w \in keep THEN "compare" ELSE "forget")
     /\ files' = files \ {mine[w]}
     /\ UNCHANGED <<pointer, manifest, git, expected, used, gate, local, trouble>>
  \/ Unclean(w, "unlink", IF w \in keep THEN "compare" ELSE "forget")

DeleteManifest(w) ==
  \/ /\ Go(w, "forget", "compare")
     /\ Put(mine[w], Nothing)
     /\ UNCHANGED <<pointer, files, git, expected, used, gate, local, trouble>>
  \/ Unclean(w, "forget", "compare")

\* releaseRebaseReservation reads the pointer,
Compare(w) ==
  \/ /\ Go(w, "compare", "release")
     /\ pointer \notin Session \ {mine[w]}
     /\ UNCHANGED <<disk, git, expected, used, gate, local, trouble>>
  \/ /\ Go(w, "compare", "offer")
     /\ pointer \in Session \ {mine[w]}
     /\ LeaveGate(w)
     /\ UNCHANGED <<disk, git, expected, used, local, trouble>>
  \/ Unclean(w, "compare", "offer")

\* and removes what is at its path.
Release(w) ==
  \/ /\ Go(w, "release", "offer")
     /\ pointer' = Nothing
     /\ LeaveGate(w)
     /\ UNCHANGED <<manifest, files, git, expected, used, local, trouble>>
  \/ Unclean(w, "release", "offer")

\* The user ignores the offer or there is none; or it is pushed or dismissed.
Offer(w) ==
  \/ /\ step[w] = "offer"
     /\ End(w)
     /\ UNCHANGED <<disk, git, expected, used, trouble>>
  \/ /\ Go(w, "offer", "dismiss")
     /\ w \in keep
     /\ Overlap \/ ~\E v \in Window : Reconciling(v)
     /\ Put(mine[w], "done")
     /\ UNCHANGED <<pointer, files, git, expected, used, gate, local, trouble>>

\* completeRebasePushOffer removes the manifest, or restores it.
Dismiss(w) ==
  /\ step[w] = "dismiss"
  /\ \/ Put(mine[w], Nothing) /\ UNCHANGED trouble
     \/ Fault /\ Put(mine[w], "pending")
  /\ End(w)
  /\ UNCHANGED <<pointer, files, git, expected, used>>

-----------------------------------------------------------------------------
(* control.ts, inside the gate.                                            *)

\* readLiveRebaseManifest.
LiveSession == {s \in Session : pointer = s /\ manifest[s] \in Live}

\* deriveRebaseControl
Owned == rebase \in LiveSession

\* A rebase of ours is continued with our editors or aborted; of another's, only
\* aborted; of nobody's, either.
Control(w) ==
  /\ step[w] = "idle" /\ gate = Nothing /\ rebase # Nothing
  /\ Overlap \/ ~\E v \in Window : Leaving(v) \/ Reconciling(v)
  /\ \E verb \in {"continue", "abort"} :
       /\ flow' = [flow EXCEPT ![w] = verb]
       /\ \/ /\ Owned
             /\ mine' = [mine EXCEPT ![w] = rebase]
             /\ step' = [step EXCEPT ![w] = IF verb = "continue" THEN "rebasing" ELSE "pass"]
          \/ /\ ~Owned
             /\ verb = "continue" => LiveSession = {}
             /\ mine' = mine
             /\ step' = [step EXCEPT ![w] = "pass"]
  /\ gate' = w
  /\ UNCHANGED <<disk, git, expected, used, keep, seen, trouble>>

\* git rebase --abort, or --continue of a rebase that is not ours.
PassThrough(w) ==
  /\ step[w] = "pass"
  /\ \/ /\ rebase # Nothing
        /\ rebase' = Nothing
        /\ head' = IF flow[w] = "continue" THEN Other ELSE head
        /\ IF mine[w] # Nothing
           THEN step' = [step EXCEPT ![w] = "unlink"] /\ UNCHANGED <<gate, local>>
           ELSE End(w)
     \/ End(w) /\ UNCHANGED git
  /\ UNCHANGED <<disk, expected, used, trouble>>

-----------------------------------------------------------------------------
(* rebaseReconciliation.ts, with the classification of reconcile.ts.       *)

Activate(w) ==
  /\ Go(w, "idle", "gather")
  /\ Overlap \/ ~\E v \in Window : Working(v)
  /\ UNCHANGED <<disk, git, expected, used, gate, local, trouble>>

\* gatherRebaseReconciliationEvidence: the reads run side by side.
Gather(w) ==
  /\ step[w] = "gather"
  /\ \/ /\ seen[w].rebase = Torn
        /\ seen' = [seen EXCEPT ![w].rebase = rebase, ![w].head = head]
     \/ /\ seen[w].manifests = Torn
        /\ seen' = [seen EXCEPT ![w].manifests = manifest]
  /\ step' = [step EXCEPT ![w] = IF Torn \in {seen'[w].rebase, seen'[w].manifests}
                                 THEN "gather" ELSE "discard"]
  /\ UNCHANGED <<disk, git, expected, used, gate, flow, mine, keep, trouble>>

\* Manifests nothing is known about.
Ambiguous(e) ==
  {s \in Session : e.manifests[s] # Nothing
                     /\ ~(e.rebase = s /\ e.manifests[s] \in Live)} \ ProvenDead(e)

\* discardRebaseSession
Discard(sessions) ==
  /\ manifest' = [s \in Session |-> IF s \in sessions THEN Nothing ELSE manifest[s]]
  /\ files' = files \ sessions

DiscardProven(w) ==
  /\ Go(w, "discard", "sweep")
  /\ Discard(ProvenDead(seen[w]))
  /\ UNCHANGED <<pointer, git, expected, used, gate, local, trouble>>

\* sweepOrphanedRebaseReservation: the pointer,
Sweep(w) ==
  /\ \/ /\ Go(w, "sweep", "probe") /\ pointer \in Session
        /\ seen' = [seen EXCEPT ![w].pointer = pointer]
     \/ Go(w, "sweep", "prompt") /\ pointer \notin Session /\ UNCHANGED seen
  /\ UNCHANGED <<disk, git, expected, used, gate, flow, mine, keep, trouble>>

\* the rebase directory,
Probe(w) ==
  /\ IF rebase = Nothing THEN Go(w, "probe", "recall") ELSE Go(w, "probe", "prompt")
  /\ UNCHANGED <<disk, git, expected, used, gate, local, trouble>>

\* the manifest,
Recall(w) ==
  /\ step[w] = "recall"
  /\ LET live == manifest[seen[w].pointer] \in Live
     IN  step' = [step EXCEPT ![w] = IF live THEN "prompt" ELSE "reclaim"]
  /\ UNCHANGED <<disk, git, expected, used, gate, local, trouble>>

\* then whatever is at the pointer's path.
Reclaim(w) ==
  /\ Go(w, "reclaim", "prompt")
  /\ pointer' = Nothing
  /\ UNCHANGED <<manifest, files, git, expected, used, gate, local, trouble>>

\* The user may give up what is ambiguous.
Prompt(w) ==
  /\ step[w] = "prompt"
  /\ Discard(Ambiguous(seen[w])) \/ UNCHANGED <<manifest, files>>
  /\ End(w)
  /\ UNCHANGED <<pointer, git, expected, used, trouble>>

-----------------------------------------------------------------------------
\* The host dies; its lock is taken over and git's directory stays.
Crash(w) ==
  /\ step[w] # "idle"
  /\ Trouble("crash")
  /\ End(w)
  /\ UNCHANGED <<disk, git, expected, used>>

\* The user rebases, ends a rebase or commits in a terminal.
Outside ==
  /\ Trouble("outside")
  /\ \/ rebase = Nothing /\ rebase' = Other /\ UNCHANGED head
     \/ rebase # Nothing /\ rebase' = Nothing /\ head' \in {head, Other}
     \/ rebase = Nothing /\ head' = Other /\ UNCHANGED rebase
  /\ UNCHANGED <<disk, expected, used, gate, step, local>>

Work(w) ==
  \/ Reserve(w) \/ WritePointer(w) \/ CreateFiles(w) \/ WriteStarting(w) \/ EnterGate(w)
  \/ Check(w) \/ MarkRunning(w) \/ Spawn(w) \/ SequenceEditor(w) \/ Rebase(w) \/ Complete(w)
  \/ Stopped(w) \/ Recover(w) \/ DeleteFiles(w) \/ DeleteManifest(w) \/ Compare(w)
  \/ Release(w) \/ Offer(w) \/ Dismiss(w) \/ PassThrough(w) \/ Gather(w) \/ DiscardProven(w)
  \/ Sweep(w) \/ Probe(w) \/ Recall(w) \/ Reclaim(w) \/ Prompt(w)

Next ==
  \/ \E w \in Window : Submit(w) \/ Control(w) \/ Activate(w) \/ Work(w) \/ Crash(w)
  \/ Outside

Spec == Init /\ [][Next]_rebaseVars

\* File system calls answer, git exits and the gate is granted or refused.
FairSpec == Spec /\ \A w \in Window : WF_rebaseVars(Work(w))

-----------------------------------------------------------------------------
\* Whatever a window began, it ends (run.ts:197-230).
EveryFlowEnds == \A w \in Window : []<>(step[w] = "idle")

\* A session that holds the reservation keeps it until it releases it itself: an
\* activation in another window must not "delete a live session's pointer and break
\* mutual exclusion" (storage.ts:66-69).
ReservationKept ==
  \A w \in Window : Starting(w) /\ step[w] \notin {"reserve", "point"} => pointer = mine[w]

=============================================================================
