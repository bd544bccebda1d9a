-------------------------- MODULE RebaseSessionState --------------------------
(***************************************************************************)
(* What git/interactiveRebase keeps of one repository's interactive        *)
(* rebases, in its files, in git's and in each window, and what has to     *)
(* hold of it.  RebaseSession has the steps.                               *)
(***************************************************************************)
CONSTANTS
  Window,  \* extension hosts
  Session, \* session ids, each submitted once
  Nothing, \* nothing there
  Torn,    \* a pointer created and not written
  Other    \* a rebase, or a HEAD, that is no session's

ASSUME RebaseAssumption ==
  /\ Nothing \notin Session \cup Window \cup {"starting", "running", "paused", "pending", "done"}
  /\ Nothing \notin {Torn, Other}
  /\ Torn \notin Session \cup {Other}
  /\ Torn \notin [Session -> {"starting", "running", "paused", "pending", "done", Nothing}]
  /\ Other \notin Session

VARIABLES
  pointer,  \* reservation.json: Nothing, Torn, or the session it names
  manifest, \* lifecycle of each session's manifest, or Nothing
  files,    \* sessions whose directory exists
  rebase,   \* git's rebase directory: Nothing, its marker, or Other without ours
  head,     \* where the branch is: "start", a session's result, or Other
  expected, \* manifest.expectedHead of each session
  used,     \* sessions submitted
  gate,     \* the window inside the mutation gate
  step,     \* what each window is about to do
  flow,     \* what it does it for: "run", "continue" or "abort"
  mine,     \* the session it works on
  keep,     \* whether its cleanup leaves the manifest: not shouldDeleteManifest
  seen,     \* the evidence a reconciling window gathered
  trouble   \* what went wrong so far: a crash, a fault, an outside rebase

rebaseVars == <<pointer, manifest, files, rebase, head, expected, used, gate,
                step, flow, mine, keep, seen, trouble>>

Live == {"starting", "running", "paused"}
Unread == [rebase |-> Torn, head |-> Torn, manifests |-> Torn, pointer |-> Nothing]

Step == {"idle", "reserve", "point", "files", "start", "gate", "check", "mark", "spawn",
         "editor", "rebasing", "finished", "stopped", "threw", "unlink", "forget", "compare",
         "release", "offer", "dismiss", "pass", "gather", "discard", "sweep", "probe", "recall",
         "reclaim", "prompt"}

RebaseTypeOK ==
  /\ pointer \in Session \cup {Nothing, Torn}
  /\ manifest \in [Session -> Live \cup {Nothing, "pending", "done"}]
  /\ files \in SUBSET Session
  /\ rebase \in Session \cup {Nothing, Other}
  /\ head \in Session \cup {"start", Other}
  /\ expected \in [Session -> Session \cup {"start", Other}]
  /\ used \in SUBSET Session
  /\ gate \in Window \cup {Nothing}
  /\ step \in [Window -> Step]
  /\ flow \in [Window -> {"run", "continue", "abort"}]
  /\ mine \in [Window -> Session \cup {Nothing}]
  /\ keep \in SUBSET Window
  /\ trouble \in SUBSET {"crash", "fault", "outside"}

-----------------------------------------------------------------------------
\* Manifests whose rebase is known never to have moved the branch.
ProvenDead(e) ==
  {s \in Session : e.manifests[s] \notin {Nothing, "pending"} /\ e.rebase = Nothing
                     /\ e.head = expected[s]}

-----------------------------------------------------------------------------
Idle(s) == \A w \in Window : mine[w] # s

\* A rebase that stopped under a session keeps everything needed to continue it: its
\* todo and messages, its live manifest and its reservation (run.ts:205-212;
\* control.ts:225-230).
PausedIsRecoverable ==
  \A s \in Session :
    rebase = s /\ Idle(s) => s \in files /\ manifest[s] \in Live /\ pointer = s

\* git never works on a session without the manifest that recovers it (completion.ts:18-19;
\* run.ts:138-139).
GitRunsWithManifest ==
  \A w \in Window :
    flow[w] = "run" /\ step[w] \in {"editor", "rebasing"} => manifest[mine[w]] = "running"

\* Every exit that is not a pause releases what the session reserved (storage.ts:65;
\* run.ts:213-230; control.ts:cleanUpOwnedSession), unless something failed under it.
ReleasedUnlessPaused ==
  trouble = {} =>
    \A s \in used : Idle(s) /\ rebase # s =>
      pointer # s /\ s \notin files /\ manifest[s] \notin Live

\* A reconciliation that discards a dead session reclaims its pointer in the same pass
\* (rebaseReconciliation.ts:64-65), unless a rebase is begun beside it.
DeadPointerReclaimed ==
  "outside" \notin trouble => \A w \in Window :
    step[w] = "prompt" /\ (\A v \in Window \ {w} : step[v] = "idle") =>
      pointer \notin ProvenDead(seen[w])

\* A push still to be offered is forgotten only by a push, a dismissal or the user's
\* decision to discard (run.ts:164-167; reconcile.ts:270-283).
PendingPushRetained ==
  [][\A s \in Session : manifest[s] = "pending" /\ manifest'[s] # "pending" =>
       \/ \E w \in Window : step[w] \in {"offer", "dismiss"} /\ mine[w] = s
       \/ \E w \in Window : step[w] = "prompt"]_rebaseVars

\* A rebase that stopped keeps its todo, messages, live manifest and reservation, git never works
\* on a session without the manifest that recovers it, a reservation goes with every exit that is
\* not a pause and with the discarding of a dead session, and a push still to be offered is
\* forgotten only by a push, a dismissal or a decision to discard (run.ts:138-173, 202-229;
\* control.ts:212-227; completion.ts:18-19; rebaseReconciliation.ts:48-65; reconcile.ts:268-281).
RebasesAreRecoverable ==
  /\ [](/\ RebaseTypeOK /\ PausedIsRecoverable /\ GitRunsWithManifest
        /\ ReleasedUnlessPaused /\ DeadPointerReclaimed)
  /\ PendingPushRetained

===============================================================================
