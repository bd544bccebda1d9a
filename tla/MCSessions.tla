------------------------------ MODULE MCSessions ------------------------------
(* What a window starts and has to see through: calls of the promise-tail queue,  *)
(* which extends here, generations of commit messages, which queue their diffs    *)
(* the same way, and interactive rebases.  TLC explores, side by side: "queue",   *)
(* calls of the queue; "attempts", two generations from two hosts with two        *)
(* leases; "signals", one generation and everything a watcher may report to it;   *)
(* "rebase", two windows with two sessions; "messages", what the commits of one   *)
(* are to say.                                                                    *)
EXTENDS MutationCoordinator, CommitMessageGenerationState, RebaseSessionState

VARIABLES
  part,
  acquiringTails, acquiringPrevious, acquiringKeyOf, acquiringState, acquiringTicket,
  acquiringCalls,
  entries, edited, phase, next, rebased, template, consumed, refused, steps, troubles

messageVars ==
  <<entries, edited, phase, next, rebased, template, consumed, refused, steps, troubles>>
generationVars ==
  <<coordinatorVars, acquiringTails, acquiringPrevious, acquiringKeyOf, acquiringState,
    acquiringTicket, acquiringCalls>>

Attempts == INSTANCE CommitMessageGeneration WITH
  MaxSignals <- 0, MaxChunks <- 0,
  tails <- acquiringTails, previous <- acquiringPrevious, keyOf <- acquiringKeyOf,
  state <- acquiringState, ticket <- acquiringTicket, calls <- acquiringCalls

\* The second attempt is never submitted, and the second lease never asked for.
Signals == INSTANCE CommitMessageGeneration WITH
  Host <- {"h1"},
  tails <- acquiringTails, previous <- acquiringPrevious, keyOf <- acquiringKeyOf,
  state <- acquiringState, ticket <- acquiringTicket, calls <- acquiringCalls

Rebase == INSTANCE RebaseSession WITH Overlap <- FALSE, MaxTroubles <- 1

Messages == INSTANCE RebaseMessages WITH Count <- 3, MaxSteps <- 3, MaxTroubles <- 2

SessionsInit ==
  /\ part \in {"queue", "attempts", "signals", "rebase", "messages"}
  /\ Init
  /\ Attempts!Init
  /\ Rebase!Init
  /\ Messages!Init

\* The names of attempts, leases, hosts, sessions and windows say nothing: they are named in
\* the order they come.
NamedInOrder ==
  /\ attempt'["a2"].phase # "new" => attempt'["a1"].phase # "new"
  /\ attempt'["a1"].phase # "new" => attempt'["a1"].host = "h1"
  /\ lease'["l2"] # Absent => lease'["l1"] # Absent
  /\ used = {} /\ used' # {} => mine'["w1"] = "s1"

Of(component) == part = component /\ UNCHANGED part

SessionsNext ==
  \/ Of("queue") /\ Next /\ UNCHANGED <<generationVars, rebaseVars, messageVars>>
  \/ /\ Of("attempts") /\ Attempts!Next /\ UNCHANGED <<queueVars, rebaseVars, messageVars>>
     /\ NamedInOrder
  \/ /\ Of("signals") /\ Signals!Next /\ UNCHANGED <<queueVars, rebaseVars, messageVars>>
     /\ attempt'["a2"] = attempt["a2"] /\ lease'["l2"] = lease["l2"]
  \/ /\ Of("rebase") /\ Rebase!Next /\ UNCHANGED <<queueVars, generationVars, messageVars>>
     /\ NamedInOrder
  \/ Of("messages") /\ Messages!Next /\ UNCHANGED <<queueVars, generationVars, rebaseVars>>

\* The fairness each component states, while the behaviour is of it.
SessionsFairSpec ==
  /\ SessionsInit /\ [][SessionsNext]_<<part, queueVars, generationVars, rebaseVars,
                                      messageVars>>
  /\ \A c \in Call : /\ WF_queueVars(Of("queue") /\ Start(c))
                     /\ WF_queueVars(Of("queue") /\ Finish(c))
  /\ \A a \in {"a1", "a2"} : WF_generationVars(Of("attempts") /\ Attempts!Progress(a))
  /\ WF_generationVars(Of("signals") /\ Signals!Progress("a1"))
  /\ \A w \in Window : WF_rebaseVars(Of("rebase") /\ Rebase!Work(w))

-----------------------------------------------------------------------------
\* The host accepts every todo the dialog offers to submit; no commit says what was said or typed
\* of one that is not in it; and every commit has the message the dialog had for it, after
\* conflicts and failed editors too, but for rewords that were refused and fixups that follow a
\* squash (rebaseDialogState.ts:22-164; todo.ts:43-84; editorHelper.ts:99-139).
MessagesArriveMostly ==
  part = "messages" =>
    /\ Messages!TypeOK /\ Messages!DialogIsAccepted /\ Messages!MessagesStayHome
    /\ Messages!MessagesArriveMostly

\* Every call of the queue runs and ends, every attempt is told its end, and every window gets to
\* the end of what it does with a rebase (mutationCoordinator.ts:6-21;
\* commitMessageGenerationCoordinator.ts:145-243, 417-455; run.ts:58-230; control.ts:98-228).
EverythingEnds == EveryCallEnds /\ Attempts!EveryAttemptEnds /\ Rebase!EveryFlowEnds

=============================================================================
