---------------------------- MODULE MCGitExecutor ----------------------------
(* GitExecutor in one window: the executor of the activation, one a rebase of *)
(* the undocked panel makes for itself, and one that a link to the repository *)
(* was opened with.                                                           *)
EXTENDS GitExecutor, TLC

CONSTANTS c1, c2, s1, w1, p1, p2, shared, own, linked

Command(args, verb, writes) ==
  [session |-> FALSE, executor |-> shared, args |-> args, verb |-> verb, writes |-> writes]

Session(executor) ==
  [session |-> TRUE, executor |-> executor, args |-> <<"merge-base">>, verb |-> "merge-base",
   writes |-> FALSE]

Gated == Command(<<"commit">>, "commit", TRUE)
GatedBranch == Command(<<"branch", "-f", "b">>, "branch", TRUE)
Listing == Command(<<"branch", "--list", "b">>, "branch", FALSE)
Configured == Command(<<"-c", "push", "log">>, "log", FALSE)
Scoped == Command(<<"--literal-pathspecs", "commit", "--", "f">>, "commit", TRUE)

MCHome == (shared :> <<w1, p1>>) @@ (own :> <<w1, p1>>) @@ (linked :> <<w1, p2>>)

\* Any command beside any other, beside a session with an executor of its own.
AnyJobs ==
  (c1 :> {Gated, Listing}) @@ (c2 :> {GatedBranch, Scoped, Configured})
    @@ (s1 :> {Session(own), Session(linked)})

\* A commit of some paths beside a commit of all.
ScopedJobs == (c1 :> {Gated}) @@ (c2 :> {Scoped})

\* A session on the executor everybody uses (repositoryViewEvents.ts:328).
SharedJobs == (c1 :> {Gated}) @@ (s1 :> {Session(shared)})

=============================================================================
