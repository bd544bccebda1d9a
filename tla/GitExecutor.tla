----------------------------- MODULE GitExecutor -----------------------------
(***************************************************************************)
(* git/executor.ts: every git command the extension runs takes one of the  *)
(* process slots of its executor and, when its arguments say it mutates    *)
(* the repository, passes the mutation gate while it keeps the slot.       *)
(*                                                                         *)
(* Sessions (an interactive rebase, its control, a squash) take the gate   *)
(* first and run commands of an executor inside it: run.ts:107 and 130.    *)
(* Their runBinary calls need no slot and are part of the gate's operation.*)
(***************************************************************************)
EXTENDS RepositoryMutationGate, Sequences, FiniteSets

CONSTANTS
  Executor,      \* GitExecutor instances
  Home,          \* the window and repository path each is bound to
  MaxConcurrent, \* MAX_CONCURRENT_PROCESSES
  Jobs           \* what each call may be: [session, executor, args, verb, writes]

ASSUME ExecutorAssumption ==
  /\ Home \in [Executor -> Window \X Path]
  /\ MaxConcurrent \in Nat \ {0}
  /\ \A c \in Call :
       Jobs[c] \subseteq [session : BOOLEAN, executor : Executor, args : Seq(STRING),
                         verb : STRING, writes : BOOLEAN]

VARIABLES
  job,       \* the command each call runs; in a session, inside the gate
  at,        \* where that command is inside run
  active,    \* slots counted as taken, per executor
  queue,     \* calls waiting for a slot, per executor
  succeeded, \* calls whose command exited as expected
  reported   \* calls reported to the success listener

slotVars == <<active, queue>>
execVars == <<vars, job, at, slotVars, succeeded, reported>>

ExecTypeOK ==
  /\ job \in [Call -> UNION {Jobs[c] : c \in Call}]
  /\ at \in [Call -> {"idle", "waiting", "probing", "gated", "running", "done"}]
  /\ active \in [Executor -> 0..MaxConcurrent]
  /\ queue \in [Executor -> Seq(Call)]
  /\ succeeded \in SUBSET Call
  /\ reported \in SUBSET Call

ExecInit ==
  /\ Init
  /\ job \in {f \in [Call -> UNION {Jobs[c] : c \in Call}] : \A c \in Call : f[c] \in Jobs[c]}
  /\ at = [c \in Call |-> "idle"]
  /\ active = [e \in Executor |-> 0]
  /\ queue = [e \in Executor |-> <<>>]
  /\ succeeded = {}
  /\ reported = {}

-----------------------------------------------------------------------------
(* What the arguments say.  An option with a value attached is the option. *)

VALUE_TAKING_GLOBAL_OPTIONS ==
  {"-c", "-C", "--git-dir", "--work-tree", "--namespace", "--exec-path", "--super-prefix"}

BRANCH_WRITE_FLAGS ==
  {"-d", "-D", "--delete", "-m", "-M", "--move", "-c", "-C", "--copy", "-f", "--force",
   "-u", "--set-upstream", "--set-upstream-to", "--unset-upstream", "--edit-description"}

Option ==
  VALUE_TAKING_GLOBAL_OPTIONS \cup BRANCH_WRITE_FLAGS
    \cup {"--list", "-l", "-a", "--literal-pathspecs", "--"}

NOTIFIED_SUBCOMMANDS == {"commit", "push"}

MutatingCommand ==
  {"add", "am", "apply", "cherry-pick", "checkout", "clean", "commit", "merge", "mv", "pull",
   "push", "rebase", "reset", "restore", "revert", "rm", "switch", "tag"}

Args(s) == {s[i] : i \in DOMAIN s}

isBranchMutation(options) ==
  \/ Args(options) \cap BRANCH_WRITE_FLAGS # {}
  \/ Args(options) \cap {"--list", "-l"} = {} /\ Args(options) \ Option # {}

\* The command is taken to be the first argument, whatever it is.
isMutatingGitCommand(args) ==
  LET second == IF Len(args) > 1 THEN args[2] ELSE ""
  IN  /\ args # <<>>
      /\ \/ args[1] \in MutatingCommand
         \/ args[1] = "stash" /\ second \notin {"list", "show"}
         \/ args[1] = "branch" /\ isBranchMutation(Tail(args))
         \/ args[1] = "worktree" /\ second # "list"

\* Mutant: the first argument is the subcommand.
resolveFirst(argv) == IF argv = <<>> THEN None ELSE argv[1]

\* The first argument that is neither a global option nor the value of one.
resolveSubcommand(argv) ==
  LET from[i \in 1..Len(argv) + 2] ==
        IF i > Len(argv) THEN None
        ELSE IF argv[i] \notin Option THEN argv[i]
        ELSE from[IF argv[i] \in VALUE_TAKING_GLOBAL_OPTIONS THEN i + 2 ELSE i + 1]
  IN  from[1]

-----------------------------------------------------------------------------
(* The semaphore: a released slot is handed to the first that waits.       *)

\* runGated begins: the probe for the common directory, or the command itself.
Routed(c) == IF isMutatingGitCommand(job[c].args) THEN "probing" ELSE "running"

acquire(c) ==
  LET e == job[c].executor
  IN  \/ /\ active[e] < MaxConcurrent
         /\ active' = [active EXCEPT ![e] = @ + 1]
         /\ at' = [at EXCEPT ![c] = Routed(c)]
         /\ UNCHANGED queue
      \/ /\ active[e] >= MaxConcurrent
         /\ queue' = [queue EXCEPT ![e] = Append(@, c)]
         /\ at' = [at EXCEPT ![c] = "waiting"]
         /\ UNCHANGED active

release(c) ==
  LET e == job[c].executor
  IN  \/ /\ queue[e] # <<>>
         /\ queue' = [queue EXCEPT ![e] = Tail(@)]
         /\ LET next == Head(queue[e])
            IN  at' = [at EXCEPT ![c] = "done", ![next] = Routed(next)]
         /\ UNCHANGED active
      \/ /\ queue[e] = <<>>
         /\ active' = [active EXCEPT ![e] = @ - 1]
         /\ at' = [at EXCEPT ![c] = "done"]
         /\ UNCHANGED queue

\* The listener hears of a command that succeeded, then the slot is released.
Leave(c, success) ==
  /\ reported' = IF success /\ resolveSubcommand(job[c].args) \in NOTIFIED_SUBCOMMANDS
                 THEN reported \cup {c} ELSE reported
  /\ succeeded' = IF success THEN succeeded \cup {c} ELSE succeeded \ {c}
  /\ release(c)
  /\ UNCHANGED job

-----------------------------------------------------------------------------
\* A session's commands run while it holds the gate, a bare command first of all.
RunCommand(c) ==
  /\ at[c] = "idle"
  /\ job[c].session => phase[c] = "operating"
  /\ acquire(c)
  /\ UNCHANGED <<vars, job, succeeded, reported>>

\* mutationGate.run with the executor's root.
EnterGate(c) ==
  /\ Run(c)
  /\ pathKey'[c] = Home[job[c].executor]
  /\ UNCHANGED <<job, slotVars, succeeded, reported>>

RunSession(c) ==
  /\ job[c].session
  /\ EnterGate(c)
  /\ UNCHANGED at

\* rev-parse --git-common-dir answers, or fails.
Probe(c) ==
  /\ at[c] = "probing"
  /\ \/ EnterGate(c) /\ at' = [at EXCEPT ![c] = "gated"]
     \/ Leave(c, FALSE) /\ UNCHANGED vars

\* A step of the gate.  The operation of a command is its git process; that of a
\* session ends after its command.
InGateStep(c) ==
  /\ job[c].session \/ at[c] = "gated"
  /\ Progress(c)
  /\ phase[c] = "operating" /\ job[c].session => at[c] = "done"
  /\ \/ UNCHANGED succeeded
     \/ phase[c] = "operating" /\ ~job[c].session /\ succeeded' = succeeded \cup {c}
  /\ UNCHANGED <<job, at, slotVars, reported>>

\* Mutant: the slot is released when the command succeeds, with no finally.
LeaveGateOnSuccess(c) ==
  /\ at[c] = "gated"
  /\ phase[c] = "over"
  /\ c \in succeeded
  /\ Leave(c, TRUE)
  /\ UNCHANGED vars

LeaveGate(c) ==
  /\ at[c] = "gated"
  /\ phase[c] = "over"
  /\ Leave(c, c \in succeeded)
  /\ UNCHANGED vars

\* An ungated git process exits.
EndProcess(c) ==
  /\ at[c] = "running"
  /\ \E success \in BOOLEAN : Leave(c, success)
  /\ UNCHANGED vars

Advance(c) ==
  \/ Probe(c) \/ InGateStep(c) \/ LeaveGate(c) \/ EndProcess(c)
  \/ job[c].session /\ RunCommand(c)

ExecNext == \E c \in Call : RunCommand(c) \/ RunSession(c) \/ Advance(c)

ExecSpec == ExecInit /\ [][ExecNext]_execVars

\* Git processes exit, and whatever the gate waits for comes (FairSpec there).
ExecFairSpec == ExecSpec /\ \A c \in Call : WF_execVars(Advance(c))

-----------------------------------------------------------------------------
HoldsSlot(c) == at[c] \in {"probing", "gated", "running"}

\* The counter says how many commands of the executor hold a slot, never more than
\* the limit, and nobody waits while one is free (executor.ts:92-101, 396-416).
SlotsAccounted ==
  \A e \in Executor :
    /\ active[e] = Cardinality({c \in Call : job[c].executor = e /\ HoldsSlot(c)})
    /\ active[e] <= MaxConcurrent
    /\ queue[e] # <<>> => active[e] = MaxConcurrent

\* The subcommand found in the arguments of each call is the one git finds there, as far as
\* the listener is concerned (executor.ts:278-283).
VerbsAreRead ==
  \A c \in Call : \A j \in Jobs[c] :
    resolveSubcommand(j.args) \in NOTIFIED_SUBCOMMANDS <=> j.verb \in NOTIFIED_SUBCOMMANDS

\* The listener hears of each commit and push that succeeded, with or without global
\* options before it, and of nothing else (executor.ts:278-283, 306-315).
SuccessesReported ==
  \A c \in Call :
    at[c] = "done" =>
      (c \in reported <=> c \in succeeded /\ job[c].verb \in NOTIFIED_SUBCOMMANDS)

\* The counter says how many commands hold a process slot, and nobody waits while one is
\* free; the listener hears of exactly the commits and pushes that succeeded, whatever
\* options precede the subcommand (executor.ts:92-101, 278-283, 306-315, 396-416).
CommandsAreAccounted == ExecTypeOK /\ SlotsAccounted /\ SuccessesReported

Asked(c) == at[c] # "idle" \/ phase[c] # "new"

Ended(c) == at[c] = "done" /\ phase[c] \in {"new", "over"}

\* Every command and every session ends: a slot kept while waiting for the gate blocks
\* no one for ever, as long as the session's executor is its own (repositoryMode.ts:931,
\* 1014; executor.ts:92-101).
EveryGitCallEnds ==
  \A c \in Call : []<>(Asked(c) => Ended(c) \/ (job[c].session /\ phase[c] = "over"))

\* A git process that changes the repository runs with the lock held ("IntelliGit
\* serializes its own repository mutations with an in-process queue and a repository
\* lock", docs/shelve/security-notes.md:34).
WritesHoldTheLock ==
  \A c \in Call :
    job[c].writes /\ (at[c] = "running" \/ phase[c] = "operating") => holder = c

\* A command that only reads is not kept behind the mutation that holds the gate
\* (executor.ts:383-386).
ReadsEnd ==
  \A c \in Call : at[c] \in {"waiting", "running"} /\ ~job[c].writes ~> at[c] = "done"

=============================================================================
