----------------------- MODULE CommitMessageGeneration -----------------------
(***************************************************************************)
(* ai/commitMessageGenerationCoordinator.ts: the attempts to generate a    *)
(* commit message, at most one per repository root, that editors submit,   *)
(* cancel and supersede, that commits fence off with leases, and that a    *)
(* watcher of the repository's merge and rebase markers interrupts.        *)
(*                                                                         *)
(* Between two awaits the code runs undisturbed: each stretch is one       *)
(* action.  Every awaited call may also fail.                              *)
(***************************************************************************)
EXTENDS CommitMessageGenerationState

VARIABLES tails, previous, keyOf, state, ticket, calls \* the chain of acquisitions

\* acquisitionTails: the promise tails of the mutation queue again, per root.
Acquisitions == INSTANCE MutationCoordinator WITH Call <- Attempt, Key <- Root, None <- Absent

acquisitionVars == <<tails, previous, keyOf, state, ticket, calls>>
vars == <<coordinatorVars, acquisitionVars>>

TypeOK == CoordinatorTypeOK /\ Acquisitions!TypeOK

Init ==
  /\ activeByRoot = [r \in Root |-> Absent]
  /\ commitLeaseCounts = [r \in Root |-> 0]
  /\ lease = [l \in Lease |-> Absent]
  /\ disposed = FALSE
  /\ attempt = [a \in Attempt |->
       [phase |-> "new", root |-> CHOOSE r \in Root : TRUE, host |-> CHOOSE h \in Host : TRUE,
        active |-> FALSE, watching |-> FALSE, unseen |-> FALSE, signals |-> 0, captured |-> 0,
        checks |-> <<>>, reading |-> "none", events |-> <<>>]]
  /\ operating = [r \in Root |-> FALSE]
  /\ Acquisitions!Init

-----------------------------------------------------------------------------
IsActive(a) == attempt[a].active /\ activeByRoot[attempt[a].root] = a

\* emitTerminal: what becomes of an active attempt.
Ended(record, kind) ==
  [record EXCEPT !.active = FALSE, !.watching = FALSE, !.unseen = FALSE, !.events = Append(@, kind)]

\* The active attempts among doomed hear their terminal event.
End(doomed, kind) ==
  LET ending == {a \in doomed : IsActive(a)} IN
  /\ attempt' = [a \in Attempt |-> IF a \in ending THEN Ended(attempt[a], kind) ELSE attempt[a]]
  /\ activeByRoot' = [r \in Root |-> IF activeByRoot[r] \in ending THEN Absent ELSE activeByRoot[r]]

\* An attempt's next record; when it ends now, with the terminal event it is sent.
Become(a, record) ==
  /\ attempt' = [attempt EXCEPT ![a] = record]
  /\ UNCHANGED activeByRoot

BecomeAndEnd(a, record, kind) ==
  IF IsActive(a)
  THEN /\ attempt' = [attempt EXCEPT ![a] = Ended(record, kind)]
       /\ activeByRoot' = [activeByRoot EXCEPT ![record.root] = Absent]
  ELSE Become(a, record)

Over(a) == [attempt[a] EXCEPT !.phase = "over"]

-----------------------------------------------------------------------------
Refused(r) == disposed \/ commitLeaseCounts[r] > 0

\* submit.  The attempt it supersedes ends first; then the root may not resolve,
\* or its watcher may not start.
Submit(a, r, h) ==
  /\ attempt[a].phase = "new"
  /\ LET asked == [attempt[a] EXCEPT !.root = r, !.host = h]
         failed == [asked EXCEPT !.phase = "over", !.events = <<"error">>]
         begun == [asked EXCEPT !.phase = "checking", !.active = TRUE, !.watching = TRUE,
                                !.checks = <<"run">>]
         superseded == [x \in Attempt |->
                          IF activeByRoot[r] = x THEN Ended(attempt[x], "cancelled") ELSE attempt[x]]
     IN \/ /\ Refused(r)
           /\ Become(a, failed)
        \/ /\ ~Refused(r)
           /\ \/ /\ attempt' = [superseded EXCEPT ![a] = failed]
                 /\ activeByRoot' = [activeByRoot EXCEPT ![r] = Absent]
              \/ /\ attempt' = [superseded EXCEPT ![a] = begun]
                 /\ activeByRoot' = [activeByRoot EXCEPT ![r] = a]
  /\ UNCHANGED <<commitLeaseCounts, lease, disposed, operating, acquisitionVars>>

\* cancel and dropHostRoot name one attempt.
Cancel(a) ==
  /\ IsActive(a)
  /\ End({a}, "cancelled")
  /\ UNCHANGED <<commitLeaseCounts, lease, disposed, operating, acquisitionVars>>

DropHost(h) ==
  /\ \E a \in Attempt : IsActive(a) /\ attempt[a].host = h
  /\ End({a \in Attempt : attempt[a].host = h}, "cancelled")
  /\ UNCHANGED <<commitLeaseCounts, lease, disposed, operating, acquisitionVars>>

AcquireCommitLease(l, r) ==
  /\ lease[l] = Absent
  /\ lease' = [lease EXCEPT ![l] = r]
  /\ commitLeaseCounts' = [commitLeaseCounts EXCEPT ![r] = @ + 1]
  /\ End({a \in Attempt : activeByRoot[r] = a}, "cancelled")
  /\ UNCHANGED <<disposed, operating, acquisitionVars>>

\* Mutant: the first release clears the fence.
ReleaseCommitLeaseAll(l) ==
  /\ lease[l] \in Root
  /\ lease' = [lease EXCEPT ![l] = "released"]
  /\ commitLeaseCounts' = [commitLeaseCounts EXCEPT ![lease[l]] = 0]
  /\ UNCHANGED <<activeByRoot, attempt, disposed, operating, acquisitionVars>>

\* The release callback; called again it does nothing.
ReleaseCommitLease(l) ==
  /\ lease[l] \in Root
  /\ lease' = [lease EXCEPT ![l] = "released"]
  /\ commitLeaseCounts' = [commitLeaseCounts EXCEPT ![lease[l]] = IF @ > 1 THEN @ - 1 ELSE 0]
  /\ UNCHANGED <<activeByRoot, attempt, disposed, operating, acquisitionVars>>

Dispose ==
  /\ ~disposed
  /\ disposed' = TRUE
  /\ End(Attempt, "cancelled")
  /\ commitLeaseCounts' = [r \in Root |-> 0]
  /\ UNCHANGED <<lease, operating, acquisitionVars>>

-----------------------------------------------------------------------------
\* A merge or rebase starts or ends; the watchers of the root will report it.
ToggleOperation(r) ==
  /\ operating' = [operating EXCEPT ![r] = ~@]
  /\ attempt' = [a \in Attempt |->
       IF attempt[a].watching /\ attempt[a].root = r
       THEN [attempt[a] EXCEPT !.unseen = TRUE] ELSE attempt[a]]
  /\ UNCHANGED <<activeByRoot, commitLeaseCounts, lease, disposed, acquisitionVars>>

\* The watcher's callback.  Events without a file name count too, so it may
\* report when nothing changed.
Signal(a) ==
  /\ attempt[a].watching /\ attempt[a].signals < MaxSignals
  /\ Become(a, [attempt[a] EXCEPT !.signals = @ + 1, !.unseen = FALSE,
                                  !.checks = Append(@, "recheck")])
  /\ UNCHANGED <<commitLeaseCounts, lease, disposed, operating, acquisitionVars>>

WatcherFails(a) ==
  /\ attempt[a].watching
  /\ BecomeAndEnd(a, attempt[a], "error")
  /\ UNCHANGED <<commitLeaseCounts, lease, disposed, operating, acquisitionVars>>

\* queueWholeIndexCheck: the first check of an attempt looks at the markers; an
\* attempt that is no longer active is not looked at.
CheckReads(a) ==
  /\ attempt[a].checks # <<>> /\ attempt[a].checks[1] # "drain" /\ attempt[a].reading = "none"
  /\ Become(a, [attempt[a] EXCEPT
                  !.reading = IF IsActive(a) /\ operating[attempt[a].root] THEN "busy" ELSE "clean"])
  /\ UNCHANGED <<commitLeaseCounts, lease, disposed, operating, acquisitionVars>>

\* finalize, at the top of its loop.
Finalizing(record) ==
  [record EXCEPT !.phase = "finalizing", !.captured = record.signals,
                 !.checks = Append(@, "drain")]

\* finalize, when the tail it awaited is done.
Drained(a) ==
  /\ attempt[a].checks # <<>> /\ attempt[a].checks[1] = "drain"
  /\ LET rest == Tail(attempt[a].checks) IN
     \/ IsActive(a) /\ Become(a, [attempt[a] EXCEPT !.checks = Append(rest, "final")])
     \/ ~IsActive(a) /\ Become(a, [Over(a) EXCEPT !.checks = rest])
  /\ UNCHANGED <<commitLeaseCounts, lease, disposed, operating, acquisitionVars>>

\* The attempt after its first check has answered, that check taken off.
Answered(a) == [attempt[a] EXCEPT !.checks = Tail(@), !.reading = "none"]

\* Mutant: the first answer is final.
FinalAnswersOnce(a) ==
  IF ~IsActive(a) THEN Become(a, [Answered(a) EXCEPT !.phase = "over"])
  ELSE BecomeAndEnd(a, [Answered(a) EXCEPT !.phase = "over"],
                    IF attempt[a].reading = "busy" THEN "cancelled" ELSE "done")

\* finalize's own check answers: what came in since it was captured is checked again.
FinalAnswers(a) ==
  IF IsActive(a) /\ attempt[a].reading = "clean" /\ attempt[a].captured # attempt[a].signals
  THEN Become(a, Finalizing(Answered(a)))
  ELSE BecomeAndEnd(a, [Answered(a) EXCEPT !.phase = "over"],
                    IF attempt[a].reading = "busy" THEN "cancelled" ELSE "done")

RecheckAnswers(a) ==
  \/ attempt[a].reading = "busy" /\ BecomeAndEnd(a, Answered(a), "cancelled")
  \/ attempt[a].reading = "clean" /\ Become(a, Answered(a))

\* run, after its first check.
RunAnswers(a) ==
  \/ /\ attempt[a].reading = "clean" /\ IsActive(a)
     /\ Become(a, [Answered(a) EXCEPT !.phase = "queued"])
     /\ Acquisitions!Register(a, attempt[a].root)
  \/ /\ ~(attempt[a].reading = "clean" /\ IsActive(a))
     /\ BecomeAndEnd(a, [Answered(a) EXCEPT !.phase = "over"], "error")
     /\ UNCHANGED acquisitionVars

\* A check that throws ends the attempt it is for, whoever asked.
CheckAnswers(a) ==
  /\ attempt[a].checks # <<>> /\ attempt[a].reading # "none"
  /\ LET asker == attempt[a].checks[1] IN
     \/ asker = "run" /\ RunAnswers(a)
     \/ asker = "recheck" /\ RecheckAnswers(a) /\ UNCHANGED acquisitionVars
     \/ asker = "final" /\ FinalAnswers(a) /\ UNCHANGED acquisitionVars
     \/ /\ BecomeAndEnd(a, IF asker = "recheck" THEN Answered(a)
                           ELSE [Answered(a) EXCEPT !.phase = "over"], "error")
        /\ UNCHANGED acquisitionVars
  /\ UNCHANGED <<commitLeaseCounts, lease, disposed, operating>>

-----------------------------------------------------------------------------
\* validateAndAcquire, its turn come.
StartAcquisition(a) ==
  /\ attempt[a].phase = "queued"
  /\ Acquisitions!Start(a)
  /\ Become(a, [attempt[a] EXCEPT !.phase = "validating"])
  /\ UNCHANGED <<commitLeaseCounts, lease, disposed, operating>>

\* The host's validation, the diff and the subjects of recent commits, each
\* entered by an active attempt only.
Acquire(a) ==
  /\ IsActive(a)
  /\ \E step \in {<<"validating", "diffing">>, <<"diffing", "listing">>} :
       /\ attempt[a].phase = step[1]
       /\ Become(a, [attempt[a] EXCEPT !.phase = step[2]])
  /\ UNCHANGED <<commitLeaseCounts, lease, disposed, operating, acquisitionVars>>

\* Mutant: a request the host rejects is dropped without a word.
SettleAcquisitionSilently(a) ==
  /\ attempt[a].phase \in Acquiring
  /\ Acquisitions!Finish(a)
  /\ \/ /\ attempt[a].phase = "listing" /\ IsActive(a)
        /\ Become(a, [attempt[a] EXCEPT !.phase = "preparing"])
     \/ Become(a, Over(a))
  /\ UNCHANGED <<commitLeaseCounts, lease, disposed, operating>>

\* The acquisition settles and lets the next one start: acquired, inactive by
\* now, rejected by the host, or failed.
SettleAcquisition(a) ==
  /\ attempt[a].phase \in Acquiring
  /\ Acquisitions!Finish(a)
  /\ \/ /\ attempt[a].phase = "listing" /\ IsActive(a)
        /\ Become(a, [attempt[a] EXCEPT !.phase = "preparing"])
     \/ BecomeAndEnd(a, Over(a), "error")
  /\ UNCHANGED <<commitLeaseCounts, lease, disposed, operating>>

\* Mutant: a chunk is passed on without asking whether the attempt is active.
ReceiveUnasked(a) ==
  \/ /\ attempt[a].phase = "preparing"
     /\ Become(a, [attempt[a] EXCEPT !.phase = "streaming", !.events = Append(@, "start")])
  \/ /\ attempt[a].phase = "streaming"
     /\ Len(attempt[a].events) <= MaxChunks
     /\ Become(a, [attempt[a] EXCEPT !.events = Append(@, "chunk")])

\* prepareAndStream: the model accepts the prompt, then sends a chunk.
Receive(a) ==
  /\ IsActive(a)
  /\ \/ /\ attempt[a].phase = "preparing"
        /\ Become(a, [attempt[a] EXCEPT !.phase = "streaming", !.events = Append(@, "start")])
     \/ /\ attempt[a].phase = "streaming"
        /\ Len(attempt[a].events) <= MaxChunks
        /\ Become(a, [attempt[a] EXCEPT !.events = Append(@, "chunk")])

Stream(a) ==
  /\ \/ Receive(a)
     \/ attempt[a].phase = "streaming" /\ IsActive(a) /\ Become(a, Finalizing(attempt[a]))
     \/ /\ attempt[a].phase \in {"preparing", "streaming"}
        /\ \E kind \in {"cancelled", "error"} : BecomeAndEnd(a, Over(a), kind)
  /\ UNCHANGED <<commitLeaseCounts, lease, disposed, operating, acquisitionVars>>

-----------------------------------------------------------------------------
Progress(a) ==
  \/ CheckReads(a) \/ Drained(a) \/ CheckAnswers(a)
  \/ StartAcquisition(a) \/ Acquire(a) \/ SettleAcquisition(a) \/ Stream(a)

Next ==
  \/ \E a \in Attempt :
       \/ \E r \in Root, h \in Host : Submit(a, r, h)
       \/ Cancel(a) \/ Signal(a) \/ WatcherFails(a) \/ Progress(a)
  \/ \E h \in Host : DropHost(h)
  \/ \E l \in Lease : (\E r \in Root : AcquireCommitLease(l, r)) \/ ReleaseCommitLease(l)
  \/ Dispose
  \/ \E r \in Root : ToggleOperation(r)

Spec == Init /\ [][Next]_vars

\* Awaited calls settle, and a model's stream ends.
FairSpec == Spec /\ \A a \in Attempt : WF_vars(Progress(a))

-----------------------------------------------------------------------------
\* Every attempt submitted is ended, and told so
\* (commitMessageGenerationCoordinator.ts:96, 274-286).
EveryAttemptEnds ==
  \A a \in Attempt :
    []<>(attempt[a].phase = "new" \/ Last(<<"none">> \o attempt[a].events) \in Terminal)

=============================================================================
