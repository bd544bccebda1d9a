----------------------------- MODULE SessionProofs -----------------------------
(***************************************************************************)
(* What MCSessions runs, beside the queue of MutationCoordinatorProofs:    *)
(* the generations of CommitMessageGeneration for any number of attempts,  *)
(* roots, hosts and leases, and the interactive rebases of RebaseSession   *)
(* for any number of windows and sessions and any trouble.                 *)
(***************************************************************************)
EXTENDS CommitMessageGeneration, RebaseSessionState, FiniteSetTheorems, SequenceTheorems, TLAPS

CONSTANT MaxTroubles

\* The acquisitions of each root queue as the mutations of a repository do.
ByRoot == INSTANCE MutationCoordinatorProofs WITH Call <- Attempt, Key <- Root, None <- Absent

\* Rebases where no two windows overlap.
Rebase == INSTANCE RebaseSession WITH Overlap <- FALSE

(***************************************************************************)
(* What an attempt's record says by itself: what its host can have heard   *)
(* in each phase, that it is watched while it is active, and whose turn    *)
(* among its checks it can be.                                             *)
(***************************************************************************)
Silent == {"new", "checking", "queued", "preparing"} \cup Acquiring

EndHeard(heard) == \E i \in 1..Len(heard) : heard[i] \in Terminal

HeardInOrder(heard) ==
  /\ \A i \in 1..Len(heard) : heard[i] \in Terminal => i = Len(heard)
  /\ \A i \in 1..Len(heard) : heard[i] = "chunk" => heard[1] = "start"

HostTold(record) ==
  /\ HeardInOrder(record.events)
  /\ record.phase = "new" => ~record.active /\ record.events = <<>> /\ record.checks = <<>>
  /\ record.phase # "new" => (record.active <=> ~EndHeard(record.events))
  /\ record.active <=> record.watching
  /\ record.active /\ record.phase \in Silent => record.events = <<>>
  /\ record.phase = "streaming" =>
       record.events # <<>> /\ (record.active => record.events[1] = "start")

\* run's check comes first, and finalize awaits one thing at a time.
ChecksInTurn(record) ==
  /\ \A i \in 1..Len(record.checks) :
       record.checks[i] = "run" => i = 1 /\ record.phase = "checking"
  /\ \A i \in 1..Len(record.checks) :
       record.checks[i] \in {"drain", "final"} => record.phase = "finalizing"
  /\ \A i, j \in 1..Len(record.checks) :
       record.checks[i] \in {"drain", "final"} /\ record.checks[j] \in {"drain", "final"} => i = j
  /\ record.reading # "none" => record.checks # <<>> /\ record.checks[1] # "drain"
  /\ record.captured <= record.signals

\* What finalize's check has seen quiet and no signal has contradicted is quiet,
\* or the watcher is about to report it.
StillQuiet(record, busy) ==
  (/\ record.active /\ record.checks # <<>> /\ record.checks[1] = "final"
   /\ record.reading = "clean" /\ record.captured = record.signals)
    => record.unseen \/ ~busy

RecordOK(record, busy) ==
  /\ record \in AttemptRecord
  /\ HostTold(record) /\ ChecksInTurn(record) /\ StillQuiet(record, busy)

RecordsHold == \A a \in Attempt : RecordOK(attempt[a], operating[attempt[a].root])

\* activeByRoot holds the active attempts, each under its root.
ActiveIsHeld ==
  /\ \A r \in Root : activeByRoot[r] # Absent =>
       attempt[activeByRoot[r]].active /\ attempt[activeByRoot[r]].root = r
  /\ \A a \in Attempt : attempt[a].active => activeByRoot[attempt[a].root] = a

Holders(r) == {l \in Lease : lease[l] = r}

LeasesCounted ==
  /\ \A r \in Root : IsFiniteSet(Holders(r))
  /\ ~disposed => \A r \in Root : commitLeaseCounts[r] = Cardinality(Holders(r))

\* Where an attempt stands in the chain of acquisitions of its root.
Linked(phase, root, turn, key) ==
  /\ phase \in {"new", "checking"} => turn = "new"
  /\ phase = "queued" => turn = "waiting"
  /\ phase \in Acquiring => turn = "running"
  /\ turn # "new" => key = root

Chained == \A a \in Attempt : Linked(attempt[a].phase, attempt[a].root, state[a], keyOf[a])

-----------------------------------------------------------------------------
(***************************************************************************)
(* Checks are taken from the front of the tail and appended to its end.    *)
(***************************************************************************)
Check == {"run", "recheck", "drain", "final"}
Event == Terminal \cup {"start", "chunk"}

LEMMA TailOf ==
  ASSUME NEW S, NEW s \in Seq(S), s # <<>>
  PROVE  /\ Tail(s) \in Seq(S) /\ Len(Tail(s)) = Len(s) - 1
         /\ \A i \in 1..Len(Tail(s)) : i + 1 \in 1..Len(s) /\ Tail(s)[i] = s[i + 1]
BY HeadTailProperties

LEMMA AppendTo ==
  ASSUME NEW S, NEW s \in Seq(S), NEW e \in S
  PROVE  /\ Append(s, e) \in Seq(S) /\ Append(s, e) # <<>> /\ Len(Append(s, e)) = Len(s) + 1
         /\ \A i \in 1..Len(s) : Append(s, e)[i] = s[i]
         /\ Append(s, e)[Len(s) + 1] = e
BY AppendProperties

LEMMA NonEmpty ==
  ASSUME NEW S, NEW s \in Seq(S)
  PROVE  Len(s) \in Nat /\ (s # <<>> <=> Len(s) > 0)
BY EmptySeq

LEMMA EndedRecord ==
  ASSUME NEW rec, rec \in AttemptRecord, HostTold(rec), ChecksInTurn(rec),
         rec.active, rec.phase # "new", NEW kind \in Terminal, NEW busy
  PROVE  /\ RecordOK(Ended(rec, kind), busy)
         /\ ~Ended(rec, kind).active /\ Ended(rec, kind).phase = rec.phase
         /\ Ended(rec, kind).root = rec.root /\ Ended(rec, kind).events = Append(rec.events, kind)
<1> DEFINE new == Ended(rec, kind)
           heard == Append(rec.events, kind)
<1>1. /\ new.phase = rec.phase /\ new.root = rec.root /\ new.host = rec.host
      /\ new.active = FALSE /\ new.watching = FALSE /\ new.unseen = FALSE
      /\ new.signals = rec.signals /\ new.captured = rec.captured /\ new.checks = rec.checks
      /\ new.reading = rec.reading /\ new.events = heard
  BY DEF AttemptRecord, Ended
<1>2. rec.events \in Seq(Event) /\ kind \in Event
  BY DEF AttemptRecord, Event
<1>3. /\ heard \in Seq(Event) /\ heard # <<>> /\ Len(heard) = Len(rec.events) + 1
      /\ \A i \in 1..Len(rec.events) : heard[i] = rec.events[i]
      /\ heard[Len(rec.events) + 1] = kind /\ Len(rec.events) \in Nat
  <2> HIDE DEF heard
  <2>1. Len(rec.events) \in Nat
    BY <1>2, LenProperties
  <2> QED
    BY <1>2, <2>1, AppendTo DEF heard
<1>4. new \in AttemptRecord
  BY <1>3 DEF AttemptRecord, Ended, Event
<1> HIDE DEF new, heard
<1>5. kind # "chunk" /\ kind # "start"
  BY DEF Terminal
<1>6. EndHeard(heard)
  BY <1>3 DEF EndHeard
<1>7. ~EndHeard(rec.events)
  BY DEF HostTold
<1>8. HeardInOrder(heard)
  BY <1>3, <1>5, <1>7 DEF HeardInOrder, EndHeard, HostTold
<1>9. HostTold(new)
  BY <1>1, <1>3, <1>6, <1>8 DEF HostTold
<1>10. ChecksInTurn(new)
  BY <1>1 DEF ChecksInTurn
<1>11. StillQuiet(new, busy)
  BY <1>1 DEF StillQuiet
<1> QED
  BY <1>1, <1>4, <1>9, <1>10, <1>11 DEF RecordOK, new, heard

-----------------------------------------------------------------------------
(***************************************************************************)
(* The records and the map of active attempts keep agreeing while attempts *)
(* take their steps and end.                                               *)
(***************************************************************************)
Core == CoordinatorTypeOK /\ RecordsHold /\ ActiveIsHeld

\* One attempt's record changes; if it ends now, it hears kind.
Steps(a, rec, kind) == Become(a, rec) \/ BecomeAndEnd(a, rec, kind)

\* Roots are at most released, and no attempt moves or is another's concern.
Freed == \A r \in Root : activeByRoot'[r] \in {activeByRoot[r], Absent}

LEMMA AttemptSteps ==
  ASSUME Core, NEW a \in Attempt, NEW rec, NEW kind \in Terminal, Steps(a, rec, kind),
         RecordOK(rec, operating[rec.root]), rec.phase # "new", attempt[a].phase # "new",
         rec.active = attempt[a].active, rec.root = attempt[a].root,
         UNCHANGED <<commitLeaseCounts, lease, disposed, operating>>
  PROVE  /\ Core' /\ Freed
         /\ \A b \in Attempt : b # a => attempt'[b] = attempt[b]
         /\ attempt'[a].phase = rec.phase /\ attempt'[a].root = rec.root
         /\ (attempt'[a].events = rec.events)
              \/ (IsActive(a) /\ attempt'[a].events = Append(rec.events, kind))
<1> USE GenerationAssumption
<1>1. /\ attempt \in [Attempt -> AttemptRecord] /\ activeByRoot \in [Root -> Attempt \cup {Absent}]
      /\ rec \in AttemptRecord /\ rec.root \in Root
  BY DEF Core, CoordinatorTypeOK, RecordOK, AttemptRecord
<1>2. CASE Become(a, rec)
  <2>1. /\ attempt' = [attempt EXCEPT ![a] = rec] /\ activeByRoot' = activeByRoot
    BY <1>2 DEF Become
  <2>2. attempt'[a] = rec /\ \A b \in Attempt : b # a => attempt'[b] = attempt[b]
    BY <1>1, <2>1
  <2>3. CoordinatorTypeOK'
    BY <1>1, <2>1 DEF Core, CoordinatorTypeOK
  <2>4. RecordsHold'
    BY <2>2 DEF Core, RecordsHold
  <2>5. ActiveIsHeld'
    BY <1>1, <2>1, <2>2 DEF Core, ActiveIsHeld
  <2>6. Core' /\ Freed
    BY <1>1, <2>1, <2>3, <2>4, <2>5 DEF Core, Freed
  <2>7. attempt'[a].events = rec.events /\ attempt'[a].phase = rec.phase
          /\ attempt'[a].root = rec.root
    BY <2>2
  <2> QED
    BY <2>2, <2>6, <2>7, Zenon
<1>3. CASE BecomeAndEnd(a, rec, kind) /\ IsActive(a)
  <2> DEFINE ended == Ended(rec, kind)
  <2>1. rec.active
    BY <1>3 DEF IsActive
  <2>2. /\ RecordOK(ended, operating[rec.root]) /\ ~ended.active /\ ended.phase = rec.phase
        /\ ended.root = rec.root /\ ended.events = Append(rec.events, kind)
    BY <2>1, EndedRecord DEF RecordOK
  <2>3. /\ attempt' = [attempt EXCEPT ![a] = ended]
        /\ activeByRoot' = [activeByRoot EXCEPT ![rec.root] = Absent]
    BY <1>3 DEF BecomeAndEnd
  <2> HIDE DEF ended
  <2>4. ended \in AttemptRecord
    BY <2>2 DEF RecordOK
  <2>5. attempt'[a] = ended /\ \A b \in Attempt : b # a => attempt'[b] = attempt[b]
    BY <1>1, <2>3
  <2>6. CoordinatorTypeOK'
    BY <1>1, <2>3, <2>4 DEF Core, CoordinatorTypeOK
  <2>7. RecordsHold'
    BY <2>2, <2>5 DEF Core, RecordsHold
  <2>8. ActiveIsHeld'
    <3>1. activeByRoot[rec.root] = a
      BY <1>3 DEF IsActive
    <3>2. /\ activeByRoot'[rec.root] = Absent
          /\ \A r \in Root : r # rec.root => activeByRoot'[r] = activeByRoot[r]
      BY <1>1, <2>3
    <3>3. \A r \in Root : r # rec.root => activeByRoot[r] # a
      BY DEF Core, ActiveIsHeld
    <3>4. \A b \in Attempt : b # a /\ attempt[b].active => attempt[b].root # rec.root
      BY <3>1 DEF Core, ActiveIsHeld
    <3>5. \A b \in Attempt : attempt[b].root \in Root
      BY <1>1 DEF AttemptRecord
    <3> QED
      BY <1>1, <2>2, <2>5, <3>1, <3>2, <3>3, <3>4, <3>5 DEF Core, ActiveIsHeld
  <2>9. Core' /\ Freed
    BY <1>1, <2>3, <2>6, <2>7, <2>8 DEF Core, Freed
  <2>10. attempt'[a].events = Append(rec.events, kind) /\ attempt'[a].phase = rec.phase
         /\ attempt'[a].root = rec.root
    BY <2>2, <2>5
  <2> QED
    BY <1>3, <2>5, <2>9, <2>10, Zenon
<1> QED
  BY <1>2, <1>3 DEF Steps, BecomeAndEnd

LEMMA AttemptsEnd ==
  ASSUME Core, NEW doomed \in SUBSET Attempt, NEW kind \in Terminal, End(doomed, kind),
         lease' \in [Lease -> Root \cup {Absent, "released"}], disposed' \in BOOLEAN,
         commitLeaseCounts' \in [Root -> Nat], operating' = operating
  PROVE  /\ Core' /\ Freed
         /\ \A b \in Attempt :
              /\ attempt'[b].phase = attempt[b].phase /\ attempt'[b].root = attempt[b].root
              /\ attempt'[b].events \in {attempt[b].events, Append(attempt[b].events, kind)}
         /\ \A r \in Root : activeByRoot[r] \in doomed => activeByRoot'[r] = Absent
<1> USE GenerationAssumption
<1> DEFINE ending == {a \in doomed : IsActive(a)}
<1>1. /\ attempt \in [Attempt -> AttemptRecord] /\ activeByRoot \in [Root -> Attempt \cup {Absent}]
      /\ \A a \in Attempt : attempt[a].root \in Root
  BY DEF Core, CoordinatorTypeOK, AttemptRecord
<1>2. /\ attempt' = [a \in Attempt |-> IF a \in ending THEN Ended(attempt[a], kind) ELSE attempt[a]]
      /\ activeByRoot' = [r \in Root |-> IF activeByRoot[r] \in ending THEN Absent ELSE activeByRoot[r]]
  BY DEF End
<1>3. ending \subseteq Attempt /\ \A a \in ending : IsActive(a)
  OBVIOUS
<1>4. \A r \in Root : activeByRoot[r] \in doomed => activeByRoot[r] \in ending
  BY DEF IsActive, Core, ActiveIsHeld
<1> HIDE DEF ending
<1>5. ASSUME NEW a \in ending
      PROVE  /\ RecordOK(attempt'[a], operating'[attempt'[a].root]) /\ ~attempt'[a].active
             /\ attempt'[a].phase = attempt[a].phase /\ attempt'[a].root = attempt[a].root
             /\ attempt'[a].events = Append(attempt[a].events, kind)
  <2>1. attempt'[a] = Ended(attempt[a], kind) /\ attempt[a].active
    BY <1>2, <1>3 DEF IsActive
  <2>2. RecordOK(attempt[a], operating[attempt[a].root])
    BY <1>3 DEF Core, RecordsHold
  <2>3. attempt[a].phase # "new"
    BY <2>1, <2>2 DEF RecordOK, HostTold
  <2>4. attempt[a] \in AttemptRecord /\ HostTold(attempt[a]) /\ ChecksInTurn(attempt[a])
    BY <2>2 DEF RecordOK
  <2> DEFINE ended == Ended(attempt[a], kind)
             busy == operating'[attempt'[a].root]
  <2>5. /\ RecordOK(ended, busy) /\ ~ended.active /\ ended.phase = attempt[a].phase
        /\ ended.root = attempt[a].root /\ ended.events = Append(attempt[a].events, kind)
    BY <2>1, <2>3, <2>4, EndedRecord
  <2> QED
    BY <2>1, <2>5
<1>6. \A a \in Attempt : a \notin ending => attempt'[a] = attempt[a]
  BY <1>2
<1>7. RecordsHold'
  BY <1>5, <1>6 DEF Core, RecordsHold
<1>8. CoordinatorTypeOK'
  <2>1. \A a \in Attempt : attempt'[a] \in AttemptRecord
    BY <1>7 DEF RecordsHold, RecordOK
  <2>2. attempt' \in [Attempt -> AttemptRecord]
    BY <1>2, <2>1
  <2>3. activeByRoot' \in [Root -> Attempt \cup {Absent}]
    BY <1>1, <1>2
  <2> QED
    BY <2>2, <2>3 DEF Core, CoordinatorTypeOK
<1>9. ActiveIsHeld'
  <2>1. \A r \in Root : activeByRoot'[r] = IF activeByRoot[r] \in ending THEN Absent ELSE activeByRoot[r]
    BY <1>2
  <2>2. \A a \in Attempt : attempt'[a].active => a \notin ending /\ attempt'[a] = attempt[a]
    BY <1>5, <1>6
  <2> QED
    BY <1>1, <1>6, <2>1, <2>2 DEF Core, ActiveIsHeld
<1> QED
  BY <1>1, <1>2, <1>4, <1>5, <1>6, <1>7, <1>8, <1>9 DEF Core, Freed

LEMMA LastAdded ==
  ASSUME NEW s \in Seq(Event), NEW k \in Event
  PROVE  Last(<<"none">> \o Append(s, k)) = k
<1> DEFINE t == Append(s, k)
<1>1. t \in Seq(Event) /\ Len(t) = Len(s) + 1 /\ t[Len(t)] = k /\ Len(s) \in Nat
  BY AppendProperties, LenProperties
<1> HIDE DEF t
<1>2. /\ <<"none">> \in Seq(Event \cup {"none"}) /\ t \in Seq(Event \cup {"none"})
      /\ Len(<<"none">>) = 1
  BY <1>1
<1> DEFINE u == <<"none">> \o t
<1>3. Len(u) = 1 + Len(t) /\ u[1 + Len(t)] = t[Len(t)]
  BY <1>1, <1>2, ConcatProperties
<1> QED
  BY <1>1, <1>3 DEF Last, t

\* Who is not told it is done may be told anything, whatever git is at.
LEMMA NobodyDone ==
  ASSUME Core,
         \A b \in Attempt :
           \/ attempt'[b].events = attempt[b].events
           \/ /\ \E k \in Event \ {"done"} : attempt'[b].events = Append(attempt[b].events, k)
           \/ attempt[b].unseen \/ ~operating[attempt[b].root]
  PROVE  DoneWhileQuiet
<1>1. \A b \in Attempt : attempt[b].events \in Seq(Event)
  BY DEF Core, CoordinatorTypeOK, AttemptRecord, Event
<1> QED
  BY <1>1, LastAdded DEF DoneWhileQuiet

-----------------------------------------------------------------------------
(***************************************************************************)
(* What each step has to leave behind, and the steps of one attempt.       *)
(***************************************************************************)
Good == Core' /\ Freed /\ Chained' /\ DoneWhileQuiet

Elsewhere(a) ==
  /\ UNCHANGED <<commitLeaseCounts, lease, disposed, operating>>
  /\ \A b \in Attempt : b # a => state'[b] = state[b] /\ keyOf'[b] = keyOf[b]

LEMMA GoodSteps ==
  ASSUME Core, Chained, NEW a \in Attempt, NEW rec, NEW kind \in Terminal, Steps(a, rec, kind),
         RecordOK(rec, operating[rec.root]), rec.phase # "new", attempt[a].phase # "new",
         rec.active = attempt[a].active, rec.root = attempt[a].root, rec.events = attempt[a].events,
         Linked(rec.phase, rec.root, state'[a], keyOf'[a]), Elsewhere(a),
         kind = "done" /\ IsActive(a) => attempt[a].unseen \/ ~operating[attempt[a].root]
  PROVE  Good
<1>1. /\ Core' /\ Freed
      /\ \A b \in Attempt : b # a => attempt'[b] = attempt[b]
      /\ attempt'[a].phase = rec.phase /\ attempt'[a].root = rec.root
      /\ (attempt'[a].events = rec.events)
           \/ (IsActive(a) /\ attempt'[a].events = Append(rec.events, kind))
  BY AttemptSteps DEF Elsewhere
<1>2. Chained'
  BY <1>1 DEF Chained, Elsewhere
<1>3. DoneWhileQuiet
  <2>1. kind \in Event
    BY DEF Event
  <2>2. \A b \in Attempt :
           \/ attempt'[b].events = attempt[b].events
           \/ /\ \E k \in Event \ {"done"} : attempt'[b].events = Append(attempt[b].events, k)
           \/ attempt[b].unseen \/ ~operating[attempt[b].root]
    BY <1>1, <2>1
  <2> QED
    BY <2>2, NobodyDone
<1> QED
  BY <1>1, <1>2, <1>3 DEF Good

-----------------------------------------------------------------------------
(***************************************************************************)
(* The checks of one attempt: a check is taken off the front, a signal or  *)
(* finalize appends the next.                                              *)
(***************************************************************************)
OnlyRechecks(s) == \A i \in 1..Len(s) : s[i] = "recheck"

LEMMA PhaseMoves ==
  ASSUME NEW rec, HostTold(rec), rec.phase # "new", NEW new, new.phase # "new",
         new.active = rec.active, new.watching = rec.watching, new.events = rec.events,
         new.phase \in Silent => rec.phase \in Silent,
         new.phase = "streaming" => rec.phase = "streaming"
  PROVE  HostTold(new)
BY DEF HostTold

LEMMA CheckTaken ==
  ASSUME NEW rec, rec \in AttemptRecord, ChecksInTurn(rec), rec.checks # <<>>,
         rec.checks[1] # "recheck"
  PROVE  OnlyRechecks(Tail(rec.checks))
<1>1. rec.checks \in Seq(Check)
  BY DEF AttemptRecord, Check
<1>2. /\ Len(rec.checks) \in Nat /\ Len(rec.checks) > 0
      /\ \A i \in 1..Len(rec.checks) : rec.checks[i] \in Check
  BY <1>1, NonEmpty, ElementOfSeq
<1>3. \A i \in 1..Len(Tail(rec.checks)) :
        /\ i \in Nat /\ i + 1 \in 1..Len(rec.checks) /\ i + 1 # 1
        /\ Tail(rec.checks)[i] = rec.checks[i + 1]
  BY <1>1, TailOf
<1>4. SUFFICES ASSUME NEW j \in 1..Len(rec.checks), j # 1 PROVE rec.checks[j] = "recheck"
  BY <1>3 DEF OnlyRechecks
<1> DEFINE s == rec.checks
<1>5. /\ s[j] # "run"
      /\ \A i \in 1..Len(s) : s[i] = "run" => rec.phase = "checking"
      /\ \A i \in 1..Len(s) : s[i] \in {"drain", "final"} => rec.phase = "finalizing"
      /\ \A i \in 1..Len(s) :
           s[i] \in {"drain", "final"} /\ s[j] \in {"drain", "final"} => i = j
  <2>1. \A i \in 1..Len(s) : s[i] = "run" => i = 1 /\ rec.phase = "checking"
    BY Zenon DEF ChecksInTurn
  <2>2. s[j] # "run"
    BY <1>4, <2>1, Zenon
  <2>3. \A i \in 1..Len(s) : s[i] \in {"drain", "final"} => rec.phase = "finalizing"
    BY Zenon DEF ChecksInTurn
  <2>4. \A i \in 1..Len(s) : s[i] \in {"drain", "final"} /\ s[j] \in {"drain", "final"} => i = j
    BY Zenon DEF ChecksInTurn
  <2> QED
    BY <2>1, <2>2, <2>3, <2>4, Zenon
<1>6. s[1] \in Check /\ s[j] \in Check /\ 1 \in 1..Len(s)
  BY <1>2
<1> HIDE DEF s
<1>7. CASE rec.checks[1] = "run"
  BY <1>4, <1>5, <1>6, <1>7 DEF Check, s
<1>8. CASE rec.checks[1] \in {"drain", "final"}
  BY <1>4, <1>5, <1>6, <1>8 DEF Check, s
<1> QED
  BY <1>6, <1>7, <1>8 DEF Check, s

LEMMA OtherPhase ==
  ASSUME NEW rec, rec \in AttemptRecord, ChecksInTurn(rec),
         rec.phase \notin {"checking", "finalizing"}
  PROVE  OnlyRechecks(rec.checks)
<1>1. \A i \in 1..Len(rec.checks) : rec.checks[i] \in Check
  BY ElementOfSeq DEF AttemptRecord, Check
<1> QED
  BY <1>1 DEF ChecksInTurn, OnlyRechecks, Check

LEMMA RechecksInTurn ==
  ASSUME NEW rec, OnlyRechecks(rec.checks), rec.checks \in Seq(Check),
         rec.reading # "none" => rec.checks # <<>>, rec.captured <= rec.signals, NEW busy
  PROVE  ChecksInTurn(rec) /\ StillQuiet(rec, busy)
<1>1. rec.checks # <<>> => 1 \in 1..Len(rec.checks)
  BY NonEmpty
<1> QED
  BY <1>1 DEF ChecksInTurn, StillQuiet, OnlyRechecks

LEMMA FinalizeAwaits ==
  ASSUME NEW rec, NEW s \in Seq(Check), OnlyRechecks(s), NEW c \in {"drain", "final"},
         rec.checks = Append(s, c), rec.phase = "finalizing", rec.captured <= rec.signals,
         rec.reading # "none" => s # <<>>, NEW busy
  PROVE  ChecksInTurn(rec) /\ StillQuiet(rec, busy)
<1>1. /\ rec.checks \in Seq(Check) /\ rec.checks # <<>> /\ Len(rec.checks) = Len(s) + 1
      /\ \A i \in 1..Len(s) : rec.checks[i] = s[i]
      /\ rec.checks[Len(s) + 1] = c
  BY AppendTo DEF Check
<1>2. Len(s) \in Nat /\ (s # <<>> => 1 \in 1..Len(s))
  BY NonEmpty
<1>3. \A i \in 1..Len(rec.checks) : i \in 1..Len(s) \/ i = Len(s) + 1
  BY <1>1, <1>2
<1>4. \A i \in 1..Len(s) : rec.checks[i] = "recheck"
  BY <1>1 DEF OnlyRechecks
<1>5. rec.reading # "none" => rec.checks[1] = "recheck"
  BY <1>2, <1>4
<1>6. StillQuiet(rec, busy)
  BY <1>5 DEF StillQuiet
<1>7. ChecksInTurn(rec)
  BY <1>1, <1>3, <1>4, <1>5 DEF ChecksInTurn
<1> QED
  BY <1>6, <1>7

LEMMA RecheckTaken ==
  ASSUME NEW rec, rec \in AttemptRecord, ChecksInTurn(rec), rec.checks # <<>>,
         NEW new, new.checks = Tail(rec.checks), new.reading = "none",
         new.phase = rec.phase, new.captured = rec.captured, new.signals = rec.signals, NEW busy
  PROVE  ChecksInTurn(new) /\ StillQuiet(new, busy)
<1>1. rec.checks \in Seq(Check)
  BY DEF AttemptRecord, Check
<1>2. \A i \in 1..Len(new.checks) :
        /\ i \in Nat /\ i + 1 \in 1..Len(rec.checks) /\ i + 1 # 1
        /\ new.checks[i] = rec.checks[i + 1]
  BY <1>1, TailOf
<1>3. \A i, j \in 1..Len(new.checks) : i + 1 = j + 1 => i = j
  OBVIOUS
<1> QED
  BY <1>2, <1>3 DEF ChecksInTurn, StillQuiet

LEMMA SignalAdded ==
  ASSUME NEW rec, rec \in AttemptRecord, ChecksInTurn(rec),
         NEW new, new.checks = Append(rec.checks, "recheck"), new.reading = rec.reading,
         new.phase = rec.phase, new.captured = rec.captured, new.signals = rec.signals + 1, NEW busy
  PROVE  ChecksInTurn(new) /\ StillQuiet(new, busy)
<1>1. /\ rec.checks \in Seq(Check) /\ rec.captured \in 0..MaxSignals
           /\ rec.signals \in 0..MaxSignals
  BY DEF AttemptRecord, Check
<1>2. /\ new.checks # <<>> /\ Len(new.checks) = Len(rec.checks) + 1
      /\ \A i \in 1..Len(rec.checks) : new.checks[i] = rec.checks[i]
      /\ new.checks[Len(rec.checks) + 1] = "recheck"
  BY <1>1, AppendTo DEF Check
<1>3. Len(rec.checks) \in Nat /\ (rec.checks # <<>> => 1 \in 1..Len(rec.checks))
  BY <1>1, NonEmpty
<1>4. \A i \in 1..Len(new.checks) : new.checks[i] # "recheck" =>
        i \in 1..Len(rec.checks) /\ new.checks[i] = rec.checks[i]
  BY <1>2, <1>3
<1>5. rec.captured <= rec.signals /\ new.captured <= new.signals /\ new.captured # new.signals
  BY <1>1, GenerationAssumption DEF ChecksInTurn
<1>6. rec.reading # "none" => new.checks[1] # "drain"
  BY <1>2, <1>3 DEF ChecksInTurn
<1>7. ChecksInTurn(new)
  BY <1>2, <1>4, <1>5, <1>6 DEF ChecksInTurn
<1> QED
  BY <1>5, <1>7 DEF StillQuiet

-----------------------------------------------------------------------------
\* What is known of the attempt that takes a step.
LEMMA Fields ==
  ASSUME Core, NEW a \in Attempt
  PROVE  /\ RecordOK(attempt[a], operating[attempt[a].root]) /\ attempt[a] \in AttemptRecord
         /\ HostTold(attempt[a]) /\ ChecksInTurn(attempt[a])
         /\ attempt[a].checks \in Seq(Check) /\ attempt[a].events \in Seq(Event)
         /\ attempt[a].captured \in 0..MaxSignals /\ attempt[a].signals \in 0..MaxSignals
         /\ attempt[a].root \in Root /\ attempt[a].active \in BOOLEAN
         /\ attempt[a].captured <= attempt[a].signals
         /\ attempt[a].checks # <<>> => 1 \in 1..Len(attempt[a].checks)
<1>1. /\ RecordOK(attempt[a], operating[attempt[a].root]) /\ attempt[a] \in AttemptRecord
      /\ HostTold(attempt[a]) /\ ChecksInTurn(attempt[a])
  BY DEF Core, RecordsHold, RecordOK
<1>2. /\ attempt[a].checks \in Seq(Check) /\ attempt[a].events \in Seq(Event)
      /\ attempt[a].captured \in 0..MaxSignals /\ attempt[a].signals \in 0..MaxSignals
      /\ attempt[a].root \in Root /\ attempt[a].active \in BOOLEAN
  BY <1>1 DEF AttemptRecord, Check, Event
<1>3. attempt[a].captured <= attempt[a].signals
  BY <1>1 DEF ChecksInTurn
<1>4. attempt[a].checks # <<>> => 1 \in 1..Len(attempt[a].checks)
  BY <1>2, NonEmpty
<1> QED
  BY <1>1, <1>2, <1>3, <1>4

LEMMA WatcherFailsStep ==
  ASSUME Core, Chained, NEW a \in Attempt, WatcherFails(a)
  PROVE  Good
<1>1. /\ attempt[a].watching /\ BecomeAndEnd(a, attempt[a], "error")
      /\ UNCHANGED <<commitLeaseCounts, lease, disposed, operating, acquisitionVars>>
  BY DEF WatcherFails
<1>2. attempt[a].phase # "new"
  BY <1>1, Fields DEF HostTold
<1>3. /\ Linked(attempt[a].phase, attempt[a].root, state'[a], keyOf'[a]) /\ Elsewhere(a)
      /\ RecordOK(attempt[a], operating[attempt[a].root])
  BY <1>1, Fields DEF acquisitionVars, Chained, Elsewhere
<1>4. Steps(a, attempt[a], "error") /\ "error" \in Terminal
  BY <1>1 DEF Steps, Terminal
<1> QED
  BY <1>2, <1>3, <1>4, GoodSteps

LEMMA SignalStep ==
  ASSUME Core, Chained, NEW a \in Attempt, Signal(a)
  PROVE  Good
<1> DEFINE rec == attempt[a]
           new == [rec EXCEPT !.signals = @ + 1, !.unseen = FALSE, !.checks = Append(@, "recheck")]
<1>1. /\ rec.watching /\ rec.signals < MaxSignals /\ Become(a, new)
      /\ UNCHANGED <<commitLeaseCounts, lease, disposed, operating, acquisitionVars>>
  BY DEF Signal
<1>2. /\ rec \in AttemptRecord /\ HostTold(rec) /\ ChecksInTurn(rec)
      /\ rec.checks \in Seq(Check) /\ rec.signals \in 0..MaxSignals
  BY Fields
<1>3. Append(rec.checks, "recheck") \in Seq(Check) /\ rec.signals + 1 \in 0..MaxSignals
  BY <1>1, <1>2, AppendTo, GenerationAssumption DEF Check
<1>4. new \in AttemptRecord
  BY <1>2, <1>3 DEF AttemptRecord, Check
<1>5. /\ new.phase = rec.phase /\ new.root = rec.root /\ new.active = rec.active
      /\ new.watching = rec.watching /\ new.events = rec.events /\ new.reading = rec.reading
      /\ new.captured = rec.captured /\ new.signals = rec.signals + 1
      /\ new.checks = Append(rec.checks, "recheck")
  BY <1>2 DEF AttemptRecord
<1> HIDE DEF new
<1>6. rec.phase # "new"
  BY <1>1, <1>2 DEF HostTold
<1>7. HostTold(new)
  BY <1>2, <1>5, <1>6, PhaseMoves
<1>8. ChecksInTurn(new) /\ StillQuiet(new, operating[new.root])
  BY <1>2, <1>5, SignalAdded
<1>9. Linked(new.phase, new.root, state'[a], keyOf'[a]) /\ Elsewhere(a)
  BY <1>1, <1>5 DEF acquisitionVars, Chained, Elsewhere
<1>10. Steps(a, new, "error") /\ "error" \in Terminal
  BY <1>1 DEF Steps, Terminal
<1> QED
  BY <1>4, <1>5, <1>6, <1>7, <1>8, <1>9, <1>10, GoodSteps DEF RecordOK

LEMMA CheckReadsStep ==
  ASSUME Core, Chained, NEW a \in Attempt, CheckReads(a)
  PROVE  Good
<1> DEFINE rec == attempt[a]
           answer == IF IsActive(a) /\ operating[rec.root] THEN "busy" ELSE "clean"
           new == [rec EXCEPT !.reading = answer]
<1>1. /\ rec.checks # <<>> /\ rec.checks[1] # "drain" /\ rec.reading = "none" /\ Become(a, new)
      /\ UNCHANGED <<commitLeaseCounts, lease, disposed, operating, acquisitionVars>>
  BY DEF CheckReads
<1>2. /\ rec \in AttemptRecord /\ HostTold(rec) /\ ChecksInTurn(rec)
  BY Fields
<1>3. new \in AttemptRecord
  BY <1>2 DEF AttemptRecord
<1>4. /\ new.phase = rec.phase /\ new.root = rec.root /\ new.active = rec.active
      /\ new.watching = rec.watching /\ new.events = rec.events /\ new.reading = answer
      /\ new.captured = rec.captured /\ new.signals = rec.signals /\ new.checks = rec.checks
  BY <1>2 DEF AttemptRecord
<1>5. rec.active /\ answer = "clean" => ~operating[rec.root]
  BY DEF IsActive, Core, ActiveIsHeld
<1> HIDE DEF new, answer
<1>6. rec.phase # "new"
  BY <1>1, <1>2 DEF HostTold
<1>7. HostTold(new)
  BY <1>2, <1>4, <1>6, PhaseMoves
<1>8. ChecksInTurn(new) /\ StillQuiet(new, operating[new.root])
  BY <1>1, <1>2, <1>4, <1>5 DEF ChecksInTurn, StillQuiet
<1>9. Linked(new.phase, new.root, state'[a], keyOf'[a]) /\ Elsewhere(a)
  BY <1>1, <1>4 DEF acquisitionVars, Chained, Elsewhere
<1>10. Steps(a, new, "error") /\ "error" \in Terminal
  BY <1>1 DEF Steps, Terminal
<1> QED
  BY <1>3, <1>4, <1>6, <1>7, <1>8, <1>9, <1>10, GoodSteps DEF RecordOK

LEMMA DrainedStep ==
  ASSUME Core, Chained, NEW a \in Attempt, Drained(a)
  PROVE  Good
<1> DEFINE rec == attempt[a]
           rest == Tail(rec.checks)
           last == [rec EXCEPT !.checks = Append(rest, "final")]
           over == [Over(a) EXCEPT !.checks = rest]
<1>1. /\ rec.checks # <<>> /\ rec.checks[1] = "drain"
      /\ Become(a, last) \/ Become(a, over)
      /\ UNCHANGED <<commitLeaseCounts, lease, disposed, operating, acquisitionVars>>
  BY DEF Drained
<1>2. /\ rec \in AttemptRecord /\ HostTold(rec) /\ ChecksInTurn(rec) /\ rec.checks \in Seq(Check)
      /\ rec.captured <= rec.signals /\ 1 \in 1..Len(rec.checks)
  BY <1>1, Fields
<1>3. rec.phase = "finalizing" /\ rec.reading = "none"
  BY <1>1, <1>2 DEF ChecksInTurn
<1>4. rest \in Seq(Check) /\ OnlyRechecks(rest) /\ Append(rest, "final") \in Seq(Check)
  BY <1>1, <1>2, TailOf, CheckTaken, AppendTo DEF Check
<1>5. last \in AttemptRecord /\ over \in AttemptRecord
  BY <1>2, <1>4 DEF AttemptRecord, Over, Check
<1>6. /\ last.phase = rec.phase /\ last.root = rec.root /\ last.active = rec.active
      /\ last.watching = rec.watching /\ last.events = rec.events /\ last.reading = rec.reading
      /\ last.captured = rec.captured /\ last.signals = rec.signals
      /\ last.checks = Append(rest, "final")
      /\ over.phase = "over" /\ over.root = rec.root /\ over.active = rec.active
      /\ over.watching = rec.watching /\ over.events = rec.events /\ over.reading = rec.reading
      /\ over.captured = rec.captured /\ over.signals = rec.signals /\ over.checks = rest
  BY <1>2 DEF AttemptRecord, Over
<1> HIDE DEF last, over, rest
<1>7. HostTold(last) /\ HostTold(over)
  BY <1>2, <1>3, <1>6, PhaseMoves DEF Silent, Acquiring
<1>8. /\ ChecksInTurn(last) /\ StillQuiet(last, operating[last.root])
      /\ ChecksInTurn(over) /\ StillQuiet(over, operating[over.root])
  BY <1>2, <1>3, <1>4, <1>6, FinalizeAwaits, RechecksInTurn
<1>9. /\ Linked(last.phase, last.root, state'[a], keyOf'[a]) /\ Elsewhere(a)
      /\ Linked(over.phase, over.root, state'[a], keyOf'[a])
  BY <1>1, <1>6 DEF acquisitionVars, Chained, Elsewhere, Linked, Acquiring
<1>10. Steps(a, last, "error") \/ Steps(a, over, "error")
  BY <1>1 DEF Steps
<1>11. "error" \in Terminal /\ rec.phase # "new" /\ last.phase # "new" /\ over.phase # "new"
  BY <1>3, <1>6 DEF Terminal
<1>12. RecordOK(last, operating[last.root]) /\ RecordOK(over, operating[over.root])
  BY <1>5, <1>7, <1>8 DEF RecordOK
<1>13. CASE Steps(a, last, "error")
  BY <1>6, <1>9, <1>11, <1>12, <1>13, GoodSteps
<1>14. CASE Steps(a, over, "error")
  BY <1>6, <1>9, <1>11, <1>12, <1>14, GoodSteps
<1> QED
  BY <1>10, <1>13, <1>14

\* The attempt goes over, or on with what it was asked for, its first check answered.
LEMMA AnsweredRecord ==
  ASSUME Core, NEW a \in Attempt, attempt[a].checks # <<>>, attempt[a].checks[1] # "recheck",
         NEW phase \in {"queued", "over"}, phase = "queued"
           => attempt[a].checks[1] = "run", NEW busy
  PROVE  LET new == [Answered(a) EXCEPT !.phase = phase] IN
         /\ RecordOK(new, busy) /\ new.phase = phase /\ new.root = attempt[a].root
         /\ new.active = attempt[a].active /\ new.events = attempt[a].events
         /\ attempt[a].phase \in {"checking", "finalizing"}
         /\ attempt[a].checks[1] = "run" <=> attempt[a].phase = "checking"
<1> DEFINE rec == attempt[a]
           rest == Tail(rec.checks)
           new == [Answered(a) EXCEPT !.phase = phase]
<1>2. /\ rec \in AttemptRecord /\ HostTold(rec) /\ ChecksInTurn(rec) /\ rec.checks \in Seq(Check)
      /\ rec.captured <= rec.signals /\ 1 \in 1..Len(rec.checks)
  BY Fields
<1>3. /\ rec.phase \in {"checking", "finalizing"}
      /\ rec.checks[1] = "run" <=> rec.phase = "checking"
  <2>1. rec.checks[1] \in Check
    BY <1>2, ElementOfSeq
  <2>2. /\ rec.checks[1] = "run" => rec.phase = "checking"
        /\ rec.checks[1] \in {"drain", "final"} => rec.phase = "finalizing"
    BY <1>2, Zenon DEF ChecksInTurn
  <2> QED
    BY <2>1, <2>2 DEF Check
<1>4. rest \in Seq(Check) /\ OnlyRechecks(rest)
  BY <1>2, TailOf, CheckTaken
<1>5. new \in AttemptRecord
  BY <1>2, <1>4 DEF AttemptRecord, Answered, Check
<1>6. /\ new.phase = phase /\ new.root = rec.root /\ new.active = rec.active
      /\ new.watching = rec.watching /\ new.events = rec.events /\ new.reading = "none"
      /\ new.captured = rec.captured /\ new.signals = rec.signals /\ new.checks = rest
  BY <1>2 DEF AttemptRecord, Answered
<1> HIDE DEF new, rest
<1>7. HostTold(new)
  <2>1. new.phase \in Silent => rec.phase = "checking"
    BY <1>3, <1>6 DEF Silent, Acquiring
  <2> QED
    BY <2>1, <1>2, <1>3, <1>6, PhaseMoves DEF Silent, Acquiring
<1>8. ChecksInTurn(new) /\ StillQuiet(new, busy)
  BY <1>2, <1>4, <1>6, RechecksInTurn
<1> QED
  BY <1>3, <1>5, <1>6, <1>7, <1>8 DEF RecordOK, new

\* finalize's own check answers: it is taken off, and another may be awaited.
LEMMA FinalAnswersStep ==
  ASSUME Core, Chained, NEW a \in Attempt, attempt[a].checks # <<>>, attempt[a].checks[1] = "final",
         attempt[a].reading # "none", FinalAnswers(a), Elsewhere(a), UNCHANGED acquisitionVars
  PROVE  Good
<1> DEFINE rec == attempt[a]
           over == [Answered(a) EXCEPT !.phase = "over"]
           rest == Tail(rec.checks)
           again == Finalizing(Answered(a))
<1>1. /\ RecordOK(over, operating[over.root]) /\ over.phase = "over" /\ over.root = rec.root
      /\ over.active = rec.active /\ over.events = rec.events /\ rec.phase = "finalizing"
  BY AnsweredRecord
<1>2. Linked(over.phase, over.root, state'[a], keyOf'[a])
  BY <1>1 DEF acquisitionVars, Chained, Linked, Acquiring
<1> HIDE DEF over, again
<1>3. CASE IsActive(a) /\ rec.reading = "clean" /\ rec.captured # rec.signals
  <2>1. Steps(a, again, "error") /\ "error" \in Terminal
    BY <1>3 DEF FinalAnswers, Steps, again, Terminal
  <2>2. /\ rec \in AttemptRecord /\ HostTold(rec) /\ ChecksInTurn(rec) /\ rec.checks \in Seq(Check)
        /\ rec.signals \in 0..MaxSignals
    BY Fields
  <2>3. rest \in Seq(Check) /\ OnlyRechecks(rest) /\ Append(rest, "drain") \in Seq(Check)
    BY <2>2, TailOf, CheckTaken, AppendTo DEF Check
  <2> HIDE DEF rest
  <2>4. /\ again.phase = "finalizing" /\ again.root = rec.root /\ again.active = rec.active
        /\ again.watching = rec.watching /\ again.events = rec.events /\ again.reading = "none"
        /\ again.captured = rec.signals /\ again.signals = rec.signals
        /\ again.checks = Append(rest, "drain")
    BY <2>2 DEF AttemptRecord, Answered, Finalizing, again, rest
  <2>5. again \in AttemptRecord
    BY <2>2, <2>3 DEF AttemptRecord, Answered, Finalizing, Check, again, rest
  <2>6. HostTold(again)
    BY <1>1, <2>2, <2>4, PhaseMoves DEF Silent, Acquiring
  <2>7. ChecksInTurn(again) /\ StillQuiet(again, operating[again.root])
    <3>1. again.captured <= again.signals
      BY <2>2, <2>4
    <3> QED
      BY <2>3, <2>4, <3>1, FinalizeAwaits
  <2>8. Linked(again.phase, again.root, state'[a], keyOf'[a])
    BY <2>4 DEF acquisitionVars, Chained, Linked, Acquiring
  <2> QED
    BY <1>1, <2>1, <2>4, <2>5, <2>6, <2>7, <2>8, GoodSteps DEF RecordOK
<1>4. CASE /\ BecomeAndEnd(a, over, "cancelled")
  <2>1. Steps(a, over, "cancelled") /\ "cancelled" \in Terminal
    BY <1>4 DEF Steps, Terminal
  <2> QED
    BY <1>1, <1>2, <2>1, GoodSteps
<1>5. CASE /\ ~(IsActive(a) /\ rec.reading = "clean" /\ rec.captured # rec.signals)
           /\ rec.reading # "busy" /\ BecomeAndEnd(a, over, "done")
  <2>1. Steps(a, over, "done") /\ "done" \in Terminal
    BY <1>5 DEF Steps, Terminal
  <2>2. IsActive(a) => rec.unseen \/ ~operating[rec.root]
    <3>1. rec \in AttemptRecord /\ StillQuiet(rec, operating[rec.root])
      BY Fields DEF RecordOK
    <3>2. rec.reading = "clean"
      BY <1>5, <3>1 DEF AttemptRecord
    <3>3. IsActive(a) => rec.active
      BY DEF IsActive
    <3> QED
      BY <1>5, <3>1, <3>2, <3>3 DEF StillQuiet
  <2> QED
    BY <1>1, <1>2, <2>1, <2>2, GoodSteps
<1> QED
  BY <1>3, <1>4, <1>5 DEF FinalAnswers, over

LEMMA RecheckAnswersStep ==
  ASSUME Core, Chained, NEW a \in Attempt, attempt[a].checks # <<>>,
         NEW kind \in {"cancelled", "error"}, Steps(a, Answered(a), kind),
         Elsewhere(a), UNCHANGED acquisitionVars
  PROVE  Good
<1> DEFINE rec == attempt[a]
           new == Answered(a)
<1>1. /\ rec \in AttemptRecord /\ HostTold(rec) /\ ChecksInTurn(rec) /\ rec.checks \in Seq(Check)
  BY Fields
<1>2. Tail(rec.checks) \in Seq(Check)
  BY <1>1, TailOf
<1>3. new \in AttemptRecord
  BY <1>1, <1>2 DEF AttemptRecord, Answered, Check
<1>4. /\ new.phase = rec.phase /\ new.root = rec.root /\ new.active = rec.active
      /\ new.watching = rec.watching /\ new.events = rec.events /\ new.reading = "none"
      /\ new.captured = rec.captured /\ new.signals = rec.signals
      /\ new.checks = Tail(rec.checks)
  BY <1>1 DEF AttemptRecord, Answered
<1> HIDE DEF new
<1>5. rec.phase # "new"
  BY <1>1 DEF HostTold
<1>6. HostTold(new)
  BY <1>1, <1>4, <1>5, PhaseMoves
<1>7. ChecksInTurn(new) /\ StillQuiet(new, operating[new.root])
  BY <1>1, <1>4, RecheckTaken
<1>8. Linked(new.phase, new.root, state'[a], keyOf'[a])
  BY <1>4 DEF acquisitionVars, Chained
<1>9. Steps(a, new, kind) /\ kind \in Terminal /\ kind # "done"
  BY DEF Terminal, new
<1> QED
  BY <1>3, <1>4, <1>5, <1>6, <1>7, <1>8, <1>9, GoodSteps DEF RecordOK

\* The check of run, and any check but a recheck that fails.
LEMMA AnsweredStep ==
  ASSUME Core, Chained, NEW a \in Attempt, attempt[a].checks # <<>>,
      attempt[a].checks[1] # "recheck",
         Steps(a, [Answered(a) EXCEPT !.phase = "over"], "error"),
         Elsewhere(a), UNCHANGED acquisitionVars
  PROVE  Good
<1> DEFINE over == [Answered(a) EXCEPT !.phase = "over"]
<1>1. /\ RecordOK(over, operating[over.root]) /\ over.phase = "over" /\ over.root = attempt[a].root
      /\ over.active = attempt[a].active /\ over.events = attempt[a].events
      /\ attempt[a].phase # "new"
  BY AnsweredRecord
<1>2. Linked(over.phase, over.root, state'[a], keyOf'[a])
  BY <1>1 DEF acquisitionVars, Chained, Linked, Acquiring
<1> HIDE DEF over
<1> QED
  BY <1>1, <1>2, GoodSteps DEF Terminal, over

LEMMA RunQueuesStep ==
  ASSUME Core, Chained, Acquisitions!TypeOK, NEW a \in Attempt,
         attempt[a].checks # <<>>, attempt[a].checks[1] = "run",
         Become(a, [Answered(a) EXCEPT !.phase = "queued"]),
         Acquisitions!Register(a, attempt[a].root),
         UNCHANGED <<commitLeaseCounts, lease, disposed, operating>>
  PROVE  Good
<1> DEFINE new == [Answered(a) EXCEPT !.phase = "queued"]
<1>1. /\ RecordOK(new, operating[new.root]) /\ new.phase = "queued" /\ new.root = attempt[a].root
      /\ new.active = attempt[a].active /\ new.events = attempt[a].events
      /\ attempt[a].phase # "new"
  BY AnsweredRecord
<1>2. /\ state'[a] = "waiting" /\ keyOf'[a] = attempt[a].root
      /\ \A b \in Attempt : b # a => state'[b] = state[b] /\ keyOf'[b] = keyOf[b]
  BY Fields DEF Acquisitions!Register, Acquisitions!TypeOK
<1>3. Linked(new.phase, new.root, state'[a], keyOf'[a]) /\ Elsewhere(a)
  BY <1>1, <1>2 DEF Linked, Elsewhere, Acquiring
<1>4. Steps(a, new, "error") /\ "error" \in Terminal
  BY DEF Steps, Terminal
<1> HIDE DEF new
<1> QED
  BY <1>1, <1>3, <1>4, GoodSteps

LEMMA CheckAnswersStep ==
  ASSUME Core, Chained, Acquisitions!TypeOK, NEW a \in Attempt, CheckAnswers(a)
  PROVE  Good
<1> DEFINE over == [Answered(a) EXCEPT !.phase = "over"]
           asker == attempt[a].checks[1]
<1>1. /\ attempt[a].checks # <<>> /\ attempt[a].reading # "none"
      /\ UNCHANGED <<commitLeaseCounts, lease, disposed, operating>>
  BY DEF CheckAnswers
<1>2. UNCHANGED acquisitionVars => Elsewhere(a)
  BY <1>1 DEF acquisitionVars, Elsewhere
<1>3. CASE asker = "run" /\ RunAnswers(a)
  <2>1. CASE /\ Become(a, [Answered(a) EXCEPT !.phase = "queued"])
             /\ Acquisitions!Register(a, attempt[a].root)
    BY <1>1, <1>3, <2>1, RunQueuesStep
  <2>2. CASE BecomeAndEnd(a, over, "error") /\ UNCHANGED acquisitionVars
    <3>1. Steps(a, over, "error")
      BY <2>2 DEF Steps
    <3> QED
      BY <1>1, <1>2, <1>3, <2>2, <3>1, AnsweredStep
  <2> QED
    BY <1>3, <2>1, <2>2 DEF RunAnswers
<1>4. CASE asker = "recheck" /\ RecheckAnswers(a) /\ UNCHANGED acquisitionVars
  <2>1. Steps(a, Answered(a), "cancelled")
    BY <1>4 DEF RecheckAnswers, Steps
  <2> QED
    BY <1>1, <1>2, <1>4, <2>1, RecheckAnswersStep
<1>5. CASE asker = "final" /\ FinalAnswers(a) /\ UNCHANGED acquisitionVars
  BY <1>1, <1>2, <1>5, FinalAnswersStep
<1>6. CASE /\ BecomeAndEnd(a, IF asker = "recheck" THEN Answered(a) ELSE over, "error")
           /\ UNCHANGED acquisitionVars
  <2>1. CASE asker = "recheck"
    <3>1. Steps(a, Answered(a), "error")
      BY <1>6, <2>1 DEF Steps
    <3> QED
      BY <1>1, <1>2, <1>6, <3>1, RecheckAnswersStep
  <2>2. CASE asker # "recheck"
    <3>1. Steps(a, over, "error")
      BY <1>6, <2>2 DEF Steps
    <3> QED
      BY <1>1, <1>2, <1>6, <2>2, <3>1, AnsweredStep
  <2> QED
    BY <2>1, <2>2
<1> QED
  BY <1>3, <1>4, <1>5, <1>6 DEF CheckAnswers

-----------------------------------------------------------------------------
(***************************************************************************)
(* Acquisition and streaming.                                              *)
(***************************************************************************)
LEMMA MovedRecord ==
  ASSUME Core, NEW a \in Attempt,
         attempt[a].phase \in {"queued", "preparing", "streaming"} \cup Acquiring,
         NEW phase \in {"preparing", "over"} \cup Acquiring,
         phase # "over" => attempt[a].phase \in {"queued"} \cup Acquiring, NEW busy
  PROVE  LET new == [attempt[a] EXCEPT !.phase = phase] IN
         /\ RecordOK(new, busy) /\ new.phase = phase /\ new.root = attempt[a].root
         /\ new.active = attempt[a].active /\ new.events = attempt[a].events
<1> DEFINE rec == attempt[a]
           new == [rec EXCEPT !.phase = phase]
<1>1. /\ rec \in AttemptRecord /\ HostTold(rec) /\ ChecksInTurn(rec) /\ rec.checks \in Seq(Check)
      /\ rec.captured <= rec.signals
  BY Fields
<1>2. OnlyRechecks(rec.checks)
  BY <1>1, OtherPhase DEF Acquiring
<1>3. new \in AttemptRecord
  BY <1>1 DEF AttemptRecord
<1>4. /\ new.phase = phase /\ new.root = rec.root /\ new.active = rec.active
      /\ new.watching = rec.watching /\ new.events = rec.events /\ new.reading = rec.reading
      /\ new.captured = rec.captured /\ new.signals = rec.signals /\ new.checks = rec.checks
  BY <1>1 DEF AttemptRecord
<1> HIDE DEF new
<1>5. HostTold(new)
  BY <1>1, <1>4, PhaseMoves DEF Silent, Acquiring
<1>6. rec.reading # "none" => rec.checks # <<>>
  BY <1>1 DEF ChecksInTurn
<1>7. ChecksInTurn(new) /\ StillQuiet(new, busy)
  BY <1>1, <1>2, <1>4, <1>6, RechecksInTurn
<1> QED
  BY <1>3, <1>4, <1>5, <1>7 DEF RecordOK, new

LEMMA MovedStep ==
  ASSUME Core, Chained, NEW a \in Attempt,
         attempt[a].phase \in {"queued", "preparing", "streaming"} \cup Acquiring,
         NEW phase \in {"preparing", "over"} \cup Acquiring,
         phase # "over" => attempt[a].phase \in {"queued"} \cup Acquiring,
         NEW kind \in {"cancelled", "error"},
         Steps(a, [attempt[a] EXCEPT !.phase = phase], kind),
         Linked(phase, attempt[a].root, state'[a], keyOf'[a]), Elsewhere(a)
  PROVE  Good
<1> DEFINE new == [attempt[a] EXCEPT !.phase = phase]
<1>1. /\ RecordOK(new, operating[new.root]) /\ new.phase = phase /\ new.root = attempt[a].root
      /\ new.active = attempt[a].active /\ new.events = attempt[a].events
  BY MovedRecord
<1>2. phase # "new" /\ attempt[a].phase # "new" /\ kind \in Terminal /\ kind # "done"
  BY DEF Acquiring, Terminal
<1> HIDE DEF new
<1> QED
  BY <1>1, <1>2, GoodSteps DEF new

LEMMA StartAcquisitionStep ==
  ASSUME Core, Chained, Acquisitions!TypeOK, NEW a \in Attempt, StartAcquisition(a)
  PROVE  Good
<1>1. /\ attempt[a].phase = "queued" /\ Acquisitions!Start(a)
      /\ Become(a, [attempt[a] EXCEPT !.phase = "validating"])
      /\ UNCHANGED <<commitLeaseCounts, lease, disposed, operating>>
  BY DEF StartAcquisition
<1>2. /\ state[a] = "waiting" /\ state'[a] = "running" /\ keyOf' = keyOf
      /\ \A b \in Attempt : b # a => state'[b] = state[b]
  BY <1>1 DEF Acquisitions!Start, Acquisitions!TypeOK
<1>3. Linked("validating", attempt[a].root, state'[a], keyOf'[a]) /\ Elsewhere(a)
  BY <1>1, <1>2 DEF Linked, Elsewhere, Acquiring, Chained
<1>4. Steps(a, [attempt[a] EXCEPT !.phase = "validating"], "error")
  BY <1>1 DEF Steps
<1> QED
  BY <1>1, <1>3, <1>4, MovedStep DEF Acquiring

LEMMA AcquireStep ==
  ASSUME Core, Chained, NEW a \in Attempt, Acquire(a)
  PROVE  Good
<1>1. PICK move \in {<<"validating", "diffing">>, <<"diffing", "listing">>} :
        attempt[a].phase = move[1] /\ Become(a, [attempt[a] EXCEPT !.phase = move[2]])
  BY DEF Acquire
<1>2. UNCHANGED <<commitLeaseCounts, lease, disposed, operating, acquisitionVars>>
  BY DEF Acquire
<1>3. attempt[a].phase \in Acquiring /\ move[2] \in Acquiring
  BY <1>1 DEF Acquiring
<1>4. Linked(move[2], attempt[a].root, state'[a], keyOf'[a]) /\ Elsewhere(a)
  BY <1>2, <1>3 DEF Linked, Elsewhere, Acquiring, Chained, acquisitionVars
<1>5. Steps(a, [attempt[a] EXCEPT !.phase = move[2]], "error")
  BY <1>1 DEF Steps
<1> QED
  BY <1>3, <1>4, <1>5, MovedStep

LEMMA SettleAcquisitionStep ==
  ASSUME Core, Chained, Acquisitions!TypeOK, NEW a \in Attempt, SettleAcquisition(a)
  PROVE  Good
<1>1. /\ attempt[a].phase \in Acquiring /\ Acquisitions!Finish(a)
      /\ UNCHANGED <<commitLeaseCounts, lease, disposed, operating>>
  BY DEF SettleAcquisition
<1>2. /\ state[a] = "running" /\ state'[a] = "over" /\ keyOf' = keyOf
      /\ \A b \in Attempt : b # a => state'[b] = state[b]
  BY <1>1 DEF Acquisitions!Finish, Acquisitions!TypeOK
<1>3. /\ Linked("preparing", attempt[a].root, state'[a], keyOf'[a]) /\ Elsewhere(a)
      /\ Linked("over", attempt[a].root, state'[a], keyOf'[a])
  BY <1>1, <1>2 DEF Linked, Elsewhere, Acquiring, Chained
<1>4. \/ Steps(a, [attempt[a] EXCEPT !.phase = "preparing"], "error")
      \/ Steps(a, [attempt[a] EXCEPT !.phase = "over"], "error")
  BY DEF Steps, SettleAcquisition, Over
<1>5. CASE Steps(a, [attempt[a] EXCEPT !.phase = "preparing"], "error")
  BY <1>1, <1>3, <1>5, MovedStep
<1>6. CASE Steps(a, [attempt[a] EXCEPT !.phase = "over"], "error")
  BY <1>1, <1>3, <1>6, MovedStep
<1> QED
  BY <1>4, <1>5, <1>6

\* An active attempt hears of its message: "start" first of all, a chunk after it.
LEMMA HeardRecord ==
  ASSUME NEW rec, rec \in AttemptRecord, HostTold(rec), ChecksInTurn(rec), rec.active,
         NEW k \in {"start", "chunk"},
             rec.phase = (IF k = "start" THEN "preparing" ELSE "streaming"),
         NEW busy
  PROVE  LET new == [rec EXCEPT !.phase = "streaming", !.events = Append(@, k)] IN
         /\ RecordOK(new, busy) /\ new.phase = "streaming" /\ new.root = rec.root
         /\ new.active = rec.active /\ new.events = Append(rec.events, k)
<1> DEFINE heard == Append(rec.events, k)
           new == [rec EXCEPT !.phase = "streaming", !.events = Append(@, k)]
<1>1. rec.events \in Seq(Event) /\ k \in Event /\ Len(rec.events) \in Nat
  <2>1. rec.events \in Seq(Event)
    BY DEF AttemptRecord, Event
  <2> QED
    BY <2>1, LenProperties DEF Event
<1>2. /\ heard \in Seq(Event) /\ heard # <<>> /\ Len(heard) = Len(rec.events) + 1
      /\ \A i \in 1..Len(rec.events) : heard[i] = rec.events[i]
      /\ heard[Len(rec.events) + 1] = k
  BY <1>1, AppendTo
<1>3. new \in AttemptRecord
  BY <1>2 DEF AttemptRecord, Event
<1>4. /\ new.phase = "streaming" /\ new.root = rec.root /\ new.active = rec.active
      /\ new.watching = rec.watching /\ new.events = heard /\ new.reading = rec.reading
      /\ new.captured = rec.captured /\ new.signals = rec.signals /\ new.checks = rec.checks
  BY DEF AttemptRecord
<1> HIDE DEF new, heard
<1>5. ~EndHeard(rec.events) /\ rec.watching
  BY DEF HostTold
<1>6. ~EndHeard(heard)
  <2>1. \A i \in 1..Len(rec.events) : heard[i] \notin Terminal
    BY <1>2, <1>5 DEF EndHeard
  <2>2. heard[Len(rec.events) + 1] \notin Terminal
    BY <1>2 DEF Terminal
  <2>3. \A i \in 1..Len(heard) : i \in 1..Len(rec.events) \/ i = Len(rec.events) + 1
    BY <1>1, <1>2
  <2> QED
    BY <2>1, <2>2, <2>3 DEF EndHeard
<1>7. heard[1] = "start"
  <2>1. CASE k = "start"
    <3>1. rec.events = <<>>
      BY <2>1 DEF HostTold, Silent
    <3>2. Len(rec.events) = 0
      BY <3>1
    <3> QED
      BY <1>2, <2>1, <3>2
  <2>2. CASE k = "chunk"
    <3>1. rec.events # <<>> /\ rec.events[1] = "start"
      BY <2>2 DEF HostTold
    <3>2. 1 \in 1..Len(rec.events)
      BY <1>1, <3>1, NonEmpty
    <3> QED
      BY <1>2, <3>1, <3>2
  <2> QED
    BY <2>1, <2>2
<1>8. HeardInOrder(heard)
  BY <1>6, <1>7 DEF HeardInOrder, EndHeard
<1>9. HostTold(new)
  BY <1>2, <1>4, <1>5, <1>6, <1>7, <1>8 DEF HostTold, Silent, Acquiring
<1>10. ChecksInTurn(new) /\ StillQuiet(new, busy)
  <2>1. OnlyRechecks(rec.checks)
    BY OtherPhase
  <2>2. /\ rec.checks \in Seq(Check) /\ rec.captured <= rec.signals
        /\ rec.reading # "none" => rec.checks # <<>>
    BY DEF AttemptRecord, Check, ChecksInTurn
  <2> QED
    BY <1>4, <2>1, <2>2, RechecksInTurn
<1> QED
  BY <1>3, <1>4, <1>9, <1>10 DEF RecordOK, new, heard

LEMMA HeardStep ==
  ASSUME Core, Chained, NEW a \in Attempt, IsActive(a), NEW k \in {"start", "chunk"},
         attempt[a].phase = (IF k = "start" THEN "preparing" ELSE "streaming"),
         Become(a, [attempt[a] EXCEPT !.phase = "streaming", !.events = Append(@, k)]),
         UNCHANGED <<commitLeaseCounts, lease, disposed, operating, acquisitionVars>>
  PROVE  Good
<1> DEFINE new == [attempt[a] EXCEPT !.phase = "streaming", !.events = Append(@, k)]
<1>1. /\ attempt[a] \in AttemptRecord /\ HostTold(attempt[a]) /\ ChecksInTurn(attempt[a])
      /\ attempt[a].active
  BY Fields DEF IsActive
<1>2. /\ RecordOK(new, operating[new.root]) /\ new.phase = "streaming"
      /\ new.root = attempt[a].root /\ new.active = attempt[a].active
      /\ new.events = Append(attempt[a].events, k)
  BY <1>1, HeardRecord
<1>3. Steps(a, new, "error") /\ "error" \in Terminal /\ attempt[a].phase # "new"
  BY DEF Steps, Terminal
<1>4. attempt' = [attempt EXCEPT ![a] = new]
  BY DEF Become
<1> HIDE DEF new
<1>5. /\ Core' /\ Freed /\ \A b \in Attempt : b # a => attempt'[b] = attempt[b]
      /\ attempt'[a].phase = new.phase /\ attempt'[a].root = new.root
  BY <1>2, <1>3, AttemptSteps
<1>6. attempt'[a].events = Append(attempt[a].events, k)
  BY <1>2, <1>4 DEF Core, CoordinatorTypeOK
<1>7. Chained'
  BY <1>2, <1>5 DEF Chained, Linked, acquisitionVars, Acquiring
<1>8. DoneWhileQuiet
  <2>1. k \in Event \ {"done"}
    BY DEF Event
  <2> QED
    BY <1>5, <1>6, <2>1, NobodyDone
<1> QED
  BY <1>5, <1>7, <1>8 DEF Good

LEMMA ReceiveStep ==
  ASSUME Core, Chained, NEW a \in Attempt, Receive(a),
         UNCHANGED <<commitLeaseCounts, lease, disposed, operating, acquisitionVars>>
  PROVE  Good
<1>1. CASE /\ attempt[a].phase = "preparing"
           /\ Become(a, [attempt[a] EXCEPT !.phase = "streaming", !.events = Append(@, "start")])
  BY <1>1, HeardStep DEF Receive
<1>2. CASE /\ attempt[a].phase = "streaming"
           /\ Become(a, [attempt[a] EXCEPT !.events = Append(@, "chunk")])
  <2>1. attempt[a] \in AttemptRecord
    BY Fields
  <2>2. [attempt[a] EXCEPT !.events = Append(@, "chunk")]
          = [attempt[a] EXCEPT !.phase = "streaming", !.events = Append(@, "chunk")]
    BY <1>2, <2>1 DEF AttemptRecord
  <2> QED
    BY <1>2, <2>2, HeardStep DEF Receive
<1> QED
  BY <1>1, <1>2 DEF Receive

LEMMA StreamStep ==
  ASSUME Core, Chained, NEW a \in Attempt, Stream(a)
  PROVE  Good
<1> DEFINE rec == attempt[a]
           new == Finalizing(rec)
<1>1. UNCHANGED <<commitLeaseCounts, lease, disposed, operating, acquisitionVars>>
  BY DEF Stream
<1>2. Elsewhere(a)
  BY <1>1 DEF Elsewhere, acquisitionVars
<1>3. CASE rec.phase = "streaming" /\ IsActive(a) /\ Become(a, new)
  <2>1. /\ rec \in AttemptRecord /\ HostTold(rec) /\ ChecksInTurn(rec) /\ rec.checks \in Seq(Check)
        /\ rec.signals \in 0..MaxSignals
    BY Fields
  <2>2. OnlyRechecks(rec.checks) /\ Append(rec.checks, "drain") \in Seq(Check)
    BY <1>3, <2>1, OtherPhase, AppendTo DEF Check
  <2>3. new \in AttemptRecord
    BY <2>1, <2>2 DEF AttemptRecord, Finalizing, Check
  <2>4. /\ new.phase = "finalizing" /\ new.root = rec.root /\ new.active = rec.active
        /\ new.watching = rec.watching /\ new.events = rec.events /\ new.reading = rec.reading
        /\ new.captured = rec.signals /\ new.signals = rec.signals
        /\ new.checks = Append(rec.checks, "drain")
    BY <2>1 DEF AttemptRecord, Finalizing
  <2> HIDE DEF new
  <2>5. HostTold(new)
    BY <1>3, <2>1, <2>4, PhaseMoves DEF Silent, Acquiring
  <2>6. ChecksInTurn(new) /\ StillQuiet(new, operating[new.root])
    <3>1. new.captured <= new.signals /\ (new.reading # "none" => rec.checks # <<>>)
      BY <2>1, <2>4 DEF ChecksInTurn
    <3> QED
      BY <2>1, <2>2, <2>4, <3>1, FinalizeAwaits
  <2>7. Linked(new.phase, new.root, state'[a], keyOf'[a])
    BY <1>1, <2>4 DEF Linked, Chained, Acquiring, acquisitionVars
  <2>8. Steps(a, new, "error") /\ "error" \in Terminal /\ rec.phase # "new"
    BY <1>3 DEF Steps, Terminal, new
  <2> QED
    BY <1>2, <2>3, <2>4, <2>5, <2>6, <2>7, <2>8, GoodSteps DEF RecordOK
<1>4. ASSUME rec.phase \in {"preparing", "streaming"}, NEW kind \in {"cancelled", "error"},
             BecomeAndEnd(a, Over(a), kind)
      PROVE  Good
  <2>1. Steps(a, [rec EXCEPT !.phase = "over"], kind)
    BY <1>4 DEF Steps, Over
  <2>2. Linked("over", rec.root, state'[a], keyOf'[a])
    BY <1>1 DEF Linked, Chained, Acquiring, acquisitionVars
  <2> QED
    BY <1>2, <1>4, <2>1, <2>2, MovedStep
<1>5. CASE Receive(a)
  BY <1>1, <1>5, ReceiveStep
<1> QED
  BY <1>3, <1>4, <1>5 DEF Stream

-----------------------------------------------------------------------------
(***************************************************************************)
(* Attempts that others end, repositories that change, and submissions.    *)
(***************************************************************************)
LEMMA CancelledStep ==
  ASSUME Core, Chained, NEW doomed \in SUBSET Attempt, End(doomed, "cancelled"),
         lease' \in [Lease -> Root \cup {Absent, "released"}], disposed' \in BOOLEAN,
         commitLeaseCounts' \in [Root -> Nat], UNCHANGED <<operating, acquisitionVars>>
  PROVE  Good /\ \A r \in Root : activeByRoot[r] \in doomed => activeByRoot'[r] = Absent
<1>1. "cancelled" \in Terminal /\ "cancelled" \in Event \ {"done"}
  BY DEF Terminal, Event
<1>2. /\ Core' /\ Freed
      /\ \A b \in Attempt :
           /\ attempt'[b].phase = attempt[b].phase /\ attempt'[b].root = attempt[b].root
           /\ attempt'[b].events \in {attempt[b].events, Append(attempt[b].events, "cancelled")}
      /\ \A r \in Root : activeByRoot[r] \in doomed => activeByRoot'[r] = Absent
  BY <1>1, AttemptsEnd
<1>3. Chained'
  BY <1>2 DEF Chained, acquisitionVars
<1>4. DoneWhileQuiet
  BY <1>1, <1>2, NobodyDone
<1> QED
  BY <1>2, <1>3, <1>4 DEF Good

LEMMA ToggleOperationStep ==
  ASSUME Core, Chained, NEW r \in Root, ToggleOperation(r)
  PROVE  Good
<1>1. /\ operating' = [operating EXCEPT ![r] = ~@]
      /\ attempt' = [a \in Attempt |->
           IF attempt[a].watching /\ attempt[a].root = r
           THEN [attempt[a] EXCEPT !.unseen = TRUE] ELSE attempt[a]]
      /\ UNCHANGED <<activeByRoot, commitLeaseCounts, lease, disposed, acquisitionVars>>
  BY DEF ToggleOperation
<1>2. operating' \in [Root -> BOOLEAN] /\ \A q \in Root : q # r => operating'[q] = operating[q]
  BY <1>1 DEF Core, CoordinatorTypeOK
<1>3. ASSUME NEW a \in Attempt
      PROVE  /\ RecordOK(attempt'[a], operating'[attempt'[a].root])
             /\ attempt'[a].phase = attempt[a].phase /\ attempt'[a].root = attempt[a].root
             /\ attempt'[a].active = attempt[a].active /\ attempt'[a].events = attempt[a].events
  <2> DEFINE rec == attempt[a]
             new == [rec EXCEPT !.unseen = TRUE]
  <2>1. /\ rec \in AttemptRecord /\ RecordOK(rec, operating[rec.root]) /\ rec.root \in Root
    BY Fields
  <2>2. CASE rec.watching /\ rec.root = r
    <3>1. attempt'[a] = new
      BY <1>1, <2>2
    <3>2. new \in AttemptRecord
      BY <2>1 DEF AttemptRecord
    <3>3. /\ new.phase = rec.phase /\ new.root = rec.root /\ new.active = rec.active
          /\ new.watching = rec.watching /\ new.events = rec.events /\ new.reading = rec.reading
          /\ new.captured = rec.captured /\ new.signals = rec.signals /\ new.checks = rec.checks
          /\ new.unseen = TRUE
      BY <2>1 DEF AttemptRecord
    <3> HIDE DEF new
    <3>4. HostTold(new) /\ ChecksInTurn(new) /\ StillQuiet(new, operating'[new.root])
      BY <2>1, <3>3 DEF RecordOK, HostTold, ChecksInTurn, StillQuiet
    <3> QED
      BY <3>1, <3>2, <3>3, <3>4 DEF RecordOK
  <2>3. CASE ~(rec.watching /\ rec.root = r)
    <3>1. attempt'[a] = rec
      BY <1>1, <2>3
    <3>2. rec.active => operating'[rec.root] = operating[rec.root]
      BY <1>2, <2>1, <2>3 DEF RecordOK, HostTold
    <3>3. StillQuiet(rec, operating'[rec.root])
      BY <2>1, <3>2 DEF RecordOK, StillQuiet
    <3> QED
      BY <2>1, <3>1, <3>3 DEF RecordOK
  <2> QED
    BY <2>2, <2>3
<1>4. RecordsHold'
  BY <1>3 DEF RecordsHold
<1>5. CoordinatorTypeOK'
  <2>1. attempt' \in [Attempt -> AttemptRecord]
    BY <1>1, <1>3 DEF RecordOK
  <2> QED
    BY <1>1, <1>2, <2>1 DEF Core, CoordinatorTypeOK
<1>6. ActiveIsHeld'
  BY <1>1, <1>3, GenerationAssumption DEF Core, CoordinatorTypeOK, ActiveIsHeld
<1>7. Chained'
  BY <1>1, <1>3 DEF Chained, acquisitionVars
<1>8. DoneWhileQuiet
  BY <1>3 DEF DoneWhileQuiet
<1> QED
  BY <1>1, <1>4, <1>5, <1>6, <1>7, <1>8 DEF Good, Core, Freed

\* The records a submission may leave its attempt with.
Failed(rec, r, h) ==
  [[rec EXCEPT !.root = r, !.host = h] EXCEPT !.phase = "over", !.events = <<"error">>]

Begun(rec, r, h) ==
  [[rec EXCEPT !.root = r, !.host = h] EXCEPT !.phase = "checking", !.active = TRUE,
                                              !.watching = TRUE, !.checks = <<"run">>]

LEMMA SubmittedRecord ==
  ASSUME NEW rec, rec \in AttemptRecord, HostTold(rec), ChecksInTurn(rec), rec.phase = "new",
         NEW r \in Root, NEW h \in Host, NEW busy
  PROVE  /\ RecordOK(Failed(rec, r, h), busy) /\ RecordOK(Begun(rec, r, h), busy)
         /\ Failed(rec, r, h).phase = "over" /\ Failed(rec, r, h).root = r
         /\ ~Failed(rec, r, h).active /\ Failed(rec, r, h).events = Append(rec.events, "error")
         /\ Begun(rec, r, h).phase = "checking" /\ Begun(rec, r, h).root = r
         /\ Begun(rec, r, h).active /\ Begun(rec, r, h).events = rec.events
<1> DEFINE failed == Failed(rec, r, h)
           begun == Begun(rec, r, h)
<1>1. /\ rec.events = <<>> /\ rec.checks = <<>> /\ ~rec.active /\ ~rec.watching
           /\ rec.reading = "none"
      /\ rec.active \in BOOLEAN /\ rec.watching \in BOOLEAN /\ rec.captured <= rec.signals
  BY DEF HostTold, ChecksInTurn, AttemptRecord
<1>2. <<"error">> \in Seq(Event) /\ <<"run">> \in Seq(Check)
  BY DEF Event, Check, Terminal
<1>3. failed \in AttemptRecord /\ begun \in AttemptRecord
  BY <1>2 DEF AttemptRecord, Event, Check, Failed, Begun
<1>4. /\ failed.phase = "over" /\ failed.root = r /\ failed.active = rec.active
      /\ failed.watching = rec.watching /\ failed.events = <<"error">>
           /\ failed.reading = rec.reading
      /\ failed.captured = rec.captured /\ failed.signals = rec.signals /\ failed.checks = <<>>
  BY <1>1 DEF AttemptRecord, Failed, Begun
<1>5. /\ begun.phase = "checking" /\ begun.root = r /\ begun.active = TRUE
      /\ begun.watching = TRUE /\ begun.events = <<>> /\ begun.reading = rec.reading
      /\ begun.captured = rec.captured /\ begun.signals = rec.signals /\ begun.checks = <<"run">>
  BY <1>1 DEF AttemptRecord, Failed, Begun
<1> HIDE DEF failed, begun
<1>6. /\ Len(<<"error">>) = 1 /\ <<"error">>[1] = "error" /\ Len(<<"run">>) = 1
      /\ <<"run">>[1] = "run" /\ <<"run">> # <<>> /\ <<"error">> # <<>>
  OBVIOUS
<1>7. HostTold(failed)
  <2>1. EndHeard(<<"error">>)
    BY <1>6 DEF EndHeard, Terminal
  <2>2. HeardInOrder(<<"error">>)
    BY <1>6 DEF HeardInOrder
  <2> QED
    BY <1>1, <1>4, <2>1, <2>2 DEF HostTold
<1>8. HostTold(begun)
  <2>1. Len(<<>>) = 0
    OBVIOUS
  <2>2. ~EndHeard(<<>>) /\ HeardInOrder(<<>>)
    BY <2>1 DEF EndHeard, HeardInOrder
  <2> QED
    BY <1>5, <2>2 DEF HostTold
<1>9. ChecksInTurn(failed) /\ StillQuiet(failed, busy)
  <2>1. Len(<<>>) = 0
    OBVIOUS
  <2> QED
    BY <1>1, <1>4, <2>1 DEF ChecksInTurn, StillQuiet
<1>10. ChecksInTurn(begun) /\ StillQuiet(begun, busy)
  BY <1>1, <1>5, <1>6 DEF ChecksInTurn, StillQuiet
<1>11. <<"error">> = Append(<<>>, "error")
  OBVIOUS
<1> QED
  BY <1>1, <1>3, <1>4, <1>5, <1>7, <1>8, <1>9, <1>10, <1>11 DEF RecordOK, failed, begun

\* A submission ends the attempt it supersedes; only a root no commit fences gets a new one.
LEMMA SubmitStep ==
  ASSUME Core, Chained, NEW a \in Attempt, NEW r \in Root, NEW h \in Host, Submit(a, r, h)
  PROVE  /\ Core' /\ Chained' /\ DoneWhileQuiet
         /\ Freed \/ (~Refused(r) /\ \A q \in Root : q # r => activeByRoot'[q] = activeByRoot[q])
<1> DEFINE rec == attempt[a]
           failed == Failed(rec, r, h)
           begun == Begun(rec, r, h)
           superseded == [x \in Attempt |->
                            IF activeByRoot[r] = x THEN Ended(attempt[x],
                                "cancelled") ELSE attempt[x]]
<1>1. /\ rec.phase = "new"
      /\ UNCHANGED <<commitLeaseCounts, lease, disposed, operating, acquisitionVars>>
      /\ \/ Become(a, failed)
         \/ /\ ~Refused(r)
            /\ attempt' = [superseded EXCEPT ![a] = failed]
            /\ activeByRoot' = [activeByRoot EXCEPT ![r] = Absent]
         \/ /\ ~Refused(r)
            /\ attempt' = [superseded EXCEPT ![a] = begun]
            /\ activeByRoot' = [activeByRoot EXCEPT ![r] = a]
  BY DEF Submit, Failed, Begun
<1>2. /\ rec \in AttemptRecord /\ HostTold(rec) /\ ChecksInTurn(rec) /\ ~rec.active
      /\ rec.events \in Seq(Event)
  BY <1>1, Fields DEF HostTold
<1>3. /\ RecordOK(failed, operating'[r]) /\ RecordOK(begun, operating'[r])
      /\ failed.phase = "over" /\ failed.root = r /\ ~failed.active
      /\ failed.events = Append(rec.events, "error")
      /\ begun.phase = "checking" /\ begun.root = r /\ begun.active /\ begun.events = rec.events
  <2> DEFINE busy == operating'[r]
  <2> HIDE DEF rec, busy
  <2>1. /\ rec \in AttemptRecord /\ HostTold(rec) /\ ChecksInTurn(rec) /\ rec.phase = "new"
    BY <1>1, <1>2
  <2>2. /\ RecordOK(failed, busy) /\ RecordOK(begun, busy)
        /\ failed.phase = "over" /\ failed.root = r /\ ~failed.active
        /\ failed.events = Append(rec.events, "error")
        /\ begun.phase = "checking" /\ begun.root = r /\ begun.active /\ begun.events = rec.events
    BY <2>1, SubmittedRecord
  <2> QED
    BY <2>2 DEF busy
<1> HIDE DEF failed, begun
<1>4. /\ attempt \in [Attempt -> AttemptRecord] /\ activeByRoot \in [Root -> Attempt \cup {Absent}]
      /\ Absent \notin Attempt
  BY GenerationAssumption DEF Core, CoordinatorTypeOK
<1>5. /\ \A q \in Root : activeByRoot[q] # a
      /\ state[a] = "new"
  BY <1>1, <1>2, <1>4 DEF Core, ActiveIsHeld, Chained, Linked
<1>6. ASSUME NEW x \in Attempt
      PROVE  /\ RecordOK(superseded[x], operating'[superseded[x].root])
             /\ superseded[x].phase = attempt[x].phase /\ superseded[x].root = attempt[x].root
             /\ superseded[x].active <=> attempt[x].active /\ activeByRoot[r] # x
             /\ superseded[x].events \in {attempt[x].events, Append(attempt[x].events, "cancelled")}
  <2>1. RecordOK(attempt[x], operating'[attempt[x].root]) /\ attempt[x].active \in BOOLEAN
    BY <1>1, Fields
  <2>2. CASE activeByRoot[r] = x
    <3>1. attempt[x].active
      BY <1>4, <2>2 DEF Core, ActiveIsHeld
    <3>2. /\ attempt[x] \in AttemptRecord /\ HostTold(attempt[x]) /\ ChecksInTurn(attempt[x])
          /\ attempt[x].phase # "new"
      BY <2>1, <3>1 DEF RecordOK, HostTold
    <3> DEFINE ended == Ended(attempt[x], "cancelled")
    <3>3. "cancelled" \in Terminal
      BY DEF Terminal
    <3>4. /\ RecordOK(ended, operating'[ended.root]) /\ ~ended.active
               /\ ended.phase = attempt[x].phase
          /\ ended.root = attempt[x].root /\ ended.events = Append(attempt[x].events, "cancelled")
      BY <3>1, <3>2, <3>3, EndedRecord
    <3> QED
      BY <2>2, <3>4
  <2>3. CASE activeByRoot[r] # x
    BY <2>1, <2>3
  <2> QED
    BY <2>2, <2>3
<1> DEFINE Others == \A x \in Attempt : x # a => attempt'[x] = attempt[x]
      \/ attempt'[x] = superseded[x]
           next == attempt'[a]
<1>7. /\ next \in {failed, begun} /\ Others
      /\ attempt' \in [Attempt -> AttemptRecord]
           /\ activeByRoot' \in [Root -> Attempt \cup {Absent}]
  <2>1. superseded \in [Attempt -> AttemptRecord] /\ failed \in AttemptRecord
          /\ begun \in AttemptRecord
    BY <1>3, <1>6 DEF RecordOK
  <2> HIDE DEF superseded
  <2> QED
    BY <1>1, <1>4, <2>1 DEF Become
<1>8. \A x \in Attempt : x # a =>
        /\ RecordOK(attempt'[x], operating'[attempt'[x].root])
        /\ attempt'[x].phase = attempt[x].phase /\ attempt'[x].root = attempt[x].root
        /\ attempt'[x].events \in {attempt[x].events, Append(attempt[x].events, "cancelled")}
  <2>1. \A x \in Attempt : RecordOK(attempt[x], operating'[attempt[x].root])
    BY <1>1, Fields
  <2> HIDE DEF superseded
  <2> QED
    BY <1>6, <1>7, <2>1
<1>9. RecordsHold'
  BY <1>3, <1>7, <1>8 DEF RecordsHold
<1>10. CoordinatorTypeOK'
  BY <1>1, <1>7 DEF Core, CoordinatorTypeOK
<1>11. Chained'
  BY <1>1, <1>3, <1>5, <1>7, <1>8 DEF Chained, Linked, acquisitionVars, Acquiring
<1>12. DoneWhileQuiet
  <2>1. "error" \in Event \ {"done"} /\ "cancelled" \in Event \ {"done"}
    BY DEF Event, Terminal
  <2>2. \/ attempt'[a].events = attempt[a].events
        \/ attempt'[a].events = Append(attempt[a].events, "error")
    BY <1>3, <1>7
  <2> QED
    BY <1>8, <2>1, <2>2, NobodyDone
<1>13. ActiveIsHeld'
  <2>1. CASE Become(a, failed)
    BY <1>3, <1>4, <1>5, <2>1 DEF Become, Core, ActiveIsHeld
  <2>2. ASSUME NEW own \in {failed, begun},
               attempt' = [superseded EXCEPT ![a] = own],
               activeByRoot' = [activeByRoot EXCEPT ![r] = IF own.active THEN a ELSE Absent]
        PROVE  ActiveIsHeld'
    <3>1. attempt'[a] = own /\ \A x \in Attempt : x # a => attempt'[x] = superseded[x]
      BY <1>4, <2>2
    <3>2. own.root = r
      BY <1>3
    <3> HIDE DEF superseded
    <3>3. \A x \in Attempt : x # a =>
            /\ attempt'[x].active <=> attempt[x].active /\ activeByRoot[r] # x
            /\ attempt'[x].root = attempt[x].root
      BY <1>6, <3>1
    <3>4. /\ activeByRoot'[r] = IF own.active THEN a ELSE Absent
          /\ \A q \in Root : q # r => activeByRoot'[q] = activeByRoot[q]
      BY <1>4, <2>2
    <3>5. \A x \in Attempt : attempt[x].root \in Root
      BY Fields
    <3> QED
      BY <1>4, <1>5, <3>1, <3>2, <3>3, <3>4, <3>5 DEF Core, ActiveIsHeld
  <2>3. \/ Become(a, failed)
        \/ \E own \in {failed, begun} :
             /\ attempt' = [superseded EXCEPT ![a] = own]
             /\ activeByRoot' = [activeByRoot EXCEPT ![r] = IF own.active THEN a ELSE Absent]
    BY <1>1, <1>3
  <2> QED
    BY <2>1, <2>2, <2>3
<1>14. Freed \/ (~Refused(r) /\ \A q \in Root : q # r => activeByRoot'[q] = activeByRoot[q])
  <2>1. CASE Become(a, failed)
    BY <2>1 DEF Become, Freed
  <2>2. CASE ~Refused(r) /\ \E x : activeByRoot' = [activeByRoot EXCEPT ![r] = x]
    BY <1>4, <2>2
  <2> QED
    BY <1>1, <2>1, <2>2
<1> QED
  BY <1>9, <1>10, <1>11, <1>12, <1>13, <1>14 DEF Core

-----------------------------------------------------------------------------
(***************************************************************************)
(* The leases are counted, and a root whose leases are held is not         *)
(* generated for.                                                          *)
(***************************************************************************)
LEMMA FreedStaysFenced ==
  ASSUME CoordinatorTypeOK, NoGenerationWhileCommitting, Freed, UNCHANGED <<lease, disposed>>
  PROVE  NoGenerationWhileCommitting'
BY DEF CoordinatorTypeOK, NoGenerationWhileCommitting, Freed

\* A submission that is not refused is for a root without a lease.
LEMMA SubmitFenced ==
  ASSUME CoordinatorTypeOK, LeasesCounted, NoGenerationWhileCommitting, NEW r \in Root, ~Refused(r),
         \A q \in Root : q # r => activeByRoot'[q] = activeByRoot[q], UNCHANGED <<lease, disposed>>
  PROVE  NoGenerationWhileCommitting'
<1>1. commitLeaseCounts[r] \in Nat /\ ~disposed /\ commitLeaseCounts[r] = 0
  BY DEF Refused, CoordinatorTypeOK
<1>2. IsFiniteSet(Holders(r)) /\ Cardinality(Holders(r)) = 0
  BY <1>1 DEF LeasesCounted
<1>3. Holders(r) = {}
  BY <1>2, FS_EmptySet
<1>4. \A l \in Lease : lease[l] # r
  BY <1>3 DEF Holders
<1> QED
  BY <1>4 DEF NoGenerationWhileCommitting

LEMMA AcquireCounted ==
  ASSUME CoordinatorTypeOK, LeasesCounted, NEW l \in Lease, NEW r \in Root, lease[l] = Absent,
         lease' = [lease EXCEPT ![l] = r], disposed' = disposed,
         commitLeaseCounts' = [commitLeaseCounts EXCEPT ![r] = @ + 1]
  PROVE  LeasesCounted'
<1>1. Absent \notin Root
  BY GenerationAssumption
<1>2. l \notin Holders(r) /\ Holders(r)' = Holders(r) \cup {l}
  BY <1>1 DEF Holders, CoordinatorTypeOK
<1>3. IsFiniteSet(Holders(r)') /\ Cardinality(Holders(r)') = Cardinality(Holders(r)) + 1
  BY <1>2, FS_AddElement DEF LeasesCounted
<1>4. \A q \in Root : q # r => Holders(q)' = Holders(q)
  BY <1>1 DEF Holders, CoordinatorTypeOK
<1>5. /\ commitLeaseCounts'[r] = commitLeaseCounts[r] + 1
      /\ \A q \in Root : q # r => commitLeaseCounts'[q] = commitLeaseCounts[q]
  BY DEF CoordinatorTypeOK
<1> QED
  BY <1>3, <1>4, <1>5 DEF LeasesCounted

LEMMA ReleaseCounted ==
  ASSUME CoordinatorTypeOK, LeasesCounted, NEW l \in Lease, NEW r \in Root, lease[l] = r,
         lease' = [lease EXCEPT ![l] = "released"], disposed' = disposed,
         commitLeaseCounts' = [commitLeaseCounts EXCEPT ![r] = IF @ > 1 THEN @ - 1 ELSE 0]
  PROVE  LeasesCounted'
<1>1. "released" \notin Root
  BY GenerationAssumption
<1>2. l \in Holders(r) /\ Holders(r)' = Holders(r) \ {l}
  BY <1>1 DEF Holders, CoordinatorTypeOK
<1>3. IsFiniteSet(Holders(r)') /\ Cardinality(Holders(r)') = Cardinality(Holders(r)) - 1
  BY <1>2, FS_RemoveElement DEF LeasesCounted
<1>4. \A q \in Root : q # r => Holders(q)' = Holders(q)
  BY <1>1 DEF Holders, CoordinatorTypeOK
<1>5. /\ commitLeaseCounts[r] \in Nat
      /\ commitLeaseCounts'[r] = IF commitLeaseCounts[r] > 1 THEN commitLeaseCounts[r] - 1 ELSE 0
      /\ \A q \in Root : q # r => commitLeaseCounts'[q] = commitLeaseCounts[q]
  BY DEF CoordinatorTypeOK
<1>6. Cardinality(Holders(r)) \in Nat /\ Cardinality(Holders(r)) # 0
  <2>1. IsFiniteSet(Holders(r)) /\ Holders(r) # {}
    BY <1>2 DEF LeasesCounted
  <2> QED
    BY <2>1, FS_EmptySet, FS_CardinalityType
<1>7. ~disposed' => commitLeaseCounts'[r] = Cardinality(Holders(r)')
  <2>1. SUFFICES ASSUME ~disposed PROVE commitLeaseCounts'[r] = Cardinality(Holders(r)')
    OBVIOUS
  <2>2. commitLeaseCounts[r] = Cardinality(Holders(r))
    BY <2>1 DEF LeasesCounted
  <2> QED
    BY <1>3, <1>5, <1>6, <2>2
<1>8. ASSUME NEW q \in Root, q # r
      PROVE  IsFiniteSet(Holders(q)')
               /\ (~disposed' => commitLeaseCounts'[q] = Cardinality(Holders(q)'))
  <2>1. Holders(q)' = Holders(q) /\ commitLeaseCounts'[q] = commitLeaseCounts[q]
    BY <1>4, <1>5, <1>8
  <2> QED
    BY <2>1 DEF LeasesCounted
<1> QED
  BY <1>3, <1>7, <1>8 DEF LeasesCounted

-----------------------------------------------------------------------------
(***************************************************************************)
(* The inductive invariant, and every step.                                *)
(***************************************************************************)
Own == Core /\ Chained /\ LeasesCounted /\ NoGenerationWhileCommitting

Inv == Own /\ Acquisitions!TypeOK

LEMMA LeaseSteps ==
  ASSUME Own, NEW l \in Lease, (\E r \in Root : AcquireCommitLease(l, r)) \/ ReleaseCommitLease(l)
  PROVE  Own' /\ DoneWhileQuiet
<1> USE DEF Own
<1>0. /\ CoordinatorTypeOK /\ commitLeaseCounts \in [Root -> Nat] /\ disposed \in BOOLEAN
      /\ lease \in [Lease -> Root \cup {Absent, "released"}]
      /\ activeByRoot \in [Root -> Attempt \cup {Absent}]
  BY DEF Core, CoordinatorTypeOK
<1>1. ASSUME NEW r \in Root, AcquireCommitLease(l, r) PROVE Own' /\ DoneWhileQuiet
  <2> DEFINE doomed == {a \in Attempt : activeByRoot[r] = a}
  <2>1. /\ lease[l] = Absent /\ lease' = [lease EXCEPT ![l] = r]
        /\ commitLeaseCounts' = [commitLeaseCounts EXCEPT ![r] = @ + 1]
        /\ End(doomed, "cancelled") /\ UNCHANGED <<disposed, operating, acquisitionVars>>
    BY <1>1 DEF AcquireCommitLease
  <2>2. /\ lease' \in [Lease -> Root \cup {Absent, "released"}]
        /\ commitLeaseCounts' \in [Root -> Nat]
    BY <1>0, <2>1
  <2>3. Good /\ \A q \in Root : activeByRoot[q] \in doomed => activeByRoot'[q] = Absent
    <3>1. doomed \in SUBSET Attempt /\ disposed' \in BOOLEAN
      BY <1>0, <2>1
    <3> HIDE DEF doomed
    <3> QED
      BY <2>1, <2>2, <3>1, CancelledStep
  <2>4. activeByRoot'[r] = Absent
    BY <1>0, <2>3 DEF Good, Freed
  <2>5. LeasesCounted'
    BY <1>0, <2>1, AcquireCounted
  <2>6. NoGenerationWhileCommitting'
    BY <1>0, <2>1, <2>3, <2>4 DEF NoGenerationWhileCommitting, Good, Freed
  <2> QED
    BY <2>3, <2>5, <2>6 DEF Good
<1>2. ASSUME ReleaseCommitLease(l) PROVE Own' /\ DoneWhileQuiet
  <2> DEFINE r == lease[l]
  <2>1. /\ r \in Root /\ lease' = [lease EXCEPT ![l] = "released"]
        /\ commitLeaseCounts' = [commitLeaseCounts EXCEPT ![r] = IF @ > 1 THEN @ - 1 ELSE 0]
        /\ UNCHANGED <<activeByRoot, attempt, disposed, operating, acquisitionVars>>
    BY <1>2 DEF ReleaseCommitLease
  <2>2. LeasesCounted'
    <3>1. \A q \in Root :
            lease[l] = q
              /\ commitLeaseCounts' = [commitLeaseCounts EXCEPT ![q] = IF @ > 1 THEN @ - 1 ELSE 0]
            => LeasesCounted'
      BY <1>0, <2>1, ReleaseCounted
    <3> QED
      BY <2>1, <3>1
  <2>3. /\ lease' \in [Lease -> Root \cup {Absent, "released"}]
        /\ commitLeaseCounts' \in [Root -> Nat]
    <3>1. commitLeaseCounts[r] \in Nat
      BY <1>0, <2>1
    <3>2. (IF commitLeaseCounts[r] > 1 THEN commitLeaseCounts[r] - 1 ELSE 0) \in Nat
      BY <3>1
    <3> QED
      BY <1>0, <2>1, <3>2
  <2>4. Core'
    BY <2>1, <2>3 DEF Core, CoordinatorTypeOK, RecordsHold, ActiveIsHeld
  <2>5. NoGenerationWhileCommitting'
    BY <1>0, <2>1, GenerationAssumption DEF NoGenerationWhileCommitting
  <2>6. Chained' /\ DoneWhileQuiet
    BY <2>1 DEF Chained, acquisitionVars, DoneWhileQuiet
  <2> QED
    BY <2>2, <2>4, <2>5, <2>6
<1> QED
  BY <1>1, <1>2

LEMMA DisposeStep ==
  ASSUME Own, Dispose
  PROVE  Own' /\ DoneWhileQuiet
<1> USE DEF Own
<1>1. /\ disposed' = TRUE /\ End(Attempt, "cancelled")
      /\ commitLeaseCounts' = [r \in Root |-> 0]
      /\ UNCHANGED <<lease, operating, acquisitionVars>>
  BY DEF Dispose
<1>2. /\ disposed' \in BOOLEAN /\ commitLeaseCounts' \in [Root -> Nat]
      /\ lease' \in [Lease -> Root \cup {Absent, "released"}]
  BY <1>1 DEF Core, CoordinatorTypeOK
<1>3. Good
  BY <1>1, <1>2, CancelledStep
<1>4. LeasesCounted' /\ NoGenerationWhileCommitting'
  BY <1>1 DEF LeasesCounted, Holders, NoGenerationWhileCommitting
<1> QED
  BY <1>3, <1>4 DEF Good

LEMMA OwnStep ==
  ASSUME Own, Acquisitions!TypeOK, [Next]_vars
  PROVE  Own' /\ DoneWhileQuiet
<1> USE DEF Own
<1>1. ASSUME Good, UNCHANGED <<commitLeaseCounts, lease, disposed>> PROVE Own' /\ DoneWhileQuiet
  <2>1. LeasesCounted'
    BY <1>1 DEF LeasesCounted, Holders
  <2>2. NoGenerationWhileCommitting'
    BY <1>1, FreedStaysFenced DEF Good, Core
  <2> QED
    BY <1>1, <2>1, <2>2 DEF Good
<1>2. ASSUME NEW a \in Attempt, NEW r \in Root, NEW h \in Host, Submit(a, r, h)
      PROVE  Own' /\ DoneWhileQuiet
  <2>1. UNCHANGED <<commitLeaseCounts, lease, disposed>>
    BY <1>2 DEF Submit
  <2>2. /\ Core' /\ Chained' /\ DoneWhileQuiet
        /\ Freed \/ (~Refused(r) /\ \A q \in Root : q # r => activeByRoot'[q] = activeByRoot[q])
    BY <1>2, SubmitStep
  <2>3. LeasesCounted'
    BY <2>1 DEF LeasesCounted, Holders
  <2>4. NoGenerationWhileCommitting'
    BY <2>1, <2>2, FreedStaysFenced, SubmitFenced DEF Core
  <2> QED
    BY <2>2, <2>3, <2>4
<1>3. ASSUME NEW a \in Attempt, Cancel(a) PROVE Own' /\ DoneWhileQuiet
  <2>1. {a} \in SUBSET Attempt /\ End({a}, "cancelled")
        /\ UNCHANGED <<commitLeaseCounts, lease, disposed, operating, acquisitionVars>>
    BY <1>3 DEF Cancel
  <2>2. Good
    BY <2>1, CancelledStep DEF Core, CoordinatorTypeOK
  <2> QED
    BY <1>1, <2>1, <2>2
<1>4. ASSUME NEW h \in Host, DropHost(h) PROVE Own' /\ DoneWhileQuiet
  <2> DEFINE doomed == {a \in Attempt : attempt[a].host = h}
  <2>1. doomed \in SUBSET Attempt /\ End(doomed, "cancelled")
        /\ UNCHANGED <<commitLeaseCounts, lease, disposed, operating, acquisitionVars>>
    BY <1>4 DEF DropHost
  <2> HIDE DEF doomed
  <2>2. Good
    BY <2>1, CancelledStep DEF Core, CoordinatorTypeOK
  <2> QED
    BY <1>1, <2>1, <2>2
<1>5. ASSUME NEW a \in Attempt, Signal(a) \/ WatcherFails(a) \/ Progress(a)
      PROVE  Own' /\ DoneWhileQuiet
  <2>1. Good
    BY <1>5, SignalStep, WatcherFailsStep, CheckReadsStep, DrainedStep, CheckAnswersStep,
       StartAcquisitionStep, AcquireStep, SettleAcquisitionStep, StreamStep DEF Progress
  <2>2. UNCHANGED <<commitLeaseCounts, lease, disposed>>
    BY <1>5 DEF Progress, Signal, WatcherFails, CheckReads, Drained, CheckAnswers,
       StartAcquisition, Acquire, SettleAcquisition, Stream
  <2> QED
    BY <1>1, <2>1, <2>2
<1>6. ASSUME NEW r \in Root, ToggleOperation(r) PROVE Own' /\ DoneWhileQuiet
  <2>1. Good /\ UNCHANGED <<commitLeaseCounts, lease, disposed>>
    BY <1>6, ToggleOperationStep DEF ToggleOperation
  <2> QED
    BY <1>1, <2>1
<1>7. CASE UNCHANGED vars
  BY <1>7 DEF vars, coordinatorVars, acquisitionVars, Core, CoordinatorTypeOK, RecordsHold,
     ActiveIsHeld, Chained, LeasesCounted, Holders, NoGenerationWhileCommitting, DoneWhileQuiet
<1> QED
  BY <1>2, <1>3, <1>4, <1>5, <1>6, <1>7, LeaseSteps, DisposeStep DEF Next

\* Every step is a step of the queue of acquisitions, or none of its business.
LEMMA QueueStep ==
  ASSUME CoordinatorTypeOK, [Next]_vars
  PROVE  [Acquisitions!Next]_acquisitionVars
<1>1. \A a \in Attempt : attempt[a].root \in Root
  BY DEF CoordinatorTypeOK, AttemptRecord
<1>2. ASSUME NEW a \in Attempt, Progress(a) PROVE [Acquisitions!Next]_acquisitionVars
  <2>1. CASE CheckAnswers(a)
    BY <1>1, <2>1 DEF CheckAnswers, RunAnswers, Acquisitions!Next
  <2>2. CASE StartAcquisition(a) \/ SettleAcquisition(a)
    BY <2>2 DEF StartAcquisition, SettleAcquisition, Acquisitions!Next
  <2>3. CASE CheckReads(a) \/ Drained(a) \/ Acquire(a) \/ Stream(a)
    BY <2>3 DEF CheckReads, Drained, Acquire, Stream
  <2> QED
    BY <1>2, <2>1, <2>2, <2>3 DEF Progress
<1>3. ASSUME Next, ~\E a \in Attempt : Progress(a) PROVE UNCHANGED acquisitionVars
  BY <1>3 DEF Next, Submit, Cancel, Signal, WatcherFails, DropHost, AcquireCommitLease,
     ReleaseCommitLease, Dispose, ToggleOperation
<1> QED
  BY <1>2, <1>3 DEF vars

LEMMA QueueTyped ==
  ASSUME Acquisitions!TypeOK, [Acquisitions!Next]_acquisitionVars
  PROVE  Acquisitions!TypeOK'
<1> USE DEF Acquisitions!TypeOK
<1>1. ASSUME NEW a \in Attempt, NEW r \in Root, Acquisitions!Register(a, r)
      PROVE  Acquisitions!TypeOK'
  BY <1>1 DEF Acquisitions!Register
<1>2. ASSUME NEW a \in Attempt, Acquisitions!Start(a) PROVE Acquisitions!TypeOK'
  BY <1>2 DEF Acquisitions!Start
<1>3. ASSUME NEW a \in Attempt, Acquisitions!Finish(a) PROVE Acquisitions!TypeOK'
  BY <1>3 DEF Acquisitions!Finish
<1>4. CASE UNCHANGED acquisitionVars
  BY <1>4 DEF acquisitionVars
<1> QED
  BY <1>1, <1>2, <1>3, <1>4 DEF Acquisitions!Next

LEMMA InvInit == Init => Inv
<1> SUFFICES ASSUME Init PROVE Inv
  OBVIOUS
<1> USE DEF Init, GenerationAssumption
<1> DEFINE somewhere == CHOOSE r \in Root : TRUE
           someone == CHOOSE h \in Host : TRUE
           fresh == [phase |-> "new", root |-> somewhere, host |-> someone, active |-> FALSE,
                     watching |-> FALSE, unseen |-> FALSE, signals |-> 0, captured |-> 0,
                     checks |-> <<>>, reading |-> "none", events |-> <<>>]
<1>1. somewhere \in Root /\ someone \in Host
  BY GenerationAssumption
<1>2. attempt = [a \in Attempt |-> fresh]
  OBVIOUS
<1> HIDE DEF somewhere, someone
<1>3. <<>> \in Seq(Check) /\ <<>> \in Seq(Event)
  OBVIOUS
<1>4. fresh \in AttemptRecord
  BY <1>1, <1>3, GenerationAssumption DEF AttemptRecord, Check, Event
<1>5. CoordinatorTypeOK
  <2> HIDE DEF fresh
  <2> QED
    BY <1>2, <1>4 DEF CoordinatorTypeOK
<1>6. /\ fresh.phase = "new" /\ ~fresh.active /\ ~fresh.watching /\ fresh.events = <<>>
      /\ fresh.checks = <<>> /\ fresh.reading = "none" /\ fresh.captured = 0 /\ fresh.signals = 0
  OBVIOUS
<1> HIDE DEF fresh
<1>7. RecordsHold
  <2>1. Len(<<>>) = 0
    OBVIOUS
  <2>2. HostTold(fresh) /\ ChecksInTurn(fresh) /\ \A busy : StillQuiet(fresh, busy)
    BY <1>6, <2>1 DEF HostTold, HeardInOrder, ChecksInTurn, StillQuiet
  <2> QED
    BY <1>2, <1>4, <2>2 DEF RecordsHold, RecordOK
<1>8. ActiveIsHeld /\ Chained
  <2>1. \A a \in Attempt : attempt[a].phase = "new" /\ ~attempt[a].active /\ state[a] = "new"
    BY <1>2, <1>6 DEF Acquisitions!Init
  <2> QED
    BY <2>1 DEF ActiveIsHeld, Chained, Linked, Acquiring
<1>9. LeasesCounted /\ NoGenerationWhileCommitting
  <2>1. \A r \in Root : Holders(r) = {}
    BY GenerationAssumption DEF Holders
  <2> QED
    BY <2>1, FS_EmptySet, GenerationAssumption DEF LeasesCounted, NoGenerationWhileCommitting
<1>10. Acquisitions!TypeOK
  BY GenerationAssumption DEF Acquisitions!Init, Acquisitions!TypeOK
<1> QED
  BY <1>5, <1>7, <1>8, <1>9, <1>10 DEF Inv, Own, Core

LEMMA InvNext ==
  ASSUME Inv, [Next]_vars
  PROVE  Inv' /\ DoneWhileQuiet
<1>1. Own' /\ DoneWhileQuiet
  BY OwnStep DEF Inv
<1>2. Acquisitions!TypeOK'
  BY QueueStep, QueueTyped DEF Inv, Own, Core
<1> QED
  BY <1>1, <1>2 DEF Inv

\* Every variable keeps its type, whatever the number of attempts, roots, hosts
\* and leases, and however often the watchers report
\* (commitMessageGenerationCoordinator.ts:133-139, 468-475).
THEOREM TypeCorrect == Spec => []TypeOK
<1>1. Inv /\ [Next]_vars => Inv'
  BY InvNext
<1>2. Inv => TypeOK
  BY DEF Inv, Own, Core, TypeOK
<1> QED
  BY <1>1, <1>2, InvInit, PTL DEF Spec

LEMMA InvAlways == Spec => []Inv
<1>1. Inv /\ [Next]_vars => Inv'
  BY InvNext
<1> QED
  BY <1>1, InvInit, PTL DEF Spec

\* The acquisitions of each root queue on promise tails as mutations do: the
\* chain of scheduleAcquisition is the coordinator's queue, keyed by root
\* (commitMessageGenerationCoordinator.ts:310-335).
THEOREM AcquisitionsQueue == Spec => ByRoot!Spec
<1>1. Init => ByRoot!Init
  BY DEF Init, Acquisitions!Init, ByRoot!Init
<1>2. Inv /\ [Next]_vars => [ByRoot!Next]_(ByRoot!queueVars)
  <2>1. Inv /\ [Next]_vars => [Acquisitions!Next]_acquisitionVars
    BY QueueStep DEF Inv, Own, Core
  <2> QED
    BY <2>1 DEF Acquisitions!Next, Acquisitions!Register, Acquisitions!Start, Acquisitions!Finish,
       ByRoot!Next, ByRoot!Register, ByRoot!Start, ByRoot!Finish, ByRoot!queueVars, acquisitionVars
<1> QED
  BY <1>1, <1>2, InvAlways, PTL DEF Spec, ByRoot!Spec

\* While a commit holds its root's lease no attempt generates for that root, and
\* the acquisitions of one root read its diff one at a time
\* (commitMessageGenerationCoordinator.ts:171-179, 249-263, 310-325).
THEOREM FencedCommits == Spec => []CommitsAreFenced
<1>1. Spec => []ByRoot!QueueInv
  <2>1. ByRoot!Spec => []ByRoot!QueueInv
    BY GenerationAssumption, ByRoot!QueueInvAlways
  <2> QED
    BY <2>1, AcquisitionsQueue, PTL
<1>2. Inv /\ ByRoot!QueueInv => CommitsAreFenced
  <2> SUFFICES ASSUME Inv, ByRoot!QueueInv PROVE OneAcquisitionPerRoot
    BY DEF CommitsAreFenced, Inv, Own
  <2>1. SUFFICES ASSUME NEW a \in Attempt, NEW b \in Attempt,
                        attempt[a].phase \in Acquiring, attempt[b].phase \in Acquiring,
                        attempt[a].root = attempt[b].root
                 PROVE  a = b
    BY DEF OneAcquisitionPerRoot
  <2>2. state[a] = "running" /\ state[b] = "running" /\ keyOf[a] = keyOf[b]
    BY <2>1 DEF Inv, Own, Chained, Linked
  <2>3. ticket[a] \in Nat /\ ticket[b] \in Nat
    BY DEF Inv, Acquisitions!TypeOK
  <2>4. ~ByRoot!Before(a, b) /\ ~ByRoot!Before(b, a)
    BY <2>2 DEF ByRoot!QueueInv, ByRoot!FirstComeFirstServed
  <2>5. ticket[a] = ticket[b]
    BY <2>2, <2>3, <2>4 DEF ByRoot!Before, ByRoot!Registered
  <2> QED
    BY <2>2, <2>5 DEF ByRoot!QueueInv, ByRoot!TicketsOrder, ByRoot!Registered
<1> QED
  BY <1>1, <1>2, InvAlways, PTL

\* A host hears "start", chunks and one end, and nothing after it, and an ended
\* attempt has let go of its root and its watcher, in whatever order watchers,
\* users, commits and models report (commitMessageGenerationCoordinator.ts:390-398,
\* 439-455).
THEOREM HostsHear == Spec => []HostsHearInOrder
<1>1. Inv => HostsHearInOrder
  <2> SUFFICES ASSUME Inv PROVE HostsHearInOrder
    OBVIOUS
  <2>1. CoordinatorTypeOK /\ ActiveIsHeld /\ \A a \in Attempt : HostTold(attempt[a])
    BY DEF Inv, Own, Core, RecordsHold, RecordOK
  <2>2. EventsInOrder
    BY <2>1 DEF EventsInOrder, HostTold, HeardInOrder
  <2>3. EndedIsReleased
    <3>1. SUFFICES ASSUME NEW a \in Attempt, attempt[a].phase # "new"
                   PROVE  /\ EndHeard(attempt[a].events) <=> activeByRoot[attempt[a].root] # a
                          /\ EndHeard(attempt[a].events) => ~attempt[a].watching
      BY DEF EndedIsReleased, EndHeard
    <3>2. attempt[a].root \in Root /\ a # Absent
      BY <2>1, GenerationAssumption DEF CoordinatorTypeOK, AttemptRecord
    <3>3. attempt[a].active <=> activeByRoot[attempt[a].root] = a
      BY <2>1, <3>2 DEF ActiveIsHeld
    <3> QED
      BY <2>1, <3>1, <3>3 DEF HostTold
  <2> QED
    BY <2>1, <2>2, <2>3 DEF HostsHearInOrder
<1> QED
  BY <1>1, InvAlways, PTL

\* An attempt is called done only while its root was quiet to the end, but for
\* what its watcher has not reported yet
\* (commitMessageGenerationCoordinator.ts:274-308, 376-436).
THEOREM QuietWhenDone == Spec => DoneMeansQuiet
<1>1. Inv /\ [Next]_vars => [DoneWhileQuiet]_attempt
  BY InvNext
<1> QED
  BY <1>1, InvAlways, PTL DEF Spec, DoneMeansQuiet

-----------------------------------------------------------------------------
(* Interactive rebases.                                                    *)

\* Where a window reconciles, and where it has not begun a rebase that can be lost.
Recon == {"gather", "discard", "sweep", "probe", "recall", "reclaim", "prompt"}
Early == {"reserve", "point", "files", "start", "gate", "check", "mark", "spawn", "editor"}

\* What a window works on and for, by where it is.
WindowsFollow ==
  \A w \in Window :
    /\ step[w] \in Recon \cup {"idle"} => mine[w] = Nothing /\ flow[w] = "run"
    /\ step[w] \notin Recon \cup {"idle", "pass"} => mine[w] # Nothing
    /\ step[w] \notin Recon => seen[w] = Rebase!Unread
    /\ step[w] \in Early => flow[w] = "run"
    /\ step[w] = "pass" => flow[w] # "run"
    /\ w \in keep => step[w] \in {"unlink", "compare", "release", "offer", "dismiss", "threw"}
    /\ mine[w] # Nothing => mine[w] \in used

Evidence ==
  [rebase : Session \cup {Nothing, Other, Torn}, head : Session \cup {"start", Other, Torn},
   manifests : [Session -> Rebase!Live \cup {Nothing, "pending", "done"}] \cup {Torn},
   pointer : Session \cup {Nothing}]
EvidenceTyped == seen \in [Window -> Evidence]

\* A run is in the gate from its check until git's end, control until it offers a push.
InGate(w) ==
  IF flow[w] = "run"
  THEN step[w] \in {"check", "mark", "spawn", "editor", "rebasing", "finished", "stopped"}
  ELSE step[w] \notin {"offer", "dismiss"}
GateHeld == \A w \in Window : gate = w <=> InGate(w)

\* The pointer names the session of whoever is past its reservation, so there is one such window.
Holder(w) == mine[w] # Nothing /\ step[w] \notin {"reserve", "point", "offer", "dismiss"}
PointerHeld ==
  /\ \A w \in Window : Holder(w) => pointer = mine[w]
  /\ \A w \in Window : step[w] = "point" => pointer = Torn
  /\ \A v, w \in Window :
       \/ mine[v] = mine[w] /\ mine[v] # Nothing
       \/ step[v] = "point" /\ step[w] = "point"
       => v = w

\* What git rebases has all that is needed to continue it, and its window has not left it.
RebaseBacked ==
  /\ rebase \in Session => rebase \in files /\ manifest[rebase] \in Rebase!Live /\ pointer = rebase
  /\ \A w \in Window : mine[w] # Nothing /\ rebase = mine[w] =>
       step[w] \in {"rebasing", "stopped", "threw", "pass"}

\* Manifests, by where their window is.
ManifestsFollow ==
  /\ \A w \in Window :
       /\ step[w] \in {"spawn", "editor"} \/ (step[w] = "rebasing" /\ flow[w] = "run") =>
            manifest[mine[w]] = "running"
       /\ mine[w] # Nothing /\ manifest[mine[w]] = "pending" => w \in keep
       /\ w \in keep => manifest[mine[w]] \notin Rebase!Live
       /\ step[w] \in {"reserve", "point"} =>
            pointer # mine[w] /\ mine[w] \notin files /\ manifest[mine[w]] = Nothing
  /\ \A s \in Session \ used : manifest[s] = Nothing /\ s \notin files /\ pointer # s

\* While a window reconciles nobody works on a session, so what it saw only becomes less.
EvidenceOf(w) ==
  /\ \A v \in Window : mine[v] = Nothing \/ step[v] = "offer"
  /\ rebase \in Session =>
       /\ seen[w].rebase \in {Torn, rebase}
       /\ seen[w].manifests # Torn => seen[w].manifests[rebase] \in Rebase!Live
       /\ step[w] \notin {"recall", "reclaim"}
  /\ "outside" \notin trouble /\ seen[w].rebase = Nothing => rebase = Nothing
  /\ seen[w].manifests # Torn => \A s \in Session : manifest[s] \in {Nothing, seen[w].manifests[s]}
  /\ step[w] # "gather" => seen[w].rebase # Torn /\ seen[w].manifests # Torn
  /\ step[w] \notin {"gather", "discard"} =>
       \A s \in Rebase!ProvenDead(seen[w]) : manifest[s] = Nothing
  /\ step[w] \in {"probe", "recall", "reclaim"} =>
       seen[w].pointer \in Session /\ (pointer = seen[w].pointer \/ pointer \notin Session)
  /\ step[w] = "prompt" /\ "outside" \notin trouble => pointer \notin Rebase!ProvenDead(seen[w])
EvidenceStands == \A w \in Window : Rebase!Reconciling(w) => EvidenceOf(w)

\* Unless something went wrong, git works on the session of the window that is at it, and what is
\* cleaned up is gone.
UntroubledAt(w) ==
  /\ step[w] # "threw"
  /\ step[w] = "pass" => mine[w] # Nothing
  /\ step[w] \in {"pass", "rebasing"} => rebase = mine[w]
  /\ step[w] \in {"mark", "spawn"} => rebase = Nothing
  /\ step[w] = "stopped" => rebase \in {Nothing, mine[w]}
  /\ step[w] \in {"forget", "compare", "release", "offer", "dismiss"} => mine[w] \notin files
  /\ step[w] \in {"compare", "release", "offer", "dismiss"} => manifest[mine[w]] \notin Rebase!Live
  /\ step[w] \in {"offer", "dismiss"} => pointer # mine[w]
Untroubled ==
  trouble = {} =>
    /\ rebase = Other => \E w \in Window : step[w] = "editor"
    /\ \A w \in Window : UntroubledAt(w)

RebaseInv ==
  /\ Rebase!RebaseTypeOK /\ WindowsFollow /\ EvidenceTyped /\ GateHeld
  /\ PointerHeld /\ RebaseBacked /\ ManifestsFollow
  /\ EvidenceStands /\ Untroubled /\ Rebase!ReleasedUnlessPaused

-----------------------------------------------------------------------------
(* How a window moves.                                                     *)

LocalsTyped ==
  /\ step' \in [Window -> Rebase!Step] /\ flow' \in [Window -> {"run", "continue", "abort"}]
  /\ mine' \in [Window -> Session \cup {Nothing}] /\ keep' \subseteq Window /\ EvidenceTyped'

OthersStay(w) ==
  \A v \in Window : v # w =>
    /\ step'[v] = step[v] /\ flow'[v] = flow[v] /\ mine'[v] = mine[v] /\ seen'[v] = seen[v]
    /\ v \in keep' <=> v \in keep

Stays(w) ==
  /\ flow'[w] = flow[w] /\ mine'[w] = mine[w] /\ seen'[w] = seen[w]
  /\ w \in keep' <=> w \in keep

Moves(w, from, to) == step[w] = from /\ step'[w] = to /\ Stays(w)

Ends(w) ==
  /\ step'[w] = "idle" /\ flow'[w] = "run" /\ mine'[w] = Nothing
  /\ seen'[w] = Rebase!Unread /\ w \notin keep'
  /\ gate' = IF gate = w THEN Nothing ELSE gate

Faulted ==
  /\ trouble' # {} /\ trouble' \in SUBSET {"crash", "fault", "outside"}
  /\ "outside" \in trouble' <=> "outside" \in trouble

Puts(w, lifecycle) ==
  /\ manifest' \in [Session -> Rebase!Live \cup {Nothing, "pending", "done"}]
  /\ manifest'[mine[w]] = lifecycle
  /\ \A s \in Session : s # mine[w] => manifest'[s] = manifest[s]

\* What a failed step of the cleanup makes of its window.
Uncleaned(w, from, to) ==
  \/ flow[w] = "run" /\ Moves(w, from, to) /\ gate' = gate
  \/ flow[w] = "continue" /\ Moves(w, from, "threw") /\ gate' = gate
  \/ flow[w] = "abort" /\ step[w] = from /\ Ends(w)

LEMMA GoIs ==
  ASSUME Rebase!RebaseTypeOK, EvidenceTyped, NEW w \in Window, NEW from, NEW to \in Rebase!Step,
      Rebase!Go(w, from, to), UNCHANGED Rebase!local
  PROVE  LocalsTyped /\ OthersStay(w) /\ Moves(w, from, to)
<1>1. LocalsTyped
  BY DEF LocalsTyped, Rebase!RebaseTypeOK, Rebase!Go, Rebase!local, EvidenceTyped
<1>2. OthersStay(w) /\ Moves(w, from, to)
  BY DEF Rebase!RebaseTypeOK, Rebase!Go, Rebase!local, OthersStay, Moves, Stays
<1> QED
  BY <1>1, <1>2

LEMMA EndIs ==
  ASSUME Rebase!RebaseTypeOK, EvidenceTyped, NEW w \in Window, Rebase!End(w)
  PROVE  LocalsTyped /\ OthersStay(w) /\ Ends(w)
<1>1. /\ step' \in [Window -> Rebase!Step] /\ flow' \in [Window -> {"run", "continue", "abort"}]
      /\ mine' \in [Window -> Session \cup {Nothing}] /\ keep' \subseteq Window
  BY DEF Rebase!RebaseTypeOK, Rebase!End, Rebase!Step
<1>2. EvidenceTyped'
  BY DEF Rebase!End, EvidenceTyped, Evidence, Rebase!Unread
<1>3. OthersStay(w) /\ Ends(w)
  <2>1. seen \in [Window -> {seen[v] : v \in Window}]
    BY DEF EvidenceTyped
  <2> HIDE DEF Rebase!Unread
  <2> QED
    BY <2>1 DEF Rebase!RebaseTypeOK, Rebase!End, OthersStay, Ends
<1> QED
  BY <1>1, <1>2, <1>3 DEF LocalsTyped

LEMMA FaultIs == ASSUME Rebase!RebaseTypeOK, Rebase!Fault PROVE Faulted
BY DEF Rebase!RebaseTypeOK, Rebase!Fault, Rebase!Trouble, Faulted

LEMMA PutIs ==
  ASSUME Rebase!RebaseTypeOK, WindowsFollow, NEW w \in Window, step[w] \notin Recon \cup {"idle",
      "pass"},
         NEW lifecycle \in Rebase!Live \cup {Nothing, "pending", "done"}, Rebase!Put(mine[w],
             lifecycle)
  PROVE  Puts(w, lifecycle)
<1>1. mine[w] \in Session
  BY DEF Rebase!RebaseTypeOK, WindowsFollow
<1> QED
  BY <1>1 DEF Rebase!RebaseTypeOK, Rebase!Put, Puts

LEMMA GoPutIs ==
  ASSUME Rebase!RebaseTypeOK, EvidenceTyped, WindowsFollow, NEW w \in Window,
         NEW from \in Rebase!Step \ (Recon \cup {"idle", "pass"}), NEW to \in Rebase!Step,
         NEW lifecycle \in Rebase!Live \cup {Nothing, "pending", "done"},
         Rebase!Go(w, from, to), UNCHANGED Rebase!local, Rebase!Put(mine[w], lifecycle)
  PROVE  LocalsTyped /\ OthersStay(w) /\ Moves(w, from, to) /\ Puts(w, lifecycle)
<1>1. LocalsTyped /\ OthersStay(w) /\ Moves(w, from, to)
  BY GoIs
<1>2. Puts(w, lifecycle)
  BY <1>1, PutIs DEF Moves
<1> QED
  BY <1>1, <1>2

LEMMA ThrowIs ==
  ASSUME Rebase!RebaseTypeOK, EvidenceTyped, NEW w \in Window, NEW from, Rebase!Throw(w, from)
  PROVE  /\ LocalsTyped /\ OthersStay(w) /\ Moves(w, from, "threw") /\ Faulted
         /\ gate' = IF flow[w] = "run" /\ gate = w THEN Nothing ELSE gate
         /\ UNCHANGED <<pointer, manifest, files, rebase, head, expected, used>>
<1>1. Rebase!Go(w, from, "threw") /\ Rebase!Fault /\ UNCHANGED Rebase!local
        /\ "threw" \in Rebase!Step
  BY DEF Rebase!Throw, Rebase!Step
<1>2. LocalsTyped /\ OthersStay(w) /\ Moves(w, from, "threw") /\ Faulted
  BY <1>1, GoIs, FaultIs
<1>3. /\ gate' = IF flow[w] = "run" /\ gate = w THEN Nothing ELSE gate
      /\ UNCHANGED <<pointer, manifest, files, rebase, head, expected, used>>
  BY DEF Rebase!Throw, Rebase!LeaveGate, Rebase!disk, Rebase!git
<1> QED
  BY <1>2, <1>3

LEMMA UncleanIs ==
  ASSUME Rebase!RebaseTypeOK, EvidenceTyped, NEW w \in Window, NEW from, NEW to \in Rebase!Step,
      Rebase!Unclean(w, from, to)
  PROVE  /\ LocalsTyped /\ OthersStay(w) /\ Faulted
         /\ Uncleaned(w, from, to)
         /\ UNCHANGED <<pointer, manifest, files, rebase, head, expected, used>>
<1>1. Rebase!Fault /\ UNCHANGED <<pointer, manifest, files, rebase, head, expected, used>>
  BY DEF Rebase!Unclean, Rebase!disk, Rebase!git
<1>2. \/ flow[w] = "run" /\ Rebase!Go(w, from, to) /\ UNCHANGED <<gate, Rebase!local>>
      \/ flow[w] = "continue" /\ Rebase!Go(w, from, "threw") /\ UNCHANGED <<gate, Rebase!local>>
      \/ flow[w] = "abort" /\ step[w] = from /\ Rebase!End(w)
  BY DEF Rebase!Unclean
<1>3. Faulted /\ "threw" \in Rebase!Step
  BY <1>1, FaultIs DEF Rebase!Step
<1> QED
  BY <1>1, <1>2, <1>3, GoIs, EndIs DEF Uncleaned

-----------------------------------------------------------------------------
(* Every step keeps the invariant.                                         *)

LEMMA ReserveKeeps == ASSUME RebaseInv, NEW w \in Window, Rebase!Reserve(w) PROVE RebaseInv'
<1>1. /\ Rebase!RebaseTypeOK /\ WindowsFollow /\ EvidenceTyped /\ GateHeld
      /\ PointerHeld /\ RebaseBacked /\ ManifestsFollow /\ EvidenceStands
      /\ Untroubled /\ Rebase!ReleasedUnlessPaused
  BY DEF RebaseInv
<1>2. UNCHANGED <<manifest, files, rebase, head, expected, used, trouble>>
  BY DEF Rebase!Reserve, Rebase!disk, Rebase!git, Rebase!local, Rebase!End
<1>3. /\ LocalsTyped /\ OthersStay(w)
      /\ \/ Moves(w, "reserve", "point") /\ pointer = Nothing /\ pointer' = Torn /\ gate' = gate
         \/ step[w] = "reserve" /\ Ends(w) /\ pointer' = pointer
  <2>1. \/ Rebase!Go(w, "reserve", "point") /\ pointer = Nothing /\ pointer' = Torn
             /\ UNCHANGED <<Rebase!local, gate>>
        \/ step[w] = "reserve" /\ Rebase!End(w) /\ UNCHANGED <<pointer>>
    BY DEF Rebase!Reserve, Rebase!disk, Rebase!git
  <2>2. CASE Rebase!Go(w, "reserve", "point") /\ pointer = Nothing /\ pointer' = Torn
               /\ UNCHANGED <<Rebase!local, gate>>
    BY <1>1, <2>2, GoIs DEF Rebase!Step, Rebase!local, Rebase!disk, Rebase!git
  <2>3. CASE step[w] = "reserve" /\ Rebase!End(w) /\ UNCHANGED <<pointer>>
    BY <1>1, <2>3, EndIs DEF Rebase!Step, Rebase!local, Rebase!disk, Rebase!git
  <2> QED
    BY <2>1, <2>2, <2>3
<1> USE <1>1, <1>2, <1>3 DEF OthersStay, Stays, Moves, Ends, Faulted, Puts, Rebase!Live
<1>4. Rebase!RebaseTypeOK'
  <2>1. /\ step' \in [Window -> Rebase!Step] /\ flow' \in [Window -> {"run", "continue", "abort"}]
        /\ mine' \in [Window -> Session \cup {Nothing}] /\ keep' \in SUBSET Window
    BY DEF LocalsTyped
  <2>2. gate' \in Window \cup {Nothing} /\ trouble' \in SUBSET {"crash", "fault", "outside"}
    BY DEF Rebase!RebaseTypeOK
  <2>3. /\ pointer' \in Session \cup {Nothing, Torn} /\ files' \in SUBSET Session
        /\ rebase' \in Session \cup {Nothing, Other} /\ head' \in Session \cup {"start", Other}
        /\ used' \in SUBSET Session
    BY DEF Rebase!RebaseTypeOK, WindowsFollow, Recon
  <2>4. /\ manifest' \in [Session -> Rebase!Live \cup {Nothing, "pending", "done"}]
        /\ expected' \in [Session -> Session \cup {"start", Other}]
    BY DEF Rebase!RebaseTypeOK
  <2> HIDE DEF Rebase!Live
  <2> QED
    BY <2>1, <2>2, <2>3, <2>4 DEF Rebase!RebaseTypeOK
<1> USE RebaseAssumption
<1>5. WindowsFollow'
  BY DEF Rebase!RebaseTypeOK, WindowsFollow, Recon, Early
<1>6. EvidenceTyped'
  BY DEF LocalsTyped
<1>7. GateHeld'
  BY DEF Rebase!RebaseTypeOK, GateHeld, InGate, WindowsFollow, Early, Recon
<1>8. PointerHeld'
  BY DEF Rebase!RebaseTypeOK, PointerHeld, Holder, WindowsFollow, ManifestsFollow, GateHeld,
      InGate, RebaseBacked, Recon, Early
<1>9. RebaseBacked'
  BY DEF Rebase!RebaseTypeOK, RebaseBacked, PointerHeld, Holder, ManifestsFollow, WindowsFollow,
      Recon, Early
<1>10. ManifestsFollow'
  BY DEF Rebase!RebaseTypeOK, ManifestsFollow, WindowsFollow, PointerHeld, Holder, RebaseBacked,
      Recon, Early, GateHeld, InGate
<1>11. EvidenceStands'
  BY DEF Rebase!RebaseTypeOK, EvidenceStands, EvidenceOf, Rebase!Reconciling, WindowsFollow, Recon,
      Early, Rebase!ProvenDead
<1>12. Untroubled'
  BY DEF Rebase!RebaseTypeOK, Untroubled, UntroubledAt, WindowsFollow, GateHeld, InGate,
      PointerHeld, Holder, RebaseBacked, ManifestsFollow, Recon, Early
<1>13. Rebase!ReleasedUnlessPaused'
  BY DEF Rebase!RebaseTypeOK, Rebase!ReleasedUnlessPaused, Rebase!Idle, Untroubled, UntroubledAt,
      WindowsFollow, PointerHeld, Holder, RebaseBacked, ManifestsFollow, Recon, Early
<1> QED
  BY <1>4, <1>5, <1>6, <1>7, <1>8, <1>9, <1>10, <1>11, <1>12, <1>13 DEF RebaseInv

LEMMA WritePointerKeeps ==
  ASSUME RebaseInv, NEW w \in Window, Rebase!WritePointer(w) PROVE RebaseInv'
<1>1. /\ Rebase!RebaseTypeOK /\ WindowsFollow /\ EvidenceTyped /\ GateHeld
      /\ PointerHeld /\ RebaseBacked /\ ManifestsFollow /\ EvidenceStands
      /\ Untroubled /\ Rebase!ReleasedUnlessPaused
  BY DEF RebaseInv
<1>2. UNCHANGED <<manifest, files, rebase, head, expected, used>>
  BY DEF Rebase!WritePointer, Rebase!disk, Rebase!git, Rebase!local, Rebase!End, Rebase!Fault,
      Rebase!Trouble
<1>3. /\ LocalsTyped /\ OthersStay(w)
      /\ \/ Moves(w, "point", "files") /\ pointer' = mine[w] /\ gate' = gate /\ trouble' = trouble
         \/ step[w] = "point" /\ Ends(w) /\ Faulted /\ pointer' = pointer
  <2>1. \/ Rebase!Go(w, "point", "files") /\ pointer' = mine[w]
             /\ UNCHANGED <<Rebase!local, gate, trouble>>
        \/ step[w] = "point" /\ Rebase!End(w) /\ Rebase!Fault /\ UNCHANGED <<pointer>>
    BY DEF Rebase!WritePointer, Rebase!disk, Rebase!git
  <2>2. CASE Rebase!Go(w, "point", "files") /\ pointer' = mine[w]
               /\ UNCHANGED <<Rebase!local, gate, trouble>>
    BY <1>1, <2>2, GoIs DEF Rebase!Step, Rebase!local, Rebase!disk, Rebase!git
  <2>3. CASE step[w] = "point" /\ Rebase!End(w) /\ Rebase!Fault /\ UNCHANGED <<pointer>>
    BY <1>1, <2>3, EndIs, FaultIs DEF Rebase!Step, Rebase!local, Rebase!disk, Rebase!git
  <2> QED
    BY <2>1, <2>2, <2>3
<1> USE <1>1, <1>2, <1>3 DEF OthersStay, Stays, Moves, Ends, Faulted, Puts, Rebase!Live
<1>4. Rebase!RebaseTypeOK'
  <2>1. /\ step' \in [Window -> Rebase!Step] /\ flow' \in [Window -> {"run", "continue", "abort"}]
        /\ mine' \in [Window -> Session \cup {Nothing}] /\ keep' \in SUBSET Window
    BY DEF LocalsTyped
  <2>2. gate' \in Window \cup {Nothing} /\ trouble' \in SUBSET {"crash", "fault", "outside"}
    BY DEF Rebase!RebaseTypeOK
  <2>3. /\ pointer' \in Session \cup {Nothing, Torn} /\ files' \in SUBSET Session
        /\ rebase' \in Session \cup {Nothing, Other} /\ head' \in Session \cup {"start", Other}
        /\ used' \in SUBSET Session
    BY DEF Rebase!RebaseTypeOK, WindowsFollow, Recon
  <2>4. /\ manifest' \in [Session -> Rebase!Live \cup {Nothing, "pending", "done"}]
        /\ expected' \in [Session -> Session \cup {"start", Other}]
    BY DEF Rebase!RebaseTypeOK
  <2> HIDE DEF Rebase!Live
  <2> QED
    BY <2>1, <2>2, <2>3, <2>4 DEF Rebase!RebaseTypeOK
<1> USE RebaseAssumption
<1>5. WindowsFollow'
  BY DEF Rebase!RebaseTypeOK, WindowsFollow, Recon, Early
<1>6. EvidenceTyped'
  BY DEF LocalsTyped
<1>7. GateHeld'
  BY DEF Rebase!RebaseTypeOK, GateHeld, InGate, WindowsFollow, Early, Recon
<1>8. PointerHeld'
  BY DEF Rebase!RebaseTypeOK, PointerHeld, Holder, WindowsFollow, ManifestsFollow, GateHeld,
      InGate, RebaseBacked, Recon, Early
<1>9. RebaseBacked'
  BY DEF Rebase!RebaseTypeOK, RebaseBacked, PointerHeld, Holder, ManifestsFollow, WindowsFollow,
      Recon, Early
<1>10. ManifestsFollow'
  BY DEF Rebase!RebaseTypeOK, ManifestsFollow, WindowsFollow, PointerHeld, Holder, RebaseBacked,
      Recon, Early, GateHeld, InGate
<1>11. EvidenceStands'
  BY DEF Rebase!RebaseTypeOK, EvidenceStands, EvidenceOf, Rebase!Reconciling, WindowsFollow, Recon,
      Early, Rebase!ProvenDead
<1>12. Untroubled'
  BY DEF Rebase!RebaseTypeOK, Untroubled, UntroubledAt, WindowsFollow, GateHeld, InGate,
      PointerHeld, Holder, RebaseBacked, ManifestsFollow, Recon, Early
<1>13. Rebase!ReleasedUnlessPaused'
  BY DEF Rebase!RebaseTypeOK, Rebase!ReleasedUnlessPaused, Rebase!Idle, Untroubled, UntroubledAt,
      WindowsFollow, PointerHeld, Holder, RebaseBacked, ManifestsFollow, Recon, Early
<1> QED
  BY <1>4, <1>5, <1>6, <1>7, <1>8, <1>9, <1>10, <1>11, <1>12, <1>13 DEF RebaseInv

LEMMA CreateFilesKeeps == ASSUME RebaseInv, NEW w \in Window, Rebase!CreateFiles(w) PROVE RebaseInv'
<1>1. /\ Rebase!RebaseTypeOK /\ WindowsFollow /\ EvidenceTyped /\ GateHeld
      /\ PointerHeld /\ RebaseBacked /\ ManifestsFollow /\ EvidenceStands
      /\ Untroubled /\ Rebase!ReleasedUnlessPaused
  BY DEF RebaseInv
<1>2. UNCHANGED <<manifest, pointer, rebase, head, expected, used>>
  BY DEF Rebase!CreateFiles, Rebase!git, Rebase!local, Rebase!Throw, Rebase!disk, Rebase!Fault,
      Rebase!Trouble
<1>3. /\ LocalsTyped /\ OthersStay(w)
      /\ \/ Moves(w, "files", "start") /\ files' = files \cup {mine[w]} /\ gate' = gate
              /\ trouble' = trouble
         \/ Moves(w, "files", "threw") /\ Faulted
              /\ gate' = (IF flow[w] = "run" /\ gate = w THEN Nothing ELSE gate) /\ files' = files
  <2>1. \/ Rebase!Go(w, "files", "start") /\ files' = files \cup {mine[w]}
             /\ UNCHANGED <<Rebase!local, gate, trouble>>
        \/ Rebase!Throw(w, "files")
    BY DEF Rebase!CreateFiles, Rebase!disk, Rebase!git
  <2>2. CASE Rebase!Go(w, "files", "start") /\ files' = files \cup {mine[w]}
               /\ UNCHANGED <<Rebase!local, gate, trouble>>
    BY <1>1, <2>2, GoIs DEF Rebase!Step, Rebase!local, Rebase!disk, Rebase!git
  <2>3. CASE Rebase!Throw(w, "files")
    BY <1>1, <2>3, ThrowIs DEF Rebase!Step, Rebase!local, Rebase!disk, Rebase!git
  <2> QED
    BY <2>1, <2>2, <2>3
<1> USE <1>1, <1>2, <1>3 DEF OthersStay, Stays, Moves, Ends, Faulted, Puts, Rebase!Live
<1>4. Rebase!RebaseTypeOK'
  <2>1. /\ step' \in [Window -> Rebase!Step] /\ flow' \in [Window -> {"run", "continue", "abort"}]
        /\ mine' \in [Window -> Session \cup {Nothing}] /\ keep' \in SUBSET Window
    BY DEF LocalsTyped
  <2>2. gate' \in Window \cup {Nothing} /\ trouble' \in SUBSET {"crash", "fault", "outside"}
    BY DEF Rebase!RebaseTypeOK
  <2>3. /\ pointer' \in Session \cup {Nothing, Torn} /\ files' \in SUBSET Session
        /\ rebase' \in Session \cup {Nothing, Other} /\ head' \in Session \cup {"start", Other}
        /\ used' \in SUBSET Session
    BY DEF Rebase!RebaseTypeOK, WindowsFollow, Recon
  <2>4. /\ manifest' \in [Session -> Rebase!Live \cup {Nothing, "pending", "done"}]
        /\ expected' \in [Session -> Session \cup {"start", Other}]
    BY DEF Rebase!RebaseTypeOK
  <2> HIDE DEF Rebase!Live
  <2> QED
    BY <2>1, <2>2, <2>3, <2>4 DEF Rebase!RebaseTypeOK
<1> USE RebaseAssumption
<1>5. WindowsFollow'
  BY DEF Rebase!RebaseTypeOK, WindowsFollow, Recon, Early
<1>6. EvidenceTyped'
  BY DEF LocalsTyped
<1>7. GateHeld'
  BY DEF Rebase!RebaseTypeOK, GateHeld, InGate, WindowsFollow, Early, Recon
<1>8. PointerHeld'
  BY DEF Rebase!RebaseTypeOK, PointerHeld, Holder, WindowsFollow, ManifestsFollow, GateHeld,
      InGate, RebaseBacked, Recon, Early
<1>9. RebaseBacked'
  BY DEF Rebase!RebaseTypeOK, RebaseBacked, PointerHeld, Holder, ManifestsFollow, WindowsFollow,
      Recon, Early
<1>10. ManifestsFollow'
  BY DEF Rebase!RebaseTypeOK, ManifestsFollow, WindowsFollow, PointerHeld, Holder, RebaseBacked,
      Recon, Early, GateHeld, InGate
<1>11. EvidenceStands'
  BY DEF Rebase!RebaseTypeOK, EvidenceStands, EvidenceOf, Rebase!Reconciling, WindowsFollow, Recon,
      Early, Rebase!ProvenDead
<1>12. Untroubled'
  BY DEF Rebase!RebaseTypeOK, Untroubled, UntroubledAt, WindowsFollow, GateHeld, InGate,
      PointerHeld, Holder, RebaseBacked, ManifestsFollow, Recon, Early
<1>13. Rebase!ReleasedUnlessPaused'
  BY DEF Rebase!RebaseTypeOK, Rebase!ReleasedUnlessPaused, Rebase!Idle, Untroubled, UntroubledAt,
      WindowsFollow, PointerHeld, Holder, RebaseBacked, ManifestsFollow, Recon, Early
<1> QED
  BY <1>4, <1>5, <1>6, <1>7, <1>8, <1>9, <1>10, <1>11, <1>12, <1>13 DEF RebaseInv

LEMMA WriteStartingKeeps ==
  ASSUME RebaseInv, NEW w \in Window, Rebase!WriteStarting(w) PROVE RebaseInv'
<1>1. /\ Rebase!RebaseTypeOK /\ WindowsFollow /\ EvidenceTyped /\ GateHeld
      /\ PointerHeld /\ RebaseBacked /\ ManifestsFollow /\ EvidenceStands
      /\ Untroubled /\ Rebase!ReleasedUnlessPaused
  BY DEF RebaseInv
<1>2. UNCHANGED <<pointer, files, rebase, head, expected, used>>
  BY DEF Rebase!WriteStarting, Rebase!git, Rebase!local, Rebase!Throw, Rebase!disk, Rebase!Fault,
      Rebase!Trouble
<1>3. /\ LocalsTyped /\ OthersStay(w)
      /\ \/ Moves(w, "start", "gate") /\ Puts(w, "starting") /\ gate' = gate /\ trouble' = trouble
         \/ Moves(w, "start", "threw") /\ Faulted
              /\ gate' = (IF flow[w] = "run" /\ gate = w THEN Nothing ELSE gate)
              /\ manifest' = manifest
  <2>1. \/ Rebase!Go(w, "start", "gate") /\ Rebase!Put(mine[w], "starting")
             /\ UNCHANGED <<Rebase!local, gate, trouble>>
        \/ Rebase!Throw(w, "start")
    BY DEF Rebase!WriteStarting, Rebase!disk, Rebase!git
  <2>2. CASE Rebase!Go(w, "start", "gate") /\ Rebase!Put(mine[w], "starting")
               /\ UNCHANGED <<Rebase!local, gate, trouble>>
    BY <1>1, <2>2, GoPutIs
    DEF Rebase!Step, Rebase!local, Rebase!disk, Rebase!git, Recon, Rebase!Live
  <2>3. CASE Rebase!Throw(w, "start")
    BY <1>1, <2>3, ThrowIs DEF Rebase!Step, Rebase!local, Rebase!disk, Rebase!git
  <2> QED
    BY <2>1, <2>2, <2>3
<1> USE <1>1, <1>2, <1>3 DEF OthersStay, Stays, Moves, Ends, Faulted, Puts, Rebase!Live
<1>4. Rebase!RebaseTypeOK'
  <2>1. /\ step' \in [Window -> Rebase!Step] /\ flow' \in [Window -> {"run", "continue", "abort"}]
        /\ mine' \in [Window -> Session \cup {Nothing}] /\ keep' \in SUBSET Window
    BY DEF LocalsTyped
  <2>2. gate' \in Window \cup {Nothing} /\ trouble' \in SUBSET {"crash", "fault", "outside"}
    BY DEF Rebase!RebaseTypeOK
  <2>3. /\ pointer' \in Session \cup {Nothing, Torn} /\ files' \in SUBSET Session
        /\ rebase' \in Session \cup {Nothing, Other} /\ head' \in Session \cup {"start", Other}
        /\ used' \in SUBSET Session
    BY DEF Rebase!RebaseTypeOK, WindowsFollow, Recon
  <2>4. /\ manifest' \in [Session -> Rebase!Live \cup {Nothing, "pending", "done"}]
        /\ expected' \in [Session -> Session \cup {"start", Other}]
    BY DEF Rebase!RebaseTypeOK
  <2> HIDE DEF Rebase!Live
  <2> QED
    BY <2>1, <2>2, <2>3, <2>4 DEF Rebase!RebaseTypeOK
<1> USE RebaseAssumption
<1>5. WindowsFollow'
  BY DEF Rebase!RebaseTypeOK, WindowsFollow, Recon, Early
<1>6. EvidenceTyped'
  BY DEF LocalsTyped
<1>7. GateHeld'
  BY DEF Rebase!RebaseTypeOK, GateHeld, InGate, WindowsFollow, Early, Recon
<1>8. PointerHeld'
  BY DEF Rebase!RebaseTypeOK, PointerHeld, Holder, WindowsFollow, ManifestsFollow, GateHeld,
      InGate, RebaseBacked, Recon, Early
<1>9. RebaseBacked'
  BY DEF Rebase!RebaseTypeOK, RebaseBacked, PointerHeld, Holder, ManifestsFollow, WindowsFollow,
      Recon, Early
<1>10. ManifestsFollow'
  BY DEF Rebase!RebaseTypeOK, ManifestsFollow, WindowsFollow, PointerHeld, Holder, RebaseBacked,
      Recon, Early, GateHeld, InGate
<1>11. EvidenceStands'
  BY DEF Rebase!RebaseTypeOK, EvidenceStands, EvidenceOf, Rebase!Reconciling, WindowsFollow, Recon,
      Early, Rebase!ProvenDead
<1>12. Untroubled'
  BY DEF Rebase!RebaseTypeOK, Untroubled, UntroubledAt, WindowsFollow, GateHeld, InGate,
      PointerHeld, Holder, RebaseBacked, ManifestsFollow, Recon, Early
<1>13. Rebase!ReleasedUnlessPaused'
  BY DEF Rebase!RebaseTypeOK, Rebase!ReleasedUnlessPaused, Rebase!Idle, Untroubled, UntroubledAt,
      WindowsFollow, PointerHeld, Holder, RebaseBacked, ManifestsFollow, Recon, Early
<1> QED
  BY <1>4, <1>5, <1>6, <1>7, <1>8, <1>9, <1>10, <1>11, <1>12, <1>13 DEF RebaseInv

LEMMA EnterGateKeeps == ASSUME RebaseInv, NEW w \in Window, Rebase!EnterGate(w) PROVE RebaseInv'
<1>1. /\ Rebase!RebaseTypeOK /\ WindowsFollow /\ EvidenceTyped /\ GateHeld
      /\ PointerHeld /\ RebaseBacked /\ ManifestsFollow /\ EvidenceStands
      /\ Untroubled /\ Rebase!ReleasedUnlessPaused
  BY DEF RebaseInv
<1>2. UNCHANGED <<pointer, manifest, files, rebase, head, expected, used, trouble>>
  BY DEF Rebase!EnterGate, Rebase!disk, Rebase!git, Rebase!local
<1>3. /\ LocalsTyped /\ OthersStay(w)
      /\ \/ Moves(w, "gate", "check") /\ gate = Nothing /\ gate' = w
         \/ Moves(w, "gate", "threw") /\ gate # Nothing /\ gate' = gate
  <2>1. \/ Rebase!Go(w, "gate", "check") /\ gate = Nothing /\ gate' = w
             /\ UNCHANGED <<Rebase!local>>
        \/ Rebase!Go(w, "gate", "threw") /\ gate # Nothing /\ UNCHANGED <<Rebase!local, gate>>
    BY DEF Rebase!EnterGate, Rebase!disk, Rebase!git
  <2>2. CASE Rebase!Go(w, "gate", "check") /\ gate = Nothing /\ gate' = w
               /\ UNCHANGED <<Rebase!local>>
    BY <1>1, <2>2, GoIs DEF Rebase!Step, Rebase!local, Rebase!disk, Rebase!git
  <2>3. CASE Rebase!Go(w, "gate", "threw") /\ gate # Nothing /\ UNCHANGED <<Rebase!local, gate>>
    BY <1>1, <2>3, GoIs DEF Rebase!Step, Rebase!local, Rebase!disk, Rebase!git
  <2> QED
    BY <2>1, <2>2, <2>3
<1> USE <1>1, <1>2, <1>3 DEF OthersStay, Stays, Moves, Ends, Faulted, Puts, Rebase!Live
<1>4. Rebase!RebaseTypeOK'
  <2>1. /\ step' \in [Window -> Rebase!Step] /\ flow' \in [Window -> {"run", "continue", "abort"}]
        /\ mine' \in [Window -> Session \cup {Nothing}] /\ keep' \in SUBSET Window
    BY DEF LocalsTyped
  <2>2. gate' \in Window \cup {Nothing} /\ trouble' \in SUBSET {"crash", "fault", "outside"}
    BY DEF Rebase!RebaseTypeOK
  <2>3. /\ pointer' \in Session \cup {Nothing, Torn} /\ files' \in SUBSET Session
        /\ rebase' \in Session \cup {Nothing, Other} /\ head' \in Session \cup {"start", Other}
        /\ used' \in SUBSET Session
    BY DEF Rebase!RebaseTypeOK, WindowsFollow, Recon
  <2>4. /\ manifest' \in [Session -> Rebase!Live \cup {Nothing, "pending", "done"}]
        /\ expected' \in [Session -> Session \cup {"start", Other}]
    BY DEF Rebase!RebaseTypeOK
  <2> HIDE DEF Rebase!Live
  <2> QED
    BY <2>1, <2>2, <2>3, <2>4 DEF Rebase!RebaseTypeOK
<1> USE RebaseAssumption
<1>5. WindowsFollow'
  BY DEF Rebase!RebaseTypeOK, WindowsFollow, Recon, Early
<1>6. EvidenceTyped'
  BY DEF LocalsTyped
<1>7. GateHeld'
  BY DEF Rebase!RebaseTypeOK, GateHeld, InGate, WindowsFollow, Early, Recon
<1>8. PointerHeld'
  BY DEF Rebase!RebaseTypeOK, PointerHeld, Holder, WindowsFollow, ManifestsFollow, GateHeld,
      InGate, RebaseBacked, Recon, Early
<1>9. RebaseBacked'
  BY DEF Rebase!RebaseTypeOK, RebaseBacked, PointerHeld, Holder, ManifestsFollow, WindowsFollow,
      Recon, Early
<1>10. ManifestsFollow'
  BY DEF Rebase!RebaseTypeOK, ManifestsFollow, WindowsFollow, PointerHeld, Holder, RebaseBacked,
      Recon, Early, GateHeld, InGate
<1>11. EvidenceStands'
  BY DEF Rebase!RebaseTypeOK, EvidenceStands, EvidenceOf, Rebase!Reconciling, WindowsFollow, Recon,
      Early, Rebase!ProvenDead
<1>12. Untroubled'
  BY DEF Rebase!RebaseTypeOK, Untroubled, UntroubledAt, WindowsFollow, GateHeld, InGate,
      PointerHeld, Holder, RebaseBacked, ManifestsFollow, Recon, Early
<1>13. Rebase!ReleasedUnlessPaused'
  BY DEF Rebase!RebaseTypeOK, Rebase!ReleasedUnlessPaused, Rebase!Idle, Untroubled, UntroubledAt,
      WindowsFollow, PointerHeld, Holder, RebaseBacked, ManifestsFollow, Recon, Early
<1> QED
  BY <1>4, <1>5, <1>6, <1>7, <1>8, <1>9, <1>10, <1>11, <1>12, <1>13 DEF RebaseInv

LEMMA CheckKeeps == ASSUME RebaseInv, NEW w \in Window, Rebase!Check(w) PROVE RebaseInv'
<1>1. /\ Rebase!RebaseTypeOK /\ WindowsFollow /\ EvidenceTyped /\ GateHeld
      /\ PointerHeld /\ RebaseBacked /\ ManifestsFollow /\ EvidenceStands
      /\ Untroubled /\ Rebase!ReleasedUnlessPaused
  BY DEF RebaseInv
<1>2. UNCHANGED <<pointer, manifest, files, rebase, head, expected, used, trouble>>
  BY DEF Rebase!Check, Rebase!disk, Rebase!git, Rebase!local
<1>3. /\ LocalsTyped /\ OthersStay(w)
      /\ \/ Moves(w, "check", "mark") /\ rebase = Nothing /\ gate' = gate
         \/ Moves(w, "check", "unlink") /\ gate' = (IF gate = w THEN Nothing ELSE gate)
  <2>1. \/ Rebase!Go(w, "check", "mark") /\ rebase = Nothing /\ UNCHANGED <<Rebase!local, gate>>
        \/ Rebase!Go(w, "check", "unlink") /\ Rebase!LeaveGate(w) /\ UNCHANGED <<Rebase!local>>
    BY DEF Rebase!Check, Rebase!disk, Rebase!git
  <2>2. CASE Rebase!Go(w, "check", "mark") /\ rebase = Nothing /\ UNCHANGED <<Rebase!local, gate>>
    BY <1>1, <2>2, GoIs DEF Rebase!Step, Rebase!local, Rebase!disk, Rebase!git
  <2>3. CASE Rebase!Go(w, "check", "unlink") /\ Rebase!LeaveGate(w) /\ UNCHANGED <<Rebase!local>>
    BY <1>1, <2>3, GoIs DEF Rebase!Step, Rebase!local, Rebase!disk, Rebase!git, Rebase!LeaveGate
  <2> QED
    BY <2>1, <2>2, <2>3
<1> USE <1>1, <1>2, <1>3 DEF OthersStay, Stays, Moves, Ends, Faulted, Puts, Rebase!Live
<1>4. Rebase!RebaseTypeOK'
  <2>1. /\ step' \in [Window -> Rebase!Step] /\ flow' \in [Window -> {"run", "continue", "abort"}]
        /\ mine' \in [Window -> Session \cup {Nothing}] /\ keep' \in SUBSET Window
    BY DEF LocalsTyped
  <2>2. gate' \in Window \cup {Nothing} /\ trouble' \in SUBSET {"crash", "fault", "outside"}
    BY DEF Rebase!RebaseTypeOK
  <2>3. /\ pointer' \in Session \cup {Nothing, Torn} /\ files' \in SUBSET Session
        /\ rebase' \in Session \cup {Nothing, Other} /\ head' \in Session \cup {"start", Other}
        /\ used' \in SUBSET Session
    BY DEF Rebase!RebaseTypeOK, WindowsFollow, Recon
  <2>4. /\ manifest' \in [Session -> Rebase!Live \cup {Nothing, "pending", "done"}]
        /\ expected' \in [Session -> Session \cup {"start", Other}]
    BY DEF Rebase!RebaseTypeOK
  <2> HIDE DEF Rebase!Live
  <2> QED
    BY <2>1, <2>2, <2>3, <2>4 DEF Rebase!RebaseTypeOK
<1> USE RebaseAssumption
<1>5. WindowsFollow'
  BY DEF Rebase!RebaseTypeOK, WindowsFollow, Recon, Early
<1>6. EvidenceTyped'
  BY DEF LocalsTyped
<1>7. GateHeld'
  BY DEF Rebase!RebaseTypeOK, GateHeld, InGate, WindowsFollow, Early, Recon
<1>8. PointerHeld'
  BY DEF Rebase!RebaseTypeOK, PointerHeld, Holder, WindowsFollow, ManifestsFollow, GateHeld,
      InGate, RebaseBacked, Recon, Early
<1>9. RebaseBacked'
  BY DEF Rebase!RebaseTypeOK, RebaseBacked, PointerHeld, Holder, ManifestsFollow, WindowsFollow,
      Recon, Early
<1>10. ManifestsFollow'
  BY DEF Rebase!RebaseTypeOK, ManifestsFollow, WindowsFollow, PointerHeld, Holder, RebaseBacked,
      Recon, Early, GateHeld, InGate
<1>11. EvidenceStands'
  BY DEF Rebase!RebaseTypeOK, EvidenceStands, EvidenceOf, Rebase!Reconciling, WindowsFollow, Recon,
      Early, Rebase!ProvenDead
<1>12. Untroubled'
  BY DEF Rebase!RebaseTypeOK, Untroubled, UntroubledAt, WindowsFollow, GateHeld, InGate,
      PointerHeld, Holder, RebaseBacked, ManifestsFollow, Recon, Early
<1>13. Rebase!ReleasedUnlessPaused'
  BY DEF Rebase!RebaseTypeOK, Rebase!ReleasedUnlessPaused, Rebase!Idle, Untroubled, UntroubledAt,
      WindowsFollow, PointerHeld, Holder, RebaseBacked, ManifestsFollow, Recon, Early
<1> QED
  BY <1>4, <1>5, <1>6, <1>7, <1>8, <1>9, <1>10, <1>11, <1>12, <1>13 DEF RebaseInv

LEMMA MarkRunningKeeps == ASSUME RebaseInv, NEW w \in Window, Rebase!MarkRunning(w) PROVE RebaseInv'
<1>1. /\ Rebase!RebaseTypeOK /\ WindowsFollow /\ EvidenceTyped /\ GateHeld
      /\ PointerHeld /\ RebaseBacked /\ ManifestsFollow /\ EvidenceStands
      /\ Untroubled /\ Rebase!ReleasedUnlessPaused
  BY DEF RebaseInv
<1>2. UNCHANGED <<pointer, files, rebase, head, expected, used>>
  BY DEF Rebase!MarkRunning, Rebase!git, Rebase!local, Rebase!Throw, Rebase!disk, Rebase!Fault,
      Rebase!Trouble
<1>3. /\ LocalsTyped /\ OthersStay(w)
      /\ \/ Moves(w, "mark", "spawn") /\ Puts(w, "running") /\ gate' = gate /\ trouble' = trouble
         \/ Moves(w, "mark", "threw") /\ Faulted
              /\ gate' = (IF flow[w] = "run" /\ gate = w THEN Nothing ELSE gate)
              /\ manifest' = manifest
  <2>1. \/ Rebase!Go(w, "mark", "spawn") /\ Rebase!Put(mine[w], "running")
             /\ UNCHANGED <<Rebase!local, gate, trouble>>
        \/ Rebase!Throw(w, "mark")
    BY DEF Rebase!MarkRunning, Rebase!disk, Rebase!git
  <2>2. CASE Rebase!Go(w, "mark", "spawn") /\ Rebase!Put(mine[w], "running")
               /\ UNCHANGED <<Rebase!local, gate, trouble>>
    BY <1>1, <2>2, GoPutIs
    DEF Rebase!Step, Rebase!local, Rebase!disk, Rebase!git, Recon, Rebase!Live
  <2>3. CASE Rebase!Throw(w, "mark")
    BY <1>1, <2>3, ThrowIs DEF Rebase!Step, Rebase!local, Rebase!disk, Rebase!git
  <2> QED
    BY <2>1, <2>2, <2>3
<1> USE <1>1, <1>2, <1>3 DEF OthersStay, Stays, Moves, Ends, Faulted, Puts, Rebase!Live
<1>4. Rebase!RebaseTypeOK'
  <2>1. /\ step' \in [Window -> Rebase!Step] /\ flow' \in [Window -> {"run", "continue", "abort"}]
        /\ mine' \in [Window -> Session \cup {Nothing}] /\ keep' \in SUBSET Window
    BY DEF LocalsTyped
  <2>2. gate' \in Window \cup {Nothing} /\ trouble' \in SUBSET {"crash", "fault", "outside"}
    BY DEF Rebase!RebaseTypeOK
  <2>3. /\ pointer' \in Session \cup {Nothing, Torn} /\ files' \in SUBSET Session
        /\ rebase' \in Session \cup {Nothing, Other} /\ head' \in Session \cup {"start", Other}
        /\ used' \in SUBSET Session
    BY DEF Rebase!RebaseTypeOK, WindowsFollow, Recon
  <2>4. /\ manifest' \in [Session -> Rebase!Live \cup {Nothing, "pending", "done"}]
        /\ expected' \in [Session -> Session \cup {"start", Other}]
    BY DEF Rebase!RebaseTypeOK
  <2> HIDE DEF Rebase!Live
  <2> QED
    BY <2>1, <2>2, <2>3, <2>4 DEF Rebase!RebaseTypeOK
<1> USE RebaseAssumption
<1>5. WindowsFollow'
  BY DEF Rebase!RebaseTypeOK, WindowsFollow, Recon, Early
<1>6. EvidenceTyped'
  BY DEF LocalsTyped
<1>7. GateHeld'
  BY DEF Rebase!RebaseTypeOK, GateHeld, InGate, WindowsFollow, Early, Recon
<1>8. PointerHeld'
  BY DEF Rebase!RebaseTypeOK, PointerHeld, Holder, WindowsFollow, ManifestsFollow, GateHeld,
      InGate, RebaseBacked, Recon, Early
<1>9. RebaseBacked'
  BY DEF Rebase!RebaseTypeOK, RebaseBacked, PointerHeld, Holder, ManifestsFollow, WindowsFollow,
      Recon, Early
<1>10. ManifestsFollow'
  BY DEF Rebase!RebaseTypeOK, ManifestsFollow, WindowsFollow, PointerHeld, Holder, RebaseBacked,
      Recon, Early, GateHeld, InGate
<1>11. EvidenceStands'
  BY DEF Rebase!RebaseTypeOK, EvidenceStands, EvidenceOf, Rebase!Reconciling, WindowsFollow, Recon,
      Early, Rebase!ProvenDead
<1>12. Untroubled'
  BY DEF Rebase!RebaseTypeOK, Untroubled, UntroubledAt, WindowsFollow, GateHeld, InGate,
      PointerHeld, Holder, RebaseBacked, ManifestsFollow, Recon, Early
<1>13. Rebase!ReleasedUnlessPaused'
  BY DEF Rebase!RebaseTypeOK, Rebase!ReleasedUnlessPaused, Rebase!Idle, Untroubled, UntroubledAt,
      WindowsFollow, PointerHeld, Holder, RebaseBacked, ManifestsFollow, Recon, Early
<1> QED
  BY <1>4, <1>5, <1>6, <1>7, <1>8, <1>9, <1>10, <1>11, <1>12, <1>13 DEF RebaseInv

LEMMA SpawnKeeps == ASSUME RebaseInv, NEW w \in Window, Rebase!Spawn(w) PROVE RebaseInv'
<1>1. /\ Rebase!RebaseTypeOK /\ WindowsFollow /\ EvidenceTyped /\ GateHeld
      /\ PointerHeld /\ RebaseBacked /\ ManifestsFollow /\ EvidenceStands
      /\ Untroubled /\ Rebase!ReleasedUnlessPaused
  BY DEF RebaseInv
<1>2. UNCHANGED <<pointer, manifest, files, head, expected, used, trouble>>
  BY DEF Rebase!Spawn, Rebase!disk, Rebase!local
<1>3. /\ LocalsTyped /\ OthersStay(w)
      /\ \/ Moves(w, "spawn", "editor") /\ rebase = Nothing /\ rebase' = Other /\ gate' = gate
         \/ Moves(w, "spawn", "threw") /\ rebase # Nothing
              /\ gate' = (IF gate = w THEN Nothing ELSE gate) /\ rebase' = rebase
  <2>1. \/ Rebase!Go(w, "spawn", "editor") /\ rebase = Nothing /\ rebase' = Other
             /\ UNCHANGED <<Rebase!local, gate>>
        \/ Rebase!Go(w, "spawn", "threw") /\ rebase # Nothing /\ Rebase!LeaveGate(w)
             /\ UNCHANGED <<Rebase!local, rebase>>
    BY DEF Rebase!Spawn, Rebase!disk, Rebase!git
  <2>2. CASE Rebase!Go(w, "spawn", "editor") /\ rebase = Nothing /\ rebase' = Other
               /\ UNCHANGED <<Rebase!local, gate>>
    BY <1>1, <2>2, GoIs DEF Rebase!Step, Rebase!local, Rebase!disk, Rebase!git
  <2>3. CASE Rebase!Go(w, "spawn", "threw") /\ rebase # Nothing /\ Rebase!LeaveGate(w)
               /\ UNCHANGED <<Rebase!local, rebase>>
    BY <1>1, <2>3, GoIs DEF Rebase!Step, Rebase!local, Rebase!disk, Rebase!git, Rebase!LeaveGate
  <2> QED
    BY <2>1, <2>2, <2>3
<1> USE <1>1, <1>2, <1>3 DEF OthersStay, Stays, Moves, Ends, Faulted, Puts, Rebase!Live
<1>4. Rebase!RebaseTypeOK'
  <2>1. /\ step' \in [Window -> Rebase!Step] /\ flow' \in [Window -> {"run", "continue", "abort"}]
        /\ mine' \in [Window -> Session \cup {Nothing}] /\ keep' \in SUBSET Window
    BY DEF LocalsTyped
  <2>2. gate' \in Window \cup {Nothing} /\ trouble' \in SUBSET {"crash", "fault", "outside"}
    BY DEF Rebase!RebaseTypeOK
  <2>3. /\ pointer' \in Session \cup {Nothing, Torn} /\ files' \in SUBSET Session
        /\ rebase' \in Session \cup {Nothing, Other} /\ head' \in Session \cup {"start", Other}
        /\ used' \in SUBSET Session
    BY DEF Rebase!RebaseTypeOK, WindowsFollow, Recon
  <2>4. /\ manifest' \in [Session -> Rebase!Live \cup {Nothing, "pending", "done"}]
        /\ expected' \in [Session -> Session \cup {"start", Other}]
    BY DEF Rebase!RebaseTypeOK
  <2> HIDE DEF Rebase!Live
  <2> QED
    BY <2>1, <2>2, <2>3, <2>4 DEF Rebase!RebaseTypeOK
<1> USE RebaseAssumption
<1>5. WindowsFollow'
  BY DEF Rebase!RebaseTypeOK, WindowsFollow, Recon, Early
<1>6. EvidenceTyped'
  BY DEF LocalsTyped
<1>7. GateHeld'
  BY DEF Rebase!RebaseTypeOK, GateHeld, InGate, WindowsFollow, Early, Recon
<1>8. PointerHeld'
  BY DEF Rebase!RebaseTypeOK, PointerHeld, Holder, WindowsFollow, ManifestsFollow, GateHeld,
      InGate, RebaseBacked, Recon, Early
<1>9. RebaseBacked'
  BY DEF Rebase!RebaseTypeOK, RebaseBacked, PointerHeld, Holder, ManifestsFollow, WindowsFollow,
      Recon, Early
<1>10. ManifestsFollow'
  BY DEF Rebase!RebaseTypeOK, ManifestsFollow, WindowsFollow, PointerHeld, Holder, RebaseBacked,
      Recon, Early, GateHeld, InGate
<1>11. EvidenceStands'
  BY DEF Rebase!RebaseTypeOK, EvidenceStands, EvidenceOf, Rebase!Reconciling, WindowsFollow, Recon,
      Early, Rebase!ProvenDead
<1>12. Untroubled'
  BY DEF Rebase!RebaseTypeOK, Untroubled, UntroubledAt, WindowsFollow, GateHeld, InGate,
      PointerHeld, Holder, RebaseBacked, ManifestsFollow, Recon, Early
<1>13. Rebase!ReleasedUnlessPaused'
  BY DEF Rebase!RebaseTypeOK, Rebase!ReleasedUnlessPaused, Rebase!Idle, Untroubled, UntroubledAt,
      WindowsFollow, PointerHeld, Holder, RebaseBacked, ManifestsFollow, Recon, Early
<1> QED
  BY <1>4, <1>5, <1>6, <1>7, <1>8, <1>9, <1>10, <1>11, <1>12, <1>13 DEF RebaseInv

LEMMA SequenceEditorKeeps ==
  ASSUME RebaseInv, NEW w \in Window, Rebase!SequenceEditor(w) PROVE RebaseInv'
<1>1. /\ Rebase!RebaseTypeOK /\ WindowsFollow /\ EvidenceTyped /\ GateHeld
      /\ PointerHeld /\ RebaseBacked /\ ManifestsFollow /\ EvidenceStands
      /\ Untroubled /\ Rebase!ReleasedUnlessPaused
  BY DEF RebaseInv
<1>2. UNCHANGED <<pointer, manifest, files, head, expected, used, trouble, gate>>
  BY DEF Rebase!SequenceEditor, Rebase!disk, Rebase!local
<1>3. /\ LocalsTyped /\ OthersStay(w)
      /\ \/ Moves(w, "editor", "rebasing") /\ mine[w] \in files /\ rebase' = mine[w]
         \/ Moves(w, "editor", "stopped") /\ mine[w] \notin files /\ rebase' = Nothing
  <2>1. \/ Rebase!Go(w, "editor", "rebasing") /\ mine[w] \in files /\ rebase' = mine[w]
             /\ UNCHANGED <<Rebase!local>>
        \/ Rebase!Go(w, "editor", "stopped") /\ mine[w] \notin files /\ rebase' = Nothing
             /\ UNCHANGED <<Rebase!local>>
    BY DEF Rebase!SequenceEditor, Rebase!disk, Rebase!git
  <2>2. CASE Rebase!Go(w, "editor", "rebasing") /\ mine[w] \in files /\ rebase' = mine[w]
               /\ UNCHANGED <<Rebase!local>>
    BY <1>1, <2>2, GoIs DEF Rebase!Step, Rebase!local, Rebase!disk, Rebase!git
  <2>3. CASE Rebase!Go(w, "editor", "stopped") /\ mine[w] \notin files /\ rebase' = Nothing
               /\ UNCHANGED <<Rebase!local>>
    BY <1>1, <2>3, GoIs DEF Rebase!Step, Rebase!local, Rebase!disk, Rebase!git
  <2> QED
    BY <2>1, <2>2, <2>3
<1> USE <1>1, <1>2, <1>3 DEF OthersStay, Stays, Moves, Ends, Faulted, Puts, Rebase!Live
<1>4. Rebase!RebaseTypeOK'
  <2>1. /\ step' \in [Window -> Rebase!Step] /\ flow' \in [Window -> {"run", "continue", "abort"}]
        /\ mine' \in [Window -> Session \cup {Nothing}] /\ keep' \in SUBSET Window
    BY DEF LocalsTyped
  <2>2. gate' \in Window \cup {Nothing} /\ trouble' \in SUBSET {"crash", "fault", "outside"}
    BY DEF Rebase!RebaseTypeOK
  <2>3. /\ pointer' \in Session \cup {Nothing, Torn} /\ files' \in SUBSET Session
        /\ rebase' \in Session \cup {Nothing, Other} /\ head' \in Session \cup {"start", Other}
        /\ used' \in SUBSET Session
    BY DEF Rebase!RebaseTypeOK, WindowsFollow, Recon
  <2>4. /\ manifest' \in [Session -> Rebase!Live \cup {Nothing, "pending", "done"}]
        /\ expected' \in [Session -> Session \cup {"start", Other}]
    BY DEF Rebase!RebaseTypeOK
  <2> HIDE DEF Rebase!Live
  <2> QED
    BY <2>1, <2>2, <2>3, <2>4 DEF Rebase!RebaseTypeOK
<1> USE RebaseAssumption
<1>5. WindowsFollow'
  BY DEF Rebase!RebaseTypeOK, WindowsFollow, Recon, Early
<1>6. EvidenceTyped'
  BY DEF LocalsTyped
<1>7. GateHeld'
  BY DEF Rebase!RebaseTypeOK, GateHeld, InGate, WindowsFollow, Early, Recon
<1>8. PointerHeld'
  BY DEF Rebase!RebaseTypeOK, PointerHeld, Holder, WindowsFollow, ManifestsFollow, GateHeld,
      InGate, RebaseBacked, Recon, Early
<1>9. RebaseBacked'
  BY DEF Rebase!RebaseTypeOK, RebaseBacked, PointerHeld, Holder, ManifestsFollow, WindowsFollow,
      Recon, Early
<1>10. ManifestsFollow'
  BY DEF Rebase!RebaseTypeOK, ManifestsFollow, WindowsFollow, PointerHeld, Holder, RebaseBacked,
      Recon, Early, GateHeld, InGate
<1>11. EvidenceStands'
  BY DEF Rebase!RebaseTypeOK, EvidenceStands, EvidenceOf, Rebase!Reconciling, WindowsFollow, Recon,
      Early, Rebase!ProvenDead
<1>12. Untroubled'
  BY DEF Rebase!RebaseTypeOK, Untroubled, UntroubledAt, WindowsFollow, GateHeld, InGate,
      PointerHeld, Holder, RebaseBacked, ManifestsFollow, Recon, Early
<1>13. Rebase!ReleasedUnlessPaused'
  BY DEF Rebase!RebaseTypeOK, Rebase!ReleasedUnlessPaused, Rebase!Idle, Untroubled, UntroubledAt,
      WindowsFollow, PointerHeld, Holder, RebaseBacked, ManifestsFollow, Recon, Early
<1> QED
  BY <1>4, <1>5, <1>6, <1>7, <1>8, <1>9, <1>10, <1>11, <1>12, <1>13 DEF RebaseInv

LEMMA RebaseKeeps == ASSUME RebaseInv, NEW w \in Window, Rebase!Rebase(w) PROVE RebaseInv'
<1>1. /\ Rebase!RebaseTypeOK /\ WindowsFollow /\ EvidenceTyped /\ GateHeld
      /\ PointerHeld /\ RebaseBacked /\ ManifestsFollow /\ EvidenceStands
      /\ Untroubled /\ Rebase!ReleasedUnlessPaused
  BY DEF RebaseInv
<1>2. UNCHANGED <<pointer, manifest, files, expected, used>>
  BY DEF Rebase!Rebase, Rebase!disk, Rebase!git, Rebase!local, Rebase!Fault, Rebase!Trouble
<1>3. /\ LocalsTyped /\ OthersStay(w)
      /\ \/ Moves(w, "rebasing", "finished") /\ rebase = mine[w] /\ rebase' = Nothing
              /\ head' = mine[w] /\ gate' = gate /\ trouble' = trouble
         \/ Moves(w, "rebasing", "stopped") /\ rebase' = rebase /\ head' = head /\ gate' = gate
              /\ trouble' = trouble
         \/ Moves(w, "rebasing", "threw") /\ (Faulted \/ (rebase # mine[w] /\ trouble' = trouble))
              /\ gate' = (IF flow[w] = "run" /\ gate = w THEN Nothing ELSE gate) /\ rebase' = rebase
              /\ head' = head
  <2>1. \/ Rebase!Go(w, "rebasing", "finished") /\ rebase = mine[w] /\ rebase' = Nothing
             /\ head' = mine[w] /\ UNCHANGED <<Rebase!local, gate, trouble>>
        \/ Rebase!Go(w, "rebasing", "stopped")
             /\ UNCHANGED <<Rebase!local, Rebase!git, gate, trouble>>
        \/ Rebase!Go(w, "rebasing", "threw")
             /\ (Rebase!Fault \/ (rebase # mine[w] /\ UNCHANGED trouble))
             /\ (IF flow[w] = "run" THEN Rebase!LeaveGate(w) ELSE UNCHANGED gate)
             /\ UNCHANGED <<Rebase!local, Rebase!git>>
    BY DEF Rebase!Rebase, Rebase!disk, Rebase!git
  <2>2. CASE Rebase!Go(w, "rebasing", "finished") /\ rebase = mine[w] /\ rebase' = Nothing
               /\ head' = mine[w] /\ UNCHANGED <<Rebase!local, gate, trouble>>
    BY <1>1, <2>2, GoIs DEF Rebase!Step, Rebase!local, Rebase!disk, Rebase!git
  <2>3. CASE Rebase!Go(w, "rebasing", "stopped")
               /\ UNCHANGED <<Rebase!local, Rebase!git, gate, trouble>>
    BY <1>1, <2>3, GoIs DEF Rebase!Step, Rebase!local, Rebase!disk, Rebase!git
  <2>4. CASE Rebase!Go(w, "rebasing", "threw")
               /\ (Rebase!Fault \/ (rebase # mine[w] /\ UNCHANGED trouble))
               /\ (IF flow[w] = "run" THEN Rebase!LeaveGate(w) ELSE UNCHANGED gate)
               /\ UNCHANGED <<Rebase!local, Rebase!git>>
    BY <1>1, <2>4, GoIs, FaultIs
    DEF Rebase!Step, Rebase!local, Rebase!disk, Rebase!git, Rebase!LeaveGate
  <2> QED
    BY <2>1, <2>2, <2>3, <2>4
<1> USE <1>1, <1>2, <1>3 DEF OthersStay, Stays, Moves, Ends, Faulted, Puts, Rebase!Live
<1>4. Rebase!RebaseTypeOK'
  <2>1. /\ step' \in [Window -> Rebase!Step] /\ flow' \in [Window -> {"run", "continue", "abort"}]
        /\ mine' \in [Window -> Session \cup {Nothing}] /\ keep' \in SUBSET Window
    BY DEF LocalsTyped
  <2>2. gate' \in Window \cup {Nothing} /\ trouble' \in SUBSET {"crash", "fault", "outside"}
    BY DEF Rebase!RebaseTypeOK
  <2>3. /\ pointer' \in Session \cup {Nothing, Torn} /\ files' \in SUBSET Session
        /\ rebase' \in Session \cup {Nothing, Other} /\ head' \in Session \cup {"start", Other}
        /\ used' \in SUBSET Session
    BY DEF Rebase!RebaseTypeOK, WindowsFollow, Recon
  <2>4. /\ manifest' \in [Session -> Rebase!Live \cup {Nothing, "pending", "done"}]
        /\ expected' \in [Session -> Session \cup {"start", Other}]
    BY DEF Rebase!RebaseTypeOK
  <2> HIDE DEF Rebase!Live
  <2> QED
    BY <2>1, <2>2, <2>3, <2>4 DEF Rebase!RebaseTypeOK
<1> USE RebaseAssumption
<1>5. WindowsFollow'
  BY DEF Rebase!RebaseTypeOK, WindowsFollow, Recon, Early
<1>6. EvidenceTyped'
  BY DEF LocalsTyped
<1>7. GateHeld'
  BY DEF Rebase!RebaseTypeOK, GateHeld, InGate, WindowsFollow, Early, Recon
<1>8. PointerHeld'
  BY DEF Rebase!RebaseTypeOK, PointerHeld, Holder, WindowsFollow, ManifestsFollow, GateHeld,
      InGate, RebaseBacked, Recon, Early
<1>9. RebaseBacked'
  BY DEF Rebase!RebaseTypeOK, RebaseBacked, PointerHeld, Holder, ManifestsFollow, WindowsFollow,
      Recon, Early
<1>10. ManifestsFollow'
  BY DEF Rebase!RebaseTypeOK, ManifestsFollow, WindowsFollow, PointerHeld, Holder, RebaseBacked,
      Recon, Early, GateHeld, InGate
<1>11. EvidenceStands'
  BY DEF Rebase!RebaseTypeOK, EvidenceStands, EvidenceOf, Rebase!Reconciling, WindowsFollow, Recon,
      Early, Rebase!ProvenDead
<1>12. Untroubled'
  BY DEF Rebase!RebaseTypeOK, Untroubled, UntroubledAt, WindowsFollow, GateHeld, InGate,
      PointerHeld, Holder, RebaseBacked, ManifestsFollow, Recon, Early
<1>13. Rebase!ReleasedUnlessPaused'
  BY DEF Rebase!RebaseTypeOK, Rebase!ReleasedUnlessPaused, Rebase!Idle, Untroubled, UntroubledAt,
      WindowsFollow, PointerHeld, Holder, RebaseBacked, ManifestsFollow, Recon, Early
<1> QED
  BY <1>4, <1>5, <1>6, <1>7, <1>8, <1>9, <1>10, <1>11, <1>12, <1>13 DEF RebaseInv

LEMMA CompleteKeeps == ASSUME RebaseInv, NEW w \in Window, Rebase!Complete(w) PROVE RebaseInv'
<1>1. /\ Rebase!RebaseTypeOK /\ WindowsFollow /\ EvidenceTyped /\ GateHeld
      /\ PointerHeld /\ RebaseBacked /\ ManifestsFollow /\ EvidenceStands
      /\ Untroubled /\ Rebase!ReleasedUnlessPaused
  BY DEF RebaseInv
<1>2. UNCHANGED <<pointer, files, rebase, head, expected, used>>
  BY DEF Rebase!Complete, Rebase!git, Rebase!Fault, Rebase!Trouble
<1>3. /\ LocalsTyped /\ OthersStay(w) /\ step[w] = "finished" /\ step'[w] = "unlink"
           /\ flow'[w] = flow[w]
      /\ mine'[w] = mine[w] /\ seen'[w] = seen[w]
           /\ gate' = (IF flow[w] = "run" /\ gate = w THEN Nothing ELSE gate)
      /\ \/ Puts(w, "pending") /\ w \in keep' /\ trouble' = trouble
         \/ Puts(w, "done") /\ (w \in keep' <=> w \in keep) /\ trouble' = trouble
         \/ Faulted /\ manifest' = manifest /\ (w \in keep' <=> w \in keep)
  <2>1. /\ Rebase!Go(w, "finished", "unlink") /\ UNCHANGED <<flow, mine, seen>>
             /\ (keep' = keep \/ keep' = keep \cup {w})
        /\ IF flow[w] = "run" THEN Rebase!LeaveGate(w) ELSE UNCHANGED gate
        /\ \/ Rebase!Put(mine[w], "pending") /\ keep' = keep \cup {w} /\ trouble' = trouble
           \/ Rebase!Put(mine[w], "done") /\ keep' = keep /\ trouble' = trouble
           \/ Rebase!Fault /\ UNCHANGED <<manifest, keep>>
    BY DEF Rebase!Complete
  <2>2. /\ LocalsTyped /\ OthersStay(w) /\ step[w] = "finished" /\ step'[w] = "unlink"
             /\ flow'[w] = flow[w]
        /\ mine'[w] = mine[w] /\ seen'[w] = seen[w]
    BY <1>1, <2>1
    DEF LocalsTyped, OthersStay, Rebase!Go, Rebase!RebaseTypeOK, EvidenceTyped, Rebase!Step
  <2>3. gate' = (IF flow[w] = "run" /\ gate = w THEN Nothing ELSE gate)
    BY <2>1 DEF Rebase!LeaveGate
  <2>4. ASSUME NEW lifecycle \in {"pending", "done"}, Rebase!Put(mine[w], lifecycle)
        PROVE  Puts(w, lifecycle)
    BY <1>1, <2>2, <2>4, PutIs DEF Recon
  <2>5. Rebase!Fault => Faulted
    BY <1>1, FaultIs
  <2> QED
    BY <2>1, <2>2, <2>3, <2>4, <2>5
<1> USE <1>1, <1>2, <1>3 DEF OthersStay, Stays, Moves, Ends, Faulted, Puts, Rebase!Live
<1>4. Rebase!RebaseTypeOK'
  <2>1. /\ step' \in [Window -> Rebase!Step] /\ flow' \in [Window -> {"run", "continue", "abort"}]
        /\ mine' \in [Window -> Session \cup {Nothing}] /\ keep' \in SUBSET Window
    BY DEF LocalsTyped
  <2>2. gate' \in Window \cup {Nothing} /\ trouble' \in SUBSET {"crash", "fault", "outside"}
    BY DEF Rebase!RebaseTypeOK
  <2>3. /\ pointer' \in Session \cup {Nothing, Torn} /\ files' \in SUBSET Session
        /\ rebase' \in Session \cup {Nothing, Other} /\ head' \in Session \cup {"start", Other}
        /\ used' \in SUBSET Session
    BY DEF Rebase!RebaseTypeOK, WindowsFollow, Recon
  <2>4. /\ manifest' \in [Session -> Rebase!Live \cup {Nothing, "pending", "done"}]
        /\ expected' \in [Session -> Session \cup {"start", Other}]
    BY DEF Rebase!RebaseTypeOK
  <2> HIDE DEF Rebase!Live
  <2> QED
    BY <2>1, <2>2, <2>3, <2>4 DEF Rebase!RebaseTypeOK
<1> USE RebaseAssumption
<1>5. WindowsFollow'
  BY DEF Rebase!RebaseTypeOK, WindowsFollow, Recon, Early
<1>6. EvidenceTyped'
  BY DEF LocalsTyped
<1>7. GateHeld'
  BY DEF Rebase!RebaseTypeOK, GateHeld, InGate, WindowsFollow, Early, Recon
<1>8. PointerHeld'
  BY DEF Rebase!RebaseTypeOK, PointerHeld, Holder, WindowsFollow, ManifestsFollow, GateHeld,
      InGate, RebaseBacked, Recon, Early
<1>9. RebaseBacked'
  BY DEF Rebase!RebaseTypeOK, RebaseBacked, PointerHeld, Holder, ManifestsFollow, WindowsFollow,
      Recon, Early
<1>10. ManifestsFollow'
  BY DEF Rebase!RebaseTypeOK, ManifestsFollow, WindowsFollow, PointerHeld, Holder, RebaseBacked,
      Recon, Early, GateHeld, InGate
<1>11. EvidenceStands'
  BY DEF Rebase!RebaseTypeOK, EvidenceStands, EvidenceOf, Rebase!Reconciling, WindowsFollow, Recon,
      Early, Rebase!ProvenDead
<1>12. Untroubled'
  BY DEF Rebase!RebaseTypeOK, Untroubled, UntroubledAt, WindowsFollow, GateHeld, InGate,
      PointerHeld, Holder, RebaseBacked, ManifestsFollow, Recon, Early
<1>13. Rebase!ReleasedUnlessPaused'
  BY DEF Rebase!RebaseTypeOK, Rebase!ReleasedUnlessPaused, Rebase!Idle, Untroubled, UntroubledAt,
      WindowsFollow, PointerHeld, Holder, RebaseBacked, ManifestsFollow, Recon, Early
<1> QED
  BY <1>4, <1>5, <1>6, <1>7, <1>8, <1>9, <1>10, <1>11, <1>12, <1>13 DEF RebaseInv

LEMMA StoppedKeeps == ASSUME RebaseInv, NEW w \in Window, Rebase!Stopped(w) PROVE RebaseInv'
<1>1. /\ Rebase!RebaseTypeOK /\ WindowsFollow /\ EvidenceTyped /\ GateHeld
      /\ PointerHeld /\ RebaseBacked /\ ManifestsFollow /\ EvidenceStands
      /\ Untroubled /\ Rebase!ReleasedUnlessPaused
  BY DEF RebaseInv
<1>2. UNCHANGED <<pointer, files, rebase, head, expected, used>>
  BY DEF Rebase!Stopped, Rebase!disk, Rebase!git, Rebase!local, Rebase!End, Rebase!Throw,
      Rebase!Fault, Rebase!Trouble
<1>3. /\ LocalsTyped /\ OthersStay(w)
      /\ \/ Moves(w, "stopped", "unlink") /\ rebase = Nothing
              /\ gate' = (IF flow[w] = "run" /\ gate = w THEN Nothing ELSE gate)
              /\ manifest' = manifest /\ trouble' = trouble
         \/ step[w] = "stopped" /\ Ends(w)
              /\ (rebase = mine[w] \/ (flow[w] = "run" /\ rebase # Nothing)) /\ Puts(w, "paused")
              /\ trouble' = trouble
         \/ step[w] = "stopped" /\ Ends(w) /\ flow[w] # "run" /\ rebase \notin {Nothing, mine[w]}
              /\ manifest' = manifest /\ trouble' = trouble
         \/ Moves(w, "stopped", "threw") /\ Faulted
              /\ gate' = (IF flow[w] = "run" /\ gate = w THEN Nothing ELSE gate) /\ rebase # Nothing
              /\ manifest' = manifest
  <2>1. \/ Rebase!Go(w, "stopped", "unlink") /\ rebase = Nothing
             /\ (IF flow[w] = "run" THEN Rebase!LeaveGate(w) ELSE UNCHANGED gate)
             /\ UNCHANGED <<Rebase!local, manifest, trouble>>
        \/ step[w] = "stopped" /\ Rebase!End(w)
             /\ (rebase = mine[w] \/ (flow[w] = "run" /\ rebase # Nothing))
             /\ Rebase!Put(mine[w], "paused") /\ UNCHANGED <<trouble>>
        \/ step[w] = "stopped" /\ Rebase!End(w) /\ flow[w] # "run"
             /\ rebase \notin {Nothing, mine[w]} /\ UNCHANGED <<manifest, trouble>>
        \/ Rebase!Throw(w, "stopped") /\ rebase # Nothing
    BY DEF Rebase!Stopped, Rebase!disk, Rebase!git
  <2>2. CASE Rebase!Go(w, "stopped", "unlink") /\ rebase = Nothing
               /\ (IF flow[w] = "run" THEN Rebase!LeaveGate(w) ELSE UNCHANGED gate)
               /\ UNCHANGED <<Rebase!local, manifest, trouble>>
    BY <1>1, <2>2, GoIs DEF Rebase!Step, Rebase!local, Rebase!disk, Rebase!git, Rebase!LeaveGate
  <2>3. CASE step[w] = "stopped" /\ Rebase!End(w)
               /\ (rebase = mine[w] \/ (flow[w] = "run" /\ rebase # Nothing))
               /\ Rebase!Put(mine[w], "paused") /\ UNCHANGED <<trouble>>
    BY <1>1, <2>3, EndIs, PutIs
    DEF Rebase!Step, Rebase!local, Rebase!disk, Rebase!git, Recon, Rebase!Live
  <2>4. CASE step[w] = "stopped" /\ Rebase!End(w) /\ flow[w] # "run"
               /\ rebase \notin {Nothing, mine[w]} /\ UNCHANGED <<manifest, trouble>>
    BY <1>1, <2>4, EndIs DEF Rebase!Step, Rebase!local, Rebase!disk, Rebase!git
  <2>5. CASE Rebase!Throw(w, "stopped") /\ rebase # Nothing
    BY <1>1, <2>5, ThrowIs DEF Rebase!Step, Rebase!local, Rebase!disk, Rebase!git
  <2> QED
    BY <2>1, <2>2, <2>3, <2>4, <2>5
<1> USE <1>1, <1>2, <1>3 DEF OthersStay, Stays, Moves, Ends, Faulted, Puts, Rebase!Live
<1>4. Rebase!RebaseTypeOK'
  <2>1. /\ step' \in [Window -> Rebase!Step] /\ flow' \in [Window -> {"run", "continue", "abort"}]
        /\ mine' \in [Window -> Session \cup {Nothing}] /\ keep' \in SUBSET Window
    BY DEF LocalsTyped
  <2>2. gate' \in Window \cup {Nothing} /\ trouble' \in SUBSET {"crash", "fault", "outside"}
    BY DEF Rebase!RebaseTypeOK
  <2>3. /\ pointer' \in Session \cup {Nothing, Torn} /\ files' \in SUBSET Session
        /\ rebase' \in Session \cup {Nothing, Other} /\ head' \in Session \cup {"start", Other}
        /\ used' \in SUBSET Session
    BY DEF Rebase!RebaseTypeOK, WindowsFollow, Recon
  <2>4. /\ manifest' \in [Session -> Rebase!Live \cup {Nothing, "pending", "done"}]
        /\ expected' \in [Session -> Session \cup {"start", Other}]
    BY DEF Rebase!RebaseTypeOK
  <2> HIDE DEF Rebase!Live
  <2> QED
    BY <2>1, <2>2, <2>3, <2>4 DEF Rebase!RebaseTypeOK
<1> USE RebaseAssumption
<1>5. WindowsFollow'
  BY DEF Rebase!RebaseTypeOK, WindowsFollow, Recon, Early
<1>6. EvidenceTyped'
  BY DEF LocalsTyped
<1>7. GateHeld'
  BY DEF Rebase!RebaseTypeOK, GateHeld, InGate, WindowsFollow, Early, Recon
<1>8. PointerHeld'
  BY DEF Rebase!RebaseTypeOK, PointerHeld, Holder, WindowsFollow, ManifestsFollow, GateHeld,
      InGate, RebaseBacked, Recon, Early
<1>9. RebaseBacked'
  BY DEF Rebase!RebaseTypeOK, RebaseBacked, PointerHeld, Holder, ManifestsFollow, WindowsFollow,
      Recon, Early
<1>10. ManifestsFollow'
  BY DEF Rebase!RebaseTypeOK, ManifestsFollow, WindowsFollow, PointerHeld, Holder, RebaseBacked,
      Recon, Early, GateHeld, InGate
<1>11. EvidenceStands'
  BY DEF Rebase!RebaseTypeOK, EvidenceStands, EvidenceOf, Rebase!Reconciling, WindowsFollow, Recon,
      Early, Rebase!ProvenDead
<1>12. Untroubled'
  BY DEF Rebase!RebaseTypeOK, Untroubled, UntroubledAt, WindowsFollow, GateHeld, InGate,
      PointerHeld, Holder, RebaseBacked, ManifestsFollow, Recon, Early
<1>13. Rebase!ReleasedUnlessPaused'
  BY DEF Rebase!RebaseTypeOK, Rebase!ReleasedUnlessPaused, Rebase!Idle, Untroubled, UntroubledAt,
      WindowsFollow, PointerHeld, Holder, RebaseBacked, ManifestsFollow, Recon, Early
<1> QED
  BY <1>4, <1>5, <1>6, <1>7, <1>8, <1>9, <1>10, <1>11, <1>12, <1>13 DEF RebaseInv

LEMMA RecoverKeeps == ASSUME RebaseInv, NEW w \in Window, Rebase!Recover(w) PROVE RebaseInv'
<1>1. /\ Rebase!RebaseTypeOK /\ WindowsFollow /\ EvidenceTyped /\ GateHeld
      /\ PointerHeld /\ RebaseBacked /\ ManifestsFollow /\ EvidenceStands
      /\ Untroubled /\ Rebase!ReleasedUnlessPaused
  BY DEF RebaseInv
<1>2. UNCHANGED <<pointer, manifest, files, rebase, head, expected, used>>
  BY DEF Rebase!Recover, Rebase!disk, Rebase!git, Rebase!local, Rebase!End, Rebase!Fault,
      Rebase!Trouble
<1>3. /\ LocalsTyped /\ OthersStay(w)
      /\ \/ Moves(w, "threw", "unlink") /\ rebase = Nothing /\ gate' = gate /\ trouble' = trouble
         \/ step[w] = "threw" /\ Ends(w) /\ ((rebase # Nothing /\ trouble' = trouble) \/ Faulted)
  <2>1. \/ Rebase!Go(w, "threw", "unlink") /\ rebase = Nothing
             /\ UNCHANGED <<Rebase!local, gate, trouble>>
        \/ step[w] = "threw" /\ Rebase!End(w)
             /\ ((rebase # Nothing /\ UNCHANGED trouble) \/ (rebase = Nothing /\ flow[w] = "run"
             /\ Rebase!Fault))
    BY DEF Rebase!Recover, Rebase!disk, Rebase!git
  <2>2. CASE Rebase!Go(w, "threw", "unlink") /\ rebase = Nothing
               /\ UNCHANGED <<Rebase!local, gate, trouble>>
    BY <1>1, <2>2, GoIs DEF Rebase!Step, Rebase!local, Rebase!disk, Rebase!git
  <2>3. CASE step[w] = "threw" /\ Rebase!End(w)
               /\ ((rebase # Nothing /\ UNCHANGED trouble) \/ (rebase = Nothing
               /\ flow[w] = "run" /\ Rebase!Fault))
    BY <1>1, <2>3, EndIs, FaultIs DEF Rebase!Step, Rebase!local, Rebase!disk, Rebase!git
  <2> QED
    BY <2>1, <2>2, <2>3
<1> USE <1>1, <1>2, <1>3 DEF OthersStay, Stays, Moves, Ends, Faulted, Puts, Rebase!Live
<1>4. Rebase!RebaseTypeOK'
  <2>1. /\ step' \in [Window -> Rebase!Step] /\ flow' \in [Window -> {"run", "continue", "abort"}]
        /\ mine' \in [Window -> Session \cup {Nothing}] /\ keep' \in SUBSET Window
    BY DEF LocalsTyped
  <2>2. gate' \in Window \cup {Nothing} /\ trouble' \in SUBSET {"crash", "fault", "outside"}
    BY DEF Rebase!RebaseTypeOK
  <2>3. /\ pointer' \in Session \cup {Nothing, Torn} /\ files' \in SUBSET Session
        /\ rebase' \in Session \cup {Nothing, Other} /\ head' \in Session \cup {"start", Other}
        /\ used' \in SUBSET Session
    BY DEF Rebase!RebaseTypeOK, WindowsFollow, Recon
  <2>4. /\ manifest' \in [Session -> Rebase!Live \cup {Nothing, "pending", "done"}]
        /\ expected' \in [Session -> Session \cup {"start", Other}]
    BY DEF Rebase!RebaseTypeOK
  <2> HIDE DEF Rebase!Live
  <2> QED
    BY <2>1, <2>2, <2>3, <2>4 DEF Rebase!RebaseTypeOK
<1> USE RebaseAssumption
<1>5. WindowsFollow'
  BY DEF Rebase!RebaseTypeOK, WindowsFollow, Recon, Early
<1>6. EvidenceTyped'
  BY DEF LocalsTyped
<1>7. GateHeld'
  BY DEF Rebase!RebaseTypeOK, GateHeld, InGate, WindowsFollow, Early, Recon
<1>8. PointerHeld'
  BY DEF Rebase!RebaseTypeOK, PointerHeld, Holder, WindowsFollow, ManifestsFollow, GateHeld,
      InGate, RebaseBacked, Recon, Early
<1>9. RebaseBacked'
  BY DEF Rebase!RebaseTypeOK, RebaseBacked, PointerHeld, Holder, ManifestsFollow, WindowsFollow,
      Recon, Early
<1>10. ManifestsFollow'
  BY DEF Rebase!RebaseTypeOK, ManifestsFollow, WindowsFollow, PointerHeld, Holder, RebaseBacked,
      Recon, Early, GateHeld, InGate
<1>11. EvidenceStands'
  BY DEF Rebase!RebaseTypeOK, EvidenceStands, EvidenceOf, Rebase!Reconciling, WindowsFollow, Recon,
      Early, Rebase!ProvenDead
<1>12. Untroubled'
  BY DEF Rebase!RebaseTypeOK, Untroubled, UntroubledAt, WindowsFollow, GateHeld, InGate,
      PointerHeld, Holder, RebaseBacked, ManifestsFollow, Recon, Early
<1>13. Rebase!ReleasedUnlessPaused'
  BY DEF Rebase!RebaseTypeOK, Rebase!ReleasedUnlessPaused, Rebase!Idle, Untroubled, UntroubledAt,
      WindowsFollow, PointerHeld, Holder, RebaseBacked, ManifestsFollow, Recon, Early
<1> QED
  BY <1>4, <1>5, <1>6, <1>7, <1>8, <1>9, <1>10, <1>11, <1>12, <1>13 DEF RebaseInv

LEMMA DeleteFilesKeeps == ASSUME RebaseInv, NEW w \in Window, Rebase!DeleteFiles(w) PROVE RebaseInv'
<1>1. /\ Rebase!RebaseTypeOK /\ WindowsFollow /\ EvidenceTyped /\ GateHeld
      /\ PointerHeld /\ RebaseBacked /\ ManifestsFollow /\ EvidenceStands
      /\ Untroubled /\ Rebase!ReleasedUnlessPaused
  BY DEF RebaseInv
<1>2. UNCHANGED <<rebase, head, expected, used>>
  BY DEF Rebase!DeleteFiles, Rebase!git, Rebase!local, Rebase!Unclean, Rebase!disk, Rebase!End,
      Rebase!Fault, Rebase!Trouble
<1>3. /\ LocalsTyped /\ OthersStay(w)
      /\ \/ Moves(w, "unlink", (IF w \in keep THEN "compare" ELSE "forget"))
              /\ files' = files \ {mine[w]} /\ pointer' = pointer /\ manifest' = manifest
              /\ gate' = gate /\ trouble' = trouble
         \/ Uncleaned(w, "unlink", (IF w \in keep THEN "compare" ELSE "forget")) /\ Faulted
              /\ UNCHANGED <<pointer, manifest, files>>
  <2>1. \/ Rebase!Go(w, "unlink", (IF w \in keep THEN "compare" ELSE "forget"))
             /\ files' = files \ {mine[w]}
             /\ UNCHANGED <<Rebase!local, pointer, manifest, gate, trouble>>
        \/ Rebase!Unclean(w, "unlink", (IF w \in keep THEN "compare" ELSE "forget"))
    BY DEF Rebase!DeleteFiles, Rebase!disk, Rebase!git
  <2>2. CASE Rebase!Go(w, "unlink", (IF w \in keep THEN "compare" ELSE "forget"))
               /\ files' = files \ {mine[w]}
               /\ UNCHANGED <<Rebase!local, pointer, manifest, gate, trouble>>
    BY <1>1, <2>2, GoIs DEF Rebase!Step, Rebase!local, Rebase!disk, Rebase!git
  <2>3. CASE Rebase!Unclean(w, "unlink", (IF w \in keep THEN "compare" ELSE "forget"))
    BY <1>1, <2>3, UncleanIs DEF Rebase!Step, Rebase!local, Rebase!disk, Rebase!git
  <2> QED
    BY <2>1, <2>2, <2>3
<1> USE <1>1, <1>2, <1>3 DEF OthersStay, Stays, Moves, Ends, Faulted, Puts, Rebase!Live, Uncleaned
<1>4. Rebase!RebaseTypeOK'
  <2>1. /\ step' \in [Window -> Rebase!Step] /\ flow' \in [Window -> {"run", "continue", "abort"}]
        /\ mine' \in [Window -> Session \cup {Nothing}] /\ keep' \in SUBSET Window
    BY DEF LocalsTyped
  <2>2. gate' \in Window \cup {Nothing} /\ trouble' \in SUBSET {"crash", "fault", "outside"}
    BY DEF Rebase!RebaseTypeOK
  <2>3. /\ pointer' \in Session \cup {Nothing, Torn} /\ files' \in SUBSET Session
        /\ rebase' \in Session \cup {Nothing, Other} /\ head' \in Session \cup {"start", Other}
        /\ used' \in SUBSET Session
    BY DEF Rebase!RebaseTypeOK, WindowsFollow, Recon
  <2>4. /\ manifest' \in [Session -> Rebase!Live \cup {Nothing, "pending", "done"}]
        /\ expected' \in [Session -> Session \cup {"start", Other}]
    BY DEF Rebase!RebaseTypeOK
  <2> HIDE DEF Rebase!Live
  <2> QED
    BY <2>1, <2>2, <2>3, <2>4 DEF Rebase!RebaseTypeOK
<1> USE RebaseAssumption
<1>5. WindowsFollow'
  BY DEF Rebase!RebaseTypeOK, WindowsFollow, Recon, Early
<1>6. EvidenceTyped'
  BY DEF LocalsTyped
<1>7. GateHeld'
  BY DEF Rebase!RebaseTypeOK, GateHeld, InGate, WindowsFollow, Early, Recon
<1>8. PointerHeld'
  BY DEF Rebase!RebaseTypeOK, PointerHeld, Holder, WindowsFollow, ManifestsFollow, GateHeld,
      InGate, RebaseBacked, Recon, Early
<1>9. RebaseBacked'
  BY DEF Rebase!RebaseTypeOK, RebaseBacked, PointerHeld, Holder, ManifestsFollow, WindowsFollow,
      Recon, Early
<1>10. ManifestsFollow'
  BY DEF Rebase!RebaseTypeOK, ManifestsFollow, WindowsFollow, PointerHeld, Holder, RebaseBacked,
      Recon, Early, GateHeld, InGate
<1>11. EvidenceStands'
  BY DEF Rebase!RebaseTypeOK, EvidenceStands, EvidenceOf, Rebase!Reconciling, WindowsFollow, Recon,
      Early, Rebase!ProvenDead
<1>12. Untroubled'
  BY DEF Rebase!RebaseTypeOK, Untroubled, UntroubledAt, WindowsFollow, GateHeld, InGate,
      PointerHeld, Holder, RebaseBacked, ManifestsFollow, Recon, Early
<1>13. Rebase!ReleasedUnlessPaused'
  BY DEF Rebase!RebaseTypeOK, Rebase!ReleasedUnlessPaused, Rebase!Idle, Untroubled, UntroubledAt,
      WindowsFollow, PointerHeld, Holder, RebaseBacked, ManifestsFollow, Recon, Early
<1> QED
  BY <1>4, <1>5, <1>6, <1>7, <1>8, <1>9, <1>10, <1>11, <1>12, <1>13 DEF RebaseInv

LEMMA DeleteManifestKeeps ==
  ASSUME RebaseInv, NEW w \in Window, Rebase!DeleteManifest(w) PROVE RebaseInv'
<1>1. /\ Rebase!RebaseTypeOK /\ WindowsFollow /\ EvidenceTyped /\ GateHeld
      /\ PointerHeld /\ RebaseBacked /\ ManifestsFollow /\ EvidenceStands
      /\ Untroubled /\ Rebase!ReleasedUnlessPaused
  BY DEF RebaseInv
<1>2. UNCHANGED <<rebase, head, expected, used>>
  BY DEF Rebase!DeleteManifest, Rebase!git, Rebase!local, Rebase!Unclean, Rebase!disk, Rebase!End,
      Rebase!Fault, Rebase!Trouble
<1>3. /\ LocalsTyped /\ OthersStay(w)
      /\ \/ Moves(w, "forget", "compare") /\ Puts(w, Nothing) /\ pointer' = pointer
              /\ files' = files /\ gate' = gate /\ trouble' = trouble
         \/ Uncleaned(w, "forget", "compare") /\ Faulted /\ UNCHANGED <<pointer, manifest, files>>
  <2>1. \/ Rebase!Go(w, "forget", "compare") /\ Rebase!Put(mine[w], Nothing)
             /\ UNCHANGED <<Rebase!local, pointer, files, gate, trouble>>
        \/ Rebase!Unclean(w, "forget", "compare")
    BY DEF Rebase!DeleteManifest, Rebase!disk, Rebase!git
  <2>2. CASE Rebase!Go(w, "forget", "compare") /\ Rebase!Put(mine[w], Nothing)
               /\ UNCHANGED <<Rebase!local, pointer, files, gate, trouble>>
    BY <1>1, <2>2, GoPutIs DEF Rebase!Step, Rebase!local, Rebase!disk, Rebase!git, Recon
  <2>3. CASE Rebase!Unclean(w, "forget", "compare")
    BY <1>1, <2>3, UncleanIs DEF Rebase!Step, Rebase!local, Rebase!disk, Rebase!git
  <2> QED
    BY <2>1, <2>2, <2>3
<1> USE <1>1, <1>2, <1>3 DEF OthersStay, Stays, Moves, Ends, Faulted, Puts, Rebase!Live, Uncleaned
<1>4. Rebase!RebaseTypeOK'
  <2>1. /\ step' \in [Window -> Rebase!Step] /\ flow' \in [Window -> {"run", "continue", "abort"}]
        /\ mine' \in [Window -> Session \cup {Nothing}] /\ keep' \in SUBSET Window
    BY DEF LocalsTyped
  <2>2. gate' \in Window \cup {Nothing} /\ trouble' \in SUBSET {"crash", "fault", "outside"}
    BY DEF Rebase!RebaseTypeOK
  <2>3. /\ pointer' \in Session \cup {Nothing, Torn} /\ files' \in SUBSET Session
        /\ rebase' \in Session \cup {Nothing, Other} /\ head' \in Session \cup {"start", Other}
        /\ used' \in SUBSET Session
    BY DEF Rebase!RebaseTypeOK, WindowsFollow, Recon
  <2>4. /\ manifest' \in [Session -> Rebase!Live \cup {Nothing, "pending", "done"}]
        /\ expected' \in [Session -> Session \cup {"start", Other}]
    BY DEF Rebase!RebaseTypeOK
  <2> HIDE DEF Rebase!Live
  <2> QED
    BY <2>1, <2>2, <2>3, <2>4 DEF Rebase!RebaseTypeOK
<1> USE RebaseAssumption
<1>5. WindowsFollow'
  BY DEF Rebase!RebaseTypeOK, WindowsFollow, Recon, Early
<1>6. EvidenceTyped'
  BY DEF LocalsTyped
<1>7. GateHeld'
  BY DEF Rebase!RebaseTypeOK, GateHeld, InGate, WindowsFollow, Early, Recon
<1>8. PointerHeld'
  BY DEF Rebase!RebaseTypeOK, PointerHeld, Holder, WindowsFollow, ManifestsFollow, GateHeld,
      InGate, RebaseBacked, Recon, Early
<1>9. RebaseBacked'
  BY DEF Rebase!RebaseTypeOK, RebaseBacked, PointerHeld, Holder, ManifestsFollow, WindowsFollow,
      Recon, Early
<1>10. ManifestsFollow'
  BY DEF Rebase!RebaseTypeOK, ManifestsFollow, WindowsFollow, PointerHeld, Holder, RebaseBacked,
      Recon, Early, GateHeld, InGate
<1>11. EvidenceStands'
  BY DEF Rebase!RebaseTypeOK, EvidenceStands, EvidenceOf, Rebase!Reconciling, WindowsFollow, Recon,
      Early, Rebase!ProvenDead
<1>12. Untroubled'
  BY DEF Rebase!RebaseTypeOK, Untroubled, UntroubledAt, WindowsFollow, GateHeld, InGate,
      PointerHeld, Holder, RebaseBacked, ManifestsFollow, Recon, Early
<1>13. Rebase!ReleasedUnlessPaused'
  BY DEF Rebase!RebaseTypeOK, Rebase!ReleasedUnlessPaused, Rebase!Idle, Untroubled, UntroubledAt,
      WindowsFollow, PointerHeld, Holder, RebaseBacked, ManifestsFollow, Recon, Early
<1> QED
  BY <1>4, <1>5, <1>6, <1>7, <1>8, <1>9, <1>10, <1>11, <1>12, <1>13 DEF RebaseInv

LEMMA CompareKeeps == ASSUME RebaseInv, NEW w \in Window, Rebase!Compare(w) PROVE RebaseInv'
<1>1. /\ Rebase!RebaseTypeOK /\ WindowsFollow /\ EvidenceTyped /\ GateHeld
      /\ PointerHeld /\ RebaseBacked /\ ManifestsFollow /\ EvidenceStands
      /\ Untroubled /\ Rebase!ReleasedUnlessPaused
  BY DEF RebaseInv
<1>2. UNCHANGED <<rebase, head, expected, used>>
  BY DEF Rebase!Compare, Rebase!disk, Rebase!git, Rebase!local, Rebase!Unclean, Rebase!End,
      Rebase!Fault, Rebase!Trouble
<1>3. /\ LocalsTyped /\ OthersStay(w)
      /\ \/ Moves(w, "compare", "release") /\ pointer \notin Session \ {mine[w]}
              /\ pointer' = pointer /\ manifest' = manifest /\ files' = files /\ gate' = gate
              /\ trouble' = trouble
         \/ Moves(w, "compare", "offer") /\ pointer \in Session \ {mine[w]}
              /\ gate' = (IF gate = w THEN Nothing ELSE gate) /\ pointer' = pointer
              /\ manifest' = manifest /\ files' = files /\ trouble' = trouble
         \/ Uncleaned(w, "compare", "offer") /\ Faulted /\ UNCHANGED <<pointer, manifest, files>>
  <2>1. \/ Rebase!Go(w, "compare", "release") /\ pointer \notin Session \ {mine[w]}
             /\ UNCHANGED <<Rebase!local, pointer, manifest, files, gate, trouble>>
        \/ Rebase!Go(w, "compare", "offer") /\ pointer \in Session \ {mine[w]}
             /\ Rebase!LeaveGate(w) /\ UNCHANGED <<Rebase!local, pointer, manifest, files, trouble>>
        \/ Rebase!Unclean(w, "compare", "offer")
    BY DEF Rebase!Compare, Rebase!disk, Rebase!git
  <2>2. CASE Rebase!Go(w, "compare", "release") /\ pointer \notin Session \ {mine[w]}
               /\ UNCHANGED <<Rebase!local, pointer, manifest, files, gate, trouble>>
    BY <1>1, <2>2, GoIs DEF Rebase!Step, Rebase!local, Rebase!disk, Rebase!git
  <2>3. CASE Rebase!Go(w, "compare", "offer") /\ pointer \in Session \ {mine[w]}
               /\ Rebase!LeaveGate(w)
               /\ UNCHANGED <<Rebase!local, pointer, manifest, files, trouble>>
    BY <1>1, <2>3, GoIs DEF Rebase!Step, Rebase!local, Rebase!disk, Rebase!git, Rebase!LeaveGate
  <2>4. CASE Rebase!Unclean(w, "compare", "offer")
    BY <1>1, <2>4, UncleanIs DEF Rebase!Step, Rebase!local, Rebase!disk, Rebase!git
  <2> QED
    BY <2>1, <2>2, <2>3, <2>4
<1> USE <1>1, <1>2, <1>3 DEF OthersStay, Stays, Moves, Ends, Faulted, Puts, Rebase!Live, Uncleaned
<1>4. Rebase!RebaseTypeOK'
  <2>1. /\ step' \in [Window -> Rebase!Step] /\ flow' \in [Window -> {"run", "continue", "abort"}]
        /\ mine' \in [Window -> Session \cup {Nothing}] /\ keep' \in SUBSET Window
    BY DEF LocalsTyped
  <2>2. gate' \in Window \cup {Nothing} /\ trouble' \in SUBSET {"crash", "fault", "outside"}
    BY DEF Rebase!RebaseTypeOK
  <2>3. /\ pointer' \in Session \cup {Nothing, Torn} /\ files' \in SUBSET Session
        /\ rebase' \in Session \cup {Nothing, Other} /\ head' \in Session \cup {"start", Other}
        /\ used' \in SUBSET Session
    BY DEF Rebase!RebaseTypeOK, WindowsFollow, Recon
  <2>4. /\ manifest' \in [Session -> Rebase!Live \cup {Nothing, "pending", "done"}]
        /\ expected' \in [Session -> Session \cup {"start", Other}]
    BY DEF Rebase!RebaseTypeOK
  <2> HIDE DEF Rebase!Live
  <2> QED
    BY <2>1, <2>2, <2>3, <2>4 DEF Rebase!RebaseTypeOK
<1> USE RebaseAssumption
<1>5. WindowsFollow'
  BY DEF Rebase!RebaseTypeOK, WindowsFollow, Recon, Early
<1>6. EvidenceTyped'
  BY DEF LocalsTyped
<1>7. GateHeld'
  BY DEF Rebase!RebaseTypeOK, GateHeld, InGate, WindowsFollow, Early, Recon
<1>8. PointerHeld'
  BY DEF Rebase!RebaseTypeOK, PointerHeld, Holder, WindowsFollow, ManifestsFollow, GateHeld,
      InGate, RebaseBacked, Recon, Early
<1>9. RebaseBacked'
  BY DEF Rebase!RebaseTypeOK, RebaseBacked, PointerHeld, Holder, ManifestsFollow, WindowsFollow,
      Recon, Early
<1>10. ManifestsFollow'
  BY DEF Rebase!RebaseTypeOK, ManifestsFollow, WindowsFollow, PointerHeld, Holder, RebaseBacked,
      Recon, Early, GateHeld, InGate
<1>11. EvidenceStands'
  BY DEF Rebase!RebaseTypeOK, EvidenceStands, EvidenceOf, Rebase!Reconciling, WindowsFollow, Recon,
      Early, Rebase!ProvenDead
<1>12. Untroubled'
  BY DEF Rebase!RebaseTypeOK, Untroubled, UntroubledAt, WindowsFollow, GateHeld, InGate,
      PointerHeld, Holder, RebaseBacked, ManifestsFollow, Recon, Early
<1>13. Rebase!ReleasedUnlessPaused'
  BY DEF Rebase!RebaseTypeOK, Rebase!ReleasedUnlessPaused, Rebase!Idle, Untroubled, UntroubledAt,
      WindowsFollow, PointerHeld, Holder, RebaseBacked, ManifestsFollow, Recon, Early
<1> QED
  BY <1>4, <1>5, <1>6, <1>7, <1>8, <1>9, <1>10, <1>11, <1>12, <1>13 DEF RebaseInv

LEMMA ReleaseKeeps == ASSUME RebaseInv, NEW w \in Window, Rebase!Release(w) PROVE RebaseInv'
<1>1. /\ Rebase!RebaseTypeOK /\ WindowsFollow /\ EvidenceTyped /\ GateHeld
      /\ PointerHeld /\ RebaseBacked /\ ManifestsFollow /\ EvidenceStands
      /\ Untroubled /\ Rebase!ReleasedUnlessPaused
  BY DEF RebaseInv
<1>2. UNCHANGED <<rebase, head, expected, used>>
  BY DEF Rebase!Release, Rebase!git, Rebase!local, Rebase!Unclean, Rebase!disk, Rebase!End,
      Rebase!Fault, Rebase!Trouble
<1>3. /\ LocalsTyped /\ OthersStay(w)
      /\ \/ Moves(w, "release", "offer") /\ pointer' = Nothing
              /\ gate' = (IF gate = w THEN Nothing ELSE gate) /\ manifest' = manifest
              /\ files' = files /\ trouble' = trouble
         \/ Uncleaned(w, "release", "offer") /\ Faulted /\ UNCHANGED <<pointer, manifest, files>>
  <2>1. \/ Rebase!Go(w, "release", "offer") /\ pointer' = Nothing /\ Rebase!LeaveGate(w)
             /\ UNCHANGED <<Rebase!local, manifest, files, trouble>>
        \/ Rebase!Unclean(w, "release", "offer")
    BY DEF Rebase!Release, Rebase!disk, Rebase!git
  <2>2. CASE Rebase!Go(w, "release", "offer") /\ pointer' = Nothing /\ Rebase!LeaveGate(w)
               /\ UNCHANGED <<Rebase!local, manifest, files, trouble>>
    BY <1>1, <2>2, GoIs DEF Rebase!Step, Rebase!local, Rebase!disk, Rebase!git, Rebase!LeaveGate
  <2>3. CASE Rebase!Unclean(w, "release", "offer")
    BY <1>1, <2>3, UncleanIs DEF Rebase!Step, Rebase!local, Rebase!disk, Rebase!git
  <2> QED
    BY <2>1, <2>2, <2>3
<1> USE <1>1, <1>2, <1>3 DEF OthersStay, Stays, Moves, Ends, Faulted, Puts, Rebase!Live, Uncleaned
<1>4. Rebase!RebaseTypeOK'
  <2>1. /\ step' \in [Window -> Rebase!Step] /\ flow' \in [Window -> {"run", "continue", "abort"}]
        /\ mine' \in [Window -> Session \cup {Nothing}] /\ keep' \in SUBSET Window
    BY DEF LocalsTyped
  <2>2. gate' \in Window \cup {Nothing} /\ trouble' \in SUBSET {"crash", "fault", "outside"}
    BY DEF Rebase!RebaseTypeOK
  <2>3. /\ pointer' \in Session \cup {Nothing, Torn} /\ files' \in SUBSET Session
        /\ rebase' \in Session \cup {Nothing, Other} /\ head' \in Session \cup {"start", Other}
        /\ used' \in SUBSET Session
    BY DEF Rebase!RebaseTypeOK, WindowsFollow, Recon
  <2>4. /\ manifest' \in [Session -> Rebase!Live \cup {Nothing, "pending", "done"}]
        /\ expected' \in [Session -> Session \cup {"start", Other}]
    BY DEF Rebase!RebaseTypeOK
  <2> HIDE DEF Rebase!Live
  <2> QED
    BY <2>1, <2>2, <2>3, <2>4 DEF Rebase!RebaseTypeOK
<1> USE RebaseAssumption
<1>5. WindowsFollow'
  BY DEF Rebase!RebaseTypeOK, WindowsFollow, Recon, Early
<1>6. EvidenceTyped'
  BY DEF LocalsTyped
<1>7. GateHeld'
  BY DEF Rebase!RebaseTypeOK, GateHeld, InGate, WindowsFollow, Early, Recon
<1>8. PointerHeld'
  BY DEF Rebase!RebaseTypeOK, PointerHeld, Holder, WindowsFollow, ManifestsFollow, GateHeld,
      InGate, RebaseBacked, Recon, Early
<1>9. RebaseBacked'
  BY DEF Rebase!RebaseTypeOK, RebaseBacked, PointerHeld, Holder, ManifestsFollow, WindowsFollow,
      Recon, Early
<1>10. ManifestsFollow'
  BY DEF Rebase!RebaseTypeOK, ManifestsFollow, WindowsFollow, PointerHeld, Holder, RebaseBacked,
      Recon, Early, GateHeld, InGate
<1>11. EvidenceStands'
  BY DEF Rebase!RebaseTypeOK, EvidenceStands, EvidenceOf, Rebase!Reconciling, WindowsFollow, Recon,
      Early, Rebase!ProvenDead
<1>12. Untroubled'
  BY DEF Rebase!RebaseTypeOK, Untroubled, UntroubledAt, WindowsFollow, GateHeld, InGate,
      PointerHeld, Holder, RebaseBacked, ManifestsFollow, Recon, Early
<1>13. Rebase!ReleasedUnlessPaused'
  BY DEF Rebase!RebaseTypeOK, Rebase!ReleasedUnlessPaused, Rebase!Idle, Untroubled, UntroubledAt,
      WindowsFollow, PointerHeld, Holder, RebaseBacked, ManifestsFollow, Recon, Early
<1> QED
  BY <1>4, <1>5, <1>6, <1>7, <1>8, <1>9, <1>10, <1>11, <1>12, <1>13 DEF RebaseInv

LEMMA OfferKeeps == ASSUME RebaseInv, NEW w \in Window, Rebase!Offer(w) PROVE RebaseInv'
<1>1. /\ Rebase!RebaseTypeOK /\ WindowsFollow /\ EvidenceTyped /\ GateHeld
      /\ PointerHeld /\ RebaseBacked /\ ManifestsFollow /\ EvidenceStands
      /\ Untroubled /\ Rebase!ReleasedUnlessPaused
  BY DEF RebaseInv
<1>2. UNCHANGED <<pointer, files, rebase, head, expected, used, trouble>>
  BY DEF Rebase!Offer, Rebase!disk, Rebase!git, Rebase!local, Rebase!End
<1>3. /\ LocalsTyped /\ OthersStay(w)
      /\ \/ step[w] = "offer" /\ Ends(w) /\ manifest' = manifest
         \/ Moves(w, "offer", "dismiss") /\ w \in keep /\ (\A v \in Window : ~Rebase!Reconciling(v))
              /\ Puts(w, "done") /\ gate' = gate
  <2>1. \/ step[w] = "offer" /\ Rebase!End(w) /\ UNCHANGED <<manifest>>
        \/ Rebase!Go(w, "offer", "dismiss") /\ w \in keep
             /\ (\A v \in Window : ~Rebase!Reconciling(v)) /\ Rebase!Put(mine[w], "done")
             /\ UNCHANGED <<Rebase!local, gate>>
    BY DEF Rebase!Offer, Rebase!disk, Rebase!git
  <2>2. CASE step[w] = "offer" /\ Rebase!End(w) /\ UNCHANGED <<manifest>>
    BY <1>1, <2>2, EndIs DEF Rebase!Step, Rebase!local, Rebase!disk, Rebase!git
  <2>3. CASE Rebase!Go(w, "offer", "dismiss") /\ w \in keep
               /\ (\A v \in Window : ~Rebase!Reconciling(v)) /\ Rebase!Put(mine[w], "done")
               /\ UNCHANGED <<Rebase!local, gate>>
    BY <1>1, <2>3, GoPutIs DEF Rebase!Step, Rebase!local, Rebase!disk, Rebase!git, Recon
  <2> QED
    BY <2>1, <2>2, <2>3
<1> USE <1>1, <1>2, <1>3 DEF OthersStay, Stays, Moves, Ends, Faulted, Puts, Rebase!Live
<1>4. Rebase!RebaseTypeOK'
  <2>1. /\ step' \in [Window -> Rebase!Step] /\ flow' \in [Window -> {"run", "continue", "abort"}]
        /\ mine' \in [Window -> Session \cup {Nothing}] /\ keep' \in SUBSET Window
    BY DEF LocalsTyped
  <2>2. gate' \in Window \cup {Nothing} /\ trouble' \in SUBSET {"crash", "fault", "outside"}
    BY DEF Rebase!RebaseTypeOK
  <2>3. /\ pointer' \in Session \cup {Nothing, Torn} /\ files' \in SUBSET Session
        /\ rebase' \in Session \cup {Nothing, Other} /\ head' \in Session \cup {"start", Other}
        /\ used' \in SUBSET Session
    BY DEF Rebase!RebaseTypeOK, WindowsFollow, Recon
  <2>4. /\ manifest' \in [Session -> Rebase!Live \cup {Nothing, "pending", "done"}]
        /\ expected' \in [Session -> Session \cup {"start", Other}]
    BY DEF Rebase!RebaseTypeOK
  <2> HIDE DEF Rebase!Live
  <2> QED
    BY <2>1, <2>2, <2>3, <2>4 DEF Rebase!RebaseTypeOK
<1> USE RebaseAssumption
<1>5. WindowsFollow'
  BY DEF Rebase!RebaseTypeOK, WindowsFollow, Recon, Early
<1>6. EvidenceTyped'
  BY DEF LocalsTyped
<1>7. GateHeld'
  BY DEF Rebase!RebaseTypeOK, GateHeld, InGate, WindowsFollow, Early, Recon
<1>8. PointerHeld'
  BY DEF Rebase!RebaseTypeOK, PointerHeld, Holder, WindowsFollow, ManifestsFollow, GateHeld,
      InGate, RebaseBacked, Recon, Early
<1>9. RebaseBacked'
  BY DEF Rebase!RebaseTypeOK, RebaseBacked, PointerHeld, Holder, ManifestsFollow, WindowsFollow,
      Recon, Early
<1>10. ManifestsFollow'
  BY DEF Rebase!RebaseTypeOK, ManifestsFollow, WindowsFollow, PointerHeld, Holder, RebaseBacked,
      Recon, Early, GateHeld, InGate
<1>11. EvidenceStands'
  BY DEF Rebase!RebaseTypeOK, EvidenceStands, EvidenceOf, Rebase!Reconciling, WindowsFollow, Recon,
      Early, Rebase!ProvenDead
<1>12. Untroubled'
  BY DEF Rebase!RebaseTypeOK, Untroubled, UntroubledAt, WindowsFollow, GateHeld, InGate,
      PointerHeld, Holder, RebaseBacked, ManifestsFollow, Recon, Early
<1>13. Rebase!ReleasedUnlessPaused'
  BY DEF Rebase!RebaseTypeOK, Rebase!ReleasedUnlessPaused, Rebase!Idle, Untroubled, UntroubledAt,
      WindowsFollow, PointerHeld, Holder, RebaseBacked, ManifestsFollow, Recon, Early
<1> QED
  BY <1>4, <1>5, <1>6, <1>7, <1>8, <1>9, <1>10, <1>11, <1>12, <1>13 DEF RebaseInv

LEMMA DismissKeeps == ASSUME RebaseInv, NEW w \in Window, Rebase!Dismiss(w) PROVE RebaseInv'
<1>1. /\ Rebase!RebaseTypeOK /\ WindowsFollow /\ EvidenceTyped /\ GateHeld
      /\ PointerHeld /\ RebaseBacked /\ ManifestsFollow /\ EvidenceStands
      /\ Untroubled /\ Rebase!ReleasedUnlessPaused
  BY DEF RebaseInv
<1>2. UNCHANGED <<pointer, files, rebase, head, expected, used>>
  BY DEF Rebase!Dismiss, Rebase!git, Rebase!End, Rebase!Fault, Rebase!Trouble
<1>3. /\ LocalsTyped /\ OthersStay(w)
      /\ \/ step[w] = "dismiss" /\ Ends(w) /\ Puts(w, Nothing) /\ trouble' = trouble
         \/ step[w] = "dismiss" /\ Ends(w) /\ Faulted /\ Puts(w, "pending")
  <2>1. \/ step[w] = "dismiss" /\ Rebase!End(w) /\ Rebase!Put(mine[w], Nothing)
             /\ UNCHANGED <<trouble>>
        \/ step[w] = "dismiss" /\ Rebase!End(w) /\ Rebase!Fault /\ Rebase!Put(mine[w], "pending")
    BY DEF Rebase!Dismiss, Rebase!disk, Rebase!git
  <2>2. CASE step[w] = "dismiss" /\ Rebase!End(w) /\ Rebase!Put(mine[w], Nothing)
               /\ UNCHANGED <<trouble>>
    BY <1>1, <2>2, EndIs, PutIs DEF Rebase!Step, Rebase!local, Rebase!disk, Rebase!git, Recon
  <2>3. CASE step[w] = "dismiss" /\ Rebase!End(w) /\ Rebase!Fault /\ Rebase!Put(mine[w], "pending")
    BY <1>1, <2>3, EndIs, FaultIs, PutIs
    DEF Rebase!Step, Rebase!local, Rebase!disk, Rebase!git, Recon
  <2> QED
    BY <2>1, <2>2, <2>3
<1> USE <1>1, <1>2, <1>3 DEF OthersStay, Stays, Moves, Ends, Faulted, Puts, Rebase!Live
<1>4. Rebase!RebaseTypeOK'
  <2>1. /\ step' \in [Window -> Rebase!Step] /\ flow' \in [Window -> {"run", "continue", "abort"}]
        /\ mine' \in [Window -> Session \cup {Nothing}] /\ keep' \in SUBSET Window
    BY DEF LocalsTyped
  <2>2. gate' \in Window \cup {Nothing} /\ trouble' \in SUBSET {"crash", "fault", "outside"}
    BY DEF Rebase!RebaseTypeOK
  <2>3. /\ pointer' \in Session \cup {Nothing, Torn} /\ files' \in SUBSET Session
        /\ rebase' \in Session \cup {Nothing, Other} /\ head' \in Session \cup {"start", Other}
        /\ used' \in SUBSET Session
    BY DEF Rebase!RebaseTypeOK, WindowsFollow, Recon
  <2>4. /\ manifest' \in [Session -> Rebase!Live \cup {Nothing, "pending", "done"}]
        /\ expected' \in [Session -> Session \cup {"start", Other}]
    BY DEF Rebase!RebaseTypeOK
  <2> HIDE DEF Rebase!Live
  <2> QED
    BY <2>1, <2>2, <2>3, <2>4 DEF Rebase!RebaseTypeOK
<1> USE RebaseAssumption
<1>5. WindowsFollow'
  BY DEF Rebase!RebaseTypeOK, WindowsFollow, Recon, Early
<1>6. EvidenceTyped'
  BY DEF LocalsTyped
<1>7. GateHeld'
  BY DEF Rebase!RebaseTypeOK, GateHeld, InGate, WindowsFollow, Early, Recon
<1>8. PointerHeld'
  BY DEF Rebase!RebaseTypeOK, PointerHeld, Holder, WindowsFollow, ManifestsFollow, GateHeld,
      InGate, RebaseBacked, Recon, Early
<1>9. RebaseBacked'
  BY DEF Rebase!RebaseTypeOK, RebaseBacked, PointerHeld, Holder, ManifestsFollow, WindowsFollow,
      Recon, Early
<1>10. ManifestsFollow'
  BY DEF Rebase!RebaseTypeOK, ManifestsFollow, WindowsFollow, PointerHeld, Holder, RebaseBacked,
      Recon, Early, GateHeld, InGate
<1>11. EvidenceStands'
  BY DEF Rebase!RebaseTypeOK, EvidenceStands, EvidenceOf, Rebase!Reconciling, WindowsFollow, Recon,
      Early, Rebase!ProvenDead
<1>12. Untroubled'
  BY DEF Rebase!RebaseTypeOK, Untroubled, UntroubledAt, WindowsFollow, GateHeld, InGate,
      PointerHeld, Holder, RebaseBacked, ManifestsFollow, Recon, Early
<1>13. Rebase!ReleasedUnlessPaused'
  BY DEF Rebase!RebaseTypeOK, Rebase!ReleasedUnlessPaused, Rebase!Idle, Untroubled, UntroubledAt,
      WindowsFollow, PointerHeld, Holder, RebaseBacked, ManifestsFollow, Recon, Early
<1> QED
  BY <1>4, <1>5, <1>6, <1>7, <1>8, <1>9, <1>10, <1>11, <1>12, <1>13 DEF RebaseInv

LEMMA SubmitKeeps == ASSUME RebaseInv, NEW w \in Window, Rebase!Submit(w) PROVE RebaseInv'
<1>1. /\ Rebase!RebaseTypeOK /\ WindowsFollow /\ EvidenceTyped /\ GateHeld
      /\ PointerHeld /\ RebaseBacked /\ ManifestsFollow /\ EvidenceStands
      /\ Untroubled /\ Rebase!ReleasedUnlessPaused
  BY DEF RebaseInv
<1>2. UNCHANGED <<pointer, manifest, files, rebase, head, gate, trouble>>
  BY DEF Rebase!Submit, Rebase!disk, Rebase!git
<1>3. /\ LocalsTyped /\ OthersStay(w) /\ step[w] = "idle" /\ step'[w] = "reserve"
           /\ flow'[w] = flow[w]
      /\ seen'[w] = seen[w] /\ (w \in keep' <=> w \in keep) /\ mine'[w] \in Session \ used
      /\ used' = used \cup {mine'[w]} /\ rebase = Nothing
           /\ \A v \in Window : ~Rebase!Reconciling(v)
      /\ expected' \in [Session -> Session \cup {"start", Other}]
  <2>1. /\ Rebase!Go(w, "idle", "reserve") /\ rebase = Nothing /\ UNCHANGED <<flow, keep, seen>>
        /\ \A v \in Window : ~Rebase!Reconciling(v)
    BY DEF Rebase!Submit
  <2>2. PICK s \in Session \ used : /\ mine' = [mine EXCEPT ![w] = s] /\ used' = used \cup {s}
                                   /\ expected' = [expected EXCEPT ![s] = head]
    BY DEF Rebase!Submit
  <2> QED
    BY <1>1, <2>1, <2>2
    DEF LocalsTyped, OthersStay, Rebase!Go, Rebase!RebaseTypeOK, EvidenceTyped, Rebase!Step
<1> USE <1>1, <1>2, <1>3 DEF OthersStay, Stays, Moves, Ends, Faulted, Puts, Rebase!Live
<1>4. Rebase!RebaseTypeOK'
  <2>1. /\ step' \in [Window -> Rebase!Step] /\ flow' \in [Window -> {"run", "continue", "abort"}]
        /\ mine' \in [Window -> Session \cup {Nothing}] /\ keep' \in SUBSET Window
    BY DEF LocalsTyped
  <2>2. gate' \in Window \cup {Nothing} /\ trouble' \in SUBSET {"crash", "fault", "outside"}
    BY DEF Rebase!RebaseTypeOK
  <2>3. /\ pointer' \in Session \cup {Nothing, Torn} /\ files' \in SUBSET Session
        /\ rebase' \in Session \cup {Nothing, Other} /\ head' \in Session \cup {"start", Other}
        /\ used' \in SUBSET Session
    BY DEF Rebase!RebaseTypeOK, WindowsFollow, Recon
  <2>4. /\ manifest' \in [Session -> Rebase!Live \cup {Nothing, "pending", "done"}]
        /\ expected' \in [Session -> Session \cup {"start", Other}]
    BY DEF Rebase!RebaseTypeOK
  <2> HIDE DEF Rebase!Live
  <2> QED
    BY <2>1, <2>2, <2>3, <2>4 DEF Rebase!RebaseTypeOK
<1> USE RebaseAssumption
<1>5. WindowsFollow'
  BY DEF Rebase!RebaseTypeOK, WindowsFollow, Recon, Early
<1>6. EvidenceTyped'
  BY DEF LocalsTyped
<1>7. GateHeld'
  BY DEF Rebase!RebaseTypeOK, GateHeld, InGate, WindowsFollow, Early, Recon
<1>8. PointerHeld'
  BY DEF Rebase!RebaseTypeOK, PointerHeld, Holder, WindowsFollow, ManifestsFollow, GateHeld,
      InGate, RebaseBacked, Recon, Early
<1>9. RebaseBacked'
  BY DEF Rebase!RebaseTypeOK, RebaseBacked, PointerHeld, Holder, ManifestsFollow, WindowsFollow,
      Recon, Early
<1>10. ManifestsFollow'
  BY DEF Rebase!RebaseTypeOK, ManifestsFollow, WindowsFollow, PointerHeld, Holder, RebaseBacked,
      Recon, Early, GateHeld, InGate
<1>11. EvidenceStands'
  BY DEF Rebase!RebaseTypeOK, EvidenceStands, EvidenceOf, Rebase!Reconciling, WindowsFollow, Recon,
      Early, Rebase!ProvenDead
<1>12. Untroubled'
  BY DEF Rebase!RebaseTypeOK, Untroubled, UntroubledAt, WindowsFollow, GateHeld, InGate,
      PointerHeld, Holder, RebaseBacked, ManifestsFollow, Recon, Early
<1>13. Rebase!ReleasedUnlessPaused'
  BY DEF Rebase!RebaseTypeOK, Rebase!ReleasedUnlessPaused, Rebase!Idle, Untroubled, UntroubledAt,
      WindowsFollow, PointerHeld, Holder, RebaseBacked, ManifestsFollow, Recon, Early
<1> QED
  BY <1>4, <1>5, <1>6, <1>7, <1>8, <1>9, <1>10, <1>11, <1>12, <1>13 DEF RebaseInv

LEMMA ControlKeeps == ASSUME RebaseInv, NEW w \in Window, Rebase!Control(w) PROVE RebaseInv'
<1>1. /\ Rebase!RebaseTypeOK /\ WindowsFollow /\ EvidenceTyped /\ GateHeld
      /\ PointerHeld /\ RebaseBacked /\ ManifestsFollow /\ EvidenceStands
      /\ Untroubled /\ Rebase!ReleasedUnlessPaused
  BY DEF RebaseInv
<1>2. UNCHANGED <<pointer, manifest, files, rebase, head, expected, used, trouble>>
  BY DEF Rebase!Control, Rebase!disk, Rebase!git
<1>3. /\ LocalsTyped /\ OthersStay(w) /\ step[w] = "idle" /\ flow'[w] \in {"continue", "abort"}
      /\ seen'[w] = seen[w] /\ (w \in keep' <=> w \in keep) /\ gate = Nothing /\ gate' = w
           /\ rebase # Nothing
      /\ \A v \in Window : ~Rebase!Leaving(v) /\ ~Rebase!Reconciling(v)
      /\ rebase \in Session => rebase \in used /\ pointer = rebase
           /\ \A v \in Window : mine[v] # rebase
      /\ \/ /\ rebase \in Session /\ mine'[w] = rebase
            /\ step'[w] = (IF flow'[w] = "continue" THEN "rebasing" ELSE "pass")
         \/ rebase \notin Session /\ mine'[w] = mine[w] /\ step'[w] = "pass"
  <2>1. /\ step[w] = "idle" /\ gate = Nothing /\ gate' = w /\ rebase # Nothing
             /\ UNCHANGED <<keep, seen>>
        /\ \A v \in Window : ~Rebase!Leaving(v) /\ ~Rebase!Reconciling(v)
    BY DEF Rebase!Control
  <2>2. PICK verb \in {"continue", "abort"} :
          /\ flow' = [flow EXCEPT ![w] = verb]
          /\ \/ /\ Rebase!Owned /\ mine' = [mine EXCEPT ![w] = rebase]
                /\ step' = [step EXCEPT ![w] = IF verb = "continue" THEN "rebasing" ELSE "pass"]
             \/ ~Rebase!Owned /\ mine' = mine /\ step' = [step EXCEPT ![w] = "pass"]
    BY DEF Rebase!Control
  <2>3. Rebase!Owned <=> rebase \in Session
    BY <1>1 DEF Rebase!Owned, Rebase!LiveSession, RebaseBacked
  <2>4. rebase \in Session => rebase \in used /\ pointer = rebase
    BY <1>1, RebaseAssumption DEF RebaseBacked, ManifestsFollow, Rebase!Live
  <2>5. ASSUME NEW v \in Window, rebase \in Session, mine[v] = rebase PROVE FALSE
    <3>1. step[v] \in {"rebasing", "stopped", "threw", "pass"} /\ mine[v] # Nothing
      BY <1>1, <2>5, RebaseAssumption DEF RebaseBacked
    <3>2. ~InGate(v)
      BY <1>1, <2>1, RebaseAssumption DEF GateHeld
    <3> QED
      BY <1>1, <2>1, <3>1, <3>2 DEF InGate, Rebase!Leaving, WindowsFollow
  <2>6. /\ rebase \in Session => rebase \in used /\ pointer = rebase
             /\ \A v \in Window : mine[v] # rebase
        /\ step[w] = "idle" /\ gate = Nothing /\ gate' = w /\ rebase # Nothing
        /\ \A v \in Window : ~Rebase!Leaving(v) /\ ~Rebase!Reconciling(v)
    BY <2>1, <2>4, <2>5
  <2>7. LocalsTyped
    <3>1. EvidenceTyped' /\ keep' \subseteq Window
            /\ flow' \in [Window -> {"run", "continue", "abort"}]
      BY <1>1, <2>1, <2>2 DEF Rebase!RebaseTypeOK, EvidenceTyped
    <3>2. mine' \in [Window -> Session \cup {Nothing}]
      BY <1>1, <2>2, <2>3 DEF Rebase!RebaseTypeOK
    <3>3. step' \in [Window -> Rebase!Step]
      BY <1>1, <2>2 DEF Rebase!RebaseTypeOK, Rebase!Step
    <3> QED
      BY <3>1, <3>2, <3>3 DEF LocalsTyped
  <2>8. /\ OthersStay(w) /\ flow'[w] \in {"continue", "abort"}
        /\ seen'[w] = seen[w] /\ (w \in keep' <=> w \in keep)
        /\ \/ /\ rebase \in Session /\ mine'[w] = rebase
              /\ step'[w] = (IF flow'[w] = "continue" THEN "rebasing" ELSE "pass")
           \/ rebase \notin Session /\ mine'[w] = mine[w] /\ step'[w] = "pass"
    BY <1>1, <2>1, <2>2, <2>3 DEF OthersStay, Rebase!RebaseTypeOK
  <2> QED
    BY <2>6, <2>7, <2>8
<1> USE <1>1, <1>2, <1>3 DEF OthersStay, Stays, Moves, Ends, Faulted, Puts, Rebase!Live
<1>4. Rebase!RebaseTypeOK'
  <2>1. /\ step' \in [Window -> Rebase!Step] /\ flow' \in [Window -> {"run", "continue", "abort"}]
        /\ mine' \in [Window -> Session \cup {Nothing}] /\ keep' \in SUBSET Window
    BY DEF LocalsTyped
  <2>2. gate' \in Window \cup {Nothing} /\ trouble' \in SUBSET {"crash", "fault", "outside"}
    BY DEF Rebase!RebaseTypeOK
  <2>3. /\ pointer' \in Session \cup {Nothing, Torn} /\ files' \in SUBSET Session
        /\ rebase' \in Session \cup {Nothing, Other} /\ head' \in Session \cup {"start", Other}
        /\ used' \in SUBSET Session
    BY DEF Rebase!RebaseTypeOK, WindowsFollow, Recon
  <2>4. /\ manifest' \in [Session -> Rebase!Live \cup {Nothing, "pending", "done"}]
        /\ expected' \in [Session -> Session \cup {"start", Other}]
    BY DEF Rebase!RebaseTypeOK
  <2> HIDE DEF Rebase!Live
  <2> QED
    BY <2>1, <2>2, <2>3, <2>4 DEF Rebase!RebaseTypeOK
<1> USE RebaseAssumption
<1>5. WindowsFollow'
  BY DEF Rebase!RebaseTypeOK, WindowsFollow, Recon, Early
<1>6. EvidenceTyped'
  BY DEF LocalsTyped
<1>7. GateHeld'
  BY DEF Rebase!RebaseTypeOK, GateHeld, InGate, WindowsFollow, Early, Recon
<1>8. PointerHeld'
  BY DEF Rebase!RebaseTypeOK, PointerHeld, Holder, WindowsFollow, ManifestsFollow, GateHeld,
      InGate, RebaseBacked, Recon, Early
<1>9. RebaseBacked'
  BY DEF Rebase!RebaseTypeOK, RebaseBacked, PointerHeld, Holder, ManifestsFollow, WindowsFollow,
      Recon, Early
<1>10. ManifestsFollow'
  BY DEF Rebase!RebaseTypeOK, ManifestsFollow, WindowsFollow, PointerHeld, Holder, RebaseBacked,
      Recon, Early, GateHeld, InGate
<1>11. EvidenceStands'
  BY DEF Rebase!RebaseTypeOK, EvidenceStands, EvidenceOf, Rebase!Reconciling, WindowsFollow, Recon,
      Early, Rebase!ProvenDead
<1>12. Untroubled'
  BY DEF Rebase!RebaseTypeOK, Untroubled, UntroubledAt, WindowsFollow, GateHeld, InGate,
      PointerHeld, Holder, RebaseBacked, ManifestsFollow, Recon, Early
<1>13. Rebase!ReleasedUnlessPaused'
  BY DEF Rebase!RebaseTypeOK, Rebase!ReleasedUnlessPaused, Rebase!Idle, Untroubled, UntroubledAt,
      WindowsFollow, PointerHeld, Holder, RebaseBacked, ManifestsFollow, Recon, Early
<1> QED
  BY <1>4, <1>5, <1>6, <1>7, <1>8, <1>9, <1>10, <1>11, <1>12, <1>13 DEF RebaseInv

LEMMA PassThroughKeeps == ASSUME RebaseInv, NEW w \in Window, Rebase!PassThrough(w) PROVE RebaseInv'
<1>1. /\ Rebase!RebaseTypeOK /\ WindowsFollow /\ EvidenceTyped /\ GateHeld
      /\ PointerHeld /\ RebaseBacked /\ ManifestsFollow /\ EvidenceStands
      /\ Untroubled /\ Rebase!ReleasedUnlessPaused
  BY DEF RebaseInv
<1>2. UNCHANGED <<pointer, manifest, files, expected, used, trouble>>
  BY DEF Rebase!PassThrough, Rebase!disk, Rebase!git, Rebase!local, Rebase!End
<1>3. /\ LocalsTyped /\ OthersStay(w)
      /\ \/ rebase # Nothing /\ rebase' = Nothing /\ head' \in {head, Other} /\ mine[w] # Nothing
              /\ Moves(w, "pass", "unlink") /\ gate' = gate
         \/ rebase # Nothing /\ rebase' = Nothing /\ head' \in {head, Other} /\ mine[w] = Nothing
              /\ step[w] = "pass" /\ Ends(w)
         \/ step[w] = "pass" /\ Ends(w) /\ rebase' = rebase /\ head' = head
  <2>1. \/ rebase # Nothing /\ rebase' = Nothing /\ head' \in {head, Other} /\ mine[w] # Nothing
             /\ Rebase!Go(w, "pass", "unlink") /\ UNCHANGED <<gate, Rebase!local>>
        \/ rebase # Nothing /\ rebase' = Nothing /\ head' \in {head, Other} /\ mine[w] = Nothing
             /\ step[w] = "pass" /\ Rebase!End(w)
        \/ step[w] = "pass" /\ Rebase!End(w) /\ UNCHANGED <<rebase, head>>
    BY DEF Rebase!PassThrough, Rebase!Go, Rebase!disk, Rebase!git
  <2>2. CASE rebase # Nothing /\ rebase' = Nothing /\ head' \in {head, Other} /\ mine[w] # Nothing
               /\ Rebase!Go(w, "pass", "unlink") /\ UNCHANGED <<gate, Rebase!local>>
    BY <1>1, <2>2, GoIs DEF Rebase!Step, Rebase!local, Rebase!disk, Rebase!git
  <2>3. CASE rebase # Nothing /\ rebase' = Nothing /\ head' \in {head, Other} /\ mine[w] = Nothing
               /\ step[w] = "pass" /\ Rebase!End(w)
    BY <1>1, <2>3, EndIs DEF Rebase!Step, Rebase!local, Rebase!disk, Rebase!git
  <2>4. CASE step[w] = "pass" /\ Rebase!End(w) /\ UNCHANGED <<rebase, head>>
    BY <1>1, <2>4, EndIs DEF Rebase!Step, Rebase!local, Rebase!disk, Rebase!git
  <2> QED
    BY <2>1, <2>2, <2>3, <2>4
<1> USE <1>1, <1>2, <1>3 DEF OthersStay, Stays, Moves, Ends, Faulted, Puts, Rebase!Live
<1>4. Rebase!RebaseTypeOK'
  <2>1. /\ step' \in [Window -> Rebase!Step] /\ flow' \in [Window -> {"run", "continue", "abort"}]
        /\ mine' \in [Window -> Session \cup {Nothing}] /\ keep' \in SUBSET Window
    BY DEF LocalsTyped
  <2>2. gate' \in Window \cup {Nothing} /\ trouble' \in SUBSET {"crash", "fault", "outside"}
    BY DEF Rebase!RebaseTypeOK
  <2>3. /\ pointer' \in Session \cup {Nothing, Torn} /\ files' \in SUBSET Session
        /\ rebase' \in Session \cup {Nothing, Other} /\ head' \in Session \cup {"start", Other}
        /\ used' \in SUBSET Session
    BY DEF Rebase!RebaseTypeOK, WindowsFollow, Recon
  <2>4. /\ manifest' \in [Session -> Rebase!Live \cup {Nothing, "pending", "done"}]
        /\ expected' \in [Session -> Session \cup {"start", Other}]
    BY DEF Rebase!RebaseTypeOK
  <2> HIDE DEF Rebase!Live
  <2> QED
    BY <2>1, <2>2, <2>3, <2>4 DEF Rebase!RebaseTypeOK
<1> USE RebaseAssumption
<1>5. WindowsFollow'
  BY DEF Rebase!RebaseTypeOK, WindowsFollow, Recon, Early
<1>6. EvidenceTyped'
  BY DEF LocalsTyped
<1>7. GateHeld'
  BY DEF Rebase!RebaseTypeOK, GateHeld, InGate, WindowsFollow, Early, Recon
<1>8. PointerHeld'
  BY DEF Rebase!RebaseTypeOK, PointerHeld, Holder, WindowsFollow, ManifestsFollow, GateHeld,
      InGate, RebaseBacked, Recon, Early
<1>9. RebaseBacked'
  BY DEF Rebase!RebaseTypeOK, RebaseBacked, PointerHeld, Holder, ManifestsFollow, WindowsFollow,
      Recon, Early
<1>10. ManifestsFollow'
  BY DEF Rebase!RebaseTypeOK, ManifestsFollow, WindowsFollow, PointerHeld, Holder, RebaseBacked,
      Recon, Early, GateHeld, InGate
<1>11. EvidenceStands'
  BY DEF Rebase!RebaseTypeOK, EvidenceStands, EvidenceOf, Rebase!Reconciling, WindowsFollow, Recon,
      Early, Rebase!ProvenDead
<1>12. Untroubled'
  BY DEF Rebase!RebaseTypeOK, Untroubled, UntroubledAt, WindowsFollow, GateHeld, InGate,
      PointerHeld, Holder, RebaseBacked, ManifestsFollow, Recon, Early
<1>13. Rebase!ReleasedUnlessPaused'
  BY DEF Rebase!RebaseTypeOK, Rebase!ReleasedUnlessPaused, Rebase!Idle, Untroubled, UntroubledAt,
      WindowsFollow, PointerHeld, Holder, RebaseBacked, ManifestsFollow, Recon, Early
<1> QED
  BY <1>4, <1>5, <1>6, <1>7, <1>8, <1>9, <1>10, <1>11, <1>12, <1>13 DEF RebaseInv

LEMMA ActivateKeeps == ASSUME RebaseInv, NEW w \in Window, Rebase!Activate(w) PROVE RebaseInv'
<1>1. /\ Rebase!RebaseTypeOK /\ WindowsFollow /\ EvidenceTyped /\ GateHeld
      /\ PointerHeld /\ RebaseBacked /\ ManifestsFollow /\ EvidenceStands
      /\ Untroubled /\ Rebase!ReleasedUnlessPaused
  BY DEF RebaseInv
<1>2. UNCHANGED <<pointer, manifest, files, rebase, head, expected, used, gate, trouble>>
  BY DEF Rebase!Activate, Rebase!disk, Rebase!git, Rebase!local
<1>3. /\ LocalsTyped /\ OthersStay(w) /\ Moves(w, "idle", "gather")
           /\ \A v \in Window : ~Rebase!Working(v)
  <2>1. Rebase!Go(w, "idle", "gather") /\ UNCHANGED Rebase!local
          /\ \A v \in Window : ~Rebase!Working(v)
    BY DEF Rebase!Activate
  <2> QED
    BY <1>1, <2>1, GoIs DEF Rebase!Step
<1> USE <1>1, <1>2, <1>3 DEF OthersStay, Stays, Moves, Ends, Faulted, Puts, Rebase!Live
<1>4. Rebase!RebaseTypeOK'
  <2>1. /\ step' \in [Window -> Rebase!Step] /\ flow' \in [Window -> {"run", "continue", "abort"}]
        /\ mine' \in [Window -> Session \cup {Nothing}] /\ keep' \in SUBSET Window
    BY DEF LocalsTyped
  <2>2. gate' \in Window \cup {Nothing} /\ trouble' \in SUBSET {"crash", "fault", "outside"}
    BY DEF Rebase!RebaseTypeOK
  <2>3. /\ pointer' \in Session \cup {Nothing, Torn} /\ files' \in SUBSET Session
        /\ rebase' \in Session \cup {Nothing, Other} /\ head' \in Session \cup {"start", Other}
        /\ used' \in SUBSET Session
    BY DEF Rebase!RebaseTypeOK, WindowsFollow, Recon
  <2>4. /\ manifest' \in [Session -> Rebase!Live \cup {Nothing, "pending", "done"}]
        /\ expected' \in [Session -> Session \cup {"start", Other}]
    BY DEF Rebase!RebaseTypeOK
  <2> HIDE DEF Rebase!Live
  <2> QED
    BY <2>1, <2>2, <2>3, <2>4 DEF Rebase!RebaseTypeOK
<1> USE RebaseAssumption
<1>5. WindowsFollow'
  BY DEF Rebase!RebaseTypeOK, WindowsFollow, Recon, Early
<1>6. EvidenceTyped'
  BY DEF LocalsTyped
<1>7. GateHeld'
  BY DEF Rebase!RebaseTypeOK, GateHeld, InGate, WindowsFollow, Early, Recon
<1>8. PointerHeld'
  BY DEF Rebase!RebaseTypeOK, PointerHeld, Holder, WindowsFollow, ManifestsFollow, GateHeld,
      InGate, RebaseBacked, Recon, Early
<1>9. RebaseBacked'
  BY DEF Rebase!RebaseTypeOK, RebaseBacked, PointerHeld, Holder, ManifestsFollow, WindowsFollow,
      Recon, Early
<1>10. ManifestsFollow'
  BY DEF Rebase!RebaseTypeOK, ManifestsFollow, WindowsFollow, PointerHeld, Holder, RebaseBacked,
      Recon, Early, GateHeld, InGate
<1>11. EvidenceStands'
  <2>1. seen'[w] = Rebase!Unread
    BY DEF Rebase!RebaseTypeOK, WindowsFollow, Recon
  <2>2. seen'[w].rebase = Torn /\ seen'[w].manifests = Torn
    BY <2>1 DEF Rebase!Unread
  <2>3. \A v \in Window : mine'[v] = Nothing \/ step'[v] = "offer"
    BY DEF Rebase!Working, Rebase!RebaseTypeOK
  <2>4. EvidenceOf(w)'
    BY <2>2, <2>3 DEF EvidenceOf
  <2>5. ASSUME NEW v \in Window, v # w, Rebase!Reconciling(v)' PROVE EvidenceOf(v)'
    <3>1. EvidenceOf(v)
      BY <2>5 DEF EvidenceStands, Rebase!Reconciling
    <3> QED
      BY <2>3, <2>5, <3>1 DEF EvidenceOf, Rebase!ProvenDead
  <2> QED
    BY <2>4, <2>5 DEF EvidenceStands
<1>12. Untroubled'
  BY DEF Rebase!RebaseTypeOK, Untroubled, UntroubledAt, WindowsFollow, GateHeld, InGate,
      PointerHeld, Holder, RebaseBacked, ManifestsFollow, Recon, Early
<1>13. Rebase!ReleasedUnlessPaused'
  BY DEF Rebase!RebaseTypeOK, Rebase!ReleasedUnlessPaused, Rebase!Idle, Untroubled, UntroubledAt,
      WindowsFollow, PointerHeld, Holder, RebaseBacked, ManifestsFollow, Recon, Early
<1> QED
  BY <1>4, <1>5, <1>6, <1>7, <1>8, <1>9, <1>10, <1>11, <1>12, <1>13 DEF RebaseInv

LEMMA GatherKeeps == ASSUME RebaseInv, NEW w \in Window, Rebase!Gather(w) PROVE RebaseInv'
<1>1. /\ Rebase!RebaseTypeOK /\ WindowsFollow /\ EvidenceTyped /\ GateHeld
      /\ PointerHeld /\ RebaseBacked /\ ManifestsFollow /\ EvidenceStands
      /\ Untroubled /\ Rebase!ReleasedUnlessPaused
  BY DEF RebaseInv
<1>2. UNCHANGED <<pointer, manifest, files, rebase, head, expected, used, gate, trouble>>
  BY DEF Rebase!Gather, Rebase!disk, Rebase!git
<1>3. /\ LocalsTyped /\ OthersStay(w) /\ step[w] = "gather"
      /\ flow'[w] = flow[w] /\ mine'[w] = mine[w] /\ (w \in keep' <=> w \in keep)
      /\ step'[w] = (IF Torn \in {seen'[w].rebase, seen'[w].manifests} THEN "gather" ELSE "discard")
      /\ seen'[w].pointer = seen[w].pointer
      /\ \/ seen'[w].rebase = rebase /\ seen'[w].manifests = seen[w].manifests
         \/ seen'[w].rebase = seen[w].rebase /\ seen'[w].manifests = manifest
  <2>1. /\ step[w] = "gather" /\ UNCHANGED <<flow, mine, keep>>
        /\ step' = [step EXCEPT ![w] = IF Torn \in {seen'[w].rebase, seen'[w].manifests}
                                        THEN "gather" ELSE "discard"]
        /\ \/ seen' = [seen EXCEPT ![w].rebase = rebase, ![w].head = head]
           \/ seen' = [seen EXCEPT ![w].manifests = manifest]
    BY DEF Rebase!Gather
  <2>2. seen[w] \in Evidence
    BY <1>1 DEF EvidenceTyped
  <2>3. EvidenceTyped' /\ (\A v \in Window : v # w => seen'[v] = seen[v])
        /\ seen'[w].pointer = seen[w].pointer
        /\ \/ seen'[w].rebase = rebase /\ seen'[w].manifests = seen[w].manifests
           \/ seen'[w].rebase = seen[w].rebase /\ seen'[w].manifests = manifest
    <3>1. CASE seen' = [seen EXCEPT ![w].rebase = rebase, ![w].head = head]
      <4>1. seen' = [seen EXCEPT ![w] = [seen[w] EXCEPT !.rebase = rebase, !.head = head]]
        BY <3>1, <1>1 DEF EvidenceTyped
      <4> QED
        BY <4>1, <2>2, <1>1 DEF EvidenceTyped, Evidence, Rebase!RebaseTypeOK
    <3>2. CASE seen' = [seen EXCEPT ![w].manifests = manifest]
      <4>1. seen' = [seen EXCEPT ![w] = [seen[w] EXCEPT !.manifests = manifest]]
        BY <3>2, <1>1 DEF EvidenceTyped
      <4> QED
        BY <4>1, <2>2, <1>1 DEF EvidenceTyped, Evidence, Rebase!RebaseTypeOK
    <3> QED
      BY <2>1, <3>1, <3>2
  <2> QED
    BY <1>1, <2>1, <2>3 DEF LocalsTyped, OthersStay, Rebase!RebaseTypeOK, Rebase!Step
<1> USE <1>1, <1>2, <1>3 DEF OthersStay, Stays, Moves, Ends, Faulted, Puts, Rebase!Live
<1>4. Rebase!RebaseTypeOK'
  <2>1. /\ step' \in [Window -> Rebase!Step] /\ flow' \in [Window -> {"run", "continue", "abort"}]
        /\ mine' \in [Window -> Session \cup {Nothing}] /\ keep' \in SUBSET Window
    BY DEF LocalsTyped
  <2>2. gate' \in Window \cup {Nothing} /\ trouble' \in SUBSET {"crash", "fault", "outside"}
    BY DEF Rebase!RebaseTypeOK
  <2>3. /\ pointer' \in Session \cup {Nothing, Torn} /\ files' \in SUBSET Session
        /\ rebase' \in Session \cup {Nothing, Other} /\ head' \in Session \cup {"start", Other}
        /\ used' \in SUBSET Session
    BY DEF Rebase!RebaseTypeOK, WindowsFollow, Recon
  <2>4. /\ manifest' \in [Session -> Rebase!Live \cup {Nothing, "pending", "done"}]
        /\ expected' \in [Session -> Session \cup {"start", Other}]
    BY DEF Rebase!RebaseTypeOK
  <2> HIDE DEF Rebase!Live
  <2> QED
    BY <2>1, <2>2, <2>3, <2>4 DEF Rebase!RebaseTypeOK
<1> USE RebaseAssumption
<1>5. WindowsFollow'
  BY DEF Rebase!RebaseTypeOK, WindowsFollow, Recon, Early
<1>6. EvidenceTyped'
  BY DEF LocalsTyped
<1>7. GateHeld'
  BY DEF Rebase!RebaseTypeOK, GateHeld, InGate, WindowsFollow, Early, Recon
<1>8. PointerHeld'
  BY DEF Rebase!RebaseTypeOK, PointerHeld, Holder, WindowsFollow, ManifestsFollow, GateHeld,
      InGate, RebaseBacked, Recon, Early
<1>9. RebaseBacked'
  BY DEF Rebase!RebaseTypeOK, RebaseBacked, PointerHeld, Holder, ManifestsFollow, WindowsFollow,
      Recon, Early
<1>10. ManifestsFollow'
  BY DEF Rebase!RebaseTypeOK, ManifestsFollow, WindowsFollow, PointerHeld, Holder, RebaseBacked,
      Recon, Early, GateHeld, InGate
<1>11. EvidenceStands'
  <2>1. EvidenceOf(w)
    BY DEF EvidenceStands, Rebase!Reconciling
  <2>2. \A v \in Window : mine'[v] = Nothing \/ step'[v] = "offer"
    BY <2>1 DEF EvidenceOf
  <2>3. EvidenceOf(w)'
    <3>1. rebase \in Session => rebase \notin {Torn, Nothing} /\ manifest[rebase] \in Rebase!Live
      BY DEF RebaseBacked
    <3>2. CASE seen'[w].rebase = rebase /\ seen'[w].manifests = seen[w].manifests
      BY <2>1, <2>2, <3>1, <3>2 DEF EvidenceOf, Rebase!RebaseTypeOK
    <3>3. CASE seen'[w].rebase = seen[w].rebase /\ seen'[w].manifests = manifest
      <4>1. manifest # Torn
        BY DEF Rebase!RebaseTypeOK
      <4> QED
        BY <2>1, <2>2, <3>1, <3>3, <4>1 DEF EvidenceOf, Rebase!RebaseTypeOK
    <3> QED
      BY <3>2, <3>3
  <2>4. ASSUME NEW v \in Window, v # w, Rebase!Reconciling(v)' PROVE EvidenceOf(v)'
    <3>1. EvidenceOf(v)
      BY <2>4 DEF EvidenceStands, Rebase!Reconciling
    <3> QED
      BY <2>2, <2>4, <3>1 DEF EvidenceOf, Rebase!ProvenDead
  <2> QED
    BY <2>3, <2>4 DEF EvidenceStands
<1>12. Untroubled'
  BY DEF Rebase!RebaseTypeOK, Untroubled, UntroubledAt, WindowsFollow, GateHeld, InGate,
      PointerHeld, Holder, RebaseBacked, ManifestsFollow, Recon, Early
<1>13. Rebase!ReleasedUnlessPaused'
  BY DEF Rebase!RebaseTypeOK, Rebase!ReleasedUnlessPaused, Rebase!Idle, Untroubled, UntroubledAt,
      WindowsFollow, PointerHeld, Holder, RebaseBacked, ManifestsFollow, Recon, Early
<1> QED
  BY <1>4, <1>5, <1>6, <1>7, <1>8, <1>9, <1>10, <1>11, <1>12, <1>13 DEF RebaseInv

LEMMA DiscardProvenKeeps ==
  ASSUME RebaseInv, NEW w \in Window, Rebase!DiscardProven(w) PROVE RebaseInv'
<1>1. /\ Rebase!RebaseTypeOK /\ WindowsFollow /\ EvidenceTyped /\ GateHeld
      /\ PointerHeld /\ RebaseBacked /\ ManifestsFollow /\ EvidenceStands
      /\ Untroubled /\ Rebase!ReleasedUnlessPaused
  BY DEF RebaseInv
<1>2. UNCHANGED <<pointer, rebase, head, expected, used, gate, trouble>>
  BY DEF Rebase!DiscardProven, Rebase!git, Rebase!local, Rebase!Discard
<1>3. /\ LocalsTyped /\ OthersStay(w) /\ Moves(w, "discard", "sweep")
      /\ files' = files \ Rebase!ProvenDead(seen[w])
           /\ manifest' \in [Session -> Rebase!Live \cup {Nothing, "pending", "done"}]
      /\ \A s \in Session :
           manifest'[s] = (IF s \in Rebase!ProvenDead(seen[w]) THEN Nothing ELSE manifest[s])
      /\ rebase \in Session => Rebase!ProvenDead(seen[w]) = {}
  <2>1. Rebase!Go(w, "discard", "sweep") /\ Rebase!Discard(Rebase!ProvenDead(seen[w]))
          /\ UNCHANGED Rebase!local
    BY DEF Rebase!DiscardProven
  <2>2. LocalsTyped /\ OthersStay(w) /\ Moves(w, "discard", "sweep")
    BY <1>1, <2>1, GoIs DEF Rebase!Step
  <2>3. /\ files' = files \ Rebase!ProvenDead(seen[w])
             /\ manifest' \in [Session -> Rebase!Live \cup {Nothing, "pending", "done"}]
        /\ \A s \in Session :
             manifest'[s] = (IF s \in Rebase!ProvenDead(seen[w]) THEN Nothing ELSE manifest[s])
    BY <1>1, <2>1 DEF Rebase!Discard, Rebase!RebaseTypeOK
  <2>4. rebase \in Session => Rebase!ProvenDead(seen[w]) = {}
    BY <1>1, <2>2, RebaseAssumption
    DEF EvidenceStands, EvidenceOf, Rebase!Reconciling, Rebase!ProvenDead, Moves
  <2> QED
    BY <2>2, <2>3, <2>4
<1> USE <1>1, <1>2, <1>3 DEF OthersStay, Stays, Moves, Ends, Faulted, Puts, Rebase!Live
<1>4. Rebase!RebaseTypeOK'
  <2>1. /\ step' \in [Window -> Rebase!Step] /\ flow' \in [Window -> {"run", "continue", "abort"}]
        /\ mine' \in [Window -> Session \cup {Nothing}] /\ keep' \in SUBSET Window
    BY DEF LocalsTyped
  <2>2. gate' \in Window \cup {Nothing} /\ trouble' \in SUBSET {"crash", "fault", "outside"}
    BY DEF Rebase!RebaseTypeOK
  <2>3. /\ pointer' \in Session \cup {Nothing, Torn} /\ files' \in SUBSET Session
        /\ rebase' \in Session \cup {Nothing, Other} /\ head' \in Session \cup {"start", Other}
        /\ used' \in SUBSET Session
    BY DEF Rebase!RebaseTypeOK, WindowsFollow, Recon
  <2>4. /\ manifest' \in [Session -> Rebase!Live \cup {Nothing, "pending", "done"}]
        /\ expected' \in [Session -> Session \cup {"start", Other}]
    BY DEF Rebase!RebaseTypeOK
  <2> HIDE DEF Rebase!Live
  <2> QED
    BY <2>1, <2>2, <2>3, <2>4 DEF Rebase!RebaseTypeOK
<1> USE RebaseAssumption
<1>5. WindowsFollow'
  BY DEF Rebase!RebaseTypeOK, WindowsFollow, Recon, Early
<1>6. EvidenceTyped'
  BY DEF LocalsTyped
<1>7. GateHeld'
  BY DEF Rebase!RebaseTypeOK, GateHeld, InGate, WindowsFollow, Early, Recon
<1>8. PointerHeld'
  BY DEF Rebase!RebaseTypeOK, PointerHeld, Holder, WindowsFollow, ManifestsFollow, GateHeld,
      InGate, RebaseBacked, Recon, Early
<1>9. RebaseBacked'
  BY DEF Rebase!RebaseTypeOK, RebaseBacked, PointerHeld, Holder, ManifestsFollow, WindowsFollow,
      Recon, Early
<1>10. ManifestsFollow'
  <2>1. \A v \in Window : mine[v] = Nothing \/ step[v] = "offer"
    BY DEF EvidenceStands, EvidenceOf, Rebase!Reconciling
  <2>2. \A v \in Window :
          /\ \/ mine'[v] = Nothing
             \/ mine'[v] = mine[v] /\ step'[v] = "offer" /\ step[v] = "offer" /\ v # w
          /\ v \in keep' => v \in keep /\ mine'[v] = mine[v] /\ step'[v] = "offer"
    BY <2>1 DEF Rebase!RebaseTypeOK, WindowsFollow, Recon, Early
  <2>3. ASSUME NEW v \in Window
        PROVE  /\ step'[v] \notin {"spawn", "editor", "reserve", "point"}
               /\ ~(step'[v] = "rebasing" /\ flow'[v] = "run")
               /\ mine'[v] # Nothing /\ manifest'[mine'[v]] = "pending" => v \in keep'
               /\ v \in keep' => manifest'[mine'[v]] \notin Rebase!Live
    <3>1. CASE mine'[v] = Nothing
      BY <2>2, <3>1 DEF Rebase!RebaseTypeOK, WindowsFollow, Recon, Early
    <3>2. CASE mine'[v] # Nothing
      <4>1. mine'[v] = mine[v] /\ step'[v] = "offer" /\ step[v] = "offer" /\ v # w
        BY <2>2, <3>2
      <4>2. mine[v] \in Session
        BY <3>2, <4>1 DEF Rebase!RebaseTypeOK
      <4> QED
        BY <4>1, <4>2, <3>2 DEF ManifestsFollow
    <3> QED
      BY <3>1, <3>2
  <2>4. \A s \in Session \ used' : manifest'[s] = Nothing /\ s \notin files' /\ pointer' # s
    BY DEF ManifestsFollow
  <2> QED
    BY <2>3, <2>4 DEF ManifestsFollow
<1>11. EvidenceStands'
  BY DEF Rebase!RebaseTypeOK, EvidenceStands, EvidenceOf, Rebase!Reconciling, WindowsFollow, Recon,
      Early, Rebase!ProvenDead
<1>12. Untroubled'
  BY DEF Rebase!RebaseTypeOK, Untroubled, UntroubledAt, WindowsFollow, GateHeld, InGate,
      PointerHeld, Holder, RebaseBacked, ManifestsFollow, Recon, Early
<1>13. Rebase!ReleasedUnlessPaused'
  BY DEF Rebase!RebaseTypeOK, Rebase!ReleasedUnlessPaused, Rebase!Idle, Untroubled, UntroubledAt,
      WindowsFollow, PointerHeld, Holder, RebaseBacked, ManifestsFollow, Recon, Early
<1> QED
  BY <1>4, <1>5, <1>6, <1>7, <1>8, <1>9, <1>10, <1>11, <1>12, <1>13 DEF RebaseInv

LEMMA SweepKeeps == ASSUME RebaseInv, NEW w \in Window, Rebase!Sweep(w) PROVE RebaseInv'
<1>1. /\ Rebase!RebaseTypeOK /\ WindowsFollow /\ EvidenceTyped /\ GateHeld
      /\ PointerHeld /\ RebaseBacked /\ ManifestsFollow /\ EvidenceStands
      /\ Untroubled /\ Rebase!ReleasedUnlessPaused
  BY DEF RebaseInv
<1>2. UNCHANGED <<pointer, manifest, files, rebase, head, expected, used, gate, trouble>>
  BY DEF Rebase!Sweep, Rebase!disk, Rebase!git
<1>3. /\ LocalsTyped /\ OthersStay(w) /\ step[w] = "sweep"
      /\ flow'[w] = flow[w] /\ mine'[w] = mine[w] /\ (w \in keep' <=> w \in keep)
      /\ seen'[w].rebase = seen[w].rebase /\ seen'[w].head = seen[w].head
           /\ seen'[w].manifests = seen[w].manifests
      /\ \/ step'[w] = "probe" /\ pointer \in Session /\ seen'[w].pointer = pointer
         \/ step'[w] = "prompt" /\ pointer \notin Session /\ seen'[w].pointer = seen[w].pointer
      /\ Rebase!ProvenDead(seen'[w]) = Rebase!ProvenDead(seen[w])
  <2>1. /\ UNCHANGED <<flow, mine, keep>>
        /\ \/ Rebase!Go(w, "sweep", "probe") /\ pointer \in Session
                /\ seen' = [seen EXCEPT ![w].pointer = pointer]
           \/ Rebase!Go(w, "sweep", "prompt") /\ pointer \notin Session /\ UNCHANGED seen
    BY DEF Rebase!Sweep
  <2>2. seen[w] \in Evidence
    BY <1>1 DEF EvidenceTyped
  <2>3. EvidenceTyped' /\ (\A v \in Window : v # w => seen'[v] = seen[v])
        /\ seen'[w].rebase = seen[w].rebase /\ seen'[w].head = seen[w].head
             /\ seen'[w].manifests = seen[w].manifests
        /\ \/ Rebase!Go(w, "sweep", "probe") /\ pointer \in Session /\ seen'[w].pointer = pointer
           \/ Rebase!Go(w, "sweep", "prompt") /\ pointer \notin Session
                /\ seen'[w].pointer = seen[w].pointer
    <3>1. CASE pointer \in Session /\ seen' = [seen EXCEPT ![w].pointer = pointer]
      <4>1. seen' = [seen EXCEPT ![w] = [seen[w] EXCEPT !.pointer = pointer]]
        BY <3>1, <1>1 DEF EvidenceTyped
      <4> QED
        BY <4>1, <2>1, <2>2, <3>1, <1>1 DEF EvidenceTyped, Evidence, Rebase!RebaseTypeOK
    <3>2. CASE UNCHANGED seen /\ pointer \notin Session
      BY <3>2, <2>1, <1>1 DEF EvidenceTyped
    <3> QED
      BY <2>1, <3>1, <3>2
  <2>4. Rebase!ProvenDead(seen'[w]) = Rebase!ProvenDead(seen[w])
    BY <2>3 DEF Rebase!ProvenDead
  <2> QED
    BY <1>1, <2>1, <2>3, <2>4
    DEF LocalsTyped, OthersStay, Rebase!RebaseTypeOK, Rebase!Step, Rebase!Go
<1> USE <1>1, <1>2, <1>3 DEF OthersStay, Stays, Moves, Ends, Faulted, Puts, Rebase!Live
<1>4. Rebase!RebaseTypeOK'
  <2>1. /\ step' \in [Window -> Rebase!Step] /\ flow' \in [Window -> {"run", "continue", "abort"}]
        /\ mine' \in [Window -> Session \cup {Nothing}] /\ keep' \in SUBSET Window
    BY DEF LocalsTyped
  <2>2. gate' \in Window \cup {Nothing} /\ trouble' \in SUBSET {"crash", "fault", "outside"}
    BY DEF Rebase!RebaseTypeOK
  <2>3. /\ pointer' \in Session \cup {Nothing, Torn} /\ files' \in SUBSET Session
        /\ rebase' \in Session \cup {Nothing, Other} /\ head' \in Session \cup {"start", Other}
        /\ used' \in SUBSET Session
    BY DEF Rebase!RebaseTypeOK, WindowsFollow, Recon
  <2>4. /\ manifest' \in [Session -> Rebase!Live \cup {Nothing, "pending", "done"}]
        /\ expected' \in [Session -> Session \cup {"start", Other}]
    BY DEF Rebase!RebaseTypeOK
  <2> HIDE DEF Rebase!Live
  <2> QED
    BY <2>1, <2>2, <2>3, <2>4 DEF Rebase!RebaseTypeOK
<1> USE RebaseAssumption
<1>5. WindowsFollow'
  BY DEF Rebase!RebaseTypeOK, WindowsFollow, Recon, Early
<1>6. EvidenceTyped'
  BY DEF LocalsTyped
<1>7. GateHeld'
  BY DEF Rebase!RebaseTypeOK, GateHeld, InGate, WindowsFollow, Early, Recon
<1>8. PointerHeld'
  BY DEF Rebase!RebaseTypeOK, PointerHeld, Holder, WindowsFollow, ManifestsFollow, GateHeld,
      InGate, RebaseBacked, Recon, Early
<1>9. RebaseBacked'
  BY DEF Rebase!RebaseTypeOK, RebaseBacked, PointerHeld, Holder, ManifestsFollow, WindowsFollow,
      Recon, Early
<1>10. ManifestsFollow'
  BY DEF Rebase!RebaseTypeOK, ManifestsFollow, WindowsFollow, PointerHeld, Holder, RebaseBacked,
      Recon, Early, GateHeld, InGate
<1>11. EvidenceStands'
  BY DEF Rebase!RebaseTypeOK, EvidenceStands, EvidenceOf, Rebase!Reconciling, WindowsFollow, Recon,
      Early, Rebase!ProvenDead
<1>12. Untroubled'
  BY DEF Rebase!RebaseTypeOK, Untroubled, UntroubledAt, WindowsFollow, GateHeld, InGate,
      PointerHeld, Holder, RebaseBacked, ManifestsFollow, Recon, Early
<1>13. Rebase!ReleasedUnlessPaused'
  BY DEF Rebase!RebaseTypeOK, Rebase!ReleasedUnlessPaused, Rebase!Idle, Untroubled, UntroubledAt,
      WindowsFollow, PointerHeld, Holder, RebaseBacked, ManifestsFollow, Recon, Early
<1> QED
  BY <1>4, <1>5, <1>6, <1>7, <1>8, <1>9, <1>10, <1>11, <1>12, <1>13 DEF RebaseInv

LEMMA ProbeKeeps == ASSUME RebaseInv, NEW w \in Window, Rebase!Probe(w) PROVE RebaseInv'
<1>1. /\ Rebase!RebaseTypeOK /\ WindowsFollow /\ EvidenceTyped /\ GateHeld
      /\ PointerHeld /\ RebaseBacked /\ ManifestsFollow /\ EvidenceStands
      /\ Untroubled /\ Rebase!ReleasedUnlessPaused
  BY DEF RebaseInv
<1>2. UNCHANGED <<pointer, manifest, files, rebase, head, expected, used, gate, trouble>>
  BY DEF Rebase!Probe, Rebase!disk, Rebase!git, Rebase!local
<1>3. /\ LocalsTyped /\ OthersStay(w)
      /\ \/ Moves(w, "probe", "recall") /\ rebase = Nothing
         \/ Moves(w, "probe", "prompt") /\ rebase # Nothing
  <2>1. \/ Rebase!Go(w, "probe", "recall") /\ rebase = Nothing /\ UNCHANGED <<Rebase!local>>
        \/ Rebase!Go(w, "probe", "prompt") /\ rebase # Nothing /\ UNCHANGED <<Rebase!local>>
    BY DEF Rebase!Probe, Rebase!disk, Rebase!git
  <2>2. CASE Rebase!Go(w, "probe", "recall") /\ rebase = Nothing /\ UNCHANGED <<Rebase!local>>
    BY <1>1, <2>2, GoIs DEF Rebase!Step, Rebase!local, Rebase!disk, Rebase!git
  <2>3. CASE Rebase!Go(w, "probe", "prompt") /\ rebase # Nothing /\ UNCHANGED <<Rebase!local>>
    BY <1>1, <2>3, GoIs DEF Rebase!Step, Rebase!local, Rebase!disk, Rebase!git
  <2> QED
    BY <2>1, <2>2, <2>3
<1> USE <1>1, <1>2, <1>3 DEF OthersStay, Stays, Moves, Ends, Faulted, Puts, Rebase!Live
<1>4. Rebase!RebaseTypeOK'
  <2>1. /\ step' \in [Window -> Rebase!Step] /\ flow' \in [Window -> {"run", "continue", "abort"}]
        /\ mine' \in [Window -> Session \cup {Nothing}] /\ keep' \in SUBSET Window
    BY DEF LocalsTyped
  <2>2. gate' \in Window \cup {Nothing} /\ trouble' \in SUBSET {"crash", "fault", "outside"}
    BY DEF Rebase!RebaseTypeOK
  <2>3. /\ pointer' \in Session \cup {Nothing, Torn} /\ files' \in SUBSET Session
        /\ rebase' \in Session \cup {Nothing, Other} /\ head' \in Session \cup {"start", Other}
        /\ used' \in SUBSET Session
    BY DEF Rebase!RebaseTypeOK, WindowsFollow, Recon
  <2>4. /\ manifest' \in [Session -> Rebase!Live \cup {Nothing, "pending", "done"}]
        /\ expected' \in [Session -> Session \cup {"start", Other}]
    BY DEF Rebase!RebaseTypeOK
  <2> HIDE DEF Rebase!Live
  <2> QED
    BY <2>1, <2>2, <2>3, <2>4 DEF Rebase!RebaseTypeOK
<1> USE RebaseAssumption
<1>5. WindowsFollow'
  BY DEF Rebase!RebaseTypeOK, WindowsFollow, Recon, Early
<1>6. EvidenceTyped'
  BY DEF LocalsTyped
<1>7. GateHeld'
  BY DEF Rebase!RebaseTypeOK, GateHeld, InGate, WindowsFollow, Early, Recon
<1>8. PointerHeld'
  BY DEF Rebase!RebaseTypeOK, PointerHeld, Holder, WindowsFollow, ManifestsFollow, GateHeld,
      InGate, RebaseBacked, Recon, Early
<1>9. RebaseBacked'
  BY DEF Rebase!RebaseTypeOK, RebaseBacked, PointerHeld, Holder, ManifestsFollow, WindowsFollow,
      Recon, Early
<1>10. ManifestsFollow'
  BY DEF Rebase!RebaseTypeOK, ManifestsFollow, WindowsFollow, PointerHeld, Holder, RebaseBacked,
      Recon, Early, GateHeld, InGate
<1>11. EvidenceStands'
  BY DEF Rebase!RebaseTypeOK, EvidenceStands, EvidenceOf, Rebase!Reconciling, WindowsFollow, Recon,
      Early, Rebase!ProvenDead
<1>12. Untroubled'
  BY DEF Rebase!RebaseTypeOK, Untroubled, UntroubledAt, WindowsFollow, GateHeld, InGate,
      PointerHeld, Holder, RebaseBacked, ManifestsFollow, Recon, Early
<1>13. Rebase!ReleasedUnlessPaused'
  BY DEF Rebase!RebaseTypeOK, Rebase!ReleasedUnlessPaused, Rebase!Idle, Untroubled, UntroubledAt,
      WindowsFollow, PointerHeld, Holder, RebaseBacked, ManifestsFollow, Recon, Early
<1> QED
  BY <1>4, <1>5, <1>6, <1>7, <1>8, <1>9, <1>10, <1>11, <1>12, <1>13 DEF RebaseInv

LEMMA RecallKeeps == ASSUME RebaseInv, NEW w \in Window, Rebase!Recall(w) PROVE RebaseInv'
<1>1. /\ Rebase!RebaseTypeOK /\ WindowsFollow /\ EvidenceTyped /\ GateHeld
      /\ PointerHeld /\ RebaseBacked /\ ManifestsFollow /\ EvidenceStands
      /\ Untroubled /\ Rebase!ReleasedUnlessPaused
  BY DEF RebaseInv
<1>2. UNCHANGED <<pointer, manifest, files, rebase, head, expected, used, gate, trouble>>
  BY DEF Rebase!Recall, Rebase!disk, Rebase!git, Rebase!local
<1>3. /\ LocalsTyped /\ OthersStay(w)
      /\ \/ Moves(w, "recall", "prompt") /\ manifest[seen[w].pointer] \in Rebase!Live
         \/ Moves(w, "recall", "reclaim") /\ manifest[seen[w].pointer] \notin Rebase!Live
  <2>1. \/ Rebase!Go(w, "recall", "prompt") /\ manifest[seen[w].pointer] \in Rebase!Live
             /\ UNCHANGED <<Rebase!local>>
        \/ Rebase!Go(w, "recall", "reclaim") /\ manifest[seen[w].pointer] \notin Rebase!Live
             /\ UNCHANGED <<Rebase!local>>
    BY DEF Rebase!Recall, Rebase!Go, Rebase!disk, Rebase!git
  <2>2. CASE Rebase!Go(w, "recall", "prompt") /\ manifest[seen[w].pointer] \in Rebase!Live
               /\ UNCHANGED <<Rebase!local>>
    BY <1>1, <2>2, GoIs DEF Rebase!Step, Rebase!local, Rebase!disk, Rebase!git
  <2>3. CASE Rebase!Go(w, "recall", "reclaim") /\ manifest[seen[w].pointer] \notin Rebase!Live
               /\ UNCHANGED <<Rebase!local>>
    BY <1>1, <2>3, GoIs DEF Rebase!Step, Rebase!local, Rebase!disk, Rebase!git
  <2> QED
    BY <2>1, <2>2, <2>3
<1> USE <1>1, <1>2, <1>3 DEF OthersStay, Stays, Moves, Ends, Faulted, Puts, Rebase!Live
<1>4. Rebase!RebaseTypeOK'
  <2>1. /\ step' \in [Window -> Rebase!Step] /\ flow' \in [Window -> {"run", "continue", "abort"}]
        /\ mine' \in [Window -> Session \cup {Nothing}] /\ keep' \in SUBSET Window
    BY DEF LocalsTyped
  <2>2. gate' \in Window \cup {Nothing} /\ trouble' \in SUBSET {"crash", "fault", "outside"}
    BY DEF Rebase!RebaseTypeOK
  <2>3. /\ pointer' \in Session \cup {Nothing, Torn} /\ files' \in SUBSET Session
        /\ rebase' \in Session \cup {Nothing, Other} /\ head' \in Session \cup {"start", Other}
        /\ used' \in SUBSET Session
    BY DEF Rebase!RebaseTypeOK, WindowsFollow, Recon
  <2>4. /\ manifest' \in [Session -> Rebase!Live \cup {Nothing, "pending", "done"}]
        /\ expected' \in [Session -> Session \cup {"start", Other}]
    BY DEF Rebase!RebaseTypeOK
  <2> HIDE DEF Rebase!Live
  <2> QED
    BY <2>1, <2>2, <2>3, <2>4 DEF Rebase!RebaseTypeOK
<1> USE RebaseAssumption
<1>5. WindowsFollow'
  BY DEF Rebase!RebaseTypeOK, WindowsFollow, Recon, Early
<1>6. EvidenceTyped'
  BY DEF LocalsTyped
<1>7. GateHeld'
  BY DEF Rebase!RebaseTypeOK, GateHeld, InGate, WindowsFollow, Early, Recon
<1>8. PointerHeld'
  BY DEF Rebase!RebaseTypeOK, PointerHeld, Holder, WindowsFollow, ManifestsFollow, GateHeld,
      InGate, RebaseBacked, Recon, Early
<1>9. RebaseBacked'
  BY DEF Rebase!RebaseTypeOK, RebaseBacked, PointerHeld, Holder, ManifestsFollow, WindowsFollow,
      Recon, Early
<1>10. ManifestsFollow'
  BY DEF Rebase!RebaseTypeOK, ManifestsFollow, WindowsFollow, PointerHeld, Holder, RebaseBacked,
      Recon, Early, GateHeld, InGate
<1>11. EvidenceStands'
  BY DEF Rebase!RebaseTypeOK, EvidenceStands, EvidenceOf, Rebase!Reconciling, WindowsFollow, Recon,
      Early, Rebase!ProvenDead
<1>12. Untroubled'
  BY DEF Rebase!RebaseTypeOK, Untroubled, UntroubledAt, WindowsFollow, GateHeld, InGate,
      PointerHeld, Holder, RebaseBacked, ManifestsFollow, Recon, Early
<1>13. Rebase!ReleasedUnlessPaused'
  BY DEF Rebase!RebaseTypeOK, Rebase!ReleasedUnlessPaused, Rebase!Idle, Untroubled, UntroubledAt,
      WindowsFollow, PointerHeld, Holder, RebaseBacked, ManifestsFollow, Recon, Early
<1> QED
  BY <1>4, <1>5, <1>6, <1>7, <1>8, <1>9, <1>10, <1>11, <1>12, <1>13 DEF RebaseInv

LEMMA ReclaimKeeps == ASSUME RebaseInv, NEW w \in Window, Rebase!Reclaim(w) PROVE RebaseInv'
<1>1. /\ Rebase!RebaseTypeOK /\ WindowsFollow /\ EvidenceTyped /\ GateHeld
      /\ PointerHeld /\ RebaseBacked /\ ManifestsFollow /\ EvidenceStands
      /\ Untroubled /\ Rebase!ReleasedUnlessPaused
  BY DEF RebaseInv
<1>2. UNCHANGED <<manifest, files, rebase, head, expected, used, gate, trouble>>
  BY DEF Rebase!Reclaim, Rebase!git, Rebase!local
<1>3. /\ LocalsTyped /\ OthersStay(w)
      /\ Moves(w, "reclaim", "prompt") /\ pointer' = Nothing
  <2>1. Rebase!Go(w, "reclaim", "prompt") /\ pointer' = Nothing /\ UNCHANGED <<Rebase!local>>
    BY DEF Rebase!Reclaim, Rebase!disk, Rebase!git
  <2> QED
    BY <1>1, <2>1, GoIs DEF Rebase!Step, Rebase!local, Rebase!disk, Rebase!git
<1> USE <1>1, <1>2, <1>3 DEF OthersStay, Stays, Moves, Ends, Faulted, Puts, Rebase!Live
<1>4. Rebase!RebaseTypeOK'
  <2>1. /\ step' \in [Window -> Rebase!Step] /\ flow' \in [Window -> {"run", "continue", "abort"}]
        /\ mine' \in [Window -> Session \cup {Nothing}] /\ keep' \in SUBSET Window
    BY DEF LocalsTyped
  <2>2. gate' \in Window \cup {Nothing} /\ trouble' \in SUBSET {"crash", "fault", "outside"}
    BY DEF Rebase!RebaseTypeOK
  <2>3. /\ pointer' \in Session \cup {Nothing, Torn} /\ files' \in SUBSET Session
        /\ rebase' \in Session \cup {Nothing, Other} /\ head' \in Session \cup {"start", Other}
        /\ used' \in SUBSET Session
    BY DEF Rebase!RebaseTypeOK, WindowsFollow, Recon
  <2>4. /\ manifest' \in [Session -> Rebase!Live \cup {Nothing, "pending", "done"}]
        /\ expected' \in [Session -> Session \cup {"start", Other}]
    BY DEF Rebase!RebaseTypeOK
  <2> HIDE DEF Rebase!Live
  <2> QED
    BY <2>1, <2>2, <2>3, <2>4 DEF Rebase!RebaseTypeOK
<1> USE RebaseAssumption
<1>5. WindowsFollow'
  BY DEF Rebase!RebaseTypeOK, WindowsFollow, Recon, Early
<1>6. EvidenceTyped'
  BY DEF LocalsTyped
<1>7. GateHeld'
  BY DEF Rebase!RebaseTypeOK, GateHeld, InGate, WindowsFollow, Early, Recon
<1>8. PointerHeld'
  <2>1. \A v \in Window : mine[v] = Nothing \/ step[v] = "offer"
    BY DEF EvidenceStands, EvidenceOf, Rebase!Reconciling
  <2> QED
    BY <2>1 DEF Rebase!RebaseTypeOK, PointerHeld, Holder, WindowsFollow, Recon
<1>9. RebaseBacked'
  <2>1. rebase \notin Session /\ rebase \in {Nothing, Other} /\ Other \notin Session
    BY DEF EvidenceStands, EvidenceOf, Rebase!Reconciling, Rebase!RebaseTypeOK
  <2> QED
    BY <2>1 DEF Rebase!RebaseTypeOK, RebaseBacked
<1>10. ManifestsFollow'
  BY DEF Rebase!RebaseTypeOK, ManifestsFollow, WindowsFollow, PointerHeld, Holder, RebaseBacked,
      Recon, Early, GateHeld, InGate
<1>11. EvidenceStands'
  BY DEF Rebase!RebaseTypeOK, EvidenceStands, EvidenceOf, Rebase!Reconciling, WindowsFollow, Recon,
      Early, Rebase!ProvenDead
<1>12. Untroubled'
  BY DEF Rebase!RebaseTypeOK, Untroubled, UntroubledAt, WindowsFollow, GateHeld, InGate,
      PointerHeld, Holder, RebaseBacked, ManifestsFollow, Recon, Early
<1>13. Rebase!ReleasedUnlessPaused'
  BY DEF Rebase!RebaseTypeOK, Rebase!ReleasedUnlessPaused, Rebase!Idle, Untroubled, UntroubledAt,
      WindowsFollow, PointerHeld, Holder, RebaseBacked, ManifestsFollow, Recon, Early
<1> QED
  BY <1>4, <1>5, <1>6, <1>7, <1>8, <1>9, <1>10, <1>11, <1>12, <1>13 DEF RebaseInv

LEMMA PromptKeeps == ASSUME RebaseInv, NEW w \in Window, Rebase!Prompt(w) PROVE RebaseInv'
<1>1. /\ Rebase!RebaseTypeOK /\ WindowsFollow /\ EvidenceTyped /\ GateHeld
      /\ PointerHeld /\ RebaseBacked /\ ManifestsFollow /\ EvidenceStands
      /\ Untroubled /\ Rebase!ReleasedUnlessPaused
  BY DEF RebaseInv
<1>2. UNCHANGED <<pointer, rebase, head, expected, used, trouble>>
  BY DEF Rebase!Prompt, Rebase!git, Rebase!End, Rebase!Discard
<1>3. /\ LocalsTyped /\ OthersStay(w) /\ step[w] = "prompt" /\ Ends(w)
      /\ manifest' \in [Session -> Rebase!Live \cup {Nothing, "pending", "done"}]
           /\ files' \subseteq files
      /\ \A s \in Session : manifest'[s] \in {Nothing, manifest[s]}
      /\ rebase \in files => rebase \in files'
      /\ rebase \in Session => manifest'[rebase] = manifest[rebase]
  <2>1. step[w] = "prompt" /\ Rebase!End(w)
          /\ (Rebase!Discard(Rebase!Ambiguous(seen[w])) \/ UNCHANGED <<manifest, files>>)
    BY DEF Rebase!Prompt
  <2>2. LocalsTyped /\ OthersStay(w) /\ Ends(w)
    BY <1>1, <2>1, EndIs
  <2>3. rebase \in Session => rebase \notin Rebase!Ambiguous(seen[w])
    BY <1>1, <2>1, RebaseAssumption
    DEF EvidenceStands, EvidenceOf, Rebase!Reconciling, Rebase!Ambiguous
  <2>4. CASE Rebase!Discard(Rebase!Ambiguous(seen[w]))
    BY <1>1, <2>1, <2>2, <2>3, <2>4 DEF Rebase!Discard, Rebase!RebaseTypeOK
  <2>5. CASE UNCHANGED <<manifest, files>>
    BY <1>1, <2>1, <2>2, <2>5 DEF Rebase!RebaseTypeOK
  <2> QED
    BY <2>1, <2>4, <2>5
<1> USE <1>1, <1>2, <1>3 DEF OthersStay, Stays, Moves, Ends, Faulted, Puts, Rebase!Live
<1>4. Rebase!RebaseTypeOK'
  <2>1. /\ step' \in [Window -> Rebase!Step] /\ flow' \in [Window -> {"run", "continue", "abort"}]
        /\ mine' \in [Window -> Session \cup {Nothing}] /\ keep' \in SUBSET Window
    BY DEF LocalsTyped
  <2>2. gate' \in Window \cup {Nothing} /\ trouble' \in SUBSET {"crash", "fault", "outside"}
    BY DEF Rebase!RebaseTypeOK
  <2>3. /\ pointer' \in Session \cup {Nothing, Torn} /\ files' \in SUBSET Session
        /\ rebase' \in Session \cup {Nothing, Other} /\ head' \in Session \cup {"start", Other}
        /\ used' \in SUBSET Session
    BY DEF Rebase!RebaseTypeOK, WindowsFollow, Recon
  <2>4. /\ manifest' \in [Session -> Rebase!Live \cup {Nothing, "pending", "done"}]
        /\ expected' \in [Session -> Session \cup {"start", Other}]
    BY DEF Rebase!RebaseTypeOK
  <2> HIDE DEF Rebase!Live
  <2> QED
    BY <2>1, <2>2, <2>3, <2>4 DEF Rebase!RebaseTypeOK
<1> USE RebaseAssumption
<1>5. WindowsFollow'
  BY DEF Rebase!RebaseTypeOK, WindowsFollow, Recon, Early
<1>6. EvidenceTyped'
  BY DEF LocalsTyped
<1>7. GateHeld'
  BY DEF Rebase!RebaseTypeOK, GateHeld, InGate, WindowsFollow, Early, Recon
<1>8. PointerHeld'
  BY DEF Rebase!RebaseTypeOK, PointerHeld, Holder, WindowsFollow, ManifestsFollow, GateHeld,
      InGate, RebaseBacked, Recon, Early
<1>9. RebaseBacked'
  BY DEF Rebase!RebaseTypeOK, RebaseBacked, PointerHeld, Holder, ManifestsFollow, WindowsFollow,
      Recon, Early
<1>10. ManifestsFollow'
  <2>1. \A v \in Window : mine[v] = Nothing \/ step[v] = "offer"
    BY DEF EvidenceStands, EvidenceOf, Rebase!Reconciling
  <2>2. \A v \in Window :
          /\ \/ mine'[v] = Nothing
             \/ mine'[v] = mine[v] /\ step'[v] = "offer" /\ step[v] = "offer" /\ v # w
          /\ v \in keep' => v \in keep /\ mine'[v] = mine[v] /\ step'[v] = "offer"
    BY <2>1 DEF Rebase!RebaseTypeOK, WindowsFollow, Recon, Early
  <2>3. ASSUME NEW v \in Window
        PROVE  /\ step'[v] \notin {"spawn", "editor", "reserve", "point"}
               /\ ~(step'[v] = "rebasing" /\ flow'[v] = "run")
               /\ mine'[v] # Nothing /\ manifest'[mine'[v]] = "pending" => v \in keep'
               /\ v \in keep' => manifest'[mine'[v]] \notin Rebase!Live
    <3>1. CASE mine'[v] = Nothing
      BY <2>2, <3>1 DEF Rebase!RebaseTypeOK, WindowsFollow, Recon, Early
    <3>2. CASE mine'[v] # Nothing
      <4>1. mine'[v] = mine[v] /\ step'[v] = "offer" /\ step[v] = "offer" /\ v # w
        BY <2>2, <3>2
      <4>2. mine[v] \in Session
        BY <3>2, <4>1 DEF Rebase!RebaseTypeOK
      <4> QED
        BY <4>1, <4>2, <3>2 DEF ManifestsFollow
    <3> QED
      BY <3>1, <3>2
  <2>4. \A s \in Session \ used' : manifest'[s] = Nothing /\ s \notin files' /\ pointer' # s
    BY DEF ManifestsFollow
  <2> QED
    BY <2>3, <2>4 DEF ManifestsFollow
<1>11. EvidenceStands'
  BY DEF Rebase!RebaseTypeOK, EvidenceStands, EvidenceOf, Rebase!Reconciling, WindowsFollow, Recon,
      Early, Rebase!ProvenDead
<1>12. Untroubled'
  BY DEF Rebase!RebaseTypeOK, Untroubled, UntroubledAt, WindowsFollow, GateHeld, InGate,
      PointerHeld, Holder, RebaseBacked, ManifestsFollow, Recon, Early
<1>13. Rebase!ReleasedUnlessPaused'
  BY DEF Rebase!RebaseTypeOK, Rebase!ReleasedUnlessPaused, Rebase!Idle, Untroubled, UntroubledAt,
      WindowsFollow, PointerHeld, Holder, RebaseBacked, ManifestsFollow, Recon, Early
<1> QED
  BY <1>4, <1>5, <1>6, <1>7, <1>8, <1>9, <1>10, <1>11, <1>12, <1>13 DEF RebaseInv

LEMMA CrashKeeps == ASSUME RebaseInv, NEW w \in Window, Rebase!Crash(w) PROVE RebaseInv'
<1>1. /\ Rebase!RebaseTypeOK /\ WindowsFollow /\ EvidenceTyped /\ GateHeld
      /\ PointerHeld /\ RebaseBacked /\ ManifestsFollow /\ EvidenceStands
      /\ Untroubled /\ Rebase!ReleasedUnlessPaused
  BY DEF RebaseInv
<1>2. UNCHANGED <<pointer, manifest, files, rebase, head, expected, used>>
  BY DEF Rebase!Crash, Rebase!disk, Rebase!git, Rebase!End, Rebase!Trouble
<1>3. /\ LocalsTyped /\ OthersStay(w) /\ step[w] # "idle" /\ Ends(w) /\ Faulted
  <2>1. step[w] # "idle" /\ Rebase!End(w) /\ Rebase!Trouble("crash")
    BY DEF Rebase!Crash
  <2>2. Faulted
    BY <1>1, <2>1 DEF Rebase!Trouble, Rebase!RebaseTypeOK, Faulted
  <2> QED
    BY <1>1, <2>1, <2>2, EndIs
<1> USE <1>1, <1>2, <1>3 DEF OthersStay, Stays, Moves, Ends, Faulted, Puts, Rebase!Live
<1>4. Rebase!RebaseTypeOK'
  <2>1. /\ step' \in [Window -> Rebase!Step] /\ flow' \in [Window -> {"run", "continue", "abort"}]
        /\ mine' \in [Window -> Session \cup {Nothing}] /\ keep' \in SUBSET Window
    BY DEF LocalsTyped
  <2>2. gate' \in Window \cup {Nothing} /\ trouble' \in SUBSET {"crash", "fault", "outside"}
    BY DEF Rebase!RebaseTypeOK
  <2>3. /\ pointer' \in Session \cup {Nothing, Torn} /\ files' \in SUBSET Session
        /\ rebase' \in Session \cup {Nothing, Other} /\ head' \in Session \cup {"start", Other}
        /\ used' \in SUBSET Session
    BY DEF Rebase!RebaseTypeOK, WindowsFollow, Recon
  <2>4. /\ manifest' \in [Session -> Rebase!Live \cup {Nothing, "pending", "done"}]
        /\ expected' \in [Session -> Session \cup {"start", Other}]
    BY DEF Rebase!RebaseTypeOK
  <2> HIDE DEF Rebase!Live
  <2> QED
    BY <2>1, <2>2, <2>3, <2>4 DEF Rebase!RebaseTypeOK
<1> USE RebaseAssumption
<1>5. WindowsFollow'
  BY DEF Rebase!RebaseTypeOK, WindowsFollow, Recon, Early
<1>6. EvidenceTyped'
  BY DEF LocalsTyped
<1>7. GateHeld'
  BY DEF Rebase!RebaseTypeOK, GateHeld, InGate, WindowsFollow, Early, Recon
<1>8. PointerHeld'
  BY DEF Rebase!RebaseTypeOK, PointerHeld, Holder, WindowsFollow, ManifestsFollow, GateHeld,
      InGate, RebaseBacked, Recon, Early
<1>9. RebaseBacked'
  BY DEF Rebase!RebaseTypeOK, RebaseBacked, PointerHeld, Holder, ManifestsFollow, WindowsFollow,
      Recon, Early
<1>10. ManifestsFollow'
  BY DEF Rebase!RebaseTypeOK, ManifestsFollow, WindowsFollow, PointerHeld, Holder, RebaseBacked,
      Recon, Early, GateHeld, InGate
<1>11. EvidenceStands'
  BY DEF Rebase!RebaseTypeOK, EvidenceStands, EvidenceOf, Rebase!Reconciling, WindowsFollow, Recon,
      Early, Rebase!ProvenDead
<1>12. Untroubled'
  BY DEF Rebase!RebaseTypeOK, Untroubled, UntroubledAt, WindowsFollow, GateHeld, InGate,
      PointerHeld, Holder, RebaseBacked, ManifestsFollow, Recon, Early
<1>13. Rebase!ReleasedUnlessPaused'
  BY DEF Rebase!RebaseTypeOK, Rebase!ReleasedUnlessPaused, Rebase!Idle, Untroubled, UntroubledAt,
      WindowsFollow, PointerHeld, Holder, RebaseBacked, ManifestsFollow, Recon, Early
<1> QED
  BY <1>4, <1>5, <1>6, <1>7, <1>8, <1>9, <1>10, <1>11, <1>12, <1>13 DEF RebaseInv

LEMMA OutsideKeeps == ASSUME RebaseInv, Rebase!Outside PROVE RebaseInv'
<1>1. /\ Rebase!RebaseTypeOK /\ WindowsFollow /\ EvidenceTyped /\ GateHeld
      /\ PointerHeld /\ RebaseBacked /\ ManifestsFollow /\ EvidenceStands
      /\ Untroubled /\ Rebase!ReleasedUnlessPaused
  BY DEF RebaseInv
<1>2. UNCHANGED <<pointer, manifest, files, expected, used, gate, step, flow, mine, keep, seen>>
  BY DEF Rebase!Outside, Rebase!disk, Rebase!local, Rebase!Trouble
<1>3. /\ trouble' \in SUBSET {"crash", "fault", "outside"} /\ "outside" \in trouble'
      /\ rebase' \in {rebase, Nothing, Other} /\ head' \in {head, Other}
  BY <1>1 DEF Rebase!Outside, Rebase!Trouble, Rebase!RebaseTypeOK
<1> USE <1>1, <1>2, <1>3 DEF OthersStay, Stays, Moves, Ends, Faulted, Puts, Rebase!Live
<1>4. Rebase!RebaseTypeOK'
  BY DEF Rebase!RebaseTypeOK
<1> USE RebaseAssumption
<1>5. WindowsFollow'
  BY DEF Rebase!RebaseTypeOK, WindowsFollow, Recon, Early
<1>6. EvidenceTyped'
  BY DEF EvidenceTyped
<1>7. GateHeld'
  BY DEF Rebase!RebaseTypeOK, GateHeld, InGate, WindowsFollow, Early, Recon
<1>8. PointerHeld'
  BY DEF Rebase!RebaseTypeOK, PointerHeld, Holder, WindowsFollow, ManifestsFollow, GateHeld,
      InGate, RebaseBacked, Recon, Early
<1>9. RebaseBacked'
  BY DEF Rebase!RebaseTypeOK, RebaseBacked, PointerHeld, Holder, ManifestsFollow, WindowsFollow,
      Recon, Early
<1>10. ManifestsFollow'
  BY DEF Rebase!RebaseTypeOK, ManifestsFollow, WindowsFollow, PointerHeld, Holder, RebaseBacked,
      Recon, Early, GateHeld, InGate
<1>11. EvidenceStands'
  BY DEF Rebase!RebaseTypeOK, EvidenceStands, EvidenceOf, Rebase!Reconciling, WindowsFollow, Recon,
      Early, Rebase!ProvenDead
<1>12. Untroubled'
  BY DEF Rebase!RebaseTypeOK, Untroubled, UntroubledAt, WindowsFollow, GateHeld, InGate,
      PointerHeld, Holder, RebaseBacked, ManifestsFollow, Recon, Early
<1>13. Rebase!ReleasedUnlessPaused'
  BY DEF Rebase!RebaseTypeOK, Rebase!ReleasedUnlessPaused, Rebase!Idle, Untroubled, UntroubledAt,
      WindowsFollow, PointerHeld, Holder, RebaseBacked, ManifestsFollow, Recon, Early
<1> QED
  BY <1>4, <1>5, <1>6, <1>7, <1>8, <1>9, <1>10, <1>11, <1>12, <1>13 DEF RebaseInv

-----------------------------------------------------------------------------
LEMMA RebaseInitEstablishes == Rebase!Init => RebaseInv
<1> SUFFICES ASSUME Rebase!Init PROVE RebaseInv
  OBVIOUS
<1> USE RebaseAssumption DEF Rebase!Init
<1>1. Rebase!RebaseTypeOK
  BY DEF Rebase!RebaseTypeOK, Rebase!Step, Rebase!Live
<1>2. \A w \in Window : /\ step[w] = "idle" /\ flow[w] = "run" /\ mine[w] = Nothing
        /\ seen[w] = Rebase!Unread
                       /\ w \notin keep
  OBVIOUS
<1>3. WindowsFollow /\ GateHeld /\ PointerHeld
  BY <1>2 DEF WindowsFollow, Recon, Early, GateHeld, InGate, PointerHeld, Holder
<1>4. EvidenceTyped
  BY DEF EvidenceTyped, Evidence, Rebase!Unread
<1>5. RebaseBacked /\ ManifestsFollow
  BY <1>2 DEF RebaseBacked, ManifestsFollow, Rebase!Live
<1>6. EvidenceStands /\ Untroubled /\ Rebase!ReleasedUnlessPaused
  BY <1>2
  DEF EvidenceStands, Rebase!Reconciling, Untroubled, UntroubledAt, Rebase!ReleasedUnlessPaused
<1> QED
  BY <1>1, <1>3, <1>4, <1>5, <1>6 DEF RebaseInv

LEMMA RebaseStutterKeeps == RebaseInv /\ UNCHANGED Rebase!rebaseVars => RebaseInv'
BY DEF RebaseInv, Rebase!rebaseVars, Rebase!RebaseTypeOK, WindowsFollow, EvidenceTyped, GateHeld,
    InGate, PointerHeld,
       Holder, RebaseBacked, ManifestsFollow, EvidenceStands, EvidenceOf, Rebase!Reconciling,
           Rebase!ProvenDead,
       Untroubled, UntroubledAt, Rebase!ReleasedUnlessPaused, Rebase!Idle

LEMMA RebaseWorkKeeps == ASSUME RebaseInv, NEW w \in Window, Rebase!Work(w) PROVE RebaseInv'
BY ReserveKeeps, WritePointerKeeps, CreateFilesKeeps, WriteStartingKeeps, EnterGateKeeps,
   CheckKeeps, MarkRunningKeeps, SpawnKeeps, SequenceEditorKeeps, RebaseKeeps, CompleteKeeps,
   StoppedKeeps, RecoverKeeps, DeleteFilesKeeps, DeleteManifestKeeps, CompareKeeps, ReleaseKeeps,
   OfferKeeps, DismissKeeps, PassThroughKeeps, GatherKeeps, DiscardProvenKeeps, SweepKeeps,
   ProbeKeeps, RecallKeeps, ReclaimKeeps, PromptKeeps DEF Rebase!Work

LEMMA RebaseStepKeeps == RebaseInv /\ [Rebase!Next]_Rebase!rebaseVars => RebaseInv'
<1> SUFFICES ASSUME RebaseInv, [Rebase!Next]_Rebase!rebaseVars PROVE RebaseInv'
  OBVIOUS
<1>1. ASSUME NEW w \in Window,
             Rebase!Submit(w) \/ Rebase!Control(w) \/ Rebase!Activate(w) \/ Rebase!Work(w)
               \/ Rebase!Crash(w)
      PROVE  RebaseInv'
  BY <1>1, SubmitKeeps, ControlKeeps, ActivateKeeps, RebaseWorkKeeps, CrashKeeps
<1> QED
  BY <1>1, OutsideKeeps, RebaseStutterKeeps DEF Rebase!Next

LEMMA RebaseInvAlways == Rebase!Spec => []RebaseInv
<1>1. Rebase!Init => RebaseInv
  BY RebaseInitEstablishes
<1>2. RebaseInv /\ [Rebase!Next]_Rebase!rebaseVars => RebaseInv'
  BY RebaseStepKeeps
<1> QED
  BY <1>1, <1>2, PTL DEF Rebase!Spec

\* What is to be recovered follows from the invariant.
LEMMA Recoverable ==
  RebaseInv => /\ Rebase!RebaseTypeOK /\ Rebase!PausedIsRecoverable /\ Rebase!GitRunsWithManifest
               /\ Rebase!ReleasedUnlessPaused /\ Rebase!DeadPointerReclaimed
<1> SUFFICES ASSUME RebaseInv
             PROVE  /\ Rebase!RebaseTypeOK /\ Rebase!PausedIsRecoverable
                         /\ Rebase!GitRunsWithManifest
                    /\ Rebase!ReleasedUnlessPaused /\ Rebase!DeadPointerReclaimed
  OBVIOUS
<1>1. Rebase!RebaseTypeOK /\ Rebase!ReleasedUnlessPaused
  BY DEF RebaseInv
<1>2. Rebase!PausedIsRecoverable
  BY DEF RebaseInv, RebaseBacked, Rebase!PausedIsRecoverable
<1>3. Rebase!GitRunsWithManifest
  BY DEF RebaseInv, ManifestsFollow, Rebase!GitRunsWithManifest
<1>4. Rebase!DeadPointerReclaimed
  BY DEF RebaseInv, EvidenceStands, EvidenceOf, Rebase!Reconciling, Rebase!DeadPointerReclaimed
<1> QED
  BY <1>1, <1>2, <1>3, <1>4

\* A manifest that waits for its push is its window's to change, once the offer is made, or the
\* user's who is asked about it.
LEMMA PendingStays ==
  ASSUME RebaseInv, [Rebase!Next]_Rebase!rebaseVars,
         NEW s \in Session, manifest[s] = "pending", manifest'[s] # "pending"
  PROVE  \/ \E w \in Window : step[w] \in {"offer", "dismiss"} /\ mine[w] = s
         \/ \E w \in Window : step[w] = "prompt"
<1>1. Rebase!RebaseTypeOK /\ WindowsFollow /\ ManifestsFollow /\ EvidenceStands
  BY DEF RebaseInv
<1>2. manifest' # manifest
  OBVIOUS
<1>3. PICK w \in Window :
        \/ Rebase!WriteStarting(w) \/ Rebase!MarkRunning(w) \/ Rebase!Complete(w)
        \/ Rebase!Stopped(w) \/ Rebase!DeleteManifest(w) \/ Rebase!Offer(w)
        \/ Rebase!Dismiss(w) \/ Rebase!DiscardProven(w) \/ Rebase!Prompt(w)
  <2>1. Rebase!Next /\ ~Rebase!Outside
    BY <1>2 DEF Rebase!rebaseVars, Rebase!Outside, Rebase!disk
  <2>2. PICK w \in Window :
          Rebase!Submit(w) \/ Rebase!Control(w) \/ Rebase!Activate(w) \/ Rebase!Work(w)
            \/ Rebase!Crash(w)
    BY <2>1 DEF Rebase!Next
  <2>3. ~(Rebase!Submit(w) \/ Rebase!Control(w) \/ Rebase!Activate(w)
          \/ Rebase!Crash(w))
    BY <1>2 DEF Rebase!Submit, Rebase!Control, Rebase!Activate, Rebase!Crash, Rebase!disk
  <2>4. ~(Rebase!Reserve(w) \/ Rebase!WritePointer(w) \/ Rebase!CreateFiles(w)
          \/ Rebase!EnterGate(w) \/ Rebase!Check(w) \/ Rebase!Spawn(w))
    BY <1>2
    DEF Rebase!Reserve, Rebase!WritePointer, Rebase!CreateFiles, Rebase!EnterGate, Rebase!Check,
        Rebase!Spawn, Rebase!Throw, Rebase!disk
  <2>5. ~(Rebase!SequenceEditor(w) \/ Rebase!Rebase(w) \/ Rebase!Recover(w)
          \/ Rebase!PassThrough(w))
    BY <1>2
    DEF Rebase!SequenceEditor, Rebase!Rebase, Rebase!Recover, Rebase!PassThrough, Rebase!disk
  <2>6. ~(Rebase!DeleteFiles(w) \/ Rebase!Compare(w) \/ Rebase!Release(w))
    BY <1>2 DEF Rebase!DeleteFiles, Rebase!Compare, Rebase!Release, Rebase!Unclean, Rebase!disk
  <2>7. ~(Rebase!Gather(w) \/ Rebase!Sweep(w) \/ Rebase!Probe(w)
          \/ Rebase!Recall(w) \/ Rebase!Reclaim(w))
    BY <1>2
    DEF Rebase!Gather, Rebase!Sweep, Rebase!Probe, Rebase!Recall, Rebase!Reclaim, Rebase!disk
  <2>8. \/ Rebase!WriteStarting(w) \/ Rebase!MarkRunning(w) \/ Rebase!Complete(w)
        \/ Rebase!Stopped(w) \/ Rebase!DeleteManifest(w) \/ Rebase!Offer(w)
        \/ Rebase!Dismiss(w) \/ Rebase!DiscardProven(w) \/ Rebase!Prompt(w)
    BY <2>2, <2>3, <2>4, <2>5, <2>6, <2>7 DEF Rebase!Work
  <2> QED
    BY <2>8
<1>4. ASSUME NEW lifecycle, Rebase!Put(mine[w], lifecycle), step[w] \notin Recon \cup {"idle",
          "pass"}
      PROVE  mine[w] = s /\ w \in keep
  <2>1. mine[w] = s
    BY <1>1, <1>4 DEF Rebase!Put, Rebase!RebaseTypeOK
  <2> QED
    BY <1>1, <1>4, <2>1 DEF WindowsFollow, ManifestsFollow
<1>5. CASE Rebase!WriteStarting(w)
  <2>1. step[w] = "start" /\ Rebase!Put(mine[w], "starting")
    BY <1>2, <1>5 DEF Rebase!WriteStarting, Rebase!Go, Rebase!Throw, Rebase!disk
  <2> QED
    BY <1>1, <1>4, <2>1 DEF WindowsFollow, Recon
<1>6. CASE Rebase!MarkRunning(w)
  <2>1. step[w] = "mark" /\ Rebase!Put(mine[w], "running")
    BY <1>2, <1>6 DEF Rebase!MarkRunning, Rebase!Go, Rebase!Throw, Rebase!disk
  <2> QED
    BY <1>1, <1>4, <2>1 DEF WindowsFollow, Recon
<1>7. CASE Rebase!Complete(w)
  <2>1. step[w] = "finished" /\ (Rebase!Put(mine[w], "pending") \/ Rebase!Put(mine[w], "done"))
    BY <1>2, <1>7 DEF Rebase!Complete, Rebase!Go
  <2> QED
    BY <1>1, <1>4, <2>1 DEF WindowsFollow, Recon
<1>8. CASE Rebase!Stopped(w)
  <2>1. step[w] = "stopped" /\ Rebase!Put(mine[w], "paused")
    BY <1>2, <1>8 DEF Rebase!Stopped, Rebase!Go, Rebase!Throw, Rebase!disk
  <2> QED
    BY <1>1, <1>4, <2>1 DEF WindowsFollow, Recon
<1>9. CASE Rebase!DeleteManifest(w)
  <2>1. step[w] = "forget" /\ Rebase!Put(mine[w], Nothing)
    BY <1>2, <1>9 DEF Rebase!DeleteManifest, Rebase!Go, Rebase!Unclean, Rebase!disk
  <2> QED
    BY <1>1, <1>4, <2>1 DEF WindowsFollow, Recon
<1>10. CASE Rebase!Offer(w)
  <2>1. step[w] = "offer" /\ Rebase!Put(mine[w], "done")
    BY <1>2, <1>10 DEF Rebase!Offer, Rebase!Go, Rebase!disk
  <2> QED
    BY <1>4, <2>1 DEF Recon
<1>11. CASE Rebase!Dismiss(w)
  <2>1. step[w] = "dismiss" /\ (Rebase!Put(mine[w], Nothing) \/ Rebase!Put(mine[w], "pending"))
    BY <1>11 DEF Rebase!Dismiss
  <2> QED
    BY <1>4, <2>1 DEF Recon
<1>12. CASE Rebase!DiscardProven(w)
  <2>1. step[w] = "discard" /\ s \in Rebase!ProvenDead(seen[w])
    BY <1>12 DEF Rebase!DiscardProven, Rebase!Go, Rebase!Discard
  <2>2. EvidenceOf(w)
    BY <1>1, <2>1 DEF EvidenceStands, Rebase!Reconciling
  <2>3. seen[w].manifests[s] = "pending"
    BY <2>1, <2>2, RebaseAssumption DEF EvidenceOf
  <2> QED
    BY <2>1, <2>3 DEF Rebase!ProvenDead
<1>13. CASE Rebase!Prompt(w)
  BY <1>13 DEF Rebase!Prompt
<1> QED
  BY <1>3, <1>5, <1>6, <1>7, <1>8, <1>9, <1>10, <1>11, <1>12, <1>13

\* Where no two windows overlap, a rebase that stopped keeps all that continuing it takes, git never
\* works on a session without the manifest that recovers it, reservations go with every exit that is
\* not a pause, and a push to be offered is not forgotten (run.ts:138-173, 202-229;
\* control.ts:212-227; rebaseReconciliation.ts:48-65; reconcile.ts:268-281).
THEOREM RebasesRecover == Rebase!Spec => RebasesAreRecoverable
<1>1. RebaseInv => /\ RebaseTypeOK /\ PausedIsRecoverable /\ GitRunsWithManifest
                   /\ ReleasedUnlessPaused /\ DeadPointerReclaimed
  <2>1. /\ Rebase!RebaseTypeOK => RebaseTypeOK
        /\ Rebase!PausedIsRecoverable => PausedIsRecoverable
        /\ Rebase!GitRunsWithManifest => GitRunsWithManifest
        /\ Rebase!ReleasedUnlessPaused => ReleasedUnlessPaused
        /\ Rebase!DeadPointerReclaimed => DeadPointerReclaimed
    BY DEF Rebase!RebaseTypeOK, RebaseTypeOK, Rebase!Step, Step, Rebase!Live, Live,
           Rebase!PausedIsRecoverable, PausedIsRecoverable, Rebase!GitRunsWithManifest,
           GitRunsWithManifest, Rebase!ReleasedUnlessPaused, ReleasedUnlessPaused, Rebase!Idle,
           Idle, Rebase!DeadPointerReclaimed, DeadPointerReclaimed, Rebase!ProvenDead, ProvenDead
  <2> QED
    BY <2>1, Recoverable
<1>2. RebaseInv /\ [Rebase!Next]_Rebase!rebaseVars =>
        [\A s \in Session : manifest[s] = "pending" /\ manifest'[s] # "pending" =>
           \/ \E w \in Window : step[w] \in {"offer", "dismiss"} /\ mine[w] = s
           \/ \E w \in Window : step[w] = "prompt"]_rebaseVars
  BY PendingStays
<1> QED
  BY <1>1, <1>2, RebaseInvAlways, PTL DEF Rebase!Spec, RebasesAreRecoverable, PendingPushRetained

================================================================================
