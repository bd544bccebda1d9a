------------------------ MODULE ShelfConflictSession ------------------------
(***************************************************************************)
(* services/shelfConflictSession.ts: merge sessions on conflicting entries *)
(* of one shelf.  A session reads the shelf and the file without a lock;   *)
(* applying its result takes the lock, compares generation and             *)
(* fingerprint, and overwrites the file.  The user may save the file       *)
(* between any two steps, and other commands may rewrite the shelf.        *)
(***************************************************************************)
EXTENDS Naturals

CONSTANTS
  Entry,         \* conflicting entries, one file each
  MaxVersions,   \* bound: contents the files ever have
  MaxGenerations \* bound: generations of the shelf

VARIABLES
  saved,      \* version of each file on disk
  versions,   \* versions so far
  generation, \* current generation of the shelf
  applied,    \* entries it records as applied
  session,    \* one merge editor per entry
  parked,     \* <<entry, version>> in the recovery directory
  slipped     \* history: versions saved after the last read that could have noticed

conflictVars == <<saved, versions, generation, applied, session, parked, slipped>>

Version == 0..MaxVersions
Closed == [at |-> "closed", shown |-> 0, print |-> 0, generation |-> 1, was |-> {}, override |-> FALSE]

TypeOK ==
  /\ saved \in [Entry -> Version]
  /\ versions \in Version
  /\ generation \in 1..MaxGenerations
  /\ applied \in SUBSET Entry
  /\ session \in [Entry -> [at : {"closed", "base", "file", "print", "open", "compare", "read", "park",
                                  "write", "mark"},
                            shown : Version, print : Version, generation : 1..MaxGenerations,
                            was : SUBSET Entry, override : BOOLEAN]]
  /\ parked \in SUBSET (Entry \X Version)
  /\ slipped \in SUBSET Version

Init ==
  /\ saved = [e \in Entry |-> 0]
  /\ versions = 0
  /\ generation = 1
  /\ applied = {}
  /\ session = [e \in Entry |-> Closed]
  /\ parked = {}
  /\ slipped = {}

-----------------------------------------------------------------------------
To(e, from, to) == session[e].at = from /\ session' = [session EXCEPT ![e].at = to]

\* open reads the manifest,
Open(e) ==
  /\ session[e].at = "closed"
  /\ session' = [session EXCEPT ![e] = [Closed EXCEPT !.at = "file", !.generation = generation, !.was = applied]]
  /\ UNCHANGED <<saved, versions, generation, applied, parked, slipped>>

\* the file,
ReadCurrent(e) ==
  /\ session[e].at = "file"
  /\ session' = [session EXCEPT ![e].at = "print", ![e].shown = saved[e]]
  /\ UNCHANGED <<saved, versions, generation, applied, parked, slipped>>

\* and once more its fingerprint.
Fingerprint(e) ==
  /\ session[e].at = "print"
  /\ session' = [session EXCEPT ![e].at = "open", ![e].print = saved[e]]
  /\ UNCHANGED <<saved, versions, generation, applied, parked, slipped>>

Close(e) ==
  /\ session[e].at = "open"
  /\ session' = [session EXCEPT ![e] = Closed]
  /\ UNCHANGED <<saved, versions, generation, applied, parked, slipped>>

-----------------------------------------------------------------------------
(* apply, under the gate and the store lock.                               *)

Locked == \E e \in Entry : session[e].at \in {"compare", "read", "park", "write", "mark"}

Stale(e) == session[e].generation # generation

\* A shelf that moved on is stale unless the user overrides.
Apply(e) ==
  /\ session[e].at = "open" /\ ~Locked
  /\ \E override \in BOOLEAN :
       /\ Stale(e) => override
       /\ session' = [session EXCEPT ![e].at = "compare", ![e].override = override]
  /\ UNCHANGED <<saved, versions, generation, applied, parked, slipped>>

\* applyLocked: with either side stale the file is parked, or the user is asked.
Compare(e) ==
  /\ LET stale == Stale(e) \/ session[e].print # saved[e]
     IN  To(e, "compare", IF ~stale THEN "write" ELSE IF session[e].override THEN "read" ELSE "open")
  /\ UNCHANGED <<saved, versions, generation, applied, parked, slipped>>

ReadForPark(e) ==
  /\ session[e].at = "read"
  /\ session' = [session EXCEPT ![e].at = "park", ![e].shown = saved[e]]
  /\ UNCHANGED <<saved, versions, generation, applied, parked, slipped>>

\* Mutant: a file that cannot be parked is overwritten anyway.
ParkAnyway(e) ==
  /\ To(e, "park", "write")
  /\ parked' \in {parked, parked \cup {<<e, session[e].shown>>}}
  /\ UNCHANGED <<saved, versions, generation, applied, slipped>>

\* parkShelfConflictCurrent, or the reason it refused.
Park(e) ==
  /\ \/ To(e, "park", "write") /\ parked' = parked \cup {<<e, session[e].shown>>}
     \/ session[e].at \in {"read", "park"} /\ session' = [session EXCEPT ![e] = Closed] /\ UNCHANGED parked
  /\ UNCHANGED <<saved, versions, generation, applied, slipped>>

\* replaceRegularWorktreeFile, or it throws.
Write(e) ==
  /\ \/ /\ To(e, "write", "mark")
        /\ versions < MaxVersions
        /\ versions' = versions + 1
        /\ saved' = [saved EXCEPT ![e] = versions + 1]
     \/ /\ session[e].at = "write"
        /\ session' = [session EXCEPT ![e] = Closed]
        /\ UNCHANGED <<saved, versions>>
  /\ UNCHANGED <<generation, applied, parked, slipped>>

\* markShelfEntryApplied writes the manifest read under the lock, or throws.
Mark(e) ==
  /\ session[e].at = "mark"
  /\ \/ /\ generation < MaxGenerations
        /\ generation' = generation + 1
        /\ applied' = applied \cup {e}
     \/ UNCHANGED <<generation, applied>>
  /\ session' = [session EXCEPT ![e] = Closed]
  /\ UNCHANGED <<saved, versions, parked, slipped>>

-----------------------------------------------------------------------------
\* The user saves the file; nothing reads it again between the two reads of open, or
\* after the comparison or the parking read.
Save(e) ==
  /\ versions < MaxVersions
  /\ versions' = versions + 1
  /\ saved' = [saved EXCEPT ![e] = versions + 1]
  /\ slipped' = IF session[e].at \in {"print", "park", "write"} THEN slipped \cup {versions + 1} ELSE slipped
  /\ UNCHANGED <<generation, applied, session, parked>>

\* Another command of the shelf: a rename, an unshelving of other entries.
Rewrite ==
  /\ ~Locked
  /\ generation < MaxGenerations
  /\ generation' = generation + 1
  /\ UNCHANGED <<saved, versions, applied, session, parked, slipped>>

Work(e) ==
  \/ ReadCurrent(e) \/ Fingerprint(e) \/ Compare(e) \/ ReadForPark(e) \/ Park(e) \/ Write(e) \/ Mark(e)

Next == Rewrite \/ \E e \in Entry : Open(e) \/ Close(e) \/ Apply(e) \/ Work(e) \/ Save(e)

Spec == Init /\ [][Next]_conflictVars

\* Reads and writes end.
FairSpec == Spec /\ \A e \in Entry : WF_conflictVars(Work(e))

-----------------------------------------------------------------------------
\* A resolution overwrites only what the user saw in the session or what was parked, except
\* what was saved in the two windows nobody looks at (shelfConflictSession.ts:158-160,
\* 279-308).
OverwritesWhatWasSeen ==
  [][\A e \in Entry : session[e].at = "write" /\ session'[e].at = "mark" =>
       saved[e] \in slipped \/ saved[e] = session[e].shown]_conflictVars

\* What a session did not show is in the recovery directory once it is overwritten.
OverriddenIsParked ==
  [][\A e \in Entry : session[e].at = "write" /\ session'[e].at = "mark" /\ saved[e] \notin slipped =>
       saved[e] = session[e].print \/ <<e, saved[e]>> \in parked]_conflictVars

\* No resolution takes back another entry's (shelfConflictSession.ts:366-396).
ResolvedStays == [][applied \subseteq applied']_conflictVars

=============================================================================
