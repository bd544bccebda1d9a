-------------------------- MODULE ShelfServiceProofs --------------------------
(* The store of the shelves, of any number of windows, shelves and generations:   *)
(* it can be read at every moment, it loses nothing, and what it records stands.  *)
EXTENDS ShelfService, FiniteSetTheorems, WellFoundedInduction, TLAPS

-----------------------------------------------------------------------------
(* The generation a writer reserves, and the shelf recovery comes to next.      *)

\* Of shelves and generations the least is there.
LEMMA LeastIs ==
  ASSUME NEW S \in SUBSET Nat, S # {}
  PROVE  \E m \in S : \A n \in S : m <= n
<1> DEFINE R == OpToRel(<, Nat)
<1>1. IsWellFoundedOn(R, Nat)
  BY NatLessThanWellFounded
<1>2. \A x, y \in Nat : <<x, y>> \in R <=> x < y
  BY DEF OpToRel
<1> HIDE DEF R
<1>3. PICK m \in S : \A n \in S : ~(<<n, m>> \in R)
  BY <1>1, WFMin
<1>4. ASSUME NEW n \in S PROVE m <= n
  <2>1. ~(n < m)
    BY <1>2, <1>3
  <2> QED
    BY <2>1
<1> QED
  BY <1>4

LEMMA MinIs ==
  ASSUME NEW S \in SUBSET Nat, S # {}
  PROVE  Min(S) \in S
BY LeastIs DEF Min

\* A bounded set of numbers has a greatest.
LEMMA MaxIs ==
  ASSUME NEW S \in SUBSET Nat, S # {}, NEW k \in Nat, \A x \in S : x <= k
  PROVE  Max(S) \in S /\ \A x \in S : x <= Max(S)
<1> DEFINE T == {n \in Nat : \A x \in S : x <= n}
<1>1. k \in T
  OBVIOUS
<1>2. PICK m \in T : \A n \in T : m <= n
  BY <1>1, LeastIs
<1>3. m \in Nat /\ \A x \in S : x \in Nat /\ x <= m
  BY <1>2
<1>4. m \in S
  <2> SUFFICES ASSUME m \notin S PROVE FALSE
    OBVIOUS
  <2>1. PICK x \in S : x \in Nat /\ x <= m
    BY <1>3
  <2>2. m - 1 \in Nat
    BY <1>3, <2>1
  <2>3. ASSUME NEW y \in S PROVE y <= m - 1
    <3>1. y \in Nat /\ y <= m /\ y # m
      BY <1>3
    <3> QED
      BY <1>3, <3>1
  <2>4. m - 1 \in T
    BY <2>2, <2>3
  <2> QED
    BY <1>2, <1>3, <2>4
<1>5. \E y \in S : \A x \in S : y >= x
  BY <1>3, <1>4
<1>6. Max(S) \in S /\ \A x \in S : Max(S) >= x
  BY <1>5 DEF Max
<1> QED
  BY <1>3, <1>6

LEMMA MaxIsUnique ==
  ASSUME NEW S \in SUBSET Nat, NEW m \in S, \A x \in S : x <= m
  PROVE  Max(S) = m
<1>1. Max(S) \in S /\ \A x \in S : x <= Max(S)
  BY MaxIs
<1>2. PICK k \in S : k = Max(S)
  BY <1>1
<1>3. k <= m /\ m <= k /\ k \in Nat /\ m \in Nat
  BY <1>1, <1>2
<1> QED
  BY <1>2, <1>3

-----------------------------------------------------------------------------
(* The invariant.                                                          *)

\* Kinds of commands, and the steps that write a generation.
Capturing == {"shelve", "save"}
Deleting == {"delete", "cleanUp", "drop"}
Writing == {"reserve", "manifest", "pointer"}

HistoryTyped == made \in [Token -> SUBSET Shelf] /\ doomed \subseteq Shelf
  /\ touched \subseteq Change

\* Where each command may be.
StagesFollow ==
  /\ op = Idle <=> pc = "idle"
  /\ op # Idle =>
       /\ op.kind = "resume" <=> pc \in {"journals", "journaled"}
       /\ op.kind \in Deleting <=> pc \in {"remove", "removing", "unlist"}
       /\ op.kind = "unshelve" => pc \in {"apply", "mark", "enlist", "settle"} \cup Writing
       /\ op.kind = "rewrite" => pc \in {"enlist"} \cup Writing
       /\ op.kind \in Capturing =>
            pc \in {"objects", "enlist", "journal", "move", "commit", "rollback", "conclude",
              "record"}
                     \cup Writing
       /\ op.shelf = None => pc = "journals"
       /\ op.kind = "resume" => op.by \in Window
       /\ pc \in {"objects"} \cup Writing => op.next \in Manifest /\ op.shelf <= used
       /\ pc = "journaled" => journal[op.shelf] = "pending"
  /\ \A w \in Window : resuming[w].at = "drop" => resuming[w].left # {}

\* Ids are drawn in order.
UnusedIsEmpty ==
  \A s \in Shelf : s > used =>
    current[s] = 0 /\ journal[s] = "none" /\ s \notin doomed
      /\ \A c \in Change : recovery[s][c] = "none"

ManifestsReserved == \A s \in Shelf, g \in Gen : manifests[s][g] # None => g \in dirs[s]

\* A generation is written beyond the current one, what it names before.
GenerationWritten ==
  /\ pc \in {"manifest", "pointer"} =>
       dirs[op.shelf] # {} /\ current[op.shelf] < Fresh(op.shelf)
  /\ pc = "manifest" => manifests[op.shelf][Fresh(op.shelf)] = None
  /\ pc = "pointer" => manifests[op.shelf][Fresh(op.shelf)] = op.next
  /\ pc \in Writing /\ op.shelf \notin doomed => op.next.held \subseteq objects[op.shelf]
  /\ pc = "enlist" => Manifested(op.shelf)

\* What a capture moves is on its shelf by then, and nowhere else in its recovery directory.
Captures ==
  op # Idle /\ op.kind \in Capturing =>
    /\ op.shelf \notin doomed /\ op.shelf <= used /\ op.next \in Manifest /\ op.next.applied = {}
    /\ pc \in {"objects"} \cup Writing => current[op.shelf] = 0
    /\ pc \in {"enlist", "journal", "move", "commit"} =>
         current[op.shelf] # 0 /\ Now(op.shelf) = op.next
    /\ pc \in {"objects", "enlist", "journal"} \cup Writing => journal[op.shelf] = "none"
    /\ pc \in {"move", "commit", "rollback", "conclude"} => journal[op.shelf] = "pending"
    /\ pc \in {"objects", "enlist", "journal", "move", "commit"} \cup Writing =>
         /\ op.todo \subseteq op.next.held /\ \A c \in op.todo : recovery[op.shelf][c] = "none"
         /\ \A c \in Change : recovery[op.shelf][c] # "none" => c \in op.next.held

\* What is marked as applied was.
Unshelves ==
  op # Idle /\ op.kind = "unshelve" =>
    /\ pc \in {"apply", "mark"} \cup Writing =>
         /\ Manifested(op.shelf)
         /\ \A c \in op.done : c \in touched \/ local[c] \in {"mine", "merged"}
    /\ pc \in {"apply", "mark"} => op.todo \cup op.done \subseteq Now(op.shelf).held
    /\ pc \in Writing =>
         /\ op.next.held = Now(op.shelf).held
         /\ op.next.applied \subseteq Now(op.shelf).applied \cup op.done

Rewrites ==
  op # Idle /\ op.kind = "rewrite" /\ pc \in Writing =>
    /\ Manifested(op.shelf) /\ op.next.held = Now(op.shelf).held
    /\ op.next.applied \subseteq Now(op.shelf).applied

\* A cleanup deletes what is applied, and recovery what it put back.
Deletes ==
  /\ op # Idle /\ op.kind = "cleanUp" /\ pc = "remove" /\ Manifested(op.shelf) =>
       Ghost(Now(op.shelf))
  /\ op # Idle /\ op.kind = "drop" /\ pc = "remove" => journal[op.shelf] # "shelved"
  /\ pc = "removing" => op.shelf \in doomed
  /\ \A w \in Window : \A s \in resuming[w].left :
       /\ journal[s] = "none" /\ s <= used
       /\ op # Idle /\ op.kind \in Capturing => op.shelf # s

\* Every change the user did not touch is in the worktree, on a shelf that took it and is not
\* deleted,
\* or in a recovery directory with a journal.
Kept(c) ==
  \/ local[c] \in {"mine", "merged"}
  \/ \E s \in Shelf \ doomed : current[s] # 0 /\ journal[s] = "shelved"
                                /\ c \in Now(s).held \ Now(s).applied
  \/ \E s \in Shelf : journal[s] \in {"pending", "ghost"} /\ recovery[s][c] \in {"mine", "merged"}
AllKept == \A c \in Change \ touched : Kept(c)

\* The catalog, but for the shelf that is being enlisted or unlisted.
Catalogued ==
  wrong = {} =>
    /\ pc = "enlist" => Listed = catalog.shelves \cup {op.shelf}
    /\ pc = "unlist" => Listed = catalog.shelves \ {op.shelf}
    /\ pc \notin {"enlist", "unlist"} => Listed = catalog.shelves

TokensRecorded ==
  /\ \A t \in Token : made[t] = IF catalog.ledger[t] = None THEN {} ELSE {catalog.ledger[t]}
  /\ op # Idle /\ op.token # None => catalog.ledger[op.token] = None

ServiceInv ==
  /\ TypeOK /\ HistoryTyped /\ StagesFollow /\ UnusedIsEmpty /\ ManifestsReserved
  /\ GenerationWritten
  /\ Captures /\ Unshelves /\ Rewrites /\ Deletes /\ AllKept /\ Catalogued /\ TokensRecorded
  /\ CurrentIsReadable

-----------------------------------------------------------------------------
(* Facts the steps share.                                                  *)

\* What a command is made of, and which command is at a step.
OpFits ==
  /\ op \in Op /\ op.kind \in Kind /\ op.shelf \in Shelf \cup {None} /\ op.by \in Window \cup {None}
  /\ op.token \in Token \cup {None} /\ op.todo \subseteq Change /\ op.done \subseteq Change
  /\ op.next \in Manifest \cup {None} /\ (pc # "journals" => op.shelf \in Shelf)

KindFits ==
  /\ pc \in {"objects", "journal", "move", "commit", "rollback", "conclude", "record"} =>
       op.kind \in Capturing
  /\ pc \in {"apply", "mark", "settle"} => op.kind = "unshelve"
  /\ pc \in Writing \cup {"enlist"} => op.kind \in Capturing \cup {"unshelve", "rewrite"}
  /\ pc \in {"remove", "removing", "unlist"} => op.kind \in Deleting
  /\ pc \in {"journals", "journaled"} => op.kind = "resume"

LEMMA OpTyped == ASSUME TypeOK, StagesFollow, op # Idle PROVE OpFits
<1>1. op \in Op
  BY DEF TypeOK
<1> QED
  BY <1>1 DEF Op, StagesFollow, OpFits

LEMMA KindAt == ASSUME TypeOK, StagesFollow, op # Idle PROVE KindFits
<1>1. op.kind \in Kind
  BY OpTyped DEF OpFits
<1> QED
  BY <1>1 DEF Kind, StagesFollow, Capturing, Deleting, Writing, KindFits

\* Parts of a command may be replaced.
LEMMA OpWith ==
  ASSUME NEW o \in Op
  PROVE  /\ \A t \in SUBSET Change : [o EXCEPT !.todo = t] \in Op
         /\ \A t, d \in SUBSET Change : [o EXCEPT !.todo = t, !.done = d] \in Op
         /\ \A n \in Manifest : [o EXCEPT !.next = n] \in Op
         /\ \A s \in Shelf : [o EXCEPT !.shelf = s] \in Op
BY DEF Op

LEMMA OpIsNotIdle == ASSUME NEW o \in Op PROVE o # Idle
BY DEF Op, Idle, Kind

\* Applying an entry never undoes what is there, and what is edited still was not applied.
LEMMA OutcomeIs ==
  ASSUME NEW c, NEW outcome \in Outcome(c), local[c] \in {"clean", "mine", "edited", "merged"}
  PROVE  /\ local[c] \in {"mine", "merged"} => outcome[1] = local[c]
         /\ outcome[1] \in {"mine", "edited", "merged"} /\ (outcome[2] => outcome[1] # "edited")
<1>1. CASE local[c] = "clean"
  <2>1. Outcome(c) = {<<"mine", TRUE>>}
    BY <1>1 DEF Outcome
  <2>2. outcome = <<"mine", TRUE>>
    BY <2>1
  <2>3. outcome[1] = "mine"
    BY <2>2
  <2> QED
    BY <1>1, <2>3
<1>2. CASE local[c] = "edited"
  <2>1. Outcome(c) = {<<"edited", FALSE>>, <<"merged", TRUE>>}
    BY <1>2 DEF Outcome
  <2>2. CASE outcome = <<"edited", FALSE>>
    <3>1. outcome[1] = "edited" /\ outcome[2] = FALSE
      BY <2>2
    <3> QED
      BY <1>2, <3>1
  <2>3. CASE outcome = <<"merged", TRUE>>
    <3>1. outcome[1] = "merged"
      BY <2>3
    <3> QED
      BY <1>2, <3>1
  <2> QED
    BY <2>1, <2>2, <2>3
<1>3. CASE local[c] \in {"mine", "merged"}
  <2>1. Outcome(c) = {<<local[c], FALSE>>, <<local[c], TRUE>>}
    BY <1>3 DEF Outcome
  <2>2. outcome = <<local[c], FALSE>> \/ outcome = <<local[c], TRUE>>
    BY <2>1
  <2>3. PICK b \in BOOLEAN : outcome = <<local[c], b>>
    BY <2>2
  <2>4. outcome[1] = local[c]
    BY <2>3
  <2> QED
    BY <1>3, <2>4
<1> QED
  BY <1>1, <1>2, <1>3

\* What a manifest holds are changes.
LEMMA NowIs ==
  ASSUME TypeOK, NEW s \in Shelf, Manifested(s)
  PROVE  /\ Now(s) \in Manifest /\ Now(s).held \subseteq Change
         /\ Now(s).applied \subseteq Now(s).held
         /\ current[s] \in Gen
<1>1. current \in [Shelf -> 0..MaxGen] /\ manifests \in [Shelf -> [Gen -> Manifest \cup {None}]]
  BY DEF TypeOK
<1>2. current[s] \in Gen
  BY <1>1, ServiceAssumption DEF Manifested, Gen
<1>3. Now(s) \in Manifest
  BY <1>1, <1>2 DEF Manifested, Now
<1> QED
  BY <1>2, <1>3 DEF Manifest

\* The directories of a shelf are bounded, so there is a latest one,
LEMMA FreshIs ==
  ASSUME TypeOK, NEW s \in Shelf, dirs[s] # {}
  PROVE  Fresh(s) \in Gen /\ Fresh(s) \in dirs[s] /\ \A g \in dirs[s] : g <= Fresh(s)
<1>1. dirs[s] \subseteq Gen
  BY DEF TypeOK
<1>2. dirs[s] \in SUBSET Nat /\ (\A g \in dirs[s] : g <= MaxGen) /\ MaxGen \in Nat
  BY <1>1, ServiceAssumption DEF Gen
<1> QED
  BY <1>1, <1>2, MaxIs DEF Fresh

\* and one beyond it and beyond the pointer, which has no manifest yet.
LEMMA NextIs ==
  ASSUME TypeOK, StagesFollow, ManifestsReserved, At("reserve"), Reserve
  PROVE  /\ op.shelf \in Shelf /\ Fresh(op.shelf)' \in Gen
         /\ dirs[op.shelf]' = dirs[op.shelf] \cup {Fresh(op.shelf)'}
         /\ current[op.shelf] < Fresh(op.shelf)'
         /\ manifests[op.shelf][Fresh(op.shelf)'] = None
<1> DEFINE s == op.shelf
           S == dirs[s] \cup {current[s]}
           n == Max(S) + 1
<1>1. s \in Shelf
  BY OpTyped DEF At, OpFits
<1>2. dirs[s] \subseteq 1..MaxGen /\ current[s] \in 0..MaxGen /\ dirs \in [Shelf -> SUBSET Gen]
  BY <1>1 DEF TypeOK, Gen
<1>3. Max(S) \in S /\ \A x \in S : x <= Max(S)
  <2>1. S \in SUBSET Nat /\ S # {} /\ (\A x \in S : x <= MaxGen) /\ MaxGen \in Nat
    BY <1>2, ServiceAssumption
  <2> HIDE DEF S
  <2> QED
    BY <2>1, MaxIs
<1>4. /\ n \in Nat /\ n <= MaxGen /\ 0 < n /\ dirs' = [dirs EXCEPT ![s] = @ \cup {n}] /\ op' = op
  <2>1. n <= MaxGen /\ dirs' = [dirs EXCEPT ![s] = @ \cup {n}] /\ op' = op
    BY DEF Reserve, nextGeneration
  <2>2. Max(S) \in Nat
    BY <1>2, <1>3
  <2> HIDE DEF S
  <2> QED
    BY <2>1, <2>2
<1>5. \A x \in S : x < n /\ x \in Nat
  BY <1>2, <1>3
<1>6. dirs'[s] = dirs[s] \cup {n}
  BY <1>1, <1>2, <1>4
<1>7. Fresh(op.shelf)' = n
  <2> HIDE DEF n
  <2>1. dirs'[s] \in SUBSET Nat /\ n \in dirs'[s] /\ \A x \in dirs'[s] : x <= n
    BY <1>2, <1>4, <1>5, <1>6
  <2>2. Max(dirs'[s]) = n
    BY <2>1, MaxIsUnique
  <2> QED
    BY <1>4, <2>2 DEF Fresh
<1>8. n \in Gen
  BY <1>4, ServiceAssumption DEF Gen
<1>9. n \notin dirs[s] /\ current[s] < n
  BY <1>5
<1> HIDE DEF n
<1>10. manifests[s][n] = None
  BY <1>1, <1>8, <1>9 DEF ManifestsReserved
<1> QED
  BY <1>1, <1>4, <1>6, <1>7, <1>8, <1>9, <1>10

-----------------------------------------------------------------------------
(* Every step keeps the invariant.                                         *)

LEMMA BeginShelveKeeps == ASSUME ServiceInv, BeginShelve PROVE ServiceInv'
<1>1. /\ TypeOK /\ HistoryTyped /\ StagesFollow /\ UnusedIsEmpty /\ ManifestsReserved
      /\ GenerationWritten /\ Captures
      /\ Unshelves /\ Rewrites /\ Deletes /\ AllKept /\ Catalogued /\ TokensRecorded
      /\ CurrentIsReadable
  BY DEF ServiceInv
<1>2. UNCHANGED <<local, recovery, objects, dirs, manifests, current, catalog, journal, mark,
                resuming, wrong, touched, doomed, cancelled, made>>
  BY DEF BeginShelve, Start, tree, store, history
<1>a. /\ op = Idle /\ pc' = "objects" /\ used < MaxShelves /\ used' = used + 1 /\ used + 1 \in Shelf
      /\ pc = "idle" /\ used' \in 0..MaxShelves /\ used \in 0..MaxShelves
  <2>1. used < MaxShelves /\ used \in 0..MaxShelves /\ pc' = "objects" /\ op = Idle
          /\ used' = used + 1
    BY <1>1 DEF BeginShelve, Free, TypeOK
  <2> QED
    BY <1>1, <2>1, ServiceAssumption DEF StagesFollow, Shelf
<1>b. /\ op' \in Op /\ op' # Idle /\ op'.kind \in {"shelve", "save"} /\ op'.shelf = used + 1
      /\ op'.todo = op'.next.held /\ op'.next \in Manifest /\ op'.next.applied = {}
      /\ op'.token # None => op'.token \in Token /\ catalog.ledger[op'.token] = None
  <2>1. PICK kind \in {"shelve", "save"}, token \in Token \cup {None}, selected \in SUBSET Change :
          /\ token # None => catalog.ledger[token] = None
          /\ op' = [kind |-> kind, by |-> None, shelf |-> used + 1, token |-> token,
                    todo |-> selected, done |-> {}, remove |-> FALSE,
                    next |-> [held |-> selected, applied |-> {}]]
    BY DEF BeginShelve, Start
  <2>2. [held |-> selected, applied |-> {}] \in Manifest
    BY DEF Manifest
  <2>3. op' \in Op
    BY <1>a, <2>1, <2>2 DEF Op, Kind
  <2> QED
    BY <2>1, <2>2, <2>3, OpIsNotIdle
<1>c. /\ current[used + 1] = 0 /\ journal[used + 1] = "none" /\ used + 1 \notin doomed
      /\ \A c \in Change : recovery[used + 1][c] = "none"
  BY <1>1, <1>a DEF UnusedIsEmpty
<1> USE <1>1, <1>2, <1>a, <1>b, <1>c, ServiceAssumption DEF Capturing, Deleting, Writing
<1>3. op' \in Op \cup {Idle}
  BY
  DEF TypeOK, HistoryTyped, StagesFollow, GenerationWritten, Unshelves, Manifested, Now, Op, Kind,
      Manifest
<1>4. used' \in 0..MaxShelves
  BY DEF TypeOK, HistoryTyped, StagesFollow, GenerationWritten, Unshelves, Manifested, Now
<1>5. TypeOK'
  BY <1>3, <1>4 DEF TypeOK
<1>6. HistoryTyped'
  BY DEF HistoryTyped
<1>7. StagesFollow'
  BY DEF StagesFollow, TypeOK, Deletes, GenerationWritten, Captures
<1>8. UnusedIsEmpty'
  BY DEF UnusedIsEmpty, TypeOK, Shelf
<1>9. ManifestsReserved'
  BY DEF ManifestsReserved
<1>10. GenerationWritten'
  BY
  DEF GenerationWritten, TypeOK, CurrentIsReadable, Readable, Fresh, StagesFollow, UnusedIsEmpty,
      Captures, Unshelves, Rewrites, Manifested, Now
<1>11. Captures'
  <2>1. (op.shelf \notin doomed /\ op.shelf <= used /\ op.next \in Manifest
          /\ op.next.applied = {})'
    BY <1>a, <1>b, <1>c
  <2>2. (current[op.shelf] = 0 /\ journal[op.shelf] = "none")'
    BY <1>b, <1>c
  <2>3. (op.todo \subseteq op.next.held /\ \A c \in Change : recovery[op.shelf][c] = "none")'
    BY <1>b, <1>c
  <2>4. (op.todo \subseteq Change)'
    BY <1>b DEF Manifest
  <2> QED
    BY <2>1, <2>2, <2>3, <2>4 DEF Captures
<1>12. Unshelves'
  BY DEF Unshelves, TypeOK, StagesFollow, GenerationWritten, HistoryTyped, Manifested, Now
<1>13. Rewrites'
  BY DEF Rewrites, TypeOK, StagesFollow, GenerationWritten, Manifested, Now
<1>14. Deletes'
  BY DEF Deletes, TypeOK, StagesFollow, UnusedIsEmpty, Shelf
<1>15. AllKept'
  BY DEF AllKept, Kept, Manifested, Now
<1>16. Catalogued'
  BY DEF Catalogued, Listed, TypeOK, StagesFollow, GenerationWritten, Captures, Manifested, Now
<1>17. TokensRecorded'
  BY DEF TokensRecorded, TypeOK, HistoryTyped, StagesFollow
<1>18. CurrentIsReadable'
  BY DEF CurrentIsReadable, Readable, Manifested, Now
<1> QED
  BY <1>5, <1>6, <1>7, <1>8, <1>9, <1>10, <1>11, <1>12, <1>13, <1>14, <1>15, <1>16, <1>17, <1>18
  DEF ServiceInv

LEMMA BeginUnshelveKeeps == ASSUME ServiceInv, BeginUnshelve PROVE ServiceInv'
<1>1. /\ TypeOK /\ HistoryTyped /\ StagesFollow /\ UnusedIsEmpty /\ ManifestsReserved
      /\ GenerationWritten /\ Captures
      /\ Unshelves /\ Rewrites /\ Deletes /\ AllKept /\ Catalogued /\ TokensRecorded
      /\ CurrentIsReadable
  BY DEF ServiceInv
<1>2. UNCHANGED <<local, recovery, objects, dirs, manifests, current, catalog, journal, mark,
                used, resuming, wrong, touched, doomed, cancelled, made>>
  BY DEF BeginUnshelve, Start, tree, store, history
<1>a. op = Idle /\ pc = "idle" /\ pc' = "apply"
  BY <1>1 DEF BeginUnshelve, Free, StagesFollow
<1>b. /\ op' \in Op /\ op' # Idle /\ op'.kind = "unshelve" /\ op'.shelf \in Shelf
           /\ op'.token = None
      /\ Readable(op'.shelf) /\ op'.todo \subseteq Now(op'.shelf).held /\ op'.done = {}
      /\ op'.next = None
  <2>1. PICK s \in Shelf, remove \in BOOLEAN :
          /\ Readable(s)
          /\ \E selected \in SUBSET Now(s).held :
               op' = [kind |-> "unshelve", by |-> None, shelf |-> s, token |-> None,
                 todo |-> selected,
                      done |-> {}, remove |-> remove, next |-> None]
    BY DEF BeginUnshelve, Start
  <2>2. PICK selected \in SUBSET Now(s).held :
          op' = [kind |-> "unshelve", by |-> None, shelf |-> s, token |-> None, todo |-> selected,
                 done |-> {}, remove |-> remove, next |-> None]
    BY <2>1
  <2>a. selected \subseteq Change
    BY <1>1, <2>1, NowIs DEF Readable
  <2>3. op' \in Op
    BY <2>2, <2>a DEF Op, Kind
  <2>4. op'.shelf = s /\ op'.kind = "unshelve" /\ op'.token = None /\ op'.todo = selected
          /\ op'.done = {}
        /\ op'.next = None
    BY <2>2
  <2> QED
    BY <2>1, <2>3, <2>4, OpIsNotIdle
<1> USE <1>1, <1>2, <1>a, <1>b, ServiceAssumption DEF Capturing, Deleting, Writing
<1>3. op' \in Op \cup {Idle}
  BY
  DEF TypeOK, HistoryTyped, StagesFollow, GenerationWritten, Unshelves, Manifested, Now, Op, Kind,
      Manifest
<1>4. TypeOK'
  BY <1>3 DEF TypeOK
<1>5. HistoryTyped'
  BY DEF HistoryTyped
<1>6. StagesFollow'
  BY DEF StagesFollow, TypeOK, Deletes, GenerationWritten, Captures
<1>7. UnusedIsEmpty'
  BY DEF UnusedIsEmpty
<1>8. ManifestsReserved'
  BY DEF ManifestsReserved
<1>9. GenerationWritten'
  BY
  DEF GenerationWritten, TypeOK, CurrentIsReadable, Readable, Fresh, StagesFollow, UnusedIsEmpty,
      Captures, Unshelves, Rewrites, Manifested, Now
<1>10. Captures'
  BY DEF Captures, TypeOK, StagesFollow, UnusedIsEmpty, GenerationWritten, Deletes, Manifested, Now
<1>11. Unshelves'
  BY DEF Unshelves, Readable, Manifested, Now, TypeOK
<1>12. Rewrites'
  BY DEF Rewrites, TypeOK, StagesFollow, GenerationWritten, Manifested, Now
<1>13. Deletes'
  BY DEF Deletes, TypeOK, StagesFollow, UnusedIsEmpty, Captures, Ghost, Manifested, Now
<1>14. AllKept'
  BY DEF AllKept, Kept, Manifested, Now
<1>15. Catalogued'
  BY DEF Catalogued, Listed, TypeOK, StagesFollow, GenerationWritten, Captures, Manifested, Now
<1>16. TokensRecorded'
  BY DEF TokensRecorded, TypeOK, HistoryTyped, StagesFollow
<1>17. CurrentIsReadable'
  BY DEF CurrentIsReadable, Readable, Manifested, Now
<1> QED
  BY <1>4, <1>5, <1>6, <1>7, <1>8, <1>9, <1>10, <1>11, <1>12, <1>13, <1>14, <1>15, <1>16, <1>17
  DEF ServiceInv

LEMMA BeginRewriteKeeps == ASSUME ServiceInv, BeginRewrite PROVE ServiceInv'
<1>1. /\ TypeOK /\ HistoryTyped /\ StagesFollow /\ UnusedIsEmpty /\ ManifestsReserved
      /\ GenerationWritten /\ Captures
      /\ Unshelves /\ Rewrites /\ Deletes /\ AllKept /\ Catalogued /\ TokensRecorded
      /\ CurrentIsReadable
  BY DEF ServiceInv
<1>2. UNCHANGED <<local, recovery, objects, dirs, manifests, current, catalog, journal, mark,
                used, resuming, wrong, touched, doomed, cancelled, made>>
  BY DEF BeginRewrite, Start, tree, store, history
<1>a. op = Idle /\ pc = "idle" /\ pc' = "reserve"
  BY <1>1 DEF BeginRewrite, Free, StagesFollow
<1>b. /\ op' \in Op /\ op' # Idle /\ op'.kind = "rewrite" /\ op'.shelf \in Shelf /\ op'.token = None
      /\ Manifested(op'.shelf) /\ op'.next \in Manifest /\ op'.next.held = Now(op'.shelf).held
      /\ op'.next.applied \subseteq Now(op'.shelf).applied
  <2>1. PICK s \in Shelf :
          /\ Manifested(s)
          /\ \E next \in {Now(s), [Now(s) EXCEPT !.applied = {}]} :
               op' = [kind |-> "rewrite", by |-> None, shelf |-> s, token |-> None, todo |-> {},
                      done |-> {}, remove |-> FALSE, next |-> next]
    BY DEF BeginRewrite, Start
  <2>2. PICK next \in {Now(s), [Now(s) EXCEPT !.applied = {}]} :
          op' = [kind |-> "rewrite", by |-> None, shelf |-> s, token |-> None, todo |-> {},
                 done |-> {}, remove |-> FALSE, next |-> next]
    BY <2>1
  <2>a. /\ next \in Manifest /\ next.held = Now(s).held /\ next.applied \subseteq Now(s).applied
    <3>1. Now(s) \in Manifest
      BY <1>1, <2>1, NowIs
    <3> QED
      BY <2>2, <3>1 DEF Manifest
  <2>3. op' \in Op
    BY <2>2, <2>a DEF Op, Kind
  <2>4. op'.shelf = s /\ op'.next = next /\ next \in Manifest /\ next.held = Now(s).held
        /\ next.applied \subseteq Now(s).applied /\ op'.kind = "rewrite" /\ op'.token = None
    BY <2>2, <2>a
  <2> QED
    BY <2>1, <2>3, <2>4, OpIsNotIdle
<1>c. op'.shelf <= used
  BY <1>1, <1>b, ServiceAssumption DEF TypeOK, UnusedIsEmpty, Manifested, Shelf
<1> USE <1>1, <1>2, <1>a, <1>b, <1>c, ServiceAssumption DEF Capturing, Deleting, Writing
<1>3. op' \in Op \cup {Idle}
  BY
  DEF TypeOK, HistoryTyped, StagesFollow, GenerationWritten, Unshelves, Manifested, Now, Op, Kind,
      Manifest
<1>4. TypeOK'
  BY <1>3 DEF TypeOK
<1>5. HistoryTyped'
  BY DEF HistoryTyped
<1>6. StagesFollow'
  BY DEF StagesFollow
<1>7. UnusedIsEmpty'
  BY DEF UnusedIsEmpty
<1>8. ManifestsReserved'
  BY DEF ManifestsReserved
<1>9. GenerationWritten'
  BY
  DEF GenerationWritten, TypeOK, CurrentIsReadable, Readable, Fresh, StagesFollow, UnusedIsEmpty,
      Captures, Unshelves, Rewrites, Manifested, Now
<1>10. Captures'
  BY DEF Captures, TypeOK, StagesFollow, UnusedIsEmpty, GenerationWritten, Deletes, Manifested, Now
<1>11. Unshelves'
  BY DEF Unshelves, TypeOK, StagesFollow, GenerationWritten, HistoryTyped, Manifested, Now
<1>12. Rewrites'
  BY DEF Rewrites, TypeOK, StagesFollow, GenerationWritten, Manifested, Now
<1>13. Deletes'
  BY DEF Deletes, TypeOK, StagesFollow, UnusedIsEmpty, Captures, Ghost, Manifested, Now
<1>14. AllKept'
  BY DEF AllKept, Kept, Manifested, Now
<1>15. Catalogued'
  BY DEF Catalogued, Listed, TypeOK, StagesFollow, GenerationWritten, Captures, Manifested, Now
<1>16. TokensRecorded'
  BY DEF TokensRecorded, TypeOK, HistoryTyped, StagesFollow
<1>17. CurrentIsReadable'
  BY DEF CurrentIsReadable, Readable, Manifested, Now
<1> QED
  BY <1>4, <1>5, <1>6, <1>7, <1>8, <1>9, <1>10, <1>11, <1>12, <1>13, <1>14, <1>15, <1>16, <1>17
  DEF ServiceInv

LEMMA BeginDeleteKeeps == ASSUME ServiceInv, BeginDelete PROVE ServiceInv'
<1>1. /\ TypeOK /\ HistoryTyped /\ StagesFollow /\ UnusedIsEmpty /\ ManifestsReserved
      /\ GenerationWritten /\ Captures
      /\ Unshelves /\ Rewrites /\ Deletes /\ AllKept /\ Catalogued /\ TokensRecorded
      /\ CurrentIsReadable
  BY DEF ServiceInv
<1>2. UNCHANGED <<local, recovery, objects, dirs, manifests, current, catalog, journal, mark,
                used, resuming, wrong, touched, doomed, cancelled, made>>
  BY DEF BeginDelete, Start, tree, store, history
<1>a. op = Idle /\ pc = "idle" /\ pc' = "remove"
  BY <1>1 DEF BeginDelete, Free, StagesFollow
<1>b. /\ op' \in Op /\ op' # Idle /\ op'.kind = "delete" /\ op'.shelf \in Shelf /\ op'.token = None
      /\ Manifested(op'.shelf)
  <2>1. PICK s \in Shelf :
          /\ Manifested(s)
          /\ op' = [kind |-> "delete", by |-> None, shelf |-> s, token |-> None, todo |-> {},
                    done |-> {}, remove |-> FALSE, next |-> None]
    BY DEF BeginDelete, Start
  <2>3. op' \in Op
    BY <2>1 DEF Op, Kind
  <2>4. op'.shelf = s
    BY <2>1
  <2> QED
    BY <2>1, <2>3, <2>4, OpIsNotIdle
<1> USE <1>1, <1>2, <1>a, <1>b, ServiceAssumption DEF Capturing, Deleting, Writing
<1>3. op' \in Op \cup {Idle}
  BY
  DEF TypeOK, HistoryTyped, StagesFollow, GenerationWritten, Unshelves, Manifested, Now, Op, Kind,
      Manifest
<1>4. TypeOK'
  BY <1>3 DEF TypeOK
<1>5. HistoryTyped'
  BY DEF HistoryTyped
<1>6. StagesFollow'
  BY DEF StagesFollow, TypeOK, Deletes, GenerationWritten, Captures
<1>7. UnusedIsEmpty'
  BY DEF UnusedIsEmpty
<1>8. ManifestsReserved'
  BY DEF ManifestsReserved
<1>9. GenerationWritten'
  BY
  DEF GenerationWritten, TypeOK, CurrentIsReadable, Readable, Fresh, StagesFollow, UnusedIsEmpty,
      Captures, Unshelves, Rewrites, Manifested, Now
<1>10. Captures'
  BY DEF Captures, TypeOK, StagesFollow, UnusedIsEmpty, GenerationWritten, Deletes, Manifested, Now
<1>11. Unshelves'
  BY DEF Unshelves, TypeOK, StagesFollow, GenerationWritten, HistoryTyped, Manifested, Now
<1>12. Rewrites'
  BY DEF Rewrites, TypeOK, StagesFollow, GenerationWritten, Manifested, Now
<1>13. Deletes'
  BY DEF Deletes, TypeOK, StagesFollow, UnusedIsEmpty, Captures, Ghost, Manifested, Now
<1>14. AllKept'
  BY DEF AllKept, Kept, Manifested, Now
<1>15. Catalogued'
  BY DEF Catalogued, Listed, TypeOK, StagesFollow, GenerationWritten, Captures, Manifested, Now
<1>16. TokensRecorded'
  BY DEF TokensRecorded, TypeOK, HistoryTyped, StagesFollow
<1>17. CurrentIsReadable'
  BY DEF CurrentIsReadable, Readable, Manifested, Now
<1> QED
  BY <1>4, <1>5, <1>6, <1>7, <1>8, <1>9, <1>10, <1>11, <1>12, <1>13, <1>14, <1>15, <1>16, <1>17
  DEF ServiceInv

LEMMA BeginCleanUpKeeps == ASSUME ServiceInv, BeginCleanUp PROVE ServiceInv'
<1>1. /\ TypeOK /\ HistoryTyped /\ StagesFollow /\ UnusedIsEmpty /\ ManifestsReserved
      /\ GenerationWritten /\ Captures
      /\ Unshelves /\ Rewrites /\ Deletes /\ AllKept /\ Catalogued /\ TokensRecorded
      /\ CurrentIsReadable
  BY DEF ServiceInv
<1>2. UNCHANGED <<local, recovery, objects, dirs, manifests, current, catalog, journal, mark,
                used, resuming, wrong, touched, doomed, cancelled, made>>
  BY DEF BeginCleanUp, Start, tree, store, history
<1>a. op = Idle /\ pc = "idle" /\ pc' = "remove"
  BY <1>1 DEF BeginCleanUp, Free, StagesFollow
<1>b. /\ op' \in Op /\ op' # Idle /\ op'.kind = "cleanUp" /\ op'.shelf \in Shelf /\ op'.token = None
      /\ Manifested(op'.shelf) /\ Ghost(Now(op'.shelf))
  <2>1. PICK s \in Shelf :
          /\ Manifested(s) /\ Ghost(Now(s))
          /\ op' = [kind |-> "cleanUp", by |-> None, shelf |-> s, token |-> None, todo |-> {},
                    done |-> {}, remove |-> FALSE, next |-> None]
    BY DEF BeginCleanUp, Start
  <2>3. op' \in Op
    BY <2>1 DEF Op, Kind
  <2>4. op'.shelf = s
    BY <2>1
  <2> QED
    BY <2>1, <2>3, <2>4, OpIsNotIdle
<1> USE <1>1, <1>2, <1>a, <1>b, ServiceAssumption DEF Capturing, Deleting, Writing
<1>3. op' \in Op \cup {Idle}
  BY
  DEF TypeOK, HistoryTyped, StagesFollow, GenerationWritten, Unshelves, Manifested, Now, Op, Kind,
      Manifest
<1>4. TypeOK'
  BY <1>3 DEF TypeOK
<1>5. HistoryTyped'
  BY DEF HistoryTyped
<1>6. StagesFollow'
  BY DEF StagesFollow, TypeOK, Deletes, GenerationWritten, Captures
<1>7. UnusedIsEmpty'
  BY DEF UnusedIsEmpty
<1>8. ManifestsReserved'
  BY DEF ManifestsReserved
<1>9. GenerationWritten'
  BY
  DEF GenerationWritten, TypeOK, CurrentIsReadable, Readable, Fresh, StagesFollow, UnusedIsEmpty,
      Captures, Unshelves, Rewrites, Manifested, Now
<1>10. Captures'
  BY DEF Captures, TypeOK, StagesFollow, UnusedIsEmpty, GenerationWritten, Deletes, Manifested, Now
<1>11. Unshelves'
  BY DEF Unshelves, TypeOK, StagesFollow, GenerationWritten, HistoryTyped, Manifested, Now
<1>12. Rewrites'
  BY DEF Rewrites, TypeOK, StagesFollow, GenerationWritten, Manifested, Now
<1>13. Deletes'
  BY DEF Deletes, TypeOK, StagesFollow, UnusedIsEmpty, Captures, Ghost, Manifested, Now
<1>14. AllKept'
  BY DEF AllKept, Kept, Manifested, Now
<1>15. Catalogued'
  BY DEF Catalogued, Listed, TypeOK, StagesFollow, GenerationWritten, Captures, Manifested, Now
<1>16. TokensRecorded'
  BY DEF TokensRecorded, TypeOK, HistoryTyped, StagesFollow
<1>17. CurrentIsReadable'
  BY DEF CurrentIsReadable, Readable, Manifested, Now
<1> QED
  BY <1>4, <1>5, <1>6, <1>7, <1>8, <1>9, <1>10, <1>11, <1>12, <1>13, <1>14, <1>15, <1>16, <1>17
  DEF ServiceInv

LEMMA PutObjectsKeeps == ASSUME ServiceInv, PutObjects PROVE ServiceInv'
<1>1. /\ TypeOK /\ HistoryTyped /\ StagesFollow /\ UnusedIsEmpty /\ ManifestsReserved
      /\ GenerationWritten /\ Captures
      /\ Unshelves /\ Rewrites /\ Deletes /\ AllKept /\ Catalogued /\ TokensRecorded
      /\ CurrentIsReadable
  BY DEF ServiceInv
<1>2. UNCHANGED <<local, recovery, dirs, manifests, current, catalog, journal, mark, used, op,
                resuming, wrong, touched, doomed, cancelled, made>>
  BY DEF PutObjects, tree, store, history
<1> USE DEF OpFits, KindFits
<1>o. op # Idle /\ OpFits
  BY <1>1, OpTyped DEF PutObjects, At
<1>k. KindFits
  BY <1>1, KindAt DEF PutObjects, At
<1>a. op.next \in Manifest /\ op.next.held \subseteq Change
  BY <1>1, <1>o, <1>k DEF PutObjects, At, StagesFollow, Manifest
<1> USE <1>1, <1>2, <1>o, <1>k, <1>a, ServiceAssumption DEF PutObjects, At, Capturing, Deleting,
  Writing
<1>3. objects' \in [Shelf -> SUBSET Change]
  BY DEF TypeOK, HistoryTyped, StagesFollow, GenerationWritten, Unshelves, Manifested, Now
<1>4. TypeOK'
  BY <1>3 DEF TypeOK
<1>5. HistoryTyped'
  BY DEF HistoryTyped
<1>6. StagesFollow'
  BY DEF StagesFollow, TypeOK, Deletes, GenerationWritten, Captures
<1>7. UnusedIsEmpty'
  BY DEF UnusedIsEmpty
<1>8. ManifestsReserved'
  BY DEF ManifestsReserved
<1>9. GenerationWritten'
  BY
  DEF GenerationWritten, TypeOK, CurrentIsReadable, Readable, Fresh, StagesFollow, UnusedIsEmpty,
      Captures, Unshelves, Rewrites, Manifested, Now
<1>10. Captures'
  BY DEF Captures, TypeOK, StagesFollow, UnusedIsEmpty, GenerationWritten, Deletes, Manifested, Now
<1>11. Unshelves'
  BY DEF Unshelves, TypeOK, StagesFollow, GenerationWritten, HistoryTyped, Manifested, Now
<1>12. Rewrites'
  BY DEF Rewrites, TypeOK, StagesFollow, GenerationWritten, Manifested, Now
<1>13. Deletes'
  BY DEF Deletes, TypeOK, StagesFollow, UnusedIsEmpty, Captures, Ghost, Manifested, Now
<1>14. AllKept'
  BY DEF AllKept, Kept, Manifested, Now
<1>15. Catalogued'
  BY DEF Catalogued, Listed, TypeOK, StagesFollow, GenerationWritten, Captures, Manifested, Now
<1>16. TokensRecorded'
  BY DEF TokensRecorded
<1>17. CurrentIsReadable'
  BY
  DEF CurrentIsReadable, Readable, TypeOK, StagesFollow, GenerationWritten, Captures, HistoryTyped,
      Deletes, Manifested, Now
<1> QED
  BY <1>4, <1>5, <1>6, <1>7, <1>8, <1>9, <1>10, <1>11, <1>12, <1>13, <1>14, <1>15, <1>16, <1>17
  DEF ServiceInv

LEMMA ReserveKeeps == ASSUME ServiceInv, Reserve PROVE ServiceInv'
<1>1. /\ TypeOK /\ HistoryTyped /\ StagesFollow /\ UnusedIsEmpty /\ ManifestsReserved
      /\ GenerationWritten /\ Captures
      /\ Unshelves /\ Rewrites /\ Deletes /\ AllKept /\ Catalogued /\ TokensRecorded
      /\ CurrentIsReadable
  BY DEF ServiceInv
<1>2. UNCHANGED <<local, recovery, objects, manifests, current, catalog, journal, mark, used, op,
                resuming, wrong, touched, doomed, cancelled, made>>
  BY DEF Reserve, tree, store, history
<1> USE DEF OpFits, KindFits
<1>o. op # Idle /\ OpFits
  BY <1>1, OpTyped DEF Reserve, At
<1>k. KindFits
  BY <1>1, KindAt DEF Reserve, At
<1>a. /\ op.shelf \in Shelf /\ Fresh(op.shelf)' \in Gen
      /\ dirs[op.shelf]' = dirs[op.shelf] \cup {Fresh(op.shelf)'}
      /\ current[op.shelf] < Fresh(op.shelf)'
      /\ manifests[op.shelf][Fresh(op.shelf)'] = None
  BY <1>1, NextIs DEF Reserve, At
<1> USE <1>1, <1>2, <1>o, <1>k, <1>a, ServiceAssumption DEF Reserve, At, Capturing, Deleting,
  Writing
<1>3. dirs' \in [Shelf -> SUBSET Gen]
  BY DEF TypeOK, HistoryTyped, StagesFollow, GenerationWritten, Unshelves, Manifested, Now
<1>4. TypeOK'
  BY <1>3 DEF TypeOK
<1>5. HistoryTyped'
  BY DEF HistoryTyped
<1>6. StagesFollow'
  BY DEF StagesFollow, TypeOK, Deletes, GenerationWritten, Captures
<1>7. UnusedIsEmpty'
  BY DEF UnusedIsEmpty
<1>8. ManifestsReserved'
  BY DEF ManifestsReserved, TypeOK
<1>9. GenerationWritten'
  BY
  DEF GenerationWritten, TypeOK, CurrentIsReadable, Readable, Fresh, StagesFollow, UnusedIsEmpty,
      Captures, Unshelves, Rewrites, Manifested, Now
<1>10. Captures'
  BY DEF Captures, TypeOK, StagesFollow, UnusedIsEmpty, GenerationWritten, Deletes, Manifested, Now
<1>11. Unshelves'
  BY DEF Unshelves, TypeOK, StagesFollow, GenerationWritten, HistoryTyped, Manifested, Now
<1>12. Rewrites'
  BY DEF Rewrites, TypeOK, StagesFollow, GenerationWritten, Manifested, Now
<1>13. Deletes'
  BY DEF Deletes, TypeOK, StagesFollow, UnusedIsEmpty, Captures, Ghost, Manifested, Now
<1>14. AllKept'
  BY DEF AllKept, Kept, Manifested, Now
<1>15. Catalogued'
  BY DEF Catalogued, Listed, TypeOK, StagesFollow, GenerationWritten, Captures, Manifested, Now
<1>16. TokensRecorded'
  BY DEF TokensRecorded
<1>17. CurrentIsReadable'
  BY DEF CurrentIsReadable, Readable, Manifested, Now
<1> QED
  BY <1>4, <1>5, <1>6, <1>7, <1>8, <1>9, <1>10, <1>11, <1>12, <1>13, <1>14, <1>15, <1>16, <1>17
  DEF ServiceInv

LEMMA WriteManifestKeeps == ASSUME ServiceInv, WriteManifest PROVE ServiceInv'
<1>1. /\ TypeOK /\ HistoryTyped /\ StagesFollow /\ UnusedIsEmpty /\ ManifestsReserved
      /\ GenerationWritten /\ Captures
      /\ Unshelves /\ Rewrites /\ Deletes /\ AllKept /\ Catalogued /\ TokensRecorded
      /\ CurrentIsReadable
  BY DEF ServiceInv
<1>2. UNCHANGED <<local, recovery, objects, dirs, current, catalog, journal, mark, used, op,
                resuming, wrong, touched, doomed, cancelled, made>>
  BY DEF WriteManifest, tree, store, history
<1> USE DEF OpFits, KindFits
<1>o. op # Idle /\ OpFits
  BY <1>1, OpTyped DEF WriteManifest, At
<1>k. KindFits
  BY <1>1, KindAt DEF WriteManifest, At
<1>a. Fresh(op.shelf) \in Gen /\ Fresh(op.shelf) \in dirs[op.shelf]
        /\ Fresh(op.shelf)' = Fresh(op.shelf)
  BY <1>1, <1>2, <1>o, FreshIs DEF WriteManifest, At, GenerationWritten, Fresh
<1> USE <1>1, <1>2, <1>o, <1>k, <1>a, ServiceAssumption DEF WriteManifest, At, Capturing, Deleting,
  Writing
<1>3. manifests' \in [Shelf -> [Gen -> Manifest \cup {None}]]
  BY DEF TypeOK, HistoryTyped, StagesFollow, GenerationWritten, Unshelves, Manifested, Now, Manifest
<1>4. TypeOK'
  BY <1>3 DEF TypeOK
<1>5. HistoryTyped'
  BY DEF HistoryTyped
<1>6. StagesFollow'
  BY DEF StagesFollow, TypeOK, Deletes, GenerationWritten, Captures
<1>7. UnusedIsEmpty'
  BY DEF UnusedIsEmpty
<1>8. ManifestsReserved'
  BY DEF ManifestsReserved, TypeOK
<1>9. GenerationWritten'
  BY
  DEF GenerationWritten, TypeOK, CurrentIsReadable, Readable, Fresh, StagesFollow, UnusedIsEmpty,
      Captures, Unshelves, Rewrites, Manifested, Now
<1>10. Captures'
  BY DEF Captures, TypeOK, StagesFollow, UnusedIsEmpty, GenerationWritten, Deletes, Manifested, Now
<1>11. Unshelves'
  BY DEF Unshelves, TypeOK, StagesFollow, GenerationWritten, HistoryTyped, Manifested, Now
<1>12. Rewrites'
  BY DEF Rewrites, TypeOK, StagesFollow, GenerationWritten, Manifested, Now
<1>13. Deletes'
  BY DEF Deletes, TypeOK, StagesFollow, UnusedIsEmpty, Captures, Ghost, Manifested, Now
<1>14. AllKept'
  <2> SUFFICES ASSUME NEW c \in Change \ touched' PROVE Kept(c)'
    BY DEF AllKept
  <2>1. c \in Change /\ c \notin touched /\ Kept(c)
    BY DEF AllKept
  <2>5. ASSUME NEW s \in Shelf, current[s] # 0 PROVE Now(s)' = Now(s) /\ current'[s] = current[s]
    <3>1. current[s] \in Gen /\ (s = op.shelf => current[s] # Fresh(op.shelf))
      BY <2>5 DEF GenerationWritten, TypeOK, Gen
    <3> QED
      BY <3>1 DEF Now, TypeOK
  <2>2. CASE local[c] \in {"mine", "merged"}
    BY <2>2 DEF Kept
  <2>3. ASSUME NEW s \in Shelf \ doomed, current[s] # 0, journal[s] = "shelved",
               c \in Now(s).held \ Now(s).applied
        PROVE  Kept(c)'
    BY <2>3, <2>5 DEF Kept
  <2>4. ASSUME NEW s \in Shelf, journal[s] \in {"pending", "ghost"},
               recovery[s][c] \in {"mine", "merged"}
        PROVE  Kept(c)'
    BY <2>4 DEF Kept
  <2> QED
    BY <2>1, <2>2, <2>3, <2>4 DEF Kept
<1>15. Catalogued'
  BY DEF Catalogued, Listed, TypeOK, StagesFollow, GenerationWritten, Captures, Manifested, Now
<1>16. TokensRecorded'
  BY DEF TokensRecorded
<1>17. CurrentIsReadable'
  BY
  DEF CurrentIsReadable, Readable, TypeOK, StagesFollow, GenerationWritten, Captures, HistoryTyped,
      Deletes, Manifested, Now
<1> QED
  BY <1>4, <1>5, <1>6, <1>7, <1>8, <1>9, <1>10, <1>11, <1>12, <1>13, <1>14, <1>15, <1>16, <1>17
  DEF ServiceInv

LEMMA AdvancePointerKeeps == ASSUME ServiceInv, AdvancePointer PROVE ServiceInv'
<1>1. /\ TypeOK /\ HistoryTyped /\ StagesFollow /\ UnusedIsEmpty /\ ManifestsReserved
      /\ GenerationWritten /\ Captures
      /\ Unshelves /\ Rewrites /\ Deletes /\ AllKept /\ Catalogued /\ TokensRecorded
      /\ CurrentIsReadable
  BY DEF ServiceInv
<1>2. UNCHANGED <<local, recovery, objects, dirs, manifests, catalog, journal, mark, used, op,
                resuming, wrong, touched, doomed, cancelled, made>>
  BY DEF AdvancePointer, tree, store, history
<1> USE DEF OpFits, KindFits
<1>o. op # Idle /\ OpFits
  BY <1>1, OpTyped DEF AdvancePointer, At
<1>k. KindFits
  BY <1>1, KindAt DEF AdvancePointer, At
<1>a. Fresh(op.shelf) \in Gen /\ Fresh(op.shelf) \in dirs[op.shelf]
        /\ Fresh(op.shelf)' = Fresh(op.shelf)
  BY <1>1, <1>2, <1>o, FreshIs DEF AdvancePointer, At, GenerationWritten, Fresh
<1> USE <1>1, <1>2, <1>o, <1>k, <1>a, ServiceAssumption DEF AdvancePointer, At, Capturing, Deleting,
  Writing
<1>3. current' \in [Shelf -> 0..MaxGen]
  BY DEF TypeOK, Gen
<1>4. TypeOK'
  BY <1>3 DEF TypeOK
<1>5. HistoryTyped'
  BY DEF HistoryTyped
<1>6. StagesFollow'
  BY DEF StagesFollow, TypeOK, Deletes, GenerationWritten, Captures
<1>7. UnusedIsEmpty'
  BY DEF UnusedIsEmpty, TypeOK, StagesFollow, Gen, Shelf, GenerationWritten
<1>8. ManifestsReserved'
  BY DEF ManifestsReserved
<1>9. GenerationWritten'
  BY
  DEF GenerationWritten, TypeOK, CurrentIsReadable, Readable, Fresh, StagesFollow, UnusedIsEmpty,
      Captures, Unshelves, Rewrites, Manifested, Now
<1>10. Captures'
  BY DEF Captures, TypeOK, StagesFollow, UnusedIsEmpty, GenerationWritten, Deletes, Manifested, Now
<1>11. Unshelves'
  BY DEF Unshelves, TypeOK, StagesFollow, GenerationWritten, HistoryTyped, Manifested, Now
<1>12. Rewrites'
  BY DEF Rewrites, TypeOK, StagesFollow, GenerationWritten, Manifested, Now
<1>13. Deletes'
  BY DEF Deletes, TypeOK, StagesFollow, UnusedIsEmpty, Captures, Ghost, Manifested, Now
<1>14. AllKept'
  <2> SUFFICES ASSUME NEW c \in Change \ touched' PROVE Kept(c)'
    BY DEF AllKept
  <2>1. c \in Change /\ c \notin touched /\ Kept(c)
    BY DEF AllKept
  <2>5. ASSUME NEW s \in Shelf \ doomed, current[s] # 0, s = op.shelf,
               c \in Now(s).held \ Now(s).applied
        PROVE  /\ local[c] \in {"mine", "merged"} \/ (c \in Now(s).held \ Now(s).applied)'
               /\ current'[s] # 0
    BY <2>1, <2>5 DEF Now, GenerationWritten, TypeOK, Gen, Captures, Unshelves, Rewrites
  <2>6. ASSUME NEW s \in Shelf, s # op.shelf PROVE Now(s)' = Now(s) /\ current'[s] = current[s]
    BY <2>6 DEF Now, TypeOK
  <2>2. CASE local[c] \in {"mine", "merged"}
    BY <2>2 DEF Kept
  <2>3. ASSUME NEW s \in Shelf \ doomed, current[s] # 0, journal[s] = "shelved",
               c \in Now(s).held \ Now(s).applied
        PROVE  Kept(c)'
    BY <2>1, <2>3, <2>5, <2>6 DEF Kept
  <2>4. ASSUME NEW s \in Shelf, journal[s] \in {"pending", "ghost"},
               recovery[s][c] \in {"mine", "merged"}
        PROVE  Kept(c)'
    BY <2>4 DEF Kept
  <2> QED
    BY <2>1, <2>2, <2>3, <2>4 DEF Kept
<1>15. Catalogued'
  BY DEF Catalogued, Listed, TypeOK, StagesFollow, GenerationWritten, Captures, Manifested, Now
<1>16. TokensRecorded'
  BY DEF TokensRecorded
<1>17. CurrentIsReadable'
  BY
  DEF CurrentIsReadable, Readable, TypeOK, StagesFollow, GenerationWritten, Captures, HistoryTyped,
      Deletes, Manifested, Now
<1> QED
  BY <1>4, <1>5, <1>6, <1>7, <1>8, <1>9, <1>10, <1>11, <1>12, <1>13, <1>14, <1>15, <1>16, <1>17
  DEF ServiceInv

LEMMA EnlistKeeps == ASSUME ServiceInv, Enlist PROVE ServiceInv'
<1>1. /\ TypeOK /\ HistoryTyped /\ StagesFollow /\ UnusedIsEmpty /\ ManifestsReserved
      /\ GenerationWritten /\ Captures
      /\ Unshelves /\ Rewrites /\ Deletes /\ AllKept /\ Catalogued /\ TokensRecorded
      /\ CurrentIsReadable
  BY DEF ServiceInv
<1>2. UNCHANGED <<local, recovery, objects, dirs, manifests, current, journal, mark, used,
                resuming, wrong, touched, doomed, cancelled, made>>
  BY DEF Enlist, Return, tree, store, history
<1> USE DEF OpFits, KindFits
<1>o. op # Idle /\ OpFits
  BY <1>1, OpTyped DEF Enlist, At
<1>k. KindFits
  BY <1>1, KindAt DEF Enlist, At
<1>a. /\ op.shelf \in Shelf /\ pc = "enlist"
      /\ catalog' = [catalog EXCEPT !.shelves = @ \cup {op.shelf}]
      /\ catalog'.ledger = catalog.ledger /\ catalog'.shelves = catalog.shelves \cup {op.shelf}
  BY <1>1, <1>o DEF Enlist, At, TypeOK
<1>b. \/ op.kind = "shelve" /\ pc' = "journal" /\ op' = op
      \/ op.kind = "save" /\ pc' = "record" /\ op' = op
      \/ op.kind = "unshelve" /\ pc' = "settle" /\ op' = op
      \/ pc' = "idle" /\ op' = Idle
  BY <1>a, <1>k DEF Enlist, Return, Capturing
<1> USE <1>1, <1>2, <1>o, <1>k, <1>a, <1>b, ServiceAssumption DEF Capturing, Deleting, Writing
<1>3. catalog' \in [shelves : SUBSET Shelf, ledger : [Token -> Shelf \cup {None}]]
  BY DEF TypeOK, HistoryTyped, StagesFollow, GenerationWritten, Unshelves, Manifested, Now
<1>4. op' \in Op \cup {Idle}
  BY
  DEF TypeOK, HistoryTyped, StagesFollow, GenerationWritten, Unshelves, Manifested, Now, Op, Kind,
      Manifest
<1>5. TypeOK'
  BY <1>3, <1>4 DEF TypeOK
<1>6. HistoryTyped'
  BY DEF HistoryTyped
<1>7. StagesFollow'
  BY DEF StagesFollow, TypeOK, Deletes, GenerationWritten, Captures
<1>8. UnusedIsEmpty'
  BY DEF UnusedIsEmpty
<1>9. ManifestsReserved'
  BY DEF ManifestsReserved
<1>10. GenerationWritten'
  BY
  DEF GenerationWritten, TypeOK, CurrentIsReadable, Readable, Fresh, StagesFollow, UnusedIsEmpty,
      Captures, Unshelves, Rewrites, Manifested, Now
<1>11. Captures'
  BY DEF Captures, TypeOK, StagesFollow, UnusedIsEmpty, GenerationWritten, Deletes, Manifested, Now
<1>12. Unshelves'
  BY DEF Unshelves, TypeOK, StagesFollow, GenerationWritten, HistoryTyped, Manifested, Now
<1>13. Rewrites'
  BY DEF Rewrites, TypeOK, StagesFollow, GenerationWritten, Manifested, Now
<1>14. Deletes'
  BY DEF Deletes, TypeOK, StagesFollow, UnusedIsEmpty, Captures, Ghost, Manifested, Now
<1>15. AllKept'
  BY DEF AllKept, Kept, Manifested, Now
<1>16. Catalogued'
  BY DEF Catalogued, Listed, TypeOK, StagesFollow, GenerationWritten, Captures, Manifested, Now
<1>17. TokensRecorded'
  BY DEF TokensRecorded, TypeOK, HistoryTyped, StagesFollow
<1>18. CurrentIsReadable'
  BY DEF CurrentIsReadable, Readable, Manifested, Now
<1> QED
  BY <1>5, <1>6, <1>7, <1>8, <1>9, <1>10, <1>11, <1>12, <1>13, <1>14, <1>15, <1>16, <1>17, <1>18
  DEF ServiceInv

LEMMA WriteJournalKeeps == ASSUME ServiceInv, WriteJournal PROVE ServiceInv'
<1>1. /\ TypeOK /\ HistoryTyped /\ StagesFollow /\ UnusedIsEmpty /\ ManifestsReserved
      /\ GenerationWritten /\ Captures
      /\ Unshelves /\ Rewrites /\ Deletes /\ AllKept /\ Catalogued /\ TokensRecorded
      /\ CurrentIsReadable
  BY DEF ServiceInv
<1>2. UNCHANGED <<local, recovery, objects, dirs, manifests, current, catalog, mark, used, op,
                resuming, wrong, touched, doomed, cancelled, made>>
  BY DEF WriteJournal, tree, store, history
<1> USE DEF OpFits, KindFits
<1>o. op # Idle /\ OpFits
  BY <1>1, OpTyped DEF WriteJournal, At
<1>k. KindFits
  BY <1>1, KindAt DEF WriteJournal, At
<1> USE <1>1, <1>2, <1>o, <1>k, ServiceAssumption DEF WriteJournal, At, Capturing, Deleting, Writing
<1>3. journal' \in [Shelf -> {"none", "pending", "shelved", "ghost"}]
  BY DEF TypeOK, HistoryTyped, StagesFollow, GenerationWritten, Unshelves, Manifested, Now
<1>4. TypeOK'
  BY <1>3 DEF TypeOK
<1>5. HistoryTyped'
  BY DEF HistoryTyped
<1>6. StagesFollow'
  BY DEF StagesFollow, TypeOK, Deletes, GenerationWritten, Captures
<1>7. UnusedIsEmpty'
  BY DEF UnusedIsEmpty, TypeOK, StagesFollow, Captures, Deletes, Manifested, Now
<1>8. ManifestsReserved'
  BY DEF ManifestsReserved
<1>9. GenerationWritten'
  BY
  DEF GenerationWritten, TypeOK, CurrentIsReadable, Readable, Fresh, StagesFollow, UnusedIsEmpty,
      Captures, Unshelves, Rewrites, Manifested, Now
<1>10. Captures'
  BY DEF Captures, TypeOK, StagesFollow, UnusedIsEmpty, GenerationWritten, Deletes, Manifested, Now
<1>11. Unshelves'
  BY DEF Unshelves, TypeOK, StagesFollow, GenerationWritten, HistoryTyped, Manifested, Now
<1>12. Rewrites'
  BY DEF Rewrites, TypeOK, StagesFollow, GenerationWritten, Manifested, Now
<1>13. Deletes'
  BY DEF Deletes, TypeOK, StagesFollow, UnusedIsEmpty, Captures, Ghost, Manifested, Now
<1>14. AllKept'
  <2> SUFFICES ASSUME NEW c \in Change \ touched' PROVE Kept(c)'
    BY DEF AllKept
  <2>1. c \in Change /\ c \notin touched /\ Kept(c)
    BY DEF AllKept
  <2>2. CASE local[c] \in {"mine", "merged"}
    BY <2>2 DEF Kept
  <2>3. ASSUME NEW s \in Shelf \ doomed, current[s] # 0, journal[s] = "shelved",
               c \in Now(s).held \ Now(s).applied
        PROVE  Kept(c)'
    BY <2>1, <2>3 DEF Kept, Now, TypeOK, Captures
  <2>4. ASSUME NEW s \in Shelf, journal[s] \in {"pending", "ghost"},
               recovery[s][c] \in {"mine", "merged"}
        PROVE  Kept(c)'
    BY <2>4 DEF Kept, TypeOK
  <2> QED
    BY <2>1, <2>2, <2>3, <2>4 DEF Kept
<1>15. Catalogued'
  BY DEF Catalogued, Listed, TypeOK, StagesFollow, GenerationWritten, Captures, Manifested, Now
<1>16. TokensRecorded'
  BY DEF TokensRecorded
<1>17. CurrentIsReadable'
  BY DEF CurrentIsReadable, Readable, Manifested, Now
<1> QED
  BY <1>4, <1>5, <1>6, <1>7, <1>8, <1>9, <1>10, <1>11, <1>12, <1>13, <1>14, <1>15, <1>16, <1>17
  DEF ServiceInv

LEMMA MoveKeeps == ASSUME ServiceInv, Move PROVE ServiceInv'
<1>1. /\ TypeOK /\ HistoryTyped /\ StagesFollow /\ UnusedIsEmpty /\ ManifestsReserved
      /\ GenerationWritten /\ Captures
      /\ Unshelves /\ Rewrites /\ Deletes /\ AllKept /\ Catalogued /\ TokensRecorded
      /\ CurrentIsReadable
  BY DEF ServiceInv
<1>2. UNCHANGED <<objects, dirs, manifests, current, catalog, journal, mark, used, resuming,
                wrong, touched, doomed, cancelled, made>>
  BY DEF Move, tree, store, history
<1> USE DEF OpFits, KindFits
<1>o. op # Idle /\ OpFits
  BY <1>1, OpTyped DEF Move, At
<1>k. KindFits
  BY <1>1, KindAt DEF Move, At
<1>a. PICK x \in op.todo :
        /\ recovery' = [recovery EXCEPT ![op.shelf][x] = IF local[x] = "clean" THEN "none" ELSE local[x]]
        /\ local' = [local EXCEPT ![x] = "clean"] /\ op' = [op EXCEPT !.todo = @ \ {x}]
        /\ pc' = IF op.todo = {x} THEN "commit" ELSE "move"
  BY DEF Move
<1>b. /\ op' \in Op /\ op' # Idle /\ op'.kind = op.kind /\ op'.shelf = op.shelf
           /\ op'.next = op.next
      /\ op'.todo = op.todo \ {x} /\ op'.token = op.token /\ op'.by = op.by /\ op'.done = op.done
  <2>1. op' = [op EXCEPT !.todo = op.todo \ {x}] /\ op.todo \ {x} \in SUBSET Change
    BY <1>a, <1>o
  <2>2. op' \in Op
    BY <1>o, <2>1, OpWith
  <2> QED
    BY <1>o, <2>1, <2>2, OpIsNotIdle DEF Op
<1>c. /\ pc = "move" /\ pc' \in {"commit", "move"} /\ x \in Change /\ op.shelf \in Shelf
      /\ op.kind \in Capturing
  BY <1>a, <1>o, <1>k DEF Move, At
<1>d. /\ recovery[op.shelf][x] = "none" /\ op.shelf \notin doomed /\ op.shelf <= used
      /\ journal[op.shelf] = "pending" /\ x \in op.next.held
  BY <1>1, <1>a, <1>c, <1>o DEF Captures
<1> USE <1>1, <1>2, <1>o, <1>k, <1>a, <1>b, <1>c, <1>d, ServiceAssumption DEF Capturing, Deleting,
  Writing
<1>3. recovery' \in [Shelf -> [Change -> {"none", "mine", "edited", "merged"}]]
  BY DEF TypeOK, HistoryTyped, StagesFollow, GenerationWritten, Unshelves, Manifested, Now
<1>4. local' \in [Change -> {"clean", "mine", "edited", "merged"}]
  BY DEF TypeOK, HistoryTyped, StagesFollow, GenerationWritten, Unshelves, Manifested, Now
<1>5. op' \in Op \cup {Idle}
  BY
  DEF TypeOK, HistoryTyped, StagesFollow, GenerationWritten, Unshelves, Manifested, Now, Op, Kind,
      Manifest
<1>6. TypeOK'
  BY <1>3, <1>4, <1>5 DEF TypeOK
<1>7. HistoryTyped'
  BY DEF HistoryTyped
<1>8. StagesFollow'
  BY DEF StagesFollow
<1>9. UnusedIsEmpty'
  BY DEF UnusedIsEmpty, TypeOK, Shelf
<1>10. ManifestsReserved'
  BY DEF ManifestsReserved
<1>11. GenerationWritten'
  BY
  DEF GenerationWritten, TypeOK, CurrentIsReadable, Readable, Fresh, StagesFollow, UnusedIsEmpty,
      Captures, Unshelves, Rewrites, Manifested, Now
<1>12. Captures'
  BY DEF Captures, TypeOK, StagesFollow, UnusedIsEmpty, GenerationWritten, Deletes, Manifested, Now
<1>13. Unshelves'
  BY DEF Unshelves, TypeOK, StagesFollow, GenerationWritten, HistoryTyped, Manifested, Now
<1>14. Rewrites'
  BY DEF Rewrites, TypeOK, StagesFollow, GenerationWritten, Manifested, Now
<1>15. Deletes'
  BY DEF Deletes, TypeOK, StagesFollow, UnusedIsEmpty, Captures, Ghost, Manifested, Now
<1>16. AllKept'
  <2> SUFFICES ASSUME NEW c \in Change \ touched' PROVE Kept(c)'
    BY DEF AllKept
  <2>1. c \in Change /\ c \notin touched /\ Kept(c)
    BY DEF AllKept
  <2>5. /\ recovery'[op.shelf][x] = (IF local[x] = "clean" THEN "none" ELSE local[x])
        /\ \A s \in Shelf, d \in Change : s # op.shelf \/ d # x => recovery'[s][d] = recovery[s][d]
        /\ \A d \in Change : d # x => local'[d] = local[d]
    BY DEF TypeOK
  <2>2. CASE local[c] \in {"mine", "merged"}
    BY <2>1, <2>2, <2>5 DEF Kept
  <2>3. ASSUME NEW s \in Shelf \ doomed, current[s] # 0, journal[s] = "shelved",
               c \in Now(s).held \ Now(s).applied
        PROVE  Kept(c)'
    BY <2>1, <2>3 DEF Kept, Now
  <2>4. ASSUME NEW s \in Shelf, journal[s] \in {"pending", "ghost"},
               recovery[s][c] \in {"mine", "merged"}
        PROVE  Kept(c)'
    BY <2>4, <2>5 DEF Kept
  <2> QED
    BY <2>1, <2>2, <2>3, <2>4 DEF Kept
<1>17. Catalogued'
  BY DEF Catalogued, Listed, TypeOK, StagesFollow, GenerationWritten, Captures, Manifested, Now
<1>18. TokensRecorded'
  BY DEF TokensRecorded, TypeOK, HistoryTyped, StagesFollow
<1>19. CurrentIsReadable'
  BY DEF CurrentIsReadable, Readable, Manifested, Now
<1> QED
  BY <1>6, <1>7, <1>8, <1>9, <1>10, <1>11, <1>12, <1>13, <1>14, <1>15, <1>16, <1>17, <1>18, <1>19
  DEF ServiceInv

LEMMA CommitKeeps == ASSUME ServiceInv, Commit PROVE ServiceInv'
<1>1. /\ TypeOK /\ HistoryTyped /\ StagesFollow /\ UnusedIsEmpty /\ ManifestsReserved
      /\ GenerationWritten /\ Captures
      /\ Unshelves /\ Rewrites /\ Deletes /\ AllKept /\ Catalogued /\ TokensRecorded
      /\ CurrentIsReadable
  BY DEF ServiceInv
<1>2. UNCHANGED <<local, recovery, objects, dirs, manifests, current, catalog, mark, used, op,
                resuming, wrong, touched, doomed, cancelled, made>>
  BY DEF Commit, tree, store, history
<1> USE DEF OpFits, KindFits
<1>o. op # Idle /\ OpFits
  BY <1>1, OpTyped DEF Commit, At
<1>k. KindFits
  BY <1>1, KindAt DEF Commit, At
<1> USE <1>1, <1>2, <1>o, <1>k, ServiceAssumption DEF Commit, At, Capturing, Deleting, Writing
<1>3. journal' \in [Shelf -> {"none", "pending", "shelved", "ghost"}]
  BY DEF TypeOK, HistoryTyped, StagesFollow, GenerationWritten, Unshelves, Manifested, Now
<1>4. TypeOK'
  BY <1>3 DEF TypeOK
<1>5. HistoryTyped'
  BY DEF HistoryTyped
<1>6. StagesFollow'
  BY DEF StagesFollow, TypeOK, Deletes, GenerationWritten, Captures
<1>7. UnusedIsEmpty'
  BY DEF UnusedIsEmpty, TypeOK, StagesFollow, Captures, Deletes, Manifested, Now
<1>8. ManifestsReserved'
  BY DEF ManifestsReserved
<1>9. GenerationWritten'
  BY
  DEF GenerationWritten, TypeOK, CurrentIsReadable, Readable, Fresh, StagesFollow, UnusedIsEmpty,
      Captures, Unshelves, Rewrites, Manifested, Now
<1>10. Captures'
  BY DEF Captures, TypeOK, StagesFollow, UnusedIsEmpty, GenerationWritten, Deletes, Manifested, Now
<1>11. Unshelves'
  BY DEF Unshelves, TypeOK, StagesFollow, GenerationWritten, HistoryTyped, Manifested, Now
<1>12. Rewrites'
  BY DEF Rewrites, TypeOK, StagesFollow, GenerationWritten, Manifested, Now
<1>13. Deletes'
  BY DEF Deletes, TypeOK, StagesFollow, UnusedIsEmpty, Captures, Ghost, Manifested, Now
<1>14. AllKept'
  <2> SUFFICES ASSUME NEW c \in Change \ touched' PROVE Kept(c)'
    BY DEF AllKept
  <2>1. c \in Change /\ c \notin touched /\ Kept(c)
    BY DEF AllKept
  <2>5. /\ op.shelf \notin doomed /\ current[op.shelf] # 0 /\ Now(op.shelf) = op.next
        /\ op.next.applied = {} /\ \A d \in Change : recovery[op.shelf][d] # "none" =>
             d \in op.next.held
    BY DEF Captures
  <2>2. CASE local[c] \in {"mine", "merged"}
    BY <2>2 DEF Kept
  <2>3. ASSUME NEW s \in Shelf \ doomed, current[s] # 0, journal[s] = "shelved",
               c \in Now(s).held \ Now(s).applied
        PROVE  Kept(c)'
    BY <2>3 DEF Kept, Now, TypeOK
  <2>4. ASSUME NEW s \in Shelf, journal[s] \in {"pending", "ghost"},
               recovery[s][c] \in {"mine", "merged"}
        PROVE  Kept(c)'
    BY <2>1, <2>4, <2>5 DEF Kept, Now, TypeOK
  <2> QED
    BY <2>1, <2>2, <2>3, <2>4 DEF Kept
<1>15. Catalogued'
  BY DEF Catalogued, Listed, TypeOK, StagesFollow, GenerationWritten, Captures, Manifested, Now
<1>16. TokensRecorded'
  BY DEF TokensRecorded
<1>17. CurrentIsReadable'
  BY DEF CurrentIsReadable, Readable, Manifested, Now
<1> QED
  BY <1>4, <1>5, <1>6, <1>7, <1>8, <1>9, <1>10, <1>11, <1>12, <1>13, <1>14, <1>15, <1>16, <1>17
  DEF ServiceInv

LEMMA ThrowKeeps == ASSUME ServiceInv, Throw PROVE ServiceInv'
<1>1. /\ TypeOK /\ HistoryTyped /\ StagesFollow /\ UnusedIsEmpty /\ ManifestsReserved
      /\ GenerationWritten /\ Captures
      /\ Unshelves /\ Rewrites /\ Deletes /\ AllKept /\ Catalogued /\ TokensRecorded
      /\ CurrentIsReadable
  BY DEF ServiceInv
<1>2. UNCHANGED <<local, recovery, objects, dirs, manifests, current, catalog, journal, mark,
                used, op, resuming, touched, doomed, cancelled, made>>
  BY DEF Throw, Trouble, tree, store, history
<1> USE DEF OpFits, KindFits
<1>o. op # Idle /\ OpFits
  BY <1>1, OpTyped DEF Throw, At
<1>k. KindFits
  BY <1>1, KindAt DEF Throw, At
<1> USE <1>1, <1>2, <1>o, <1>k, ServiceAssumption DEF Throw, At, Trouble, Capturing, Deleting,
  Writing
<1>3. TypeOK'
  BY DEF TypeOK
<1>4. HistoryTyped'
  BY DEF HistoryTyped
<1>5. StagesFollow'
  BY DEF StagesFollow, TypeOK, Deletes, GenerationWritten, Captures
<1>6. UnusedIsEmpty'
  BY DEF UnusedIsEmpty
<1>7. ManifestsReserved'
  BY DEF ManifestsReserved
<1>8. GenerationWritten'
  BY
  DEF GenerationWritten, TypeOK, CurrentIsReadable, Readable, Fresh, StagesFollow, UnusedIsEmpty,
      Captures, Unshelves, Rewrites, Manifested, Now
<1>9. Captures'
  BY DEF Captures, TypeOK, StagesFollow, UnusedIsEmpty, GenerationWritten, Deletes, Manifested, Now
<1>10. Unshelves'
  BY DEF Unshelves, TypeOK, StagesFollow, GenerationWritten, HistoryTyped, Manifested, Now
<1>11. Rewrites'
  BY DEF Rewrites, TypeOK, StagesFollow, GenerationWritten, Manifested, Now
<1>12. Deletes'
  BY DEF Deletes, TypeOK, StagesFollow, UnusedIsEmpty, Captures, Ghost, Manifested, Now
<1>13. AllKept'
  BY DEF AllKept, Kept, Manifested, Now
<1>14. Catalogued'
  BY DEF Catalogued, Listed, TypeOK, StagesFollow, GenerationWritten, Captures, Manifested, Now
<1>15. TokensRecorded'
  BY DEF TokensRecorded
<1>16. CurrentIsReadable'
  BY DEF CurrentIsReadable, Readable, Manifested, Now
<1> QED
  BY <1>3, <1>4, <1>5, <1>6, <1>7, <1>8, <1>9, <1>10, <1>11, <1>12, <1>13, <1>14, <1>15, <1>16
  DEF ServiceInv

LEMMA RollbackKeeps == ASSUME ServiceInv, Rollback PROVE ServiceInv'
<1>1. /\ TypeOK /\ HistoryTyped /\ StagesFollow /\ UnusedIsEmpty /\ ManifestsReserved
      /\ GenerationWritten /\ Captures
      /\ Unshelves /\ Rewrites /\ Deletes /\ AllKept /\ Catalogued /\ TokensRecorded
      /\ CurrentIsReadable
  BY DEF ServiceInv
<1>2. UNCHANGED <<objects, dirs, manifests, current, catalog, journal, mark, used, op, resuming,
                wrong, touched, doomed, cancelled, made>>
  BY DEF Rollback, Restore, tree, store, history
<1> USE DEF OpFits, KindFits
<1>o. op # Idle /\ OpFits
  BY <1>1, OpTyped DEF Rollback, At
<1>k. KindFits
  BY <1>1, KindAt DEF Rollback, At
<1> USE <1>1, <1>2, <1>o, <1>k, ServiceAssumption DEF Rollback, At, Restore, Restorable, Capturing,
  Deleting, Writing
<1>3. local' \in [Change -> {"clean", "mine", "edited", "merged"}]
  BY DEF TypeOK, HistoryTyped, StagesFollow, GenerationWritten, Unshelves, Manifested, Now
<1>4. recovery' \in [Shelf -> [Change -> {"none", "mine", "edited", "merged"}]]
  BY DEF TypeOK, HistoryTyped, StagesFollow, GenerationWritten, Unshelves, Manifested, Now
<1>5. TypeOK'
  BY <1>3, <1>4 DEF TypeOK
<1>6. HistoryTyped'
  BY DEF HistoryTyped
<1>7. StagesFollow'
  BY DEF StagesFollow, TypeOK, Deletes, GenerationWritten, Captures
<1>8. UnusedIsEmpty'
  BY DEF UnusedIsEmpty, TypeOK, StagesFollow, Captures, Deletes, Manifested, Now
<1>9. ManifestsReserved'
  BY DEF ManifestsReserved
<1>10. GenerationWritten'
  BY
  DEF GenerationWritten, TypeOK, CurrentIsReadable, Readable, Fresh, StagesFollow, UnusedIsEmpty,
      Captures, Unshelves, Rewrites, Manifested, Now
<1>11. Captures'
  BY DEF Captures, TypeOK, StagesFollow, UnusedIsEmpty, GenerationWritten, Deletes, Manifested, Now
<1>12. Unshelves'
  BY DEF Unshelves, TypeOK, StagesFollow, GenerationWritten, HistoryTyped, Manifested, Now
<1>13. Rewrites'
  BY DEF Rewrites, TypeOK, StagesFollow, GenerationWritten, Manifested, Now
<1>14. Deletes'
  BY DEF Deletes, TypeOK, StagesFollow, UnusedIsEmpty, Captures, Ghost, Manifested, Now
<1>15. AllKept'
  BY
  DEF AllKept, Kept, TypeOK, StagesFollow, Captures, Unshelves, Rewrites, Deletes,
      GenerationWritten, HistoryTyped, Manifested, Now
<1>16. Catalogued'
  BY DEF Catalogued, Listed, TypeOK, StagesFollow, GenerationWritten, Captures, Manifested, Now
<1>17. TokensRecorded'
  BY DEF TokensRecorded
<1>18. CurrentIsReadable'
  BY DEF CurrentIsReadable, Readable, Manifested, Now
<1> QED
  BY <1>5, <1>6, <1>7, <1>8, <1>9, <1>10, <1>11, <1>12, <1>13, <1>14, <1>15, <1>16, <1>17, <1>18
  DEF ServiceInv

LEMMA ConcludeKeeps == ASSUME ServiceInv, Conclude PROVE ServiceInv'
<1>1. /\ TypeOK /\ HistoryTyped /\ StagesFollow /\ UnusedIsEmpty /\ ManifestsReserved
      /\ GenerationWritten /\ Captures
      /\ Unshelves /\ Rewrites /\ Deletes /\ AllKept /\ Catalogued /\ TokensRecorded
      /\ CurrentIsReadable
  BY DEF ServiceInv
<1>2. UNCHANGED <<local, recovery, objects, dirs, manifests, current, catalog, mark, used,
                resuming, wrong, touched, doomed, cancelled, made>>
  BY DEF Conclude, Return, tree, store, history
<1> USE DEF OpFits, KindFits
<1>o. op # Idle /\ OpFits
  BY <1>1, OpTyped DEF Conclude, At
<1>k. KindFits
  BY <1>1, KindAt DEF Conclude, At
<1> USE <1>1, <1>2, <1>o, <1>k, ServiceAssumption DEF Conclude, At, Return, Restored, Capturing,
  Deleting, Writing
<1>3. journal' \in [Shelf -> {"none", "pending", "shelved", "ghost"}]
  BY DEF TypeOK, HistoryTyped, StagesFollow, GenerationWritten, Unshelves, Manifested, Now
<1>4. op' \in Op \cup {Idle}
  BY
  DEF TypeOK, HistoryTyped, StagesFollow, GenerationWritten, Unshelves, Manifested, Now, Op, Kind,
      Manifest
<1>5. TypeOK'
  BY <1>3, <1>4 DEF TypeOK
<1>6. HistoryTyped'
  BY DEF HistoryTyped
<1>7. StagesFollow'
  BY DEF StagesFollow, TypeOK, Deletes, GenerationWritten, Captures
<1>8. UnusedIsEmpty'
  BY DEF UnusedIsEmpty, TypeOK, StagesFollow, Captures, Deletes, Manifested, Now
<1>9. ManifestsReserved'
  BY DEF ManifestsReserved
<1>10. GenerationWritten'
  BY
  DEF GenerationWritten, TypeOK, CurrentIsReadable, Readable, Fresh, StagesFollow, UnusedIsEmpty,
      Captures, Unshelves, Rewrites, Manifested, Now
<1>11. Captures'
  BY DEF Captures, TypeOK, StagesFollow, UnusedIsEmpty, GenerationWritten, Deletes, Manifested, Now
<1>12. Unshelves'
  BY DEF Unshelves, TypeOK, StagesFollow, GenerationWritten, HistoryTyped, Manifested, Now
<1>13. Rewrites'
  BY DEF Rewrites, TypeOK, StagesFollow, GenerationWritten, Manifested, Now
<1>14. Deletes'
  BY DEF Deletes, TypeOK, StagesFollow, UnusedIsEmpty, Captures, Ghost, Manifested, Now
<1>15. AllKept'
  <2> SUFFICES ASSUME NEW c \in Change \ touched' PROVE Kept(c)'
    BY DEF AllKept
  <2>1. c \in Change /\ c \notin touched /\ Kept(c)
    BY DEF AllKept
  <2>5. /\ journal[op.shelf] = "pending" /\ op.shelf \in Shelf
        /\ \A s \in Shelf : s # op.shelf => journal'[s] = journal[s]
        /\ journal'[op.shelf] = journal[op.shelf] \/ \A d \in Change : recovery[op.shelf][d] = "none"
    BY DEF Captures, TypeOK
  <2>2. CASE local[c] \in {"mine", "merged"}
    BY <2>2 DEF Kept
  <2>3. ASSUME NEW s \in Shelf \ doomed, current[s] # 0, journal[s] = "shelved",
               c \in Now(s).held \ Now(s).applied
        PROVE  Kept(c)'
    BY <2>3, <2>5 DEF Kept, Now
  <2>4. ASSUME NEW s \in Shelf, journal[s] \in {"pending", "ghost"},
               recovery[s][c] \in {"mine", "merged"}
        PROVE  Kept(c)'
    BY <2>4, <2>5 DEF Kept
  <2> QED
    BY <2>1, <2>2, <2>3, <2>4 DEF Kept
<1>16. Catalogued'
  BY DEF Catalogued, Listed, TypeOK, StagesFollow, GenerationWritten, Captures, Manifested, Now
<1>17. TokensRecorded'
  BY DEF TokensRecorded, TypeOK, HistoryTyped, StagesFollow
<1>18. CurrentIsReadable'
  BY DEF CurrentIsReadable, Readable, Manifested, Now
<1> QED
  BY <1>5, <1>6, <1>7, <1>8, <1>9, <1>10, <1>11, <1>12, <1>13, <1>14, <1>15, <1>16, <1>17, <1>18
  DEF ServiceInv

LEMMA RecordKeeps == ASSUME ServiceInv, Record PROVE ServiceInv'
<1>1. /\ TypeOK /\ HistoryTyped /\ StagesFollow /\ UnusedIsEmpty /\ ManifestsReserved
      /\ GenerationWritten /\ Captures
      /\ Unshelves /\ Rewrites /\ Deletes /\ AllKept /\ Catalogued /\ TokensRecorded
      /\ CurrentIsReadable
  BY DEF ServiceInv
<1>2. UNCHANGED <<local, recovery, objects, dirs, manifests, current, journal, mark, used,
                resuming, wrong, touched, doomed, cancelled>>
  BY DEF Record, Return, tree, store, history
<1> USE DEF OpFits, KindFits
<1>o. op # Idle /\ OpFits
  BY <1>1, OpTyped DEF Record, At
<1>k. KindFits
  BY <1>1, KindAt DEF Record, At
<1>a. /\ pc = "record" /\ op' = Idle /\ pc' = "idle" /\ op.kind \in Capturing /\ op.shelf # None
      /\ op.shelf \in Shelf /\ catalog.ledger \in [Token -> Shelf \cup {None}]
  BY <1>1, <1>o, <1>k, ServiceAssumption DEF Record, At, Return, TypeOK
<1>b. catalog'.shelves = catalog.shelves
  BY <1>1 DEF Record, TypeOK
<1>c. /\ catalog' \in [shelves : SUBSET Shelf, ledger : [Token -> Shelf \cup {None}]]
      /\ made' \in [Token -> SUBSET Shelf]
      /\ \A t \in Token : made'[t] = IF catalog'.ledger[t] = None THEN {} ELSE {catalog'.ledger[t]}
  <2>1. CASE op.token = None
    BY <1>1, <2>1 DEF Record, TypeOK, HistoryTyped, TokensRecorded
  <2>2. CASE op.token # None
    <3>1. /\ op.token \in Token /\ catalog.ledger[op.token] = None /\ made[op.token] = {}
      BY <1>1, <1>o, <2>2 DEF TokensRecorded
    <3>2. /\ catalog' = [catalog EXCEPT !.ledger[op.token] = op.shelf]
          /\ made' = [made EXCEPT ![op.token] = @ \cup {op.shelf}]
      BY <2>2 DEF Record
    <3>3. catalog'.ledger = [catalog.ledger EXCEPT ![op.token] = op.shelf]
          /\ catalog' \in [shelves : SUBSET Shelf, ledger : [Token -> Shelf \cup {None}]]
      BY <1>1, <1>a, <3>1, <3>2 DEF TypeOK
    <3> QED
      BY <1>1, <1>a, <3>1, <3>2, <3>3 DEF HistoryTyped, TokensRecorded
  <2> QED
    BY <2>1, <2>2
<1> USE <1>1, <1>2, <1>o, <1>k, <1>a, <1>b, <1>c, ServiceAssumption DEF Capturing, Deleting, Writing
<1>3. catalog' \in [shelves : SUBSET Shelf, ledger : [Token -> Shelf \cup {None}]]
  BY DEF TypeOK, HistoryTyped, StagesFollow, GenerationWritten, Unshelves, Manifested, Now
<1>4. op' \in Op \cup {Idle}
  BY
  DEF TypeOK, HistoryTyped, StagesFollow, GenerationWritten, Unshelves, Manifested, Now, Op, Kind,
      Manifest
<1>5. TypeOK'
  BY <1>3, <1>4 DEF TypeOK
<1>6. HistoryTyped'
  BY DEF HistoryTyped, TypeOK, UnusedIsEmpty
<1>7. StagesFollow'
  BY DEF StagesFollow, TypeOK, Deletes, GenerationWritten, Captures
<1>8. UnusedIsEmpty'
  BY DEF UnusedIsEmpty
<1>9. ManifestsReserved'
  BY DEF ManifestsReserved
<1>10. GenerationWritten'
  BY
  DEF GenerationWritten, TypeOK, CurrentIsReadable, Readable, Fresh, StagesFollow, UnusedIsEmpty,
      Captures, Unshelves, Rewrites, Manifested, Now
<1>11. Captures'
  BY DEF Captures, TypeOK, StagesFollow, UnusedIsEmpty, GenerationWritten, Deletes, Manifested, Now
<1>12. Unshelves'
  BY DEF Unshelves, TypeOK, StagesFollow, GenerationWritten, HistoryTyped, Manifested, Now
<1>13. Rewrites'
  BY DEF Rewrites, TypeOK, StagesFollow, GenerationWritten, Manifested, Now
<1>14. Deletes'
  BY DEF Deletes, TypeOK, StagesFollow, UnusedIsEmpty, Captures, Ghost, Manifested, Now
<1>15. AllKept'
  BY DEF AllKept, Kept, Manifested, Now
<1>16. Catalogued'
  BY DEF Catalogued, Listed, TypeOK, StagesFollow, GenerationWritten, Captures, Manifested, Now
<1>17. TokensRecorded'
  BY DEF TokensRecorded
<1>18. CurrentIsReadable'
  BY DEF CurrentIsReadable, Readable, Manifested, Now
<1> QED
  BY <1>5, <1>6, <1>7, <1>8, <1>9, <1>10, <1>11, <1>12, <1>13, <1>14, <1>15, <1>16, <1>17, <1>18
  DEF ServiceInv

LEMMA ApplyKeeps == ASSUME ServiceInv, Apply PROVE ServiceInv'
<1>1. /\ TypeOK /\ HistoryTyped /\ StagesFollow /\ UnusedIsEmpty /\ ManifestsReserved
      /\ GenerationWritten /\ Captures
      /\ Unshelves /\ Rewrites /\ Deletes /\ AllKept /\ Catalogued /\ TokensRecorded
      /\ CurrentIsReadable
  BY DEF ServiceInv
<1>2. UNCHANGED <<recovery, objects, dirs, manifests, current, catalog, journal, mark, used,
                resuming, wrong, touched, doomed, cancelled, made>>
  BY DEF Apply, Return, tree, store, history
<1> USE DEF OpFits, KindFits
<1>o. op # Idle /\ OpFits
  BY <1>1, OpTyped DEF Apply, At
<1>k. KindFits
  BY <1>1, KindAt DEF Apply, At
<1>a. PICK x \in op.todo, outcome \in UNION {Outcome(d) : d \in op.todo} :
        /\ outcome \in Outcome(x) /\ local' = [local EXCEPT ![x] = outcome[1]]
        /\ LET done == IF outcome[2] THEN op.done \cup {x} ELSE op.done
               left == op.todo \ {x}
           IN  IF left = {} /\ (~op.remove \/ done = {})
               THEN Return
               ELSE /\ op' = [op EXCEPT !.todo = left, !.done = done]
                    /\ pc' = IF left = {} THEN "mark" ELSE "apply"
  BY DEF Apply
<1>b. /\ x \in Change /\ op.shelf \in Shelf /\ pc = "apply" /\ op.kind = "unshelve"
           /\ Manifested(op.shelf)
      /\ op.todo \cup op.done \subseteq Now(op.shelf).held
  BY <1>1, <1>a, <1>o, <1>k DEF Apply, At, Unshelves
<1>c. /\ local[x] \in {"mine", "merged"} => outcome[1] = local[x]
      /\ outcome[1] \in {"mine", "edited", "merged"} /\ (outcome[2] => outcome[1] # "edited")
  <2>1. local[x] \in {"clean", "mine", "edited", "merged"}
    BY <1>1, <1>b DEF TypeOK
  <2>2. outcome \in Outcome(x)
    BY <1>a
  <2> QED
    BY <2>1, <2>2, OutcomeIs
<1>d. \/ op' = Idle /\ pc' = "idle"
      \/ /\ op' \in Op /\ op' # Idle /\ op'.kind = op.kind /\ op'.shelf = op.shelf
              /\ op'.token = op.token
         /\ op'.by = op.by /\ op'.next = op.next /\ op'.todo = op.todo \ {x}
         /\ pc' \in {"mark", "apply"}
         /\ op'.done \subseteq op.done \cup {x} /\ (outcome[1] = "edited" => op'.done = op.done)
  <2> DEFINE done == IF outcome[2] THEN op.done \cup {x} ELSE op.done
             left == op.todo \ {x}
  <2>1. /\ left \in SUBSET Change /\ done \in SUBSET Change /\ done \subseteq op.done \cup {x}
        /\ outcome[1] = "edited" => done = op.done
    BY <1>b, <1>c, <1>o
  <2>2. \/ op' = Idle /\ pc' = "idle"
        \/ op' = [op EXCEPT !.todo = left, !.done = done] /\ pc' \in {"mark", "apply"}
    BY <1>a DEF Return
  <2> HIDE DEF done, left
  <2>3. ASSUME op' = [op EXCEPT !.todo = left, !.done = done]
        PROVE  /\ op' \in Op /\ op' # Idle /\ op'.kind = op.kind /\ op'.shelf = op.shelf
               /\ op'.token = op.token /\ op'.by = op.by /\ op'.next = op.next /\ op'.todo = left
               /\ op'.done = done
    <3>1. op' \in Op
      BY <1>o, <2>1, <2>3, OpWith
    <3> QED
      BY <1>o, <2>3, <3>1, OpIsNotIdle DEF Op
  <2>4. left = op.todo \ {x}
    BY DEF left
  <2> QED
    BY <2>1, <2>2, <2>3, <2>4
<1>e. local' = [local EXCEPT ![x] = outcome[1]]
  BY <1>a
<1> USE <1>1, <1>2, <1>o, <1>k, <1>a, <1>b, <1>c, <1>d, <1>e, ServiceAssumption DEF Capturing,
  Deleting, Writing
<1>3. local' \in [Change -> {"clean", "mine", "edited", "merged"}]
  BY DEF TypeOK, HistoryTyped, StagesFollow, GenerationWritten, Unshelves, Manifested, Now
<1>4. op' \in Op \cup {Idle}
  BY
  DEF TypeOK, HistoryTyped, StagesFollow, GenerationWritten, Unshelves, Manifested, Now, Op, Kind,
      Manifest
<1>5. TypeOK'
  BY <1>3, <1>4 DEF TypeOK
<1>6. HistoryTyped'
  BY DEF HistoryTyped
<1>7. StagesFollow'
  BY DEF StagesFollow, TypeOK, Deletes, GenerationWritten, Captures
<1>8. UnusedIsEmpty'
  BY DEF UnusedIsEmpty
<1>9. ManifestsReserved'
  BY DEF ManifestsReserved
<1>10. GenerationWritten'
  BY
  DEF GenerationWritten, TypeOK, CurrentIsReadable, Readable, Fresh, StagesFollow, UnusedIsEmpty,
      Captures, Unshelves, Rewrites, Manifested, Now
<1>11. Captures'
  BY DEF Captures, TypeOK, StagesFollow, UnusedIsEmpty, GenerationWritten, Deletes, Manifested, Now
<1>12. Unshelves'
  BY DEF Unshelves, TypeOK, StagesFollow, GenerationWritten, HistoryTyped, Manifested, Now
<1>13. Rewrites'
  BY DEF Rewrites, TypeOK, StagesFollow, GenerationWritten, Manifested, Now
<1>14. Deletes'
  BY DEF Deletes, TypeOK, StagesFollow, UnusedIsEmpty, Captures, Ghost, Manifested, Now
<1>15. AllKept'
  <2> SUFFICES ASSUME NEW c \in Change \ touched' PROVE Kept(c)'
    BY DEF AllKept
  <2>1. c \in Change /\ c \notin touched /\ Kept(c)
    BY DEF AllKept
  <2>2. CASE local[c] \in {"mine", "merged"}
    BY <2>1, <2>2 DEF Kept, TypeOK
  <2>3. ASSUME NEW s \in Shelf \ doomed, current[s] # 0, journal[s] = "shelved",
               c \in Now(s).held \ Now(s).applied
        PROVE  Kept(c)'
    BY <2>3 DEF Kept, Now
  <2>4. ASSUME NEW s \in Shelf, journal[s] \in {"pending", "ghost"},
               recovery[s][c] \in {"mine", "merged"}
        PROVE  Kept(c)'
    BY <2>4 DEF Kept
  <2> QED
    BY <2>1, <2>2, <2>3, <2>4 DEF Kept
<1>16. Catalogued'
  BY DEF Catalogued, Listed, TypeOK, StagesFollow, GenerationWritten, Captures, Manifested, Now
<1>17. TokensRecorded'
  BY DEF TokensRecorded, TypeOK, HistoryTyped, StagesFollow
<1>18. CurrentIsReadable'
  BY DEF CurrentIsReadable, Readable, Manifested, Now
<1> QED
  BY <1>5, <1>6, <1>7, <1>8, <1>9, <1>10, <1>11, <1>12, <1>13, <1>14, <1>15, <1>16, <1>17, <1>18
  DEF ServiceInv

LEMMA MarkKeeps == ASSUME ServiceInv, Mark PROVE ServiceInv'
<1>1. /\ TypeOK /\ HistoryTyped /\ StagesFollow /\ UnusedIsEmpty /\ ManifestsReserved
      /\ GenerationWritten /\ Captures
      /\ Unshelves /\ Rewrites /\ Deletes /\ AllKept /\ Catalogued /\ TokensRecorded
      /\ CurrentIsReadable
  BY DEF ServiceInv
<1>2. UNCHANGED <<local, recovery, objects, dirs, manifests, current, catalog, journal, used,
                resuming, wrong, touched, doomed, cancelled, made>>
  BY DEF Mark, tree, store, history
<1> USE DEF OpFits, KindFits
<1>o. op # Idle /\ OpFits
  BY <1>1, OpTyped DEF Mark, At
<1>k. KindFits
  BY <1>1, KindAt DEF Mark, At
<1>a. /\ op.shelf \in Shelf /\ pc = "mark" /\ pc' = "reserve" /\ op.kind = "unshelve"
           /\ Manifested(op.shelf)
      /\ op.done \subseteq Now(op.shelf).held
      /\ mark' = [mark EXCEPT ![op.shelf][current[op.shelf]] = "pending"]
      /\ op' = [op EXCEPT !.next = [Now(op.shelf) EXCEPT !.applied = @ \cup op.done]]
  BY <1>1, <1>o, <1>k DEF Mark, At, Unshelves
<1>b. /\ Now(op.shelf) \in Manifest /\ current[op.shelf] \in Gen /\ op.shelf <= used
  <2>1. Now(op.shelf) \in Manifest /\ current[op.shelf] \in Gen
    BY <1>1, <1>a, NowIs
  <2>2. ~(op.shelf > used)
    BY <1>1, <1>a DEF UnusedIsEmpty, Manifested
  <2>3. op.shelf \in Nat /\ used \in Nat
    BY <1>1, <1>a, ServiceAssumption DEF TypeOK, Shelf
  <2> QED
    BY <2>1, <2>2, <2>3
<1>c. /\ op' \in Op /\ op' # Idle /\ op'.kind = op.kind /\ op'.shelf = op.shelf
           /\ op'.token = op.token
      /\ op'.by = op.by /\ op'.todo = op.todo /\ op'.done = op.done /\ op'.next \in Manifest
      /\ op'.next.held = Now(op.shelf).held /\ op'.next.applied = Now(op.shelf).applied \cup op.done
  <2> DEFINE next == [Now(op.shelf) EXCEPT !.applied = @ \cup op.done]
  <2>1. /\ next \in Manifest /\ next.held = Now(op.shelf).held
        /\ next.applied = Now(op.shelf).applied \cup op.done
    BY <1>a, <1>b DEF Manifest
  <2>2. op' = [op EXCEPT !.next = next]
    BY <1>a
  <2> HIDE DEF next
  <2>3. op' \in Op
    BY <1>o, <2>1, <2>2, OpWith
  <2> QED
    BY <1>o, <2>1, <2>2, <2>3, OpIsNotIdle DEF Op
<1> USE <1>1, <1>2, <1>o, <1>k, <1>a, <1>b, <1>c, ServiceAssumption DEF Capturing, Deleting, Writing
<1>3. mark' \in [Shelf -> [Gen -> {"none", "pending", "settled"}]]
  BY DEF TypeOK, HistoryTyped, StagesFollow, GenerationWritten, Unshelves, Manifested, Now
<1>4. op' \in Op \cup {Idle}
  BY
  DEF TypeOK, HistoryTyped, StagesFollow, GenerationWritten, Unshelves, Manifested, Now, Op, Kind,
      Manifest
<1>5. TypeOK'
  BY <1>3, <1>4 DEF TypeOK
<1>6. HistoryTyped'
  BY DEF HistoryTyped
<1>7. StagesFollow'
  BY DEF StagesFollow, TypeOK, Deletes, GenerationWritten, Captures
<1>8. UnusedIsEmpty'
  BY DEF UnusedIsEmpty
<1>9. ManifestsReserved'
  BY DEF ManifestsReserved
<1>10. GenerationWritten'
  <2>1. op.shelf \notin doomed => Now(op.shelf).held \subseteq objects[op.shelf]
    BY DEF CurrentIsReadable, Readable, Manifested
  <2> QED
    BY <2>1 DEF GenerationWritten
<1>11. Captures'
  BY DEF Captures, TypeOK, StagesFollow, UnusedIsEmpty, GenerationWritten, Deletes, Manifested, Now
<1>12. Unshelves'
  BY DEF Unshelves, TypeOK, StagesFollow, GenerationWritten, HistoryTyped, Manifested, Now
<1>13. Rewrites'
  BY DEF Rewrites, TypeOK, StagesFollow, GenerationWritten, Manifested, Now
<1>14. Deletes'
  BY DEF Deletes, TypeOK, StagesFollow, UnusedIsEmpty, Captures, Ghost, Manifested, Now
<1>15. AllKept'
  BY DEF AllKept, Kept, Manifested, Now
<1>16. Catalogued'
  BY DEF Catalogued, Listed, TypeOK, StagesFollow, GenerationWritten, Captures, Manifested, Now
<1>17. TokensRecorded'
  BY DEF TokensRecorded, TypeOK, HistoryTyped, StagesFollow
<1>18. CurrentIsReadable'
  BY DEF CurrentIsReadable, Readable, Manifested, Now
<1> QED
  BY <1>5, <1>6, <1>7, <1>8, <1>9, <1>10, <1>11, <1>12, <1>13, <1>14, <1>15, <1>16, <1>17, <1>18
  DEF ServiceInv

LEMMA SettleKeeps == ASSUME ServiceInv, Settle PROVE ServiceInv'
<1>1. /\ TypeOK /\ HistoryTyped /\ StagesFollow /\ UnusedIsEmpty /\ ManifestsReserved
      /\ GenerationWritten /\ Captures
      /\ Unshelves /\ Rewrites /\ Deletes /\ AllKept /\ Catalogued /\ TokensRecorded
      /\ CurrentIsReadable
  BY DEF ServiceInv
<1>2. UNCHANGED <<local, recovery, objects, dirs, manifests, current, catalog, journal, used,
                resuming, wrong, touched, doomed, cancelled, made>>
  BY DEF Settle, Return, tree, store, history
<1> USE DEF OpFits, KindFits
<1>o. op # Idle /\ OpFits
  BY <1>1, OpTyped DEF Settle, At
<1>k. KindFits
  BY <1>1, KindAt DEF Settle, At
<1> USE <1>1, <1>2, <1>o, <1>k, ServiceAssumption DEF Settle, At, Return, Capturing, Deleting,
  Writing
<1>3. mark' \in [Shelf -> [Gen -> {"none", "pending", "settled"}]]
  BY DEF TypeOK, HistoryTyped, StagesFollow, GenerationWritten, Unshelves, Manifested, Now
<1>4. op' \in Op \cup {Idle}
  BY
  DEF TypeOK, HistoryTyped, StagesFollow, GenerationWritten, Unshelves, Manifested, Now, Op, Kind,
      Manifest
<1>5. TypeOK'
  BY <1>3, <1>4 DEF TypeOK
<1>6. HistoryTyped'
  BY DEF HistoryTyped
<1>7. StagesFollow'
  BY DEF StagesFollow, TypeOK, Deletes, GenerationWritten, Captures
<1>8. UnusedIsEmpty'
  BY DEF UnusedIsEmpty
<1>9. ManifestsReserved'
  BY DEF ManifestsReserved
<1>10. GenerationWritten'
  BY
  DEF GenerationWritten, TypeOK, CurrentIsReadable, Readable, Fresh, StagesFollow, UnusedIsEmpty,
      Captures, Unshelves, Rewrites, Manifested, Now
<1>11. Captures'
  BY DEF Captures, TypeOK, StagesFollow, UnusedIsEmpty, GenerationWritten, Deletes, Manifested, Now
<1>12. Unshelves'
  BY DEF Unshelves, TypeOK, StagesFollow, GenerationWritten, HistoryTyped, Manifested, Now
<1>13. Rewrites'
  BY DEF Rewrites, TypeOK, StagesFollow, GenerationWritten, Manifested, Now
<1>14. Deletes'
  BY DEF Deletes, TypeOK, StagesFollow, UnusedIsEmpty, Captures, Ghost, Manifested, Now
<1>15. AllKept'
  BY DEF AllKept, Kept, Manifested, Now
<1>16. Catalogued'
  BY DEF Catalogued, Listed, TypeOK, StagesFollow, GenerationWritten, Captures, Manifested, Now
<1>17. TokensRecorded'
  BY DEF TokensRecorded, TypeOK, HistoryTyped, StagesFollow
<1>18. CurrentIsReadable'
  BY DEF CurrentIsReadable, Readable, Manifested, Now
<1> QED
  BY <1>5, <1>6, <1>7, <1>8, <1>9, <1>10, <1>11, <1>12, <1>13, <1>14, <1>15, <1>16, <1>17, <1>18
  DEF ServiceInv

LEMMA RemoveKeeps == ASSUME ServiceInv, Remove PROVE ServiceInv'
<1>1. /\ TypeOK /\ HistoryTyped /\ StagesFollow /\ UnusedIsEmpty /\ ManifestsReserved
      /\ GenerationWritten /\ Captures
      /\ Unshelves /\ Rewrites /\ Deletes /\ AllKept /\ Catalogued /\ TokensRecorded
      /\ CurrentIsReadable
  BY DEF ServiceInv
<1>2. UNCHANGED <<local, recovery, dirs, manifests, current, catalog, journal, mark, used,
                resuming, wrong, cancelled, made>>
  BY DEF Remove, Return, tree, store, history
<1> USE DEF OpFits, KindFits
<1>o. op # Idle /\ OpFits
  BY <1>1, OpTyped DEF Remove, At
<1>k. KindFits
  BY <1>1, KindAt DEF Remove, At
<1>a. /\ op.shelf \in Shelf /\ pc = "remove" /\ op.kind \in Deleting
      /\ Manifested(op.shelf) => Now(op.shelf).held \subseteq Change
  BY <1>1, <1>o, <1>k, NowIs DEF Remove, At
<1>b. \/ /\ Manifested(op.shelf) /\ objects' = [objects EXCEPT ![op.shelf] = {}]
         /\ doomed' = doomed \cup {op.shelf} /\ pc' = "removing" /\ op' = op
         /\ touched' = IF op.kind = "delete" THEN touched \cup Now(op.shelf).held ELSE touched
      \/ /\ op' = Idle /\ pc' = "idle" /\ UNCHANGED <<objects, doomed, touched>>
  BY DEF Remove, Return
<1>c. Manifested(op.shelf) => current[op.shelf] # 0
  BY DEF Manifested
<1>d. touched' \subseteq Change /\ doomed' \subseteq Shelf /\ touched \subseteq touched'
        /\ doomed \subseteq doomed'
  BY <1>1, <1>a, <1>b DEF HistoryTyped
<1> USE <1>1, <1>2, <1>o, <1>k, <1>a, <1>b, <1>c, <1>d, ServiceAssumption DEF Capturing, Deleting,
  Writing
<1>3. objects' \in [Shelf -> SUBSET Change]
  BY DEF TypeOK, HistoryTyped, StagesFollow, GenerationWritten, Unshelves, Manifested, Now
<1>4. op' \in Op \cup {Idle}
  BY
  DEF TypeOK, HistoryTyped, StagesFollow, GenerationWritten, Unshelves, Manifested, Now, Op, Kind,
      Manifest
<1>5. TypeOK'
  BY <1>3, <1>4 DEF TypeOK
<1>6. HistoryTyped'
  BY DEF HistoryTyped, TypeOK, UnusedIsEmpty
<1>7. StagesFollow'
  BY DEF StagesFollow, TypeOK, Deletes, GenerationWritten, Captures
<1>8. UnusedIsEmpty'
  BY DEF UnusedIsEmpty, TypeOK, StagesFollow, Captures, Deletes, Manifested, Now
<1>9. ManifestsReserved'
  BY DEF ManifestsReserved
<1>10. GenerationWritten'
  BY
  DEF GenerationWritten, TypeOK, CurrentIsReadable, Readable, Fresh, StagesFollow, UnusedIsEmpty,
      Captures, Unshelves, Rewrites, Manifested, Now
<1>11. Captures'
  BY DEF Captures, TypeOK, StagesFollow, UnusedIsEmpty, GenerationWritten, Deletes, Manifested, Now
<1>12. Unshelves'
  BY DEF Unshelves, TypeOK, StagesFollow, GenerationWritten, HistoryTyped, Manifested, Now
<1>13. Rewrites'
  BY DEF Rewrites, TypeOK, StagesFollow, GenerationWritten, Manifested, Now
<1>14. Deletes'
  BY DEF Deletes, TypeOK, StagesFollow, UnusedIsEmpty, Captures, Ghost, Manifested, Now
<1>15. AllKept'
  <2> SUFFICES ASSUME NEW c \in Change \ touched' PROVE Kept(c)'
    BY DEF AllKept
  <2>1. c \in Change /\ c \notin touched /\ Kept(c)
    BY DEF AllKept
  <2>5. ASSUME NEW s \in Shelf, s = op.shelf, s \notin doomed, s \in doomed', journal[s] = "shelved"
        PROVE  c \notin Now(s).held \/ c \in Now(s).applied
    <3>1. op.kind \in {"delete", "cleanUp"} /\ Manifested(op.shelf)
      BY <1>a, <1>b, <2>5 DEF Deletes
    <3> QED
      BY <1>a, <1>b, <2>5, <3>1 DEF Deletes, Ghost
  <2>6. \A s \in Shelf : Now(s)' = Now(s)
    BY DEF Now
  <2>2. CASE local[c] \in {"mine", "merged"}
    BY <2>2 DEF Kept
  <2>3. ASSUME NEW s \in Shelf \ doomed, current[s] # 0, journal[s] = "shelved",
               c \in Now(s).held \ Now(s).applied
        PROVE  Kept(c)'
    BY <2>1, <2>3, <2>5, <2>6 DEF Kept
  <2>4. ASSUME NEW s \in Shelf, journal[s] \in {"pending", "ghost"},
               recovery[s][c] \in {"mine", "merged"}
        PROVE  Kept(c)'
    BY <2>4 DEF Kept
  <2> QED
    BY <2>1, <2>2, <2>3, <2>4 DEF Kept
<1>16. Catalogued'
  BY DEF Catalogued, Listed, TypeOK, StagesFollow, GenerationWritten, Captures, Manifested, Now
<1>17. TokensRecorded'
  BY DEF TokensRecorded, TypeOK, HistoryTyped, StagesFollow
<1>18. CurrentIsReadable'
  BY
  DEF CurrentIsReadable, Readable, TypeOK, StagesFollow, GenerationWritten, Captures, HistoryTyped,
      Deletes, Manifested, Now
<1> QED
  BY <1>5, <1>6, <1>7, <1>8, <1>9, <1>10, <1>11, <1>12, <1>13, <1>14, <1>15, <1>16, <1>17, <1>18
  DEF ServiceInv

LEMMA RemoveRestKeeps == ASSUME ServiceInv, RemoveRest PROVE ServiceInv'
<1>1. /\ TypeOK /\ HistoryTyped /\ StagesFollow /\ UnusedIsEmpty /\ ManifestsReserved
      /\ GenerationWritten /\ Captures
      /\ Unshelves /\ Rewrites /\ Deletes /\ AllKept /\ Catalogued /\ TokensRecorded
      /\ CurrentIsReadable
  BY DEF ServiceInv
<1>2. UNCHANGED <<local, recovery, objects, catalog, journal, mark, used, op, resuming, wrong,
                touched, doomed, cancelled, made>>
  BY DEF RemoveRest, tree, store, history
<1> USE DEF OpFits, KindFits
<1>o. op # Idle /\ OpFits
  BY <1>1, OpTyped DEF RemoveRest, At
<1>k. KindFits
  BY <1>1, KindAt DEF RemoveRest, At
<1> USE <1>1, <1>2, <1>o, <1>k, ServiceAssumption DEF RemoveRest, At, Capturing, Deleting, Writing
<1>3. dirs' \in [Shelf -> SUBSET Gen]
  BY DEF TypeOK, HistoryTyped, StagesFollow, GenerationWritten, Unshelves, Manifested, Now
<1>4. manifests' \in [Shelf -> [Gen -> Manifest \cup {None}]]
  BY DEF TypeOK, HistoryTyped, StagesFollow, GenerationWritten, Unshelves, Manifested, Now, Manifest
<1>5. current' \in [Shelf -> 0..MaxGen]
  BY DEF TypeOK, HistoryTyped, StagesFollow, GenerationWritten, Unshelves, Manifested, Now
<1>6. TypeOK'
  BY <1>3, <1>4, <1>5 DEF TypeOK
<1>7. HistoryTyped'
  BY DEF HistoryTyped
<1>8. StagesFollow'
  BY DEF StagesFollow, TypeOK, Deletes, GenerationWritten, Captures
<1>9. UnusedIsEmpty'
  BY DEF UnusedIsEmpty, TypeOK, StagesFollow, Captures, Deletes, Manifested, Now
<1>10. ManifestsReserved'
  BY DEF ManifestsReserved, TypeOK
<1>11. GenerationWritten'
  BY
  DEF GenerationWritten, TypeOK, CurrentIsReadable, Readable, Fresh, StagesFollow, UnusedIsEmpty,
      Captures, Unshelves, Rewrites, Manifested, Now
<1>12. Captures'
  BY DEF Captures, TypeOK, StagesFollow, UnusedIsEmpty, GenerationWritten, Deletes, Manifested, Now
<1>13. Unshelves'
  BY DEF Unshelves, TypeOK, StagesFollow, GenerationWritten, HistoryTyped, Manifested, Now
<1>14. Rewrites'
  BY DEF Rewrites, TypeOK, StagesFollow, GenerationWritten, Manifested, Now
<1>15. Deletes'
  BY DEF Deletes, TypeOK, StagesFollow, UnusedIsEmpty, Captures, Ghost, Manifested, Now
<1>16. AllKept'
  <2> SUFFICES ASSUME NEW c \in Change \ touched' PROVE Kept(c)'
    BY DEF AllKept
  <2>1. c \in Change /\ c \notin touched /\ Kept(c)
    BY DEF AllKept
  <2>5. /\ op.shelf \in doomed /\ \A s \in Shelf : s # op.shelf =>
             current'[s] = current[s] /\ manifests'[s] = manifests[s]
    BY DEF Deletes, TypeOK
  <2>2. CASE local[c] \in {"mine", "merged"}
    BY <2>2 DEF Kept
  <2>3. ASSUME NEW s \in Shelf \ doomed, current[s] # 0, journal[s] = "shelved",
               c \in Now(s).held \ Now(s).applied
        PROVE  Kept(c)'
    BY <2>3, <2>5 DEF Kept, Now
  <2>4. ASSUME NEW s \in Shelf, journal[s] \in {"pending", "ghost"},
               recovery[s][c] \in {"mine", "merged"}
        PROVE  Kept(c)'
    BY <2>4 DEF Kept
  <2> QED
    BY <2>1, <2>2, <2>3, <2>4 DEF Kept
<1>17. Catalogued'
  BY DEF Catalogued, Listed, TypeOK, StagesFollow, GenerationWritten, Captures, Manifested, Now
<1>18. TokensRecorded'
  BY DEF TokensRecorded
<1>19. CurrentIsReadable'
  BY
  DEF CurrentIsReadable, Readable, TypeOK, StagesFollow, GenerationWritten, Captures, HistoryTyped,
      Deletes, Manifested, Now
<1> QED
  BY <1>6, <1>7, <1>8, <1>9, <1>10, <1>11, <1>12, <1>13, <1>14, <1>15, <1>16, <1>17, <1>18, <1>19
  DEF ServiceInv

LEMMA UnlistKeeps == ASSUME ServiceInv, Unlist PROVE ServiceInv'
<1>1. /\ TypeOK /\ HistoryTyped /\ StagesFollow /\ UnusedIsEmpty /\ ManifestsReserved
      /\ GenerationWritten /\ Captures
      /\ Unshelves /\ Rewrites /\ Deletes /\ AllKept /\ Catalogued /\ TokensRecorded
      /\ CurrentIsReadable
  BY DEF ServiceInv
<1>2. UNCHANGED <<local, recovery, objects, dirs, manifests, current, journal, mark, used,
                resuming, wrong, touched, doomed, cancelled, made>>
  BY DEF Unlist, Return, tree, store, history
<1> USE DEF OpFits, KindFits
<1>o. op # Idle /\ OpFits
  BY <1>1, OpTyped DEF Unlist, At
<1>k. KindFits
  BY <1>1, KindAt DEF Unlist, At
<1> USE <1>1, <1>2, <1>o, <1>k, ServiceAssumption DEF Unlist, At, Return, Capturing, Deleting,
  Writing
<1>3. catalog' \in [shelves : SUBSET Shelf, ledger : [Token -> Shelf \cup {None}]]
  BY DEF TypeOK, HistoryTyped, StagesFollow, GenerationWritten, Unshelves, Manifested, Now
<1>4. op' \in Op \cup {Idle}
  BY
  DEF TypeOK, HistoryTyped, StagesFollow, GenerationWritten, Unshelves, Manifested, Now, Op, Kind,
      Manifest
<1>5. TypeOK'
  BY <1>3, <1>4 DEF TypeOK
<1>6. HistoryTyped'
  BY DEF HistoryTyped
<1>7. StagesFollow'
  BY DEF StagesFollow, TypeOK, Deletes, GenerationWritten, Captures
<1>8. UnusedIsEmpty'
  BY DEF UnusedIsEmpty
<1>9. ManifestsReserved'
  BY DEF ManifestsReserved
<1>10. GenerationWritten'
  BY
  DEF GenerationWritten, TypeOK, CurrentIsReadable, Readable, Fresh, StagesFollow, UnusedIsEmpty,
      Captures, Unshelves, Rewrites, Manifested, Now
<1>11. Captures'
  BY DEF Captures, TypeOK, StagesFollow, UnusedIsEmpty, GenerationWritten, Deletes, Manifested, Now
<1>12. Unshelves'
  BY DEF Unshelves, TypeOK, StagesFollow, GenerationWritten, HistoryTyped, Manifested, Now
<1>13. Rewrites'
  BY DEF Rewrites, TypeOK, StagesFollow, GenerationWritten, Manifested, Now
<1>14. Deletes'
  BY DEF Deletes, TypeOK, StagesFollow, UnusedIsEmpty, Captures, Ghost, Manifested, Now
<1>15. AllKept'
  BY DEF AllKept, Kept, Manifested, Now
<1>16. Catalogued'
  BY DEF Catalogued, Listed, TypeOK, StagesFollow, GenerationWritten, Captures, Manifested, Now
<1>17. TokensRecorded'
  BY DEF TokensRecorded, TypeOK, HistoryTyped, StagesFollow
<1>18. CurrentIsReadable'
  BY DEF CurrentIsReadable, Readable, Manifested, Now
<1> QED
  BY <1>5, <1>6, <1>7, <1>8, <1>9, <1>10, <1>11, <1>12, <1>13, <1>14, <1>15, <1>16, <1>17, <1>18
  DEF ServiceInv

LEMMA ReadLinksKeeps == ASSUME NEW w \in Window, ServiceInv, ReadLinks(w) PROVE ServiceInv'
<1>1. /\ TypeOK /\ HistoryTyped /\ StagesFollow /\ UnusedIsEmpty /\ ManifestsReserved
      /\ GenerationWritten /\ Captures
      /\ Unshelves /\ Rewrites /\ Deletes /\ AllKept /\ Catalogued /\ TokensRecorded
      /\ CurrentIsReadable
  BY DEF ServiceInv
<1>2. UNCHANGED <<local, recovery, objects, dirs, manifests, current, catalog, journal, mark,
                used, op, pc, wrong, touched, doomed, cancelled, made>>
  BY DEF ReadLinks, Recovering, tree, store, history
<1> USE <1>1, <1>2, ServiceAssumption DEF ReadLinks, Recovering, Pending, Capturing, Deleting,
  Writing
<1>3. resuming' \in [Window -> [at : {"rest", "read", "run", "drop"}, links : SUBSET Shelf,
                              left : SUBSET Shelf]]
  BY DEF TypeOK
<1>4. TypeOK'
  BY <1>3 DEF TypeOK
<1>5. HistoryTyped'
  BY DEF HistoryTyped
<1>6. StagesFollow'
  BY DEF StagesFollow, TypeOK, Deletes, GenerationWritten, Captures
<1>7. UnusedIsEmpty'
  BY DEF UnusedIsEmpty
<1>8. ManifestsReserved'
  BY DEF ManifestsReserved
<1>9. GenerationWritten'
  BY DEF GenerationWritten, Fresh, Manifested, Now
<1>10. Captures'
  BY DEF Captures, Manifested, Now
<1>11. Unshelves'
  BY DEF Unshelves, Manifested, Now
<1>12. Rewrites'
  BY DEF Rewrites, Manifested, Now
<1>13. Deletes'
  BY DEF Deletes, TypeOK, StagesFollow, UnusedIsEmpty, Captures, Ghost, Manifested, Now
<1>14. AllKept'
  BY DEF AllKept, Kept, Manifested, Now
<1>15. Catalogued'
  BY DEF Catalogued, Listed, Manifested, Now
<1>16. TokensRecorded'
  BY DEF TokensRecorded
<1>17. CurrentIsReadable'
  BY DEF CurrentIsReadable, Readable, Manifested, Now
<1> QED
  BY <1>4, <1>5, <1>6, <1>7, <1>8, <1>9, <1>10, <1>11, <1>12, <1>13, <1>14, <1>15, <1>16, <1>17
  DEF ServiceInv

LEMMA BeginResumeKeeps == ASSUME NEW w \in Window, ServiceInv, BeginResume(w) PROVE ServiceInv'
<1>1. /\ TypeOK /\ HistoryTyped /\ StagesFollow /\ UnusedIsEmpty /\ ManifestsReserved
      /\ GenerationWritten /\ Captures
      /\ Unshelves /\ Rewrites /\ Deletes /\ AllKept /\ Catalogued /\ TokensRecorded
      /\ CurrentIsReadable
  BY DEF ServiceInv
<1>2. UNCHANGED <<local, recovery, objects, dirs, manifests, current, catalog, journal, mark,
                used, wrong, touched, doomed, cancelled, made>>
  BY DEF BeginResume, Start, Recovering, tree, store, history
<1>a. /\ op = Idle /\ pc = "idle" /\ pc' = "journals"
      /\ resuming' = [resuming EXCEPT ![w] = [at |-> "run", links |-> resuming[w].links,
           left |-> {}]]
  BY <1>1 DEF BeginResume, Free, StagesFollow, Recovering
<1>b. /\ op' \in Op /\ op' # Idle /\ op'.kind = "resume" /\ op'.shelf = None /\ op'.token = None
           /\ op'.by = w
  <2>1. op' = [kind |-> "resume", by |-> w, shelf |-> None, token |-> None, todo |-> {},
          done |-> {},
              remove |-> FALSE, next |-> None]
    BY DEF BeginResume, Start
  <2>2. op' \in Op
    BY <2>1 DEF Op, Kind
  <2> QED
    BY <2>1, <2>2, OpIsNotIdle
<1> USE <1>1, <1>2, <1>a, <1>b, ServiceAssumption DEF Capturing, Deleting, Writing
<1>3. op' \in Op \cup {Idle}
  BY
  DEF TypeOK, HistoryTyped, StagesFollow, GenerationWritten, Unshelves, Manifested, Now, Op, Kind,
      Manifest
<1>4. resuming' \in [Window -> [at : {"rest", "read", "run", "drop"}, links : SUBSET Shelf,
                              left : SUBSET Shelf]]
  BY DEF TypeOK, HistoryTyped, StagesFollow, GenerationWritten, Unshelves, Manifested, Now
<1>5. TypeOK'
  BY <1>3, <1>4 DEF TypeOK
<1>6. HistoryTyped'
  BY DEF HistoryTyped
<1>7. StagesFollow'
  BY DEF StagesFollow, TypeOK, Deletes, GenerationWritten, Captures
<1>8. UnusedIsEmpty'
  BY DEF UnusedIsEmpty
<1>9. ManifestsReserved'
  BY DEF ManifestsReserved
<1>10. GenerationWritten'
  BY
  DEF GenerationWritten, TypeOK, CurrentIsReadable, Readable, Fresh, StagesFollow, UnusedIsEmpty,
      Captures, Unshelves, Rewrites, Manifested, Now
<1>11. Captures'
  BY DEF Captures, TypeOK, StagesFollow, UnusedIsEmpty, GenerationWritten, Deletes, Manifested, Now
<1>12. Unshelves'
  BY DEF Unshelves, TypeOK, StagesFollow, GenerationWritten, HistoryTyped, Manifested, Now
<1>13. Rewrites'
  BY DEF Rewrites, TypeOK, StagesFollow, GenerationWritten, Manifested, Now
<1>14. Deletes'
  BY DEF Deletes, TypeOK, StagesFollow, UnusedIsEmpty, Captures, Ghost, Manifested, Now
<1>15. AllKept'
  BY DEF AllKept, Kept, Manifested, Now
<1>16. Catalogued'
  BY DEF Catalogued, Listed, TypeOK, StagesFollow, GenerationWritten, Captures, Manifested, Now
<1>17. TokensRecorded'
  BY DEF TokensRecorded, TypeOK, HistoryTyped, StagesFollow
<1>18. CurrentIsReadable'
  BY DEF CurrentIsReadable, Readable, Manifested, Now
<1> QED
  BY <1>5, <1>6, <1>7, <1>8, <1>9, <1>10, <1>11, <1>12, <1>13, <1>14, <1>15, <1>16, <1>17, <1>18
  DEF ServiceInv

LEMMA ResumeRestoreKeeps == ASSUME ServiceInv, ResumeRestore PROVE ServiceInv'
<1>1. /\ TypeOK /\ HistoryTyped /\ StagesFollow /\ UnusedIsEmpty /\ ManifestsReserved
      /\ GenerationWritten /\ Captures
      /\ Unshelves /\ Rewrites /\ Deletes /\ AllKept /\ Catalogued /\ TokensRecorded
      /\ CurrentIsReadable
  BY DEF ServiceInv
<1>2. UNCHANGED <<objects, dirs, manifests, current, catalog, journal, mark, used, resuming,
                wrong, touched, doomed, cancelled, made>>
  BY DEF ResumeRestore, Restore, tree, store, history
<1> USE DEF OpFits, KindFits
<1>o. op # Idle /\ OpFits
  BY <1>1, OpTyped DEF ResumeRestore, At
<1>k. KindFits
  BY <1>1, KindAt DEF ResumeRestore, At
<1>a. Min(Pending) \in Pending
  <2>1. Pending \in SUBSET Nat /\ Pending # {}
    BY ServiceAssumption DEF ResumeRestore, Pending, Shelf
  <2> QED
    BY <2>1, MinIs
<1>b. Min(Pending) \in Shelf /\ journal[Min(Pending)] = "pending"
  BY <1>a DEF Pending
<1>c. /\ pc = "journals" /\ pc' = "journaled" /\ op.kind = "resume"
           /\ op' = [op EXCEPT !.shelf = Min(Pending)]
      /\ local' = [c \in Change |-> IF c \in Restorable(Min(Pending)) THEN recovery[Min(Pending)][c] ELSE local[c]]
      /\ recovery' = [recovery EXCEPT ![Min(Pending)] =
           [c \in Change |-> IF c \in Restorable(Min(Pending)) THEN "none" ELSE @[c]]]
  BY <1>k DEF ResumeRestore, At, Restore
<1>d. /\ op' \in Op /\ op' # Idle /\ op'.kind = op.kind /\ op'.shelf = Min(Pending)
           /\ op'.token = op.token
      /\ op'.by = op.by
  <2>1. op' \in Op
    BY <1>b, <1>c, <1>o, OpWith
  <2> QED
    BY <1>c, <1>o, <2>1, OpIsNotIdle DEF Op
<1> USE <1>1, <1>2, <1>o, <1>k, <1>a, <1>b, <1>c, <1>d, ServiceAssumption DEF Capturing, Deleting,
  Writing
<1>3. local' \in [Change -> {"clean", "mine", "edited", "merged"}]
  BY DEF TypeOK, Restorable
<1>4. recovery' \in [Shelf -> [Change -> {"none", "mine", "edited", "merged"}]]
  BY DEF TypeOK, Restorable
<1>5. op' \in Op \cup {Idle}
  BY
  DEF TypeOK, HistoryTyped, StagesFollow, GenerationWritten, Unshelves, Manifested, Now, Op, Kind,
      Manifest
<1>6. TypeOK'
  BY <1>3, <1>4, <1>5 DEF TypeOK
<1>7. HistoryTyped'
  BY DEF HistoryTyped
<1>8. StagesFollow'
  BY DEF StagesFollow, TypeOK, Deletes, GenerationWritten, Captures
<1>9. UnusedIsEmpty'
  BY DEF UnusedIsEmpty, TypeOK, StagesFollow, Captures, Deletes, Manifested, Now, Restorable
<1>10. ManifestsReserved'
  BY DEF ManifestsReserved
<1>11. GenerationWritten'
  BY
  DEF GenerationWritten, TypeOK, CurrentIsReadable, Readable, Fresh, StagesFollow, UnusedIsEmpty,
      Captures, Unshelves, Rewrites, Manifested, Now
<1>12. Captures'
  BY
  DEF Captures, TypeOK, StagesFollow, UnusedIsEmpty, GenerationWritten, Deletes, Manifested, Now,
      Restorable
<1>13. Unshelves'
  BY DEF Unshelves, TypeOK, StagesFollow, GenerationWritten, HistoryTyped, Manifested, Now
<1>14. Rewrites'
  BY DEF Rewrites, TypeOK, StagesFollow, GenerationWritten, Manifested, Now
<1>15. Deletes'
  BY DEF Deletes, TypeOK, StagesFollow, UnusedIsEmpty, Captures, Ghost, Manifested, Now
<1>16. AllKept'
  BY
  DEF AllKept, Kept, TypeOK, StagesFollow, Captures, Unshelves, Rewrites, Deletes,
      GenerationWritten, HistoryTyped, Manifested, Now, Restorable
<1>17. Catalogued'
  BY DEF Catalogued, Listed, TypeOK, StagesFollow, GenerationWritten, Captures, Manifested, Now
<1>18. TokensRecorded'
  BY DEF TokensRecorded, TypeOK, HistoryTyped, StagesFollow
<1>19. CurrentIsReadable'
  BY DEF CurrentIsReadable, Readable, Manifested, Now
<1> QED
  BY <1>6, <1>7, <1>8, <1>9, <1>10, <1>11, <1>12, <1>13, <1>14, <1>15, <1>16, <1>17, <1>18, <1>19
  DEF ServiceInv

LEMMA ResumeConcludeKeeps == ASSUME ServiceInv, ResumeConclude PROVE ServiceInv'
<1>1. /\ TypeOK /\ HistoryTyped /\ StagesFollow /\ UnusedIsEmpty /\ ManifestsReserved
      /\ GenerationWritten /\ Captures
      /\ Unshelves /\ Rewrites /\ Deletes /\ AllKept /\ Catalogued /\ TokensRecorded
      /\ CurrentIsReadable
  BY DEF ServiceInv
<1>2. UNCHANGED <<local, recovery, objects, dirs, manifests, current, catalog, mark, used, op,
                wrong, touched, doomed, made>>
  BY DEF ResumeConclude, Recovering, tree, store, history
<1> USE DEF OpFits, KindFits
<1>o. op # Idle /\ OpFits
  BY <1>1, OpTyped DEF ResumeConclude, At
<1>k. KindFits
  BY <1>1, KindAt DEF ResumeConclude, At
<1>a. /\ op.shelf \in Shelf /\ pc = "journaled" /\ pc' = "journals" /\ op.kind = "resume"
           /\ op.by \in Window
      /\ journal[op.shelf] = "pending" /\ resuming[op.by] \in [at : {"rest", "read", "run", "drop"},
           links : SUBSET Shelf, left : SUBSET Shelf]
  BY <1>1, <1>o, <1>k DEF ResumeConclude, At, StagesFollow, TypeOK
<1>b. op.shelf <= used
  <2>1. ~(op.shelf > used)
    BY <1>1, <1>a DEF UnusedIsEmpty
  <2>2. op.shelf \in Nat /\ used \in Nat
    BY <1>1, <1>a, ServiceAssumption DEF TypeOK, Shelf
  <2> QED
    BY <2>1, <2>2
<1>c. \/ /\ \A c \in Change : recovery[op.shelf][c] = "none"
         /\ journal' = [journal EXCEPT ![op.shelf] = "none"]
         /\ resuming' = [resuming EXCEPT ![op.by] =
              [at |-> "run", links |-> resuming[op.by].links,
                left |-> resuming[op.by].left \cup {op.shelf}]]
      \/ journal' = [journal EXCEPT ![op.shelf] = "ghost"] /\ resuming' = resuming
  BY DEF ResumeConclude, Restored, Recovering
<1>d. /\ journal'[op.shelf] \in {"none", "ghost"} /\ \A s \in Shelf : s # op.shelf =>
           journal'[s] = journal[s]
      /\ journal'[op.shelf] = "none" => \A c \in Change : recovery[op.shelf][c] = "none"
  BY <1>1, <1>a, <1>c DEF TypeOK
<1>e. \A w \in Window :
        /\ resuming'[w].at = "drop" =>
             resuming[w].at = "drop" /\ resuming'[w].left = resuming[w].left
        /\ \A s \in resuming'[w].left : s \in resuming[w].left \/ (s = op.shelf
             /\ journal'[s] = "none")
  <2> SUFFICES ASSUME NEW w \in Window
               PROVE  /\ resuming'[w].at = "drop" =>
                           resuming[w].at = "drop" /\ resuming'[w].left = resuming[w].left
                      /\ \A s \in resuming'[w].left : s \in resuming[w].left \/ (s = op.shelf
                           /\ journal'[s] = "none")
    OBVIOUS
  <2>1. resuming \in [Window -> [at : {"rest", "read", "run", "drop"}, links : SUBSET Shelf,
          left : SUBSET Shelf]]
        /\ journal \in [Shelf -> {"none", "pending", "shelved", "ghost"}]
    BY <1>1 DEF TypeOK
  <2> QED
    BY <1>a, <1>c, <2>1
<1>f. resuming' \in [Window -> [at : {"rest", "read", "run", "drop"}, links : SUBSET Shelf,
                              left : SUBSET Shelf]]
  <2> DEFINE r == [at |-> "run", links |-> resuming[op.by].links,
    left |-> resuming[op.by].left \cup {op.shelf}]
  <2>1. r \in [at : {"rest", "read", "run", "drop"}, links : SUBSET Shelf, left : SUBSET Shelf]
    BY <1>a
  <2>2. resuming' = [resuming EXCEPT ![op.by] = r] \/ resuming' = resuming
    BY <1>c
  <2>3. resuming \in [Window -> [at : {"rest", "read", "run", "drop"}, links : SUBSET Shelf,
          left : SUBSET Shelf]]
    BY <1>1 DEF TypeOK
  <2> HIDE DEF r
  <2> QED
    BY <2>1, <2>2, <2>3
<1>g. journal' \in [Shelf -> {"none", "pending", "shelved", "ghost"}]
  <2>1. journal \in [Shelf -> {"none", "pending", "shelved", "ghost"}]
    BY <1>1 DEF TypeOK
  <2>2. \/ journal' = [journal EXCEPT ![op.shelf] = "none"]
        \/ journal' = [journal EXCEPT ![op.shelf] = "ghost"]
    BY <1>c
  <2> QED
    BY <1>a, <2>1, <2>2
<1> USE <1>1, <1>2, <1>o, <1>k, <1>a, <1>b, <1>c, <1>d, <1>e, <1>f, <1>g,
  ServiceAssumption DEF Capturing, Deleting, Writing
<1>3. journal' \in [Shelf -> {"none", "pending", "shelved", "ghost"}]
  BY <1>g
<1>4. resuming' \in [Window -> [at : {"rest", "read", "run", "drop"}, links : SUBSET Shelf,
                              left : SUBSET Shelf]]
  BY <1>f
<1>5. TypeOK'
  BY <1>3, <1>4 DEF TypeOK
<1>6. HistoryTyped'
  BY DEF HistoryTyped
<1>7. StagesFollow'
  BY DEF StagesFollow
<1>8. UnusedIsEmpty'
  BY DEF UnusedIsEmpty, TypeOK, StagesFollow, Captures, Deletes, Manifested, Now
<1>9. ManifestsReserved'
  BY DEF ManifestsReserved
<1>10. GenerationWritten'
  BY
  DEF GenerationWritten, TypeOK, CurrentIsReadable, Readable, Fresh, StagesFollow, UnusedIsEmpty,
      Captures, Unshelves, Rewrites, Manifested, Now
<1>11. Captures'
  BY DEF Captures, TypeOK, StagesFollow, UnusedIsEmpty, GenerationWritten, Deletes, Manifested, Now
<1>12. Unshelves'
  BY DEF Unshelves, TypeOK, StagesFollow, GenerationWritten, HistoryTyped, Manifested, Now
<1>13. Rewrites'
  BY DEF Rewrites, TypeOK, StagesFollow, GenerationWritten, Manifested, Now
<1>14. Deletes'
  <2>1. \A w \in Window : \A s \in resuming'[w].left : journal'[s] = "none" /\ s <= used
    BY DEF Deletes, TypeOK
  <2> QED
    BY <2>1 DEF Deletes
<1>15. AllKept'
  <2> SUFFICES ASSUME NEW c \in Change \ touched' PROVE Kept(c)'
    BY DEF AllKept
  <2>1. c \in Change /\ c \notin touched /\ Kept(c)
    BY DEF AllKept
  <2>2. CASE local[c] \in {"mine", "merged"}
    BY <2>2 DEF Kept
  <2>3. ASSUME NEW s \in Shelf \ doomed, current[s] # 0, journal[s] = "shelved",
               c \in Now(s).held \ Now(s).applied
        PROVE  Kept(c)'
    BY <2>3 DEF Kept, Now
  <2>4. ASSUME NEW s \in Shelf, journal[s] \in {"pending", "ghost"},
               recovery[s][c] \in {"mine", "merged"}
        PROVE  Kept(c)'
    BY <2>4 DEF Kept
  <2> QED
    BY <2>1, <2>2, <2>3, <2>4 DEF Kept
<1>16. Catalogued'
  BY DEF Catalogued, Listed, TypeOK, StagesFollow, GenerationWritten, Captures, Manifested, Now
<1>17. TokensRecorded'
  BY DEF TokensRecorded
<1>18. CurrentIsReadable'
  BY DEF CurrentIsReadable, Readable, Manifested, Now
<1> QED
  BY <1>5, <1>6, <1>7, <1>8, <1>9, <1>10, <1>11, <1>12, <1>13, <1>14, <1>15, <1>16, <1>17, <1>18
  DEF ServiceInv

LEMMA EndResumeKeeps == ASSUME ServiceInv, EndResume PROVE ServiceInv'
<1>1. /\ TypeOK /\ HistoryTyped /\ StagesFollow /\ UnusedIsEmpty /\ ManifestsReserved
      /\ GenerationWritten /\ Captures
      /\ Unshelves /\ Rewrites /\ Deletes /\ AllKept /\ Catalogued /\ TokensRecorded
      /\ CurrentIsReadable
  BY DEF ServiceInv
<1>2. UNCHANGED <<local, recovery, objects, dirs, manifests, current, catalog, journal, mark,
                used, wrong, touched, doomed, cancelled, made>>
  BY DEF EndResume, Return, tree, store, history
<1> USE DEF OpFits, KindFits
<1>o. op # Idle /\ OpFits
  BY <1>1, OpTyped DEF EndResume, At
<1>k. KindFits
  BY <1>1, KindAt DEF EndResume, At
<1> USE <1>1, <1>2, <1>o, <1>k, ServiceAssumption DEF EndResume, At, Return, Pending, AtRest,
  Capturing, Deleting, Writing
<1>3. op' \in Op \cup {Idle}
  BY
  DEF TypeOK, HistoryTyped, StagesFollow, GenerationWritten, Unshelves, Manifested, Now, Op, Kind,
      Manifest
<1>4. resuming' \in [Window -> [at : {"rest", "read", "run", "drop"}, links : SUBSET Shelf,
                              left : SUBSET Shelf]]
  BY DEF TypeOK, HistoryTyped, StagesFollow, GenerationWritten, Unshelves, Manifested, Now
<1>5. TypeOK'
  BY <1>3, <1>4 DEF TypeOK
<1>6. HistoryTyped'
  BY DEF HistoryTyped
<1>7. StagesFollow'
  BY DEF StagesFollow, TypeOK, Deletes, GenerationWritten, Captures
<1>8. UnusedIsEmpty'
  BY DEF UnusedIsEmpty
<1>9. ManifestsReserved'
  BY DEF ManifestsReserved
<1>10. GenerationWritten'
  BY
  DEF GenerationWritten, TypeOK, CurrentIsReadable, Readable, Fresh, StagesFollow, UnusedIsEmpty,
      Captures, Unshelves, Rewrites, Manifested, Now
<1>11. Captures'
  BY DEF Captures, TypeOK, StagesFollow, UnusedIsEmpty, GenerationWritten, Deletes, Manifested, Now
<1>12. Unshelves'
  BY DEF Unshelves, TypeOK, StagesFollow, GenerationWritten, HistoryTyped, Manifested, Now
<1>13. Rewrites'
  BY DEF Rewrites, TypeOK, StagesFollow, GenerationWritten, Manifested, Now
<1>14. Deletes'
  BY DEF Deletes, TypeOK, StagesFollow, UnusedIsEmpty, Captures, Ghost, Manifested, Now
<1>15. AllKept'
  BY DEF AllKept, Kept, Manifested, Now
<1>16. Catalogued'
  BY DEF Catalogued, Listed, TypeOK, StagesFollow, GenerationWritten, Captures, Manifested, Now
<1>17. TokensRecorded'
  BY DEF TokensRecorded, TypeOK, HistoryTyped, StagesFollow
<1>18. CurrentIsReadable'
  BY DEF CurrentIsReadable, Readable, Manifested, Now
<1> QED
  BY <1>5, <1>6, <1>7, <1>8, <1>9, <1>10, <1>11, <1>12, <1>13, <1>14, <1>15, <1>16, <1>17, <1>18
  DEF ServiceInv

LEMMA BeginDropKeeps == ASSUME NEW w \in Window, ServiceInv, BeginDrop(w) PROVE ServiceInv'
<1>1. /\ TypeOK /\ HistoryTyped /\ StagesFollow /\ UnusedIsEmpty /\ ManifestsReserved
      /\ GenerationWritten /\ Captures
      /\ Unshelves /\ Rewrites /\ Deletes /\ AllKept /\ Catalogued /\ TokensRecorded
      /\ CurrentIsReadable
  BY DEF ServiceInv
<1>2. UNCHANGED <<local, recovery, objects, dirs, manifests, current, catalog, journal, mark,
                used, wrong, touched, doomed, cancelled, made>>
  BY DEF BeginDrop, Start, tree, store, history
<1>a. Min(resuming[w].left) \in resuming[w].left
  <2>1. resuming[w].left \in SUBSET Nat /\ resuming[w].left # {}
    BY <1>1, ServiceAssumption DEF BeginDrop, TypeOK, StagesFollow, Shelf
  <2> QED
    BY <2>1, MinIs
<1>b. Min(resuming[w].left) \in Shelf
  BY <1>1, <1>a DEF TypeOK
<1>c. /\ op = Idle /\ pc = "idle" /\ pc' = "remove"
           /\ resuming[w] \in [at : {"rest", "read", "run", "drop"},
         links : SUBSET Shelf, left : SUBSET Shelf]
  BY <1>1 DEF BeginDrop, Free, StagesFollow, TypeOK
<1>d. \E r \in [at : {"rest", "read", "run", "drop"}, links : SUBSET Shelf, left : SUBSET Shelf] :
        /\ resuming' = [resuming EXCEPT ![w] = r] /\ r.left \subseteq resuming[w].left
        /\ r.at = "drop" => r.left # {}
  <2> DEFINE left == resuming[w].left \ {Min(resuming[w].left)}
             r == IF left = {} THEN AtRest ELSE [at |-> "drop", links |-> resuming[w].links,
               left |-> left]
           RS == [at : {"rest", "read", "run", "drop"}, links : SUBSET Shelf, left : SUBSET Shelf]
  <2>1. resuming' = [resuming EXCEPT ![w] = r]
    BY DEF BeginDrop
  <2>2. AtRest \in RS /\ AtRest.left = {} /\ AtRest.at = "rest"
    BY DEF AtRest
  <2>3. left \subseteq resuming[w].left /\ left \subseteq Shelf /\ resuming[w].links \subseteq Shelf
    BY <1>c
  <2> HIDE DEF left
  <2>4. r \in RS /\ r.left \subseteq resuming[w].left /\ (r.at = "drop" => r.left # {})
    BY <2>2, <2>3
  <2> HIDE DEF r
  <2> QED
    BY <2>1, <2>4
<1>e. /\ op' \in Op /\ op' # Idle /\ op'.kind = "drop" /\ op'.shelf \in resuming[w].left
      /\ op'.shelf \in Shelf /\ op'.token = None
  <2>1. op' = [kind |-> "drop", by |-> w, shelf |-> Min(resuming[w].left), token |-> None,
          todo |-> {},
              done |-> {}, remove |-> FALSE, next |-> None]
    BY DEF BeginDrop, Start
  <2>2. op' \in Op
    BY <1>b, <2>1 DEF Op, Kind
  <2> QED
    BY <1>a, <1>b, <2>1, <2>2, OpIsNotIdle
<1> USE <1>1, <1>2, <1>a, <1>b, <1>c, <1>d, <1>e, ServiceAssumption DEF Capturing, Deleting, Writing
<1>3. op' \in Op \cup {Idle}
  BY
  DEF TypeOK, HistoryTyped, StagesFollow, GenerationWritten, Unshelves, Manifested, Now, Op, Kind,
      Manifest
<1>4. resuming' \in [Window -> [at : {"rest", "read", "run", "drop"}, links : SUBSET Shelf,
                              left : SUBSET Shelf]]
  BY DEF TypeOK, HistoryTyped, StagesFollow, GenerationWritten, Unshelves, Manifested, Now
<1>5. TypeOK'
  BY <1>3, <1>4 DEF TypeOK
<1>6. HistoryTyped'
  BY DEF HistoryTyped
<1>7. StagesFollow'
  BY DEF StagesFollow, TypeOK, Deletes, GenerationWritten, Captures
<1>8. UnusedIsEmpty'
  BY DEF UnusedIsEmpty
<1>9. ManifestsReserved'
  BY DEF ManifestsReserved
<1>10. GenerationWritten'
  BY
  DEF GenerationWritten, TypeOK, CurrentIsReadable, Readable, Fresh, StagesFollow, UnusedIsEmpty,
      Captures, Unshelves, Rewrites, Manifested, Now
<1>11. Captures'
  BY DEF Captures, TypeOK, StagesFollow, UnusedIsEmpty, GenerationWritten, Deletes, Manifested, Now
<1>12. Unshelves'
  BY DEF Unshelves, TypeOK, StagesFollow, GenerationWritten, HistoryTyped, Manifested, Now
<1>13. Rewrites'
  BY DEF Rewrites, TypeOK, StagesFollow, GenerationWritten, Manifested, Now
<1>14. Deletes'
  BY DEF Deletes, TypeOK, StagesFollow, UnusedIsEmpty, Captures, Ghost, Manifested, Now
<1>15. AllKept'
  BY DEF AllKept, Kept, Manifested, Now
<1>16. Catalogued'
  BY DEF Catalogued, Listed, TypeOK, StagesFollow, GenerationWritten, Captures, Manifested, Now
<1>17. TokensRecorded'
  BY DEF TokensRecorded, TypeOK, HistoryTyped, StagesFollow
<1>18. CurrentIsReadable'
  BY DEF CurrentIsReadable, Readable, Manifested, Now
<1> QED
  BY <1>5, <1>6, <1>7, <1>8, <1>9, <1>10, <1>11, <1>12, <1>13, <1>14, <1>15, <1>16, <1>17, <1>18
  DEF ServiceInv

LEMMA FailDropKeeps == ASSUME NEW w \in Window, ServiceInv, FailDrop(w) PROVE ServiceInv'
<1>1. /\ TypeOK /\ HistoryTyped /\ StagesFollow /\ UnusedIsEmpty /\ ManifestsReserved
      /\ GenerationWritten /\ Captures
      /\ Unshelves /\ Rewrites /\ Deletes /\ AllKept /\ Catalogued /\ TokensRecorded
      /\ CurrentIsReadable
  BY DEF ServiceInv
<1>2. UNCHANGED <<local, recovery, objects, dirs, manifests, current, catalog, journal, mark,
                used, op, pc, touched, doomed, cancelled, made>>
  BY DEF FailDrop, Trouble, tree, store, history
<1> USE <1>1, <1>2, ServiceAssumption DEF FailDrop, Trouble, AtRest, Capturing, Deleting, Writing
<1>3. resuming' \in [Window -> [at : {"rest", "read", "run", "drop"}, links : SUBSET Shelf,
                              left : SUBSET Shelf]]
  BY DEF TypeOK, HistoryTyped, StagesFollow, GenerationWritten, Unshelves, Manifested, Now
<1>4. TypeOK'
  BY <1>3 DEF TypeOK
<1>5. HistoryTyped'
  BY DEF HistoryTyped
<1>6. StagesFollow'
  BY DEF StagesFollow, TypeOK, Deletes, GenerationWritten, Captures
<1>7. UnusedIsEmpty'
  BY DEF UnusedIsEmpty
<1>8. ManifestsReserved'
  BY DEF ManifestsReserved
<1>9. GenerationWritten'
  BY DEF GenerationWritten, Fresh, Manifested, Now
<1>10. Captures'
  BY DEF Captures, Manifested, Now
<1>11. Unshelves'
  BY DEF Unshelves, Manifested, Now
<1>12. Rewrites'
  BY DEF Rewrites, Manifested, Now
<1>13. Deletes'
  BY DEF Deletes, TypeOK, StagesFollow, UnusedIsEmpty, Captures, Ghost, Manifested, Now
<1>14. AllKept'
  BY DEF AllKept, Kept, Manifested, Now
<1>15. Catalogued'
  BY DEF Catalogued, Listed, TypeOK, StagesFollow, GenerationWritten, Captures, Manifested, Now
<1>16. TokensRecorded'
  BY DEF TokensRecorded
<1>17. CurrentIsReadable'
  BY DEF CurrentIsReadable, Readable, Manifested, Now
<1> QED
  BY <1>4, <1>5, <1>6, <1>7, <1>8, <1>9, <1>10, <1>11, <1>12, <1>13, <1>14, <1>15, <1>16, <1>17
  DEF ServiceInv

LEMMA CrashKeeps == ASSUME ServiceInv, Crash PROVE ServiceInv'
<1>1. /\ TypeOK /\ HistoryTyped /\ StagesFollow /\ UnusedIsEmpty /\ ManifestsReserved
      /\ GenerationWritten /\ Captures
      /\ Unshelves /\ Rewrites /\ Deletes /\ AllKept /\ Catalogued /\ TokensRecorded
      /\ CurrentIsReadable
  BY DEF ServiceInv
<1>2. UNCHANGED <<local, recovery, objects, dirs, manifests, current, catalog, journal, mark,
                used, touched, doomed, cancelled, made>>
  BY DEF Crash, Return, Trouble, tree, store, history
<1>a. wrong' # {}
  BY DEF Crash, Trouble
<1>b. (op' = Idle /\ pc' = "idle") \/ (op' = op /\ pc' = pc)
  <2>1. CASE op # Idle /\ op.by = None /\ Return /\ UNCHANGED resuming
    BY <2>1 DEF Return
  <2>2. CASE \E w \in Window : IF op # Idle /\ op.by = w THEN Return ELSE UNCHANGED <<op, pc>>
    BY <2>2 DEF Return
  <2> QED
    BY <2>1, <2>2 DEF Crash
<1>c. resuming' = resuming \/ \E w \in Window : resuming' = [resuming EXCEPT ![w] = AtRest]
  BY DEF Crash
<1>d. /\ resuming' \in [Window -> [at : {"rest", "read", "run", "drop"}, links : SUBSET Shelf,
           left : SUBSET Shelf]]
      /\ \A w \in Window : resuming'[w] = resuming[w] \/ (resuming'[w].at = "rest"
           /\ resuming'[w].left = {})
  <2>1. CASE resuming' = resuming
    BY <1>1, <2>1 DEF TypeOK
  <2>2. ASSUME NEW w \in Window, resuming' = [resuming EXCEPT ![w] = AtRest]
        PROVE  /\ resuming' \in [Window -> [at : {"rest", "read", "run", "drop"},
                    links : SUBSET Shelf, left : SUBSET Shelf]]
               /\ \A x \in Window : resuming'[x] = resuming[x] \/ (resuming'[x].at = "rest"
                    /\ resuming'[x].left = {})
    <3>1. AtRest \in [at : {"rest", "read", "run", "drop"}, links : SUBSET Shelf,
            left : SUBSET Shelf]
          /\ AtRest.at = "rest" /\ AtRest.left = {}
      BY DEF AtRest
    <3> HIDE DEF AtRest
    <3> QED
      BY <1>1, <2>2, <3>1 DEF TypeOK
  <2> QED
    BY <1>c, <2>1, <2>2
<1> USE <1>1, <1>2, <1>a, <1>b, <1>c, <1>d, ServiceAssumption DEF Capturing, Deleting, Writing
<1>3. op' \in Op \cup {Idle}
  BY
  DEF TypeOK, HistoryTyped, StagesFollow, GenerationWritten, Unshelves, Manifested, Now, Op, Kind,
      Manifest
<1>4. resuming' \in [Window -> [at : {"rest", "read", "run", "drop"}, links : SUBSET Shelf,
                              left : SUBSET Shelf]]
  BY DEF TypeOK, HistoryTyped, StagesFollow, GenerationWritten, Unshelves, Manifested, Now
<1>5. TypeOK'
  BY <1>3, <1>4 DEF TypeOK
<1>6. HistoryTyped'
  BY DEF HistoryTyped
<1>7. StagesFollow'
  <2>1. \A w \in Window : resuming'[w].at = "drop" => resuming'[w].left # {}
    BY <1>1, <1>d DEF StagesFollow
  <2>2. CASE op' = Idle /\ pc' = "idle"
    BY <2>1, <2>2 DEF StagesFollow
  <2>3. CASE op' = op /\ pc' = pc
    BY <2>1, <2>3 DEF StagesFollow
  <2> QED
    BY <1>b, <2>2, <2>3
<1>8. UnusedIsEmpty'
  BY DEF UnusedIsEmpty
<1>9. ManifestsReserved'
  BY DEF ManifestsReserved
<1>10. GenerationWritten'
  BY
  DEF GenerationWritten, TypeOK, CurrentIsReadable, Readable, Fresh, StagesFollow, UnusedIsEmpty,
      Captures, Unshelves, Rewrites, Manifested, Now
<1>11. Captures'
  BY DEF Captures, TypeOK, StagesFollow, UnusedIsEmpty, GenerationWritten, Deletes, Manifested, Now
<1>12. Unshelves'
  BY DEF Unshelves, TypeOK, StagesFollow, GenerationWritten, HistoryTyped, Manifested, Now
<1>13. Rewrites'
  BY DEF Rewrites, TypeOK, StagesFollow, GenerationWritten, Manifested, Now
<1>14. Deletes'
  <2>1. \A w \in Window : \A s \in resuming'[w].left : journal[s] = "none" /\ s <= used
          /\ s \in resuming[w].left
    BY <1>1, <1>d DEF Deletes
  <2>2. CASE op' = Idle /\ pc' = "idle"
    BY <2>1, <2>2 DEF Deletes, Manifested, Now, Ghost
  <2>3. CASE op' = op /\ pc' = pc
    BY <2>1, <2>3 DEF Deletes, Manifested, Now, Ghost
  <2> QED
    BY <1>b, <2>2, <2>3
<1>15. AllKept'
  BY DEF AllKept, Kept, Manifested, Now
<1>16. Catalogued'
  BY DEF Catalogued, Listed, TypeOK, StagesFollow, GenerationWritten, Captures, Manifested, Now
<1>17. TokensRecorded'
  BY DEF TokensRecorded, TypeOK, HistoryTyped, StagesFollow
<1>18. CurrentIsReadable'
  BY DEF CurrentIsReadable, Readable, Manifested, Now
<1> QED
  BY <1>5, <1>6, <1>7, <1>8, <1>9, <1>10, <1>11, <1>12, <1>13, <1>14, <1>15, <1>16, <1>17, <1>18
  DEF ServiceInv

LEMMA OutsideKeeps == ASSUME ServiceInv, Outside PROVE ServiceInv'
<1>1. /\ TypeOK /\ HistoryTyped /\ StagesFollow /\ UnusedIsEmpty /\ ManifestsReserved
      /\ GenerationWritten /\ Captures
      /\ Unshelves /\ Rewrites /\ Deletes /\ AllKept /\ Catalogued /\ TokensRecorded
      /\ CurrentIsReadable
  BY DEF ServiceInv
<1>2. UNCHANGED <<recovery, objects, dirs, manifests, current, catalog, journal, mark, used, op,
                pc, resuming, doomed, cancelled, made>>
  BY DEF Outside, Trouble, tree, store, history
<1> USE <1>1, <1>2, ServiceAssumption DEF Outside, Trouble, Capturing, Deleting, Writing
<1>3. local' \in [Change -> {"clean", "mine", "edited", "merged"}]
  BY DEF TypeOK, HistoryTyped, StagesFollow, GenerationWritten, Unshelves, Manifested, Now
<1>4. TypeOK'
  BY <1>3 DEF TypeOK
<1>5. HistoryTyped'
  BY DEF HistoryTyped, TypeOK, UnusedIsEmpty
<1>6. StagesFollow'
  BY DEF StagesFollow
<1>7. UnusedIsEmpty'
  BY DEF UnusedIsEmpty
<1>8. ManifestsReserved'
  BY DEF ManifestsReserved
<1>9. GenerationWritten'
  BY DEF GenerationWritten, Fresh, Manifested, Now
<1>10. Captures'
  BY DEF Captures, Manifested, Now
<1>11. Unshelves'
  BY DEF Unshelves, TypeOK, StagesFollow, GenerationWritten, HistoryTyped, Manifested, Now
<1>12. Rewrites'
  BY DEF Rewrites, Manifested, Now
<1>13. Deletes'
  BY DEF Deletes, Manifested, Now, Ghost
<1>14. AllKept'
  BY
  DEF AllKept, Kept, TypeOK, StagesFollow, Captures, Unshelves, Rewrites, Deletes,
      GenerationWritten, HistoryTyped, Manifested, Now
<1>15. Catalogued'
  BY DEF Catalogued, Listed, TypeOK, StagesFollow, GenerationWritten, Captures, Manifested, Now
<1>16. TokensRecorded'
  BY DEF TokensRecorded
<1>17. CurrentIsReadable'
  BY DEF CurrentIsReadable, Readable, Manifested, Now
<1> QED
  BY <1>4, <1>5, <1>6, <1>7, <1>8, <1>9, <1>10, <1>11, <1>12, <1>13, <1>14, <1>15, <1>16, <1>17
  DEF ServiceInv

LEMMA NothingKeeps == ASSUME ServiceInv, UNCHANGED shelfVars PROVE ServiceInv'
<1>1. UNCHANGED <<local, recovery, objects, dirs, manifests, current, catalog, journal, mark, used,
        op,
                  pc, resuming, wrong, touched, doomed, cancelled, made>>
  BY DEF shelfVars, tree, store, history
<1>2. /\ TypeOK /\ HistoryTyped /\ StagesFollow /\ UnusedIsEmpty /\ ManifestsReserved
      /\ GenerationWritten /\ Captures /\ Unshelves /\ Rewrites /\ Deletes /\ AllKept /\ Catalogued
      /\ TokensRecorded /\ CurrentIsReadable
  BY DEF ServiceInv
<1> USE <1>1, <1>2
<1>3. TypeOK' /\ HistoryTyped' /\ StagesFollow' /\ UnusedIsEmpty' /\ ManifestsReserved'
  BY DEF TypeOK, HistoryTyped, StagesFollow, UnusedIsEmpty, ManifestsReserved
<1>4. GenerationWritten' /\ Captures' /\ Unshelves'
  BY DEF GenerationWritten, Captures, Unshelves, Manifested, Now, Fresh
<1>5. Rewrites' /\ Deletes' /\ Catalogued'
  BY DEF Rewrites, Deletes, Catalogued, Listed, Ghost, Manifested, Now
<1>6. AllKept' /\ TokensRecorded' /\ CurrentIsReadable'
  BY DEF AllKept, Kept, TokensRecorded, CurrentIsReadable, Readable, Manifested, Now
<1> QED
  BY <1>3, <1>4, <1>5, <1>6 DEF ServiceInv

LEMMA ServiceInvInit == Init => ServiceInv
<1> SUFFICES ASSUME Init PROVE ServiceInv
  OBVIOUS
<1>1. TypeOK
  BY ServiceAssumption DEF Init, TypeOK, AtRest
<1>2. HistoryTyped /\ StagesFollow
  BY DEF Init, HistoryTyped, StagesFollow, AtRest, Writing
<1>3. UnusedIsEmpty /\ ManifestsReserved /\ GenerationWritten
  BY DEF Init, UnusedIsEmpty, ManifestsReserved, GenerationWritten, Writing
<1>4. Captures /\ Unshelves /\ Rewrites /\ Deletes
  BY DEF Init, Captures, Unshelves, Rewrites, Deletes, AtRest
<1>5. AllKept
  BY DEF Init, AllKept, Kept
<1>6. Catalogued
  BY DEF Init, Catalogued, Listed, Manifested
<1>7. TokensRecorded /\ CurrentIsReadable
  BY DEF Init, TokensRecorded, CurrentIsReadable
<1> QED
  BY <1>1, <1>2, <1>3, <1>4, <1>5, <1>6, <1>7 DEF ServiceInv

LEMMA ServiceInvStep == ServiceInv /\ [Next]_shelfVars => ServiceInv'
<1> SUFFICES ASSUME ServiceInv, [Next]_shelfVars PROVE ServiceInv'
  OBVIOUS
<1>1. CASE BeginShelve \/ BeginUnshelve \/ BeginRewrite \/ BeginDelete \/ BeginCleanUp
  BY <1>1, BeginShelveKeeps, BeginUnshelveKeeps, BeginRewriteKeeps, BeginDeleteKeeps,
      BeginCleanUpKeeps
<1>2. CASE Work
  <2>1. CASE PutObjects \/ Reserve \/ WriteManifest \/ AdvancePointer \/ Enlist
    BY <2>1, PutObjectsKeeps, ReserveKeeps, WriteManifestKeeps, AdvancePointerKeeps, EnlistKeeps
  <2>2. CASE WriteJournal \/ Move \/ Commit \/ Rollback \/ Conclude \/ Record
    BY <2>2, WriteJournalKeeps, MoveKeeps, CommitKeeps, RollbackKeeps, ConcludeKeeps, RecordKeeps
  <2>3. CASE Apply \/ Mark \/ Settle \/ Remove \/ RemoveRest \/ Unlist
    BY <2>3, ApplyKeeps, MarkKeeps, SettleKeeps, RemoveKeeps, RemoveRestKeeps, UnlistKeeps
  <2>4. CASE ResumeRestore \/ ResumeConclude \/ EndResume
    BY <2>4, ResumeRestoreKeeps, ResumeConcludeKeeps, EndResumeKeeps
  <2> QED
    BY <1>2, <2>1, <2>2, <2>3, <2>4 DEF Work
<1>3. CASE Throw \/ Outside \/ Crash
  BY <1>3, ThrowKeeps, OutsideKeeps, CrashKeeps
<1>4. ASSUME NEW w \in Window, Activate(w) \/ FailDrop(w) PROVE ServiceInv'
  BY <1>4, ReadLinksKeeps, BeginResumeKeeps, BeginDropKeeps, FailDropKeeps DEF Activate
<1>5. CASE UNCHANGED shelfVars
  BY <1>5, NothingKeeps
<1> QED
  BY <1>1, <1>2, <1>3, <1>4, <1>5 DEF Next

\* The store is as the invariant says at every moment, whatever is interrupted and whichever window
\* recovers (shelfService.ts:122-216, 557-632; store.ts:237-270, 378-424).
THEOREM ServiceInvAlways == Spec => []ServiceInv
BY ServiceInvInit, ServiceInvStep, PTL DEF Spec

-----------------------------------------------------------------------------
(* What the store promises.                                                *)

\* No shelf is mislisted and no request carried out twice while nothing goes wrong.
LEMMA CatalogAndTokens == ServiceInv => CatalogMatches /\ TokenOnce
<1> SUFFICES ASSUME ServiceInv PROVE CatalogMatches /\ TokenOnce
  OBVIOUS
<1>1. CatalogMatches
  BY DEF ServiceInv, StagesFollow, Catalogued, CatalogMatches, Free
<1>2. ASSUME NEW t \in Token PROVE Cardinality(made[t]) <= 1
  <2>1. made[t] = {} \/ made[t] = {catalog.ledger[t]}
    BY DEF ServiceInv, TokensRecorded
  <2>2. Cardinality({}) = 0 /\ Cardinality({catalog.ledger[t]}) = 1
    BY FS_EmptySet, FS_Singleton
  <2> QED
    BY <2>1, <2>2
<1> QED
  BY <1>1, <1>2 DEF TokenOnce

\* What is kept is somewhere, as a shelf that is not deleted can be read.
AllSomewhere == \A c \in Change \ touched : Somewhere(c)

LEMMA KeptIsSomewhere == ServiceInv => AllSomewhere
<1> SUFFICES ASSUME ServiceInv, NEW c \in Change \ touched PROVE Somewhere(c)
  BY DEF AllSomewhere
<1>1. Kept(c) /\ CurrentIsReadable
  BY DEF ServiceInv, AllKept
<1> QED
  BY <1>1 DEF Kept, Somewhere, CurrentIsReadable

\* A change the user neither changed again nor deleted with a shelf is never lost: not by a crash,
\* a rollback, a recovery in another window or a cleanup (shelfService.ts:557-589, 614-632).
THEOREM NothingIsLost == Spec => NothingLost
<1>1. ServiceInv' => [\A c \in Change \ touched' : Somewhere(c) => Somewhere(c)']_shelfVars
  <2>1. ServiceInv' => AllSomewhere'
    BY KeptIsSomewhere, PTL
  <2> QED
    BY <2>1 DEF AllSomewhere
<1> QED
  BY <1>1, ServiceInvAlways, PTL DEF NothingLost

\* Generations and pointers are written by three steps.
LEMMA GenerationsWritten ==
  ASSUME Next
  PROVE  WriteManifest \/ AdvancePointer \/ RemoveRest \/ UNCHANGED <<manifests, current>>
<1>1. CASE BeginShelve \/ BeginUnshelve \/ BeginRewrite \/ BeginDelete \/ BeginCleanUp
  BY <1>1 DEF BeginShelve, BeginUnshelve, BeginRewrite, BeginDelete, BeginCleanUp, store
<1>2. CASE Work
  <2>1. CASE PutObjects \/ Reserve \/ Enlist \/ WriteJournal \/ Move \/ Commit \/ Rollback
    BY <2>1 DEF PutObjects, Reserve, Enlist, WriteJournal, Move, Commit, Rollback, store
  <2>2. CASE Conclude \/ Record \/ Apply \/ Mark \/ Settle \/ Remove \/ Unlist
    BY <2>2 DEF Conclude, Record, Apply, Mark, Settle, Remove, Unlist, store
  <2>3. CASE ResumeRestore \/ ResumeConclude \/ EndResume
    BY <2>3 DEF ResumeRestore, ResumeConclude, EndResume, store
  <2> QED
    BY <1>2, <2>1, <2>2, <2>3 DEF Work
<1>3. CASE Throw \/ Outside \/ Crash
  BY <1>3 DEF Throw, Outside, Crash, store
<1>4. ASSUME NEW w \in Window, Activate(w) \/ FailDrop(w) PROVE UNCHANGED <<manifests, current>>
  BY <1>4 DEF Activate, ReadLinks, BeginResume, BeginDrop, FailDrop, store
<1> QED
  BY <1>1, <1>2, <1>3, <1>4 DEF Next

\* What each of them leaves of a shelf.
LEMMA GenerationSteps ==
  ASSUME ServiceInv, Next, NEW s \in Shelf, current'[s] # 0
  PROVE  \/ manifests'[s] = manifests[s] /\ current'[s] = current[s]
         \/ /\ pc = "manifest" /\ s = op.shelf /\ current'[s] = current[s]
            /\ current[s] < Fresh(s) /\ Fresh(s) \in Gen /\ manifests[s][Fresh(s)] = None
            /\ manifests' = [manifests EXCEPT ![s][Fresh(s)] = op.next]
         \/ /\ pc = "pointer" /\ s = op.shelf /\ manifests'[s] = manifests[s] /\ op # Idle
            /\ current[s] < Fresh(s) /\ Fresh(s) \in Gen /\ current'[s] = Fresh(s)
            /\ manifests[s][Fresh(s)] = op.next
<1>1. TypeOK /\ StagesFollow /\ GenerationWritten
  BY DEF ServiceInv
<1>2. ASSUME op # Idle, pc \in {"manifest", "pointer"}
      PROVE  /\ op.shelf \in Shelf /\ Fresh(op.shelf) \in Gen /\ current[op.shelf] < Fresh(op.shelf)
             /\ pc = "manifest" => manifests[op.shelf][Fresh(op.shelf)] = None
             /\ pc = "pointer" => manifests[op.shelf][Fresh(op.shelf)] = op.next
  <2>1. op.shelf \in Shelf
    BY <1>1, <1>2, OpTyped DEF OpFits
  <2> QED
    BY <1>1, <1>2, <2>1, FreshIs DEF GenerationWritten
<1>3. manifests \in [Shelf -> [Gen -> Manifest \cup {None}]] /\ current \in [Shelf -> 0..MaxGen]
  BY <1>1 DEF TypeOK
<1>4. CASE WriteManifest
  BY <1>2, <1>3, <1>4 DEF WriteManifest, At
<1>5. CASE AdvancePointer
  BY <1>2, <1>3, <1>5 DEF AdvancePointer, At
<1>6. CASE RemoveRest
  <2>1. op.shelf \in Shelf
    BY <1>1, <1>6, OpTyped DEF RemoveRest, At, OpFits
  <2> QED
    BY <1>3, <1>6, <2>1 DEF RemoveRest
<1>7. CASE UNCHANGED <<manifests, current>>
  BY <1>7
<1> QED
  BY <1>4, <1>5, <1>6, <1>7, GenerationsWritten

\* A written generation is never changed, and the pointer only advances (store.ts:237-270).
THEOREM GenerationsKept == Spec => GenerationsStand
<1> DEFINE Stand == \A s \in Shelf : current'[s] # 0 =>
              /\ current'[s] >= current[s]
              /\ \A g \in Gen : manifests[s][g] # None => manifests'[s][g] = manifests[s][g]
<1>1. ServiceInv /\ [Next]_shelfVars => [Stand]_shelfVars
  <2> SUFFICES ASSUME ServiceInv, Next, NEW s \in Shelf, current'[s] # 0
               PROVE  /\ current'[s] >= current[s]
                      /\ \A g \in Gen : manifests[s][g] # None => manifests'[s][g] = manifests[s][g]
    OBVIOUS
  <2>1. /\ manifests \in [Shelf -> [Gen -> Manifest \cup {None}]] /\ current[s] \in Nat
        /\ Fresh(s) \in Gen => Fresh(s) \in Nat
    BY ServiceAssumption DEF ServiceInv, TypeOK, Gen
  <2> QED
    BY <2>1, GenerationSteps
<1> QED
  BY <1>1, ServiceInvAlways, PTL DEF Spec, GenerationsStand

\* What is recorded as applied was applied: a conflict, an entry that failed and one not selected
\* stay on the shelf (shelfService.ts:194-216).
THEOREM GhostsKept == Spec => GhostsWereApplied
<1> DEFINE Were == \A s \in Shelf : current[s] # 0 /\ Manifested(s)' /\ Manifested(s) =>
              \A c \in Now(s)'.applied \ Now(s).applied : c \in touched \/ local[c] \in {"mine",
                "merged"}
<1>1. ServiceInv /\ [Next]_shelfVars => [Were]_shelfVars
  <2> SUFFICES ASSUME ServiceInv, Next, NEW s \in Shelf, current[s] # 0, Manifested(s)',
    Manifested(s),
                      NEW c \in Now(s)'.applied, c \notin Now(s).applied
               PROVE  c \in touched \/ local[c] \in {"mine", "merged"}
    OBVIOUS
  <2>1. current'[s] # 0 /\ current[s] \in Gen
    BY NowIs DEF Manifested, ServiceInv
  <2>2. CASE manifests'[s] = manifests[s] /\ current'[s] = current[s]
    BY <2>2 DEF Now
  <2>3. CASE /\ current'[s] = current[s] /\ current[s] < Fresh(s) /\ Fresh(s) \in Gen
             /\ manifests' = [manifests EXCEPT ![s][Fresh(s)] = op.next]
    <3>1. manifests \in [Shelf -> [Gen -> Manifest \cup {None}]] /\ current[s] # Fresh(s)
      BY <2>1, <2>3, ServiceAssumption DEF ServiceInv, TypeOK, Gen
    <3>2. Now(s)' = Now(s)
      BY <2>1, <2>3, <3>1 DEF Now
    <3> QED
      BY <3>2
  <2>4. CASE /\ pc = "pointer" /\ s = op.shelf /\ manifests'[s] = manifests[s] /\ op # Idle
             /\ current'[s] = Fresh(s) /\ manifests[s][Fresh(s)] = op.next
    <3>1. Now(s)' = op.next
      BY <2>4 DEF Now
    <3>2. op.kind \in Capturing \cup {"unshelve", "rewrite"}
      BY <2>4, KindAt DEF ServiceInv, Writing, KindFits
    <3>3. CASE op.kind \in Capturing
      BY <2>4, <3>3 DEF ServiceInv, Captures, Writing
    <3>4. CASE op.kind = "unshelve"
      BY <2>4, <3>1, <3>4 DEF ServiceInv, Unshelves, Writing
    <3>5. CASE op.kind = "rewrite"
      BY <2>4, <3>1, <3>5 DEF ServiceInv, Rewrites, Writing
    <3> QED
      BY <3>2, <3>3, <3>4, <3>5
  <2> QED
    BY <2>1, <2>2, <2>3, <2>4, GenerationSteps
<1> QED
  BY <1>1, ServiceInvAlways, PTL DEF Spec, GhostsWereApplied

=============================================================================
