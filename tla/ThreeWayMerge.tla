--------------------------- MODULE ThreeWayMerge ---------------------------
(* The segments the merge editor shows (mergeEditor/conflictParser.ts,            *)
(* lineDiff.ts, autoMerge.ts, diff/wordDiff.ts, mergeState.ts): each side is      *)
(* diffed against the base line by line, the blocks both sides keep are           *)
(* intersected along the base, and what lies between becomes hunks.               *)
(*                                                                                *)
(* A line is the sequence of its tokens, of which Width says how many characters  *)
(* are not white; a text is a sequence of lines, counted from 1.  A block is      *)
(* where it begins in either text and how many lines it has.                      *)
EXTENDS Integers, Sequences, SequencesExt

CONSTANTS
  Width,                        \* of each token; 0 when it is white space
  UNIMPORTANT_LINE_CHAR_COUNT, MAX_ANCHOR_WEIGHT,
  MAX_LCS_CELLS, MaxTokenCells, \* what an LCS may cost, for lines and for tokens
  None

Only(condition, s) == IF condition THEN s ELSE <<>>

\* How many from the first on satisfy Same, at most limit.
Run(limit, Same(_)) ==
  CHOOSE k \in 0..limit : (\A i \in 1..k : Same(i)) /\ (k < limit => ~Same(k + 1))

nonSpaceCharCount(line) ==
  LET upTo[i \in 0..Len(line)] == IF i = 0 THEN 0 ELSE upTo[i - 1] + Width[line[i]] IN upTo[Len(line)]

\* White space at the ends is gone, and within the line it is all alike.
normalizeLineForDiff(line, ignoreWhitespace) ==
  LET black == {i \in DOMAIN line : Width[line[i]] # 0}
  IN  IF ~ignoreWhitespace THEN line
      ELSE IF black = {} THEN <<>>
      ELSE [i \in 1..Max(black) - Min(black) + 1 |->
              LET token == line[Min(black) + i - 1] IN IF Width[token] = 0 THEN " " ELSE token]

-----------------------------------------------------------------------------
(* Common subsequences, as pairs of positions.                                 *)

\* The next line of b that equals the line of a, if any, is taken.
greedyMonotonicLineMatch(a, b) ==
  LET match[i \in 1..Len(a) + 1, last \in 0..Len(b)] ==
        IF i > Len(a) THEN <<>>
        ELSE LET later == {j \in last + 1..Len(b) : b[j] = a[i]}
             IN  IF later = {} THEN match[i + 1, last]
                 ELSE <<<<i, Min(later)>>>> \o match[i + 1, Min(later)]
  IN  match[1, 0]

\* The scan of b does not go back, so a token that b has not got ends it.
computeGreedyTokenLcsPairs(a, b) ==
  LET match[i \in 1..Len(a) + 1, last \in 0..Len(b)] ==
        LET later == {j \in last + 1..Len(b) : i <= Len(a) /\ b[j] = a[i]}
        IN  IF later = {} THEN <<>> ELSE <<<<i, Min(later)>>>> \o match[i + 1, Min(later)]
  IN  match[1, 0]

\* The best score from every two positions, and the walk along it from the first two; where
\* leaving either out is as good, skipA says which is.
TraceLcs(a, b, weights, skipA) ==
  LET best[i \in 1..Len(a) + 1, j \in 1..Len(b) + 1] ==
        IF i > Len(a) \/ j > Len(b) THEN 0
        ELSE IF a[i] = b[j] THEN best[i + 1, j + 1] + weights[i]
        ELSE Max({best[i + 1, j], best[i, j + 1]})
      walk[i \in 1..Len(a) + 1, j \in 1..Len(b) + 1] ==
        IF i > Len(a) \/ j > Len(b) THEN <<>>
        ELSE IF a[i] = b[j] THEN <<<<i, j>>>> \o walk[i + 1, j + 1]
        ELSE IF best[i + 1, j] > best[i, j + 1] \/ (skipA /\ best[i + 1, j] = best[i, j + 1])
          THEN walk[i + 1, j]
          ELSE walk[i, j + 1]
  IN  walk[1, 1]

lcsPairs(a, b, weights) ==
  IF Len(a) * Len(b) > MAX_LCS_CELLS THEN greedyMonotonicLineMatch(a, b)
  ELSE TraceLcs(a, b, weights, FALSE)

computeTokenLcsPairs(a, b) ==
  IF Len(a) * Len(b) > MaxTokenCells THEN computeGreedyTokenLcsPairs(a, b)
  ELSE TraceLcs(a, b, [i \in DOMAIN a |-> 1], TRUE)

-----------------------------------------------------------------------------
(* The blocks of lines two texts share.                                        *)

Block(at1, at2, count) == [at1 |-> at1, at2 |-> at2, count |-> count]
End1(block) == block.at1 + block.count
End2(block) == block.at2 + block.count

\* Lines that say something are matched first, the more they say the sooner.
matchImportantLines(cmp1, cmp2, nonSpace1, nonSpace2) ==
  LET important(nonSpace) ==
        SelectSeq([i \in DOMAIN nonSpace |-> i], LAMBDA i : nonSpace[i] > UNIMPORTANT_LINE_CHAR_COUNT)
      idx1 == important(nonSpace1)
      idx2 == important(nonSpace2)
      pairs == lcsPairs([k \in DOMAIN idx1 |-> cmp1[idx1[k]]], [k \in DOMAIN idx2 |-> cmp2[idx2[k]]],
                        [k \in DOMAIN idx1 |-> Min({nonSpace1[idx1[k]], MAX_ANCHOR_WEIGHT})])
  IN  [k \in DOMAIN pairs |-> <<idx1[pairs[k][1]], idx2[pairs[k][2]]>>]

\* Between two anchors: what is equal at either edge, and a common subsequence of the rest.
matchGap(cmp1, cmp2, start1, end1, start2, end2) ==
  LET limit == Min({end1 - start1, end2 - start2})
      prefix == Run(limit, LAMBDA i : cmp1[start1 + i - 1] = cmp2[start2 + i - 1])
      suffix == Run(limit - prefix, LAMBDA i : cmp1[end1 - i] = cmp2[end2 - i])
      inner1 == SubSeq(cmp1, start1 + prefix, end1 - suffix - 1)
      inner2 == SubSeq(cmp2, start2 + prefix, end2 - suffix - 1)
      pairs == lcsPairs(inner1, inner2, [i \in DOMAIN inner1 |-> 1])
  IN  Only(prefix > 0, <<Block(start1, start2, prefix)>>)
        \o [k \in DOMAIN pairs |->
              Block(start1 + prefix + pairs[k][1] - 1, start2 + prefix + pairs[k][2] - 1, 1)]
        \o Only(suffix > 0, <<Block(end1 - suffix, end2 - suffix, suffix)>>)

fillGaps(cmp1, cmp2, anchors) ==
  LET from[k \in 1..Len(anchors) + 1, last1 \in 1..Len(cmp1) + 1, last2 \in 1..Len(cmp2) + 1] ==
        IF k > Len(anchors) THEN matchGap(cmp1, cmp2, last1, Len(cmp1) + 1, last2, Len(cmp2) + 1)
        ELSE LET a1 == anchors[k][1]
                 a2 == anchors[k][2]
             IN  matchGap(cmp1, cmp2, last1, a1, last2, a2)
                   \o <<Block(a1, a2, 1)>> \o from[k + 1, a1 + 1, a2 + 1]
  IN  from[1, 1, 1]

RECURSIVE coalesceRanges(_)
coalesceRanges(ranges) ==
  IF Len(ranges) < 2 THEN ranges
  ELSE LET one == ranges[1]
           two == ranges[2]
       IN  IF End1(one) = two.at1 /\ End2(one) = two.at2
           THEN coalesceRanges(<<Block(one.at1, one.at2, one.count + two.count)>>
                                 \o SubSeq(ranges, 3, Len(ranges)))
           ELSE <<one>> \o coalesceRanges(Tail(ranges))

-----------------------------------------------------------------------------
(* A boundary that may slide is moved to a line that says little.  A shift is  *)
(* the set of it, which is empty when there is none.                           *)

First(found) == IF found = {} THEN {} ELSE {Min(found)}

findNextUnimportantLine(nonSpace, offset, count, threshold) ==
  First({i \in 0..count - 1 : offset + i \in DOMAIN nonSpace /\ nonSpace[offset + i] <= threshold})

findPrevUnimportantLine(nonSpace, offset, count, threshold) ==
  First({i \in 0..count - 1 : offset - i \in DOMAIN nonSpace /\ nonSpace[offset - i] <= threshold})

combineShifts(forward, backward) ==
  IF 0 \in forward \cup backward THEN {0}
  ELSE IF forward # {} THEN forward ELSE {-shift : shift \in backward}

\* The boundary from start to end in one text.
BoundaryShift(nonSpace, start, end, equalForward, equalBackward, threshold) ==
  combineShifts(findNextUnimportantLine(nonSpace, start, equalForward + 1, threshold),
                findPrevUnimportantLine(nonSpace, end - 1, equalBackward + 1, threshold))

\* Blank lines first, then lines that say little, and of each where the two blocks touch first.
getShift(nonSpace1, nonSpace2, equalForward, equalBackward, one, two) ==
  LET side1(threshold) ==
        BoundaryShift(nonSpace1, End1(one), two.at1, equalForward, equalBackward, threshold)
      side2(threshold) ==
        BoundaryShift(nonSpace2, End2(one), two.at2, equalForward, equalBackward, threshold)
      shifts == IF End1(one) = two.at1
                THEN <<side1(0), side2(0), side1(UNIMPORTANT_LINE_CHAR_COUNT),
                       side2(UNIMPORTANT_LINE_CHAR_COUNT)>>
                ELSE <<side2(0), side1(0), side2(UNIMPORTANT_LINE_CHAR_COUNT),
                       side1(UNIMPORTANT_LINE_CHAR_COUNT)>>
      viable == {k \in DOMAIN shifts : shifts[k] # {}}
  IN  IF viable = {} THEN 0 ELSE Min(shifts[Min(viable)])

RECURSIVE processLastRanges(_, _, _, _, _)
processLastRanges(out, cmp1, cmp2, nonSpace1, nonSpace2) ==
  IF Len(out) < 2 THEN out
  ELSE
    LET one == out[Len(out) - 1]
        two == out[Len(out)]
        before == SubSeq(out, 1, Len(out) - 2)
        forwardLimit == Min({two.count, Len(cmp1) + 1 - End1(one), Len(cmp2) + 1 - End2(one)})
        backwardLimit == Min({one.count, two.at1 - 1, two.at2 - 1})
        equalForward == Run(forwardLimit, LAMBDA i : cmp1[End1(one) + i - 1] = cmp2[End2(one) + i - 1])
        equalBackward == Run(backwardLimit, LAMBDA i : cmp1[two.at1 - i] = cmp2[two.at2 - i])
        again(block) == processLastRanges(Append(before, block), cmp1, cmp2, nonSpace1, nonSpace2)
        shift == getShift(nonSpace1, nonSpace2, equalForward, equalBackward, one, two)
        apart == End1(one) # two.at1 /\ End2(one) # two.at2
    IN  IF apart \/ (equalForward = 0 /\ equalBackward = 0) THEN out
        ELSE IF equalForward = two.count THEN again(Block(one.at1, one.at2, one.count + two.count))
        ELSE IF equalBackward = one.count
          THEN again(Block(two.at1 - one.count, two.at2 - one.count, one.count + two.count))
        ELSE before \o <<Block(one.at1, one.at2, one.count + shift),
                         Block(two.at1 + shift, two.at2 + shift, two.count - shift)>>

optimizeLineChunks(ranges, cmp1, cmp2, nonSpace1, nonSpace2) ==
  LET upTo[k \in 0..Len(ranges)] ==
        IF k = 0 THEN <<>>
        ELSE processLastRanges(Append(upTo[k - 1], ranges[k]), cmp1, cmp2, nonSpace1, nonSpace2)
  IN  upTo[Len(ranges)]

diffLinesFair(lines1, lines2, ignoreWhitespace) ==
  LET compared(lines) == [i \in DOMAIN lines |-> normalizeLineForDiff(lines[i], ignoreWhitespace)]
      nonSpace(lines) == [i \in DOMAIN lines |-> nonSpaceCharCount(lines[i])]
      cmp1 == compared(lines1)
      cmp2 == compared(lines2)
      nonSpace1 == nonSpace(lines1)
      nonSpace2 == nonSpace(lines2)
      anchors == matchImportantLines(cmp1, cmp2, nonSpace1, nonSpace2)
  IN  optimizeLineChunks(coalesceRanges(fillGaps(cmp1, cmp2, anchors)), cmp1, cmp2, nonSpace1, nonSpace2)

-----------------------------------------------------------------------------
(* The token-wise merge of lines both sides changed; None when it would guess. *)

tokenEditRanges(baseTokens, modTokens) ==
  LET pairs == computeTokenLcsPairs(baseTokens, modTokens)
      stops == <<<<0, 0>>>> \o pairs \o <<<<Len(baseTokens) + 1, Len(modTokens) + 1>>>>
      edit(k) == [start |-> stops[k][1] + 1, end |-> stops[k + 1][1],
                  tokens |-> SubSeq(modTokens, stops[k][2] + 1, stops[k + 1][2] - 1)]
  IN  {e \in {edit(k) : k \in 1..Len(pairs) + 1} : e.start < e.end \/ e.tokens # <<>>}

\* Mutant: two edits that overlap in part are not in conflict.
editsConflictOnlySame(oursEdits, theirsEdits) ==
  \E a \in oursEdits, b \in theirsEdits : a.start = b.start /\ a.end = b.end

editsConflict(oursEdits, theirsEdits) ==
  \E a \in oursEdits, b \in theirsEdits :
    \/ a.start < b.end /\ b.start < a.end
    \/ a.start = a.end /\ b.start = b.end /\ a.start = b.start

\* What is inserted where a replacement begins comes before it.
RECURSIVE Compose(_, _, _)
Compose(baseTokens, edits, cursor) ==
  IF edits = {} THEN SubSeq(baseTokens, cursor, Len(baseTokens))
  ELSE LET next == CHOOSE e \in edits :
                     \A other \in edits :
                       e.start < other.start \/ (e.start = other.start /\ e.end <= other.end)
       IN  SubSeq(baseTokens, cursor, next.start - 1) \o next.tokens
             \o Compose(baseTokens, edits \ {next}, Max({cursor, next.end}))

tryAutoMergeLine(base, ours, theirs) ==
  LET oursEdits == tokenEditRanges(base, ours)
      theirsEdits == tokenEditRanges(base, theirs)
  IN  IF ours = theirs \/ theirs = base THEN ours
      ELSE IF ours = base THEN theirs
      ELSE IF ours = <<>> \/ theirs = <<>> \/ editsConflict(oursEdits, theirsEdits) THEN None
      ELSE Compose(base, oursEdits \cup theirsEdits, 1)

tryAutoMergeLines(base, ours, theirs) ==
  LET merged == [i \in DOMAIN base |-> tryAutoMergeLine(base[i], ours[i], theirs[i])]
  IN  IF Len(base) # Len(ours) \/ Len(base) # Len(theirs) \/ \E i \in DOMAIN base : merged[i] = None
      THEN None ELSE merged

-----------------------------------------------------------------------------
(* Hunks, and what is common.                                                  *)

Common(lines) == Only(lines # <<>>, <<[kind |-> "common", lines |-> lines]>>)
Hunk(kind, base, ours, theirs, auto) ==
  [kind |-> kind, base |-> base, ours |-> ours, theirs |-> theirs, auto |-> auto]

arraysEqual(a, b, ignoreWhitespace) ==
  /\ Len(a) = Len(b)
  /\ \A i \in DOMAIN a :
       normalizeLineForDiff(a[i], ignoreWhitespace) = normalizeLineForDiff(b[i], ignoreWhitespace)

getConflictChangeKind(hasOursEdit, hasTheirsEdit) ==
  IF hasOursEdit /\ hasTheirsEdit THEN "conflict"
  ELSE IF hasOursEdit THEN "ours-only" ELSE "theirs-only"

\* appendChangeSegments: what one span of divergence becomes.
SpanSegments(base, ours, theirs, ignoreWhitespace) ==
  LET oursChanged == ~arraysEqual(ours, base, ignoreWhitespace)
      theirsChanged == ~arraysEqual(theirs, base, ignoreWhitespace)
      kind == getConflictChangeKind(oursChanged, theirsChanged)
      limit == IF oursChanged /\ theirsChanged THEN Min({Len(ours), Len(theirs)}) ELSE 0
      prefix == Run(limit, LAMBDA i : ours[i] = theirs[i])
      suffix == Run(limit - prefix, LAMBDA i : ours[Len(ours) + 1 - i] = theirs[Len(theirs) + 1 - i])
      core(lines) == SubSeq(lines, prefix + 1, Len(lines) - suffix)
      coreKind == getConflictChangeKind(~arraysEqual(core(ours), base, ignoreWhitespace),
                                        ~arraysEqual(core(theirs), base, ignoreWhitespace))
  IN  IF ours = theirs THEN Common(ours)
      ELSE IF arraysEqual(ours, theirs, ignoreWhitespace)
        THEN IF ~oursChanged /\ ~theirsChanged THEN Common(base)
             ELSE <<Hunk(kind, base, ours, theirs, IF kind = "conflict" THEN ours ELSE None)>>
      ELSE Common(SubSeq(ours, 1, prefix))
             \o <<Hunk(coreKind, base, core(ours), core(theirs),
                       IF coreKind = "conflict"
                       THEN tryAutoMergeLines(base, core(ours), core(theirs)) ELSE None)>>
             \o Common(SubSeq(ours, Len(ours) - suffix + 1, Len(ours)))

\* What lies between the blocks both sides keep, where done is how far each text is dealt with.
RECURSIVE buildMergeRanges(_, _, _, _)
buildMergeRanges(oursEqual, theirsEqual, done, ends) ==
  IF oursEqual = <<>> \/ theirsEqual = <<>>
  THEN Only(done # ends, <<[from |-> done, to |-> ends]>>)
  ELSE
    LET r1 == Head(oursEqual)
        r2 == Head(theirsEqual)
        start == Max({r1.at1, r2.at1})
        count == Min({End1(r1), End1(r2)}) - start
        equal == [base |-> start, ours |-> r1.at2 + (start - r1.at1),
                  theirs |-> r2.at2 + (start - r2.at1)]
        rest(now) == IF End1(r1) <= End1(r2)
                     THEN buildMergeRanges(Tail(oursEqual), theirsEqual, now, ends)
                     ELSE buildMergeRanges(oursEqual, Tail(theirsEqual), now, ends)
    IN  IF count <= 0 THEN rest(done)
        ELSE Only(equal # done, <<[from |-> done, to |-> equal]>>)
               \o rest([side \in DOMAIN equal |-> equal[side] + count])

buildSegments(base, ours, theirs, ranges, ignoreWhitespace) ==
  LET span(lines, range, side) == SubSeq(lines, range.from[side], range.to[side] - 1)
      from[k \in 1..Len(ranges) + 1, baseCursor \in 1..Len(base) + 1] ==
        IF k > Len(ranges) THEN Common(SubSeq(base, baseCursor, Len(base)))
        ELSE LET range == ranges[k]
             IN  Common(SubSeq(base, baseCursor, range.from.base - 1))
                   \o SpanSegments(span(base, range, "base"), span(ours, range, "ours"),
                                   span(theirs, range, "theirs"), ignoreWhitespace)
                   \o from[k + 1, range.to.base]
  IN  from[1, 1]

RECURSIVE mergeAdjacentCommon(_)
mergeAdjacentCommon(segments) ==
  IF Len(segments) < 2 THEN segments
  ELSE IF segments[1].kind = "common" /\ segments[2].kind = "common"
    THEN mergeAdjacentCommon(Common(segments[1].lines \o segments[2].lines)
                               \o SubSeq(segments, 3, Len(segments)))
    ELSE <<segments[1]>> \o mergeAdjacentCommon(Tail(segments))

parseConflictVersions(base, ours, theirs, ignoreWhitespace) ==
  LET ends(o, t) == [base |-> Len(base) + 1, ours |-> o, theirs |-> t]
      ranges == buildMergeRanges(diffLinesFair(base, ours, ignoreWhitespace),
                                 diffLinesFair(base, theirs, ignoreWhitespace),
                                 [base |-> 1, ours |-> 1, theirs |-> 1],
                                 ends(Len(ours) + 1, Len(theirs) + 1))
  IN  mergeAdjacentCommon(buildSegments(base, ours, theirs, ranges, ignoreWhitespace))

-----------------------------------------------------------------------------
(* What is applied.                                                            *)

isTrueConflict(segment) == segment.kind = "conflict" /\ segment.auto = None

getResultLines(segment, resolution) ==
  CASE resolution = "ours" -> segment.ours
    [] resolution = "theirs" -> segment.theirs
    [] resolution = "both" -> segment.ours \o segment.theirs
    [] resolution = "both-reversed" -> segment.theirs \o segment.ours
    [] resolution = "none" -> <<>>
    [] resolution = None ->
         IF segment.kind = "ours-only" THEN segment.ours
         ELSE IF segment.kind = "theirs-only" THEN segment.theirs
         ELSE IF segment.auto # None THEN segment.auto ELSE segment.base

\* buildResultContent, with a resolution for each hunk by its place.
buildResultContent(segments, resolutions) ==
  FlattenSeq([k \in DOMAIN segments |->
                IF segments[k].kind = "common" THEN segments[k].lines
                ELSE getResultLines(segments[k], resolutions[k])])

allResolved(segments, resolutions) ==
  \A k \in DOMAIN segments : isTrueConflict(segments[k]) => resolutions[k] # None

-----------------------------------------------------------------------------
(* What the merge promises of any three texts, where segments are what          *)
(* parseConflictVersions makes of them.                                        *)

All(segments, resolution) == buildResultContent(segments, [k \in DOMAIN segments |-> resolution])
Settled(segments) == allResolved(segments, [k \in DOMAIN segments |-> None])

\* Every hunk resolved to one side is that side, to the byte unless white space is ignored: no
\* line is lost, repeated or out of place in either pane (conflictParser.ts:83-105, 154-281).
SidesComeBack(segments, ours, theirs, ignoreWhitespace) ==
  /\ arraysEqual(All(segments, "ours"), ours, ignoreWhitespace)
  /\ arraysEqual(All(segments, "theirs"), theirs, ignoreWhitespace)

\* A side nobody changed gives way to the other, and what both changed alike is taken, with
\* nothing left to decide (conflictParser.ts:286-319; mergeState.ts:104-140).
UnchangedGivesWay(segments, base, ours, theirs, ignoreWhitespace) ==
  base \in {ours, theirs} \/ ours = theirs =>
    /\ Settled(segments)
    /\ arraysEqual(All(segments, None), IF ours = base THEN theirs ELSE ours, ignoreWhitespace)

\* The sides swapped, what is proposed is the same (autoMerge.ts:54-89; conflictParser.ts:333-352),
\* unless white space is ignored: of two sides that differ in nothing else, ours is taken.
SidesAreEqual(segments, swapped) ==
  /\ All(segments, None) = All(swapped, None)
  /\ \A k \in DOMAIN segments : isTrueConflict(segments[k]) <=> isTrueConflict(swapped[k])

Tokens(text) == {token \in UNION {{text[i][j] : j \in DOMAIN text[i]} : i \in DOMAIN text} : Width[token] > 0}

\* With nothing left to decide, what is applied has every word either side added, and no word that
\* neither has (autoMerge.ts:26-89; mergeState.ts:117-140).
NothingIsDropped(segments, base, ours, theirs) ==
  LET result == Tokens(All(segments, None))
  IN  Settled(segments) =>
        /\ (Tokens(ours) \cup Tokens(theirs)) \ Tokens(base) \subseteq result
        /\ result \subseteq Tokens(ours) \cup Tokens(theirs)

\* A line merged token by token has of every token what the base has and each side added or took
\* away: both edits are in it, once, and nothing else is (autoMerge.ts:47-90, 119-137).
BothEditsAreMade(segments, ignoreWhitespace) ==
  LET count(token, line) == Len(SelectSeq(line, LAMBDA t : t = token))
  IN  \A k \in DOMAIN segments :
        LET hunk == segments[k]
        IN  hunk.kind = "conflict" /\ hunk.auto # None
              /\ ~arraysEqual(hunk.ours, hunk.theirs, ignoreWhitespace) =>
              \A i \in DOMAIN hunk.base :
                Cardinality({hunk.base[i], hunk.ours[i], hunk.theirs[i]}) = 3 =>
                  \A token \in DOMAIN Width :
                    count(token, hunk.auto[i]) =
                      count(token, hunk.ours[i]) + count(token, hunk.theirs[i])
                        - count(token, hunk.base[i])

\* What one side changed before a line and the other after it merges by itself, to both changes,
\* when the line says something and occurs once in each text (lineDiff.ts:64-86, 200-243).
SeparateChangesMerge(segments, base, ours, theirs) ==
  \A p \in DOMAIN base, o \in DOMAIN ours, t \in DOMAIN theirs :
    LET upTo(text, at) == SubSeq(text, 1, at)
        after(text, at) == SubSeq(text, at + 1, Len(text))
        once(text) == Cardinality({i \in DOMAIN text : text[i] = base[p]}) = 1
    IN  (/\ nonSpaceCharCount(base[p]) > UNIMPORTANT_LINE_CHAR_COUNT
         /\ ours[o] = base[p] /\ theirs[t] = base[p] /\ once(base) /\ once(ours) /\ once(theirs)
         /\ after(ours, o) = after(base, p) /\ upTo(theirs, t) = upTo(base, p))
          => /\ Settled(segments)
             /\ All(segments, None) = upTo(ours, o) \o after(theirs, t)

=============================================================================
