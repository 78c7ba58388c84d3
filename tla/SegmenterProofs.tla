--------------------------- MODULE SegmenterProofs ---------------------------
(***************************************************************************)
(* What the segmenter promises of the stream, for texts of any length and  *)
(* any limit.  The scan is a recursive function of the position: what      *)
(* holds of it is proved by induction over a set of positions (Induction), *)
(* and that there is such a function at all is itself a lemma (Recursion). *)
(***************************************************************************)
EXTENDS Segmenter, SequenceTheorems, WellFoundedInduction, TLAPS

-----------------------------------------------------------------------------
(* Induction and recursion over an interval. *)

\* A set of naturals has a least one.
LEMMA LeastNat ==
    ASSUME NEW S \in SUBSET Nat, S # {}
    PROVE  \E n \in S : \A m \in S : n <= m
<1>1. PICK n \in S : \A m \in S : ~ (<<m, n>> \in OpToRel(<, Nat))
  BY NatLessThanWellFounded, WFMin
<1>2. \A m \in S : ~ (m < n)
  BY <1>1 DEF OpToRel
<1> QED
  BY <1>2

\* A set that holds 0 and goes on up to n holds every number up to n.
LEMMA Induction ==
    ASSUME NEW n \in Nat, NEW S, 0 \in S, \A i \in 1..n : i - 1 \in S => i \in S
    PROVE  \A i \in 0..n : i \in S
<1> DEFINE bad == {i \in 0..n : i \notin S}
<1> SUFFICES ASSUME bad # {} PROVE FALSE
  OBVIOUS
<1>1. bad \in SUBSET Nat
  OBVIOUS
<1>2. PICK b \in bad : \A m \in bad : b <= m
  BY <1>1, LeastNat
<1>3. b \in 0..n /\ b \notin S /\ b # 0
  BY <1>2
<1>4. b \in 1..n /\ b - 1 \in 0..n /\ ~ (b <= b - 1)
  BY <1>3
<1>5. b - 1 \in S
  BY <1>2, <1>4
<1> QED
  BY <1>3, <1>4, <1>5

\* g is base at 0, and at each i what step makes of i and of g one before.
Follows(g, n, T, base, step) ==
    /\ g \in [0..n -> T]
    /\ g[0] = base
    /\ \A i \in 1..n : g[i] = step[<<g[i - 1], i>>]

\* What each value says of the next one defines a function.
LEMMA Recursion ==
    ASSUME NEW n \in Nat, NEW T, NEW base \in T, NEW step,
           \A i \in 1..n : \A x \in T : step[<<x, i>>] \in T
    PROVE  \E g : Follows(g, n, T, base, step)
<1> DEFINE Upto(m) == \E g \in [0..m -> T] : g[0] = base /\ \A i \in 1..m : g[i] = step[<<g[i - 1], i>>]
           S == {m \in 0..n : Upto(m)}
<1>1. 0 \in S
  <2> DEFINE g == [i \in 0..0 |-> base]
  <2>1. g \in [0..0 -> T] /\ g[0] = base /\ 1..0 = {}
    OBVIOUS
  <2>2. \A i \in 1..0 : g[i] = step[<<g[i - 1], i>>]
    BY <2>1
  <2> HIDE DEF g
  <2>3. Upto(0)
    BY <2>1, <2>2
  <2>4. 0 \in 0..n
    OBVIOUS
  <2> QED
    BY <2>3, <2>4
<1>2. ASSUME NEW m \in 1..n, m - 1 \in S
      PROVE  m \in S
  <2>1. PICK g \in [0..m - 1 -> T] : g[0] = base /\ \A i \in 1..m - 1 : g[i] = step[<<g[i - 1], i>>]
    BY <1>2
  <2> DEFINE top == step[<<g[m - 1], m>>]
             h == [i \in 0..m |-> IF i = m THEN top ELSE g[i]]
  <2>2. m - 1 \in 0..m - 1 /\ g[m - 1] \in T
    BY <2>1
  <2>3. top \in T
    BY <2>2
  <2> HIDE DEF top
  <2>4. h \in [0..m -> T]
    BY <2>1, <2>3
  <2>5. \A i \in 0..m - 1 : i \in 0..m /\ i # m /\ h[i] = g[i]
    OBVIOUS
  <2>6. h[m] = top
    OBVIOUS
  <2> HIDE DEF h
  <2>7. h[0] = base
    <3>1. 0 \in 0..m - 1
      OBVIOUS
    <3> QED
      BY <2>1, <2>5, <3>1
  <2>8. ASSUME NEW i \in 1..m PROVE h[i] = step[<<h[i - 1], i>>]
    <3>1. i - 1 \in 0..m - 1 /\ (i \in 0..m - 1 \/ i = m)
      OBVIOUS
    <3>2. h[i - 1] = g[i - 1]
      BY <2>5, <3>1
    <3>3. CASE i = m
      BY <2>6, <3>2, <3>3 DEF top
    <3>4. CASE i \in 0..m - 1
      <4>1. i \in 1..m - 1
        BY <3>4
      <4> QED
        BY <2>1, <2>5, <3>2, <3>4, <4>1
    <3> QED
      BY <3>1, <3>3, <3>4
  <2>9. Upto(m)
    BY <2>4, <2>7, <2>8
  <2> QED
    BY <2>9
<1> HIDE DEF Upto
<1>3. n \in 0..n
  OBVIOUS
<1>4. n \in S
  <2>1. \A i \in 0..n : i \in S
    <3> HIDE DEF S
    <3> QED
      BY <1>1, <1>2, Induction
  <2> QED
    BY <1>3, <2>1
<1> QED
  BY <1>4 DEF Upto, Follows

-----------------------------------------------------------------------------
(* Strip. *)

\* A sequence over a piece of s.
LEMMA PieceFacts ==
    ASSUME NEW S, NEW s \in Seq(S), NEW a \in Nat, NEW b \in 0..Len(s)
    PROVE  /\ SubSeq(s, a + 1, b) \in Seq(S)
           /\ Len(SubSeq(s, a + 1, b)) = IF a <= b THEN b - a ELSE 0
           /\ \A i \in 1..b - a : SubSeq(s, a + 1, b)[i] = s[a + i] /\ a + i \in 1..Len(s)
<1>1. \A i \in a + 1..b : s[i] \in S
  <2> TAKE i \in a + 1..b
  <2>1. i \in 1..Len(s)
    OBVIOUS
  <2> QED
    BY <2>1
<1>2. /\ SubSeq(s, a + 1, b) \in Seq(S)
      /\ Len(SubSeq(s, a + 1, b)) = IF a + 1 <= b THEN b - (a + 1) + 1 ELSE 0
      /\ \A i \in 1..b - (a + 1) + 1 : SubSeq(s, a + 1, b)[i] = s[a + 1 + i - 1]
  <2>1. a + 1 \in Int /\ b \in Int
    OBVIOUS
  <2> QED
    BY <1>1, <2>1, SubSeqProperties
<1>3. (IF a + 1 <= b THEN b - (a + 1) + 1 ELSE 0) = IF a <= b THEN b - a ELSE 0
  OBVIOUS
<1>4. \A i \in 1..b - a : a + 1 + i - 1 = a + i /\ i \in 1..b - (a + 1) + 1 /\ a + i \in 1..Len(s)
  OBVIOUS
<1> QED
  BY <1>2, <1>3, <1>4

\* Strip takes off white space at the ends only.
LEMMA StripFacts ==
    ASSUME NEW s \in Text
    PROVE  \/ /\ Strip(s) = <<>>
              /\ \A i \in 1..Len(s) : s[i] \in White
           \/ \E lo, hi \in 1..Len(s) :
                 /\ lo <= hi /\ Strip(s) = SubSeq(s, lo, hi)
                 /\ s[lo] \notin White /\ s[hi] \notin White
                 /\ \A i \in 1..Len(s) : i < lo \/ i > hi => s[i] \in White
<1> DEFINE solid == {i \in DOMAIN s : s[i] \notin White}
<1>1. Len(s) \in Nat /\ DOMAIN s = 1..Len(s)
  BY DEF Text
<1>2. CASE solid = {}
  BY <1>1, <1>2 DEF Strip
<1>3. CASE solid # {}
  <2>1. solid \in SUBSET Nat
    BY <1>1
  <2>2. PICK lo \in solid : \A j \in solid : lo <= j
    BY <1>3, <2>1, LeastNat
  <2>3. PICK hi \in solid : \A j \in solid : j <= hi
    <3> DEFINE S == {Len(s) - i : i \in solid}
    <3>1. S \in SUBSET Nat /\ S # {}
      BY <1>1, <1>3
    <3>2. PICK m \in S : \A k \in S : m <= k
      BY <3>1, LeastNat
    <3>3. PICK h \in solid : m = Len(s) - h
      BY <3>2
    <3>4. \A j \in solid : Len(s) - h <= Len(s) - j
      BY <3>2, <3>3
    <3>5. \A j \in solid : j <= h
      <4> TAKE j \in solid
      <4>1. Len(s) - h <= Len(s) - j /\ j \in Nat /\ h \in Nat
        BY <2>1, <3>4
      <4> QED
        BY <1>1, <4>1
    <3> QED
      BY <3>5
  <2>4. lo = CHOOSE i \in solid : \A j \in solid : i <= j
    <3>1. \A i \in solid : (\A j \in solid : i <= j) => i = lo
      BY <2>1, <2>2
    <3> QED
      BY <2>2, <3>1
  <2>5. hi = CHOOSE i \in solid : \A j \in solid : j <= i
    <3>1. \A i \in solid : (\A j \in solid : j <= i) => i = hi
      BY <2>1, <2>3
    <3> QED
      BY <2>3, <3>1
  <2>6. Strip(s) = SubSeq(s, lo, hi)
    BY <1>3, <2>4, <2>5 DEF Strip
  <2>7. lo \in 1..Len(s) /\ hi \in 1..Len(s) /\ lo <= hi /\ s[lo] \notin White /\ s[hi] \notin White
    BY <1>1, <2>2, <2>3
  <2>8. \A i \in 1..Len(s) : i < lo \/ i > hi => s[i] \in White
    BY <1>1, <2>1, <2>2, <2>3
  <2> HIDE DEF solid
  <2> QED
    BY <2>6, <2>7, <2>8
<1> QED
  BY <1>2, <1>3

\* What is stripped is a text, no longer than what was there.
LEMMA StripType ==
    ASSUME NEW s \in Text
    PROVE  Strip(s) \in Text /\ Len(Strip(s)) <= Len(s)
<1>1. Len(s) \in Nat /\ \A i \in 1..Len(s) : s[i] \in Char
  BY DEF Text
<1>2. CASE Strip(s) = <<>>
  BY <1>1, <1>2 DEF Text
<1>3. ASSUME NEW lo \in 1..Len(s), NEW hi \in 1..Len(s), lo <= hi, Strip(s) = SubSeq(s, lo, hi)
      PROVE  Strip(s) \in Text /\ Len(Strip(s)) <= Len(s)
  <2>1. lo \in Int /\ hi \in Int /\ \A i \in lo..hi : s[i] \in Char
    BY <1>1
  <2>2. SubSeq(s, lo, hi) \in Seq(Char) /\ Len(SubSeq(s, lo, hi)) = hi - lo + 1
    BY <1>3, <2>1, SubSeqProperties
  <2> QED
    BY <1>1, <1>3, <2>2 DEF Text
<1> QED
  BY <1>2, <1>3, StripFacts

\* No segment or one.
LEMMA NonEmptyType ==
    ASSUME NEW s \in Text
    PROVE  NonEmpty(s) \in Seq(Text) /\ (NonEmpty(s) = <<>> \/ NonEmpty(s) = <<Strip(s)>>)
BY StripType DEF NonEmpty

-----------------------------------------------------------------------------
(* The scan. *)

ScanState(s) ==
    [start : 0..Len(s), fence : BOOLEAN, skip : 0..2, segments : Seq(Text), cuts : SUBSET (1..Len(s))]

ScanStart(fence) == [start |-> 0, fence |-> fence, skip |-> 0, segments |-> <<>>, cuts |-> {}]

\* The four things a character of the scan can do: be part of the marker before
\* it, be the first of a marker, end a segment, or none of these.
SkipsOver(scan, next) ==
    /\ scan.skip > 0 /\ next.skip = scan.skip - 1
    /\ next.start = scan.start /\ next.fence = scan.fence
    /\ next.segments = scan.segments /\ next.cuts = scan.cuts

MeetsFence(s, scan, i, next) ==
    /\ scan.skip = 0 /\ FenceAt(s, i)
    /\ next.skip = 2 /\ next.fence = ~ scan.fence
    /\ next.start = scan.start
    /\ next.segments = scan.segments /\ next.cuts = scan.cuts

EndsSegment(s, scan, i, next) ==
    /\ scan.skip = 0 /\ ~ FenceAt(s, i) /\ CutsAfter(s, scan, i)
    /\ next.start = i /\ next.fence = scan.fence /\ next.skip = 0
    /\ next.segments = scan.segments \o NonEmpty(SubSeq(s, scan.start + 1, i))
    /\ next.cuts = scan.cuts \cup {i}

GoesOn(s, scan, i, next) ==
    scan.skip = 0 /\ ~ FenceAt(s, i) /\ ~ CutsAfter(s, scan, i) /\ next = scan

\* These are the steps of the scan.
LEMMA StepCases ==
    ASSUME NEW s \in Text, NEW scan \in ScanState(s), NEW i \in 1..Len(s),
           NEW next, next = ScanStep(s, scan, i)
    PROVE  /\ next \in ScanState(s)
           /\ \/ SkipsOver(scan, next) \/ MeetsFence(s, scan, i, next)
              \/ EndsSegment(s, scan, i, next) \/ GoesOn(s, scan, i, next)
<1>0. /\ scan.start \in 0..Len(s) /\ scan.start \in Nat /\ scan.fence \in BOOLEAN /\ scan.skip \in 0..2
      /\ scan.segments \in Seq(Text) /\ scan.cuts \in SUBSET (1..Len(s)) /\ i \in 0..Len(s)
      /\ Len(s) \in Nat
  BY DEF ScanState, Text
<1>1. CASE scan.skip > 0
  <2>1. next = [scan EXCEPT !.skip = scan.skip - 1]
    BY <1>1 DEF ScanStep
  <2>2. scan.skip - 1 \in 0..2
    BY <1>0, <1>1
  <2>3. next \in ScanState(s) /\ SkipsOver(scan, next)
    BY <1>0, <1>1, <2>1, <2>2 DEF ScanState, SkipsOver
  <2> QED
    BY <2>3
<1>2. CASE scan.skip = 0 /\ FenceAt(s, i)
  <2>0. PICK flipped \in BOOLEAN : flipped = ~ scan.fence
    OBVIOUS
  <2>1. next = [scan EXCEPT !.fence = flipped, !.skip = 2]
    BY <1>2, <2>0 DEF ScanStep
  <2>2. PICK mid \in ScanState(s) : mid = [scan EXCEPT !.fence = flipped]
    BY <1>0 DEF ScanState
  <2>3. next = [mid EXCEPT !.skip = 2]
    BY <2>1, <2>2
  <2>5. next \in ScanState(s)
    <3>1. PICK two \in 0..2 : two = 2
      OBVIOUS
    <3>2. next = [mid EXCEPT !.skip = two]
      BY <2>3, <3>1
    <3> QED
      BY <2>2, <3>2 DEF ScanState
  <2>6. /\ next.fence = flipped /\ next.skip = 2 /\ next.start = scan.start
        /\ next.segments = scan.segments /\ next.cuts = scan.cuts
    BY <1>0, <2>1 DEF ScanState
  <2>4. MeetsFence(s, scan, i, next)
    BY <1>2, <2>0, <2>6 DEF MeetsFence
  <2> QED
    BY <2>4, <2>5
<1>3. CASE scan.skip = 0 /\ ~ FenceAt(s, i) /\ CutsAfter(s, scan, i)
  <2> DEFINE segments == scan.segments \o NonEmpty(SubSeq(s, scan.start + 1, i))
             marks == scan.cuts \cup {i}
  <2>1. next = [scan EXCEPT !.start = i, !.segments = segments, !.cuts = marks]
    BY <1>3 DEF ScanStep
  <2>2. segments \in Seq(Text)
    <3>1. SubSeq(s, scan.start + 1, i) \in Text
      BY <1>0, PieceFacts DEF Text
    <3>2. NonEmpty(SubSeq(s, scan.start + 1, i)) \in Seq(Text)
      BY <3>1, NonEmptyType
    <3> QED
      BY <1>0, <3>2, ConcatProperties
  <2>3. marks \in SUBSET (1..Len(s))
    BY <1>0
  <2> HIDE DEF segments, marks
  <2>4. next \in ScanState(s) /\ next.start = i /\ next.fence = scan.fence /\ next.skip = 0
        /\ next.segments = segments /\ next.cuts = marks
    BY <1>0, <1>3, <2>1, <2>2, <2>3 DEF ScanState
  <2>5. EndsSegment(s, scan, i, next)
    BY <1>3, <2>4 DEF EndsSegment, segments, marks
  <2> QED
    BY <2>4, <2>5
<1>4. CASE scan.skip = 0 /\ ~ FenceAt(s, i) /\ ~ CutsAfter(s, scan, i)
  <2>1. ~ (scan.skip > 0)
    BY <1>4
  <2>2. next = scan
    BY <1>4, <2>1 DEF ScanStep
  <2> QED
    BY <1>4, <2>2 DEF GoesOn
<1>5. scan.skip > 0 \/ scan.skip = 0
  BY <1>0
<1> QED
  BY <1>1, <1>2, <1>3, <1>4, <1>5

\* The scan is what its definition says: the start, and then step by step.
LEMMA ScansFacts ==
    ASSUME NEW s \in Text, NEW fence \in BOOLEAN
    PROVE  /\ Scans(s, fence)[0] = ScanStart(fence)
           /\ \A i \in 1..Len(s) : Scans(s, fence)[i] = ScanStep(s, Scans(s, fence)[i - 1], i)
           /\ \A i \in 0..Len(s) : Scans(s, fence)[i] \in ScanState(s)
<1> DEFINE n == Len(s)
           T == ScanState(s)
           base == ScanStart(fence)
           step == [p \in T \X (1..n) |-> ScanStep(s, p[1], p[2])]
           f == Scans(s, fence)
<1>1. n \in Nat /\ base \in T
  BY DEF Text, ScanStart, ScanState
<1>2. \A x \in T, i \in 1..n : step[<<x, i>>] = ScanStep(s, x, i) /\ ScanStep(s, x, i) \in T
  BY StepCases
<1> HIDE DEF T, base, step, n
<1>3. PICK g \in [0..n -> T] : g[0] = base /\ \A i \in 1..n : g[i] = step[<<g[i - 1], i>>]
  <2>1. \E g : Follows(g, n, T, base, step)
    <3>1. \A i \in 1..n : \A x \in T : step[<<x, i>>] \in T
      BY <1>2
    <3> QED
      BY <1>1, <3>1, Recursion
  <2> QED
    BY <2>1 DEF Follows
<1>4. \A i \in 0..n : i = 0 \/ (i \in 1..n /\ i - 1 \in 0..n)
  BY <1>1
<1>5. g = [i \in 0..n |-> IF i = 0 THEN base ELSE ScanStep(s, g[i - 1], i)]
  <2>1. \A i \in 0..n : g[i] = IF i = 0 THEN base ELSE ScanStep(s, g[i - 1], i)
    BY <1>2, <1>3, <1>4
  <2> QED
    BY <1>3, <2>1
<1>6. f = [i \in 0..n |-> IF i = 0 THEN base ELSE ScanStep(s, f[i - 1], i)]
  BY <1>5 DEF Scans, n, base, ScanStart
<1> HIDE DEF f
<1>7. f[0] = base
  <2>1. 0 \in 0..n
    BY <1>1
  <2> QED
    BY <1>6, <2>1
<1>8. \A i \in 1..n : f[i] = ScanStep(s, f[i - 1], i)
  <2>1. \A i \in 1..n : i \in 0..n /\ i # 0
    BY <1>1
  <2> QED
    BY <1>6, <2>1
<1>9. \A i \in 0..n : f[i] \in T
  <2> DEFINE S == {i \in 0..n : f[i] \in T}
  <2>1. 0 \in S
    BY <1>1, <1>7
  <2>2. \A i \in 1..n : i - 1 \in S => i \in S
    <3> TAKE i \in 1..n
    <3>1. i \in 0..n
      BY <1>1
    <3> QED
      BY <1>2, <1>8, <3>1
  <2> HIDE DEF S
  <2>3. \A i \in 0..n : i \in S
    BY <1>1, <2>1, <2>2, Induction
  <2> QED
    BY <2>3 DEF S
<1> QED
  BY <1>7, <1>8, <1>9 DEF n, T, base, f

-----------------------------------------------------------------------------
(* Markers of fenced code. *)

\* A marker is three backquotes.
LEMMA MarkerIs ==
    ASSUME NEW s, NEW i \in Nat
    PROVE  FenceAt(s, i) <=> i + 2 <= Len(s) /\ s[i] = "f" /\ s[i + 1] = "f" /\ s[i + 2] = "f"
<1>1. \A k \in i..i + 2 : k = i \/ k = i + 1 \/ k = i + 2
  OBVIOUS
<1>2. i \in i..i + 2 /\ i + 1 \in i..i + 2 /\ i + 2 \in i..i + 2
  OBVIOUS
<1> QED
  BY <1>1, <1>2 DEF FenceAt

\* A marker lies between the characters after the a-th and the b-th.
Marked(s, a, b) == \E j \in Nat : a < j /\ j + 2 <= b /\ FenceAt(s, j)

\* A text has a fence when a marker is somewhere in it.
LEMMA FenceIsMarker ==
    ASSUME NEW s \in Text
    PROVE  HasFence(s) <=> Marked(s, 0, Len(s))
<1>1. Len(s) \in Nat /\ DOMAIN s = 1..Len(s)
  BY DEF Text
<1>2. \A i \in Nat : FenceAt(s, i) => i + 2 <= Len(s)
  BY DEF FenceAt
<1>3. \A i \in Nat : FenceAt(s, i) /\ 0 < i => i \in 1..Len(s)
  BY <1>1, <1>2
<1> QED
  BY <1>1, <1>2, <1>3 DEF HasFence, Marked

\* A piece that holds a marker has a fence.
LEMMA MarkerInPiece ==
    ASSUME NEW s \in Text, NEW a \in Nat, NEW b \in 0..Len(s), Marked(s, a, b)
    PROVE  HasFence(SubSeq(s, a + 1, b))
<1> DEFINE piece == SubSeq(s, a + 1, b)
<1>1. PICK j \in Nat : a < j /\ j + 2 <= b /\ FenceAt(s, j)
  BY DEF Marked
<1>2. /\ piece \in Text /\ Len(piece) = IF a <= b THEN b - a ELSE 0
      /\ \A i \in 1..b - a : piece[i] = s[a + i]
  BY PieceFacts DEF Text
<1>3. b \in Nat
  BY DEF Text
<1> HIDE DEF piece
<1>4. PICK k \in Nat : k = j - a
  BY <1>1
<1>5. /\ k \in 1..b - a /\ k + 1 \in 1..b - a /\ k + 2 \in 1..b - a
      /\ a + k = j /\ a + (k + 1) = j + 1 /\ a + (k + 2) = j + 2
      /\ a <= b /\ k + 2 <= b - a
  BY <1>1, <1>3, <1>4
<1>6. s[j] = "f" /\ s[j + 1] = "f" /\ s[j + 2] = "f"
  BY <1>1, MarkerIs
<1>7. piece[k] = "f" /\ piece[k + 1] = "f" /\ piece[k + 2] = "f" /\ k + 2 <= Len(piece)
  BY <1>2, <1>5, <1>6
<1>8. FenceAt(piece, k)
  BY <1>7, MarkerIs
<1>9. Marked(piece, 0, Len(piece))
  BY <1>5, <1>7, <1>8 DEF Marked
<1> QED
  BY <1>2, <1>9, FenceIsMarker DEF piece

\* A marker is not white space: stripping leaves it.
LEMMA StripKeepsFence ==
    ASSUME NEW s \in Text, HasFence(s)
    PROVE  HasFence(Strip(s))
<1>1. PICK j \in Nat : 0 < j /\ j + 2 <= Len(s) /\ FenceAt(s, j)
  BY FenceIsMarker DEF Marked
<1>2. Len(s) \in Nat
  BY DEF Text
<1>3. s[j] \notin White /\ s[j + 2] \notin White
  BY <1>1, MarkerIs DEF White
<1>4. j \in 1..Len(s) /\ j + 2 \in 1..Len(s)
  BY <1>1, <1>2
<1>5. PICK lo, hi \in 1..Len(s) : /\ lo <= hi /\ Strip(s) = SubSeq(s, lo, hi)
                                  /\ \A i \in 1..Len(s) : i < lo \/ i > hi => s[i] \in White
  BY <1>3, <1>4, StripFacts
<1>6. lo \in Nat /\ hi \in Nat /\ lo <= j /\ j + 2 <= hi
  BY <1>2, <1>3, <1>4, <1>5
<1>7. PICK a \in Nat : a = lo - 1 /\ lo = a + 1
  <2>1. lo - 1 \in Nat /\ lo = (lo - 1) + 1
    BY <1>2, <1>5
  <2> QED
    BY <2>1
<1>8. Marked(s, a, hi)
  BY <1>1, <1>6, <1>7 DEF Marked
<1>9. hi \in 0..Len(s)
  BY <1>2, <1>5
<1> QED
  BY <1>5, <1>7, <1>8, <1>9, MarkerInPiece

\* A text that goes on keeps its markers.
LEMMA MarkerStays ==
    ASSUME NEW s \in Text, NEW t \in Text, HasFence(s)
    PROVE  HasFence(s \o t)
<1>1. PICK j \in Nat : 0 < j /\ j + 2 <= Len(s) /\ FenceAt(s, j)
  BY FenceIsMarker DEF Marked
<1>2. /\ s \o t \in Text /\ Len(s \o t) = Len(s) + Len(t) /\ Len(s) \in Nat /\ Len(t) \in Nat
      /\ \A i \in 1..Len(s) : (s \o t)[i] = s[i]
  BY ConcatProperties DEF Text
<1>3. j \in 1..Len(s) /\ j + 1 \in 1..Len(s) /\ j + 2 \in 1..Len(s) /\ j + 2 <= Len(s \o t)
  BY <1>1, <1>2
<1>4. FenceAt(s \o t, j)
  BY <1>1, <1>2, <1>3, MarkerIs
<1> QED
  BY <1>1, <1>2, <1>3, <1>4, FenceIsMarker DEF Marked

-----------------------------------------------------------------------------
(* Segments are bounded. *)

Bounded(x) == HasFence(x) \/ Len(x) <= MaxChars

\* What was passed over since the last cut is short, or holds a marker; a
\* marker is never passed over by half.
Held(s, scan, i) ==
    /\ scan.start <= i /\ i + scan.skip <= Len(s)
    /\ scan.skip > 0 => Marked(s, scan.start, i + scan.skip)
    /\ scan.fence => Marked(s, scan.start, Len(s))
    /\ ~ scan.fence => i - scan.start < MaxChars \/ Marked(s, scan.start, i + scan.skip)
    /\ \A k \in 1..Len(scan.segments) : Bounded(scan.segments[k])

\* What has one marker up to b has one up to a later place.
LEMMA MarkedWidens ==
    ASSUME NEW s, NEW a \in Nat, NEW b \in Nat, NEW c \in Nat, b <= c, Marked(s, a, b)
    PROVE  Marked(s, a, c)
<1>1. PICK j \in Nat : a < j /\ j + 2 <= b /\ FenceAt(s, j)
  BY DEF Marked
<1>2. j + 2 <= c
  BY <1>1
<1> QED
  BY <1>1, <1>2 DEF Marked

\* The segment cut off is bounded, if it is short or holds a marker.
LEMMA CutIsBounded ==
    ASSUME NEW s \in Text, NEW a \in Nat, NEW b \in 0..Len(s), NEW segments \in Seq(Text),
           \A k \in 1..Len(segments) : Bounded(segments[k]),
           (a <= b /\ b - a <= MaxChars) \/ Marked(s, a, b)
    PROVE  LET new == segments \o NonEmpty(SubSeq(s, a + 1, b))
           IN  new \in Seq(Text) /\ \A k \in 1..Len(new) : Bounded(new[k])
<1> DEFINE piece == SubSeq(s, a + 1, b)
           tail == NonEmpty(piece)
<1>1. piece \in Text /\ Len(piece) = IF a <= b THEN b - a ELSE 0
  BY PieceFacts DEF Text
<1>2. Bounded(Strip(piece))
  <2>1. CASE Marked(s, a, b)
    BY <1>1, <2>1, MarkerInPiece, StripKeepsFence DEF Bounded
  <2>2. CASE a <= b /\ b - a <= MaxChars
    <3>1. Len(piece) <= MaxChars /\ Len(Strip(piece)) <= Len(piece)
      BY <1>1, <2>2, StripType
    <3>2. Len(Strip(piece)) \in Nat /\ Len(piece) \in Nat /\ MaxChars \in Nat
      BY <1>1, StripType, SegmenterAssumption DEF Text
    <3>3. Len(Strip(piece)) <= MaxChars
      <4> DEFINE x == Len(Strip(piece))
                 y == Len(piece)
      <4> HIDE DEF x, y
      <4>1. x <= y /\ y <= MaxChars /\ x \in Nat /\ y \in Nat
        BY <3>1, <3>2 DEF x, y
      <4>2. x <= MaxChars
        BY <3>2, <4>1
      <4> QED
        BY <4>2 DEF x
    <3> QED
      BY <3>3 DEF Bounded
  <2> QED
    BY <2>1, <2>2
<1>3. tail \in Seq(Text) /\ (tail = <<>> \/ tail = <<Strip(piece)>>)
  BY <1>1, NonEmptyType
<1> HIDE DEF piece, tail
<1>4. Len(tail) \in 0..1 /\ \A k \in 1..Len(tail) : Bounded(tail[k])
  BY <1>2, <1>3
<1>5. /\ segments \o tail \in Seq(Text) /\ Len(segments \o tail) = Len(segments) + Len(tail)
      /\ \A k \in 1..Len(segments) : (segments \o tail)[k] = segments[k]
      /\ \A k \in 1..Len(tail) : (segments \o tail)[Len(segments) + k] = tail[k]
      /\ Len(segments) \in Nat
  BY <1>3, ConcatProperties
<1>6. ASSUME NEW k \in 1..Len(segments \o tail)
      PROVE  Bounded((segments \o tail)[k])
  <2>1. CASE k \in 1..Len(segments)
    BY <1>5, <2>1
  <2>2. CASE k \notin 1..Len(segments)
    <3>1. k = Len(segments) + 1 /\ 1 \in 1..Len(tail)
      BY <1>4, <1>5, <2>2
    <3> QED
      BY <1>4, <1>5, <3>1
  <2> QED
    BY <2>1, <2>2
<1> QED
  BY <1>5, <1>6 DEF piece, tail

\* Every step of the scan keeps it so.
LEMMA HeldStep ==
    ASSUME NEW s \in Text, NEW scan \in ScanState(s), NEW i \in 1..Len(s),
           NEW next, next = ScanStep(s, scan, i), Held(s, scan, i - 1)
    PROVE  Held(s, next, i)
<1>1. next \in ScanState(s)
  BY StepCases
<1>2. /\ scan.start \in Nat /\ scan.skip \in 0..2 /\ scan.fence \in BOOLEAN /\ scan.segments \in Seq(Text)
      /\ next.start \in Nat /\ next.skip \in 0..2 /\ next.fence \in BOOLEAN
      /\ Len(s) \in Nat /\ i \in Nat /\ i - 1 \in Nat /\ i \in 0..Len(s) /\ MaxChars \in Nat \ {0}
  BY <1>1, SegmenterAssumption DEF ScanState, Text
<1>3. CASE SkipsOver(scan, next)
  <2>1. i + next.skip = (i - 1) + scan.skip
    BY <1>2, <1>3 DEF SkipsOver
  <2>2. /\ next.start = scan.start /\ next.fence = scan.fence
        /\ next.segments = scan.segments /\ scan.skip > 0
    BY <1>3 DEF SkipsOver
  <2>3. next.start <= i
    BY <1>2, <2>2 DEF Held
  <2>4. Marked(s, next.start, i + next.skip)
    BY <2>1, <2>2 DEF Held
  <2>5. next.fence => Marked(s, next.start, Len(s))
    BY <2>2 DEF Held
  <2> QED
    BY <2>1, <2>2, <2>3, <2>4, <2>5 DEF Held
<1>4. CASE MeetsFence(s, scan, i, next)
  <2>1. /\ next.start = scan.start /\ next.segments = scan.segments /\ next.skip = 2
        /\ FenceAt(s, i)
    BY <1>4 DEF MeetsFence
  <2>2. i + 2 <= Len(s) /\ next.start < i /\ next.start <= i
    BY <1>2, <2>1 DEF Held, FenceAt
  <2>3. Marked(s, next.start, i + next.skip)
    BY <1>2, <2>1, <2>2 DEF Marked
  <2>4. Marked(s, next.start, Len(s))
    BY <1>2, <2>1, <2>2 DEF Marked
  <2> QED
    BY <2>1, <2>2, <2>3, <2>4 DEF Held
<1>5. CASE EndsSegment(s, scan, i, next)
  <2>1. /\ next.start = i /\ next.fence = scan.fence /\ ~ scan.fence /\ next.skip = 0 /\ scan.skip = 0
        /\ next.segments = scan.segments \o NonEmpty(SubSeq(s, scan.start + 1, i))
    BY <1>5 DEF EndsSegment, CutsAfter
  <2>2. next.start <= i /\ i + next.skip <= Len(s) /\ i - next.start < MaxChars
    BY <1>2, <2>1
  <2>3. (scan.start <= i /\ i - scan.start <= MaxChars) \/ Marked(s, scan.start, i)
    <3>1. (i - 1) - scan.start < MaxChars \/ Marked(s, scan.start, (i - 1) + scan.skip)
      BY <2>1 DEF Held
    <3>2. CASE (i - 1) - scan.start < MaxChars
      <4>1. scan.start <= i - 1
        BY DEF Held
      <4> QED
        BY <1>2, <3>2, <4>1
    <3>3. CASE Marked(s, scan.start, (i - 1) + scan.skip)
      <4>1. (i - 1) + scan.skip \in Nat /\ (i - 1) + scan.skip <= i
        BY <1>2, <2>1
      <4> QED
        BY <1>2, <3>3, <4>1, MarkedWidens
    <3> QED
      BY <3>1, <3>2, <3>3
  <2>4. \A k \in 1..Len(scan.segments) : Bounded(scan.segments[k])
    BY DEF Held
  <2>5. \A k \in 1..Len(next.segments) : Bounded(next.segments[k])
    BY <1>2, <2>1, <2>3, <2>4, CutIsBounded
  <2>6. ~ next.fence /\ ~ (next.skip > 0)
    BY <2>1
  <2> QED
    BY <2>2, <2>5, <2>6 DEF Held
<1>6. CASE GoesOn(s, scan, i, next)
  <2>1. next = scan /\ scan.skip = 0 /\ (scan.fence \/ ~ (i - scan.start >= MaxChars))
    BY <1>6 DEF GoesOn, CutsAfter
  <2>2. next.start <= i /\ i + next.skip <= Len(s) /\ ~ (next.skip > 0)
    BY <1>2, <2>1 DEF Held
  <2>3. ~ next.fence => i - next.start < MaxChars
    BY <1>2, <2>1
  <2>4. next.fence => Marked(s, next.start, Len(s))
    BY <2>1 DEF Held
  <2> QED
    BY <2>1, <2>2, <2>3, <2>4 DEF Held
<1> QED
  BY <1>3, <1>4, <1>5, <1>6, StepCases

\* So is every state of the scan of a text that has a fence if one is open.
LEMMA ScanHolds ==
    ASSUME NEW s \in Text, NEW fence \in BOOLEAN, fence => HasFence(s)
    PROVE  \A i \in 0..Len(s) : Held(s, Scans(s, fence)[i], i)
<1> DEFINE f == Scans(s, fence)
           S == {i \in 0..Len(s) : Held(s, f[i], i)}
<1>1. Len(s) \in Nat
  BY DEF Text
<1>2. 0 \in S
  <2>0. f[0] = ScanStart(fence)
    BY ScansFacts
  <2>1. /\ f[0].start = 0 /\ f[0].fence = fence /\ f[0].skip = 0 /\ f[0].segments = <<>>
    <3> HIDE DEF f
    <3> QED
      BY <2>0 DEF ScanStart
  <2>2. f[0].fence => Marked(s, 0, Len(s))
    BY <2>1, FenceIsMarker
  <2>3. 0 - 0 < MaxChars
    BY SegmenterAssumption
  <2> HIDE DEF f
  <2>4. \A k \in 1..Len(f[0].segments) : Bounded(f[0].segments[k])
    BY <2>1
  <2>5. Held(s, f[0], 0)
    BY <1>1, <2>1, <2>2, <2>3, <2>4 DEF Held
  <2> QED
    BY <1>1, <2>5
<1>3. ASSUME NEW i \in 1..Len(s), i - 1 \in S PROVE i \in S
  <2>1. f[i - 1] \in ScanState(s) /\ f[i] = ScanStep(s, f[i - 1], i)
    BY <1>1, ScansFacts
  <2> HIDE DEF f
  <2>2. Held(s, f[i], i)
    BY <1>3, <2>1, HeldStep
  <2> QED
    BY <1>1, <2>2
<1> HIDE DEF S
<1>4. \A i \in 0..Len(s) : i \in S
  BY <1>1, <1>2, <1>3, Induction
<1> QED
  BY <1>4 DEF S

-----------------------------------------------------------------------------
(* The steps of the segmenter. *)

\* The type of the state; text and cuts are read by the properties only.
TypeInv ==
    /\ buffer \in Text /\ inFence \in BOOLEAN /\ out \in Seq(Text) /\ done \in BOOLEAN
    /\ text \in Text /\ cuts \in SUBSET Int /\ pushes \in {"none", "one", "several"}

\* What the scan of a text leaves behind.
LEMMA ScanType ==
    ASSUME NEW s \in Text, NEW fence \in BOOLEAN
    PROVE  /\ Scan(s, fence) \in ScanState(s)
           /\ Scan(s, fence).start \in 0..Len(s) /\ Scan(s, fence).fence \in BOOLEAN
           /\ Scan(s, fence).segments \in Seq(Text) /\ Scan(s, fence).cuts \in SUBSET (1..Len(s))
           /\ Rest(s, Scan(s, fence)) \in Text
<1>1. Len(s) \in Nat /\ Len(s) \in 0..Len(s)
  BY DEF Text
<1>2. Scan(s, fence) \in ScanState(s)
  BY <1>1, ScansFacts DEF Scan
<1> DEFINE scan == Scan(s, fence)
<1> HIDE DEF scan
<1>3. /\ scan.start \in 0..Len(s) /\ scan.start \in Nat /\ scan.fence \in BOOLEAN
      /\ scan.segments \in Seq(Text) /\ scan.cuts \in SUBSET (1..Len(s))
  BY <1>1, <1>2 DEF ScanState, scan
<1>4. Rest(s, scan) \in Text
  BY <1>1, <1>3, PieceFacts DEF Rest, Text
<1> QED
  BY <1>2, <1>3, <1>4 DEF scan

\* Init and every step keep the type.
LEMMA InitType == Init => TypeInv
<1> SUFFICES ASSUME Init PROVE TypeInv
  OBVIOUS
<1>1. buffer = <<>> /\ text = <<>> /\ out = <<>> /\ cuts = {} /\ inFence = FALSE /\ done = FALSE /\ pushes = "none"
  BY DEF Init
<1>2. buffer \in Text /\ text \in Text /\ out \in Seq(Text)
  BY <1>1 DEF Text
<1> QED
  BY <1>1, <1>2 DEF TypeInv

\* A chunk is a text.
LEMMA ChunkIsText ==
    ASSUME NEW n \in Nat, NEW chunk \in [1..n -> Char]
    PROVE  chunk \in Text /\ Len(chunk) = n
BY DEF Text

\* push keeps the type.
LEMMA PushType ==
    ASSUME TypeInv, NEW chunk \in Text, Push(chunk)
    PROVE  TypeInv'
<1> DEFINE s == buffer \o chunk
           scan == Scan(s, inFence)
<1>1. s \in Text /\ text \o chunk \in Text
  BY ConcatProperties DEF TypeInv, Text
<1>2. /\ buffer' = Rest(s, scan) /\ inFence' = scan.fence /\ out' = out \o scan.segments
      /\ cuts' = cuts \cup {Len(text) - Len(buffer) + i : i \in scan.cuts}
      /\ text' = text \o chunk /\ pushes' = (IF pushes = "none" THEN "one" ELSE "several")
      /\ done' = done
  BY DEF Push
<1>3. /\ scan.fence \in BOOLEAN /\ scan.segments \in Seq(Text) /\ scan.cuts \in SUBSET (1..Len(s))
      /\ Rest(s, scan) \in Text
  BY <1>1, ScanType DEF TypeInv
<1> HIDE DEF s, scan
<1>4. out' \in Seq(Text)
  BY <1>2, <1>3, ConcatProperties DEF TypeInv
<1>5. cuts' \in SUBSET Int
  <2>1. Len(text) \in Nat /\ Len(buffer) \in Nat /\ Len(s) \in Nat
    BY <1>1 DEF TypeInv, Text
  <2>2. \A i \in scan.cuts : Len(text) - Len(buffer) + i \in Int
    BY <1>3, <2>1
  <2> QED
    BY <1>2, <2>2 DEF TypeInv
<1>6. pushes' \in {"none", "one", "several"}
  BY <1>2
<1>7. done' \in BOOLEAN
  BY <1>2 DEF TypeInv
<1> QED
  BY <1>1, <1>2, <1>3, <1>4, <1>5, <1>6, <1>7 DEF TypeInv

\* flush keeps the type.
LEMMA FlushType ==
    ASSUME TypeInv, Flush
    PROVE  TypeInv'
<1>1. /\ out' = out \o NonEmpty(buffer) /\ buffer' = <<>> /\ done' = TRUE
      /\ UNCHANGED <<inFence, text, cuts, pushes>>
  BY DEF Flush
<1>2. out' \in Seq(Text) /\ buffer' \in Text
  BY <1>1, NonEmptyType, ConcatProperties DEF TypeInv, Text
<1> QED
  BY <1>1, <1>2 DEF TypeInv

\* A step pushes a text, flushes, or does nothing.
LEMMA Steps ==
    ASSUME TypeInv, [Next]_vars
    PROVE  (\E chunk \in Text : Push(chunk)) \/ Flush \/ UNCHANGED vars
<1>1. ASSUME NEW n \in 1..MaxText - Len(text), NEW chunk \in [1..n -> Char], Push(chunk)
      PROVE  \E c \in Text : Push(c)
  <2>1. n \in Nat
    BY SegmenterAssumption DEF TypeInv, Text
  <2> QED
    BY <1>1, <2>1, ChunkIsText
<1> QED
  BY <1>1 DEF Next

\* The type of the segmenter's state holds throughout.
THEOREM SegmenterTypes == Spec => []TypeInv
<1>1. TypeInv /\ [Next]_vars => TypeInv'
  <2> SUFFICES ASSUME TypeInv, [Next]_vars PROVE TypeInv'
    OBVIOUS
  <2>1. CASE UNCHANGED vars
    BY <2>1 DEF vars, TypeInv
  <2> QED
    BY <2>1, Steps, PushType, FlushType
<1> QED
  BY <1>1, InitType, PTL DEF Spec

-----------------------------------------------------------------------------
(* SegmentsAreBounded. *)

\* What waits in the buffer holds the marker of an open fence, or is short.
BufferInv ==
    /\ inFence => HasFence(buffer)
    /\ ~ inFence => Len(buffer) < MaxChars \/ HasFence(buffer)

BoundedInv == TypeInv /\ BufferInv /\ SegmentsAreBounded

\* Segments appended to segments.
LEMMA AppendBounded ==
    ASSUME NEW a \in Seq(Text), NEW b \in Seq(Text),
           \A k \in DOMAIN a : Bounded(a[k]), \A k \in 1..Len(b) : Bounded(b[k])
    PROVE  \A k \in DOMAIN (a \o b) : Bounded((a \o b)[k])
<1>1. /\ a \o b \in Seq(Text) /\ Len(a \o b) = Len(a) + Len(b) /\ Len(a) \in Nat /\ Len(b) \in Nat
      /\ \A k \in 1..Len(a) + Len(b) : (a \o b)[k] = IF k <= Len(a) THEN a[k] ELSE b[k - Len(a)]
      /\ DOMAIN (a \o b) = 1..Len(a) + Len(b) /\ DOMAIN a = 1..Len(a)
  BY ConcatProperties
<1> DEFINE c == a \o b
<1> HIDE DEF c
<1>2. ASSUME NEW k \in 1..Len(a) + Len(b) PROVE Bounded(c[k])
  <2>1. CASE k <= Len(a)
    <3>1. k \in 1..Len(a) /\ c[k] = a[k]
      BY <1>1, <2>1 DEF c
    <3> QED
      BY <1>1, <3>1
  <2>2. CASE ~ (k <= Len(a))
    <3>1. k - Len(a) \in 1..Len(b) /\ c[k] = b[k - Len(a)]
      BY <1>1, <2>2 DEF c
    <3> QED
      BY <3>1
  <2> QED
    BY <2>1, <2>2
<1> QED
  BY <1>1, <1>2 DEF c

\* push: the scan starts in a text that has a fence if one is open, passes over
\* every marker as a whole, and so leaves a buffer of the same kind.
LEMMA PushBounded ==
    ASSUME BoundedInv, NEW chunk \in Text, Push(chunk)
    PROVE  BufferInv' /\ SegmentsAreBounded'
<1> DEFINE s == buffer \o chunk
           scan == Scan(s, inFence)
<1>1. /\ buffer' = Rest(s, scan) /\ inFence' = scan.fence /\ out' = out \o scan.segments
  BY DEF Push
<1>2. s \in Text /\ Len(s) \in Nat /\ Len(s) \in 0..Len(s) /\ inFence \in BOOLEAN
  BY ConcatProperties DEF BoundedInv, TypeInv, Text
<1>3. inFence => HasFence(s)
  BY MarkerStays DEF BoundedInv, TypeInv, BufferInv
<1>4. Held(s, scan, Len(s))
  BY <1>2, <1>3, ScanHolds DEF Scan
<1>5. scan \in ScanState(s)
  BY <1>2, ScanType
<1> HIDE DEF s, scan
<1>6. scan.start \in 0..Len(s) /\ scan.start \in Nat /\ scan.skip \in 0..2 /\ scan.fence \in BOOLEAN /\ scan.segments \in Seq(Text)
  BY <1>2, <1>5 DEF ScanState
<1>7. scan.skip = 0 /\ Len(s) + scan.skip = Len(s)
  BY <1>2, <1>4, <1>6 DEF Held
<1>8. Marked(s, scan.start, Len(s)) => HasFence(buffer')
  BY <1>1, <1>2, <1>6, MarkerInPiece DEF Rest
<1>9. Len(buffer') = Len(s) - scan.start
  BY <1>1, <1>2, <1>6, PieceFacts DEF Rest, Text
<1>10. BufferInv'
  BY <1>1, <1>4, <1>7, <1>8, <1>9 DEF BufferInv, Held
<1>11. SegmentsAreBounded'
  <2>1. \A k \in DOMAIN out : Bounded(out[k])
    BY DEF BoundedInv, SegmentsAreBounded, Bounded
  <2>2. \A k \in 1..Len(scan.segments) : Bounded(scan.segments[k])
    BY <1>4 DEF Held
  <2>3. \A k \in DOMAIN (out \o scan.segments) : Bounded((out \o scan.segments)[k])
    BY <1>6, <2>1, <2>2, AppendBounded DEF BoundedInv, TypeInv
  <2> QED
    BY <1>1, <2>3 DEF SegmentsAreBounded, Bounded
<1> QED
  BY <1>10, <1>11

\* flush: the buffer is bounded, and so is what is left of it.
LEMMA FlushBounded ==
    ASSUME BoundedInv, Flush
    PROVE  SegmentsAreBounded'
<1>1. out' = out \o NonEmpty(buffer)
  BY DEF Flush
<1>2. buffer \in Text /\ Len(buffer) \in Nat /\ out \in Seq(Text) /\ inFence \in BOOLEAN /\ MaxChars \in Nat
  BY SegmenterAssumption DEF BoundedInv, TypeInv, Text
<1>3. Len(buffer) < MaxChars \/ HasFence(buffer)
  BY <1>2 DEF BoundedInv, BufferInv
<1>4. Bounded(Strip(buffer))
  <2>1. CASE HasFence(buffer)
    BY <1>2, <2>1, StripKeepsFence DEF Bounded
  <2>2. CASE Len(buffer) < MaxChars
    <3>1. PICK n \in Nat : n = Len(Strip(buffer))
      BY <1>2, StripType DEF Text
    <3>2. n <= Len(buffer)
      BY <1>2, <3>1, StripType
    <3>3. n <= MaxChars
      BY <1>2, <2>2, <3>2
    <3> QED
      BY <3>1, <3>3 DEF Bounded
  <2> QED
    BY <1>3, <2>1, <2>2
<1>5. NonEmpty(buffer) \in Seq(Text) /\ \A k \in 1..Len(NonEmpty(buffer)) : Bounded(NonEmpty(buffer)[k])
  <2>1. NonEmpty(buffer) \in Seq(Text) /\ (NonEmpty(buffer) = <<>> \/ NonEmpty(buffer) = <<Strip(buffer)>>)
    BY <1>2, NonEmptyType
  <2> QED
    BY <1>4, <2>1
<1>6. \A k \in DOMAIN (out \o NonEmpty(buffer)) : Bounded((out \o NonEmpty(buffer))[k])
  <2>1. \A k \in DOMAIN out : Bounded(out[k])
    BY DEF BoundedInv, SegmentsAreBounded, Bounded
  <2> QED
    BY <1>2, <1>5, <2>1, AppendBounded
<1> QED
  BY <1>1, <1>6 DEF SegmentsAreBounded, Bounded

\* Once flush has run neither method is called again, so that only what it
\* leaves of the segments matters.
BoundedUntilDone == TypeInv /\ (done \/ BufferInv) /\ SegmentsAreBounded

\* A segment without fenced code is no longer than the limit, whatever the
\* chunks: the scan cuts the text it passes over before it grows longer, unless
\* a marker is in it, and it never cuts a marker in two.
THEOREM SegmentLimit == Spec => []SegmentsAreBounded
<1>1. Init => BoundedUntilDone
  <2> SUFFICES ASSUME Init PROVE BoundedUntilDone
    OBVIOUS
  <2>1. buffer = <<>> /\ inFence = FALSE /\ out = <<>>
    BY DEF Init
  <2>2. BufferInv
    BY <2>1, SegmenterAssumption DEF BufferInv
  <2>3. SegmentsAreBounded
    BY <2>1 DEF SegmentsAreBounded
  <2> QED
    BY <2>2, <2>3, InitType DEF BoundedUntilDone
<1>2. BoundedUntilDone /\ [Next]_vars => BoundedUntilDone'
  <2> SUFFICES ASSUME BoundedUntilDone, [Next]_vars PROVE BoundedUntilDone'
    OBVIOUS
  <2>1. TypeInv
    BY DEF BoundedUntilDone
  <2>2. ASSUME NEW chunk \in Text, Push(chunk)
        PROVE  BoundedUntilDone'
    <3>1. BoundedInv
      BY <2>2 DEF BoundedUntilDone, BoundedInv, Push
    <3> QED
      BY <2>1, <2>2, <3>1, PushType, PushBounded DEF BoundedUntilDone
  <2>3. CASE Flush
    <3>1. BoundedInv /\ done'
      BY <2>3 DEF BoundedUntilDone, BoundedInv, Flush
    <3> QED
      BY <2>1, <2>3, <3>1, FlushType, FlushBounded DEF BoundedUntilDone
  <2>4. CASE UNCHANGED vars
    BY <2>4 DEF vars, BoundedUntilDone, TypeInv, BufferInv, SegmentsAreBounded
  <2> QED
    BY <2>1, <2>2, <2>3, <2>4, Steps
<1>3. BoundedUntilDone => SegmentsAreBounded
  BY DEF BoundedUntilDone
<1> QED
  BY <1>1, <1>2, <1>3, PTL DEF Spec

-----------------------------------------------------------------------------
(* Solid: a text without its white space. *)

\* A set of sequences that holds the empty one and goes on with each element
\* holds them all.
LEMMA Growing ==
    ASSUME NEW S, NEW M, <<>> \in M,
           \A s \in Seq(S), e \in S : s \in M => Append(s, e) \in M
    PROVE  \A s \in Seq(S) : s \in M
<1> TAKE s \in Seq(S)
<1> DEFINE I == {i \in 0..Len(s) : SubSeq(s, 1, i) \in M}
<1>1. Len(s) \in Nat /\ Len(s) \in 0..Len(s) /\ 0 \in 0..Len(s)
  OBVIOUS
<1>2. 0 \in I
  <2>1. SubSeq(s, 1, 0) = <<>>
    BY SubSeqEmpty
  <2> QED
    BY <1>1, <2>1
<1>3. ASSUME NEW i \in 1..Len(s), i - 1 \in I PROVE i \in I
  <2>1. SubSeq(s, 1, i) = SubSeq(s, 1, i - 1) \o <<s[i]>>
    <3>1. 1 \in 1..Len(s) /\ i \in 1..Len(s)
      OBVIOUS
    <3> QED
      BY <3>1, SubSeqRecursiveSecond
  <2>2. s[i] \in S /\ i \in 0..Len(s) /\ i - 1 \in 0..Len(s)
    BY <1>1
  <2>3. SubSeq(s, 1, i - 1) \in Seq(S)
    <3>1. 1 \in Int /\ i - 1 \in Int /\ \A k \in 1..i - 1 : s[k] \in S
      BY <1>1
    <3> QED
      BY <3>1, SubSeqProperties
  <2>4. SubSeq(s, 1, i) = Append(SubSeq(s, 1, i - 1), s[i])
    BY <2>1, <2>2, <2>3, AppendIsConcat
  <2>5. SubSeq(s, 1, i - 1) \in M
    BY <1>3
  <2> QED
    BY <2>2, <2>3, <2>4, <2>5
<1> HIDE DEF I
<1>4. \A i \in 0..Len(s) : i \in I
  BY <1>1, <1>2, <1>3, Induction
<1>5. SubSeq(s, 1, Len(s)) \in M
  BY <1>1, <1>4 DEF I
<1> QED
  BY <1>5, SubSeqFull

\* g is what is solid of s, up to each character.
Solids(g, s) ==
    /\ g \in [0..Len(s) -> Text]
    /\ g[0] = <<>>
    /\ \A i \in 1..Len(s) : g[i] = IF s[i] \in White THEN g[i - 1] ELSE Append(g[i - 1], s[i])

\* There is such a function, and its last value is Solid.
LEMMA SolidFunction ==
    ASSUME NEW s \in Text
    PROVE  \E g : Solids(g, s) /\ Solid(s) = g[Len(s)]
<1> DEFINE n == Len(s)
           step == [p \in Text \X (1..n) |-> IF s[p[2]] \in White THEN p[1] ELSE Append(p[1], s[p[2]])]
           f == CHOOSE h : h = [i \in 0..n |-> IF i = 0 THEN <<>>
                                               ELSE IF s[i] \in White THEN h[i - 1]
                                               ELSE Append(h[i - 1], s[i])]
<1>1. n \in Nat /\ <<>> \in Text /\ \A i \in 1..n : s[i] \in Char
  BY DEF Text
<1>2. \A i \in 1..n : \A x \in Text :
        /\ step[<<x, i>>] = IF s[i] \in White THEN x ELSE Append(x, s[i])
        /\ step[<<x, i>>] \in Text
  <2> TAKE i \in 1..n
  <2> TAKE x \in Text
  <2>1. Append(x, s[i]) \in Text
    BY <1>1, AppendProperties DEF Text
  <2>2. step[<<x, i>>] = IF s[i] \in White THEN x ELSE Append(x, s[i])
    OBVIOUS
  <2> HIDE DEF step
  <2> QED
    BY <2>1, <2>2
<1> HIDE DEF n, step
<1>3. PICK g : Follows(g, n, Text, <<>>, step)
  <2>1. \A i \in 1..n : \A x \in Text : step[<<x, i>>] \in Text
    BY <1>2
  <2> QED
    BY <1>1, <2>1, Recursion
<1>4. /\ g \in [0..n -> Text] /\ g[0] = <<>>
      /\ \A i \in 1..n : g[i] = step[<<g[i - 1], i>>]
  BY <1>3 DEF Follows
<1>5. \A i \in 1..n : g[i] = IF s[i] \in White THEN g[i - 1] ELSE Append(g[i - 1], s[i])
  <2> TAKE i \in 1..n
  <2>1. i - 1 \in 0..n
    BY <1>1
  <2>2. g[i - 1] \in Text
    BY <1>4, <2>1
  <2> QED
    BY <1>2, <1>4, <2>2
<1>6. g = [i \in 0..n |-> IF i = 0 THEN <<>> ELSE IF s[i] \in White THEN g[i - 1] ELSE Append(g[i - 1], s[i])]
  <2>1. \A i \in 0..n : i = 0 \/ i \in 1..n
    BY <1>1
  <2>2. \A i \in 0..n : g[i] = IF i = 0 THEN <<>> ELSE IF s[i] \in White THEN g[i - 1] ELSE Append(g[i - 1], s[i])
    BY <1>4, <1>5, <2>1
  <2> QED
    BY <1>4, <2>2
<1>7. f = [i \in 0..n |-> IF i = 0 THEN <<>> ELSE IF s[i] \in White THEN f[i - 1] ELSE Append(f[i - 1], s[i])]
  BY <1>6
<1>8. Solid(s) = f[n]
  BY DEF Solid, n
<1> HIDE DEF f
<1>9. f[0] = <<>> /\ \A i \in 1..n : f[i] = IF s[i] \in White THEN f[i - 1] ELSE Append(f[i - 1], s[i])
  <2>1. 0 \in 0..n /\ \A i \in 1..n : i \in 0..n /\ i # 0
    BY <1>1
  <2>2. f[0] = <<>>
    BY <1>7, <2>1
  <2> QED
    BY <1>7, <2>1, <2>2
<1>10. \A i \in 0..n : f[i] = g[i]
  <2> DEFINE S == {i \in 0..n : f[i] = g[i]}
  <2>1. 0 \in S
    BY <1>1, <1>4, <1>9
  <2>2. \A i \in 1..n : i - 1 \in S => i \in S
    <3> TAKE i \in 1..n
    <3>1. i \in 0..n
      BY <1>1
    <3> QED
      BY <1>5, <1>9, <3>1
  <2> HIDE DEF S
  <2>3. \A i \in 0..n : i \in S
    BY <1>1, <2>1, <2>2, Induction
  <2> QED
    BY <2>3 DEF S
<1>11. n \in 0..n
  BY <1>1
<1> QED
  BY <1>4, <1>5, <1>8, <1>10, <1>11 DEF Solids, n

\* Appending to what was concatenated.
LEMMA AppendToConcat ==
    ASSUME NEW x \in Text, NEW y \in Text, NEW e \in Char
    PROVE  Append(x \o y, e) = x \o Append(y, e)
<1>1. x \in Seq(Char) /\ y \in Seq(Char) /\ <<e>> \in Seq(Char)
  BY DEF Text
<1>2. Append(y, e) = y \o <<e>> /\ x \o y \in Seq(Char)
  BY <1>1, AppendIsConcat, ConcatProperties
<1>3. Append(x \o y, e) = (x \o y) \o <<e>>
  BY <1>2, AppendIsConcat
<1> QED
  BY <1>1, <1>2, <1>3, ConcatAssociative

\* Solid, one character at a time.
LEMMA SolidGrows ==
    /\ Solid(<<>>) = <<>>
    /\ \A s \in Text, c \in Char :
         /\ Solid(s) \in Text
         /\ Solid(Append(s, c)) = IF c \in White THEN Solid(s) ELSE Append(Solid(s), c)
<1>1. Solid(<<>>) = <<>>
  <2>1. <<>> \in Text /\ Len(<<>>) = 0
    BY DEF Text
  <2>2. PICK g : Solids(g, <<>>) /\ Solid(<<>>) = g[Len(<<>>)]
    BY <2>1, SolidFunction
  <2> QED
    BY <2>1, <2>2 DEF Solids
<1>2. ASSUME NEW s \in Text, NEW c \in Char
      PROVE  /\ Solid(s) \in Text
             /\ Solid(Append(s, c)) = IF c \in White THEN Solid(s) ELSE Append(Solid(s), c)
  <2>1. PICK t : t = Append(s, c)
    OBVIOUS
  <2>2. PICK n \in Nat : n = Len(s)
    BY DEF Text
  <2>3. /\ t \in Text /\ Len(t) = n + 1 /\ t[n + 1] = c
        /\ \A i \in 1..n : t[i] = s[i]
    BY <2>1, <2>2, AppendProperties DEF Text
  <2>4. PICK g : Solids(g, s) /\ Solid(s) = g[n]
    BY <2>2, SolidFunction
  <2>5. PICK h : Solids(h, t) /\ Solid(t) = h[n + 1]
    BY <2>3, SolidFunction
  <2>6. n \in 0..n /\ n + 1 \in 1..n + 1 /\ (n + 1) - 1 = n
    OBVIOUS
  <2>7. Solid(s) \in Text
    BY <2>2, <2>4, <2>6 DEF Solids
  <2>8. h[n] = g[n]
    <3> DEFINE S == {i \in 0..n : h[i] = g[i]}
    <3>1. 0 \in S
      BY <2>4, <2>5 DEF Solids
    <3>2. \A i \in 1..n : i - 1 \in S => i \in S
      <4> TAKE i \in 1..n
      <4>1. i \in 0..n /\ i \in 1..n + 1 /\ t[i] = s[i]
        BY <2>3
      <4>2. g[i] = IF s[i] \in White THEN g[i - 1] ELSE Append(g[i - 1], s[i])
        BY <2>2, <2>4 DEF Solids
      <4>3. h[i] = IF t[i] \in White THEN h[i - 1] ELSE Append(h[i - 1], t[i])
        BY <2>3, <2>5, <4>1 DEF Solids
      <4> QED
        BY <4>1, <4>2, <4>3
    <3> HIDE DEF S
    <3>3. \A i \in 0..n : i \in S
      BY <3>1, <3>2, Induction
    <3> QED
      BY <2>6, <3>3 DEF S
  <2>9. h[n + 1] = IF t[n + 1] \in White THEN h[n] ELSE Append(h[n], t[n + 1])
    <3>1. \A i \in 1..n + 1 : h[i] = IF t[i] \in White THEN h[i - 1] ELSE Append(h[i - 1], t[i])
      BY <2>3, <2>5 DEF Solids
    <3> QED
      BY <2>6, <3>1
  <2> QED
    BY <2>1, <2>3, <2>4, <2>5, <2>7, <2>8, <2>9
<1> QED
  BY <1>1, <1>2

\* Solid goes through the concatenation.
LEMMA SolidConcat ==
    ASSUME NEW a \in Text, NEW b \in Text
    PROVE  Solid(a) \in Text /\ Solid(b) \in Text /\ Solid(a \o b) = Solid(a) \o Solid(b)
<1> DEFINE M == {x \in Text : Solid(x) \in Text /\ Solid(a \o x) = Solid(a) \o Solid(x)}
<1>1. "a" \in Char /\ Solid(a) \in Text
  BY SolidGrows DEF Char
<1>2. <<>> \in M
  <2>1. <<>> \in Text /\ a \o <<>> = a
    BY ConcatEmptySeq DEF Text
  <2>2. Solid(a) \o <<>> = Solid(a)
    BY <1>1, ConcatEmptySeq DEF Text
  <2> QED
    BY <2>1, <2>2, SolidGrows
<1>3. \A x \in Seq(Char), e \in Char : x \in M => Append(x, e) \in M
  <2> SUFFICES ASSUME NEW x \in Text, NEW e \in Char, x \in M PROVE Append(x, e) \in M
    BY DEF Text
  <2>1. Append(x, e) \in Text /\ Solid(x) \in Text /\ Solid(a \o x) = Solid(a) \o Solid(x) /\ a \o x \in Text
    BY AppendProperties, ConcatProperties DEF Text
  <2>2. a \o Append(x, e) = Append(a \o x, e)
    BY AppendToConcat
  <2>3. Solid(Append(x, e)) \in Text
    BY <1>1, <2>1, SolidGrows
  <2>4. Solid(Append(a \o x, e)) = IF e \in White THEN Solid(a) \o Solid(x) ELSE Append(Solid(a) \o Solid(x), e)
    BY <2>1, SolidGrows
  <2>5. Append(Solid(a) \o Solid(x), e) = Solid(a) \o Append(Solid(x), e)
    BY <1>1, <2>1, AppendToConcat
  <2>6. Solid(Append(x, e)) = IF e \in White THEN Solid(x) ELSE Append(Solid(x), e)
    BY <2>1, SolidGrows
  <2> QED
    BY <2>1, <2>2, <2>3, <2>4, <2>5, <2>6
<1> HIDE DEF M
<1>4. \A x \in Seq(Char) : x \in M
  BY <1>2, <1>3, Growing
<1> QED
  BY <1>1, <1>4 DEF M, Text

\* A text that is all white space has nothing solid.
LEMMA WhiteIsNotSolid ==
    ASSUME NEW w \in Text, \A i \in 1..Len(w) : w[i] \in White
    PROVE  Solid(w) = <<>>
<1> DEFINE M == {x \in Text : (\A i \in 1..Len(x) : x[i] \in White) => Solid(x) = <<>>}
<1>1. <<>> \in M
  BY SolidGrows DEF Text
<1>2. \A x \in Seq(Char), e \in Char : x \in M => Append(x, e) \in M
  <2> SUFFICES ASSUME NEW x \in Text, NEW e \in Char, x \in M PROVE Append(x, e) \in M
    BY DEF Text
  <2>1. PICK y \in Text : y = Append(x, e)
    BY AppendProperties DEF Text
  <2>2. Len(x) \in Nat /\ Len(y) = Len(x) + 1 /\ y[Len(x) + 1] = e /\ \A i \in 1..Len(x) : y[i] = x[i]
    BY <2>1, AppendProperties DEF Text
  <2>3. ASSUME \A i \in 1..Len(y) : y[i] \in White PROVE Solid(y) = <<>>
    <3>1. Len(x) + 1 \in 1..Len(y) /\ \A i \in 1..Len(x) : i \in 1..Len(y)
      BY <2>2
    <3>2. e \in White /\ \A i \in 1..Len(x) : x[i] \in White
      BY <2>2, <2>3, <3>1
    <3>3. Solid(x) = <<>>
      BY <3>2
    <3> QED
      BY <2>1, <3>2, <3>3, SolidGrows
  <2> QED
    BY <2>1, <2>3
<1> HIDE DEF M
<1>3. \A x \in Seq(Char) : x \in M
  BY <1>1, <1>2, Growing
<1> QED
  BY <1>3 DEF M, Text

\* A text in two pieces.
LEMMA Pieces ==
    ASSUME NEW s \in Text, NEW a \in Nat, NEW b \in a..Len(s), NEW c \in b..Len(s)
    PROVE  /\ SubSeq(s, a + 1, b) \in Text /\ SubSeq(s, b + 1, c) \in Text
           /\ SubSeq(s, a + 1, c) = SubSeq(s, a + 1, b) \o SubSeq(s, b + 1, c)
<1>1. s \in Seq(Char) /\ Len(s) \in Nat
  BY DEF Text
<1>2. a + 1 \in 1..Len(s) + 1 /\ b \in (a + 1) - 1..Len(s) /\ c \in b..Len(s)
      /\ b \in Nat /\ b \in 0..Len(s) /\ c \in 0..Len(s)
  BY <1>1
<1>3. SubSeq(s, a + 1, b) \o SubSeq(s, b + 1, c) = SubSeq(s, a + 1, c)
  BY <1>1, <1>2, ConcatAdjacentSubSeq
<1>4. SubSeq(s, a + 1, b) \in Text /\ SubSeq(s, b + 1, c) \in Text
  BY <1>1, <1>2, PieceFacts DEF Text
<1> QED
  BY <1>3, <1>4

\* Stripping takes nothing solid away.
LEMMA StripIsSolid ==
    ASSUME NEW s \in Text
    PROVE  Solid(Strip(s)) = Solid(s)
<1>1. s \in Seq(Char) /\ Len(s) \in Nat
  BY DEF Text
<1>2. CASE Strip(s) = <<>> /\ \A i \in 1..Len(s) : s[i] \in White
  BY <1>2, WhiteIsNotSolid, SolidGrows
<1>3. ASSUME NEW lo \in 1..Len(s), NEW hi \in 1..Len(s), lo <= hi, Strip(s) = SubSeq(s, lo, hi),
             \A i \in 1..Len(s) : i < lo \/ i > hi => s[i] \in White
      PROVE  Solid(Strip(s)) = Solid(s)
  <2>1. PICK a \in Nat : a = lo - 1 /\ lo = a + 1
    <3>1. lo - 1 \in Nat /\ lo = (lo - 1) + 1
      BY <1>1
    <3> QED
      BY <3>1
  <2>2. /\ hi \in Nat /\ a \in 0..Len(s) /\ a <= hi /\ a \in 0..hi /\ hi \in a..Len(s)
        /\ 0 \in Nat /\ 0 + 1 = 1 /\ Len(s) \in hi..Len(s) /\ Len(s) \in 0..Len(s)
        /\ Len(s) \in a..Len(s)
    BY <1>1, <1>3, <2>1
  <2> DEFINE left == SubSeq(s, 0 + 1, a)
             mid == SubSeq(s, a + 1, hi)
             right == SubSeq(s, hi + 1, Len(s))
             end == SubSeq(s, a + 1, Len(s))
  <2>3. left \in Text /\ mid \in Text /\ right \in Text /\ end = mid \o right
        /\ SubSeq(s, 0 + 1, Len(s)) = left \o end
    BY <2>2, Pieces
  <2>4. s = left \o end
    BY <1>1, <2>2, <2>3, SubSeqFull
  <2>5. \A i \in 1..Len(left) : left[i] \in White
    <3>1. Len(left) = a /\ \A i \in 1..a - 0 : left[i] = s[0 + i] /\ 0 + i \in 1..Len(s)
      BY <1>1, <2>2, PieceFacts DEF left
    <3>2. \A i \in 1..a : i \in 1..a - 0 /\ 0 + i = i /\ i < lo
      BY <2>1
    <3> HIDE DEF left
    <3> QED
      BY <1>3, <3>1, <3>2
  <2>6. \A i \in 1..Len(right) : right[i] \in White
    <3>1. Len(right) = Len(s) - hi /\ \A i \in 1..Len(s) - hi : right[i] = s[hi + i] /\ hi + i \in 1..Len(s)
      BY <1>1, <2>2, PieceFacts DEF right
    <3>2. \A i \in 1..Len(s) - hi : hi + i > hi
      BY <2>2
    <3> HIDE DEF right
    <3> QED
      BY <1>3, <3>1, <3>2
  <2> HIDE DEF left, mid, right, end
  <2>7. end \in Text
    BY <2>3, ConcatProperties DEF Text
  <2>8. Solid(s) = Solid(left) \o Solid(end) /\ Solid(end) = Solid(mid) \o Solid(right) /\ Solid(mid) \in Text
    BY <2>3, <2>4, <2>7, SolidConcat
  <2>9. Solid(left) = <<>> /\ Solid(right) = <<>>
    BY <2>3, <2>5, <2>6, WhiteIsNotSolid
  <2>10. Solid(s) = Solid(mid)
    BY <2>8, <2>9, ConcatEmptySeq DEF Text
  <2> QED
    BY <1>3, <2>1, <2>10 DEF mid
<1> QED
  BY <1>2, <1>3, StripFacts

-----------------------------------------------------------------------------
(* FlattenSeq: the texts of a list, one after the other. *)

\* A list that holds no text flattens to nothing, one more text comes last.
LEMMA FlattenGrows ==
    /\ FlattenSeq(<<>>) = <<>>
    /\ \A q \in Seq(Text), x \in Text :
          FlattenSeq(q) \in Text /\ FlattenSeq(Append(q, x)) = FlattenSeq(q) \o x
<1>1. FlattenSeq(<<>>) = <<>>
  <2>1. Len(<<>>) = 0
    OBVIOUS
  <2> QED
    BY <2>1 DEF FlattenSeq
<1>2. ASSUME NEW q \in Seq(Text)
      PROVE  \E g : /\ g \in [0..Len(q) -> Text] /\ g[0] = <<>>
                    /\ \A i \in 1..Len(q) : g[i] = g[i - 1] \o q[i]
                    /\ FlattenSeq(q) = g[Len(q)]
  <2> DEFINE n == Len(q)
             step == [p \in Text \X (1..n) |-> p[1] \o q[p[2]]]
             f == CHOOSE h : h = [i \in 1..n |-> IF i = 1 THEN q[i] ELSE h[i - 1] \o q[i]]
  <2>1. n \in Nat /\ n \in 0..n /\ <<>> \in Text /\ \A i \in 1..n : q[i] \in Text
    BY DEF Text
  <2>2. \A i \in 1..n : \A x \in Text : step[<<x, i>>] = x \o q[i] /\ step[<<x, i>>] \in Text
    <3> TAKE i \in 1..n
    <3> TAKE x \in Text
    <3>1. x \o q[i] \in Text
      BY <2>1, ConcatProperties DEF Text
    <3>2. step[<<x, i>>] = x \o q[i]
      OBVIOUS
    <3> HIDE DEF step
    <3> QED
      BY <3>1, <3>2
  <2>3. (n = 0 => FlattenSeq(q) = <<>>) /\ (n # 0 => FlattenSeq(q) = f[n])
    BY DEF FlattenSeq
  <2> HIDE DEF n, step
  <2>4. PICK g : Follows(g, n, Text, <<>>, step)
    <3>1. \A i \in 1..n : \A x \in Text : step[<<x, i>>] \in Text
      BY <2>2
    <3> QED
      BY <2>1, <3>1, Recursion
  <2>5. /\ g \in [0..n -> Text] /\ g[0] = <<>>
        /\ \A i \in 1..n : g[i] = step[<<g[i - 1], i>>]
    BY <2>4 DEF Follows
  <2>6. \A i \in 1..n : g[i] = g[i - 1] \o q[i] /\ g[i] \in Text
    <3> TAKE i \in 1..n
    <3>1. i - 1 \in 0..n /\ i \in 0..n
      BY <2>1
    <3>2. g[i - 1] \in Text
      BY <2>5, <3>1
    <3> QED
      BY <2>2, <2>5, <3>1, <3>2
  <2>7. f[n] = g[n] \/ n = 0
    <3> DEFINE k == [i \in 1..n |-> g[i]]
    <3>1. \A i \in 1..n : g[i] = IF i = 1 THEN q[i] ELSE k[i - 1] \o q[i]
      <4> TAKE i \in 1..n
      <4>1. CASE i = 1
        <5>1. g[i] = <<>> \o q[i]
          <6>1. i - 1 = 0
            BY <4>1
          <6> QED
            BY <2>5, <2>6, <6>1
        <5>2. q[i] \in Seq(Char)
          BY <2>1 DEF Text
        <5>3. g[i] = q[i]
          BY <5>1, <5>2, ConcatEmptySeq
        <5> QED
          BY <4>1, <5>3
      <4>2. CASE i # 1
        <5>1. i - 1 \in 1..n
          BY <2>1, <4>2
        <5> QED
          BY <2>6, <4>2, <5>1
      <4> QED
        BY <4>1, <4>2
    <3>2. k = [i \in 1..n |-> IF i = 1 THEN q[i] ELSE k[i - 1] \o q[i]]
      BY <3>1
    <3>3. f = [i \in 1..n |-> IF i = 1 THEN q[i] ELSE f[i - 1] \o q[i]]
      BY <3>2
    <3> HIDE DEF f
    <3> DEFINE S == {i \in 0..n : i = 0 \/ f[i] = g[i]}
    <3>4. 0 \in S
      BY <2>1
    <3>5. \A i \in 1..n : i - 1 \in S => i \in S
      <4> TAKE i \in 1..n
      <4>0. i \in 0..n
        BY <2>1
      <4>1. f[i] = IF i = 1 THEN q[i] ELSE f[i - 1] \o q[i]
        BY <3>3
      <4>2. g[i] = IF i = 1 THEN q[i] ELSE g[i - 1] \o q[i]
        <5>1. i # 1 => i - 1 \in 1..n
          BY <2>1
        <5> QED
          BY <3>1, <5>1
      <4>3. CASE i = 1
        BY <4>0, <4>1, <4>2, <4>3
      <4>4. CASE i # 1
        <5>1. i - 1 # 0
          BY <4>4
        <5> QED
          BY <4>0, <4>1, <4>2, <4>4, <5>1
      <4> QED
        BY <4>3, <4>4
    <3> HIDE DEF S
    <3>6. \A i \in 0..n : i \in S
      BY <2>1, <3>4, <3>5, Induction
    <3> QED
      BY <2>1, <3>6 DEF S
  <2> HIDE DEF f
  <2>8. FlattenSeq(q) = g[n]
    BY <2>3, <2>5, <2>7
  <2> QED
    BY <2>5, <2>6, <2>8 DEF n
<1>3. ASSUME NEW q \in Seq(Text), NEW x \in Text
      PROVE  FlattenSeq(q) \in Text /\ FlattenSeq(Append(q, x)) = FlattenSeq(q) \o x
  <2>1. PICK n \in Nat : n = Len(q)
    OBVIOUS
  <2>2. PICK t \in Seq(Text) : t = Append(q, x)
    BY AppendProperties
  <2>3. Len(t) = n + 1 /\ t[n + 1] = x /\ \A i \in 1..n : t[i] = q[i]
    BY <2>1, <2>2, AppendProperties
  <2>4. PICK g : /\ g \in [0..n -> Text] /\ g[0] = <<>>
                 /\ \A i \in 1..n : g[i] = g[i - 1] \o q[i]
                 /\ FlattenSeq(q) = g[n]
    BY <1>2, <2>1
  <2>5. PICK h : /\ h \in [0..n + 1 -> Text] /\ h[0] = <<>>
                 /\ \A i \in 1..n + 1 : h[i] = h[i - 1] \o t[i]
                 /\ FlattenSeq(t) = h[n + 1]
    BY <1>2, <2>3
  <2>6. n \in 0..n /\ n + 1 \in 1..n + 1 /\ (n + 1) - 1 = n
    OBVIOUS
  <2>7. h[n] = g[n]
    <3> DEFINE S == {i \in 0..n : h[i] = g[i]}
    <3>1. 0 \in S
      BY <2>4, <2>5
    <3>2. \A i \in 1..n : i - 1 \in S => i \in S
      <4> TAKE i \in 1..n
      <4>1. i \in 0..n /\ i \in 1..n + 1 /\ t[i] = q[i]
        BY <2>3
      <4> QED
        BY <2>4, <2>5, <4>1
    <3> HIDE DEF S
    <3>3. \A i \in 0..n : i \in S
      BY <3>1, <3>2, Induction
    <3> QED
      BY <2>6, <3>3 DEF S
  <2>8. h[n + 1] = h[n] \o x
    BY <2>3, <2>5, <2>6
  <2> QED
    BY <2>2, <2>4, <2>5, <2>6, <2>7, <2>8
<1> QED
  BY <1>1, <1>3

\* Three texts in a row.
LEMMA TextAssociative ==
    ASSUME NEW x \in Text, NEW y \in Text, NEW z \in Text
    PROVE  (x \o y) \o z = x \o (y \o z)
BY ConcatAssociative DEF Text

\* Three lists of segments in a row.
LEMMA SegmentsAssociative ==
    ASSUME NEW x \in Seq(Text), NEW y \in Seq(Text), NEW z \in Seq(Text)
    PROVE  (x \o y) \o z = x \o (y \o z)
BY ConcatAssociative

\* FlattenSeq goes through the concatenation.
LEMMA FlattenConcat ==
    ASSUME NEW p \in Seq(Text), NEW q \in Seq(Text)
    PROVE  FlattenSeq(p) \in Text /\ FlattenSeq(q) \in Text
           /\ FlattenSeq(p \o q) = FlattenSeq(p) \o FlattenSeq(q)
<1> DEFINE M == {x \in Seq(Text) : FlattenSeq(p \o x) = FlattenSeq(p) \o FlattenSeq(x)}
<1>1. <<>> \in Text /\ <<>> \in Seq(Text)
  BY DEF Text
<1>2. FlattenSeq(p) \in Text /\ FlattenSeq(q) \in Text
  BY <1>1, FlattenGrows
<1>3. <<>> \in M
  <2>1. p \o <<>> = p /\ FlattenSeq(p) \o <<>> = FlattenSeq(p)
    BY <1>2, ConcatEmptySeq DEF Text
  <2> QED
    BY <1>1, <2>1, FlattenGrows
<1>4. \A x \in Seq(Text), e \in Text : x \in M => Append(x, e) \in M
  <2> SUFFICES ASSUME NEW x \in Seq(Text), NEW e \in Text, x \in M PROVE Append(x, e) \in M
    OBVIOUS
  <2>1. p \o x \in Seq(Text) /\ Append(x, e) \in Seq(Text)
    BY ConcatProperties, AppendProperties
  <2>2. p \o Append(x, e) = Append(p \o x, e)
    <3>1. <<e>> \in Seq(Text) /\ Append(x, e) = x \o <<e>> /\ Append(p \o x, e) = (p \o x) \o <<e>>
      BY <2>1, AppendIsConcat
    <3> QED
      BY <3>1, ConcatAssociative
  <2>3. FlattenSeq(Append(p \o x, e)) = FlattenSeq(p \o x) \o e
    BY <2>1, FlattenGrows
  <2>4. FlattenSeq(Append(x, e)) = FlattenSeq(x) \o e /\ FlattenSeq(x) \in Text
    BY FlattenGrows
  <2>5. (FlattenSeq(p) \o FlattenSeq(x)) \o e = FlattenSeq(p) \o (FlattenSeq(x) \o e)
    BY <1>2, <2>4, TextAssociative
  <2> QED
    BY <2>1, <2>2, <2>3, <2>4, <2>5
<1> HIDE DEF M
<1>5. \A x \in Seq(Text) : x \in M
  BY <1>3, <1>4, Growing
<1> QED
  BY <1>2, <1>5 DEF M

\* What a list of at most one segment holds of a candidate.
LEMMA NonEmptyIsSolid ==
    ASSUME NEW x \in Text
    PROVE  NonEmpty(x) \in Seq(Text) /\ FlattenSeq(NonEmpty(x)) \in Text
           /\ Solid(FlattenSeq(NonEmpty(x))) = Solid(x)
<1>1. NonEmpty(x) \in Seq(Text) /\ Strip(x) \in Text /\ Solid(Strip(x)) = Solid(x) /\ <<>> \in Seq(Text)
  BY NonEmptyType, StripType, StripIsSolid
<1>2. FlattenSeq(NonEmpty(x)) = Strip(x)
  <2>1. CASE Strip(x) = <<>>
    BY <2>1, FlattenGrows DEF NonEmpty
  <2>2. CASE Strip(x) # <<>>
    <3>1. NonEmpty(x) = Append(<<>>, Strip(x))
      BY <2>2 DEF NonEmpty
    <3>2. FlattenSeq(Append(<<>>, Strip(x))) = <<>> \o Strip(x)
      BY <1>1, FlattenGrows
    <3> QED
      BY <1>1, <3>1, <3>2, ConcatEmptySeq DEF Text
  <2> QED
    BY <2>1, <2>2
<1> QED
  BY <1>1, <1>2

-----------------------------------------------------------------------------
(* NothingIsLost. *)

\* The segments and what was passed over since are all that was scanned.
Keeps(s, scan, i) ==
    /\ scan.start <= i
    /\ Solid(FlattenSeq(scan.segments)) \o Solid(SubSeq(s, scan.start + 1, i)) = Solid(SubSeq(s, 1, i))

\* One character more, on both sides.
LEMMA KeepsOn ==
    ASSUME NEW s \in Text, NEW a \in Nat, NEW i \in 1..Len(s), a <= i - 1, NEW x \in Text,
           x \o Solid(SubSeq(s, a + 1, i - 1)) = Solid(SubSeq(s, 1, i - 1))
    PROVE  x \o Solid(SubSeq(s, a + 1, i)) = Solid(SubSeq(s, 1, i))
<1>1. PICK b \in Nat : b = i - 1 /\ b + 1 = i
  <2>1. i - 1 \in Nat /\ (i - 1) + 1 = i
    BY DEF Text
  <2> QED
    BY <2>1
<1>2. Len(s) \in Nat /\ 0 \in Nat /\ b \in a..Len(s) /\ b \in 0..Len(s) /\ i \in b..Len(s) /\ 0 + 1 = 1
  BY <1>1 DEF Text
<1> DEFINE one == SubSeq(s, b + 1, i)
           y == SubSeq(s, a + 1, b)
           z == SubSeq(s, 0 + 1, b)
<1>3. /\ y \in Text /\ one \in Text /\ SubSeq(s, a + 1, i) = y \o one
      /\ z \in Text /\ SubSeq(s, 0 + 1, i) = z \o one
  BY <1>2, Pieces
<1>4. x \o Solid(y) = Solid(z)
  BY <1>1, <1>2
<1> HIDE DEF one, y, z
<1>5. Solid(y) \in Text /\ Solid(one) \in Text /\ Solid(y \o one) = Solid(y) \o Solid(one)
      /\ Solid(z \o one) = Solid(z) \o Solid(one)
  BY <1>3, SolidConcat
<1>6. (x \o Solid(y)) \o Solid(one) = x \o (Solid(y) \o Solid(one))
  <2>1. Solid(y) \in Text /\ Solid(one) \in Text
    BY <1>5
  <2> QED
    BY <2>1, TextAssociative
<1> QED
  BY <1>2, <1>3, <1>4, <1>5, <1>6

\* Every step of the scan keeps it so.
LEMMA KeepsStep ==
    ASSUME NEW s \in Text, NEW scan \in ScanState(s), NEW i \in 1..Len(s),
           NEW next, next = ScanStep(s, scan, i), Keeps(s, scan, i - 1)
    PROVE  Keeps(s, next, i)
<1>1. /\ scan.start \in Nat /\ scan.segments \in Seq(Text) /\ scan.start <= i - 1 /\ scan.start <= i
      /\ Len(s) \in Nat /\ i \in Nat /\ i \in 0..Len(s)
  BY DEF ScanState, Text, Keeps
<1> DEFINE held == Solid(FlattenSeq(scan.segments))
           piece == SubSeq(s, scan.start + 1, i)
<1>2. held \in Text /\ FlattenSeq(scan.segments) \in Text
  BY <1>1, FlattenConcat, SolidConcat
<1>3. piece \in Text
  BY <1>1, PieceFacts DEF Text
<1>4. held \o Solid(piece) = Solid(SubSeq(s, 1, i))
  <2>1. held \o Solid(SubSeq(s, scan.start + 1, i - 1)) = Solid(SubSeq(s, 1, i - 1))
    BY DEF Keeps
  <2> HIDE DEF held
  <2> QED
    BY <1>1, <1>2, <2>1, KeepsOn
<1>5. CASE next.start = scan.start /\ next.segments = scan.segments
  BY <1>1, <1>4, <1>5 DEF Keeps
<1>6. CASE EndsSegment(s, scan, i, next)
  <2>1. next.start = i /\ next.segments = scan.segments \o NonEmpty(piece)
    BY <1>6 DEF EndsSegment
  <2> HIDE DEF piece
  <2>2. FlattenSeq(next.segments) = FlattenSeq(scan.segments) \o FlattenSeq(NonEmpty(piece))
    BY <1>1, <1>3, <2>1, NonEmptyIsSolid, FlattenConcat
  <2>3. Solid(FlattenSeq(next.segments)) = held \o Solid(piece)
    <3>1. FlattenSeq(NonEmpty(piece)) \in Text /\ Solid(FlattenSeq(NonEmpty(piece))) = Solid(piece)
      BY <1>3, NonEmptyIsSolid
    <3>2. Solid(FlattenSeq(scan.segments) \o FlattenSeq(NonEmpty(piece)))
            = Solid(FlattenSeq(scan.segments)) \o Solid(FlattenSeq(NonEmpty(piece)))
      BY <1>2, <3>1, SolidConcat
    <3> QED
      BY <2>2, <3>1, <3>2
  <2>4. SubSeq(s, i + 1, i) = <<>>
    BY <1>1, SubSeqEmpty
  <2>5. Solid(SubSeq(s, 1, i)) \in Text
    <3>1. 0 + 1 = 1 /\ SubSeq(s, 0 + 1, i) \in Text
      BY <1>1, PieceFacts DEF Text
    <3> QED
      BY <3>1, SolidConcat
  <2>6. Solid(SubSeq(s, 1, i)) \o <<>> = Solid(SubSeq(s, 1, i))
    BY <2>5, ConcatEmptySeq DEF Text
  <2>7. Solid(SubSeq(s, next.start + 1, i)) = <<>>
    BY <2>1, <2>4, SolidGrows
  <2>8. Solid(FlattenSeq(next.segments)) = Solid(SubSeq(s, 1, i))
    BY <1>4, <2>3
  <2>9. next.start <= i
    BY <1>1, <2>1
  <2> QED
    BY <2>6, <2>7, <2>8, <2>9 DEF Keeps
<1>7. SkipsOver(scan, next) => next.start = scan.start /\ next.segments = scan.segments
  BY DEF SkipsOver
<1>8. MeetsFence(s, scan, i, next) => next.start = scan.start /\ next.segments = scan.segments
  BY DEF MeetsFence
<1>9. GoesOn(s, scan, i, next) => next.start = scan.start /\ next.segments = scan.segments
  BY DEF GoesOn
<1> QED
  BY <1>5, <1>6, <1>7, <1>8, <1>9, StepCases

\* So does the whole scan.
LEMMA ScanKeeps ==
    ASSUME NEW s \in Text, NEW fence \in BOOLEAN
    PROVE  LET scan == Scan(s, fence)
           IN  Solid(FlattenSeq(scan.segments)) \o Solid(Rest(s, scan)) = Solid(s)
<1> DEFINE f == Scans(s, fence)
           S == {i \in 0..Len(s) : Keeps(s, f[i], i)}
<1>1. Len(s) \in Nat /\ Len(s) \in 0..Len(s) /\ 0 \in 0..Len(s)
  BY DEF Text
<1>2. f[0] = ScanStart(fence) /\ Scan(s, fence) = f[Len(s)]
  BY ScansFacts DEF Scan
<1>3. \A i \in 1..Len(s) : f[i - 1] \in ScanState(s) /\ f[i] = ScanStep(s, f[i - 1], i)
  BY <1>1, ScansFacts
<1> HIDE DEF f
<1>4. 0 \in S
  <2>1. f[0].start = 0 /\ f[0].segments = <<>>
    BY <1>2 DEF ScanStart
  <2>2. SubSeq(s, 1, 0) = <<>> /\ SubSeq(s, 0 + 1, 0) = <<>>
    BY SubSeqEmpty
  <2>3. <<>> \o <<>> = <<>>
    BY ConcatEmptySeq, EmptySeq
  <2>4. Keeps(s, f[0], 0)
    <3>1. FlattenSeq(f[0].segments) = <<>> /\ Solid(<<>>) = <<>> /\ f[0].start <= 0
      BY <2>1, SolidGrows, FlattenGrows
    <3>2. Solid(FlattenSeq(f[0].segments)) = <<>>
      BY <3>1
    <3>3. Solid(SubSeq(s, f[0].start + 1, 0)) = <<>> /\ Solid(SubSeq(s, 1, 0)) = <<>>
      BY <2>1, <2>2, <3>1
    <3> QED
      BY <2>3, <3>1, <3>2, <3>3 DEF Keeps
  <2> QED
    BY <1>1, <2>4
<1>5. ASSUME NEW i \in 1..Len(s), i - 1 \in S PROVE i \in S
  <2>1. Keeps(s, f[i], i)
    BY <1>3, <1>5, KeepsStep
  <2> QED
    BY <1>1, <2>1
<1> HIDE DEF S
<1>6. \A i \in 0..Len(s) : i \in S
  BY <1>1, <1>4, <1>5, Induction
<1>7. Keeps(s, f[Len(s)], Len(s))
  BY <1>1, <1>6 DEF S
<1>8. SubSeq(s, 1, Len(s)) = s
  BY SubSeqFull DEF Text
<1> QED
  BY <1>2, <1>7, <1>8 DEF Keeps, Rest

\* What NothingIsLost says, with the segments and the buffer apart.
LEMMA LostApart ==
    ASSUME TypeInv
    PROVE  /\ NothingIsLost <=> Solid(FlattenSeq(out)) \o Solid(buffer) = Solid(text)
           /\ FlattenSeq(out) \in Text /\ Solid(FlattenSeq(out)) \in Text
<1>1. FlattenSeq(out) \in Text
  BY FlattenConcat DEF TypeInv
<1>2. Solid(FlattenSeq(out) \o buffer) = Solid(FlattenSeq(out)) \o Solid(buffer)
      /\ Solid(FlattenSeq(out)) \in Text
  BY <1>1, SolidConcat DEF TypeInv
<1> QED
  BY <1>1, <1>2 DEF NothingIsLost

\* push loses nothing.
LEMMA PushKeeps ==
    ASSUME TypeInv, NothingIsLost, NEW chunk \in Text, Push(chunk)
    PROVE  NothingIsLost'
<1> DEFINE s == buffer \o chunk
           scan == Scan(s, inFence)
<1>1. buffer' = Rest(s, scan) /\ out' = out \o scan.segments /\ text' = text \o chunk
  BY DEF Push
<1>2. s \in Text /\ inFence \in BOOLEAN /\ buffer \in Text /\ text \in Text /\ out \in Seq(Text)
  BY ConcatProperties DEF TypeInv, Text
<1>3. scan.segments \in Seq(Text) /\ Rest(s, scan) \in Text
  BY <1>2, ScanType
<1>4. Solid(FlattenSeq(scan.segments)) \o Solid(Rest(s, scan)) = Solid(s)
  BY <1>2, ScanKeeps
<1>5. Solid(s) = Solid(buffer) \o Solid(chunk)
  BY <1>2, SolidConcat
<1> HIDE DEF s, scan
<1> DEFINE o == Solid(FlattenSeq(out))
           c == Solid(FlattenSeq(scan.segments))
           r == Solid(Rest(s, scan))
           b == Solid(buffer)
           k == Solid(chunk)
<1>6. FlattenSeq(out) \in Text /\ FlattenSeq(scan.segments) \in Text
      /\ FlattenSeq(out \o scan.segments) = FlattenSeq(out) \o FlattenSeq(scan.segments)
  BY <1>2, <1>3, FlattenConcat
<1>7. o \in Text /\ c \in Text /\ r \in Text /\ b \in Text /\ k \in Text
      /\ Solid(FlattenSeq(out) \o FlattenSeq(scan.segments)) = o \o c
  BY <1>2, <1>3, <1>6, SolidConcat
<1>8. Solid(text \o chunk) = Solid(text) \o k
  BY <1>2, SolidConcat
<1>9. Solid(text) = o \o b
  BY LostApart
<1>10. c \o r = b \o k
  BY <1>4, <1>5
<1>11. Solid(FlattenSeq(out')) = o \o c /\ Solid(buffer') = r /\ Solid(text') = (o \o b) \o k
  BY <1>1, <1>6, <1>7, <1>8, <1>9
<1> HIDE DEF o, c, r, b, k
<1>12. (o \o c) \o r = (o \o b) \o k
  <2>1. (o \o c) \o r = o \o (c \o r)
    BY <1>7, TextAssociative
  <2>2. (o \o b) \o k = o \o (b \o k)
    BY <1>7, TextAssociative
  <2> QED
    BY <1>10, <2>1, <2>2
<1>13. TypeInv'
  BY PushType
<1>14. NothingIsLost' <=> Solid(FlattenSeq(out')) \o Solid(buffer') = Solid(text')
  <2>1. (TypeInv => (NothingIsLost <=> Solid(FlattenSeq(out)) \o Solid(buffer) = Solid(text)))'
    BY LostApart, PTL
  <2> QED
    BY <1>13, <2>1
<1> QED
  BY <1>11, <1>12, <1>14

\* flush loses nothing.
LEMMA FlushKeeps ==
    ASSUME TypeInv, NothingIsLost, Flush
    PROVE  NothingIsLost'
<1>1. out' = out \o NonEmpty(buffer) /\ buffer' = <<>> /\ text' = text
  BY DEF Flush
<1>2. buffer \in Text /\ text \in Text /\ out \in Seq(Text)
  BY DEF TypeInv
<1>3. /\ NonEmpty(buffer) \in Seq(Text) /\ FlattenSeq(NonEmpty(buffer)) \in Text
      /\ Solid(FlattenSeq(NonEmpty(buffer))) = Solid(buffer)
  BY <1>2, NonEmptyIsSolid
<1>4. FlattenSeq(out) \in Text /\ FlattenSeq(out') = FlattenSeq(out) \o FlattenSeq(NonEmpty(buffer))
  BY <1>1, <1>2, <1>3, FlattenConcat
<1>5. Solid(FlattenSeq(out')) = Solid(FlattenSeq(out)) \o Solid(buffer)
  <2>1. Solid(FlattenSeq(out) \o FlattenSeq(NonEmpty(buffer)))
          = Solid(FlattenSeq(out)) \o Solid(FlattenSeq(NonEmpty(buffer)))
    BY <1>3, <1>4, SolidConcat
  <2> QED
    BY <1>3, <1>4, <2>1
<1>6. Solid(FlattenSeq(out')) = Solid(text) /\ Solid(text) \in Text
  BY <1>2, <1>5, LostApart, SolidConcat
<1>7. Solid(buffer') = <<>>
  BY <1>1, SolidGrows
<1>8. Solid(text) \o <<>> = Solid(text)
  BY <1>6, ConcatEmptySeq DEF Text
<1>9. TypeInv'
  BY FlushType
<1>10. NothingIsLost' <=> Solid(FlattenSeq(out')) \o Solid(buffer') = Solid(text')
  <2>1. (TypeInv => (NothingIsLost <=> Solid(FlattenSeq(out)) \o Solid(buffer) = Solid(text)))'
    BY LostApart, PTL
  <2> QED
    BY <1>9, <2>1
<1> QED
  BY <1>1, <1>6, <1>7, <1>8, <1>10

\* However the stream is split, the segments and the buffer hold every character
\* of it once and in order, white space at their ends aside.
THEOREM StreamIsKept == Spec => []NothingIsLost
<1> DEFINE LossInv == TypeInv /\ NothingIsLost
<1>1. Init => LossInv
  <2> SUFFICES ASSUME Init PROVE LossInv
    OBVIOUS
  <2>1. buffer = <<>> /\ text = <<>> /\ out = <<>>
    BY DEF Init
  <2>2. FlattenSeq(out) \o buffer = text
    BY <2>1, FlattenGrows, ConcatEmptySeq, EmptySeq
  <2> QED
    BY <2>2, InitType DEF NothingIsLost
<1>2. LossInv /\ [Next]_vars => LossInv'
  <2> SUFFICES ASSUME LossInv, [Next]_vars PROVE LossInv'
    OBVIOUS
  <2>1. CASE UNCHANGED vars
    BY <2>1 DEF vars, TypeInv, NothingIsLost
  <2> QED
    BY <2>1, Steps, PushType, PushKeeps, FlushType, FlushKeeps
<1> QED
  BY <1>1, <1>2, PTL DEF Spec

-----------------------------------------------------------------------------
(* OnePieceKeepsFences. *)

\* A piece of a piece.
LEMMA PieceOfPiece ==
    ASSUME NEW s \in Text, NEW a \in Nat, NEW b \in a..Len(s), NEW x \in Nat, NEW y \in 0..b - a
    PROVE  SubSeq(SubSeq(s, a + 1, b), x + 1, y) = SubSeq(s, (a + x) + 1, a + y)
<1> DEFINE p == SubSeq(s, a + 1, b)
           l == SubSeq(p, x + 1, y)
           r == SubSeq(s, (a + x) + 1, a + y)
<1>1. s \in Seq(Char) /\ Len(s) \in Nat /\ b \in 0..Len(s) /\ b \in Nat /\ a <= b /\ y \in Nat
      /\ a + x \in Nat /\ a + y \in 0..Len(s)
  BY DEF Text
<1>2. p \in Seq(Char) /\ Len(p) = b - a /\ \A i \in 1..b - a : p[i] = s[a + i]
  BY <1>1, PieceFacts
<1>3. /\ r \in Seq(Char) /\ Len(r) = IF a + x <= a + y THEN (a + y) - (a + x) ELSE 0
      /\ \A i \in 1..(a + y) - (a + x) : r[i] = s[(a + x) + i]
  BY <1>1, PieceFacts
<1> HIDE DEF p, r
<1>4. y \in 0..Len(p)
  BY <1>2
<1>5. /\ l \in Seq(Char) /\ Len(l) = IF x <= y THEN y - x ELSE 0
      /\ \A i \in 1..y - x : l[i] = p[x + i] /\ x + i \in 1..Len(p)
  BY <1>2, <1>4, PieceFacts
<1> HIDE DEF l
<1>6. Len(l) = Len(r)
  BY <1>1, <1>3, <1>5
<1>7. ASSUME NEW i \in 1..Len(l) PROVE l[i] = r[i]
  <2>1. i \in 1..y - x /\ i \in 1..(a + y) - (a + x) /\ i \in Nat
    BY <1>1, <1>5
  <2>2. x + i \in 1..b - a /\ a + (x + i) = (a + x) + i
    BY <1>2, <1>5, <2>1
  <2> QED
    BY <1>2, <1>3, <1>5, <2>1, <2>2
<1>8. l = r
  BY <1>3, <1>5, <1>6, <1>7, SeqEqual
<1> QED
  BY <1>8 DEF l, r, p

\* The scan of a prefix is the scan of the text, up to a marker that the end of
\* the prefix cuts in two.
LEMMA PrefixScan ==
    ASSUME NEW s \in Text, NEW fence \in BOOLEAN, NEW n \in 0..Len(s)
    PROVE  /\ SubSeq(s, 1, n) \in Text /\ Len(SubSeq(s, 1, n)) = n
           /\ \A i \in 0..n : i + Scans(s, fence)[i].skip <= n
                                => Scans(SubSeq(s, 1, n), fence)[i] = Scans(s, fence)[i]
<1> DEFINE p == SubSeq(s, 0 + 1, n)
           f == Scans(s, fence)
           g == Scans(p, fence)
           S == {i \in 0..n : i + f[i].skip <= n => g[i] = f[i]}
<1>1. s \in Seq(Char) /\ Len(s) \in Nat /\ 0 \in Nat /\ n \in Nat /\ n \in 0..Len(s) /\ n \in 0..n /\ 0 \in 0..n
      /\ 0 + 1 = 1 /\ n \in 0..n - 0 /\ n \in (0)..Len(s)
  BY DEF Text
<1>2. p \in Text /\ Len(p) = n /\ \A i \in 1..n - 0 : p[i] = s[0 + i]
  BY <1>1, PieceFacts DEF Text
<1>3. \A i \in 1..n : p[i] = s[i]
  <2> HIDE DEF p
  <2>1. \A i \in 1..n : i \in 1..n - 0 /\ 0 + i = i
    BY <1>1
  <2> QED
    BY <1>2, <2>1
<1>4. \A a \in Nat, i \in 1..n : SubSeq(p, a + 1, i) = SubSeq(s, a + 1, i)
  <2> TAKE a \in Nat, i \in 1..n
  <2>1. i \in 0..n - 0 /\ 0 + a = a /\ 0 + i = i
    BY <1>1
  <2> QED
    BY <1>1, <2>1, PieceOfPiece
<1> HIDE DEF p
<1>5. /\ f[0] = ScanStart(fence) /\ g[0] = ScanStart(fence)
      /\ \A i \in 1..n : f[i] = ScanStep(s, f[i - 1], i) /\ g[i] = ScanStep(p, g[i - 1], i)
      /\ \A i \in 0..n : f[i] \in ScanState(s)
  <2>1. f[0] = ScanStart(fence) /\ g[0] = ScanStart(fence)
    BY <1>2, ScansFacts
  <2>2. \A i \in 1..Len(s) : f[i] = ScanStep(s, f[i - 1], i)
    BY ScansFacts
  <2>3. \A i \in 1..n : g[i] = ScanStep(p, g[i - 1], i)
    BY <1>2, ScansFacts
  <2>4. \A i \in 0..Len(s) : f[i] \in ScanState(s)
    BY ScansFacts
  <2>5. (\A i \in 1..n : i \in 1..Len(s)) /\ (\A i \in 0..n : i \in 0..Len(s))
    BY <1>1
  <2> HIDE DEF f, g
  <2> QED
    BY <2>1, <2>2, <2>3, <2>4, <2>5
<1> HIDE DEF f, g
<1>6. 0 \in S
  BY <1>1, <1>5
<1>7. ASSUME NEW i \in 1..n, i - 1 \in S PROVE i \in S
  <2>1. i \in Nat /\ i \in 0..n /\ i - 1 \in 0..n /\ i \in 1..Len(s)
    BY <1>1
  <2>2. PICK scan \in ScanState(s) : scan = f[i - 1]
    BY <1>5, <2>1
  <2>3. PICK next \in ScanState(s) : next = f[i]
    BY <1>5, <2>1
  <2>4. next = ScanStep(s, scan, i)
    BY <1>5, <2>2, <2>3
  <2>5. SUFFICES ASSUME i + next.skip <= n PROVE g[i] = next
    BY <2>1, <2>3
  <2>6. scan.skip \in 0..2 /\ scan.start \in Nat /\ next.skip \in 0..2
    BY <1>1 DEF ScanState
  <2>7. (i - 1) + scan.skip <= n /\ (scan.skip > 0 \/ ~ FenceAt(s, i) \/ i + 2 <= n)
    <3>1. CASE SkipsOver(scan, next)
      BY <1>1, <2>1, <2>5, <2>6, <3>1 DEF SkipsOver
    <3>2. CASE MeetsFence(s, scan, i, next)
      BY <1>1, <2>1, <2>5, <2>6, <3>2 DEF MeetsFence
    <3>3. CASE EndsSegment(s, scan, i, next) \/ GoesOn(s, scan, i, next)
      <4>1. scan.skip = 0 /\ ~ FenceAt(s, i)
        BY <3>3 DEF EndsSegment, GoesOn
      <4> QED
        BY <1>1, <2>1, <4>1
    <3> QED
      BY <2>1, <2>4, <3>1, <3>2, <3>3, StepCases
  <2>8. g[i - 1] = scan
    BY <1>7, <2>2, <2>7
  <2>9. scan.skip > 0 \/ (FenceAt(p, i) <=> FenceAt(s, i))
    <3>1. FenceAt(p, i) => i + 2 <= n
      BY <1>2, <2>1, MarkerIs
    <3>2. ASSUME i + 2 <= n PROVE FenceAt(p, i) <=> FenceAt(s, i)
      <4>1. p[i] = s[i] /\ p[i + 1] = s[i + 1] /\ p[i + 2] = s[i + 2] /\ i + 2 <= Len(s)
        <5>1. i \in 1..n /\ i + 1 \in 1..n /\ i + 2 \in 1..n
          BY <1>1, <2>1, <3>2
        <5> QED
          BY <1>1, <1>3, <5>1
      <4> QED
        BY <1>2, <2>1, <3>2, <4>1, MarkerIs
    <3> QED
      BY <2>7, <3>1, <3>2
  <2>10. p[i] = s[i] /\ SubSeq(p, scan.start + 1, i) = SubSeq(s, scan.start + 1, i)
    BY <1>3, <1>4, <2>6
  <2>11. ScanStep(p, scan, i) = ScanStep(s, scan, i)
    <3>1. CutsAfter(p, scan, i) <=> CutsAfter(s, scan, i)
      BY <2>10 DEF CutsAfter
    <3>2. CASE scan.skip > 0
      BY <3>2 DEF ScanStep
    <3>3. CASE ~ (scan.skip > 0) /\ FenceAt(s, i)
      BY <2>9, <3>3 DEF ScanStep
    <3>4. CASE ~ (scan.skip > 0) /\ ~ FenceAt(s, i)
      BY <2>9, <2>10, <3>1, <3>4 DEF ScanStep
    <3> QED
      BY <3>2, <3>3, <3>4
  <2> QED
    BY <1>5, <2>4, <2>8, <2>11
<1> HIDE DEF S
<1>8. \A i \in 0..n : i \in S
  BY <1>1, <1>6, <1>7, Induction
<1>9. \A i \in 0..n : i + f[i].skip <= n => g[i] = f[i]
  BY <1>8 DEF S
<1> QED
  BY <1>1, <1>2, <1>9 DEF f, g, p

\* A cut is made outside of a fence, and not within a marker.
LEMMA CutsOutside ==
    ASSUME NEW s \in Text, NEW fence \in BOOLEAN, NEW m \in Scan(s, fence).cuts
    PROVE  m \in 1..Len(s) /\ ~ Scans(s, fence)[m].fence /\ Scans(s, fence)[m].skip = 0
<1> DEFINE f == Scans(s, fence)
           S == {i \in 0..Len(s) : \A k \in f[i].cuts : ~ f[k].fence /\ f[k].skip = 0}
<1>1. Len(s) \in Nat /\ Len(s) \in 0..Len(s) /\ 0 \in 0..Len(s)
  BY DEF Text
<1>2. f[0] = ScanStart(fence) /\ Scan(s, fence) = f[Len(s)]
  BY ScansFacts DEF Scan
<1>3. \A i \in 1..Len(s) : f[i - 1] \in ScanState(s) /\ f[i] = ScanStep(s, f[i - 1], i)
  BY <1>1, ScansFacts
<1> HIDE DEF f
<1>4. 0 \in S
  BY <1>1, <1>2 DEF ScanStart
<1>5. ASSUME NEW i \in 1..Len(s), i - 1 \in S PROVE i \in S
  <2>1. i \in 0..Len(s)
    BY <1>1
  <2>2. \A k \in f[i - 1].cuts : ~ f[k].fence /\ f[k].skip = 0
    BY <1>5
  <2>3. CASE f[i].cuts = f[i - 1].cuts
    BY <2>1, <2>2, <2>3
  <2>4. CASE EndsSegment(s, f[i - 1], i, f[i])
    <3>1. f[i].cuts = f[i - 1].cuts \cup {i} /\ ~ f[i].fence /\ f[i].skip = 0
      BY <2>4 DEF EndsSegment, CutsAfter
    <3> QED
      BY <2>1, <2>2, <3>1
  <2>5. f[i].cuts = f[i - 1].cuts \/ EndsSegment(s, f[i - 1], i, f[i])
    <3>1. \/ SkipsOver(f[i - 1], f[i]) \/ MeetsFence(s, f[i - 1], i, f[i])
          \/ EndsSegment(s, f[i - 1], i, f[i]) \/ GoesOn(s, f[i - 1], i, f[i])
      BY <1>3, StepCases
    <3> QED
      BY <3>1 DEF SkipsOver, MeetsFence, GoesOn
  <2> QED
    BY <2>3, <2>4, <2>5
<1> HIDE DEF S
<1>6. \A i \in 0..Len(s) : i \in S
  BY <1>1, <1>4, <1>5, Induction
<1>7. ~ f[m].fence /\ f[m].skip = 0
  BY <1>1, <1>2, <1>6 DEF S
<1>8. m \in 1..Len(s)
  BY ScanType
<1> QED
  BY <1>7, <1>8 DEF f

\* Scanned at once from its first character, a text is not cut inside a fence.
LEMMA WholeKeepsFences ==
    ASSUME NEW s \in Text, NEW m \in Scan(s, FALSE).cuts
    PROVE  ~ OpenFence(s, m)
<1>1. m \in 1..Len(s) /\ ~ Scans(s, FALSE)[m].fence /\ Scans(s, FALSE)[m].skip = 0
  BY CutsOutside
<1>2. m \in 0..Len(s) /\ m \in 0..m /\ m + 0 <= m
  BY <1>1 DEF Text
<1>3. Len(SubSeq(s, 1, m)) = m /\ Scans(SubSeq(s, 1, m), FALSE)[m] = Scans(s, FALSE)[m]
  BY <1>1, <1>2, PrefixScan
<1> QED
  BY <1>1, <1>3 DEF OpenFence, Scan

\* Nothing was pushed yet.
FreshInv == pushes = "none" => buffer = <<>> /\ text = <<>> /\ cuts = {} /\ inFence = FALSE

\* A turn that arrives in one piece is never cut inside a fenced block: a cut is
\* made where the scan has no fence open and is within no marker, and up to there
\* the scan of what came before the cut is the same.
THEOREM OnePieceIsCutOutside == Spec => []OnePieceKeepsFences
<1> DEFINE FenceInv == TypeInv /\ FreshInv /\ OnePieceKeepsFences
<1>1. Init => FenceInv
  BY InitType DEF Init, FreshInv, OnePieceKeepsFences
<1>2. FenceInv /\ [Next]_vars => FenceInv'
  <2> SUFFICES ASSUME FenceInv, [Next]_vars PROVE FenceInv'
    OBVIOUS
  <2>1. ASSUME NEW chunk \in Text, Push(chunk) PROVE FenceInv'
    <3>1. TypeInv'
      BY <2>1, PushType
    <3>2. pushes' = (IF pushes = "none" THEN "one" ELSE "several") /\ text' = text \o chunk
      BY <2>1 DEF Push
    <3>3. FreshInv'
      BY <3>2 DEF FreshInv
    <3>4. ASSUME pushes' = "one" PROVE \A n \in cuts' : ~ OpenFence(text', n)
      <4>1. buffer = <<>> /\ text = <<>> /\ cuts = {} /\ inFence = FALSE
        BY <3>2, <3>4 DEF FreshInv
      <4>2. buffer \o chunk = chunk /\ text \o chunk = chunk
        BY <4>1, ConcatEmptySeq DEF Text
      <4>3. text' = chunk
        BY <3>2, <4>2
      <4>4. cuts' = {Len(text) - Len(buffer) + i : i \in Scan(chunk, FALSE).cuts}
        BY <2>1, <4>1, <4>2 DEF Push
      <4>5. \A i \in Scan(chunk, FALSE).cuts : Len(text) - Len(buffer) + i = i
        <5>1. \A i \in Scan(chunk, FALSE).cuts : i \in 1..Len(chunk)
          BY CutsOutside
        <5>2. Len(text) = 0 /\ Len(buffer) = 0 /\ Len(chunk) \in Nat
          BY <4>1 DEF Text
        <5>3. \A i \in 1..Len(chunk) : 0 - 0 + i = i
          BY <5>2
        <5> QED
          BY <5>1, <5>2, <5>3
      <4>6. cuts' = Scan(chunk, FALSE).cuts
        BY <4>4, <4>5
      <4> QED
        BY <4>3, <4>6, WholeKeepsFences
    <3> QED
      BY <3>1, <3>3, <3>4 DEF OnePieceKeepsFences
  <2>2. CASE Flush
    <3>1. TypeInv'
      BY <2>2, FlushType
    <3>2. buffer' = <<>> /\ UNCHANGED <<inFence, text, cuts, pushes>>
      BY <2>2 DEF Flush
    <3> QED
      BY <3>1, <3>2 DEF FreshInv, OnePieceKeepsFences
  <2>3. CASE UNCHANGED vars
    BY <2>3 DEF vars, TypeInv, FreshInv, OnePieceKeepsFences
  <2> QED
    BY <2>1, <2>2, <2>3, Steps
<1> QED
  BY <1>1, <1>2, PTL DEF Spec

-----------------------------------------------------------------------------
(* ChunksLeaveNoTrace. *)

\* A piece of a text without fenced code has none.
LEMMA PieceHasNoFence ==
    ASSUME NEW s \in Text, NEW a \in Nat, NEW b \in 0..Len(s), ~ HasFence(s)
    PROVE  ~ HasFence(SubSeq(s, a + 1, b))
<1> DEFINE p == SubSeq(s, a + 1, b)
<1>1. /\ p \in Text /\ Len(p) = IF a <= b THEN b - a ELSE 0
      /\ \A i \in 1..b - a : p[i] = s[a + i] /\ a + i \in 1..Len(s)
  BY PieceFacts DEF Text
<1>2. b \in Nat /\ Len(s) \in Nat
  BY DEF Text
<1> HIDE DEF p
<1> SUFFICES ASSUME HasFence(p) PROVE FALSE
  BY DEF p
<1>3. PICK j \in Nat : 0 < j /\ j + 2 <= Len(p) /\ FenceAt(p, j)
  BY <1>1, FenceIsMarker DEF Marked
<1>4. j \in 1..b - a /\ j + 1 \in 1..b - a /\ j + 2 \in 1..b - a
  BY <1>1, <1>2, <1>3
<1>5. PICK k \in Nat : k = a + j
  BY <1>3
<1>6. k + 2 <= Len(s) /\ 0 < k /\ a + (j + 1) = k + 1 /\ a + (j + 2) = k + 2
  <2>1. a + (j + 2) \in 1..Len(s)
    BY <1>1, <1>4
  <2> QED
    BY <1>2, <1>3, <1>5, <2>1
<1>7. p[j] = "f" /\ p[j + 1] = "f" /\ p[j + 2] = "f"
  BY <1>3, MarkerIs
<1>8. s[k] = "f" /\ s[k + 1] = "f" /\ s[k + 2] = "f"
  BY <1>1, <1>4, <1>5, <1>6, <1>7
<1>9. FenceAt(s, k)
  BY <1>6, <1>8, MarkerIs
<1> QED
  BY <1>6, <1>9, FenceIsMarker DEF Marked

\* The scan of a text without fenced code: each character ends a segment or is
\* passed over, and what the scan holds is what it held after its last cut.
LEMMA PlainScan ==
    ASSUME NEW s \in Text, ~ HasFence(s)
    PROVE  /\ \A i \in 0..Len(s) :
                /\ Scans(s, FALSE)[i].fence = FALSE /\ Scans(s, FALSE)[i].skip = 0
                /\ Scans(s, FALSE)[i].start \in 0..i
                /\ Scans(s, FALSE)[Scans(s, FALSE)[i].start] = Scans(s, FALSE)[i]
           /\ \A i \in 1..Len(s) :
                \/ EndsSegment(s, Scans(s, FALSE)[i - 1], i, Scans(s, FALSE)[i])
                \/ GoesOn(s, Scans(s, FALSE)[i - 1], i, Scans(s, FALSE)[i])
<1> DEFINE f == Scans(s, FALSE)
           Plain(i) == f[i].fence = FALSE /\ f[i].skip = 0 /\ f[i].start \in 0..i /\ f[f[i].start] = f[i]
           S == {i \in 0..Len(s) : Plain(i)}
<1>1. Len(s) \in Nat /\ 0 \in 0..Len(s)
  BY DEF Text
<1>2. f[0] = ScanStart(FALSE)
  BY ScansFacts
<1>3. \A i \in 1..Len(s) : f[i - 1] \in ScanState(s) /\ f[i] = ScanStep(s, f[i - 1], i)
  <2>1. \A i \in 0..Len(s) : f[i] \in ScanState(s)
    BY ScansFacts
  <2>2. \A i \in 1..Len(s) : f[i] = ScanStep(s, f[i - 1], i)
    BY ScansFacts
  <2>3. \A i \in 1..Len(s) : i - 1 \in 0..Len(s)
    BY <1>1
  <2> HIDE DEF f
  <2> QED
    BY <2>1, <2>2, <2>3
<1> HIDE DEF f
<1>4. ASSUME NEW i \in 1..Len(s), f[i - 1].skip = 0
      PROVE  EndsSegment(s, f[i - 1], i, f[i]) \/ GoesOn(s, f[i - 1], i, f[i])
  <2>1. ~ SkipsOver(f[i - 1], f[i])
    BY <1>4 DEF SkipsOver
  <2>2. ~ FenceAt(s, i)
    <3>1. i \in Nat /\ 0 < i /\ (FenceAt(s, i) => i + 2 <= Len(s))
      BY <1>1, MarkerIs
    <3> QED
      BY <3>1, FenceIsMarker DEF Marked
  <2>3. ~ MeetsFence(s, f[i - 1], i, f[i])
    BY <2>2 DEF MeetsFence
  <2> QED
    BY <1>3, <2>1, <2>3, StepCases
<1>5. 0 \in S
  <2>1. f[0].start = 0 /\ f[0].fence = FALSE /\ f[0].skip = 0
    BY <1>2 DEF ScanStart
  <2> QED
    BY <1>1, <2>1
<1>6. ASSUME NEW i \in 1..Len(s), i - 1 \in S PROVE i \in S
  <2>1. i \in 0..Len(s) /\ i \in 0..i /\ \A k \in 0..i - 1 : k \in 0..i
    BY <1>1
  <2>2. Plain(i - 1)
    BY <1>6
  <2>3. CASE EndsSegment(s, f[i - 1], i, f[i])
    <3>1. f[i].start = i /\ f[i].fence = f[i - 1].fence /\ f[i].skip = 0
      BY <2>3 DEF EndsSegment
    <3> QED
      BY <2>1, <2>2, <3>1
  <2>4. CASE GoesOn(s, f[i - 1], i, f[i])
    <3>1. f[i] = f[i - 1]
      BY <2>4 DEF GoesOn
    <3> QED
      BY <2>1, <2>2, <3>1
  <2> QED
    BY <1>4, <2>2, <2>3, <2>4
<1> HIDE DEF S
<1>7. \A i \in 0..Len(s) : i \in S
  BY <1>1, <1>5, <1>6, Induction
<1>8. \A i \in 0..Len(s) : Plain(i)
  BY <1>7 DEF S
<1>9. \A i \in 1..Len(s) : EndsSegment(s, f[i - 1], i, f[i]) \/ GoesOn(s, f[i - 1], i, f[i])
  <2> TAKE i \in 1..Len(s)
  <2>1. i - 1 \in 0..Len(s)
    BY <1>1
  <2> QED
    BY <1>4, <1>8, <2>1
<1> QED
  BY <1>8, <1>9 DEF f

\* The scan of a text from its last cut on is the scan of what follows the cut.
LEMMA ScanFromCut ==
    ASSUME NEW u \in Text, ~ HasFence(u), NEW a \in 0..Len(u), Scans(u, FALSE)[a].start = a,
           NEW s \in Text, s = SubSeq(u, a + 1, Len(u))
    PROVE  /\ Len(s) = Len(u) - a
           /\ Scan(u, FALSE).start = a + Scan(s, FALSE).start
           /\ Scan(u, FALSE).segments = Scans(u, FALSE)[a].segments \o Scan(s, FALSE).segments
<1> DEFINE f == Scans(u, FALSE)
           g == Scans(s, FALSE)
           Shifted(j) == f[a + j].start = a + g[j].start /\ f[a + j].segments = f[a].segments \o g[j].segments
           S == {j \in 0..Len(s) : Shifted(j)}
<1>1. /\ Len(u) \in Nat /\ a \in Nat /\ a <= Len(u) /\ Len(u) \in 0..Len(u) /\ Len(u) \in a..Len(u)
      /\ Len(u) - a \in Nat
  BY DEF Text
<1>2. Len(s) = Len(u) - a /\ \A i \in 1..Len(u) - a : s[i] = u[a + i]
  BY <1>1, PieceFacts DEF Text
<1>3. ~ HasFence(s)
  BY <1>1, PieceHasNoFence
<1>4. \A x \in Nat, y \in 0..Len(u) - a : SubSeq(s, x + 1, y) = SubSeq(u, (a + x) + 1, a + y)
  BY <1>1, PieceOfPiece
<1>5. /\ \A i \in 1..Len(u) : EndsSegment(u, f[i - 1], i, f[i]) \/ GoesOn(u, f[i - 1], i, f[i])
      /\ \A i \in 0..Len(u) : f[i].fence = FALSE /\ f[i].start \in 0..i
  BY PlainScan
<1>6. /\ \A j \in 1..Len(s) : EndsSegment(s, g[j - 1], j, g[j]) \/ GoesOn(s, g[j - 1], j, g[j])
      /\ \A j \in 0..Len(s) : g[j].fence = FALSE /\ g[j].start \in 0..j
  BY <1>3, PlainScan
<1>7. (\A i \in 0..Len(u) : f[i] \in ScanState(u)) /\ (\A j \in 0..Len(s) : g[j] \in ScanState(s))
  BY ScansFacts
<1>8. g[0] = ScanStart(FALSE) /\ f[a].start = a
  BY ScansFacts
<1>9. Scan(u, FALSE) = f[Len(u)] /\ Scan(s, FALSE) = g[Len(s)]
  BY DEF Scan
<1> HIDE DEF f, g
<1>10. f[a].segments \in Seq(Text)
  BY <1>7 DEF ScanState
<1>11. 0 \in S
  <2>1. g[0].start = 0 /\ g[0].segments = <<>>
    BY <1>8 DEF ScanStart
  <2>2. f[a].segments \o <<>> = f[a].segments
    BY <1>10, ConcatEmptySeq
  <2>3. a + 0 = a /\ 0 \in 0..Len(s)
    BY <1>1, <1>2
  <2> QED
    BY <1>8, <2>1, <2>2, <2>3
<1>12. ASSUME NEW j \in 1..Len(s), j - 1 \in S PROVE j \in S
  <2>1. PICK i \in 1..Len(u) : i = a + j /\ a + (j - 1) = i - 1
    BY <1>1, <1>2
  <2>2. j \in 0..Len(s) /\ j - 1 \in 0..Len(s) /\ i - 1 \in 0..Len(u) /\ i \in 0..Len(u) /\ j \in Nat
    BY <1>1, <1>2
  <2>3. f[i - 1].start = a + g[j - 1].start /\ f[i - 1].segments = f[a].segments \o g[j - 1].segments
    BY <1>12, <2>1
  <2>4. f[i - 1].fence = FALSE /\ g[j - 1].fence = FALSE /\ g[j - 1].segments \in Seq(Text)
    BY <1>5, <1>6, <1>7, <2>2 DEF ScanState
  <2>5. PICK x \in Nat : x = g[j - 1].start
    BY <1>6, <2>2
  <2>6. u[i] = s[j]
    BY <1>2, <2>1
  <2>7. i - f[i - 1].start = j - g[j - 1].start
    BY <1>1, <2>1, <2>2, <2>3, <2>5
  <2>8. CutsAfter(u, f[i - 1], i) <=> CutsAfter(s, g[j - 1], j)
    BY <2>4, <2>6, <2>7 DEF CutsAfter
  <2>9. CASE CutsAfter(s, g[j - 1], j)
    <3>1. /\ f[i].start = i
          /\ f[i].segments = f[i - 1].segments \o NonEmpty(SubSeq(u, f[i - 1].start + 1, i))
      BY <1>5, <2>8, <2>9 DEF EndsSegment, GoesOn
    <3>2. /\ g[j].start = j
          /\ g[j].segments = g[j - 1].segments \o NonEmpty(SubSeq(s, g[j - 1].start + 1, j))
      BY <1>6, <2>9 DEF EndsSegment, GoesOn
    <3>3. SubSeq(s, x + 1, j) = SubSeq(u, (a + x) + 1, i) /\ SubSeq(s, x + 1, j) \in Text
      <4>1. j \in 0..Len(u) - a
        BY <1>2, <2>2
      <4>2. SubSeq(s, x + 1, j) = SubSeq(u, (a + x) + 1, a + j)
        BY <1>4, <4>1
      <4>3. SubSeq(s, x + 1, j) \in Text
        BY <2>2, PieceFacts DEF Text
      <4> QED
        BY <2>1, <4>2, <4>3
    <3> DEFINE y == NonEmpty(SubSeq(s, x + 1, j))
    <3>4. y \in Seq(Text)
      BY <3>3, NonEmptyType
    <3>5. f[i].segments = (f[a].segments \o g[j - 1].segments) \o y /\ g[j].segments = g[j - 1].segments \o y
      BY <2>3, <2>5, <3>1, <3>2, <3>3
    <3> HIDE DEF y
    <3>6. f[i].segments = f[a].segments \o g[j].segments
      <4>1. PICK p \in Seq(Text), q \in Seq(Text), z \in Seq(Text) :
                   p = f[a].segments /\ q = g[j - 1].segments /\ z = y
        BY <1>10, <2>4, <3>4
      <4>2. (p \o q) \o z = p \o (q \o z)
        BY SegmentsAssociative
      <4> QED
        BY <3>5, <4>1, <4>2
    <3> QED
      BY <2>1, <2>2, <3>1, <3>2, <3>6
  <2>10. CASE ~ CutsAfter(s, g[j - 1], j)
    <3>1. f[i] = f[i - 1]
      BY <1>5, <2>8, <2>10 DEF EndsSegment, GoesOn
    <3>2. g[j] = g[j - 1]
      BY <1>6, <2>10 DEF EndsSegment, GoesOn
    <3> QED
      BY <2>1, <2>2, <2>3, <3>1, <3>2
  <2> QED
    BY <2>9, <2>10
<1> HIDE DEF S
<1>13. \A j \in 0..Len(s) : j \in S
  <2>1. Len(s) \in Nat
    BY <1>1, <1>2
  <2> QED
    BY <1>11, <1>12, <2>1, Induction
<1>14. Len(s) \in 0..Len(s) /\ a + Len(s) = Len(u)
  BY <1>1, <1>2
<1>15. Shifted(Len(s))
  BY <1>13, <1>14 DEF S
<1> QED
  BY <1>2, <1>9, <1>14, <1>15 DEF f

\* The two pieces a concatenation is made of.
LEMMA ConcatPieces ==
    ASSUME NEW t \in Text, NEW c \in Text
    PROVE  /\ t \o c \in Text /\ Len(t \o c) = Len(t) + Len(c)
           /\ Len(t) \in 0..Len(t \o c)
           /\ SubSeq(t \o c, 0 + 1, Len(t)) = t
           /\ SubSeq(t \o c, Len(t) + 1, Len(t \o c)) = c
<1> DEFINE u == t \o c
<1>1. Len(t) \in Nat /\ Len(c) \in Nat /\ t \in Seq(Char) /\ c \in Seq(Char)
  BY DEF Text
<1>2. /\ u \in Seq(Char) /\ Len(u) = Len(t) + Len(c)
      /\ \A i \in 1..Len(t) + Len(c) : u[i] = IF i <= Len(t) THEN t[i] ELSE c[i - Len(t)]
  BY <1>1, ConcatProperties
<1> HIDE DEF u
<1>3. Len(t) \in 0..Len(u) /\ Len(u) \in 0..Len(u) /\ 0 \in Nat
  BY <1>1, <1>2
<1> DEFINE l == SubSeq(u, 0 + 1, Len(t))
           r == SubSeq(u, Len(t) + 1, Len(u))
<1>4. l \in Seq(Char) /\ Len(l) = Len(t) /\ \A i \in 1..Len(t) - 0 : l[i] = u[0 + i]
  BY <1>1, <1>2, <1>3, PieceFacts
<1>5. r \in Seq(Char) /\ Len(r) = Len(c) /\ \A i \in 1..Len(u) - Len(t) : r[i] = u[Len(t) + i]
  BY <1>1, <1>2, <1>3, PieceFacts
<1> HIDE DEF l, r
<1>6. \A i \in 1..Len(l) : l[i] = t[i]
  <2> TAKE i \in 1..Len(l)
  <2>1. i \in 1..Len(t) - 0 /\ 0 + i = i /\ i \in 1..Len(t) + Len(c) /\ i <= Len(t)
    BY <1>1, <1>4
  <2> QED
    BY <1>2, <1>4, <2>1
<1>7. \A i \in 1..Len(r) : r[i] = c[i]
  <2> TAKE i \in 1..Len(r)
  <2>1. PICK k \in 1..Len(t) + Len(c) : k = Len(t) + i
    BY <1>1, <1>5
  <2>2. i \in 1..Len(u) - Len(t) /\ ~ (k <= Len(t)) /\ k - Len(t) = i
    BY <1>1, <1>2, <1>5, <2>1
  <2>3. u[k] = c[k - Len(t)]
    BY <1>2, <2>2
  <2> QED
    BY <1>5, <2>1, <2>2, <2>3
<1>8. l = t
  BY <1>1, <1>4, <1>6, SeqEqual
<1>9. r = c
  BY <1>1, <1>5, <1>7, SeqEqual
<1> QED
  BY <1>2, <1>3, <1>8, <1>9 DEF u, l, r, Text

\* One more chunk of a text without fenced code: what is left of the text and
\* the chunk are scanned as the whole would be.
LEMMA OneMoreChunk ==
    ASSUME NEW t \in Text, NEW c \in Text, ~ HasFence(t \o c)
    PROVE  LET before == Scan(t, FALSE)
               whole  == Scan(t \o c, FALSE)
               now    == Scan(Rest(t, before) \o c, FALSE)
           IN  /\ whole.segments = before.segments \o now.segments
               /\ Rest(t \o c, whole) = Rest(Rest(t, before) \o c, now)
               /\ now.fence = FALSE
<1> DEFINE before == Scan(t, FALSE)
           u == t \o c
           f == Scans(u, FALSE)
           s == Rest(t, before) \o c
<1>1. /\ u \in Text /\ Len(u) = Len(t) + Len(c) /\ Len(t) \in Nat /\ Len(c) \in Nat
      /\ SubSeq(u, 0 + 1, Len(t)) = t /\ SubSeq(u, Len(t) + 1, Len(u)) = c
  BY ConcatPieces DEF Text
<1>2. PICK n \in 0..Len(u) : n = Len(t)
  <2>1. Len(t) \in 0..Len(u)
    BY ConcatPieces
  <2> QED
    BY <2>1
<1>3. n \in Nat /\ n \in 0..n /\ 0 + 1 = 1 /\ n + 0 <= n
  BY <1>1, <1>2
<1>4. f[n].skip = 0 /\ f[n].start \in 0..n /\ f[f[n].start] = f[n]
  BY <1>1, PlainScan
<1>5. before = f[n]
  <2>1. SubSeq(u, 1, n) = t
    BY <1>1, <1>2, <1>3
  <2>2. \A i \in 0..n : i + f[i].skip <= n => Scans(SubSeq(u, 1, n), FALSE)[i] = f[i]
    BY <1>1, PrefixScan
  <2>3. Scans(t, FALSE)[n] = f[n]
    BY <1>3, <1>4, <2>1, <2>2
  <2> QED
    BY <1>2, <2>3 DEF Scan
<1>6. PICK a \in 0..n : a = before.start
  BY <1>4, <1>5
<1>7. a \in 0..Len(u) /\ a \in Nat /\ Len(u) \in Nat /\ n \in a..Len(u) /\ Len(u) \in n..Len(u) /\ Len(u) \in 0..Len(u)
      /\ n \in 0..n - 0 /\ n \in 0..Len(u)
  BY <1>1, <1>2, <1>3
<1>8. f[a].start = a /\ f[a].segments = before.segments
  BY <1>4, <1>5, <1>6
<1>9. s = SubSeq(u, a + 1, Len(u)) /\ s \in Text
  <2>1. SubSeq(u, a + 1, Len(u)) = SubSeq(u, a + 1, n) \o SubSeq(u, n + 1, Len(u))
    BY <1>1, <1>7, Pieces
  <2>2. SubSeq(u, a + 1, n) = SubSeq(t, a + 1, n)
    <3>1. SubSeq(SubSeq(u, 0 + 1, n), a + 1, n) = SubSeq(u, (0 + a) + 1, 0 + n)
      BY <1>1, <1>7, PieceOfPiece
    <3>2. 0 + a = a /\ 0 + n = n
      BY <1>7
    <3> QED
      BY <1>1, <1>2, <3>1, <3>2
  <2>3. Rest(t, before) = SubSeq(t, a + 1, n)
    BY <1>2, <1>6 DEF Rest
  <2>4. SubSeq(u, a + 1, Len(u)) \in Text
    BY <1>1, <1>7, PieceFacts DEF Text
  <2> QED
    BY <1>1, <1>2, <2>1, <2>2, <2>3, <2>4
<1> DEFINE whole == Scan(u, FALSE)
           now == Scan(s, FALSE)
<1> HIDE DEF s, u, before
<1>10. /\ Len(s) = Len(u) - a
       /\ whole.start = a + now.start
       /\ whole.segments = f[a].segments \o now.segments
  BY <1>1, <1>7, <1>8, <1>9, ScanFromCut DEF u
<1>11. ~ HasFence(s)
  BY <1>1, <1>7, <1>9, PieceHasNoFence DEF u
<1>12. now.fence = FALSE /\ now.start \in 0..Len(s)
  <2>1. Len(s) \in 0..Len(s)
    BY <1>9 DEF Text
  <2> QED
    BY <1>9, <1>11, <2>1, PlainScan DEF Scan
<1> HIDE DEF whole, now
<1>13. Rest(u, whole) = Rest(s, now)
  <2>1. PICK x \in Nat : x = now.start
    BY <1>9, <1>12 DEF Text
  <2>2. Len(s) \in 0..Len(u) - a /\ a + Len(s) = Len(u) /\ Len(u) \in a..Len(u)
    BY <1>7, <1>10
  <2>3. SubSeq(s, x + 1, Len(s)) = SubSeq(u, (a + x) + 1, a + Len(s))
    BY <1>1, <1>7, <1>9, <2>2, PieceOfPiece
  <2> QED
    BY <1>10, <2>1, <2>2, <2>3 DEF Rest
<1> QED
  BY <1>8, <1>10, <1>12, <1>13 DEF s, u, before, whole, now

\* A text has a fence if a beginning of it has one, and none is open before one.
TraceInv ==
    /\ TypeInv /\ ChunksLeaveNoTrace
    /\ ~ HasFence(text) /\ ~ done => inFence = FALSE

\* Where there is no fenced code, chunk borders leave no trace: what is left of
\* the text so far is what the scan of the whole would have passed over since its
\* last cut.
THEOREM ChunksAreInvisible == Spec => []ChunksLeaveNoTrace
<1>1. Init => TraceInv
  <2> SUFFICES ASSUME Init PROVE TraceInv
    OBVIOUS
  <2>1. buffer = <<>> /\ text = <<>> /\ out = <<>> /\ inFence = FALSE /\ done = FALSE
    BY DEF Init
  <2>2. <<>> \in Text /\ Len(<<>>) = 0
    BY DEF Text
  <2>3. Scan(<<>>, FALSE) = ScanStart(FALSE)
    BY <2>2, ScansFacts DEF Scan
  <2>4. Scan(<<>>, FALSE).segments = <<>> /\ Scan(<<>>, FALSE).start = 0
    <3>1. \A fence \in BOOLEAN : ScanStart(fence).segments = <<>> /\ ScanStart(fence).start = 0
      BY DEF ScanStart
    <3> QED
      BY <2>3, <3>1
  <2>5. Rest(<<>>, Scan(<<>>, FALSE)) = <<>>
    <3>1. SubSeq(<<>>, 0 + 1, 0) = <<>>
      BY SubSeqEmpty
    <3> QED
      BY <2>2, <2>4, <3>1 DEF Rest
  <2> QED
    BY <2>1, <2>4, <2>5, InitType DEF TraceInv, ChunksLeaveNoTrace
<1>2. TraceInv /\ [Next]_vars => TraceInv'
  <2> SUFFICES ASSUME TraceInv, [Next]_vars PROVE TraceInv'
    OBVIOUS
  <2>0. TypeInv /\ text \in Text
    BY DEF TraceInv, TypeInv
  <2>1. ASSUME NEW chunk \in Text, Push(chunk) PROVE TraceInv'
    <3>1. TypeInv' /\ text' = text \o chunk /\ ~ done /\ ~ done'
      BY <2>0, <2>1, PushType DEF Push
    <3>2. ASSUME ~ HasFence(text')
          PROVE  /\ inFence' = FALSE /\ out' = Scan(text', FALSE).segments
                 /\ buffer' = Rest(text', Scan(text', FALSE))
      <4>1. ~ HasFence(text \o chunk) /\ ~ HasFence(text)
        BY <2>0, <3>1, <3>2, MarkerStays
      <4> DEFINE before == Scan(text, FALSE)
                 now == Scan(Rest(text, before) \o chunk, FALSE)
                 whole == Scan(text \o chunk, FALSE)
      <4>2. out = before.segments /\ buffer = Rest(text, before) /\ inFence = FALSE
        BY <3>1, <4>1 DEF TraceInv, ChunksLeaveNoTrace
      <4>3. out' = out \o now.segments /\ buffer' = Rest(Rest(text, before) \o chunk, now)
            /\ inFence' = now.fence
        BY <2>1, <4>2 DEF Push
      <4>4. /\ whole.segments = before.segments \o now.segments
            /\ Rest(text \o chunk, whole) = Rest(Rest(text, before) \o chunk, now)
            /\ now.fence = FALSE
        BY <2>0, <4>1, OneMoreChunk
      <4> HIDE DEF before, now
      <4> QED
        BY <3>1, <4>2, <4>3, <4>4
    <3> QED
      BY <3>1, <3>2 DEF TraceInv, ChunksLeaveNoTrace
  <2>2. CASE Flush
    <3>1. TypeInv' /\ ~ done /\ done' /\ text' = text /\ out' = out \o NonEmpty(buffer)
      BY <2>0, <2>2, FlushType DEF Flush
    <3>2. ASSUME ~ HasFence(text)
          PROVE  out' = Scan(text, FALSE).segments \o NonEmpty(Rest(text, Scan(text, FALSE)))
      <4>1. out = Scan(text, FALSE).segments /\ buffer = Rest(text, Scan(text, FALSE))
        BY <3>1, <3>2 DEF TraceInv, ChunksLeaveNoTrace
      <4> QED
        BY <3>1, <4>1
    <3> QED
      BY <3>1, <3>2 DEF TraceInv, ChunksLeaveNoTrace
  <2>3. CASE UNCHANGED vars
    BY <2>3 DEF vars, TraceInv, TypeInv, ChunksLeaveNoTrace
  <2> QED
    BY <2>0, <2>1, <2>2, <2>3, Steps
<1>3. TraceInv => ChunksLeaveNoTrace
  BY DEF TraceInv
<1> QED
  BY <1>1, <1>2, <1>3, PTL DEF Spec

=============================================================================
