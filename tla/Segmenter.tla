------------------------------ MODULE Segmenter ------------------------------
(***************************************************************************)
(* SentenceSegmenter: cuts the stream of a speaking turn into the segments *)
(* that are committed to the log and offered to the listeners.             *)
(*                                                                         *)
(* The provider chooses where the stream is split into chunks.  The text   *)
(* is a sequence over a small alphabet: "a" for any character of a word,   *)
(* "." for the marks that end a sentence, "n" for the newline, which ends  *)
(* a sentence and is white space, "_" for any other white space, and       *)
(* "f" for the backquote, three of which delimit fenced code.              *)
(***************************************************************************)
EXTENDS Naturals, SequencesExt

CONSTANTS
    MaxChars,     \* length at which a segment is cut without a boundary
    MaxText       \* bound on the length of the stream

ASSUME SegmenterAssumption == MaxChars \in Nat \ {0} /\ MaxText \in Nat

Char     == {"a", ".", "n", "_", "f"}
Boundary == {".", "n"}
White    == {"n", "_"}

Text == Seq(Char)

VARIABLES
    buffer,      \* _buffer: what is not yet cut off
    inFence,     \* _in_fence
    out,         \* the segments returned so far
    done,        \* flush has run
    \* read by the properties only
    text,        \* the stream so far
    cuts,        \* the positions in it after which it was cut
    pushes       \* whether it came in no, one or several chunks

vars == <<buffer, inFence, out, done, text, cuts, pushes>>

Init ==
    /\ buffer = <<>> /\ inFence = FALSE
    /\ out = <<>> /\ done = FALSE
    /\ text = <<>> /\ cuts = {} /\ pushes = "none"

-----------------------------------------------------------------------------
(* Values. *)

Strip(s) ==
    LET solid == {i \in DOMAIN s : s[i] \notin White}
    IN  IF solid = {}
        THEN <<>>
        ELSE SubSeq(s, CHOOSE i \in solid : \A j \in solid : i <= j,
                       CHOOSE i \in solid : \A j \in solid : j <= i)

FenceAt(s, i) == i + 2 <= Len(s) /\ \A k \in i..i+2 : s[k] = "f"

-----------------------------------------------------------------------------
(* Faulty variants of definitions below, each a slip the code could contain. *)

\* A boundary test that forgets the fence.
CutsAnywhere(s, scan, i) ==
    s[i] \in Boundary \/ (~scan.fence /\ i - scan.start >= MaxChars)

\* The length test without the + 1.
CutsLate(s, scan, i) ==
    ~scan.fence /\ (s[i] \in Boundary \/ i - 1 - scan.start >= MaxChars)

\* The scan leaves the tail behind.
DropTail(s, scan) == <<>>

\* The tail keeps the last segment's boundary.
KeepBoundary(s, scan) ==
    SubSeq(s, IF scan.start = 0 THEN 1 ELSE scan.start, Len(s))

-----------------------------------------------------------------------------
(* push *)

\* A candidate is returned only if something is left of it.
NonEmpty(s) == IF Strip(s) = <<>> THEN <<>> ELSE <<Strip(s)>>

\* Whether the text is cut after its i-th character.
CutsAfter(s, scan, i) ==
    ~scan.fence /\ (s[i] \in Boundary \/ i - scan.start >= MaxChars)

\* One character of the scan: a fence marker is passed over as a whole.
ScanStep(s, scan, i) ==
    IF scan.skip > 0 THEN [scan EXCEPT !.skip = @ - 1]
    ELSE IF FenceAt(s, i) THEN [scan EXCEPT !.fence = ~@, !.skip = 2]
    ELSE IF CutsAfter(s, scan, i)
         THEN [scan EXCEPT !.start = i,
                           !.segments = @ \o NonEmpty(SubSeq(s, scan.start + 1, i)),
                           !.cuts = @ \cup {i}]
    ELSE scan

\* The scan of s from its first character, with the fence state as it is:
\* where it is after each character.
Scans(s, fence) ==
    LET scan[i \in 0..Len(s)] ==
            IF i = 0
            THEN [start |-> 0, fence |-> fence, skip |-> 0, segments |-> <<>>, cuts |-> {}]
            ELSE ScanStep(s, scan[i - 1], i)
    IN  scan

Scan(s, fence) == Scans(s, fence)[Len(s)]

\* What the next push will scan again.
Rest(s, scan) == SubSeq(s, scan.start + 1, Len(s))

Push(chunk) ==
    /\ ~done
    /\ LET s    == buffer \o chunk
           scan == Scan(s, inFence)
       IN  /\ buffer' = Rest(s, scan)
           /\ inFence' = scan.fence
           /\ out' = out \o scan.segments
           /\ cuts' = cuts \cup {Len(text) - Len(buffer) + i : i \in scan.cuts}
    /\ text' = text \o chunk
    /\ pushes' = IF pushes = "none" THEN "one" ELSE "several"
    /\ UNCHANGED done

\* flush: the stream has ended.
Flush ==
    /\ ~done
    /\ out' = out \o NonEmpty(buffer)
    /\ buffer' = <<>>
    /\ done' = TRUE
    /\ UNCHANGED <<inFence, text, cuts, pushes>>

Next ==
    \/ \E n \in 1..MaxText - Len(text) : \E chunk \in [1..n -> Char] : Push(chunk)
    \/ Flush

Spec == Init /\ [][Next]_vars

-----------------------------------------------------------------------------
(* Properties. *)

\* s without its white space.
Solid(s) ==
    LET solid[i \in 0..Len(s)] ==
            IF i = 0 THEN <<>>
            ELSE IF s[i] \in White THEN solid[i - 1] ELSE Append(solid[i - 1], s[i])
    IN  solid[Len(s)]

\* However the stream is split, the segments and the buffer hold every
\* character of it once and in order, white space at their ends aside.
NothingIsLost == Solid(FlattenSeq(out) \o buffer) = Solid(text)

\* A fence is open after the first n characters of s.
OpenFence(s, n) == Scan(SubSeq(s, 1, n), FALSE).fence

\* A turn that arrives in one piece is never cut inside a fenced block.
OnePieceKeepsFences ==
    pushes = "one" => \A n \in cuts : ~OpenFence(text, n)

HasFence(s) == \E i \in DOMAIN s : FenceAt(s, i)

\* Where there is no fenced code, chunk borders leave no trace: the segments
\* are those of the whole text pushed at once.
ChunksLeaveNoTrace ==
    ~HasFence(text) =>
        LET whole == Scan(text, FALSE)
        IN  IF done
            THEN out = whole.segments \o NonEmpty(Rest(text, whole))
            ELSE out = whole.segments /\ buffer = Rest(text, whole)

\* A segment without fenced code is no longer than the limit.
SegmentsAreBounded ==
    \A i \in DOMAIN out : HasFence(out[i]) \/ Len(out[i]) <= MaxChars

\* SentenceSegmenter: never cuts inside fenced code blocks.
NeverCutsInsideFence == \A n \in cuts : ~OpenFence(text, n)

=============================================================================
