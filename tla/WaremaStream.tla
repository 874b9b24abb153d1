---------------------------- MODULE WaremaStream ----------------------------
(***************************************************************************)
(* FrameStream.feed of the Warema reader: bytes come in chunks of any size. *)
(* A frame stands between braces; the line may lose any of it, a brace too, *)
(* so what comes is any sequence of braces and texts.  A feed returns the   *)
(* frames its buffer completes; a frame that cannot be decoded or a buffer  *)
(* over its limit makes it raise, and what it had decoded is not returned.  *)
(***************************************************************************)
EXTENDS Integers, Sequences, SequencesExt

CONSTANTS
    MaxMarks,      \* bound: braces and texts on the wire
    BufferLimits   \* the values of max_buffer, in marks

WaremaAssumption ==
    MaxMarks \in Nat /\ BufferLimits \subseteq Nat \ {0} /\ BufferLimits # {}

VARIABLES
    wire,      \* the marks that arrive from the stick
    fed,       \* how many of them have been fed
    buffer,    \* _buffer
    maxBuffer,   \* _max_buffer
    got,       \* frames returned so far
    unreturned,  \* where the frames of feeds that raised began, and every
                 \* place a buffer that was cleared had held
    feedRaised   \* the last feed raised

vars == <<wire, fed, buffer, maxBuffer, got, unreturned, feedRaised>>

\* A "short" text is no radio frame alone and one with more behind it; a
\* "garbled" one is not ASCII.
Kind == {"open", "close", "text", "short", "garbled"}

Wires ==
    {[i \in DOMAIN kinds |-> [mark |-> kinds[i], at |-> i]] :
        kinds \in UNION {[1..m -> Kind] : m \in 0..MaxMarks}}

\* A frame: where its opening brace stood on the wire, and the closing one.
Span == [from : 1..MaxMarks, to : 1..MaxMarks]

TypeOK ==
    /\ wire \in Seq([mark : Kind, at : 1..MaxMarks]) /\ Len(wire) <= MaxMarks
    /\ fed \in 0..Len(wire)
    /\ maxBuffer \in BufferLimits /\ Len(buffer) <= maxBuffer
    /\ ToSet(got) \subseteq Span /\ unreturned \subseteq 1..MaxMarks
    /\ feedRaised \in BOOLEAN

Init ==
    /\ wire \in Wires /\ maxBuffer \in BufferLimits
    /\ fed = 0 /\ buffer = <<>> /\ got = <<>>
    /\ unreturned = {} /\ feedRaised = FALSE

-----------------------------------------------------------------------------
\* Where the first mark of this kind is, or 0.
Find(marks, mark) ==
    LET places == {i \in DOMAIN marks : marks[i].mark = mark}
    IN IF places = {} THEN 0 ELSE CHOOSE i \in places : \A j \in places : i <= j

\* Variant: what stands before a frame is taken as a part of it.
CandidateFromStart(marks) == SubSeq(marks, 1, Find(marks, "close"))

\* What stands before the opening brace is dropped.
Candidate(marks) ==
    LET closed == SubSeq(marks, 1, Find(marks, "close"))
    IN SubSeq(closed, Find(closed, "open"), IF Find(closed, "open") = 0 THEN -1 ELSE Len(closed))

\* decode_frame raises for no other frame: one without a text is of an unknown
\* kind, and so is one whose text begins with a second brace.
Decodes(c) ==
    /\ \A i \in DOMAIN c : c[i].mark # "garbled"
    /\ ~(Len(c) = 3 /\ c[2].mark = "short")

\* The loop of feed, with k marks of the buffer deleted: the frames it still
\* finds, what is left of the buffer at its end, and whether it raises.
Loop(buffered) ==
    LET loop[k \in 0..Len(buffered)] ==
            LET marks == SubSeq(buffered, k + 1, Len(buffered))
                end == Find(marks, "close")
                c == Candidate(marks)
            IN IF end = 0
               THEN [frames |-> <<>>, rest |-> marks, raises |-> FALSE]
               ELSE IF c # <<>> /\ ~Decodes(c)
               THEN [frames |-> <<>>, raises |-> TRUE,
                     rest |-> SubSeq(marks, end + 1, Len(marks))]
               ELSE [loop[k + end] EXCEPT
                        !.frames = (IF c = <<>> THEN <<>>
                                    ELSE <<[from |-> c[1].at, to |-> c[Len(c)].at]>>) \o @]
    IN loop[0]

Feed ==
    /\ \E n \in 1..(Len(wire) - fed) :
         LET marks == buffer \o SubSeq(wire, fed + 1, fed + n)
             loop == Loop(marks) IN
         /\ fed' = fed + n
         /\ IF Len(marks) > maxBuffer
            THEN /\ buffer' = <<>>
                 /\ unreturned' = unreturned \cup {m.at : m \in ToSet(marks)}
                 /\ feedRaised' = TRUE
                 /\ UNCHANGED got
            ELSE /\ buffer' = loop.rest
                 /\ feedRaised' = loop.raises
                 /\ IF loop.raises
                    THEN /\ unreturned' = unreturned \cup {f.from : f \in ToSet(loop.frames)}
                         /\ UNCHANGED got
                    ELSE got' = got \o loop.frames /\ UNCHANGED unreturned
    /\ UNCHANGED <<wire, maxBuffer>>

Next == Feed

Spec == Init /\ [][Next]_vars

-----------------------------------------------------------------------------
\* A frame in these marks: from a brace that opens to the next one that closes,
\* behind no brace that is still open, those whose places are given aside.
IsFrame(marks, s, e, gone) ==
    /\ s < e /\ marks[s].mark = "open" /\ marks[e].mark = "close"
    /\ \A i \in s..(e - 1) : marks[i].mark # "close"
    /\ \A o \in 1..(s - 1) :
         marks[o].mark = "open" /\ marks[o].at \notin gone => \E i \in o..s : marks[i].mark = "close"

Frames(marks, gone) ==
    {[from |-> marks[x[1]].at, to |-> marks[x[2]].at] :
        x \in {y \in (DOMAIN marks) \X (DOMAIN marks) : IsFrame(marks, y[1], y[2], gone)}}

\* Wherever the chunks are cut, every frame that stands in what was fed and can
\* be decoded has been returned, once and in its order, unless a feed raised
\* over it or before it: one bad frame costs the frames before it in its own
\* feed, and those behind it only wait for the next feed.  What is returned is
\* a frame of the wire, or begins behind an open brace that a full buffer took.
ChunksDoNotMatter ==
    LET marks == SubSeq(wire, 1, fed) IN
    /\ \A f \in Frames(marks, {}) :
         Decodes(SubSeq(wire, f.from, f.to)) =>
           f \in ToSet(got) \/ f.from \in unreturned \/ f \in Frames(buffer, {})
    /\ ToSet(got) \subseteq Frames(marks, unreturned)
    /\ \A i, j \in DOMAIN got : i < j => got[i].to < got[j].from
    /\ ~feedRaised => Frames(buffer, {}) = {}
=============================================================================
