----------------------------- MODULE LedzReader -----------------------------
(***************************************************************************)
(* The Smart-LEDZ reader: the gateway's answers to a batch of read requests *)
(* come as frames, long ones in fragments; the frames of a request ID are   *)
(* put together, the answers are matched with the requests, and the rows of *)
(* each are normalized.  The transport between them is outside of the code: *)
(* frames may be lost, repeated, reordered or damaged, and notifications    *)
(* with other contents come under the same IDs.  No frame carries a         *)
(* checksum; frames of an earlier batch are the transport's to keep out.    *)
(***************************************************************************)
EXTENDS Integers, Sequences, FiniteSets, SequencesExt

CONSTANTS
    Resource,      \* what is asked for; a request's ID stands for it as well
    Answer,        \* the answers the gateway may give: sequences of row kinds
    Notice,        \* what its notifications may contain
    ShortLimit,    \* SHORT_LIMIT, in rows
    FragmentSize,  \* FRAGMENT_SIZE, in rows
    MaxReceived    \* bound: frames received for a batch

VARIABLES
    answers,   \* what the gateway answers to each resource
    received,  \* [frame, copy] received so far, in whatever order
    reading,   \* "open", "rejected" or "accepted"
    normalized \* the normalized answers of an accepted batch

vars == <<answers, received, reading, normalized>>

\* The kinds of a row: usable, with a negative sort order, without an alias
\* in the household's configuration, or not of the expected form.  An answer
\* whose ErrorCode is not 0 consists of "refused" alone.
RowKind == {"usable", "hidden", "unmapped", "invalid"}
Refused == <<"refused">>

LedzAssumption ==
    /\ Answer \subseteq Seq(RowKind) \cup {Refused} /\ Refused \in Answer
    /\ Notice \subseteq Seq(RowKind)
    /\ FragmentSize \in Nat \ {0}
    /\ ShortLimit \in Nat /\ ShortLimit > FragmentSize

\* A payload is made of rows that can be told apart.
RowsOf(r) ==
    [i \in DOMAIN answers[r] |-> [of |-> r, place |-> i, kind |-> answers[r][i]]]
NoticeRows(a) ==
    [i \in DOMAIN a |-> [of |-> "notification", place |-> i, kind |-> a[i]]]
Least(a, b) == IF a < b THEN a ELSE b

-----------------------------------------------------------------------------
(* encode_frames, as the gateway does it *)

Short(id, p, note) ==
    [id |-> id, note |-> note, flagged |-> FALSE, index |-> 0, count |-> 1,
     declared |-> Len(p), payload |-> p]

Fragments(p) == (Len(p) + FragmentSize - 1) \div FragmentSize

Fragment(id, p, note, k) ==
    [id |-> id, note |-> note, flagged |-> TRUE, index |-> k, count |-> Fragments(p),
     declared |-> Len(p),
     payload |-> SubSeq(p, k * FragmentSize + 1, Least((k + 1) * FragmentSize, Len(p)))]

EncodeFrames(id, p, note) ==
    IF Len(p) < ShortLimit THEN {Short(id, p, note)}
    ELSE {Fragment(id, p, note, k) : k \in 0..(Fragments(p) - 1)}

\* The transport loses a part of a frame's payload.
Damaged(f) == [f EXCEPT !.payload = Front(@)]

\* Frames on the wire: the answers, and notifications under their IDs.
AnswerFrames == UNION {EncodeFrames(r, RowsOf(r), FALSE) : r \in Resource}
NoticeFrames ==
    UNION {UNION {EncodeFrames(r, NoticeRows(a), TRUE) : a \in Notice} : r \in Resource}

Wire ==
    LET sent == AnswerFrames \cup NoticeFrames
    IN sent \cup {Damaged(f) : f \in sent}

TypeOK ==
    /\ answers \in [Resource -> Answer]
    /\ received \subseteq [frame : Wire, copy : 1..2]
    /\ reading \in {"open", "rejected", "accepted"}
    /\ DOMAIN normalized = IF reading = "accepted" THEN Resource ELSE {}

Init ==
    /\ answers \in [Resource -> Answer]
    /\ received = {}
    /\ reading = "open"
    /\ normalized = [r \in {} |-> <<>>]

Receive ==
    /\ reading = "open"
    /\ Cardinality(received) < MaxReceived
    /\ \E f \in Wire :
         received' = received \cup
            {[frame |-> f, copy |-> IF [frame |-> f, copy |-> 1] \in received THEN 2 ELSE 1]}
    /\ UNCHANGED <<answers, reading, normalized>>

-----------------------------------------------------------------------------
(* decode_frame and reassemble *)

\* A flagged frame has a place in a message of some length, and no more than
\* fits; a short one declares its own length.
Decodes(f) ==
    IF f.flagged
    THEN f.index < f.count /\ f.declared > 0 /\ Len(f.payload) <= FragmentSize
    ELSE Len(f.payload) = f.declared

\* Frame.fragmented: the count tells, not the flag.
Fragmented(f) == f.count > 1

Indices(frames) == {frames[k].index : k \in DOMAIN frames}

\* Sorted by their indices, which are 0 to the last without a gap.
Ordered(frames) ==
    [k \in DOMAIN frames |->
        frames[CHOOSE i \in DOMAIN frames : frames[i].index = k - 1]]

Joined(frames) ==
    FlattenSeq([k \in DOMAIN frames |-> Ordered(frames)[k].payload])

\* Variant: fragments of a notification are taken with those of an answer.
ReassemblesNotified(frames) ==
    /\ frames # <<>>
    /\ \/ Len(frames) = 1 /\ ~Fragmented(frames[1])
       \/ /\ \A k \in DOMAIN frames :
               /\ Fragmented(frames[k])
               /\ frames[k].count = frames[1].count
               /\ frames[k].declared = frames[1].declared
          /\ Len(frames) = frames[1].count
          /\ Indices(frames) = 0..(Len(frames) - 1)
          /\ Len(Joined(frames)) = frames[1].declared

\* The frames of one ID give a payload: one frame of its own, whose length is
\* not looked at again, or every fragment once, of one message as far as can
\* be told.
Reassembles(frames) ==
    /\ frames # <<>>
    /\ \/ Len(frames) = 1 /\ ~Fragmented(frames[1])
       \/ /\ \A k \in DOMAIN frames :
               /\ Fragmented(frames[k])
               /\ frames[k].note = frames[1].note
               /\ frames[k].count = frames[1].count
               /\ frames[k].declared = frames[1].declared
          /\ Len(frames) = frames[1].count
          /\ Indices(frames) = 0..(Len(frames) - 1)
          /\ Len(Joined(frames)) = frames[1].declared

-----------------------------------------------------------------------------
(* The rows of an answer *)

\* The elements of s that are in S, in the order of s.
Picked(s, S) ==
    FoldLeft(LAMBDA found, x : IF x \in S THEN Append(found, x) ELSE found, <<>>, s)

Items(p) == Picked(p, {row \in ToSet(p) : row.kind = "usable"})
Count(p, kind) == Cardinality({k \in DOMAIN p : p[k].kind = kind})

\* _response_data and _collection_quality: rows that are not of the expected
\* form weigh more than rows without an alias; hidden rows are left out.
Normalize(p) ==
    IF [k \in DOMAIN p |-> p[k].kind] = Refused
    THEN [items |-> <<>>, invalid |-> 0, unmapped |-> 0, quality |-> "unknown"]
    ELSE [items |-> Items(p), invalid |-> Count(p, "invalid"), unmapped |-> Count(p, "unmapped"),
          quality |-> CASE Count(p, "invalid") > 0 -> "invalid"
                        [] Count(p, "invalid") = 0 /\ Count(p, "unmapped") > 0 -> "unknown"
                        [] OTHER -> "good"]

-----------------------------------------------------------------------------
(* correlate_read_responses *)

\* Exactly one answer for every request, and no notification among them.
Correlates(frames) ==
    \A r \in Resource :
        /\ \A k \in DOMAIN frames[r] : Decodes(frames[r][k])
        /\ Reassembles(frames[r])
        /\ ~frames[r][1].note

\* The frames of an ID in the order in which all of them came.
FramesOf(r, order) ==
    LET found == Picked(order, {m \in received : m.frame.id = r})
    IN [k \in DOMAIN found |-> found[k].frame]

\* What the transport may hand over, which keeps the frames of an ID together.
Handovers ==
    {[r \in Resource |-> FramesOf(r, order)] : order \in SetToSeqs(received)}

\* The transport stops listening and hands over what it has.
Read ==
    /\ reading = "open"
    /\ \E frames \in Handovers :
         IF Correlates(frames)
         THEN /\ reading' = "accepted"
              /\ normalized' = [r \in Resource |-> Normalize(Joined(frames[r]))]
         ELSE reading' = "rejected" /\ UNCHANGED normalized
    /\ UNCHANGED <<answers, received>>

NextBatch ==
    /\ reading # "open"
    /\ answers' \in [Resource -> Answer]
    /\ received' = {}
    /\ reading' = "open"
    /\ normalized' = [r \in {} |-> <<>>]

Next ==
    \/ Receive
    \/ Read
    \/ NextBatch

Spec == Init /\ [][Next]_vars

-----------------------------------------------------------------------------
\* A batch is rejected as a whole or every resource gets the rows of its own
\* answer, each once and in their order, whatever frames were lost, repeated,
\* damaged or mixed with those of notifications; and it is called good only
\* if no row was left out other than a hidden one.
AnswersAreExact ==
    reading = "accepted" => \A r \in Resource :
        LET rows == RowsOf(r)
            got == normalized[r] IN
        /\ ToSet(got.items) = {row \in ToSet(rows) : row.kind = "usable"}
        /\ \A j, k \in DOMAIN got.items :
             j < k => got.items[j].place < got.items[k].place
        /\ got.quality = "good" =>
             \A k \in DOMAIN rows : rows[k].kind \in {"usable", "hidden"}
=============================================================================
