---------------------------- MODULE ImportsProofs ---------------------------
(***************************************************************************)
(* Proofs about what is taken from data made elsewhere: the exported        *)
(* histories of SwitchBot, the station reports of FusionSolar, the stream   *)
(* of the Warema receiver; and of all parts together.                       *)
(***************************************************************************)
EXTENDS SourcesProofs

-----------------------------------------------------------------------------
(* The SwitchBot histories *)

LEMMA ReadingsCardinality == \A S : Readings!Cardinality(S) = Cardinality(S)
  BY DEF Readings!Cardinality, Cardinality

LEMMA ReadingsSetToSeq == \A S : Readings!SetToSeq(S) = SetToSeq(S)
  BY DEF Readings!SetToSeq, SetToSeq, Readings!IsInjective, IsInjective,
     Readings!Cardinality, Cardinality

(* What an open transaction is.                                             *)
Transaction ==
    [open : BOOLEAN, observations : SUBSET Readings!Observation,
     recorded : SUBSET (Readings!Observation \X Readings!Observation)]

ReadingsTyped ==
    /\ observations \in SUBSET Readings!Observation /\ IsFiniteSet(observations)
    /\ recorded \in SUBSET (Readings!Observation \X Readings!Observation)
    /\ dirty \in Transaction /\ IsFiniteSet(dirty.observations)
    /\ runs \in Seq(Readings!RunRow)
    /\ work \in Seq(Readings!Export)
    /\ counts \in Readings!Counts
    /\ \A g \in gaps : g.from < g.to

(* Of rows that differ and are of one time, one is the second of a conflict *)
(* between two of them.                                                     *)
NoneTwice(S) == \A o, s \in S : o.row = s.row => o = s
ConflictsIn(S, R) ==
    /\ \A o, s \in S : o # s /\ o.row.at = s.row.at => \E c \in R : c[2] \in {o, s}
    /\ \A c \in R : c[1] \in S /\ c[2] \in S

(* What a run that calls itself completed says of the rows S.               *)
RunIsWhole(r, S) ==
    r.status = "completed" =>
      /\ \A k \in 1..Len(Readings!Rows(r.file)) :
           \E o \in S : o.row = Readings!Rows(r.file)[k]
      /\ r.counts.inserted + r.counts.duplicates = Len(Readings!Rows(r.file))

(* What holds of the committed tables alone holds of them with the open     *)
(* transaction too, and its rows of the export in the works are there.      *)
ReadingsInv ==
    /\ ReadingsTyped
    /\ work = <<>> => Readings!Done = 0
    /\ work # <<>> =>
         /\ Readings!Done <= Len(Readings!Rows(Head(work)))
         /\ \A k \in 1..Readings!Done :
              \E o \in Readings!Seen : o.row = Readings!Rows(Head(work))[k]
    /\ NoneTwice(Readings!Seen)
    /\ ConflictsIn(Readings!Seen, recorded \cup dirty.recorded)
    /\ ConflictsIn(observations, recorded)
    /\ \A i \in DOMAIN runs : RunIsWhole(runs[i], observations)

(* The next row of the first export.                                        *)
LEMMA ReadingsIncoming ==
    ASSUME ReadingsInv, work # <<>>, Readings!Done < Len(Readings!Rows(Head(work)))
    PROVE  /\ Readings!Done \in Nat
           /\ Head(work) \in Readings!Export
           /\ Readings!Incoming \in Readings!Observation
           /\ Readings!Incoming.row = Readings!Rows(Head(work))[Readings!Done + 1]
<1>1. Head(work) \in Readings!Export
  BY DEF ReadingsInv, ReadingsTyped
<1>2. Readings!Rows(Head(work)) \in Seq(Readings!RowsOfAll)
  BY <1>1, SourcesAssumption DEF Readings!HistoryAssumption
<1>3. Readings!Done \in Nat
  BY DEF Readings!Done, ReadingsInv, ReadingsTyped, Readings!Counts
<1>4. Readings!Done + 1 \in 1..Len(Readings!Rows(Head(work)))
  BY <1>2, <1>3
<1>5. Readings!Rows(Head(work))[Readings!Done + 1] \in Readings!RowsOfAll
  BY <1>2, <1>4
<1> QED
  BY <1>1, <1>3, <1>5 DEF Readings!Incoming, Readings!Observation

(* insert_observation: the row is there afterwards, once, and if there was  *)
(* another of its time, a conflict names it.                                *)
LEMMA ReadingsWithRow ==
    ASSUME ReadingsInv, NEW o \in Readings!Observation, NEW d \in Readings!WithRow(o),
           NEW S, S = observations \cup d.observations,
           NEW R, R = recorded \cup d.recorded
    PROVE  /\ d \in Transaction /\ IsFiniteSet(d.observations)
           /\ Readings!Seen \subseteq S /\ \E x \in S : x.row = o.row
           /\ NoneTwice(S) /\ ConflictsIn(S, R)
<1>1. /\ dirty \in Transaction /\ IsFiniteSet(dirty.observations)
      /\ NoneTwice(Readings!Seen)
      /\ ConflictsIn(Readings!Seen, recorded \cup dirty.recorded)
      /\ Readings!Seen = observations \cup dirty.observations
      /\ Readings!Seen \subseteq Readings!Observation
  BY DEF ReadingsInv, ReadingsTyped, Readings!Seen, Transaction
<1>2. CASE Readings!Duplicate(o)
  <2>1. d = [dirty EXCEPT !.open = (@ \/ Readings!Done = 0)]
    BY <1>2 DEF Readings!WithRow
  <2>2. /\ d.observations = dirty.observations /\ d.recorded = dirty.recorded
        /\ d \in Transaction
    BY <1>1, <2>1 DEF Transaction
  <2>3. S = Readings!Seen /\ R = recorded \cup dirty.recorded
    BY <1>1, <2>2
  <2>4. \E x \in S : x.row = o.row
    BY <1>2, <2>3 DEF Readings!Duplicate, Readings!CanonicalKey
  <2> QED
    BY <1>1, <2>2, <2>3, <2>4
<1>3. CASE ~Readings!Duplicate(o)
  <2>1. PICK c : /\ d = [open |-> TRUE, observations |-> dirty.observations \cup {o},
                         recorded |-> dirty.recorded \cup c]
                 /\ c \in IF Readings!SameTime(o) = {} THEN {{}}
                          ELSE {{<<s, o>>} : s \in Readings!SameTime(o)}
    BY <1>3 DEF Readings!WithRow
  <2>2. /\ d.observations = dirty.observations \cup {o}
        /\ d.recorded = dirty.recorded \cup c
    BY <2>1
  <2>3. /\ S = Readings!Seen \cup {o}
        /\ R = (recorded \cup dirty.recorded) \cup c
    BY <1>1, <2>2
  <2>4. \A s \in Readings!Seen : s.row # o.row
    BY <1>3 DEF Readings!Duplicate, Readings!CanonicalKey
  <2>5. NoneTwice(S)
    BY <1>1, <2>3, <2>4 DEF NoneTwice
  <2>6. CASE Readings!SameTime(o) = {}
    <3>1. c = {} /\ R = recorded \cup dirty.recorded
      BY <2>1, <2>3, <2>6
    <3>2. \A s \in Readings!Seen : s.row.at # o.row.at
      BY <2>6 DEF Readings!SameTime
    <3>3. ConflictsIn(S, R)
      BY <1>1, <2>3, <3>1, <3>2 DEF ConflictsIn
    <3>4. d \in Transaction
      BY <1>1, <2>1, <3>1 DEF Transaction
    <3> QED
      BY <1>1, <2>2, <2>3, <2>5, <3>3, <3>4, FS_AddElement
  <2>7. CASE Readings!SameTime(o) # {}
    <3>1. PICK s \in Readings!SameTime(o) : c = {<<s, o>>}
      BY <2>1, <2>7
    <3>2. s \in Readings!Seen
      BY DEF Readings!SameTime
    <3>3. ConflictsIn(S, R)
      <4>1. ASSUME NEW x \in S, NEW y \in S, x # y, x.row.at = y.row.at
            PROVE  \E e \in R : e[2] \in {x, y}
        <5>1. CASE x \in Readings!Seen /\ y \in Readings!Seen
          BY <1>1, <2>3, <4>1, <5>1 DEF ConflictsIn
        <5>2. CASE x = o \/ y = o
          <6>1. <<s, o>> \in R /\ <<s, o>>[2] = o
            BY <2>3, <3>1
          <6> QED
            BY <5>2, <6>1
        <5> QED
          BY <2>3, <5>1, <5>2
      <4>2. \A e \in R : e[1] \in S /\ e[2] \in S
        BY <1>1, <2>3, <3>1, <3>2 DEF ConflictsIn
      <4> QED
        BY <4>1, <4>2 DEF ConflictsIn
    <3>4. d \in Transaction
      <4>1. c \in SUBSET (Readings!Observation \X Readings!Observation)
        BY <1>1, <3>1, <3>2
      <4> QED
        BY <1>1, <2>1, <4>1 DEF Transaction
    <3> QED
      BY <1>1, <2>2, <2>3, <2>5, <3>3, <3>4, FS_AddElement
  <2> QED
    BY <2>6, <2>7
<1> QED
  BY <1>2, <1>3

(* A run that is whole stays whole with more rows.                          *)
LEMMA ReadingsMoreRows ==
    ASSUME NEW r, NEW S, NEW T, S \subseteq T, RunIsWhole(r, S)
    PROVE  RunIsWhole(r, T)
<1> SUFFICES ASSUME r.status = "completed" PROVE RunIsWhole(r, T)
  BY DEF RunIsWhole
<1>1. ASSUME NEW k \in 1..Len(Readings!Rows(r.file))
      PROVE  \E o \in T : o.row = Readings!Rows(r.file)[k]
  BY <1>1 DEF RunIsWhole
<1> QED
  BY <1>1 DEF RunIsWhole

(* The run that is entered with its first rows is not completed.            *)
LEMMA ReadingsRunsWithThis ==
    ASSUME ReadingsInv, work # <<>>
    PROVE  /\ Readings!RunsWithThis \in Seq(Readings!RunRow)
           /\ \A i \in DOMAIN Readings!RunsWithThis :
                RunIsWhole(Readings!RunsWithThis[i], observations)
<1>1. Head(work) \in Readings!Export /\ runs \in Seq(Readings!RunRow)
  BY DEF ReadingsInv, ReadingsTyped
<1> DEFINE new == Readings!RunOf(Head(work), "running")
<1>2. new \in Readings!RunRow /\ new.status = "running"
  BY <1>1 DEF Readings!RunOf, Readings!RunRow, Readings!Counts
<1>3. RunIsWhole(new, observations)
  BY <1>2 DEF RunIsWhole
<1>4. \A i \in DOMAIN runs : RunIsWhole(runs[i], observations)
  BY DEF ReadingsInv
<1> HIDE DEF new
<1>5. /\ Append(runs, new) \in Seq(Readings!RunRow)
      /\ \A i \in DOMAIN Append(runs, new) :
           (i \in DOMAIN runs /\ Append(runs, new)[i] = runs[i]) \/ Append(runs, new)[i] = new
  BY <1>1, <1>2
<1>6. \A i \in DOMAIN Append(runs, new) : RunIsWhole(Append(runs, new)[i], observations)
  BY <1>3, <1>4, <1>5
<1> QED
  BY <1>1, <1>4, <1>5, <1>6 DEF Readings!RunsWithThis, new

LEMMA ReadingsInvInit == Readings!Init => ReadingsInv
<1> SUFFICES ASSUME Readings!Init PROVE ReadingsInv
  OBVIOUS
<1>1. ReadingsTyped
  BY FS_EmptySet DEF Readings!Init, ReadingsTyped, Transaction, Readings!Clean, Readings!Counts
<1>2. Readings!Done = 0 /\ Readings!Seen = {} /\ work = <<>>
  BY DEF Readings!Init, Readings!Clean, Readings!Done, Readings!Seen
<1>3. NoneTwice(Readings!Seen)
  BY <1>2 DEF NoneTwice
<1>4. /\ ConflictsIn(Readings!Seen, recorded \cup dirty.recorded)
      /\ ConflictsIn(observations, recorded)
  BY <1>2 DEF ConflictsIn, Readings!Init, Readings!Clean
<1>5. DOMAIN runs = {}
  BY DEF Readings!Init
<1> QED
  BY <1>1, <1>2, <1>3, <1>4, <1>5 DEF ReadingsInv

(* The exports of an import are a list of some of them.                     *)
LEMMA ReadingsInvImport == ASSUME ReadingsInv, Readings!Import PROVE ReadingsInv'
<1>1. PICK files \in {Readings!Export} \cup {{f} : f \in Readings!Export} :
        work' = Readings!SetToSeq(files)
  BY DEF Readings!Import
<1>2. files \subseteq Readings!Export /\ IsFiniteSet(files)
  <2>1. IsFiniteSet(Readings!Export)
    BY SourcesAssumption DEF Readings!HistoryAssumption, Readings!IsFiniteSet, IsFiniteSet
  <2>2. CASE files = Readings!Export
    BY <2>1, <2>2
  <2>3. CASE \E f \in Readings!Export : files = {f}
    <3>1. \A f : IsFiniteSet({f})
      BY FS_Singleton
    <3> QED
      BY <2>3, <3>1
  <2> QED
    BY <1>1, <2>2, <2>3
<1>3. work' \in Seq(Readings!Export)
  <2>1. /\ Cardinality(files) \in Nat
        /\ SetToSeq(files) \in [1..Cardinality(files) -> files]
    BY <1>2, SequenceOfSet
  <2>2. SetToSeq(files) \in Seq(files)
    BY <2>1
  <2> QED
    BY <1>1, <1>2, <2>2, ReadingsSetToSeq
<1>4. /\ work = <<>> /\ Readings!Done = 0
      /\ UNCHANGED <<observations, recorded, runs, dirty, counts, gaps>>
  BY DEF Readings!Import, ReadingsInv
<1>5. ReadingsTyped'
  BY <1>3, <1>4 DEF ReadingsInv, ReadingsTyped, Transaction
<1>6. Readings!Done' = 0 /\ Readings!Seen' = Readings!Seen
  BY <1>4 DEF Readings!Done, Readings!Seen
<1>7. work' # <<>> => 0 <= Len(Readings!Rows(Head(work')))
  <2>1. work' # <<>> => Head(work') \in Readings!Export
    BY <1>3
  <2> QED
    BY <2>1, SourcesAssumption DEF Readings!HistoryAssumption
<1>8. \A i \in DOMAIN runs' : RunIsWhole(runs[i], observations)'
  BY <1>4 DEF ReadingsInv, RunIsWhole
<1> QED
  BY <1>4, <1>5, <1>6, <1>7, <1>8 DEF ReadingsInv, NoneTwice, ConflictsIn

(* After an export comes the next, of which no row is imported.             *)
LEMMA ReadingsNextExport ==
    ASSUME work' \in Seq(Readings!Export), counts' = [inserted |-> 0, duplicates |-> 0]
    PROVE  /\ counts' \in Readings!Counts
           /\ Readings!Done' = 0
           /\ work' # <<>> =>
                /\ Readings!Done' <= Len(Readings!Rows(Head(work')))
                /\ \A k \in 1..Readings!Done' :
                     \E o \in Readings!Seen' : o.row = Readings!Rows(Head(work'))[k]
<1>1. counts' \in Readings!Counts /\ Readings!Done' = 0
  BY DEF Readings!Counts, Readings!Done
<1>2. work' # <<>> => Len(Readings!Rows(Head(work'))) \in Nat
  <2>1. work' # <<>> => Head(work') \in Readings!Export
    OBVIOUS
  <2> QED
    BY <2>1, SourcesAssumption DEF Readings!HistoryAssumption
<1> QED
  BY <1>1, <1>2

LEMMA ReadingsInvSkips == ASSUME ReadingsInv, Readings!SkipBlocked PROVE ReadingsInv'
<1>1. /\ work' \in Seq(Readings!Export)
      /\ counts' = [inserted |-> 0, duplicates |-> 0]
      /\ UNCHANGED <<observations, recorded, runs, dirty, gaps>>
  BY DEF Readings!SkipBlocked, ReadingsInv, ReadingsTyped
<1>2. ReadingsTyped'
  BY <1>1, ReadingsNextExport DEF ReadingsInv, ReadingsTyped
<1>3. Readings!Seen' = Readings!Seen
  BY <1>1 DEF Readings!Seen
<1>4. \A i \in DOMAIN runs' : RunIsWhole(runs[i], observations)'
  BY <1>1 DEF ReadingsInv, RunIsWhole
<1> QED
  BY <1>1, <1>2, <1>3, <1>4, ReadingsNextExport DEF ReadingsInv, NoneTwice, ConflictsIn

(* A process that dies leaves what was committed, and that was whole.       *)
LEMMA ReadingsInvDies == ASSUME ReadingsInv, Readings!ImportDies PROVE ReadingsInv'
<1>1. /\ work' \in Seq(Readings!Export)
      /\ counts' = [inserted |-> 0, duplicates |-> 0]
      /\ dirty' = Readings!Clean
      /\ UNCHANGED <<observations, recorded, runs, gaps>>
  BY DEF Readings!ImportDies
<1>2. dirty' \in Transaction /\ dirty'.observations = {} /\ dirty'.recorded = {}
  BY <1>1 DEF Readings!Clean, Transaction
<1>3. ReadingsTyped'
  BY <1>1, <1>2, ReadingsNextExport, FS_EmptySet DEF ReadingsInv, ReadingsTyped
<1>4. Readings!Seen' = observations /\ (recorded \cup dirty.recorded)' = recorded
  BY <1>1, <1>2 DEF Readings!Seen
<1>5. NoneTwice(observations)
  BY DEF ReadingsInv, NoneTwice, Readings!Seen
<1>6. \A i \in DOMAIN runs' : RunIsWhole(runs[i], observations)'
  BY <1>1 DEF ReadingsInv, RunIsWhole
<1> QED
  BY <1>1, <1>3, <1>4, <1>5, <1>6, ReadingsNextExport DEF ReadingsInv, NoneTwice, ConflictsIn

LEMMA ReadingsInvGaps == ASSUME ReadingsInv, Readings!RebuildGaps PROVE ReadingsInv'
<1>1. /\ gaps' = Readings!GapsOf(observations)
      /\ UNCHANGED <<observations, recorded, runs, dirty, work, counts>>
  BY DEF Readings!RebuildGaps
<1>2. \A g \in gaps' : g.from < g.to
  <2>1. observations \subseteq Readings!Observation
    BY DEF ReadingsInv, ReadingsTyped
  <2>2. ASSUME NEW o \in observations PROVE o.row.at \in Int
    BY <2>1, SourcesAssumption DEF Readings!Observation, Readings!HistoryAssumption
  <2>3. ASSUME NEW g \in gaps' PROVE g.from < g.to
    <3>1. /\ g.from \in {o.row.at : o \in observations}
          /\ g.to \in {o.row.at : o \in observations}
          /\ g.to - g.from > 2
      BY <1>1 DEF Readings!GapsOf
    <3>2. g.from \in Int /\ g.to \in Int
      BY <2>2, <3>1
    <3> QED
      BY <3>1, <3>2
  <2> QED
    BY <2>3
<1>3. ReadingsTyped'
  BY <1>1, <1>2 DEF ReadingsInv, ReadingsTyped
<1>4. Readings!Seen' = Readings!Seen /\ Readings!Done' = Readings!Done
  BY <1>1 DEF Readings!Seen, Readings!Done
<1>5. \A i \in DOMAIN runs' : RunIsWhole(runs[i], observations)'
  BY <1>1 DEF ReadingsInv, RunIsWhole
<1> QED
  BY <1>1, <1>3, <1>4, <1>5 DEF ReadingsInv, NoneTwice, ConflictsIn

(* The next row: it is in the tables or in the transaction afterwards, and   *)
(* a commit takes over what was there before the transaction and in it.     *)
LEMMA ReadingsInvRow == ASSUME ReadingsInv, Readings!ImportRow PROVE ReadingsInv'
<1> DEFINE o == Readings!Incoming
           rest == Readings!Rows(Head(work))
<1>1. /\ work # <<>> /\ Readings!Done < Len(rest)
      /\ work' = work /\ gaps' = gaps
  BY DEF Readings!ImportRow
<1>2. /\ Readings!Done \in Nat /\ Head(work) \in Readings!Export
      /\ o \in Readings!Observation /\ o.row = rest[Readings!Done + 1]
  BY <1>1, ReadingsIncoming
<1>3. counts' \in Readings!Counts /\ Readings!Done' = Readings!Done + 1
  <2>1. counts \in Readings!Counts
    BY DEF ReadingsInv, ReadingsTyped
  <2>2. \/ counts' = [counts EXCEPT !.duplicates = @ + 1]
        \/ counts' = [counts EXCEPT !.inserted = @ + 1]
    BY DEF Readings!ImportRow
  <2> QED
    BY <2>1, <2>2 DEF Readings!Counts, Readings!Done
<1>4. PICK d \in Readings!WithRow(o) :
        IF (Readings!Done + 1) % Batch = 0
        THEN /\ observations' = observations \cup d.observations
             /\ recorded' = recorded \cup d.recorded
             /\ runs' = Readings!RunsWithThis
             /\ dirty' = Readings!Clean
        ELSE /\ dirty' = d
             /\ UNCHANGED <<observations, recorded, runs>>
  BY DEF Readings!ImportRow
<1> DEFINE S == observations \cup d.observations
           R == recorded \cup d.recorded
<1>5. /\ d \in Transaction /\ IsFiniteSet(d.observations)
      /\ Readings!Seen \subseteq S /\ \E x \in S : x.row = o.row
      /\ NoneTwice(S) /\ ConflictsIn(S, R)
  BY <1>2, ReadingsWithRow
<1>6. /\ observations \in SUBSET Readings!Observation /\ IsFiniteSet(observations)
      /\ recorded \in SUBSET (Readings!Observation \X Readings!Observation)
      /\ runs \in Seq(Readings!RunRow) /\ work \in Seq(Readings!Export)
      /\ ConflictsIn(observations, recorded)
      /\ \A i \in DOMAIN runs : RunIsWhole(runs[i], observations)
      /\ \A g \in gaps : g.from < g.to
  BY DEF ReadingsInv, ReadingsTyped
<1>7. \A k \in 1..(Readings!Done + 1) : \E x \in S : x.row = rest[k]
  <2>1. \A k \in 1..Readings!Done : \E x \in Readings!Seen : x.row = rest[k]
    BY <1>1 DEF ReadingsInv
  <2>2. ASSUME NEW k \in 1..(Readings!Done + 1) PROVE \E x \in S : x.row = rest[k]
    <3>1. CASE k \in 1..Readings!Done
      BY <1>5, <2>1, <3>1
    <3>2. CASE k = Readings!Done + 1
      BY <1>2, <1>5, <3>2
    <3> QED
      BY <1>2, <3>1, <3>2
  <2> QED
    BY <2>2
<1>8. Readings!Done + 1 <= Len(rest)
  <2>1. Len(rest) \in Nat
    BY <1>2, SourcesAssumption DEF Readings!HistoryAssumption
  <2> QED
    BY <1>1, <1>2, <2>1
<1>9. /\ observations' \in SUBSET Readings!Observation /\ IsFiniteSet(observations')
      /\ recorded' \in SUBSET (Readings!Observation \X Readings!Observation)
      /\ dirty' \in Transaction /\ IsFiniteSet(dirty'.observations)
      /\ runs' \in Seq(Readings!RunRow)
      /\ Readings!Seen' = S /\ recorded' \cup dirty'.recorded = R
      /\ ConflictsIn(observations', recorded')
      /\ \A i \in DOMAIN runs' : RunIsWhole(runs'[i], observations')
  <2>1. CASE (Readings!Done + 1) % Batch = 0
    <3>1. /\ observations' = S /\ recorded' = R
          /\ runs' = Readings!RunsWithThis /\ dirty' = Readings!Clean
      BY <1>4, <2>1
    <3>2. /\ dirty' \in Transaction /\ dirty'.observations = {} /\ dirty'.recorded = {}
      BY <3>1 DEF Readings!Clean, Transaction
    <3>3. IsFiniteSet(S) /\ S \in SUBSET Readings!Observation
      BY <1>5, <1>6, FS_Union DEF Transaction
    <3>4. R \in SUBSET (Readings!Observation \X Readings!Observation)
      BY <1>5, <1>6 DEF Transaction
    <3>5. Readings!Seen' = S /\ recorded' \cup dirty'.recorded = R
      BY <3>1, <3>2 DEF Readings!Seen
    <3>6. /\ runs' \in Seq(Readings!RunRow)
          /\ \A i \in DOMAIN runs' : RunIsWhole(runs'[i], observations)
      BY <1>1, <3>1, ReadingsRunsWithThis
    <3>7. \A i \in DOMAIN runs' : RunIsWhole(runs'[i], observations')
      <4>1. observations \subseteq observations'
        BY <3>1
      <4> QED
        BY <3>6, <4>1, ReadingsMoreRows
    <3> QED
      BY <1>5, <3>1, <3>2, <3>3, <3>4, <3>5, <3>6, <3>7, FS_EmptySet
  <2>2. CASE (Readings!Done + 1) % Batch # 0
    <3>1. dirty' = d /\ UNCHANGED <<observations, recorded, runs>>
      BY <1>4, <2>2
    <3>2. Readings!Seen' = S /\ recorded' \cup dirty'.recorded = R
      BY <3>1 DEF Readings!Seen
    <3> QED
      BY <1>5, <1>6, <3>1, <3>2
  <2> QED
    BY <2>1, <2>2
<1>10. ReadingsTyped'
  BY <1>1, <1>3, <1>6, <1>9 DEF ReadingsTyped
<1>11. /\ NoneTwice(Readings!Seen)' /\ ConflictsIn(observations, recorded)'
       /\ ConflictsIn(Readings!Seen, recorded \cup dirty.recorded)'
  BY <1>5, <1>9 DEF NoneTwice, ConflictsIn
<1>12. \A i \in DOMAIN runs' : RunIsWhole(runs[i], observations)'
  BY <1>9 DEF RunIsWhole
<1>13. /\ (work = <<>>)' = FALSE
       /\ Readings!Done' <= Len(Readings!Rows(Head(work')))
       /\ \A k \in 1..Readings!Done' :
            \E x \in Readings!Seen' : x.row = Readings!Rows(Head(work'))[k]
  BY <1>1, <1>3, <1>7, <1>8, <1>9
<1> QED
  BY <1>10, <1>11, <1>12, <1>13 DEF ReadingsInv

(* The end of an export: with the rest committed, all of it is stored.      *)
LEMMA ReadingsInvCompletes == ASSUME ReadingsInv, Readings!CompleteImport PROVE ReadingsInv'
<1> DEFINE all == Readings!RunsWithThis
           new == [Readings!RunOf(Head(work), "completed") EXCEPT !.counts = counts]
<1>1. /\ work # <<>> /\ Readings!Done = Len(Readings!Rows(Head(work)))
      /\ observations' = Readings!Seen
      /\ recorded' = recorded \cup dirty.recorded
      /\ runs' = [all EXCEPT ![Len(all)] = new]
      /\ dirty' = Readings!Clean /\ work' = Tail(work)
      /\ counts' = [inserted |-> 0, duplicates |-> 0] /\ gaps' = gaps
  BY DEF Readings!CompleteImport, Readings!Seen
<1>2. /\ observations \in SUBSET Readings!Observation /\ IsFiniteSet(observations)
      /\ recorded \in SUBSET (Readings!Observation \X Readings!Observation)
      /\ dirty \in Transaction /\ IsFiniteSet(dirty.observations)
      /\ work \in Seq(Readings!Export) /\ counts \in Readings!Counts
      /\ \A g \in gaps : g.from < g.to
      /\ NoneTwice(Readings!Seen)
      /\ ConflictsIn(Readings!Seen, recorded \cup dirty.recorded)
      /\ \A k \in 1..Readings!Done :
           \E o \in Readings!Seen : o.row = Readings!Rows(Head(work))[k]
  BY <1>1 DEF ReadingsInv, ReadingsTyped
<1>3. /\ new \in Readings!RunRow /\ new.file = Head(work) /\ new.counts = counts
  <2>1. Head(work) \in Readings!Export
    BY <1>1, <1>2
  <2>2. new = [file |-> Head(work), status |-> "completed", counts |-> counts]
    BY DEF Readings!RunOf
  <2> QED
    BY <1>2, <2>1, <2>2 DEF Readings!RunRow
<1>4. RunIsWhole(new, Readings!Seen)
  <2>1. \A k \in 1..Len(Readings!Rows(new.file)) :
          \E o \in Readings!Seen : o.row = Readings!Rows(new.file)[k]
    BY <1>1, <1>2, <1>3
  <2>2. new.counts.inserted + new.counts.duplicates = Len(Readings!Rows(new.file))
    BY <1>1, <1>3 DEF Readings!Done
  <2> QED
    BY <2>1, <2>2 DEF RunIsWhole
<1>5. /\ all \in Seq(Readings!RunRow)
      /\ \A i \in DOMAIN all : RunIsWhole(all[i], Readings!Seen)
  <2>1. observations \subseteq Readings!Seen
    BY DEF Readings!Seen
  <2>2. /\ Readings!RunsWithThis \in Seq(Readings!RunRow)
        /\ \A i \in DOMAIN Readings!RunsWithThis :
             RunIsWhole(Readings!RunsWithThis[i], observations)
    BY <1>1, ReadingsRunsWithThis
  <2> QED
    BY <2>1, <2>2, ReadingsMoreRows
<1>6. /\ runs' \in Seq(Readings!RunRow)
      /\ \A i \in DOMAIN runs' : RunIsWhole(runs'[i], Readings!Seen)
  <2> HIDE DEF all, new
  <2>1. /\ runs' \in Seq(Readings!RunRow) /\ DOMAIN runs' = DOMAIN all
        /\ \A i \in DOMAIN all : runs'[i] = all[i] \/ runs'[i] = new
    <3>1. all \in Seq(Readings!RunRow) /\ new \in Readings!RunRow
      BY <1>3, <1>5
    <3>2. runs' = [all EXCEPT ![Len(all)] = new]
      BY <1>1
    <3>3. Len(all) \in Nat /\ DOMAIN all = 1..Len(all)
      BY <3>1
    <3>4. /\ runs' \in [1..Len(all) -> Readings!RunRow]
          /\ \A i \in 1..Len(all) : runs'[i] = all[i] \/ runs'[i] = new
      <4>1. all \in [1..Len(all) -> Readings!RunRow]
        BY <3>1
      <4> HIDE DEF all
      <4> QED
        BY <3>1, <3>2, <3>3, <4>1
    <3> QED
      BY <3>3, <3>4
  <2> QED
    BY <1>4, <1>5, <2>1
<1>7. dirty' \in Transaction /\ dirty'.observations = {} /\ dirty'.recorded = {}
  BY <1>1 DEF Readings!Clean, Transaction
<1>8. work' \in Seq(Readings!Export)
  BY <1>1, <1>2
<1>9. /\ observations' \in SUBSET Readings!Observation /\ IsFiniteSet(observations')
      /\ recorded' \in SUBSET (Readings!Observation \X Readings!Observation)
  BY <1>1, <1>2, FS_Union DEF Transaction, Readings!Seen
<1>10. ReadingsTyped'
  <2>1. counts' \in Readings!Counts
    BY <1>1, <1>8, ReadingsNextExport
  <2> QED
    BY <1>1, <1>2, <1>6, <1>7, <1>8, <1>9, <2>1, FS_EmptySet DEF ReadingsTyped
<1>11. /\ Readings!Seen' = Readings!Seen
       /\ recorded' \cup dirty'.recorded = recorded \cup dirty.recorded
  BY <1>1, <1>7 DEF Readings!Seen
<1>12. /\ NoneTwice(Readings!Seen)' /\ ConflictsIn(observations, recorded)'
       /\ ConflictsIn(Readings!Seen, recorded \cup dirty.recorded)'
  BY <1>1, <1>2, <1>11 DEF NoneTwice, ConflictsIn
<1>13. \A i \in DOMAIN runs' : RunIsWhole(runs[i], observations)'
  BY <1>1, <1>6 DEF RunIsWhole
<1> QED
  BY <1>1, <1>8, <1>10, <1>12, <1>13, ReadingsNextExport DEF ReadingsInv

LEMMA ReadingsInvariant == Spec => []ReadingsInv
<1>1. ReadingsInv /\ [Readings!Next]_(Readings!vars) => ReadingsInv'
  <2> SUFFICES ASSUME ReadingsInv, [Readings!Next]_(Readings!vars) PROVE ReadingsInv'
    OBVIOUS
  <2>1. CASE UNCHANGED Readings!vars
    <3>1. UNCHANGED <<observations, recorded, runs, dirty, work, counts, gaps>>
      BY <2>1 DEF Readings!vars
    <3>2. ReadingsTyped'
      BY <3>1 DEF ReadingsInv, ReadingsTyped
    <3>3. Readings!Seen' = Readings!Seen /\ Readings!Done' = Readings!Done
      BY <3>1 DEF Readings!Seen, Readings!Done
    <3>4. \A i \in DOMAIN runs' : RunIsWhole(runs[i], observations)'
      BY <3>1 DEF ReadingsInv, RunIsWhole
    <3> QED
      BY <3>1, <3>2, <3>3, <3>4 DEF ReadingsInv, NoneTwice, ConflictsIn
  <2> QED
    BY <2>1, ReadingsInvImport, ReadingsInvSkips, ReadingsInvRow, ReadingsInvCompletes,
       ReadingsInvDies, ReadingsInvGaps DEF Readings!Next
<1> QED
  BY <1>1, ReadingsInvInit, ReadingsBehaves, PTL

(* The state of the histories and their import is well-typed.                *)
THEOREM HistoryTypeCorrect == Spec => []Readings!TypeOK
<1>1. ReadingsInv => Readings!TypeOK
  <2> SUFFICES ASSUME ReadingsInv PROVE Readings!TypeOK
    OBVIOUS
  <2>1. Readings!ToSet(work) \subseteq Readings!Export
    BY DEF ReadingsInv, ReadingsTyped, Readings!ToSet
  <2> QED
    BY <2>1 DEF ReadingsInv, ReadingsTyped, Transaction, Readings!TypeOK
<1> QED
  BY <1>1, ReadingsInvariant, PTL

(* Of imports that die between two commits and are repeated, every row of an *)
(* export a run calls completed is stored, none is stored twice, and every   *)
(* two different rows of one time have a conflict that names one of them.   *)
THEOREM HistoryCorrect == Spec => []HistoryIsWhole
<1>1. ReadingsInv => HistoryIsWhole
  <2> SUFFICES ASSUME ReadingsInv PROVE HistoryIsWhole
    OBVIOUS
  <2>1. ASSUME NEW i \in DOMAIN runs, runs[i].status = "completed"
        PROVE  /\ Readings!ToSet(Readings!Rows(runs[i].file))
                     \subseteq {o.row : o \in observations}
               /\ runs[i].counts.inserted + runs[i].counts.duplicates
                    = Len(Readings!Rows(runs[i].file))
    <3>1. RunIsWhole(runs[i], observations)
      BY DEF ReadingsInv
    <3>2. runs[i].file \in Readings!Export
      <4>1. runs \in Seq(Readings!RunRow)
        BY DEF ReadingsInv, ReadingsTyped
      <4>2. runs[i] \in Readings!RunRow
        BY <4>1
      <4> QED
        BY <4>2 DEF Readings!RunRow
    <3>3. DOMAIN Readings!Rows(runs[i].file) = 1..Len(Readings!Rows(runs[i].file))
      BY <3>2, SourcesAssumption DEF Readings!HistoryAssumption
    <3> QED
      BY <2>1, <3>1, <3>3 DEF RunIsWhole, Readings!ToSet
  <2>2. Readings!Cardinality({o.row : o \in observations})
          = Readings!Cardinality(observations)
    <3> DEFINE rowsOf == {o.row : o \in observations}
               f == [o \in observations |-> o.row]
    <3>1. IsFiniteSet(observations) /\ NoneTwice(observations)
      BY DEF ReadingsInv, ReadingsTyped, NoneTwice, Readings!Seen
    <3>2. f \in Bijection(observations, rowsOf)
      BY <3>1 DEF NoneTwice, Bijection, Injection, Surjection, IsInjective
    <3>3. ExistsBijection(observations, rowsOf)
      BY <3>2 DEF ExistsBijection
    <3>4. Cardinality(observations) = Cardinality(rowsOf)
      <4> HIDE DEF rowsOf
      <4> QED
        BY <3>1, <3>3, FS_Bijection
    <3> QED
      BY <3>4, ReadingsCardinality
  <2>3. /\ \A o, s \in observations : o # s /\ o.row.at = s.row.at =>
             \E c \in recorded : c[2] \in {o, s}
        /\ \A c \in recorded : {c[1], c[2]} \subseteq observations
    BY DEF ReadingsInv, ConflictsIn
  <2> QED
    BY <2>1, <2>2, <2>3 DEF HistoryIsWhole, Readings!HistoryIsWhole
<1> QED
  BY <1>1, ReadingsInvariant, PTL

-----------------------------------------------------------------------------
(* The station reports *)

LEMMA SheetsCardinality == \A S : Sheets!Cardinality(S) = Cardinality(S)
  BY DEF Sheets!Cardinality, Cardinality

LEMMA SheetsAreCells ==
    /\ Sheets!Sheet \subseteq Seq(Sheets!Cell)
    /\ Seq(Sheets!Sheet) \subseteq Seq(Seq(Sheets!Cell))
<1>1. Sheets!Sheet \subseteq Seq(Sheets!Cell)
  BY DEF Sheets!Sheet
<1> QED
  BY <1>1

(* What the comparison knows: the new cells, whether one contradicts, and    *)
(* the raw rows to store.                                                   *)
Comparison == [new : Seq(Sheets!Cell), conflict : BOOLEAN, raws : Seq(Seq(Sheets!Cell))]

KeysDiffer(s) == \A i, j \in 1..Len(s) : s[i].key = s[j].key => i = j

(* _report for one cell: what is not known is new, the same cell is known    *)
(* already, and another of its key contradicts.                             *)
SheetsStep(known, c, next) ==
    /\ next \in Comparison /\ next.raws = known.raws
    /\ next.new = known.new \/ next.new = Append(known.new, c)
    /\ KeysDiffer(records \o known.new) => KeysDiffer(records \o next.new)
    /\ ~next.conflict => ~known.conflict /\ (IsIn(c, records) \/ IsIn(c, next.new))

LEMMA SheetsCell ==
    ASSUME records \in Seq(Sheets!Cell), NEW known \in Comparison, NEW c \in Sheets!Cell
    PROVE  SheetsStep(known, c, Sheets!CompareCell(known, c))
<1> DEFINE all == records \o known.new
           next == Sheets!CompareCell(known, c)
<1>1. /\ known.new \in Seq(Sheets!Cell) /\ known.conflict \in BOOLEAN
      /\ known.raws \in Seq(Seq(Sheets!Cell))
  BY DEF Comparison
<1>2. all \in Seq(Sheets!Cell) /\ \A i \in 1..Len(all) : all[i] \in Sheets!Cell
  BY <1>1
<1>3. /\ Sheets!Keys(all) = {all[i].key : i \in 1..Len(all)}
      /\ Sheets!ToSet(all) = {all[i] : i \in 1..Len(all)}
  <2>1. DOMAIN all = 1..Len(all)
    BY <1>2
  <2> QED
    BY <2>1 DEF Sheets!Keys, Sheets!ToSet
<1>4. CASE c.key \notin Sheets!Keys(all)
  <2>1. next = [known EXCEPT !.new = Append(@, c)]
    BY <1>4 DEF Sheets!CompareCell
  <2>2. /\ next \in Comparison /\ next.raws = known.raws
        /\ next.new = Append(known.new, c) /\ next.conflict = known.conflict
    <3>1. Append(known.new, c) \in Seq(Sheets!Cell)
      BY <1>1
    <3>2. known = [new |-> known.new, conflict |-> known.conflict, raws |-> known.raws]
      BY DEF Comparison
    <3>3. next = [new |-> Append(known.new, c), conflict |-> known.conflict,
                  raws |-> known.raws]
      BY <2>1, <3>2
    <3> QED
      BY <1>1, <3>1, <3>3 DEF Comparison
  <2>3. records \o next.new = Append(all, c)
    BY <1>1, <2>2, AppendToConcat
  <2>4. ASSUME KeysDiffer(all) PROVE KeysDiffer(Append(all, c))
    <3> HIDE DEF all
    <3>1. ASSUME NEW i \in 1..Len(Append(all, c)), NEW j \in 1..Len(Append(all, c)),
                 Append(all, c)[i].key = Append(all, c)[j].key
          PROVE  i = j
      <4>1. /\ Len(all) \in Nat /\ Len(Append(all, c)) = Len(all) + 1
            /\ Append(all, c)[Len(all) + 1] = c
            /\ \A k \in 1..Len(all) : Append(all, c)[k] = all[k]
        BY <1>2
      <4>2. \A k \in 1..Len(all) : all[k].key # c.key
        BY <1>3, <1>4
      <4>3. /\ i \in 1..Len(all) \/ i = Len(all) + 1
            /\ j \in 1..Len(all) \/ j = Len(all) + 1
        BY <3>1, <4>1
      <4> QED
        BY <2>4, <3>1, <4>1, <4>2, <4>3 DEF KeysDiffer
    <3> QED
      BY <3>1 DEF KeysDiffer
  <2>5. IsIn(c, next.new)
    BY <1>1, <2>2, IsInLonger
  <2> QED
    BY <2>2, <2>3, <2>4, <2>5 DEF SheetsStep
<1>5. CASE c.key \in Sheets!Keys(all) /\ c \notin Sheets!ToSet(all)
  <2>1. next = [known EXCEPT !.conflict = TRUE]
    BY <1>5 DEF Sheets!CompareCell
  <2>2. /\ next \in Comparison /\ next.raws = known.raws
        /\ next.new = known.new /\ next.conflict = TRUE
    BY <1>1, <2>1 DEF Comparison
  <2> QED
    BY <2>2 DEF SheetsStep
<1>6. CASE c.key \in Sheets!Keys(all) /\ c \in Sheets!ToSet(all)
  <2>1. next = known
    BY <1>6 DEF Sheets!CompareCell
  <2>2. IsIn(c, all)
    BY <1>3, <1>6 DEF IsIn
  <2>3. IsIn(c, records) \/ IsIn(c, known.new)
    BY <1>1, <2>2, IsInLonger
  <2> QED
    BY <2>1, <2>3 DEF SheetsStep
<1> QED
  BY <1>4, <1>5, <1>6

(* What has become of the comparison after the cells before place k + 1.    *)
SheetsUpTo(before, s, k, known) ==
    /\ known \in Comparison /\ known.raws = before.raws
    /\ KeysDiffer(records \o before.new) => KeysDiffer(records \o known.new)
    /\ \A c : IsIn(c, before.new) => IsIn(c, known.new)
    /\ \A c : IsIn(c, known.new) => IsIn(c, before.new) \/ \E i \in 1..k : s[i] = c
    /\ ~known.conflict =>
         ~before.conflict /\ \A i \in 1..k : IsIn(s[i], records) \/ IsIn(s[i], known.new)

LEMMA SheetsUpToNext ==
    \A before \in Comparison : \A s \in Seq(Sheets!Cell) : \A k \in 0..(Len(s) - 1) :
    \A known, next :
        SheetsUpTo(before, s, k, known) /\ SheetsStep(known, s[k + 1], next)
          => SheetsUpTo(before, s, k + 1, next)
<1> SUFFICES ASSUME NEW before \in Comparison, NEW s \in Seq(Sheets!Cell),
                    NEW k \in 0..(Len(s) - 1), NEW known, NEW next,
                    SheetsUpTo(before, s, k, known), SheetsStep(known, s[k + 1], next)
             PROVE  SheetsUpTo(before, s, k + 1, next)
  BY Zenon
<1>1. /\ k \in Nat /\ s[k + 1] \in Sheets!Cell /\ k + 1 \in 1..(k + 1)
      /\ \A i \in 1..(k + 1) : i \in 1..k \/ i = k + 1
      /\ \A i \in 1..k : i \in 1..(k + 1)
  OBVIOUS
<1>2. known \in Comparison /\ next \in Comparison /\ next.raws = before.raws
  BY DEF SheetsUpTo, SheetsStep
<1>3. \A c : IsIn(c, next.new) <=> IsIn(c, known.new) \/ (next.new # known.new /\ c = s[k + 1])
  <2>1. known.new \in Seq(Sheets!Cell)
    BY <1>2 DEF Comparison
  <2>2. \A c : IsIn(c, Append(known.new, s[k + 1])) <=> IsIn(c, known.new) \/ c = s[k + 1]
    BY <1>1, <2>1, IsInLonger
  <2>3. CASE next.new = known.new
    BY <2>3
  <2>4. CASE next.new = Append(known.new, s[k + 1]) /\ next.new # known.new
    BY <2>2, <2>4
  <2> QED
    BY <2>3, <2>4 DEF SheetsStep
<1>4. KeysDiffer(records \o before.new) => KeysDiffer(records \o next.new)
  BY DEF SheetsUpTo, SheetsStep
<1>5. \A c : IsIn(c, before.new) => IsIn(c, next.new)
  BY <1>3 DEF SheetsUpTo
<1>6. \A c : IsIn(c, next.new) => IsIn(c, before.new) \/ \E i \in 1..(k + 1) : s[i] = c
  BY <1>1, <1>3 DEF SheetsUpTo
<1>7. ~next.conflict =>
        ~before.conflict /\ \A i \in 1..(k + 1) : IsIn(s[i], records) \/ IsIn(s[i], next.new)
  <2> SUFFICES ASSUME ~next.conflict
               PROVE  ~before.conflict
                      /\ \A i \in 1..(k + 1) : IsIn(s[i], records) \/ IsIn(s[i], next.new)
    OBVIOUS
  <2>1. ~known.conflict /\ (IsIn(s[k + 1], records) \/ IsIn(s[k + 1], next.new))
    BY DEF SheetsStep
  <2>2. ~before.conflict /\ \A i \in 1..k : IsIn(s[i], records) \/ IsIn(s[i], known.new)
    BY <2>1 DEF SheetsUpTo
  <2>3. ASSUME NEW i \in 1..(k + 1) PROVE IsIn(s[i], records) \/ IsIn(s[i], next.new)
    <3>1. CASE i \in 1..k
      BY <1>3, <2>2, <3>1
    <3>2. CASE i = k + 1
      BY <2>1, <3>2
    <3> QED
      BY <1>1, <3>1, <3>2
  <2> QED
    BY <2>2, <2>3
<1> QED
  BY <1>2, <1>4, <1>5, <1>6, <1>7 DEF SheetsUpTo

(* _report for one file.                                                    *)
LEMMA SheetsFile ==
    ASSUME records \in Seq(Sheets!Cell), NEW before \in Comparison,
           NEW s \in Seq(Sheets!Cell), s # <<>>
    PROVE  \E known : /\ SheetsUpTo(before, s, Len(s), known)
                      /\ Sheets!CompareFile(before, s)
                           = [known EXCEPT !.raws = Append(@, s)]
<1> DEFINE F == [p \in Comparison \X Sheets!Cell |-> Sheets!CompareCell(p[1], p[2])]
           places == SUBSET DOMAIN s
           Fits(iter) == iter = [t \in places |->
                           IF t = {} THEN before
                           ELSE Sheets!CompareCell(iter[t \ {Max(t)}], s[Max(t)])]
           I == CHOOSE iter : Fits(iter)
<1>1. /\ Len(s) \in Nat /\ DOMAIN s = 1..Len(s)
      /\ \A i \in 1..Len(s) : s[i] \in Sheets!Cell
  OBVIOUS
<1>2. \A known \in Comparison : \A c \in Sheets!Cell :
        SheetsStep(known, c, Sheets!CompareCell(known, c))
  BY SheetsCell
<1>3. F \in [Comparison \X Sheets!Cell -> Comparison]
  <2>1. \A known \in Comparison : \A c \in Sheets!Cell :
          Sheets!CompareCell(known, c) \in Comparison
    BY <1>2 DEF SheetsStep
  <2> QED
    BY <2>1
<1>4. \E iter : Fits(iter)
  <2>1. PICK h \in [SUBSET (1..Len(s)) -> Comparison] :
          \A t \in SUBSET (1..Len(s)) :
            h[t] = IF t = {} THEN before ELSE F[<<h[t \ {Max(t)}], s[Max(t)]>>]
    <3>1. \E h \in [SUBSET (1..Len(s)) -> Comparison] : IsFold(h, F, before, s)
      <4> HIDE DEF F
      <4> QED
        BY <1>3, FoldExists
    <3> QED
      BY <3>1 DEF IsFold
  <2>2. ASSUME NEW t \in places
        PROVE  h[t] = IF t = {} THEN before
                      ELSE Sheets!CompareCell(h[t \ {Max(t)}], s[Max(t)])
    <3>1. CASE t = {}
      BY <1>1, <2>1, <3>1
    <3>2. CASE t # {}
      <4>1. Max(t) \in 1..Len(s) /\ t \ {Max(t)} \in SUBSET (1..Len(s))
        BY <1>1, <3>2, GreatestPlace
      <4>2. h[t \ {Max(t)}] \in Comparison /\ s[Max(t)] \in Sheets!Cell
        BY <1>1, <2>1, <4>1
      <4>3. h[t] = F[<<h[t \ {Max(t)}], s[Max(t)]>>]
        BY <1>1, <2>1, <3>2
      <4> QED
        BY <3>2, <4>2, <4>3
    <3> QED
      BY <3>1, <3>2
  <2>3. h = [t \in places |-> IF t = {} THEN before
                              ELSE Sheets!CompareCell(h[t \ {Max(t)}], s[Max(t)])]
    BY <1>1, <2>1, <2>2
  <2> QED
    BY <2>3
<1>5. \A t \in SUBSET (1..Len(s)) :
        I[t] = IF t = {} THEN before
               ELSE Sheets!CompareCell(I[t \ {Max(t)}], s[Max(t)])
  <2>1. Fits(I)
    <3> HIDE DEF Fits
    <3> QED
      BY <1>4
  <2> HIDE DEF I
  <2> QED
    BY <1>1, <2>1
<1>6. Sheets!CompareFile(before, s) = [I[DOMAIN s] EXCEPT !.raws = Append(@, s)]
  BY Zenon DEF Sheets!CompareFile, Sheets!FoldLeft, Sheets!MapThenFoldSet, Sheets!Max, Max
<1> HIDE DEF I, F, Fits, places
<1> DEFINE good == {k \in 0..Len(s) : SheetsUpTo(before, s, k, I[1..k])}
<1>7. 0 \in good
  <2>1. I[1..0] = before
    <3>1. 1..0 \in SUBSET (1..Len(s)) /\ 1..0 = {}
      OBVIOUS
    <3> QED
      BY <1>5, <3>1
  <2>2. SheetsUpTo(before, s, 0, before)
    BY DEF SheetsUpTo
  <2> QED
    BY <1>1, <2>1, <2>2
<1>8. ASSUME NEW k \in 0..(Len(s) - 1), k \in good PROVE k + 1 \in good
  <2>1. /\ 1..(k + 1) \in SUBSET (1..Len(s)) /\ 1..(k + 1) # {}
        /\ Max(1..(k + 1)) = k + 1 /\ (1..(k + 1)) \ {k + 1} = 1..k
    BY <1>1, FoldPlaces
  <2>2. I[1..(k + 1)] = Sheets!CompareCell(I[1..k], s[k + 1])
    BY <1>5, <2>1
  <2>3. SheetsUpTo(before, s, k, I[1..k]) /\ I[1..k] \in Comparison
    BY <1>8 DEF SheetsUpTo
  <2>4. k + 1 \in 1..Len(s) /\ k + 1 \in 0..Len(s)
    BY <1>1
  <2>5. SheetsStep(I[1..k], s[k + 1], I[1..(k + 1)])
    BY <1>1, <1>2, <2>2, <2>3, <2>4
  <2>6. SheetsUpTo(before, s, k + 1, I[1..(k + 1)])
    BY <2>3, <2>5, SheetsUpToNext
  <2> QED
    BY <2>4, <2>6
<1>9. Len(s) \in good
  <2>1. \A k \in 0..(Len(s) - 1) : k \in good => k + 1 \in good
    BY <1>8
  <2> HIDE DEF good
  <2>2. \A k \in 0..Len(s) : k \in good
    BY <1>1, <1>7, <2>1, CountUp
  <2> QED
    BY <1>1, <2>2
<1> QED
  BY <1>1, <1>6, <1>9

(* What holds of the comparison after any number of files: the new cells    *)
(* have keys of their own and are from raw rows to store, and without a     *)
(* conflict nothing in those is unknown.                                    *)
SheetsKnown(known) ==
    /\ known \in Comparison
    /\ known.raws \in Seq(Sheets!Sheet)
    /\ KeysDiffer(records) => KeysDiffer(records \o known.new)
    /\ \A c : IsIn(c, known.new) => IsInSome(c, known.raws)
    /\ ~known.conflict =>
         \A c : IsInSome(c, known.raws) => IsIn(c, records) \/ IsIn(c, known.new)

LEMMA SheetsKnownNext ==
    ASSUME records \in Seq(Sheets!Cell), NEW before, SheetsKnown(before),
           NEW s \in Sheets!Sheet
    PROVE  SheetsKnown(Sheets!CompareFile(before, s))
<1> DEFINE after == Sheets!CompareFile(before, s)
<1>0. s \in Seq(Sheets!Cell)
  BY SheetsAreCells
<1>1. CASE s = <<>>
  BY <1>1 DEF Sheets!CompareFile
<1>2. CASE s # <<>>
  <2>1. before \in Comparison
    BY DEF SheetsKnown
  <2>2. PICK known : SheetsUpTo(before, s, Len(s), known)
                     /\ after = [known EXCEPT !.raws = Append(@, s)]
    BY <1>0, <1>2, <2>1, SheetsFile
  <2>3. /\ known \in Comparison /\ known.raws = before.raws
        /\ before.raws \in Seq(Seq(Sheets!Cell)) /\ Len(s) \in Nat
    BY <1>0, <2>1, <2>2 DEF SheetsUpTo, Comparison
  <2>4. /\ after \in Comparison /\ after.new = known.new /\ after.conflict = known.conflict
        /\ after.raws = Append(before.raws, s)
    <3>1. Append(before.raws, s) \in Seq(Seq(Sheets!Cell))
      BY <1>0, <2>3
    <3>2. known = [new |-> known.new, conflict |-> known.conflict, raws |-> known.raws]
      BY <2>3 DEF Comparison
    <3>3. after = [new |-> known.new, conflict |-> known.conflict,
                   raws |-> Append(before.raws, s)]
      BY <2>2, <2>3, <3>2
    <3> QED
      BY <2>3, <3>1, <3>3 DEF Comparison
  <2> HIDE DEF after
  <2>5. \A c : IsInSome(c, after.raws) <=> IsInSome(c, before.raws) \/ IsIn(c, s)
    BY <1>0, <2>3, <2>4, IsInLonger
  <2>6. KeysDiffer(records) => KeysDiffer(records \o after.new)
    BY <2>2, <2>4 DEF SheetsKnown, SheetsUpTo
  <2>7. \A c : IsIn(c, after.new) => IsInSome(c, after.raws)
    <3>1. \A c : IsIn(c, known.new) => IsIn(c, before.new) \/ IsIn(c, s)
      BY <2>2 DEF SheetsUpTo, IsIn
    <3>2. \A c : IsIn(c, before.new) => IsInSome(c, before.raws)
      BY DEF SheetsKnown
    <3> QED
      BY <2>4, <2>5, <3>1, <3>2
  <2>8. ASSUME ~after.conflict, NEW c, IsInSome(c, after.raws)
        PROVE  IsIn(c, records) \/ IsIn(c, after.new)
    <3>1. /\ ~known.conflict /\ ~before.conflict
          /\ \A i \in 1..Len(s) : IsIn(s[i], records) \/ IsIn(s[i], known.new)
      BY <2>2, <2>4, <2>8 DEF SheetsUpTo
    <3>2. CASE IsInSome(c, before.raws)
      <4>1. IsIn(c, records) \/ IsIn(c, before.new)
        BY <3>1, <3>2 DEF SheetsKnown
      <4>2. \A d : IsIn(d, before.new) => IsIn(d, known.new)
        BY <2>2 DEF SheetsUpTo
      <4> QED
        BY <2>4, <4>1, <4>2
    <3>3. CASE IsIn(c, s)
      <4>1. PICK i \in 1..Len(s) : s[i] = c
        BY <3>3 DEF IsIn
      <4> QED
        BY <2>4, <3>1, <4>1
    <3> QED
      BY <2>5, <2>8, <3>2, <3>3
  <2>9. after.raws \in Seq(Sheets!Sheet)
    <3>1. before.raws \in Seq(Sheets!Sheet)
      BY DEF SheetsKnown
    <3> QED
      BY <2>4, <3>1
  <2> QED
    BY <2>4, <2>6, <2>7, <2>8, <2>9 DEF SheetsKnown, after
<1> QED
  BY <1>1, <1>2

(* _report for all files.                                                   *)
LEMMA SheetsCompared ==
    ASSUME records \in Seq(Sheets!Cell), sheet \in Seq(Sheets!Sheet)
    PROVE  SheetsKnown(Sheets!Compared)
<1> DEFINE K == {known \in Comparison : SheetsKnown(known)}
           C == Sheets!Sheet
           F == [p \in K \X C |-> Sheets!CompareFile(p[1], p[2])]
           nothing == [new |-> <<>>, conflict |-> FALSE, raws |-> <<>>]
           places == SUBSET DOMAIN sheet
           Fits(iter) == iter = [t \in places |->
                           IF t = {} THEN nothing
                           ELSE Sheets!CompareFile(iter[t \ {Max(t)}], sheet[Max(t)])]
           I == CHOOSE iter : Fits(iter)
<1>1. /\ Len(sheet) \in Nat /\ DOMAIN sheet = 1..Len(sheet)
      /\ \A i \in 1..Len(sheet) : sheet[i] \in C
  OBVIOUS
<1>2. \A known \in K : \A s \in C : Sheets!CompareFile(known, s) \in K
  <2>1. ASSUME NEW known \in K, NEW s \in C PROVE SheetsKnown(Sheets!CompareFile(known, s))
    BY SheetsKnownNext
  <2> QED
    BY <2>1 DEF SheetsKnown
<1>3. nothing \in K
  <2>1. /\ nothing \in Comparison /\ nothing.new = <<>> /\ nothing.raws = <<>>
        /\ Len(<<>>) = 0 /\ records \o <<>> = records
    BY DEF Comparison
  <2>2. \A c : ~IsIn(c, <<>>) /\ ~IsInSome(c, <<>>)
    BY DEF IsIn, IsInSome
  <2>3. SheetsKnown(nothing)
    BY <2>1, <2>2 DEF SheetsKnown
  <2> QED
    BY <2>1, <2>3
<1>4. F \in [K \X C -> K]
  <2> HIDE DEF K, C
  <2> QED
    BY <1>2
<1> HIDE DEF K, nothing
<1>5. \E iter : Fits(iter)
  <2>1. PICK h \in [SUBSET (1..Len(sheet)) -> K] :
          \A t \in SUBSET (1..Len(sheet)) :
            h[t] = IF t = {} THEN nothing ELSE F[<<h[t \ {Max(t)}], sheet[Max(t)]>>]
    <3>1. \E h \in [SUBSET (1..Len(sheet)) -> K] : IsFold(h, F, nothing, sheet)
      <4>1. sheet \in Seq(C)
        OBVIOUS
      <4> HIDE DEF F, C
      <4> QED
        BY <1>3, <1>4, <4>1, FoldExists
    <3> QED
      BY <3>1 DEF IsFold
  <2>2. ASSUME NEW t \in places
        PROVE  h[t] = IF t = {} THEN nothing
                      ELSE Sheets!CompareFile(h[t \ {Max(t)}], sheet[Max(t)])
    <3>1. CASE t = {}
      BY <1>1, <2>1, <3>1
    <3>2. CASE t # {}
      <4>1. Max(t) \in 1..Len(sheet) /\ t \ {Max(t)} \in SUBSET (1..Len(sheet))
        BY <1>1, <3>2, GreatestPlace
      <4>2. h[t \ {Max(t)}] \in K /\ sheet[Max(t)] \in C
        BY <1>1, <2>1, <4>1
      <4>3. h[t] = F[<<h[t \ {Max(t)}], sheet[Max(t)]>>]
        BY <1>1, <2>1, <3>2
      <4> HIDE DEF C
      <4> QED
        BY <3>2, <4>2, <4>3
    <3> QED
      BY <3>1, <3>2
  <2>3. h = [t \in places |-> IF t = {} THEN nothing
                              ELSE Sheets!CompareFile(h[t \ {Max(t)}], sheet[Max(t)])]
    BY <1>1, <2>1, <2>2
  <2> QED
    BY <2>3
<1>6. \A t \in SUBSET (1..Len(sheet)) :
        I[t] = IF t = {} THEN nothing
               ELSE Sheets!CompareFile(I[t \ {Max(t)}], sheet[Max(t)])
  <2>1. Fits(I)
    <3> HIDE DEF Fits
    <3> QED
      BY <1>5
  <2> HIDE DEF I
  <2> QED
    BY <1>1, <2>1
<1>7. Sheets!Compared = I[DOMAIN sheet]
  BY Zenon DEF nothing, Sheets!Compared, Sheets!FoldLeft, Sheets!MapThenFoldSet,
     Sheets!Max, Max
<1> HIDE DEF I, F, C, Fits, places
<1> DEFINE good == {k \in 0..Len(sheet) : I[1..k] \in K}
<1>8. 0 \in good
  <2>1. 1..0 \in SUBSET (1..Len(sheet)) /\ 1..0 = {} /\ 0 \in 0..Len(sheet)
    BY <1>1
  <2>2. I[1..0] = nothing
    BY <1>6, <2>1
  <2> QED
    BY <1>3, <2>1, <2>2
<1>9. ASSUME NEW k \in 0..(Len(sheet) - 1), k \in good PROVE k + 1 \in good
  <2>1. /\ 1..(k + 1) \in SUBSET (1..Len(sheet)) /\ 1..(k + 1) # {}
        /\ Max(1..(k + 1)) = k + 1 /\ (1..(k + 1)) \ {k + 1} = 1..k
    BY <1>1, FoldPlaces
  <2>2. I[1..(k + 1)] = Sheets!CompareFile(I[1..k], sheet[k + 1])
    BY <1>6, <2>1
  <2>3. k + 1 \in 1..Len(sheet) /\ k + 1 \in 0..Len(sheet)
    BY <1>1
  <2>4. I[1..(k + 1)] \in K
    BY <1>1, <1>2, <1>9, <2>2, <2>3
  <2> QED
    BY <2>3, <2>4
<1>10. Len(sheet) \in good
  <2>1. \A k \in 0..(Len(sheet) - 1) : k \in good => k + 1 \in good
    BY <1>9
  <2> HIDE DEF good
  <2>2. \A k \in 0..Len(sheet) : k \in good
    BY <1>1, <1>8, <2>1, CountUp
  <2> QED
    BY <1>1, <2>2
<1> QED
  BY <1>1, <1>7, <1>10 DEF K

SheetsTyped ==
    /\ sheet \in [1..Reports -> Sheets!Sheet]
    /\ raw \in Seq(Sheets!Sheet) /\ rawItems \in Seq(Sheets!Sheet)
    /\ records \in Seq(Sheets!Cell) /\ pending \in Seq(Sheets!Cell)
    /\ unsaved \in 0..Len(rawItems)
    /\ run \in {"none", "writing", "completed", "blocked", "failed"}

(* What is stored of the raw rows of this run is found among the others.    *)
SheetsSaved ==
    \A i \in 1..(Len(rawItems) - unsaved) : \E r \in 1..Len(raw) : raw[r] = rawItems[i]

(* The keys of the records differ, those a run is about to add included;    *)
(* every record is found in a raw row, and all that is found in the raw rows *)
(* of a run that goes on or is complete is recorded or about to be.         *)
SheetsInv ==
    /\ SheetsTyped
    /\ run # "writing" => pending = <<>>
    /\ run = "writing" => SheetsSaved
    /\ KeysDiffer(records \o pending)
    /\ \A c : IsIn(c, records) => IsInSome(c, raw)
    /\ \A c : IsIn(c, pending) => IsInSome(c, rawItems)
    /\ run \in {"writing", "completed"} =>
         \A c : IsInSome(c, rawItems) => IsIn(c, records) \/ IsIn(c, pending)

LEMMA SheetsInvInit == Sheets!Init => SheetsInv
<1> SUFFICES ASSUME Sheets!Init PROVE SheetsInv
  OBVIOUS
<1>1. /\ sheet \in [1..Reports -> Sheets!Sheet]
      /\ raw = <<>> /\ records = <<>> /\ pending = <<>> /\ rawItems = <<>>
      /\ unsaved = 0 /\ run = "none"
  BY DEF Sheets!Init
<1>2. /\ Len(<<>>) = 0 /\ <<>> \o <<>> = <<>>
      /\ \A S : <<>> \in Seq(S)
  OBVIOUS
<1>3. SheetsTyped
  BY <1>1, <1>2 DEF SheetsTyped
<1>4. \A c : ~IsIn(c, <<>>)
  BY <1>2 DEF IsIn
<1>5. KeysDiffer(<<>>)
  BY <1>2 DEF KeysDiffer
<1> QED
  BY <1>1, <1>2, <1>3, <1>4, <1>5 DEF SheetsInv

LEMMA SheetsInvExport == ASSUME SheetsInv, Sheets!Export PROVE SheetsInv'
<1>1. /\ run # "writing"
      /\ UNCHANGED <<raw, records, pending, rawItems, unsaved, run>>
      /\ \E f \in 1..Reports, s \in Sheets!Sheet : sheet' = [sheet EXCEPT ![f] = s]
  BY DEF Sheets!Export
<1>2. SheetsTyped'
  <2>1. sheet' \in [1..Reports -> Sheets!Sheet]
    BY <1>1 DEF SheetsInv, SheetsTyped
  <2> QED
    BY <1>1, <2>1 DEF SheetsInv, SheetsTyped
<1> QED
  BY <1>1, <1>2 DEF SheetsInv, SheetsSaved

LEMMA SheetsInvCompare == ASSUME SheetsInv, Sheets!CompareReports PROVE SheetsInv'
<1> DEFINE found == Sheets!Compared
<1>1. /\ run # "writing" /\ UNCHANGED <<sheet, raw, records>>
      /\ IF found.conflict
         THEN run' = "blocked" /\ UNCHANGED <<pending, rawItems, unsaved>>
         ELSE /\ pending' = found.new /\ rawItems' = found.raws
              /\ unsaved' = Len(rawItems') /\ run' = "writing"
  BY DEF Sheets!CompareReports
<1>2. SheetsKnown(found)
  <2>1. records \in Seq(Sheets!Cell)
    BY DEF SheetsInv, SheetsTyped
  <2>2. sheet \in Seq(Sheets!Sheet)
    <3>1. sheet \in [1..Reports -> Sheets!Sheet] /\ Reports \in Nat
      BY SourcesAssumption DEF SheetsInv, SheetsTyped, Sheets!ReportsAssumption
    <3> QED
      BY <3>1
  <2> QED
    BY <2>1, <2>2, SheetsCompared
<1> HIDE DEF found
<1>3. CASE found.conflict
  <2>1. run' = "blocked" /\ UNCHANGED <<pending, rawItems, unsaved>>
    BY <1>1, <1>3
  <2>2. SheetsTyped'
    BY <1>1, <2>1 DEF SheetsInv, SheetsTyped
  <2> QED
    BY <1>1, <2>1, <2>2 DEF SheetsInv
<1>4. CASE ~found.conflict
  <2>1. /\ pending' = found.new /\ rawItems' = found.raws
        /\ unsaved' = Len(rawItems') /\ run' = "writing"
    BY <1>1, <1>4
  <2>2. /\ pending' \in Seq(Sheets!Cell) /\ rawItems' \in Seq(Sheets!Sheet)
        /\ KeysDiffer(records) => KeysDiffer(records \o pending')
        /\ \A c : IsIn(c, pending') => IsInSome(c, rawItems')
        /\ \A c : IsInSome(c, rawItems') => IsIn(c, records) \/ IsIn(c, pending')
    BY <1>2, <1>4, <2>1 DEF SheetsKnown, Comparison
  <2>3. SheetsTyped'
    <3>1. unsaved' \in 0..Len(rawItems')
      BY <2>1, <2>2
    <3> QED
      BY <1>1, <2>1, <2>2, <3>1 DEF SheetsInv, SheetsTyped
  <2>4. SheetsSaved'
    <3>1. Len(rawItems') - unsaved' = 0
      BY <2>1, <2>2
    <3> QED
      BY <3>1 DEF SheetsSaved
  <2>5. KeysDiffer(records)
    <3>1. /\ KeysDiffer(records \o pending) /\ pending = <<>>
          /\ records \in Seq(Sheets!Cell)
      BY <1>1 DEF SheetsInv, SheetsTyped
    <3>2. records \o <<>> = records
      BY <3>1
    <3> QED
      BY <3>1, <3>2
  <2>6. \A c : IsIn(c, records') => IsInSome(c, raw')
    BY <1>1 DEF SheetsInv
  <2> QED
    BY <1>1, <2>1, <2>2, <2>3, <2>4, <2>5, <2>6 DEF SheetsInv
<1> QED
  BY <1>3, <1>4

LEMMA SheetsInvSave == ASSUME SheetsInv, Sheets!SaveReport PROVE SheetsInv'
<1> DEFINE n == Len(rawItems) - unsaved + 1
<1>1. /\ run = "writing" /\ unsaved > 0
      /\ raw' = Append(raw, rawItems[n]) /\ unsaved' = unsaved - 1
      /\ UNCHANGED <<sheet, records, pending, rawItems, run>>
  BY DEF Sheets!SaveReport
<1>2. /\ raw \in Seq(Sheets!Sheet) /\ rawItems \in Seq(Sheets!Sheet)
      /\ Len(rawItems) \in Nat /\ unsaved \in 0..Len(rawItems) /\ SheetsSaved
  BY <1>1 DEF SheetsInv, SheetsTyped
<1>3. n \in 1..Len(rawItems) /\ n = Len(rawItems) - unsaved'
  BY <1>1, <1>2
<1>4. rawItems[n] \in Sheets!Sheet
  BY <1>2, <1>3
<1> HIDE DEF n
<1>5. /\ Len(raw') = Len(raw) + 1 /\ Len(raw) \in Nat /\ raw' \in Seq(Sheets!Sheet)
      /\ raw'[Len(raw) + 1] = rawItems[n]
      /\ \A r \in 1..Len(raw) : raw'[r] = raw[r]
  BY <1>1, <1>2, <1>4
<1>6. SheetsTyped'
  <2>1. unsaved' \in 0..Len(rawItems')
    BY <1>1, <1>2
  <2> QED
    BY <1>1, <1>5, <2>1 DEF SheetsInv, SheetsTyped
<1>7. SheetsSaved'
  <2> SUFFICES ASSUME NEW i \in 1..n
               PROVE  \E r \in 1..Len(raw') : raw'[r] = rawItems[i]
    BY <1>1, <1>3 DEF SheetsSaved
  <2>1. CASE i = n
    BY <1>5, <2>1
  <2>2. CASE i # n
    <3>1. i \in 1..(Len(rawItems) - unsaved)
      BY <1>2, <2>2 DEF n
    <3>2. PICK r \in 1..Len(raw) : raw[r] = rawItems[i]
      BY <1>2, <3>1 DEF SheetsSaved
    <3> QED
      BY <1>5, <3>2
  <2> QED
    BY <2>1, <2>2
<1>8. \A c : IsInSome(c, raw) => IsInSome(c, raw')
  BY <1>5 DEF IsInSome
<1> QED
  BY <1>1, <1>6, <1>7, <1>8 DEF SheetsInv

LEMMA SheetsInvRecord == ASSUME SheetsInv, Sheets!SaveReportRecords PROVE SheetsInv'
<1>1. /\ run = "writing" /\ unsaved = 0
      /\ records' = records \o pending /\ pending' = <<>> /\ run' = "completed"
      /\ UNCHANGED <<sheet, raw, rawItems, unsaved>>
  BY DEF Sheets!SaveReportRecords
<1>2. /\ records \in Seq(Sheets!Cell) /\ pending \in Seq(Sheets!Cell)
      /\ rawItems \in Seq(Sheets!Sheet) /\ SheetsSaved
  BY <1>1 DEF SheetsInv, SheetsTyped
<1>3. /\ records' \in Seq(Sheets!Cell) /\ records' \o pending' = records \o pending
      /\ pending' \in Seq(Sheets!Cell)
  BY <1>1, <1>2
<1>4. SheetsTyped'
  BY <1>1, <1>3 DEF SheetsInv, SheetsTyped
<1>5. \A c : IsIn(c, records') <=> IsIn(c, records) \/ IsIn(c, pending)
  BY <1>1, <1>2, IsInLonger
<1>6. \A c : IsInSome(c, rawItems) => IsInSome(c, raw)
  <2>1. \A i \in 1..Len(rawItems) : \E r \in 1..Len(raw) : raw[r] = rawItems[i]
    <3>1. Len(rawItems) - unsaved = Len(rawItems)
      BY <1>1, <1>2
    <3> QED
      BY <1>2, <3>1 DEF SheetsSaved
  <2> QED
    BY <2>1 DEF IsInSome
<1>7. \A c : ~IsIn(c, pending')
  BY <1>1 DEF IsIn
<1>8. \A c : IsIn(c, records') => IsInSome(c, raw')
  BY <1>1, <1>5, <1>6 DEF SheetsInv
<1>9. \A c : IsInSome(c, rawItems') => IsIn(c, records')
  BY <1>1, <1>5 DEF SheetsInv
<1>10. KeysDiffer(records' \o pending')
  BY <1>3 DEF SheetsInv
<1> QED
  BY <1>1, <1>4, <1>7, <1>8, <1>9, <1>10 DEF SheetsInv

LEMMA SheetsInvDies == ASSUME SheetsInv, Sheets!ReportImportDies PROVE SheetsInv'
<1>1. /\ run = "writing" /\ run' = "failed"
      /\ pending' = <<>> /\ rawItems' = <<>> /\ unsaved' = 0
      /\ UNCHANGED <<sheet, raw, records>>
  BY DEF Sheets!ReportImportDies
<1>2. /\ <<>> \in Seq(Sheets!Cell) /\ <<>> \in Seq(Sheets!Sheet) /\ Len(<<>>) = 0
  OBVIOUS
<1>3. SheetsTyped'
  BY <1>1, <1>2 DEF SheetsInv, SheetsTyped
<1>4. KeysDiffer(records' \o pending')
  <2>1. records \in Seq(Sheets!Cell) /\ pending \in Seq(Sheets!Cell)
    BY DEF SheetsInv, SheetsTyped
  <2>2. /\ records \o <<>> = records /\ Len(records) \in Nat
        /\ 1..Len(records) \subseteq 1..Len(records \o pending)
        /\ \A i \in 1..Len(records) : (records \o pending)[i] = records[i]
    BY <2>1
  <2>3. KeysDiffer(records)
    BY <2>2 DEF SheetsInv, KeysDiffer
  <2> QED
    BY <1>1, <2>2, <2>3
<1>5. \A c : ~IsIn(c, pending')
  BY <1>1, <1>2 DEF IsIn
<1> QED
  BY <1>1, <1>3, <1>4, <1>5 DEF SheetsInv

LEMMA SheetsInvariant == Spec => []SheetsInv
<1>1. SheetsInv /\ [Sheets!Next]_(Sheets!vars) => SheetsInv'
  <2> SUFFICES ASSUME SheetsInv, [Sheets!Next]_(Sheets!vars) PROVE SheetsInv'
    OBVIOUS
  <2>1. CASE UNCHANGED Sheets!vars
    <3>1. UNCHANGED <<sheet, raw, records, pending, rawItems, unsaved, run>>
      BY <2>1 DEF Sheets!vars
    <3> QED
      BY <3>1 DEF SheetsInv, SheetsTyped, SheetsSaved
  <2> QED
    BY <2>1, SheetsInvExport, SheetsInvCompare, SheetsInvSave, SheetsInvRecord,
       SheetsInvDies DEF Sheets!Next
<1> QED
  BY <1>1, SheetsInvInit, SheetsBehaves, PTL

(* The files, what is stored of them and the running import are well-typed.  *)
THEOREM ReportsTypeCorrect == Spec => []Sheets!TypeOK
<1>1. SheetsInv => Sheets!TypeOK
  <2> SUFFICES ASSUME SheetsInv PROVE Sheets!TypeOK
    OBVIOUS
  <2>1. /\ Sheets!ToSet(raw) \subseteq Sheets!Sheet
        /\ Sheets!ToSet(rawItems) \subseteq Sheets!Sheet
    BY DEF SheetsInv, SheetsTyped, Sheets!ToSet
  <2>2. /\ Sheets!ToSet(records) \subseteq Sheets!Cell
        /\ Sheets!ToSet(pending) \subseteq Sheets!Cell
    BY DEF SheetsInv, SheetsTyped, Sheets!ToSet
  <2> QED
    BY <2>1, <2>2 DEF SheetsInv, SheetsTyped, Sheets!TypeOK
<1> QED
  BY <1>1, SheetsInvariant, PTL

(* However often a run has died and was repeated, no cell is recorded twice, *)
(* every record is found in a raw row that was stored before it, and a run   *)
(* that completes leaves every cell of its files recorded with its value.   *)
THEOREM ReportsCorrect == Spec => []ReportsAreWhole
<1>1. SheetsInv => ReportsAreWhole
  <2> SUFFICES ASSUME SheetsInv PROVE ReportsAreWhole
    OBVIOUS
  <2>1. /\ records \in Seq(Sheets!Cell) /\ Len(records) \in Nat
        /\ raw \in Seq(Sheets!Sheet) /\ rawItems \in Seq(Sheets!Sheet)
    BY DEF SheetsInv, SheetsTyped
  <2>2. KeysDiffer(records)
    <3>1. pending \in Seq(Sheets!Cell) /\ KeysDiffer(records \o pending)
      BY DEF SheetsInv, SheetsTyped
    <3>2. /\ 1..Len(records) \subseteq 1..Len(records \o pending)
          /\ \A i \in 1..Len(records) : (records \o pending)[i] = records[i]
      BY <2>1, <3>1
    <3> QED
      BY <3>1, <3>2 DEF KeysDiffer
  <2>3. Sheets!Cardinality(Sheets!Keys(records)) = Len(records)
    <3> DEFINE places == 1..Len(records)
               keys == {records[i].key : i \in places}
               f == [i \in places |-> records[i].key]
    <3>1. Sheets!Keys(records) = keys
      <4>1. DOMAIN records = places
        BY <2>1
      <4> QED
        BY <4>1 DEF Sheets!Keys
    <3>2. f \in Bijection(places, keys)
      BY <2>2 DEF KeysDiffer, Bijection, Injection, Surjection, IsInjective
    <3>3. IsFiniteSet(places) /\ Cardinality(places) = Len(records)
      <4>1. \A n \in Nat : IsFiniteSet(1..n) /\ Cardinality(1..n) = n
        BY FS_Interval
      <4> QED
        BY <2>1, <4>1
    <3>4. Cardinality(places) = Cardinality(keys)
      <4>1. ExistsBijection(places, keys)
        BY <3>2 DEF ExistsBijection
      <4> HIDE DEF places, keys
      <4> QED
        BY <3>3, <4>1, FS_Bijection
    <3> QED
      BY <3>1, <3>3, <3>4, SheetsCardinality
  <2>4. /\ \A c : c \in Sheets!ToSet(records) <=> IsIn(c, records)
        /\ \A c : c \in UNION {Sheets!ToSet(raw[i]) : i \in DOMAIN raw}
                    <=> IsInSome(c, raw)
        /\ \A c : c \in UNION {Sheets!ToSet(rawItems[i]) : i \in DOMAIN rawItems}
                    <=> IsInSome(c, rawItems)
    <3>1. \A s \in Seq(Sheets!Cell) : \A c : c \in Sheets!ToSet(s) <=> IsIn(c, s)
      <4> SUFFICES ASSUME NEW s \in Seq(Sheets!Cell), NEW c
                   PROVE  c \in Sheets!ToSet(s) <=> IsIn(c, s)
        OBVIOUS
      <4>1. DOMAIN s = 1..Len(s)
        OBVIOUS
      <4> QED
        BY <4>1 DEF Sheets!ToSet, IsIn
    <3>2. ASSUME NEW ss \in Seq(Sheets!Sheet), NEW c
          PROVE  c \in UNION {Sheets!ToSet(ss[i]) : i \in DOMAIN ss} <=> IsInSome(c, ss)
      <4>1. DOMAIN ss = 1..Len(ss)
        OBVIOUS
      <4>2. \A i \in 1..Len(ss) : ss[i] \in Seq(Sheets!Cell)
        BY SheetsAreCells
      <4>3. \A i \in 1..Len(ss) : c \in Sheets!ToSet(ss[i]) <=> IsIn(c, ss[i])
        BY <3>1, <4>2
      <4> QED
        BY <4>1, <4>3 DEF IsInSome
    <3> QED
      BY <2>1, <3>1, <3>2
  <2>5. Sheets!ToSet(records) \subseteq UNION {Sheets!ToSet(raw[i]) : i \in DOMAIN raw}
    BY <2>4 DEF SheetsInv
  <2>6. ASSUME run = "completed"
        PROVE  UNION {Sheets!ToSet(rawItems[i]) : i \in DOMAIN rawItems}
                 \subseteq Sheets!ToSet(records)
    <3>1. pending = <<>> /\ Len(<<>>) = 0
      BY <2>6 DEF SheetsInv
    <3>2. \A c : ~IsIn(c, pending)
      BY <3>1 DEF IsIn
    <3> QED
      BY <2>4, <2>6, <3>2 DEF SheetsInv
  <2> QED
    BY <2>3, <2>5, <2>6 DEF ReportsAreWhole, Sheets!ReportsAreWhole
<1> QED
  BY <1>1, SheetsInvariant, PTL

-----------------------------------------------------------------------------
(* The reader of the Warema stream *)

WaremaMark == [mark : Warema!Kind, at : 1..MaxMarks]
WaremaWire(w) ==
    /\ w \in Seq(WaremaMark) /\ Len(w) <= MaxMarks
    /\ \A i \in 1..Len(w) : w[i].at = i

LEMMA WaremaBound == MaxMarks \in Nat /\ BufferLimits \subseteq Nat
  BY SourcesAssumption DEF Warema!WaremaAssumption

LEMMA WaremaToSet == \A s : Warema!ToSet(s) = ToSet(s)
  BY DEF Warema!ToSet, ToSet

(* What arrives.                                                            *)
LEMMA WaremaWires == ASSUME NEW w \in Warema!Wires PROVE WaremaWire(w)
<1>1. PICK m \in 0..MaxMarks : \E kinds \in [1..m -> Warema!Kind] :
        w = [i \in DOMAIN kinds |-> [mark |-> kinds[i], at |-> i]]
  BY DEF Warema!Wires
<1>2. PICK kinds \in [1..m -> Warema!Kind] :
        w = [i \in 1..m |-> [mark |-> kinds[i], at |-> i]]
  BY <1>1
<1>3. m \in Nat /\ m <= MaxMarks /\ MaxMarks \in Nat
  BY WaremaBound
<1>4. \A i \in 1..m : [mark |-> kinds[i], at |-> i] \in WaremaMark
  BY <1>3 DEF WaremaMark
<1>5. w \in [1..m -> WaremaMark]
  BY <1>2, <1>4
<1>6. w \in Seq(WaremaMark) /\ Len(w) = m
  BY <1>3, <1>5
<1> QED
  BY <1>2, <1>3, <1>6 DEF WaremaWire

(* Find in a part of a sequence: the first place with this mark, or 0 when   *)
(* there is none.                                                           *)
WaremaNone(w, a, e, x) == \A i \in (a + 1)..e : w[i].mark # x
WaremaFirst(w, a, e, x) ==
    e > a /\ w[e].mark = x /\ \A i \in (a + 1)..(e - 1) : w[i].mark # x

LEMMA WaremaFindIn ==
    ASSUME NEW s \in Seq(WaremaMark), NEW x
    PROVE  /\ Warema!Find(s, x) \in 0..Len(s)
           /\ Warema!Find(s, x) = 0 => \A i \in 1..Len(s) : s[i].mark # x
           /\ Warema!Find(s, x) # 0 =>
                /\ s[Warema!Find(s, x)].mark = x
                /\ \A i \in 1..Len(s) : i < Warema!Find(s, x) => s[i].mark # x
<1> DEFINE places == {i \in DOMAIN s : s[i].mark = x}
           first == CHOOSE i \in places : \A j \in places : i <= j
<1>1. Warema!Find(s, x) = IF places = {} THEN 0 ELSE first
  BY DEF Warema!Find
<1>2. places \in SUBSET Nat /\ DOMAIN s = 1..Len(s) /\ Len(s) \in Nat
  OBVIOUS
<1>3. CASE places = {}
  BY <1>1, <1>2, <1>3
<1>4. CASE places # {}
  <2>1. \E i \in places : \A j \in places : i <= j
    <3> HIDE DEF places
    <3> QED
      BY <1>2, <1>4, LeastOfSet
  <2>2. first \in places /\ \A j \in places : first <= j
    <3> HIDE DEF places
    <3> QED
      BY <2>1
  <2> HIDE DEF first
  <2>3. first \in 1..Len(s) /\ s[first].mark = x
    BY <1>2, <2>2
  <2>4. ASSUME NEW i \in 1..Len(s), i < first PROVE s[i].mark # x
    BY <1>2, <2>2, <2>3, <2>4
  <2> QED
    BY <1>1, <1>2, <1>4, <2>3, <2>4
<1> QED
  BY <1>3, <1>4

LEMMA WaremaFind ==
    ASSUME NEW w \in Seq(WaremaMark), NEW a \in 0..Len(w), NEW q \in a..Len(w), NEW x
    PROVE  /\ Warema!Find(SubSeq(w, a + 1, q), x) \in 0..(q - a)
           /\ Warema!Find(SubSeq(w, a + 1, q), x) = 0 => WaremaNone(w, a, q, x)
           /\ Warema!Find(SubSeq(w, a + 1, q), x) # 0 =>
                WaremaFirst(w, a, a + Warema!Find(SubSeq(w, a + 1, q), x), x)
<1> DEFINE s == SubSeq(w, a + 1, q)
           f == Warema!Find(s, x)
<1>1. a \in Nat /\ q \in Nat /\ a <= q /\ q <= Len(w) /\ Len(w) \in Nat
  OBVIOUS
<1>2. s \in Seq(WaremaMark) /\ Len(s) = q - a /\ \A i \in 1..(q - a) : s[i] = w[a + i]
  BY PartOfSequence
<1> HIDE DEF s
<1>3. /\ f \in 0..(q - a)
      /\ f = 0 => \A i \in 1..(q - a) : s[i].mark # x
      /\ f # 0 => /\ s[f].mark = x
                  /\ \A i \in 1..(q - a) : i < f => s[i].mark # x
  BY <1>2, WaremaFindIn
<1> HIDE DEF f
<1>4. \A i \in (a + 1)..q : i - a \in 1..(q - a) /\ a + (i - a) = i
  BY <1>1
<1>5. \A i \in (a + 1)..q : s[i - a] = w[i]
  BY <1>2, <1>4
<1>6. ASSUME f = 0 PROVE WaremaNone(w, a, q, x)
  <2>1. ASSUME NEW i \in (a + 1)..q PROVE w[i].mark # x
    BY <1>3, <1>4, <1>5, <1>6
  <2> QED
    BY <2>1 DEF WaremaNone
<1>7. ASSUME f # 0 PROVE WaremaFirst(w, a, a + f, x)
  <2> DEFINE e == a + f
  <2>1. f \in 1..(q - a) /\ e \in (a + 1)..q /\ e > a
    BY <1>1, <1>3, <1>7
  <2>2. w[e].mark = x
    <3>1. s[f] = w[a + f]
      BY <1>2, <2>1
    <3> QED
      BY <1>3, <1>7, <3>1
  <2>3. \A i \in 1..(q - a) : i < f => s[i].mark # x
    BY <1>3, <1>7
  <2>4. \A i \in (a + 1)..(e - 1) : i \in (a + 1)..q /\ i - a < f
    BY <1>1, <2>1
  <2> HIDE DEF e
  <2>5. ASSUME NEW i \in (a + 1)..(e - 1) PROVE w[i].mark # x
    <3>1. i \in (a + 1)..q /\ i - a < f
      BY <2>4
    <3>2. s[i - a].mark # x
      BY <1>4, <2>3, <3>1
    <3> QED
      BY <1>5, <3>1, <3>2
  <2>6. WaremaFirst(w, a, e, x)
    BY <2>1, <2>2, <2>5 DEF WaremaFirst
  <2> QED
    BY <2>6 DEF e
<1> QED
  BY <1>3, <1>6, <1>7 DEF f, s

(* What the reader takes for a frame: the marks from the first brace that    *)
(* opens to the one that closes, and nothing when none opens.               *)
LEMMA WaremaCandidate ==
    ASSUME NEW w \in Seq(WaremaMark),
           NEW a \in 0..Len(w), NEW q \in a..Len(w), NEW e \in 1..q,
           e = a + Warema!Find(SubSeq(w, a + 1, q), "close"),
           WaremaFirst(w, a, e, "close")
    PROVE  \/ /\ WaremaNone(w, a, e, "open")
              /\ Warema!Candidate(SubSeq(w, a + 1, q)) = <<>>
           \/ \E s \in 1..(e - 1) :
                /\ WaremaFirst(w, a, s, "open")
                /\ Warema!Candidate(SubSeq(w, a + 1, q)) = SubSeq(w, s, e)
<1> DEFINE marks == SubSeq(w, a + 1, q)
           closed == SubSeq(w, a + 1, e)
           o == Warema!Find(closed, "open")
           c == Warema!Candidate(marks)
<1>1. /\ a \in Nat /\ q \in Nat /\ e \in Nat /\ a < e /\ e <= q /\ q <= Len(w)
      /\ Len(w) \in Nat /\ a \in 0..Len(w) /\ e \in a..Len(w) /\ e \in 1..Len(w)
  BY DEF WaremaFirst
<1>2. w[e].mark = "close"
  BY DEF WaremaFirst
<1>5. SubSeq(marks, 1, Warema!Find(marks, "close")) = closed
  <2> DEFINE d == Warema!Find(marks, "close")
  <2>1. d \in 0..(q - a) /\ e = a + d
    BY WaremaFind
  <2>2. /\ 0 \in 0..(q - a) /\ d \in 0..(q - a)
        /\ 0 + 1 = 1 /\ a + 0 + 1 = a + 1 /\ a + d = e
    BY <1>1, <2>1
  <2> HIDE DEF d
  <2>3. SubSeq(SubSeq(w, a + 1, q), 0 + 1, d) = SubSeq(w, a + 0 + 1, a + d)
    BY <2>2, PartOfPart
  <2> QED
    BY <2>2, <2>3 DEF d
<1>6. c = SubSeq(closed, o, IF o = 0 THEN -1 ELSE Len(closed))
  BY <1>5 DEF Warema!Candidate
<1>7. closed \in Seq(WaremaMark) /\ Len(closed) = e - a
  BY <1>1, PartOfSequence
<1>8. /\ o \in 0..(e - a)
      /\ o = 0 => WaremaNone(w, a, e, "open")
      /\ o # 0 => WaremaFirst(w, a, a + o, "open")
  BY <1>1, WaremaFind
<1> HIDE DEF c, o, closed
<1>9. CASE o = 0
  <2>1. SubSeq(closed, 0, -1) = <<>>
    BY <1>7
  <2>2. c = <<>>
    BY <1>6, <1>9, <2>1
  <2> QED
    BY <1>8, <1>9, <2>2 DEF c
<1>10. CASE o # 0
  <2> DEFINE s == a + o
  <2>1. w[s].mark = "open" /\ s # e
    BY <1>2, <1>8, <1>10 DEF WaremaFirst
  <2>2. s \in 1..(e - 1)
    BY <1>1, <1>8, <1>10, <2>1
  <2>3. c = SubSeq(closed, o, e - a)
    BY <1>6, <1>7, <1>10
  <2>4. c = SubSeq(w, s, e)
    <3> DEFINE x == o - 1
               y == e - a
    <3>1. x \in 0..y /\ y \in x..y /\ x + 1 = o /\ a + x + 1 = s /\ a + y = e
      BY <1>1, <1>8, <1>10
    <3>2. \A k \in 0..y : \A d \in k..y :
            SubSeq(SubSeq(w, a + 1, e), k + 1, d) = SubSeq(w, a + k + 1, a + d)
      BY <1>1, PartOfPart
    <3> HIDE DEF x, y, s
    <3>3. SubSeq(SubSeq(w, a + 1, e), x + 1, y) = SubSeq(w, a + x + 1, a + y)
      BY <3>1, <3>2, Zenon
    <3> QED
      BY <2>3, <3>1, <3>3 DEF closed, y
  <2>5. WaremaFirst(w, a, s, "open")
    BY <1>8, <1>10
  <2> QED
    BY <2>2, <2>4, <2>5 DEF c
<1> QED
  BY <1>9, <1>10

WaremaSpan == [from : Nat, to : Nat]
WaremaResult == [frames : Seq(WaremaSpan), rest : Seq(WaremaMark), raises : BOOLEAN]

(* What the loop of feed finds when p + k marks of the wire are behind it:    *)
(* no brace that closes; one that closes and none that opens before it; a     *)
(* frame that can be decoded; or one that cannot.                           *)
WaremaAtEnd(f, w, p, q, k) ==
    /\ WaremaNone(w, p + k, q, "close")
    /\ f[k] = [frames |-> <<>>, rest |-> SubSeq(w, p + k + 1, q), raises |-> FALSE]
WaremaAfter(f, w, p, q, k, e) ==
    \/ /\ WaremaNone(w, p + k, e, "open")
       /\ f[k] = [f[e - p] EXCEPT !.frames = <<>> \o @]
    \/ \E s \in 1..(e - 1) :
         /\ WaremaFirst(w, p + k, s, "open") /\ Warema!Decodes(SubSeq(w, s, e))
         /\ f[k] = [f[e - p] EXCEPT !.frames = <<[from |-> s, to |-> e]>> \o @]
    \/ \E s \in 1..(e - 1) :
         /\ WaremaFirst(w, p + k, s, "open") /\ ~Warema!Decodes(SubSeq(w, s, e))
         /\ f[k] = [frames |-> <<>>, rest |-> SubSeq(w, e + 1, q), raises |-> TRUE]
WaremaStep(f, w, p, q, k) ==
    \/ WaremaAtEnd(f, w, p, q, k)
    \/ \E e \in 1..q : /\ WaremaFirst(w, p + k, e, "close")
                       /\ WaremaAfter(f, w, p, q, k, e)

(* The places of a feed's buffer are places of the wire.                    *)
LEMMA WaremaPlaces ==
    ASSUME NEW w \in Seq(WaremaMark), NEW p \in 0..Len(w), NEW q \in p..Len(w),
           NEW k \in 0..(q - p)
    PROVE  /\ p + k \in 0..Len(w) /\ q \in (p + k)..Len(w)
           /\ SubSeq(SubSeq(w, p + 1, q), k + 1, q - p) = SubSeq(w, p + k + 1, q)
           /\ SubSeq(w, p + k + 1, q) \in Seq(WaremaMark)
           /\ Len(SubSeq(w, p + k + 1, q)) = q - (p + k)
<1>1. p + k \in 0..Len(w) /\ q \in (p + k)..Len(w)
  OBVIOUS
<1>2. SubSeq(SubSeq(w, p + 1, q), k + 1, q - p) = SubSeq(w, p + k + 1, q)
  <2> DEFINE y == q - p
  <2>1. \A c \in 0..y : \A d \in c..y :
          SubSeq(SubSeq(w, p + 1, q), c + 1, d) = SubSeq(w, p + c + 1, p + d)
    BY PartOfPart
  <2>2. k \in 0..y /\ y \in k..y /\ p + y = q
    OBVIOUS
  <2> HIDE DEF y
  <2>3. SubSeq(SubSeq(w, p + 1, q), k + 1, y) = SubSeq(w, p + k + 1, p + y)
    BY <2>1, <2>2, Zenon
  <2> QED
    BY <2>2, <2>3 DEF y
<1>3. /\ SubSeq(w, p + k + 1, q) \in Seq(WaremaMark)
      /\ Len(SubSeq(w, p + k + 1, q)) = q - (p + k)
  <2> DEFINE a == p + k
  <2>1. a \in 0..Len(w) /\ q \in a..Len(w)
    BY <1>1
  <2> HIDE DEF a
  <2>2. SubSeq(w, a + 1, q) \in Seq(WaremaMark) /\ Len(SubSeq(w, a + 1, q)) = q - a
    BY <2>1, PartOfSequence
  <2> QED
    BY <2>2 DEF a
<1> QED
  BY <1>1, <1>2, <1>3

(* What the reader sees with the marks up to a deleted.                      *)
WaremaSeen(w, q, a, s) ==
    LET d == Warema!Find(s, "close")
        c == Warema!Candidate(s)
        e == a + d
    IN  /\ d \in 0..(q - a)
        /\ d = 0 => WaremaNone(w, a, q, "close")
        /\ d # 0 =>
             /\ e \in 1..q /\ WaremaFirst(w, a, e, "close")
             /\ SubSeq(s, d + 1, Len(s)) = SubSeq(w, e + 1, q)
             /\ SubSeq(w, e + 1, q) \in Seq(WaremaMark)
             /\ c = <<>> => WaremaNone(w, a, e, "open")
             /\ c # <<>> => \E i \in 1..(e - 1) :
                  /\ WaremaFirst(w, a, i, "open") /\ c = SubSeq(w, i, e)
                  /\ c[1].at = i /\ c[Len(c)].at = e

LEMMA WaremaSees ==
    ASSUME NEW w, WaremaWire(w), NEW p \in 0..Len(w),
           NEW q \in p..Len(w), NEW k \in 0..(q - p)
    PROVE  WaremaSeen(w, q, p + k, SubSeq(w, p + k + 1, q))
<1> DEFINE a == p + k
           s == SubSeq(w, a + 1, q)
           d == Warema!Find(s, "close")
           c == Warema!Candidate(s)
           e == a + d
<1>0. w \in Seq(WaremaMark) /\ \A i \in 1..Len(w) : w[i].at = i
  BY DEF WaremaWire
<1>1. a \in 0..Len(w) /\ q \in a..Len(w)
  BY <1>0
<1> HIDE DEF a
<1>2. s = SubSeq(w, a + 1, q)
  OBVIOUS
<1> HIDE DEF s
<1>3. /\ d \in 0..(q - a)
      /\ d = 0 => WaremaNone(w, a, q, "close")
      /\ d # 0 => WaremaFirst(w, a, e, "close")
  BY <1>0, <1>1, <1>2, WaremaFind
<1>4. ASSUME d # 0
      PROVE  /\ e \in 1..q /\ WaremaFirst(w, a, e, "close")
             /\ SubSeq(s, d + 1, Len(s)) = SubSeq(w, e + 1, q)
             /\ SubSeq(w, e + 1, q) \in Seq(WaremaMark)
             /\ c = <<>> => WaremaNone(w, a, e, "open")
             /\ c # <<>> => \E i \in 1..(e - 1) :
                  /\ WaremaFirst(w, a, i, "open") /\ c = SubSeq(w, i, e)
                  /\ c[1].at = i /\ c[Len(c)].at = e
  <2>1. e \in 1..q /\ e = a + d /\ WaremaFirst(w, a, e, "close")
    BY <1>0, <1>1, <1>3, <1>4
  <2>2. \/ WaremaNone(w, a, e, "open") /\ c = <<>>
        \/ \E i \in 1..(e - 1) : WaremaFirst(w, a, i, "open") /\ c = SubSeq(w, i, e)
    <3>1. \/ /\ WaremaNone(w, a, e, "open")
             /\ Warema!Candidate(SubSeq(w, a + 1, q)) = <<>>
          \/ \E i \in 1..(e - 1) :
               /\ WaremaFirst(w, a, i, "open")
               /\ Warema!Candidate(SubSeq(w, a + 1, q)) = SubSeq(w, i, e)
      <4>1. e = a + Warema!Find(SubSeq(w, a + 1, q), "close")
        BY <1>2
      <4> HIDE DEF e
      <4> QED
        BY <1>0, <1>1, <2>1, <4>1, WaremaCandidate
    <3> QED
      BY <1>2, <3>1
  <2>3. SubSeq(s, d + 1, Len(s)) = SubSeq(w, e + 1, q) /\ SubSeq(w, e + 1, q) \in Seq(WaremaMark)
    <3>1. /\ a + d \in 0..Len(w) /\ q \in (a + d)..Len(w)
          /\ SubSeq(SubSeq(w, a + 1, q), d + 1, q - a) = SubSeq(w, a + d + 1, q)
          /\ SubSeq(w, a + d + 1, q) \in Seq(WaremaMark)
      <4> HIDE DEF d
      <4> QED
        BY <1>0, <1>1, <1>3, WaremaPlaces
    <3>2. Len(s) = q - a
      BY <1>0, <1>1, <1>2, PartOfSequence
    <3> QED
      BY <1>2, <3>1, <3>2
  <2>4. e \in 1..Len(w)
    BY <1>0, <1>1, <2>1
  <2> HIDE DEF e, c, d
  <2>5. ASSUME NEW i \in 1..(e - 1), c = SubSeq(w, i, e)
        PROVE  c # <<>> /\ c[1].at = i /\ c[Len(c)].at = e
    <3> DEFINE b == i - 1
               n == e - b
    <3>1. b \in 0..Len(w) /\ e \in b..Len(w) /\ b + 1 = i
          /\ 1 \in 1..n /\ n \in 1..n /\ b + n = e /\ n # 0
      BY <1>0, <2>4
    <3>2. c = SubSeq(w, b + 1, e)
      BY <2>5, <3>1
    <3> HIDE DEF b
    <3>3. Len(c) = n /\ \A j \in 1..n : c[j] = w[b + j]
      BY <1>0, <3>1, <3>2, PartOfSequence
    <3> HIDE DEF n
    <3>4. c[1] = w[i] /\ c[n] = w[e]
      BY <3>1, <3>3
    <3>5. c # <<>>
      <4>1. Len(<<>>) = 0
        OBVIOUS
      <4> QED
        BY <3>1, <3>3, <4>1, Zenon
    <3>6. i \in 1..Len(w)
      BY <1>0, <2>4
    <3> QED
      BY <1>0, <2>4, <3>3, <3>4, <3>5, <3>6
  <2> QED
    BY <2>1, <2>2, <2>3, <2>5, Zenon
<1> QED
  BY <1>3, <1>4, Zenon DEF a, s, WaremaSeen

(* The loop of feed over the marks of the wire from the one behind p to q.    *)
LEMMA WaremaLoop ==
    ASSUME NEW w, WaremaWire(w), NEW p \in 0..Len(w),
           NEW q \in p..Len(w)
    PROVE  \E f : /\ Warema!Loop(SubSeq(w, p + 1, q)) = f[0]
                  /\ \A k \in 0..(q - p) : WaremaStep(f, w, p, q, k)
<1> DEFINE s == SubSeq(w, p + 1, q)
           n == Len(s)
           marks(k) == SubSeq(s, k + 1, n)
           end(k) == Warema!Find(marks(k), "close")
           c(k) == Warema!Candidate(marks(k))
           e(k) == p + k + end(k)
           stops(k) == end(k) = 0 \/ (c(k) # <<>> /\ ~Warema!Decodes(c(k)))
           found(k) == IF c(k) = <<>> THEN <<>>
                       ELSE <<[from |-> c(k)[1].at, to |-> c(k)[Len(c(k))].at]>>
           Body(f, k) ==
             IF end(k) = 0
             THEN [frames |-> <<>>, rest |-> marks(k), raises |-> FALSE]
             ELSE IF c(k) # <<>> /\ ~Warema!Decodes(c(k))
             THEN [frames |-> <<>>, raises |-> TRUE,
                   rest |-> SubSeq(marks(k), end(k) + 1, Len(marks(k)))]
             ELSE [f[k + end(k)] EXCEPT !.frames = found(k) \o @]
           f == CHOOSE g : g = [k \in 0..n |-> Body(g, k)]
<1>0. w \in Seq(WaremaMark)
  BY DEF WaremaWire
<1>1. Warema!Loop(s) = f[0]
  BY Zenon DEF Warema!Loop
<1>2. n = q - p /\ n \in Nat
  BY <1>0, PartOfSequence
<1>3. \A k \in 0..n : marks(k) = SubSeq(w, p + k + 1, q) /\ marks(k) \in Seq(WaremaMark)
  BY <1>0, <1>2, WaremaPlaces
<1> HIDE DEF n, marks
<1>4. ASSUME NEW k \in 0..n
      PROVE  /\ end(k) \in 0..(q - (p + k))
             /\ end(k) = 0 => WaremaNone(w, p + k, q, "close")
             /\ end(k) # 0 =>
                  /\ e(k) \in 1..q
                  /\ WaremaFirst(w, p + k, e(k), "close")
                  /\ SubSeq(marks(k), end(k) + 1, Len(marks(k))) = SubSeq(w, e(k) + 1, q)
                  /\ SubSeq(w, e(k) + 1, q) \in Seq(WaremaMark)
                  /\ c(k) = <<>> => WaremaNone(w, p + k, e(k), "open")
                  /\ c(k) # <<>> => \E i \in 1..(e(k) - 1) :
                       /\ WaremaFirst(w, p + k, i, "open") /\ c(k) = SubSeq(w, i, e(k))
                       /\ c(k)[1].at = i /\ c(k)[Len(c(k))].at = e(k)
  <2>1. k \in 0..(q - p) /\ marks(k) = SubSeq(w, p + k + 1, q)
    BY <1>2, <1>3
  <2>2. WaremaSeen(w, q, p + k, marks(k))
    BY <2>1, WaremaSees
  <2> QED
    BY <2>2, Zenon DEF WaremaSeen
<1>5. \A k \in 0..n : e(k) = p + k + end(k)
  OBVIOUS
<1> HIDE DEF e, c
<1> HIDE DEF end
<1>6. ASSUME NEW k \in 0..n
      PROVE  /\ k + end(k) \in 0..n /\ k + end(k) = e(k) - p
             /\ end(k) # 0 => k + end(k) \in (k + 1)..n
  <2>1. end(k) \in 0..(q - (p + k)) /\ e(k) = p + k + end(k)
    BY <1>4, <1>5
  <2> QED
    BY <1>2, <2>1
<1>7. \E g : g = [k \in 0..n |-> Body(g, k)]
  <2> DEFINE to == [k \in 0..n |-> IF stops(k) THEN 0 ELSE k + end(k)]
             b == [k \in 0..n |-> IF end(k) = 0
                    THEN [frames |-> <<>>, rest |-> marks(k), raises |-> FALSE]
                    ELSE [frames |-> <<>>, raises |-> TRUE,
                          rest |-> SubSeq(marks(k), end(k) + 1, Len(marks(k)))]]
             F == [x \in (0..n) \X WaremaResult |->
                    IF stops(x[1]) THEN x[2]
                    ELSE [x[2] EXCEPT !.frames = found(x[1]) \o @]]
  <2>1. to \in [0..n -> Nat]
    <3>1. ASSUME NEW k \in 0..n PROVE (IF stops(k) THEN 0 ELSE k + end(k)) \in Nat
      <4>1. k + end(k) \in Nat
        BY <1>2, <1>6
      <4> QED
        BY <4>1
    <3> HIDE DEF stops
    <3> QED
      BY <3>1
  <2>2. b \in [0..n -> WaremaResult]
    <3>1. ASSUME NEW k \in 0..n PROVE b[k] \in WaremaResult
      <4>1. <<>> \in Seq(WaremaSpan) /\ marks(k) \in Seq(WaremaMark)
        BY <1>3
      <4>2. end(k) # 0 => SubSeq(marks(k), end(k) + 1, Len(marks(k))) \in Seq(WaremaMark)
        BY <1>4
      <4> QED
        BY <4>1, <4>2 DEF WaremaResult
    <3> QED
      BY <3>1
  <2>3. F \in [(0..n) \X WaremaResult -> WaremaResult]
    <3>1. ASSUME NEW k \in 0..n, NEW r \in WaremaResult, ~stops(k)
          PROVE  [r EXCEPT !.frames = found(k) \o @] \in WaremaResult
      <4>1. found(k) \in Seq(WaremaSpan)
        <5>1. end(k) # 0
          BY <3>1
        <5>2. c(k) # <<>> => c(k)[1].at \in Nat /\ c(k)[Len(c(k))].at \in Nat
          <6>1. e(k) \in 1..q
            BY <1>4, <5>1
          <6>2. e(k) \in Nat
            BY <6>1
          <6>3. ASSUME c(k) # <<>>
                PROVE  c(k)[1].at \in Nat /\ c(k)[Len(c(k))].at \in Nat
            <7>1. PICK i \in 1..(e(k) - 1) : c(k)[1].at = i /\ c(k)[Len(c(k))].at = e(k)
              BY <1>4, <5>1, <6>3
            <7>2. i \in Nat
              BY <6>2
            <7> QED
              BY <6>2, <7>1, <7>2
          <6> QED
            BY <6>3
        <5> DEFINE x == [from |-> c(k)[1].at, to |-> c(k)[Len(c(k))].at]
        <5>3. c(k) # <<>> => x \in WaremaSpan
          BY <5>2 DEF WaremaSpan
        <5>4. found(k) = IF c(k) = <<>> THEN <<>> ELSE <<x>>
          BY Zenon
        <5> HIDE DEF x, found
        <5>5. c(k) # <<>> => <<x>> \in Seq(WaremaSpan)
          BY <5>3
        <5> QED
          BY <5>4, <5>5
      <4> HIDE DEF found
      <4>2. r.frames \in Seq(WaremaSpan) /\ r.rest \in Seq(WaremaMark) /\ r.raises \in BOOLEAN
        BY DEF WaremaResult
      <4>3. found(k) \o r.frames \in Seq(WaremaSpan)
        BY <4>1, <4>2
      <4>4. r = [frames |-> r.frames, rest |-> r.rest, raises |-> r.raises]
        BY DEF WaremaResult
      <4> DEFINE x == found(k) \o r.frames
      <4>5. [r EXCEPT !.frames = found(k) \o @] = [r EXCEPT !.frames = x]
        BY Zenon
      <4> HIDE DEF x
      <4>6. [r EXCEPT !.frames = x] = [frames |-> x, rest |-> r.rest, raises |-> r.raises]
        BY <4>4
      <4>7. [r EXCEPT !.frames = x] \in WaremaResult
        <5>1. x \in Seq(WaremaSpan)
          BY <4>3 DEF x
        <5> QED
          BY <4>2, <4>6, <5>1 DEF WaremaResult
      <4> QED
        BY <4>5, <4>7
    <3>2. ASSUME NEW x \in (0..n) \X WaremaResult PROVE F[x] \in WaremaResult
      <4>1. x[1] \in 0..n /\ x[2] \in WaremaResult
        OBVIOUS
      <4> HIDE DEF stops, found
      <4>2. F[x] = IF stops(x[1]) THEN x[2] ELSE [x[2] EXCEPT !.frames = found(x[1]) \o @]
        BY Zenon
      <4> QED
        BY <3>1, <4>1, <4>2, Zenon
    <3> HIDE DEF stops, found
    <3> QED
      BY <3>2
  <2>4. PICK h \in [0..n -> WaremaResult] :
          h = [k \in 0..n |-> IF to[k] \in (k + 1)..n THEN F[<<k, h[to[k]]>>] ELSE b[k]]
    <3> HIDE DEF to, b, F
    <3>1. PICK h \in [0..n -> WaremaResult] : IsDescent(h, F, to, b, n)
      BY <1>2, <2>1, <2>2, <2>3, DownwardExists
    <3>2. h = [k \in 0..n |-> IF to[k] \in (k + 1)..n THEN F[<<k, h[to[k]]>>] ELSE b[k]]
      BY <3>1, Zenon DEF IsDescent
    <3> QED
      BY <3>2
  <2>5. ASSUME NEW k \in 0..n
        PROVE  (IF to[k] \in (k + 1)..n THEN F[<<k, h[to[k]]>>] ELSE b[k]) = Body(h, k)
    <3>1. CASE stops(k)
      <4>1. ~(to[k] \in (k + 1)..n)
        BY <1>2, <3>1
      <4>2. b[k] = Body(h, k)
        BY <3>1
      <4> QED
        BY <4>1, <4>2
    <3>2. CASE ~stops(k)
      <4>1. to[k] = k + end(k) /\ to[k] \in (k + 1)..n /\ to[k] \in 0..n
        <5>1. end(k) # 0
          BY <3>2
        <5>2. to[k] = k + end(k)
          BY <3>2
        <5> QED
          BY <1>6, <5>1, <5>2
      <4>2. <<k, h[to[k]]>> \in (0..n) \X WaremaResult
        BY <4>1
      <4>3. F[<<k, h[to[k]]>>] = [h[to[k]] EXCEPT !.frames = found(k) \o @]
        <5> DEFINE x == <<k, h[to[k]]>>
        <5>1. x \in (0..n) \X WaremaResult /\ x[1] = k /\ x[2] = h[to[k]]
          BY <4>2
        <5> HIDE DEF x, found, to
        <5>2. F[x] = IF stops(x[1]) THEN x[2] ELSE [x[2] EXCEPT !.frames = found(x[1]) \o @]
          BY <5>1, Zenon
        <5>3. F[x] = [h[to[k]] EXCEPT !.frames = found(k) \o @]
          <6> HIDE DEF stops, F
          <6> QED
            BY <3>2, <5>1, <5>2, Zenon
        <5> QED
          BY <5>3 DEF x
      <4>4. Body(h, k) = [h[k + end(k)] EXCEPT !.frames = found(k) \o @]
        <5>1. end(k) # 0 /\ ~(c(k) # <<>> /\ ~Warema!Decodes(c(k)))
          BY <3>2
        <5> HIDE DEF found
        <5> QED
          BY <5>1, Zenon
      <4> HIDE DEF Body, F, to, b, found
      <4> QED
        BY <4>1, <4>3, <4>4, Zenon
    <3> QED
      BY <3>1, <3>2
  <2> HIDE DEF Body, to, F, b
  <2>6. h = [k \in 0..n |-> Body(h, k)]
    BY <2>4, <2>5, Zenon
  <2> QED
    BY <2>6
<1>8. f = [k \in 0..n |-> Body(f, k)]
  <2> HIDE DEF Body
  <2> QED
    BY <1>7, Zenon
<1> HIDE DEF f
<1>9. ASSUME NEW k \in 0..n PROVE WaremaStep(f, w, p, q, k)
  <2>1. f[k] = Body(f, k)
    <3> HIDE DEF Body
    <3> QED
      BY <1>8, Zenon
  <2>2. CASE end(k) = 0
    <3>1. f[k] = [frames |-> <<>>, rest |-> marks(k), raises |-> FALSE]
      BY <2>1, <2>2, Zenon
    <3>2. marks(k) = SubSeq(w, p + k + 1, q)
      BY <1>3
    <3> QED
      BY <1>4, <2>2, <3>1, <3>2, Zenon DEF WaremaStep, WaremaAtEnd
  <2>3. CASE end(k) # 0
    <3>1. e(k) \in 1..q /\ WaremaFirst(w, p + k, e(k), "close")
      BY <1>4, <2>3
    <3>2. WaremaAfter(f, w, p, q, k, e(k))
      <4>0. k + end(k) = e(k) - p
        BY <1>6
      <4>1. CASE c(k) = <<>>
        <5>1. WaremaNone(w, p + k, e(k), "open")
          BY <1>4, <2>3, <4>1
        <5>2. f[k] = [f[k + end(k)] EXCEPT !.frames = <<>> \o @]
          BY <2>1, <2>3, <4>1, Zenon
        <5> QED
          BY <4>0, <5>1, <5>2, Zenon DEF WaremaAfter
      <4>2. CASE c(k) # <<>>
        <5>0. SubSeq(marks(k), end(k) + 1, Len(marks(k))) = SubSeq(w, e(k) + 1, q)
          BY <1>4, <2>3
        <5>1. PICK i \in 1..(e(k) - 1) :
                /\ WaremaFirst(w, p + k, i, "open") /\ c(k) = SubSeq(w, i, e(k))
                /\ c(k)[1].at = i /\ c(k)[Len(c(k))].at = e(k)
          BY <1>4, <2>3, <4>2
        <5>2. CASE Warema!Decodes(c(k))
          <6>1. f[k] = [f[k + end(k)] EXCEPT !.frames =
                          <<[from |-> c(k)[1].at, to |-> c(k)[Len(c(k))].at]>> \o @]
            BY <2>1, <2>3, <4>2, <5>2, Zenon
          <6>2. f[k] = [f[e(k) - p] EXCEPT !.frames = <<[from |-> i, to |-> e(k)]>> \o @]
            BY <4>0, <5>1, <6>1, Zenon
          <6>3. Warema!Decodes(SubSeq(w, i, e(k)))
            BY <5>1, <5>2, Zenon
          <6> QED
            BY <5>1, <6>2, <6>3, Zenon DEF WaremaAfter
        <5>3. CASE ~Warema!Decodes(c(k))
          <6>1. f[k] = [frames |-> <<>>, raises |-> TRUE,
                        rest |-> SubSeq(marks(k), end(k) + 1, Len(marks(k)))]
            BY <2>1, <2>3, <4>2, <5>3, Zenon
          <6>2. f[k] = [frames |-> <<>>, rest |-> SubSeq(w, e(k) + 1, q), raises |-> TRUE]
            BY <5>0, <6>1
          <6>3. ~Warema!Decodes(SubSeq(w, i, e(k)))
            BY <5>1, <5>3, Zenon
          <6> QED
            BY <5>1, <6>2, <6>3, Zenon DEF WaremaAfter
        <5> QED
          BY <5>2, <5>3
      <4> QED
        BY <4>1, <4>2
    <3> QED
      BY <3>1, <3>2, Zenon DEF WaremaStep
  <2> QED
    BY <2>2, <2>3
<1>10. \A k \in 0..(q - p) : WaremaStep(f, w, p, q, k)
  BY <1>2, <1>9, Zenon
<1> QED
  BY <1>1, <1>10, Zenon

(* Behind a sequence come the places of the one put to it.                  *)
LEMMA PlacesOfBoth ==
    \A S : \A a, b \in Seq(S) :
       /\ a \o b \in Seq(S) /\ Len(a \o b) = Len(a) + Len(b)
       /\ \A i \in 1..Len(a) : (a \o b)[i] = a[i]
       /\ \A i \in 1..Len(b) : (a \o b)[Len(a) + i] = b[i]
<1> SUFFICES ASSUME NEW S, NEW a \in Seq(S), NEW b \in Seq(S)
             PROVE  /\ a \o b \in Seq(S) /\ Len(a \o b) = Len(a) + Len(b)
                    /\ \A i \in 1..Len(a) : (a \o b)[i] = a[i]
                    /\ \A i \in 1..Len(b) : (a \o b)[Len(a) + i] = b[i]
  OBVIOUS
<1>1. /\ a \o b \in Seq(S) /\ Len(a \o b) = Len(a) + Len(b)
      /\ \A i \in 1..(Len(a) + Len(b)) :
           (a \o b)[i] = IF i <= Len(a) THEN a[i] ELSE b[i - Len(a)]
  BY ConcatProperties
<1>2. Len(a) \in Nat /\ Len(b) \in Nat
  OBVIOUS
<1>3. \A i \in 1..Len(a) : i \in 1..(Len(a) + Len(b)) /\ i <= Len(a)
  BY <1>2
<1>4. \A i \in 1..Len(b) : /\ Len(a) + i \in 1..(Len(a) + Len(b))
                           /\ ~(Len(a) + i <= Len(a)) /\ (Len(a) + i) - Len(a) = i
  BY <1>2
<1> QED
  BY <1>1, <1>3, <1>4, Zenon

(* A frame on the wire, behind no brace that is still open but those of G.    *)
WaremaFrame(w, G, s, e) ==
    /\ s \in 1..Len(w) /\ e \in 1..Len(w)
    /\ s < e /\ w[s].mark = "open" /\ w[e].mark = "close"
    /\ \A i \in s..(e - 1) : w[i].mark # "close"
    /\ \A o \in 1..(s - 1) :
         w[o].mark = "open" /\ o \notin G => \E i \in o..s : w[i].mark = "close"

LEMMA WaremaFrameStays ==
    ASSUME NEW w, NEW G, NEW H, G \subseteq H, NEW s, NEW e, WaremaFrame(w, G, s, e)
    PROVE  WaremaFrame(w, H, s, e)
  BY DEF WaremaFrame

(* Of the frames behind a place the first is the one that the next brace     *)
(* ends, if one opens before it; the others stand behind that brace.         *)
LEMMA WaremaNextFrame ==
    ASSUME NEW w \in Seq(WaremaMark), NEW a \in Nat, NEW e \in 1..Len(w),
           WaremaFirst(w, a, e, "close"), NEW s, NEW f, a < s,
           WaremaFrame(w, 1..a, s, f)
    PROVE  \/ f = e /\ s < e /\ WaremaFirst(w, a, s, "open")
           \/ e < s /\ WaremaFrame(w, 1..e, s, f)
<1>1. /\ a < e /\ w[e].mark = "close" /\ Len(w) \in Nat
      /\ \A i \in (a + 1)..(e - 1) : w[i].mark # "close"
  BY DEF WaremaFirst
<1>2. /\ s \in 1..Len(w) /\ f \in 1..Len(w) /\ s < f
      /\ w[s].mark = "open" /\ w[f].mark = "close"
      /\ \A i \in s..(f - 1) : w[i].mark # "close"
      /\ \A o \in 1..(s - 1) :
           w[o].mark = "open" /\ o \notin 1..a => \E i \in o..s : w[i].mark = "close"
  BY DEF WaremaFrame
<1>3. s # e
  BY <1>1, <1>2
<1>4. CASE e < s
  <2>1. \A o \in 1..(s - 1) :
           w[o].mark = "open" /\ o \notin 1..e => \E i \in o..s : w[i].mark = "close"
    <3>1. \A o \in 1..(s - 1) : o \notin 1..e => o \notin 1..a
      BY <1>1
    <3> QED
      BY <1>2, <3>1
  <2> QED
    BY <1>2, <1>4, <2>1 DEF WaremaFrame
<1>5. CASE s < e
  <2>1. f = e
    <3>1. ~(f < e)
      <4> SUFFICES ASSUME f < e PROVE FALSE
        OBVIOUS
      <4>1. f \in (a + 1)..(e - 1)
        BY <1>1, <1>2
      <4> QED
        BY <1>1, <1>2, <4>1
    <3>2. ~(e < f)
      <4> SUFFICES ASSUME e < f PROVE FALSE
        OBVIOUS
      <4>1. e \in s..(f - 1)
        BY <1>2, <1>5
      <4> QED
        BY <1>1, <1>2, <4>1
    <3> QED
      BY <1>2, <3>1, <3>2
  <2>2. ASSUME NEW o \in (a + 1)..(s - 1), w[o].mark = "open" PROVE FALSE
    <3>1. o \in 1..(s - 1) /\ o \notin 1..a
      BY <1>2
    <3>2. PICK i \in o..s : w[i].mark = "close"
      BY <1>2, <2>2, <3>1
    <3>3. i \in (a + 1)..(e - 1)
      BY <1>1, <1>2, <1>5, <3>2
    <3> QED
      BY <1>1, <3>2, <3>3
  <2> QED
    BY <1>2, <1>5, <2>1, <2>2 DEF WaremaFirst
<1> QED
  BY <1>1, <1>2, <1>3, <1>4, <1>5

LEMMA WaremaFirstFrame ==
    ASSUME NEW w \in Seq(WaremaMark), NEW a \in Nat, NEW e \in 1..Len(w),
           WaremaFirst(w, a, e, "close"), NEW s \in 1..(e - 1),
           WaremaFirst(w, a, s, "open")
    PROVE  a < s /\ WaremaFrame(w, 1..a, s, e)
<1>1. /\ a < e /\ w[e].mark = "close" /\ Len(w) \in Nat
      /\ \A i \in (a + 1)..(e - 1) : w[i].mark # "close"
      /\ a < s /\ w[s].mark = "open"
      /\ \A i \in (a + 1)..(s - 1) : w[i].mark # "open"
  BY DEF WaremaFirst
<1>2. s \in 1..Len(w) /\ s < e /\ \A i \in s..(e - 1) : i \in (a + 1)..(e - 1)
  BY <1>1
<1>3. \A o \in 1..(s - 1) : o \notin 1..a => o \in (a + 1)..(s - 1)
  BY <1>1
<1> QED
  BY <1>1, <1>2, <1>3 DEF WaremaFrame

LEMMA WaremaLaterFrame ==
    ASSUME NEW w \in Seq(WaremaMark), NEW a \in Nat, NEW e \in 1..Len(w),
           WaremaFirst(w, a, e, "close"), NEW s, NEW f, e < s,
           WaremaFrame(w, 1..e, s, f)
    PROVE  a < s /\ WaremaFrame(w, 1..a, s, f)
<1>1. a < e /\ w[e].mark = "close" /\ Len(w) \in Nat
  BY DEF WaremaFirst
<1>2. /\ s \in 1..Len(w) /\ f \in 1..Len(w) /\ s < f
      /\ w[s].mark = "open" /\ w[f].mark = "close"
      /\ \A i \in s..(f - 1) : w[i].mark # "close"
      /\ \A o \in 1..(s - 1) :
           w[o].mark = "open" /\ o \notin 1..e => \E i \in o..s : w[i].mark = "close"
  BY DEF WaremaFrame
<1>3. ASSUME NEW o \in 1..(s - 1), w[o].mark = "open", o \notin 1..a
      PROVE  \E i \in o..s : w[i].mark = "close"
  <2>1. CASE o <= e
    <3>1. e \in o..s
      BY <1>1, <1>2, <2>1
    <3> QED
      BY <1>1, <3>1
  <2>2. CASE e < o
    <3>1. o \notin 1..e
      BY <2>2
    <3> QED
      BY <1>2, <1>3, <3>1
  <2> QED
    BY <1>2, <2>1, <2>2
<1> QED
  BY <1>1, <1>2, <1>3 DEF WaremaFrame

(* What the loop did with the marks from a up to r, which is a or ends a      *)
(* frame: every frame there that can be decoded is found, every one found is *)
(* a frame there, and in its order; what is left holds no brace that closes, *)
(* unless it raised.                                                        *)
WaremaFound(t, w, a, r) ==
    \A s, e \in 1..r :
       a < s /\ WaremaFrame(w, 1..a, s, e) /\ Warema!Decodes(SubSeq(w, s, e)) =>
         \E j \in 1..Len(t) : t[j] = [from |-> s, to |-> e]
WaremaOnly(t, w, G, a, r) ==
    \A j \in 1..Len(t) : \E s, e \in 1..r :
       a < s /\ WaremaFrame(w, G, s, e) /\ t[j] = [from |-> s, to |-> e]
WaremaRising(t) == \A i, j \in 1..Len(t) : i < j => t[i].to < t[j].from
WaremaEnds(w, a, r) == r = a \/ w[r].mark = "close"
WaremaReached(x, w, a, q, r) ==
    /\ x.rest = SubSeq(w, r + 1, q) /\ WaremaEnds(w, a, r)
    /\ ~x.raises => WaremaNone(w, r, q, "close")
    /\ WaremaFound(x.frames, w, a, r) /\ WaremaOnly(x.frames, w, 1..a, a, r)
WaremaWalked(x, w, a, q) ==
    /\ x \in WaremaResult /\ WaremaRising(x.frames)
    /\ \E r \in a..q : WaremaReached(x, w, a, q, r)

LEMMA WaremaFrames ==
    ASSUME NEW x \in WaremaResult, NEW t \in Seq(WaremaSpan),
           NEW y, y = [x EXCEPT !.frames = t \o @]
    PROVE  y \in WaremaResult /\ y.frames = t \o x.frames /\ y.rest = x.rest
           /\ y.raises = x.raises /\ x.frames \in Seq(WaremaSpan)
<1> DEFINE u == t \o x.frames
<1>1. x.frames \in Seq(WaremaSpan) /\ x.rest \in Seq(WaremaMark) /\ x.raises \in BOOLEAN
  BY DEF WaremaResult
<1>2. x = [frames |-> x.frames, rest |-> x.rest, raises |-> x.raises]
  BY DEF WaremaResult
<1>3. u \in Seq(WaremaSpan)
  BY <1>1
<1>4. y = [x EXCEPT !.frames = u]
  BY Zenon
<1> HIDE DEF u
<1>5. y = [frames |-> u, rest |-> x.rest, raises |-> x.raises]
  BY <1>2, <1>4
<1>6. y.frames = u /\ y.rest = x.rest /\ y.raises = x.raises
  BY <1>5
<1>7. y \in WaremaResult
  <2>1. [frames |-> u, rest |-> x.rest, raises |-> x.raises] \in WaremaResult
    BY <1>1, <1>3 DEF WaremaResult
  <2> QED
    BY <1>5, <2>1, Zenon
<1> QED
  BY <1>1, <1>6, <1>7 DEF u

(* Nothing opens before the brace that closes.                              *)
LEMMA WaremaWalkedSkip ==
    ASSUME NEW w \in Seq(WaremaMark), NEW a \in Nat,
           NEW q \in 0..Len(w), NEW e \in 1..q, WaremaFirst(w, a, e, "close"),
           WaremaNone(w, a, e, "open"), NEW y, WaremaWalked(y, w, e, q),
           NEW x, x = [y EXCEPT !.frames = <<>> \o @]
    PROVE  WaremaWalked(x, w, a, q)
<1>1. y \in WaremaResult /\ <<>> \in Seq(WaremaSpan) /\ a < e /\ e \in 1..Len(w)
  BY DEF WaremaWalked, WaremaFirst
<1>2. x \in WaremaResult /\ x.frames = y.frames /\ x.rest = y.rest /\ x.raises = y.raises
  <2>1. /\ x \in WaremaResult /\ x.frames = <<>> \o y.frames /\ x.rest = y.rest
        /\ x.raises = y.raises /\ y.frames \in Seq(WaremaSpan)
    BY <1>1, WaremaFrames
  <2>2. <<>> \o y.frames = y.frames
    BY <2>1, ConcatEmptySeq
  <2> QED
    BY <2>1, <2>2
<1>3. PICK r \in e..q : WaremaReached(y, w, e, q, r)
  BY DEF WaremaWalked
<1>4. WaremaFound(x.frames, w, a, r)
  <2> SUFFICES ASSUME NEW s \in 1..r, NEW f \in 1..r, a < s, WaremaFrame(w, 1..a, s, f),
                      Warema!Decodes(SubSeq(w, s, f))
               PROVE  \E j \in 1..Len(x.frames) : x.frames[j] = [from |-> s, to |-> f]
    BY DEF WaremaFound
  <2>1. ~(s < e /\ WaremaFirst(w, a, s, "open"))
    <3> SUFFICES ASSUME s < e, WaremaFirst(w, a, s, "open") PROVE FALSE
      OBVIOUS
    <3>1. s \in (a + 1)..e /\ w[s].mark = "open"
      BY <1>1 DEF WaremaFirst
    <3> QED
      BY <3>1 DEF WaremaNone
  <2>2. e < s /\ WaremaFrame(w, 1..e, s, f)
    BY <1>1, <2>1, WaremaNextFrame
  <2> QED
    BY <1>2, <1>3, <2>2 DEF WaremaReached, WaremaFound
<1>5. WaremaOnly(x.frames, w, 1..a, a, r)
  <2> SUFFICES ASSUME NEW j \in 1..Len(x.frames)
               PROVE  \E s, f \in 1..r : a < s /\ WaremaFrame(w, 1..a, s, f)
                                         /\ x.frames[j] = [from |-> s, to |-> f]
    BY DEF WaremaOnly
  <2>1. PICK s \in 1..r, f \in 1..r : /\ e < s /\ WaremaFrame(w, 1..e, s, f)
                                      /\ y.frames[j] = [from |-> s, to |-> f]
    BY <1>2, <1>3 DEF WaremaReached, WaremaOnly
  <2>2. a < s /\ WaremaFrame(w, 1..a, s, f)
    BY <1>1, <2>1, WaremaLaterFrame
  <2> QED
    BY <1>2, <2>1, <2>2
<1>6. WaremaEnds(w, a, r)
  BY <1>3 DEF WaremaReached, WaremaEnds, WaremaFirst
<1>7. r \in a..q /\ WaremaReached(x, w, a, q, r)
  BY <1>1, <1>2, <1>3, <1>4, <1>5, <1>6 DEF WaremaReached
<1>8. WaremaRising(x.frames)
  BY <1>2 DEF WaremaWalked
<1> QED
  BY <1>2, <1>7, <1>8 DEF WaremaWalked

(* A frame put before a sequence of frames.                                 *)
LEMMA FrameInFront ==
    \A m \in WaremaSpan : \A s \in Seq(WaremaSpan) :
       /\ Len(<<m>> \o s) = Len(s) + 1 /\ (<<m>> \o s)[1] = m
       /\ \A j \in 1..Len(s) : (<<m>> \o s)[1 + j] = s[j]
<1> SUFFICES ASSUME NEW m \in WaremaSpan, NEW s \in Seq(WaremaSpan)
             PROVE  /\ Len(<<m>> \o s) = Len(s) + 1 /\ (<<m>> \o s)[1] = m
                    /\ \A j \in 1..Len(s) : (<<m>> \o s)[1 + j] = s[j]
  OBVIOUS
<1> DEFINE t == <<m>>
<1>1. t \in Seq(WaremaSpan) /\ Len(t) = 1 /\ t[1] = m /\ Len(s) \in Nat
  OBVIOUS
<1> HIDE DEF t
<1>2. /\ Len(t \o s) = Len(t) + Len(s)
      /\ \A i \in 1..(Len(t) + Len(s)) :
           (t \o s)[i] = IF i <= Len(t) THEN t[i] ELSE s[i - Len(t)]
  BY <1>1, ConcatProperties
<1>3. /\ 1 \in 1..(Len(t) + Len(s)) /\ 1 <= Len(t)
      /\ \A j \in 1..Len(s) : 1 + j \in 1..(Len(t) + Len(s)) /\ ~(1 + j <= Len(t))
                               /\ (1 + j) - Len(t) = j
  BY <1>1
<1> QED
  BY <1>1, <1>2, <1>3 DEF t

(* A frame that can be decoded.                                             *)
LEMMA WaremaWalkedTake ==
    ASSUME NEW w \in Seq(WaremaMark), NEW a \in Nat,
           NEW q \in 0..Len(w), NEW e \in 1..q, WaremaFirst(w, a, e, "close"),
           NEW b \in 1..(e - 1), WaremaFirst(w, a, b, "open"),
           NEW y, WaremaWalked(y, w, e, q),
           NEW x, x = [y EXCEPT !.frames = <<[from |-> b, to |-> e]>> \o @]
    PROVE  WaremaWalked(x, w, a, q)
<1> DEFINE m == [from |-> b, to |-> e]
           t == <<m>>
<1>1. /\ y \in WaremaResult /\ a < e /\ e \in 1..Len(w) /\ Len(w) \in Nat
      /\ a < b /\ WaremaFrame(w, 1..a, b, e)
  <2>1. e \in 1..Len(w)
    OBVIOUS
  <2> QED
    <3>1. y \in WaremaResult /\ a < e /\ Len(w) \in Nat
      BY DEF WaremaWalked, WaremaFirst
    <3>2. a < b /\ WaremaFrame(w, 1..a, b, e)
      BY <2>1, WaremaFirstFrame
    <3> QED
      BY <2>1, <3>1, <3>2
<1>2. m \in WaremaSpan /\ m.from = b /\ m.to = e
  BY DEF WaremaSpan
<1>3. t \in Seq(WaremaSpan)
  <2> HIDE DEF m
  <2> QED
    BY <1>2
<1> HIDE DEF m, t
<1>4. /\ x \in WaremaResult /\ x.frames = t \o y.frames /\ x.rest = y.rest
      /\ x.raises = y.raises /\ y.frames \in Seq(WaremaSpan)
  <2>1. x = [y EXCEPT !.frames = t \o @]
    BY DEF t, m
  <2>3. ASSUME NEW z, z = [y EXCEPT !.frames = t \o @]
        PROVE  /\ z \in WaremaResult /\ z.frames = t \o y.frames
               /\ z.rest = y.rest /\ z.raises = y.raises
               /\ y.frames \in Seq(WaremaSpan)
    BY <1>1, <1>3, <2>3, WaremaFrames
  <2> QED
    BY <2>1, <2>3, Zenon
<1> DEFINE u == x.frames
           v == y.frames
           L == Len(v)
<1>5. /\ L \in Nat /\ Len(u) = L + 1 /\ u[1] = m /\ v \in Seq(WaremaSpan)
      /\ \A j \in 1..L : u[1 + j] = v[j]
  <2>1. v \in Seq(WaremaSpan) /\ u = <<m>> \o v
    BY <1>4 DEF t
  <2> HIDE DEF u, v
  <2>2. /\ Len(u) = Len(v) + 1 /\ u[1] = m
        /\ \A j \in 1..Len(v) : u[1 + j] = v[j]
    BY <1>2, <2>1, FrameInFront, Zenon
  <2>3. Len(v) \in Nat
    BY <2>1
  <2> QED
    BY <2>1, <2>2, <2>3
<1>6. PICK r \in e..q : WaremaReached(y, w, e, q, r)
  BY DEF WaremaWalked
<1> HIDE DEF u, v, L
<1>6a. L \in Nat /\ Len(u) = L + 1
  BY <1>5
<1>7. \A j \in 1..(L + 1) : j = 1 \/ (j - 1 \in 1..L /\ 1 + (j - 1) = j)
  BY <1>5
<1>8. WaremaFound(u, w, a, r)
  <2> SUFFICES ASSUME NEW s \in 1..r, NEW f \in 1..r, a < s, WaremaFrame(w, 1..a, s, f),
                      Warema!Decodes(SubSeq(w, s, f))
               PROVE  \E j \in 1..Len(u) : u[j] = [from |-> s, to |-> f]
    BY DEF WaremaFound
  <2>0. \/ f = e /\ s < e /\ WaremaFirst(w, a, s, "open")
        \/ e < s /\ WaremaFrame(w, 1..e, s, f)
    BY <1>1, WaremaNextFrame
  <2>1. CASE f = e /\ s < e /\ WaremaFirst(w, a, s, "open")
    <3>1. s = b
      <4>1. /\ a < s /\ w[s].mark = "open" /\ s \in Nat
            /\ \A i \in (a + 1)..(s - 1) : w[i].mark # "open"
        BY <2>1 DEF WaremaFirst
      <4>2. /\ a < b /\ w[b].mark = "open" /\ b \in Nat
            /\ \A i \in (a + 1)..(b - 1) : w[i].mark # "open"
        BY DEF WaremaFirst
      <4>3. ~(s < b)
        <5>1. s < b => s \in (a + 1)..(b - 1)
          BY <4>1, <4>2
        <5> QED
          BY <4>1, <4>2, <5>1
      <4>4. ~(b < s)
        <5>1. b < s => b \in (a + 1)..(s - 1)
          BY <4>1, <4>2
        <5> QED
          BY <4>1, <4>2, <5>1
      <4> QED
        BY <4>1, <4>2, <4>3, <4>4
    <3>2. [from |-> s, to |-> f] = m
      BY <2>1, <3>1 DEF m
    <3>3. 1 \in 1..Len(u)
      BY <1>6a
    <3> QED
      BY <1>5, <3>2, <3>3, Zenon
  <2>2. CASE e < s /\ WaremaFrame(w, 1..e, s, f)
    <3>2. PICK j \in 1..L : v[j] = [from |-> s, to |-> f]
      BY <1>6, <2>2 DEF WaremaReached, WaremaFound, L, v
    <3>3. 1 + j \in 1..Len(u)
      BY <1>6a
    <3>4. u[1 + j] = [from |-> s, to |-> f]
      BY <1>5, <3>2, Zenon
    <3> QED
      BY <3>3, <3>4, Zenon
  <2> QED
    BY <2>0, <2>1, <2>2
<1>9. ASSUME NEW j \in 1..L
      PROVE  \E s, f \in 1..r : e < s /\ WaremaFrame(w, 1..e, s, f)
                                /\ v[j] = [from |-> s, to |-> f]
  BY <1>6 DEF WaremaReached, WaremaOnly, L, v
<1>10. WaremaOnly(u, w, 1..a, a, r)
  <2> SUFFICES ASSUME NEW j \in 1..Len(u)
               PROVE  \E s, f \in 1..r : a < s /\ WaremaFrame(w, 1..a, s, f)
                                         /\ u[j] = [from |-> s, to |-> f]
    BY DEF WaremaOnly
  <2>1. CASE j = 1
    <3>1. b \in 1..r /\ e \in 1..r
      BY <1>1
    <3>2. u[j] = [from |-> b, to |-> e]
      BY <1>5, <2>1 DEF m
    <3> QED
      BY <1>1, <3>1, <3>2
  <2>2. CASE j # 1
    <3>1. j - 1 \in 1..L /\ 1 + (j - 1) = j
      BY <1>5, <1>7, <2>2
    <3>2. u[j] = v[j - 1]
      BY <1>5, <3>1
    <3>3. PICK s \in 1..r, f \in 1..r : /\ e < s /\ WaremaFrame(w, 1..e, s, f)
                                        /\ v[j - 1] = [from |-> s, to |-> f]
      BY <1>9, <3>1
    <3>4. a < s /\ WaremaFrame(w, 1..a, s, f)
      BY <1>1, <3>3, WaremaLaterFrame
    <3>5. u[j] = [from |-> s, to |-> f]
      BY <3>2, <3>3, Zenon
    <3> QED
      BY <3>4, <3>5
  <2> QED
    BY <2>1, <2>2
<1>11. ASSUME NEW j \in 1..L PROVE m.to < v[j].from
  <2>1. PICK s \in 1..r, f \in 1..r : e < s /\ v[j] = [from |-> s, to |-> f]
    BY <1>9
  <2>2. v[j].from = s
    BY <2>1
  <2> QED
    BY <1>2, <2>1, <2>2
<1>12. WaremaRising(u)
  <2> SUFFICES ASSUME NEW i \in 1..Len(u), NEW j \in 1..Len(u), i < j
               PROVE  u[i].to < u[j].from
    BY DEF WaremaRising
  <2>1. j - 1 \in 1..L /\ 1 + (j - 1) = j /\ u[j] = v[j - 1]
    <3>1. j # 1 /\ j \in 1..(L + 1)
      BY <1>6a
    <3>2. j - 1 \in 1..L /\ 1 + (j - 1) = j
      BY <1>7, <3>1
    <3>3. u[1 + (j - 1)] = v[j - 1]
      BY <1>5, <3>2
    <3> QED
      BY <3>2, <3>3
  <2>2. CASE i = 1
    <3>1. u[i] = m
      BY <1>5, <2>2
    <3>2. m.to < v[j - 1].from
      BY <1>11, <2>1
    <3> QED
      BY <2>1, <3>1, <3>2
  <2>3. CASE i # 1
    <3>0. i \in 1..(L + 1) /\ i - 1 < j - 1
      BY <1>6a
    <3>1. i - 1 \in 1..L /\ u[i] = v[i - 1]
      <4>1. i - 1 \in 1..L /\ 1 + (i - 1) = i
        BY <1>7, <2>3, <3>0
      <4>2. u[1 + (i - 1)] = v[i - 1]
        BY <1>5, <4>1, Zenon
      <4> QED
        BY <4>1, <4>2
    <3>2. WaremaRising(v)
      BY DEF WaremaWalked, v
    <3>3. v[i - 1].to < v[j - 1].from
      BY <2>1, <3>0, <3>1, <3>2 DEF WaremaRising, L
    <3> QED
      BY <2>1, <3>1, <3>3
  <2> QED
    BY <2>2, <2>3
<1>13. r \in a..q /\ WaremaReached(x, w, a, q, r)
  <2>1. r \in a..q
    BY <1>1
  <2>2. WaremaEnds(w, a, r)
    BY <1>6 DEF WaremaReached, WaremaEnds, WaremaFirst
  <2> QED
    BY <1>4, <1>6, <1>8, <1>10, <2>1, <2>2 DEF WaremaReached, u
<1> QED
  BY <1>4, <1>12, <1>13 DEF WaremaWalked, u

(* The loop of a feed from any place of the wire.                           *)
LEMMA WaremaLoopWalks ==
    ASSUME NEW w, WaremaWire(w), NEW p \in 0..Len(w), NEW q \in p..Len(w)
    PROVE  WaremaWalked(Warema!Loop(SubSeq(w, p + 1, q)), w, p, q)
<1>1. PICK f : /\ Warema!Loop(SubSeq(w, p + 1, q)) = f[0]
               /\ \A k \in 0..(q - p) : WaremaStep(f, w, p, q, k)
  BY WaremaLoop
<1> DEFINE n == q - p
           bad == {k \in 0..n : ~WaremaWalked(f[k], w, p + k, q)}
<1>2. /\ p \in Nat /\ q \in Nat /\ p <= q /\ q \in 0..Len(w) /\ n \in Nat
      /\ q <= Len(w) /\ Len(w) \in Nat /\ w \in Seq(WaremaMark)
  BY DEF WaremaWire
<1>3. bad = {}
  <2> SUFFICES ASSUME bad # {} PROVE FALSE
    OBVIOUS
  <2>1. PICK k \in bad : \A j \in bad : j <= k
    <3>1. bad \in SUBSET Nat /\ \A j \in bad : j <= n
      BY <1>2
    <3> HIDE DEF bad
    <3> QED
      BY <1>2, <3>1, GreatestOfSet
  <2>2. /\ k \in 0..n /\ ~WaremaWalked(f[k], w, p + k, q)
        /\ \A j \in (k + 1)..n : WaremaWalked(f[j], w, p + j, q)
    <3>1. ASSUME NEW j \in (k + 1)..n PROVE WaremaWalked(f[j], w, p + j, q)
      <4>1. j \in 0..n /\ ~(j <= k)
        BY <1>2, <2>1
      <4> QED
        BY <2>1, <4>1
    <3> QED
      BY <2>1, <3>1
  <2> HIDE DEF bad
  <2> DEFINE a == p + k
  <2>3. a \in Nat /\ a <= q /\ a \in 0..Len(w) /\ q \in a..Len(w)
    BY <1>2, <2>2
  <2> HIDE DEF a
  <2>4. CASE WaremaAtEnd(f, w, p, q, k)
    <3>1. /\ WaremaNone(w, a, q, "close")
          /\ f[k] = [frames |-> <<>>, rest |-> SubSeq(w, a + 1, q), raises |-> FALSE]
      BY <2>4, Zenon DEF WaremaAtEnd, a
    <3>2. SubSeq(w, a + 1, q) \in Seq(WaremaMark)
      BY <1>2, <2>3, PartOfSequence
    <3>3. /\ f[k].frames = <<>> /\ f[k].rest = SubSeq(w, a + 1, q) /\ f[k].raises = FALSE
          /\ f[k] \in WaremaResult
      BY <3>1, <3>2 DEF WaremaResult
    <3>4. WaremaFound(f[k].frames, w, a, a)
      BY <2>3 DEF WaremaFound
    <3>5. WaremaOnly(f[k].frames, w, 1..a, a, a) /\ WaremaRising(f[k].frames)
      BY <3>3 DEF WaremaOnly, WaremaRising
    <3>6. WaremaReached(f[k], w, a, q, a) /\ a \in a..q
      BY <2>3, <3>1, <3>3, <3>4, <3>5 DEF WaremaReached, WaremaEnds
    <3>7. WaremaWalked(f[k], w, a, q)
      BY <3>3, <3>5, <3>6 DEF WaremaWalked
    <3> QED
      BY <2>2, <3>7 DEF a
  <2>5. ASSUME NEW e \in 1..q, WaremaFirst(w, a, e, "close"), WaremaAfter(f, w, p, q, k, e)
        PROVE  FALSE
    <3>1. a < e /\ e - p \in (k + 1)..n /\ p + (e - p) = e
      BY <1>2, <2>2, <2>5 DEF WaremaFirst, a
    <3>2. WaremaWalked(f[e - p], w, e, q)
      <4>1. WaremaWalked(f[e - p], w, p + (e - p), q)
        BY <2>2, <3>1, Zenon
      <4> QED
        BY <3>1, <4>1
    <3>3. CASE WaremaNone(w, a, e, "open") /\ f[k] = [f[e - p] EXCEPT !.frames = <<>> \o @]
      <4> DEFINE y == f[e - p]
      <4>1. /\ WaremaWalked(y, w, e, q) /\ f[k] = [y EXCEPT !.frames = <<>> \o @]
            /\ WaremaNone(w, a, e, "open")
        BY <3>2, <3>3, Zenon
      <4> HIDE DEF y
      <4>2. WaremaWalked(f[k], w, a, q)
        BY <1>2, <2>3, <2>5, <4>1, WaremaWalkedSkip
      <4> QED
        BY <2>2, <4>2 DEF a
    <3>4. ASSUME NEW b \in 1..(e - 1), WaremaFirst(w, a, b, "open"),
                 f[k] = [f[e - p] EXCEPT !.frames = <<[from |-> b, to |-> e]>> \o @]
          PROVE  FALSE
      <4> DEFINE y == f[e - p]
      <4>1. /\ WaremaWalked(y, w, e, q)
            /\ f[k] = [y EXCEPT !.frames = <<[from |-> b, to |-> e]>> \o @]
        BY <3>2, <3>4, Zenon
      <4> HIDE DEF y
      <4>2. WaremaWalked(f[k], w, a, q)
        BY <1>2, <2>3, <2>5, <3>4, <4>1, WaremaWalkedTake
      <4> QED
        BY <2>2, <4>2 DEF a
    <3>5. ASSUME NEW b \in 1..(e - 1), WaremaFirst(w, a, b, "open"),
                 ~Warema!Decodes(SubSeq(w, b, e)),
                 f[k] = [frames |-> <<>>, rest |-> SubSeq(w, e + 1, q), raises |-> TRUE]
          PROVE  FALSE
      <4>1. SubSeq(w, e + 1, q) \in Seq(WaremaMark) /\ e \in a..q
        <5>1. e \in 0..Len(w) /\ q \in e..Len(w)
          BY <1>2
        <5> QED
          BY <1>2, <2>3, <3>1, <5>1, PartOfSequence
      <4>2. /\ f[k].frames = <<>> /\ f[k].rest = SubSeq(w, e + 1, q) /\ f[k].raises = TRUE
            /\ f[k] \in WaremaResult
        BY <3>5, <4>1 DEF WaremaResult
      <4>3. WaremaFound(f[k].frames, w, a, e)
        <5> SUFFICES ASSUME NEW s \in 1..e, NEW g \in 1..e, a < s,
                            WaremaFrame(w, 1..a, s, g), Warema!Decodes(SubSeq(w, s, g))
                     PROVE  FALSE
          BY DEF WaremaFound
        <5>1. e \in 1..Len(w)
          BY <1>2
        <5>2. g = e /\ s < e /\ WaremaFirst(w, a, s, "open")
          BY <1>2, <2>3, <2>5, <5>1, WaremaNextFrame
        <5>3. s = b
          BY <2>3, <3>5, <5>2 DEF WaremaFirst
        <5> QED
          BY <3>5, <5>2, <5>3
      <4>4. WaremaOnly(f[k].frames, w, 1..a, a, e) /\ WaremaRising(f[k].frames)
        BY <4>2 DEF WaremaOnly, WaremaRising
      <4>5. WaremaReached(f[k], w, a, q, e)
        BY <2>5, <4>2, <4>3, <4>4 DEF WaremaReached, WaremaEnds, WaremaFirst
      <4>6. WaremaWalked(f[k], w, a, q)
        BY <4>1, <4>2, <4>4, <4>5 DEF WaremaWalked
      <4> QED
        BY <2>2, <4>6 DEF a
    <3> QED
      BY <2>5, <3>3, <3>4, <3>5, Zenon DEF WaremaAfter, a
  <2>6. WaremaStep(f, w, p, q, k)
    BY <1>1, <2>2
  <2> QED
    BY <2>4, <2>5, <2>6, Zenon DEF WaremaStep, a
<1>4. WaremaWalked(f[0], w, p + 0, q)
  BY <1>2, <1>3
<1> QED
  BY <1>1, <1>2, <1>4

(* Two parts of a sequence that meet.                                       *)
LEMMA PartsMeet ==
    \A S : \A s \in Seq(S) : \A a \in 0..Len(s) : \A b \in a..Len(s) : \A c \in b..Len(s) :
       SubSeq(s, a + 1, b) \o SubSeq(s, b + 1, c) = SubSeq(s, a + 1, c)
<1> SUFFICES ASSUME NEW S, NEW s \in Seq(S), NEW a \in 0..Len(s), NEW b \in a..Len(s),
                    NEW c \in b..Len(s)
             PROVE  SubSeq(s, a + 1, b) \o SubSeq(s, b + 1, c) = SubSeq(s, a + 1, c)
  OBVIOUS
<1> DEFINE t == SubSeq(s, a + 1, c)
           x == b - a
           y == c - a
<1>1. c \in a..Len(s)
  OBVIOUS
<1>2. t \in Seq(S) /\ Len(t) = y
  BY <1>1, PartOfSequence
<1>3. \A k \in 0..y : \A d \in k..y :
        SubSeq(SubSeq(s, a + 1, c), k + 1, d) = SubSeq(s, a + k + 1, a + d)
  BY <1>1, PartOfPart
<1>4. /\ 0 \in 0..y /\ x \in 0..y /\ y \in x..y /\ x \in 0..y /\ y \in 0..y
      /\ 0 + 1 = 1 /\ a + 0 + 1 = a + 1 /\ a + x = b /\ a + x + 1 = b + 1 /\ a + y = c
  OBVIOUS
<1> HIDE DEF x, y
<1>5. /\ SubSeq(t, 0 + 1, x) = SubSeq(s, a + 0 + 1, a + x)
      /\ SubSeq(t, x + 1, y) = SubSeq(s, a + x + 1, a + y)
      /\ SubSeq(t, 0 + 1, y) = SubSeq(s, a + 0 + 1, a + y)
  BY <1>3, <1>4, Zenon
<1>6. SubSeq(t, 1, x) \o SubSeq(t, x + 1, y) = SubSeq(t, 1, y)
  <2> HIDE DEF t
  <2>1. \A i \in 0..Len(t) : \A j \in i..Len(t) :
           SubSeq(t, 1, i) \o SubSeq(t, i + 1, j) = SubSeq(t, 1, j)
    BY <1>2, PartInTwo
  <2> QED
    BY <1>2, <1>4, <2>1
<1> QED
  BY <1>4, <1>5, <1>6

(* The frames of a part of the wire.                                        *)
LEMMA WaremaFramesIn ==
    ASSUME NEW w, WaremaWire(w), NEW a \in 0..Len(w),
           NEW q \in a..Len(w), NEW U, NEW m
    PROVE  m \in Warema!Frames(SubSeq(w, a + 1, q), U)
             <=> \E s, e \in (a + 1)..q : WaremaFrame(w, (1..a) \cup U, s, e)
                                         /\ m = [from |-> s, to |-> e]
<1> DEFINE t == SubSeq(w, a + 1, q)
<1>0. w \in Seq(WaremaMark) /\ \A i \in 1..Len(w) : w[i].at = i
  BY DEF WaremaWire
<1>1. /\ t \in Seq(WaremaMark) /\ Len(t) = q - a
      /\ \A i \in 1..(q - a) : t[i] = w[a + i]
  BY <1>0, PartOfSequence
<1> HIDE DEF t
<1>2. DOMAIN t = 1..(q - a) /\ a \in Nat /\ q \in Nat /\ a <= q /\ q <= Len(w) /\ Len(w) \in Nat
  BY <1>0, <1>1
<1>3. \A i \in 1..(q - a) : a + i \in 1..Len(w) /\ t[i].at = a + i /\ t[i].mark = w[a + i].mark
  BY <1>0, <1>1, <1>2
<1>4. ASSUME NEW i \in 1..(q - a), NEW j \in 1..(q - a)
      PROVE  Warema!IsFrame(t, i, j, U) <=> WaremaFrame(w, (1..a) \cup U, a + i, a + j)
  <2>1. ASSUME Warema!IsFrame(t, i, j, U)
        PROVE  WaremaFrame(w, (1..a) \cup U, a + i, a + j)
    <3>1. /\ i < j /\ t[i].mark = "open" /\ t[j].mark = "close"
          /\ \A k \in i..(j - 1) : t[k].mark # "close"
          /\ \A o \in 1..(i - 1) : t[o].mark = "open" /\ t[o].at \notin U =>
               \E k \in o..i : t[k].mark = "close"
      BY <2>1 DEF Warema!IsFrame
    <3>2. ASSUME NEW k \in (a + i)..((a + j) - 1) PROVE w[k].mark # "close"
      <4>1. k - a \in i..(j - 1) /\ k - a \in 1..(q - a) /\ a + (k - a) = k
        BY <1>2
      <4> QED
        BY <1>3, <3>1, <4>1
    <3>3. ASSUME NEW o \in 1..((a + i) - 1), w[o].mark = "open", o \notin (1..a) \cup U
          PROVE  \E k \in o..(a + i) : w[k].mark = "close"
      <4>1. o - a \in 1..(i - 1) /\ o - a \in 1..(q - a) /\ a + (o - a) = o
        BY <1>2, <3>3
      <4>2. t[o - a].mark = "open" /\ t[o - a].at \notin U
        BY <1>3, <3>3, <4>1
      <4>3. PICK k \in (o - a)..i : t[k].mark = "close"
        BY <3>1, <4>1, <4>2
      <4>4. a + k \in o..(a + i) /\ k \in 1..(q - a)
        BY <1>2, <4>1
      <4> QED
        BY <1>3, <4>3, <4>4
    <3> QED
      BY <1>2, <1>3, <3>1, <3>2, <3>3 DEF WaremaFrame
  <2>2. ASSUME WaremaFrame(w, (1..a) \cup U, a + i, a + j)
        PROVE  Warema!IsFrame(t, i, j, U)
    <3>1. /\ a + i < a + j /\ w[a + i].mark = "open" /\ w[a + j].mark = "close"
          /\ \A k \in (a + i)..((a + j) - 1) : w[k].mark # "close"
          /\ \A o \in 1..((a + i) - 1) : w[o].mark = "open" /\ o \notin (1..a) \cup U =>
               \E k \in o..(a + i) : w[k].mark = "close"
      BY <2>2 DEF WaremaFrame
    <3>2. ASSUME NEW k \in i..(j - 1) PROVE t[k].mark # "close"
      <4>1. a + k \in (a + i)..((a + j) - 1) /\ k \in 1..(q - a)
        BY <1>2
      <4> QED
        BY <1>3, <3>1, <4>1
    <3>3. ASSUME NEW o \in 1..(i - 1), t[o].mark = "open", t[o].at \notin U
          PROVE  \E k \in o..i : t[k].mark = "close"
      <4>1. a + o \in 1..((a + i) - 1) /\ a + o \notin 1..a /\ o \in 1..(q - a)
        BY <1>2
      <4>2. w[a + o].mark = "open" /\ a + o \notin (1..a) \cup U
        BY <1>3, <3>3, <4>1
      <4>3. PICK k \in (a + o)..(a + i) : w[k].mark = "close"
        BY <3>1, <4>1, <4>2
      <4>4. k - a \in o..i /\ k - a \in 1..(q - a) /\ a + (k - a) = k
        BY <1>2, <4>1
      <4> QED
        BY <1>3, <4>3, <4>4
    <3>4. i < j /\ t[i].mark = "open" /\ t[j].mark = "close"
      <4>1. i < j
        BY <1>2, <3>1
      <4>2. t[i].mark = w[a + i].mark /\ t[j].mark = w[a + j].mark
        BY <1>3
      <4> QED
        BY <3>1, <4>1, <4>2
    <3> QED
      BY <3>2, <3>3, <3>4 DEF Warema!IsFrame
  <2> QED
    BY <2>1, <2>2
<1>5. ASSUME m \in Warema!Frames(t, U)
      PROVE  \E s, e \in (a + 1)..q : WaremaFrame(w, (1..a) \cup U, s, e)
                                     /\ m = [from |-> s, to |-> e]
  <2>1. PICK x \in (1..(q - a)) \X (1..(q - a)) :
          /\ Warema!IsFrame(t, x[1], x[2], U)
          /\ m = [from |-> t[x[1]].at, to |-> t[x[2]].at]
    BY <1>2, <1>5 DEF Warema!Frames
  <2>2. x[1] \in 1..(q - a) /\ x[2] \in 1..(q - a)
    BY <2>1
  <2>3. /\ WaremaFrame(w, (1..a) \cup U, a + x[1], a + x[2])
        /\ t[x[1]].at = a + x[1] /\ t[x[2]].at = a + x[2]
    BY <1>3, <1>4, <2>1, <2>2
  <2>4. a + x[1] \in (a + 1)..q /\ a + x[2] \in (a + 1)..q
    BY <1>2, <2>2
  <2>5. m = [from |-> a + x[1], to |-> a + x[2]]
    BY <2>1, <2>3
  <2> QED
    BY <2>3, <2>4, <2>5
<1>6. ASSUME NEW s \in (a + 1)..q, NEW e \in (a + 1)..q,
             WaremaFrame(w, (1..a) \cup U, s, e), m = [from |-> s, to |-> e]
      PROVE  m \in Warema!Frames(t, U)
  <2>1. /\ s - a \in 1..(q - a) /\ e - a \in 1..(q - a)
        /\ a + (s - a) = s /\ a + (e - a) = e
    BY <1>2
  <2>2. Warema!IsFrame(t, s - a, e - a, U) /\ t[s - a].at = s /\ t[e - a].at = e
    BY <1>3, <1>4, <1>6, <2>1
  <2> DEFINE x == <<s - a, e - a>>
  <2>3. /\ x \in (DOMAIN t) \X (DOMAIN t) /\ Warema!IsFrame(t, x[1], x[2], U)
        /\ m = [from |-> t[x[1]].at, to |-> t[x[2]].at]
    BY <1>2, <1>6, <2>1, <2>2
  <2> HIDE DEF x
  <2> QED
    BY <2>3 DEF Warema!Frames
<1> QED
  BY <1>5, <1>6 DEF t

(* Every frame that begins up to p and can be decoded was returned or is      *)
(* among those that were not; and a brace up to p that is still open there   *)
(* is among them too.                                                       *)
WaremaHeld(t, U, w, p) ==
    \A s \in 1..p, e \in 1..Len(w) :
       WaremaFrame(w, {}, s, e) /\ Warema!Decodes(SubSeq(w, s, e)) =>
         (\E j \in 1..Len(t) : t[j] = [from |-> s, to |-> e]) \/ s \in U
WaremaDropped(w, U, p) ==
    \A o \in 1..p :
       w[o].mark = "open" /\ (\A i \in o..p : w[i].mark # "close") => o \in U

(* A frame behind p is one of the whole wire.                               *)
LEMMA WaremaFrameBehind ==
    ASSUME NEW w, NEW p \in Nat, NEW U, WaremaDropped(w, U, p),
           NEW s, NEW e, p < s, WaremaFrame(w, 1..p, s, e), Len(w) \in Nat
    PROVE  WaremaFrame(w, U, s, e)
<1>1. /\ s \in 1..Len(w) /\ e \in 1..Len(w)
      /\ s < e /\ w[s].mark = "open" /\ w[e].mark = "close"
      /\ \A i \in s..(e - 1) : w[i].mark # "close"
      /\ \A o \in 1..(s - 1) :
           w[o].mark = "open" /\ o \notin 1..p => \E i \in o..s : w[i].mark = "close"
  BY DEF WaremaFrame
<1>2. ASSUME NEW o \in 1..(s - 1), w[o].mark = "open", o \notin U
      PROVE  \E i \in o..s : w[i].mark = "close"
  <2>1. CASE o \in 1..p
    <3>1. PICK i \in o..p : w[i].mark = "close"
      BY <1>2, <2>1 DEF WaremaDropped
    <3>2. i \in o..s
      BY <1>1, <3>1
    <3> QED
      BY <3>1, <3>2
  <2> QED
    BY <1>1, <1>2, <2>1
<1> QED
  BY <1>1, <1>2 DEF WaremaFrame

(* Up to where the loop came.                                               *)
LEMMA WaremaStillDropped ==
    ASSUME NEW w, NEW p \in Nat, NEW r \in Nat, p <= r, WaremaEnds(w, p, r),
           NEW U, NEW V, U \subseteq V, WaremaDropped(w, U, p)
    PROVE  WaremaDropped(w, V, r)
<1>1. CASE r = p
  BY <1>1 DEF WaremaDropped
<1>2. CASE w[r].mark = "close"
  <2>1. \A o \in 1..r : r \in o..r
    OBVIOUS
  <2> QED
    BY <1>2, <2>1 DEF WaremaDropped
<1> QED
  BY <1>1, <1>2 DEF WaremaEnds

(* A frame that begins up to there ends there.                              *)
LEMMA WaremaEndsThere ==
    ASSUME NEW w, NEW p \in Nat, NEW r \in Nat, WaremaEnds(w, p, r), Len(w) \in Nat,
           NEW s \in (p + 1)..r, NEW e, WaremaFrame(w, {}, s, e)
    PROVE  e \in 1..r /\ p < s /\ WaremaFrame(w, 1..p, s, e)
<1>1. /\ e \in 1..Len(w) /\ s \in 1..Len(w) /\ s < e
      /\ \A i \in s..(e - 1) : w[i].mark # "close"
  BY DEF WaremaFrame
<1>2. w[r].mark = "close" /\ p < s
  BY DEF WaremaEnds
<1>3. ~(r < e)
  <2> SUFFICES ASSUME r < e PROVE FALSE
    OBVIOUS
  <2>1. r \in s..(e - 1)
    BY <1>1
  <2> QED
    BY <1>1, <1>2, <2>1
<1>4. WaremaFrame(w, 1..p, s, e)
  <2>1. {} \subseteq 1..p
    OBVIOUS
  <2> QED
    BY <2>1, WaremaFrameStays
<1> QED
  BY <1>1, <1>2, <1>3, <1>4

LEMMA WaremaOnlyLonger ==
    ASSUME NEW t, NEW w, NEW p \in Nat, NEW r \in Nat, p <= r,
           NEW U, NEW V, U \subseteq V, WaremaOnly(t, w, U, 0, p)
    PROVE  WaremaOnly(t, w, V, 0, r)
<1> SUFFICES ASSUME NEW j \in 1..Len(t)
             PROVE  \E s, e \in 1..r : 0 < s /\ WaremaFrame(w, V, s, e)
                                       /\ t[j] = [from |-> s, to |-> e]
  BY DEF WaremaOnly
<1>1. PICK s \in 1..p, e \in 1..p : 0 < s /\ WaremaFrame(w, U, s, e)
                                    /\ t[j] = [from |-> s, to |-> e]
  BY DEF WaremaOnly
<1>2. s \in 1..r /\ e \in 1..r /\ WaremaFrame(w, V, s, e)
  BY <1>1, WaremaFrameStays
<1> QED
  BY <1>1, <1>2

(* A feed that raises.                                                      *)
LEMMA WaremaKeepsBack ==
    ASSUME NEW w, NEW p \in Nat, NEW r \in Nat, p <= r, NEW t, NEW U, NEW V,
           WaremaHeld(t, U, w, p),
           \A s \in (p + 1)..r, e \in 1..Len(w) :
              WaremaFrame(w, {}, s, e) /\ Warema!Decodes(SubSeq(w, s, e)) => s \in V
    PROVE  WaremaHeld(t, U \cup V, w, r)
<1> SUFFICES ASSUME NEW s \in 1..r, NEW e \in 1..Len(w),
                    WaremaFrame(w, {}, s, e), Warema!Decodes(SubSeq(w, s, e))
             PROVE  (\E j \in 1..Len(t) : t[j] = [from |-> s, to |-> e]) \/ s \in U \cup V
  BY DEF WaremaHeld
<1>1. CASE s <= p
  <2>1. s \in 1..p
    BY <1>1
  <2> QED
    BY <2>1 DEF WaremaHeld
<1>2. CASE s > p
  <2>1. s \in (p + 1)..r
    BY <1>2
  <2> QED
    BY <2>1
<1> QED
  BY <1>1, <1>2

(* A feed that returns what its loop found.                                 *)
LEMMA WaremaReturns ==
    ASSUME NEW w \in Seq(WaremaMark), NEW p \in Nat, NEW r \in Nat,
           p <= r, r <= Len(w), NEW t \in Seq(WaremaSpan), NEW f \in Seq(WaremaSpan),
           NEW U, WaremaRising(t), WaremaOnly(t, w, U, 0, p), WaremaHeld(t, U, w, p),
           WaremaDropped(w, U, p), WaremaEnds(w, p, r), WaremaRising(f),
           WaremaOnly(f, w, 1..p, p, r), WaremaFound(f, w, p, r)
    PROVE  /\ WaremaRising(t \o f) /\ WaremaOnly(t \o f, w, U, 0, r)
           /\ WaremaHeld(t \o f, U, w, r)
<1> DEFINE u == t \o f
           T == Len(t)
           F == Len(f)
<1>0. Len(w) \in Nat
  OBVIOUS
<1>1. /\ T \in Nat /\ F \in Nat /\ Len(u) = T + F
      /\ \A j \in 1..T : u[j] = t[j]
      /\ \A j \in 1..F : u[T + j] = f[j]
  BY PlacesOfBoth
<1> HIDE DEF u
<1>2. \A j \in 1..Len(u) : j \in 1..T \/ (j - T \in 1..F /\ T + (j - T) = j)
  <2> HIDE DEF T, F
  <2> QED
    BY <1>1
<1>3. ASSUME NEW j \in 1..T
      PROVE  \E s, e \in 1..p : WaremaFrame(w, U, s, e) /\ t[j] = [from |-> s, to |-> e]
  BY DEF WaremaOnly
<1>4. ASSUME NEW j \in 1..F
      PROVE  \E s, e \in 1..r : /\ p < s /\ WaremaFrame(w, U, s, e)
                                /\ f[j] = [from |-> s, to |-> e]
  <2>1. PICK s \in 1..r, e \in 1..r : /\ p < s /\ WaremaFrame(w, 1..p, s, e)
                                      /\ f[j] = [from |-> s, to |-> e]
    BY DEF WaremaOnly
  <2>2. WaremaFrame(w, U, s, e)
    BY <1>0, <2>1, WaremaFrameBehind
  <2> QED
    BY <2>1, <2>2
<1> HIDE DEF T, F
<1>5. WaremaOnly(u, w, U, 0, r)
  <2> SUFFICES ASSUME NEW j \in 1..Len(u)
               PROVE  \E s, e \in 1..r : 0 < s /\ WaremaFrame(w, U, s, e)
                                         /\ u[j] = [from |-> s, to |-> e]
    BY DEF WaremaOnly
  <2>1. CASE j \in 1..T
    <3>1. PICK s \in 1..p, e \in 1..p : WaremaFrame(w, U, s, e) /\ t[j] = [from |-> s, to |-> e]
      BY <1>3, <2>1
    <3>2. s \in 1..r /\ e \in 1..r /\ 0 < s
      BY <3>1
    <3>3. u[j] = [from |-> s, to |-> e]
      BY <1>1, <2>1, <3>1, Zenon
    <3> QED
      BY <3>1, <3>2, <3>3
  <2>2. CASE j - T \in 1..F /\ T + (j - T) = j
    <3>1. PICK s \in 1..r, e \in 1..r : /\ p < s /\ WaremaFrame(w, U, s, e)
                                        /\ f[j - T] = [from |-> s, to |-> e]
      BY <1>4, <2>2
    <3>2. u[j] = f[j - T] /\ 0 < s
      BY <1>1, <2>2
    <3>3. u[j] = [from |-> s, to |-> e]
      BY <3>1, <3>2, Zenon
    <3> QED
      BY <3>1, <3>2, <3>3
  <2> QED
    BY <1>2, <2>1, <2>2
<1>6. WaremaHeld(u, U, w, r)
  <2> SUFFICES ASSUME NEW s \in 1..r, NEW e \in 1..Len(w),
                      WaremaFrame(w, {}, s, e), Warema!Decodes(SubSeq(w, s, e))
               PROVE  (\E j \in 1..Len(u) : u[j] = [from |-> s, to |-> e]) \/ s \in U
    BY DEF WaremaHeld
  <2>1. CASE s <= p
    <3>1. (\E j \in 1..T : t[j] = [from |-> s, to |-> e]) \/ s \in U
      <4>1. s \in 1..p
        BY <2>1
      <4> QED
        BY <4>1 DEF WaremaHeld, T
    <3>2. ASSUME NEW j \in 1..T, t[j] = [from |-> s, to |-> e]
          PROVE  j \in 1..Len(u) /\ u[j] = [from |-> s, to |-> e]
      <4>1. j \in 1..Len(u) /\ u[j] = t[j]
        BY <1>1
      <4> QED
        BY <3>2, <4>1, Zenon
    <3> QED
      BY <3>1, <3>2, Zenon
  <2>2. CASE s > p
    <3>1. s \in (p + 1)..r
      BY <2>2
    <3>2. e \in 1..r /\ p < s /\ WaremaFrame(w, 1..p, s, e)
      BY <1>0, <3>1, WaremaEndsThere
    <3>3. PICK j \in 1..F : f[j] = [from |-> s, to |-> e]
      BY <3>2 DEF WaremaFound, F
    <3>4. T + j \in 1..Len(u)
      BY <1>1
    <3>5. u[T + j] = [from |-> s, to |-> e]
      BY <1>1, <3>3, Zenon
    <3> QED
      BY <3>4, <3>5, Zenon
  <2> QED
    <3>1. s \in Int /\ p \in Int
      OBVIOUS
    <3>2. s <= p \/ s > p
      BY <3>1
    <3> QED
      BY <2>1, <2>2, <3>2, Zenon
<1>7. ASSUME NEW j \in 1..T, NEW k \in 1..F PROVE t[j].to < f[k].from
  <2>1. PICK s \in 1..p, e \in 1..p : t[j] = [from |-> s, to |-> e]
    BY <1>3
  <2>2. PICK s2 \in 1..r, e2 \in 1..r : p < s2 /\ f[k] = [from |-> s2, to |-> e2]
    BY <1>4
  <2>3. t[j].to = e /\ f[k].from = s2
    BY <2>1, <2>2
  <2> QED
    BY <2>1, <2>2, <2>3
<1>8. WaremaRising(u)
  <2> SUFFICES ASSUME NEW i \in 1..Len(u), NEW j \in 1..Len(u), i < j
               PROVE  u[i].to < u[j].from
    BY DEF WaremaRising
  <2>1. CASE j \in 1..T
    <3>1. i \in 1..T
      BY <1>1, <2>1
    <3>2. t[i].to < t[j].from
      BY <2>1, <3>1 DEF WaremaRising, T
    <3>3. u[i] = t[i] /\ u[j] = t[j]
      BY <1>1, <2>1, <3>1
    <3> QED
      BY <3>2, <3>3
  <2>2. CASE j - T \in 1..F /\ T + (j - T) = j
    <3>1. u[j] = f[j - T]
      BY <1>1, <2>2
    <3>2. CASE i \in 1..T
      <4>1. u[i] = t[i] /\ t[i].to < f[j - T].from
        BY <1>1, <1>7, <2>2, <3>2
      <4> QED
        BY <3>1, <4>1
    <3>3. CASE i - T \in 1..F /\ T + (i - T) = i
      <4>1. i - T < j - T /\ u[i] = f[i - T]
        BY <1>1, <3>3
      <4>2. f[i - T].to < f[j - T].from
        BY <2>2, <3>3, <4>1 DEF WaremaRising, F
      <4> QED
        BY <3>1, <4>1, <4>2
    <3> QED
      BY <1>2, <3>2, <3>3
  <2> QED
    BY <1>2, <2>1, <2>2
<1> QED
  BY <1>5, <1>6, <1>8 DEF u

(* The buffer is what was fed behind some place of the wire; the frames up    *)
(* to there were returned or a feed raised over them.                       *)
WaremaBehind(p) ==
    /\ buffer = SubSeq(wire, p + 1, fed)
    /\ WaremaHeld(got, unreturned, wire, p) /\ WaremaOnly(got, wire, unreturned, 0, p)
    /\ WaremaDropped(wire, unreturned, p)
    /\ ~feedRaised => WaremaNone(wire, p, fed, "close")
WaremaInv ==
    /\ WaremaWire(wire) /\ fed \in 0..Len(wire)
    /\ maxBuffer \in BufferLimits /\ Len(buffer) <= maxBuffer
    /\ unreturned \subseteq 1..MaxMarks /\ feedRaised \in BOOLEAN
    /\ got \in Seq(WaremaSpan) /\ WaremaRising(got)
    /\ \E p \in 0..fed : WaremaBehind(p)

(* Frames are of places of the wire.                                        *)
LEMMA WaremaNumbers ==
    ASSUME NEW w, WaremaWire(w), NEW t \in Seq(WaremaSpan), NEW G, NEW a \in Nat,
           NEW r \in Nat, r <= Len(w), WaremaOnly(t, w, G, a, r)
    PROVE  ToSet(t) \subseteq Warema!Span /\ {m.from : m \in ToSet(t)} \subseteq 1..MaxMarks
<1>1. Len(w) \in Nat /\ Len(w) <= MaxMarks /\ MaxMarks \in Nat
  BY WaremaBound DEF WaremaWire
<1>2. ASSUME NEW j \in 1..Len(t) PROVE t[j] \in Warema!Span /\ t[j].from \in 1..MaxMarks
  <2>1. PICK s \in 1..r, e \in 1..r : t[j] = [from |-> s, to |-> e]
    BY DEF WaremaOnly
  <2>2. s \in 1..MaxMarks /\ e \in 1..MaxMarks
    BY <1>1, <2>1
  <2> QED
    BY <2>1, <2>2 DEF Warema!Span
<1> QED
  BY <1>2 DEF ToSet

LEMMA WaremaInvInit == Warema!Init => WaremaInv
<1> SUFFICES ASSUME Warema!Init PROVE WaremaInv
  OBVIOUS
<1>1. /\ wire \in Warema!Wires /\ maxBuffer \in BufferLimits
      /\ fed = 0 /\ buffer = <<>> /\ got = <<>>
      /\ unreturned = {} /\ feedRaised = FALSE
  BY DEF Warema!Init
<1>2. WaremaWire(wire) /\ wire \in Seq(WaremaMark)
  BY <1>1, WaremaWires DEF WaremaWire
<1>3. fed \in 0..Len(wire) /\ Len(buffer) <= maxBuffer /\ SubSeq(wire, 0 + 1, 0) = <<>>
  BY <1>1, <1>2, WaremaBound
<1>4. got \in Seq(WaremaSpan) /\ WaremaRising(got)
  BY <1>1 DEF WaremaRising
<1>5. /\ WaremaHeld(got, unreturned, wire, 0) /\ WaremaOnly(got, wire, unreturned, 0, 0)
      /\ WaremaDropped(wire, unreturned, 0) /\ WaremaNone(wire, 0, fed, "close")
  BY <1>1 DEF WaremaHeld, WaremaOnly, WaremaNone, WaremaDropped
<1>6. WaremaBehind(0) /\ 0 \in 0..fed
  BY <1>1, <1>3, <1>5 DEF WaremaBehind
<1> QED
  BY <1>1, <1>2, <1>3, <1>4, <1>6 DEF WaremaInv

LEMMA WaremaInvFeed == ASSUME WaremaInv, Warema!Feed PROVE WaremaInv'
<1>1. /\ WaremaWire(wire) /\ fed \in 0..Len(wire)
      /\ maxBuffer \in BufferLimits /\ Len(buffer) <= maxBuffer
      /\ unreturned \subseteq 1..MaxMarks
      /\ got \in Seq(WaremaSpan) /\ WaremaRising(got)
  BY DEF WaremaInv
<1>2. wire \in Seq(WaremaMark) /\ Len(wire) \in Nat
  BY <1>1 DEF WaremaWire
<1>3. PICK p \in 0..fed : WaremaBehind(p)
  BY DEF WaremaInv
<1>4. PICK n \in 1..(Len(wire) - fed) :
        LET marks == buffer \o SubSeq(wire, fed + 1, fed + n)
            loop == Warema!Loop(marks) IN
        /\ fed' = fed + n
        /\ IF Len(marks) > maxBuffer
           THEN /\ buffer' = <<>>
                /\ unreturned' = unreturned \cup {m.at : m \in Warema!ToSet(marks)}
                /\ feedRaised' = TRUE
                /\ UNCHANGED got
           ELSE /\ buffer' = loop.rest
                /\ feedRaised' = loop.raises
                /\ IF loop.raises
                   THEN /\ unreturned' = unreturned \cup
                                           {f.from : f \in Warema!ToSet(loop.frames)}
                        /\ UNCHANGED got
                   ELSE got' = got \o loop.frames /\ UNCHANGED unreturned
  BY DEF Warema!Feed
<1>5. wire' = wire /\ maxBuffer' = maxBuffer
  BY DEF Warema!Feed
<1> DEFINE q == fed + n
           marks == SubSeq(wire, p + 1, q)
           x == Warema!Loop(marks)
<1>6. /\ p \in Nat /\ q \in Nat /\ p <= fed /\ fed <= q /\ q <= Len(wire) /\ fed \in Nat
      /\ q \in 0..Len(wire) /\ p \in 0..Len(wire) /\ q \in p..Len(wire)
      /\ fed \in p..Len(wire) /\ q \in fed..Len(wire) /\ maxBuffer \in Nat
  BY <1>1, <1>2, WaremaBound
<1>7. buffer \o SubSeq(wire, fed + 1, fed + n) = marks
  <2>1. buffer = SubSeq(wire, p + 1, fed)
    BY <1>3 DEF WaremaBehind
  <2> HIDE DEF q
  <2>2. SubSeq(wire, p + 1, fed) \o SubSeq(wire, fed + 1, q) = SubSeq(wire, p + 1, q)
    BY <1>2, <1>6, PartsMeet
  <2> QED
    BY <2>1, <2>2 DEF q
<1>8. fed' = q
  BY <1>4
<1>8a. /\ WaremaHeld(got, unreturned, wire, p) /\ WaremaOnly(got, wire, unreturned, 0, p)
       /\ WaremaDropped(wire, unreturned, p)
  BY <1>3 DEF WaremaBehind
<1>8b. Len(marks) = q - p /\ marks \in Seq(WaremaMark) /\ \A i \in 1..(q - p) : marks[i] = wire[p + i]
  <2> HIDE DEF q
  <2> QED
    BY <1>2, <1>6, PartOfSequence
<1>9. CASE Len(marks) > maxBuffer
  <2> DEFINE lost == {m.at : m \in ToSet(marks)}
             U == unreturned \cup lost
  <2>1. /\ buffer' = <<>> /\ unreturned' = U /\ feedRaised' = TRUE /\ got' = got
    BY <1>4, <1>7, <1>9, WaremaToSet
  <2> HIDE DEF marks, q
  <2>3. lost \subseteq 1..MaxMarks
    <3>1. \A m \in ToSet(marks) : m \in WaremaMark
      BY <1>8b DEF ToSet
    <3> QED
      BY <3>1 DEF WaremaMark
  <2>4. \A i \in (p + 1)..q : i \in lost
    <3> TAKE i \in (p + 1)..q
    <3>1. i - p \in 1..(q - p) /\ p + (i - p) = i /\ i \in 1..Len(wire)
      BY <1>6
    <3>2. marks[i - p] = wire[i] /\ wire[i].at = i
      BY <1>1, <1>8b, <3>1 DEF WaremaWire
    <3>3. wire[i] \in ToSet(marks)
      BY <1>6, <1>8b, <3>1, <3>2 DEF ToSet
    <3> QED
      BY <3>2, <3>3
  <2> HIDE DEF lost
  <2>4a. p <= q /\ unreturned \subseteq unreturned \cup lost
    BY <1>6
  <2>5. WaremaHeld(got, unreturned \cup lost, wire, q)
    BY <1>6, <1>8a, <2>4, <2>4a, WaremaKeepsBack
  <2>6. WaremaOnly(got, wire, unreturned \cup lost, 0, q)
    BY <1>6, <1>8a, <2>4a, WaremaOnlyLonger
  <2>6a. WaremaDropped(wire, U, q)
    <3> SUFFICES ASSUME NEW o \in 1..q, wire[o].mark = "open",
                        \A i \in o..q : wire[i].mark # "close"
                 PROVE  o \in U
      BY DEF WaremaDropped
    <3>1. CASE o \in 1..p
      <4>1. \A i \in o..p : i \in o..q
        BY <1>6
      <4> QED
        BY <1>8a, <3>1, <4>1 DEF WaremaDropped
    <3>2. CASE o \in (p + 1)..q
      BY <2>4, <3>2
    <3> QED
      BY <1>6, <3>1, <3>2
  <2>7. SubSeq(wire, q + 1, q) = <<>>
    BY <1>2, <1>6
  <2>8. PICK r \in Nat : r = q
    BY <1>6
  <2>9. WaremaBehind(r)' /\ r \in 0..fed'
    BY <1>5, <1>6, <1>8, <2>1, <2>5, <2>6, <2>6a, <2>7, <2>8 DEF WaremaBehind
  <2>10. Len(buffer') <= maxBuffer' /\ unreturned' \subseteq 1..MaxMarks
    <3>1. Len(<<>>) = 0
      OBVIOUS
    <3> QED
      BY <1>1, <1>5, <1>6, <2>1, <2>3, <3>1
  <2>11. feedRaised' \in BOOLEAN /\ got' = got
    BY <2>1
  <2> HIDE DEF U
  <2> QED
    BY <1>1, <1>5, <1>6, <1>8, <2>9, <2>10, <2>11 DEF WaremaInv
<1>10. CASE ~(Len(marks) > maxBuffer)
  <2> DEFINE V == {f.from : f \in ToSet(x.frames)}
  <2>1. /\ buffer' = x.rest /\ feedRaised' = x.raises
        /\ x.raises => unreturned' = unreturned \cup V /\ got' = got
        /\ ~x.raises => got' = got \o x.frames /\ unreturned' = unreturned
    BY <1>4, <1>7, <1>10, WaremaToSet
  <2>2. WaremaWalked(x, wire, p, q)
    <3> HIDE DEF q
    <3> QED
      BY <1>1, <1>6, WaremaLoopWalks
  <2>3. Len(marks) <= maxBuffer
    <3>1. Len(marks) \in Nat
      BY <1>8b
    <3> QED
      BY <1>6, <1>10, <3>1
  <2> HIDE DEF marks, q, x
  <2>4. x \in WaremaResult /\ WaremaRising(x.frames)
    BY <2>2 DEF WaremaWalked
  <2>5. PICK r \in p..q : WaremaReached(x, wire, p, q, r)
    BY <2>2 DEF WaremaWalked
  <2>6. x.frames \in Seq(WaremaSpan) /\ x.raises \in BOOLEAN
    BY <2>4 DEF WaremaResult
  <2>7. /\ r \in Nat /\ p <= r /\ r <= Len(wire) /\ r \in 0..q
        /\ r \in 0..Len(wire) /\ q \in r..Len(wire)
    BY <1>6
  <2>8. /\ x.rest = SubSeq(wire, r + 1, q) /\ WaremaEnds(wire, p, r)
        /\ ~x.raises => WaremaNone(wire, r, q, "close")
        /\ WaremaFound(x.frames, wire, p, r) /\ WaremaOnly(x.frames, wire, 1..p, p, r)
    BY <2>5 DEF WaremaReached
  <2>10. Len(x.rest) <= maxBuffer
    <3>1. Len(x.rest) = q - r
      BY <1>2, <2>7, <2>8, PartOfSequence
    <3> QED
      BY <1>6, <1>8b, <2>3, <2>7, <3>1
  <2>11. V \subseteq 1..MaxMarks
    BY <1>1, <1>6, <2>6, <2>7, <2>8, WaremaNumbers
  <2>12. CASE x.raises
    <3>1. unreturned' = unreturned \cup V /\ got' = got /\ feedRaised' = TRUE
      BY <2>1, <2>6, <2>12
    <3>2. ASSUME NEW s \in (p + 1)..r, NEW e \in 1..Len(wire),
                 WaremaFrame(wire, {}, s, e), Warema!Decodes(SubSeq(wire, s, e))
          PROVE  s \in V
      <4>1. e \in 1..r /\ p < s /\ WaremaFrame(wire, 1..p, s, e)
        BY <1>2, <1>6, <2>7, <2>8, <3>2, WaremaEndsThere
      <4>2. s \in 1..r
        BY <2>7, <4>1
      <4>3. PICK j \in 1..Len(x.frames) : x.frames[j] = [from |-> s, to |-> e]
        BY <2>8, <3>2, <4>1, <4>2 DEF WaremaFound
      <4>4. x.frames[j] \in ToSet(x.frames) /\ x.frames[j].from = s
        BY <2>6, <4>3 DEF ToSet
      <4> QED
        BY <4>4
    <3> HIDE DEF V
    <3>3. WaremaHeld(got, unreturned \cup V, wire, r)
      BY <1>6, <1>8a, <2>7, <3>2, WaremaKeepsBack
    <3>4. WaremaOnly(got, wire, unreturned \cup V, 0, r)
      BY <1>6, <1>8a, <2>7, WaremaOnlyLonger
    <3>4a. WaremaDropped(wire, unreturned \cup V, r)
      BY <1>6, <1>8a, <2>7, <2>8, WaremaStillDropped
    <3>5. WaremaBehind(r)' /\ r \in 0..fed'
      BY <1>5, <1>8, <2>1, <2>7, <2>8, <3>1, <3>3, <3>4, <3>4a DEF WaremaBehind
    <3>6. Len(buffer') <= maxBuffer' /\ unreturned' \subseteq 1..MaxMarks
      BY <1>1, <1>5, <2>1, <2>10, <2>11, <3>1
    <3> QED
      BY <1>1, <1>5, <1>6, <1>8, <3>1, <3>5, <3>6 DEF WaremaInv
  <2>13. CASE ~x.raises
    <3> DEFINE u == got \o x.frames
    <3>1. got' = u /\ unreturned' = unreturned /\ feedRaised' = FALSE
      BY <2>1, <2>6, <2>13
    <3>2. /\ WaremaRising(u) /\ WaremaOnly(u, wire, unreturned, 0, r)
          /\ WaremaHeld(u, unreturned, wire, r)
      BY <1>1, <1>2, <1>6, <1>8a, <2>4, <2>6, <2>7, <2>8, WaremaReturns
    <3>2a. WaremaDropped(wire, unreturned, r)
      BY <1>6, <1>8a, <2>7, <2>8, WaremaStillDropped
    <3>3. u \in Seq(WaremaSpan)
      BY <1>1, <2>6
    <3> HIDE DEF u
    <3>4. WaremaBehind(r)' /\ r \in 0..fed'
      BY <1>5, <1>8, <2>1, <2>7, <2>8, <2>13, <3>1, <3>2, <3>2a DEF WaremaBehind
    <3>6. Len(buffer') <= maxBuffer'
      BY <1>5, <2>1, <2>10
    <3> QED
      BY <1>1, <1>5, <1>6, <1>8, <3>1, <3>2, <3>3, <3>4, <3>6 DEF WaremaInv
  <2> QED
    BY <2>12, <2>13
<1> QED
  BY <1>9, <1>10

LEMMA WaremaInvariant == Spec => []WaremaInv
<1>1. WaremaInv /\ [Warema!Next]_(Warema!vars) => WaremaInv'
  <2> SUFFICES ASSUME WaremaInv, [Warema!Next]_(Warema!vars) PROVE WaremaInv'
    OBVIOUS
  <2>1. CASE UNCHANGED Warema!vars
    <3>1. UNCHANGED <<wire, fed, buffer, maxBuffer, got, unreturned, feedRaised>>
      BY <2>1 DEF Warema!vars
    <3> QED
      BY <3>1 DEF WaremaInv, WaremaBehind
  <2> QED
    BY <2>1, WaremaInvFeed DEF Warema!Next
<1> QED
  BY <1>1, WaremaInvInit, WaremaBehaves, PTL

(* What the reader of the blinds holds is within its limit, and the frames    *)
(* it returned or lost are of places of the wire.                           *)
THEOREM WaremaTypeCorrect == Spec => []Warema!TypeOK
<1>1. WaremaInv => Warema!TypeOK
  <2> SUFFICES ASSUME WaremaInv PROVE Warema!TypeOK
    OBVIOUS
  <2>1. /\ WaremaWire(wire) /\ fed \in 0..Len(wire) /\ got \in Seq(WaremaSpan)
        /\ Len(wire) \in Nat
    BY DEF WaremaInv, WaremaWire
  <2>2. PICK p \in 0..fed : WaremaOnly(got, wire, unreturned, 0, p)
    BY DEF WaremaInv, WaremaBehind
  <2>3. p \in Nat /\ p <= Len(wire) /\ 0 \in Nat
    BY <2>1
  <2>4. ToSet(got) \subseteq Warema!Span
    BY <2>1, <2>2, <2>3, WaremaNumbers
  <2> QED
    BY <2>1, <2>4, WaremaToSet DEF WaremaInv, WaremaWire, WaremaMark, Warema!TypeOK
<1> QED
  BY <1>1, WaremaInvariant, PTL

(* Every frame that stands in what was fed and can be decoded is returned     *)
(* once and in its order, or it waits in the buffer after a feed that raised, *)
(* or a feed raised over it, and nothing else is returned: whatever the line  *)
(* lost, wherever the chunks were cut and whatever limit the buffer has.      *)
THEOREM WaremaCorrect == Spec => []Warema!ChunksDoNotMatter
<1>1. WaremaInv => Warema!ChunksDoNotMatter
  <2> SUFFICES ASSUME WaremaInv PROVE Warema!ChunksDoNotMatter
    OBVIOUS
  <2> DEFINE marks == SubSeq(wire, 1, fed)
  <2>1. /\ WaremaWire(wire) /\ fed \in 0..Len(wire) /\ Len(wire) \in Nat
        /\ got \in Seq(WaremaSpan) /\ WaremaRising(got)
    BY DEF WaremaInv, WaremaWire
  <2>3. PICK p \in 0..fed : WaremaBehind(p)
    BY DEF WaremaInv
  <2>4. /\ buffer = SubSeq(wire, p + 1, fed)
        /\ WaremaHeld(got, unreturned, wire, p) /\ WaremaOnly(got, wire, unreturned, 0, p)
        /\ ~feedRaised => WaremaNone(wire, p, fed, "close")
    BY <2>3 DEF WaremaBehind
  <2>5. ASSUME NEW m, NEW U
        PROVE  m \in Warema!Frames(marks, U) <=>
                 \E s, e \in 1..fed : WaremaFrame(wire, U, s, e) /\ m = [from |-> s, to |-> e]
    <3>1. 0 \in 0..Len(wire) /\ fed \in 0..Len(wire) /\ 0 + 1 = 1 /\ (1..0) \cup U = U
      BY <2>1
    <3>2. m \in Warema!Frames(SubSeq(wire, 0 + 1, fed), U)
            <=> \E s, e \in (0 + 1)..fed : /\ WaremaFrame(wire, (1..0) \cup U, s, e)
                                           /\ m = [from |-> s, to |-> e]
      <4> DEFINE z == 0
      <4>1. z \in 0..Len(wire) /\ fed \in z..Len(wire) /\ WaremaWire(wire)
        BY <2>1, <3>1
      <4> HIDE DEF z
      <4>2. m \in Warema!Frames(SubSeq(wire, z + 1, fed), U)
              <=> \E s, e \in (z + 1)..fed : /\ WaremaFrame(wire, (1..z) \cup U, s, e)
                                             /\ m = [from |-> s, to |-> e]
        BY <4>1, WaremaFramesIn
      <4> QED
        BY <4>2 DEF z
    <3> QED
      BY <3>1, <3>2
  <2>6. ASSUME NEW m
        PROVE  m \in Warema!Frames(buffer, {}) <=>
                 \E s, e \in (p + 1)..fed : /\ WaremaFrame(wire, 1..p, s, e)
                                            /\ m = [from |-> s, to |-> e]
    <3>1. p \in 0..Len(wire) /\ fed \in p..Len(wire) /\ (1..p) \cup {} = 1..p
      BY <2>1
    <3>2. m \in Warema!Frames(SubSeq(wire, p + 1, fed), {})
            <=> \E s, e \in (p + 1)..fed : /\ WaremaFrame(wire, (1..p) \cup {}, s, e)
                                           /\ m = [from |-> s, to |-> e]
      BY <2>1, <3>1, WaremaFramesIn
    <3> QED
      BY <2>4, <3>1, <3>2
  <2> HIDE DEF marks
  <2>7. ASSUME NEW f \in Warema!Frames(marks, {}), Warema!Decodes(SubSeq(wire, f.from, f.to))
        PROVE  f \in ToSet(got) \/ f.from \in unreturned \/ f \in Warema!Frames(buffer, {})
    <3>1. PICK s \in 1..fed, e \in 1..fed : WaremaFrame(wire, {}, s, e)
                                            /\ f = [from |-> s, to |-> e]
      BY <2>5
    <3>2. f.from = s /\ f.to = e
      BY <3>1
    <3>3. CASE s <= p
      <4>1. s \in 1..p /\ e \in 1..Len(wire)
        BY <2>1, <3>3
      <4>2. Warema!Decodes(SubSeq(wire, s, e))
        BY <2>7, <3>2
      <4>3. (\E j \in 1..Len(got) : got[j] = [from |-> s, to |-> e]) \/ s \in unreturned
        BY <2>4, <3>1, <4>1, <4>2 DEF WaremaHeld
      <4>4. ASSUME NEW j \in 1..Len(got), got[j] = [from |-> s, to |-> e]
            PROVE  f \in ToSet(got)
        <5>1. got[j] \in ToSet(got)
          BY <2>1 DEF ToSet
        <5> QED
          BY <3>1, <4>4, <5>1, Zenon
      <4> QED
        BY <3>2, <4>3, <4>4
    <3>4. CASE s > p
      <4>1. s < e /\ WaremaFrame(wire, 1..p, s, e)
        <5>1. {} \subseteq 1..p
          OBVIOUS
        <5> QED
          BY <3>1, <5>1, WaremaFrameStays DEF WaremaFrame
      <4>2. s \in (p + 1)..fed /\ e \in (p + 1)..fed
        BY <2>1, <3>4, <4>1
      <4> QED
        BY <2>6, <3>1, <4>1, <4>2
    <3> QED
      BY <2>1, <3>3, <3>4
  <2>8. ToSet(got) \subseteq Warema!Frames(marks, unreturned)
    <3> SUFFICES ASSUME NEW j \in 1..Len(got) PROVE got[j] \in Warema!Frames(marks, unreturned)
      BY <2>1 DEF ToSet
    <3>1. PICK s \in 1..p, e \in 1..p : WaremaFrame(wire, unreturned, s, e)
                                        /\ got[j] = [from |-> s, to |-> e]
      BY <2>4 DEF WaremaOnly
    <3>2. s \in 1..fed /\ e \in 1..fed
      BY <2>1, <3>1
    <3> QED
      BY <2>5, <3>1, <3>2
  <2>9. \A i, j \in DOMAIN got : i < j => got[i].to < got[j].from
    <3>1. DOMAIN got = 1..Len(got)
      BY <2>1
    <3> QED
      BY <2>1, <3>1, Zenon DEF WaremaRising
  <2>10. ASSUME ~feedRaised PROVE Warema!Frames(buffer, {}) = {}
    <3> SUFFICES ASSUME NEW m \in Warema!Frames(buffer, {}) PROVE FALSE
      OBVIOUS
    <3>1. PICK s \in (p + 1)..fed, e \in (p + 1)..fed : WaremaFrame(wire, 1..p, s, e)
      BY <2>6
    <3>2. wire[e].mark = "close"
      BY <3>1 DEF WaremaFrame
    <3>3. WaremaNone(wire, p, fed, "close")
      BY <2>4, <2>10
    <3> QED
      BY <3>2, <3>3 DEF WaremaNone
  <2> QED
    BY <2>7, <2>8, <2>9, <2>10, WaremaToSet DEF Warema!ChunksDoNotMatter, marks
<1> QED
  BY <1>1, WaremaInvariant, PTL

-----------------------------------------------------------------------------
(* The parts together *)

(* The gateway's reader gives every answer as it was sent or rejects the    *)
(* batch, for every set of resources, answers and notifications; and the    *)
(* receiver's gives every frame that can be decoded of what came over the   *)
(* wire, once and in its order, unless a feed raised over it: for every     *)
(* sequence of braces and texts, so whatever brace was lost, every cut and  *)
(* every limit of the buffer.                                               *)
THEOREM ReadersCorrect == Spec => []ReadersAreExact
<1>1. Ledz!AnswersAreExact /\ Warema!ChunksDoNotMatter => ReadersAreExact
  BY DEF ReadersAreExact
<1> QED
  BY <1>1, LedzCorrect, WaremaCorrect, PTL

(* The part does not change, and the state of each part keeps its type.     *)
THEOREM TypesCorrect == Spec => []TypeOK
<1>1. Init => part \in Part
  BY DEF Init
<1>2. part \in Part /\ [Next]_vars => (part \in Part)'
  <2> SUFFICES ASSUME part \in Part, [Next]_vars PROVE part' = part
    OBVIOUS
  <2>1. CASE UNCHANGED vars
    BY <2>1 DEF vars
  <2>2. CASE \E p \in Part : Of(p)
    BY <2>2 DEF Of
  <2> QED
    BY <2>1, <2>2, OneOfAPart
<1>3. Spec => [](part \in Part)
  BY <1>1, <1>2, PTL DEF Spec
<1>4. /\ part \in Part /\ Cloud!TypeOK /\ Alarms!TypeOK /\ Snapshot!TypeOK
      /\ Queue!TypeOK /\ Sheets!TypeOK /\ Devices!TypeOK /\ Readings!TypeOK
      /\ Archive!TypeOK /\ Gate!TypeOK /\ Ledz!TypeOK /\ Warema!TypeOK
      => TypeOK
  BY Zenon DEF TypeOK
<1> QED
  BY <1>3, <1>4, CloudTypeCorrect, AlarmsTypeCorrect, SnapshotTypeCorrect,
     QueueTypeCorrect, ReportsTypeCorrect, DevicesTypeCorrect,
     HistoryTypeCorrect, ArchiveTypeCorrect, GateTypeCorrect,
     LedzTypeCorrect, WaremaTypeCorrect, PTL
=============================================================================
