------------------------------ MODULE GasQueue ------------------------------
(***************************************************************************)
(* The queue of daily answers that the Apps Script keeps in a Drive folder, *)
(* and the importer of FusionSolarGasQueueImporter.run that copies a        *)
(* downloaded queue into raw_data.  The importer compares every file with   *)
(* the table, then compares again and writes in one transaction; the        *)
(* collectors of the household store answers for the same days at any time. *)
(* An item is a source with a target date, an answer is its payload: a file *)
(* is named by both, a local row may hold the answer of a part of the day.  *)
(***************************************************************************)
EXTENDS Integers, Sequences, FiniteSets, SequencesExt

CONSTANTS
    Item,         \* sources with a target date
    Payload,      \* the answers the cloud may give for an item
    MaxAttempts,  \* SUMICORE_MAX_ATTEMPTS_PER_SOURCE_DATE, 3 in the code
    MaxMade,      \* bound: files the queue ever makes
    MaxRows       \* bound: rows the collectors store

QueueAssumption ==
    MaxAttempts \in Nat \ {0} /\ MaxMade \in Nat /\ MaxRows \in Nat

VARIABLES
    folder,      \* files of the queue
    made,        \* number of files made; stands for collected_at
    rows,        \* raw_data of these sources; a row's id is its place
    receipts,    \* gas_import_receipts
    candidates,  \* files of the running import
    import       \* "none", "compared", or how the last import ended

vars == <<folder, made, rows, receipts, candidates, import>>

File == [item : Item, payload : Payload, envelope : 1..MaxMade]

TypeOK ==
    /\ folder \subseteq File
    /\ made \in 0..MaxMade
    /\ rows \in Seq([item : Item, payload : Payload, by : {"queue", "collector"}])
    /\ receipts \subseteq [item : Item, payload : Payload,
                           envelope : 1..MaxMade, raw : 1..Len(rows)]
    /\ candidates \subseteq File
    /\ import \in {"none", "compared", "completed", "blocked", "failed"}

Init ==
    /\ folder = {} /\ made = 0
    /\ rows = <<>> /\ receipts = {}
    /\ candidates = {} /\ import = "none"

-----------------------------------------------------------------------------
(* Around the importer *)

OfItem(files, i) == {f \in files : f.item = i}

\* queueRawData_, under the script lock: an answer that is queued already is
\* left alone, and an item gets at most MaxAttempts different ones.
QueueRawData ==
    /\ made < MaxMade
    /\ \E i \in Item, p \in Payload :
         /\ \A f \in OfItem(folder, i) : f.payload # p
         /\ Cardinality(OfItem(folder, i)) < MaxAttempts
         /\ folder' = folder \cup {[item |-> i, payload |-> p, envelope |-> made + 1]}
    /\ made' = made + 1
    /\ UNCHANGED <<rows, receipts, candidates, import>>

\* Somebody removes a file from the folder.
RemoveFile ==
    /\ \E f \in folder : folder' = folder \ {f}
    /\ UNCHANGED <<made, rows, receipts, candidates, import>>

\* A collector of this house commits an answer, which may cover the item's
\* day in part or a second time.
StoreLocal ==
    /\ Len(SelectSeq(rows, LAMBDA r : r.by = "collector")) < MaxRows
    /\ \E i \in Item, p \in Payload :
         rows' = Append(rows, [item |-> i, payload |-> p, by |-> "collector"])
    /\ UNCHANGED <<folder, made, receipts, candidates, import>>

-----------------------------------------------------------------------------
(* The importer *)

RowsOf(f) == {n \in DOMAIN rows : rows[n].item = f.item}
First(ids) == CHOOSE n \in ids : \A m \in ids : n <= m

\* _existing_raw: the id of a row with the same payload, or 0.
ExistingRaw(f) ==
    LET same == {n \in RowsOf(f) : rows[n].payload = f.payload}
    IN IF same = {} THEN 0 ELSE First(same)

ReceiptsOf(f) == {r \in receipts : r.item = f.item /\ r.payload = f.payload}

\* receipt_metadata_conflict: the same answer came in another envelope.
ReceiptContradicts(f) == \E r \in ReceiptsOf(f) : r.envelope # f.envelope

Conflicts(f) == ReceiptsOf(f) = {} /\ ExistingRaw(f) = 0 /\ RowsOf(f) # {}

\* _candidates and the first _compare; nothing is written.  Two answers for
\* one item, or a receipt that contradicts, end it with an exception.
CompareQueue ==
    /\ import # "compared"
    /\ \E files \in SUBSET folder \ {{}} :
         /\ import' = IF \/ \E f, g \in files : f.item = g.item /\ f.payload # g.payload
                         \/ \E f \in files : ReceiptContradicts(f)
                      THEN "failed"
                      ELSE IF \E f \in files : Conflicts(f) THEN "blocked"
                      ELSE "compared"
         /\ candidates' = IF import' = "compared" THEN files ELSE {}
    /\ UNCHANGED <<folder, made, rows, receipts>>

\* Variant: the comparison before the transaction decides.
StillBlockedNever(files) == FALSE

\* The second _compare, under BEGIN IMMEDIATE.
StillBlocked(files) == \E f \in files : Conflicts(f)

\* The transaction: a row for every answer the table does not hold, a receipt
\* for every file that has none.
ImportQueue ==
    /\ import = "compared"
    /\ IF StillBlocked(candidates)
       THEN import' = "blocked" /\ UNCHANGED <<rows, receipts>>
       ELSE LET open == {f \in candidates : ReceiptsOf(f) = {}}
                new == SetToSeq({f \in open : ExistingRaw(f) = 0})
                raw(f) == IF ExistingRaw(f) # 0 THEN ExistingRaw(f)
                          ELSE Len(rows) + CHOOSE k \in DOMAIN new : new[k] = f
            IN /\ rows' = rows \o [k \in DOMAIN new |->
                     [item |-> new[k].item, payload |-> new[k].payload, by |-> "queue"]]
               /\ receipts' = receipts \cup
                     {[item |-> f.item, payload |-> f.payload,
                       envelope |-> f.envelope, raw |-> raw(f)] : f \in open}
               /\ import' = "completed"
    /\ candidates' = {}
    /\ UNCHANGED <<folder, made>>

\* The process dies, the dry run ends here, or the transaction fails as a
\* whole, and is rolled back.
ImportFails ==
    /\ import = "compared"
    /\ import' = "failed"
    /\ candidates' = {}
    /\ UNCHANGED <<folder, made, rows, receipts>>

Next ==
    \/ QueueRawData
    \/ RemoveFile
    \/ StoreLocal
    \/ CompareQueue
    \/ ImportQueue
    \/ ImportFails

Spec == Init /\ [][Next]_vars

-----------------------------------------------------------------------------
\* Every receipt names a row with the very answer of its file, every row of
\* the queue has its receipt, and the queue adds an answer only to an item
\* that has none: whatever a collector stores between the comparison and the
\* transaction, an item never gets a second, different answer from the queue.
ReceiptNamesRow ==
    /\ \A r \in receipts : rows[r.raw].item = r.item /\ rows[r.raw].payload = r.payload
    /\ \A n \in DOMAIN rows : rows[n].by = "queue" =>
         /\ \E r \in receipts : r.raw = n
         /\ \A m \in 1..(n - 1) : rows[m].item # rows[n].item
=============================================================================
