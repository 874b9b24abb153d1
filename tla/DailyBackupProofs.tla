-------------------------- MODULE DailyBackupProofs -------------------------
(***************************************************************************)
(* For any number of backups and any retention: the types of the backup    *)
(* directory; that a good backup goes only once one at least as new is      *)
(* there, beside the partial output of stopped gzips if two names or more   *)
(* are kept, and for any retention until gzip, the tool or a power loss has *)
(* spoilt a file; that pruning then counts only complete files; and that a  *)
(* run without errors leaves everything compressed.                         *)
(***************************************************************************)
EXTENDS DailyBackup, OrderLemmas

(* The empty directory is typed.                                            *)
LEMMA InitTyped == Init => TypeOK
<1> USE MaxGenAssumption DEF Gen, Name, Content, Place, Accident, TypeOK
<1> SUFFICES ASSUME Init PROVE TypeOK
  OBVIOUS
<1>1. \A g \in Gen : <<g, "db">> \in Name
  OBVIOUS
<1> HIDE DEF Name
<1>2. file \in [Name -> Content] /\ \A n \in Name : file[n] = "none"
  BY DEF Init
<1>3. \A g \in Gen : file[<<g, "db">>] # "torn"
  BY <1>1, <1>2
<1>4. /\ gen \in 0..MaxGen /\ todo \subseteq Gen /\ obsolete \subseteq Name
      /\ unsynced \subseteq Gen /\ accidents \subseteq {"stopped", "rewritten", "unwritten"}
  BY DEF Init
<1> QED
  BY <1>2, <1>3, <1>4 DEF Init

(* A name is a generation with an ending.                                   *)
LEMMA NamesOfGenerations ==
    /\ \A g \in Gen : <<g, "db">> \in Name /\ <<g, "gz">> \in Name
    /\ \A n \in Name : n[1] \in Gen /\ (n = <<n[1], "db">> \/ n = <<n[1], "gz">>)
    /\ \A n \in Name : Rank(n) \in Nat
    /\ \A m, n \in Name : Rank(m) = Rank(n) => m = n
    /\ \A m, n \in Name : Rank(m) > Rank(n) => m[1] >= n[1]
<1> USE MaxGenAssumption DEF Gen, Name
<1>1. \A n \in Name : n[1] \in Gen /\ n[2] \in {"db", "gz"} /\ n = <<n[1], n[2]>>
  OBVIOUS
<1>2. \A n \in Name : Rank(n) = 2 * n[1] \/ Rank(n) = 2 * n[1] + 1
  BY <1>1 DEF Rank
<1>3. ASSUME NEW m \in Name, NEW n \in Name, Rank(m) = Rank(n) PROVE m = n
  BY <1>1, <1>3 DEF Rank
<1>4. ASSUME NEW m \in Name, NEW n \in Name, Rank(m) > Rank(n) PROVE m[1] >= n[1]
  BY <1>1, <1>2, <1>4
<1> QED
  BY <1>1, <1>2, <1>3, <1>4


(* What each of the ways to change a file does to every name.               *)
LEMMA Replacing ==
    ASSUME file \in [Name -> Content], NEW g \in Gen, GzipReplaces(g)
    PROVE  /\ file' \in [Name -> Content]
           /\ unsynced' = unsynced \cup {g}
           /\ \A h \in Gen :
                /\ file'[<<h, "gz">>] = IF h = g THEN "good" ELSE file[<<h, "gz">>]
                /\ file'[<<h, "db">>] = IF h = g THEN "none" ELSE file[<<h, "db">>]
BY NamesOfGenerations DEF GzipReplaces, Content

LEMMA Leaving ==
    ASSUME file \in [Name -> Content], NEW g \in Gen, NEW left \in Content,
           GzipLeaves(g, left)
    PROVE  /\ file' \in [Name -> Content]
           /\ unsynced' = IF left = "none" THEN unsynced \ {g} ELSE unsynced \cup {g}
           /\ \A h \in Gen :
                /\ file'[<<h, "gz">>] = IF h = g THEN left ELSE file[<<h, "gz">>]
                /\ file'[<<h, "db">>] = file[<<h, "db">>]
BY NamesOfGenerations DEF GzipLeaves, Content

LEMMA Adding ==
    ASSUME file \in [Name -> Content], gen \in 0..MaxGen, NewBackup
    PROVE  /\ gen' = gen + 1 /\ gen + 1 \in Gen /\ gen \in Nat
           /\ file' \in [Name -> Content]
           /\ gen' \in 0..MaxGen
           /\ \A h \in Gen :
                /\ file'[<<h, "gz">>] = file[<<h, "gz">>]
                /\ file'[<<h, "db">>] = IF h = gen + 1 THEN "good" ELSE file[<<h, "db">>]
<1>1. gen' = gen + 1 /\ gen + 1 \in Gen /\ gen \in Nat /\ gen' \in 0..MaxGen
  BY MaxGenAssumption DEF NewBackup, Gen
<1> QED
  BY <1>1, NamesOfGenerations DEF NewBackup, Content

LEMMA Copying ==
    ASSUME file \in [Name -> Content], NEW g \in Gen, VerifiedCompression(g)
    PROVE  /\ file' \in [Name -> Content]
           /\ \A h \in Gen :
                /\ file'[<<h, "gz">>] = IF h = g THEN "good" ELSE file[<<h, "gz">>]
                /\ file'[<<h, "db">>] = file[<<h, "db">>]
BY NamesOfGenerations DEF VerifiedCompression, Content

LEMMA Tearing ==
    ASSUME file \in [Name -> Content], NEW T \in SUBSET Gen,
           file' = [n \in Name |-> IF n[2] = "gz" /\ n[1] \in T THEN "torn" ELSE file[n]]
    PROVE  /\ file' \in [Name -> Content]
           /\ \A g \in Gen : /\ file'[<<g, "db">>] = file[<<g, "db">>]
                              /\ file'[<<g, "gz">>] = IF g \in T THEN "torn"
                                                      ELSE file[<<g, "gz">>]
BY NamesOfGenerations DEF Content

(* The tool removes no more than the .db it has a copy of.                  *)
LEMMA ToolEndsRemoves ==
    ASSUME file \in [Name -> Content], tool \in {0} \cup Gen, ToolEnds
    PROVE  /\ tool \in Gen
           /\ file' \in [Name -> Content]
           /\ \A h \in Gen :
                /\ file'[<<h, "gz">>] = file[<<h, "gz">>]
                /\ \/ file'[<<h, "db">>] = file[<<h, "db">>]
                   \/ h = tool /\ file'[<<h, "db">>] = "none"
<1>1. tool \in Gen
  BY DEF ToolEnds
<1>2. CASE UNCHANGED file
  BY <1>1, <1>2
<1>3. CASE file' = [file EXCEPT ![<<tool, "db">>] = "none"]
  BY <1>1, <1>3, NamesOfGenerations DEF Content
<1> QED
  BY <1>2, <1>3 DEF ToolEnds

LEMMA Removing ==
    ASSUME file \in [Name -> Content], NEW k \in Name, file' = [file EXCEPT ![k] = "none"]
    PROVE  /\ file' \in [Name -> Content]
           /\ \A n \in Name : file'[n] = IF n = k THEN "none" ELSE file[n]
           /\ \A h \in Gen :
                /\ file'[<<h, "gz">>] = IF k = <<h, "gz">> THEN "none" ELSE file[<<h, "gz">>]
                /\ file'[<<h, "db">>] = IF k = <<h, "db">> THEN "none" ELSE file[<<h, "db">>]
BY NamesOfGenerations DEF Content

\* The backup directory has the types its variables are meant to have, through
\* failures, kills, power losses and the tool, and no .db is ever torn: gzip
\* writes only the .gz.
THEOREM TypeCorrect == Spec => []TypeOK
<1> DEFINE Whole == \A h \in Gen : file[<<h, "db">>] # "torn"
<1>1. Init => TypeOK
  BY InitTyped
<1>2. TypeOK /\ [Next]_vars => TypeOK'
  <2> SUFFICES ASSUME TypeOK, [Next]_vars PROVE TypeOK'
    OBVIOUS
  <2> USE NamesOfGenerations DEF TypeOK, Place
  <2>1. CASE StartBackups
    BY <2>1 DEF StartBackups, Databases
  <2>2. CASE GzipSucceeds
    <3>1. PICK g \in todo : GzipReplaces(g) /\ todo' = todo \ {g}
      BY <2>2 DEF GzipSucceeds
    <3>2. g \in Gen
      BY <3>1
    <3>3. file' \in [Name -> Content] /\ Whole'
      BY <3>1, <3>2, Replacing
    <3>4. unsynced' \subseteq Gen
      BY <3>1, <3>2 DEF GzipReplaces
    <3> QED
      BY <2>2, <3>1, <3>3, <3>4 DEF GzipSucceeds
  <2>3. CASE GzipFails
    <3>1. PICK g \in todo, left \in Content :
            /\ GzipLeaves(g, left)
            /\ IF left = "none" THEN CompressionFailed
                                ELSE NextFile(g) /\ status' = 1
            /\ accidents' = accidents \cup Spoils(g, left)
                             \cup IF left = "torn" THEN {"stopped"} ELSE {}
      BY <2>3 DEF GzipFails
    <3>2. g \in Gen
      BY <3>1
    <3>5. file' \in [Name -> Content] /\ Whole'
      BY <3>1, <3>2, Leaving
    <3>6. unsynced' \subseteq Gen
      BY <3>1, <3>2 DEF GzipLeaves
    <3>3. accidents' \subseteq Accident
      BY <3>1 DEF Spoils, Accident
    <3>4. pc' \in Place /\ todo' \subseteq Gen /\ status' \in {0, 1}
      BY <3>1 DEF CompressionFailed, NextFile
    <3> QED
      BY <2>3, <3>3, <3>4, <3>5, <3>6 DEF GzipFails
  <2>4. CASE SourceIsGone
    BY <2>4 DEF SourceIsGone, CompressionFailed, NextFile
  <2>5. CASE CompressDone
    BY <2>5 DEF CompressDone
  <2>6. CASE ListObsolete
    BY <2>6 DEF ListObsolete, Redundant, Files
  <2>7. CASE RemoveOldest
    <3>1. PICK n \in obsolete :
            /\ file' = [file EXCEPT ![n] = "none"]
            /\ unsynced' = IF n[2] = "gz" THEN unsynced \ {n[1]} ELSE unsynced
            /\ obsolete' = obsolete \ {n}
      BY <2>7 DEF RemoveOldest
    <3>2. file' \in [Name -> Content] /\ Whole'
      BY <3>1, Removing
    <3> QED
      BY <2>7, <3>1, <3>2 DEF RemoveOldest
  <2>8. CASE PruneAborts
    BY <2>8 DEF PruneAborts
  <2>9. CASE PruneDone
    BY <2>9 DEF PruneDone
  <2>10. CASE BackupSucceeds
    <3>1. gen' \in 0..MaxGen /\ file' \in [Name -> Content] /\ Whole'
      BY <2>10, Adding DEF BackupSucceeds, Gen
    <3> QED
      BY <2>10, <3>1 DEF BackupSucceeds, NewBackup, BackupEnds, Databases
  <2>11. CASE BackupFails
    BY <2>11 DEF BackupFails, BackupEnds, Databases
  <2>12. CASE EndRun
    BY <2>12 DEF EndRun
  <2>13. CASE ManualBackup
    <3>1. gen' \in 0..MaxGen /\ file' \in [Name -> Content] /\ Whole'
      BY <2>13, Adding DEF ManualBackup, Gen
    <3> QED
      BY <2>13, <3>1 DEF ManualBackup, NewBackup
  <2>14. CASE ToolCompresses
    <3>1. PICK g \in Gen : VerifiedCompression(g) /\ tool' = g
      BY <2>14 DEF ToolCompresses, Databases
    <3>2. file' \in [Name -> Content] /\ Whole'
      BY <3>1, Copying
    <3> QED
      BY <2>14, <3>1, <3>2 DEF ToolCompresses, script
  <2>15. CASE ToolEnds
    <3>1. file' \in [Name -> Content] /\ Whole'
      BY <2>15, ToolEndsRemoves
    <3> QED
      BY <2>15, <3>1 DEF ToolEnds, script
  <2>16. CASE Crash
    <3>1. CASE UNCHANGED <<file, unsynced, accidents>>
      BY <2>16, <3>1 DEF Crash
    <3>2. CASE ~UNCHANGED <<file, unsynced, accidents>>
      <4>1. PICK g \in todo :
              \/ GzipReplaces(g) /\ UNCHANGED accidents
              \/ \E left \in Content : /\ GzipLeaves(g, left)
                                       /\ accidents' = accidents \cup Spoils(g, left)
        BY <2>16, <3>2 DEF Crash
      <4>2. g \in Gen
        BY <4>1
      <4>4. file' \in [Name -> Content] /\ Whole'
        BY <4>1, <4>2, Replacing, Leaving
      <4>5. unsynced' \subseteq Gen
        BY <4>1, <4>2 DEF GzipReplaces, GzipLeaves
      <4>3. accidents' \subseteq Accident
        BY <4>1 DEF Spoils, Accident
      <4> QED
        BY <2>16, <4>3, <4>4, <4>5 DEF Crash
    <3> QED
      BY <3>1, <3>2
  <2>17. CASE WriteBack
    BY <2>17 DEF WriteBack, script
  <2>18. CASE PowerLoss
    <3>1. PICK T \in SUBSET unsynced :
            /\ file' = [n \in Name |-> IF n[2] = "gz" /\ n[1] \in T THEN "torn" ELSE file[n]]
            /\ accidents' = accidents \cup IF T \subseteq Databases THEN {} ELSE {"unwritten"}
      BY <2>18 DEF PowerLoss
    <3>2. file' \in [Name -> Content] /\ Whole'
      BY <3>1, Tearing
    <3>3. accidents' \subseteq Accident
      BY <3>1 DEF Accident
    <3> QED
      BY <2>18, <3>2, <3>3 DEF PowerLoss
  <2>19. CASE UNCHANGED vars
    BY <2>19 DEF vars, script
  <2> QED
    BY <2>1, <2>2, <2>3, <2>4, <2>5, <2>6, <2>7, <2>8, <2>9, <2>10, <2>11,
       <2>12, <2>13, <2>14, <2>15, <2>16, <2>17, <2>18, <2>19 DEF Next, Script
<1> QED
  BY <1>1, <1>2, PTL DEF Spec

-----------------------------------------------------------------------------
(* There are finitely many names.                                           *)
LEMMA FilesAreFinite == IsFiniteSet(Name) /\ IsFiniteSet(Files)
<1>1. IsFiniteSet(Gen)
  BY MaxGenAssumption, FS_Interval DEF Gen
<1>2. IsFiniteSet({"db", "gz"})
  <2>1. IsFiniteSet({"db"})
    BY FS_Singleton
  <2>2. IsFiniteSet({"db"} \cup {"gz"})
    BY <2>1, FS_AddElement
  <2>3. {"db", "gz"} = {"db"} \cup {"gz"}
    OBVIOUS
  <2> QED
    BY <2>2, <2>3
<1>3. IsFiniteSet(Name)
  BY <1>1, <1>2, FS_Product DEF Name
<1> QED
  BY <1>3, FS_Subset DEF Files

(* prune_backups lists a name only if a newer one stays, and leaves no more *)
(* than the retention count.                                                *)
LEMMA ListingKeepsNewest ==
    /\ \A n \in Redundant : \E m \in Files \ Redundant : Rank(m) > Rank(n)
    /\ Cardinality(Files \ Redundant) <= Retention
<1> USE RetentionAssumption, NamesOfGenerations
<1> DEFINE newer(n) == {m \in Files : Rank(m) > Rank(n)}
           kept == Files \ Redundant
<1>1. Files \subseteq Name /\ Redundant \subseteq Files
  BY DEF Files, Redundant
<1>2. \A n \in Files : /\ IsFiniteSet(newer(n))
                       /\ Cardinality(newer(n)) \in Nat
                       /\ n \in Redundant <=> Cardinality(newer(n)) >= Retention
  BY FilesAreFinite, FS_Subset, FS_CardinalityType DEF Redundant
<1>3. ASSUME NEW n \in Redundant
      PROVE  \E m \in kept : Rank(m) > Rank(n)
  <2> DEFINE ranks == {Rank(m) : m \in Files}
  <2>1. ranks \in SUBSET Nat /\ ranks # {}
    BY <1>1, <1>3
  <2>2. \A r \in ranks : r <= 2 * MaxGen + 1
    BY <1>1, MaxGenAssumption DEF Rank, Gen
  <2>3. PICK r \in ranks : \A q \in ranks : q <= r
    <3> DEFINE top == 2 * MaxGen + 1
    <3>1. top \in Nat
      BY MaxGenAssumption
    <3> HIDE DEF ranks, top
    <3>2. \A q \in ranks : q <= top
      BY <2>2 DEF top
    <3> QED
      BY <2>1, <3>1, <3>2, GreatestOfSet
  <2>4. PICK m \in Files : r = Rank(m)
    BY <2>3
  <2>5. newer(m) = {}
    <3>1. ASSUME NEW q \in Files, Rank(q) > Rank(m) PROVE FALSE
      <4>1. Rank(q) <= Rank(m)
        BY <2>3, <2>4
      <4>2. Rank(q) \in Nat /\ Rank(m) \in Nat
        BY <1>1, <2>4
      <4> QED
        BY <3>1, <4>1, <4>2
    <3> QED
      BY <3>1
  <2>6. m \in kept
    BY <1>2, <2>5, FS_EmptySet
  <2>7. newer(n) # {}
    BY <1>1, <1>2, <1>3, FS_EmptySet
  <2>8. Rank(m) > Rank(n)
    <3>1. PICK q \in Files : Rank(q) > Rank(n)
      BY <2>7
    <3>2. Rank(q) <= Rank(m)
      BY <2>3, <2>4, <3>1
    <3>3. Rank(q) \in Nat /\ Rank(m) \in Nat /\ Rank(n) \in Nat
      BY <1>1, <1>3, <2>4, <3>1
    <3> QED
      BY <3>1, <3>2, <3>3
  <2> QED
    BY <2>6, <2>8
<1>4. Cardinality(kept) <= Retention
  <2>1. CASE kept = {}
    BY <2>1, FS_EmptySet
  <2>2. CASE kept # {}
    <3> DEFINE ranks == {Rank(m) : m \in kept}
    <3>1. ranks \in SUBSET Nat /\ ranks # {}
      BY <1>1, <2>2
    <3>2. PICK r \in ranks : \A q \in ranks : r <= q
      <4> HIDE DEF ranks
      <4> QED
        BY <3>1, LeastOfSet
    <3>3. PICK n \in kept : r = Rank(n)
      BY <3>2
    <3>4. kept \ {n} \subseteq newer(n)
      BY <1>1, <3>2, <3>3
    <3>5. Cardinality(newer(n)) \in Nat /\ Cardinality(newer(n)) < Retention
      BY <1>2, <3>3
    <3>6. IsFiniteSet(kept) /\ Cardinality(kept) \in Nat
      BY FilesAreFinite, FS_Subset, FS_CardinalityType
    <3>7. Cardinality(kept \ {n}) = Cardinality(kept) - 1
      BY <3>6, FS_RemoveElement, <3>3
    <3>8. Cardinality(kept \ {n}) <= Cardinality(newer(n))
      BY <1>2, <3>3, <3>4, FS_Subset
    <3> QED
      BY <3>5, <3>6, <3>7, <3>8
  <2> QED
    BY <2>1, <2>2
<1> QED
  BY <1>3, <1>4

(* With two names or more kept, a name that is listed has one of a newer    *)
(* generation behind it; the two names of a generation are listed together. *)
LEMMA ListingKeepsGeneration ==
    /\ Retention >= 2 => \A n \in Redundant : \E m \in Files : m[1] > n[1]
    /\ \A g \in Gen : <<g, "gz">> \in Redundant /\ <<g, "db">> \in Files
                        => <<g, "db">> \in Redundant
    /\ \A n \in Files : (\A m \in Files : Rank(m) <= Rank(n)) => n \notin Redundant
<1> USE RetentionAssumption, NamesOfGenerations
<1> DEFINE newer(n) == {m \in Files : Rank(m) > Rank(n)}
<1>1. Files \subseteq Name /\ Redundant \subseteq Files
  BY DEF Files, Redundant
<1>2. \A n \in Files : /\ IsFiniteSet(newer(n))
                       /\ Cardinality(newer(n)) \in Nat
                       /\ n \in Redundant <=> Cardinality(newer(n)) >= Retention
  BY FilesAreFinite, FS_Subset, FS_CardinalityType DEF Redundant
<1>3. ASSUME Retention >= 2, NEW n \in Redundant, \A m \in Files : ~(m[1] > n[1])
      PROVE  FALSE
  <2>1. n \in Name /\ n[1] \in Gen
    BY <1>1
  <2>2. newer(n) \subseteq {<<n[1], "gz">>}
    <3> SUFFICES ASSUME NEW m \in Files, Rank(m) > Rank(n)  PROVE m = <<n[1], "gz">>
      OBVIOUS
    <3>1. m \in Name /\ m[1] >= n[1] /\ m[1] \in Gen
      BY <1>1, <2>1
    <3>2. m[1] = n[1]
      BY <1>3, <2>1, <3>1 DEF Gen
    <3>3. m # <<n[1], "db">>
      <4>1. CASE n = <<n[1], "db">>
        BY <2>1, <3>1, <4>1
      <4>2. CASE n = <<n[1], "gz">>
        <5>1. Rank(<<n[1], "db">>) < Rank(<<n[1], "gz">>)
          BY <2>1 DEF Rank, Gen
        <5> QED
          BY <2>1, <3>1, <4>2, <5>1
      <4> QED
        BY <2>1, <4>1, <4>2
    <3> QED
      BY <3>1, <3>2, <3>3
  <2>3. IsFiniteSet({<<n[1], "gz">>}) /\ Cardinality({<<n[1], "gz">>}) = 1
    BY FS_Singleton
  <2>4. Cardinality(newer(n)) <= 1
    BY <2>2, <2>3, FS_Subset
  <2> QED
    BY <1>1, <1>2, <1>3, <2>4
<1>4. ASSUME NEW g \in Gen, <<g, "gz">> \in Redundant, <<g, "db">> \in Files
      PROVE  <<g, "db">> \in Redundant
  <2>1. Rank(<<g, "db">>) < Rank(<<g, "gz">>)
    BY DEF Rank, Gen
  <2>2. newer(<<g, "gz">>) \subseteq newer(<<g, "db">>)
    <3> SUFFICES ASSUME NEW m \in Files, Rank(m) > Rank(<<g, "gz">>)
                 PROVE  Rank(m) > Rank(<<g, "db">>)
      OBVIOUS
    <3> HIDE DEF newer
    <3> QED
      BY <1>1, <2>1
  <2>3. Cardinality(newer(<<g, "gz">>)) <= Cardinality(newer(<<g, "db">>))
    BY <1>2, <1>4, <2>2, FS_Subset
  <2>4. <<g, "gz">> \in Files
    BY <1>1, <1>4
  <2> HIDE DEF newer
  <2> QED
    BY <1>2, <1>4, <2>3, <2>4
<1>5. ASSUME NEW n \in Files, \A m \in Files : Rank(m) <= Rank(n)
      PROVE  n \notin Redundant
  <2>1. newer(n) = {}
    BY <1>1, <1>5
  <2> QED
    BY <1>2, <2>1, FS_EmptySet
<1> QED
  BY <1>3, <1>4, <1>5

-----------------------------------------------------------------------------
(* Backups are numbered as they are made; only a .gz that is there may be   *)
(* waiting to be written back.                                              *)
NamesAreMade ==
    /\ \A n \in Files : n[1] <= gen
    /\ \A n \in obsolete : n[1] <= gen
    /\ tool <= gen
    /\ \A g \in unsynced : file[<<g, "gz">>] # "none"

(* The lists of the two loops are empty outside of them.                    *)
ListsAreLocal ==
    /\ todo # {} => Compressing
    /\ obsolete # {} => pc \in {"prune1", "prune2"}

(* As long as gzip has spoilt no .gz behind the tool, a .db that it is      *)
(* about to remove has its .gz or is gone already.                          *)
ToolHasCopy ==
    "rewritten" \notin accidents /\ tool # 0 =>
        file[<<tool, "gz">>] = "good" \/ file[<<tool, "db">>] = "none"

(* A .gz is not removed before the .db beside it.                           *)
ListedTogether ==
    \A g \in Gen : <<g, "gz">> \in obsolete /\ <<g, "db">> \in Files
                    => <<g, "db">> \in obsolete

(* While names are being removed, a newer one than each of them stays, ...  *)
NewerIsKept ==
    "rewritten" \notin accidents =>
        \A n \in obsolete : \E m \in Files \ obsolete : Rank(m) > Rank(n)

(* ... and, with two names kept, one of a newer generation.                 *)
OlderIsPruned ==
    Retention >= 2 /\ "rewritten" \notin accidents =>
        \A n \in obsolete : \E m \in Files : m[1] > n[1]

(* With two names kept the newest generation has a complete file, although  *)
(* a stopped gzip may have left a torn one beside it.                       *)
NewestIsComplete ==
    Retention >= 2 /\ accidents \subseteq {"stopped"} /\ Files # {} =>
        \E n \in Good : \A m \in Files : m[1] <= n[1]

(* After the first compression and before the end of the script.            *)
Settled == {"list1", "prune1", "backup", "compress2", "list2", "prune2"}

(* Without an accident a torn file has its source beside it, and a script   *)
(* that is through its first compression has replaced it.                   *)
TornHasSource ==
    accidents = {} =>
        \A g \in Gen : file[<<g, "gz">>] = "torn" =>
            /\ file[<<g, "db">>] = "good"
            /\ pc \notin Settled
            /\ pc = "compress1" => g \in todo

(* After its own backup a script without an error has only the .db still to *)
(* come, keeps the generation it made, and few names.                       *)
Swept ==
    pc \in {"compress2", "list2", "prune2"} /\ status = 0 /\ ~overtaken =>
        /\ gen \in Gen
        /\ Databases \subseteq todo
        /\ file[<<gen, "gz">>] = "good" \/ file[<<gen, "db">>] = "good"
        /\ tool = gen => file[<<gen, "gz">>] = "good" \/ file[<<gen, "db">>] = "none"
        /\ <<gen, "gz">> \notin obsolete
        /\ pc = "prune2" => Cardinality(Files \ obsolete) <= Retention

BackupInv ==
    /\ TypeOK
    /\ NamesAreMade
    /\ ListsAreLocal
    /\ ToolHasCopy
    /\ ListedTogether
    /\ NewerIsKept
    /\ OlderIsPruned
    /\ NewestIsComplete
    /\ TornHasSource
    /\ Swept

(* The .db files are the generations with one, all of them complete.        *)
LEMMA DatabasesAreGood ==
    ASSUME TypeOK
    PROVE  \A g \in Gen : /\ g \in Databases <=> file[<<g, "db">>] # "none"
                          /\ g \in Databases <=> file[<<g, "db">>] = "good"
                          /\ g \in Databases <=> <<g, "db">> \in Files
BY NamesOfGenerations DEF TypeOK, Content, Databases, Files

(* If every complete file of a generation is replaced by one of the same,   *)
(* and no generation is new, the newest one stays complete.                 *)
LEMMA NewestStays ==
    ASSUME NewestIsComplete, accidents \subseteq accidents',
           \A n \in Files' : \E m \in Files : m[1] = n[1],
           \A n \in Good : \E k \in Good' : k[1] = n[1]
    PROVE  NewestIsComplete'
<1> SUFFICES ASSUME Retention >= 2, accidents' \subseteq {"stopped"}, Files' # {}
             PROVE  \E n \in Good' : \A m \in Files' : m[1] <= n[1]
  BY DEF NewestIsComplete
<1>1. Files # {} /\ accidents \subseteq {"stopped"}
  OBVIOUS
<1>2. PICK n \in Good : \A m \in Files : m[1] <= n[1]
  BY <1>1 DEF NewestIsComplete
<1>3. PICK k \in Good' : k[1] = n[1]
  OBVIOUS
<1> QED
  BY <1>2, <1>3

(* What holds of the files alone is kept by a step that leaves them alone.  *)
FilesInv ==
    /\ NamesAreMade
    /\ ToolHasCopy
    /\ ListedTogether
    /\ NewerIsKept
    /\ OlderIsPruned
    /\ NewestIsComplete

LEMMA QuietKeepsFiles ==
    ASSUME FilesInv, UNCHANGED <<file, gen, tool, accidents>>,
           obsolete' \in {obsolete, {}}, unsynced' \subseteq unsynced
    PROVE  FilesInv'
<1>1. UNCHANGED <<Files, Good>>
  BY DEF Files, Good
<1> QED
  BY <1>1 DEF FilesInv, NamesAreMade, ToolHasCopy, ListedTogether, NewerIsKept,
              OlderIsPruned, NewestIsComplete

Quiet ==
    \/ StartBackups \/ SourceIsGone \/ CompressDone \/ PruneAborts \/ PruneDone
    \/ BackupFails \/ EndRun \/ WriteBack \/ UNCHANGED vars

LEMMA QuietKeeps ==
    ASSUME BackupInv, TypeOK', Quiet
    PROVE  BackupInv'
<1> USE DEF BackupInv
<1>1. /\ UNCHANGED <<file, gen, tool, accidents, overtaken>>
      /\ obsolete' \in {obsolete, {}} /\ unsynced' \subseteq unsynced
  BY DEF Quiet, StartBackups, SourceIsGone, CompressDone, PruneAborts, PruneDone,
         BackupFails, EndRun, WriteBack, vars, script
<1>2. FilesInv'
  BY <1>1, QuietKeepsFiles DEF FilesInv
<1>3. UNCHANGED <<Files, Databases>>
  BY <1>1 DEF Files, Databases
<1>4. ListsAreLocal'
  BY DEF Quiet, StartBackups, SourceIsGone, CompressDone, PruneAborts, PruneDone,
         BackupFails, BackupEnds, EndRun, WriteBack, vars, script, ListsAreLocal,
         Compressing, NextFile, CompressionFailed
<1>5. TornHasSource'
  <2> SUFFICES ASSUME accidents = {}, NEW g \in Gen, file[<<g, "gz">>] = "torn"
               PROVE  /\ file[<<g, "db">>] = "good"
                      /\ pc' \notin Settled
                      /\ pc' = "compress1" => g \in todo'
    BY <1>1 DEF TornHasSource
  <2>1. /\ file[<<g, "db">>] = "good" /\ g \in Databases
        /\ pc \notin Settled
        /\ pc = "compress1" => g \in todo
    BY DatabasesAreGood DEF TornHasSource
  <2>2. CASE StartBackups
    BY <2>1, <2>2 DEF StartBackups, Settled
  <2>3. CASE SourceIsGone
    BY <2>1, <2>3 DEF SourceIsGone, Settled, Compressing, NextFile, CompressionFailed
  <2>4. CASE CompressDone
    BY <2>1, <2>4 DEF CompressDone, Settled, Compressing
  <2>5. CASE PruneAborts \/ PruneDone \/ BackupFails \/ EndRun
    BY <2>1, <2>5 DEF PruneAborts, PruneDone, BackupFails, BackupEnds, EndRun, Settled
  <2>6. CASE WriteBack \/ UNCHANGED vars
    BY <2>1, <2>6 DEF WriteBack, vars, script
  <2> QED
    BY <2>2, <2>3, <2>4, <2>5, <2>6 DEF Quiet
<1>6. Swept'
  <2>1. CASE StartBackups \/ PruneAborts \/ PruneDone \/ EndRun \/ BackupFails
    BY <2>1 DEF Swept, StartBackups, PruneAborts, PruneDone, EndRun, BackupFails, BackupEnds
  <2>2. CASE SourceIsGone
    <3>1. /\ pc' = pc => status' = 1 \/ (status' = status /\ \E g \in todo \ Databases : todo' = todo \ {g})
          /\ pc' # pc => status' = 1
          /\ pc' # "prune2" /\ obsolete' = obsolete
          /\ pc \in {"compress1", "compress2"}
      BY <2>2 DEF SourceIsGone, Compressing, NextFile, CompressionFailed, TypeOK
    <3> QED
      BY <1>1, <1>3, <3>1 DEF Swept, TypeOK
  <2>3. CASE CompressDone
    BY <1>1, <1>3, <2>3 DEF Swept, CompressDone, Compressing
  <2>4. CASE WriteBack \/ UNCHANGED vars
    BY <1>1, <1>3, <2>4 DEF Swept, WriteBack, vars, script
  <2> QED
    BY <2>1, <2>2, <2>3, <2>4 DEF Quiet
<1> QED
  BY <1>2, <1>4, <1>5, <1>6 DEF FilesInv

(* prune_backups lists the directory.                                       *)
LEMMA ListingKeeps ==
    ASSUME BackupInv, TypeOK', ListObsolete
    PROVE  BackupInv'
<1> USE DEF BackupInv
<1>1. /\ UNCHANGED <<file, gen, tool, accidents, overtaken, todo, status, unsynced>>
      /\ obsolete' = Redundant
      /\ pc \in {"list1", "list2"}
      /\ pc' = IF pc = "list1" THEN "prune1" ELSE "prune2"
  BY DEF ListObsolete
<1>2. /\ UNCHANGED <<Files, Good, Databases>>
      /\ Redundant \subseteq Files
  BY <1>1 DEF Files, Good, Databases, Redundant
<1>3. NamesAreMade' /\ ToolHasCopy' /\ NewestIsComplete'
  BY <1>1, <1>2 DEF NamesAreMade, ToolHasCopy, NewestIsComplete
<1>4. ListsAreLocal'
  BY <1>1 DEF ListsAreLocal, Compressing
<1>5. ListedTogether' /\ NewerIsKept' /\ OlderIsPruned'
  BY <1>1, <1>2, ListingKeepsNewest, ListingKeepsGeneration
     DEF ListedTogether, NewerIsKept, OlderIsPruned
<1>6. TornHasSource'
  BY <1>1 DEF TornHasSource, Settled
<1>7. Swept'
  <2> SUFFICES ASSUME pc = "list2", status = 0, ~overtaken
               PROVE  /\ <<gen, "gz">> \notin Redundant
                      /\ file[<<gen, "gz">>] = "good"
    BY <1>1, <1>2, ListingKeepsNewest DEF Swept
  <2>1. gen \in Gen /\ Databases = {}
    BY DEF Swept, ListsAreLocal, Compressing
  <2>2. file[<<gen, "gz">>] = "good"
    BY <2>1, DatabasesAreGood DEF Swept
  <2>3. \A m \in Files : Rank(m) <= Rank(<<gen, "gz">>)
    <3> SUFFICES ASSUME NEW m \in Files  PROVE Rank(m) <= Rank(<<gen, "gz">>)
      OBVIOUS
    <3>1. m[1] <= gen /\ m[1] \in Nat /\ gen \in Nat
      BY <2>1, NamesOfGenerations DEF NamesAreMade, Files, Gen
    <3> QED
      BY <3>1 DEF Rank
  <2>4. <<gen, "gz">> \in Files
    BY <2>1, <2>2, NamesOfGenerations DEF Files
  <2> QED
    BY <2>2, <2>3, <2>4, ListingKeepsGeneration
<1> QED
  BY <1>3, <1>4, <1>5, <1>6, <1>7

(* prune_backups removes a name.                                            *)
LEMMA RemovingKeeps ==
    ASSUME BackupInv, TypeOK', RemoveOldest
    PROVE  BackupInv'
<1> USE NamesOfGenerations DEF BackupInv
<1>1. PICK k \in obsolete \cap Files :
        /\ Oldest(k)
        /\ file' = [file EXCEPT ![k] = "none"]
        /\ unsynced' = IF k[2] = "gz" THEN unsynced \ {k[1]} ELSE unsynced
        /\ obsolete' = obsolete \ {k}
  BY DEF RemoveOldest
<1>2. /\ pc \in {"prune1", "prune2"} /\ pc' = pc /\ todo = {} /\ todo' = {} /\ k \in Name
      /\ UNCHANGED <<gen, status, tool, overtaken, accidents>>
  BY DEF RemoveOldest, ListsAreLocal, Compressing, Files
<1>3. /\ \A n \in Name : file'[n] = IF n = k THEN "none" ELSE file[n]
      /\ \A h \in Gen :
           /\ file'[<<h, "gz">>] = IF k = <<h, "gz">> THEN "none" ELSE file[<<h, "gz">>]
           /\ file'[<<h, "db">>] = IF k = <<h, "db">> THEN "none" ELSE file[<<h, "db">>]
  BY <1>1, <1>2, Removing DEF TypeOK
<1>4. /\ Files' = Files \ {k} /\ Files' \ obsolete' = Files \ obsolete
      /\ Good' = Good \ {k} /\ Databases' \subseteq Databases
  BY <1>1, <1>2, <1>3 DEF Files, Good, Databases
<1>5. NamesAreMade'
  <2>1. \A g \in unsynced' : file'[<<g, "gz">>] # "none"
    <3> SUFFICES ASSUME NEW g \in unsynced'  PROVE file'[<<g, "gz">>] # "none"
      OBVIOUS
    <3>1. g \in unsynced /\ g \in Gen /\ k # <<g, "gz">>
      BY <1>1 DEF TypeOK
    <3> QED
      BY <1>3, <3>1 DEF NamesAreMade
  <2> QED
    BY <1>1, <1>2, <1>4, <2>1 DEF NamesAreMade
<1>6. ListsAreLocal'
  BY <1>1, <1>2 DEF ListsAreLocal
<1>7. ToolHasCopy'
  <2> SUFFICES ASSUME "rewritten" \notin accidents, tool # 0
               PROVE  file'[<<tool, "gz">>] = "good" \/ file'[<<tool, "db">>] = "none"
    BY <1>2 DEF ToolHasCopy
  <2>1. tool \in Gen
    BY DEF TypeOK
  <2>2. CASE k = <<tool, "gz">> /\ file[<<tool, "db">>] # "none"
    <3>1. <<tool, "db">> \in obsolete
      BY <1>1, <2>1, <2>2 DEF ListedTogether, Files
    <3>2. Rank(<<tool, "db">>) < Rank(<<tool, "gz">>)
      BY <2>1 DEF Rank, Gen
    <3>3. Rank(<<tool, "gz">>) <= Rank(<<tool, "db">>)
      BY <1>1, <2>2, <3>1 DEF Oldest
    <3>4. Rank(<<tool, "db">>) \in Nat /\ Rank(<<tool, "gz">>) \in Nat
      BY <2>1
    <3> QED
      BY <3>2, <3>3, <3>4
  <2>3. CASE ~(k = <<tool, "gz">> /\ file[<<tool, "db">>] # "none")
    BY <1>3, <2>1, <2>3 DEF ToolHasCopy
  <2> QED
    BY <2>2, <2>3
<1>8. ListedTogether'
  BY <1>1, <1>4 DEF ListedTogether
<1>9. NewerIsKept'
  BY <1>1, <1>2, <1>4 DEF NewerIsKept
<1>10. OlderIsPruned'
  <2> SUFFICES ASSUME Retention >= 2, "rewritten" \notin accidents, NEW n \in obsolete'
               PROVE  \E m \in Files' : m[1] > n[1]
    BY <1>2 DEF OlderIsPruned
  <2>1. PICK m \in Files : m[1] > n[1]
    BY <1>1 DEF OlderIsPruned
  <2>2. PICK l \in Files : l[1] > k[1]
    BY <1>1 DEF OlderIsPruned
  <2>3. m[1] \in Nat /\ n[1] \in Nat /\ l[1] \in Nat /\ k[1] \in Nat
    BY <1>1, <1>2 DEF Files, TypeOK, Gen
  <2>4. CASE m = k
    <3>1. l # k /\ l[1] > n[1]
      BY <2>1, <2>2, <2>3, <2>4
    <3> QED
      BY <1>4, <3>1
  <2>5. CASE m # k
    BY <1>4, <2>1, <2>5
  <2> QED
    BY <2>4, <2>5
<1>11. NewestIsComplete'
  <2> SUFFICES ASSUME Retention >= 2, accidents \subseteq {"stopped"}
               PROVE  \E n \in Good' : \A m \in Files' : m[1] <= n[1]
    BY <1>2 DEF NewestIsComplete
  <2>1. PICK n \in Good : \A m \in Files : m[1] <= n[1]
    BY <1>1 DEF NewestIsComplete
  <2>2. PICK l \in Files : l[1] > k[1]
    BY <1>1 DEF OlderIsPruned
  <2>3. n[1] \in Nat /\ l[1] \in Nat /\ k[1] \in Nat
    BY <1>2 DEF Files, Good, Gen
  <2>4. n # k
    BY <2>1, <2>2, <2>3
  <2> QED
    BY <1>4, <2>1, <2>4
<1>12. TornHasSource'
  BY <1>2, <1>3 DEF TornHasSource, Settled
<1>13. Swept'
  <2> SUFFICES ASSUME pc = "prune2", status = 0, ~overtaken
               PROVE  Swept'
    BY <1>2 DEF Swept
  <2>1. /\ gen \in Gen /\ Databases = {} /\ <<gen, "gz">> \notin obsolete
        /\ file[<<gen, "gz">>] = "good" \/ file[<<gen, "db">>] = "good"
        /\ Cardinality(Files \ obsolete) <= Retention
    BY <1>2 DEF Swept
  <2>2. file[<<gen, "gz">>] = "good"
    BY <2>1, DatabasesAreGood
  <2>3. file'[<<gen, "gz">>] = "good"
    BY <1>1, <1>3, <2>1, <2>2
  <2> QED
    BY <1>1, <1>2, <1>4, <2>1, <2>3 DEF Swept
<1> QED
  BY <1>5, <1>6, <1>7, <1>8, <1>9, <1>10, <1>11, <1>12, <1>13

(* A new backup adds one complete .db, newer than every name there.         *)
LEMMA NewBackupKeepsFiles ==
    ASSUME BackupInv, TypeOK', NewBackup, UNCHANGED <<obsolete, tool, unsynced, accidents>>
    PROVE  /\ FilesInv'
           /\ gen' = gen + 1 /\ gen' \in Gen /\ tool # gen'
           /\ <<gen', "gz">> \notin obsolete
           /\ file'[<<gen', "db">>] = "good"
           /\ \A h \in Gen :
                /\ file'[<<h, "gz">>] = file[<<h, "gz">>]
                /\ file'[<<h, "db">>] = IF h = gen + 1 THEN "good" ELSE file[<<h, "db">>]
<1> USE NamesOfGenerations DEF BackupInv, TypeOK
<1>1. /\ gen' = gen + 1 /\ gen + 1 \in Gen /\ gen \in Nat
      /\ \A h \in Gen :
           /\ file'[<<h, "gz">>] = file[<<h, "gz">>]
           /\ file'[<<h, "db">>] = IF h = gen + 1 THEN "good" ELSE file[<<h, "db">>]
  BY Adding
<1> DEFINE new == <<gen + 1, "db">>
<1>2. new \in Name /\ new[1] = gen + 1 /\ file'[new] = "good"
  BY <1>1
<1>3. \A n \in Name : n # new => file'[n] = file[n]
  <2> SUFFICES ASSUME NEW n \in Name, n # new  PROVE file'[n] = file[n]
    OBVIOUS
  <2>1. n[1] \in Gen /\ (n = <<n[1], "db">> \/ n = <<n[1], "gz">>)
    OBVIOUS
  <2> QED
    BY <1>1, <2>1
<1>4. /\ Files' = Files \cup {new} /\ Good \subseteq Good' /\ new \in Good'
  BY <1>2, <1>3 DEF Files, Good
<1>5. /\ \A n \in Files : n[1] <= gen /\ n[1] \in Nat
      /\ \A n \in obsolete : n[1] <= gen /\ n[1] \in Nat
  <2>1. \A n \in Name : n[1] \in Nat
    BY DEF Gen
  <2>2. Files \subseteq Name
    BY DEF Files
  <2> QED
    BY <2>1, <2>2 DEF NamesAreMade
<1>6. /\ \A h \in Gen : <<h, "gz">> \in obsolete \/ <<h, "db">> \in obsolete => h # gen + 1
      /\ tool # gen + 1
  BY <1>1, <1>5 DEF NamesAreMade
<1>7. NamesAreMade'
  <2>1. \A n \in Files' : n[1] <= gen'
    BY <1>1, <1>2, <1>4, <1>5
  <2>2. \A n \in obsolete' : n[1] <= gen'
    BY <1>1, <1>5
  <2>3. tool' <= gen'
    <3>1. tool \in Nat /\ tool <= gen
      BY MaxGenAssumption DEF NamesAreMade, Gen
    <3> QED
      BY <1>1, <3>1
  <2>4. \A g \in unsynced' : file'[<<g, "gz">>] # "none"
    BY <1>1 DEF NamesAreMade
  <2> QED
    BY <2>1, <2>2, <2>3, <2>4 DEF NamesAreMade
<1>8. ToolHasCopy'
  BY <1>1, <1>6 DEF ToolHasCopy
<1>9. ListedTogether'
  BY <1>4, <1>6 DEF ListedTogether
<1>10. NewerIsKept' /\ OlderIsPruned'
  BY <1>4 DEF NewerIsKept, OlderIsPruned
<1>11. NewestIsComplete'
  BY <1>1, <1>2, <1>4, <1>5 DEF NewestIsComplete
<1> QED
  BY <1>1, <1>2, <1>6, <1>7, <1>8, <1>9, <1>10, <1>11 DEF FilesInv

LEMMA BackingUpKeeps ==
    ASSUME BackupInv, TypeOK', BackupSucceeds \/ ManualBackup
    PROVE  BackupInv'
<1> USE DEF BackupInv
<1>1. NewBackup /\ UNCHANGED <<obsolete, tool, unsynced, accidents, status>>
  BY DEF BackupSucceeds, ManualBackup
<1>2. /\ FilesInv'
      /\ gen' = gen + 1 /\ gen' \in Gen /\ tool # gen'
      /\ <<gen', "gz">> \notin obsolete
      /\ file'[<<gen', "db">>] = "good"
      /\ \A h \in Gen :
           /\ file'[<<h, "gz">>] = file[<<h, "gz">>]
           /\ file'[<<h, "db">>] = IF h = gen + 1 THEN "good" ELSE file[<<h, "db">>]
  BY <1>1, NewBackupKeepsFiles
<1>3. CASE BackupSucceeds
  <2>1. /\ pc \in {"backup", "backup_only"} /\ obsolete = {}
        /\ pc' = IF pc = "backup" THEN "compress2" ELSE "end"
        /\ todo' = IF pc = "backup" THEN Databases' ELSE {}
    BY <1>3 DEF BackupSucceeds, BackupEnds, ListsAreLocal
  <2>2. ListsAreLocal'
    BY <1>1, <2>1 DEF ListsAreLocal, Compressing
  <2>3. TornHasSource'
    BY <1>1, <1>2, <2>1 DEF TornHasSource, Settled
  <2>4. Swept'
    BY <1>1, <1>2, <2>1 DEF Swept
  <2> QED
    BY <1>2, <2>2, <2>3, <2>4 DEF FilesInv
<1>4. CASE ManualBackup
  <2>1. UNCHANGED <<pc, todo, obsolete, status>> /\ overtaken'
    BY <1>4 DEF ManualBackup
  <2>2. ListsAreLocal' /\ Swept'
    BY <2>1 DEF ListsAreLocal, Compressing, Swept
  <2>3. TornHasSource'
    BY <1>1, <1>2, <2>1 DEF TornHasSource, Settled
  <2> QED
    BY <1>2, <2>2, <2>3 DEF FilesInv
<1> QED
  BY <1>3, <1>4

(* Every generation that has a complete file keeps one.                     *)
GenerationsStay == \A n \in Good : \E k \in Good' : k[1] = n[1]

(* A gzip on the .db it has come to: its output is complete, or the .db is  *)
(* still there.                                                             *)
LEMMA GzipKeepsFiles ==
    ASSUME BackupInv, TypeOK', NEW g \in Gen, g \in Databases,
           obsolete = {}, obsolete' = {}, UNCHANGED <<gen, tool>>,
           accidents \subseteq accidents',
           \A h \in Gen : h # g => /\ file'[<<h, "gz">>] = file[<<h, "gz">>]
                                   /\ file'[<<h, "db">>] = file[<<h, "db">>],
           \/ file'[<<g, "gz">>] = "good"
           \/ /\ file'[<<g, "db">>] = "good"
              /\ tool = g => "rewritten" \in accidents',
           \A h \in unsynced' : file'[<<h, "gz">>] # "none"
    PROVE  FilesInv' /\ GenerationsStay
<1> USE NamesOfGenerations DEF BackupInv
<1>1. file[<<g, "db">>] = "good"
  BY DatabasesAreGood
<1>2. \A n \in Files' : \E m \in Files : m[1] = n[1]
  <2> SUFFICES ASSUME NEW n \in Files'  PROVE \E m \in Files : m[1] = n[1]
    OBVIOUS
  <2>1. n \in Name /\ file'[n] # "none"
    BY DEF Files
  <2>2. CASE n[1] = g
    BY <1>1, <2>2 DEF Files
  <2>3. CASE n[1] # g
    BY <2>1, <2>3 DEF Files
  <2> QED
    BY <2>2, <2>3
<1>3. GenerationsStay
  <2> SUFFICES ASSUME NEW n \in Good  PROVE \E k \in Good' : k[1] = n[1]
    BY DEF GenerationsStay
  <2>1. n \in Name /\ file[n] = "good"
    BY DEF Good
  <2>2. CASE n[1] = g
    BY <2>2 DEF Good
  <2>3. CASE n[1] # g
    BY <2>1, <2>3 DEF Good
  <2> QED
    BY <2>2, <2>3
<1>4. NamesAreMade'
  <2>1. \A n \in Files' : n[1] <= gen
    BY <1>2 DEF NamesAreMade
  <2> QED
    BY <2>1 DEF NamesAreMade
<1>5. ToolHasCopy'
  BY DEF ToolHasCopy, TypeOK
<1>6. ListedTogether' /\ NewerIsKept' /\ OlderIsPruned'
  BY DEF ListedTogether, NewerIsKept, OlderIsPruned
<1>7. NewestIsComplete'
  BY <1>2, <1>3, NewestStays DEF GenerationsStay
<1> QED
  BY <1>3, <1>4, <1>5, <1>6, <1>7 DEF FilesInv

LEMMA ReplacingKeeps ==
    ASSUME BackupInv, TypeOK', Compressing, NEW g \in Gen, g \in Databases,
           GzipReplaces(g), obsolete' = {}, UNCHANGED <<gen, tool, accidents>>
    PROVE  FilesInv' /\ GenerationsStay
<1>1. /\ unsynced' = unsynced \cup {g}
      /\ \A h \in Gen :
           /\ file'[<<h, "gz">>] = IF h = g THEN "good" ELSE file[<<h, "gz">>]
           /\ file'[<<h, "db">>] = IF h = g THEN "none" ELSE file[<<h, "db">>]
  BY Replacing DEF BackupInv, TypeOK
<1>2. obsolete = {}
  BY DEF BackupInv, ListsAreLocal, Compressing
<1>3. \A h \in unsynced' : file'[<<h, "gz">>] # "none"
  BY <1>1 DEF BackupInv, NamesAreMade, TypeOK
<1> QED
  BY <1>1, <1>2, <1>3, GzipKeepsFiles

LEMMA LeavingKeeps ==
    ASSUME BackupInv, TypeOK', Compressing, NEW g \in Gen, g \in Databases,
           NEW left \in Content, GzipLeaves(g, left),
           accidents \cup Spoils(g, left) \subseteq accidents',
           obsolete' = {}, UNCHANGED <<gen, tool>>
    PROVE  FilesInv' /\ GenerationsStay
<1>1. /\ unsynced' = IF left = "none" THEN unsynced \ {g} ELSE unsynced \cup {g}
      /\ \A h \in Gen :
           /\ file'[<<h, "gz">>] = IF h = g THEN left ELSE file[<<h, "gz">>]
           /\ file'[<<h, "db">>] = file[<<h, "db">>]
  BY Leaving DEF BackupInv, TypeOK
<1>2. obsolete = {}
  BY DEF BackupInv, ListsAreLocal, Compressing
<1>3. \A h \in unsynced' : file'[<<h, "gz">>] # "none"
  BY <1>1 DEF BackupInv, NamesAreMade, TypeOK
<1>4. file'[<<g, "db">>] = "good"
  BY <1>1, DatabasesAreGood DEF BackupInv
<1>5. file'[<<g, "gz">>] = "good" \/ (tool = g => "rewritten" \in accidents')
  BY <1>1 DEF Spoils
<1> QED
  BY <1>1, <1>2, <1>3, <1>4, <1>5, GzipKeepsFiles

(* compress_backups replaces a .db, ...                                     *)
LEMMA CompressingKeeps ==
    ASSUME BackupInv, TypeOK', GzipSucceeds
    PROVE  BackupInv' /\ GenerationsStay
<1> USE DEF BackupInv
<1>1. PICK g \in todo \cap Databases : GzipReplaces(g) /\ todo' = todo \ {g}
  BY DEF GzipSucceeds
<1>2. /\ g \in Gen /\ Compressing /\ obsolete = {}
      /\ UNCHANGED <<gen, pc, obsolete, status, tool, overtaken, accidents>>
  BY <1>1 DEF GzipSucceeds, TypeOK, ListsAreLocal, Compressing
<1>3. FilesInv' /\ GenerationsStay
  BY <1>1, <1>2, ReplacingKeeps
<1>4. \A h \in Gen :
         /\ file'[<<h, "gz">>] = IF h = g THEN "good" ELSE file[<<h, "gz">>]
         /\ file'[<<h, "db">>] = IF h = g THEN "none" ELSE file[<<h, "db">>]
  BY <1>1, <1>2, Replacing DEF TypeOK
<1>5. ListsAreLocal'
  BY <1>2 DEF ListsAreLocal, Compressing
<1>6. TornHasSource'
  BY <1>1, <1>2, <1>4 DEF TornHasSource
<1>7. Swept'
  <2>1. Databases' = Databases \ {g}
    BY <1>4 DEF Databases
  <2> QED
    BY <1>1, <1>2, <1>4, <2>1 DEF Swept, Compressing
<1> QED
  BY <1>3, <1>5, <1>6, <1>7 DEF FilesInv

(* ... or fails, ...                                                        *)
LEMMA FailingKeeps ==
    ASSUME BackupInv, TypeOK', GzipFails
    PROVE  BackupInv' /\ GenerationsStay
<1> USE DEF BackupInv
<1>1. PICK g \in todo \cap Databases, left \in Content :
        /\ GzipLeaves(g, left)
        /\ IF left = "none" THEN CompressionFailed
                            ELSE NextFile(g) /\ status' = 1
        /\ accidents' = accidents \cup Spoils(g, left)
                         \cup IF left = "torn" THEN {"stopped"} ELSE {}
  BY DEF GzipFails
<1>2. /\ g \in Gen /\ Compressing /\ obsolete = {} /\ status' = 1
      /\ UNCHANGED <<gen, obsolete, tool, overtaken>>
      /\ todo' = {} \/ (pc' = pc /\ todo' = todo \ {g})
      /\ pc' = pc \/ pc' \in {"end", "list2"}
      /\ pc' \notin {"prune1", "prune2"}
      /\ pc' = "end" => todo' = {}
      /\ pc' = "list2" => pc = "compress2"
  BY <1>1 DEF GzipFails, TypeOK, ListsAreLocal, Compressing, CompressionFailed, NextFile
<1>3. FilesInv' /\ GenerationsStay
  BY <1>1, <1>2, LeavingKeeps
<1>4. \A h \in Gen :
         /\ file'[<<h, "gz">>] = IF h = g THEN left ELSE file[<<h, "gz">>]
         /\ file'[<<h, "db">>] = file[<<h, "db">>]
  BY <1>1, <1>2, Leaving DEF TypeOK
<1>5. ListsAreLocal'
  BY <1>1, <1>2 DEF ListsAreLocal, Compressing, CompressionFailed, NextFile
<1>6. TornHasSource'
  <2> SUFFICES ASSUME accidents' = {}, NEW h \in Gen, file'[<<h, "gz">>] = "torn"
               PROVE  /\ file'[<<h, "db">>] = "good"
                      /\ pc' \notin Settled
                      /\ pc' = "compress1" => h \in todo'
    BY DEF TornHasSource
  <2>1. accidents = {} /\ left # "torn"
    BY <1>1
  <2>2. h # g /\ file[<<h, "gz">>] = "torn"
    BY <1>4, <2>1
  <2>3. /\ file[<<h, "db">>] = "good"
        /\ pc \notin Settled
        /\ pc = "compress1" => h \in todo
    BY <2>1, <2>2 DEF TornHasSource
  <2>4. pc = "compress1" /\ pc' \in {"compress1", "end"}
    BY <1>2, <2>3 DEF Settled, Compressing
  <2>5. pc' = "compress1" => todo' = todo \ {g}
    BY <1>1, <2>4 DEF CompressionFailed, NextFile
  <2> QED
    BY <1>4, <2>2, <2>3, <2>4, <2>5 DEF Settled
<1>7. Swept'
  BY <1>2 DEF Swept
<1> QED
  BY <1>3, <1>5, <1>6, <1>7 DEF FilesInv

(* ... or dies with the script.                                             *)
LEMMA CrashKeeps ==
    ASSUME BackupInv, TypeOK', Crash
    PROVE  BackupInv' /\ GenerationsStay
<1> USE DEF BackupInv
<1>1. /\ pc' = "idle" /\ todo' = {} /\ obsolete' = {}
      /\ UNCHANGED <<gen, tool, overtaken, status>>
  BY DEF Crash
<1>2. ListsAreLocal' /\ Swept'
  BY <1>1 DEF ListsAreLocal, Swept
<1>3. CASE UNCHANGED <<file, unsynced, accidents>>
  <2>1. FilesInv'
    BY <1>1, <1>3, QuietKeepsFiles DEF FilesInv
  <2>2. TornHasSource'
    BY <1>1, <1>3 DEF TornHasSource, Settled
  <2>3. GenerationsStay
    BY <1>3 DEF GenerationsStay, Good
  <2> QED
    BY <1>2, <2>1, <2>2, <2>3 DEF FilesInv
<1>4. CASE ~UNCHANGED <<file, unsynced, accidents>>
  <2>1. PICK g \in todo \cap Databases :
          \/ GzipReplaces(g) /\ UNCHANGED accidents
          \/ \E left \in Content : /\ GzipLeaves(g, left)
                                   /\ accidents' = accidents \cup Spoils(g, left)
    BY <1>4 DEF Crash
  <2>2. g \in Gen /\ Compressing /\ file[<<g, "db">>] = "good"
    BY <1>4, <2>1, DatabasesAreGood DEF Crash, TypeOK
  <2>3. CASE GzipReplaces(g) /\ UNCHANGED accidents
    <3>1. FilesInv' /\ GenerationsStay
      BY <1>1, <2>1, <2>2, <2>3, ReplacingKeeps
    <3>2. \A h \in Gen :
            /\ file'[<<h, "gz">>] = IF h = g THEN "good" ELSE file[<<h, "gz">>]
            /\ file'[<<h, "db">>] = IF h = g THEN "none" ELSE file[<<h, "db">>]
      BY <2>2, <2>3, Replacing DEF TypeOK
    <3>3. TornHasSource'
      BY <1>1, <2>3, <3>2 DEF TornHasSource, Settled
    <3> QED
      BY <1>2, <3>1, <3>3 DEF FilesInv
  <2>4. ASSUME NEW left \in Content, GzipLeaves(g, left),
               accidents' = accidents \cup Spoils(g, left)
        PROVE  BackupInv' /\ GenerationsStay
    <3>1. FilesInv' /\ GenerationsStay
      BY <1>1, <2>1, <2>2, <2>4, LeavingKeeps
    <3>2. \A h \in Gen :
            /\ file'[<<h, "gz">>] = IF h = g THEN left ELSE file[<<h, "gz">>]
            /\ file'[<<h, "db">>] = file[<<h, "db">>]
      BY <2>2, <2>4, Leaving DEF TypeOK
    <3>3. TornHasSource'
      BY <1>1, <2>2, <2>4, <3>2 DEF TornHasSource, Settled
    <3> QED
      BY <1>2, <3>1, <3>3 DEF FilesInv
  <2> QED
    BY <2>1, <2>3, <2>4
<1> QED
  BY <1>3, <1>4

(* A power loss spoils only what gzip left unsynced.                        *)
LEMMA PowerLossKeeps ==
    ASSUME BackupInv, TypeOK', PowerLoss
    PROVE  BackupInv' /\ (accidents' \subseteq {"stopped"} => GenerationsStay)
<1> USE NamesOfGenerations DEF BackupInv
<1>1. PICK T \in SUBSET unsynced :
        /\ file' = [n \in Name |-> IF n[2] = "gz" /\ n[1] \in T THEN "torn" ELSE file[n]]
        /\ accidents' = accidents \cup IF T \subseteq Databases THEN {} ELSE {"unwritten"}
  BY DEF PowerLoss
<1>2. /\ pc' = "idle" /\ todo' = {} /\ obsolete' = {} /\ tool' = 0 /\ unsynced' = {}
      /\ UNCHANGED <<gen, overtaken, status>>
  BY DEF PowerLoss
<1>3. \A h \in Gen : /\ file'[<<h, "db">>] = file[<<h, "db">>]
                     /\ file'[<<h, "gz">>] = IF h \in T THEN "torn"
                                             ELSE file[<<h, "gz">>]
  BY <1>1, Tearing DEF TypeOK
<1>4. \A h \in T : h \in Gen /\ file[<<h, "gz">>] # "none"
  BY <1>1 DEF TypeOK, NamesAreMade
<1>5. Files' = Files
  <2> SUFFICES ASSUME NEW n \in Name  PROVE file'[n] # "none" <=> file[n] # "none"
    BY DEF Files
  <2>1. n[1] \in Gen /\ (n = <<n[1], "db">> \/ n = <<n[1], "gz">>)
    OBVIOUS
  <2> QED
    BY <1>3, <1>4, <2>1
<1>6. T \subseteq Databases => GenerationsStay
  <2> SUFFICES ASSUME T \subseteq Databases, NEW n \in Good
               PROVE  \E k \in Good' : k[1] = n[1]
    BY DEF GenerationsStay
  <2>1. n \in Name /\ file[n] = "good"
        /\ n[1] \in Gen /\ (n = <<n[1], "db">> \/ n = <<n[1], "gz">>)
    BY DEF Good
  <2>2. CASE n[1] \in T
    <3>1. file'[<<n[1], "db">>] = "good"
      BY <1>3, <2>1, <2>2, DatabasesAreGood
    <3> QED
      BY <2>1, <3>1 DEF Good
  <2>3. CASE n[1] \notin T
    <3>1. file'[n] = "good"
      BY <1>3, <2>1, <2>3
    <3> QED
      BY <2>1, <3>1 DEF Good
  <2> QED
    BY <2>2, <2>3
<1>7. accidents' \subseteq {"stopped"} => T \subseteq Databases
  BY <1>1
<1>8. NamesAreMade'
  BY <1>2, <1>5, MaxGenAssumption DEF NamesAreMade, TypeOK
<1>9. ToolHasCopy' /\ ListedTogether' /\ NewerIsKept' /\ OlderIsPruned'
  BY <1>2 DEF ToolHasCopy, ListedTogether, NewerIsKept, OlderIsPruned
<1>10. NewestIsComplete'
  <2>1. CASE T \subseteq Databases
    <3>1. accidents \subseteq accidents'
      BY <1>1
    <3> QED
      BY <1>5, <1>6, <2>1, <3>1, NewestStays DEF GenerationsStay
  <2>2. CASE ~(T \subseteq Databases)
    BY <1>7, <2>2 DEF NewestIsComplete
  <2> QED
    BY <2>1, <2>2
<1>11. TornHasSource'
  <2> SUFFICES ASSUME accidents' = {}, NEW g \in Gen, file'[<<g, "gz">>] = "torn"
               PROVE  file'[<<g, "db">>] = "good"
    BY <1>2 DEF TornHasSource, Settled
  <2>1. accidents = {} /\ T \subseteq Databases
    BY <1>1
  <2>2. CASE g \in T
    BY <1>3, <2>1, <2>2, DatabasesAreGood
  <2>3. CASE g \notin T
    BY <1>3, <2>1, <2>3 DEF TornHasSource
  <2> QED
    BY <2>2, <2>3
<1>12. ListsAreLocal' /\ Swept'
  BY <1>2 DEF ListsAreLocal, Swept
<1> QED
  BY <1>6, <1>7, <1>8, <1>9, <1>10, <1>11, <1>12

(* The tool adds or confirms a complete .gz, ...                            *)
LEMMA ToolCompressesKeeps ==
    ASSUME BackupInv, TypeOK', ToolCompresses
    PROVE  BackupInv' /\ GenerationsStay
<1> USE NamesOfGenerations DEF BackupInv
<1>1. PICK g \in Databases : VerifiedCompression(g) /\ tool' = g
  BY DEF ToolCompresses
<1>2. /\ g \in Gen /\ file[<<g, "db">>] = "good" /\ <<g, "db">> \in Files /\ g # 0
      /\ UNCHANGED <<gen, pc, todo, obsolete, status, overtaken, unsynced, accidents>>
  BY <1>1, DatabasesAreGood DEF ToolCompresses, script, Databases, Gen
<1>3. \A h \in Gen :
        /\ file'[<<h, "gz">>] = IF h = g THEN "good" ELSE file[<<h, "gz">>]
        /\ file'[<<h, "db">>] = file[<<h, "db">>]
  BY <1>1, <1>2, Copying DEF TypeOK
<1>4. Files' = Files \cup {<<g, "gz">>} /\ Good \subseteq Good' /\ Databases' = Databases
  <2>1. \A n \in Name : n # <<g, "gz">> => file'[n] = file[n]
    <3> SUFFICES ASSUME NEW n \in Name, n # <<g, "gz">>  PROVE file'[n] = file[n]
      OBVIOUS
    <3>1. n[1] \in Gen /\ (n = <<n[1], "db">> \/ n = <<n[1], "gz">>)
      OBVIOUS
    <3> QED
      BY <1>3, <3>1
  <2>2. <<g, "gz">> \in Name /\ file'[<<g, "gz">>] = "good"
    BY <1>2, <1>3
  <2> QED
    BY <1>3, <2>1, <2>2 DEF Files, Good, Databases
<1>5. GenerationsStay
  BY <1>4 DEF GenerationsStay
<1>6. NamesAreMade'
  <2>1. g <= gen
    BY <1>2 DEF NamesAreMade
  <2>2. \A h \in unsynced : h \in Gen /\ file'[<<h, "gz">>] # "none"
    BY <1>2, <1>3 DEF NamesAreMade, TypeOK
  <2> QED
    BY <1>1, <1>2, <1>4, <2>1, <2>2 DEF NamesAreMade
<1>7. ToolHasCopy'
  BY <1>1, <1>2, <1>3 DEF ToolHasCopy
<1>8. ListedTogether'
  BY <1>2, <1>4 DEF ListedTogether
<1>9. NewerIsKept' /\ OlderIsPruned'
  BY <1>2, <1>4 DEF NewerIsKept, OlderIsPruned
<1>10. NewestIsComplete'
  <2>1. \A n \in Files' : \E m \in Files : m[1] = n[1]
    BY <1>2, <1>4
  <2> QED
    BY <1>2, <1>5, <2>1, NewestStays DEF GenerationsStay
<1>11. TornHasSource'
  BY <1>2, <1>3 DEF TornHasSource
<1>12. ListsAreLocal'
  BY <1>2 DEF ListsAreLocal, Compressing
<1>13. Swept'
  <2>1. pc = "prune2" => ~(status = 0 /\ ~overtaken)
    BY <1>1 DEF Swept, ListsAreLocal, Compressing
  <2> QED
    BY <1>1, <1>2, <1>3, <1>4, <2>1 DEF Swept
<1> QED
  BY <1>5, <1>6, <1>7, <1>8, <1>9, <1>10, <1>11, <1>12, <1>13

(* ... and removes a .db that has one.                                      *)
LEMMA ToolEndsKeeps ==
    ASSUME BackupInv, TypeOK', ToolEnds
    PROVE  BackupInv' /\ ("rewritten" \notin accidents' => GenerationsStay)
<1> USE NamesOfGenerations DEF BackupInv
<1>1. /\ tool \in Gen
      /\ \A h \in Gen :
           /\ file'[<<h, "gz">>] = file[<<h, "gz">>]
           /\ \/ file'[<<h, "db">>] = file[<<h, "db">>]
              \/ h = tool /\ file'[<<h, "db">>] = "none"
  BY ToolEndsRemoves DEF TypeOK
<1>2. /\ tool' = 0 /\ tool # 0
      /\ UNCHANGED <<gen, pc, todo, obsolete, status, overtaken, unsynced, accidents>>
  BY DEF ToolEnds, script
<1> DEFINE gone == <<tool, "db">>
           copy == <<tool, "gz">>
<1>3. \A n \in Name : file'[n] = file[n] \/ (n = gone /\ file'[n] = "none")
  <2> SUFFICES ASSUME NEW n \in Name
               PROVE  file'[n] = file[n] \/ (n = gone /\ file'[n] = "none")
    OBVIOUS
  <2>1. n[1] \in Gen /\ (n = <<n[1], "db">> \/ n = <<n[1], "gz">>)
    OBVIOUS
  <2> QED
    BY <1>1, <2>1
<1>4. /\ Files' \subseteq Files /\ Good' \subseteq Good
      /\ \A n \in Files : n # gone => n \in Files'
      /\ \A n \in Good : n # gone => n \in Good'
      /\ Databases' \subseteq Databases
  BY <1>1, <1>3 DEF Files, Good, Databases
<1>5. copy \in Name /\ copy # gone /\ copy[1] = tool /\ gone[1] = tool
  BY <1>1
<1>6. "rewritten" \notin accidents /\ gone \in Files => copy \in Good /\ copy \in Good'
                                                       /\ copy \in Files /\ copy \in Files'
  BY <1>2, <1>4, <1>5 DEF ToolHasCopy, Files, Good
<1>7. "rewritten" \notin accidents => GenerationsStay
  <2> SUFFICES ASSUME "rewritten" \notin accidents, NEW n \in Good
               PROVE  \E k \in Good' : k[1] = n[1]
    BY DEF GenerationsStay
  <2>1. n \in Files
    BY DEF Files, Good
  <2> QED
    BY <1>4, <1>5, <1>6, <2>1
<1>8. NamesAreMade'
  <2>1. \A n \in Files' : n[1] <= gen
    BY <1>4 DEF NamesAreMade
  <2>2. \A g \in unsynced : g \in Gen /\ file[<<g, "gz">>] # "none"
    BY DEF NamesAreMade, TypeOK
  <2>3. tool' <= gen
    BY <1>2, MaxGenAssumption DEF TypeOK
  <2> QED
    BY <1>1, <1>2, <2>1, <2>2, <2>3 DEF NamesAreMade
<1>9. ToolHasCopy' /\ ListedTogether'
  BY <1>2, <1>4 DEF ToolHasCopy, ListedTogether
<1>10. NewerIsKept'
  <2> SUFFICES ASSUME "rewritten" \notin accidents, NEW n \in obsolete
               PROVE  \E m \in Files' \ obsolete : Rank(m) > Rank(n)
    BY <1>2 DEF NewerIsKept
  <2>1. PICK m \in Files \ obsolete : Rank(m) > Rank(n)
    BY DEF NewerIsKept
  <2>2. CASE m # gone
    BY <1>4, <2>1, <2>2
  <2>3. CASE m = gone
    <3>1. copy \notin obsolete
      BY <1>1, <2>1, <2>3 DEF ListedTogether
    <3>2. Rank(copy) > Rank(gone)
      BY <1>1 DEF Rank, Gen
    <3>3. Rank(copy) \in Nat /\ Rank(gone) \in Nat /\ Rank(n) \in Nat
      BY <1>1 DEF TypeOK
    <3>4. Rank(copy) > Rank(n)
      BY <2>1, <2>3, <3>2, <3>3
    <3> HIDE DEF copy, gone
    <3> QED
      BY <1>6, <2>1, <2>3, <3>1, <3>4
  <2> QED
    BY <2>2, <2>3
<1>11. OlderIsPruned'
  <2> SUFFICES ASSUME Retention >= 2, "rewritten" \notin accidents, NEW n \in obsolete
               PROVE  \E m \in Files' : m[1] > n[1]
    BY <1>2 DEF OlderIsPruned
  <2>1. PICK m \in Files : m[1] > n[1]
    BY DEF OlderIsPruned
  <2> QED
    BY <1>4, <1>5, <1>6, <2>1
<1>12. NewestIsComplete'
  <2>1. CASE "rewritten" \in accidents
    BY <1>2, <2>1 DEF NewestIsComplete
  <2>2. CASE "rewritten" \notin accidents
    BY <1>2, <1>4, <1>7, <2>2, NewestStays DEF GenerationsStay
  <2> QED
    BY <2>1, <2>2
<1>13. TornHasSource'
  <2> SUFFICES ASSUME accidents = {}, NEW h \in Gen, file[<<h, "gz">>] = "torn"
               PROVE  /\ file'[<<h, "db">>] = "good"
                      /\ pc \notin Settled
                      /\ pc = "compress1" => h \in todo
    BY <1>1, <1>2 DEF TornHasSource
  <2>1. /\ file[<<h, "db">>] = "good"
        /\ pc \notin Settled
        /\ pc = "compress1" => h \in todo
    BY DEF TornHasSource
  <2>2. h # tool
    BY <1>2, <2>1 DEF ToolHasCopy
  <2> QED
    BY <1>1, <2>1, <2>2
<1>14. ListsAreLocal'
  BY <1>2 DEF ListsAreLocal, Compressing
<1>15. Swept'
  <2> SUFFICES ASSUME pc \in {"compress2", "list2", "prune2"}, status = 0, ~overtaken
               PROVE  Swept'
    BY <1>2 DEF Swept
  <2>1. /\ gen \in Gen /\ Databases \subseteq todo
        /\ file[<<gen, "gz">>] = "good" \/ file[<<gen, "db">>] = "good"
        /\ tool = gen => file[<<gen, "gz">>] = "good" \/ file[<<gen, "db">>] = "none"
        /\ <<gen, "gz">> \notin obsolete
        /\ pc = "prune2" => Cardinality(Files \ obsolete) <= Retention
    BY DEF Swept
  <2>2. file'[<<gen, "gz">>] = "good" \/ file'[<<gen, "db">>] = "good"
    BY <1>1, <2>1
  <2>3. pc = "prune2" => Files' = Files
    <3> SUFFICES ASSUME pc = "prune2"  PROVE Files' = Files
      OBVIOUS
    <3>1. Databases = {}
      BY <2>1 DEF ListsAreLocal, Compressing
    <3>2. gone \notin Files
      BY <1>1, <3>1, DatabasesAreGood
    <3> HIDE DEF gone
    <3> QED
      BY <1>4, <3>2
  <2>4. tool' # gen
    BY <1>2, <2>1 DEF Gen
  <2> QED
    BY <1>2, <1>4, <2>1, <2>2, <2>3, <2>4 DEF Swept
<1> QED
  BY <1>2, <1>7, <1>8, <1>9, <1>10, <1>11, <1>12, <1>13, <1>14, <1>15

-----------------------------------------------------------------------------
LEMMA InitInv == Init => BackupInv
<1> SUFFICES ASSUME Init PROVE BackupInv
  OBVIOUS
<1>1. TypeOK
  BY InitTyped
<1>2. /\ Files = {} /\ obsolete = {} /\ todo = {} /\ unsynced = {}
      /\ tool = 0 /\ gen = 0 /\ pc = "idle"
  BY DEF Init, Files
<1>3. \A g \in Gen : file[<<g, "gz">>] = "none"
  BY NamesOfGenerations DEF Init
<1> QED
  BY <1>1, <1>2, <1>3 DEF BackupInv, NamesAreMade, ListsAreLocal, ToolHasCopy,
     ListedTogether, NewerIsKept, OlderIsPruned, NewestIsComplete, TornHasSource, Swept

(* A step that changes no complete file, or adds one.                       *)
LEMMA NothingGoes ==
    ASSUME BackupInv, TypeOK', Quiet \/ ListObsolete \/ BackupSucceeds \/ ManualBackup
    PROVE  GenerationsStay
<1>1. CASE Quiet \/ ListObsolete
  <2>1. UNCHANGED file
    BY <1>1 DEF Quiet, StartBackups, SourceIsGone, CompressDone, PruneAborts, PruneDone,
       BackupFails, EndRun, WriteBack, ListObsolete, vars
  <2> QED
    BY <2>1 DEF GenerationsStay, Good
<1>2. CASE BackupSucceeds \/ ManualBackup
  <2>1. \A n \in Name : file[n] = "good" => file'[n] = "good"
    BY <1>2 DEF BackupSucceeds, ManualBackup, NewBackup, BackupInv, TypeOK
  <2> QED
    BY <2>1 DEF GenerationsStay, Good
<1> QED
  BY <1>1, <1>2

(* One step keeps the invariant, adds to the accidents, and lets no         *)
(* generation lose its complete file, but for pruning, the tool behind a    *)
(* rewritten .gz, and power losses.                                         *)
LEMMA StepKeeps ==
    ASSUME BackupInv, TypeOK', [Next]_vars
    PROVE  /\ BackupInv'
           /\ accidents \subseteq accidents'
           /\ \/ RemoveOldest
              \/ accidents' \subseteq {"stopped"} => GenerationsStay
<1>1. CASE Quiet
  BY <1>1, QuietKeeps, NothingGoes
     DEF Quiet, StartBackups, SourceIsGone, CompressDone, PruneAborts, PruneDone,
         BackupFails, EndRun, WriteBack, vars
<1>2. CASE ListObsolete
  BY <1>2, ListingKeeps, NothingGoes DEF ListObsolete
<1>3. CASE RemoveOldest
  BY <1>3, RemovingKeeps DEF RemoveOldest
<1>4. CASE BackupSucceeds \/ ManualBackup
  BY <1>4, BackingUpKeeps, NothingGoes DEF BackupSucceeds, ManualBackup
<1>5. CASE GzipSucceeds
  BY <1>5, CompressingKeeps DEF GzipSucceeds
<1>6. CASE GzipFails
  BY <1>6, FailingKeeps DEF GzipFails
<1>7. CASE Crash
  BY <1>7, CrashKeeps DEF Crash
<1>8. CASE PowerLoss
  BY <1>8, PowerLossKeeps DEF PowerLoss
<1>9. CASE ToolCompresses
  BY <1>9, ToolCompressesKeeps DEF ToolCompresses
<1>10. CASE ToolEnds
  BY <1>10, ToolEndsKeeps DEF ToolEnds
<1> QED
  BY <1>1, <1>2, <1>3, <1>4, <1>5, <1>6, <1>7, <1>8, <1>9, <1>10
     DEF Next, Script, Quiet

LEMMA BackupInvHolds == Spec => []BackupInv
<1>1. TypeOK' /\ BackupInv /\ [Next]_vars => BackupInv'
  BY StepKeeps
<1> QED
  BY <1>1, InitInv, TypeCorrect, PTL DEF Spec

-----------------------------------------------------------------------------
(* While pruning and without an accident, every file is complete.           *)
LEMMA InvKeepsOnlyComplete == BackupInv => KeepsOnlyComplete
<1> SUFFICES ASSUME BackupInv, accidents = {}, pc \in {"prune1", "prune2"},
                    NEW n \in Files
             PROVE  file[n] = "good"
  BY DEF KeepsOnlyComplete
<1>1. n \in Name /\ n[1] \in Gen /\ (n = <<n[1], "db">> \/ n = <<n[1], "gz">>)
      /\ file[n] \in {"good", "torn"}
  BY NamesOfGenerations DEF Files, BackupInv, TypeOK, Content
<1>2. file[n] # "torn"
  BY <1>1 DEF BackupInv, TypeOK, TornHasSource, Settled
<1> QED
  BY <1>1, <1>2

\* Whatever the retention: until gzip, the tool or a power loss has spoilt a
\* file, what is left when the pruning lists the directory is complete.
THEOREM PrunesOnlyBehindComplete == Spec => []KeepsOnlyComplete
BY BackupInvHolds, InvKeepsOnlyComplete, PTL

\* A run without errors that no manual backup overtook ends with its own
\* generation complete and compressed, no .db, and at most Retention names,
\* whatever the tool, earlier crashes and power losses did.
THEOREM CleanRunsAreTidy == Spec => CleanRunIsTidy
<1> DEFINE Tidy == pc = "prune2" /\ pc' = "end" /\ status = 0 /\ ~overtaken =>
                     /\ file[<<gen, "gz">>] = "good"
                     /\ Databases = {}
                     /\ Cardinality(Files) <= Retention
<1>1. BackupInv /\ [Next]_vars => [Tidy]_vars
  <2> SUFFICES ASSUME BackupInv, [Next]_vars, pc = "prune2", pc' = "end",
                      status = 0, ~overtaken
               PROVE  /\ file[<<gen, "gz">>] = "good"
                      /\ Databases = {}
                      /\ Cardinality(Files) <= Retention
    OBVIOUS
  <2>1. obsolete = {}
    BY DEF Next, Script, StartBackups, GzipSucceeds, GzipFails, SourceIsGone, CompressDone,
       ListObsolete, RemoveOldest, PruneAborts, PruneDone, BackupSucceeds, BackupFails,
       EndRun, ManualBackup, ToolCompresses, ToolEnds, Crash, WriteBack, PowerLoss,
       Compressing, vars, script
  <2>2. /\ gen \in Gen /\ Databases = {}
        /\ file[<<gen, "gz">>] = "good" \/ file[<<gen, "db">>] = "good"
        /\ Cardinality(Files \ obsolete) <= Retention
    BY DEF BackupInv, Swept, ListsAreLocal, Compressing
  <2>3. Files \ obsolete = Files
    BY <2>1
  <2>4. file[<<gen, "gz">>] = "good"
    BY <2>2, DatabasesAreGood DEF BackupInv
  <2> QED
    BY <2>2, <2>3, <2>4
<1> QED
  BY <1>1, BackupInvHolds, PTL DEF Spec, CleanRunIsTidy

(* Only pruning takes the last complete file of a generation.               *)
LEMMA StaysOutlived == GenerationsStay => Outlived
<1> SUFFICES ASSUME GenerationsStay, NEW n \in Good
             PROVE  \E m \in Name : m[1] >= n[1] /\ file'[m] = "good"
  BY DEF Outlived
<1>1. PICK k \in Good' : k[1] = n[1]
  BY DEF GenerationsStay
<1>2. n[1] \in Nat
  BY NamesOfGenerations DEF Good, Gen
<1> QED
  BY <1>1, <1>2 DEF Good

(* Pruning leaves every file but the one it removes.                        *)
LEMMA PruningLeaves ==
    ASSUME BackupInv, RemoveOldest
    PROVE  \E k \in obsolete \cap Files :
             /\ k \in Name /\ pc \in {"prune1", "prune2"}
             /\ UNCHANGED accidents
             /\ \A n \in Good : n # k => file'[n] = "good"
<1>1. PICK k \in obsolete \cap Files : file' = [file EXCEPT ![k] = "none"]
  BY DEF RemoveOldest
<1>2. k \in Name
  BY <1>1 DEF Files
<1>3. \A n \in Name : file'[n] = IF n = k THEN "none" ELSE file[n]
  BY <1>1, <1>2, Removing DEF BackupInv, TypeOK
<1> QED
  BY <1>1, <1>2, <1>3 DEF RemoveOldest, Good

\* With two names or more kept: a complete backup goes only if a complete one
\* of the same or a newer generation remains, also beside what stopped gzips
\* have torn; what the tool and a power loss may each take is apart.
THEOREM BackupsAreOutlived ==
    ASSUME Retention >= 2
    PROVE  Spec => GoodBackupOutlived
<1>1. ASSUME BackupInv, TypeOK', [Next]_vars, accidents' \subseteq {"stopped"}
      PROVE  Outlived
  <2>1. CASE RemoveOldest
    <3> USE NamesOfGenerations
    <3>1. PICK k \in obsolete \cap Files :
            /\ k \in Name /\ UNCHANGED accidents
            /\ \A n \in Good : n # k => file'[n] = "good"
      BY <1>1, <2>1, PruningLeaves
    <3>2. PICK p \in Good : \A m \in Files : m[1] <= p[1]
      BY <1>1, <3>1 DEF BackupInv, NewestIsComplete
    <3>3. PICK l \in Files : l[1] > k[1]
      BY <1>1, <3>1 DEF BackupInv, OlderIsPruned
    <3>4. p \in Name /\ p[1] \in Nat /\ l[1] \in Nat /\ k[1] \in Nat
      BY <3>1 DEF Good, Files, Gen
    <3>5. p # k /\ p[1] >= k[1] /\ file'[p] = "good"
      BY <3>1, <3>2, <3>3, <3>4
    <3>6. \A n \in Good : n[1] \in Nat /\ n \in Name
      BY DEF Good, Gen
    <3> QED
      BY <3>1, <3>4, <3>5, <3>6 DEF Outlived
  <2>2. CASE ~RemoveOldest
    BY <1>1, <2>2, StepKeeps, StaysOutlived
  <2> QED
    BY <2>1, <2>2
<1>2. BackupInv /\ TypeOK' /\ [Next]_vars =>
        [accidents' \subseteq {"stopped"} => Outlived]_vars
  BY <1>1
<1> QED
  BY <1>2, BackupInvHolds, TypeCorrect, PTL DEF Spec, GoodBackupOutlived

\* The same for every retention, until gzip, the tool or a power loss has
\* spoilt a file.
THEOREM UndisturbedBackupsAreOutlived == Spec => [][accidents' = {} => Outlived]_vars
<1>1. ASSUME BackupInv, TypeOK', [Next]_vars, accidents' = {}
      PROVE  Outlived
  <2>1. CASE RemoveOldest
    <3> USE NamesOfGenerations
    <3>1. PICK k \in obsolete \cap Files :
            /\ k \in Name /\ pc \in {"prune1", "prune2"} /\ UNCHANGED accidents
            /\ \A n \in Good : n # k => file'[n] = "good"
      BY <1>1, <2>1, PruningLeaves
    <3>2. PICK m \in Files \ obsolete : Rank(m) > Rank(k)
      BY <1>1, <3>1 DEF BackupInv, NewerIsKept
    <3>3. m \in Good /\ m \in Name
      BY <1>1, <3>1, <3>2, InvKeepsOnlyComplete DEF KeepsOnlyComplete, Good, Files
    <3>4. m # k /\ m[1] >= k[1] /\ file'[m] = "good"
      BY <3>1, <3>2, <3>3
    <3>5. \A n \in Good : n[1] \in Nat /\ n \in Name
      BY DEF Good, Gen
    <3> QED
      BY <3>1, <3>3, <3>4, <3>5 DEF Outlived
  <2>2. CASE ~RemoveOldest
    BY <1>1, <2>2, StepKeeps, StaysOutlived
  <2> QED
    BY <2>1, <2>2
<1>2. BackupInv /\ TypeOK' /\ [Next]_vars => [accidents' = {} => Outlived]_vars
  BY <1>1
<1> QED
  BY <1>2, BackupInvHolds, TypeCorrect, PTL DEF Spec
=============================================================================
