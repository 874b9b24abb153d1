------------------------ MODULE MetricsJournalProofs ------------------------
(***************************************************************************)
(* For any number of jobs, generations, records and crashes: the journal's *)
(* types, that appends and rotations exclude each other until a lock has   *)
(* become old, and what the files hold until a lock was taken from a live  *)
(* process: the newest records without a hole, no more of them in a file   *)
(* than its limit, and no fewer of all than the journal promises.          *)
(***************************************************************************)
EXTENDS MetricsJournal, OrderLemmas

\* The state of the journal has the types its variables are meant to have,
\* whatever is killed where.
THEOREM TypeCorrect == Spec => []TypeOK
<1> USE GenerationsAssumption, MaxRecordsAssumption, MaxCrashesAssumption
    DEF Place, Critical, Rotating, Generation
<1>1. Init => TypeOK
  <2>1. <<>> \in Seq(Nat)
    OBVIOUS
  <2>2. 0 \in 0..(Generations - 1) /\ 0 \in 0..MaxCrashes
    OBVIOUS
  <2> SUFFICES ASSUME Init PROVE TypeOK
    OBVIOUS
  <2>3. file \in [Generation -> Seq(Nat)]
    <3>1. file = [g \in Generation |-> <<>>]
      BY DEF Init
    <3> QED
      BY <2>1, <3>1
  <2>4. pc \in [Slot -> Place] /\ shift \in [Slot -> 0..(Generations - 1)]
    BY <2>2 DEF Init
  <2> QED
    BY <2>2, <2>3, <2>4 DEF Init, TypeOK
<1>2. TypeOK /\ [Next]_vars => TypeOK'
  <2> SUFFICES ASSUME TypeOK, [Next]_vars PROVE TypeOK'
    OBVIOUS
  <2> USE DEF TypeOK, GoTo, NoLock, lock, journal, history
  <2>1. ASSUME NEW s \in Slot, Begin(s) PROVE TypeOK'
    BY <2>1 DEF Begin
  <2>2. ASSUME NEW s \in Slot, Step(s) PROVE TypeOK'
    <3>1. CASE MakeDirectory(s)
      BY <3>1 DEF MakeDirectory
    <3>2. CASE DirectoryExists(s)
      BY <3>2 DEF DirectoryExists
    <3>3. CASE CreateOwner(s)
      BY <3>3 DEF CreateOwner
    <3>4. CASE CreateOwnerFails(s)
      BY <3>4 DEF CreateOwnerFails
    <3>5. CASE WriteOwner(s)
      BY <3>5 DEF WriteOwner
    <3>6. CASE WriteOwnerFails(s)
      BY <3>6 DEF WriteOwnerFails
    <3>7. CASE ReadAge(s)
      BY <3>7 DEF ReadAge
    <3>8. CASE ReadOwner(s)
      BY <3>8 DEF ReadOwner
    <3>9. CASE Detach(s)
      BY <3>9 DEF Detach
    <3>10. CASE Retry(s)
      BY <3>10 DEF Retry
    <3>11. CASE GiveUp(s)
      BY <3>11 DEF GiveUp
    <3>12. CASE StartRotation(s)
      BY <3>12 DEF StartRotation
    <3>13. CASE DropOldest(s)
      BY <3>13 DEF DropOldest
    <3>14. CASE Shift(s)
      <4>1. shift[s] \in 0..(Generations - 1)
        OBVIOUS
      <4>2. shift[s] \in Generation /\ shift[s] + 1 \in Generation
        BY <4>1
      <4>3. <<>> \in Seq(Nat) /\ file[shift[s]] \in Seq(Nat)
        BY <4>2
      <4>4. file' = file \/ file' = [file EXCEPT ![shift[s] + 1] = file[shift[s]],
                                               ![shift[s]] = <<>>]
        BY <3>14 DEF Shift, Move
      <4>5. file' \in [Generation -> Seq(Nat)]
        BY <4>2, <4>3, <4>4
      <4>6. shift' \in [Slot -> 0..(Generations - 1)]
        BY <3>14, <4>1 DEF Shift
      <4>7. pc' \in [Slot -> Place]
        BY <3>14 DEF Shift
      <4> QED
        BY <3>14, <4>5, <4>6, <4>7 DEF Shift
    <3>15. CASE AppendRecord(s)
      <4>1. next \in Nat /\ file' = [file EXCEPT ![0] = Append(@, next)]
        BY <3>15 DEF AppendRecord
      <4>2. file' \in [Generation -> Seq(Nat)]
        BY <4>1
      <4>3. pc' \in [Slot -> Place]
        BY <3>15 DEF AppendRecord
      <4>4. next' \in Nat /\ UNCHANGED <<lock, shift, history, crashes>>
        BY <3>15 DEF AppendRecord
      <4> QED
        BY <4>2, <4>3, <4>4
    <3>16. CASE AppendFails(s)
      BY <3>16 DEF AppendFails
    <3>17. CASE UnlinkOwner(s)
      BY <3>17 DEF UnlinkOwner
    <3>18. CASE RemoveDirectory(s)
      BY <3>18 DEF RemoveDirectory
    <3> QED
      BY <2>2, <3>1, <3>2, <3>3, <3>4, <3>5, <3>6, <3>7, <3>8, <3>9, <3>10,
         <3>11, <3>12, <3>13, <3>14, <3>15, <3>16, <3>17, <3>18 DEF Step
  <2>3. ASSUME NEW s \in Slot, Crash(s) PROVE TypeOK'
    BY <2>3 DEF Crash
  <2>4. CASE GrowOld
    BY <2>4 DEF GrowOld
  <2>5. CASE UNCHANGED vars
    BY <2>5 DEF vars, history
  <2> QED
    BY <2>1, <2>2, <2>3, <2>4, <2>5 DEF Next
<1> QED
  BY <1>1, <1>2, PTL DEF Spec

-----------------------------------------------------------------------------
\* From the mkdir to the end of the release.
Inside == Critical \cup {"own", "write", "unlink", "rmdir"}

\* Until a lock is old no recorder gets past the age check; so the directory
\* stays until its maker, the only recorder inside, removes it.
HolderInv ==
    ~stale =>
        /\ ~old
        /\ \A s \in Slot : pc[s] \notin {"owner", "detach"}
        /\ \A s \in Slot : pc[s] \in Inside => present
        /\ \A s, t \in Slot : pc[s] \in Inside /\ pc[t] \in Inside => s = t

LEMMA HolderInvCorrect == Spec => []HolderInv
<1> USE DEF Inside, Place, Critical, Rotating
<1>1. Init => HolderInv
  BY DEF Init, HolderInv
<1>2. TypeOK /\ HolderInv /\ [Next]_vars => HolderInv'
  <2> SUFFICES ASSUME TypeOK, HolderInv, [Next]_vars, ~stale' PROVE HolderInv'
    BY DEF HolderInv
  <2>0. ~stale \/ GrowOld
    BY DEF Next, Step, vars, lock, journal, history, Begin, Crash, GrowOld, MakeDirectory, DirectoryExists,
       CreateOwner, CreateOwnerFails, WriteOwner, WriteOwnerFails, ReadAge,
       ReadOwner, Detach, Retry, GiveUp, StartRotation, DropOldest, Shift,
       AppendRecord, AppendFails, UnlinkOwner, RemoveDirectory
  <2>00. ~GrowOld
    BY DEF GrowOld
  <2> USE <2>0, <2>00 DEF HolderInv, GoTo, lock, journal, history
  <2>1. ASSUME NEW s \in Slot, Begin(s) PROVE HolderInv'
    BY <2>1 DEF Begin, TypeOK
  <2>2. ASSUME NEW s \in Slot, Step(s) PROVE HolderInv'
    <3>1. CASE MakeDirectory(s)
      BY <3>1 DEF MakeDirectory, TypeOK
    <3>2. CASE DirectoryExists(s)
      BY <3>2 DEF DirectoryExists, TypeOK
    <3>3. CASE CreateOwner(s)
      BY <3>3 DEF CreateOwner, TypeOK
    <3>4. CASE CreateOwnerFails(s)
      BY <3>4 DEF CreateOwnerFails, TypeOK
    <3>5. CASE WriteOwner(s)
      BY <3>5 DEF WriteOwner, TypeOK
    <3>6. CASE WriteOwnerFails(s)
      BY <3>6 DEF WriteOwnerFails, TypeOK
    <3>7. CASE ReadAge(s)
      BY <3>7 DEF ReadAge, TypeOK
    <3>8. CASE ReadOwner(s) \/ Detach(s)
      BY <3>8 DEF ReadOwner, Detach
    <3>9. CASE Retry(s)
      BY <3>9 DEF Retry, TypeOK
    <3>10. CASE GiveUp(s)
      BY <3>10 DEF GiveUp, TypeOK
    <3>11. CASE StartRotation(s)
      BY <3>11 DEF StartRotation, TypeOK
    <3>12. CASE DropOldest(s)
      BY <3>12 DEF DropOldest, TypeOK
    <3>13. CASE Shift(s)
      BY <3>13 DEF Shift, TypeOK
    <3>14. CASE AppendRecord(s)
      BY <3>14 DEF AppendRecord, TypeOK
    <3>15. CASE AppendFails(s)
      BY <3>15 DEF AppendFails, TypeOK
    <3>16. CASE UnlinkOwner(s)
      BY <3>16 DEF UnlinkOwner, TypeOK
    <3>17. CASE RemoveDirectory(s)
      BY <3>17 DEF RemoveDirectory, NoLock, TypeOK
    <3> QED
      BY <2>2, <3>1, <3>2, <3>3, <3>4, <3>5, <3>6, <3>7, <3>8, <3>9, <3>10,
         <3>11, <3>12, <3>13, <3>14, <3>15, <3>16, <3>17 DEF Step
  <2>3. ASSUME NEW s \in Slot, Crash(s) PROVE HolderInv'
    BY <2>3 DEF Crash, TypeOK
  <2>4. CASE UNCHANGED vars
    BY <2>4 DEF vars
  <2> QED
    BY <2>1, <2>2, <2>3, <2>4 DEF Next
<1> QED
  BY <1>1, <1>2, TypeCorrect, PTL DEF Spec

\* Appends and rotations of the journal never overlap as long as no lock has
\* become old: the recovery of dead locks is the only way into trouble.
THEOREM ExclusiveUntilStale == Spec => []OneRecorderUntilStale
<1>1. HolderInv => OneRecorderUntilStale
  BY DEF HolderInv, OneRecorderUntilStale, OneRecorder, Inside
<1> QED
  BY <1>1, HolderInvCorrect, PTL

-----------------------------------------------------------------------------
\* Until a lock was renamed away from a live process, everybody inside is the
\* process the directory is named after, so there is one at most, and those
\* that take the directory of a dead process take it from nobody.
HeldInv ==
    ~stolen => \A s \in Slot : pc[s] \in Inside => present /\ pid = s

LEMMA HeldInvCorrect == Spec => []HeldInv
<1> USE DEF Inside, Place, Critical, Rotating
<1>1. Init => HeldInv
  BY DEF Init, HeldInv
<1>2. TypeOK /\ HeldInv /\ [Next]_vars => HeldInv'
  <2> SUFFICES ASSUME TypeOK, HeldInv, [Next]_vars, ~stolen' PROVE HeldInv'
    BY DEF HeldInv
  <2> USE NobodyAssumption DEF HeldInv, GoTo, lock, journal, history, TypeOK
  <2>1. ASSUME NEW s \in Slot, Begin(s) PROVE HeldInv'
    BY <2>1 DEF Begin
  <2>2. ASSUME NEW s \in Slot, Step(s) PROVE HeldInv'
    <3>1. CASE MakeDirectory(s)
      BY <3>1 DEF MakeDirectory
    <3>2. CASE DirectoryExists(s)
      BY <3>2 DEF DirectoryExists
    <3>3. CASE CreateOwner(s)
      BY <3>3 DEF CreateOwner
    <3>4. CASE CreateOwnerFails(s)
      BY <3>4 DEF CreateOwnerFails
    <3>5. CASE WriteOwner(s) \/ WriteOwnerFails(s)
      BY <3>5 DEF WriteOwner, WriteOwnerFails
    <3>6. CASE ReadAge(s) \/ ReadOwner(s)
      BY <3>6 DEF ReadAge, ReadOwner
    <3>7. CASE Detach(s)
      BY <3>7 DEF Detach, NoLock
    <3>8. CASE Retry(s) \/ GiveUp(s)
      BY <3>8 DEF Retry, GiveUp
    <3>9. CASE StartRotation(s) \/ DropOldest(s)
      BY <3>9 DEF StartRotation, DropOldest
    <3>10. CASE Shift(s)
      BY <3>10 DEF Shift
    <3>11. CASE AppendRecord(s) \/ AppendFails(s)
      BY <3>11 DEF AppendRecord, AppendFails
    <3>12. CASE UnlinkOwner(s)
      BY <3>12 DEF UnlinkOwner
    <3>13. CASE RemoveDirectory(s)
      BY <3>13 DEF RemoveDirectory, NoLock
    <3> QED
      BY <2>2, <3>1, <3>2, <3>3, <3>4, <3>5, <3>6, <3>7, <3>8, <3>9, <3>10,
         <3>11, <3>12, <3>13 DEF Step
  <2>3. ASSUME NEW s \in Slot, Crash(s) PROVE HeldInv'
    BY <2>3 DEF Crash
  <2>4. CASE GrowOld \/ UNCHANGED vars
    BY <2>4 DEF GrowOld, vars
  <2> QED
    BY <2>1, <2>2, <2>3, <2>4 DEF Next
<1> QED
  BY <1>1, <1>2, TypeCorrect, PTL DEF Spec

-----------------------------------------------------------------------------
\* u joins the files f, each behind those of the older generations: what Kept
\* makes of the files up to its last generation.
Joins(f, u) ==
    u = [g \in Generation |-> IF g = 0 THEN f[0] ELSE f[g] \o u[g - 1]]

Files == [Generation -> Seq(Nat)]

\* The recursion of Kept has a solution for all files.
LEMMA JoinExists ==
    ASSUME NEW f \in Files
    PROVE  \E u : Joins(f, u)
<1> USE GenerationsAssumption
<1> DEFINE Upto(n, u) ==
             u = [g \in 0..n |-> IF g = 0 THEN f[0] ELSE f[g] \o u[g - 1]]
           S == {n \in Generation : \E u : Upto(n, u)}
<1>1. 0 \in S
  <2>1. Upto(0, [g \in 0..0 |-> f[0]])
    OBVIOUS
  <2> HIDE DEF Upto
  <2> QED
    BY <2>1 DEF Generation
<1>2. ASSUME NEW k \in 0..(Generations - 1), k \in S PROVE k + 1 \in S
  <2>1. PICK u : Upto(k, u)
    BY <1>2
  <2> DEFINE v == [g \in 0..(k + 1) |-> IF g = k + 1 THEN f[g] \o u[k] ELSE u[g]]
  <2>2. ASSUME NEW g \in 0..(k + 1)
        PROVE  v[g] = IF g = 0 THEN f[0] ELSE f[g] \o v[g - 1]
    <3>1. CASE g = k + 1
      BY <3>1
    <3>2. CASE g # k + 1
      <4>1. g \in 0..k
        BY <3>2
      <4> HIDE DEF v
      <4>2. u[g] = IF g = 0 THEN f[0] ELSE f[g] \o u[g - 1]
        BY <2>1, <4>1
      <4>3. v[g] = u[g] /\ (g # 0 => v[g - 1] = u[g - 1])
        BY <4>1 DEF v
      <4> QED
        BY <4>2, <4>3
    <3> QED
      BY <3>1, <3>2
  <2>3. Upto(k + 1, v)
    <3>1. v = [g \in 0..(k + 1) |-> v[g]]
      OBVIOUS
    <3> HIDE DEF v
    <3> QED
      BY <2>2, <3>1
  <2> HIDE DEF v, Upto
  <2> QED
    BY <2>3 DEF Generation
<1>3. Generations \in S
  <2> HIDE DEF S
  <2> QED
    BY <1>1, <1>2, CountUp
<1> QED
  BY <1>3 DEF Joins, Generation

\* The records up to a generation are a sequence.
LEMMA JoinType ==
    ASSUME NEW f \in Files, NEW u, Joins(f, u)
    PROVE  u \in Files
<1> USE GenerationsAssumption DEF Files
<1> DEFINE S == {n \in Generation : u[n] \in Seq(Nat)}
<1>1. 0 \in S
  BY DEF Joins, Generation
<1>2. ASSUME NEW k \in 0..(Generations - 1), k \in S PROVE k + 1 \in S
  <2>1. k + 1 \in Generation /\ k + 1 # 0 /\ (k + 1) - 1 = k
    BY DEF Generation
  <2>2. u[k + 1] = f[k + 1] \o u[k]
    BY <2>1 DEF Joins
  <2>3. u[k] \in Seq(Nat) /\ f[k + 1] \in Seq(Nat)
    BY <1>2, <2>1
  <2>4. f[k + 1] \o u[k] \in Seq(Nat)
    BY <2>3, ConcatProperties
  <2> QED
    BY <2>1, <2>2, <2>4
<1>3. \A k \in Generation : k \in S
  <2> HIDE DEF S
  <2> QED
    BY <1>1, <1>2, CountUp DEF Generation
<1> QED
  BY <1>3 DEF Joins

\* The join of one generation, from that of the one below.
LEMMA JoinStep ==
    ASSUME NEW f \in Files, NEW u, Joins(f, u)
    PROVE  /\ u[0] = f[0]
           /\ \A g \in 0..(Generations - 1) : u[g + 1] = f[g + 1] \o u[g]
<1> USE GenerationsAssumption
<1>1. u[0] = f[0]
  BY DEF Joins, Generation
<1>2. ASSUME NEW g \in 0..(Generations - 1) PROVE u[g + 1] = f[g + 1] \o u[g]
  <2>1. g + 1 \in Generation /\ g + 1 # 0 /\ (g + 1) - 1 = g
    BY DEF Generation
  <2> QED
    BY <2>1 DEF Joins
<1> QED
  BY <1>1, <1>2

\* Two lists of files that agree above a generation have the same joins from
\* it on if they have the same join there.
LEMMA JoinAgrees ==
    ASSUME NEW f \in Files, NEW e \in Files, NEW u, NEW v, Joins(f, u), Joins(e, v),
           NEW m \in Generation, u[m] = v[m],
           \A g \in Generation : g > m => f[g] = e[g]
    PROVE  \A g \in Generation : g >= m => u[g] = v[g]
<1>0. /\ u[0] = f[0] /\ \A g \in 0..(Generations - 1) : u[g + 1] = f[g + 1] \o u[g]
      /\ v[0] = e[0] /\ \A g \in 0..(Generations - 1) : v[g + 1] = e[g + 1] \o v[g]
  <2>1. /\ u[0] = f[0] /\ \A g \in 0..(Generations - 1) : u[g + 1] = f[g + 1] \o u[g]
    BY JoinStep
  <2>2. /\ v[0] = e[0] /\ \A g \in 0..(Generations - 1) : v[g + 1] = e[g + 1] \o v[g]
    BY JoinStep
  <2> QED
    BY <2>1, <2>2
<1> USE GenerationsAssumption DEF Generation
<1> DEFINE S == {n \in Generation : n >= m => u[n] = v[n]}
<1>1. 0 \in S
  OBVIOUS
<1>2. ASSUME NEW k \in 0..(Generations - 1), k \in S PROVE k + 1 \in S
  <2>1. k + 1 \in Generation
    OBVIOUS
  <2>2. CASE k >= m
    <3>1. f[k + 1] = e[k + 1] /\ u[k] = v[k]
      BY <1>2, <2>1, <2>2
    <3>2. u[k + 1] = f[k + 1] \o u[k] /\ v[k + 1] = e[k + 1] \o v[k]
      BY <1>0
    <3> QED
      BY <2>1, <3>1, <3>2
  <2>3. CASE k + 1 <= m
    BY <2>1, <2>3
  <2> QED
    BY <2>2, <2>3
<1>3. \A k \in Generation : k \in S
  <2> HIDE DEF S
  <2> QED
    BY <1>1, <1>2, CountUp
<1> QED
  BY <1>3

LEMMA AppendToNumbers ==
    \A a, b \in Seq(Nat) : \A x \in Nat : a \o Append(b, x) = Append(a \o b, x)
  BY AppendToConcat

\* A record that is appended to the active file is the last of every join.
LEMMA JoinAppends ==
    ASSUME NEW f \in Files, NEW e \in Files, NEW u, NEW v, Joins(f, u), Joins(e, v),
           NEW x \in Nat, e[0] = Append(f[0], x),
           \A g \in Generation : g # 0 => e[g] = f[g]
    PROVE  \A g \in Generation : v[g] = Append(u[g], x)
<1>0. /\ u[0] = f[0] /\ \A g \in 0..(Generations - 1) : u[g + 1] = f[g + 1] \o u[g]
      /\ v[0] = e[0] /\ \A g \in 0..(Generations - 1) : v[g + 1] = e[g + 1] \o v[g]
  <2>1. /\ u[0] = f[0] /\ \A g \in 0..(Generations - 1) : u[g + 1] = f[g + 1] \o u[g]
    BY JoinStep
  <2>2. /\ v[0] = e[0] /\ \A g \in 0..(Generations - 1) : v[g + 1] = e[g + 1] \o v[g]
    BY JoinStep
  <2> QED
    BY <2>1, <2>2
<1> USE GenerationsAssumption DEF Generation
<1> DEFINE S == {n \in Generation : v[n] = Append(u[n], x)}
<1>1. 0 \in S
  <2>1. 0 \in Generation
    OBVIOUS
  <2>2. v[0] = Append(u[0], x)
    BY <1>0
  <2> QED
    BY <2>1, <2>2
<1>2. ASSUME NEW k \in 0..(Generations - 1), k \in S PROVE k + 1 \in S
  <2>1. k + 1 \in Generation /\ k \in Generation
    OBVIOUS
  <2>2. f[k + 1] \in Seq(Nat) /\ u[k] \in Seq(Nat)
    BY <2>1, JoinType DEF Files
  <2>3. e[k + 1] = f[k + 1]
    BY <2>1 DEF Files
  <2>4. v[k + 1] = f[k + 1] \o Append(u[k], x)
    BY <1>2, <2>3, <1>0
  <2>5. f[k + 1] \o Append(u[k], x) = Append(f[k + 1] \o u[k], x)
    BY Zenon, <2>2, AppendToNumbers
  <2> QED
    BY <2>1, <2>4, <2>5, <1>0
<1>3. \A k \in Generation : k \in S
  <2> HIDE DEF S
  <2> QED
    BY <1>1, <1>2, CountUp
<1> QED
  BY <1>3

\* A generation that takes the place of the empty one above it leaves the join
\* of all as it is.
LEMMA JoinMoves ==
    ASSUME NEW f \in Files, NEW e \in Files, NEW u, NEW v, Joins(f, u), Joins(e, v),
           NEW g \in 0..(Generations - 1), f[g + 1] = <<>>,
           e[g + 1] = f[g], e[g] = <<>>,
           \A h \in Generation : h # g /\ h # g + 1 => e[h] = f[h]
    PROVE  v[Generations] = u[Generations]
<1>0. /\ u[0] = f[0] /\ \A k \in 0..(Generations - 1) : u[k + 1] = f[k + 1] \o u[k]
      /\ v[0] = e[0] /\ \A k \in 0..(Generations - 1) : v[k + 1] = e[k + 1] \o v[k]
  <2>1. /\ u[0] = f[0] /\ \A k \in 0..(Generations - 1) : u[k + 1] = f[k + 1] \o u[k]
    BY JoinStep
  <2>2. /\ v[0] = e[0] /\ \A k \in 0..(Generations - 1) : v[k + 1] = e[k + 1] \o v[k]
    BY JoinStep
  <2> QED
    BY <2>1, <2>2
<1> USE GenerationsAssumption DEF Generation
<1>1. /\ g \in Generation /\ g + 1 \in Generation
      /\ e[g] = <<>> /\ e[g + 1] = f[g]
      /\ \A h \in Generation : h # g /\ h # g + 1 => e[h] = f[h]
  BY DEF Files
<1>2. v[g + 1] = f[g] \o v[g] /\ u[g + 1] = <<>> \o u[g]
  BY <1>1, <1>0
<1>3. u[g] \in Seq(Nat) /\ v[g] \in Seq(Nat) /\ f[g] \in Seq(Nat)
  BY <1>1, JoinType DEF Files
<1>4. u[g + 1] = u[g]
  BY <1>2, <1>3
<1>5. u[g] = f[g] \o v[g]
  <2>1. CASE g = 0
    <3>1. u[g] = f[g] /\ v[g] = <<>>
      BY <1>1, <2>1, <1>0
    <3> QED
      BY <1>3, <3>1
  <2>2. CASE g # 0
    <3>1. g - 1 \in 0..(Generations - 1) /\ g - 1 \in Generation /\ (g - 1) + 1 = g
      BY <2>2
    <3>2. u[g - 1] = v[g - 1]
      <4>1. ASSUME NEW h \in 0..(g - 1) PROVE f[h] = e[h]
        <5>1. h \in Generation /\ h # g /\ h # g + 1
          BY <4>1, <3>1
        <5> QED
          BY <1>1, <5>1
      <4> DEFINE S == {n \in 0..(g - 1) : u[n] = v[n]}
      <4>2. 0 \in S
        <5>1. 0 \in 0..(g - 1)
          BY <3>1
        <5> QED
          BY <4>1, <5>1, <1>0
      <4>3. ASSUME NEW k \in 0..((g - 1) - 1), k \in S PROVE k + 1 \in S
        <5>1. k + 1 \in 0..(g - 1) /\ k \in 0..(Generations - 1)
          BY <3>1, <4>3
        <5>2. f[k + 1] = e[k + 1] /\ u[k] = v[k]
          BY <4>1, <4>3, <5>1
        <5>3. u[k + 1] = f[k + 1] \o u[k] /\ v[k + 1] = e[k + 1] \o v[k]
          BY <1>0, <5>1
        <5> QED
          BY <5>1, <5>2, <5>3
      <4>4. \A k \in 0..(g - 1) : k \in S
        <5>1. g - 1 \in Nat
          BY <3>1
        <5> HIDE DEF S
        <5> QED
          BY <4>2, <4>3, <5>1, CountUp
      <4> QED
        BY <3>1, <4>4
    <3>3. u[g] = f[g] \o u[g - 1] /\ v[g] = <<>> \o v[g - 1]
      BY <1>1, <3>1, <1>0
    <3>4. v[g - 1] \in Seq(Nat)
      BY <3>1, JoinType DEF Files
    <3> QED
      BY <3>2, <3>3, <3>4
  <2> QED
    BY <2>1, <2>2
<1>6. u[g + 1] = v[g + 1]
  BY <1>2, <1>4, <1>5
<1>7. ASSUME NEW h \in Generation, h > g + 1 PROVE f[h] = e[h]
  <2>1. h # g /\ h # g + 1
    BY <1>7
  <2> QED
    BY <1>1, <2>1, Zenon
<1>8. Generations \in Generation /\ Generations >= g + 1
  OBVIOUS
<1>9. \A n \in Generation : n >= g + 1 => u[n] = v[n]
  <2>1. PICK m \in Generation : m = g + 1
    BY <1>1
  <2>2. u[m] = v[m] /\ \A h \in Generation : h > m => f[h] = e[h]
    BY <1>6, <1>7, <2>1
  <2>3. \A n \in Generation : n >= m => u[n] = v[n]
    BY <2>2, JoinAgrees
  <2> QED
    BY <2>1, <2>3
<1> QED
  BY <1>8, <1>9

\* The join of full generations has all their records.
LEMMA JoinOfFull ==
    ASSUME NEW f \in Files, NEW u, Joins(f, u), NEW n \in Generation,
           \A g \in 0..n : Len(f[g]) = MaxRecords
    PROVE  Len(u[n]) = (n + 1) * MaxRecords
<1>0. /\ u[0] = f[0] /\ \A g \in 0..(Generations - 1) : u[g + 1] = f[g + 1] \o u[g]
  BY JoinStep
<1> USE GenerationsAssumption, MaxRecordsAssumption DEF Generation
<1> DEFINE S == {k \in 0..n : Len(u[k]) = (k + 1) * MaxRecords}
<1>1. 0 \in S
  BY <1>0
<1>2. ASSUME NEW k \in 0..(n - 1), k \in S PROVE k + 1 \in S
  <2>1. /\ k \in Generation /\ k + 1 \in 0..n /\ k + 1 \in Generation
        /\ k \in 0..(Generations - 1)
    OBVIOUS
  <2>2. u[k] \in Seq(Nat) /\ f[k + 1] \in Seq(Nat)
    BY <2>1, JoinType DEF Files
  <2>3. Len(u[k + 1]) = Len(f[k + 1]) + Len(u[k])
    <3>1. u[k + 1] = f[k + 1] \o u[k]
      BY <1>0, <2>1
    <3>2. Len(f[k + 1] \o u[k]) = Len(f[k + 1]) + Len(u[k])
      BY <2>2, ConcatProperties, Zenon
    <3> QED
      BY <3>1, <3>2
  <2>4. Len(u[k + 1]) = MaxRecords + (k + 1) * MaxRecords
    BY <1>2, <2>1, <2>3
  <2>5. MaxRecords + (k + 1) * MaxRecords = (k + 1 + 1) * MaxRecords
    OBVIOUS
  <2> QED
    BY <2>1, <2>4, <2>5
<1>3. \A k \in 0..n : k \in S
  <2>1. n \in Nat
    OBVIOUS
  <2> HIDE DEF S
  <2> QED
    BY <1>1, <1>2, <2>1, CountUp
<1> QED
  BY <1>3

-----------------------------------------------------------------------------
\* Kept is the join of all generations, before a step and after it.
LEMMA KeptJoins ==
    /\ file \in Files => \E u : Joins(file, u) /\ Kept = u[Generations]
    /\ file' \in Files => \E u : Joins(file', u) /\ Kept' = u[Generations]
<1>1. ASSUME file \in Files PROVE \E u : Joins(file, u) /\ Kept = u[Generations]
  <2> DEFINE u == CHOOSE u : Joins(file, u)
  <2>1. Joins(file, u)
    BY <1>1, JoinExists
  <2>2. Kept = u[Generations]
    BY DEF Kept, Joins
  <2> QED
    BY <2>1, <2>2
<1>2. ASSUME file' \in Files PROVE \E u : Joins(file', u) /\ Kept' = u[Generations]
  <2> DEFINE u == CHOOSE u : Joins(file', u)
  <2>1. Joins(file', u)
    BY <1>2, JoinExists
  <2>2. Kept' = u[Generations]
    BY DEF Kept, Joins
  <2> QED
    BY <2>1, <2>2
<1> QED
  BY <1>1, <1>2

\* What the three steps that write files make of the records kept.
LEMMA AppendKeeps ==
    ASSUME file \in Files, file' \in Files, next \in Nat,
           file'[0] = Append(file[0], next),
           \A g \in Generation : g # 0 => file'[g] = file[g]
    PROVE  Kept \in Seq(Nat) /\ Kept' = Append(Kept, next)
<1>1. PICK u : Joins(file, u) /\ Kept = u[Generations]
  BY KeptJoins
<1>2. PICK v : Joins(file', v) /\ Kept' = v[Generations]
  BY KeptJoins
<1>3. Generations \in Generation
  BY GenerationsAssumption DEF Generation
<1>4. \A g \in Generation : v[g] = Append(u[g], next)
  BY <1>1, <1>2, JoinAppends
<1>5. u[Generations] \in Seq(Nat)
  BY <1>1, <1>3, JoinType DEF Files
<1> QED
  BY <1>1, <1>2, <1>3, <1>4, <1>5

LEMMA MoveKeeps ==
    ASSUME file \in Files, NEW g \in 0..(Generations - 1), file[g + 1] = <<>>, Move(g)
    PROVE  /\ file' \in Files
           /\ Kept' = Kept
           /\ file'[g + 1] = file[g] /\ file'[g] = <<>>
           /\ \A h \in Generation : h # g /\ h # g + 1 => file'[h] = file[h]
<1>1. g \in Generation /\ g + 1 \in Generation /\ g # g + 1
  BY GenerationsAssumption DEF Generation
<1>2. /\ file' \in Files
      /\ file'[g + 1] = file[g] /\ file'[g] = <<>>
      /\ \A h \in Generation : h # g /\ h # g + 1 => file'[h] = file[h]
  <2>1. CASE file[g] = <<>>
    BY <1>1, <2>1 DEF Move, Files
  <2>2. CASE file[g] # <<>>
    <3>1. <<>> \in Seq(Nat) /\ file[g] \in Seq(Nat)
      BY <1>1 DEF Files
    <3> QED
      BY <1>1, <2>2, <3>1 DEF Move, Files
  <2> QED
    BY <2>1, <2>2
<1>3. PICK u : Joins(file, u) /\ Kept = u[Generations]
  BY KeptJoins
<1>4. PICK v : Joins(file', v) /\ Kept' = v[Generations]
  BY <1>2, KeptJoins
<1> HIDE DEF Move
<1>5. v[Generations] = u[Generations]
  BY <1>2, <1>3, <1>4, JoinMoves
<1> QED
  BY <1>2, <1>3, <1>4, <1>5

\* The records of the oldest generation are the first that are kept; without
\* them, a journal that is full below keeps one record for each place in the
\* other generations.
LEMMA DropKeeps ==
    ASSUME file \in Files, file' = [file EXCEPT ![Generations] = <<>>]
    PROVE  /\ file' \in Files
           /\ Kept' \in Seq(Nat)
           /\ Kept = file[Generations] \o Kept'
           /\ (\A g \in 0..(Generations - 1) : Len(file[g]) = MaxRecords) =>
                Len(Kept') = Generations * MaxRecords
<1> USE GenerationsAssumption
<1>1. /\ Generations \in Generation /\ Generations - 1 \in Generation
      /\ Generations - 1 \in 0..(Generations - 1) /\ (Generations - 1) + 1 = Generations
      /\ \A g \in Generation : g # Generations => g \in 0..(Generations - 1)
  BY DEF Generation
<1>2. /\ file' \in Files
      /\ file'[Generations] = <<>>
      /\ \A g \in 0..(Generations - 1) : file'[g] = file[g]
  <2>1. <<>> \in Seq(Nat)
    OBVIOUS
  <2> QED
    BY <1>1, <2>1 DEF Files, Generation
<1>3. PICK u : Joins(file, u) /\ Kept = u[Generations]
  BY KeptJoins
<1>4. PICK v : Joins(file', v) /\ Kept' = v[Generations]
  BY <1>2, KeptJoins
<1>5. /\ u[0] = file[0]
      /\ \A g \in 0..(Generations - 1) : u[g + 1] = file[g + 1] \o u[g]
  BY <1>3, JoinStep
<1>6. /\ v[0] = file'[0]
      /\ \A g \in 0..(Generations - 1) : v[g + 1] = file'[g + 1] \o v[g]
  BY <1>2, <1>4, JoinStep
<1>7. v[Generations - 1] = u[Generations - 1]
  <2> DEFINE S == {g \in 0..(Generations - 1) : u[g] = v[g]}
  <2>1. 0 \in S
    BY <1>2, <1>5, <1>6
  <2>2. ASSUME NEW k \in 0..((Generations - 1) - 1), k \in S PROVE k + 1 \in S
    <3>1. k + 1 \in 0..(Generations - 1) /\ k \in 0..(Generations - 1)
      OBVIOUS
    <3>2. file[k + 1] = file'[k + 1] /\ u[k] = v[k]
      BY <1>2, <2>2, <3>1
    <3> QED
      BY <1>5, <1>6, <3>1, <3>2
  <2>3. \A k \in 0..(Generations - 1) : k \in S
    <3>1. Generations - 1 \in Nat
      OBVIOUS
    <3> HIDE DEF S
    <3> QED
      BY <2>1, <2>2, <3>1, CountUp
  <2> QED
    BY <1>1, <2>3
<1>8. v \in Files /\ v[Generations - 1] \in Seq(Nat) /\ v[Generations] \in Seq(Nat)
  BY <1>1, <1>2, <1>4, JoinType DEF Files
<1>9. v[Generations] = v[Generations - 1]
  <2>1. v[Generations] = <<>> \o v[Generations - 1]
    BY <1>1, <1>2, <1>6
  <2> QED
    BY <1>8, <2>1
<1>10. u[Generations] = file[Generations] \o u[Generations - 1]
  BY <1>1, <1>5
<1>11. ASSUME \A g \in 0..(Generations - 1) : Len(file[g]) = MaxRecords
       PROVE  Len(u[Generations - 1]) = Generations * MaxRecords
  <2>1. Len(u[Generations - 1]) = ((Generations - 1) + 1) * MaxRecords
    BY <1>1, <1>3, <1>11, JoinOfFull
  <2> QED
    BY <1>1, <2>1
<1> QED
  BY <1>2, <1>3, <1>4, <1>7, <1>8, <1>9, <1>10, <1>11

-----------------------------------------------------------------------------
\* Of the generations but the one with this number, those behind a file with
\* records are full, and so is the file.
Packed(k) ==
    \A g \in 1..Generations : g # k /\ file[g] # <<>> =>
        \A h \in 1..g : h # k => Len(file[h]) = MaxRecords

\* Where a rotation is, as far as it can be told from the files.
RotationInv ==
    /\ \A g \in Generation : Len(file[g]) <= MaxRecords
    /\ \A s \in Slot :
         /\ pc[s] = "append" => Len(file[0]) < MaxRecords
         /\ pc[s] = "drop" => Len(file[0]) = MaxRecords
         /\ pc[s] = "shift" => file[0] # <<>> /\ file[shift[s] + 1] = <<>>

\* Without a crash the generations are full up to the oldest, but for the gap
\* that a rotation moves down.
PackedInv ==
    /\ (\A s \in Slot : pc[s] # "shift") => Packed(0)
    /\ \A s \in Slot : pc[s] = "shift" =>
         Packed(shift[s] + 1) /\ Len(file[0]) = MaxRecords

Newest == \A i \in 1..Len(Kept) : Kept[i] = next - 1 - Len(Kept) + i

Enough ==
    Len(Kept) >= IF next - 1 < Generations * MaxRecords
                 THEN next - 1 ELSE Generations * MaxRecords

\* What the runs check speaks of the files between any two steps; that the
\* next step keeps it depends on where the rotation is.
JournalInv ==
    ~stolen =>
        /\ next >= 1
        /\ RotationInv
        /\ Newest
        /\ crashes = 0 => PackedInv /\ Enough

\* The steps that write no file: a process may leave the rotation, and only a
\* crash makes it leave in the middle.
LEMMA JournalIdle ==
    ASSUME TypeOK, JournalInv, UNCHANGED journal, stolen => stolen',
           \A s \in Slot :
             \/ pc'[s] \notin {"drop", "shift", "append"}
             \/ pc'[s] = pc[s] /\ shift'[s] = shift[s],
           crashes' = 0 =>
             crashes = 0 /\ \A s \in Slot : pc[s] = "shift" => pc'[s] = "shift"
    PROVE  JournalInv'
<1> SUFFICES ASSUME ~stolen' PROVE JournalInv'
  BY DEF JournalInv
<1>1. file' = file /\ next' = next
  BY DEF journal
<1>2. Kept' = Kept
  BY <1>1 DEF Kept
<1>3. Newest' /\ next' >= 1
  BY <1>1, <1>2 DEF JournalInv, Newest
<1>4. RotationInv'
  BY <1>1 DEF JournalInv, RotationInv
<1>5. ASSUME crashes' = 0 PROVE PackedInv' /\ Enough'
  <2>1. PackedInv /\ Enough
    BY <1>5 DEF JournalInv
  <2>2. Enough'
    BY <1>1, <1>2, <2>1 DEF Enough
  <2>3. \A k : Packed(k)' = Packed(k)
    BY <1>1 DEF Packed
  <2>4. ASSUME NEW s \in Slot, pc'[s] = "shift"
        PROVE  Packed(shift[s] + 1)' /\ Len(file'[0]) = MaxRecords
    BY <1>1, <2>1, <2>3, <2>4 DEF PackedInv
  <2>5. (\A s \in Slot : pc'[s] # "shift") => Packed(0)'
    BY <1>5, <2>1, <2>3 DEF PackedInv
  <2> QED
    BY <2>2, <2>4, <2>5 DEF PackedInv
<1> QED
  BY <1>3, <1>4, <1>5 DEF JournalInv

LEMMA JournalStartRotation ==
    ASSUME TypeOK, JournalInv, HeldInv, NEW s \in Slot, StartRotation(s)
    PROVE  JournalInv'
<1> SUFFICES ASSUME ~stolen PROVE JournalInv'
  BY DEF JournalInv, StartRotation, history
<1>1. /\ file' = file /\ next' = next /\ shift' = shift
      /\ stolen' = stolen /\ crashes' = crashes
      /\ pc' = [pc EXCEPT ![s] = IF file[0] # <<>> /\ Full THEN "drop" ELSE "append"]
  BY DEF StartRotation, journal, history, GoTo
<1>2. Kept' = Kept
  BY <1>1 DEF Kept
<1>3. 0 \in Generation /\ file[0] \in Seq(Nat) /\ Len(file[0]) \in Nat
  BY GenerationsAssumption DEF Generation, TypeOK
<1>4. RotationInv'
  <2>1. Len(file[0]) <= MaxRecords
    BY <1>3 DEF JournalInv, RotationInv
  <2>2. pc'[s] = "append" => Len(file[0]) < MaxRecords
    BY <1>1, <1>3, <2>1, MaxRecordsAssumption DEF Full, TypeOK
  <2>3. pc'[s] = "drop" => Len(file[0]) = MaxRecords
    BY <1>1, <1>3, <2>1, MaxRecordsAssumption DEF Full, TypeOK
  <2>4. pc'[s] # "shift" /\ \A t \in Slot : t # s => pc'[t] = pc[t]
    BY <1>1 DEF TypeOK
  <2> QED
    BY <1>1, <2>2, <2>3, <2>4 DEF JournalInv, RotationInv
<1>5. crashes' = 0 => PackedInv' /\ Enough'
  <2>1. \A k : Packed(k)' = Packed(k)
    BY <1>1 DEF Packed
  <2>2. pc[s] # "shift" /\ pc'[s] # "shift" /\ \A t \in Slot : t # s => pc'[t] = pc[t]
    BY <1>1 DEF TypeOK, StartRotation
  <2> QED
    BY <1>1, <1>2, <2>1, <2>2 DEF JournalInv, PackedInv, Enough
<1> QED
  BY <1>1, <1>2, <1>4, <1>5 DEF JournalInv, Newest

\* The one inside is alone in the rotation.
LEMMA Alone ==
    ASSUME HeldInv, ~stolen, NEW s \in Slot, pc[s] \in Inside
    PROVE  \A t \in Slot : t # s => pc[t] \notin Inside
  BY DEF HeldInv

LEMMA JournalDrop ==
    ASSUME TypeOK, JournalInv, HeldInv, NEW s \in Slot, DropOldest(s)
    PROVE  JournalInv'
<1> USE GenerationsAssumption, MaxRecordsAssumption
<1> SUFFICES ASSUME ~stolen PROVE JournalInv'
  BY DEF JournalInv, DropOldest, history
<1>1. /\ file' = [file EXCEPT ![Generations] = <<>>]
      /\ next' = next /\ stolen' = stolen /\ crashes' = crashes
      /\ pc[s] = "drop" /\ pc'[s] = "shift" /\ shift'[s] = Generations - 1
      /\ \A t \in Slot : t # s => pc'[t] = pc[t]
  BY DEF DropOldest, journal, history, GoTo, TypeOK
<1>2. \A t \in Slot : t # s => pc'[t] \notin {"drop", "shift", "append"}
  BY <1>1, Alone DEF Inside, Critical, Rotating
<1>3. /\ file'[Generations] = <<>>
      /\ \A g \in 0..(Generations - 1) : g \in Generation /\ file'[g] = file[g]
      /\ file \in Files /\ Generations \in Generation /\ 0 \in 0..(Generations - 1)
  BY <1>1 DEF TypeOK, Files, Generation
<1>4. /\ Kept' \in Seq(Nat)
      /\ Kept = file[Generations] \o Kept'
      /\ (\A g \in 0..(Generations - 1) : Len(file[g]) = MaxRecords) =>
           Len(Kept') = Generations * MaxRecords
  BY <1>1, <1>3, DropKeeps
<1>5. file[Generations] \in Seq(Nat) /\ file[0] \in Seq(Nat)
  BY <1>3 DEF Files, Generation
<1>6. Len(file[0]) = MaxRecords /\ file[0] # <<>>
  BY <1>1, <1>5 DEF JournalInv, RotationInv
<1>7. RotationInv'
  <2>1. ASSUME NEW g \in Generation PROVE Len(file'[g]) <= MaxRecords
    <3>1. CASE g = Generations
      BY <1>3, <3>1
    <3>2. CASE g # Generations
      BY <1>3, <3>2 DEF JournalInv, RotationInv, Generation
    <3> QED
      BY <3>1, <3>2
  <2>2. file'[0] # <<>> /\ file'[shift'[s] + 1] = <<>>
    BY <1>1, <1>3, <1>6
  <2> QED
    BY <1>1, <1>2, <2>1, <2>2 DEF RotationInv
<1>8. Newest'
  <2>1. /\ Len(Kept) = Len(file[Generations]) + Len(Kept')
        /\ Len(Kept') \in Nat /\ Len(file[Generations]) \in Nat
        /\ \A i \in 1..Len(Kept') : Kept[Len(file[Generations]) + i] = Kept'[i]
    BY <1>4, <1>5
  <2>2. ASSUME NEW i \in 1..Len(Kept')
        PROVE  Kept'[i] = next - 1 - Len(Kept') + i
    <3>1. Len(file[Generations]) + i \in 1..Len(Kept)
      BY <2>1
    <3>2. Kept[Len(file[Generations]) + i]
            = next - 1 - Len(Kept) + (Len(file[Generations]) + i)
      BY <3>1 DEF JournalInv, Newest
    <3> QED
      BY <2>1, <3>2 DEF TypeOK
  <2> QED
    BY <1>1, <2>2 DEF Newest
<1>9. ASSUME crashes = 0 PROVE PackedInv' /\ Enough'
  <2>1. Packed(0)
    <3>1. \A t \in Slot : pc[t] # "shift"
      BY <1>1, <1>2
    <3> QED
      BY <1>9, <3>1 DEF JournalInv, PackedInv
  <2>2. Packed(Generations)'
    <3> SUFFICES ASSUME NEW g \in 1..Generations, g # Generations, file'[g] # <<>>,
                        NEW h \in 1..g
                 PROVE  Len(file'[h]) = MaxRecords
      BY DEF Packed
    <3>1. g \in 0..(Generations - 1) /\ h \in 0..(Generations - 1) /\ h # 0 /\ g # 0
      OBVIOUS
    <3> QED
      BY <1>3, <2>1, <3>1 DEF Packed
  <2>3. PackedInv'
    <3>1. shift'[s] + 1 = Generations
      BY <1>1
    <3> QED
      BY <1>1, <1>2, <1>3, <1>6, <2>2, <3>1 DEF PackedInv
  <2>4. CASE file[Generations] = <<>>
    <3>1. Kept = Kept'
      BY <1>4, <2>4
    <3> QED
      BY <1>1, <1>9, <2>3, <3>1 DEF JournalInv, Enough
  <2>5. CASE file[Generations] # <<>>
    <3>1. ASSUME NEW g \in 0..(Generations - 1) PROVE Len(file[g]) = MaxRecords
      <4>1. CASE g = 0
        BY <1>6, <4>1
      <4>2. CASE g # 0
        BY <2>1, <2>5, <4>2 DEF Packed
      <4> QED
        BY <4>1, <4>2
    <3>2. Len(Kept') = Generations * MaxRecords /\ Len(Kept') \in Nat
      BY <1>4, <3>1
    <3>3. Enough'
      <4> DEFINE room == Generations * MaxRecords
      <4>1. Len(Kept') = room /\ room \in Nat
        BY <3>2
      <4>2. Len(Kept') >= IF next' - 1 < room THEN next' - 1 ELSE room
        <5> HIDE DEF room
        <5> QED
          BY <4>1, <1>1 DEF TypeOK
      <4> QED
        BY <4>2 DEF Enough
    <3> QED
      BY <2>3, <3>3
  <2> QED
    BY <2>4, <2>5
<1> QED
  BY <1>1, <1>7, <1>8, <1>9 DEF JournalInv

LEMMA JournalShift ==
    ASSUME TypeOK, JournalInv, HeldInv, NEW s \in Slot, Shift(s)
    PROVE  JournalInv'
<1> USE GenerationsAssumption, MaxRecordsAssumption
<1> SUFFICES ASSUME ~stolen PROVE JournalInv'
  BY DEF JournalInv, Shift, history
<1>1. PICK k \in 0..(Generations - 1) : k = shift[s]
  BY DEF TypeOK
<1>2. /\ Move(k)
      /\ next' = next /\ stolen' = stolen /\ crashes' = crashes
      /\ pc[s] = "shift" /\ shift'[s] = IF k = 0 THEN 0 ELSE k - 1
      /\ \A t \in Slot : t # s => pc'[t] = pc[t]
  BY <1>1 DEF Shift, history, GoTo, TypeOK
<1>3. \A t \in Slot : t # s => pc'[t] \notin {"drop", "shift", "append"}
  BY <1>2, Alone DEF Inside, Critical, Rotating
<1>4. file[0] # <<>> /\ file[k + 1] = <<>>
  BY <1>1, <1>2 DEF JournalInv, RotationInv
<1>5. pc'[s] = IF k = 0 THEN "append" ELSE "shift"
  BY <1>1, <1>4 DEF Shift, GoTo, TypeOK
<1>6. /\ Kept' = Kept
      /\ file'[k + 1] = file[k] /\ file'[k] = <<>>
      /\ \A h \in Generation : h # k /\ h # k + 1 => file'[h] = file[h]
  BY <1>2, <1>4, MoveKeeps DEF TypeOK, Files
<1>7. k \in Generation /\ k + 1 \in Generation /\ 0 \in Generation
  BY DEF Generation
<1>8. RotationInv'
  <2>1. ASSUME NEW g \in Generation PROVE Len(file'[g]) <= MaxRecords
    <3>1. CASE g = k + 1
      BY <1>6, <1>7, <3>1 DEF JournalInv, RotationInv
    <3>2. CASE g = k
      BY <1>6, <3>2
    <3>3. CASE g # k /\ g # k + 1
      BY <1>6, <3>3 DEF JournalInv, RotationInv
    <3> QED
      BY <3>1, <3>2, <3>3
  <2>2. CASE k = 0
    BY <1>3, <1>5, <1>6, <2>1, <2>2 DEF RotationInv
  <2>3. CASE k # 0
    <3>1. file'[0] = file[0] /\ shift'[s] + 1 = k
      BY <1>2, <1>6, <1>7, <2>3
    <3> QED
      BY <1>3, <1>4, <1>5, <1>6, <2>1, <2>3, <3>1 DEF RotationInv
  <2> QED
    BY <2>2, <2>3
<1>9. ASSUME crashes = 0 PROVE PackedInv' /\ Enough'
  <2>1. Packed(k + 1) /\ Len(file[0]) = MaxRecords /\ Enough
    BY <1>1, <1>2, <1>9 DEF JournalInv, PackedInv
  <2>2. Packed(k)'
    <3> SUFFICES ASSUME NEW g \in 1..Generations, g # k, file'[g] # <<>>,
                        NEW h \in 1..g, h # k
                 PROVE  Len(file'[h]) = MaxRecords
      BY DEF Packed
    <3>1. g \in Generation /\ h \in Generation /\ g # 0 /\ h # 0
      BY DEF Generation
    <3>2. ASSUME g <= k + 1, file[k] # <<>>
          PROVE  \A j \in 0..k : Len(file[j]) = MaxRecords
      <4>1. CASE k = 0
        BY <2>1, <4>1
      <4>2. CASE k # 0
        <5>1. \A j \in 1..k : j # k + 1 => Len(file[j]) = MaxRecords
          BY <2>1, <3>2, <4>2 DEF Packed
        <5> QED
          BY <2>1, <5>1
      <4> QED
        BY <4>1, <4>2
    <3>3. CASE g = k + 1
      <4>1. file[k] # <<>>
        BY <1>6, <3>3
      <4>2. CASE h = k + 1
        BY <1>6, <3>2, <3>3, <4>1, <4>2
      <4>3. CASE h # k + 1
        <5>1. file'[h] = file[h] /\ h \in 0..k
          BY <1>6, <3>1, <3>3, <4>3
        <5> QED
          BY <3>2, <3>3, <4>1, <5>1
      <4> QED
        BY <4>2, <4>3
    <3>4. CASE g # k + 1
      <4>1. file[g] # <<>>
        BY <1>6, <3>1, <3>4
      <4>2. CASE h # k + 1
        <5>1. file'[h] = file[h]
          BY <1>6, <3>1, <4>2
        <5> QED
          BY <2>1, <3>4, <4>1, <4>2, <5>1 DEF Packed
      <4>3. CASE h = k + 1
        <5>1. k < g
          BY <4>3
        <5>2. Len(file[k]) = MaxRecords
          <6>1. CASE k = 0
            BY <2>1, <6>1
          <6>2. CASE k # 0
            BY <2>1, <3>4, <4>1, <5>1, <6>2 DEF Packed
          <6> QED
            BY <6>1, <6>2
        <5> QED
          BY <1>6, <4>3, <5>2
      <4> QED
        BY <4>2, <4>3
    <3> QED
      BY <3>3, <3>4
  <2>3. Enough'
    BY <1>2, <1>6, <2>1 DEF Enough
  <2>4. CASE k = 0
    <3>1. Packed(0)' /\ \A t \in Slot : pc'[t] # "shift"
      BY <1>3, <1>5, <2>2, <2>4
    <3> QED
      BY <2>3, <3>1 DEF PackedInv
  <2>5. CASE k # 0
    <3>1. shift'[s] + 1 = k /\ file'[0] = file[0] /\ pc'[s] = "shift"
      BY <1>2, <1>5, <1>6, <1>7, <2>5
    <3>2. PackedInv'
      BY <1>3, <2>1, <2>2, <3>1 DEF PackedInv
    <3> QED
      BY <2>3, <3>2
  <2> QED
    BY <2>4, <2>5
<1> QED
  BY <1>2, <1>6, <1>8, <1>9 DEF JournalInv, Newest

LEMMA JournalAppend ==
    ASSUME TypeOK, JournalInv, HeldInv, NEW s \in Slot, AppendRecord(s)
    PROVE  JournalInv'
<1> USE GenerationsAssumption, MaxRecordsAssumption
<1> SUFFICES ASSUME ~stolen PROVE JournalInv'
  BY DEF JournalInv, AppendRecord, history
<1>1. /\ file' = [file EXCEPT ![0] = Append(@, next)]
      /\ next' = next + 1 /\ stolen' = stolen /\ crashes' = crashes /\ shift' = shift
      /\ pc[s] = "append" /\ pc'[s] = "unlink"
      /\ \A t \in Slot : t # s => pc'[t] = pc[t]
  BY DEF AppendRecord, history, GoTo, TypeOK
<1>2. \A t \in Slot : pc'[t] \notin {"drop", "shift", "append"} /\ pc[t] # "shift"
  BY <1>1, Alone DEF Inside, Critical, Rotating
<1>3. /\ next \in Nat /\ next >= 1 /\ file \in Files /\ 0 \in Generation
      /\ file[0] \in Seq(Nat)
  BY DEF TypeOK, Files, Generation, JournalInv
<1>4. /\ file'[0] = Append(file[0], next)
      /\ \A g \in Generation : g # 0 => file'[g] = file[g]
      /\ file' \in Files
  BY <1>1, <1>3 DEF Files
<1>5. Kept \in Seq(Nat) /\ Kept' = Append(Kept, next)
  BY <1>3, <1>4, AppendKeeps
<1>6. RotationInv'
  <2>1. Len(file'[0]) <= MaxRecords
    BY <1>1, <1>3, <1>4 DEF JournalInv, RotationInv
  <2>2. \A g \in Generation : Len(file'[g]) <= MaxRecords
    BY <1>4, <2>1 DEF JournalInv, RotationInv
  <2> QED
    BY <1>2, <2>2 DEF RotationInv
<1>7. Len(Kept') = Len(Kept) + 1 /\ Len(Kept) \in Nat
  BY <1>3, <1>5
<1>8. Newest'
  <2> SUFFICES ASSUME NEW i \in 1..Len(Kept')
               PROVE  Kept'[i] = next' - 1 - Len(Kept') + i
    BY DEF Newest
  <2>1. CASE i = Len(Kept) + 1
    BY <1>1, <1>3, <1>5, <1>7, <2>1
  <2>2. CASE i # Len(Kept) + 1
    <3>1. i \in 1..Len(Kept) /\ Kept'[i] = Kept[i]
      BY <1>3, <1>5, <1>7, <2>2
    <3>2. Kept[i] = next - 1 - Len(Kept) + i
      BY <3>1 DEF JournalInv, Newest
    <3> QED
      BY <1>1, <1>3, <1>7, <3>1, <3>2
  <2> QED
    BY <2>1, <2>2
<1>9. ASSUME crashes = 0 PROVE PackedInv' /\ Enough'
  <2>1. Packed(0) /\ Enough
    BY <1>2, <1>9 DEF JournalInv, PackedInv
  <2>2. Packed(0)'
    <3>1. \A g \in 1..Generations : g # 0 /\ g \in Generation
      BY DEF Generation
    <3> SUFFICES ASSUME NEW g \in 1..Generations, file'[g] # <<>>, NEW h \in 1..g
                 PROVE  Len(file'[h]) = MaxRecords
      BY DEF Packed
    <3>2. h \in 1..Generations
      OBVIOUS
    <3> QED
      BY <1>4, <2>1, <3>1, <3>2 DEF Packed
  <2>3. Enough'
    <3> DEFINE room == Generations * MaxRecords
    <3>1. room \in Nat
      OBVIOUS
    <3>2. Len(Kept) >= IF next - 1 < room THEN next - 1 ELSE room
      BY <2>1 DEF Enough
    <3>3. Len(Kept') >= IF next' - 1 < room THEN next' - 1 ELSE room
      <4> HIDE DEF room
      <4> QED
        BY <1>1, <1>3, <1>7, <3>1, <3>2
    <3> QED
      BY <3>3 DEF Enough
  <2> QED
    BY <1>2, <2>2, <2>3 DEF PackedInv
<1> QED
  BY <1>1, <1>3, <1>6, <1>8, <1>9 DEF JournalInv

LEMMA JournalInvCorrect == Spec => []JournalInv
<1>1. Init => JournalInv
  <2> SUFFICES ASSUME Init PROVE JournalInv
    OBVIOUS
  <2>1. file = [g \in Generation |-> <<>>] /\ next = 1
    BY DEF Init
  <2>2. file \in Files
    <3>1. <<>> \in Seq(Nat)
      OBVIOUS
    <3> QED
      BY <2>1, <3>1 DEF Files
  <2>3. Len(Kept) = 0
    <3>1. PICK u : Joins(file, u) /\ Kept = u[Generations]
      BY <2>2, KeptJoins
    <3> DEFINE S == {g \in Generation : u[g] = <<>>}
    <3>2. 0 \in S
      <4>1. u[0] = file[0]
        BY <2>2, <3>1, JoinStep
      <4>2. 0 \in Generation
        BY GenerationsAssumption DEF Generation
      <4> QED
        BY <2>1, <4>1, <4>2
    <3>3. ASSUME NEW k \in 0..(Generations - 1), k \in S PROVE k + 1 \in S
      <4>1. k + 1 \in Generation /\ file[k + 1] = <<>>
        BY <2>1, GenerationsAssumption DEF Generation
      <4>2. u[k + 1] = file[k + 1] \o u[k]
        BY <2>2, <3>1, JoinStep
      <4> QED
        BY <3>3, <4>1, <4>2
    <3>4. \A k \in 0..Generations : k \in S
      <4> HIDE DEF S
      <4> QED
        BY <3>2, <3>3, CountUp, GenerationsAssumption
    <3> QED
      BY <3>1, <3>4, GenerationsAssumption
  <2>4. RotationInv
    BY <2>1, MaxRecordsAssumption DEF Init, RotationInv
  <2>5. Newest
    BY <2>3 DEF Newest
  <2>6. PackedInv
    BY <2>1 DEF Init, PackedInv, Packed, Generation
  <2>7. Enough
    <3>1. Generations * MaxRecords \in Nat
      BY GenerationsAssumption, MaxRecordsAssumption
    <3> QED
      BY <2>1, <2>3, <3>1 DEF Enough
  <2> QED
    BY <2>1, <2>4, <2>5, <2>6, <2>7 DEF JournalInv
<1>2. TypeOK /\ HeldInv /\ JournalInv /\ [Next]_vars => JournalInv'
  <2> SUFFICES ASSUME TypeOK, HeldInv, JournalInv, [Next]_vars PROVE JournalInv'
    OBVIOUS
  <2>1. ASSUME NEW s \in Slot, Begin(s) PROVE JournalInv'
    BY <2>1, JournalIdle DEF Begin, GoTo, TypeOK, history, journal
  <2>2. ASSUME NEW s \in Slot, Step(s) PROVE JournalInv'
    <3> DEFINE Lock == \/ MakeDirectory(s) \/ DirectoryExists(s) \/ CreateOwner(s)
                       \/ CreateOwnerFails(s) \/ WriteOwner(s) \/ WriteOwnerFails(s)
                       \/ ReadAge(s) \/ ReadOwner(s) \/ Detach(s) \/ Retry(s)
                       \/ GiveUp(s) \/ UnlinkOwner(s) \/ RemoveDirectory(s)
    <3>1. CASE Lock \/ AppendFails(s)
      <4>1. UNCHANGED <<journal, shift, crashes>> /\ (stolen => stolen')
        <5>1. CASE Detach(s)
          BY <5>1 DEF Detach
        <5>2. CASE Lock /\ ~Detach(s)
          <6>1. UNCHANGED <<journal, shift, crashes>> /\ UNCHANGED history
            BY <5>2 DEF MakeDirectory, DirectoryExists, CreateOwner, CreateOwnerFails,
               WriteOwner, WriteOwnerFails, ReadAge, ReadOwner, Retry, GiveUp,
               UnlinkOwner, RemoveDirectory
          <6> QED
            BY <6>1 DEF history
        <5>3. CASE AppendFails(s)
          BY <5>3 DEF AppendFails, history
        <5> QED
          BY <3>1, <5>1, <5>2, <5>3
      <4>2. /\ pc[s] # "shift" /\ pc'[s] \notin {"drop", "shift", "append"}
            /\ \A t \in Slot : t # s => pc'[t] = pc[t]
        BY <3>1 DEF MakeDirectory, DirectoryExists, CreateOwner, CreateOwnerFails,
           WriteOwner, WriteOwnerFails, ReadAge, ReadOwner, Detach, Retry, GiveUp,
           UnlinkOwner, RemoveDirectory, AppendFails, GoTo, TypeOK
      <4> QED
        BY <4>1, <4>2, JournalIdle
    <3>2. CASE StartRotation(s)
      BY <3>2, JournalStartRotation
    <3>3. CASE DropOldest(s)
      BY <3>3, JournalDrop
    <3>4. CASE Shift(s)
      BY <3>4, JournalShift
    <3>5. CASE AppendRecord(s)
      BY <3>5, JournalAppend
    <3> QED
      BY <2>2, <3>1, <3>2, <3>3, <3>4, <3>5 DEF Step
  <2>3. ASSUME NEW s \in Slot, Crash(s) PROVE JournalInv'
    <3>1. UNCHANGED <<journal, shift, stolen>> /\ crashes' # 0
      BY <2>3 DEF Crash, history, TypeOK
    <3>2. pc'[s] = "idle" /\ \A t \in Slot : t # s => pc'[t] = pc[t]
      BY <2>3 DEF Crash, GoTo, TypeOK
    <3> QED
      BY <3>1, <3>2, JournalIdle
  <2>4. CASE GrowOld \/ UNCHANGED vars
    BY <2>4, JournalIdle DEF GrowOld, vars, history, journal
  <2> QED
    BY <2>1, <2>2, <2>3, <2>4 DEF Next
<1> QED
  BY <1>1, <1>2, TypeCorrect, HeldInvCorrect, PTL DEF Spec

\* Until a lock was taken from a live process the files hold the newest
\* records in order and without a hole, wherever recorders have died.
THEOREM NewestAreKept == Spec => []NewestKeptWithoutHole
<1>1. JournalInv => NewestKeptWithoutHole
  BY DEF JournalInv, Newest, NewestKeptWithoutHole
<1> QED
  BY <1>1, JournalInvCorrect, PTL

\* Until then no file is longer than its limit.
THEOREM FilesStayBounded == Spec => []FilesAreBounded
<1>1. JournalInv => FilesAreBounded
  BY DEF JournalInv, RotationInv, FilesAreBounded
<1> QED
  BY <1>1, JournalInvCorrect, PTL

\* And as long as nobody dies either, all the old generations the journal
\* promises are kept full.
THEOREM FullGenerationsAreKept == Spec => []GenerationsAreKept
<1>1. JournalInv => GenerationsAreKept
  BY DEF JournalInv, Enough, GenerationsAreKept
<1> QED
  BY <1>1, JournalInvCorrect, PTL
=============================================================================
