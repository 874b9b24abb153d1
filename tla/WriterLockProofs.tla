-------------------------- MODULE WriterLockProofs --------------------------
(* Proofs about WriterLock, for every set of jobs, every kind and length of *)
(* script, and every number of kills.                                       *)
EXTENDS WriterLock, TLAPS

\* Where a run may be afterwards, once one of its commands has ended.
LEMMA AfterCommandMoves ==
    ASSUME TypeOK, NEW j \in Job, NEW c \in ExitCode, AfterCommand(j, c)
    PROVE  /\ \E p \in {"run", "report"} : pc' = [pc EXCEPT ![j] = p]
           /\ code' \in [Job -> ExitCode]
           /\ codes' \in [Job -> SUBSET ExitCode]
           /\ status' \in [Job -> {0, 1}]
           /\ timedOut' \in [Job -> {0, 1}]
           /\ UNCHANGED <<lockDir, step, outcome, kills>>
<1>1. \E p \in {"run", "report"} : pc' = [pc EXCEPT ![j] = p]
  BY DEF AfterCommand
<1>2. /\ code' \in [Job -> ExitCode]
      /\ codes' \in [Job -> SUBSET ExitCode]
  BY DEF AfterCommand, TypeOK
<1>3. status' \in [Job -> {0, 1}]
  BY DEF AfterCommand, NoteStatus, TypeOK
<1>4. timedOut' \in [Job -> {0, 1}]
  BY DEF AfterCommand, TypeOK
<1>5. QED
  BY <1>1, <1>2, <1>3, <1>4 DEF AfterCommand

\* Every variable keeps to its type, whatever the jobs do.
THEOREM TypeCorrect == Spec => []TypeOK
<1>1. Init => TypeOK
  <2> SUFFICES ASSUME Init  PROVE TypeOK
    OBVIOUS
  <2>1. code \in [Job -> ExitCode] /\ codes \in [Job -> SUBSET ExitCode]
    BY DEF Init, ExitCode
  <2>2. pc \in [Job -> Place] /\ outcome \in [Job -> Outcomes]
    BY DEF Init, Place, Outcomes
  <2>3. kills \in 0..MaxKills
    BY MaxKillsAssumption DEF Init
  <2>4. QED
    BY <2>1, <2>2, <2>3 DEF Init, TypeOK
<1>2. TypeOK /\ [Next]_vars => TypeOK'
  <2> SUFFICES ASSUME TypeOK, [Next]_vars
               PROVE  TypeOK'
    OBVIOUS
  <2> USE DEF run
  <2>1. ASSUME NEW j \in Job, Launch(j)  PROVE TypeOK'
    BY <2>1 DEF Launch, TypeOK, Place, ExitCode, Outcomes
  <2>2. ASSUME NEW j \in Job, ScriptStep(j)  PROVE TypeOK'
    <3>1. CASE Misconfigured(j)
      BY <3>1 DEF Misconfigured, TypeOK, Place, Outcomes
    <3>2. CASE LockHeld(j)
      BY <3>2 DEF LockHeld, TypeOK, Place, Outcomes
    <3>3. CASE MakeLock(j)
      BY <3>3 DEF MakeLock, TypeOK, Place, Owning
    <3>4. CASE SetTrap(j)
      BY <3>4 DEF SetTrap, TypeOK, Place, Owning, Trapped
    <3>5. CASE StartCommand(j)
      BY <3>5 DEF StartCommand, TypeOK, Place, Owning, Trapped
    <3>6. CASE CommandExits(j)
      <4>1. PICK c \in CommandCodes(j) : AfterCommand(j, c)
        BY <3>6 DEF CommandExits
      <4>2. c \in ExitCode
        BY DEF CommandCodes, ExitCode
      <4>3. QED
        BY <3>6, <4>1, <4>2, AfterCommandMoves
           DEF CommandExits, TypeOK, Place, Owning, Trapped
    <3>7. CASE TimeoutExpires(j)
      BY <3>7 DEF TimeoutExpires, TypeOK, Place, Owning, Trapped
    <3>8. CASE GraceEnds(j)
      <4>1. TimeoutCode \in ExitCode
        BY DEF ExitCode
      <4>2. QED
        BY <3>8, <4>1, AfterCommandMoves
           DEF GraceEnds, TypeOK, Place, Owning, Trapped
    <3>9. CASE Report(j)
      <4>1. DailyOutcome(j) \in Outcomes /\ CommandOutcome(j) \in Outcomes
        BY DEF DailyOutcome, CommandOutcome, Outcomes
      <4>2. QED
        BY <3>9, <4>1 DEF Report, TypeOK, Place, Owning, Trapped
    <3>10. CASE Release(j)
      BY <3>10 DEF Release, TypeOK, Place
    <3>11. QED
      BY <2>2, <3>1, <3>2, <3>3, <3>4, <3>5, <3>6, <3>7, <3>8, <3>9, <3>10
         DEF ScriptStep
  <2>3. ASSUME NEW j \in Job, Abort(j)  PROVE TypeOK'
    BY <2>3 DEF Abort, TypeOK, Place, Owning, Trapped
  <2>4. ASSUME NEW j \in Job, ScriptDies(j), lockDir' \in BOOLEAN
        PROVE  TypeOK'
    BY <2>4, MaxKillsAssumption DEF ScriptDies, TypeOK, Place
  <2>5. ASSUME NEW j \in Job, Terminate(j)  PROVE TypeOK'
    BY <2>4, <2>5 DEF Terminate, TypeOK
  <2>6. ASSUME NEW j \in Job, KillHard(j)  PROVE TypeOK'
    BY <2>4, <2>6 DEF KillHard, TypeOK
  <2>7. ASSUME NEW j \in Job, OrphanExits(j)  PROVE TypeOK'
    BY <2>7 DEF OrphanExits, TypeOK
  <2>8. CASE PowerLoss
    <3>1. kills' \in 0..MaxKills
      BY <2>8, MaxKillsAssumption DEF PowerLoss, TypeOK
    <3>2. pc' \in [Job -> Place] /\ orphans' \in [Job -> Nat]
      BY <2>8 DEF PowerLoss, Place
    <3>3. lockDir' \in BOOLEAN
      BY <2>8 DEF PowerLoss, TypeOK
    <3>4. QED
      BY <2>8, <3>1, <3>2, <3>3 DEF PowerLoss, TypeOK
  <2>9. CASE UNCHANGED vars
    BY <2>9 DEF vars, TypeOK
  <2>10. QED
    BY <2>1, <2>2, <2>3, <2>5, <2>6, <2>7, <2>8, <2>9 DEF Next
<1>3. QED
  BY <1>1, <1>2, PTL DEF Spec

-----------------------------------------------------------------------------
\* No command outlives its script unless a script was killed.
NoOrphanUntilKill == kills = 0 => \A j \in Job : orphans[j] = 0

\* Mutual exclusion, with what it takes to be inductive.
LockInv == TypeOK /\ LockHasOneOwner /\ NoOrphanUntilKill

\* A step that lets nobody into the critical section and does not remove the
\* directory under an owner keeps the lock exclusive.
LEMMA NobodyEnters ==
    ASSUME LockHasOneOwner,
           \A k \in Job : pc'[k] \in Owning => pc[k] \in Owning,
           \A k \in Job : pc'[k] \in Owning => lockDir' = lockDir
    PROVE  LockHasOneOwner'
BY DEF LockHasOneOwner

\* The invariant holds at the start and is kept by every step.
THEOREM LockInvCorrect == Spec => []LockInv
<1>1. TypeOK /\ Init => LockInv
  BY DEF Init, LockInv, LockHasOneOwner, NoOrphanUntilKill, Owning, Trapped
<1>2. TypeOK /\ TypeOK' /\ LockInv /\ [Next]_vars => LockInv'
  <2> SUFFICES ASSUME TypeOK, TypeOK', LockHasOneOwner, NoOrphanUntilKill,
                      [Next]_vars
               PROVE  LockHasOneOwner' /\ NoOrphanUntilKill'
    BY DEF LockInv
  <2> USE DEF run
  <2>1. ASSUME NEW j \in Job,
               Launch(j) \/ Misconfigured(j) \/ LockHeld(j)
        PROVE  LockHasOneOwner' /\ NoOrphanUntilKill'
    <3>1. /\ UNCHANGED <<lockDir, orphans, kills>>
          /\ \A k \in Job : pc'[k] \in Owning => pc[k] \in Owning
      BY <2>1 DEF Launch, Misconfigured, LockHeld, TypeOK, Owning, Trapped
    <3>2. QED
      BY <3>1, NobodyEnters DEF NoOrphanUntilKill
  <2>2. ASSUME NEW j \in Job, MakeLock(j)
        PROVE  LockHasOneOwner' /\ NoOrphanUntilKill'
    <3>1. \A k \in Job : pc[k] \notin Owning
      BY <2>2 DEF MakeLock, LockHasOneOwner
    <3>2. \A k \in Job : pc'[k] \in Owning => k = j
      BY <2>2, <3>1 DEF MakeLock, TypeOK
    <3>3. QED
      BY <2>2, <3>2 DEF MakeLock, LockHasOneOwner, NoOrphanUntilKill
  <2>3. ASSUME NEW j \in Job,
               SetTrap(j) \/ StartCommand(j) \/ TimeoutExpires(j)
                 \/ Abort(j) \/ Report(j)
        PROVE  LockHasOneOwner' /\ NoOrphanUntilKill'
    <3>1. /\ UNCHANGED <<lockDir, orphans, kills>>
          /\ \A k \in Job : pc'[k] \in Owning => pc[k] \in Owning
      BY <2>3 DEF SetTrap, StartCommand, TimeoutExpires, Abort, Report,
                  TypeOK, Owning, Trapped
    <3>2. QED
      BY <3>1, NobodyEnters DEF NoOrphanUntilKill
  <2>4. ASSUME NEW j \in Job, CommandExits(j) \/ GraceEnds(j)
        PROVE  LockHasOneOwner' /\ NoOrphanUntilKill'
    <3>1. \E c \in ExitCode : AfterCommand(j, c)
      BY <2>4 DEF CommandExits, GraceEnds, CommandCodes, ExitCode
    <3>2. UNCHANGED <<lockDir, kills>>
      BY <3>1 DEF AfterCommand
    <3>3. UNCHANGED orphans
      BY <2>4 DEF CommandExits, GraceEnds
    <3>4. \A k \in Job : pc'[k] \in Owning => pc[k] \in Owning
      BY <2>4, <3>1, AfterCommandMoves
         DEF CommandExits, GraceEnds, TypeOK, Owning, Trapped
    <3>5. QED
      BY <3>2, <3>3, <3>4, NobodyEnters DEF NoOrphanUntilKill
  <2>5. ASSUME NEW j \in Job, Release(j)
        PROVE  LockHasOneOwner' /\ NoOrphanUntilKill'
    <3>1. \A k \in Job : pc'[k] \notin Owning
      BY <2>5 DEF Release, LockHasOneOwner, TypeOK, Owning, Trapped
    <3>2. QED
      BY <2>5, <3>1 DEF Release, LockHasOneOwner, NoOrphanUntilKill
  <2>6. ASSUME NEW j \in Job, Terminate(j)
        PROVE  LockHasOneOwner' /\ NoOrphanUntilKill'
    <3>1. kills' # 0
      BY <2>6 DEF Terminate, ScriptDies, TypeOK
    <3>2. CASE pc[j] \in Trapped
      <4>1. \A k \in Job : pc'[k] \notin Owning
        BY <2>6, <3>2
           DEF Terminate, ScriptDies, LockHasOneOwner, TypeOK, Owning, Trapped
      <4>2. QED
        BY <3>1, <4>1 DEF LockHasOneOwner, NoOrphanUntilKill
    <3>3. CASE pc[j] \notin Trapped
      <4>1. /\ lockDir' = lockDir
            /\ \A k \in Job : pc'[k] \in Owning => pc[k] \in Owning
        BY <2>6, <3>3 DEF Terminate, ScriptDies, TypeOK, Owning, Trapped
      <4>2. QED
        BY <3>1, <4>1, NobodyEnters DEF NoOrphanUntilKill
    <3>4. QED
      BY <3>2, <3>3
  <2>7. ASSUME NEW j \in Job, KillHard(j)
        PROVE  LockHasOneOwner' /\ NoOrphanUntilKill'
    <3>1. kills' # 0
      BY <2>7 DEF KillHard, ScriptDies, TypeOK
    <3>2. /\ lockDir' = lockDir
          /\ \A k \in Job : pc'[k] \in Owning => pc[k] \in Owning
      BY <2>7 DEF KillHard, ScriptDies, TypeOK, Owning, Trapped
    <3>3. QED
      BY <3>1, <3>2, NobodyEnters DEF NoOrphanUntilKill
  <2>8. ASSUME NEW j \in Job, OrphanExits(j)
        PROVE  LockHasOneOwner' /\ NoOrphanUntilKill'
    BY <2>8 DEF OrphanExits, LockHasOneOwner, NoOrphanUntilKill, TypeOK
  <2>9. CASE PowerLoss
    BY <2>9 DEF PowerLoss, LockHasOneOwner, NoOrphanUntilKill, Owning, Trapped
  <2>10. CASE UNCHANGED vars
    BY <2>10 DEF vars, LockHasOneOwner, NoOrphanUntilKill
  <2>11. QED
    BY <2>1, <2>2, <2>3, <2>4, <2>5, <2>6, <2>7, <2>8, <2>9, <2>10
       DEF Next, ScriptStep
<1>3. QED
  BY <1>1, <1>2, TypeCorrect, PTL DEF Spec

\* Two scripts are never between mkdir and rmdir together, kills included.
THEOREM MutualExclusion == Spec => []LockHasOneOwner
<1>1. LockInv => LockHasOneOwner
  BY DEF LockInv
<1>2. QED
  BY <1>1, LockInvCorrect, PTL

\* Without kills no two commands are ever alive on the database together:
\* every writer is then supervised by an owner of the lock.
THEOREM SingleWriter == Spec => []OneWriterUntilKill
<1>1. LockInv => OneWriterUntilKill
  <2> SUFFICES ASSUME LockInv, kills = 0,
                      NEW v \in Writers, NEW w \in Writers
               PROVE  v = w
    BY DEF OneWriterUntilKill, OneWriter
  <2>1. Writers = {<<j, "supervised">> : j \in {i \in Job : Supervised(i)}}
    BY DEF Writers, LockInv, NoOrphanUntilKill
  <2>2. PICK a \in Job : Supervised(a) /\ v = <<a, "supervised">>
    BY <2>1
  <2>3. PICK b \in Job : Supervised(b) /\ w = <<b, "supervised">>
    BY <2>1
  <2>4. a = b
    BY <2>2, <2>3 DEF Supervised, LockInv, LockHasOneOwner, Owning, Trapped
  <2>5. QED
    BY <2>2, <2>3, <2>4
<1>2. QED
  BY <1>1, LockInvCorrect, PTL

\* Only the script that made the directory removes it, or a boot does.
THEOREM OwnerRemoves == Spec => OnlyOwnerRemovesLock
<1> DEFINE Justified == \/ \E j \in Job : pc[j] \in Trapped /\ pc'[j] = "idle"
                        \/ \A j \in Job : pc'[j] = "idle"
<1>1. TypeOK /\ Next => (lockDir /\ ~lockDir' => Justified)
  <2> SUFFICES ASSUME TypeOK, Next, lockDir, ~lockDir'
               PROVE  Justified
    OBVIOUS
  <2> HIDE DEF Justified
  <2>1. ASSUME NEW j \in Job, Release(j)  PROVE Justified
    BY <2>1 DEF Release, Trapped, TypeOK, Justified
  <2>2. ASSUME NEW j \in Job, Terminate(j)  PROVE Justified
    BY <2>2 DEF Terminate, ScriptDies, Trapped, TypeOK, Justified
  <2>3. CASE PowerLoss
    BY <2>3 DEF PowerLoss, Justified
  <2>4. ASSUME NEW j \in Job,
               \/ Launch(j) \/ Misconfigured(j) \/ LockHeld(j) \/ MakeLock(j)
               \/ SetTrap(j) \/ StartCommand(j) \/ CommandExits(j)
               \/ TimeoutExpires(j) \/ GraceEnds(j) \/ Report(j) \/ Abort(j)
               \/ KillHard(j) \/ OrphanExits(j)
        PROVE  FALSE
    BY <2>4 DEF Launch, Misconfigured, LockHeld, MakeLock, SetTrap,
                StartCommand, CommandExits, AfterCommand, TimeoutExpires,
                GraceEnds, Report, Abort, KillHard, OrphanExits
  <2>5. QED
    BY <2>1, <2>2, <2>3, <2>4 DEF Next, ScriptStep
<1>2. TypeOK /\ [Next]_vars
        => [lockDir /\ ~lockDir' =>
              \/ \E j \in Job : pc[j] \in Trapped /\ pc'[j] = "idle"
              \/ \A j \in Job : pc'[j] = "idle"]_vars
  BY <1>1
<1>3. QED
  BY <1>2, TypeCorrect, PTL DEF Spec, OnlyOwnerRemovesLock

-----------------------------------------------------------------------------
(* WriterLock implements SharedLock. *)

NobodyOwns == \A k \in Job : pc[k] \notin Owning

LEMMA HolderIsOwner ==
    ASSUME LockHasOneOwner, NEW j \in Job, pc[j] \in Owning
    PROVE  holder = j /\ lockDir
BY DEF holder, LockHasOneOwner

LEMMA HolderWithoutOwner ==
    ASSUME NobodyOwns
    PROVE  holder = IF lockDir THEN "abandoned" ELSE "free"
BY DEF holder, NobodyOwns

\* The same facts about the next state.
LEMMA HolderIsOwnerNext ==
    ASSUME LockHasOneOwner', NEW j \in Job, pc'[j] \in Owning
    PROVE  holder' = j /\ lockDir'
BY DEF holder, LockHasOneOwner

LEMMA HolderWithoutOwnerNext ==
    ASSUME NobodyOwns'
    PROVE  holder' = IF lockDir' THEN "abandoned" ELSE "free"
BY DEF holder, NobodyOwns

LEMMA OwnersStay ==
    ASSUME LockHasOneOwner, LockHasOneOwner', lockDir' = lockDir,
           \A k \in Job : pc'[k] \in Owning <=> pc[k] \in Owning
    PROVE  holder' = holder
<1>1. CASE NobodyOwns
  BY <1>1, HolderWithoutOwner, HolderWithoutOwnerNext DEF NobodyOwns
<1>2. CASE ~NobodyOwns
  <2>1. PICK k \in Job : pc[k] \in Owning
    BY <1>2 DEF NobodyOwns
  <2>2. QED
    BY <2>1, HolderIsOwner, HolderIsOwnerNext
<1>3. QED
  BY <1>1, <1>2

\* An owner that leaves hands the lock to nobody: it is free if the directory
\* went with it and abandoned otherwise.
LEMMA OwnerLeaves ==
    ASSUME LockHasOneOwner, NEW j \in Job, pc[j] \in Owning, NobodyOwns',
           lockDir' \in BOOLEAN
    PROVE  Shared!Next
<1>1. holder = j
  BY HolderIsOwner
<1>2. holder' = IF lockDir' THEN "abandoned" ELSE "free"
  BY HolderWithoutOwnerNext
<1>3. QED
  BY <1>1, <1>2 DEF Shared!Next, Shared!Release, Shared!Abandon,
                    Shared!Free, Shared!Abandoned

\* A killed script: its lock is released, abandoned, or none of its business.
LEMMA DeathReleasesOrAbandons ==
    ASSUME TypeOK, TypeOK', LockHasOneOwner, LockHasOneOwner',
           NEW j \in Job, ScriptDies(j),
           lockDir' = lockDir \/ pc[j] \in Trapped
    PROVE  Shared!Next \/ holder' = holder
<1>1. CASE pc[j] \in Owning
  <2>1. NobodyOwns'
    BY <1>1 DEF ScriptDies, LockHasOneOwner, NobodyOwns, TypeOK, Owning, Trapped
  <2>2. QED
    BY <1>1, <2>1, OwnerLeaves DEF TypeOK
<1>2. CASE pc[j] \notin Owning
  BY <1>2, OwnersStay DEF ScriptDies, TypeOK, Owning, Trapped
<1>3. QED
  BY <1>1, <1>2

\* The lock directory is the shared lock of ADR 001: for any jobs and any
\* kills, what the scripts do to it is what SharedLock allows.
THEOREM LockRefinement == Spec => ImplementsSharedLock
<1>1. Init => Shared!Init
  BY HolderWithoutOwner
     DEF Init, NobodyOwns, Shared!Init, Shared!Free, Owning, Trapped
<1>2. LockInv /\ LockInv' /\ [Next]_vars => [Shared!Next]_holder
  <2> SUFFICES ASSUME TypeOK, TypeOK', LockHasOneOwner, LockHasOneOwner',
                      [Next]_vars
               PROVE  Shared!Next \/ holder' = holder
    BY DEF LockInv
  <2> USE DEF run
  <2>1. ASSUME NEW j \in Job, MakeLock(j)  PROVE Shared!Next
    <3>1. NobodyOwns
      BY <2>1 DEF MakeLock, LockHasOneOwner, NobodyOwns
    <3>2. holder = "free"
      BY <2>1, <3>1, HolderWithoutOwner DEF MakeLock
    <3>3. holder' = j
      BY <2>1, HolderIsOwnerNext DEF MakeLock, TypeOK, Owning
    <3>4. QED
      BY <3>2, <3>3 DEF Shared!Next, Shared!Acquire, Shared!Free
  <2>2. ASSUME NEW j \in Job, Release(j)  PROVE Shared!Next
    <3>1. pc[j] \in Owning /\ NobodyOwns'
      BY <2>2 DEF Release, LockHasOneOwner, NobodyOwns, TypeOK, Owning, Trapped
    <3>2. QED
      BY <3>1, OwnerLeaves DEF TypeOK
  <2>3. ASSUME NEW j \in Job,
               \/ Launch(j) \/ Misconfigured(j) \/ LockHeld(j) \/ SetTrap(j)
               \/ StartCommand(j) \/ TimeoutExpires(j) \/ Report(j)
               \/ Abort(j) \/ OrphanExits(j)
        PROVE  holder' = holder
    <3>1. /\ lockDir' = lockDir
          /\ \A k \in Job : pc'[k] \in Owning <=> pc[k] \in Owning
      BY <2>3 DEF Launch, Misconfigured, LockHeld, SetTrap, StartCommand,
                  TimeoutExpires, Report, Abort, OrphanExits, TypeOK, Owning,
                  Trapped
    <3>2. QED
      BY <3>1, OwnersStay
  <2>4. ASSUME NEW j \in Job, CommandExits(j) \/ GraceEnds(j)
        PROVE  holder' = holder
    <3>1. \E c \in ExitCode : AfterCommand(j, c)
      BY <2>4 DEF CommandExits, GraceEnds, CommandCodes, ExitCode
    <3>2. lockDir' = lockDir
      BY <3>1 DEF AfterCommand
    <3>3. \A k \in Job : pc'[k] \in Owning <=> pc[k] \in Owning
      BY <2>4, <3>1, AfterCommandMoves
         DEF CommandExits, GraceEnds, TypeOK, Owning, Trapped
    <3>4. QED
      BY <3>2, <3>3, OwnersStay
  <2>5. ASSUME NEW j \in Job, Terminate(j) \/ KillHard(j)
        PROVE  Shared!Next \/ holder' = holder
    <3>1. ScriptDies(j)
      BY <2>5 DEF Terminate, KillHard
    <3>2. lockDir' = lockDir \/ pc[j] \in Trapped
      BY <2>5 DEF Terminate, KillHard, TypeOK
    <3>3. QED
      BY <3>1, <3>2, DeathReleasesOrAbandons
  <2>6. CASE PowerLoss
    <3>1. NobodyOwns' /\ lockDir' \in {lockDir, FALSE}
      BY <2>6 DEF PowerLoss, NobodyOwns, Owning, Trapped
    <3>2. CASE NobodyOwns
      <4>1. /\ holder = IF lockDir THEN "abandoned" ELSE "free"
            /\ holder' = IF lockDir' THEN "abandoned" ELSE "free"
        BY <3>1, <3>2, HolderWithoutOwner, HolderWithoutOwnerNext
      <4>2. lockDir' = lockDir \/ (lockDir /\ ~lockDir')
        BY <3>1 DEF TypeOK
      <4>3. QED
        BY <4>1, <4>2
           DEF Shared!Next, Shared!Clear, Shared!Free, Shared!Abandoned
    <3>3. CASE ~NobodyOwns
      BY <3>1, <3>3, OwnerLeaves DEF NobodyOwns, TypeOK
    <3>4. QED
      BY <3>2, <3>3
  <2>7. CASE UNCHANGED vars
    BY <2>7, OwnersStay DEF vars
  <2>8. QED
    BY <2>1, <2>2, <2>3, <2>4, <2>5, <2>6, <2>7 DEF Next, ScriptStep
<1>3. QED
  BY <1>1, <1>2, LockInvCorrect, PTL DEF Spec, ImplementsSharedLock, Shared!Spec

-----------------------------------------------------------------------------
(* The recorded metric. *)

\* Exit statuses a run may have seen of the commands before its last one: a
\* daily list goes on after anything, the Modbus attempts only after a
\* transport failure, and the others run one command.
Earlier(j) == CASE Kind[j] = "list" -> ExitCode
                [] Kind[j] = "retry" -> {TransportCode}
                [] OTHER -> {}

\* What is known of the run of a job while nothing is recorded of it.
RunInv(j) ==
    /\ pc[j] \in {"start", "locked"} => codes[j] = {}
    /\ pc[j] \notin {"idle", "exit"} => outcome[j] = "none"
    /\ timedOut[j] = 0
    /\ Kind[j] = "list" /\ status[j] = 0 => codes[j] \subseteq {0}
    /\ pc[j] \in {"run", "wait", "grace"} => codes[j] \subseteq Earlier(j)
    /\ pc[j] = "report" => code[j] \in codes[j]
    /\ pc[j] = "report" /\ Kind[j] # "list" =>
         codes[j] \subseteq {code[j]} \cup Earlier(j)

\* What MetricTellsTheRun says of one job.
Told(j) ==
    /\ outcome[j] = "skipped" => codes[j] = {}
    /\ outcome[j] = "completed" =>
         CASE Kind[j] = "list" -> codes[j] = {0}
           [] Kind[j] = "retry" -> code[j] = 0 /\ codes[j] \subseteq {0, TransportCode}
           [] Kind[j] = "health" -> codes[j] \subseteq {0, 1}
           [] OTHER -> codes[j] = {0}
    /\ outcome[j] = "timed_out" => code[j] = TimeoutCode
    /\ outcome[j] = "failed" =>
         TimeoutCode \notin codes[j] \/ Kind[j] = "list"

MetricInv == \A j \in Job : RunInv(j) /\ Told(j)

\* Nothing of a job but its place changes, and it goes to the end of a run or
\* on to a place of which no more is required.
LEMMA MetricFrame ==
    ASSUME NEW k \in Job, RunInv(k), Told(k),
           UNCHANGED <<code[k], codes[k], status[k], timedOut[k], outcome[k]>>,
           \/ pc'[k] = pc[k]
           \/ pc'[k] \in {"idle", "exit"}
           \/ pc[k] = "start" /\ pc'[k] = "locked"
           \/ pc[k] = "locked" /\ pc'[k] = "run"
           \/ pc[k] = "run" /\ pc'[k] = "wait"
           \/ pc[k] = "wait" /\ pc'[k] = "grace"
    PROVE  RunInv(k)' /\ Told(k)'
<1>1. Told(k)'
  BY DEF Told
<1>2. Earlier(k)' = Earlier(k)
  BY DEF Earlier
<1>3. RunInv(k)'
  BY <1>2 DEF RunInv
<1>4. QED
  BY <1>1, <1>3

\* A command ends: what its status does to what is known of the run.
LEMMA MetricAfterCommand ==
    ASSUME TypeOK, NEW j \in Job, NEW c \in ExitCode, AfterCommand(j, c),
           pc[j] \in {"wait", "grace"}, RunInv(j)
    PROVE  RunInv(j)' /\ Told(j)'
<1>1. /\ code'[j] = c
      /\ codes'[j] = codes[j] \cup {c}
      /\ timedOut'[j] = 0
      /\ outcome'[j] = "none"
      /\ pc'[j] = IF MoreToRun(j, c) THEN "run" ELSE "report"
  BY DEF AfterCommand, TypeOK, RunInv, CapturedCode, TimeoutCode
<1>2. Kind[j] = "list" /\ status'[j] = 0 => status[j] = 0 /\ c = 0
  BY DEF AfterCommand, NoteStatus, TypeOK
<1>3. Told(j)'
  BY <1>1 DEF Told
<1>4. Earlier(j)' = Earlier(j)
  BY DEF Earlier
<1>5. codes[j] \subseteq Earlier(j)
  BY DEF RunInv
<1>6. Kind[j] = "list" /\ status'[j] = 0 => codes'[j] \subseteq {0}
  BY <1>1, <1>2 DEF RunInv
<1>7. MoreToRun(j, c) => codes'[j] \subseteq Earlier(j)
  BY <1>1, <1>5, KindAssumption DEF MoreToRun, Earlier
<1>8. QED
  BY <1>1, <1>3, <1>4, <1>5, <1>6, <1>7 DEF RunInv

\* The outcome is chosen: it fits what is known of the run.
LEMMA MetricReported ==
    ASSUME TypeOK, NEW j \in Job, Report(j), RunInv(j)
    PROVE  RunInv(j)' /\ Told(j)'
<1>1. /\ UNCHANGED <<code[j], codes[j], status[j], timedOut[j]>>
      /\ pc'[j] = "exit"
      /\ outcome'[j] = IF Kind[j] = "list" THEN DailyOutcome(j)
                                           ELSE CommandOutcome(j)
  BY DEF Report, TypeOK, run
<1>2. Earlier(j)' = Earlier(j)
  BY DEF Earlier
<1>3. RunInv(j)'
  BY <1>1, <1>2 DEF RunInv
<1>4. code[j] \in codes[j] /\ (Kind[j] # "list" => codes[j] \subseteq {code[j]} \cup Earlier(j))
  BY DEF RunInv, Report
<1>5. CASE Kind[j] = "list"
  <2>1. outcome'[j] = IF status[j] = 0 THEN "completed" ELSE "failed"
    BY <1>1, <1>5 DEF DailyOutcome, RunInv
  <2>2. status[j] = 0 => codes[j] = {0}
    BY <1>4, <1>5 DEF RunInv
  <2>3. QED
    BY <1>1, <1>3, <1>5, <2>1, <2>2 DEF Told
<1>6. CASE Kind[j] # "list"
  <2>1. outcome'[j] = CommandOutcome(j)
    BY <1>1, <1>6
  <2>2. codes[j] \subseteq {code[j]} \cup Earlier(j)
    BY <1>4, <1>6
  <2>3. Earlier(j) = IF Kind[j] = "retry" THEN {TransportCode} ELSE {}
    BY <1>6 DEF Earlier
  <2>4. CASE code[j] = 0
    <3>1. outcome'[j] = "completed"
      BY <2>1, <2>4 DEF CommandOutcome, TimeoutCode
    <3>2. QED
      BY <1>1, <1>3, <1>4, <1>6, <2>2, <2>3, <2>4, <3>1 DEF Told
  <2>5. CASE code[j] = 1 /\ Kind[j] = "health"
    <3>1. outcome'[j] = "completed"
      BY <2>1, <2>5 DEF CommandOutcome, TimeoutCode
    <3>2. QED
      BY <1>1, <1>3, <2>2, <2>3, <2>5, <3>1 DEF Told
  <2>6. CASE code[j] = TimeoutCode
    <3>1. outcome'[j] = "timed_out"
      BY <2>1, <2>6 DEF CommandOutcome, TimeoutCode
    <3>2. QED
      BY <1>1, <1>3, <2>6, <3>1 DEF Told
  <2>7. CASE code[j] \notin {0, TimeoutCode} /\ ~(code[j] = 1 /\ Kind[j] = "health")
    <3>1. outcome'[j] = "failed"
      BY <2>1, <2>7 DEF CommandOutcome
    <3>2. TimeoutCode \notin codes[j]
      BY <2>2, <2>3, <2>7 DEF TimeoutCode, TransportCode
    <3>3. QED
      BY <1>1, <1>3, <3>1, <3>2 DEF Told
  <2>8. QED
    BY <2>4, <2>5, <2>6, <2>7
<1>7. QED
  BY <1>5, <1>6

\* The outcome a run records tells what its commands did, for every list of
\* commands and number of attempts, whichever of them fail or hang.
THEOREM MetricCorrect == Spec => []MetricTellsTheRun
<1>1. Init => MetricInv
  BY DEF Init, MetricInv, RunInv, Told
<1>2. TypeOK /\ MetricInv /\ [Next]_vars => MetricInv'
  <2> SUFFICES ASSUME TypeOK, MetricInv, [Next]_vars, NEW k \in Job
               PROVE  RunInv(k)' /\ Told(k)'
    BY DEF MetricInv
  <2>0. RunInv(k) /\ Told(k)
    BY DEF MetricInv
  <2>1. ASSUME NEW j \in Job, Launch(j)  PROVE RunInv(k)' /\ Told(k)'
    <3>1. CASE j = k
      <4>1. /\ pc'[k] = "start" /\ codes'[k] = {} /\ timedOut'[k] = 0
            /\ outcome'[k] = "none"
        BY <2>1, <3>1 DEF Launch, TypeOK
      <4>2. QED
        BY <4>1 DEF RunInv, Told
    <3>2. CASE j # k
      <4>1. /\ UNCHANGED <<code[k], codes[k], status[k], timedOut[k], outcome[k]>>
            /\ pc'[k] = pc[k]
        BY <2>1, <3>2 DEF Launch, TypeOK
      <4>2. QED
        BY <2>0, <4>1, MetricFrame
    <3>3. QED
      BY <3>1, <3>2
  <2>2. ASSUME NEW j \in Job, Misconfigured(j) \/ LockHeld(j)
        PROVE  RunInv(k)' /\ Told(k)'
    <3>1. CASE j = k
      <4>1. /\ pc[k] = "start" /\ pc'[k] = "idle"
            /\ UNCHANGED <<code[k], codes[k], status[k], timedOut[k]>>
            /\ outcome'[k] \in {"none", "failed", "skipped"}
        BY <2>2, <3>1 DEF Misconfigured, LockHeld, TypeOK, run
      <4>2. QED
        BY <2>0, <4>1 DEF RunInv, Told
    <3>2. CASE j # k
      <4>1. /\ UNCHANGED <<code[k], codes[k], status[k], timedOut[k], outcome[k]>>
            /\ pc'[k] = pc[k]
        BY <2>2, <3>2 DEF Misconfigured, LockHeld, TypeOK, run
      <4>2. QED
        BY <2>0, <4>1, MetricFrame
    <3>3. QED
      BY <3>1, <3>2
  <2>3. ASSUME NEW j \in Job,
               \/ MakeLock(j) \/ SetTrap(j) \/ StartCommand(j)
               \/ TimeoutExpires(j) \/ Abort(j) \/ Release(j)
               \/ Terminate(j) \/ KillHard(j) \/ OrphanExits(j)
        PROVE  RunInv(k)' /\ Told(k)'
    <3>1. UNCHANGED <<code[k], codes[k], status[k], timedOut[k], outcome[k]>>
      BY <2>3 DEF MakeLock, SetTrap, StartCommand, TimeoutExpires, Abort, Release,
                  Terminate, KillHard, ScriptDies, OrphanExits, run
    <3>2. \/ pc'[k] = pc[k]
          \/ pc'[k] \in {"idle", "exit"}
          \/ pc[k] = "start" /\ pc'[k] = "locked"
          \/ pc[k] = "locked" /\ pc'[k] = "run"
          \/ pc[k] = "run" /\ pc'[k] = "wait"
          \/ pc[k] = "wait" /\ pc'[k] = "grace"
      BY <2>3 DEF MakeLock, SetTrap, StartCommand, TimeoutExpires, Abort, Release,
                  Terminate, KillHard, ScriptDies, OrphanExits, TypeOK
    <3>3. QED
      BY <2>0, <3>1, <3>2, MetricFrame
  <2>4. ASSUME NEW j \in Job, CommandExits(j) \/ GraceEnds(j)
        PROVE  RunInv(k)' /\ Told(k)'
    <3>1. PICK c \in ExitCode : AfterCommand(j, c)
      BY <2>4 DEF CommandExits, GraceEnds, CommandCodes, ExitCode
    <3>2. CASE j = k
      BY <2>0, <2>4, <3>1, <3>2, MetricAfterCommand DEF CommandExits, GraceEnds
    <3>3. CASE j # k
      <4>1. /\ UNCHANGED <<code[k], codes[k], status[k], timedOut[k], outcome[k]>>
            /\ pc'[k] = pc[k]
        BY <3>1, <3>3 DEF AfterCommand, NoteStatus, TypeOK
      <4>2. QED
        BY <2>0, <4>1, MetricFrame
    <3>4. QED
      BY <3>2, <3>3
  <2>5. ASSUME NEW j \in Job, Report(j)  PROVE RunInv(k)' /\ Told(k)'
    <3>1. CASE j = k
      BY <2>0, <2>5, <3>1, MetricReported
    <3>2. CASE j # k
      <4>1. /\ UNCHANGED <<code[k], codes[k], status[k], timedOut[k], outcome[k]>>
            /\ pc'[k] = pc[k]
        BY <2>5, <3>2 DEF Report, TypeOK, run
      <4>2. QED
        BY <2>0, <4>1, MetricFrame
    <3>3. QED
      BY <3>1, <3>2
  <2>6. CASE PowerLoss
    <3>1. /\ UNCHANGED <<code[k], codes[k], status[k], timedOut[k], outcome[k]>>
          /\ pc'[k] = "idle"
      BY <2>6 DEF PowerLoss, run
    <3>2. QED
      BY <2>0, <3>1, MetricFrame
  <2>7. CASE UNCHANGED vars
    BY <2>0, <2>7, MetricFrame DEF vars
  <2>8. QED
    BY <2>1, <2>2, <2>3, <2>4, <2>5, <2>6, <2>7 DEF Next, ScriptStep
<1>3. MetricInv => MetricTellsTheRun
  BY DEF MetricInv, Told, MetricTellsTheRun
<1>4. QED
  BY <1>1, <1>2, <1>3, TypeCorrect, PTL DEF Spec

\* Without kills the directory is only there while the script that made it is
\* alive: skipped runs, timeouts and set -e leave no lock behind.
THEOREM OwnerIsAlive == Spec => []LockHasLiveMaker
<1>1. Init => LockHasLiveMaker
  BY DEF Init, LockHasLiveMaker
<1>2. TypeOK /\ LockHasLiveMaker /\ [Next]_vars => LockHasLiveMaker'
  <2> SUFFICES ASSUME TypeOK, LockHasLiveMaker, [Next]_vars, kills' = 0, lockDir'
               PROVE  \E k \in Job : pc'[k] \in Owning
    BY DEF LockHasLiveMaker
  <2>1. ASSUME NEW j \in Job, MakeLock(j)
        PROVE  \E k \in Job : pc'[k] \in Owning
    BY <2>1 DEF MakeLock, TypeOK, Owning
  <2>2. ASSUME kills = 0, lockDir,
               \A k \in Job : pc[k] \in Owning => pc'[k] \in Owning
        PROVE  \E k \in Job : pc'[k] \in Owning
    BY <2>2 DEF LockHasLiveMaker
  <2>3. ASSUME NEW j \in Job,
               \/ Launch(j) \/ Misconfigured(j) \/ LockHeld(j) \/ SetTrap(j)
               \/ StartCommand(j) \/ TimeoutExpires(j) \/ Report(j)
               \/ Abort(j) \/ OrphanExits(j)
        PROVE  \E k \in Job : pc'[k] \in Owning
    <3>1. /\ UNCHANGED <<lockDir, kills>>
          /\ \A k \in Job : pc[k] \in Owning => pc'[k] \in Owning
      BY <2>3 DEF Launch, Misconfigured, LockHeld, SetTrap, StartCommand,
                  TimeoutExpires, Report, Abort, OrphanExits, TypeOK, Owning,
                  Trapped
    <3>2. QED
      BY <2>2, <3>1
  <2>4. ASSUME NEW j \in Job, CommandExits(j) \/ GraceEnds(j)
        PROVE  \E k \in Job : pc'[k] \in Owning
    <3>1. \E c \in ExitCode : AfterCommand(j, c)
      BY <2>4 DEF CommandExits, GraceEnds, CommandCodes, ExitCode
    <3>2. UNCHANGED <<lockDir, kills>>
      BY <3>1 DEF AfterCommand
    <3>3. \A k \in Job : pc[k] \in Owning => pc'[k] \in Owning
      BY <2>4, <3>1, AfterCommandMoves DEF TypeOK, Owning, Trapped
    <3>4. QED
      BY <2>2, <3>2, <3>3
  <2>5. ASSUME NEW j \in Job, Release(j)  PROVE FALSE
    BY <2>5 DEF Release
  <2>6. ASSUME NEW j \in Job, ScriptDies(j)  PROVE FALSE
    BY <2>6 DEF ScriptDies, TypeOK
  <2>7. CASE PowerLoss
    BY <2>7 DEF PowerLoss, TypeOK
  <2>8. CASE UNCHANGED vars
    BY <2>2, <2>8 DEF vars
  <2>9. QED
    BY <2>1, <2>3, <2>4, <2>5, <2>6, <2>7, <2>8
       DEF Next, ScriptStep, Terminate, KillHard
<1>3. QED
  BY <1>1, <1>2, TypeCorrect, PTL DEF Spec
=============================================================================
