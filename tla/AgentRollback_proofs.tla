------------------------ MODULE AgentRollback_proofs ------------------------
(***************************************************************************)
(* Proofs about AgentRollback, for any set of changes: that an armed       *)
(* watchdog is able to act, under any number of pushes and crashes; and    *)
(* that pushes which do not overtake each other never strand the router.   *)
(***************************************************************************)
EXTENDS AgentRollback, TLAPS

\* A command that stops half way leaves nothing that was not there before, and
\* would not be there after it.
LEMMA OutcomesBetween ==
  ASSUME NEW cmd, NEW S, NEW x \in SUBSET S, NEW y \in SUBSET S, NEW z \in Outcomes(cmd, x, y)
  PROVE  z \in SUBSET S
  BY DEF Outcomes

\* Type correctness is kept by every step.
LEMMA TypeStep == TypeOK /\ [Next]_vars => TypeOK'
<1> SUFFICES ASSUME TypeOK, [Next]_vars PROVE TypeOK'
  OBVIOUS
<1> USE BoundAssumption DEF TypeOK, MosqPc, MosqAt, MosqTo, Noted
<1>1. ASSUME NEW cmds \in SUBSET Changes, Push(cmds) PROVE TypeOK'
  <2>1. history.pushes + 1 \in 0..MaxPushes
    BY <1>1 DEF Push
  <2>2. history' \in [pushes : 0..MaxPushes, crashes : 0..MaxCrashes,
                       overtaken : BOOLEAN, failed : BOOLEAN]
    BY <1>1, <2>1 DEF Push
  <2> QED
    BY <1>1, <2>2 DEF Push
<1>2. CASE OnConnect \/ LinkLost
  BY <1>2 DEF OnConnect, LinkLost
<1>3. CASE TakeBackup
  <2>1. PICK copied \in Outcomes("backup", {}, Changes) :
           disk' = WithBackup(copied) /\ Noted(copied = Changes)
    BY <1>3 DEF TakeBackup
  <2>2. copied \in SUBSET Changes
    BY OutcomesBetween
  <2>3. WithBackup(copied) \in [etc : SUBSET Changes, staged : SUBSET Changes,
                                saved : SUBSET Changes, backup : SUBSET Changes]
    BY <2>2 DEF WithBackup
  <2>4. mosq' \in [pc : MosqPc, todo : SUBSET Changes]
    BY <1>3 DEF TakeBackup
  <2>5. UNCHANGED <<running, watchdog, link, uloop>>
    BY <1>3 DEF TakeBackup
  <2> QED
    BY <2>1, <2>3, <2>4, <2>5
<1>4. ASSUME NEW x \in Changes, Stage(x) PROVE TypeOK'
  <2>1. PICK staged \in Outcomes("uci", disk.staged, disk.staged \cup {x}) :
           disk' = [disk EXCEPT !.staged = staged]
    BY <1>4 DEF Stage
  <2>2. disk.staged \in SUBSET Changes /\ disk.staged \cup {x} \in SUBSET Changes
    OBVIOUS
  <2>3. staged \in SUBSET Changes
    BY <2>2, OutcomesBetween
  <2> QED
    BY <1>4, <2>1, <2>3 DEF Stage
<1>5. CASE AllStaged \/ Arm \/ SetTimer
  BY <1>5 DEF AllStaged, Arm, SetTimer
<1>6. CASE Commit
  <2>1. disk.etc \cup disk.staged \in SUBSET Changes
    OBVIOUS
  <2> QED
    BY <1>6, <2>1 DEF Commit
<1>11. CASE CommitFails
  <2>1. PICK done \in SUBSET disk.staged :
           /\ disk' = [disk EXCEPT !.etc = @ \cup done, !.staged = @ \ done]
           /\ Noted(done = {})
    BY <1>11 DEF CommitFails
  <2>2. disk.etc \cup done \in SUBSET Changes /\ disk.staged \ done \in SUBSET Changes
    OBVIOUS
  <2> QED
    BY <1>11, <2>1, <2>2 DEF CommitFails
<1>12. ASSUME Reloaded PROVE /\ running' \in SUBSET Changes
                            /\ history' \in [pushes : 0..MaxPushes, crashes : 0..MaxCrashes,
                                              overtaken : BOOLEAN, failed : BOOLEAN]
  <2>1. running' \in Outcomes("reload", running, disk.etc)
    BY <1>12 DEF Reloaded
  <2>2. running \in SUBSET Changes /\ disk.etc \in SUBSET Changes
    OBVIOUS
  <2>3. running' \in SUBSET Changes
    BY <2>1, <2>2, OutcomesBetween
  <2> QED
    BY <1>12, <2>3 DEF Reloaded
<1>13. CASE Reload
  BY <1>12, <1>13 DEF Reload
<1>7. CASE CancelIfArmed \/ CancelTimer \/ Disarm
  BY <1>7 DEF CancelIfArmed, CancelTimer, Disarm
<1>14. CASE RemoveBackup
  <2>1. PICK left \in Outcomes("remove", disk.saved, {}) :
           disk' = [disk EXCEPT !.saved = left, !.backup = @ \cap left]
    BY <1>14 DEF RemoveBackup
  <2>2. disk.saved \in SUBSET Changes /\ {} \in SUBSET Changes
    OBVIOUS
  <2>3. left \in SUBSET Changes
    BY <2>2, OutcomesBetween
  <2>4. disk.backup \cap left \in SUBSET Changes
    OBVIOUS
  <2> QED
    BY <1>14, <2>1, <2>3, <2>4 DEF RemoveBackup
<1>8. CASE TimerFires \/ DisarmRestored
  BY <1>8 DEF TimerFires, DisarmRestored
<1>15. CASE Restore
  <2>1. PICK etc \in Outcomes("restore", disk.etc, Restored) :
           disk' = [disk EXCEPT !.etc = etc] /\ Noted(etc = Restored)
    BY <1>15 DEF Restore
  <2>2. disk.etc \in SUBSET Changes /\ Restored \in SUBSET Changes
    BY DEF Restored
  <2>3. etc \in SUBSET Changes
    BY <2>1, <2>2, OutcomesBetween
  <2> QED
    BY <1>15, <2>1, <2>3 DEF Restore
<1>16. CASE ReloadRestored
  BY <1>12, <1>16 DEF ReloadRestored
<1>9. CASE AgentRestarts \/ RouterReboots
  <2>1. history.crashes + 1 \in 0..MaxCrashes
    BY <1>9 DEF AgentRestarts, RouterReboots
  <2>2. history' \in [pushes : 0..MaxPushes, crashes : 0..MaxCrashes,
                       overtaken : BOOLEAN, failed : BOOLEAN]
    BY <1>9, <2>1 DEF AgentRestarts, RouterReboots, MemoryLost
  <2>3. disk' \in [etc : SUBSET Changes, staged : SUBSET Changes,
                   saved : SUBSET Changes, backup : SUBSET Changes]
    BY <1>9 DEF AgentRestarts, RouterReboots
  <2>4. running' \in SUBSET Changes
    BY <1>9 DEF AgentRestarts, RouterReboots
  <2>5. MemoryLost
    BY <1>9 DEF AgentRestarts, RouterReboots
  <2> QED
    BY <2>2, <2>3, <2>4, <2>5 DEF MemoryLost
<1>10. CASE UNCHANGED vars
  BY <1>10 DEF vars
<1> QED
  BY <1>1, <1>2, <1>3, <1>4, <1>5, <1>6, <1>7, <1>8, <1>9, <1>10, <1>11, <1>13, <1>14,
     <1>15, <1>16
  DEF Next, MosqNext, UloopNext

\* Type correctness.
THEOREM RollbackTypeCorrect == Spec => []TypeOK
<1>1. Init => TypeOK
  BY BoundAssumption DEF Init, TypeOK, MosqPc
<1> QED
  BY <1>1, TypeStep, PTL DEF Spec

-----------------------------------------------------------------------------
(* An armed watchdog is able to act.                                       *)

\* The thread of the MQTT callbacks has a backup from the moment it was taken
\* until the watchdog is armed, and removes it only after disarming.
BackupInTime ==
    /\ mosq.pc \in {"stage", "arm"} => disk.saved = Changes \/ history.failed
    /\ mosq.pc = "remove" => ~watchdog.armed

ArmedInv == TypeOK /\ ArmedIsProtected /\ BackupInTime

LEMMA ArmedStep ==
  ASSUME ArmedInv, [Next]_vars PROVE ArmedInv'
<1>1. TypeOK'
  BY TypeStep DEF ArmedInv
<1> USE DEF ArmedInv, TypeOK, ArmedIsProtected, BackupInTime, MosqAt, MosqTo, Noted
<1>2. (ArmedIsProtected /\ BackupInTime)'
  <2>1. ASSUME NEW cmds \in SUBSET Changes, Push(cmds)
        PROVE  (ArmedIsProtected /\ BackupInTime)'
    BY <2>1 DEF Push
  <2>2. CASE OnConnect \/ LinkLost
    BY <2>2 DEF OnConnect, LinkLost
  <2>3. CASE TakeBackup
    <3>1. PICK copied \in Outcomes("backup", {}, Changes) :
             disk' = WithBackup(copied) /\ Noted(copied = Changes)
      BY <2>3 DEF TakeBackup
    <3>2. copied \in SUBSET Changes
      BY OutcomesBetween
    <3>3. disk'.saved = Changes \/ history'.failed
      <4>1. CASE copied = Changes
        BY <3>1, <4>1 DEF WithBackup
      <4>2. CASE copied # Changes
        BY <3>1, <4>2
      <4> QED
        BY <4>1, <4>2
    <3>4. /\ UNCHANGED <<watchdog, uloop>> /\ mosq'.pc = "stage"
          /\ ~(mosq.pc \in {"settimer", "disarm"})
      BY <2>3 DEF TakeBackup
    <3> QED
      BY <3>3, <3>4
  <2>4. ASSUME NEW x \in Changes, Stage(x) PROVE (ArmedIsProtected /\ BackupInTime)'
    BY <2>4 DEF Stage
  <2>5. CASE AllStaged \/ Arm \/ SetTimer
    BY <2>5 DEF AllStaged, Arm, SetTimer
  <2>6. CASE Commit \/ CommitFails \/ Reload
    BY <2>6 DEF Commit, CommitFails, Reload, Reloaded
  <2>7. CASE CancelIfArmed \/ CancelTimer \/ Disarm \/ RemoveBackup
    BY <2>7 DEF CancelIfArmed, CancelTimer, Disarm, RemoveBackup
  <2>8. CASE UloopNext
    BY <2>8 DEF UloopNext, TimerFires, Restore, ReloadRestored, Reloaded, DisarmRestored
  <2>9. CASE AgentRestarts \/ RouterReboots
    BY <2>9 DEF AgentRestarts, RouterReboots, MemoryLost
  <2>10. CASE UNCHANGED vars
    BY <2>10 DEF vars
  <2> QED
    BY <2>1, <2>2, <2>3, <2>4, <2>5, <2>6, <2>7, <2>8, <2>9, <2>10 DEF Next, MosqNext
<1> QED
  BY <1>1, <1>2

\* Whichever commands fail, and whatever the two threads and the crashes do: an
\* armed watchdog is going to act, and unless a command failed it has a whole
\* backup to put back.
THEOREM ArmedWatchdogActs == Spec => []ArmedIsProtected
<1>1. Init => ArmedInv
  BY BoundAssumption
  DEF Init, ArmedInv, TypeOK, MosqPc, ArmedIsProtected, BackupInTime
<1>2. ArmedInv /\ [Next]_vars => ArmedInv'
  BY ArmedStep
<1>3. ArmedInv => ArmedIsProtected
  BY DEF ArmedInv
<1> QED
  BY <1>1, <1>2, <1>3, PTL DEF Spec

-----------------------------------------------------------------------------
(* Pushes that find the watchdog of the one before done.                   *)

\* Until it arms the watchdog, a push finds it at rest; until it has reloaded
\* the network, the timer's thread does not move.
PushAlone ==
    /\ mosq.pc \in {"backup", "stage", "arm"} =>
          ~watchdog.armed /\ ~watchdog.timer /\ uloop = "idle"
    /\ mosq.pc \in {"settimer", "commit", "reload"} => watchdog.armed /\ uloop = "idle"

\* The countdown runs only for an armed watchdog, and not while it is about to
\* be started or has been stopped or used up.
TimerInTime ==
    /\ watchdog.timer => watchdog.armed
    /\ mosq.pc \in {"settimer", "disarm"} \/ uloop # "idle" => ~watchdog.timer

\* A configuration that cuts the router off is there only while the watchdog
\* is armed, between its commit and the restore; and it is what runs, but for
\* the moment before the reload.
BadIsGuarded ==
    disk.etc \cap Breaking # {} =>
        /\ watchdog.armed /\ mosq.pc \in {"reload", "idle"} /\ uloop \in {"idle", "restore"}
        /\ mosq.pc # "reload" => disk.etc \cap Breaking \subseteq running

GoodBackup == disk.backup \cap Breaking = {} /\ disk.backup \subseteq disk.saved

PushInv ==
    /\ ArmedInv
    /\ Undisturbed => PushAlone /\ TimerInTime /\ BadIsGuarded /\ GoodBackup

LEMMA PushStep ==
  ASSUME PushInv, [Next]_vars PROVE PushInv'
<1>1. ArmedInv'
  BY ArmedStep DEF PushInv
<1> SUFFICES ASSUME Undisturbed'
             PROVE  (PushAlone /\ TimerInTime /\ BadIsGuarded /\ GoodBackup)'
  BY <1>1 DEF PushInv
<1> DEFINE J == PushAlone /\ TimerInTime /\ BadIsGuarded /\ GoodBackup
<1>2. Undisturbed
  BY DEF PushInv, ArmedInv, TypeOK, Next, MosqNext, UloopNext, vars, Push, OnConnect, LinkLost,
         TakeBackup, Stage, AllStaged, Arm, SetTimer, Commit, CommitFails, Reload, Reloaded,
         CancelIfArmed, CancelTimer, Disarm, RemoveBackup, TimerFires, Restore,
         ReloadRestored, DisarmRestored, AgentRestarts, RouterReboots, MemoryLost,
         Noted, Undisturbed
<1>3. ArmedInv /\ J
  BY <1>2 DEF PushInv
<1> USE <1>2, <1>3, BoundAssumption, ChangesAssumption
    DEF ArmedInv, TypeOK, ArmedIsProtected, BackupInTime, PushAlone, TimerInTime,
        BadIsGuarded, GoodBackup, Undisturbed, MosqAt, MosqTo, Noted, AtWork
<1>4. J'
  <2>1. ASSUME NEW cmds \in SUBSET Changes, Push(cmds) PROVE J'
    BY <2>1 DEF Push
  <2>2. CASE OnConnect \/ LinkLost
    BY <2>2 DEF OnConnect, LinkLost
  <2>3. CASE TakeBackup
    <3>1. PICK copied \in Outcomes("backup", {}, Changes) :
             disk' = WithBackup(copied) /\ Noted(copied = Changes)
      BY <2>3 DEF TakeBackup
    <3>2. copied = Changes
      BY <3>1
    <3>3. disk'.backup = disk.etc /\ disk'.saved = Changes /\ disk'.etc = disk.etc
      BY <3>1, <3>2 DEF WithBackup
    <3>4. disk.etc \cap Breaking = {}
      BY <2>3 DEF TakeBackup
    <3> QED
      BY <2>3, <3>3, <3>4 DEF TakeBackup
  <2>4. ASSUME NEW x \in Changes, Stage(x) PROVE J'
    BY <2>4 DEF Stage
  <2>5. CASE AllStaged \/ Arm \/ SetTimer
    BY <2>5 DEF AllStaged, Arm, SetTimer
  <2>6. CASE Commit
    BY <2>6 DEF Commit
  <2>13. CASE CommitFails
    <3>1. disk'.etc = disk.etc /\ disk'.saved = disk.saved /\ disk'.backup = disk.backup
      <4>1. PICK done \in SUBSET disk.staged :
               /\ disk' = [disk EXCEPT !.etc = @ \cup done, !.staged = @ \ done]
               /\ Noted(done = {})
        BY <2>13 DEF CommitFails
      <4>2. done = {}
        BY <4>1
      <4> QED
        BY <4>1, <4>2
    <3>2. disk.etc \cap Breaking = {}
      BY <2>13 DEF CommitFails
    <3>3. /\ UNCHANGED <<watchdog, uloop, running>> /\ mosq'.pc = "idle" /\ mosq.pc = "commit"
      BY <2>13 DEF CommitFails
    <3> QED
      BY <3>1, <3>2, <3>3
  <2>14. CASE Reload
    BY <2>14 DEF Reload, Reloaded
  <2>7. CASE CancelIfArmed \/ CancelTimer \/ Disarm
    BY <2>7 DEF CancelIfArmed, CancelTimer, Disarm
  <2>15. CASE RemoveBackup
    <3>1. PICK left \in Outcomes("remove", disk.saved, {}) :
             disk' = [disk EXCEPT !.saved = left, !.backup = @ \cap left]
      BY <2>15 DEF RemoveBackup
    <3>2. disk'.backup \subseteq disk'.saved /\ disk'.backup \cap Breaking = {}
          /\ disk'.etc = disk.etc
      BY <3>1
    <3>3. disk.etc \cap Breaking = {}
      BY <2>15 DEF RemoveBackup
    <3>4. UNCHANGED <<watchdog, uloop>> /\ mosq'.pc = "idle" /\ mosq.pc = "remove"
      BY <2>15 DEF RemoveBackup
    <3> QED
      BY <3>2, <3>3, <3>4
  <2>8. CASE TimerFires
    BY <2>8 DEF TimerFires
  <2>9. CASE Restore
    <3>1. disk' = [disk EXCEPT !.etc = Restored]
      BY <2>9 DEF Restore
    <3>2. Restored \cap Breaking = {}
      <4>1. CASE disk.etc \cap Breaking = {}
        BY <4>1 DEF Restored
      <4>2. CASE disk.etc \cap Breaking # {}
        <5>1. disk.saved = Changes
          BY <4>2
        <5> QED
          BY <5>1 DEF Restored
      <4> QED
        BY <4>1, <4>2
    <3>3. disk'.etc \cap Breaking = {} /\ disk'.backup = disk.backup /\ disk'.saved = disk.saved
      BY <3>1, <3>2
    <3>4. UNCHANGED <<watchdog, mosq>> /\ uloop = "restore" /\ uloop' = "reload"
      BY <2>9 DEF Restore
    <3> QED
      BY <3>3, <3>4
  <2>10. CASE ReloadRestored \/ DisarmRestored
    BY <2>10 DEF ReloadRestored, Reloaded, DisarmRestored
  <2>11. CASE AgentRestarts \/ RouterReboots
    <3>1. MemoryLost
      BY <2>11 DEF AgentRestarts, RouterReboots
    <3>2. ~watchdog.armed /\ uloop = "idle"
      BY <3>1 DEF MemoryLost
    <3>3. disk.etc \cap Breaking = {}
      BY <3>2
    <3>4. /\ disk'.etc = disk.etc
          /\ disk'.backup \cap Breaking = {} /\ disk'.backup \subseteq disk'.saved
      BY <2>11 DEF AgentRestarts, RouterReboots
    <3>5. mosq'.pc = "idle" /\ ~watchdog'.timer
      BY <3>1 DEF MemoryLost
    <3> QED
      BY <3>3, <3>4, <3>5
  <2>12. CASE UNCHANGED vars
    BY <2>12 DEF vars
  <2> QED
    BY <2>1, <2>2, <2>3, <2>4, <2>5, <2>6, <2>7, <2>8, <2>9, <2>10, <2>11, <2>12, <2>13, <2>14, <2>15
    DEF Next, MosqNext, UloopNext
<1> QED
  BY <1>4

\* However many pushes there are, whatever they change, and whichever of the shell
\* commands may fail: as long as each push finds the watchdog of the one before done,
\* no crash catches it at work and no backup, reload or restore has failed, nor half of
\* a commit, the router is never left with a configuration that cuts it off and
\* nothing to revert it.
THEOREM OrderlyPushesAreSafe == Spec => []NeverStranded
<1>1. Init => PushInv
  BY BoundAssumption
  DEF Init, PushInv, ArmedInv, TypeOK, MosqPc, ArmedIsProtected, BackupInTime,
      PushAlone, TimerInTime, BadIsGuarded, GoodBackup, Undisturbed
<1>2. PushInv /\ [Next]_vars => PushInv'
  BY PushStep
<1>3. PushInv => NeverStranded
  BY DEF PushInv, BadIsGuarded, NeverStranded
<1> QED
  BY <1>1, <1>2, <1>3, PTL DEF Spec

=============================================================================
