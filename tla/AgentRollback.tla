---------------------------- MODULE AgentRollback ----------------------------
(***************************************************************************)
(* The configuration watchdog of the router agent (agent/src/rollback.c):  *)
(* a config_push takes a backup of /etc/config, applies its uci commands   *)
(* and starts a countdown; a connection to the broker cancels it, and when *)
(* it runs out the backup is put back.                                     *)
(*                                                                         *)
(* Two threads run this code without a lock.  MQTT callbacks, and so both  *)
(* the push and the cancellation, run on libmosquitto's thread             *)
(* (mosquitto_loop_start in main.c), one at a time; the timer runs on the  *)
(* thread of uloop.  Each shell command, and each access to the shared     *)
(* watchdog, is a step.                                                    *)
(*                                                                         *)
(* A configuration is the set of the changes that were made to the one the *)
(* router was shipped with; some changes cut the router off the cloud.     *)
(***************************************************************************)
EXTENDS Integers

CONSTANTS
    Changes,    \* what a uci command may change
    Breaking,   \* the changes with which the router cannot reach the cloud
    Failing,    \* the shell commands that may fail
    MaxPushes,  \* bound: config_push commands delivered
    MaxCrashes  \* bound: reboots of the router, and restarts of the agent

ASSUME ChangesAssumption ==
    /\ Breaking \subseteq Changes
    /\ Failing \subseteq {"backup", "uci", "commit", "reload", "restore", "remove"}
ASSUME BoundAssumption == MaxPushes \in Nat /\ MaxCrashes \in Nat

VARIABLES
    disk,     \* etc: /etc/config; staged: uci's uncommitted changes; saved: the
              \* changes whose files are in /tmp/niseva_uci_backup; backup: the
              \* ones among them that those files have
    running,  \* the configuration the network was last (re)loaded with
    watchdog, \* armed: watchdog_active; timer: the countdown is running
    link,     \* the MQTT connection
    mosq,     \* libmosquitto's thread: pc, and the commands left of a push
    uloop,    \* uloop's thread, in check_rollback_watchdog
    history   \* pushes and crashes so far; overtaken: one has met a watchdog at work;
              \* failed: a backup, reload or restore failed, or half a commit

vars == <<disk, running, watchdog, link, mosq, uloop, history>>

MosqPc == {"idle", "backup", "stage", "arm", "settimer", "commit", "reload",
           "cancel", "canceltimer", "disarm", "remove"}

Init ==
    /\ disk = [etc |-> {}, staged |-> {}, saved |-> {}, backup |-> {}]
    /\ running = {}
    /\ watchdog = [armed |-> FALSE, timer |-> FALSE]
    /\ link = "down"
    /\ mosq = [pc |-> "idle", todo |-> {}]
    /\ uloop = "idle"
    /\ history = [pushes |-> 0, crashes |-> 0, overtaken |-> FALSE,
                 failed |-> FALSE]

AtWork == watchdog.armed \/ uloop # "idle"

MosqAt(pc) == mosq.pc = pc
MosqTo(pc) == mosq' = [mosq EXCEPT !.pc = pc]

\* What a shell command leaves of x when it is to make it y: y, or anything
\* between the two when it stops half way.  Nobody looks at the exit status.
Outcomes(cmd, x, y) ==
    IF cmd \in Failing THEN {z \in SUBSET (x \cup y) : x \cap y \subseteq z} ELSE {y}

\* The step of a command that may fail, and did unless ok.
Noted(ok) == history' = [history EXCEPT !.failed = @ \/ ~ok]

-----------------------------------------------------------------------------
(* config_push: apply_uci_config_with_watchdog.                            *)

Push(cmds) ==
    /\ MosqAt("idle") /\ link = "up" /\ history.pushes < MaxPushes
    /\ mosq' = [pc |-> "backup", todo |-> cmds]
    /\ history' = [history EXCEPT !.pushes = @ + 1, !.overtaken = @ \/ AtWork]
    /\ UNCHANGED <<disk, running, watchdog, link, uloop>>

\* Mutant of WithBackup: the changes of the push are in the backup.
WithLateBackup(copied) ==
    [disk EXCEPT !.saved = @ \cup copied,
                 !.backup = (@ \ copied) \cup ((disk.etc \cup mosq.todo) \cap copied)]

WithBackup(copied) ==
    [disk EXCEPT !.saved = @ \cup copied,
                 !.backup = (@ \ copied) \cup (disk.etc \cap copied)]

\* A backup that is there already is overwritten.
TakeBackup ==
    /\ MosqAt("backup")
    /\ \E copied \in Outcomes("backup", {}, Changes) :
          disk' = WithBackup(copied) /\ Noted(copied = Changes)
    /\ MosqTo("stage")
    /\ UNCHANGED <<running, watchdog, link, uloop>>

Stage(x) ==
    /\ MosqAt("stage") /\ x \in mosq.todo
    /\ \E staged \in Outcomes("uci", disk.staged, disk.staged \cup {x}) :
          disk' = [disk EXCEPT !.staged = staged]
    /\ mosq' = [mosq EXCEPT !.todo = @ \ {x}]
    /\ UNCHANGED <<running, watchdog, link, uloop, history>>

AllStaged ==
    /\ MosqAt("stage") /\ mosq.todo = {}
    /\ MosqTo("arm")
    /\ UNCHANGED <<disk, running, watchdog, link, uloop, history>>

Arm ==
    /\ MosqAt("arm")
    /\ watchdog' = [watchdog EXCEPT !.armed = TRUE]
    /\ MosqTo("settimer")
    /\ UNCHANGED <<disk, running, link, uloop, history>>

\* A countdown that is running already starts again.
SetTimer ==
    /\ MosqAt("settimer")
    /\ watchdog' = [watchdog EXCEPT !.timer = TRUE]
    /\ MosqTo("commit")
    /\ UNCHANGED <<disk, running, link, uloop, history>>

\* "uci commit && network reload".
Commit ==
    /\ MosqAt("commit")
    /\ disk' = [disk EXCEPT !.etc = @ \cup disk.staged, !.staged = {}]
    /\ MosqTo("reload")
    /\ UNCHANGED <<running, watchdog, link, uloop, history>>

\* uci commits one package after the other; the network is not reloaded, and the
\* changes of the others stay staged, when one of them fails.
CommitFails ==
    /\ MosqAt("commit") /\ "commit" \in Failing
    /\ \E done \in SUBSET disk.staged :
          /\ disk' = [disk EXCEPT !.etc = @ \cup done, !.staged = @ \ done]
          /\ Noted(done = {})
    /\ MosqTo("idle")
    /\ UNCHANGED <<running, watchdog, link, uloop>>

Reloaded ==
    /\ running' \in Outcomes("reload", running, disk.etc)
    /\ Noted(running' = disk.etc)

Reload ==
    /\ MosqAt("reload")
    /\ Reloaded
    /\ MosqTo("idle")
    /\ UNCHANGED <<disk, watchdog, link, uloop>>

-----------------------------------------------------------------------------
(* The connection, and cancel_rollback_watchdog.                           *)

\* libmosquitto reconnects whenever it can; every connection, and nothing
\* else, cancels the watchdog.
OnConnect ==
    /\ MosqAt("idle") /\ link = "down" /\ running \cap Breaking = {}
    /\ link' = "up"
    /\ MosqTo("cancel")
    /\ UNCHANGED <<disk, running, watchdog, uloop, history>>

\* The network fails, or the configuration does not let it through.
LinkLost ==
    /\ link = "up"
    /\ link' = "down"
    /\ UNCHANGED <<disk, running, watchdog, mosq, uloop, history>>

CancelIfArmed ==
    /\ MosqAt("cancel")
    /\ MosqTo(IF watchdog.armed THEN "canceltimer" ELSE "idle")
    /\ UNCHANGED <<disk, running, watchdog, link, uloop, history>>

CancelTimer ==
    /\ MosqAt("canceltimer")
    /\ watchdog' = [watchdog EXCEPT !.timer = FALSE]
    /\ MosqTo("disarm")
    /\ UNCHANGED <<disk, running, link, uloop, history>>

\* Mutant of Disarm: watchdog_active is not cleared.
StaysArmed ==
    /\ MosqAt("disarm")
    /\ MosqTo("remove")
    /\ UNCHANGED <<disk, running, watchdog, link, uloop, history>>

Disarm ==
    /\ MosqAt("disarm")
    /\ watchdog' = [watchdog EXCEPT !.armed = FALSE]
    /\ MosqTo("remove")
    /\ UNCHANGED <<disk, running, link, uloop, history>>

RemoveBackup ==
    /\ MosqAt("remove")
    /\ \E left \in Outcomes("remove", disk.saved, {}) :
          disk' = [disk EXCEPT !.saved = left, !.backup = @ \cap left]
    /\ MosqTo("idle")
    /\ UNCHANGED <<running, watchdog, link, uloop, history>>

-----------------------------------------------------------------------------
(* The timer: check_rollback_watchdog.                                     *)

\* The countdown is over, and the function looks at watchdog_active.  Its 180 s
\* are longer than the commit and the reload that run after it was started.
TimerFires ==
    /\ uloop = "idle" /\ watchdog.timer /\ mosq.pc \notin {"commit", "reload"}
    /\ watchdog' = [watchdog EXCEPT !.timer = FALSE]
    /\ uloop' = IF watchdog.armed THEN "restore" ELSE "idle"
    /\ UNCHANGED <<disk, running, link, mosq, history>>

\* The files of the backup, over the ones that are there.
Restored == (disk.etc \ disk.saved) \cup disk.backup

Restore ==
    /\ uloop = "restore"
    /\ \E etc \in Outcomes("restore", disk.etc, Restored) :
          disk' = [disk EXCEPT !.etc = etc] /\ Noted(etc = Restored)
    /\ uloop' = "reload"
    /\ UNCHANGED <<running, watchdog, link, mosq>>

\* Mutant of ReloadRestored: the network is not reloaded.
KeepRunning ==
    /\ uloop = "reload"
    /\ uloop' = "disarm"
    /\ UNCHANGED <<disk, running, watchdog, link, mosq, history>>

ReloadRestored ==
    /\ uloop = "reload"
    /\ Reloaded
    /\ uloop' = "disarm"
    /\ UNCHANGED <<disk, watchdog, link, mosq>>

DisarmRestored ==
    /\ uloop = "disarm"
    /\ watchdog' = [watchdog EXCEPT !.armed = FALSE]
    /\ uloop' = "idle"
    /\ UNCHANGED <<disk, running, link, mosq, history>>

-----------------------------------------------------------------------------
(* Crashes.                                                                *)

MemoryLost ==
    /\ watchdog' = [armed |-> FALSE, timer |-> FALSE]
    /\ link' = "down"
    /\ mosq' = [pc |-> "idle", todo |-> {}]
    /\ uloop' = "idle"
    /\ history' = [history EXCEPT !.crashes = @ + 1, !.overtaken = @ \/ AtWork]

\* procd starts an agent that died again; /tmp is still there.
AgentRestarts ==
    /\ history.crashes < MaxCrashes
    /\ MemoryLost
    /\ UNCHANGED <<disk, running>>

\* /tmp, where the backup and uci's staged changes are, is in memory.
RouterReboots ==
    /\ history.crashes < MaxCrashes
    /\ MemoryLost
    /\ disk' = [disk EXCEPT !.staged = {}, !.saved = {}, !.backup = {}]
    /\ running' = disk.etc

-----------------------------------------------------------------------------
MosqNext ==
    \/ TakeBackup \/ (\E x \in Changes : Stage(x)) \/ AllStaged \/ Arm \/ SetTimer
    \/ Commit \/ CommitFails \/ Reload
    \/ CancelIfArmed \/ CancelTimer \/ Disarm \/ RemoveBackup

UloopNext == TimerFires \/ Restore \/ ReloadRestored \/ DisarmRestored

Next ==
    \/ \E cmds \in SUBSET Changes : Push(cmds)
    \/ OnConnect \/ LinkLost
    \/ MosqNext
    \/ UloopNext
    \/ AgentRestarts \/ RouterReboots

\* Both threads run; nothing is assumed of the cloud, the network or the broker.
Fairness == WF_vars(MosqNext) /\ WF_vars(UloopNext)

Spec     == Init /\ [][Next]_vars
FairSpec == Spec /\ Fairness

-----------------------------------------------------------------------------
(* What must hold.                                                         *)

TypeOK ==
    /\ disk \in [etc : SUBSET Changes, staged : SUBSET Changes,
                 saved : SUBSET Changes, backup : SUBSET Changes]
    /\ running \in SUBSET Changes
    /\ watchdog \in [armed : BOOLEAN, timer : BOOLEAN]
    /\ link \in {"up", "down"}
    /\ mosq \in [pc : MosqPc, todo : SUBSET Changes]
    /\ uloop \in {"idle", "restore", "reload", "disarm"}
    /\ history \in [pushes : 0..MaxPushes, crashes : 0..MaxCrashes,
                    overtaken : BOOLEAN, failed : BOOLEAN]

\* An armed watchdog will bite: a timer runs, or a thread is at work that sets it
\* or has seen it fire, and there is a whole backup to put back, unless a command
\* failed -- however pushes, cancellations, expiries and crashes interleave on the
\* two threads.
ArmedIsProtected ==
    watchdog.armed =>
        /\ disk.saved = Changes \/ history.failed
        /\ \/ watchdog.timer
           \/ uloop # "idle"
           \/ mosq.pc \in {"settimer", "disarm"}

\* What the code does not provide for: a push or a crash that meets the watchdog
\* of an earlier push at work, and a backup, reload or restore that fails, or half of
\* a commit: nobody reads their exit status.
Undisturbed == ~history.overtaken /\ ~history.failed

\* In all other circumstances -- uci commands that fail, a commit that fails as a
\* whole, a link that comes and goes at any moment, crashes between pushes -- a
\* configuration that cuts the router off is never there without an armed watchdog.
NeverStranded ==
    (Undisturbed /\ ~watchdog.armed) => disk.etc \cap Breaking = {}

\* In the same circumstances, a router that is cut off by its configuration gets
\* a working one back.
RecoversFromBadConfig ==
    (Undisturbed /\ running \cap Breaking # {})
        ~> (~Undisturbed \/ running \cap Breaking = {})

=============================================================================
