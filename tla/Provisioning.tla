---------------------------- MODULE Provisioning ----------------------------
(***************************************************************************)
(* How a router gets an owner and credentials: the claim form of the       *)
(* dashboard (ClaimDevice), the check-in of the agent (RouterCheckIn, and  *)
(* perform_provision_checkin on the router), the broker's question whether *)
(* a token is good (InternalMqttAuth), and the telemetry that a connected  *)
(* router sends (IngestTelemetryRecord), over one table of devices.        *)
(*                                                                         *)
(* Every handler reads a row, decides, and writes the whole row back, in   *)
(* statements of their own: no transaction and no lock.  Each statement is *)
(* a step, and every handler in flight keeps the copy it read.             *)
(*                                                                         *)
(* A token is a number, and bcrypt is one to one: the hash of a token is   *)
(* the token.  Columns that decide nothing here (name, group, status,      *)
(* addresses) are left out.                                                *)
(***************************************************************************)
EXTENDS Integers, FiniteSets

CONSTANTS
    Devices,   \* serial numbers
    MacOf,     \* per device: the MAC address its agent reports
    Mistyped,  \* MAC addresses that a claim may carry besides the router's own
    Orgs,      \* the organizations whose people claim devices
    Secrets,   \* what may be typed as the secret on a device's label
    Claims,    \* claims that may be made
    Slots,     \* bound: check-in handlers that may be at work at once
    None,      \* NULL
    EnrollOrg, \* the organization of the enrollment token
    MaxUses,   \* the quota of the enrollment token
    Enrolling, \* the devices whose agent sends the enrollment token
    Claimable, \* the devices somebody wants to claim
    Slow,      \* a handler may outlive the agent's wait for its answer
    MaxLost,   \* bound: answers to check-ins that do not arrive
    MaxDrops,  \* bound: MQTT connections that break, and restarts of agents
    MaxFailedInits \* bound: attempts to start MQTT that fail at once

ASSUME OrgAssumption ==
    None \notin Orgs \cup {EnrollOrg} \cup Devices \cup Secrets \cup Slots
ASSUME MacAssumption == MacOf = [d \in Devices |-> MacOf[d]]
ASSUME DeviceAssumption == Enrolling \subseteq Devices /\ Claimable \subseteq Devices
ASSUME FiniteAssumption ==
    IsFiniteSet(Devices) /\ IsFiniteSet(Claims) /\ IsFiniteSet(Slots)
ASSUME BoundAssumption ==
    /\ MaxUses \in Nat /\ MaxLost \in Nat /\ MaxDrops \in Nat /\ MaxFailedInits \in Nat
    /\ Slow \in BOOLEAN

VARIABLES
    row,     \* per device: its row in the table, which may not exist
    enroll,  \* the enrollment token: its uses counted so far, and whether it is
             \* there and has not expired
    claim,   \* per claim: the handler
    checkin, \* per slot: the handler of a check-in
    agent,   \* per device: the agent on the router, and its MQTT connection
    ingest,  \* the backend's MQTT callback, which runs one message at a time
    faults   \* answers lost, connections broken and failed starts of MQTT so far

vars == <<row, enroll, claim, checkin, agent, ingest, faults>>

NoToken == 0
Owners  == Orgs \cup {EnrollOrg}
Macs    == {MacOf[d] : d \in Devices} \cup Mistyped

Row == [exists : BOOLEAN, mac : Macs \cup {None}, org : Owners \cup {None}, hash : Nat,
        secret : Secrets \cup {None}]

NoRow == [exists |-> FALSE, mac |-> None, org |-> None, hash |-> NoToken, secret |-> None]

Claim == [pc : {"idle", "save", "done"}, dev : Devices \cup {None}, org : Orgs \cup {None},
          secret : Secrets \cup {None}, mac : Macs \cup {None}, copy : Row]

CheckInPc == {"idle", "read", "enroll", "count", "bind", "create", "save", "reply"}

CheckIn == [pc : CheckInPc, dev : Devices \cup {None}, copy : Row, uses : Nat, token : Nat]

\* waiting: the handler whose answer the agent waits for; a token is kept in
\* flash, and makes the agent provisioned.  mqtt: libmosquitto's thread runs, or
\* init_mqtt gave up before it started the thread.
Agent == [waiting : Slots \cup {None}, token : Nat, mqtt : {"off", "runs", "failed"},
          link : {"never", "up", "down"}]

NoCheckIn == [pc |-> "idle", dev |-> None, copy |-> NoRow, uses |-> 0, token |-> NoToken]
NoIngest  == [busy |-> FALSE, dev |-> None, copy |-> NoRow]

Init ==
    /\ row = [d \in Devices |-> NoRow]
    /\ enroll = [used |-> 0, valid |-> TRUE]
    /\ claim = [c \in Claims |-> [pc |-> "idle", dev |-> None, org |-> None,
                                  secret |-> None, mac |-> None, copy |-> NoRow]]
    /\ checkin = [k \in Slots |-> NoCheckIn]
    /\ agent = [d \in Devices |-> [waiting |-> None, token |-> NoToken, mqtt |-> "off",
                                   link |-> "never"]]
    /\ ingest = NoIngest
    /\ faults = [lost |-> 0, drops |-> 0, inits |-> 0]

\* GenerateSecureToken: a token that nobody has.
InUse == {row[d].hash : d \in Devices} \cup {agent[d].token : d \in Devices}
         \cup {claim[c].copy.hash : c \in Claims}
         \cup {checkin[k].copy.hash : k \in Slots} \cup {checkin[k].token : k \in Slots}
         \cup {ingest.copy.hash}

FreshToken == CHOOSE t \in 1..Cardinality(InUse) + 1 : t \notin InUse

-----------------------------------------------------------------------------
(* ClaimDevice.                                                            *)

\* What the handler does not accept when it has read the row.
OtherOwner(d, o)  == row[d].org \notin {None, o}
WrongSecret(d, s) == row[d].secret \notin {None, s}

ClaimRefused(c, d, o, s) ==
    /\ claim[c].pc = "idle" /\ d \in Claimable
    /\ OtherOwner(d, o) \/ WrongSecret(d, s)
    /\ claim' = [claim EXCEPT ![c].pc = "done"]
    /\ UNCHANGED <<row, enroll, checkin, agent, ingest, faults>>

ClaimRead(c, d, o, s, m) ==
    /\ claim[c].pc = "idle" /\ d \in Claimable
    /\ ~OtherOwner(d, o) /\ ~WrongSecret(d, s)
    /\ claim' = [claim EXCEPT ![c] = [pc |-> "save", dev |-> d, org |-> o,
                                      secret |-> s, mac |-> m, copy |-> row[d]]]
    /\ UNCHANGED <<row, enroll, checkin, agent, ingest, faults>>

\* Mutant of ClaimedRow: the credentials stay as they were.
ClaimedRowKept(c) ==
    LET h == claim[c] IN
    [exists |-> TRUE, org |-> h.org, hash |-> h.copy.hash,
     mac |-> IF h.copy.exists THEN h.copy.mac ELSE h.mac,
     secret |-> IF h.copy.exists THEN h.copy.secret ELSE h.secret]

\* The copy, with its new owner and credentials.  A new row takes the address and
\* the secret from the form; one that a check-in made stays without a secret.
ClaimedRow(c) ==
    LET h == claim[c] IN
    [exists |-> TRUE, org |-> h.org, hash |-> FreshToken,
     mac |-> IF h.copy.exists THEN h.copy.mac ELSE h.mac,
     secret |-> IF h.copy.exists THEN h.copy.secret ELSE h.secret]

\* Serial numbers and MAC addresses are unique in the table.
Collides(d, m) ==
    row[d].exists \/ \E e \in Devices \ {d} : row[e].exists /\ row[e].mac = m

\* Save inserts what had no row, and fails if a row is in its way by now; what had
\* a row it overwrites, whatever became of the row.
ClaimSave(c) ==
    LET d == claim[c].dev IN
    /\ claim[c].pc = "save"
    /\ row' = [row EXCEPT ![d] = IF ~claim[c].copy.exists /\ Collides(d, claim[c].mac)
                                 THEN @ ELSE ClaimedRow(c)]
    /\ claim' = [claim EXCEPT ![c].pc = "done", ![c].copy = NoRow]
    /\ UNCHANGED <<enroll, checkin, agent, ingest, faults>>

-----------------------------------------------------------------------------
(* RouterCheckIn.                                                          *)

CheckInAt(k, pc) == checkin[k].pc = pc
CheckInTo(k, pc) == checkin' = [checkin EXCEPT ![k].pc = pc]

\* An agent without a token asks, and asks again 30 s after an answer that
\* brings none or does not come.
CheckInSent(k, d) ==
    /\ CheckInAt(k, "idle") /\ agent[d].token = NoToken /\ agent[d].waiting = None
    /\ agent' = [agent EXCEPT ![d].waiting = k]
    /\ checkin' = [checkin EXCEPT ![k] = [NoCheckIn EXCEPT !.pc = "read", !.dev = d]]
    /\ UNCHANGED <<row, enroll, claim, ingest, faults>>

Owned(d) == row[d].org # None

\* Mutant of AfterRead: a row without an owner gets credentials too.
AfterReadListed(d) == CASE row[d].exists -> "save"
                        [] ~row[d].exists /\ d \in Enrolling -> "enroll"
                        [] OTHER -> "create"

\* A device that is not in the table is registered, with the owner of its
\* enrollment token if it has one; an owned one gets new credentials; one that
\* waits for its owner is told so.
AfterRead(d) == CASE Owned(d) -> "save"
                  [] ~Owned(d) /\ row[d].exists -> "reply"
                  [] ~row[d].exists /\ d \in Enrolling -> "enroll"
                  [] OTHER -> "create"

CheckInRead(k) ==
    LET d == checkin[k].dev IN
    /\ CheckInAt(k, "read")
    /\ checkin' = [checkin EXCEPT ![k].pc = AfterRead(d), ![k].copy = row[d]]
    /\ UNCHANGED <<row, enroll, claim, agent, ingest, faults>>

\* Mutant of HasQuota: one use too many.
HadQuota == enroll.valid /\ enroll.used <= MaxUses

HasQuota == enroll.valid /\ enroll.used < MaxUses

EnrollRead(k) ==
    /\ CheckInAt(k, "enroll")
    /\ checkin' = [checkin EXCEPT ![k].pc = IF HasQuota THEN "count" ELSE "create",
                                  ![k].uses = enroll.used]
    /\ UNCHANGED <<row, enroll, claim, agent, ingest, faults>>

\* The count that was read, plus one.
CountUse(k) ==
    /\ CheckInAt(k, "count")
    /\ enroll' = [enroll EXCEPT !.used = checkin[k].uses + 1]
    /\ CheckInTo(k, "bind")
    /\ UNCHANGED <<row, claim, agent, ingest, faults>>

\* Create fails if there is a row by now, or another device's row has the MAC
\* address.  Nobody looks at the error, and the answer brings the token all the
\* same.
Inserted(d, r) == [row EXCEPT ![d] = IF Collides(d, r.mac) THEN @ ELSE r]

CreateBound(k) ==
    /\ CheckInAt(k, "bind")
    /\ row' = Inserted(checkin[k].dev,
                       [exists |-> TRUE, mac |-> MacOf[checkin[k].dev], org |-> EnrollOrg,
                        hash |-> FreshToken, secret |-> None])
    /\ checkin' = [checkin EXCEPT ![k].pc = "reply", ![k].token = FreshToken]
    /\ UNCHANGED <<enroll, claim, agent, ingest, faults>>

CreateUnclaimed(k) ==
    /\ CheckInAt(k, "create")
    /\ row' = Inserted(checkin[k].dev,
                       [NoRow EXCEPT !.exists = TRUE, !.mac = MacOf[checkin[k].dev]])
    /\ CheckInTo(k, "reply")
    /\ UNCHANGED <<enroll, claim, agent, ingest, faults>>

\* Mutant of Refreshed: the new hash is not in the row that is saved.
NotRefreshed(k, t) == checkin[k].copy

Refreshed(k, t) == [checkin[k].copy EXCEPT !.hash = t]

SaveCredentials(k) ==
    /\ CheckInAt(k, "save")
    /\ row' = [row EXCEPT ![checkin[k].dev] = Refreshed(k, FreshToken)]
    /\ checkin' = [checkin EXCEPT ![k].pc = "reply", ![k].token = FreshToken,
                                  ![k].copy = NoRow]
    /\ UNCHANGED <<enroll, claim, agent, ingest, faults>>

\* Mutant of Answered: an agent that gets no token does not ask again.
AnsweredOnce(k) ==
    LET d == checkin[k].dev IN
    /\ CheckInAt(k, "reply")
    /\ agent' = [agent EXCEPT ![d] = IF @.waiting # k \/ checkin[k].token = NoToken THEN @
                    ELSE [@ EXCEPT !.waiting = None, !.token = checkin[k].token]]
    /\ checkin' = [checkin EXCEPT ![k] = NoCheckIn]
    /\ UNCHANGED <<row, enroll, claim, ingest, faults>>

\* The answer reaches an agent that still waits for it: with a token, it is
\* provisioned for good.
Answered(k) ==
    LET d == checkin[k].dev IN
    /\ CheckInAt(k, "reply")
    /\ agent' = [agent EXCEPT ![d] = IF @.waiting # k THEN @
                    ELSE [@ EXCEPT !.waiting = None, !.token = checkin[k].token]]
    /\ checkin' = [checkin EXCEPT ![k] = NoCheckIn]
    /\ UNCHANGED <<row, enroll, claim, ingest, faults>>

\* The answer is lost on its way, or the agent's wait is over, or the agent is
\* restarted; the handler knows nothing of it.
GiveUp(d) ==
    LET k == agent[d].waiting IN
    /\ k # None /\ (Slow \/ CheckInAt(k, "reply"))
    /\ faults.lost < MaxLost
    /\ agent' = [agent EXCEPT ![d].waiting = None]
    /\ faults' = [faults EXCEPT !.lost = @ + 1]
    /\ UNCHANGED <<row, enroll, claim, checkin, ingest>>

\* The token is deleted by its owner, or expires.
EnrollEnds ==
    /\ enroll.valid
    /\ enroll' = [enroll EXCEPT !.valid = FALSE]
    /\ UNCHANGED <<row, claim, checkin, agent, ingest, faults>>

-----------------------------------------------------------------------------
(* The connection to the broker, and telemetry.                            *)

\* InternalMqttAuth, asked by the broker when the agent connects.
Accepted(d) == row[d].exists /\ row[d].hash # NoToken /\ row[d].hash = agent[d].token

\* A provisioned agent starts MQTT once, when it gets its token or is started.
InitMqtt(d) ==
    /\ agent[d].token # NoToken /\ agent[d].mqtt = "off"
    /\ agent' = [agent EXCEPT ![d].mqtt = "runs"]
    /\ UNCHANGED <<row, enroll, claim, checkin, ingest, faults>>

\* mosquitto_connect_async fails (no network, no name server).  Nobody looks at
\* the result of init_mqtt, and nobody calls it again.
InitMqttFails(d) ==
    /\ agent[d].token # NoToken /\ agent[d].mqtt = "off"
    /\ faults.inits < MaxFailedInits
    /\ agent' = [agent EXCEPT ![d].mqtt = "failed"]
    /\ faults' = [faults EXCEPT !.inits = @ + 1]
    /\ UNCHANGED <<row, enroll, claim, checkin, ingest>>

Connect(d) ==
    /\ agent[d].mqtt = "runs" /\ agent[d].link # "up" /\ Accepted(d)
    /\ agent' = [agent EXCEPT ![d].link = "up"]
    /\ UNCHANGED <<row, enroll, claim, checkin, ingest, faults>>

\* libmosquitto tries again, always with the same token: a provisioned agent
\* does not check in any more.
ConnectRefused(d) ==
    /\ agent[d].mqtt = "runs" /\ agent[d].link # "up" /\ ~Accepted(d)
    /\ UNCHANGED vars

Drop(d) ==
    /\ agent[d].link = "up" /\ faults.drops < MaxDrops
    /\ agent' = [agent EXCEPT ![d].link = "down"]
    /\ faults' = [faults EXCEPT !.drops = @ + 1]
    /\ UNCHANGED <<row, enroll, claim, checkin, ingest>>

\* The agent, or the router, is restarted; the token is in flash.
Restart(d) ==
    /\ agent[d].mqtt # "off" /\ faults.drops < MaxDrops
    /\ agent' = [agent EXCEPT ![d].mqtt = "off",
                              ![d].link = IF @ = "up" THEN "down" ELSE @]
    /\ faults' = [faults EXCEPT !.drops = @ + 1]
    /\ UNCHANGED <<row, enroll, claim, checkin, ingest>>

\* Telemetry that a connected router sent, however late it is delivered.
IngestRead(d) ==
    /\ ~ingest.busy /\ agent[d].link # "never"
    /\ ingest' = [busy |-> TRUE, dev |-> d, copy |-> row[d]]
    /\ UNCHANGED <<row, enroll, claim, checkin, agent, faults>>

\* All columns are written, those that were only read included.
IngestSave ==
    /\ ingest.busy
    /\ row' = [row EXCEPT ![ingest.dev] = ingest.copy]
    /\ ingest' = NoIngest
    /\ UNCHANGED <<enroll, claim, checkin, agent, faults>>

-----------------------------------------------------------------------------
ClaimNext(c) ==
    \/ ClaimSave(c)
    \/ \E d \in Devices, o \in Orgs, s \in Secrets :
          \/ ClaimRefused(c, d, o, s)
          \/ \E m \in {MacOf[d]} \cup Mistyped : ClaimRead(c, d, o, s, m)

CheckInHandler(k) ==
    \/ CheckInRead(k) \/ EnrollRead(k) \/ CountUse(k)
    \/ CreateBound(k) \/ CreateUnclaimed(k) \/ SaveCredentials(k)
    \/ Answered(k)

AgentAsks(d) == \E k \in Slots : CheckInSent(k, d)

Next ==
    \/ \E c \in Claims : ClaimNext(c)
    \/ \E k \in Slots : CheckInHandler(k)
    \/ \E d \in Devices : AgentAsks(d) \/ GiveUp(d)
    \/ \E d \in Devices : InitMqtt(d) \/ InitMqttFails(d) \/ Restart(d)
    \/ \E d \in Devices : Connect(d) \/ ConnectRefused(d) \/ Drop(d) \/ IngestRead(d)
    \/ EnrollEnds
    \/ IngestSave

\* Handlers that were started run to their end, agents keep asking and call
\* init_mqtt when they are provisioned, and libmosquitto, if it was started, keeps
\* reconnecting; nobody has to claim anything.
Fairness ==
    /\ \A c \in Claims : WF_vars(ClaimSave(c))
    /\ \A k \in Slots : WF_vars(CheckInHandler(k))
    /\ \A d \in Devices : /\ WF_vars(AgentAsks(d)) /\ WF_vars(Connect(d))
                         /\ WF_vars(InitMqtt(d) \/ InitMqttFails(d))
    /\ WF_vars(IngestSave)

Spec     == Init /\ [][Next]_vars
FairSpec == Spec /\ Fairness

-----------------------------------------------------------------------------
(* What must hold.                                                         *)

TypeOK ==
    /\ row \in [Devices -> Row]
    /\ enroll \in [used : 0..MaxUses, valid : BOOLEAN]
    /\ claim \in [Claims -> Claim]
    /\ checkin \in [Slots -> CheckIn]
    /\ agent \in [Devices -> Agent]
    /\ ingest \in [busy : BOOLEAN, dev : Devices \cup {None}, copy : Row]
    /\ faults \in [lost : 0..MaxLost, drops : 0..MaxDrops, inits : 0..MaxFailedInits]

\* Credentials and an owner come together: no router without an owner can get
\* on the broker, and every owned one has credentials that could be right.
CredentialedIffOwned ==
    \A d \in Devices : row[d].org # None <=> row[d].hash # NoToken

\* A device that has an owner never loses it: no handler, whatever stale copy
\* it holds, writes back a row without one.
StaysOwned == [][\A d \in Devices : Owned(d) => Owned(d)']_vars

\* "Absolute database locks prevent cross-tenant claims": a device stays with
\* its first owner.
OneOwner ==
    [][\A d \in Devices : Owned(d) => row'[d].org = row[d].org]_vars

\* When nothing is under way for a device whose agent is provisioned, the token
\* the agent keeps is the one the backend knows (so long as no other row has the
\* MAC address of the device, and no claim overtakes its enrollment).
AtRest(d) ==
    /\ \A c \in Claims : claim[c].pc = "save" => claim[c].dev # d
    /\ \A k \in Slots : checkin[k].dev # d
    /\ ingest.dev # d

NoLockout ==
    \A d \in Devices : (agent[d].token # NoToken /\ AtRest(d)) => Accepted(d)

\* "Router will connect on next check-in": an owned device gets on the broker,
\* and back on it, unless its agent's one attempt to start MQTT failed.
OwnedConnects ==
    \A d \in Devices : Owned(d) ~> (agent[d].link = "up" \/ agent[d].mqtt = "failed")

=============================================================================
